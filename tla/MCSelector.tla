----------------------------- MODULE MCSelector -----------------------------
(* Small instances of Selector: two hosts, and all selectors of up to two terms *)
(* of up to two requirements.                                                   *)
EXTENDS Selector, TLC

Disk == Device("/dev/sdb", "disk", Null, 10)
Loop == Device("/dev/loop0", "loop", Null, 5)
Boot == Device("/dev/sda", "disk", Null, 20)
Root == Device("/dev/sda1", "part", Text("ext4"), 19)

TwoForests == {<<1>> :> Boot @@ <<1, 1>> :> Root @@ <<2>> :> Disk,
               <<1>> :> Loop @@ <<2>> :> Disk}

\* The recursion of RecursiveBlockDevices: the k-th child of p, what is below it, and
\* the children after it.
RECURSIVE Recursion(_, _, _)
Recursion(f, p, k) ==
    LET q == Append(p, k)
    IN  IF q \notin DOMAIN f THEN <<>>
        ELSE <<f[q]>> \o Recursion(f, q, 1) \o Recursion(f, p, k + 1)

\* All forests of at most three levels, two devices at the top, two below each of
\* them and one below each of those. Which device is where, its path tells.
Places == {<<i>> : i \in 1 .. 2} \cup {<<i, j>> : i, j \in 1 .. 2} \cup {<<i, j, 1>> : i, j \in 1 .. 2}
Grown(D) == \A p \in D : /\ Len(p) > 1 => SubSeq(p, 1, Len(p) - 1) \in D
                         /\ p[Len(p)] > 1 => [p EXCEPT ![Len(p)] = @ - 1] \in D
ASSUME ListIsRecursion ==
    \A D \in {E \in SUBSET Places : Grown(E)} :
        LET f == [p \in D |-> Device(p, "disk", Null, 1)]
        IN  RecursiveBlockDevices(f) = Recursion(f, <<>>, 1)

Requirements == {
    Requirement("PATH", "In", <<Text("/dev/sdb")>>),
    Requirement("PATH", "In", <<Text("/dev/sda1"), Text("/dev/sdb")>>),
    Requirement("TYPE", "In", <<Text("disk"), Text("loop")>>),
    Requirement("TYPE", "In", <<Text("part"), Text("lvm")>>),
    Requirement("FSTYPE", "In", <<Text("ext4")>>),
    Requirement("FSTYPE", "DoesNotExist", <<>>),
    Requirement("FSTYPE", "Exists", <<>>),
    Requirement("SIZE", "Exists", <<>>),
    Requirement("SIZE", "Gt", <<Number(6)>>),
    Requirement("SIZE", "Gt", <<Text("big")>>),
    Requirement("TYPE", "NotIn", <<Text("loop")>>)}

Terms == {<<>>} \cup {<<r>> : r \in Requirements} \cup {<<r, q>> : r, q \in Requirements}

ManySelectors == {<<>>} \cup {<<a>> : a \in Terms} \cup {<<a, b>> : a, b \in Terms}

\* One selector with a term of each kind the code and the documentation disagree on.
DocumentedSelectors ==
    {<<<<>>,
       <<Requirement("TYPE", "NotIn", <<Text("loop")>>)>>,
       <<Requirement("SIZE", "Gt", <<Number(6)>>)>>>>}
=============================================================================
