--------------------------- MODULE SelectorProofs ---------------------------
(***************************************************************************)
(* What a selector stands for, for trees of devices and selectors of any   *)
(* size: the list of lsblk has every device of the tree once, plain        *)
(* selectors select what the API documents, and what lvm2 makes of the     *)
(* devices does not change what steady ones select.                        *)
(***************************************************************************)
EXTENDS Selector, FiniteSetTheorems, TLAPS

-----------------------------------------------------------------------------
(* The tree as a list *)

\* A set of natural numbers that is not empty has a least member.
LEMMA LeastNat ==
    ASSUME NEW T \in SUBSET Nat, T # {}
    PROVE  \E k \in T : \A i \in T : k <= i
<1>1. PICK k \in T : \A i \in T : ~(<<i, k>> \in OpToRel(<, Nat))
    BY NatLessThanWellFounded, WFMin, ZenonT(30)
<1>2. ASSUME NEW i \in T, i < k
      PROVE  <<i, k>> \in OpToRel(<, Nat)
    BY <1>2 DEF OpToRel
<1>3. \A i \in T : ~(i < k)
    BY <1>1, <1>2, Zenon
<1> QED BY <1>3

\* ComesBefore orders the places of a tree: it is irreflexive and transitive, and of
\* two places one comes first.
LEMMA BeforeIrreflexive ==
    ASSUME NEW p \in Seq(Nat)
    PROVE  ~ComesBefore(p, p)
BY DEF ComesBefore

LEMMA BeforeTransitive ==
    ASSUME NEW p \in Seq(Nat), NEW q \in Seq(Nat), NEW r \in Seq(Nat),
           ComesBefore(p, q), ComesBefore(q, r)
    PROVE  ComesBefore(p, r)
<1>1. PICK k \in 1 .. Len(q) : /\ k - 1 <= Len(p)
                               /\ \A i \in 1 .. k - 1 : p[i] = q[i]
                               /\ k - 1 = Len(p) \/ p[k] < q[k]
    BY DEF ComesBefore
<1>2. PICK m \in 1 .. Len(r) : /\ m - 1 <= Len(q)
                               /\ \A i \in 1 .. m - 1 : q[i] = r[i]
                               /\ m - 1 = Len(q) \/ q[m] < r[m]
    BY DEF ComesBefore
<1>3. k \in Nat /\ m \in Nat /\ Len(p) \in Nat /\ Len(q) \in Nat /\ Len(r) \in Nat
    OBVIOUS
<1>4. CASE k < m
    <2>1. k \in 1 .. Len(r) /\ q[k] = r[k]
        BY <1>2, <1>3, <1>4
    <2>2. \A i \in 1 .. k - 1 : p[i] = r[i]
        BY <1>1, <1>2, <1>3, <1>4
    <2> QED BY <1>1, <2>1, <2>2 DEF ComesBefore
<1>5. CASE k = m
    <2>1. q[k] < r[k]
        BY <1>2, <1>3, <1>5
    <2>2. \A i \in 1 .. k - 1 : p[i] = r[i]
        BY <1>1, <1>2, <1>3, <1>5
    <2>3. k - 1 = Len(p) \/ p[k] < r[k]
        <3>1. CASE k - 1 # Len(p)
            <4>1. p[k] \in Nat /\ q[k] \in Nat /\ r[k] \in Nat
                BY <1>1, <1>2, <1>3, <1>5, <3>1, SMTT(30)
            <4>2. p[k] < q[k]
                BY <1>1, <3>1
            <4> QED BY <2>1, <4>1, <4>2, SMTT(30)
        <3> QED BY <3>1
    <2> QED BY <1>1, <1>5, <2>2, <2>3 DEF ComesBefore
<1>6. CASE m < k
    <2>1. /\ m - 1 <= Len(p)
          /\ p[m] = q[m]
          /\ q[m] < r[m]
        BY <1>1, <1>2, <1>3, <1>6, SMTT(30)
    <2>2. \A i \in 1 .. m - 1 : p[i] = r[i]
        BY <1>1, <1>2, <1>3, <1>6
    <2> QED BY <2>1, <2>2 DEF ComesBefore
<1> QED BY <1>3, <1>4, <1>5, <1>6

LEMMA BeforeTotal ==
    ASSUME NEW p \in Seq(Nat), NEW q \in Seq(Nat), p # q
    PROVE  ComesBefore(p, q) \/ ComesBefore(q, p)
<1>1. Len(p) \in Nat /\ Len(q) \in Nat
    OBVIOUS
<1> DEFINE Differ(k) == k > Len(p) \/ k > Len(q) \/ p[k] # q[k]
           T == {k \in 1 .. Len(p) + Len(q) : Differ(k)}
<1>2. T # {}
    <2> SUFFICES ASSUME T = {} PROVE FALSE
        OBVIOUS
    <2>1. ~(Len(p) < Len(q))
        <3> SUFFICES ASSUME Len(p) < Len(q) PROVE FALSE
            OBVIOUS
        <3>1. Len(p) + 1 \in T
            BY <1>1
        <3> QED BY <3>1
    <2>2. ~(Len(q) < Len(p))
        <3> SUFFICES ASSUME Len(q) < Len(p) PROVE FALSE
            OBVIOUS
        <3>1. Len(q) + 1 \in T
            BY <1>1
        <3> QED BY <3>1
    <2>3. Len(p) = Len(q)
        BY <1>1, <2>1, <2>2
    <2>4. \A k \in 1 .. Len(p) : p[k] = q[k]
        BY <1>1
    <2> QED BY <2>3, <2>4, SMTT(30)
<1>3. T \in SUBSET Nat
    BY <1>1
<1>4. PICK k \in T : \A i \in T : k <= i
    <2> HIDE DEF T
    <2> QED BY <1>2, <1>3, LeastNat
<1>5. k \in 1 .. Len(p) + Len(q) /\ k \in Nat /\ Differ(k)
    BY <1>1, <1>4
<1>6. ASSUME NEW i \in 1 .. k - 1
      PROVE  ~Differ(i)
    <2>1. i \in 1 .. Len(p) + Len(q) /\ i < k /\ i \in Nat
        BY <1>1, <1>5
    <2> QED BY <1>4, <1>5, <2>1
<1>7. /\ k - 1 <= Len(p) /\ k - 1 <= Len(q)
      /\ \A i \in 1 .. k - 1 : p[i] = q[i]
    <2>1. \A i \in 1 .. k - 1 : p[i] = q[i]
        BY <1>6
    <2>2. CASE k = 1
        BY <1>1, <2>1, <2>2
    <2>3. CASE k > 1
        <3>1. k - 1 \in 1 .. k - 1
            BY <1>5, <2>3
        <3>2. ~Differ(k - 1)
            BY <1>6, <3>1
        <3> QED BY <1>1, <1>5, <2>1, <3>2
    <2> QED BY <1>5, <2>2, <2>3
<1>8. CASE k > Len(p) /\ k > Len(q)
    <2>1. k - 1 = Len(p) /\ k - 1 = Len(q)
        BY <1>1, <1>5, <1>7, <1>8
    <2>2. \A i \in 1 .. Len(p) : p[i] = q[i]
        BY <1>7, <2>1
    <2> QED BY <2>1, <2>2, SMTT(30)
<1>9. CASE k > Len(p) /\ k <= Len(q)
    <2>1. k - 1 <= Len(p) /\ k \in Nat /\ k >= 1
        BY <1>1, <1>5, <1>7
    <2>2. k \in 1 .. Len(q) /\ k - 1 = Len(p)
        BY <1>1, <1>9, <2>1
    <2> QED BY <1>7, <2>2 DEF ComesBefore
<1>10. CASE k <= Len(p) /\ k > Len(q)
    <2>1. k - 1 <= Len(q) /\ k \in Nat /\ k >= 1
        BY <1>1, <1>5, <1>7
    <2>2. k \in 1 .. Len(p) /\ k - 1 = Len(q)
        BY <1>1, <1>10, <2>1
    <2> QED BY <1>7, <2>2 DEF ComesBefore
<1>11. CASE k <= Len(p) /\ k <= Len(q)
    <2>1. k \in 1 .. Len(p) /\ k \in 1 .. Len(q)
        BY <1>5, <1>11
    <2>2. p[k] \in Nat /\ q[k] \in Nat /\ p[k] # q[k]
        BY <1>1, <1>5, <1>11, <2>1
    <2>3. p[k] < q[k] \/ q[k] < p[k]
        BY <2>2
    <2> QED BY <1>7, <2>1, <2>3 DEF ComesBefore
<1> QED BY <1>1, <1>5, <1>8, <1>9, <1>10, <1>11

\* The indices are 1 up to the number of devices, in the order of the places.
LEMMA IndexOrders ==
    ASSUME NEW f, IsForest(f), NEW p \in DOMAIN f, NEW q \in DOMAIN f, ComesBefore(p, q)
    PROVE  Index(f, p) < Index(f, q)
<1> DEFINE B(x) == {y \in DOMAIN f : ComesBefore(y, x)}
<1>1. IsFiniteSet(DOMAIN f) /\ \A x \in DOMAIN f : x \in Seq(Nat)
    BY DEF IsForest
<1>2. IsFiniteSet(B(q)) /\ B(p) \in SUBSET B(q)
    <2>1. B(q) \in SUBSET DOMAIN f
        OBVIOUS
    <2>2. B(p) \in SUBSET B(q)
        BY <1>1, BeforeTransitive
    <2> QED BY <1>1, <2>1, <2>2, FS_Subset
<1>3. p \in B(q) /\ p \notin B(p)
    BY <1>1, BeforeIrreflexive
<1> HIDE DEF B
<1>4. /\ Cardinality(B(q)) \in Nat /\ Cardinality(B(p)) \in Nat
      /\ Cardinality(B(p)) <= Cardinality(B(q))
      /\ Cardinality(B(p)) # Cardinality(B(q))
    <2>1. IsFiniteSet(B(p))
        BY <1>2, FS_Subset
    <2>2. B(p) # B(q)
        BY <1>3
    <2> QED BY <1>2, <2>1, <2>2, FS_Subset, FS_CardinalityType
<1>5. Cardinality(B(p)) < Cardinality(B(q))
    BY <1>4
<1>6. Index(f, p) = Cardinality(B(p)) + 1 /\ Index(f, q) = Cardinality(B(q)) + 1
    BY DEF Index, B
<1> QED BY <1>4, <1>5, <1>6

LEMMA IndexIsBijection ==
    ASSUME NEW f, IsForest(f)
    PROVE  /\ Cardinality(DOMAIN f) \in Nat
           /\ \A p \in DOMAIN f : Index(f, p) \in 1 .. Cardinality(DOMAIN f)
           /\ \A p, q \in DOMAIN f : Index(f, p) = Index(f, q) => p = q
           /\ \A i \in 1 .. Cardinality(DOMAIN f) : \E p \in DOMAIN f : Index(f, p) = i
<1> DEFINE n == Cardinality(DOMAIN f)
           g == [p \in DOMAIN f |-> Index(f, p)]
<1>1. IsFiniteSet(DOMAIN f) /\ \A x \in DOMAIN f : x \in Seq(Nat)
    BY DEF IsForest
<1>2. n \in Nat
    BY <1>1, FS_CardinalityType
<1>3. ASSUME NEW p \in DOMAIN f
      PROVE  Index(f, p) \in 1 .. n
    <2> DEFINE B == {y \in DOMAIN f : ComesBefore(y, p)}
    <2>1. B \in SUBSET (DOMAIN f \ {p})
        BY <1>1, BeforeIrreflexive
    <2>2. /\ IsFiniteSet(DOMAIN f \ {p})
          /\ Cardinality(DOMAIN f \ {p}) = n - 1
        BY <1>1, FS_RemoveElement
    <2> HIDE DEF B
    <2>3. IsFiniteSet(B) /\ Cardinality(B) <= n - 1
        BY <2>1, <2>2, FS_Subset
    <2>4. Cardinality(B) \in Nat
        BY <2>3, FS_CardinalityType
    <2>5. Index(f, p) = Cardinality(B) + 1
        BY DEF Index, B
    <2> HIDE DEF n
    <2> QED BY <1>2, <2>3, <2>4, <2>5
<1>4. ASSUME NEW p \in DOMAIN f, NEW q \in DOMAIN f, Index(f, p) = Index(f, q)
      PROVE  p = q
    <2> SUFFICES ASSUME p # q PROVE FALSE
        OBVIOUS
    <2>1. ComesBefore(p, q) \/ ComesBefore(q, p)
        BY <1>1, BeforeTotal
    <2>2. Index(f, p) < Index(f, q) \/ Index(f, q) < Index(f, p)
        BY <2>1, IndexOrders
    <2>3. Index(f, p) \in 1 .. n /\ Index(f, q) \in 1 .. n
        BY <1>3
    <2> HIDE DEF n
    <2> QED BY <1>2, <1>4, <2>2, <2>3
<1>5. g \in Injection(DOMAIN f, 1 .. n)
    BY <1>3, <1>4 DEF Injection, IsInjective
<1>6. IsFiniteSet(1 .. n) /\ Cardinality(1 .. n) = n
    <2> HIDE DEF n
    <2> QED BY <1>2, FS_Interval
<1>7. g \in Surjection(DOMAIN f, 1 .. n)
    <2> HIDE DEF g
    <2> QED BY <1>5, <1>6, FS_Injection
<1>8. ASSUME NEW i \in 1 .. n
      PROVE  \E p \in DOMAIN f : Index(f, p) = i
    BY <1>7 DEF Surjection
<1> QED BY <1>2, <1>3, <1>4, <1>8

\* RecursiveBlockDevices yields every device of the tree once, wherever it is in the
\* tree, and each one before its children and those of its younger siblings.
THEOREM EveryDeviceOnce ==
    ASSUME NEW f, IsForest(f)
    PROVE  LET list == RecursiveBlockDevices(f)
           IN  /\ Len(list) = Cardinality(DOMAIN f)
               /\ \A j \in 1 .. Len(list) : \E p \in DOMAIN f : Index(f, p) = j
               /\ \A p \in DOMAIN f : Index(f, p) \in 1 .. Len(list) /\ list[Index(f, p)] = f[p]
               /\ \A p, q \in DOMAIN f : ComesBefore(p, q) => Index(f, p) < Index(f, q)
<1> DEFINE n == Cardinality(DOMAIN f)
           at(i) == CHOOSE p \in DOMAIN f : Index(f, p) = i
           list == RecursiveBlockDevices(f)
<1>1. n \in Nat
    BY IndexIsBijection
<1>2. list = [i \in 1 .. n |-> f[at(i)]]
    BY DEF RecursiveBlockDevices
<1>3. Len(list) = n
    <2> HIDE DEF n, at
    <2>1. DOMAIN list = 1 .. n
        BY <1>2
    <2> QED BY <1>1, <1>2
<1>4. ASSUME NEW p \in DOMAIN f
      PROVE  Index(f, p) \in 1 .. n /\ list[Index(f, p)] = f[p]
    <2>1. Index(f, p) \in 1 .. n
        BY IndexIsBijection
    <2>2. at(Index(f, p)) = p
        BY IndexIsBijection
    <2> HIDE DEF n, at, list
    <2> QED BY <1>2, <2>1, <2>2
<1>5. \A j \in 1 .. n : \E p \in DOMAIN f : Index(f, p) = j
    BY IndexIsBijection
<1>6. \A p, q \in DOMAIN f : ComesBefore(p, q) => Index(f, p) < Index(f, q)
    BY IndexOrders
<1> QED BY <1>3, <1>4, <1>5, <1>6
-----------------------------------------------------------------------------
(* One list of devices *)

\* A requirement that names devices compares texts, and says so or not.
LEMMA NamesMatch ==
    ASSUME NEW dev, Row(dev), NEW r, Names(r)
    PROVE  matchesLSBLKRequirement(dev, r) = IF Lists(r, dev[r.key]) THEN "match" ELSE "differ"
<1>1. matchesLSBLKRequirement(dev, r) = OpIn(dev[r.key], r)
    BY DEF Names, matchesLSBLKRequirement
<1>2. IsText(dev[r.key])
    BY DEF Names, Row
<1>3. CASE r.values = <<>>
    <2>1. ~Lists(r, dev[r.key])
        BY <1>3 DEF Lists
    <2> QED BY <1>1, <1>3, <2>1 DEF OpIn
<1>4. CASE r.values # <<>>
    BY <1>1, <1>2, <1>4 DEF OpIn, Verdict
<1> QED BY <1>3, <1>4

\* Of two rows the same requirement goes wrong for both or for none: that depends on
\* the kind of the column, and lsblk has one kind for each but the file system.
LEMMA WrongForAll ==
    ASSUME NEW dev, NEW other, Row(dev), Row(other),
           NEW r, r.key \in Column \ {"FSTYPE"},
           matchesLSBLKRequirement(dev, r) \in {"error", "panic"}
    PROVE  matchesLSBLKRequirement(other, r) \in {"error", "panic"}
<1>1. IsText(dev[r.key]) <=> IsText(other[r.key])
    BY DEF Column, Row, IsText, IsNumber
<1>2. CASE r.op = "In"
    <2>1. OpIn(dev[r.key], r) \in {"error", "panic"}
        BY <1>2 DEF matchesLSBLKRequirement
    <2>2. r.values # <<>> /\ ~IsText(dev[r.key])
        BY <2>1 DEF OpIn, Verdict
    <2>3. OpIn(other[r.key], r) = "panic"
        BY <1>1, <2>2 DEF OpIn
    <2> QED BY <1>2, <2>3 DEF matchesLSBLKRequirement
<1>3. CASE r.op = "Gt"
    <2>1. OpGt(dev[r.key], r) = OpGt(other[r.key], r)
        BY DEF OpGt
    <2> QED BY <1>3, <2>1 DEF matchesLSBLKRequirement
<1>4. CASE r.op \notin {"In", "Gt"}
    BY <1>4 DEF matchesLSBLKRequirement
<1> QED BY <1>2, <1>3, <1>4

\* A selection that ends well is the union over the terms of the devices that meet all
\* of a term.
LEMMA MatchingIs ==
    ASSUME NEW sel, NEW devices, Wrong(sel, devices) = {}
    PROVE  Matching(sel, devices) =
              [end |-> "ok",
               paths |-> {devices[j].PATH : j \in {d \in 1 .. Len(devices) :
                             \E i \in 1 .. Len(sel) : AllMet(devices[d], sel[i])}}]
BY DEF Matching

\* Trials are of a term, a device and a requirement of that term.
LEMMA TrialsAre ==
    ASSUME NEW sel, NEW devices
    PROVE  \A t : t \in Trials(sel, devices) <=>
              \E i \in 1 .. Len(sel) : \E j \in 1 .. Len(devices), k \in 1 .. Len(sel[i]) :
                  t = <<i, j, k>>
BY DEF Trials

\* What goes wrong is a requirement of a term with a device.
LEMMA WrongIs ==
    ASSUME NEW sel, NEW devices
    PROVE  Wrong(sel, devices) # {} <=>
              \E i \in 1 .. Len(sel) : \E j \in 1 .. Len(devices), k \in 1 .. Len(sel[i]) :
                  matchesLSBLKRequirement(devices[j], sel[i][k]) \in {"error", "panic"}
<1>1. ASSUME NEW i \in 1 .. Len(sel), NEW j \in 1 .. Len(devices), NEW k \in 1 .. Len(sel[i])
      PROVE  /\ <<i, j, k>> \in Trials(sel, devices)
             /\ Outcome(sel, devices, <<i, j, k>>) = matchesLSBLKRequirement(devices[j], sel[i][k])
    BY TrialsAre DEF Outcome
<1>2. ASSUME NEW t \in Wrong(sel, devices)
      PROVE  \E i \in 1 .. Len(sel) : \E j \in 1 .. Len(devices), k \in 1 .. Len(sel[i]) :
                  matchesLSBLKRequirement(devices[j], sel[i][k]) \in {"error", "panic"}
    BY <1>1, TrialsAre DEF Wrong
<1>3. ASSUME NEW i \in 1 .. Len(sel), NEW j \in 1 .. Len(devices), NEW k \in 1 .. Len(sel[i]),
             matchesLSBLKRequirement(devices[j], sel[i][k]) \in {"error", "panic"}
      PROVE  <<i, j, k>> \in Wrong(sel, devices)
    BY <1>1, <1>3 DEF Wrong
<1> QED BY <1>2, <1>3

\* For plain selectors the code selects what volumegroup_types.go documents, from any
\* list of devices, and neither an error nor a failed assertion ends it.
LEMMA PlainMatching ==
    ASSUME NEW sel, NEW devices, PlainSelector(sel), \A j \in 1 .. Len(devices) : Row(devices[j])
    PROVE  Matching(sel, devices) = [end |-> "ok",
                                       paths |-> {devices[j].PATH : j \in
                                           {d \in 1 .. Len(devices) : MeetsSome(devices[d], sel)}}]
<1>1. ASSUME NEW i \in 1 .. Len(sel), NEW j \in 1 .. Len(devices), NEW k \in 1 .. Len(sel[i])
      PROVE  /\ matchesLSBLKRequirement(devices[j], sel[i][k]) \in {"match", "differ"}
             /\ matchesLSBLKRequirement(devices[j], sel[i][k]) = "match" <=> Meets(devices[j], sel[i][k])
    <2> DEFINE r == sel[i][k]
               dev == devices[j]
    <2>1. Row(dev) /\ Names(r)
        BY DEF PlainSelector
    <2> HIDE DEF r, dev
    <2>2. matchesLSBLKRequirement(dev, r) = IF Lists(r, dev[r.key]) THEN "match" ELSE "differ"
        BY <2>1, NamesMatch
    <2>3. Meets(dev, r) <=> Lists(r, dev[r.key])
        BY <2>1 DEF Meets, Names
    <2>4. /\ matchesLSBLKRequirement(dev, r) \in {"match", "differ"}
          /\ matchesLSBLKRequirement(dev, r) = "match" <=> Meets(dev, r)
        BY <2>2, <2>3
    <2> QED BY <2>4 DEF r, dev
<1>2. Wrong(sel, devices) = {}
    <2> SUFFICES ASSUME NEW i \in 1 .. Len(sel), NEW j \in 1 .. Len(devices),
                        NEW k \in 1 .. Len(sel[i])
                 PROVE  matchesLSBLKRequirement(devices[j], sel[i][k]) \notin {"error", "panic"}
        BY WrongIs
    <2> QED BY <1>1
<1>3. ASSUME NEW i \in 1 .. Len(sel), NEW j \in 1 .. Len(devices)
      PROVE  AllMet(devices[j], sel[i]) <=>
                sel[i] # <<>> /\ \A k \in 1 .. Len(sel[i]) : Meets(devices[j], sel[i][k])
    BY <1>1 DEF AllMet, PlainSelector
<1> DEFINE Selected == {d \in 1 .. Len(devices) : \E i \in 1 .. Len(sel) : AllMet(devices[d], sel[i])}
           Meant == {d \in 1 .. Len(devices) : MeetsSome(devices[d], sel)}
<1>4. Selected = Meant
    BY <1>3 DEF MeetsSome
<1>5. Matching(sel, devices) = [end |-> "ok", paths |-> {devices[j].PATH : j \in Selected}]
    BY <1>2, MatchingIs
<1> HIDE DEF Selected
<1> QED BY <1>4, <1>5

\* What lvm2 leaves of a device that it labels.
Same(dev, other) == \A c \in Column \ {"FSTYPE"} : dev[c] = other[c]

\* A selector whose terms do not look at the file system selects the same devices when
\* they have been labelled and LVs, which it does not name, have come up on them,
\* wherever in the list of lsblk: if nothing went wrong at creation, a later sync
\* neither goes wrong nor takes a PV out of the VG or adds one.
LEMMA SteadyMatching ==
    ASSUME NEW sel, NEW devices, NEW later, NEW lv, IsSelector(sel), SteadySelector(sel, lv),
           \A j \in 1 .. Len(devices) : Row(devices[j]),
           \A j \in 1 .. Len(later) : Row(later[j]),
           \A j \in 1 .. Len(devices) : \E l \in 1 .. Len(later) : Same(later[l], devices[j]),
           \A l \in 1 .. Len(later) :
               later[l] = lv \/ \E j \in 1 .. Len(devices) : Same(later[l], devices[j]),
           Matching(sel, devices).paths # {}
    PROVE  Matching(sel, later) = Matching(sel, devices)
<1>0. ASSUME NEW i \in 1 .. Len(sel), NEW k \in 1 .. Len(sel[i])
      PROVE  sel[i][k].key \in Column \ {"FSTYPE"}
    BY DEF SteadySelector, IsSelector
<1> DEFINE Selected(list) == {d \in 1 .. Len(list) :
                                 \E i \in 1 .. Len(sel) : AllMet(list[d], sel[i])}
<1>ok. Wrong(sel, devices) = {}
    BY DEF Matching
<1>1. Matching(sel, devices) = [end |-> "ok", paths |-> {devices[j].PATH : j \in Selected(devices)}]
    BY <1>ok, MatchingIs
<1>2. PICK first \in 1 .. Len(devices) : TRUE
    BY <1>1
<1>3. Wrong(sel, later) = {}
    <2> SUFFICES ASSUME NEW i \in 1 .. Len(sel), NEW l \in 1 .. Len(later), NEW k \in 1 .. Len(sel[i]),
                        matchesLSBLKRequirement(later[l], sel[i][k]) \in {"error", "panic"}
                 PROVE  FALSE
        BY WrongIs
    <2>1. matchesLSBLKRequirement(devices[first], sel[i][k]) \in {"error", "panic"}
        BY <1>0, WrongForAll
    <2> QED BY <1>ok, <2>1, WrongIs
<1>4. Matching(sel, later) = [end |-> "ok", paths |-> {later[l].PATH : l \in Selected(later)}]
    BY <1>3, MatchingIs
<1>5. ASSUME NEW l \in 1 .. Len(later), NEW j \in 1 .. Len(devices), Same(later[l], devices[j])
      PROVE  /\ later[l].PATH = devices[j].PATH
             /\ l \in Selected(later) <=> j \in Selected(devices)
    <2>1. ASSUME NEW i \in 1 .. Len(sel), NEW k \in 1 .. Len(sel[i])
          PROVE  matchesLSBLKRequirement(later[l], sel[i][k]) = matchesLSBLKRequirement(devices[j], sel[i][k])
        <3>1. later[l][sel[i][k].key] = devices[j][sel[i][k].key]
            BY <1>0, <1>5 DEF Same
        <3> QED BY <3>1 DEF matchesLSBLKRequirement
    <2>2. \A i \in 1 .. Len(sel) : AllMet(later[l], sel[i]) <=> AllMet(devices[j], sel[i])
        BY <2>1 DEF AllMet
    <2>3. later[l].PATH = devices[j].PATH
        BY <1>5 DEF Same, Column
    <2> QED BY <2>2, <2>3
<1>6. ASSUME NEW l \in 1 .. Len(later), later[l] = lv
      PROVE  l \notin Selected(later)
    <2> SUFFICES ASSUME NEW i \in 1 .. Len(sel)
                 PROVE  ~AllMet(later[l], sel[i])
        OBVIOUS
    <2>1. PICK k \in 1 .. Len(sel[i]) : Names(sel[i][k]) /\ ~Lists(sel[i][k], later[l][sel[i][k].key])
        BY <1>6 DEF SteadySelector, Unnamed
    <2>2. matchesLSBLKRequirement(later[l], sel[i][k]) = "differ"
        BY <2>1, NamesMatch
    <2> QED BY <2>2 DEF AllMet
<1> DEFINE Here == {devices[j].PATH : j \in Selected(devices)}
           Then == {later[l].PATH : l \in Selected(later)}
<1>7. ASSUME NEW p \in Here
      PROVE  p \in Then
    <2>1. PICK j \in Selected(devices) : p = devices[j].PATH
        BY <1>7
    <2>2. PICK l \in 1 .. Len(later) : Same(later[l], devices[j])
        BY <2>1
    <2> QED BY <1>5, <2>1, <2>2
<1>8. ASSUME NEW p \in Then
      PROVE  p \in Here
    <2>1. PICK l \in Selected(later) : p = later[l].PATH
        BY <1>8
    <2>2. l \in 1 .. Len(later) /\ later[l] # lv
        BY <1>6
    <2>3. PICK j \in 1 .. Len(devices) : Same(later[l], devices[j])
        BY <2>2
    <2> QED BY <1>5, <2>1, <2>2, <2>3
<1>9. Here = Then
    BY <1>7, <1>8
<1> HIDE DEF Here, Then
<1> QED BY <1>1, <1>4, <1>9 DEF Here, Then
-----------------------------------------------------------------------------
(* The machine *)

\* What is selected from a tree depends on its devices alone: by the list, every one of
\* them is looked at, and nothing else.
LEMMA ListHasRows ==
    ASSUME NEW f, IsForest(f)
    PROVE  LET list == RecursiveBlockDevices(f)
           IN  /\ \A j \in 1 .. Len(list) : \E p \in DOMAIN f : list[j] = f[p]
               /\ \A p \in DOMAIN f : \E j \in 1 .. Len(list) : list[j] = f[p]
               /\ \A j \in 1 .. Len(list) : Row(list[j])
<1> DEFINE list == RecursiveBlockDevices(f)
<1>1. /\ \A j \in 1 .. Len(list) : \E p \in DOMAIN f : Index(f, p) = j
      /\ \A p \in DOMAIN f : Index(f, p) \in 1 .. Len(list) /\ list[Index(f, p)] = f[p]
    BY EveryDeviceOnce
<1>2. \A p \in DOMAIN f : Row(f[p])
    BY DEF IsForest
<1> HIDE DEF list
<1>3. \A j \in 1 .. Len(list) : \E p \in DOMAIN f : list[j] = f[p]
    BY <1>1
<1>4. \A p \in DOMAIN f : \E j \in 1 .. Len(list) : list[j] = f[p]
    BY <1>1
<1>5. \A j \in 1 .. Len(list) : Row(list[j])
    BY <1>2, <1>3
<1> QED BY <1>3, <1>4, <1>5 DEF list

\* The LVs that may come up are finitely many, at places that are vacant.
LEMMA VacantIs ==
    ASSUME IsForest(forest)
    PROVE  /\ IsFiniteSet(Vacant)
           /\ \A p \in Vacant : p \in Seq(Nat) /\ p \notin DOMAIN forest
<1> DEFINE K == 1 .. Cardinality(DOMAIN forest) + 1
           Q == {q \in DOMAIN forest : forest[q].PATH \in created.paths}
           A == {Append(q, k) : q \in Q, k \in K}
           g == [x \in Q \X K |-> Append(x[1], x[2])]
<1>1. IsFiniteSet(DOMAIN forest) /\ \A q \in DOMAIN forest : q \in Seq(Nat)
    BY DEF IsForest
<1>2. IsFiniteSet(Q)
    BY <1>1, FS_Subset
<1>3. Cardinality(DOMAIN forest) \in Nat
    BY <1>1, FS_CardinalityType
<1>4. IsFiniteSet(K) /\ K \subseteq Nat
    BY <1>3, FS_Interval
<1>5. \A q \in Q, k \in K : Append(q, k) \in Seq(Nat)
    BY <1>1, <1>4
<1>6. Vacant \in SUBSET A /\ \A p \in Vacant : p \notin DOMAIN forest
    BY DEF Vacant
<1>7. IsFiniteSet(Q \X K)
    <2> HIDE DEF Q, K
    <2> QED BY <1>2, <1>4, FS_Product
<1>8. g \in Surjection(Q \X K, A)
    <2> HIDE DEF Q, K
    <2>1. g \in [Q \X K -> A]
        OBVIOUS
    <2>2. \A a \in A : \E x \in Q \X K : g[x] = a
        <3> SUFFICES ASSUME NEW a \in A
                     PROVE  \E x \in Q \X K : g[x] = a
            OBVIOUS
        <3>0. PICK q \in Q, k \in K : a = Append(q, k)
            OBVIOUS
        <3>1. <<q, k>> \in Q \X K /\ g[<<q, k>>] = Append(q, k)
            OBVIOUS
        <3> QED BY <3>0, <3>1
    <2> HIDE DEF g, A
    <2> QED BY <2>1, <2>2 DEF Surjection
<1>9. IsFiniteSet(A)
    <2> HIDE DEF g, A, Q, K
    <2> QED BY <1>7, <1>8, FS_Surjection
<1>10. IsFiniteSet(Vacant)
    <2> HIDE DEF A
    <2> QED BY <1>6, <1>9, FS_Subset
<1>11. A \subseteq Seq(Nat)
    <2> HIDE DEF Q, K
    <2> QED BY <1>5, SMTT(30)
<1> HIDE DEF A
<1> QED BY <1>6, <1>10, <1>11

\* Labelling a device changes its file system only.
LEMMA LabelledIs ==
    ASSUME NEW dev, Row(dev)
    PROVE  Row(Labelled(dev)) /\ Same(Labelled(dev), dev)
BY DEF Labelled, Row, Same, Column, IsText, IsNumber

LEMMA LVIs == Row(LV)
BY DEF LV, Device, Row, Column, IsText, IsNumber, Text, Number

\* Init establishes IInv.
LEMMA InitIInv == Init => IInv
BY ForestsAssumption, SelectorsAssumption DEF Init, IInv, TypeOK, InStep, None

\* What an evaluation of the selector may come to.
LEMMA EvaluationIs ==
    ASSUME NEW answer \in LSBLK(forest), NEW result,
           result = DevicesMatchingSelector(selector, answer)
    PROVE  \/ selector = <<>> /\ result = [end |-> "ok", paths |-> {}]
           \/ result.end = "error"
           \/ selector # <<>> /\ result = Evaluated
BY DEF LSBLK, DevicesMatchingSelector, Evaluated

LEMMA CreateKeeps ==
    ASSUME IInv, Create
    PROVE  IInv'
<1>1. TypeOK'
    BY DEF IInv, TypeOK, Create
<1>2. PICK answer \in LSBLK(forest) : created' = DevicesMatchingSelector(selector, answer)
    BY DEF Create
<1>3. /\ UNCHANGED <<selector, forest, synced>> /\ pc = "create"
      /\ pc' = IF created'.end = "ok" /\ created'.paths # {} THEN "use" ELSE "done"
      /\ synced = None /\ synced.end = "none"
    BY DEF Create, IInv, InStep, None
<1>4. Evaluated' = Evaluated
    BY <1>3 DEF Evaluated
<1>5. pc' = "use" => created' = Evaluated /\ selector # <<>>
    BY <1>2, <1>3, EvaluationIs
<1>6. InStep'
    BY <1>3, <1>4, <1>5 DEF InStep
<1> QED BY <1>1, <1>6 DEF IInv

LEMMA SyncKeeps ==
    ASSUME IInv, Sync
    PROVE  IInv'
<1>1. TypeOK'
    BY DEF IInv, TypeOK, Sync
<1>2. PICK answer \in LSBLK(forest) : synced' = DevicesMatchingSelector(selector, answer)
    BY DEF Sync
<1>3. UNCHANGED <<selector, forest, created>> /\ pc = "sync" /\ pc' = "done"
    BY DEF Sync
<1>4. Evaluated' = Evaluated
    BY <1>3 DEF Evaluated
<1>5. selector # <<>> /\ (SteadySelector(selector, LV) => created = Evaluated)
    BY <1>3 DEF IInv, InStep
<1>6. synced'.end = "error" \/ synced' = Evaluated
    BY <1>2, <1>5, EvaluationIs
<1>7. SteadySelector(selector, LV)' <=> SteadySelector(selector, LV)
    BY <1>3
<1>8. InStep'
    BY <1>3, <1>4, <1>5, <1>6, <1>7 DEF InStep
<1> QED BY <1>1, <1>8 DEF IInv

\* What lvm2 does to the devices of the VG leaves the tree one of lsblk, and what a
\* steady selector stands for as it is.
LEMMA UseKeeps ==
    ASSUME IInv, Use
    PROVE  IInv'
<1>0. IsForest(forest) /\ IsSelector(selector)
    BY DEF IInv, TypeOK
<1>1. PICK lvs \in SUBSET Vacant :
         forest' = [p \in DOMAIN forest \cup lvs |-> IF p \in lvs THEN LV ELSE Labelled(forest[p])]
    BY DEF Use
<1>2. UNCHANGED <<selector, created, synced>> /\ pc = "use" /\ pc' = "sync"
    BY DEF Use
<1>3. DOMAIN forest' = DOMAIN forest \cup lvs
    BY <1>1
<1>4. ASSUME NEW p \in DOMAIN forest
      PROVE  /\ forest'[p] = Labelled(forest[p])
             /\ Row(forest'[p]) /\ Same(forest'[p], forest[p])
    <2>1. p \notin lvs
        BY <1>0, VacantIs
    <2>2. forest'[p] = Labelled(forest[p])
        BY <1>1, <2>1
    <2>3. Row(forest[p])
        BY <1>0 DEF IsForest
    <2> QED BY <2>2, <2>3, LabelledIs
<1>5. ASSUME NEW p \in lvs
      PROVE  forest'[p] = LV
    BY <1>1
<1>6. IsForest(forest')
    <2>1. IsFiniteSet(DOMAIN forest')
        <3>1. IsFiniteSet(lvs)
            BY <1>0, VacantIs, FS_Subset
        <3>2. IsFiniteSet(DOMAIN forest)
            BY <1>0 DEF IsForest
        <3> QED BY <1>3, <3>1, <3>2, FS_Union
    <2>2. ASSUME NEW p \in DOMAIN forest'
          PROVE  p \in Seq(Nat) /\ Row(forest'[p])
        <3>1. CASE p \in DOMAIN forest
            BY <1>0, <1>4, <3>1 DEF IsForest
        <3>2. CASE p \in lvs
            BY <1>0, <1>5, <3>2, VacantIs, LVIs
        <3> QED BY <1>3, <3>1, <3>2
    <2> QED BY <2>1, <2>2 DEF IsForest
<1>7. TypeOK'
    BY <1>0, <1>2, <1>6 DEF TypeOK
<1> DEFINE now   == RecursiveBlockDevices(forest)
           later == RecursiveBlockDevices(forest')
<1>8. ASSUME SteadySelector(selector, LV)
      PROVE  Matching(selector, later) = Matching(selector, now)
    <2>1. /\ \A j \in 1 .. Len(now) : \E p \in DOMAIN forest : now[j] = forest[p]
          /\ \A p \in DOMAIN forest : \E j \in 1 .. Len(now) : now[j] = forest[p]
          /\ \A j \in 1 .. Len(now) : Row(now[j])
        BY <1>0, ListHasRows
    <2>2. /\ \A j \in 1 .. Len(later) : \E p \in DOMAIN forest' : later[j] = forest'[p]
          /\ \A p \in DOMAIN forest' : \E j \in 1 .. Len(later) : later[j] = forest'[p]
          /\ \A j \in 1 .. Len(later) : Row(later[j])
        BY <1>6, ListHasRows
    <2>3. Matching(selector, now).paths # {}
        BY <1>2 DEF IInv, InStep, Evaluated
    <2> HIDE DEF now, later
    <2>4. ASSUME NEW j \in 1 .. Len(now)
          PROVE  \E l \in 1 .. Len(later) : Same(later[l], now[j])
        <3>1. PICK p \in DOMAIN forest : now[j] = forest[p]
            BY <2>1
        <3>2. PICK l \in 1 .. Len(later) : later[l] = forest'[p]
            BY <1>3, <2>2
        <3> QED BY <1>4, <3>1, <3>2
    <2>5. ASSUME NEW l \in 1 .. Len(later)
          PROVE  later[l] = LV \/ \E j \in 1 .. Len(now) : Same(later[l], now[j])
        <3>1. PICK p \in DOMAIN forest' : later[l] = forest'[p]
            BY <2>2
        <3>2. CASE p \in lvs
            BY <1>5, <3>1, <3>2
        <3>3. CASE p \in DOMAIN forest
            <4>1. PICK j \in 1 .. Len(now) : now[j] = forest[p]
                BY <2>1, <3>3
            <4> QED BY <1>4, <3>1, <3>3, <4>1
        <3> QED BY <1>3, <3>2, <3>3
    <2> QED BY <1>0, <1>8, <2>1, <2>2, <2>3, <2>4, <2>5, SteadyMatching
<1>9. Evaluated = Matching(selector, now) /\ Evaluated' = Matching(selector, later)
    BY <1>2 DEF Evaluated
<1> HIDE DEF now, later
<1>10. /\ synced = None /\ created = Evaluated
       /\ created.end = "ok" /\ created.paths # {} /\ selector # <<>>
    BY <1>2 DEF IInv, InStep
<1>11. InStep'
    BY <1>2, <1>8, <1>9, <1>10 DEF InStep, None
<1> QED BY <1>7, <1>11 DEF IInv

\* IInv is inductive: through creation, use and sync the tree is one lsblk can report,
\* and the selection of the VG is the one of the tree as it is.
THEOREM Invariance == Spec => []IInv
<1>1. ASSUME IInv, [Next]_vars
      PROVE  IInv'
    <2>1. CASE UNCHANGED vars
        BY <1>1, <2>1 DEF vars, IInv, TypeOK, InStep, Evaluated
    <2> QED BY <1>1, <2>1, CreateKeeps, UseKeeps, SyncKeeps DEF Next
<1> QED BY <1>1, InitIInv, PTL DEF Spec

\* For plain selectors a sync selects what volumegroup_types.go documents, from a tree of
\* any depth and whatever lvm2 made of its devices, and only lsblk can fail.
THEOREM PlainIsDocumented == Spec => []PlainMeansDocumented
<1>1. ASSUME IInv
      PROVE  PlainMeansDocumented
    <2> SUFFICES ASSUME PlainSelector(selector), synced.end \notin {"none", "error"}
                 PROVE  synced = [end |-> "ok", paths |-> Documented]
        BY DEF PlainMeansDocumented
    <2> DEFINE list == RecursiveBlockDevices(forest)
               Meant == {devices \in 1 .. Len(list) : MeetsSome(list[devices], selector)}
    <2>1. IsForest(forest) /\ synced = Matching(selector, list)
        BY <1>1 DEF IInv, TypeOK, InStep, Evaluated
    <2>2. /\ \A j \in 1 .. Len(list) : \E p \in DOMAIN forest : list[j] = forest[p]
          /\ \A p \in DOMAIN forest : \E j \in 1 .. Len(list) : list[j] = forest[p]
          /\ \A j \in 1 .. Len(list) : Row(list[j])
        BY <2>1, ListHasRows
    <2> HIDE DEF list
    <2>3. synced = [end |-> "ok", paths |-> {list[j].PATH : j \in Meant}]
        BY <2>1, <2>2, PlainMatching
    <2>4. {list[j].PATH : j \in Meant} = Documented
        BY <2>2 DEF Documented
    <2> QED BY <2>3, <2>4
<1> QED BY <1>1, Invariance, PTL

\* A selector that names what an LV does not have, and does not look at the file system,
\* selects in a sync the devices it selected for the creation, for trees and selectors of
\* any size and any number of LVs.
THEOREM SteadySelects == Spec => []SelectionSurvivesUse
<1>1. IInv => SelectionSurvivesUse
    BY DEF IInv, InStep, SelectionSurvivesUse
<1> QED BY <1>1, Invariance, PTL
=============================================================================
