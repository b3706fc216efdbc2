---------------------------- MODULE SelectorTerms ----------------------------
(***************************************************************************)
(* Which of a list of block devices the terms of a PhysicalVolumeSelector  *)
(* match: the loops of DevicesMatchingSelector and the operators of        *)
(* matchesLSBLKRequirement in selector.go, and what the API documents of   *)
(* them.                                                                   *)
(***************************************************************************)
EXTENDS Naturals, Integers, Sequences

(* Data. lsblk writes its columns as JSON: strings, numbers, and null for     *)
(* what a device does not have. A device is one value per column. A value of  *)
(* a requirement is the text of a number or another text.                     *)

Text(s)   == <<"text", s>>
Number(n) == <<"number", n>>
Null      == <<"null", "">>

IsText(v)   == v[1] = "text"
IsNumber(v) == v[1] = "number"

Column   == {"PATH", "TYPE", "FSTYPE", "SIZE"}
Operator == {"In", "NotIn", "Exists", "DoesNotExist", "Gt", "Lt"}

Device(path, type, fstype, size) ==
    [PATH |-> Text(path), TYPE |-> Text(type), FSTYPE |-> fstype, SIZE |-> Number(size)]

\* As lsblk reports every device: a path and a type, which are texts, and a size.
Row(dev) == /\ DOMAIN dev = Column
            /\ IsText(dev["PATH"]) /\ IsText(dev["TYPE"]) /\ IsNumber(dev["SIZE"])

Requirement(key, op, values) == [key |-> key, op |-> op, values |-> values]

-----------------------------------------------------------------------------
(* One requirement: does it match, and if not, what happens? *)

Verdict(b) == IF b THEN "match" ELSE "differ"

Lists(r, value) == \E i \in 1 .. Len(r.values) : r.values[i] = value

\* GetString asserts that the value is a string, and panics when it is not.
OpIn(value, r) == IF r.values = <<>> THEN "differ"
                  ELSE IF IsText(value) THEN Verdict(Lists(r, value)) ELSE "panic"

\* JSON numbers decode to float64, so the assertion to int never holds and the
\* comparison is with zero, whatever the device has.
OpGt(value, r) == IF r.values = <<>> THEN "panic"
                  ELSE IF IsNumber(r.values[1]) THEN Verdict(0 > r.values[1][2]) ELSE "error"

\* A column that was asked for is in the answer for every device, null included.
matchesLSBLKRequirement(dev, r) ==
    CASE r.op = "In"     -> OpIn(dev[r.key], r)
      [] r.op = "Gt"     -> OpGt(dev[r.key], r)
      [] r.op = "Exists" -> "match"
      [] OTHER           -> "differ"
-----------------------------------------------------------------------------
(* The selector *)

\* Mutant: one requirement that is met is enough.
AllMet_Any(dev, term) == \E k \in 1 .. Len(term) : matchesLSBLKRequirement(dev, term[k]) = "match"

AllMet(dev, term) == \A k \in 1 .. Len(term) : matchesLSBLKRequirement(dev, term[k]) = "match"

Before(a, b) == \/ a[1] < b[1]
                \/ a[1] = b[1] /\ a[2] < b[2]
                \/ a[1] = b[1] /\ a[2] = b[2] /\ a[3] < b[3]

\* What each requirement of each term says of each device, and where that ends it.
Outcome(sel, devices, t) == matchesLSBLKRequirement(devices[t[2]], sel[t[1]][t[3]])
Trials(sel, devices) ==
    UNION {{<<i, j, k>> : j \in 1 .. Len(devices), k \in 1 .. Len(sel[i])} : i \in 1 .. Len(sel)}
Wrong(sel, devices) == {t \in Trials(sel, devices) : Outcome(sel, devices, t) \in {"error", "panic"}}

\* Term by term, device by device, requirement by requirement: the first one that
\* goes wrong ends it. The result is sorted and without duplicates: a set of paths.
Matching(sel, devices) ==
    LET wrong == Wrong(sel, devices)
        first == CHOOSE t \in wrong : \A u \in wrong \ {t} : Before(t, u)
    IN  IF wrong # {}
        THEN [end |-> Outcome(sel, devices, first), paths |-> {}]
        ELSE [end |-> "ok",
              paths |-> {devices[j].PATH : j \in
                           {d \in 1 .. Len(devices) :
                               \E i \in 1 .. Len(sel) : AllMet(devices[d], sel[i])}}]
-----------------------------------------------------------------------------
(* What volumegroup_types.go says of a requirement, a term and a selector *)

Meets(dev, r) ==
    LET value == dev[r.key]
    IN  CASE r.op = "In"           -> Lists(r, value)
          [] r.op = "NotIn"        -> ~Lists(r, value)
          [] r.op = "Exists"       -> value # Null
          [] r.op = "DoesNotExist" -> value = Null
          [] r.op = "Gt"           -> IsNumber(value) /\ value[2] > r.values[1][2]
          [] r.op = "Lt"           -> IsNumber(value) /\ value[2] < r.values[1][2]
MeetsSome(dev, sel) ==
    \E i \in 1 .. Len(sel) : sel[i] # <<>> /\ \A k \in 1 .. Len(sel[i]) : Meets(dev, sel[i][k])

\* The selectors of the README: In on columns in which each device has a text.
Names(r) == r.op = "In" /\ r.key \in {"PATH", "TYPE"}
PlainSelector(sel) ==
    \A i \in 1 .. Len(sel) : sel[i] # <<>> /\ \A k \in 1 .. Len(sel[i]) : Names(sel[i][k])

\* Selectors in which every term names something that the device dev does not have, and
\* none looks at what lvm2 changes.
Unnamed(sel, dev) == \A i \in 1 .. Len(sel) : \E k \in 1 .. Len(sel[i]) :
                        Names(sel[i][k]) /\ ~Lists(sel[i][k], dev[sel[i][k].key])
SteadySelector(sel, dev) ==
    /\ Unnamed(sel, dev)
    /\ \A i \in 1 .. Len(sel) : \A k \in 1 .. Len(sel[i]) : sel[i][k].key # "FSTYPE"
=============================================================================
