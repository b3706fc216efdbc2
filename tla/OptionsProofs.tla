--------------------------- MODULE OptionsProofs ---------------------------
(***************************************************************************)
(* Why the options of a VG are what its spec says, for any specs, any      *)
(* defaults of lvm2 and any number of edits: creation and sync agree, and  *)
(* what cannot be changed stays as it was created.                         *)
(***************************************************************************)
EXTENDS Options, TLAPS

USE SpecAssumption, UnsetAssumption, BoundAssumption

\* The work goes on at pc, on the object that was read.
Moves(pc) == /\ w' \in Work
             /\ w'.pc = pc /\ w'.spec = w.spec

\* Every step of a reconcile but the first one is such a move.
LEMMA WorkMoves ==
    ASSUME TypeOK
    PROVE  /\ w' = Rest => Moves("idle")
           /\ \A pc \in {"finalize", "report"} : Goto(pc) => Moves(pc)
           /\ \A reason \in {"Synced", "Failed"} : Report(reason) => Moves("report")
<1>1. w \in Work /\ w.gen \in Nat
    BY DEF TypeOK, Work
<1>2. w' = Rest => Moves("idle")
    BY <1>1 DEF Rest, Moves, Work
<1>3. ASSUME NEW pc \in {"finalize", "report"}, Goto(pc)
      PROVE  Moves(pc)
    BY <1>1, <1>3 DEF Goto, Moves, Work
<1>4. ASSUME NEW reason \in {"Synced", "Failed"}, Report(reason)
      PROVE  Moves("report")
    <2>1. [reason |-> reason, gen |-> w.gen] \in Condition
        BY <1>1 DEF Condition
    <2>2. ASSUME NEW c \in Condition, w' = [w EXCEPT !.pc = "report", !.cond = c]
          PROVE  Moves("report")
        BY <1>1, <2>2 DEF Moves, Work
    <2> QED BY <1>4, <2>1, <2>2 DEF Report
<1> QED BY <1>2, <1>3, <1>4

\* An option that is made of a field that is set is one: it is never taken for nil.
LEMMA OptionIsSet ==
    ASSUME NEW s \in Specs, NEW f \in Field, s[f] # Unset,
           f \in Size => convertQuantityToSize(s[f]) \in Nat
    PROVE  CreateOption(f, s[f]) # Unset
<1>1. CASE f \in Size
    <2>1. CreateOption(f, s[f]) = convertQuantityToSize(s[f])
        BY <1>1 DEF CreateOption, Size
    <2> QED BY <1>1, <2>1
<1>2. CASE f = "zero"
    <2>1. convertToZero(s[f]) \in BOOLEAN
        BY DEF convertToZero
    <2>2. CreateOption(f, s[f]) = convertToZero(s[f])
        BY <1>2 DEF CreateOption, Size
    <2> QED BY <2>1, <2>2
<1>3. CASE f = "auto"
    <2>1. convertToAutoActivation(s[f]) \in BOOLEAN
        BY DEF convertToAutoActivation
    <2>2. CreateOption(f, s[f]) = convertToAutoActivation(s[f])
        BY <1>3 DEF CreateOption, Size
    <2> QED BY <2>1, <2>2
<1>4. CASE f \notin Size \cup {"zero", "auto"}
    BY <1>4 DEF CreateOption
<1> QED BY <1>1, <1>2, <1>3, <1>4

\* A VG that is created has every field that is set as vgcreate was told.
LEMMA CreatedIs ==
    ASSUME NEW s \in Specs, NEW f \in Field, s[f] # Unset,
           f \in Size => convertQuantityToSize(s[f]) \in Nat
    PROVE  InEffect(convertToVGCreateOptions(s))[f] = CreateOption(f, s[f])
<1>1. convertToVGCreateOptions(s)[f] = CreateOption(f, s[f])
    BY DEF convertToVGCreateOptions
<1>2. CreateOption(f, s[f]) # Unset
    BY OptionIsSet
<1> HIDE DEF convertToVGCreateOptions
<1> QED BY <1>1, <1>2 DEF InEffect

\* What a field becomes depends on no other field.
LEMMA FieldByField ==
    ASSUME NEW s, NEW t, NEW f \in Field, s[f] = t[f]
    PROVE  InEffect(convertToVGCreateOptions(s))[f] = InEffect(convertToVGCreateOptions(t))[f]
<1>1. convertToVGCreateOptions(s)[f] = convertToVGCreateOptions(t)[f]
    BY DEF convertToVGCreateOptions
<1> HIDE DEF convertToVGCreateOptions
<1> QED BY <1>1 DEF InEffect

\* Creation and sync make the same of a field both know, if vgcreate takes it.
LEMMA WaysAgree ==
    ASSUME NEW f \in Changeable, NEW v, f = "alloc" => v \in Policy
    PROVE  CreateOption(f, v) = SyncOption(f, v)
<1>1. CASE f = "alloc"
    <2>1. v \notin DOMAIN Snake
        BY <1>1 DEF Policy, Snake
    <2> QED BY <1>1, <2>1 DEF CreateOption, SyncOption, Size, ToSnakeCase
<1>2. CASE f = "auto"
    BY <1>2 DEF CreateOption, SyncOption, Size
<1>3. CASE f \in {"maxPV", "maxLV"}
    BY <1>3 DEF CreateOption, SyncOption, Size
<1> QED BY <1>1, <1>2, <1>3 DEF Changeable

\* The VG is left, or is taken off the host.
LEMMA KeptOrGone ==
    ASSUME IInv, vg' \in {vg, NoVG}, last' \in {last, Unset}
    PROVE  Agreed' /\ (vg' = NoVG \/ vg' = [f \in Field |-> vg'[f]])
BY DEF IInv, TypeOK, Agreed

\* The fixed fields are not at stake in a step that leaves spec and gap, and the VG or
\* those of its fields.
LEMMA FixedKept ==
    ASSUME IInv, spec' = spec, gap' = gap,
           vg' # NoVG => vg # NoVG /\ \A f \in Fixed : vg'[f] = vg[f],
           w'.pc = "discover" => w.pc = "discover" /\ w'.spec = w.spec
    PROVE  Lasting' /\ Awaited'
BY DEF IInv, Lasting, Awaited

\* What the API server admits changes no field that was set before and after.
LEMMA EditKeeps ==
    ASSUME IInv, UserEdit
    PROVE  Lasting' /\ Awaited'
<1>1. PICK new \in Specs : /\ Admitted(spec, new) /\ spec' = new
                           /\ gap' = gap \cup {f \in Fixed : new[f] = Unset}
    BY DEF UserEdit
<1>2. ASSUME NEW f \in Fixed \ gap', spec[f] # Unset
      PROVE  /\ f \in Fixed \ gap /\ spec'[f] # Unset /\ spec'[f] = spec[f]
             /\ InEffect(convertToVGCreateOptions(spec'))[f] = InEffect(convertToVGCreateOptions(spec))[f]
    <2>1. f \in Fixed \ gap /\ spec'[f] # Unset /\ spec'[f] = spec[f] /\ f \in Field
        BY <1>1, <1>2 DEF Admitted, Field
    <2> QED BY <2>1, FieldByField
<1>3. vg' = vg /\ w' = w /\ \A f \in Fixed \ gap' : f \in Fixed \ gap
    BY <1>1 DEF UserEdit
<1>4. Lasting'
    BY <1>2, <1>3 DEF IInv, Lasting
<1>5. Awaited'
    BY <1>2, <1>3 DEF IInv, Awaited
<1> QED BY <1>4, <1>5

\* A reconcile begins with the spec of now. Where there is no VG yet, only the fields
\* that are set now are to last.
LEMMA BeginKeeps ==
    ASSUME IInv, Begin
    PROVE  /\ w' \in Work /\ gap' \subseteq Fixed
           /\ Lasting' /\ Awaited'
<1>1. spec' = spec /\ vg' = vg /\ w'.spec = spec
    BY DEF Begin, apiVars
<1>2. w' \in Work
    BY DEF Begin, IInv, TypeOK, Work
<1>3. CASE vg = NoVG
    <2>1. gap' = {f \in Fixed : spec[f] = Unset}
        BY <1>3 DEF Begin
    <2> QED BY <1>1, <1>2, <1>3, <2>1 DEF Lasting, Awaited
<1>4. CASE vg # NoVG
    <2>1. gap' = gap
        BY <1>4 DEF Begin
    <2> QED BY <1>1, <1>2, <1>4, <2>1 DEF IInv, TypeOK, Lasting, Awaited
<1> QED BY <1>3, <1>4

\* initializeVG makes a VG that has what the spec in work says, and nothing of that is
\* for sync to change.
LEMMA CreateKeeps ==
    ASSUME IInv, Create
    PROVE  /\ w' \in Work /\ last' \in Specs \cup {Unset}
           /\ vg' = NoVG \/ vg' = [f \in Field |-> vg'[f]]
           /\ Lasting' /\ Awaited' /\ Agreed'
<1> DEFINE new == InEffect(convertToVGCreateOptions(w.spec))
<1>0. TypeOK /\ w.spec \in Specs /\ w.pc = "discover" /\ spec' = spec /\ gap' = gap
    BY DEF IInv, TypeOK, Work, Create, apiVars
<1>1. w' \in Work /\ w'.pc # "discover"
    <2>1. w' = Rest \/ Goto("finalize") \/ Goto("report") \/ Report("Failed")
        BY DEF Create
    <2>2. Moves("idle") \/ Moves("finalize") \/ Moves("report")
        BY <1>0, <2>1, WorkMoves
    <2> QED BY <2>2 DEF Moves
<1>2. CASE vg' = vg /\ last' = last
    <2>1. Lasting' /\ Awaited'
        BY <1>0, <1>1, <1>2, FixedKept
    <2> QED BY <1>0, <1>1, <1>2, <2>1, KeptOrGone DEF TypeOK
<1>3. CASE Convertible(w.spec) /\ Creatable(new) /\ vg' = new /\ last' = w.spec
    <2>1. \A f \in Changeable : w.spec[f] # Unset => vg'[f] = CreateOption(f, w.spec[f])
        <3> SUFFICES ASSUME NEW f \in Changeable, w.spec[f] # Unset
                     PROVE  vg'[f] = CreateOption(f, w.spec[f])
            OBVIOUS
        <3>1. f \in Field /\ f \notin Size
            BY DEF Changeable, Field, Size
        <3> QED BY <1>0, <1>3, <3>1, CreatedIs
    <2>2. vg' = [f \in Field |-> vg'[f]]
        BY <1>3 DEF InEffect
    <2>3. Lasting'
        <3> SUFFICES ASSUME NEW f \in Fixed \ gap
                     PROVE  /\ spec[f] # Unset
                            /\ vg'[f] = InEffect(convertToVGCreateOptions(spec))[f]
                            /\ f \in Size => Validate(spec[f])
            BY <1>0 DEF Lasting
        <3>1. spec[f] # Unset /\ spec[f] = w.spec[f]
            BY <1>0 DEF IInv, Awaited
        <3>2. f \in Field
            BY DEF Field
        <3>3. vg'[f] = InEffect(convertToVGCreateOptions(spec))[f]
            BY <1>3, <3>1, <3>2, FieldByField
        <3> QED BY <1>3, <3>1, <3>3 DEF Convertible
    <2>4. Agreed'
        <3> SUFFICES ASSUME NEW f \in Changeable, w.spec[f] # Unset
                     PROVE  vg'[f] = SyncOption(f, w.spec[f])
            BY <1>3 DEF Agreed
        <3>1. vg'[f] = CreateOption(f, w.spec[f])
            BY <2>1
        <3>2. f = "alloc" => w.spec[f] \in Policy
            <4>1. f = "alloc" => CreateOption(f, w.spec[f]) = w.spec[f]
                BY DEF CreateOption, Size
            <4>2. f = "alloc" => vg'[f] \in Policy
                BY <1>3 DEF Creatable
            <4> QED BY <3>1, <4>1, <4>2
        <3> QED BY <3>1, <3>2, WaysAgree
    <2>5. Awaited'
        BY <1>1 DEF Awaited
    <2> QED BY <1>0, <1>1, <1>3, <2>2, <2>3, <2>4, <2>5
<1> QED BY <1>2, <1>3 DEF Create

\* sync brings the VG in line with the spec in work, but for what vgchange refuses.
LEMMA SyncKeeps ==
    ASSUME IInv, Sync
    PROVE  /\ w' \in Work /\ last' \in Specs \cup {Unset}
           /\ vg' = [f \in Field |-> vg'[f]]
           /\ Lasting' /\ Awaited' /\ Agreed'
<1>0. /\ TypeOK /\ w.spec \in Specs /\ spec' = spec /\ gap' = gap /\ vg # NoVG
      /\ vg' = Synced(w.spec) /\ last' = w.spec
    BY DEF IInv, TypeOK, Work, Sync, Visible, apiVars
<1>1. Moves("report")
    BY <1>0, WorkMoves DEF Sync
<1>2. \A f \in Field : vg'[f] = IF f \in Asked(w.spec) \ Refused(w.spec)
                                THEN SyncOption(f, w.spec[f]) ELSE vg[f]
    BY <1>0 DEF Synced
<1>3. \A f \in Fixed : vg'[f] = vg[f]
    BY <1>2 DEF Asked, Changeable, Fixed, Size, Field
<1>4. Lasting' /\ Awaited'
    BY <1>0, <1>1, <1>3, FixedKept DEF Moves
<1>5. ASSUME NEW f \in Changeable, w.spec[f] # Unset
      PROVE  \/ vg'[f] = SyncOption(f, w.spec[f])
             \/ ~Settable(f, SyncOption(f, w.spec[f]))
    BY <1>2, <1>5 DEF Asked, Refused, Field
<1>6. Agreed'
    BY <1>0, <1>5 DEF Agreed
<1> QED BY <1>0, <1>1, <1>4, <1>6 DEF Moves, Synced
-----------------------------------------------------------------------------
(* The inductive invariant *)

\* Nothing is on the host at first.
LEMMA InitIInv == Init => IInv
<1> SUFFICES ASSUME Init PROVE IInv
    OBVIOUS
<1>1. cond \in Condition
    BY DEF Init, Condition
<1>2. w \in Work
    BY <1>1 DEF Init, Work
<1>3. TypeOK
    BY <1>1, <1>2 DEF Init, TypeOK
<1> QED BY <1>3 DEF Init, IInv, Lasting, Awaited, Agreed

\* The parts of the type invariant no argument rests on.
LEMMA OuterTypes ==
    ASSUME TypeOK, [Next]_vars
    PROVE  /\ spec' \in Specs /\ gen' \in Nat
           /\ phase' \in {"live", "deleting", "released", "gone"}
           /\ held' \in BOOLEAN /\ cond' \in Condition /\ edits' \in Nat
<1>1. w.cond \in Condition
    BY DEF TypeOK, Work
<1>2. spec' \in Specs /\ gen' \in Nat /\ edits' \in Nat
    BY DEF TypeOK, Next, Reconcile, Begin, Remove, Create, Adopt, AddFinalizer, Sync, UpdateStatus,
           UserEdit, UserDelete, HostChange, HostRemove, Edit, apiVars, vars
<1>3. phase' \in {"live", "deleting", "released", "gone"}
    BY DEF TypeOK, Next, Reconcile, Begin, Remove, Create, Adopt, AddFinalizer, Sync, UpdateStatus,
           UserEdit, UserDelete, HostChange, HostRemove, apiVars, vars
<1>4. held' \in BOOLEAN
    BY Zenon DEF TypeOK, Next, Reconcile, Begin, Remove, Create, Adopt, AddFinalizer, Sync,
           UpdateStatus, UserEdit, UserDelete, HostChange, HostRemove, vars
<1>5. cond' \in Condition
    BY <1>1 DEF TypeOK, Next, Reconcile, Begin, Remove, Create, Adopt, AddFinalizer, Sync,
           UpdateStatus, UserEdit, UserDelete, HostChange, HostRemove, vars
<1> QED BY <1>2, <1>3, <1>4, <1>5

\* Every step keeps the invariant.
LEMMA StepIInv == IInv /\ [Next]_vars => IInv'
<1> SUFFICES ASSUME IInv, [Next]_vars
             PROVE  IInv'
    OBVIOUS
<1>0. TypeOK /\ w \in Work
    BY DEF IInv, TypeOK
<1>1. ASSUME w' \in Work, gap' \subseteq Fixed, last' \in Specs \cup {Unset},
             vg' = NoVG \/ vg' = [f \in Field |-> vg'[f]], Lasting', Awaited', Agreed'
      PROVE  IInv'
    BY <1>0, <1>1, OuterTypes DEF IInv, TypeOK
<1>2. ASSUME w' \in Work, spec' = spec, gap' = gap, vg' \in {vg, NoVG}, last' = last,
             w'.pc = "discover" => w.pc = "discover" /\ w'.spec = w.spec
      PROVE  IInv'
    <2>1. Lasting' /\ Awaited'
        BY <1>2, FixedKept
    <2>2. Agreed' /\ (vg' = NoVG \/ vg' = [f \in Field |-> vg'[f]])
        BY <1>2, KeptOrGone
    <2>3. gap' \subseteq Fixed /\ last' \in Specs \cup {Unset}
        BY <1>0, <1>2 DEF TypeOK
    <2> QED BY <1>1, <1>2, <2>1, <2>2, <2>3
<1>3. CASE Begin
    <2>1. vg' = vg /\ last' = last
        BY <1>3 DEF Begin
    <2>2. Agreed' /\ (vg' = NoVG \/ vg' = [f \in Field |-> vg'[f]])
        BY <2>1, KeptOrGone
    <2> QED BY <1>0, <1>1, <1>3, <2>1, <2>2, BeginKeeps DEF TypeOK
<1>4. CASE Create
    <2>1. gap' = gap
        BY <1>4 DEF Create
    <2> QED BY <1>0, <1>1, <1>4, <2>1, CreateKeeps DEF TypeOK
<1>5. CASE Sync
    <2>1. gap' = gap
        BY <1>5 DEF Sync
    <2> QED BY <1>0, <1>1, <1>5, <2>1, SyncKeeps DEF TypeOK
<1>6. CASE Remove \/ Adopt \/ AddFinalizer \/ UpdateStatus
    <2>1. Moves("idle") \/ Moves("finalize")
        BY <1>0, <1>6, WorkMoves DEF Remove, Adopt, AddFinalizer, UpdateStatus
    <2>2. spec' = spec /\ gap' = gap /\ vg' \in {vg, NoVG} /\ last' = last
        BY <1>6 DEF Remove, Adopt, AddFinalizer, UpdateStatus, apiVars
    <2> QED BY <1>2, <2>1, <2>2 DEF Moves
<1>7. CASE UserEdit
    <2>1. vg' = vg /\ last' = last /\ w' = w /\ gap' \subseteq Fixed
        BY <1>0, <1>7 DEF UserEdit, TypeOK
    <2>2. Agreed' /\ (vg' = NoVG \/ vg' = [f \in Field |-> vg'[f]])
        BY <2>1, KeptOrGone
    <2> QED BY <1>0, <1>1, <1>7, <2>1, <2>2, EditKeeps DEF TypeOK
<1>8. CASE UserDelete \/ HostRemove \/ UNCHANGED vars
    <2>1. spec' = spec /\ gap' = gap /\ vg' \in {vg, NoVG} /\ last' = last /\ w' = w
        BY <1>8 DEF UserDelete, HostRemove, apiVars, vars
    <2> QED BY <1>0, <1>2, <2>1
<1>9. CASE HostChange
    <2>1. PICK s \in Specs, f \in Changeable : vg' = [vg EXCEPT ![f] = s[f]]
        BY <1>9 DEF HostChange
    <2>2. vg # NoVG /\ last' = Unset /\ spec' = spec /\ gap' = gap /\ w' = w
        BY <1>9 DEF HostChange, apiVars
    <2>3. vg = [g \in Field |-> vg[g]]
        BY <1>0, <2>2 DEF TypeOK
    <2>4. vg' = [g \in Field |-> vg'[g]]
        BY <2>1, <2>3
    <2>5. \A g \in Fixed : vg'[g] = vg[g]
        BY <2>1, <2>3 DEF Changeable, Fixed, Size, Field
    <2>6. Lasting' /\ Awaited'
        BY <2>2, <2>5, FixedKept
    <2>7. Agreed'
        BY <2>2 DEF Agreed
    <2> QED BY <1>0, <1>1, <2>2, <2>4, <2>6, <2>7 DEF TypeOK
<1> QED BY <1>3, <1>4, <1>5, <1>6, <1>7, <1>8, <1>9 DEF Next, Reconcile

\* The inductive invariant holds: a VG remembers the spec it was created with in the
\* fields that last, and the spec it was last synced with in the others.
THEOREM Invariance == Spec => []IInv
BY InitIInv, StepIInv, PTL DEF Spec

\* The sizes and the devices, which cannot be changed once set, are in the VG as the
\* spec has them, however often the spec is edited and the VG removed and created anew.
\* That a float64 comes close to the sizes is the hypothesis.
THEOREM FixedIsAsSpecified == SizesRound => (Spec => []FixedAsSpecified)
<1> SUFFICES ASSUME SizesRound PROVE Spec => []FixedAsSpecified
    OBVIOUS
<1>1. ASSUME IInv, vg # NoVG, NEW f \in Fixed \ gap
      PROVE  /\ f \in Size => Close(vg[f], spec[f])
             /\ f = "devices" => vg[f] = spec[f]
    <2>0. /\ spec \in Specs /\ spec[f] # Unset /\ f \in Field
          /\ vg[f] = InEffect(convertToVGCreateOptions(spec))[f]
          /\ f \in Size => Validate(spec[f])
        BY <1>1 DEF IInv, TypeOK, Lasting, Field
    <2>1. vg[f] = CreateOption(f, spec[f])
        BY <2>0, CreatedIs DEF SizesRound
    <2>2. CASE f \in Size
        <3>1. CreateOption(f, spec[f]) = convertQuantityToSize(spec[f])
            BY <2>2 DEF CreateOption, Size
        <3>2. Close(vg[f], spec[f])
            BY <2>0, <2>1, <2>2, <3>1 DEF SizesRound
        <3> QED BY <2>2, <3>2 DEF Size
    <2>3. CASE f = "devices"
        BY <2>1, <2>3 DEF CreateOption, Size
    <2> QED BY <2>2, <2>3
<1>2. IInv => FixedAsSpecified
    BY <1>1 DEF FixedAsSpecified, Fixed
<1> QED BY <1>2, Invariance, PTL

\* Creation and sync agree on what a spec means: a VG that was created or synced from a
\* spec is left alone by every later sync from it.
THEOREM SettledStays == Spec => SettledIsLeftAlone
<1>1. ASSUME IInv, Sync, w.spec = last
      PROVE  UNCHANGED vg
    <2>1. /\ vg' = Synced(last) /\ vg # NoVG /\ last \in Specs /\ last # Unset
          /\ vg = [f \in Field |-> vg[f]]
        BY <1>1 DEF Sync, Visible, IInv, TypeOK, Work
    <2>2. Asked(last) \ Refused(last) = {}
        BY <1>1, <2>1 DEF IInv, Agreed, Asked, Refused
    <2> QED BY <2>1, <2>2 DEF Synced
<1>2. IInv /\ [Next]_vars => [Sync /\ w.spec = last => UNCHANGED vg]_vars
    BY <1>1
<1> QED BY <1>2, Invariance, PTL DEF Spec, SettledIsLeftAlone
=============================================================================
