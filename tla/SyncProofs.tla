----------------------------- MODULE SyncProofs -----------------------------
(***************************************************************************)
(* Why the safety properties of Sync hold for any devices, specs and       *)
(* limits, and for any number of disturbances.                             *)
(*                                                                         *)
(* Each action is first read as a change of the work in hand (Moves) and   *)
(* of the VG; the parts of the invariant follow from that reading.         *)
(***************************************************************************)
EXTENDS Sync, FiniteSetTheorems, TLAPS

USE SpecsAssumption, NameAssumption, LimitAssumption, ValueAssumption

\* The work goes on at pc with the errors errs, and with all it has read.
Moves(pc, errs) ==
    /\ w' \in Work
    /\ w'.pc = pc /\ w'.errs = errs
    /\ w'.gen = w.gen /\ w'.spec = w.spec /\ w'.snap = w.snap
    /\ w'.listed = w.listed /\ w'.current = w.current
    /\ w'.depth = w.depth /\ w'.cond = w.cond

\* The fields of the work in hand.
LEMMA WorkType ==
    ASSUME w \in Work
    PROVE  /\ w.pc \in PC /\ w.gen \in Nat /\ w.spec \in Specs /\ w.snap \in VG
           /\ w.listed \in SUBSET Device
           /\ w.current \in SUBSET (Device \cup {Unknown})
           /\ w.todo \in SUBSET (Device \cup {Unknown})
           /\ w.errs \in SUBSET {"missing", "other"}
           /\ w.depth \in Nat /\ w.cond \in Condition
           /\ w.pvs \in SUBSET Device /\ w.vg \in VG
BY DEF Work

\* Step and Fail are such moves.
LEMMA StepMoves ==
    ASSUME w \in Work, NEW pc \in PC
    PROVE  /\ Step(pc) => Moves(pc, w.errs)
           /\ \A kind \in {"missing", "other"} : Fail(pc, kind) => Moves(pc, w.errs \cup {kind})
<1>1. Step(pc) => Moves(pc, w.errs)
    BY DEF Step, Moves, Work
<1>2. ASSUME NEW kind \in {"missing", "other"}, Fail(pc, kind)
      PROVE  Moves(pc, w.errs \cup {kind})
    <2>1. w.errs \cup {kind} \in SUBSET {"missing", "other"}
        BY <1>2, WorkType
    <2> QED BY <1>2, <2>1 DEF Fail, Moves, Work
<1> QED BY <1>1, <1>2

\* A move of PVs goes on with the next one, or to their removal.
LEMMA MovedMoves ==
    ASSUME w \in Work, NEW d, Moved(d)
    PROVE  Moves("reduce", w.errs) \/ Moves("move", w.errs)
<1>1. w.todo \ {d} \in SUBSET (Device \cup {Unknown})
    BY WorkType
<1> QED BY <1>1 DEF Moved, Moves, Work, PC

\* What changes a VG: its tags, its PVs, one of its settings.
LEMMA VGType ==
    ASSUME NEW v \in VG
    PROVE  /\ v.pvs \in SUBSET Device /\ v.tags \in SUBSET Tag
           /\ \A tags \in SUBSET Tag :
                 /\ [v EXCEPT !.tags = tags] \in VG
                 /\ [v EXCEPT !.tags = tags].tags = tags
                 /\ [v EXCEPT !.tags = tags].pvs = v.pvs
                 /\ \A s \in Setting : [v EXCEPT !.tags = tags][s] = v[s]
           /\ \A pvs \in SUBSET Device :
                 /\ [v EXCEPT !.pvs = pvs] \in VG
                 /\ [v EXCEPT !.pvs = pvs].pvs = pvs
                 /\ [v EXCEPT !.pvs = pvs].tags = v.tags
                 /\ \A s \in Setting : [v EXCEPT !.pvs = pvs][s] = v[s]
BY DEF VG, Setting

\* A setting that the spec has is one a VG can have.
LEMMA SettingType ==
    ASSUME w \in Work, NEW v \in VG, NEW s \in Setting, w.spec[s] # Keep
    PROVE  /\ [v EXCEPT ![s] = Desired(s)] \in VG
           /\ [v EXCEPT ![s] = Desired(s)][s] = Desired(s)
           /\ [v EXCEPT ![s] = Desired(s)].pvs = v.pvs
           /\ [v EXCEPT ![s] = Desired(s)].tags = v.tags
           /\ \A r \in Setting : r # s => [v EXCEPT ![s] = Desired(s)][r] = v[r]
<1>1. w.spec \in Spec0
    BY WorkType
<1>2. CASE s = "maxPV"
    <2>1. Desired(s) \in Limit
        BY <1>1, <1>2 DEF Desired, Spec0
    <2> HIDE DEF Desired
    <2> QED BY <1>2, <2>1 DEF VG, Setting
<1>3. CASE s = "maxLV"
    <2>1. Desired(s) \in Limit
        BY <1>1, <1>3 DEF Desired, Spec0
    <2> QED BY <1>3, <2>1 DEF VG, Setting
<1>4. CASE s = "alloc"
    <2>1. Desired(s) \in Allocation
        BY <1>1, <1>4 DEF Desired, Spec0
    <2> QED BY <1>4, <2>1 DEF VG, Setting
<1>5. CASE s = "auto"
    <2>1. Desired(s) \in BOOLEAN
        BY <1>5 DEF Desired, convertToAutoActivation
    <2> QED BY <1>5, <2>1 DEF VG, Setting
<1> QED BY <1>2, <1>3, <1>4, <1>5 DEF Setting
-----------------------------------------------------------------------------
(* What the syncers do *)

\* A command that makes the VG new does it, or fails and leaves an error, of a
\* missing PV only if one is missing.
Runs(new, next, onError) ==
    \/ Missing = {} /\ vg' = new /\ Moves(next, w.errs) /\ Quiet
    \/ Missing = {} /\ vg' = vg /\ Moves(onError, w.errs \cup {"other"}) /\ Quiet
    \/ Missing # {} /\ vg' = vg /\ Moves(onError, w.errs \cup {"missing"}) /\ Quiet
    \/ /\ vg' = vg \/ (Missing = {} /\ vg' = new)
       /\ Moves(onError, w.errs \cup {"other"})
       /\ Trouble

\* Nothing is to be done.
Passes(next) == vg' = vg /\ Moves(next, w.errs) /\ Quiet

\* What each of the syncers makes of the VG and of the work.
LEMMA AddTagsIs ==
    ASSUME TypeOK, AddTags
    PROVE  \/ w.spec.tags \ w.snap.tags = {} /\ Passes("delTags")
           \/ Runs([vg EXCEPT !.tags = @ \cup (w.spec.tags \ w.snap.tags)], "delTags", "list")
<1>1. w \in Work /\ "delTags" \in PC /\ "list" \in PC
    BY DEF TypeOK, PC
<1> QED BY <1>1, StepMoves DEF AddTags, Skip, Command, Runs, Passes

\* The tags the spec has no longer go.
LEMMA DelTagsIs ==
    ASSUME TypeOK, DelTags
    PROVE  \/ w.snap.tags \ w.spec.tags = {} /\ Passes("list")
           \/ Runs([vg EXCEPT !.tags = @ \ (w.snap.tags \ w.spec.tags)], "list", "list")
<1>1. w \in Work /\ "list" \in PC
    BY DEF TypeOK, PC
<1> QED BY <1>1, StepMoves DEF DelTags, Skip, Command, Runs, Passes

\* Only attached devices are added.
LEMMA ExtendIs ==
    ASSUME TypeOK, Extend
    PROVE  /\ Shrink \in {"maxPV", "move", "reduce"}
           /\ \/ New = {} /\ Passes(Shrink)
              \/ /\ vg' = vg \/ New \subseteq present
                 /\ Runs([vg EXCEPT !.pvs = @ \cup New], Shrink, "maxPV")
<1>1. w \in Work /\ "maxPV" \in PC
    BY DEF TypeOK, PC, Setting
<1>2. Shrink \in {"maxPV", "move", "reduce"}
    BY DEF Shrink
<1>3. Shrink \in PC
    BY <1>2 DEF PC, Setting
<1>4. CASE New = {}
    BY <1>1, <1>2, <1>3, <1>4, StepMoves DEF Extend, Skip, Passes
<1>5. CASE New # {}
    <2> DEFINE ok == /\ New \subseteq present \ vg.pvs
                     /\ vg.maxPV = 0 \/ Cardinality(vg.pvs \cup New) <= vg.maxPV
               new == [vg EXCEPT !.pvs = @ \cup New]
    <2>1. Command(ok, new, Shrink, "maxPV")
        BY <1>5 DEF Extend
    <2>2. ok => New \subseteq present
        OBVIOUS
    <2> HIDE DEF ok, new
    <2>3. (vg' = vg \/ ok) /\ Runs(new, Shrink, "maxPV")
        BY <1>1, <1>3, <2>1, StepMoves DEF Command, Runs
    <2> QED BY <1>2, <2>2, <2>3 DEF new
<1> QED BY <1>4, <1>5

\* A setting becomes what the spec asks for.
LEMMA SettingIs ==
    ASSUME TypeOK, NEW s \in Setting, SyncSetting(s)
    PROVE  \/ (w.spec[s] = Keep \/ w.snap[s] = Desired(s)) /\ Passes(AfterSetting[s])
           \/ /\ w.spec[s] # Keep
              /\ Runs([vg EXCEPT ![s] = Desired(s)], AfterSetting[s], AfterError[s])
<1>1. w \in Work /\ AfterSetting[s] \in PC /\ AfterError[s] \in PC
    BY DEF TypeOK, PC, Setting, AfterSetting, AfterError
<1>2. CASE w.spec[s] = Keep \/ w.snap[s] = Desired(s)
    BY <1>1, <1>2, StepMoves DEF SyncSetting, Skip, Passes
<1>3. CASE ~(w.spec[s] = Keep \/ w.snap[s] = Desired(s))
    <2> DEFINE new == [vg EXCEPT ![s] = Desired(s)]
    <2>1. PICK lvs \in LVCounts :
             Command(Settable(s, lvs), new, AfterSetting[s], AfterError[s])
        BY <1>3 DEF SyncSetting
    <2> HIDE DEF new
    <2>2. Runs(new, AfterSetting[s], AfterError[s])
        BY <1>1, <2>1, StepMoves DEF Command, Runs
    <2> QED BY <1>3, <2>2 DEF new
<1> QED BY <1>2, <1>3

\* Moving extents leaves the VG as it is, and them in it.
LEMMA PVMoveIs ==
    ASSUME TypeOK, NEW d \in w.todo, PVMove(d)
    PROVE  /\ vg' = vg
           /\ used' \subseteq vg.pvs
           /\ \/ Missing = {} /\ (Moves("reduce", w.errs) \/ Moves("move", w.errs)) /\ Quiet
              \/ Missing = {} /\ Moves("maxPV", w.errs \cup {"other"}) /\ Quiet
              \/ Missing # {} /\ Moves("maxPV", w.errs \cup {"missing"}) /\ Quiet
              \/ Moves("maxPV", w.errs \cup {"other"}) /\ Trouble
<1>1. w \in Work /\ "maxPV" \in PC /\ used \subseteq vg.pvs
    BY DEF TypeOK, PC, Setting
<1>2. ASSUME Movable(d), used' \in Results(d)
      PROVE  used' \subseteq vg.pvs
    BY <1>1, <1>2 DEF Movable, Results, Room
<1>3. vg' = vg /\ used' \subseteq vg.pvs
    BY <1>1, <1>2 DEF PVMove
<1> QED BY <1>1, <1>3, StepMoves, MovedMoves DEF PVMove

\* What is taken out of the VG is taken out with its extents.
LEMMA ReduceIs ==
    ASSUME TypeOK, Reduce
    PROVE  /\ \/ /\ Missing = {}
                 /\ vg' = [vg EXCEPT !.pvs = @ \ Old]
                 /\ Moves("maxPV", w.errs)
                 /\ Quiet
              \/ /\ Missing = {}
                 /\ \E out \in SUBSET vg.pvs : vg' = [vg EXCEPT !.pvs = @ \ out]
                 /\ Moves("maxPV", w.errs \cup {"other"})
                 /\ Quiet \/ Trouble
              \/ /\ Missing # {}
                 /\ vg' = vg
                 /\ \/ Moves("maxPV", w.errs \cup {"missing"}) /\ Quiet
                    \/ Moves("maxPV", w.errs \cup {"other"}) /\ Trouble
           /\ used' \subseteq vg'.pvs
<1>1. w \in Work /\ "maxPV" \in PC /\ used \subseteq vg.pvs /\ vg \in VG
    BY DEF TypeOK, PC, Setting
<1>2. ASSUME NEW out, Lose(out)
      PROVE  vg' = [vg EXCEPT !.pvs = @ \ out] /\ used' \subseteq vg'.pvs
    <2>1. vg.pvs \ out \in SUBSET Device
        BY <1>1, VGType
    <2> QED BY <1>1, <1>2, <2>1, VGType DEF Lose
<1>3. CASE /\ Missing = {} /\ Old \subseteq Reducible /\ Old # vg.pvs /\ Quiet
           /\ Lose(Old)
           /\ Step("maxPV")
    BY <1>1, <1>2, <1>3, StepMoves
<1>4. CASE /\ Missing = {}
           /\ Quiet \/ Trouble
           /\ \E out \in SUBSET (Old \cap Reducible) : Lose(out)
           /\ Fail("maxPV", "other")
    <2>1. PICK out \in SUBSET (Old \cap Reducible) : Lose(out)
        BY <1>4
    <2>2. out \in SUBSET vg.pvs
        BY DEF Reducible
    <2>3. Moves("maxPV", w.errs \cup {"other"})
        BY <1>1, <1>4, StepMoves
    <2>4. vg' = [vg EXCEPT !.pvs = @ \ out] /\ used' \subseteq vg'.pvs
        BY <1>2, <2>1
    <2> QED BY <1>4, <2>2, <2>3, <2>4
<1>5. CASE /\ Missing # {}
           /\ UNCHANGED <<vg, used>>
           /\ \/ Fail("maxPV", "missing") /\ Quiet
              \/ Fail("maxPV", "other") /\ Trouble
    BY <1>1, <1>5, StepMoves
<1> QED BY <1>3, <1>4, <1>5 DEF Reduce

\* ListDevices and ReadPVs change what the work has read, or fail.
LEMMA ReadsAre ==
    ASSUME TypeOK
    PROVE  /\ ListDevices =>
                  \/ /\ Quiet
                     /\ w' \in Work
                     /\ w' = [w EXCEPT !.pc = "pvs", !.listed = w.spec.select \cap present]
                  \/ Trouble /\ Moves("maxPV", w.errs \cup {"other"})
           /\ ReadPVs =>
                  \/ /\ Quiet
                     /\ w' \in Work
                     /\ w' = [w EXCEPT !.pc = "extend", !.current = Names,
                                       !.todo = Names \ w.listed]
                  \/ Trouble /\ Moves("maxPV", w.errs \cup {"other"})
<1>1. w \in Work /\ "maxPV" \in PC /\ vg \in VG /\ present \subseteq Device
    BY DEF TypeOK, PC, Setting
<1>2. w.spec.select \cap present \in SUBSET Device
    BY <1>1
<1>3. /\ Names \in SUBSET (Device \cup {Unknown})
      /\ Names \ w.listed \in SUBSET (Device \cup {Unknown})
    BY <1>1, VGType DEF Names
<1>4. ASSUME ListDevices, ~(Trouble /\ Fail("maxPV", "other"))
      PROVE  /\ Quiet
             /\ w' = [w EXCEPT !.pc = "pvs", !.listed = w.spec.select \cap present]
             /\ w' \in Work
    <2>1. ASSUME NEW listed \in SUBSET Device
          PROVE  [w EXCEPT !.pc = "pvs", !.listed = listed] \in Work
        BY <1>1 DEF Work, PC
    <2>2. /\ Quiet
          /\ w' = [w EXCEPT !.pc = "pvs", !.listed = w.spec.select \cap present]
        BY <1>4 DEF ListDevices
    <2> QED BY <1>2, <2>1, <2>2
<1>5. ASSUME ReadPVs, ~(Trouble /\ Fail("maxPV", "other"))
      PROVE  /\ Quiet
             /\ w' = [w EXCEPT !.pc = "extend", !.current = Names, !.todo = Names \ w.listed]
             /\ w' \in Work
    <2>1. ASSUME NEW current \in SUBSET (Device \cup {Unknown}),
                 NEW todo \in SUBSET (Device \cup {Unknown})
          PROVE  [w EXCEPT !.pc = "extend", !.current = current, !.todo = todo] \in Work
        BY <1>1 DEF Work, PC
    <2>2. /\ Quiet
          /\ w' = [w EXCEPT !.pc = "extend", !.current = Names, !.todo = Names \ w.listed]
        BY <1>5 DEF ReadPVs
    <2> QED BY <1>3, <2>1, <2>2
<1>6. Fail("maxPV", "other") => Moves("maxPV", w.errs \cup {"other"})
    BY <1>1, StepMoves
<1> QED BY <1>4, <1>5, <1>6

Syncer == syncTags \/ syncPVs \/ \E s \in Setting : SyncSetting(s)

\* What the syncers have in common: they stay in sync with what was read, have the
\* condition and the recursion alone, touch no VG with a missing PV, and speak of a
\* missing PV only if there is one.
Goes ==
    /\ Syncing /\ Syncing'
    /\ w.pc # "removeMissing" /\ w'.pc # "removeMissing"
    /\ w' \in Work
    /\ w'.gen = w.gen /\ w'.spec = w.spec /\ w'.snap = w.snap
    /\ w'.depth = w.depth /\ w'.cond = w.cond
    /\ w.errs \subseteq w'.errs
    /\ "missing" \in w'.errs => Lost \/ Missing # {}
    /\ vg' \in VG /\ used' \subseteq vg'.pvs
    /\ Missing # {} => vg' = vg
    /\ Missing' \subseteq Missing
    /\ UNCHANGED <<spec, gen, present, status, emptyMoveFails>>
    /\ Quiet \/ Trouble

\* A move between the steps of sync is such a step when it leaves the VG, or makes
\* it one that has all the PVs it had and others that are attached.
LEMMA MoveGoes ==
    ASSUME TypeOK, w.pc \notin {"idle", "status", "update", "removeMissing"},
           NEW pc \in PC \ {"idle", "status", "update", "removeMissing"},
           NEW errs, Moves(pc, errs), w.errs \subseteq errs,
           "missing" \in errs => Lost \/ Missing # {}, vg' \in VG, used' \subseteq vg'.pvs, vg'.pvs \subseteq vg.pvs \cup present,
           Missing # {} => vg' = vg,
           UNCHANGED <<spec, gen, present, status, emptyMoveFails>>, Quiet \/ Trouble
    PROVE  Goes
<1>1. Missing' \subseteq Missing
    BY DEF Missing
<1> QED BY <1>1 DEF Goes, Moves, Syncing

\* Every syncer is such a step.
LEMMA SyncerGoes == ASSUME TypeOK, Syncer PROVE Goes
<1> DEFINE Before == PC \ {"idle", "status", "update", "removeMissing"}
<1>0. /\ w \in Work /\ vg \in VG /\ used \subseteq vg.pvs /\ present \subseteq Device
      /\ w.snap \in VG /\ w.spec \in Spec0 /\ w.listed \subseteq Device
      /\ w.errs \subseteq {"missing", "other"}
    BY WorkType DEF TypeOK
<1>1. UNCHANGED <<spec, gen, present, status, emptyMoveFails>>
    BY DEF Syncer, syncTags, syncPVs, AddTags, DelTags, ListDevices, ReadPVs, Extend, PVMove,
           Reduce, SyncSetting, outside
<1>2. {"delTags", "list", "maxPV", "move", "reduce", "maxLV", "alloc", "auto", "decide"} \subseteq Before
    BY DEF PC, Setting
<1>3. w.pc \notin {"idle", "status", "update", "removeMissing"}
    BY DEF Syncer, syncTags, syncPVs, AddTags, DelTags, ListDevices, ReadPVs, Extend, PVMove,
           Reduce, SyncSetting, Setting
<1> HIDE DEF Before
<1>4. ASSUME NEW pc \in Before, NEW errs, Moves(pc, errs), w.errs \subseteq errs,
             "missing" \in errs => Lost \/ Missing # {}, vg' \in VG, used' \subseteq vg'.pvs,
             vg'.pvs \subseteq vg.pvs \cup present, Missing # {} => vg' = vg, Quiet \/ Trouble
      PROVE  Goes
    BY <1>1, <1>3, <1>4, MoveGoes DEF Before
<1>5. ASSUME NEW next \in Before, Passes(next), used' = used
      PROVE  Goes
    BY <1>0, <1>4, <1>5 DEF Passes, Lost
<1>6. ASSUME NEW new \in VG, NEW next \in Before, NEW onError \in Before,
             vg.pvs \subseteq new.pvs, vg' = vg \/ new.pvs \subseteq vg.pvs \cup present,
             Runs(new, next, onError), used' = used
      PROVE  Goes
    <2>1. /\ "missing" \in w.errs \cup {"other"} => Lost
          /\ "missing" \in w.errs => Lost
        BY DEF Lost
    <2>2. vg' \in {vg, new} /\ (Missing # {} => vg' = vg) /\ (Quiet \/ Trouble)
        BY <1>6 DEF Runs
    <2>3. vg' \in VG /\ used' \subseteq vg'.pvs /\ vg'.pvs \subseteq vg.pvs \cup present
        BY <1>0, <1>6, <2>2
    <2> QED BY <1>4, <1>6, <2>1, <2>2, <2>3 DEF Runs
<1>7. CASE AddTags
    <2> DEFINE new == [vg EXCEPT !.tags = @ \cup (w.spec.tags \ w.snap.tags)]
    <2>1. vg.tags \cup (w.spec.tags \ w.snap.tags) \in SUBSET Tag
        BY <1>0, VGType DEF Spec0
    <2>2. new \in VG /\ new.pvs = vg.pvs
        BY <1>0, <2>1, VGType
    <2>3. used' = used
        BY <1>7 DEF AddTags
    <2>4. Passes("delTags") \/ Runs(new, "delTags", "list")
        BY <1>7, AddTagsIs
    <2> HIDE DEF new
    <2> QED BY <1>2, <1>5, <1>6, <2>2, <2>3, <2>4
<1>8. CASE DelTags
    <2> DEFINE new == [vg EXCEPT !.tags = @ \ (w.snap.tags \ w.spec.tags)]
    <2>1. vg.tags \ (w.snap.tags \ w.spec.tags) \in SUBSET Tag
        BY <1>0, VGType
    <2>2. new \in VG /\ new.pvs = vg.pvs
        BY <1>0, <2>1, VGType
    <2>3. used' = used
        BY <1>8 DEF DelTags
    <2>4. Passes("list") \/ Runs(new, "list", "list")
        BY <1>8, DelTagsIs
    <2> HIDE DEF new
    <2> QED BY <1>2, <1>5, <1>6, <2>2, <2>3, <2>4
<1>9. CASE ListDevices \/ ReadPVs
    <2>1. vg' = vg /\ used' = used
        BY <1>9 DEF ListDevices, ReadPVs
    <2>2. CASE Trouble /\ Moves("maxPV", w.errs \cup {"other"})
        BY <1>0, <1>2, <1>4, <2>1, <2>2 DEF Lost
    <2>3. CASE /\ Quiet /\ w' \in Work
               /\ \/ w' = [w EXCEPT !.pc = "pvs", !.listed = w.spec.select \cap present]
                  \/ w' = [w EXCEPT !.pc = "extend", !.current = Names, !.todo = Names \ w.listed]
        <3>1. /\ w'.pc \in {"pvs", "extend"} /\ w'.errs = w.errs
              /\ w'.gen = w.gen /\ w'.spec = w.spec /\ w'.snap = w.snap
              /\ w'.depth = w.depth /\ w'.cond = w.cond
            BY <1>0, <2>3 DEF Work
        <3>2. Missing' = Missing
            BY <1>1, <2>1 DEF Missing
        <3> QED BY <1>0, <1>1, <1>3, <2>1, <2>3, <3>1, <3>2 DEF Goes, Syncing, Lost
    <2> QED BY <1>9, <2>2, <2>3, ReadsAre
<1>10. CASE Extend
    <2> DEFINE new == [vg EXCEPT !.pvs = @ \cup New]
    <2>1. vg.pvs \cup New \in SUBSET Device
        BY <1>0, VGType DEF New
    <2>2. new \in VG /\ new.pvs = vg.pvs \cup New
        BY <1>0, <2>1, VGType
    <2>3. used' = used
        BY <1>10 DEF Extend
    <2>4. /\ Shrink \in {"maxPV", "move", "reduce"}
          /\ \/ Passes(Shrink)
             \/ (vg' = vg \/ New \subseteq present) /\ Runs(new, Shrink, "maxPV")
        BY <1>10, ExtendIs
    <2> HIDE DEF new
    <2> QED BY <1>2, <1>5, <1>6, <2>2, <2>3, <2>4
<1>11. ASSUME NEW d \in w.todo, PVMove(d)
       PROVE  Goes
    <2>1. PICK pc \in {"move", "reduce", "maxPV"}, errs \in SUBSET {"missing", "other"} :
             /\ Moves(pc, errs) /\ w.errs \subseteq errs
             /\ "missing" \in errs => Lost \/ Missing # {}
        BY <1>0, <1>11, PVMoveIs DEF Lost
    <2>2. vg' = vg /\ used' \subseteq vg'.pvs /\ (Quiet \/ Trouble)
        BY <1>11, PVMoveIs
    <2> QED BY <1>0, <1>2, <1>4, <2>1, <2>2
<1>12. CASE Reduce
    <2>1. PICK errs \in SUBSET {"missing", "other"} :
             /\ Moves("maxPV", errs) /\ w.errs \subseteq errs
             /\ "missing" \in errs => Lost \/ Missing # {}
        BY <1>0, <1>12, ReduceIs DEF Lost
    <2>2. /\ Missing # {} => vg' = vg
          /\ Quiet \/ Trouble
          /\ used' \subseteq vg'.pvs
          /\ vg' = vg \/ \E out : vg' = [vg EXCEPT !.pvs = @ \ out]
        BY <1>12, ReduceIs
    <2>3. \A out : /\ [vg EXCEPT !.pvs = @ \ out] \in VG
                   /\ [vg EXCEPT !.pvs = @ \ out].pvs \subseteq vg.pvs
        <3> TAKE out
        <3>1. vg.pvs \ out \in SUBSET Device
            BY <1>0, VGType
        <3> QED BY <1>0, <3>1, VGType
    <2>4. vg' \in VG /\ vg'.pvs \subseteq vg.pvs
        BY <1>0, <2>2, <2>3
    <2> QED BY <1>2, <1>4, <2>1, <2>2, <2>4
<1>13. ASSUME NEW s \in Setting, SyncSetting(s)
       PROVE  Goes
    <2> DEFINE new == [vg EXCEPT ![s] = Desired(s)]
    <2>1. AfterSetting[s] \in Before /\ AfterError[s] \in Before
        BY <1>2 DEF AfterSetting, AfterError, Setting
    <2>2. used' = used
        BY <1>13 DEF SyncSetting
    <2>3. w.spec[s] # Keep => new \in VG /\ new.pvs = vg.pvs
        BY <1>0, SettingType
    <2>4. \/ Passes(AfterSetting[s])
          \/ w.spec[s] # Keep /\ Runs(new, AfterSetting[s], AfterError[s])
        BY <1>13, SettingIs
    <2> HIDE DEF new
    <2> QED BY <1>5, <1>6, <2>1, <2>2, <2>3, <2>4
<1> QED BY <1>7, <1>8, <1>9, <1>10, <1>11, <1>12, <1>13 DEF Syncer, syncTags, syncPVs
-----------------------------------------------------------------------------
(* The steps around the syncers *)

\* The work goes on at pc with a new judgement, and on what it has read.
Turns(pc, errs, depth, cond) ==
    /\ w' \in Work
    /\ w'.pc = pc /\ w'.errs = errs /\ w'.depth = depth /\ w'.cond = cond
    /\ w'.gen = w.gen /\ w'.spec = w.spec /\ w'.snap = w.snap

\* The conditions a reconcile of generation g writes.
Judgement(g) == {SetSyncedOnHostDefault(g), SetSyncedOnHostCreationFailed(g),
                 SetSyncedOnHostCreationOK(g)}

LEMMA JudgementType == ASSUME NEW g \in Nat PROVE Judgement(g) \subseteq Condition
BY DEF Judgement, SetSyncedOnHostDefault, SetSyncedOnHostCreationFailed,
       SetSyncedOnHostCreationOK, Condition

\* sync concludes from the errors of its syncers alone.
LEMMA DecideIs ==
    ASSUME TypeOK, Decide
    PROVE  \/ /\ Lost /\ RemovesMissing(w.spec.loss)
              /\ Turns("removeMissing", w.errs, w.depth, w.cond)
           \/ /\ w.errs # {}
              /\ Turns("status", w.errs, w.depth, SetSyncedOnHostCreationFailed(w.gen))
           \/ /\ w.errs = {}
              /\ Turns("status", w.errs, w.depth, SetSyncedOnHostCreationOK(w.gen))
<1>1. w \in Work /\ w.gen \in Nat /\ {"removeMissing", "status"} \subseteq PC
    BY WorkType DEF TypeOK, PC
<1>2. Step("removeMissing") => Turns("removeMissing", w.errs, w.depth, w.cond)
    BY <1>1, StepMoves DEF Moves, Turns
<1>3. ASSUME NEW cond \in Condition, Conclude(cond)
      PROVE  Turns("status", w.errs, w.depth, cond)
    BY <1>1, <1>3 DEF Conclude, Turns, Work
<1>4. /\ SetSyncedOnHostCreationFailed(w.gen) \in Condition
      /\ SetSyncedOnHostCreationOK(w.gen) \in Condition
    BY <1>1, JudgementType DEF Judgement
<1> QED BY <1>2, <1>3, <1>4 DEF Decide, Lost

\* vgreduce --removemissing takes out all that is missing, and sync begins again, or
\* some of it, and sync gives up.
LEMMA RemoveMissingIs ==
    ASSUME TypeOK, RemoveMissing
    PROVE  /\ vg' \in VG /\ used' \subseteq vg'.pvs
           /\ \/ /\ vg' = [vg EXCEPT !.pvs = @ \ Missing]
                 /\ Missing' = {}
                 /\ Turns("addTags", {}, w.depth + 1, SetSyncedOnHostDefault(w.gen))
                 /\ Quiet
              \/ /\ Missing' \subseteq Missing
                 /\ Turns("status", w.errs, w.depth, w.cond)
                 /\ Quiet \/ Trouble
<1>1. /\ w \in Work /\ w.gen \in Nat /\ w.depth \in Nat /\ {"addTags", "status"} \subseteq PC
      /\ vg \in VG /\ used \subseteq vg.pvs
    BY WorkType DEF TypeOK, PC
<1>2. Again => Turns("addTags", {}, w.depth + 1, SetSyncedOnHostDefault(w.gen))
    <2>1. SetSyncedOnHostDefault(w.gen) \in Condition
        BY <1>1, JudgementType DEF Judgement
    <2>2. ASSUME NEW pc \in PC, NEW errs \in SUBSET {"missing", "other"}, NEW depth \in Nat,
                 NEW cond \in Condition,
                 w' = [w EXCEPT !.pc = pc, !.errs = errs, !.depth = depth, !.cond = cond]
          PROVE  Turns(pc, errs, depth, cond)
        BY <1>1, <2>2 DEF Turns, Work
    <2>3. w.depth + 1 \in Nat /\ "addTags" \in PC /\ {} \in SUBSET {"missing", "other"}
        BY <1>1
    <2> QED BY <2>1, <2>2, <2>3 DEF Again
<1>3. GiveUp => Turns("status", w.errs, w.depth, w.cond)
    BY <1>1, StepMoves DEF GiveUp, Moves, Turns
<1>4. ASSUME NEW out, vg' = [vg EXCEPT !.pvs = @ \ out]
      PROVE  vg' \in VG /\ vg'.pvs = vg.pvs \ out
    <2>1. vg.pvs \ out \in SUBSET Device
        BY <1>1, VGType
    <2> QED BY <1>1, <1>4, <2>1, VGType
<1>5. ASSUME NEW out, vg' = [vg EXCEPT !.pvs = @ \ out], used' \subseteq used \ out
      PROVE  vg' \in VG /\ used' \subseteq vg'.pvs
    BY <1>1, <1>4, <1>5
<1>6. present' = present
    BY DEF RemoveMissing, outside
<1>7. ASSUME NEW out, vg' = [vg EXCEPT !.pvs = @ \ out]
      PROVE  Missing' \subseteq Missing /\ (out = Missing => Missing' = {})
    BY <1>4, <1>6, <1>7 DEF Missing
<1>8. CASE /\ vg' = [vg EXCEPT !.pvs = @ \ Missing]
           /\ used' \in SUBSET (used \ Missing)
           /\ Again /\ Quiet
    BY <1>2, <1>5, <1>7, <1>8
<1>9. CASE Lose(Missing) /\ Again /\ Quiet
    BY <1>2, <1>5, <1>7, <1>9 DEF Lose
<1>10. CASE Lose(Missing \ used) /\ GiveUp /\ Quiet
    BY <1>3, <1>5, <1>7, <1>10 DEF Lose
<1>11. CASE UNCHANGED <<vg, used>> /\ GiveUp /\ Trouble
    BY <1>1, <1>3, <1>6, <1>11 DEF Missing
<1> QED BY <1>8, <1>9, <1>10, <1>11 DEF RemoveMissing

\* syncStatus keeps the condition, and the update of the status ends the work.
LEMMA StatusIs ==
    ASSUME TypeOK
    PROVE  /\ SyncStatus => Turns("update", w.errs, w.depth, w.cond) /\ (Quiet \/ Trouble)
           /\ Idle => Turns("idle", w.errs, w.depth, w.cond)
<1>1. /\ w \in Work /\ {"update", "idle"} \subseteq PC
      /\ vg.pvs \in SUBSET Device /\ w.snap \in VG
    BY WorkType, VGType DEF TypeOK, PC
<1>2. /\ Step("update") => Turns("update", w.errs, w.depth, w.cond)
      /\ Step("idle") => Turns("idle", w.errs, w.depth, w.cond)
    BY <1>1, StepMoves DEF Moves, Turns
<1>3. ASSUME \/ w' = [w EXCEPT !.pc = "update", !.pvs = vg.pvs, !.vg = w.snap]
             \/ w' = [w EXCEPT !.pc = "update", !.pvs = vg.pvs]
      PROVE  Turns("update", w.errs, w.depth, w.cond)
    BY <1>1, <1>3 DEF Turns, Work
<1> QED BY <1>2, <1>3 DEF SyncStatus, Idle
-----------------------------------------------------------------------------
(* Types, the recursion, and the condition in hand *)

Base == TypeOK /\ RemovalDecided /\ LossCounted /\ CondInHand

\* A VG that is made for a spec is one, and nothing of it is missing at first.
LEMMA BaseInit == Init => Base
<1> SUFFICES ASSUME Init PROVE Base
    OBVIOUS
<1>1. (CHOOSE a \in Allocation : TRUE) \in Allocation
    OBVIOUS
<1>2. ASSUME NEW s \in Specs
      PROVE  Made(s) \in VG
    <2>1. s \in Spec0
        OBVIOUS
    <2> QED BY <1>1, <2>1 DEF Made, VG, Spec0, convertToAutoActivation
<1>3. NoSnap \in VG
    BY <1>1 DEF NoSnap, VG
<1>4. vg \in VG /\ spec \in Specs /\ gen = 1 /\ trouble = 0 /\ calm = FALSE
    <2>1. \E s \in Specs : vg = Made(s)
        BY DEF Init, Makeable
    <2> QED BY <1>2, <2>1 DEF Init
<1>5. status \in Status /\ status.cond \in Condition
    BY <1>3 DEF Init, Status, Condition
<1>6. w \in Work /\ w.pc = "idle" /\ w.errs = {} /\ w.depth = 0
    BY <1>3, <1>4, <1>5 DEF Init, Work, PC
<1>7. Missing = {}
    BY <1>4, VGType DEF Init, Missing
<1>8. TypeOK
    <2>1. gen \in Nat /\ trouble \in Nat
        BY <1>4
    <2>2. calm \in BOOLEAN
        BY <1>4, Zenon
    <2>3. /\ present \subseteq Device /\ used \subseteq vg.pvs
          /\ emptyMoveFails \in EmptyMoveFails
        BY DEF Init
    <2> QED BY <1>4, <1>5, <1>6, <2>1, <2>2, <2>3, Zenon DEF TypeOK
<1> QED BY <1>4, <1>6, <1>7, <1>8 DEF Base, RemovalDecided, LossCounted, CondInHand, Lost

\* What keeps Base: the work turns within its reading, VG and status stay well formed,
\* and missing PVs come only with trouble.
LEMMA TurnKeepsBase ==
    ASSUME Base, NEW pc, NEW errs, NEW depth, NEW cond, Turns(pc, errs, depth, cond),
           vg' \in VG, used' \subseteq vg'.pvs, status' \in Status,
           UNCHANGED <<spec, gen, present, emptyMoveFails>>, Quiet \/ Trouble,
           (w.pc # "idle" /\ cond \in Judgement(w.gen)) \/ pc = "idle",
           pc \notin {"idle", "status", "update"} => cond.reason = "Pending",
           pc = "removeMissing" => "missing" \in errs /\ RemovesMissing(w.spec.loss),
           depth <= trouble,
           Missing' # {} \/ "missing" \in errs => depth < trouble
    PROVE  Base'
<1>0. TypeOK
    BY DEF Base
<1>1. trouble' \in Nat /\ trouble <= trouble' /\ trouble \in Nat /\ gen' \in Nat
    BY <1>0, SMT DEF Quiet, Trouble, TypeOK
<1>2. TypeOK'
    <2>1. calm' \in BOOLEAN
        BY <1>0, Zenon DEF Quiet, Trouble, TypeOK
    <2> QED BY <1>0, <1>1, <2>1, Zenon DEF TypeOK, Turns
<1>3. depth \in Nat
    BY WorkType, <1>2 DEF TypeOK, Turns, Work
<1>4. LossCounted'
    BY <1>1, <1>3 DEF LossCounted, Lost, Turns
<1>5. RemovalDecided' /\ CondInHand'
    BY DEF RemovalDecided, CondInHand, Lost, Turns, Syncing, Judgement
<1> QED BY <1>2, <1>4, <1>5 DEF Base

\* The syncers keep it.
LEMMA BaseSyncer == ASSUME Base, Syncer PROVE Base'
<1>1. Goes
    BY SyncerGoes DEF Base
<1>2. Turns(w'.pc, w'.errs, w.depth, w.cond)
    BY <1>1 DEF Goes, Turns
<1>3. /\ status' \in Status /\ UNCHANGED <<spec, gen, present, emptyMoveFails>> /\ (Quiet \/ Trouble)
      /\ vg' \in VG /\ used' \subseteq vg'.pvs
    BY <1>1 DEF Goes, Base, TypeOK
<1>4. w.pc # "idle" /\ w.cond \in Judgement(w.gen) /\ w.cond.reason = "Pending"
      /\ w'.pc # "removeMissing"
    BY <1>1 DEF Goes, Base, CondInHand, Judgement, Syncing
<1>5. /\ w.depth <= trouble
      /\ Missing' # {} \/ "missing" \in w'.errs => w.depth < trouble
    BY <1>1 DEF Goes, Base, LossCounted
<1> QED BY <1>2, <1>3, <1>4, <1>5, TurnKeepsBase

\* The rest of the reconcile keeps it. The recursion takes away what it counts.
LEMMA BaseReconcile == ASSUME Base, Reconcile PROVE Base'
<1>0. /\ TypeOK /\ w \in Work /\ vg \in VG /\ used \subseteq vg.pvs /\ status \in Status
      /\ w.depth \in Nat /\ trouble \in Nat /\ w.gen \in Nat
      /\ w.depth <= trouble /\ (Missing # {} \/ Lost => w.depth < trouble)
    BY WorkType DEF Base, TypeOK, LossCounted
<1>1. w.pc # "idle" => w.cond \in Judgement(w.gen)
    BY DEF Base, CondInHand, Judgement
<1>2. CASE Begin
    <2>1. /\ w' \in Work /\ w'.pc = "addTags" /\ w'.errs = {} /\ w'.depth = 0
          /\ w'.gen = gen /\ w'.cond = SetSyncedOnHostDefault(gen)
        <3>1. SetSyncedOnHostDefault(gen) \in Condition /\ gen \in Nat /\ "addTags" \in PC
            BY <1>0, JudgementType DEF TypeOK, Judgement, PC
        <3>2. status.pvs \in SUBSET Device /\ status.vg \in VG
            BY <1>0 DEF Status
        <3> QED BY <1>0, <1>2, <3>1, <3>2 DEF Begin, Work, TypeOK
    <2>2. TypeOK' /\ trouble' = trouble /\ Missing' = Missing
        BY <1>0, <1>2, <2>1 DEF Begin, outside, TypeOK, Missing
    <2>3. LossCounted'
        BY <1>0, <2>1, <2>2 DEF LossCounted, Lost
    <2>4. RemovalDecided' /\ CondInHand'
        BY <2>1 DEF RemovalDecided, CondInHand, SetSyncedOnHostDefault
    <2> QED BY <2>2, <2>3, <2>4 DEF Base
<1>3. CASE Syncer
    BY <1>3, BaseSyncer
<1>4. CASE Decide
    <2>1. /\ UNCHANGED <<spec, gen, present, emptyMoveFails>> /\ vg' \in VG /\ used' \subseteq vg'.pvs
          /\ status' \in Status /\ Quiet /\ w.pc = "decide"
          /\ Missing' = Missing
        BY <1>0, <1>4 DEF Decide, outside, Missing
    <2>2. w.cond \in Judgement(w.gen) /\ w.cond.reason = "Pending"
        BY <1>1, <2>1 DEF Base, CondInHand, Syncing
    <2>3. CASE /\ Lost /\ RemovesMissing(w.spec.loss)
               /\ Turns("removeMissing", w.errs, w.depth, w.cond)
        BY <1>0, <2>1, <2>2, <2>3, TurnKeepsBase DEF Lost
    <2>4. CASE \E cond \in Judgement(w.gen) : Turns("status", w.errs, w.depth, cond)
        BY <1>0, <2>1, <2>4, TurnKeepsBase DEF Lost
    <2> QED BY <1>0, <1>4, <2>3, <2>4, DecideIs DEF Judgement
<1>5. CASE RemoveMissing
    <2>1. /\ UNCHANGED <<spec, gen, present, emptyMoveFails>> /\ status' \in Status
          /\ w.pc = "removeMissing" /\ vg' \in VG /\ used' \subseteq vg'.pvs
        BY <1>0, <1>5, RemoveMissingIs DEF RemoveMissing, outside
    <2>2. Lost /\ w.depth < trouble
        BY <1>0, <2>1 DEF Base, RemovalDecided
    <2>3. CASE /\ Missing' = {}
               /\ Turns("addTags", {}, w.depth + 1, SetSyncedOnHostDefault(w.gen))
               /\ Quiet
        <3>1. /\ w.depth + 1 <= trouble
              /\ SetSyncedOnHostDefault(w.gen) \in Judgement(w.gen)
              /\ SetSyncedOnHostDefault(w.gen).reason = "Pending"
              /\ ~("missing" \in {})
            BY <1>0, <2>2 DEF Judgement, SetSyncedOnHostDefault
        <3> QED BY <2>1, <2>3, <3>1, TurnKeepsBase
    <2>4. CASE /\ Turns("status", w.errs, w.depth, w.cond)
               /\ Quiet \/ Trouble
        BY <1>0, <1>1, <2>1, <2>2, <2>4, TurnKeepsBase
    <2> QED BY <1>0, <1>5, <2>3, <2>4, RemoveMissingIs
<1>6. CASE SyncStatus
    <2>1. /\ UNCHANGED <<spec, gen, present, emptyMoveFails>> /\ status' \in Status
          /\ w.pc = "status" /\ vg' \in VG /\ used' \subseteq vg'.pvs
          /\ Missing' = Missing
        BY <1>0, <1>6 DEF SyncStatus, outside, Missing
    <2>2. Turns("update", w.errs, w.depth, w.cond) /\ (Quiet \/ Trouble)
        BY <1>0, <1>6, StatusIs
    <2> QED BY <1>0, <1>1, <2>1, <2>2, TurnKeepsBase DEF Lost
<1>7. CASE UpdateStatus
    <2>1. /\ UNCHANGED <<spec, gen, present, emptyMoveFails>>
          /\ vg' \in VG /\ used' \subseteq vg'.pvs /\ (Quiet \/ Trouble)
          /\ Missing' = Missing
        BY <1>0, <1>7 DEF UpdateStatus, outside, Missing
    <2>2. status' \in Status
        <3>1. [cond |-> w.cond, pvs |-> w.pvs, vg |-> w.vg] \in Status
            BY <1>0, WorkType DEF Status
        <3> QED BY <1>0, <1>7, <3>1 DEF UpdateStatus
    <2>3. Turns("idle", w.errs, w.depth, w.cond)
        BY <1>0, <1>7, StatusIs DEF UpdateStatus
    <2> QED BY <1>0, <2>1, <2>2, <2>3, TurnKeepsBase DEF Lost
<1> QED BY <1>2, <1>3, <1>4, <1>5, <1>6, <1>7 DEF Reconcile, Syncer

\* Whatever happens around the reconcile is counted.
LEMMA BaseOutside == ASSUME Base, Outside PROVE Base'
<1>0. /\ TypeOK /\ w \in Work /\ vg \in VG /\ w.depth \in Nat /\ trouble \in Nat
      /\ w.depth <= trouble
    BY WorkType DEF Base, TypeOK, LossCounted
<1>1. w' = w /\ (Trouble \/ Disturbance) /\ status' = status
    BY DEF Outside, EditSpec, Unplug, Plug, CreateLV, HostReduce
<1>2. trouble' \in Nat /\ w.depth < trouble'
    BY <1>0, <1>1, SMT DEF Trouble, Disturbance
<1>3. calm' \in BOOLEAN
    BY <1>0, <1>1, Zenon DEF Trouble, Disturbance, TypeOK
<1>4. /\ spec' \in Specs /\ gen' \in Nat /\ present' \subseteq Device
      /\ emptyMoveFails' \in EmptyMoveFails
    BY <1>0 DEF Outside, EditSpec, Unplug, Plug, CreateLV, HostReduce, TypeOK
<1>5. vg' \in VG /\ used' \subseteq vg'.pvs
    <2>1. CASE vg' = vg /\ used' = used
        BY <1>0, <2>1 DEF TypeOK
    <2>2. ASSUME NEW d \in Device, CreateLV(d)
          PROVE  vg' \in VG /\ used' \subseteq vg'.pvs
        BY <1>0, <2>2 DEF CreateLV, TypeOK
    <2>3. ASSUME NEW d \in Device, HostReduce(d)
          PROVE  vg' \in VG /\ used' \subseteq vg'.pvs
        <3>1. vg.pvs \ {d} \in SUBSET Device
            BY <1>0, VGType
        <3>2. vg' \in VG /\ vg'.pvs = vg.pvs \ {d}
            BY <1>0, <2>3, <3>1, VGType DEF HostReduce
        <3> QED BY <1>0, <2>3, <3>2 DEF HostReduce, TypeOK
    <2> QED BY <2>1, <2>2, <2>3 DEF Outside, EditSpec, Unplug, Plug
<1>6. TypeOK'
    BY <1>0, <1>1, <1>2, <1>3, <1>4, <1>5, Zenon DEF TypeOK
<1>7. LossCounted'
    BY <1>0, <1>1, <1>2 DEF LossCounted
<1>8. RemovalDecided' /\ CondInHand'
    BY <1>1 DEF Base, RemovalDecided, CondInHand, Lost, Syncing
<1> QED BY <1>6, <1>7, <1>8 DEF Base

\* So does every step, of whomever.
LEMMA BaseStep == Base /\ [Next]_vars => Base'
<1> SUFFICES ASSUME Base, [Next]_vars PROVE Base'
    OBVIOUS
<1>1. CASE Reconcile
    BY <1>1, BaseReconcile
<1>2. CASE Outside
    BY <1>2, BaseOutside
<1>3. CASE Abandon
    <2>1. /\ UNCHANGED <<spec, gen, present, emptyMoveFails>> /\ status' \in Status
          /\ vg' \in VG /\ used' \subseteq vg'.pvs /\ Trouble
          /\ Missing' = Missing
        BY <1>3 DEF Abandon, outside, Missing, Base, TypeOK
    <2>2. Turns("idle", w.errs, w.depth, w.cond)
        BY <1>3, StatusIs DEF Abandon, Base
    <2>3. w.depth <= trouble /\ (Missing' # {} \/ "missing" \in w.errs => w.depth < trouble)
        BY <2>1 DEF Base, LossCounted, Lost
    <2> QED BY <2>1, <2>2, <2>3, TurnKeepsBase
<1>4. CASE UNCHANGED vars
    BY <1>4 DEF vars, Base, TypeOK, RemovalDecided, LossCounted, CondInHand, Lost, Syncing, Missing
<1> QED BY <1>1, <1>2, <1>3, <1>4 DEF Next

\* The inductive invariant but for what is reached in step.
LEMMA BaseAlways == Spec => []Base
BY BaseInit, BaseStep, PTL DEF Spec

\* The type invariant of a reconcile and of the VG it works on: the extents in use are
\* in the VG, whatever is moved, reduced, removed and unplugged.
THEOREM TypeCorrect == Spec => []TypeOK
<1>1. Base => TypeOK
    BY DEF Base
<1> QED BY <1>1, BaseAlways, PTL

\* sync calls itself at most once for each loss of a device: the recursion of sync ends.
THEOREM RecursionEnds == Spec => []RecursionNeedsLoss
<1>1. Base => RecursionNeedsLoss
    BY DEF Base, LossCounted, RecursionNeedsLoss
<1> QED BY <1>1, BaseAlways, PTL
-----------------------------------------------------------------------------
(* What a step may not do *)

\* A PV that is missing leaves the VG only through a policy that gives it up.
THEOREM MissingIsKept == Spec => FailKeepsMissing
<1> DEFINE Kept == w.spec.loss = "Fail" => Missing \subseteq vg'.pvs
<1>1. ASSUME Base, [Next]_vars
      PROVE  Kept
    <2>1. CASE Missing = {} \/ vg' = vg
        BY <2>1 DEF Missing
    <2>2. CASE Syncer
        BY <1>1, <2>1, <2>2, SyncerGoes DEF Goes, Base
    <2>3. CASE RemoveMissing
        BY <1>1, <2>3 DEF RemoveMissing, Base, RemovalDecided, RemovesMissing
    <2>4. CASE Begin \/ Decide \/ SyncStatus \/ UpdateStatus \/ Abandon \/ UNCHANGED vars
        BY <2>1, <2>4 DEF Begin, Decide, SyncStatus, UpdateStatus, Abandon, vars
    <2>5. CASE Outside
        BY <2>1, <2>5 DEF Outside, EditSpec, Unplug, Plug, CreateLV, HostReduce
    <2> QED BY <1>1, <2>2, <2>3, <2>4, <2>5 DEF Next, Reconcile, Syncer
<1>2. Base /\ [Next]_vars => [Kept]_vars
    BY <1>1
<1> QED BY <1>2, BaseAlways, PTL DEF Spec, FailKeepsMissing

\* An exchange of an element leaves the size of a finite set.
LEMMA ExchangeKeepsSize ==
    ASSUME NEW S, IsFiniteSet(S), NEW d \in S, NEW to, to \notin S
    PROVE  Cardinality((S \ {d}) \cup {to}) = Cardinality(S)
<1>1. IsFiniteSet(S \ {d}) /\ Cardinality(S \ {d}) = Cardinality(S) - 1
    BY FS_RemoveElement
<1>2. to \notin S \ {d}
    OBVIOUS
<1>3. Cardinality((S \ {d}) \cup {to}) = Cardinality(S \ {d}) + 1
    BY <1>1, <1>2, FS_AddElement
<1>4. Cardinality(S) \in Nat
    BY FS_CardinalityType
<1> QED BY <1>1, <1>3, <1>4

\* pvmove gives up no extents: it takes those of one PV to another one that has none.
LEMMA MoveKeepsSize ==
    ASSUME TypeOK, NEW d, Movable(d), used' \in Results(d)
    PROVE  Cardinality(used') = Cardinality(used)
<1>1. IsFiniteSet(used)
    <2>1. used \subseteq Device
        BY VGType DEF TypeOK
    <2> QED BY <2>1, FS_Subset
<1>2. CASE d \in used
    <2>1. PICK to \in Room(d) : used' = (used \ {d}) \cup {to}
        BY <1>2 DEF Results
    <2>2. to \notin used
        BY DEF Room
    <2> QED BY <1>1, <1>2, <2>1, <2>2, ExchangeKeepsSize
<1>3. CASE d \notin used
    BY <1>3 DEF Results
<1> QED BY <1>2, <1>3

\* Extents are given up by vgreduce with --force only, for PVs that the policy of
\* removal forces out or that are missing under the policy ForceRemove.
THEOREM OnlyForceGivesUp == Spec => OnlyForceDestroys
<1> DEFINE Forceful == \/ w.pc = "reduce" /\ w.spec.removal = "ForceReduce"
                       \/ w.pc = "removeMissing" /\ w.spec.loss = "ForceRemove" /\ Missing # {}
           Spares == Cardinality(used') < Cardinality(used) => Forceful
<1>1. ASSUME TypeOK, [Next]_vars
      PROVE  Spares
    <2>0. IsFiniteSet(Device) /\ used \subseteq Device /\ vg \in VG
        BY <1>1, VGType DEF TypeOK
    <2>1. CASE Cardinality(used') = Cardinality(used)
        <3>1. Cardinality(used) \in Nat
            BY <2>0, FS_Subset, FS_CardinalityType
        <3> QED BY <2>1, <3>1
    <2>2. CASE used' = used
        BY <2>1, <2>2
    <2>3. CASE Forceful
        BY <2>3
    <2>4. CASE syncTags \/ ListDevices \/ ReadPVs \/ Extend \/ \E s \in Setting : SyncSetting(s)
        BY <2>2, <2>4 DEF syncTags, AddTags, DelTags, ListDevices, ReadPVs, Extend, SyncSetting
    <2>5. ASSUME NEW d \in w.todo, PVMove(d)
          PROVE  Spares
        <3>1. CASE Movable(d) /\ used' \in Results(d)
            BY <1>1, <2>1, <3>1, MoveKeepsSize
        <3>2. CASE used' = used
            BY <2>2, <3>2
        <3> QED BY <2>5, <3>1, <3>2 DEF PVMove
    <2>6. CASE Reduce
        <3>1. CASE Forced
            BY <2>3, <2>6, <3>1 DEF Reduce, Forced
        <3>2. CASE ~Forced
            <4>1. \A out : out \subseteq Reducible /\ Lose(out) => used' = used
                BY <3>2 DEF Reducible, Lose
            <4>2. used' = used
                BY <2>6, <4>1 DEF Reduce
            <4> QED BY <2>2, <4>2
        <3> QED BY <3>1, <3>2
    <2>7. CASE RemoveMissing
        <3>1. CASE w.spec.loss = "ForceRemove" /\ Missing \cap used # {}
            BY <2>3, <2>7, <3>1 DEF RemoveMissing
        <3>2. CASE ~(w.spec.loss = "ForceRemove" /\ Missing \cap used # {})
            <4>1. used' = used
                BY <2>7, <3>2 DEF RemoveMissing, Lose
            <4> QED BY <2>2, <4>1
        <3> QED BY <3>1, <3>2
    <2>8. CASE Begin \/ Decide \/ SyncStatus \/ UpdateStatus \/ Abandon \/ UNCHANGED vars
        BY <2>2, <2>8 DEF Begin, Decide, SyncStatus, UpdateStatus, Abandon, vars
    <2>9. CASE Outside
        <3>1. CASE used' = used
            BY <2>2, <3>1
        <3>2. ASSUME NEW d \in Device, CreateLV(d)
              PROVE  Spares
            <4>1. used' \subseteq Device /\ used \subseteq used'
                BY <2>0, <3>2 DEF CreateLV
            <4>2. IsFiniteSet(used')
                BY <2>0, <4>1, FS_Subset
            <4>3. /\ Cardinality(used) <= Cardinality(used')
                  /\ Cardinality(used) \in Nat /\ Cardinality(used') \in Nat
                BY <4>1, <4>2, FS_Subset, FS_CardinalityType
            <4> QED BY <4>3
        <3> QED BY <2>9, <3>1, <3>2 DEF Outside, EditSpec, Unplug, Plug, HostReduce
    <2> QED BY <1>1, <2>4, <2>5, <2>6, <2>7, <2>8, <2>9 DEF Next, Reconcile, syncPVs
<1>2. Base /\ [Next]_vars => [Spares]_vars
    BY <1>1 DEF Base
<1> QED BY <1>2, BaseAlways, PTL DEF Spec, OnlyForceDestroys

\* The status is written for the generation that was read, and a write of another one
\* is refused: Sync implements the contract of the condition, as Lifecycle does.
THEOREM ContractKept == Spec => StatusContractKept
<1>1. Init => C!Init
    BY DEF Init, C!Init
<1>2. ASSUME Base, [Next]_vars
      PROVE  [C!Next]_(C!vars)
    <2>1. CASE gen' = gen /\ status' = status
        BY <2>1 DEF C!vars
    <2>2. CASE EditSpec
        <3>1. C!ChangeSpec("it")
            BY <2>2 DEF EditSpec, C!ChangeSpec
        <3> QED BY <3>1 DEF C!Next
    <2>3. CASE UpdateStatus /\ status' # status
        <3>1. w.gen = gen /\ gen' = gen /\ status'.cond = w.cond
            BY <2>3 DEF UpdateStatus, outside
        <3>2. w.cond \in Judgement(gen)
            BY <1>2, <2>3, <3>1 DEF UpdateStatus, Base, CondInHand, Judgement
        <3>3. \E reason \in C!Reason : status'.cond = [reason |-> reason, gen |-> gen]
            BY <3>1, <3>2 DEF Judgement, SetSyncedOnHostDefault, SetSyncedOnHostCreationFailed,
                              SetSyncedOnHostCreationOK, C!Reason
        <3>4. C!WriteStatus("it")
            BY <3>1, <3>3 DEF C!WriteStatus
        <3> QED BY <3>4 DEF C!Next
    <2>4. CASE Syncer
        BY <1>2, <2>1, <2>4, SyncerGoes DEF Goes, Base
    <2>5. CASE Begin \/ Decide \/ RemoveMissing \/ SyncStatus \/ Abandon \/ UNCHANGED vars
        BY <2>1, <2>5 DEF Begin, Decide, RemoveMissing, SyncStatus, Abandon, outside, vars
    <2>6. CASE UpdateStatus /\ status' = status
        BY <2>1, <2>6 DEF UpdateStatus, outside
    <2>7. CASE Outside /\ ~EditSpec
        BY <2>1, <2>7 DEF Outside, Unplug, Plug, CreateLV, HostReduce
    <2> QED BY <1>2, <2>2, <2>3, <2>4, <2>5, <2>6, <2>7 DEF Next, Reconcile, Syncer, Outside
<1>3. Base /\ [Next]_vars => [C!Next]_(C!vars)
    BY <1>2
<1> QED BY <1>1, <1>3, BaseAlways, PTL DEF Spec, StatusContractKept, C!Spec
-----------------------------------------------------------------------------
(* What is reached in step *)

Reached == TagsReached /\ PVsReached /\ SettingsReached

\* A command that leaves no error has done its work.
LEMMA RunsWell ==
    ASSUME NEW new, NEW next, NEW onError, Runs(new, next, onError), w'.errs = {}
    PROVE  vg' = new /\ Moves(next, w.errs)
BY DEF Runs, Moves

\* Each syncer that leaves no error has reached what the next one relies on.
LEMMA TagsReach ==
    ASSUME TypeOK, Reached, syncTags, w'.errs = {}
    PROVE  Reached'
<1>0. /\ w \in Work /\ vg \in VG /\ w.snap \in VG /\ w.spec \in Spec0
      /\ vg.tags \in SUBSET Tag /\ w.snap.tags \in SUBSET Tag /\ w.spec.tags \in SUBSET Tag
    BY WorkType, VGType DEF TypeOK, Spec0
<1>1. ASSUME NEW tags \in SUBSET Tag, vg' = [vg EXCEPT !.tags = tags] \/ (vg' = vg /\ tags = vg.tags)
      PROVE  vg'.tags = tags /\ \A s \in Setting : vg'[s] = vg[s]
    <2>1. CASE vg' = [vg EXCEPT !.tags = tags]
        BY <1>0, <2>1 DEF VG, Setting
    <2>2. CASE vg' = vg /\ tags = vg.tags
        BY <2>2
    <2> QED BY <1>1, <2>1, <2>2
<1>2. ASSUME w.pc \in {"addTags", "delTags"}, Moves("delTags", w.errs) \/ Moves("list", w.errs),
             \A s \in Setting : vg'[s] = vg[s]
      PROVE  PVsReached' /\ SettingsReached'
    <2>1. w'.pc \in {"delTags", "list"} /\ w'.snap = w.snap
        BY <1>2 DEF Moves
    <2>2. PVsReached'
        BY <2>1 DEF PVsReached, AfterPVs, Setting
    <2>3. ASSUME NEW s \in Setting
          PROVE  w.pc \notin After[s] /\ w'.pc \notin After[s]
        BY <1>2, <2>1 DEF After, Setting
    <2> QED BY <1>2, <2>1, <2>2, <2>3 DEF Reached, SettingsReached
<1>3. CASE AddTags
    <2> DEFINE tags == vg.tags \cup (w.spec.tags \ w.snap.tags)
    <2>1. w.pc = "addTags" /\ vg.tags = w.snap.tags
        BY <1>3 DEF AddTags, Reached, TagsReached
    <2>2. /\ vg' = [vg EXCEPT !.tags = tags] \/ (vg' = vg /\ tags = vg.tags)
          /\ Moves("delTags", w.errs)
        BY <1>3, AddTagsIs, RunsWell DEF Passes
    <2>3. tags \in SUBSET Tag /\ tags = w.snap.tags \cup w.spec.tags
        BY <1>0, <2>1
    <2> HIDE DEF tags
    <2>4. vg'.tags = tags /\ \A s \in Setting : vg'[s] = vg[s]
        BY <1>1, <2>2, <2>3
    <2>5. TagsReached'
        BY <2>2, <2>3, <2>4 DEF TagsReached, Moves, AfterTags, Setting
    <2> QED BY <1>2, <2>1, <2>2, <2>4, <2>5 DEF Reached
<1>4. CASE DelTags
    <2> DEFINE tags == vg.tags \ (w.snap.tags \ w.spec.tags)
    <2>1. w.pc = "delTags" /\ vg.tags = w.snap.tags \cup w.spec.tags
        BY <1>4 DEF DelTags, Reached, TagsReached
    <2>2. /\ vg' = [vg EXCEPT !.tags = tags] \/ (vg' = vg /\ tags = vg.tags)
          /\ Moves("list", w.errs)
        BY <1>4, DelTagsIs, RunsWell DEF Passes
    <2>3. tags \in SUBSET Tag /\ tags = w.spec.tags
        BY <1>0, <2>1
    <2> HIDE DEF tags
    <2>4. vg'.tags = tags /\ \A s \in Setting : vg'[s] = vg[s]
        BY <1>1, <2>2, <2>3
    <2>5. TagsReached'
        BY <2>2, <2>3, <2>4 DEF TagsReached, Moves
    <2> QED BY <1>2, <2>1, <2>2, <2>4, <2>5 DEF Reached
<1> QED BY <1>3, <1>4 DEF syncTags

\* The same for syncPVs: what it lists, what it has found, what it has put in and what
\* it has taken out fit together.
LEMMA PVsReach ==
    ASSUME TypeOK, Reached, syncPVs, w'.errs = {}
    PROVE  Reached'
<1> DEFINE Here == {"list", "pvs", "extend", "move", "reduce"}
<1>0. /\ w \in Work /\ vg \in VG /\ present \subseteq Device /\ vg.pvs \in SUBSET Device
      /\ w.listed \in SUBSET Device /\ w.current \in SUBSET (Device \cup {Unknown})
      /\ w.errs \in SUBSET {"missing", "other"}
    BY WorkType, VGType DEF TypeOK
<1>1. w.pc \in Here /\ present' = present
    BY DEF syncPVs, ListDevices, ReadPVs, Extend, PVMove, Reduce, outside
<1>2. vg.tags = w.spec.tags /\ \A s \in Setting : vg[s] = w.snap[s]
    BY <1>1 DEF Reached, TagsReached, SettingsReached, AfterTags, After, Setting
<1>3. ASSUME w'.pc \in Here \cup {"maxPV"}, w'.spec = w.spec, w'.snap = w.snap,
             vg'.tags = vg.tags, \A s \in Setting : vg'[s] = vg[s]
      PROVE  TagsReached' /\ SettingsReached'
    <2>1. TagsReached'
        BY <1>2, <1>3 DEF TagsReached
    <2>2. ASSUME NEW s \in Setting
          PROVE  w'.pc \notin After[s] /\ vg'[s] = w'.snap[s]
        BY <1>2, <1>3 DEF After, Setting
    <2> QED BY <2>1, <2>2 DEF SettingsReached
<1>4. ASSUME vg' = vg, w'.pc \in Here \cup {"maxPV"}, w'.spec = w.spec, w'.snap = w.snap, PVsReached'
      PROVE  Reached'
    BY <1>3, <1>4 DEF Reached
<1>5. CASE ListDevices
    <2>1. w' = [w EXCEPT !.pc = "pvs", !.listed = w.spec.select \cap present] /\ vg' = vg
        BY <1>5, ReadsAre DEF ListDevices, Moves
    <2>2. /\ w'.pc = "pvs" /\ w'.listed = w.spec.select \cap present
          /\ w'.spec = w.spec /\ w'.snap = w.snap
        BY <1>0, <2>1 DEF Work
    <2>3. PVsReached'
        BY <1>1, <2>2 DEF PVsReached, AfterPVs, Setting
    <2> QED BY <1>4, <2>1, <2>2, <2>3
<1>6. CASE ReadPVs
    <2>1. /\ w' = [w EXCEPT !.pc = "extend", !.current = Names, !.todo = Names \ w.listed]
          /\ vg' = vg /\ w.pc = "pvs"
        BY <1>6, ReadsAre DEF ReadPVs, Moves
    <2>2. /\ w'.pc = "extend" /\ w'.listed = w.listed /\ w'.current = Names
          /\ w'.spec = w.spec /\ w'.snap = w.snap
        BY <1>0, <2>1 DEF Work
    <2>3. w.listed = w.spec.select \cap present /\ Names' = Names
        BY <1>1, <2>1 DEF Reached, PVsReached, Names, Missing
    <2>4. PVsReached'
        BY <1>1, <2>2, <2>3 DEF PVsReached, AfterPVs, Setting
    <2> QED BY <1>4, <2>1, <2>2, <2>4
<1>7. CASE Extend
    <2> DEFINE pvs == vg.pvs \cup New
    <2>1. /\ w.pc = "extend" /\ w.listed = w.spec.select \cap present
          /\ w.current = Names
        BY <1>7 DEF Extend, Reached, PVsReached
    <2>2. Shrink \in {"maxPV", "move", "reduce"} /\ Moves(Shrink, w.errs)
        BY <1>7, ExtendIs, RunsWell DEF Passes
    <2>3. pvs \in SUBSET Device /\ ((vg' = vg /\ New = {}) \/ vg' = [vg EXCEPT !.pvs = pvs])
        BY <1>0, <1>7, ExtendIs, RunsWell DEF Passes, New
    <2>4. vg'.pvs = pvs /\ vg'.tags = vg.tags /\ \A s \in Setting : vg'[s] = vg[s]
        <3>1. CASE vg' = vg /\ New = {}
            BY <3>1
        <3>2. CASE vg' = [vg EXCEPT !.pvs = pvs]
            <4> HIDE DEF pvs
            <4> QED BY <1>0, <3>2 DEF VG, Setting
        <3> QED BY <2>3, <3>1, <3>2
    <2>5. w'.pc = Shrink /\ w'.listed = w.listed /\ w'.current = w.current
          /\ w'.spec = w.spec /\ w'.snap = w.snap
        BY <2>2 DEF Moves
    <2>6. CASE Shrink = "maxPV"
        <3>1. w.current \subseteq w.listed
            BY <2>6 DEF Shrink, Old
        <3>2. Missing = {} /\ vg.pvs = w.current
            BY <1>0, <2>1, <3>1 DEF Names, Missing
        <3>3. vg'.pvs = w.listed
            BY <2>4, <3>1, <3>2 DEF New
        <3> QED BY <1>1, <1>3, <2>1, <2>4, <2>5, <2>6, <3>3 DEF Reached, PVsReached
    <2>7. CASE Shrink \in {"move", "reduce"}
        <3>1. Missing' = {} => vg.pvs = w.current
            BY <1>0, <1>1, <2>1, <2>4 DEF Names, Missing
        <3>2. Missing' = {} => vg'.pvs = w.current \cup w.listed
            BY <2>4, <3>1 DEF New
        <3>3. PVsReached'
            BY <1>1, <2>1, <2>5, <2>7, <3>2 DEF PVsReached, AfterPVs, Setting
        <3> QED BY <1>3, <2>4, <2>5, <2>7, <3>3 DEF Reached
    <2> QED BY <2>2, <2>6, <2>7
<1>8. ASSUME NEW d \in w.todo, PVMove(d)
      PROVE  Reached'
    <2>1. /\ vg' = vg /\ w.pc = "move"
          /\ Moves("reduce", w.errs) \/ Moves("move", w.errs)
        BY <1>8, PVMoveIs DEF PVMove, Moves
    <2>2. /\ w'.pc \in {"move", "reduce"} /\ w'.listed = w.listed /\ w'.current = w.current
          /\ w'.spec = w.spec /\ w'.snap = w.snap
        BY <2>1 DEF Moves
    <2>3. /\ w.listed = w.spec.select \cap present
          /\ Missing = {} => vg.pvs = w.current \cup w.listed
        BY <2>1 DEF Reached, PVsReached
    <2>4. Missing' = Missing
        BY <1>1, <2>1 DEF Missing
    <2>5. PVsReached'
        BY <1>1, <2>1, <2>2, <2>3, <2>4 DEF PVsReached, AfterPVs, Setting
    <2> QED BY <1>4, <2>1, <2>2, <2>5
<1>9. CASE Reduce
    <2> DEFINE pvs == vg.pvs \ Old
    <2>1. /\ Missing = {} /\ w.pc = "reduce" /\ vg' = [vg EXCEPT !.pvs = pvs]
          /\ Moves("maxPV", w.errs)
        BY <1>9, ReduceIs DEF Reduce, Moves
    <2>2. /\ w.listed = w.spec.select \cap present
          /\ vg.pvs = w.current \cup w.listed
        BY <2>1 DEF Reached, PVsReached
    <2>3. vg'.pvs = pvs /\ vg'.tags = vg.tags /\ \A s \in Setting : vg'[s] = vg[s]
        <3> HIDE DEF pvs
        <3> QED BY <1>0, <2>1 DEF VG, Setting
    <2>4. pvs = w.listed
        BY <2>2 DEF Old
    <2>5. w'.pc = "maxPV" /\ w'.spec = w.spec /\ w'.snap = w.snap
        BY <2>1 DEF Moves
    <2>6. PVsReached'
        BY <1>1, <2>2, <2>3, <2>4, <2>5 DEF PVsReached
    <2> QED BY <1>3, <2>3, <2>5, <2>6 DEF Reached
<1> QED BY <1>5, <1>6, <1>7, <1>8, <1>9 DEF syncPVs

\* The same for each of the settings, one after the other.
LEMMA SettingReach ==
    ASSUME TypeOK, Reached, NEW s \in Setting, SyncSetting(s), w'.errs = {}
    PROVE  Reached'
<1>0. w \in Work /\ vg \in VG
    BY DEF TypeOK
<1>1. w.pc = s /\ present' = present
    BY DEF SyncSetting, outside
<1>2. /\ vg.tags = w.spec.tags /\ vg.pvs = w.spec.select \cap present
      /\ vg[s] = w.snap[s]
    BY <1>1 DEF Reached, TagsReached, PVsReached, SettingsReached, AfterTags, AfterPVs, After, Setting
<1>3. /\ Moves(AfterSetting[s], w.errs)
      /\ \/ vg' = vg /\ (w.spec[s] = Keep \/ w.snap[s] = Desired(s))
         \/ w.spec[s] # Keep /\ vg' = [vg EXCEPT ![s] = Desired(s)]
    BY SettingIs, RunsWell DEF Passes
<1>4. /\ vg'.tags = vg.tags /\ vg'.pvs = vg.pvs
      /\ w.spec[s] = Keep \/ vg'[s] = Desired(s)
      /\ \A r \in Setting : r # s => vg'[r] = vg[r]
    <2>1. CASE vg' = vg /\ (w.spec[s] = Keep \/ w.snap[s] = Desired(s))
        BY <1>2, <2>1
    <2>2. CASE w.spec[s] # Keep /\ vg' = [vg EXCEPT ![s] = Desired(s)]
        BY <1>0, <2>2, SettingType
    <2> QED BY <1>3, <2>1, <2>2
<1>5. w'.pc = AfterSetting[s] /\ w'.spec = w.spec /\ w'.snap = w.snap
    BY <1>3 DEF Moves
<1>6. w'.pc \in {"maxLV", "alloc", "auto", "decide"}
    BY <1>5 DEF AfterSetting, Setting
<1>7. TagsReached' /\ PVsReached'
    BY <1>1, <1>2, <1>4, <1>5, <1>6 DEF TagsReached, PVsReached
<1>8. \A r \in Setting : Desired(r)' = Desired(r)
    BY <1>5 DEF Desired
<1>9. ASSUME NEW r \in Setting
      PROVE  IF w'.pc \in After[r] THEN w'.spec[r] = Keep \/ vg'[r] = Desired(r)' ELSE vg'[r] = w'.snap[r]
    <2>1. w'.pc \in After[r] <=> r = s \/ w.pc \in After[r]
        BY <1>1, <1>5 DEF After, AfterSetting, Setting
    <2>2. IF w.pc \in After[r] THEN w.spec[r] = Keep \/ vg[r] = Desired(r) ELSE vg[r] = w.snap[r]
        BY DEF Reached, SettingsReached
    <2> QED BY <1>4, <1>5, <1>8, <2>1, <2>2
<1> QED BY <1>7, <1>9 DEF Reached, SettingsReached

InStep ==
    /\ Syncing /\ Missing # {} => vg = w.snap
    /\ Syncing /\ Lost => Missing # {}
    /\ Syncing /\ w.errs = {} => Reached
    /\ w.pc \in {"status", "update"} /\ w.cond.reason = "Synced" => InSync

\* A syncer keeps in step: a VG with a missing PV is still the one that was read, and
\* where no error is left its work is done.
LEMMA SyncerInStep ==
    ASSUME Base, InStep, Syncer
    PROVE  InStep'
<1>1. Goes /\ TypeOK
    BY SyncerGoes DEF Base
<1>2. Missing' # {} => Missing # {} /\ vg' = vg
    BY <1>1 DEF Goes
<1>3. Missing # {} => Missing' = Missing
    BY <1>1 DEF Goes, Missing
<1>4. (Syncing /\ Missing # {} => vg = w.snap)'
    BY <1>1, <1>2 DEF Goes, InStep
<1>5. (Syncing /\ Lost => Missing # {})'
    BY <1>1, <1>3 DEF Goes, InStep, Lost
<1>6. (Syncing /\ w.errs = {} => Reached)'
    <2> SUFFICES ASSUME w'.errs = {}
                 PROVE  Reached'
        OBVIOUS
    <2>1. Reached
        BY <1>1 DEF Goes, InStep
    <2> QED BY <1>1, <2>1, TagsReach, PVsReach, SettingReach DEF Syncer
<1>7. w'.pc \notin {"status", "update"}
    BY <1>1 DEF Goes, Syncing
<1> QED BY <1>4, <1>5, <1>6, <1>7 DEF InStep

\* When sync looks at what its syncers returned and finds no error, they have reached
\* all the spec asks for.
LEMMA DecideInStep ==
    ASSUME Base, InStep, Decide
    PROVE  InStep'
<1>1. TypeOK /\ w.pc = "decide" /\ vg' = vg /\ present' = present /\ w.gen \in Nat
    BY WorkType DEF Base, TypeOK, Decide, outside
<1>2. Missing' = Missing
    BY <1>1 DEF Missing
<1>3. CASE Lost /\ Turns("removeMissing", w.errs, w.depth, w.cond)
    BY <1>1, <1>2, <1>3 DEF Turns, InStep, Syncing, Lost
<1>4. CASE Turns("status", w.errs, w.depth, SetSyncedOnHostCreationFailed(w.gen))
    BY <1>4 DEF Turns, InStep, Syncing, SetSyncedOnHostCreationFailed
<1>5. CASE w.errs = {} /\ Turns("status", w.errs, w.depth, SetSyncedOnHostCreationOK(w.gen))
    <2>1. Reached
        BY <1>1, <1>5 DEF InStep, Syncing
    <2>2. InSync
        BY <1>1, <2>1 DEF InSync, Reached, TagsReached, PVsReached, SettingsReached, AfterTags,
                          AfterPVs, After, Setting
    <2>3. InSync'
        BY <1>1, <1>5, <2>2 DEF InSync, Turns, Desired
    <2> QED BY <1>5, <2>3 DEF InStep, Turns, Syncing
<1> QED BY <1>1, <1>3, <1>4, <1>5, DecideIs

\* When missing PVs were taken out, sync begins again with the VG it was given, and
\* that is still the VG but for the PVs.
LEMMA RemoveMissingInStep ==
    ASSUME Base, InStep, RemoveMissing
    PROVE  InStep'
<1>1. /\ TypeOK /\ w.pc = "removeMissing" /\ vg \in VG
      /\ w.cond.reason = "Pending"
    BY DEF Base, TypeOK, RemoveMissing, CondInHand, Syncing
<1>2. vg = w.snap
    BY <1>1 DEF Base, RemovalDecided, InStep, Syncing
<1>3. CASE Turns("status", w.errs, w.depth, w.cond)
    BY <1>1, <1>3 DEF Turns, InStep, Syncing
<1>4. CASE /\ vg' = [vg EXCEPT !.pvs = @ \ Missing]
           /\ Missing' = {}
           /\ Turns("addTags", {}, w.depth + 1, SetSyncedOnHostDefault(w.gen))
    <2>1. w'.pc = "addTags" /\ w'.errs = {} /\ w'.snap = vg
        BY <1>2, <1>4 DEF Turns
    <2>2. vg'.tags = vg.tags /\ \A s \in Setting : vg'[s] = vg[s]
        BY <1>1, <1>4 DEF VG, Setting
    <2>3. TagsReached'
        BY <2>1, <2>2 DEF TagsReached, AfterTags, Setting
    <2>4. PVsReached'
        BY <2>1 DEF PVsReached, AfterPVs, Setting
    <2>5. SettingsReached'
        <3>1. \A s \in Setting : w'.pc \notin After[s]
            BY <2>1 DEF After, Setting
        <3> QED BY <2>1, <2>2, <3>1 DEF SettingsReached
    <2> QED BY <1>4, <2>1, <2>3, <2>4, <2>5 DEF InStep, Reached, Lost
<1> QED BY <1>1, <1>3, <1>4, RemoveMissingIs

\* A reconcile begins in step, with the VG just read.
LEMMA BeginInStep == ASSUME Begin PROVE InStep'
<1>1. w'.pc = "addTags" /\ w'.errs = {} /\ w'.snap = vg /\ vg' = vg
    BY DEF Begin
<1>2. TagsReached' /\ PVsReached'
    BY <1>1 DEF TagsReached, AfterTags, PVsReached, AfterPVs, Setting
<1>3. SettingsReached'
    <2>1. \A s \in Setting : w'.pc \notin After[s]
        BY <1>1 DEF After, Setting
    <2> QED BY <1>1, <2>1 DEF SettingsReached
<1> QED BY <1>1, <1>2, <1>3 DEF InStep, Reached, Lost

\* As long as nobody else changes the VG or the devices, sync stays in step, whatever
\* commands fail and whatever users do.
LEMMA InStepStep == Base /\ SyncInStep /\ [Next]_vars => SyncInStep'
<1>0. SyncInStep <=> (calm => InStep)
    BY DEF SyncInStep, InStep, Reached
<1>1. SyncInStep' <=> (calm' => InStep')
    BY DEF SyncInStep, InStep, Reached
<1> SUFFICES ASSUME Base, SyncInStep, [Next]_vars, calm'
             PROVE  InStep'
    BY <1>1
<1>2. ~Disturbance
    BY Zenon DEF Disturbance
<1>3. Quiet \/ Trouble => InStep
    BY <1>0, Zenon DEF Quiet, Trouble
<1>4. CASE Syncer
    <2>1. Quiet \/ Trouble
        BY <1>4, SyncerGoes DEF Goes, Base
    <2> QED BY <1>3, <1>4, <2>1, SyncerInStep
<1>5. CASE Begin
    BY <1>5, BeginInStep
<1>6. CASE Decide
    BY <1>3, <1>6, DecideInStep DEF Decide
<1>7. CASE RemoveMissing
    <2>1. Quiet \/ Trouble
        BY <1>7 DEF RemoveMissing
    <2> QED BY <1>3, <1>7, <2>1, RemoveMissingInStep
<1>8. CASE SyncStatus
    <2>1. (Quiet \/ Trouble) /\ vg' = vg /\ present' = present /\ w.pc = "status"
        BY <1>8 DEF SyncStatus, outside
    <2>2. Turns("update", w.errs, w.depth, w.cond)
        BY <1>8, StatusIs DEF Base
    <2>3. InSync => InSync'
        BY <2>1, <2>2 DEF InSync, Turns, Desired
    <2> QED BY <1>3, <2>1, <2>2, <2>3 DEF InStep, Turns, Syncing
<1>9. CASE UpdateStatus \/ Abandon
    <2>1. Turns("idle", w.errs, w.depth, w.cond)
        BY <1>9, StatusIs DEF Base, UpdateStatus, Abandon
    <2> QED BY <2>1 DEF Turns, InStep, Syncing
<1>10. ASSUME UNCHANGED <<vg, present, w>>, Quiet \/ Trouble
       PROVE  InStep'
    BY <1>3, <1>10 DEF InStep, Syncing, Lost, Missing, Reached, TagsReached, PVsReached,
                       SettingsReached, Names, InSync, Desired
<1>11. CASE Outside
    BY <1>2, <1>10, <1>11 DEF Outside, EditSpec, Unplug, Plug, CreateLV, HostReduce
<1>12. CASE UNCHANGED vars
    BY <1>10, <1>12 DEF vars, Quiet
<1> QED BY <1>4, <1>5, <1>6, <1>7, <1>8, <1>9, <1>11, <1>12 DEF Next, Reconcile, Syncer

\* The inductive invariant holds: what the parts of sync rely on when they use a VG
\* that is as old as the reconcile.
THEOREM Invariance == Spec => []IInv
<1>1. Init => SyncInStep
    BY Zenon DEF Init, SyncInStep
<1>2. Base /\ SyncInStep <=> IInv
    BY DEF Base, IInv
<1> QED BY <1>1, <1>2, BaseInit, BaseStep, InStepStep, PTL DEF Spec

\* A reconcile that concludes Synced leaves a VG that is what the spec it read asks for,
\* unless others changed the VG or the devices meanwhile: no syncer's error, wherever a
\* command fails, is lost on the way to the condition.
THEOREM SyncedIsInSync == Spec => []SyncedMeansInSync
<1>1. IInv => SyncedMeansInSync
    BY DEF IInv, SyncInStep, SyncedMeansInSync
<1> QED BY <1>1, Invariance, PTL
=============================================================================
