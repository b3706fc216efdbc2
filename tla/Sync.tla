-------------------------------- MODULE Sync --------------------------------
(***************************************************************************)
(* How one reconcile brings a volume group that exists in line with the    *)
(* spec: sync and syncStatus of volumegroup_controller_sync.go, from the   *)
(* call of VG() to the status update, cut at every command of lsblk and    *)
(* lvm2. Between two commands devices come and go, logical volumes are     *)
(* created, administrators change the VG and users edit the spec.          *)
(*                                                                         *)
(* The VG is found under the name the spec has, so syncName has nothing to *)
(* do, and at least one of its PVs is attached; Lifecycle has the rest.    *)
(* LVs fill every PV they have extents on, and one may span several. A     *)
(* reconcile is always followed by another one, as Lifecycle shows.        *)
(***************************************************************************)
EXTENDS Naturals, FiniteSets

CONSTANTS
    Device,         \* the block devices of the node
    Unknown,        \* the name lvm2 shows for a missing PV, "[unknown]"
    Keep,           \* a nil field of the spec
    Tag, Limit, Allocation,     \* tags, volume limits (0: none), allocation policies
    Specs,          \* the specs users write
    EmptyMoveFails, \* whether pvmove fails on a PV without extents: the answers lvm2 may give
    MaxTrouble      \* bound on what users, administrators and devices do, on commands
                    \* that fail without a reason and on reconciles that are cut off, together

Setting == {"maxPV", "maxLV", "alloc", "auto"}

\* The CRD has no list of the policies: Other is any string but the known ones.
Spec0 == [select : SUBSET Device, tags : SUBSET Tag,
          maxPV : Limit \cup {Keep}, maxLV : Limit \cup {Keep},
          alloc : Allocation \cup {Keep}, auto : BOOLEAN \cup {Keep},
          loss : {"Fail", "Remove", "ForceRemove", "Other"},
          removal : {"MoveAndReduce", "Reduce", "ForceReduce", "Other"}]

ASSUME SpecsAssumption == /\ Specs \subseteq Spec0
                          /\ \A s \in Specs : s.select # {}
ASSUME NameAssumption  == Unknown \notin Device
ASSUME LimitAssumption == Limit \subseteq Nat /\ MaxTrouble \in Nat
ASSUME MoveAssumption  == EmptyMoveFails \subseteq BOOLEAN
ASSUME ValueAssumption == IsFiniteSet(Device) /\ Allocation # {}

VARIABLES
    spec, gen,  \* what the API server has, and its generation
    status,     \* the status the API server has
    vg,         \* the VG in lvm2
    present,    \* the devices that are attached
    used,       \* the PVs that hold extents of LVs
    emptyMoveFails, \* does the node's lvm2 fail to move a PV that is empty? It never changes
    w,          \* the reconcile in work
    calm,       \* nobody else has changed the VG or the devices since it began
    trouble

outside == <<spec, gen, present, emptyMoveFails>>
vars    == <<spec, gen, status, vg, present, used, emptyMoveFails, w, calm, trouble>>
-----------------------------------------------------------------------------
(* Data *)

VG == [pvs : SUBSET Device, tags : SUBSET Tag, maxPV : Limit \cup {0},
       maxLV : Limit \cup {0}, alloc : Allocation, auto : BOOLEAN]

Missing == vg.pvs \ present
Names   == (vg.pvs \cap present) \cup (IF Missing = {} THEN {} ELSE {Unknown})

Condition == [reason : {"None", "Pending", "Failed", "Synced"}, gen : Nat]
NoSnap    == [pvs |-> {}, tags |-> {}, maxPV |-> 0, maxLV |-> 0,
              alloc |-> CHOOSE a \in Allocation : TRUE, auto |-> FALSE]
Status    == [cond : Condition, pvs : SUBSET Device, vg : VG]

\* Mutant: the reason is called after the status.
SetSyncedOnHostCreationOK_True(g) == [reason |-> "True", gen |-> g]

SetSyncedOnHostDefault(g)        == [reason |-> "Pending", gen |-> g]
SetSyncedOnHostCreationFailed(g) == [reason |-> "Failed", gen |-> g]
SetSyncedOnHostCreationOK(g)     == [reason |-> "Synced", gen |-> g]

\* The work: the object and the VG as they were read, what lsblk and PVs answered,
\* the PVs still to be moved, the kinds of errors of the syncers, the depth of the
\* recursion of sync, and what goes into the status.
PC == {"idle", "addTags", "delTags", "list", "pvs", "extend", "move", "reduce",
       "decide", "removeMissing", "status", "update"} \cup Setting
Work == [pc : PC, gen : Nat, spec : Specs, snap : VG, listed : SUBSET Device,
         current : SUBSET (Device \cup {Unknown}), todo : SUBSET (Device \cup {Unknown}),
         errs : SUBSET {"missing", "other"}, depth : Nat, cond : Condition,
         pvs : SUBSET Device, vg : VG]

convertToAutoActivation(auto) == auto = Keep
Desired(s) == IF s = "auto" THEN convertToAutoActivation(w.spec.auto) ELSE w.spec[s]

\* What users and LVs do, and a command that fails for no reason the state shows;
\* what others do to the VG and its devices; neither.
Trouble     == trouble < MaxTrouble /\ trouble' = trouble + 1 /\ UNCHANGED calm
Disturbance == trouble < MaxTrouble /\ trouble' = trouble + 1 /\ calm' = FALSE
Quiet       == UNCHANGED <<trouble, calm>>
-----------------------------------------------------------------------------
(* The world around the reconciler *)

EditSpec ==
    /\ Trouble
    /\ spec' \in Specs \ {spec}
    /\ gen' = gen + 1
    /\ UNCHANGED <<status, vg, present, used, emptyMoveFails, w>>

\* At least one PV of the VG stays, or there is no VG any more.
Unplug(d) ==
    /\ d \in present
    /\ vg.pvs \cap present # {d}
    /\ Disturbance
    /\ present' = present \ {d}
    /\ UNCHANGED <<spec, gen, status, vg, used, emptyMoveFails, w>>

Plug(d) ==
    /\ d \notin present
    /\ Disturbance
    /\ present' = present \cup {d}
    /\ UNCHANGED <<spec, gen, status, vg, used, emptyMoveFails, w>>

\* An LV is created, or one grows; the limit counts LVs, and not what they use.
CreateLV(d) ==
    /\ Missing = {}
    /\ d \in vg.pvs \ used
    /\ Trouble
    /\ used' = used \cup {d}
    /\ UNCHANGED <<spec, gen, status, vg, present, emptyMoveFails, w>>

\* An administrator takes an empty PV out of the VG.
HostReduce(d) ==
    /\ Missing = {}
    /\ d \in vg.pvs \ used
    /\ vg.pvs # {d}
    /\ Disturbance
    /\ vg' = [vg EXCEPT !.pvs = @ \ {d}]
    /\ UNCHANGED <<spec, gen, status, present, used, emptyMoveFails, w>>

Outside == \/ EditSpec
           \/ \E d \in Device : Unplug(d) \/ Plug(d) \/ CreateLV(d) \/ HostReduce(d)
-----------------------------------------------------------------------------
(* Commands of lvm2 *)

Step(pc) == w' = [w EXCEPT !.pc = pc]

\* Mutant: the error of one syncer does not reach the joined error.
Fail_Unnoticed(pc, kind) == Step(pc)

Fail(pc, kind) == w' = [w EXCEPT !.pc = pc, !.errs = @ \cup {kind}]

\* A command that makes the VG new, if lvm2 allows it. Nothing is changed while a
\* PV is missing. A command may fail, before or after it has done its work.
Command(allowed, new, next, onError) ==
    \/ Missing = {} /\ allowed /\ vg' = new /\ Step(next) /\ Quiet
    \/ Missing = {} /\ ~allowed /\ vg' = vg /\ Fail(onError, "other") /\ Quiet
    \/ Missing # {} /\ vg' = vg /\ Fail(onError, "missing") /\ Quiet
    \/ vg' = vg /\ Fail(onError, "other") /\ Trouble
    \/ Missing = {} /\ allowed /\ vg' = new /\ Fail(onError, "other") /\ Trouble

Skip(next) == Step(next) /\ UNCHANGED vg /\ Quiet
-----------------------------------------------------------------------------
(* Reconcile, from VG() on *)

Begin ==
    /\ w.pc = "idle"
    /\ w' = [pc |-> "addTags", gen |-> gen, spec |-> spec, snap |-> vg,
             listed |-> {}, current |-> {}, todo |-> {}, errs |-> {}, depth |-> 0,
             cond |-> SetSyncedOnHostDefault(gen),
             pvs |-> status.pvs, vg |-> status.vg]
    /\ calm' = TRUE
    /\ UNCHANGED <<outside, status, vg, used, trouble>>

\* syncTags: SequentialTwoWaySync with --addtag, then --deltag.
AddTags ==
    /\ w.pc = "addTags"
    /\ LET new == w.spec.tags \ w.snap.tags
       IN  IF new = {}
           THEN Skip("delTags")
           ELSE Command(TRUE, [vg EXCEPT !.tags = @ \cup new], "delTags", "list")
    /\ UNCHANGED <<outside, status, used>>

DelTags ==
    /\ w.pc = "delTags"
    /\ LET old == w.snap.tags \ w.spec.tags
       IN  IF old = {}
           THEN Skip("list")
           ELSE Command(TRUE, [vg EXCEPT !.tags = @ \ old], "list", "list")
    /\ UNCHANGED <<outside, status, used>>

\* syncPVs: which devices does the selector match, and which PVs has the VG?
ListDevices ==
    /\ w.pc = "list"
    /\ \/ Quiet /\ w' = [w EXCEPT !.pc = "pvs", !.listed = w.spec.select \cap present]
       \/ Trouble /\ Fail("maxPV", "other")
    /\ UNCHANGED <<outside, status, vg, used>>

ReadPVs ==
    /\ w.pc = "pvs"
    /\ \/ Quiet /\ w' = [w EXCEPT !.pc = "extend", !.current = Names,
                                  !.todo = Names \ w.listed]
       \/ Trouble /\ Fail("maxPV", "other")
    /\ UNCHANGED <<outside, status, vg, used>>

New == w.listed \ w.current
Old == w.current \ w.listed

\* Mutant: what is no longer selected stays.
Shrink_Never == "maxPV"

\* How SequentialTwoWaySync goes on with what is to be taken out.
Shrink == IF Old = {} THEN "maxPV"
          ELSE IF w.spec.removal = "MoveAndReduce" THEN "move" ELSE "reduce"

Extend ==
    /\ w.pc = "extend"
    /\ IF New = {}
       THEN Skip(Shrink)
       ELSE Command(/\ New \subseteq present \ vg.pvs
                    /\ vg.maxPV = 0 \/ Cardinality(vg.pvs \cup New) <= vg.maxPV,
                    [vg EXCEPT !.pvs = @ \cup New], Shrink, "maxPV")
    /\ UNCHANGED <<outside, status, used>>

\* pvmove takes the extents of d to a PV of the list that has room; without a
\* list lvm2 looks for room in the whole VG.
Room(d) == ((IF w.listed = {} THEN vg.pvs ELSE w.listed) \ used) \ {d}

Movable(d) == /\ d \in vg.pvs
              /\ w.listed \subseteq vg.pvs
              /\ IF d \in used THEN Room(d) # {} ELSE ~emptyMoveFails

Results(d) == IF d \in used THEN {(used \ {d}) \cup {to} : to \in Room(d)} ELSE {used}

Moved(d) == w' = [w EXCEPT !.todo = @ \ {d}, !.pc = IF w.todo = {d} THEN "reduce" ELSE "move"]

PVMove(d) ==
    /\ w.pc = "move"
    /\ d \in w.todo
    /\ \/ /\ Missing = {} /\ Movable(d)
          /\ used' \in Results(d)
          /\ \/ Moved(d) /\ Quiet
             \/ Fail("maxPV", "other") /\ Trouble
       \/ Missing = {} /\ ~Movable(d) /\ Quiet /\ Fail("maxPV", "other") /\ UNCHANGED used
       \/ Missing # {} /\ Quiet /\ Fail("maxPV", "missing") /\ UNCHANGED used
       \/ Trouble /\ Fail("maxPV", "other") /\ UNCHANGED used
    /\ UNCHANGED <<outside, status, vg>>

\* Mutant: the case of MoveAndReduce falls through to the one of ForceReduce.
Forced_FallThrough == w.spec.removal # "Reduce"

Forced == w.spec.removal = "ForceReduce"

\* vgreduce refuses PVs in use; with --force it may take them all the same.
Reducible == (vg.pvs \cap w.current) \ (IF Forced THEN {} ELSE used)
Lose(out) == vg' = [vg EXCEPT !.pvs = @ \ out] /\ used' = used \ out

Reduce ==
    /\ w.pc = "reduce"
    /\ \/ /\ Missing = {} /\ Old \subseteq Reducible /\ Old # vg.pvs /\ Quiet
          /\ Lose(Old)
          /\ Step("maxPV")
       \/ /\ Missing = {}
          /\ \/ Trouble
             \/ (Old \cap used # {} \/ ~(Old \subseteq vg.pvs) \/ Old = vg.pvs) /\ Quiet
          /\ \E out \in SUBSET (Old \cap Reducible) : out # vg.pvs /\ Lose(out)
          /\ Fail("maxPV", "other")
       \/ /\ Missing # {}
          /\ UNCHANGED <<vg, used>>
          /\ \/ Fail("maxPV", "missing") /\ Quiet
             \/ Fail("maxPV", "other") /\ Trouble
    /\ UNCHANGED <<outside, status>>

\* syncMaximumVolumes, syncAllocationPolicy, syncAutoActivation. The first one
\* gives up with its first error.
AfterSetting == [maxPV |-> "maxLV", maxLV |-> "alloc", alloc |-> "auto", auto |-> "decide"]
AfterError   == [AfterSetting EXCEPT !.maxPV = "alloc"]

\* As LVs may span PVs, the PVs in use leave it open how many LVs there are.
LVCounts == IF used = {} THEN {0} ELSE 1 .. Cardinality(used)

\* vgchange sets no limit below what the VG has already.
Settable(s, lvs) ==
    /\ s = "maxPV" => Desired(s) = 0 \/ Cardinality(vg.pvs) <= Desired(s)
    /\ s = "maxLV" => Desired(s) = 0 \/ lvs <= Desired(s)

SyncSetting(s) ==
    /\ w.pc = s
    /\ IF w.spec[s] = Keep \/ w.snap[s] = Desired(s)
       THEN Skip(AfterSetting[s])
       ELSE \E lvs \in LVCounts :
                Command(Settable(s, lvs), [vg EXCEPT ![s] = Desired(s)],
                        AfterSetting[s], AfterError[s])
    /\ UNCHANGED <<outside, status, used>>

Conclude(cond) == w' = [w EXCEPT !.pc = "status", !.cond = cond]

\* Mutant: every policy removes missing PVs.
RemovesMissing_Always(policy) == TRUE

RemovesMissing(policy) == policy # "Fail"

\* The syncers are through, and sync looks at what they returned.
Decide ==
    /\ w.pc = "decide"
    /\ \/ /\ "missing" \in w.errs
          /\ RemovesMissing(w.spec.loss)
          /\ Step("removeMissing")
       \/ /\ "missing" \in w.errs => ~RemovesMissing(w.spec.loss)
          /\ w.errs # {}
          /\ Conclude(SetSyncedOnHostCreationFailed(w.gen))
       \/ /\ w.errs = {}
          /\ Conclude(SetSyncedOnHostCreationOK(w.gen))
    /\ UNCHANGED <<outside, status, vg, used>>
    /\ Quiet

\* Mutant: the errors of the first round are kept for the second one.
Again_KeepsErrors == w' = [w EXCEPT !.pc = "addTags", !.depth = @ + 1,
                                    !.cond = SetSyncedOnHostDefault(w.gen)]

\* sync calls itself, with the VG as it was read before.
Again == w' = [w EXCEPT !.pc = "addTags", !.errs = {}, !.depth = @ + 1,
                        !.cond = SetSyncedOnHostDefault(w.gen)]

\* Mutant: sync calls itself although vgreduce failed.
GiveUp_Retries == Again

\* The condition stays at its default.
GiveUp == Step("status")

\* vgreduce --removemissing takes out the missing PVs no LV uses, and fails when
\* there are others. With --force it removes every LV that has extents on a
\* missing PV, with its extents elsewhere.
RemoveMissing ==
    /\ w.pc = "removeMissing"
    /\ \/ /\ w.spec.loss = "ForceRemove" /\ Missing \cap used # {} /\ Quiet
          /\ vg' = [vg EXCEPT !.pvs = @ \ Missing]
          /\ used' \in SUBSET (used \ Missing)
          /\ Again
       \/ /\ Missing \cap used = {} /\ Quiet
          /\ Lose(Missing)
          /\ Again
       \/ /\ w.spec.loss # "ForceRemove" /\ Missing \cap used # {} /\ Quiet
          /\ Lose(Missing \ used)
          /\ GiveUp
       \/ /\ Trouble
          /\ UNCHANGED <<vg, used>>
          /\ GiveUp
    /\ UNCHANGED <<outside, status>>

\* syncStatus takes the list of PVs from lvm2 now, and everything else (number of
\* PVs, tags, limits) from the VG as it was before sync. It may fail before the
\* list, or between the two.
SyncStatus ==
    /\ w.pc = "status"
    /\ \/ Quiet /\ w' = [w EXCEPT !.pc = "update", !.pvs = vg.pvs, !.vg = w.snap]
       \/ Trouble /\ w' = [w EXCEPT !.pc = "update", !.pvs = vg.pvs]
       \/ Trouble /\ Step("update")
    /\ UNCHANGED <<outside, status, vg, used>>

Idle == Step("idle")

\* Mutant: the status is written without the resourceVersion that was read.
UpdateStatus_Unconditional ==
    /\ w.pc = "update"
    /\ status' = [cond |-> w.cond, pvs |-> w.pvs, vg |-> w.vg]
    /\ Idle
    /\ Quiet
    /\ UNCHANGED <<outside, vg, used>>

UpdateStatus ==
    /\ w.pc = "update"
    /\ \/ /\ w.gen = gen /\ Quiet
          /\ status' = [cond |-> w.cond, pvs |-> w.pvs, vg |-> w.vg]
       \/ w.gen # gen /\ Quiet /\ UNCHANGED status       \* a conflict
       \/ Trouble /\ UNCHANGED status
    /\ Idle
    /\ UNCHANGED <<outside, vg, used>>

\* The process ends, or the ten seconds of the context are over: every call that
\* follows fails, the update of the status included.
Abandon ==
    /\ w.pc # "idle"
    /\ Trouble
    /\ Idle
    /\ UNCHANGED <<outside, status, vg, used>>
-----------------------------------------------------------------------------
\* A VG that was made for any of the specs vgcreate accepts, or taken over.
Makeable == {s \in Specs : s.maxPV \in {Keep, 0} \/ Cardinality(s.select) <= s.maxPV}
Made(s) ==
    [pvs |-> s.select, tags |-> s.tags,
     maxPV |-> IF s.maxPV = Keep THEN 0 ELSE s.maxPV,
     maxLV |-> IF s.maxLV = Keep THEN 0 ELSE s.maxLV,
     alloc |-> IF s.alloc = Keep THEN CHOOSE a \in Allocation : TRUE ELSE s.alloc,
     auto  |-> convertToAutoActivation(s.auto)]

Init ==
    /\ spec \in Specs
    /\ gen = 1
    /\ status = [cond |-> [reason |-> "None", gen |-> 0], pvs |-> {}, vg |-> NoSnap]
    /\ \E s \in Makeable : vg = Made(s)
    /\ present = Device
    /\ used \in SUBSET vg.pvs
    /\ emptyMoveFails \in EmptyMoveFails
    /\ w = [pc |-> "idle", gen |-> 1, spec |-> spec, snap |-> vg, listed |-> {},
            current |-> {}, todo |-> {}, errs |-> {}, depth |-> 0,
            cond |-> status.cond, pvs |-> {}, vg |-> NoSnap]
    /\ calm = FALSE
    /\ trouble = 0

syncTags == AddTags \/ DelTags
syncPVs  == ListDevices \/ ReadPVs \/ Extend \/ (\E d \in w.todo : PVMove(d)) \/ Reduce

Reconcile == \/ Begin
             \/ syncTags
             \/ syncPVs
             \/ \E s \in Setting : SyncSetting(s)
             \/ Decide
             \/ RemoveMissing
             \/ SyncStatus
             \/ UpdateStatus

Next == Reconcile \/ Outside \/ Abandon

\* lvm2 answers. When vgreduce --force is called again and again for PVs in use,
\* it either refuses for ever or takes them; nothing is assumed about that.
Spec     == Init /\ [][Next]_vars
FairSpec == Spec /\ WF_vars(Reconcile)
-----------------------------------------------------------------------------
(* Properties *)

\* The type invariant.
TypeOK ==
    /\ spec \in Specs /\ gen \in Nat /\ status \in Status
    /\ vg \in VG /\ present \subseteq Device
    /\ used \subseteq vg.pvs
    /\ emptyMoveFails \in EmptyMoveFails
    /\ w \in Work
    /\ calm \in BOOLEAN /\ trouble \in Nat

\* Data on a PV is given up only by a policy with Force in its name, and for a
\* lost device only while one is lost, whatever is plugged, created and edited
\* between the commands of sync.
OnlyForceDestroys ==
    [][Cardinality(used') < Cardinality(used) =>
         \/ w.pc = "reduce" /\ w.spec.removal = "ForceReduce"
         \/ w.pc = "removeMissing" /\ w.spec.loss = "ForceRemove" /\ Missing # {}]_vars

\* With the policy Fail a PV that is missing stays in the VG: it is there again
\* when its device comes back.
FailKeepsMissing ==
    [][w.spec.loss = "Fail" => Missing \subseteq vg'.pvs]_vars

\* What the spec asks of the VG, with the conversions of the code.
InSync == /\ vg.pvs = w.spec.select \cap present
          /\ vg.tags = w.spec.tags
          /\ \A s \in Setting : w.spec[s] = Keep \/ vg[s] = Desired(s)

\* When sync concludes that the VG is synced, the VG is what the spec it read asks
\* for, unless others changed the VG or its devices meanwhile: whichever command of
\* whichever syncer fails, its error reaches the condition, and the VG as it was
\* read, tags and limits included, serves every level of the recursion.
SyncedMeansInSync ==
    w.pc = "update" /\ calm /\ w.cond.reason = "Synced" => InSync

\* sync calls itself only when it took out PVs that were missing: each level of
\* the recursion needs a change of the host of its own.
RecursionNeedsLoss == w.depth <= trouble

C == INSTANCE StatusContract WITH Resource <- {"it"}, gen  <- [r \in {"it"} |-> gen],
                                  cond <- [r \in {"it"} |-> status.cond]

\* However many commands run between the reading of the object and the writing of
\* its status, a condition that is stored speaks of the generation it is stored to.
StatusContractKept == C!Spec

Target == spec.select \cap present

\* What keeps the VG from becoming what the spec asks for: devices that are lost
\* under a policy that leaves them; nothing selected; more selected than the limit of
\* PVs allows; PVs to exchange at a limit that stays, because syncPVs extends before it
\* reduces; a limit of LVs that may be below the LVs there are; data that cannot go;
\* a PV that cannot be moved from because it is empty.
EndLimit == IF spec.maxPV = Keep THEN vg.maxPV ELSE spec.maxPV
Stuck ==
    \/ Missing # {} /\ spec.loss = "Fail"
    \/ Missing \cap used # {} /\ spec.loss # "ForceRemove"
    \/ Target = {}
    \/ EndLimit # 0 /\ Cardinality(Target) > EndLimit
    \/ /\ vg.maxPV # 0 /\ Cardinality(vg.pvs \cup Target) > vg.maxPV
       /\ EndLimit = vg.maxPV \/ EndLimit \in 1 .. Cardinality(vg.pvs) - 1
    \/ spec.maxLV \notin {Keep, 0, vg.maxLV} /\ Cardinality(used) > spec.maxLV
    \/ spec.removal # "MoveAndReduce" /\ used \ Target # {}
    \/ Cardinality(used) > Cardinality(Target)
    \/ emptyMoveFails /\ spec.removal = "MoveAndReduce" /\ vg.pvs \ (Target \cup used) # {}

\* The status tells that the VG is synced, and what is in it.
Reported == /\ status.cond = SetSyncedOnHostCreationOK(gen)
            /\ status.pvs = Target
            /\ status.vg = vg
            /\ vg.pvs = Target
            /\ vg.tags = spec.tags
            /\ \A s \in {"maxPV", "maxLV", "alloc"} : spec[s] \in {Keep, vg[s]}

\* Once spec and host are left alone, the VG becomes what the spec asks for and
\* the status says so and stays so, unless one of the reasons above is in the way.
Converges == <>[](Reported \/ Stuck)
-----------------------------------------------------------------------------
(* Why the safety properties hold: an inductive invariant *)

Lost    == "missing" \in w.errs
Syncing == w.pc \notin {"idle", "status", "update"}

\* Missing PVs are removed only when a syncer met one and the policy allows it.
RemovalDecided == w.pc = "removeMissing" => Lost /\ RemovesMissing(w.spec.loss)

\* A PV that is missing, or that a syncer missed, was lost since the last level of
\* the recursion.
LossCounted == /\ w.depth <= trouble
               /\ Missing # {} \/ Lost => w.depth < trouble

\* The condition in hand is of the generation that was read, and it is the default
\* until the syncers are through.
CondInHand ==
    w.pc # "idle" =>
        /\ w.cond \in {SetSyncedOnHostDefault(w.gen), SetSyncedOnHostCreationFailed(w.gen),
                       SetSyncedOnHostCreationOK(w.gen)}
        /\ Syncing => w.cond.reason = "Pending"

\* The steps of sync that follow a syncer.
AfterTags == {"list", "pvs", "extend", "move", "reduce", "decide"} \cup Setting
AfterPVs  == {"decide"} \cup Setting
After     == [maxPV |-> {"maxLV", "alloc", "auto", "decide"}, maxLV |-> {"alloc", "auto", "decide"},
              alloc |-> {"auto", "decide"}, auto |-> {"decide"}]

\* What the syncers have reached without an error, each with the VG it was given,
\* which is as old as the reconcile. In move and reduce a PV may be missing that was
\* so when the VG was read; then an error follows.
TagsReached ==
    /\ w.pc = "addTags" => vg.tags = w.snap.tags
    /\ w.pc = "delTags" => vg.tags = w.snap.tags \cup w.spec.tags
    /\ w.pc \in AfterTags => vg.tags = w.spec.tags
PVsReached ==
    /\ w.pc \in {"pvs", "extend", "move", "reduce"} => w.listed = w.spec.select \cap present
    /\ w.pc = "extend" => w.current = Names
    /\ w.pc \in {"move", "reduce"} /\ Missing = {} => vg.pvs = w.current \cup w.listed
    /\ w.pc \in AfterPVs => vg.pvs = w.spec.select \cap present
SettingsReached ==
    \A s \in Setting : IF w.pc \in After[s]
                       THEN w.spec[s] = Keep \/ vg[s] = Desired(s)
                       ELSE vg[s] = w.snap[s]

\* As long as nobody else changes the VG or the devices: nothing is changed in a VG
\* with a missing PV, an error that speaks of one is right, and without errors each
\* syncer has done its work when the next one begins.
SyncInStep ==
    calm =>
        /\ Syncing /\ Missing # {} => vg = w.snap
        /\ Syncing /\ Lost => Missing # {}
        /\ Syncing /\ w.errs = {} => TagsReached /\ PVsReached /\ SettingsReached
        /\ w.pc \in {"status", "update"} /\ w.cond.reason = "Synced" => InSync

IInv == /\ TypeOK
        /\ RemovalDecided
        /\ LossCounted
        /\ CondInHand
        /\ SyncInStep
=============================================================================
