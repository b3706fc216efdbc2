------------------------ MODULE LifecycleStepProofs ------------------------
(***************************************************************************)
(* What one step of Lifecycle may do, once its invariant is known: a step  *)
(* writes one version, or changes one place of one host, or is of concern  *)
(* to caches, queues and reconciles only. The theorems on what users do,   *)
(* on forced removals, on the VGs of others and on the presence of a VG    *)
(* follow from that, and so do the refinements.                            *)
(***************************************************************************)
EXTENDS LifecycleProofs

USE NodeNameAssumption, NameAssumption, ValueAssumption, BoundAssumption

\* IInv is the conjunction the lemmas of LifecycleProofs work with.
LEMMA Parts == IInv <=> Base /\ Safe /\ Known
BY DEF IInv, Base, Safe, Known

\* The first version of a resource, as its user may make it.
Creates(cr, o) ==
    /\ hist[cr] = <<>>
    /\ \E nm \in NameOnNode[cr], others \in BOOLEAN :
          Is(o, nm, 1, FALSE, others, FALSE, NoCondition)

\* The ways to make the next version o of a resource from its latest one.
Renames(cr, o) ==
    LET p == Latest(cr) IN
    /\ edits' # 0
    /\ \E nm \in NameOnNode[cr] :
          Is(o, nm, p.gen + 1, p.finalizer, p.others, p.deleting, p.cond)
Deletes(cr, o) ==
    LET p == Latest(cr) IN
    /\ ~p.deleting
    /\ Is(o, p.nameOnNode, p.gen + 1, p.finalizer, p.others, TRUE, p.cond)
Frees(cr, o) ==
    LET p == Latest(cr) IN
    /\ p.others
    /\ Is(o, p.nameOnNode, p.gen, p.finalizer, FALSE, p.deleting, p.cond)
Drops(cr, o) ==
    LET p == Latest(cr) IN
    /\ p.deleting
    /\ p.finalizer
    /\ host[NodeName[cr]][getNameOnNode(cr, p)] # cr
    /\ Is(o, p.nameOnNode, p.gen, FALSE, p.others, p.deleting, p.cond)
Adds(cr, o) ==
    LET p == Latest(cr) IN
    /\ ~p.deleting
    /\ \E n \in Node : Busy(n) /\ rec[n].cr = cr /\ rec[n].pc = "finalize" /\ Fresh(n)
    /\ Is(o, p.nameOnNode, p.gen, TRUE, p.others, p.deleting, p.cond)
Tells(cr, o) ==
    LET p == Latest(cr) IN
    /\ ~p.deleting
    /\ \E n \in Node :
          /\ Busy(n)
          /\ rec[n].cr = cr
          /\ rec[n].cond \in {p.cond,
                              SetSyncedOnHostDefault(p.gen),
                              SetSyncedOnHostCreationFailed(p.gen),
                              SetSyncedOnHostCreationOK(p.gen)}
          /\ rec[n].cond.reason = "Synced" => p.finalizer
          /\ Is(o, p.nameOnNode, p.gen, p.finalizer, p.others, p.deleting, rec[n].cond)

Edits(cr, o) == Renames(cr, o) \/ Deletes(cr, o) \/ Frees(cr, o)
Writes(cr, o) == Drops(cr, o) \/ Adds(cr, o) \/ Tells(cr, o)

\* The step stores o as the next version of cr. A rename counts as an edit.
StoreStep(cr, o) ==
    /\ Store(cr, o)
    /\ o \in Version
    /\ \/ Creates(cr, o)
       \/ Exists(cr) /\ (Edits(cr, o) \/ Writes(cr, o))
    /\ edits' = 0 => edits = 0
    /\ \A m \in Node : rec'[m] \in {rec[m], Rest("idle")}
    /\ UNCHANGED <<seen, host, inUse, graceOver>>

\* An existing latest version of a resource, as the writers find it.
LEMMA ExistingLatest ==
    ASSUME Base, Known, NEW cr \in CR, Exists(cr)
    PROVE  /\ Latest(cr) \in Version
           /\ Latest(cr).nameOnNode \in NameOnNode[cr]
           /\ Latest(cr).gen \in Nat
BY LatestNamed DEF Exists, Version

\* What users and other controllers store.
LEMMA UserStores ==
    ASSUME Base, Known, NEW cr \in CR,
           UserCreate(cr) \/ UserRename(cr) \/ UserDelete(cr) \/ DropOtherFinalizer(cr)
    PROVE  \E o : StoreStep(cr, o)
<1>0. /\ UNCHANGED <<seen, host, inUse, graceOver>>
      /\ rec' = rec
      /\ edits \in Nat
    BY DEF UserCreate, UserRename, UserDelete, DropOtherFinalizer, hostVars, Base, TypeOK
<1>1. CASE UserCreate(cr)
    <2>1. PICK nm \in NameOnNode[cr], others \in OtherFinalizers :
             Store(cr, [exists |-> TRUE, nameOnNode |-> nm, gen |-> 1,
                        finalizer |-> FALSE, others |-> others,
                        deleting |-> FALSE, cond |-> NoCondition])
        BY <1>1 DEF UserCreate
    <2> DEFINE o == [exists |-> TRUE, nameOnNode |-> nm, gen |-> 1,
                     finalizer |-> FALSE, others |-> others,
                     deleting |-> FALSE, cond |-> NoCondition]
    <2>2. Is(o, nm, 1, FALSE, others, FALSE, NoCondition)
        BY DEF Is, Version, NoCondition, Condition, Reason
    <2> HIDE DEF o
    <2>3. Store(cr, o)
        BY <2>1 DEF o
    <2>4. Creates(cr, o)
        BY <1>1, <2>2 DEF Creates, UserCreate
    <2> QED BY <1>0, <1>1, <2>2, <2>3, <2>4 DEF StoreStep, Is, UserCreate
<1>2. CASE UserRename(cr)
    <2>1. PICK nm \in NameOnNode[cr] : Store(cr, Renamed(Latest(cr), nm))
        BY <1>2 DEF UserRename
    <2> DEFINE o == Renamed(Latest(cr), nm)
    <2>2. Exists(cr) /\ edits' # 0
        BY <1>0, <1>2 DEF UserRename, Edit
    <2>3. nm \in VGName \cup {Unset} /\ Latest(cr) \in Version
        BY <2>2, ExistingLatest
    <2>4. Is(o, nm, Latest(cr).gen + 1, Latest(cr).finalizer, Latest(cr).others,
             Latest(cr).deleting, Latest(cr).cond)
        BY <2>3, WriteType
    <2> HIDE DEF o
    <2>5. Store(cr, o)
        BY <2>1 DEF o
    <2>6. Edits(cr, o)
        BY <2>2, <2>4 DEF Edits, Renames
    <2>7. o \in Version
        BY <2>4 DEF Is
    <2> QED BY <1>0, <2>2, <2>5, <2>6, <2>7 DEF StoreStep
<1>3. CASE UserDelete(cr)
    <2> DEFINE o == MarkedDeleted(Latest(cr))
    <2>1. Exists(cr) /\ ~Latest(cr).deleting /\ Store(cr, o) /\ edits' = edits
        BY <1>3 DEF UserDelete
    <2>2. Is(o, Latest(cr).nameOnNode, Latest(cr).gen + 1, Latest(cr).finalizer,
             Latest(cr).others, TRUE, Latest(cr).cond)
        BY <2>1, ExistingLatest, WriteType
    <2> HIDE DEF o
    <2>3. Edits(cr, o) /\ o \in Version
        BY <2>1, <2>2 DEF Edits, Deletes, Is
    <2> QED BY <1>0, <2>1, <2>3 DEF StoreStep
<1>4. CASE DropOtherFinalizer(cr)
    <2> DEFINE o == Released(Latest(cr))
    <2>1. Exists(cr) /\ Latest(cr).others /\ Store(cr, o) /\ edits' = edits
        BY <1>4 DEF DropOtherFinalizer
    <2>2. Is(o, Latest(cr).nameOnNode, Latest(cr).gen, Latest(cr).finalizer,
             FALSE, Latest(cr).deleting, Latest(cr).cond)
        BY <2>1, ExistingLatest, WriteType
    <2> HIDE DEF o
    <2>3. Edits(cr, o) /\ o \in Version
        BY <2>1, <2>2 DEF Edits, Frees, Is
    <2> QED BY <1>0, <2>1, <2>3 DEF StoreStep
<1> QED BY <1>1, <1>2, <1>3, <1>4

\* What the reconciler stores, if it stores anything.
LEMMA ReconcileStores ==
    ASSUME Base, Safe, Known, NEW n \in Node,
           RemoveFinalizer(n) \/ AddFinalizer(n) \/ StatusUpdate(n)
    PROVE  \/ \E o : StoreStep(rec[n].cr, o)
           \/ UNCHANGED <<hist, host>>
<1> DEFINE cr == rec[n].cr
           p == Latest(cr)
<1>0. /\ TypeOK /\ Busy(n) /\ Fresh(n)
      /\ UNCHANGED <<seen, host, inUse, graceOver>>
      /\ rec' = [rec EXCEPT ![n] = Rest("idle")]
      /\ edits \in Nat
    BY DEF Base, Busy, RemoveFinalizer, AddFinalizer, StatusUpdate, hostVars, Return, TypeOK
<1>1. /\ cr \in CR /\ NodeName[cr] = n
      /\ rec[n].ver \in 1 .. Len(hist[cr])
      /\ Obj(n) \in Version
      /\ rec[n].cond \in Condition
    BY <1>0, ObjType DEF TypeOK, Work
<1>2. Obj(n) = p /\ hist[cr] # <<>> /\ Len(hist[cr]) \in 1 .. Len(hist[cr])
    BY <1>0, <1>1 DEF Fresh, Obj, Latest
<1>3. \A m \in Node : rec'[m] \in {rec[m], Rest("idle")}
    BY <1>0 DEF TypeOK
<1>4. p.exists <=> p.finalizer \/ p.others \/ ~p.deleting
    BY <1>1, <1>2 DEF Known, ExistsWhileHeld, Latest
<1>5. edits' = 0 => edits = 0
    BY DEF RemoveFinalizer, AddFinalizer, StatusUpdate
<1>6. /\ p.deleting <=> rec[n].pc \in {"remove", "unfinalize"}
      /\ rec[n].pc = "unfinalize" => p.finalizer /\ host[n][Name(n)] # cr
      /\ rec[n].cond.reason = "Synced" => p.finalizer \/ p.deleting
      /\ rec[n].cond \in {p.cond,
                          SetSyncedOnHostDefault(p.gen),
                          SetSyncedOnHostCreationFailed(p.gen),
                          SetSyncedOnHostCreationOK(p.gen)}
    BY <1>0, <1>2 DEF Safe, BranchOfVersion, Known, WorkKnows
<1>7. CASE RemoveFinalizer(n)
    <2> DEFINE o == WithFinalizer(Obj(n), FALSE)
    <2>1. Store(cr, o) /\ rec[n].pc = "unfinalize"
        BY <1>7 DEF RemoveFinalizer
    <2>2. Is(o, p.nameOnNode, p.gen, FALSE, p.others, p.deleting, p.cond)
        BY <1>1, <1>2, WriteType
    <2>3. p.deleting /\ p.finalizer /\ host[NodeName[cr]][getNameOnNode(cr, p)] # cr
        BY <1>1, <1>2, <1>6, <2>1 DEF Name
    <2> HIDE DEF o
    <2>4. Drops(cr, o) /\ o \in Version /\ Exists(cr)
        BY <1>2, <1>4, <2>2, <2>3 DEF Drops, Is, Exists
    <2> QED BY <1>0, <1>3, <1>5, <2>1, <2>4 DEF StoreStep, Writes
<1>8. CASE AddFinalizer(n)
    <2> DEFINE o == WithFinalizer(Obj(n), TRUE)
    <2>1. Store(cr, o) /\ rec[n].pc = "finalize"
        BY <1>8 DEF AddFinalizer
    <2>2. Is(o, p.nameOnNode, p.gen, TRUE, p.others, p.deleting, p.cond)
        BY <1>1, <1>2, WriteType
    <2> HIDE DEF o
    <2>3. \E m \in Node : Busy(m) /\ rec[m].cr = cr /\ rec[m].pc = "finalize" /\ Fresh(m)
        BY <1>0, <2>1
    <2>4. ~p.deleting /\ o \in Version /\ Exists(cr)
        BY <1>2, <1>4, <1>6, <2>1, <2>2 DEF Is, Exists
    <2>5. Adds(cr, o)
        BY <2>2, <2>3, <2>4 DEF Adds
    <2> QED BY <1>0, <1>3, <1>5, <2>1, <2>4, <2>5 DEF StoreStep, Writes
<1>9. CASE StatusUpdate(n)
    <2> DEFINE o == WithCondition(Obj(n), rec[n].cond)
    <2>1. (Store(cr, o) \/ hist' = hist) /\ rec[n].pc = "report"
        BY <1>9 DEF StatusUpdate, StoreCondition
    <2>2. Is(o, p.nameOnNode, p.gen, p.finalizer, p.others, p.deleting, rec[n].cond)
        BY <1>1, <1>2, ConditionWriteType
    <2> HIDE DEF o
    <2>3. Tells(cr, o) /\ o \in Version /\ Exists(cr)
        BY <1>0, <1>2, <1>4, <1>6, <2>1, <2>2 DEF Tells, Is, Exists
    <2> QED BY <1>0, <1>3, <1>5, <2>1, <2>3 DEF StoreStep, Writes
<1> QED BY <1>7, <1>8, <1>9

\* The ways in which a VG comes and goes: removed by an administrator or by the
\* reconcile of a deleted resource, made by an administrator or for a live version
\* in work.
Withdraws(n, nm) ==
    /\ host[n][nm] # NoVG
    /\ host' = [host EXCEPT ![n][nm] = NoVG]
    /\ \/ edits' # 0 /\ rec' = rec
       \/ /\ Busy(n)
          /\ rec[n].pc = "remove"
          /\ nm = Name(n)
          /\ Removable(n)
Intrudes(n, nm) ==
    /\ host[n][nm] = NoVG
    /\ host' = [host EXCEPT ![n][nm] = Foreign]
Provides(n) ==
    /\ Busy(n)
    /\ rec[n].pc = "create"
    /\ host[n][Name(n)] = NoVG
    /\ host' = [host EXCEPT ![n][Name(n)] = rec[n].cr]

\* A step changes a version, a place on a host, or neither.
LEMMA StepKinds ==
    ASSUME Base, Safe, Known, [Next]_vars
    PROVE  \/ \E cr \in CR, o \in Version : StoreStep(cr, o)
           \/ /\ hist' = hist
              /\ \/ \E n \in Node, nm \in VGName : Withdraws(n, nm) \/ Intrudes(n, nm)
                 \/ \E n \in Node : Provides(n)
           \/ UNCHANGED <<hist, host>>
<1>1. ASSUME NEW cr \in CR, NEW o, StoreStep(cr, o)
      PROVE  o \in Version
    BY <1>1 DEF StoreStep
<1>2. ASSUME NEW cr \in CR,
             UserCreate(cr) \/ UserRename(cr) \/ UserDelete(cr) \/ DropOtherFinalizer(cr)
      PROVE  \E o \in Version : StoreStep(cr, o)
    BY <1>1, <1>2, UserStores
<1>3. CASE User
    BY <1>2, <1>3 DEF User, GraceExpires, hostVars
<1>4. CASE Host
    <2>1. PICK n \in Node, nm \in VGName :
             HostRemove(n, nm) \/ HostCreate(n, nm) \/ CreateLV(n, nm)
        BY <1>4 DEF Host
    <2>2. hist' = hist /\ rec' = rec
        BY <2>1 DEF HostRemove, HostCreate, CreateLV, apiVars
    <2>3. CASE HostRemove(n, nm)
        <3>1. edits' # 0 /\ host[n][nm] # NoVG /\ host' = [host EXCEPT ![n][nm] = NoVG]
            BY <2>3 DEF HostRemove, Edit, Base, TypeOK
        <3> QED BY <2>2, <3>1 DEF Withdraws
    <2>4. CASE HostCreate(n, nm)
        BY <2>2, <2>4 DEF HostCreate, Intrudes
    <2>5. CASE CreateLV(n, nm)
        BY <2>2, <2>5 DEF CreateLV
    <2> QED BY <2>1, <2>3, <2>4, <2>5
<1>5. ASSUME NEW n \in Node, NEW cr \in CR, Observe(n, cr) \/ Begin(n, cr)
      PROVE  UNCHANGED <<hist, host>>
    BY <1>5 DEF Observe, Begin, ReconcileSkip, ReconcileBegin, apiVars, hostVars
<1>6. ASSUME NEW n \in Node, QuietStep(n)
      PROVE  /\ hist' = hist
             /\ \/ \E nm \in VGName : Withdraws(n, nm)
                \/ Provides(n)
                \/ UNCHANGED <<hist, host>>
    <2>1. hist' = hist /\ Busy(n) /\ QuietHost(n) /\ Name(n) \in VGName
        BY <1>6, QuietEffect, ObjType
    <2> QED BY <2>1 DEF QuietHost, Withdraws, Provides, hostVars
<1>7. ASSUME NEW n \in Node, RemoveFinalizer(n) \/ AddFinalizer(n) \/ StatusUpdate(n)
      PROVE  \/ \E cr \in CR, o \in Version : StoreStep(cr, o)
             \/ UNCHANGED <<hist, host>>
    <2>1. Busy(n)
        BY <1>7 DEF Busy, RemoveFinalizer, AddFinalizer, StatusUpdate
    <2>2. rec[n].cr \in CR
        BY <2>1, ObjType
    <2> QED BY <1>1, <1>7, <2>2, ReconcileStores
<1>8. ASSUME NEW n \in Node, Crash(n) \/ Restart(n)
      PROVE  UNCHANGED <<hist, host>>
    BY <1>8 DEF Crash, Restart, apiVars, hostVars
<1>9. CASE UNCHANGED vars
    BY <1>9 DEF vars
<1>10. \/ User
       \/ Host
       \/ \E n \in Node, cr \in CR : Observe(n, cr) \/ Begin(n, cr)
       \/ \E n \in Node : QuietStep(n) \/ Crash(n) \/ Restart(n)
       \/ \E n \in Node : RemoveFinalizer(n) \/ AddFinalizer(n) \/ StatusUpdate(n)
       \/ UNCHANGED vars
    BY DEF Next, Proceed, Remove, Maintain, QuietStep
<1> QED BY <1>3, <1>4, <1>5, <1>6, <1>7, <1>8, <1>9, <1>10

\* What a version that is stored after another one leaves as it was.
LEMMA StoreSucceeds ==
    ASSUME Base, Known, NEW cr \in CR, NEW o \in Version, StoreStep(cr, o), hist[cr] # <<>>
    PROVE  /\ Latest(cr).gen <= o.gen
           /\ Latest(cr).nameOnNode # o.nameOnNode => Latest(cr).gen < o.gen
           /\ Latest(cr).deleting => o.deleting
           /\ o.others => Latest(cr).others
<1>1. Latest(cr) \in Version
    BY LatestType DEF Base
<1>2. Latest(cr).gen \in Nat
    BY <1>1 DEF Version
<1> QED BY <1>2 DEF StoreStep, Creates, Edits, Renames, Deletes, Frees, Writes, Drops, Adds,
                    Tells, Is

\* The step keeps UserEditsSurvive: every version respects the one before it.
LEMMA EditsStep == IInv /\ UserEditsSurvive /\ [Next]_vars => UserEditsSurvive'
<1> SUFFICES ASSUME IInv, UserEditsSurvive, [Next]_vars PROVE UserEditsSurvive'
    OBVIOUS
<1>1. Base /\ Safe /\ Known
    BY Parts
<1>2. CASE hist' = hist
    BY <1>2 DEF UserEditsSurvive
<1>3. ASSUME NEW cr \in CR, NEW o \in Version, StoreStep(cr, o)
      PROVE  UserEditsSurvive'
    <2>1. /\ Len(hist'[cr]) = Len(hist[cr]) + 1
          /\ hist'[cr][Len(hist[cr]) + 1] = Stored(o)
          /\ \A c \in CR : c # cr => hist'[c] = hist[c]
          /\ \A i \in 1 .. Len(hist[cr]) : hist'[cr][i] = hist[cr][i]
          /\ Len(hist[cr]) \in Nat
        BY <1>1, <1>3, StoreAppends, HistType DEF StoreStep, Base, TypeOK
    <2> SUFFICES ASSUME NEW c \in CR, NEW i \in 2 .. Len(hist'[c])
                 PROVE  LET old == hist'[c][i - 1]
                            new == hist'[c][i]
                        IN  /\ old.gen <= new.gen
                            /\ old.nameOnNode # new.nameOnNode => old.gen < new.gen
                            /\ old.deleting => new.deleting
                            /\ new.others => old.others
        BY DEF UserEditsSurvive
    <2>2. CASE c # cr
        BY <2>1, <2>2 DEF UserEditsSurvive
    <2>3. CASE c = cr /\ i <= Len(hist[cr])
        <3>1. /\ i \in 2 .. Len(hist[cr])
              /\ hist'[c][i - 1] = hist[cr][i - 1]
              /\ hist'[c][i] = hist[cr][i]
            BY <2>1, <2>3
        <3> QED BY <2>3, <3>1 DEF UserEditsSurvive
    <2>4. CASE c = cr /\ i = Len(hist[cr]) + 1
        <3>1. /\ Len(hist[cr]) \in 1 .. Len(hist[cr])
              /\ hist[cr] # <<>>
              /\ hist'[c][i - 1] = Latest(cr)
              /\ hist'[c][i] = Stored(o)
            BY <2>1, <2>4 DEF Latest
        <3>2. /\ Latest(cr).gen <= o.gen
              /\ Latest(cr).nameOnNode # o.nameOnNode => Latest(cr).gen < o.gen
              /\ Latest(cr).deleting => o.deleting
              /\ o.others => Latest(cr).others
            BY <1>1, <1>3, <3>1, StoreSucceeds
        <3> QED BY <3>1, <3>2, StoredType
    <2> QED BY <2>1, <2>2, <2>3, <2>4
<1> QED BY <1>1, <1>2, <1>3, StepKinds

\* Nothing that Reconcile writes back undoes an edit or a deletion of a user, takes
\* a finalizer of others back or changes the spec: it writes with the version it has
\* read, and a write that would overtake another is refused.
THEOREM EditsSurvive == Spec => []UserEditsSurvive
<1>1. Init => UserEditsSurvive
    BY DEF Init, UserEditsSurvive
<1>2. IInv /\ UserEditsSurvive /\ [Next]_vars => UserEditsSurvive'
    BY EditsStep
<1> QED BY <1>1, <1>2, Invariance, PTL DEF Spec
-----------------------------------------------------------------------------
(* What Reconcile removes *)

\* Only the reconcile of a deleted resource removes a VG, the one of its name.
LEMMA RemovalIs ==
    ASSUME IInv, [Next]_vars, NEW n \in Node, NEW nm \in VGName, RemovedByReconcile(n, nm)
    PROVE  /\ Busy(n)
           /\ rec[n].cr \in CR
           /\ NodeName[rec[n].cr] = n
           /\ nm = Name(n)
           /\ Removable(n)
           /\ Latest(rec[n].cr).deleting
<1>0. Base /\ Safe /\ Known /\ TypeOK
    BY Parts DEF Base
<1>1. host[n][nm] # NoVG /\ host'[n][nm] = NoVG /\ rec'[n] # rec[n]
    BY DEF RemovedByReconcile
<1>2. ~\E cr \in CR, o \in Version : StoreStep(cr, o)
    BY <1>1 DEF StoreStep
<1>3. ASSUME NEW m \in Node, NEW x \in VGName, Intrudes(m, x)
      PROVE  FALSE
    BY <1>0, <1>1, <1>3, HostUpdate DEF Intrudes
<1>4. ASSUME NEW m \in Node, Provides(m)
      PROVE  FALSE
    <2>1. rec[m].cr \in CR /\ Name(m) \in VGName
        BY <1>0, <1>4, ObjType DEF Provides
    <2> QED BY <1>0, <1>1, <1>4, <2>1, HostUpdate DEF Provides
<1>5. PICK m \in Node, x \in VGName : Withdraws(m, x)
    BY <1>0, <1>1, <1>2, <1>3, <1>4, StepKinds
<1>6. m = n /\ x = nm
    BY <1>0, <1>1, <1>5, HostUpdate DEF Withdraws
<1>7. Busy(n) /\ rec[n].pc = "remove" /\ nm = Name(n) /\ Removable(n)
    BY <1>1, <1>5, <1>6 DEF Withdraws
<1>8. /\ rec[n].cr \in CR /\ NodeName[rec[n].cr] = n
      /\ rec[n].ver \in 1 .. Len(hist[rec[n].cr])
      /\ Obj(n).deleting
    BY <1>0, <1>7, ObjType DEF Safe, BranchOfVersion
<1>9. Latest(rec[n].cr).deleting
    <2>1. Len(hist[rec[n].cr]) \in 1 .. Len(hist[rec[n].cr]) /\ rec[n].ver <= Len(hist[rec[n].cr])
        BY <1>0, <1>8, HistType
    <2> QED BY <1>0, <1>8, <2>1 DEF Safe, DeletionSticks, Obj, Latest
<1> QED BY <1>7, <1>8, <1>9

\* Reconcile removes a VG with logical volumes in it only when the resource it works
\* for is deleted and its grace period is over, however old its copy of it is.
THEOREM ForcedAfterGrace == Spec => ForceOnlyAfterGrace
<1> DEFINE A == \A n \in Node, nm \in VGName :
                   RemovedByReconcile(n, nm) /\ nm \in inUse[n] =>
                       /\ Latest(rec[n].cr).deleting
                       /\ rec[n].cr \in graceOver
<1>1. ASSUME IInv, [Next]_vars
      PROVE  A
    <2> SUFFICES ASSUME NEW n \in Node, NEW nm \in VGName,
                        RemovedByReconcile(n, nm), nm \in inUse[n]
                 PROVE  Latest(rec[n].cr).deleting /\ rec[n].cr \in graceOver
        OBVIOUS
    <2>1. Busy(n) /\ nm = Name(n) /\ Removable(n) /\ Latest(rec[n].cr).deleting
        BY <1>1, RemovalIs
    <2>2. rec[n].force
        BY <2>1 DEF Removable
    <2> QED BY <1>1, <2>1, <2>2 DEF IInv, WorkKnows
<1>2. IInv /\ [Next]_vars => [A]_vars
    BY <1>1
<1>3. ForceOnlyAfterGrace <=> [][A]_vars
    BY DEF ForceOnlyAfterGrace
<1> HIDE DEF A
<1> QED BY <1>2, <1>3, Invariance, PTL DEF Spec

\* Where no two resources of a node may have the same name, Reconcile removes a VG
\* it made only for the resource it made it for, and only when that is deleted.
THEOREM OnlyOwnRemoved == ASSUME UniqueNames PROVE Spec => OnlyDeletedRemoved
<1> DEFINE A == \A n \in Node, nm \in VGName, cr \in CR :
                   RemovedByReconcile(n, nm) /\ host[n][nm] = cr =>
                       rec[n].cr = cr /\ Latest(cr).deleting
<1>1. ASSUME IInv, [Next]_vars
      PROVE  A
    <2> SUFFICES ASSUME NEW n \in Node, NEW nm \in VGName,
                        RemovedByReconcile(n, nm), host[n][nm] \in CR
                 PROVE  rec[n].cr = host[n][nm] /\ Latest(rec[n].cr).deleting
        OBVIOUS
    <2> DEFINE c == rec[n].cr
               d == host[n][nm]
    <2>1. Busy(n) /\ c \in CR /\ NodeName[c] = n /\ nm = Name(n) /\ Latest(c).deleting
        BY <1>1, RemovalIs
    <2>2. nm \in NamesOf(c)
        BY <1>1, <2>1, Parts, WorkNamed
    <2>3. nm \in NamesOf(d) /\ NodeName[d] = n
        BY <1>1 DEF IInv, NamesGiven, CreatedAtHome
    <2>4. c = d
        BY <2>1, <2>2, <2>3 DEF UniqueNames
    <2> QED BY <2>1, <2>4
<1>2. IInv /\ [Next]_vars => [A]_vars
    BY <1>1
<1>3. OnlyDeletedRemoved <=> [][A]_vars
    BY DEF OnlyDeletedRemoved
<1> HIDE DEF A
<1> QED BY <1>2, <1>3, Invariance, PTL DEF Spec
-----------------------------------------------------------------------------
(* A VG that was found stays, as long as nobody else changes names and hosts *)

\* Edits are counted and never taken back.
LEMMA EditsGrow == ASSUME TypeOK, [Next]_vars, edits' = 0 PROVE edits = 0
<1>1. edits' = edits \/ Edit
    <2>1. CASE User
        BY <2>1 DEF User, UserCreate, UserRename, UserDelete, DropOtherFinalizer, GraceExpires
    <2>2. CASE Host
        BY <2>2 DEF Host, HostRemove, HostCreate, CreateLV
    <2>3. ASSUME NEW n \in Node, NEW cr \in CR, Observe(n, cr) \/ Begin(n, cr)
          PROVE  edits' = edits
        BY <2>3 DEF Observe, Begin, ReconcileSkip, ReconcileBegin
    <2>4. ASSUME NEW n \in Node, Remove(n) \/ UpdateRejected(n) \/ Crash(n) \/ Restart(n)
          PROVE  edits' = edits
        BY <2>4 DEF Remove, VGRemoveSucceeds, VGRemoveNotFound, VGRemoveFails, RemoveFinalizer,
                    UpdateRejected, Crash, Restart
    <2>5. ASSUME NEW n \in Node, Maintain(n)
          PROVE  edits' = edits
        BY <2>5 DEF Maintain, VGDiscover, VGCreateSucceeds, ConvertFails, VGCreateFails,
                    AddFinalizer, SyncSucceeds, SyncFails, SyncPanics, SelectorPanics,
                    DeadlinePasses, StatusUpdate
    <2>6. CASE UNCHANGED vars
        BY <2>6 DEF vars
    <2> QED BY <2>1, <2>2, <2>3, <2>4, <2>5, <2>6 DEF Next, Proceed
<1> QED BY <1>1 DEF Edit, TypeOK

\* Where the work that a node is at after a step comes from.
LEMMA WorkComesFrom ==
    ASSUME IInv, [Next]_vars, NEW n \in Node, Busy(n)'
    PROVE  \/ rec'[n] = rec[n]
           \/ /\ rec'[n].cr \in CR
              /\ ~rec'[n].found
              /\ \E i \in 1 .. Len(hist[rec'[n].cr]) : rec'[n].cond = hist[rec'[n].cr][i].cond
           \/ /\ Busy(n)
              /\ rec'[n].cr = rec[n].cr
              /\ rec'[n].found => rec[n].found \/ host[n][Name(n)] # NoVG
              /\ rec'[n].cond.reason = "Synced" =>
                     rec[n].cond.reason = "Synced" \/ rec[n].found
<1>0. Base /\ Safe /\ Known /\ TypeOK
    BY Parts DEF Base
<1>1. ASSUME NEW m \in Node, NEW pc \in {"idle", "down", "panicked"},
             rec' = [rec EXCEPT ![m] = Rest(pc)]
      PROVE  rec'[n] = rec[n]
    BY <1>0, <1>1, RestType DEF TypeOK, Busy
<1>2. CASE User
    BY <1>2 DEF User, UserCreate, UserRename, UserDelete, DropOtherFinalizer, GraceExpires
<1>3. CASE Host
    BY <1>3 DEF Host, HostRemove, HostCreate, CreateLV
<1>4. ASSUME NEW m \in Node, NEW cr \in CR, Observe(m, cr) \/ ReconcileSkip(m, cr)
      PROVE  rec'[n] = rec[n]
    BY <1>4 DEF Observe, ReconcileSkip
<1>5. ASSUME NEW m \in Node, NEW cr \in CR, ReconcileBegin(m, cr), rec'[n] # rec[n]
      PROVE  /\ rec'[n].cr \in CR
             /\ ~rec'[n].found
             /\ \E i \in 1 .. Len(hist[rec'[n].cr]) : rec'[n].cond = hist[rec'[n].cr][i].cond
    <2> DEFINE obj == hist[cr][seen[m][cr]]
               w == [pc     |-> IF obj.deleting THEN "remove" ELSE "discover",
                     cr     |-> cr,
                     ver    |-> seen[m][cr],
                     found  |-> FALSE,
                     force  |-> obj.deleting /\ cr \in graceOver,
                     failed |-> FALSE,
                     cond   |-> obj.cond]
    <2>1. rec' = [rec EXCEPT ![m] = w] /\ seen[m][cr] > 0
        BY <1>5 DEF ReconcileBegin, Mine
    <2>2. w.cr = cr /\ ~w.found /\ w.cond = hist[cr][seen[m][cr]].cond
        OBVIOUS
    <2> HIDE DEF w
    <2>3. m = n /\ rec'[n] = w
        BY <1>0, <1>5, <2>1 DEF TypeOK
    <2>4. seen[m][cr] \in 1 .. Len(hist[cr])
        BY <1>0, <2>1, HistType DEF Base, TypeOK, CacheBehind
    <2> QED BY <2>2, <2>3, <2>4
<1>6. ASSUME NEW m \in Node, QuietStep(m), rec'[n] # rec[n]
      PROVE  /\ Busy(n)
             /\ rec'[n].cr = rec[n].cr
             /\ rec'[n].found => rec[n].found \/ host[n][Name(n)] # NoVG
             /\ rec'[n].cond.reason = "Synced" => rec[n].cond.reason = "Synced" \/ rec[n].found
    <2>1. Busy(m) /\ QuietWork(m)
        BY <1>0, <1>6, QuietEffect
    <2>2. PICK w \in Work :
             /\ rec' = [rec EXCEPT ![m] = w]
             /\ w.cr = rec[m].cr
             /\ w.found => rec[m].found \/ host[m][Name(m)] # NoVG
             /\ w.cond.reason = "Synced" => rec[m].cond.reason = "Synced" \/ rec[m].found
        BY <1>1, <1>6, <2>1 DEF QuietWork
    <2>3. m = n /\ rec'[n] = w
        BY <1>0, <1>6, <2>2 DEF TypeOK
    <2> QED BY <2>1, <2>2, <2>3
<1>7. ASSUME NEW m \in Node, RemoveFinalizer(m) \/ AddFinalizer(m) \/ StatusUpdate(m)
      PROVE  rec'[n] = rec[n]
    BY <1>1, <1>7 DEF RemoveFinalizer, AddFinalizer, StatusUpdate, Return
<1>8. ASSUME NEW m \in Node, Crash(m) \/ Restart(m)
      PROVE  rec'[n] = rec[n]
    BY <1>1, <1>8 DEF Crash, Restart
<1>9. CASE UNCHANGED vars
    BY <1>9 DEF vars
<1>10. \/ User
       \/ Host
       \/ \E m \in Node, cr \in CR : \/ Observe(m, cr) \/ ReconcileSkip(m, cr)
                                     \/ ReconcileBegin(m, cr)
       \/ \E m \in Node : QuietStep(m) \/ Crash(m) \/ Restart(m)
       \/ \E m \in Node : RemoveFinalizer(m) \/ AddFinalizer(m) \/ StatusUpdate(m)
       \/ UNCHANGED vars
    BY DEF Next, Proceed, Remove, Maintain, QuietStep, Begin
<1> QED BY <1>2, <1>3, <1>4, <1>5, <1>6, <1>7, <1>8, <1>9, <1>10

\* The latest versions after a write.
LEMMA LatestAfter ==
    ASSUME Base, NEW cr \in CR, NEW o \in Version, Store(cr, o)
    PROVE  /\ hist'[cr] # <<>>
           /\ Latest(cr)' = Stored(o)
           /\ \A c \in CR : c # cr => hist'[c] = hist[c] /\ Latest(c)' = Latest(c)
           /\ \A c \in CR, i \in Nat :
                 i \in 1 .. Len(hist'[c]) =>
                     \/ i \in 1 .. Len(hist[c]) /\ hist'[c][i] = hist[c][i]
                     \/ c = cr /\ i = Len(hist[cr]) + 1 /\ hist'[c][i] = Stored(o)
           /\ \A c \in CR : Len(hist'[c]) \in Nat
<1>1. /\ hist' \in [CR -> Seq(Version)]
      /\ Len(hist'[cr]) = Len(hist[cr]) + 1
      /\ hist'[cr][Len(hist[cr]) + 1] = Stored(o)
      /\ \A c \in CR : c # cr => hist'[c] = hist[c]
      /\ \A i \in 1 .. Len(hist[cr]) : hist'[cr][i] = hist[cr][i]
      /\ \A c \in CR : Len(hist[c]) \in Nat
    BY StoreAppends, HistType DEF Base, TypeOK
<1>2. hist'[cr] # <<>>
    BY <1>1
<1>3. Latest(cr)' = Stored(o) /\ \A c \in CR : c # cr => Latest(c)' = Latest(c)
    BY <1>1 DEF Latest
<1>4. ASSUME NEW c \in CR, NEW i \in 1 .. Len(hist'[c])
      PROVE  \/ i \in 1 .. Len(hist[c]) /\ hist'[c][i] = hist[c][i]
             \/ c = cr /\ i = Len(hist[cr]) + 1 /\ hist'[c][i] = Stored(o)
    <2>1. CASE c = cr
        BY <1>1, <2>1
    <2>2. CASE c # cr
        BY <1>1, <2>2
    <2> QED BY <2>1, <2>2
<1>5. \A c \in CR : Len(hist'[c]) \in Nat
    BY <1>1
<1> QED BY <1>1, <1>2, <1>3, <1>4, <1>5

\* The place of a resource, as its latest version names it.
LEMMA LatestPlace ==
    ASSUME Base, Known, NEW cr \in CR, hist[cr] # <<>>
    PROVE  /\ getNameOnNode(cr, Latest(cr)) \in VGName
           /\ getNameOnNode(cr, Latest(cr)) \in NamesOf(cr)
<1>1. Latest(cr) \in Version /\ Latest(cr).nameOnNode \in NameOnNode[cr]
    BY LatestNamed
<1> QED BY <1>1 DEF getNameOnNode, NamesOf, Version

\* The node of a resource cannot have seen a deletion that has not happened.
LEMMA LiveUnseen ==
    ASSUME IInv, NEW cr \in CR, hist[cr] # <<>>, ~Latest(cr).deleting
    PROVE  ~DeletionSeen(cr)
<1> DEFINE v == seen[NodeName[cr]][cr]
<1> SUFFICES ASSUME v > 0, hist[cr][v].deleting PROVE FALSE
    BY DEF DeletionSeen
<1>1. v \in Nat /\ v <= Len(hist[cr])
    BY DEF IInv, TypeOK, CacheBehind
<1>2. Len(hist[cr]) \in Nat
    BY HistType DEF IInv
<1>3. v \in 1 .. Len(hist[cr]) /\ Len(hist[cr]) \in 1 .. Len(hist[cr])
    BY <1>1, <1>2
<1> QED BY <1>1, <1>3 DEF IInv, DeletionSticks, Latest

\* As long as nobody renames, creates or removes from outside, the VG of a resource
\* stays until its node sees that the resource is deleted.
LEMMA PresenceKept ==
    ASSUME UniqueNames, IInv, [Next]_vars, edits' = 0,
           NEW cr \in CR, hist[cr] # <<>>, ~DeletionSeen(cr), Present(cr)
    PROVE  Present(cr)'
<1>0. Base /\ Safe /\ Known /\ TypeOK
    BY Parts DEF Base
<1> DEFINE nm == getNameOnNode(cr, Latest(cr))
           n == NodeName[cr]
<1>1. n \in Node /\ nm \in VGName /\ nm \in NamesOf(cr) /\ host[n][nm] # NoVG
    BY <1>0, LatestPlace DEF Present
<1>2. ASSUME NEW c \in CR, NEW o \in Version, StoreStep(c, o)
      PROVE  Present(cr)'
    <2>1. host' = host /\ Store(c, o)
        BY <1>2 DEF StoreStep
    <2>2. CASE c # cr
        BY <1>0, <2>1, <2>2, LatestAfter DEF Present
    <2>3. CASE c = cr
        <3>1. Latest(cr)' = Stored(o)
            BY <1>0, <2>1, <2>3, LatestAfter
        <3>2. o.nameOnNode = Latest(cr).nameOnNode
            BY <1>2, <2>3 DEF StoreStep, Creates, Edits, Renames, Deletes, Frees, Writes,
                              Drops, Adds, Tells, Is
        <3>3. getNameOnNode(cr, Stored(o)) = nm
            BY <3>2, StoredType DEF getNameOnNode
        <3> QED BY <1>1, <2>1, <3>1, <3>3 DEF Present
    <2> QED BY <2>2, <2>3
<1>3. CASE hist' = hist
    <2>1. Latest(cr)' = Latest(cr)
        BY <1>3 DEF Latest
    <2>2. host'[n][nm] # NoVG => Present(cr)'
        BY <2>1 DEF Present, getNameOnNode
    <2>3. CASE host' = host
        BY <1>1, <2>1, <2>2, <2>3
    <2>4. ASSUME NEW m \in Node, NEW x \in VGName, Withdraws(m, x)
          PROVE  host'[n][nm] # NoVG
        <3>1. Busy(m) /\ rec[m].pc = "remove" /\ x = Name(m)
            BY <2>4 DEF Withdraws
        <3>2. rec[m].cr \in CR /\ NodeName[rec[m].cr] = m /\ x \in NamesOf(rec[m].cr)
            BY <1>0, <3>1, ObjType, WorkNamed
        <3>3. DeletionSeen(rec[m].cr)
            <4> DEFINE v == seen[m][rec[m].cr]
            <4>1. rec[m].ver \in 1 .. v /\ Obj(m).deleting
                BY <1>0, <3>1 DEF Base, WorkRead, Safe, BranchOfVersion
            <4>2. v \in Nat /\ v <= Len(hist[rec[m].cr]) /\ Len(hist[rec[m].cr]) \in Nat
                BY <1>0, <3>2, HistType DEF Base, TypeOK, CacheBehind
            <4>3. /\ v > 0 /\ rec[m].ver <= v
                  /\ v \in 1 .. Len(hist[rec[m].cr])
                  /\ rec[m].ver \in 1 .. Len(hist[rec[m].cr])
                BY <4>1, <4>2
            <4>4. hist[rec[m].cr][v].deleting
                BY <1>0, <3>2, <4>1, <4>3 DEF Safe, DeletionSticks, Obj
            <4> QED BY <3>2, <4>3, <4>4 DEF DeletionSeen
        <3>4. ~(m = n /\ x = nm)
            <4> SUFFICES ASSUME m = n, x = nm PROVE FALSE
                OBVIOUS
            <4>1. rec[m].cr = cr
                BY <1>1, <3>2 DEF UniqueNames
            <4> QED BY <3>3, <4>1
        <3> QED BY <1>0, <1>1, <2>4, <3>4, HostUpdate DEF Withdraws
    <2>5. ASSUME NEW m \in Node, NEW x \in VGName, Intrudes(m, x)
          PROVE  host'[n][nm] # NoVG
        BY <1>0, <1>1, <2>5, HostUpdate DEF Intrudes
    <2>6. ASSUME NEW m \in Node, Provides(m)
          PROVE  host'[n][nm] # NoVG
        <3>1. rec[m].cr \in CR /\ Name(m) \in VGName
            BY <1>0, <2>6, ObjType DEF Provides
        <3> QED BY <1>0, <1>1, <2>6, <3>1, HostUpdate DEF Provides
    <2> QED BY <1>0, <1>1, <1>2, <2>1, <2>2, <2>3, <2>4, <2>5, <2>6, StepKinds
<1> QED BY <1>0, <1>2, <1>3, StepKinds

\* With unique names every step keeps FoundStays.
LEMMA FoundStep ==
    ASSUME UniqueNames, IInv, IInv', FoundStays, [Next]_vars
    PROVE  FoundStays'
<1>0. Base /\ Safe /\ Known /\ TypeOK /\ Base'
    BY Parts DEF Base, IInv
<1> SUFFICES ASSUME edits' = 0
             PROVE  /\ \A cr \in CR : \A i, j \in 1 .. Len(hist'[cr]) :
                          hist'[cr][i].nameOnNode = hist'[cr][j].nameOnNode
                    /\ \A cr \in CR : \A i \in 1 .. Len(hist'[cr]) :
                          ~Latest(cr)'.deleting /\ hist'[cr][i].cond.reason = "Synced"
                              => Present(cr)'
                    /\ \A n \in Node, c \in CR :
                          /\ Busy(n)'
                          /\ rec'[n].cr = c
                          /\ ~Latest(c)'.deleting
                          /\ rec'[n].found \/ rec'[n].cond.reason = "Synced"
                          => Present(c)'
    <2>1. \A n \in Node : Busy(n)' => rec'[n].cr \in CR
        BY <1>0 DEF Base, WorkRead
    <2> QED BY <2>1 DEF FoundStays, Latest, Present
<1>1. edits = 0
    BY <1>0, EditsGrow
<1>2. /\ \A cr \in CR : \A i, j \in 1 .. Len(hist[cr]) :
            hist[cr][i].nameOnNode = hist[cr][j].nameOnNode
      /\ \A cr \in CR : \A i \in 1 .. Len(hist[cr]) :
            ~Latest(cr).deleting /\ hist[cr][i].cond.reason = "Synced" => Present(cr)
      /\ \A n \in Node :
            /\ Busy(n)
            /\ ~Latest(rec[n].cr).deleting
            /\ rec[n].found \/ rec[n].cond.reason = "Synced"
            => Present(rec[n].cr)
    BY <1>1 DEF FoundStays
<1>3. ASSUME NEW cr \in CR, NEW i \in 1 .. Len(hist'[cr]), NEW j \in 1 .. Len(hist'[cr])
      PROVE  hist'[cr][i].nameOnNode = hist'[cr][j].nameOnNode
    <2>1. CASE hist' = hist
        BY <1>2, <1>3, <2>1
    <2>2. ASSUME NEW c \in CR, NEW o \in Version, StoreStep(c, o)
          PROVE  hist'[cr][i].nameOnNode = hist'[cr][j].nameOnNode
        <3>1. /\ i \in Nat /\ j \in Nat
              /\ \/ i \in 1 .. Len(hist[cr]) /\ hist'[cr][i] = hist[cr][i]
                 \/ cr = c /\ i = Len(hist[cr]) + 1 /\ hist'[cr][i] = Stored(o)
              /\ \/ j \in 1 .. Len(hist[cr]) /\ hist'[cr][j] = hist[cr][j]
                 \/ cr = c /\ j = Len(hist[cr]) + 1 /\ hist'[cr][j] = Stored(o)
            <4>1. Len(hist'[cr]) \in Nat
                BY <1>0, <2>2, LatestAfter DEF StoreStep
            <4>2. i \in Nat /\ j \in Nat
                BY <4>1
            <4> QED BY <1>0, <2>2, <4>2, LatestAfter DEF StoreStep
        <3>2. ASSUME cr = c, NEW k \in 1 .. Len(hist[cr])
              PROVE  hist[cr][k].nameOnNode = Stored(o).nameOnNode
            <4>1. Len(hist[cr]) \in 1 .. Len(hist[cr]) /\ hist[cr] # <<>>
                BY <1>0, HistType
            <4>2. o.nameOnNode = Latest(cr).nameOnNode
                BY <2>2, <3>2, <4>1 DEF StoreStep, Creates, Edits, Renames, Deletes, Frees,
                                        Writes, Drops, Adds, Tells, Is
            <4> QED BY <1>2, <4>1, <4>2, StoredType DEF Latest
        <3> QED BY <1>2, <3>1, <3>2
    <2> QED BY <1>0, <2>1, <2>2, StepKinds
<1>4. ASSUME NEW cr \in CR, NEW i \in 1 .. Len(hist'[cr]),
             ~Latest(cr)'.deleting, hist'[cr][i].cond.reason = "Synced"
      PROVE  Present(cr)'
    <2>1. ASSUME NEW k \in 1 .. Len(hist[cr]), hist[cr][k].cond.reason = "Synced",
                 ~Latest(cr).deleting
          PROVE  Present(cr)'
        <3>1. hist[cr] # <<>> /\ Present(cr)
            BY <1>0, <1>2, <2>1, HistType
        <3> QED BY <2>1, <3>1, LiveUnseen, PresenceKept
    <2>2. CASE hist' = hist
        <3>1. Latest(cr)' = Latest(cr)
            BY <2>2 DEF Latest
        <3> QED BY <1>4, <2>1, <2>2, <3>1
    <2>3. ASSUME NEW c \in CR, NEW o \in Version, StoreStep(c, o)
          PROVE  Present(cr)'
        <3>0. Store(c, o)
            BY <2>3 DEF StoreStep
        <3>1. /\ \A d \in CR : d # c => Latest(d)' = Latest(d)
              /\ Latest(c)' = Stored(o)
              /\ \/ i \in 1 .. Len(hist[cr]) /\ hist'[cr][i] = hist[cr][i]
                 \/ cr = c /\ i = Len(hist[cr]) + 1 /\ hist'[cr][i] = Stored(o)
            <4>1. Len(hist'[cr]) \in Nat
                BY <1>0, <3>0, LatestAfter
            <4>2. i \in Nat
                BY <4>1
            <4> QED BY <1>0, <3>0, <4>2, LatestAfter
        <3>2. hist[cr] # <<>> => ~Latest(cr).deleting
            <4>1. CASE cr # c
                BY <1>4, <3>1, <4>1
            <4>2. CASE cr = c
                BY <1>0, <1>4, <2>3, <3>1, <4>2, StoredType, StoreSucceeds
            <4> QED BY <4>1, <4>2
        <3>3. CASE i \in 1 .. Len(hist[cr]) /\ hist'[cr][i] = hist[cr][i]
            <4>1. hist[cr] # <<>>
                BY <3>3
            <4> QED BY <1>4, <2>1, <3>2, <3>3, <4>1
        <3>4. CASE cr = c /\ i = Len(hist[cr]) + 1 /\ hist'[cr][i] = Stored(o)
            <4>1. o.cond.reason = "Synced"
                BY <1>4, <3>4, StoredType
            <4>2. ~Creates(c, o)
                BY <4>1 DEF Creates, Is, NoCondition
            <4>3. hist[cr] # <<>> /\ Len(hist[cr]) \in 1 .. Len(hist[cr])
                <5>1. hist[cr] # <<>>
                    BY <2>3, <3>4, <4>2 DEF StoreStep, Exists
                <5> QED BY <1>0, <5>1, LatestType
            <4>4. CASE Tells(c, o)
                <5>1. PICK m \in Node : Busy(m) /\ rec[m].cr = c /\ o.cond = rec[m].cond
                    BY <4>4 DEF Tells, Is
                <5>2. Present(cr)
                    BY <1>2, <3>2, <3>4, <4>1, <4>3, <5>1
                <5> QED BY <3>2, <4>3, <5>2, LiveUnseen, PresenceKept
            <4>5. CASE o.cond = Latest(cr).cond
                <5>1. hist[cr][Len(hist[cr])].cond.reason = "Synced"
                    BY <4>1, <4>5 DEF Latest
                <5> QED BY <2>1, <3>2, <4>3, <5>1
            <4>6. Tells(c, o) \/ o.cond = Latest(cr).cond
                BY <2>3, <3>4, <4>2 DEF StoreStep, Edits, Renames, Deletes, Frees, Writes,
                                        Drops, Adds, Is
            <4> QED BY <4>4, <4>5, <4>6
        <3> QED BY <3>1, <3>3, <3>4
    <2> QED BY <1>0, <2>2, <2>3, StepKinds
<1>5. ASSUME NEW n \in Node, NEW c \in CR, Busy(n)', rec'[n].cr = c, ~Latest(c)'.deleting,
             rec'[n].found \/ rec'[n].cond.reason = "Synced"
      PROVE  Present(c)'
    <2>1. ASSUME hist[c] # <<>>, ~Latest(c).deleting, Present(c)
          PROVE  Present(c)'
        BY <2>1, LiveUnseen, PresenceKept
    <2>2. ASSUME hist[c] # <<>>
          PROVE  ~Latest(c).deleting
        <3>1. CASE hist' = hist
            BY <1>5, <3>1 DEF Latest
        <3>2. ASSUME NEW d \in CR, NEW o \in Version, StoreStep(d, o)
              PROVE  ~Latest(c).deleting
            <4>1. Store(d, o)
                BY <3>2 DEF StoreStep
            <4>2. CASE c # d
                BY <1>0, <1>5, <4>1, <4>2, LatestAfter
            <4>3. CASE c = d
                BY <1>0, <1>5, <2>2, <3>2, <4>1, <4>3, LatestAfter, StoredType, StoreSucceeds
            <4> QED BY <4>2, <4>3
        <3> QED BY <1>0, <3>1, <3>2, StepKinds
    <2>3. ASSUME Busy(n), rec[n].cr = c
          PROVE  /\ hist[c] # <<>>
                 /\ ~Latest(c).deleting
                 /\ rec[n].found \/ rec[n].cond.reason = "Synced" => Present(c)
                 /\ host[n][Name(n)] # NoVG => Present(c)
        <3>1. rec[n].ver \in 1 .. Len(hist[c]) /\ NodeName[c] = n
            BY <1>0, <2>3, ObjType
        <3>2. hist[c] # <<>> /\ Len(hist[c]) \in 1 .. Len(hist[c])
            BY <1>0, <3>1, HistType
        <3>3. ~Latest(c).deleting
            BY <2>2, <3>2
        <3>4. Name(n) = getNameOnNode(c, Latest(c))
            BY <1>2, <2>3, <3>1, <3>2 DEF Name, Obj, Latest, getNameOnNode
        <3> QED BY <1>2, <2>3, <3>1, <3>2, <3>3, <3>4 DEF Present
    <2>4. CASE rec'[n] = rec[n]
        <3>1. Busy(n) /\ rec[n].cr = c
            BY <1>5, <2>4 DEF Busy
        <3> QED BY <1>5, <2>1, <2>3, <2>4, <3>1
    <2>5. CASE /\ ~rec'[n].found
               /\ \E i \in 1 .. Len(hist[c]) : rec'[n].cond = hist[c][i].cond
        <3>1. PICK i \in 1 .. Len(hist[c]) : rec'[n].cond = hist[c][i].cond
            BY <2>5
        <3>2. hist[c] # <<>>
            BY <3>1
        <3> QED BY <1>2, <1>5, <2>1, <2>2, <2>5, <3>1, <3>2
    <2>6. CASE /\ Busy(n)
               /\ c = rec[n].cr
               /\ rec'[n].found => rec[n].found \/ host[n][Name(n)] # NoVG
               /\ rec'[n].cond.reason = "Synced" => rec[n].cond.reason = "Synced" \/ rec[n].found
        BY <1>5, <2>1, <2>3, <2>6
    <2> QED BY <1>5, <2>4, <2>5, <2>6, WorkComesFrom
<1> QED BY <1>3, <1>4, <1>5

\* Where names are unique: as long as no user renames a resource and nobody but the
\* operator creates or removes VGs, a VG that a reconcile has found, or that is said
\* to be synced, stays until its resource is deleted, whichever versions, refreshes of
\* the status and reconciles of it are under way.
THEOREM FoundIsKept == ASSUME UniqueNames PROVE Spec => []FoundStays
<1>1. Init => FoundStays
    BY DEF Init, FoundStays, Busy, Rest
<1>2. IInv /\ IInv' /\ FoundStays /\ [Next]_vars => FoundStays'
    BY FoundStep
<1> QED BY <1>1, <1>2, Invariance, PTL DEF Spec

\* Where names are unique: as long as no user renames a resource and nobody but the
\* operator creates or removes VGs, the VG of a live resource that is reported as
\* synced is on its node.
THEOREM SyncedIsPresent == ASSUME UniqueNames PROVE Spec => []SyncedMeansPresent
<1>1. IInv /\ FoundStays => SyncedMeansPresent
    <2> SUFFICES ASSUME IInv, FoundStays, edits = 0, NEW cr \in CR,
                        Live(cr), Latest(cr).cond.reason = "Synced"
                 PROVE  Present(cr)
        BY DEF SyncedMeansPresent
    <2>1. hist[cr] # <<>> /\ ~Latest(cr).deleting
        BY DEF Live, Exists
    <2>2. Len(hist[cr]) \in 1 .. Len(hist[cr])
        BY <2>1, LatestType DEF IInv
    <2> QED BY <2>1, <2>2 DEF FoundStays, Latest
<1> QED BY <1>1, FoundIsKept, Invariance, PTL
=============================================================================
