----------------------------- MODULE Lifecycle -----------------------------
(***************************************************************************)
(* The life of a VolumeGroup resource: the reconciler of                   *)
(* internal/controller/volumegroup_controller.go running on every node,    *)
(* the API server it reads through an informer cache and writes back to,   *)
(* and the lvm2 volume groups (VGs) of the hosts.                          *)
(*                                                                         *)
(* The body of Reconcile is cut at every call that leaves the process: the *)
(* cached Get, VG, VGCreate, VGRemove, the writes to the API server.       *)
(* Between two of them users, administrators and the other nodes move.     *)
(* What sync and syncStatus do inside the VG is one step here, with all    *)
(* its outcomes for the condition.                                         *)
(***************************************************************************)
EXTENDS Naturals, Sequences, FiniteSets

CONSTANTS
    CR,             \* VolumeGroup resources, by UID
    Node,           \* nodes, one reconciler (DaemonSet pod) on each
    VGName,         \* names a VG can have on a host; every UID is one
    NodeName,       \* .spec.nodeName of each resource, immutable
    NameOnNode,     \* the values its user may give .spec.nameOnNode
    Unset,          \* a nil .spec.nameOnNode
    NoVG, Foreign,  \* no VG under a name; a VG the operator did not create
    NoCR,           \* no request in work
    OtherFinalizers,    \* may (TRUE) or need not (FALSE) others hold a resource?
    PeriodicSync,   \* is --volume-group-sync-interval positive?
    MaxEdits,       \* bound on renames and on VGs others create and remove
    MaxVersions,    \* a status refresh makes no more versions of a resource than this
    MaxFaults       \* bound on failing or lost calls and on crashes

ASSUME NodeNameAssumption == NodeName \in [CR -> Node]
ASSUME NameAssumption     == /\ NameOnNode \in [CR -> SUBSET (VGName \cup {Unset})]
                             /\ CR \subseteq VGName
ASSUME ValueAssumption    == /\ Unset \notin VGName
                             /\ {NoVG, Foreign} \cap CR = {}
                             /\ NoVG # Foreign
                             /\ NoCR \notin CR
                             /\ OtherFinalizers \subseteq BOOLEAN
                             /\ PeriodicSync \in BOOLEAN
ASSUME BoundAssumption    == {MaxEdits, MaxVersions, MaxFaults} \subseteq Nat

VARIABLES
    hist,       \* every version of each resource the API server stored
    seen,       \* how far each node's informer cache has followed hist
    queue,      \* the keys in each node's work queue
    rec,        \* the reconcile in flight on each node
    host,       \* who created the VG that has a name on a node
    inUse,      \* the VGs of each node that hold logical volumes
    graceOver,  \* resources whose deletion grace period the nodes see over
    edits, faults

apiVars  == <<hist, graceOver>>
hostVars == <<host, inUse>>
vars     == <<hist, seen, queue, rec, host, inUse, graceOver, edits, faults>>
-----------------------------------------------------------------------------
(* Data *)

Reason    == {"None", "Pending", "Failed", "Synced"}
Condition == [reason : Reason, gen : Nat]
NoCondition == [reason |-> "None", gen |-> 0]

\* A stored version. A deleted object leaves a last version that no longer exists.
Version == [exists : BOOLEAN, nameOnNode : VGName \cup {Unset}, gen : Nat,
            finalizer : BOOLEAN, others : BOOLEAN, deleting : BOOLEAN,
            cond : Condition]

PC == {"idle", "remove", "unfinalize", "discover", "create", "finalize",
       "sync", "report", "down", "panicked"}

\* ver is the version the object in hand was read at, cond its condition since
\* then, found says that VG() returned a VG, failed that an error is on its way.
Work == [pc : PC, cr : CR \cup {NoCR}, ver : Nat, found : BOOLEAN,
         force : BOOLEAN, failed : BOOLEAN, cond : Condition]

Rest(pc) == [pc |-> pc, cr |-> NoCR, ver |-> 0, found |-> FALSE,
             force |-> FALSE, failed |-> FALSE, cond |-> NoCondition]

getNameOnNode(cr, obj) == IF obj.nameOnNode = Unset THEN cr ELSE obj.nameOnNode

\* Mutants: the observed generation is forgotten; a reason nobody knows is used.
SetSyncedOnHostDefault_NoGeneration(gen)    == [reason |-> "Pending", gen |-> 0]
SetSyncedOnHostCreationFailed_Unknown(gen)  == [reason |-> "CreationFailed", gen |-> gen]

SetSyncedOnHostDefault(gen)        == [reason |-> "Pending", gen |-> gen]
SetSyncedOnHostCreationFailed(gen) == [reason |-> "Failed",  gen |-> gen]
SetSyncedOnHostCreationOK(gen)     == [reason |-> "Synced",  gen |-> gen]

Latest(cr) == hist[cr][Len(hist[cr])]
Exists(cr) == hist[cr] # <<>> /\ Latest(cr).exists
Gone(cr)   == hist[cr] # <<>> /\ ~Latest(cr).exists
Live(cr)   == Exists(cr) /\ ~Latest(cr).deleting
Deleted(cr) == hist[cr] # <<>> /\ Latest(cr).deleting

\* The object the reconcile of node n works on, its name, and whether a write
\* with its resourceVersion would be accepted.
Obj(n)    == hist[rec[n].cr][rec[n].ver]
Name(n)   == getNameOnNode(rec[n].cr, Obj(n))
Fresh(n)  == rec[n].ver = Len(hist[rec[n].cr])

Edit    == edits < MaxEdits /\ edits' = edits + 1
Fault   == faults < MaxFaults /\ faults' = faults + 1
NoFault == UNCHANGED faults
-----------------------------------------------------------------------------
(* The API server *)

\* What the writers of an object change in it.
NextGeneration(o) == [o EXCEPT !.gen = @ + 1]
Renamed(o, nm)    == NextGeneration([o EXCEPT !.nameOnNode = nm])
MarkedDeleted(o)  == NextGeneration([o EXCEPT !.deleting = TRUE])
Released(o)       == [o EXCEPT !.others = FALSE]
WithFinalizer(o, held)  == [o EXCEPT !.finalizer = held]
WithCondition(o, cond)  == [o EXCEPT !.cond = cond]

\* An object that is being deleted stays only as long as a finalizer holds it.
Stored(o) == [o EXCEPT !.exists = o.finalizer \/ o.others \/ ~o.deleting]

Store(cr, o) == hist' = [hist EXCEPT ![cr] = Append(@, Stored(o))]

UserCreate(cr) ==
    /\ hist[cr] = <<>>
    /\ \E nm \in NameOnNode[cr], others \in OtherFinalizers :
          Store(cr, [exists |-> TRUE, nameOnNode |-> nm, gen |-> 1,
                     finalizer |-> FALSE, others |-> others,
                     deleting |-> FALSE, cond |-> NoCondition])
    /\ UNCHANGED <<seen, queue, rec, hostVars, graceOver, edits, faults>>

UserRename(cr) ==
    /\ Exists(cr)
    /\ Edit
    /\ \E nm \in NameOnNode[cr] \ {Latest(cr).nameOnNode} :
          Store(cr, Renamed(Latest(cr), nm))
    /\ UNCHANGED <<seen, queue, rec, hostVars, graceOver, faults>>

UserDelete(cr) ==
    /\ Exists(cr)
    /\ ~Latest(cr).deleting
    /\ Store(cr, MarkedDeleted(Latest(cr)))
    /\ UNCHANGED <<seen, queue, rec, hostVars, graceOver, edits, faults>>

\* Another controller is done with the resource.
DropOtherFinalizer(cr) ==
    /\ Exists(cr)
    /\ Latest(cr).others
    /\ Store(cr, Released(Latest(cr)))
    /\ UNCHANGED <<seen, queue, rec, hostVars, graceOver, edits, faults>>

\* The clock of the nodes passes deletionTimestamp + deletionGracePeriodSeconds.
GraceExpires(cr) ==
    /\ hist[cr] # <<>>
    /\ Latest(cr).deleting
    /\ cr \notin graceOver
    /\ graceOver' = graceOver \cup {cr}
    /\ UNCHANGED <<hist, seen, queue, rec, hostVars, edits, faults>>

\* A watch event, or a relist that skips versions, reaches the cache of n.
Observe(n, cr) ==
    /\ rec[n].pc \notin {"down", "panicked"}
    /\ \E v \in seen[n][cr] + 1 .. Len(hist[cr]) :
          seen' = [seen EXCEPT ![n][cr] = v]
    /\ queue' = [queue EXCEPT ![n] = @ \cup {cr}]
    /\ UNCHANGED <<apiVars, rec, hostVars, edits, faults>>
-----------------------------------------------------------------------------
(* The host, changed from outside the operator *)

HostRemove(n, nm) ==
    /\ host[n][nm] # NoVG
    /\ Edit
    /\ host' = [host EXCEPT ![n][nm] = NoVG]
    /\ inUse' = [inUse EXCEPT ![n] = @ \ {nm}]
    /\ UNCHANGED <<apiVars, seen, queue, rec, faults>>

HostCreate(n, nm) ==
    /\ host[n][nm] = NoVG
    /\ Edit
    /\ host' = [host EXCEPT ![n][nm] = Foreign]
    /\ UNCHANGED <<apiVars, seen, queue, rec, inUse, faults>>

\* Somebody, such as TopoLVM, creates a logical volume in the VG.
CreateLV(n, nm) ==
    /\ host[n][nm] # NoVG
    /\ nm \notin inUse[n]
    /\ inUse' = [inUse EXCEPT ![n] = @ \cup {nm}]
    /\ UNCHANGED <<apiVars, seen, queue, rec, host, edits, faults>>
-----------------------------------------------------------------------------
(* Reconcile, up to its first call to lvm2 *)

\* One worker per pod takes a key of the queue.
Take(n, cr) == rec[n].pc = "idle" /\ cr \in queue[n]

\* The cached Get finds the object, and it is for this node.
Mine(n, cr) == /\ seen[n][cr] > 0
               /\ hist[cr][seen[n][cr]].exists
               /\ NodeName[cr] = n

ReconcileSkip(n, cr) ==
    /\ Take(n, cr)
    /\ ~Mine(n, cr)
    /\ queue' = [queue EXCEPT ![n] = @ \ {cr}]
    /\ UNCHANGED <<apiVars, seen, rec, hostVars, edits, faults>>

\* Mutants: force as soon as the object is deleted; the finalizer
\* instead of the deletion timestamp decides.
ReconcileBegin_AlwaysForce(n, cr) ==
    /\ Take(n, cr)
    /\ Mine(n, cr)
    /\ queue' = [queue EXCEPT ![n] = @ \ {cr}]
    /\ LET obj == hist[cr][seen[n][cr]] IN
          rec' = [rec EXCEPT ![n] =
              [Rest(IF obj.deleting THEN "remove" ELSE "discover")
                  EXCEPT !.cr = cr, !.ver = seen[n][cr], !.cond = obj.cond,
                         !.force = obj.deleting]]
    /\ UNCHANGED <<apiVars, seen, hostVars, edits, faults>>
ReconcileBegin_ByFinalizer(n, cr) ==
    /\ Take(n, cr)
    /\ Mine(n, cr)
    /\ queue' = [queue EXCEPT ![n] = @ \ {cr}]
    /\ LET obj == hist[cr][seen[n][cr]] IN
          rec' = [rec EXCEPT ![n] =
              [Rest(IF obj.finalizer THEN "remove" ELSE "discover")
                  EXCEPT !.cr = cr, !.ver = seen[n][cr], !.cond = obj.cond]]
    /\ UNCHANGED <<apiVars, seen, hostVars, edits, faults>>

ReconcileBegin(n, cr) ==
    /\ Take(n, cr)
    /\ Mine(n, cr)
    /\ queue' = [queue EXCEPT ![n] = @ \ {cr}]
    /\ LET obj == hist[cr][seen[n][cr]] IN
          rec' = [rec EXCEPT ![n] =
              [pc     |-> IF obj.deleting THEN "remove" ELSE "discover",
               cr     |-> cr,
               ver    |-> seen[n][cr],
               found  |-> FALSE,
               force  |-> obj.deleting /\ cr \in graceOver,
               failed |-> FALSE,
               cond   |-> obj.cond]]
    /\ UNCHANGED <<apiVars, seen, hostVars, edits, faults>>

\* Reconcile returns; an error, Requeue and RequeueAfter put the key back.
Return(n, requeue) ==
    /\ rec' = [rec EXCEPT ![n] = Rest("idle")]
    /\ queue' = [queue EXCEPT ![n] = @ \cup (IF requeue THEN {rec[n].cr} ELSE {})]

\* The reconcile goes on with what it has read.
Continue(n, pc, found, cond, failed) ==
    rec' = [rec EXCEPT ![n] = [pc |-> pc, cr |-> @.cr, ver |-> @.ver, found |-> found,
                               force |-> @.force, failed |-> failed, cond |-> cond]]

Goto(n, pc) == Continue(n, pc, rec[n].found, rec[n].cond, rec[n].failed)
Report(n, cond, failed) == Continue(n, "report", rec[n].found, cond, failed)
-----------------------------------------------------------------------------
(* Reconcile of an object that is being deleted *)

\* vgremove refuses a VG that holds logical volumes unless it is forced.
Removable(n) == Name(n) \notin inUse[n] \/ rec[n].force

AfterRemoval(n) ==
    IF Obj(n).finalizer
    THEN Goto(n, "unfinalize") /\ UNCHANGED queue
    ELSE Return(n, TRUE)

VGRemoveSucceeds(n) ==
    /\ rec[n].pc = "remove"
    /\ host[n][Name(n)] # NoVG
    /\ Removable(n)
    /\ host' = [host EXCEPT ![n][Name(n)] = NoVG]
    /\ inUse' = [inUse EXCEPT ![n] = @ \ {Name(n)}]
    /\ AfterRemoval(n)
    /\ UNCHANGED <<apiVars, seen, edits, faults>>

VGRemoveNotFound(n) ==
    /\ rec[n].pc = "remove"
    /\ host[n][Name(n)] = NoVG
    /\ AfterRemoval(n)
    /\ UNCHANGED <<apiVars, seen, hostVars, edits, faults>>

\* Mutant: every error of VGRemove is taken for "not found".
VGRemoveFails_Ignored(n) ==
    /\ rec[n].pc = "remove"
    /\ \/ Fault
       \/ host[n][Name(n)] # NoVG /\ ~Removable(n) /\ NoFault
    /\ AfterRemoval(n)
    /\ UNCHANGED <<apiVars, seen, hostVars, edits>>

VGRemoveFails(n) ==
    /\ rec[n].pc = "remove"
    /\ \/ Fault
       \/ host[n][Name(n)] # NoVG /\ ~Removable(n) /\ NoFault
    /\ Return(n, TRUE)
    /\ UNCHANGED <<apiVars, seen, hostVars, edits>>

RemoveFinalizer(n) ==
    /\ rec[n].pc = "unfinalize"
    /\ Fresh(n)
    /\ Store(rec[n].cr, WithFinalizer(Obj(n), FALSE))
    /\ \/ Return(n, FALSE) /\ NoFault
       \/ Return(n, TRUE) /\ Fault              \* stored, but the reply is lost
    /\ UNCHANGED <<graceOver, seen, hostVars, edits>>

\* Mutant: the error of a write is logged and not returned.
UpdateRejected_Dropped(n) ==
    /\ rec[n].pc \in {"unfinalize", "finalize", "report"}
    /\ \/ ~Fresh(n) /\ NoFault
       \/ Fault
    /\ Return(n, FALSE)
    /\ UNCHANGED <<apiVars, seen, hostVars, edits>>

\* A conflict, a NotFound, or a call that did not get through.
UpdateRejected(n) ==
    /\ rec[n].pc \in {"unfinalize", "finalize", "report"}
    /\ \/ ~Fresh(n) /\ NoFault
       \/ Fault
    /\ Return(n, TRUE)
    /\ UNCHANGED <<apiVars, seen, hostVars, edits>>
-----------------------------------------------------------------------------
(* Reconcile of a live object *)

\* Mutant: sync without a finalizer on the object.
Discovered_Unprotected(n, found) ==
    Continue(n, IF found THEN "sync" ELSE "finalize", found, rec[n].cond, FALSE)

\* The VG is there: with our finalizer on the object go on to sync, else add it.
Discovered(n, found) ==
    Continue(n, IF Obj(n).finalizer THEN "sync" ELSE "finalize", found, rec[n].cond, FALSE)

\* Mutant: the error "not found" of VG() is not looked at.
VGDiscover_NotFoundIgnored(n) ==
    /\ rec[n].pc = "discover"
    /\ Discovered(n, TRUE)
    /\ UNCHANGED <<apiVars, seen, queue, hostVars, edits, faults>>

VGDiscover(n) ==
    /\ rec[n].pc = "discover"
    /\ \/ host[n][Name(n)] # NoVG /\ Discovered(n, TRUE) /\ NoFault
       \/ host[n][Name(n)] = NoVG /\ Goto(n, "create") /\ NoFault
       \/ Fault /\ Report(n, rec[n].cond, TRUE)
    /\ UNCHANGED <<apiVars, seen, queue, hostVars, edits>>

VGCreateSucceeds(n) ==
    /\ rec[n].pc = "create"
    /\ host[n][Name(n)] = NoVG
    /\ host' = [host EXCEPT ![n][Name(n)] = rec[n].cr]
    /\ Discovered(n, FALSE)
    /\ UNCHANGED <<apiVars, seen, queue, inUse, edits, faults>>

\* convertToVGCreateOptions fails, on lsblk or on the selector.
ConvertFails(n) ==
    /\ rec[n].pc = "create"
    /\ Fault
    /\ Report(n, rec[n].cond, TRUE)
    /\ UNCHANGED <<apiVars, seen, queue, hostVars, edits>>

\* Mutant: the condition is set before the error of VGCreate is looked at.
VGCreateFails_ReportedOK(n) ==
    /\ rec[n].pc = "create"
    /\ Fault
    /\ Report(n, SetSyncedOnHostCreationOK(Obj(n).gen), TRUE)
    /\ UNCHANGED <<apiVars, seen, queue, hostVars, edits>>

\* Mutant: the error of VGCreate is not returned by initializeVG.
VGCreateFails_Ignored(n) ==
    /\ rec[n].pc = "create"
    /\ Fault
    /\ Discovered(n, FALSE)
    /\ UNCHANGED <<apiVars, seen, queue, hostVars, edits>>

\* vgcreate fails: the name was taken meanwhile, or any other reason, among them
\* one that comes up after the VG was written.
VGCreateFails(n) ==
    /\ rec[n].pc = "create"
    /\ \/ host[n][Name(n)] # NoVG /\ UNCHANGED host /\ NoFault
       \/ UNCHANGED host /\ Fault
       \/ /\ host[n][Name(n)] = NoVG
          /\ host' = [host EXCEPT ![n][Name(n)] = rec[n].cr]
          /\ Fault
    /\ Report(n, SetSyncedOnHostCreationFailed(Obj(n).gen), TRUE)
    /\ UNCHANGED <<apiVars, seen, queue, inUse, edits>>

\* Mutant: the object is written without its resourceVersion.
AddFinalizer_Unconditional(n) ==
    /\ rec[n].pc = "finalize"
    /\ Exists(rec[n].cr)
    /\ Store(rec[n].cr, WithFinalizer(Obj(n), TRUE))
    /\ Return(n, TRUE)
    /\ UNCHANGED <<graceOver, seen, hostVars, edits, faults>>

AddFinalizer(n) ==
    /\ rec[n].pc = "finalize"
    /\ Fresh(n)
    /\ Store(rec[n].cr, WithFinalizer(Obj(n), TRUE))
    /\ Return(n, TRUE)
    /\ UNCHANGED <<graceOver, seen, hostVars, edits, faults>>

\* sync and syncStatus find nothing to complain about. They need not notice
\* that the VG was removed after VG() returned it.
SyncSucceeds(n) ==
    /\ rec[n].pc = "sync"
    /\ rec[n].found
    /\ Report(n, SetSyncedOnHostCreationOK(Obj(n).gen), FALSE)
    /\ UNCHANGED <<apiVars, seen, queue, hostVars, edits, faults>>

\* A syncer fails; vgreduce --removemissing fails and leaves the default; or
\* sync succeeds and syncStatus fails after it.
SyncFails(n) ==
    /\ rec[n].pc = "sync"
    /\ rec[n].found
    /\ \/ Fault
       \/ host[n][Name(n)] = NoVG /\ NoFault
    /\ \E cond \in {SetSyncedOnHostCreationFailed(Obj(n).gen),
                    SetSyncedOnHostDefault(Obj(n).gen),
                    SetSyncedOnHostCreationOK(Obj(n).gen)} :
          Report(n, cond, TRUE)
    /\ UNCHANGED <<apiVars, seen, queue, hostVars, edits>>

\* After initializeVG created the VG the lvm pointer is still nil. With the
\* finalizer on the object already, Reconcile goes on and sync dereferences it.
SyncPanics(n) ==
    /\ rec[n].pc = "sync"
    /\ ~rec[n].found
    /\ rec' = [rec EXCEPT ![n] = Rest("panicked")]
    /\ UNCHANGED <<apiVars, seen, queue, hostVars, edits, faults>>

\* lsblk has no string (null, a number) for a column a selector compares: the type
\* assertion in GetString panics, in convertToVGCreateOptions and in syncPVs.
SelectorPanics(n) ==
    /\ rec[n].pc \in {"create", "sync"}
    /\ rec[n].pc = "sync" => rec[n].found
    /\ Fault
    /\ rec' = [rec EXCEPT ![n] = Rest("panicked")]
    /\ UNCHANGED <<apiVars, seen, queue, hostVars, edits>>

\* The ten seconds of the context pass. Every later call fails, the update of the
\* status among them: what went wrong is not recorded, and what the command in
\* flight did stays. (Once only a write is left, that is UpdateRejected.)
DeadlinePasses(n) ==
    /\ rec[n].pc \in {"discover", "create", "sync"}
    /\ rec[n].pc = "sync" => rec[n].found
    /\ \/ UNCHANGED host
       \/ /\ rec[n].pc = "create"
          /\ host[n][Name(n)] = NoVG
          /\ host' = [host EXCEPT ![n][Name(n)] = rec[n].cr]
    /\ Fault
    /\ Return(n, TRUE)
    /\ UNCHANGED <<apiVars, seen, inUse, edits>>

\* The condition in hand goes over the stored one. Sync has set it to the default
\* and back, so its transition time moves with the clock: even with reason and
\* generation as they were the write is a new version, unless it is the same second.
StoreCondition(n) ==
    LET o == WithCondition(Obj(n), rec[n].cond) IN
       \/ /\ o # Obj(n) \/ Len(hist[rec[n].cr]) < MaxVersions
          /\ Store(rec[n].cr, o)
       \/ o = Obj(n) /\ UNCHANGED hist

\* Mutant: RequeueAfter is forgotten.
StatusUpdate_NoRequeue(n) ==
    /\ rec[n].pc = "report"
    /\ Fresh(n)
    /\ StoreCondition(n)
    /\ Return(n, rec[n].failed)
    /\ UNCHANGED <<graceOver, seen, hostVars, edits, faults>>

StatusUpdate(n) ==
    /\ rec[n].pc = "report"
    /\ Fresh(n)
    /\ StoreCondition(n)
    /\ \/ Return(n, rec[n].failed \/ PeriodicSync) /\ NoFault
       \/ Return(n, TRUE) /\ Fault              \* stored, but the reply is lost
    /\ UNCHANGED <<graceOver, seen, hostVars, edits>>
-----------------------------------------------------------------------------
(* The process *)

Crash(n) ==
    /\ rec[n].pc \notin {"down", "panicked"}
    /\ Fault
    /\ rec' = [rec EXCEPT ![n] = Rest("down")]
    /\ UNCHANGED <<apiVars, seen, queue, hostVars, edits>>

\* The DaemonSet restarts the pod, which lists the resources and queues them.
Restart(n) ==
    /\ rec[n].pc \in {"down", "panicked"}
    /\ rec' = [rec EXCEPT ![n] = Rest("idle")]
    /\ seen' = [seen EXCEPT ![n] = [cr \in CR |-> Len(hist[cr])]]
    /\ queue' = [queue EXCEPT ![n] = {cr \in CR : Exists(cr)}]
    /\ UNCHANGED <<apiVars, hostVars, edits, faults>>
-----------------------------------------------------------------------------
Init ==
    /\ hist = [cr \in CR |-> <<>>]
    /\ seen = [n \in Node |-> [cr \in CR |-> 0]]
    /\ queue = [n \in Node |-> {}]
    /\ rec = [n \in Node |-> Rest("idle")]
    /\ host = [n \in Node |-> [nm \in VGName |-> NoVG]]
    /\ inUse = [n \in Node |-> {}]
    /\ graceOver = {}
    /\ edits = 0
    /\ faults = 0

User == \E cr \in CR : \/ UserCreate(cr)
                       \/ UserRename(cr)
                       \/ UserDelete(cr)
                       \/ DropOtherFinalizer(cr)
                       \/ GraceExpires(cr)

Host == \E n \in Node, nm \in VGName : \/ HostRemove(n, nm)
                                       \/ HostCreate(n, nm)
                                       \/ CreateLV(n, nm)

Begin(n, cr) == ReconcileSkip(n, cr) \/ ReconcileBegin(n, cr)

Remove(n) == \/ VGRemoveSucceeds(n)
             \/ VGRemoveNotFound(n)
             \/ VGRemoveFails(n)
             \/ RemoveFinalizer(n)

Maintain(n) == \/ VGDiscover(n)
               \/ VGCreateSucceeds(n)
               \/ ConvertFails(n)
               \/ VGCreateFails(n)
               \/ AddFinalizer(n)
               \/ SyncSucceeds(n)
               \/ SyncFails(n)
               \/ SyncPanics(n)
               \/ SelectorPanics(n)
               \/ DeadlinePasses(n)
               \/ StatusUpdate(n)

\* The reconcile in flight on n takes its next step.
Proceed(n) == Remove(n) \/ Maintain(n) \/ UpdateRejected(n)

Next == \/ User
        \/ Host
        \/ \E n \in Node, cr \in CR : Observe(n, cr) \/ Begin(n, cr)
        \/ \E n \in Node : Proceed(n) \/ Crash(n) \/ Restart(n)

\* A call in flight returns, the watch delivers, the DaemonSet restarts its pods,
\* clocks advance. The work queue is first in, first out, so a key that waits is
\* taken however many others come and go.
Fairness ==
    /\ \A n \in Node : WF_vars(Proceed(n)) /\ WF_vars(Restart(n))
    /\ \A n \in Node, cr \in CR : WF_vars(Observe(n, cr)) /\ SF_vars(Begin(n, cr))
    /\ \A cr \in CR : WF_vars(GraceExpires(cr))

Spec == Init /\ [][Next]_vars
FairSpec == Spec /\ Fairness
-----------------------------------------------------------------------------
(* Properties *)

\* The type invariant.
TypeOK ==
    /\ hist \in [CR -> Seq(Version)]
    /\ seen \in [Node -> [CR -> Nat]]
    /\ queue \in [Node -> SUBSET CR]
    /\ rec \in [Node -> Work]
    /\ host \in [Node -> [VGName -> CR \cup {NoVG, Foreign}]]
    /\ inUse \in [Node -> SUBSET VGName]
    /\ graceOver \in SUBSET CR
    /\ edits \in Nat
    /\ faults \in Nat

\* Our finalizer was dropped from cr in the step from version i to the next.
DroppedAt(cr, i) == /\ i \in 1 .. Len(hist[cr]) - 1
                    /\ hist[cr][i].finalizer
                    /\ ~hist[cr][i + 1].finalizer

\* The finalizer keeps its promise: when Reconcile has dropped it, the VG it
\* created under the name the resource had then is off every host, and no
\* reconcile that works on an older version of the object brings it back.
DroppedFinalizerMeansRemoved ==
    \A cr \in CR, n \in Node : \A i \in 1 .. Len(hist[cr]) :
        DroppedAt(cr, i) => host[n][getNameOnNode(cr, hist[cr][i])] # cr

\* What a deletion may leave behind: a VG of a resource that is gone was either made
\* for one that never got the finalizer, or has another name than the resource had
\* when Reconcile dropped the finalizer.
OrphansExplained ==
    \A cr \in CR, n \in Node, nm \in VGName : Gone(cr) /\ host[n][nm] = cr =>
        \/ \A i \in 1 .. Len(hist[cr]) : ~hist[cr][i].finalizer
        \/ \E i \in 1 .. Len(hist[cr]) :
               DroppedAt(cr, i) /\ getNameOnNode(cr, hist[cr][i]) # nm

\* Whoever sees the condition VolumeGroupSynced may rely on the finalizer:
\* deleting the resource from then on goes through VGRemove.
SyncedImpliesProtected ==
    \A cr \in CR : \A i \in 1 .. Len(hist[cr]) :
        hist[cr][i].cond.reason = "Synced" =>
            hist[cr][i].finalizer \/ hist[cr][i].deleting

\* Nothing Reconcile writes back undoes what a user did meanwhile: the spec of
\* an object changes only with its generation, and deletion is for good.
UserEditsSurvive ==
    \A cr \in CR : \A i \in 2 .. Len(hist[cr]) :
        LET old == hist[cr][i - 1]
            new == hist[cr][i]
        IN  /\ old.gen <= new.gen
            /\ old.nameOnNode # new.nameOnNode => old.gen < new.gen
            /\ old.deleting => new.deleting
            /\ new.others => old.others

Present(cr) == host[NodeName[cr]][getNameOnNode(cr, Latest(cr))] # NoVG

\* As long as no user renames a resource and nobody but the operator creates or
\* removes VGs, a live resource that is reported synced has its VG, whatever calls
\* fail, and however often its status is refreshed.
SyncedMeansPresent ==
    edits = 0 =>
        \A cr \in CR :
            Live(cr) /\ Latest(cr).cond.reason = "Synced" => Present(cr)

\* As long as no user renames a resource and nobody but the operator creates or
\* removes VGs, sync is never called with the nil lvm pointer that initializeVG
\* leaves behind: on an object that has the finalizer VG() finds the VG, whatever
\* calls failed before it was added and however old the object is by then.
SyncGetsVG == edits = 0 => \A n \in Node : rec[n].pc = "sync" => rec[n].found

\* The reconciler, and not an administrator, removes the VG nm of n.
RemovedByReconcile(n, nm) ==
    host[n][nm] # NoVG /\ host'[n][nm] = NoVG /\ rec'[n] # rec[n]

\* Reconcile destroys logical volumes only with the resource deleted and its
\* grace period over, even when it reads the resource from a stale cache.
ForceOnlyAfterGrace ==
    [][\A n \in Node, nm \in VGName :
         RemovedByReconcile(n, nm) /\ nm \in inUse[n] =>
             /\ Latest(rec[n].cr).deleting
             /\ rec[n].cr \in graceOver]_vars

\* With names that are unique on the node, as the API demands, Reconcile removes
\* a VG it created only for the resource it created it for, and only when that
\* resource is being deleted.
OnlyDeletedRemoved ==
    [][\A n \in Node, nm \in VGName, cr \in CR :
         RemovedByReconcile(n, nm) /\ host[n][nm] = cr =>
             rec[n].cr = cr /\ Latest(cr).deleting]_vars

\* A deleted resource goes away when the other finalizers are gone, through
\* failed removals, conflicts, lost replies, crashes and panics.
DeletionCompletes ==
    \A cr \in CR :
        Deleted(cr) /\ ~Latest(cr).others ~> Gone(cr)

\* The condition tells of the current generation of a live resource in the end.
Reported(cr) == Live(cr) /\ Latest(cr).cond = SetSyncedOnHostCreationOK(Latest(cr).gen)
EventuallySynced ==
    \A cr \in CR : Live(cr) ~> Deleted(cr) \/ Reported(cr)

\* With a sync interval, a VG that disappears from the host of a live resource
\* is created again, without any event from the API server.
HostLossRepaired ==
    \A cr \in CR : Live(cr) ~> Deleted(cr) \/ (Live(cr) /\ Present(cr))
-----------------------------------------------------------------------------
(* Why the safety properties hold: an inductive invariant *)

Busy(n) == rec[n].pc \notin {"idle", "down", "panicked"}

\* A cache lags behind, and what is in work was read from it, for this node.
CacheBehind == \A n \in Node, cr \in CR : seen[n][cr] <= Len(hist[cr])
WorkRead ==
    \A n \in Node : Busy(n) =>
        /\ rec[n].cr \in CR
        /\ NodeName[rec[n].cr] = n
        /\ rec[n].ver \in 1 .. seen[n][rec[n].cr]

\* Deletion is for good.
DeletionSticks ==
    \A cr \in CR : \A i, j \in 1 .. Len(hist[cr]) :
        i <= j /\ hist[cr][i].deleting => hist[cr][j].deleting

\* Which branch of Reconcile is in work depends on the version that was read,
\* and at the finalizer the VG of the name in hand is not one of ours.
BranchOfVersion ==
    \A n \in Node : Busy(n) =>
        /\ Obj(n).deleting <=> rec[n].pc \in {"remove", "unfinalize"}
        /\ rec[n].pc = "unfinalize" => host[n][Name(n)] # rec[n].cr
        /\ rec[n].pc = "sync" => Obj(n).finalizer
        /\ rec[n].cond.reason = "Synced" => Obj(n).finalizer \/ Obj(n).deleting

\* Only the node of a resource creates VGs for it.
CreatedAtHome ==
    \A n \in Node, nm \in VGName : host[n][nm] \in CR => NodeName[host[n][nm]] = n

\* The node of a resource has seen all versions up to the one it dropped its
\* finalizer from, and works on none that is older.
DropsAreSeen ==
    \A cr \in CR : \A i \in 1 .. Len(hist[cr]) : DroppedAt(cr, i) =>
        /\ hist[cr][i].deleting
        /\ i <= seen[NodeName[cr]][cr]
        /\ \A n \in Node : Busy(n) /\ rec[n].cr = cr => i <= rec[n].ver

\* A version is there as long as it is not deleted or a finalizer holds it.
ExistsWhileHeld ==
    \A cr \in CR : \A i \in 1 .. Len(hist[cr]) :
        LET o == hist[cr][i] IN o.exists <=> o.finalizer \/ o.others \/ ~o.deleting

\* The finalizer is taken only off an object that has it, force is used only when
\* the grace period is over, and the condition in hand is the one that was read
\* or tells of the generation that was read.
WorkKnows ==
    \A n \in Node : Busy(n) =>
        /\ rec[n].pc = "unfinalize" => Obj(n).finalizer
        /\ rec[n].force => rec[n].cr \in graceOver
        /\ rec[n].cond \in {Obj(n).cond,
                            SetSyncedOnHostDefault(Obj(n).gen),
                            SetSyncedOnHostCreationFailed(Obj(n).gen),
                            SetSyncedOnHostCreationOK(Obj(n).gen)}

\* A resource has the names its user gives it, and so have the VGs made for it.
NamesOf(cr) == {IF nm = Unset THEN cr ELSE nm : nm \in NameOnNode[cr]}
NamesGiven ==
    /\ \A cr \in CR : \A i \in 1 .. Len(hist[cr]) : hist[cr][i].nameOnNode \in NameOnNode[cr]
    /\ \A n \in Node, nm \in VGName : host[n][nm] \in CR => nm \in NamesOf(host[n][nm])

IInv == /\ TypeOK
        /\ CacheBehind
        /\ WorkRead
        /\ DeletionSticks
        /\ BranchOfVersion
        /\ CreatedAtHome
        /\ DropsAreSeen
        /\ DroppedFinalizerMeansRemoved
        /\ SyncedImpliesProtected
        /\ ExistsWhileHeld
        /\ WorkKnows
        /\ NamesGiven

\* No two resources of a node may have the same VG name.
UniqueNames ==
    \A c, d \in CR : c # d /\ NodeName[c] = NodeName[d] => NamesOf(c) \cap NamesOf(d) = {}

\* With unique names, and as long as no user renames a resource and nobody but the
\* operator creates or removes VGs: a VG that a reconcile of its resource has found,
\* or that any version or reconcile of it says is synced, is there until the resource
\* is deleted.
FoundStays ==
    edits = 0 =>
        /\ \A cr \in CR : \A i, j \in 1 .. Len(hist[cr]) :
              hist[cr][i].nameOnNode = hist[cr][j].nameOnNode
        /\ \A cr \in CR : \A i \in 1 .. Len(hist[cr]) :
              ~Latest(cr).deleting /\ hist[cr][i].cond.reason = "Synced" => Present(cr)
        /\ \A n \in Node :
              /\ Busy(n)
              /\ ~Latest(rec[n].cr).deleting
              /\ rec[n].found \/ rec[n].cond.reason = "Synced"
              => Present(rec[n].cr)

\* With unique names, and as long as no user renames a resource and nobody but the
\* operator creates or removes VGs: a resource that has carried the finalizer has its
\* VG until its node sees the deletion, and a reconcile that found the VG, made it or
\* works on a version with the finalizer has it until it returns.
DeletionSeen(cr) == LET v == seen[NodeName[cr]][cr] IN v > 0 /\ hist[cr][v].deleting
HeldHasVG ==
    edits = 0 =>
        /\ \A cr \in CR : \A i \in 1 .. Len(hist[cr]) :
              hist[cr][i].finalizer /\ ~DeletionSeen(cr) => Present(cr)
        /\ \A n \in Node :
              /\ Busy(n)
              /\ ~Obj(n).deleting
              /\ rec[n].pc = "finalize" \/ rec[n].found \/ Obj(n).finalizer
              => host[n][Name(n)] # NoVG
-----------------------------------------------------------------------------
(* What the documentation says, and the code does not do *)

\* README.md: deleting the resource deletes the VG on the node. Once every node
\* knows that a resource is gone and has nothing left to do for it, no VG that
\* was created for it remains.
Settled(n, cr) == /\ rec[n].pc = "idle"
                  /\ cr \notin queue[n]
                  /\ seen[n][cr] = Len(hist[cr])
NoOrphan ==
    \A cr \in CR :
        Gone(cr) /\ (\A n \in Node : Settled(n, cr)) =>
            \A n \in Node, nm \in VGName : host[n][nm] # cr

\* volumegroup_types.go, NameOnNode: when changed, the VG is renamed on the node.
\* A resource therefore has at most one VG.
OneVGPerResource ==
    \A cr \in CR, n \in Node : Cardinality({nm \in VGName : host[n][nm] = cr}) <= 1

\* main.go, --volume-group-sync-interval: the controller syncs volume groups
\* periodically, picking up changes made on the host. It does not die of them.
NoPanic == \A n \in Node : rec[n].pc # "panicked"

\* volumegroup_controller.go: with the finalizer dropped the VG has been removed,
\* and the reconciler waits for the other finalizers. It touches no VG any more.
OnlyWaitsAfterFinalizerDropped ==
    [][\A n \in Node :
         rec[n].cr \in CR /\ (\E i \in 1 .. Len(hist[rec[n].cr]) : DroppedAt(rec[n].cr, i)) =>
             \A nm \in VGName : ~RemovedByReconcile(n, nm)]_vars
=============================================================================
