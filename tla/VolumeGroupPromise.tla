------------------------- MODULE VolumeGroupPromise -------------------------
(***************************************************************************)
(* What a VolumeGroup resource promises its user, whatever the caches, the *)
(* work queues, the failing calls and the crashes behind it do:            *)
(*                                                                         *)
(*   - a resource is announced as synced only while the finalizer holds    *)
(*     it, and from then on it goes away through Release alone;            *)
(*   - the finalizer is released only from a deleted resource, when the VG *)
(*     that was made for it at its place is off the host;                  *)
(*   - no VG is made for a resource that was released, ever.               *)
(*                                                                         *)
(* A resource the finalizer never held may go while a VG is made for it:   *)
(* nothing is promised before the finalizer is there. Lifecycle implements *)
(* this specification, see LifecycleRefinement.                            *)
(***************************************************************************)
CONSTANTS
    Resource,   \* the resources, by UID
    Home        \* the places of each resource: the VG names of its node

VARIABLES
    phase,      \* where each resource is in its life
    target,     \* the place its spec names
    held,       \* the resources our finalizer holds
    released,   \* the resources it was taken off again
    announced,  \* the resources whose condition says VolumeGroupSynced
    owned       \* the places where each resource has a VG that was made for it

vars == <<phase, target, held, released, announced, owned>>

Phase == {"absent", "live", "deleting", "gone"}

\* No resource, and so no place a spec could name.
Nowhere == <<>>
-----------------------------------------------------------------------------
Become(r, p) == phase' = [phase EXCEPT ![r] = p]

Request(r) ==
    /\ phase[r] = "absent"
    /\ Become(r, "live")
    /\ \E p \in Home[r] : target' = [target EXCEPT ![r] = p]
    /\ UNCHANGED <<held, released, announced, owned>>

Rename(r) ==
    /\ phase[r] \in {"live", "deleting"}
    /\ \E p \in Home[r] : target' = [target EXCEPT ![r] = p]
    /\ UNCHANGED <<phase, held, released, announced, owned>>

\* Without any finalizer a deleted resource is gone at once.
Delete(r) ==
    /\ phase[r] = "live"
    /\ \/ Become(r, "deleting")
       \/ r \notin held /\ Become(r, "gone")
    /\ UNCHANGED <<target, held, released, announced, owned>>

Protect(r) ==
    /\ phase[r] = "live"
    /\ held' = held \cup {r}
    /\ UNCHANGED <<phase, target, released, announced, owned>>

Announce(r) ==
    /\ phase[r] = "live"
    /\ r \in held
    /\ announced' = announced \cup {r}
    /\ UNCHANGED <<phase, target, held, released, owned>>

Retract(r) ==
    /\ phase[r] = "live"
    /\ announced' = announced \ {r}
    /\ UNCHANGED <<phase, target, held, released, owned>>

\* A VG comes into being for r, perhaps by a call that was under way when r went.
Provide(r) ==
    /\ phase[r] # "absent"
    /\ r \notin released
    /\ \E p \in Home[r] : owned' = [owned EXCEPT ![r] = @ \cup {p}]
    /\ UNCHANGED <<phase, target, held, released, announced>>

\* A VG of r is removed, by the operator or by somebody else.
Withdraw(r) ==
    /\ \E p \in owned[r] : owned' = [owned EXCEPT ![r] = @ \ {p}]
    /\ UNCHANGED <<phase, target, held, released, announced>>

Release(r) ==
    /\ phase[r] = "deleting"
    /\ r \in held
    /\ target[r] \notin owned[r]
    /\ held' = held \ {r}
    /\ released' = released \cup {r}
    /\ Become(r, "deleting") \/ Become(r, "gone")
    /\ UNCHANGED <<target, announced, owned>>

\* The finalizers of others are gone, too.
Finish(r) ==
    /\ phase[r] = "deleting"
    /\ r \notin held
    /\ Become(r, "gone")
    /\ UNCHANGED <<target, held, released, announced, owned>>
-----------------------------------------------------------------------------
Init ==
    /\ phase = [r \in Resource |-> "absent"]
    /\ target = [r \in Resource |-> Nowhere]
    /\ held = {}
    /\ released = {}
    /\ announced = {}
    /\ owned = [r \in Resource |-> {}]

User(r)     == Request(r) \/ Rename(r) \/ Delete(r)
Operator(r) == \/ Protect(r)  \/ Release(r) \/ Finish(r)
               \/ Announce(r) \/ Retract(r)
               \/ Provide(r)  \/ Withdraw(r)

Next == \E r \in Resource : User(r) \/ Operator(r)

Spec == Init /\ [][Next]_vars
=============================================================================
