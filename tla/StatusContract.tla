--------------------------- MODULE StatusContract ---------------------------
(***************************************************************************)
(* What whoever reads the condition of a resource may rely on: each write  *)
(* of the status speaks of the generation that is stored at that moment,   *)
(* and each change of the spec leaves the condition alone. A condition of  *)
(* the current generation was therefore made from the current spec.        *)
(*                                                                         *)
(* Lifecycle and Sync cut a reconcile differently, the one at what it does *)
(* to the object, the other at what it does to the VG. This is what they   *)
(* have in common; each implements it.                                     *)
(***************************************************************************)
EXTENDS Naturals

CONSTANT Resource

VARIABLES
    gen,    \* metadata.generation of each, 0 before it is created
    cond    \* its condition VolumeGroupSyncedOnNode: reason and generation

vars == <<gen, cond>>

Reason == {"Pending", "Failed", "Synced"}

Init ==
    /\ gen \in [Resource -> {0, 1}]
    /\ cond = [r \in Resource |-> [reason |-> "None", gen |-> 0]]

ChangeSpec(r) ==
    /\ gen' = [gen EXCEPT ![r] = @ + 1]
    /\ UNCHANGED cond

WriteStatus(r) ==
    /\ \E reason \in Reason :
          cond' = [cond EXCEPT ![r] = [reason |-> reason, gen |-> gen[r]]]
    /\ UNCHANGED gen

Next == \E r \in Resource : ChangeSpec(r) \/ WriteStatus(r)

Spec == Init /\ [][Next]_vars
=============================================================================
