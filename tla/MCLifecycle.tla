---------------------------- MODULE MCLifecycle ----------------------------
(* Small instances of Lifecycle. *)
EXTENDS LifecycleRefinement, TLC

CONSTANTS u1, u2, n1, data

\* One resource that its user may rename.
OneNodeName   == u1 :> n1
OneNameOnNode == u1 :> {Unset, data}

\* The same with the name left unset.
OneFixedName == u1 :> {Unset}

\* Two resources, both on one node and one like the other.
TwoNodeName   == u1 :> n1 @@ u2 :> n1
TwoNameOnNode == u1 :> {Unset} @@ u2 :> {Unset}
TwoAlike      == Permutations(CR)
=============================================================================
