------------------------------- MODULE MCSync -------------------------------
(* Small instances of Sync. *)
EXTENDS Sync

CONSTANTS d1, d2, d3, t

\* Two PVs, and no more.
Base == [select |-> {d1, d2}, tags |-> {}, maxPV |-> 2, maxLV |-> Keep,
         alloc |-> Keep, auto |-> Keep, loss |-> "Fail", removal |-> "MoveAndReduce"]

\* Exchange one of them by moving and lift the limit at once; one LV, a tag, a policy.
Exchanged == [Base EXCEPT !.select = {d2, d3}, !.tags = {t}, !.alloc = "cling",
                          !.maxPV = 0, !.maxLV = 1, !.loss = "Remove"]

\* Exchange both for one by force, at the limit, and give lost devices up by force.
Forceful == [Base EXCEPT !.select = {d3}, !.loss = "ForceRemove", !.removal = "ForceReduce",
                         !.auto = FALSE]

\* Select more than the limit allows, with policies the code does not know: they act
\* like Remove, which gives up lost devices that nobody uses, and like Reduce.
Crowded == [Base EXCEPT !.select = {d1, d2, d3}, !.loss = "Other", !.removal = "Other"]

FourSpecs == {Base, Exchanged, Forceful, Crowded}
=============================================================================
