------------------------ MODULE LifecycleRefinement ------------------------
(***************************************************************************)
(* Lifecycle implements VolumeGroupPromise and StatusContract: the         *)
(* refinement mappings. All of the abstract state is read off the versions *)
(* the API server stored and off the VGs on the hosts; caches, queues and  *)
(* reconciles have no part in it.                                          *)
(***************************************************************************)
EXTENDS Lifecycle

PhaseOf(cr) ==
    CASE hist[cr] = <<>> -> "absent"
      [] Live(cr)        -> "live"
      [] Gone(cr)        -> "gone"
      [] OTHER           -> "deleting"

PlaceOf(cr) == IF hist[cr] = <<>> THEN <<>>
               ELSE <<NodeName[cr], getNameOnNode(cr, Latest(cr))>>

HeldNow      == {cr \in CR : hist[cr] # <<>> /\ Latest(cr).finalizer}
AnnouncedNow == {cr \in CR : hist[cr] # <<>> /\ Latest(cr).cond.reason = "Synced"}
EverReleased == {cr \in CR : \E i \in 1 .. Len(hist[cr]) : DroppedAt(cr, i)}
OwnedBy(cr)  == {p \in Node \X VGName : host[p[1]][p[2]] = cr}

Homes  == [cr \in CR |-> {NodeName[cr]} \X VGName]
Phases == [cr \in CR |-> PhaseOf(cr)]
Places == [cr \in CR |-> PlaceOf(cr)]
Owned  == [cr \in CR |-> OwnedBy(cr)]

P == INSTANCE VolumeGroupPromise WITH
        Resource  <- CR,
        Home      <- Homes,
        phase     <- Phases,
        target    <- Places,
        held      <- HeldNow,
        released  <- EverReleased,
        announced <- AnnouncedNow,
        owned     <- Owned

\* Reconcile keeps the promise of VolumeGroupPromise: no failing or repeated call,
\* stale cache, lost reply, crash or second resource makes it announce a VG the
\* finalizer does not hold, release one that is on the host, or make one for a
\* resource it has released.
PromiseKept == P!Spec
-----------------------------------------------------------------------------
Generations == [cr \in CR |-> IF hist[cr] = <<>> THEN 0 ELSE Latest(cr).gen]
Conditions  == [cr \in CR |-> IF hist[cr] = <<>> THEN NoCondition ELSE Latest(cr).cond]

C == INSTANCE StatusContract WITH
        Resource <- CR,
        gen      <- Generations,
        cond     <- Conditions

\* A status that Reconcile computed from an old copy of the object, or that comes
\* after a write whose reply was lost, never replaces a later one, and no write of
\* the finalizer and no edit takes a condition back.
StatusContractKept == C!Spec
=============================================================================
