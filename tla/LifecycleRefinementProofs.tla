--------------------- MODULE LifecycleRefinementProofs ---------------------
(***************************************************************************)
(* Lifecycle implements StatusContract and VolumeGroupPromise, for any     *)
(* resources, nodes, names and bounds.                                     *)
(***************************************************************************)
EXTENDS LifecycleRefinement, LifecycleStepProofs

USE NodeNameAssumption, NameAssumption, ValueAssumption, BoundAssumption

\* What a write does to the generations and conditions that are stored.
LEMMA StoreAbstract ==
    ASSUME Base, NEW cr \in CR, NEW o \in Version, Store(cr, o)
    PROVE  /\ Generations' = [Generations EXCEPT ![cr] = o.gen]
           /\ Conditions' = [Conditions EXCEPT ![cr] = o.cond]
<1>1. /\ hist'[cr] # <<>> /\ Latest(cr)' = Stored(o)
      /\ \A c \in CR : c # cr => hist'[c] = hist[c] /\ Latest(c)' = Latest(c)
    BY LatestAfter
<1>2. Stored(o).gen = o.gen /\ Stored(o).cond = o.cond
    BY StoredType
<1> QED BY <1>1, <1>2 DEF Generations, Conditions

\* Every step is one that the contract of the condition allows, or a stutter.
LEMMA ContractStep == IInv /\ [Next]_vars => [C!Next]_(C!vars)
<1> SUFFICES ASSUME IInv, [Next]_vars PROVE [C!Next]_(C!vars)
    OBVIOUS
<1>0. Base /\ Safe /\ Known
    BY Parts
<1>1. CASE hist' = hist
    BY <1>1 DEF C!vars, Generations, Conditions, Latest
<1>2. ASSUME NEW cr \in CR, NEW o \in Version, StoreStep(cr, o)
      PROVE  [C!Next]_(C!vars)
    <2>1. /\ Generations' = [Generations EXCEPT ![cr] = o.gen]
          /\ Conditions' = [Conditions EXCEPT ![cr] = o.cond]
        BY <1>0, <1>2, StoreAbstract DEF StoreStep
    <2>2. CASE o.gen = Generations[cr] + 1 /\ o.cond = Conditions[cr]
        <3>1. Conditions' = Conditions
            BY <2>1, <2>2 DEF Conditions
        <3>2. C!ChangeSpec(cr)
            BY <2>1, <2>2, <3>1 DEF C!ChangeSpec
        <3> QED BY <3>2 DEF C!Next
    <2>3. CASE o.gen = Generations[cr] /\ o.cond = Conditions[cr]
        <3>1. Generations' = Generations
            BY <2>1, <2>3 DEF Generations
        <3>2. Conditions' = Conditions
            BY <2>1, <2>3 DEF Conditions
        <3> QED BY <3>1, <3>2 DEF C!vars
    <2>4. CASE /\ o.gen = Generations[cr]
               /\ \E reason \in C!Reason : o.cond = [reason |-> reason, gen |-> Generations[cr]]
        <3>1. Generations' = Generations
            BY <2>1, <2>4 DEF Generations
        <3>2. C!WriteStatus(cr)
            BY <2>1, <2>4, <3>1 DEF C!WriteStatus
        <3> QED BY <3>2 DEF C!Next
    <2>5. CASE Creates(cr, o)
        <3>1. Generations[cr] = 0 /\ Conditions[cr] = NoCondition
            BY <2>5 DEF Creates, Generations, Conditions
        <3>2. o.gen = 1 /\ o.cond = NoCondition
            BY <2>5 DEF Creates, Is
        <3> QED BY <2>2, <3>1, <3>2
    <2>6. CASE Exists(cr) /\ (Edits(cr, o) \/ Writes(cr, o))
        <3>1. Generations[cr] = Latest(cr).gen /\ Conditions[cr] = Latest(cr).cond
            BY <2>6 DEF Exists, Generations, Conditions
        <3>2. CASE Renames(cr, o) \/ Deletes(cr, o)
            BY <2>2, <3>1, <3>2 DEF Renames, Deletes, Is
        <3>3. CASE Frees(cr, o) \/ Drops(cr, o) \/ Adds(cr, o)
            BY <2>3, <3>1, <3>3 DEF Frees, Drops, Adds, Is
        <3>4. CASE Tells(cr, o)
            <4>1. /\ o.gen = Latest(cr).gen
                  /\ o.cond \in {Latest(cr).cond,
                                 SetSyncedOnHostDefault(Latest(cr).gen),
                                 SetSyncedOnHostCreationFailed(Latest(cr).gen),
                                 SetSyncedOnHostCreationOK(Latest(cr).gen)}
                BY <3>4 DEF Tells, Is
            <4> QED BY <2>3, <2>4, <3>1, <4>1
                    DEF SetSyncedOnHostDefault, SetSyncedOnHostCreationFailed,
                        SetSyncedOnHostCreationOK, C!Reason
        <3> QED BY <2>6, <3>2, <3>3, <3>4 DEF Edits, Writes
    <2> QED BY <1>2, <2>5, <2>6 DEF StoreStep
<1> QED BY <1>0, <1>1, <1>2, StepKinds

\* The status a reconcile writes speaks of the generation that is stored at that
\* moment, and nothing else changes the condition: Lifecycle implements the contract.
THEOREM ContractKept == Spec => StatusContractKept
<1>1. Init => C!Init
    BY DEF Init, C!Init, Generations, Conditions, NoCondition
<1>2. IInv /\ [Next]_vars => [C!Next]_(C!vars)
    BY ContractStep
<1> QED BY <1>1, <1>2, Invariance, PTL DEF Spec, StatusContractKept, C!Spec
-----------------------------------------------------------------------------
(* The promise of the finalizer *)

\* The phase of a resource, read off its latest version.
PhaseIn(o) == IF ~o.exists THEN "gone" ELSE IF o.deleting THEN "deleting" ELSE "live"
LEMMA PhaseIs ==
    ASSUME NEW cr \in CR
    PROVE  /\ hist[cr] = <<>> => Phases[cr] = "absent"
           /\ hist[cr] # <<>> => Phases[cr] = PhaseIn(Latest(cr))
<1>1. Phases[cr] = PhaseOf(cr)
    BY DEF Phases
<1>2. CASE hist[cr] = <<>>
    BY <1>1, <1>2 DEF PhaseOf, Live, Gone, Exists
<1>3. CASE hist[cr] # <<>> /\ Latest(cr).exists /\ ~Latest(cr).deleting
    BY <1>1, <1>3 DEF PhaseOf, Live, Gone, Exists, PhaseIn
<1>4. CASE hist[cr] # <<>> /\ ~Latest(cr).exists
    BY <1>1, <1>4 DEF PhaseOf, Live, Gone, Exists, PhaseIn
<1>5. CASE hist[cr] # <<>> /\ Latest(cr).exists /\ Latest(cr).deleting
    BY <1>1, <1>5 DEF PhaseOf, Live, Gone, Exists, PhaseIn
<1> QED BY <1>2, <1>3, <1>4, <1>5

\* What a write does to the state that the promise speaks of.
LEMMA StorePromise ==
    ASSUME Base, NEW cr \in CR, NEW o \in Version, Store(cr, o), host' = host
    PROVE  /\ Phases' = [Phases EXCEPT ![cr] = PhaseIn(Stored(o))]
           /\ Places' = [Places EXCEPT ![cr] = <<NodeName[cr], getNameOnNode(cr, o)>>]
           /\ HeldNow' = (HeldNow \ {cr}) \cup {c \in {cr} : o.finalizer}
           /\ AnnouncedNow' = (AnnouncedNow \ {cr}) \cup {c \in {cr} : o.cond.reason = "Synced"}
           /\ EverReleased' = EverReleased \cup
                  {c \in {cr} : hist[cr] # <<>> /\ Latest(cr).finalizer /\ ~o.finalizer}
           /\ Owned' = Owned
<1>1. /\ hist'[cr] # <<>> /\ Latest(cr)' = Stored(o)
      /\ \A c \in CR : c # cr => hist'[c] = hist[c] /\ Latest(c)' = Latest(c)
    BY LatestAfter
<1>2. /\ Stored(o) \in Version
      /\ Stored(o).nameOnNode = o.nameOnNode
      /\ Stored(o).finalizer = o.finalizer
      /\ Stored(o).cond = o.cond
    BY StoredType
<1>3. Phases' = [Phases EXCEPT ![cr] = PhaseIn(Stored(o))]
    <2>1. Phases'[cr] = PhaseIn(Stored(o))
        <3>1. ~(hist'[cr] = <<>>) /\ Phases'[cr] = PhaseOf(cr)'
            BY <1>1 DEF Phases
        <3>2. CASE Stored(o).exists /\ ~Stored(o).deleting
            BY <1>1, <3>1, <3>2 DEF PhaseOf, Live, Gone, Exists, PhaseIn
        <3>3. CASE ~Stored(o).exists
            BY <1>1, <3>1, <3>3 DEF PhaseOf, Live, Gone, Exists, PhaseIn
        <3>4. CASE Stored(o).exists /\ Stored(o).deleting
            BY <1>1, <3>1, <3>4 DEF PhaseOf, Live, Gone, Exists, PhaseIn
        <3> QED BY <3>2, <3>3, <3>4
    <2>2. ASSUME NEW c \in CR, c # cr
          PROVE  Phases'[c] = Phases[c]
        <3>1. hist'[c] = hist[c] /\ Latest(c)' = Latest(c)
            BY <1>1, <2>2
        <3> QED BY <3>1 DEF Phases, PhaseOf, Live, Gone, Exists
    <2> QED BY <2>1, <2>2 DEF Phases
<1>4. Places' = [Places EXCEPT ![cr] = <<NodeName[cr], getNameOnNode(cr, o)>>]
    <2>1. PlaceOf(cr)' = <<NodeName[cr], getNameOnNode(cr, o)>>
        BY <1>1, <1>2 DEF PlaceOf, getNameOnNode
    <2>2. \A c \in CR : c # cr => PlaceOf(c)' = PlaceOf(c)
        BY <1>1 DEF PlaceOf, getNameOnNode
    <2> QED BY <2>1, <2>2 DEF Places
<1>5. HeldNow' = (HeldNow \ {cr}) \cup {c \in {cr} : o.finalizer}
    BY <1>1, <1>2 DEF HeldNow
<1>6. AnnouncedNow' = (AnnouncedNow \ {cr}) \cup {c \in {cr} : o.cond.reason = "Synced"}
    BY <1>1, <1>2 DEF AnnouncedNow
<1>7. EverReleased' = EverReleased \cup
          {c \in {cr} : hist[cr] # <<>> /\ Latest(cr).finalizer /\ ~o.finalizer}
    <2>0. /\ Len(hist'[cr]) = Len(hist[cr]) + 1
          /\ hist'[cr][Len(hist[cr]) + 1] = Stored(o)
          /\ \A i \in 1 .. Len(hist[cr]) : hist'[cr][i] = hist[cr][i]
          /\ hist[cr] \in Seq(Version)
          /\ Len(hist[cr]) \in Nat
        BY StoreAppends DEF Base, TypeOK
    <2>1. \A c \in CR : c # cr => (c \in EverReleased' <=> c \in EverReleased)
        BY <1>1 DEF EverReleased, DroppedAt
    <2>2. ASSUME cr \in EverReleased
          PROVE  cr \in EverReleased'
        <3>1. PICK i \in 1 .. Len(hist[cr]) : DroppedAt(cr, i)
            BY <2>2 DEF EverReleased
        <3>2. /\ i \in 1 .. Len(hist[cr]) - 1 /\ i \in 1 .. Len(hist'[cr])
              /\ hist[cr][i].finalizer /\ ~hist[cr][i + 1].finalizer
            BY <2>0, <3>1 DEF DroppedAt
        <3>3. /\ i \in 1 .. Len(hist'[cr]) - 1
              /\ hist'[cr][i] = hist[cr][i] /\ hist'[cr][i + 1] = hist[cr][i + 1]
            BY <2>0, <3>2
        <3> QED BY <3>2, <3>3 DEF EverReleased, DroppedAt
    <2>3. ASSUME hist[cr] # <<>>, Latest(cr).finalizer, ~o.finalizer
          PROVE  cr \in EverReleased'
        <3> DEFINE i == Len(hist[cr])
        <3>1. i \in 1 .. Len(hist[cr])
            BY <2>0, <2>3
        <3>2. i \in 1 .. Len(hist'[cr]) - 1 /\ i \in 1 .. Len(hist'[cr])
            BY <2>0, <3>1
        <3>3. hist'[cr][i].finalizer /\ ~hist'[cr][i + 1].finalizer
            BY <1>2, <2>0, <2>3, <3>1 DEF Latest
        <3> QED BY <3>2, <3>3 DEF EverReleased, DroppedAt
    <2>4. ASSUME cr \in EverReleased', cr \notin EverReleased
          PROVE  hist[cr] # <<>> /\ Latest(cr).finalizer /\ ~o.finalizer
        <3>1. PICK i \in 1 .. Len(hist'[cr]) : DroppedAt(cr, i)'
            BY <2>4 DEF EverReleased
        <3>2. /\ i \in 1 .. Len(hist'[cr]) - 1
              /\ hist'[cr][i].finalizer /\ ~hist'[cr][i + 1].finalizer
            BY <3>1 DEF DroppedAt
        <3>3. i \in 1 .. Len(hist[cr]) /\ hist'[cr][i] = hist[cr][i]
            BY <2>0, <3>2
        <3>4. ~(i + 1 \in 1 .. Len(hist[cr]))
            <4> SUFFICES ASSUME i + 1 \in 1 .. Len(hist[cr]) PROVE FALSE
                OBVIOUS
            <4>1. i \in 1 .. Len(hist[cr]) - 1 /\ hist'[cr][i + 1] = hist[cr][i + 1]
                BY <2>0, <3>3
            <4> QED BY <2>4, <3>2, <3>3, <4>1 DEF EverReleased, DroppedAt
        <3>5. i = Len(hist[cr]) /\ hist[cr] # <<>>
            BY <2>0, <3>3, <3>4
        <3> QED BY <1>2, <2>0, <3>2, <3>3, <3>5 DEF Latest
    <2>5. EverReleased \subseteq CR /\ EverReleased' \subseteq CR
        BY DEF EverReleased
    <2> QED BY <2>1, <2>2, <2>3, <2>4, <2>5
<1>8. Owned' = Owned
    BY DEF Owned, OwnedBy
<1> QED BY <1>3, <1>4, <1>5, <1>6, <1>7, <1>8

\* The abstract state of a resource that has a version.
LEMMA PromiseNow ==
    ASSUME Base, Known, NEW cr \in CR, hist[cr] # <<>>
    PROVE  /\ Phases[cr] = PhaseIn(Latest(cr))
           /\ Places[cr] = <<NodeName[cr], getNameOnNode(cr, Latest(cr))>>
           /\ cr \in HeldNow <=> Latest(cr).finalizer
           /\ cr \in AnnouncedNow <=> Latest(cr).cond.reason = "Synced"
<1>1. Phases[cr] = PhaseIn(Latest(cr))
    BY PhaseIs
<1> QED BY <1>1 DEF Places, PlaceOf, HeldNow, AnnouncedNow

\* A write that leaves a part of the latest version as it is leaves what the promise
\* reads off that part.
LEMMA WriteLeaves ==
    ASSUME Base, Known, NEW cr \in CR, NEW o \in Version, Store(cr, o), host' = host,
           hist[cr] # <<>>
    PROVE  /\ PhaseIn(Stored(o)) = Phases[cr] => Phases' = Phases
           /\ o.nameOnNode = Latest(cr).nameOnNode => Places' = Places
           /\ o.finalizer = Latest(cr).finalizer =>
                  HeldNow' = HeldNow /\ EverReleased' = EverReleased
           /\ o.finalizer => EverReleased' = EverReleased
           /\ o.cond.reason = Latest(cr).cond.reason => AnnouncedNow' = AnnouncedNow
           /\ Owned' = Owned
<1>1. /\ Phases' = [Phases EXCEPT ![cr] = PhaseIn(Stored(o))]
      /\ Places' = [Places EXCEPT ![cr] = <<NodeName[cr], getNameOnNode(cr, o)>>]
      /\ HeldNow' = (HeldNow \ {cr}) \cup {c \in {cr} : o.finalizer}
      /\ AnnouncedNow' = (AnnouncedNow \ {cr}) \cup {c \in {cr} : o.cond.reason = "Synced"}
      /\ EverReleased' = EverReleased \cup
             {c \in {cr} : hist[cr] # <<>> /\ Latest(cr).finalizer /\ ~o.finalizer}
      /\ Owned' = Owned
    BY StorePromise
<1>2. /\ Places[cr] = <<NodeName[cr], getNameOnNode(cr, Latest(cr))>>
      /\ cr \in HeldNow <=> Latest(cr).finalizer
      /\ cr \in AnnouncedNow <=> Latest(cr).cond.reason = "Synced"
    BY PromiseNow
<1>3. PhaseIn(Stored(o)) = Phases[cr] => Phases' = Phases
    BY <1>1 DEF Phases
<1>4. o.nameOnNode = Latest(cr).nameOnNode => Places' = Places
    <2>1. o.nameOnNode = Latest(cr).nameOnNode =>
              getNameOnNode(cr, o) = getNameOnNode(cr, Latest(cr))
        BY DEF getNameOnNode
    <2>2. Places = [c \in CR |-> Places[c]]
        BY DEF Places
    <2> QED BY <1>1, <1>2, <2>1, <2>2
<1>5. o.finalizer = Latest(cr).finalizer => HeldNow' = HeldNow /\ EverReleased' = EverReleased
    BY <1>1, <1>2
<1>6. o.finalizer => EverReleased' = EverReleased
    BY <1>1
<1>7. o.cond.reason = Latest(cr).cond.reason => AnnouncedNow' = AnnouncedNow
    BY <1>1, <1>2
<1> QED BY <1>1, <1>3, <1>4, <1>5, <1>6, <1>7

\* A write of a version is a step of the promise, or a stutter.
LEMMA PromiseStore ==
    ASSUME Base, Safe, Known, NEW cr \in CR, NEW o \in Version, StoreStep(cr, o)
    PROVE  [P!Next]_(P!vars)
<1>0. Store(cr, o) /\ host' = host
    BY DEF StoreStep
<1>1. /\ Phases' = [Phases EXCEPT ![cr] = PhaseIn(Stored(o))]
      /\ Places' = [Places EXCEPT ![cr] = <<NodeName[cr], getNameOnNode(cr, o)>>]
      /\ HeldNow' = (HeldNow \ {cr}) \cup {c \in {cr} : o.finalizer}
      /\ AnnouncedNow' = (AnnouncedNow \ {cr}) \cup {c \in {cr} : o.cond.reason = "Synced"}
      /\ EverReleased' = EverReleased \cup
             {c \in {cr} : hist[cr] # <<>> /\ Latest(cr).finalizer /\ ~o.finalizer}
      /\ Owned' = Owned
    BY <1>0, StorePromise
<1>2. /\ Stored(o).exists <=> o.finalizer \/ o.others \/ ~o.deleting
      /\ Stored(o).deleting = o.deleting
    BY StoredType
<1>3. <<NodeName[cr], getNameOnNode(cr, o)>> \in Homes[cr]
    <2>1. getNameOnNode(cr, o) \in VGName
        BY DEF getNameOnNode, Version
    <2> QED BY <2>1 DEF Homes
<1>4. CASE Creates(cr, o)
    <2>1. hist[cr] = <<>> /\ ~o.finalizer /\ ~o.deleting /\ o.cond = NoCondition
        BY <1>4 DEF Creates, Is
    <2>2. Phases[cr] = "absent" /\ PhaseIn(Stored(o)) = "live"
        BY <1>2, <2>1, PhaseIs DEF PhaseIn
    <2>3. HeldNow' = HeldNow /\ AnnouncedNow' = AnnouncedNow /\ EverReleased' = EverReleased
        BY <1>1, <2>1 DEF HeldNow, AnnouncedNow, NoCondition
    <2>4. P!Request(cr)
        BY <1>1, <1>3, <2>2, <2>3 DEF P!Request, P!Become
    <2> QED BY <2>4 DEF P!Next, P!User
<1>5. CASE Exists(cr) /\ (Edits(cr, o) \/ Writes(cr, o))
    <2> DEFINE p == Latest(cr)
    <2>0. hist[cr] # <<>> /\ p.exists /\ p \in Version
        BY <1>5, ExistingLatest DEF Exists
    <2>1. /\ Phases[cr] = IF p.deleting THEN "deleting" ELSE "live"
          /\ Places[cr] = <<NodeName[cr], getNameOnNode(cr, p)>>
          /\ cr \in HeldNow <=> p.finalizer
          /\ cr \in AnnouncedNow <=> p.cond.reason = "Synced"
        BY <2>0, PromiseNow DEF PhaseIn
    <2>2. /\ PhaseIn(Stored(o)) = Phases[cr] => Phases' = Phases
          /\ o.nameOnNode = p.nameOnNode => Places' = Places
          /\ o.finalizer = p.finalizer => HeldNow' = HeldNow /\ EverReleased' = EverReleased
          /\ o.finalizer => EverReleased' = EverReleased
          /\ o.cond.reason = p.cond.reason => AnnouncedNow' = AnnouncedNow
          /\ Owned' = Owned
        BY <1>0, <2>0, WriteLeaves
    <2>3. p.exists <=> p.finalizer \/ p.others \/ ~p.deleting
        <3>1. Len(hist[cr]) \in 1 .. Len(hist[cr])
            BY <2>0, LatestType DEF Base
        <3> QED BY <3>1 DEF Known, ExistsWhileHeld, Latest
    <2> HIDE DEF p
    <2>4. CASE Renames(cr, o)
        <3>1. /\ o.finalizer = p.finalizer /\ o.others = p.others
              /\ o.deleting = p.deleting /\ o.cond = p.cond
            BY <2>4 DEF Renames, Is, p
        <3>2. PhaseIn(Stored(o)) = Phases[cr]
            BY <1>2, <2>0, <2>1, <2>3, <3>1 DEF PhaseIn
        <3>3. P!Rename(cr)
            BY <1>1, <1>3, <2>1, <2>2, <3>1, <3>2 DEF P!Rename
        <3> QED BY <3>3 DEF P!Next, P!User
    <2>5. CASE Deletes(cr, o)
        <3>1. /\ o.nameOnNode = p.nameOnNode /\ o.finalizer = p.finalizer /\ o.others = p.others
              /\ ~p.deleting /\ o.deleting /\ o.cond = p.cond
            BY <2>5 DEF Deletes, Is, p
        <3>2. \/ PhaseIn(Stored(o)) = "deleting"
              \/ PhaseIn(Stored(o)) = "gone" /\ cr \notin HeldNow
            BY <1>2, <2>1, <3>1 DEF PhaseIn
        <3>3. P!Delete(cr)
            BY <1>1, <2>1, <2>2, <3>1, <3>2 DEF P!Delete, P!Become
        <3> QED BY <3>3 DEF P!Next, P!User
    <2>6. CASE Frees(cr, o)
        <3>1. /\ o.nameOnNode = p.nameOnNode /\ o.finalizer = p.finalizer /\ ~o.others
              /\ o.deleting = p.deleting /\ o.cond = p.cond
            BY <2>6 DEF Frees, Is, p
        <3>2. CASE p.finalizer \/ ~p.deleting
            <4>1. PhaseIn(Stored(o)) = Phases[cr]
                BY <1>2, <2>1, <3>1, <3>2 DEF PhaseIn
            <4> QED BY <2>2, <3>1, <4>1 DEF P!vars
        <3>3. CASE ~p.finalizer /\ p.deleting
            <4>1. PhaseIn(Stored(o)) = "gone"
                BY <1>2, <3>1, <3>3 DEF PhaseIn
            <4>2. P!Finish(cr)
                BY <1>1, <2>1, <2>2, <3>1, <3>3, <4>1 DEF P!Finish, P!Become
            <4> QED BY <4>2 DEF P!Next, P!Operator
        <3> QED BY <3>2, <3>3
    <2>7. CASE Drops(cr, o)
        <3>1. /\ o.nameOnNode = p.nameOnNode /\ ~o.finalizer /\ p.finalizer
              /\ o.deleting /\ p.deleting /\ o.cond = p.cond
              /\ host[NodeName[cr]][getNameOnNode(cr, p)] # cr
            BY <2>7 DEF Drops, Is, p
        <3>2. PhaseIn(Stored(o)) \in {"deleting", "gone"}
            BY <1>2, <3>1 DEF PhaseIn
        <3>3. HeldNow' = HeldNow \ {cr} /\ EverReleased' = EverReleased \cup {cr}
            BY <1>1, <2>0, <3>1 DEF p
        <3>4. Places[cr] \notin Owned[cr]
            BY <2>1, <3>1 DEF Owned, OwnedBy
        <3>5. P!Release(cr)
            BY <1>1, <2>1, <2>2, <3>1, <3>2, <3>3, <3>4 DEF P!Release, P!Become
        <3> QED BY <3>5 DEF P!Next, P!Operator
    <2>8. CASE Adds(cr, o)
        <3>1. /\ o.nameOnNode = p.nameOnNode /\ o.finalizer
              /\ ~o.deleting /\ ~p.deleting /\ o.cond = p.cond
            BY <2>8 DEF Adds, Is, p
        <3>2. PhaseIn(Stored(o)) = Phases[cr]
            BY <1>2, <2>1, <3>1 DEF PhaseIn
        <3>3. HeldNow' = HeldNow \cup {cr}
            BY <1>1, <3>1
        <3>4. P!Protect(cr)
            BY <2>1, <2>2, <3>1, <3>2, <3>3 DEF P!Protect
        <3> QED BY <3>4 DEF P!Next, P!Operator
    <2>9. CASE Tells(cr, o)
        <3>1. /\ o.nameOnNode = p.nameOnNode /\ o.finalizer = p.finalizer
              /\ ~o.deleting /\ ~p.deleting
              /\ o.cond.reason = "Synced" => p.finalizer
            BY <2>9 DEF Tells, Is, p
        <3>2. PhaseIn(Stored(o)) = Phases[cr]
            BY <1>2, <2>1, <3>1 DEF PhaseIn
        <3>3. CASE o.cond.reason = "Synced"
            <4>1. AnnouncedNow' = AnnouncedNow \cup {cr}
                BY <1>1, <3>3
            <4>2. P!Announce(cr)
                BY <2>1, <2>2, <3>1, <3>2, <3>3, <4>1 DEF P!Announce
            <4> QED BY <4>2 DEF P!Next, P!Operator
        <3>4. CASE o.cond.reason # "Synced"
            <4>1. AnnouncedNow' = AnnouncedNow \ {cr}
                BY <1>1, <3>4
            <4>2. P!Retract(cr)
                BY <2>1, <2>2, <3>1, <3>2, <4>1 DEF P!Retract
            <4> QED BY <4>2 DEF P!Next, P!Operator
        <3> QED BY <3>3, <3>4
    <2> QED BY <1>5, <2>4, <2>5, <2>6, <2>7, <2>8, <2>9 DEF Edits, Writes
<1> QED BY <1>4, <1>5 DEF StoreStep

\* The VG nm of n becomes v's, and nothing else changes on the hosts.
Becomes(n, nm, v) ==
    \A m \in Node, x \in VGName :
        host'[m][x] = IF m = n /\ x = nm THEN v ELSE host[m][x]

\* A change of one place of one host takes it from its owner and gives it to another.
LEMMA OwnedUpdate ==
    ASSUME NEW n \in Node, NEW nm \in VGName, NEW v, Becomes(n, nm, v)
    PROVE  Owned' = [cr \in CR |-> (Owned[cr] \ {<<n, nm>>}) \cup {p \in {<<n, nm>>} : v = cr}]
<1>1. ASSUME NEW p \in Node \X VGName
      PROVE  host'[p[1]][p[2]] = IF p = <<n, nm>> THEN v ELSE host[p[1]][p[2]]
    <2>1. p = <<p[1], p[2]>> /\ p[1] \in Node /\ p[2] \in VGName
        OBVIOUS
    <2> QED BY <2>1 DEF Becomes
<1>2. ASSUME NEW cr \in CR
      PROVE  OwnedBy(cr)' = (OwnedBy(cr) \ {<<n, nm>>}) \cup {p \in {<<n, nm>>} : v = cr}
    BY <1>1 DEF OwnedBy
<1>3. ASSUME NEW cr \in CR
      PROVE  Owned'[cr] = (Owned[cr] \ {<<n, nm>>}) \cup {p \in {<<n, nm>>} : v = cr}
    BY <1>2 DEF Owned
<1>4. Owned' = [cr \in CR |-> Owned'[cr]]
    BY DEF Owned
<1> QED BY <1>3, <1>4

\* With no version written, the promise sees the hosts only.
LEMMA PromiseUnwritten ==
    ASSUME hist' = hist
    PROVE  /\ Phases' = Phases /\ Places' = Places
           /\ HeldNow' = HeldNow /\ AnnouncedNow' = AnnouncedNow
           /\ EverReleased' = EverReleased
<1>1. Phases' = Phases
    BY DEF Phases, PhaseOf, Live, Gone, Exists, Latest
<1>2. Places' = Places
    BY DEF Places, PlaceOf, Latest
<1> QED BY <1>1, <1>2 DEF HeldNow, AnnouncedNow, EverReleased, DroppedAt, Latest

\* A change on a host is a step of the promise, or a stutter: what others do to
\* the VGs of others is none of its business.
LEMMA PromiseHost ==
    ASSUME Base, Safe, Known, hist' = hist,
           \/ \E n \in Node, nm \in VGName : Withdraws(n, nm) \/ Intrudes(n, nm)
           \/ \E n \in Node : Provides(n)
    PROVE  [P!Next]_(P!vars)
<1>0. /\ TypeOK
      /\ Phases' = Phases /\ Places' = Places
      /\ HeldNow' = HeldNow /\ AnnouncedNow' = AnnouncedNow
      /\ EverReleased' = EverReleased
    BY PromiseUnwritten DEF Base
<1>1. Owned = [c \in CR |-> Owned[c]]
    BY DEF Owned
<1>2. ASSUME NEW n \in Node, NEW nm \in VGName, Withdraws(n, nm), host[n][nm] \in CR
      PROVE  [P!Next]_(P!vars)
    <2> DEFINE r == host[n][nm]
    <2>1. Becomes(n, nm, NoVG)
        BY <1>0, <1>2 DEF Withdraws, Becomes, TypeOK
    <2>2. Owned' = [c \in CR |->
                       (Owned[c] \ {<<n, nm>>}) \cup {p \in {<<n, nm>>} : NoVG = c}]
        BY <2>1, OwnedUpdate
    <2>3. \A c \in CR : <<n, nm>> \in Owned[c] <=> c = r
        BY DEF Owned, OwnedBy
    <2> HIDE DEF r
    <2>4. r \in CR
        BY <1>2 DEF r
    <2>5. Owned' = [Owned EXCEPT ![r] = @ \ {<<n, nm>>}]
        <3>1. \A c \in CR : Owned'[c] = IF c = r THEN Owned[c] \ {<<n, nm>>} ELSE Owned[c]
            BY <2>2, <2>3
        <3> QED BY <1>1, <2>2, <2>4, <3>1
    <2>6. P!Withdraw(r)
        BY <1>0, <2>3, <2>4, <2>5 DEF P!Withdraw
    <2> QED BY <2>4, <2>6 DEF P!Next, P!Operator
<1>3. ASSUME NEW n \in Node, NEW nm \in VGName, NEW v \in {NoVG, Foreign},
             host' = [host EXCEPT ![n][nm] = v], host[n][nm] \notin CR
      PROVE  [P!Next]_(P!vars)
    <2>1. Becomes(n, nm, v)
        BY <1>0, <1>3 DEF Becomes, TypeOK
    <2>2. Owned' = [c \in CR |-> (Owned[c] \ {<<n, nm>>}) \cup {p \in {<<n, nm>>} : v = c}]
        BY <2>1, OwnedUpdate
    <2>3. \A c \in CR : <<n, nm>> \notin Owned[c] /\ v # c
        BY <1>3 DEF Owned, OwnedBy
    <2>4. \A c \in CR : Owned'[c] = Owned[c]
        BY <2>2, <2>3
    <2>5. Owned' = Owned
        BY <1>1, <2>2, <2>4
    <2> QED BY <1>0, <2>5 DEF P!vars
<1>4. ASSUME NEW n \in Node, Provides(n)
      PROVE  [P!Next]_(P!vars)
    <2> DEFINE r == rec[n].cr
               nm == Name(n)
    <2>1. /\ Busy(n) /\ rec[n].pc = "create" /\ host[n][nm] = NoVG
          /\ host' = [host EXCEPT ![n][nm] = r]
        BY <1>4 DEF Provides
    <2>2. /\ r \in CR /\ NodeName[r] = n /\ nm \in VGName
          /\ rec[n].ver \in 1 .. Len(hist[r])
          /\ ~Obj(n).deleting
        BY <2>1, ObjType DEF Safe, BranchOfVersion
    <2>3. r \notin EverReleased
        BY <2>1, <2>2, NoLiveWorkAfterDrop DEF EverReleased
    <2>4. hist[r] # <<>>
        BY <2>2
    <2> HIDE DEF r, nm
    <2>5. Phases[r] # "absent"
        BY <2>2, <2>4, PhaseIs DEF PhaseIn
    <2>6. Becomes(n, nm, r)
        BY <1>0, <2>1, <2>2 DEF Becomes, TypeOK
    <2>7. Owned' = [c \in CR |-> (Owned[c] \ {<<n, nm>>}) \cup {p \in {<<n, nm>>} : r = c}]
        BY <2>2, <2>6, OwnedUpdate
    <2>8. \A c \in CR : <<n, nm>> \notin Owned[c]
        BY <2>1 DEF Owned, OwnedBy
    <2>9. Owned' = [Owned EXCEPT ![r] = @ \cup {<<n, nm>>}]
        <3>1. \A c \in CR : Owned'[c] = IF c = r THEN Owned[c] \cup {<<n, nm>>} ELSE Owned[c]
            BY <2>7, <2>8
        <3> QED BY <1>1, <2>2, <2>7, <3>1
    <2>10. <<n, nm>> \in Homes[r]
        BY <2>2 DEF Homes
    <2>11. P!Provide(r)
        BY <1>0, <2>3, <2>5, <2>9, <2>10 DEF P!Provide
    <2> QED BY <2>2, <2>11 DEF P!Next, P!Operator
<1>5. ASSUME NEW n \in Node, NEW nm \in VGName, Withdraws(n, nm) \/ Intrudes(n, nm)
      PROVE  [P!Next]_(P!vars)
    <2>1. CASE Withdraws(n, nm) /\ host[n][nm] \in CR
        BY <1>2, <2>1
    <2>2. CASE Withdraws(n, nm) /\ host[n][nm] \notin CR
        <3>1. host' = [host EXCEPT ![n][nm] = NoVG]
            BY <2>2 DEF Withdraws
        <3> QED BY <1>3, <2>2, <3>1
    <2>3. CASE Intrudes(n, nm)
        <3>1. host' = [host EXCEPT ![n][nm] = Foreign] /\ host[n][nm] \notin CR
            BY <2>3 DEF Intrudes
        <3> QED BY <1>3, <3>1
    <2> QED BY <1>5, <2>1, <2>2, <2>3
<1> QED BY <1>4, <1>5

\* Every step is one that the promise allows, or a stutter.
LEMMA PromiseStep == IInv /\ [Next]_vars => [P!Next]_(P!vars)
<1> SUFFICES ASSUME IInv, [Next]_vars PROVE [P!Next]_(P!vars)
    OBVIOUS
<1>0. Base /\ Safe /\ Known
    BY Parts
<1>1. ASSUME NEW cr \in CR, NEW o \in Version, StoreStep(cr, o)
      PROVE  [P!Next]_(P!vars)
    BY <1>0, <1>1, PromiseStore
<1>2. ASSUME hist' = hist,
             \/ \E n \in Node, nm \in VGName : Withdraws(n, nm) \/ Intrudes(n, nm)
             \/ \E n \in Node : Provides(n)
      PROVE  [P!Next]_(P!vars)
    BY <1>0, <1>2, PromiseHost
<1>3. ASSUME UNCHANGED <<hist, host>>
      PROVE  [P!Next]_(P!vars)
    BY <1>3, PromiseUnwritten DEF P!vars, Owned, OwnedBy
<1> QED BY <1>0, <1>1, <1>2, <1>3, StepKinds

\* The finalizer means what its users are promised, for any number of resources and
\* nodes, any names and any number of edits and faults: a resource is announced only
\* under the finalizer, it is released only deleted and with the VG of its name
\* removed, and nothing is made for it any more from then on.
THEOREM PromiseIsKept == Spec => PromiseKept
<1>1. Init => P!Init
    <2> SUFFICES ASSUME Init PROVE P!Init
        OBVIOUS
    <2>1. \A cr \in CR : hist[cr] = <<>> /\ Phases[cr] = "absent"
        BY PhaseIs DEF Init
    <2>2. Phases = [cr \in CR |-> "absent"]
        BY <2>1 DEF Phases
    <2>3. Places = [cr \in CR |-> P!Nowhere]
        BY <2>1 DEF Places, PlaceOf, P!Nowhere
    <2>4. HeldNow = {} /\ AnnouncedNow = {}
        BY <2>1 DEF HeldNow, AnnouncedNow
    <2>5. EverReleased = {}
        BY <2>1 DEF EverReleased
    <2>6. \A cr \in CR : OwnedBy(cr) = {}
        BY DEF Init, OwnedBy
    <2>7. Owned = [cr \in CR |-> {}]
        BY <2>6 DEF Owned
    <2> QED BY <2>2, <2>3, <2>4, <2>5, <2>7 DEF P!Init
<1>2. IInv /\ [Next]_vars => [P!Next]_(P!vars)
    BY PromiseStep
<1> QED BY <1>1, <1>2, Invariance, PTL DEF Spec, PromiseKept, P!Spec
=============================================================================
