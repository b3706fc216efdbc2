------------------------ MODULE LifecycleCauseProofs ------------------------
(***************************************************************************)
(* How far the two gaps of Reconcile reach that leave a VG behind and that *)
(* hand a nil pointer to sync. A VG is left behind only by a resource that *)
(* never got the finalizer or was renamed. The nil pointer needs someone   *)
(* else to have touched names or hosts: by itself Reconcile never adds the *)
(* finalizer without the VG, nor loses the VG before the finalizer.        *)
(***************************************************************************)
EXTENDS LifecycleStepProofs, WellFoundedInduction

USE NodeNameAssumption, NameAssumption, ValueAssumption, BoundAssumption
-----------------------------------------------------------------------------
(* What a deletion may leave behind *)

\* A set of natural numbers that is not empty has a least member.
LEMMA LeastNumber ==
    ASSUME NEW T \in SUBSET Nat, T # {}
    PROVE  \E k \in T : \A i \in T : k <= i
<1>1. PICK k \in T : \A i \in T : ~(<<i, k>> \in OpToRel(<, Nat))
    BY NatLessThanWellFounded, WFMin, ZenonT(30)
<1>2. ASSUME NEW i \in T, i < k
      PROVE  <<i, k>> \in OpToRel(<, Nat)
    BY <1>2 DEF OpToRel
<1>3. \A i \in T : ~(i < k)
    BY <1>1, <1>2, Zenon
<1> QED BY <1>3

\* A finalizer that a resource had and has no longer was dropped from a version.
LEMMA DropHappened ==
    ASSUME TypeOK, NEW cr \in CR, NEW i \in 1 .. Len(hist[cr]),
           hist[cr][i].finalizer, ~Latest(cr).finalizer
    PROVE  \E k \in 1 .. Len(hist[cr]) : DroppedAt(cr, k)
<1> DEFINE T == {k \in i + 1 .. Len(hist[cr]) : ~hist[cr][k].finalizer}
<1>1. Len(hist[cr]) \in Nat /\ i \in Nat /\ i >= 1 /\ i <= Len(hist[cr])
    BY HistType
<1>2. Len(hist[cr]) \in T
    BY <1>1 DEF Latest
<1>3. T \in SUBSET Nat
    BY <1>1
<1>4. PICK m \in T : \A k \in T : m <= k
    <2> HIDE DEF T
    <2> QED BY <1>2, <1>3, LeastNumber
<1>5. /\ m \in Nat /\ m > i /\ m <= Len(hist[cr])
      /\ ~hist[cr][m].finalizer
    BY <1>1
<1>6. hist[cr][m - 1].finalizer
    <2>1. CASE m = i + 1
        BY <1>1, <2>1
    <2>2. CASE m > i + 1
        <3>1. m - 1 \in i + 1 .. Len(hist[cr]) /\ ~(m <= m - 1)
            BY <1>1, <1>5, <2>2
        <3> QED BY <1>4, <3>1
    <2> QED BY <1>1, <1>5, <2>1, <2>2
<1>7. m - 1 \in 1 .. Len(hist[cr]) - 1 /\ m - 1 \in 1 .. Len(hist[cr]) /\ (m - 1) + 1 = m
    BY <1>1, <1>5
<1>8. DroppedAt(cr, m - 1)
    BY <1>5, <1>6, <1>7 DEF DroppedAt
<1> QED BY <1>7, <1>8

\* A VG that outlives its resource was made for one that never got the finalizer, or
\* has another name than the resource had when the finalizer was dropped: a creation
\* that is not yet protected and a rename are the only ways to leave a VG behind.
THEOREM OrphansHaveCause == Spec => []OrphansExplained
<1>1. ASSUME IInv
      PROVE  OrphansExplained
    <2> SUFFICES ASSUME NEW cr \in CR, NEW n \in Node, NEW nm \in VGName,
                        Gone(cr), host[n][nm] = cr,
                        NEW i \in 1 .. Len(hist[cr]), hist[cr][i].finalizer
                 PROVE  \E k \in 1 .. Len(hist[cr]) :
                           DroppedAt(cr, k) /\ getNameOnNode(cr, hist[cr][k]) # nm
        BY DEF OrphansExplained
    <2>1. TypeOK /\ ExistsWhileHeld /\ DroppedFinalizerMeansRemoved
        BY <1>1 DEF IInv
    <2>2. Len(hist[cr]) \in 1 .. Len(hist[cr]) /\ ~Latest(cr).exists
        BY <2>1, LatestType DEF Gone
    <2>3. ~Latest(cr).finalizer
        BY <2>1, <2>2 DEF ExistsWhileHeld, Latest
    <2>4. PICK k \in 1 .. Len(hist[cr]) : DroppedAt(cr, k)
        BY <2>1, <2>3, DropHappened
    <2>5. host[n][getNameOnNode(cr, hist[cr][k])] # cr
        BY <2>1, <2>4 DEF DroppedFinalizerMeansRemoved
    <2> QED BY <2>4, <2>5
<1> QED BY <1>1, Invariance, PTL
-----------------------------------------------------------------------------
(* Caches, histories and hosts from one state to the next *)

\* Caches do not forget, and versions are not rewritten.
LEMMA SeenGrows ==
    ASSUME IInv, [Next]_vars, NEW n \in Node, NEW cr \in CR
    PROVE  seen[n][cr] <= seen'[n][cr]
<1>0. seen \in [Node -> [CR -> Nat]] /\ seen[n][cr] \in Nat /\ seen[n][cr] <= Len(hist[cr])
    BY DEF IInv, TypeOK, CacheBehind
<1>1. ASSUME NEW m \in Node, NEW c \in CR, Observe(m, c)
      PROVE  seen[n][cr] <= seen'[n][cr]
    <2>1. PICK v \in seen[m][c] + 1 .. Len(hist[c]) : seen' = [seen EXCEPT ![m][c] = v]
        BY <1>1 DEF Observe
    <2>2. v \in Int /\ seen[m][c] <= v
        BY <1>0, <2>1, HistType DEF IInv
    <2> QED BY <1>0, <2>1, <2>2
<1>2. ASSUME NEW m \in Node, Restart(m)
      PROVE  seen[n][cr] <= seen'[n][cr]
    BY <1>0, <1>2 DEF Restart
<1>3. ASSUME seen' = seen
      PROVE  seen[n][cr] <= seen'[n][cr]
    BY <1>0, <1>3
<1>4. ASSUME User \/ Host
      PROVE  seen' = seen
    BY <1>4 DEF User, UserCreate, UserRename, UserDelete, DropOtherFinalizer, GraceExpires,
                Host, HostRemove, HostCreate, CreateLV
<1>5. ASSUME NEW m \in Node, NEW c \in CR, Begin(m, c)
      PROVE  seen' = seen
    BY <1>5 DEF Begin, ReconcileSkip, ReconcileBegin
<1>6. ASSUME NEW m \in Node, Proceed(m) \/ Crash(m)
      PROVE  seen' = seen
    BY <1>6 DEF Proceed, Remove, VGRemoveSucceeds, VGRemoveNotFound, VGRemoveFails,
                RemoveFinalizer, UpdateRejected, Maintain, VGDiscover, VGCreateSucceeds,
                ConvertFails, VGCreateFails, AddFinalizer, SyncSucceeds, SyncFails,
                SyncPanics, SelectorPanics, DeadlinePasses, StatusUpdate, Crash
<1>7. CASE UNCHANGED vars
    BY <1>3, <1>7 DEF vars
<1> QED BY <1>1, <1>2, <1>3, <1>4, <1>5, <1>6, <1>7 DEF Next

LEMMA VersionsStay ==
    ASSUME IInv, [Next]_vars, NEW cr \in CR, NEW i \in 1 .. Len(hist[cr])
    PROVE  i \in 1 .. Len(hist'[cr]) /\ hist'[cr][i] = hist[cr][i]
<1>0. Base /\ Safe /\ Known /\ TypeOK /\ Len(hist[cr]) \in Nat
    BY Parts, HistType DEF Base
<1>1. ASSUME NEW c \in CR, NEW o \in Version, StoreStep(c, o)
      PROVE  i \in 1 .. Len(hist'[cr]) /\ hist'[cr][i] = hist[cr][i]
    <2>1. Store(c, o) /\ hist \in [CR -> Seq(Version)]
        BY <1>0, <1>1 DEF StoreStep, TypeOK
    <2>2. /\ hist' \in [CR -> Seq(Version)]
          /\ Len(hist[cr]) <= Len(hist'[cr])
          /\ hist'[cr][i] = hist[cr][i]
        BY <2>1, StoreAppends
    <2>3. Len(hist'[cr]) \in Nat
        BY <2>2
    <2> QED BY <1>0, <2>2, <2>3
<1> QED BY <1>0, <1>1, StepKinds

\* What a node has seen of a deletion it goes on seeing.
LEMMA DeletionStaysSeen ==
    ASSUME IInv, IInv', [Next]_vars, NEW cr \in CR, DeletionSeen(cr)
    PROVE  DeletionSeen(cr)'
<1> DEFINE v == seen[NodeName[cr]][cr]
           w == seen'[NodeName[cr]][cr]
<1>1. v \in Nat /\ v > 0 /\ v <= Len(hist[cr]) /\ hist[cr][v].deleting
    BY DEF IInv, TypeOK, CacheBehind, DeletionSeen
<1>2. Len(hist[cr]) \in Nat /\ Len(hist'[cr]) \in Nat
    BY HistType DEF IInv, TypeOK
<1>3. w \in Nat /\ v <= w /\ w <= Len(hist'[cr])
    BY SeenGrows DEF IInv, TypeOK, CacheBehind
<1>4. v \in 1 .. Len(hist[cr]) /\ w \in 1 .. Len(hist'[cr]) /\ w > 0
    BY <1>1, <1>2, <1>3
<1>5. v \in 1 .. Len(hist'[cr]) /\ hist'[cr][v].deleting
    BY <1>1, <1>4, VersionsStay
<1>6. hist'[cr][w].deleting
    BY <1>3, <1>4, <1>5 DEF IInv, DeletionSticks
<1> QED BY <1>4, <1>6 DEF DeletionSeen

\* As long as nobody renames, creates or removes from outside, a node that is at work on
\* anything but a removal loses no VG: one worker takes one key after the other.
LEMMA BusyKeepsVGs ==
    ASSUME IInv, [Next]_vars, edits' = 0,
           NEW n \in Node, Busy(n), rec[n].pc # "remove",
           NEW nm \in VGName, host[n][nm] # NoVG
    PROVE  host'[n][nm] # NoVG
<1>0. Base /\ Safe /\ Known /\ TypeOK
    BY Parts DEF Base
<1>1. ASSUME NEW m \in Node, NEW x \in VGName, Withdraws(m, x)
      PROVE  host'[n][nm] # NoVG
    <2>1. m # n /\ host' = [host EXCEPT ![m][x] = NoVG]
        BY <1>1 DEF Withdraws
    <2> QED BY <1>0, <2>1, HostUpdate
<1>2. ASSUME NEW m \in Node, NEW x \in VGName, Intrudes(m, x)
      PROVE  host'[n][nm] # NoVG
    BY <1>0, <1>2, HostUpdate DEF Intrudes
<1>3. ASSUME NEW m \in Node, Provides(m)
      PROVE  host'[n][nm] # NoVG
    <2>1. rec[m].cr \in CR /\ Name(m) \in VGName
        BY <1>0, <1>3, ObjType DEF Provides
    <2> QED BY <1>0, <1>3, <2>1, HostUpdate DEF Provides
<1>4. host' = host => host'[n][nm] # NoVG
    OBVIOUS
<1> QED BY <1>0, <1>1, <1>2, <1>3, <1>4, StepKinds DEF StoreStep
-----------------------------------------------------------------------------
(* The finalizer and the VG come and go together *)

\* The next step of a reconcile of a live version, if it writes nothing to the API
\* server and does not return: it reports, finds no VG, finds one, or makes one.
Held(n) == IF Obj(n).finalizer THEN "sync" ELSE "finalize"
LEMMA LiveWork ==
    ASSUME IInv, NEW n \in Node, QuietStep(n), Busy(n)', ~Obj(n).deleting
    PROVE  \E w \in Work :
              /\ rec' = [rec EXCEPT ![n] = w]
              /\ w.cr = rec[n].cr
              /\ w.ver = rec[n].ver
              /\ \/ w.pc = "report" /\ w.found = rec[n].found
                 \/ w.pc = "create" /\ w.found = rec[n].found
                 \/ w.pc = Held(n) /\ w.found /\ host[n][Name(n)] # NoVG
                 \/ w.pc = Held(n) /\ ~w.found /\ Provides(n)
<1>0. Base /\ Safe /\ TypeOK /\ Busy(n)
    BY Parts, QuietEffect DEF Base
<1>1. rec[n].pc \notin {"remove", "unfinalize"}
    BY <1>0 DEF Safe, BranchOfVersion
<1>2. /\ rec[n] \in Work /\ Obj(n) \in Version
      /\ rec[n].found \in BOOLEAN /\ rec[n].failed \in BOOLEAN /\ rec[n].cond \in Condition
      /\ Obj(n).gen \in Nat
    BY <1>0, ObjType DEF TypeOK, Work, Version
<1>3. /\ SetSyncedOnHostDefault(Obj(n).gen) \in Condition
      /\ SetSyncedOnHostCreationFailed(Obj(n).gen) \in Condition
      /\ SetSyncedOnHostCreationOK(Obj(n).gen) \in Condition
    BY <1>2, ConditionType
<1>4. ASSUME NEW pc \in PC, NEW found \in BOOLEAN, NEW failed \in BOOLEAN,
             NEW cond \in Condition, Continue(n, pc, found, cond, failed)
      PROVE  \E w \in Work : /\ rec' = [rec EXCEPT ![n] = w]
                             /\ w.pc = pc /\ w.cr = rec[n].cr /\ w.ver = rec[n].ver
                             /\ w.found = found
    <2>1. PICK w \in Work : /\ rec' = [rec EXCEPT ![n] = w]
                            /\ w.pc = pc /\ w.cr = rec[n].cr /\ w.ver = rec[n].ver
                            /\ w.found = found
        BY <1>0, <1>4, StepWork
    <2> QED BY <2>1
<1>5. ASSUME NEW pc \in {"idle", "panicked"}, rec' = [rec EXCEPT ![n] = Rest(pc)]
      PROVE  FALSE
    BY <1>0, <1>5, RestType DEF TypeOK, Busy
<1>6. ASSUME NEW cond \in Condition, NEW failed \in BOOLEAN, Report(n, cond, failed)
      PROVE  \E w \in Work : /\ rec' = [rec EXCEPT ![n] = w]
                             /\ w.pc = "report" /\ w.cr = rec[n].cr /\ w.ver = rec[n].ver
                             /\ w.found = rec[n].found
    BY <1>2, <1>4, <1>6 DEF Report, PC
<1>7. CASE UpdateRejected(n) \/ DeadlinePasses(n) \/ SyncPanics(n) \/ SelectorPanics(n)
    BY <1>5, <1>7 DEF UpdateRejected, DeadlinePasses, SyncPanics, SelectorPanics, Return
<1>8. CASE ConvertFails(n)
    BY <1>2, <1>6, <1>8 DEF ConvertFails
<1>9. CASE VGCreateFails(n)
    BY <1>3, <1>6, <1>9 DEF VGCreateFails
<1>10. CASE SyncSucceeds(n)
    BY <1>3, <1>6, <1>10 DEF SyncSucceeds
<1>11. CASE SyncFails(n)
    BY <1>3, <1>6, <1>11 DEF SyncFails
<1>12. CASE VGDiscover(n)
    <2>1. CASE host[n][Name(n)] # NoVG /\ Discovered(n, TRUE)
        <3>1. Continue(n, Held(n), TRUE, rec[n].cond, FALSE) /\ Held(n) \in PC
            BY <2>1 DEF Discovered, Held, PC
        <3>2. PICK w \in Work : /\ rec' = [rec EXCEPT ![n] = w]
                                /\ w.pc = Held(n) /\ w.cr = rec[n].cr /\ w.ver = rec[n].ver
                                /\ w.found = TRUE
            BY <1>2, <1>4, <3>1
        <3> QED BY <2>1, <3>2
    <2>2. CASE Goto(n, "create")
        <3>1. Continue(n, "create", rec[n].found, rec[n].cond, rec[n].failed) /\ "create" \in PC
            BY <2>2 DEF Goto, PC
        <3> QED BY <1>2, <1>4, <3>1
    <2>3. CASE Report(n, rec[n].cond, TRUE)
        BY <1>2, <1>6, <2>3
    <2> QED BY <1>12, <2>1, <2>2, <2>3 DEF VGDiscover
<1>13. CASE VGCreateSucceeds(n)
    <2>1. Continue(n, Held(n), FALSE, rec[n].cond, FALSE) /\ Held(n) \in PC
        BY <1>13 DEF VGCreateSucceeds, Discovered, Held, PC
    <2>2. Provides(n)
        BY <1>0, <1>13 DEF VGCreateSucceeds, Provides
    <2>3. PICK w \in Work : /\ rec' = [rec EXCEPT ![n] = w]
                            /\ w.pc = Held(n) /\ w.cr = rec[n].cr /\ w.ver = rec[n].ver
                            /\ w.found = FALSE
        BY <1>2, <1>4, <2>1
    <2> QED BY <2>2, <2>3
<1>14. ~(VGRemoveSucceeds(n) \/ VGRemoveNotFound(n) \/ VGRemoveFails(n))
    BY <1>1 DEF VGRemoveSucceeds, VGRemoveNotFound, VGRemoveFails
<1> QED BY <1>7, <1>8, <1>9, <1>10, <1>11, <1>12, <1>13, <1>14 DEF QuietStep

\* New work: a reconcile begins, or a step of it that writes nothing goes on.
LEMMA WorkBegins ==
    ASSUME IInv, [Next]_vars, NEW n \in Node, Busy(n)', rec'[n] # rec[n]
    PROVE  \/ QuietStep(n)
           \/ /\ rec'[n].cr \in CR
              /\ rec'[n].pc \in {"remove", "discover"}
              /\ ~rec'[n].found
              /\ rec'[n].ver = seen[n][rec'[n].cr]
              /\ UNCHANGED <<hist, seen, host>>
<1>0. TypeOK /\ Base
    BY DEF IInv, Base
<1>1. ASSUME NEW m \in Node, NEW pc \in {"idle", "down", "panicked"},
             rec' = [rec EXCEPT ![m] = Rest(pc)]
      PROVE  FALSE
    BY <1>0, <1>1, RestType DEF TypeOK, Busy
<1>2. ASSUME User \/ Host
      PROVE  FALSE
    BY <1>2 DEF User, UserCreate, UserRename, UserDelete, DropOtherFinalizer, GraceExpires,
                Host, HostRemove, HostCreate, CreateLV
<1>3. ASSUME NEW m \in Node, NEW cr \in CR, Observe(m, cr) \/ ReconcileSkip(m, cr)
      PROVE  FALSE
    BY <1>3 DEF Observe, ReconcileSkip
<1>4. ASSUME NEW m \in Node, NEW cr \in CR, ReconcileBegin(m, cr)
      PROVE  /\ rec'[n].cr \in CR
             /\ rec'[n].pc \in {"remove", "discover"}
             /\ ~rec'[n].found
             /\ rec'[n].ver = seen[n][rec'[n].cr]
             /\ UNCHANGED <<hist, seen, host>>
    <2> DEFINE obj == hist[cr][seen[m][cr]]
               w == [pc     |-> IF obj.deleting THEN "remove" ELSE "discover",
                     cr     |-> cr,
                     ver    |-> seen[m][cr],
                     found  |-> FALSE,
                     force  |-> obj.deleting /\ cr \in graceOver,
                     failed |-> FALSE,
                     cond   |-> obj.cond]
    <2>1. rec' = [rec EXCEPT ![m] = w] /\ UNCHANGED <<hist, seen, host>>
        BY <1>4 DEF ReconcileBegin, apiVars, hostVars
    <2>2. w.cr = cr /\ w.pc \in {"remove", "discover"} /\ ~w.found /\ w.ver = seen[m][cr]
        OBVIOUS
    <2> HIDE DEF w
    <2>3. m = n /\ rec'[n] = w
        BY <1>0, <2>1 DEF TypeOK
    <2> QED BY <2>1, <2>2, <2>3
<1>5. ASSUME NEW m \in Node, QuietStep(m), m # n
      PROVE  FALSE
    <2>1. \E w : rec' = [rec EXCEPT ![m] = w]
        BY <1>0, <1>5, QuietEffect DEF QuietWork
    <2> QED BY <1>0, <1>5, <2>1 DEF TypeOK
<1>6. ASSUME NEW m \in Node, RemoveFinalizer(m) \/ AddFinalizer(m) \/ StatusUpdate(m)
      PROVE  FALSE
    BY <1>1, <1>6 DEF RemoveFinalizer, AddFinalizer, StatusUpdate, Return
<1>7. ASSUME NEW m \in Node, Crash(m) \/ Restart(m)
      PROVE  FALSE
    BY <1>1, <1>7 DEF Crash, Restart
<1>8. ~UNCHANGED vars
    BY DEF vars
<1>9. \/ User \/ Host
      \/ \E m \in Node, cr \in CR : \/ Observe(m, cr) \/ ReconcileSkip(m, cr)
                                    \/ ReconcileBegin(m, cr)
      \/ \E m \in Node : QuietStep(m) \/ Crash(m) \/ Restart(m)
      \/ \E m \in Node : RemoveFinalizer(m) \/ AddFinalizer(m) \/ StatusUpdate(m)
      \/ UNCHANGED vars
    BY DEF Next, Proceed, Remove, Maintain, QuietStep, Begin
<1> QED BY <1>2, <1>3, <1>4, <1>5, <1>6, <1>7, <1>8, <1>9

\* With unique names every step keeps HeldHasVG and SyncGetsVG.
LEMMA HeldStep ==
    ASSUME UniqueNames, IInv, IInv', FoundStays, HeldHasVG, SyncGetsVG, [Next]_vars
    PROVE  HeldHasVG' /\ SyncGetsVG'
<1>0. Base /\ Safe /\ Known /\ TypeOK /\ Base' /\ Safe'
    BY Parts DEF Base, Safe, IInv
<1> SUFFICES ASSUME edits' = 0
             PROVE  /\ \A cr \in CR : \A i \in 1 .. Len(hist'[cr]) :
                          hist'[cr][i].finalizer /\ ~DeletionSeen(cr)' => Present(cr)'
                    /\ \A n \in Node :
                          /\ Busy(n)' /\ ~Obj(n)'.deleting
                          /\ rec'[n].pc = "finalize" \/ rec'[n].found \/ Obj(n)'.finalizer
                          => host'[n][Name(n)'] # NoVG
                    /\ \A n \in Node : rec'[n].pc = "sync" => rec'[n].found
    BY DEF HeldHasVG, SyncGetsVG
<1>1. edits = 0
    BY <1>0, EditsGrow
<1>2. /\ \A cr \in CR : \A i, j \in 1 .. Len(hist[cr]) :
            hist[cr][i].nameOnNode = hist[cr][j].nameOnNode
      /\ \A cr \in CR : \A i \in 1 .. Len(hist[cr]) :
            hist[cr][i].finalizer /\ ~DeletionSeen(cr) => Present(cr)
      /\ \A n \in Node :
            /\ Busy(n) /\ ~Obj(n).deleting
            /\ rec[n].pc = "finalize" \/ rec[n].found \/ Obj(n).finalizer
            => host[n][Name(n)] # NoVG
      /\ \A n \in Node : rec[n].pc = "sync" => rec[n].found
    BY <1>1 DEF FoundStays, HeldHasVG, SyncGetsVG
\* The name in work is the one the resource has.
<1>3. ASSUME NEW n \in Node, Busy(n), NEW cr \in CR, rec[n].cr = cr
      PROVE  /\ hist[cr] # <<>>
             /\ NodeName[cr] = n
             /\ Present(cr) <=> host[n][Name(n)] # NoVG
    <2>1. rec[n].ver \in 1 .. Len(hist[cr]) /\ NodeName[cr] = n
        BY <1>0, <1>3, ObjType
    <2>2. hist[cr] # <<>> /\ Len(hist[cr]) \in 1 .. Len(hist[cr])
        BY <1>0, <2>1, HistType
    <2>3. Name(n) = getNameOnNode(cr, Latest(cr))
        <3>1. hist[cr][rec[n].ver].nameOnNode = Latest(cr).nameOnNode
            BY <1>2, <2>1, <2>2 DEF Latest
        <3> QED BY <1>3, <3>1 DEF Name, Obj, getNameOnNode
    <2> QED BY <2>1, <2>2, <2>3 DEF Present
\* A VG that was there when the finalizer was, or that is there as it is added.
<1>4. ASSUME NEW cr \in CR, NEW i \in 1 .. Len(hist'[cr]),
             hist'[cr][i].finalizer, ~DeletionSeen(cr)'
      PROVE  Present(cr)'
    <2>1. ~DeletionSeen(cr)
        BY <1>4, DeletionStaysSeen
    <2>2. ASSUME hist[cr] # <<>>, Present(cr)
          PROVE  Present(cr)'
        BY <2>1, <2>2, PresenceKept
    <2>3. ASSUME NEW k \in 1 .. Len(hist[cr]), hist[cr][k].finalizer
          PROVE  Present(cr)'
        <3>1. hist[cr] # <<>> /\ Present(cr)
            BY <1>0, <1>2, <2>1, <2>3, HistType
        <3> QED BY <2>2, <3>1
    <2>4. CASE hist' = hist
        BY <1>4, <2>3, <2>4
    <2>5. ASSUME NEW c \in CR, NEW o \in Version, StoreStep(c, o)
          PROVE  Present(cr)'
        <3>1. Store(c, o) /\ Len(hist'[cr]) \in Nat
            BY <1>0, <2>5, LatestAfter DEF StoreStep
        <3>2. \/ i \in 1 .. Len(hist[cr]) /\ hist'[cr][i] = hist[cr][i]
              \/ cr = c /\ hist'[cr][i] = Stored(o)
            <4>1. i \in Nat
                BY <3>1
            <4> QED BY <1>0, <3>1, <4>1, LatestAfter
        <3>3. CASE cr = c /\ hist'[cr][i] = Stored(o)
            <4>1. o.finalizer
                BY <1>4, <3>3, StoredType
            <4>2. Exists(cr) /\ (Latest(cr).finalizer \/ Adds(cr, o))
                BY <2>5, <3>3, <4>1 DEF StoreStep, Creates, Edits, Renames, Deletes, Frees,
                                        Writes, Drops, Tells, Is
            <4>3. CASE Adds(cr, o)
                <5>1. PICK n \in Node : Busy(n) /\ rec[n].cr = cr /\ rec[n].pc = "finalize"
                    BY <4>3 DEF Adds
                <5>2. ~Obj(n).deleting
                    BY <1>0, <5>1 DEF Safe, BranchOfVersion
                <5>3. hist[cr] # <<>> /\ Present(cr)
                    BY <1>2, <1>3, <5>1, <5>2
                <5> QED BY <2>2, <5>3
            <4>4. CASE Latest(cr).finalizer
                <5>1. Len(hist[cr]) \in 1 .. Len(hist[cr])
                    BY <1>0, <4>2, LatestType DEF Exists
                <5> QED BY <2>3, <4>4, <5>1 DEF Latest
            <4> QED BY <4>2, <4>3, <4>4
        <3> QED BY <1>4, <2>3, <3>2, <3>3
    <2> QED BY <1>0, <2>4, <2>5, StepKinds
\* The work of a node.
<1>5. ASSUME NEW n \in Node, Busy(n)'
      PROVE  /\ /\ ~Obj(n)'.deleting
                /\ rec'[n].pc = "finalize" \/ rec'[n].found \/ Obj(n)'.finalizer
                => host'[n][Name(n)'] # NoVG
             /\ rec'[n].pc = "sync" => rec'[n].found
    <2>1. ASSUME Busy(n), rec'[n].cr = rec[n].cr, rec'[n].ver = rec[n].ver
          PROVE  /\ Obj(n)' = Obj(n)
                 /\ Name(n)' = Name(n)
                 /\ Name(n) \in VGName
                 /\ ~Obj(n).deleting /\ host[n][Name(n)] # NoVG => host'[n][Name(n)] # NoVG
        <3>1. rec[n].cr \in CR /\ rec[n].ver \in 1 .. Len(hist[rec[n].cr]) /\ Name(n) \in VGName
            BY <1>0, <2>1, ObjType
        <3>2. Obj(n)' = Obj(n)
            BY <2>1, <3>1, VersionsStay DEF Obj
        <3>3. Name(n)' = Name(n)
            BY <2>1, <3>2 DEF Name, getNameOnNode
        <3>4. ~Obj(n).deleting => rec[n].pc # "remove"
            BY <1>0, <2>1 DEF Safe, BranchOfVersion
        <3> QED BY <2>1, <3>1, <3>2, <3>3, <3>4, BusyKeepsVGs
    <2>2. CASE rec'[n] = rec[n]
        <3>1. Busy(n)
            BY <1>5, <2>2 DEF Busy
        <3>2. /\ Obj(n)' = Obj(n) /\ Name(n)' = Name(n)
              /\ ~Obj(n).deleting /\ host[n][Name(n)] # NoVG => host'[n][Name(n)] # NoVG
            BY <2>1, <2>2, <3>1
        <3> QED BY <1>2, <2>2, <3>1, <3>2
    <2>3. CASE QuietStep(n)
        <3>0. Busy(n) /\ hist' = hist
            BY <1>0, <2>3, QuietEffect
        <3>1. rec'[n].pc = "sync" => ~Obj(n)'.deleting
            BY <1>0, <1>5 DEF Safe, BranchOfVersion
        <3>2. rec'[n].cr = rec[n].cr /\ rec'[n].ver = rec[n].ver
            <4>1. QuietWork(n) /\ rec \in [Node -> Work]
                BY <1>0, <2>3, QuietEffect DEF TypeOK
            <4>2. ASSUME NEW pc \in {"idle", "panicked"}, rec' = [rec EXCEPT ![n] = Rest(pc)]
                  PROVE  FALSE
                BY <1>5, <4>1, <4>2, RestType DEF Busy
            <4> QED BY <4>1, <4>2 DEF QuietWork
        <3>3. /\ Obj(n)' = Obj(n) /\ Name(n)' = Name(n) /\ Name(n) \in VGName
              /\ ~Obj(n).deleting /\ host[n][Name(n)] # NoVG => host'[n][Name(n)] # NoVG
            BY <2>1, <3>0, <3>2
        <3> SUFFICES ASSUME ~Obj(n).deleting
                     PROVE  /\ \/ rec'[n].pc = "finalize" \/ rec'[n].found
                               \/ Obj(n).finalizer
                               => host'[n][Name(n)] # NoVG
                            /\ rec'[n].pc = "sync" => rec'[n].found
            BY <3>1, <3>3
        <3>4. PICK w \in Work :
                 /\ rec' = [rec EXCEPT ![n] = w]
                 /\ \/ w.pc = "report" /\ w.found = rec[n].found
                    \/ w.pc = "create" /\ w.found = rec[n].found
                    \/ w.pc = Held(n) /\ w.found /\ host[n][Name(n)] # NoVG
                    \/ w.pc = Held(n) /\ ~w.found /\ Provides(n)
            BY <1>5, <2>3, LiveWork
        <3>5. rec'[n] = w
            BY <1>0, <3>4 DEF TypeOK
        <3>6. CASE w.pc \in {"report", "create"} /\ w.found = rec[n].found
            BY <1>2, <3>0, <3>3, <3>5, <3>6
        <3>7. CASE w.found /\ host[n][Name(n)] # NoVG
            BY <3>3, <3>5, <3>7
        <3>8. CASE w.pc = Held(n) /\ ~w.found /\ Provides(n)
            <4>1. rec[n].cr \in CR /\ host' = [host EXCEPT ![n][Name(n)] = rec[n].cr]
                BY <1>0, <3>0, <3>8, ObjType DEF Provides
            <4>2. host'[n][Name(n)] = rec[n].cr
                BY <1>0, <3>3, <4>1 DEF TypeOK
            <4>3. ~Obj(n).finalizer
                BY <1>2, <3>0, <3>8 DEF Provides
            <4> QED BY <3>5, <3>8, <4>1, <4>2, <4>3 DEF Held
        <3> QED BY <3>4, <3>6, <3>7, <3>8
    <2>4. CASE /\ rec'[n].cr \in CR
               /\ rec'[n].pc \in {"remove", "discover"}
               /\ ~rec'[n].found
               /\ rec'[n].ver = seen[n][rec'[n].cr]
               /\ UNCHANGED <<hist, seen, host>>
        <3> DEFINE cr == rec'[n].cr
                   v == rec'[n].ver
        <3>1. /\ NodeName[cr] = n /\ v \in 1 .. Len(hist[cr])
              /\ Obj(n)' = hist[cr][v] /\ Name(n)' = getNameOnNode(cr, hist[cr][v])
            <4>1. NodeName[cr] = n /\ v \in 1 .. seen[n][cr]
                BY <1>0, <1>5, <2>4 DEF Base, WorkRead
            <4>2. /\ seen[n][cr] \in Nat /\ seen[n][cr] <= Len(hist[cr])
                  /\ Len(hist[cr]) \in Nat
                BY <1>0, <2>4, HistType DEF Base, TypeOK, CacheBehind
            <4>3. v \in 1 .. Len(hist[cr])
                BY <4>1, <4>2
            <4>4. Obj(n)' = hist[cr][v] /\ Name(n)' = getNameOnNode(cr, hist[cr][v])
                BY <2>4 DEF Obj, Name, getNameOnNode
            <4> QED BY <4>1, <4>3, <4>4
        <3> SUFFICES ASSUME ~hist[cr][v].deleting, hist[cr][v].finalizer
                     PROVE  host[n][getNameOnNode(cr, hist[cr][v])] # NoVG
            BY <2>4, <3>1
        <3>2. ~DeletionSeen(cr)
            BY <2>4, <3>1 DEF DeletionSeen
        <3>3. Present(cr)
            BY <1>2, <2>4, <3>1, <3>2
        <3>4. Len(hist[cr]) \in 1 .. Len(hist[cr])
            <4>1. cr \in CR /\ Len(hist[cr]) \in Nat
                BY <1>0, <2>4, HistType
            <4> QED BY <3>1, <4>1
        <3>5. getNameOnNode(cr, Latest(cr)) = getNameOnNode(cr, hist[cr][v])
            <4>1. Latest(cr).nameOnNode = hist[cr][v].nameOnNode
                <5>1. cr \in CR
                    BY <2>4
                <5> HIDE DEF cr, v
                <5> QED BY <1>2, <3>1, <3>4, <5>1 DEF Latest
            <4> QED BY <4>1 DEF getNameOnNode
        <3> QED BY <3>1, <3>3, <3>5 DEF Present
    <2> QED BY <1>5, <2>2, <2>3, <2>4, WorkBegins
<1>6. \A n \in Node : rec'[n].pc = "sync" => Busy(n)'
    BY DEF Busy
<1> QED BY <1>4, <1>5, <1>6

\* The two hold together; neither is inductive alone.
LEMMA HeldAlways == ASSUME UniqueNames PROVE Spec => [](HeldHasVG /\ SyncGetsVG)
<1>1. Init => HeldHasVG /\ SyncGetsVG
    BY DEF Init, HeldHasVG, SyncGetsVG, Busy, Rest
<1>2. IInv /\ IInv' /\ FoundStays /\ HeldHasVG /\ SyncGetsVG /\ [Next]_vars
          => HeldHasVG' /\ SyncGetsVG'
    BY HeldStep
<1> QED BY <1>1, <1>2, Invariance, FoundIsKept, PTL DEF Spec

\* Where names are unique: as long as no user renames a resource and nobody but the
\* operator creates or removes VGs, the VG of a resource is there from before it carries
\* the finalizer until its node sees the deletion, and under a reconcile of a live
\* version to its end.
THEOREM HeldIsThere == ASSUME UniqueNames PROVE Spec => []HeldHasVG
BY HeldAlways, PTL

\* Where names are unique: the nil pointer that initializeVG leaves reaches sync only
\* after a user has renamed a resource or somebody else has created or removed a VG.
THEOREM NilNeedsEdit == ASSUME UniqueNames PROVE Spec => []SyncGetsVG
BY HeldAlways, PTL
=============================================================================
