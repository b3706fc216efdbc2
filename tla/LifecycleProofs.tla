-------------------------- MODULE LifecycleProofs --------------------------
(***************************************************************************)
(* Theorems about Lifecycle, for any resources, nodes, names and bounds.   *)
(***************************************************************************)
EXTENDS Lifecycle, TLAPS

USE NodeNameAssumption, NameAssumption, ValueAssumption, BoundAssumption

\* What is provable of a step without looking at deletions and finalizers.
Base == TypeOK /\ CacheBehind /\ WorkRead

\* A stored version differs from what was written in its existence only.
LEMMA StoredType ==
    ASSUME NEW o \in Version
    PROVE  /\ Stored(o) \in Version
           /\ Stored(o).exists <=> o.finalizer \/ o.others \/ ~o.deleting
           /\ Stored(o).nameOnNode = o.nameOnNode
           /\ Stored(o).gen = o.gen
           /\ Stored(o).finalizer = o.finalizer
           /\ Stored(o).others = o.others
           /\ Stored(o).deleting = o.deleting
           /\ Stored(o).cond = o.cond
BY DEF Stored, Version

\* o is a version with these fields; whether it exists is left open.
Is(o, name, gen, finalizer, others, deleting, cond) ==
    /\ o \in Version
    /\ o.nameOnNode = name
    /\ o.gen = gen
    /\ o.finalizer = finalizer
    /\ o.others = others
    /\ o.deleting = deleting
    /\ o.cond = cond

\* A change of the spec counts the generation up and nothing else.
LEMMA GenerationType ==
    \A o \in Version : Is(NextGeneration(o), o.nameOnNode, o.gen + 1, o.finalizer, o.others,
                          o.deleting, o.cond)
BY DEF Is, NextGeneration, Version

\* Each writer changes the fields it names and no other.
LEMMA WriteType ==
    ASSUME NEW o \in Version
    PROVE  /\ \A nm \in VGName \cup {Unset} :
                 Is(Renamed(o, nm), nm, o.gen + 1, o.finalizer, o.others, o.deleting, o.cond)
           /\ Is(MarkedDeleted(o), o.nameOnNode, o.gen + 1, o.finalizer, o.others, TRUE, o.cond)
           /\ Is(Released(o), o.nameOnNode, o.gen, o.finalizer, FALSE, o.deleting, o.cond)
           /\ \A held \in BOOLEAN :
                 Is(WithFinalizer(o, held), o.nameOnNode, o.gen, held, o.others, o.deleting, o.cond)
<1>1. ASSUME NEW nm \in VGName \cup {Unset}
      PROVE  Is(Renamed(o, nm), nm, o.gen + 1, o.finalizer, o.others, o.deleting, o.cond)
    <2>1. Is([o EXCEPT !.nameOnNode = nm], nm, o.gen, o.finalizer, o.others, o.deleting, o.cond)
        BY DEF Is, Version
    <2> QED BY <2>1, GenerationType, Zenon DEF Renamed, Is
<1>2. Is(MarkedDeleted(o), o.nameOnNode, o.gen + 1, o.finalizer, o.others, TRUE, o.cond)
    <2>1. Is([o EXCEPT !.deleting = TRUE], o.nameOnNode, o.gen, o.finalizer, o.others, TRUE, o.cond)
        BY DEF Is, Version
    <2> QED BY <2>1, GenerationType, Zenon DEF MarkedDeleted, Is
<1>3. Is(Released(o), o.nameOnNode, o.gen, o.finalizer, FALSE, o.deleting, o.cond)
    BY DEF Is, Released, Version
<1>4. ASSUME NEW held \in BOOLEAN
      PROVE  Is(WithFinalizer(o, held), o.nameOnNode, o.gen, held, o.others, o.deleting, o.cond)
    BY DEF Is, WithFinalizer, Version
<1> QED BY <1>1, <1>2, <1>3, <1>4

\* A status update changes the condition and nothing else.
LEMMA ConditionWriteType ==
    ASSUME NEW o \in Version, NEW c \in Condition
    PROVE  Is(WithCondition(o, c), o.nameOnNode, o.gen, o.finalizer, o.others, o.deleting, c)
BY DEF Is, WithCondition, Version

\* Store appends one version to one history and leaves the rest alone.
LEMMA StoreAppends ==
    ASSUME hist \in [CR -> Seq(Version)], NEW cr \in CR, NEW o \in Version,
           Store(cr, o)
    PROVE  /\ hist' \in [CR -> Seq(Version)]
           /\ Len(hist'[cr]) = Len(hist[cr]) + 1
           /\ hist'[cr][Len(hist[cr]) + 1] = Stored(o)
           /\ \A i \in 1 .. Len(hist[cr]) : hist'[cr][i] = hist[cr][i]
           /\ \A c \in CR : c # cr => hist'[c] = hist[c]
           /\ \A c \in CR : /\ Len(hist[c]) <= Len(hist'[c])
                            /\ \A i \in 1 .. Len(hist[c]) : hist'[c][i] = hist[c][i]
<1>1. Stored(o) \in Version
    BY StoredType
<1>2. hist'[cr] = Append(hist[cr], Stored(o))
    BY DEF Store
<1>3. hist[cr] \in Seq(Version)
    OBVIOUS
<1>4. \A c \in CR : c # cr => hist'[c] = hist[c]
    BY DEF Store
<1>5. hist' \in [CR -> Seq(Version)]
    BY <1>1, <1>3 DEF Store
<1>6. /\ Len(hist'[cr]) = Len(hist[cr]) + 1
      /\ hist'[cr][Len(hist[cr]) + 1] = Stored(o)
      /\ \A i \in 1 .. Len(hist[cr]) : hist'[cr][i] = hist[cr][i]
    BY <1>1, <1>2, <1>3
<1>7. ASSUME NEW c \in CR
      PROVE  /\ Len(hist[c]) <= Len(hist'[c])
             /\ \A i \in 1 .. Len(hist[c]) : hist'[c][i] = hist[c][i]
    <2>1. Len(hist[c]) \in Nat
        BY <1>7
    <2>2. CASE c = cr
        BY <1>6, <2>1, <2>2
    <2>3. CASE c # cr
        BY <1>4, <1>7, <2>1, <2>3
    <2> QED BY <2>2, <2>3
<1> QED BY <1>4, <1>5, <1>6, <1>7

\* The object in work is a version of the history, and has the type of one.
LEMMA ObjType ==
    ASSUME Base, NEW n \in Node, Busy(n)
    PROVE  /\ rec[n].cr \in CR
           /\ NodeName[rec[n].cr] = n
           /\ rec[n].ver \in 1 .. Len(hist[rec[n].cr])
           /\ Obj(n) \in Version
           /\ Name(n) \in VGName
<1>1. rec[n].cr \in CR /\ NodeName[rec[n].cr] = n /\ rec[n].ver \in 1 .. seen[n][rec[n].cr]
    BY DEF Base, WorkRead
<1>2. hist[rec[n].cr] \in Seq(Version) /\ seen[n][rec[n].cr] \in Nat
    BY <1>1 DEF Base, TypeOK
<1>3. seen[n][rec[n].cr] <= Len(hist[rec[n].cr])
    BY <1>1 DEF Base, CacheBehind
<1>4. rec[n].ver \in 1 .. Len(hist[rec[n].cr])
    BY <1>1, <1>2, <1>3
<1>5. Obj(n) \in Version
    BY <1>2, <1>4 DEF Obj
<1>6. Name(n) \in VGName
    BY <1>1, <1>5 DEF Name, getNameOnNode, Version
<1> QED BY <1>1, <1>4, <1>5, <1>6

\* The latest version of a resource that was created is one of its history.
LEMMA LatestType ==
    ASSUME TypeOK, NEW cr \in CR, hist[cr] # <<>>
    PROVE  Latest(cr) \in Version /\ Len(hist[cr]) \in Nat /\ Len(hist[cr]) >= 1
<1>1. hist[cr] \in Seq(Version)
    BY DEF TypeOK
<1>2. Len(hist[cr]) \in Nat /\ Len(hist[cr]) >= 1
    BY <1>1
<1> QED BY <1>1, <1>2 DEF Latest

\* A write of the API server disturbs neither caches nor the work in flight.
LEMMA StoreKeepsBase ==
    ASSUME Base, NEW cr \in CR, NEW o \in Version, Store(cr, o),
           seen' = seen, queue' \in [Node -> SUBSET CR],
           host' = host, inUse' = inUse, graceOver' = graceOver,
           edits' \in Nat, faults' \in Nat,
           \A n \in Node : rec'[n] \in {rec[n], Rest("idle")},
           rec' \in [Node -> Work]
    PROVE  Base'
<1>1. hist' \in [CR -> Seq(Version)] /\ \A c \in CR : Len(hist[c]) <= Len(hist'[c])
    BY StoreAppends DEF Base, TypeOK
<1>2. TypeOK'
    BY <1>1 DEF Base, TypeOK
<1>3. CacheBehind'
    <2> SUFFICES ASSUME NEW n \in Node, NEW c \in CR
                 PROVE  seen[n][c] <= Len(hist'[c])
        BY DEF CacheBehind
    <2>1. seen[n][c] \in Nat /\ hist[c] \in Seq(Version) /\ hist'[c] \in Seq(Version)
        BY <1>1 DEF Base, TypeOK
    <2>2. seen[n][c] <= Len(hist[c]) /\ Len(hist[c]) <= Len(hist'[c])
        BY <1>1 DEF Base, CacheBehind
    <2> QED BY <2>1, <2>2
<1>4. WorkRead'
    BY DEF Base, WorkRead, Busy, Rest
<1> QED BY <1>2, <1>3, <1>4 DEF Base

\* The work of a reconciler that rests is well typed.
LEMMA RestType ==
    ASSUME NEW pc \in {"idle", "down", "panicked"}
    PROVE  Rest(pc) \in Work /\ Rest(pc).pc = pc
BY DEF Rest, Work, PC, NoCondition, Condition, Reason

\* A reconcile that moves on in its work, or returns, keeps what it has read.
LEMMA WorkKeepsBase ==
    ASSUME Base, NEW n \in Node, NEW w \in Work,
           rec' = [rec EXCEPT ![n] = w],
           \/ w.pc \in {"idle", "down", "panicked"}
           \/ Busy(n) /\ w.cr = rec[n].cr /\ w.ver = rec[n].ver
           \/ /\ w.cr \in CR
              /\ NodeName[w.cr] = n
              /\ w.ver \in 1 .. seen[n][w.cr],
           hist' = hist, seen' = seen, queue' \in [Node -> SUBSET CR],
           host' \in [Node -> [VGName -> CR \cup {NoVG, Foreign}]],
           inUse' \in [Node -> SUBSET VGName],
           graceOver' = graceOver, edits' \in Nat, faults' \in Nat
    PROVE  Base'
<1>1. TypeOK'
    BY DEF Base, TypeOK
<1>2. CacheBehind'
    BY DEF Base, CacheBehind
<1>3. WorkRead'
    <2> SUFFICES ASSUME NEW m \in Node, Busy(m)'
                 PROVE  /\ rec'[m].cr \in CR
                        /\ NodeName[rec'[m].cr] = m
                        /\ rec'[m].ver \in 1 .. seen[m][rec'[m].cr]
        BY DEF WorkRead
    <2>1. CASE m = n
        BY <2>1 DEF Base, TypeOK, WorkRead, Busy
    <2>2. CASE m # n
        BY <2>2 DEF Base, TypeOK, WorkRead, Busy
    <2> QED BY <2>1, <2>2
<1> QED BY <1>1, <1>2, <1>3 DEF Base

\* Base holds at first, before any resource is created.
LEMMA BaseInit == Init => Base
<1> SUFFICES ASSUME Init PROVE Base
    OBVIOUS
<1>1. TypeOK
    <2>1. Rest("idle") \in Work
        BY RestType
    <2>2. <<>> \in Seq(Version)
        OBVIOUS
    <2> QED BY <2>1, <2>2 DEF Init, TypeOK
<1>2. CacheBehind
    BY DEF Init, CacheBehind
<1>3. WorkRead
    BY DEF Init, WorkRead, Busy, Rest
<1> QED BY <1>1, <1>2, <1>3 DEF Base

\* Users and other controllers only append versions: Base stays.
LEMMA BaseUser == Base /\ User => Base'
<1> SUFFICES ASSUME Base, NEW cr \in CR,
                    \/ UserCreate(cr) \/ UserRename(cr) \/ UserDelete(cr)
                    \/ DropOtherFinalizer(cr) \/ GraceExpires(cr)
             PROVE  Base'
    BY DEF User
<1>0. TypeOK
    BY DEF Base
<1>1. CASE UserCreate(cr)
    <2>1. PICK nm \in NameOnNode[cr], others \in OtherFinalizers :
             Store(cr, [exists |-> TRUE, nameOnNode |-> nm, gen |-> 1,
                        finalizer |-> FALSE, others |-> others,
                        deleting |-> FALSE, cond |-> NoCondition])
        BY <1>1 DEF UserCreate
    <2>2. [exists |-> TRUE, nameOnNode |-> nm, gen |-> 1,
           finalizer |-> FALSE, others |-> others,
           deleting |-> FALSE, cond |-> NoCondition] \in Version
        BY DEF Version, NoCondition, Condition, Reason
    <2> QED BY <1>0, <1>1, <2>1, <2>2, StoreKeepsBase DEF UserCreate, hostVars, TypeOK
<1>2. CASE UserRename(cr)
    <2>1. Latest(cr) \in Version
        BY <1>0, <1>2, LatestType DEF UserRename, Exists
    <2>2. PICK nm \in NameOnNode[cr] :
             Store(cr, Renamed(Latest(cr), nm))
        BY <1>2 DEF UserRename
    <2>3. Renamed(Latest(cr), nm) \in Version
        BY <2>1, WriteType DEF Is
    <2>4. /\ edits' \in Nat
          /\ UNCHANGED <<seen, queue, rec, hostVars, graceOver, faults>>
        BY <1>0, <1>2 DEF UserRename, Edit, TypeOK
    <2> QED BY <1>0, <2>2, <2>3, <2>4, StoreKeepsBase DEF hostVars, TypeOK
<1>3. CASE UserDelete(cr)
    <2>1. Latest(cr) \in Version
        BY <1>0, <1>3, LatestType DEF UserDelete, Exists
    <2>2. MarkedDeleted(Latest(cr)) \in Version
        BY <2>1, WriteType DEF Is
    <2> QED BY <1>0, <1>3, <2>2, StoreKeepsBase DEF UserDelete, hostVars, TypeOK
<1>4. CASE DropOtherFinalizer(cr)
    <2>1. Latest(cr) \in Version
        BY <1>0, <1>4, LatestType DEF DropOtherFinalizer, Exists
    <2>2. Released(Latest(cr)) \in Version
        BY <2>1, WriteType DEF Is
    <2> QED BY <1>0, <1>4, <2>2, StoreKeepsBase DEF DropOtherFinalizer, hostVars, TypeOK
<1>5. CASE GraceExpires(cr)
    BY <1>5 DEF GraceExpires, hostVars, Base, TypeOK, CacheBehind, WorkRead, Busy
<1> QED BY <1>1, <1>2, <1>3, <1>4, <1>5

\* Changes of the hosts touch neither the API server nor the caches.
LEMMA BaseHost == Base /\ Host => Base'
<1> SUFFICES ASSUME Base, NEW n \in Node, NEW nm \in VGName,
                    HostRemove(n, nm) \/ HostCreate(n, nm) \/ CreateLV(n, nm)
             PROVE  Base'
    BY DEF Host
<1>1. TypeOK'
    <2>1. CASE HostRemove(n, nm)
        BY <2>1 DEF HostRemove, apiVars, Edit, Base, TypeOK
    <2>2. CASE HostCreate(n, nm)
        BY <2>2 DEF HostCreate, apiVars, Edit, Base, TypeOK
    <2>3. CASE CreateLV(n, nm)
        BY <2>3 DEF CreateLV, apiVars, Edit, Base, TypeOK
    <2> QED BY <2>1, <2>2, <2>3
<1>2. hist' = hist /\ seen' = seen /\ rec' = rec
    BY DEF HostRemove, HostCreate, CreateLV, apiVars
<1>3. CacheBehind' /\ WorkRead'
    BY <1>2 DEF Base, CacheBehind, WorkRead, Busy
<1> QED BY <1>1, <1>3 DEF Base

\* The setters of the condition give well typed conditions.
LEMMA ConditionType ==
    \A gen \in Nat : /\ SetSyncedOnHostDefault(gen) \in Condition
                     /\ SetSyncedOnHostCreationFailed(gen) \in Condition
                     /\ SetSyncedOnHostCreationOK(gen) \in Condition
BY DEF SetSyncedOnHostDefault, SetSyncedOnHostCreationFailed,
       SetSyncedOnHostCreationOK, Condition, Reason

\* Watch events and the begin of a reconcile keep Base: a
\* reconcile begins with the version its cache has.
LEMMA BaseCache ==
    ASSUME Base, NEW n \in Node, NEW cr \in CR, Observe(n, cr) \/ Begin(n, cr)
    PROVE  Base'
<1>0. /\ TypeOK
      /\ hist[cr] \in Seq(Version)
      /\ Len(hist[cr]) \in Nat
      /\ seen[n][cr] \in Nat
      /\ seen[n][cr] <= Len(hist[cr])
    BY DEF Base, TypeOK, CacheBehind
<1>1. CASE Observe(n, cr)
    <2>1. PICK v \in seen[n][cr] + 1 .. Len(hist[cr]) :
             seen' = [seen EXCEPT ![n][cr] = v]
        BY <1>1 DEF Observe
    <2>2. v \in Nat /\ seen[n][cr] <= v /\ v <= Len(hist[cr])
        BY <1>0
    <2>3. hist' = hist /\ rec' = rec
        BY <1>1 DEF Observe, apiVars
    <2>4. \A m \in Node, c \in CR :
             seen'[m][c] = IF m = n /\ c = cr THEN v ELSE seen[m][c]
        BY <1>0, <2>1 DEF TypeOK
    <2>5. seen' \in [Node -> [CR -> Nat]]
        BY <1>0, <2>1, <2>2 DEF TypeOK
    <2>6. \A m \in Node, c \in CR : /\ seen[m][c] <= seen'[m][c]
                                   /\ seen[m][c] \in Nat
                                   /\ seen'[m][c] \in Nat
        <3> SUFFICES ASSUME NEW m \in Node, NEW c \in CR
                     PROVE  /\ seen[m][c] <= seen'[m][c]
                            /\ seen[m][c] \in Nat
                            /\ seen'[m][c] \in Nat
            OBVIOUS
        <3>1. seen[m][c] \in Nat
            BY <1>0 DEF TypeOK
        <3> QED BY <3>1, <2>2, <2>4
    <2>7. TypeOK'
        BY <1>0, <1>1, <2>5 DEF TypeOK, Observe, apiVars, hostVars
    <2>8. CacheBehind'
        BY <2>2, <2>3, <2>4 DEF Base, CacheBehind
    <2>9. WorkRead'
        <3> SUFFICES ASSUME NEW m \in Node, Busy(m)
                     PROVE  /\ rec[m].cr \in CR
                            /\ NodeName[rec[m].cr] = m
                            /\ rec[m].ver \in 1 .. seen'[m][rec[m].cr]
            BY <2>3 DEF WorkRead, Busy
        <3>1. /\ rec[m].cr \in CR
              /\ NodeName[rec[m].cr] = m
              /\ rec[m].ver \in 1 .. seen[m][rec[m].cr]
            BY DEF Base, WorkRead
        <3>2. /\ seen[m][rec[m].cr] <= seen'[m][rec[m].cr]
              /\ seen[m][rec[m].cr] \in Nat
              /\ seen'[m][rec[m].cr] \in Nat
            BY <2>6, <3>1
        <3> QED BY <3>1, <3>2
    <2> QED BY <2>7, <2>8, <2>9 DEF Base
<1>2. CASE ReconcileSkip(n, cr)
    BY <1>2 DEF ReconcileSkip, apiVars, hostVars, Base, TypeOK, CacheBehind, WorkRead, Busy
<1>3. CASE ReconcileBegin(n, cr)
    <2> DEFINE obj == hist[cr][seen[n][cr]]
               w == [pc     |-> IF obj.deleting THEN "remove" ELSE "discover",
                     cr     |-> cr,
                     ver    |-> seen[n][cr],
                     found  |-> FALSE,
                     force  |-> obj.deleting /\ cr \in graceOver,
                     failed |-> FALSE,
                     cond   |-> obj.cond]
    <2>1. seen[n][cr] \in 1 .. Len(hist[cr]) /\ NodeName[cr] = n
        BY <1>0, <1>3 DEF ReconcileBegin, Mine
    <2>2. obj \in Version
        BY <1>0, <2>1
    <2>3. w \in Work
        BY <1>0, <2>2 DEF Work, PC, Version
    <2>4. /\ rec' = [rec EXCEPT ![n] = w]
          /\ queue' \in [Node -> SUBSET CR]
          /\ UNCHANGED <<apiVars, seen, hostVars, edits, faults>>
        BY <1>0, <1>3 DEF ReconcileBegin, TypeOK
    <2>5. w.cr \in CR /\ NodeName[w.cr] = n /\ w.ver \in 1 .. seen[n][w.cr]
        BY <2>1, <1>0
    <2> HIDE DEF w
    <2> QED BY <1>0, <2>3, <2>4, <2>5, WorkKeepsBase DEF apiVars, hostVars, TypeOK
<1> QED BY <1>1, <1>2, <1>3 DEF Begin

\* A crash or a restart of a node keeps Base.
LEMMA BaseProcess ==
    ASSUME Base, NEW n \in Node, Crash(n) \/ Restart(n)
    PROVE  Base'
<1>0. TypeOK
    BY DEF Base
<1>1. CASE Crash(n)
    <2>1. /\ rec' = [rec EXCEPT ![n] = Rest("down")]
          /\ UNCHANGED <<apiVars, seen, queue, hostVars, edits>>
          /\ faults' \in Nat
        BY <1>0, <1>1 DEF Crash, Fault, TypeOK
    <2> QED BY <1>0, <2>1, RestType, WorkKeepsBase DEF apiVars, hostVars, TypeOK
<1>2. CASE Restart(n)
    <2> DEFINE now == [cr \in CR |-> Len(hist[cr])]
    <2>1. \A cr \in CR : Len(hist[cr]) \in Nat
        BY <1>0 DEF TypeOK
    <2>2. /\ rec' = [rec EXCEPT ![n] = Rest("idle")]
          /\ seen' = [seen EXCEPT ![n] = now]
          /\ queue' \in [Node -> SUBSET CR]
          /\ UNCHANGED <<apiVars, hostVars, edits, faults>>
        BY <1>0, <1>2 DEF Restart, TypeOK
    <2>3. TypeOK'
        BY <1>0, <2>1, <2>2, RestType DEF TypeOK, apiVars, hostVars
    <2>4. CacheBehind'
        BY <1>0, <2>1, <2>2 DEF Base, CacheBehind, TypeOK, apiVars
    <2>5. WorkRead'
        <3> SUFFICES ASSUME NEW m \in Node, Busy(m)'
                     PROVE  /\ rec'[m].cr \in CR
                            /\ NodeName[rec'[m].cr] = m
                            /\ rec'[m].ver \in 1 .. seen'[m][rec'[m].cr]
            BY DEF WorkRead
        <3>1. m # n
            BY <1>0, <2>2, RestType DEF Busy, TypeOK
        <3> QED BY <1>0, <2>2, <3>1 DEF Base, WorkRead, Busy, TypeOK
    <2> QED BY <2>3, <2>4, <2>5 DEF Base
<1> QED BY <1>1, <1>2

\* What a step of the reconcile in flight may do to its work.
LEMMA StepWork ==
    ASSUME Base, NEW n \in Node, Busy(n)
    PROVE  /\ \A requeue \in BOOLEAN :
                 Return(n, requeue) =>
                     /\ rec' = [rec EXCEPT ![n] = Rest("idle")]
                     /\ queue' \in [Node -> SUBSET CR]
           /\ \A pc \in PC, found, failed \in BOOLEAN, cond \in Condition :
                 Continue(n, pc, found, cond, failed) =>
                     \E w \in Work : /\ rec' = [rec EXCEPT ![n] = w]
                                     /\ w.pc = pc
                                     /\ w.cr = rec[n].cr
                                     /\ w.ver = rec[n].ver
                                     /\ w.found = found
                                     /\ w.force = rec[n].force
                                     /\ w.cond = cond
<1>0. TypeOK /\ rec[n].cr \in CR /\ rec[n] \in Work
    BY ObjType DEF Base, TypeOK
<1>1. ASSUME NEW requeue \in BOOLEAN, Return(n, requeue)
      PROVE  /\ rec' = [rec EXCEPT ![n] = Rest("idle")]
             /\ queue' \in [Node -> SUBSET CR]
    BY <1>0, <1>1 DEF Return, TypeOK
<1>2. ASSUME NEW pc \in PC, NEW found \in BOOLEAN, NEW failed \in BOOLEAN,
             NEW cond \in Condition, Continue(n, pc, found, cond, failed)
      PROVE  \E w \in Work : /\ rec' = [rec EXCEPT ![n] = w]
                             /\ w.pc = pc
                             /\ w.cr = rec[n].cr
                             /\ w.ver = rec[n].ver
                             /\ w.found = found
                             /\ w.force = rec[n].force
                             /\ w.cond = cond
    <2> DEFINE w == [pc |-> pc, cr |-> rec[n].cr, ver |-> rec[n].ver, found |-> found,
                     force |-> rec[n].force, failed |-> failed, cond |-> cond]
    <2>1. w \in Work
        BY <1>0 DEF Work
    <2>2. rec' = [rec EXCEPT ![n] = w]
        BY <1>0, <1>2 DEF Continue, TypeOK
    <2> QED BY <2>1, <2>2
<1> QED BY <1>1, <1>2

\* A step of the reconcile in flight that writes nothing to the API server.
Quiet(n) ==
    /\ Busy(n)
    /\ \/ \E requeue \in BOOLEAN : Return(n, requeue)
       \/ /\ \E pc \in PC, found, failed \in BOOLEAN, cond \in Condition :
                Continue(n, pc, found, cond, failed)
          /\ UNCHANGED queue
       \/ rec' = [rec EXCEPT ![n] = Rest("panicked")] /\ UNCHANGED queue
    /\ hist' = hist
    /\ seen' = seen
    /\ graceOver' = graceOver
    /\ host' \in [Node -> [VGName -> CR \cup {NoVG, Foreign}]]
    /\ inUse' \in [Node -> SUBSET VGName]
    /\ edits' \in Nat
    /\ faults' \in Nat

\* A step of the reconcile that writes nothing to the API server keeps Base.
LEMMA QuietKeepsBase ==
    ASSUME Base, NEW n \in Node, Quiet(n)
    PROVE  Base'
<1>0. TypeOK /\ Busy(n)
    BY DEF Base, Quiet
<1>1. CASE \E requeue \in BOOLEAN : Return(n, requeue)
    <2>1. rec' = [rec EXCEPT ![n] = Rest("idle")] /\ queue' \in [Node -> SUBSET CR]
        BY <1>0, <1>1, StepWork
    <2> QED BY <2>1, RestType, WorkKeepsBase DEF Quiet
<1>2. CASE /\ \E pc \in PC, found, failed \in BOOLEAN, cond \in Condition :
                 Continue(n, pc, found, cond, failed)
           /\ UNCHANGED queue
    <2>1. PICK w \in Work : /\ rec' = [rec EXCEPT ![n] = w]
                            /\ w.cr = rec[n].cr
                            /\ w.ver = rec[n].ver
        BY <1>0, <1>2, StepWork
    <2>2. queue' \in [Node -> SUBSET CR]
        BY <1>0, <1>2 DEF TypeOK
    <2> QED BY <1>0, <2>1, <2>2, WorkKeepsBase DEF Quiet
<1>3. CASE rec' = [rec EXCEPT ![n] = Rest("panicked")] /\ UNCHANGED queue
    <2>1. queue' \in [Node -> SUBSET CR]
        BY <1>0, <1>3 DEF TypeOK
    <2> QED BY <1>3, <2>1, RestType, WorkKeepsBase DEF Quiet
<1> QED BY <1>1, <1>2, <1>3 DEF Quiet

\* The steps in flight that write nothing to the API server are quiet.
QuietStep(n) == \/ VGRemoveSucceeds(n) \/ VGRemoveNotFound(n) \/ VGRemoveFails(n)
                \/ UpdateRejected(n)
                \/ VGDiscover(n) \/ VGCreateSucceeds(n) \/ ConvertFails(n)
                \/ VGCreateFails(n) \/ SyncSucceeds(n) \/ SyncFails(n) \/ SyncPanics(n)
                \/ SelectorPanics(n) \/ DeadlinePasses(n)

\* The steps of the reconcile that write nothing to the API server meet Quiet.
LEMMA QuietSteps ==
    ASSUME Base, NEW n \in Node, QuietStep(n)
    PROVE  Quiet(n)
<1>0. TypeOK /\ Busy(n)
    BY DEF Base, Busy, QuietStep, VGRemoveSucceeds, VGRemoveNotFound, VGRemoveFails,
           UpdateRejected, VGDiscover, VGCreateSucceeds, ConvertFails,
           VGCreateFails, SyncSucceeds, SyncFails, SyncPanics, SelectorPanics,
           DeadlinePasses
<1>1. /\ rec[n] \in Work
      /\ rec[n].cr \in CR
      /\ Obj(n) \in Version
      /\ Name(n) \in VGName
      /\ rec[n].found \in BOOLEAN /\ rec[n].failed \in BOOLEAN /\ rec[n].cond \in Condition
      /\ Obj(n).gen \in Nat
    BY <1>0, ObjType DEF TypeOK, Work, Version
<1>2. /\ edits \in Nat /\ faults \in Nat
      /\ host \in [Node -> [VGName -> CR \cup {NoVG, Foreign}]]
      /\ inUse \in [Node -> SUBSET VGName]
      /\ (Fault \/ NoFault => faults' \in Nat)
    BY <1>0 DEF TypeOK, Fault, NoFault
<1>3. /\ SetSyncedOnHostDefault(Obj(n).gen) \in Condition
      /\ SetSyncedOnHostCreationFailed(Obj(n).gen) \in Condition
      /\ SetSyncedOnHostCreationOK(Obj(n).gen) \in Condition
    BY <1>1, ConditionType
<1>4. ASSUME AfterRemoval(n)
      PROVE  \/ \E requeue \in BOOLEAN : Return(n, requeue)
             \/ /\ \E pc \in PC, found, failed \in BOOLEAN, cond \in Condition :
                      Continue(n, pc, found, cond, failed)
                /\ UNCHANGED queue
    BY <1>1, <1>4 DEF AfterRemoval, Goto, PC
<1>5. CASE VGRemoveSucceeds(n)
    BY <1>0, <1>1, <1>2, <1>4, <1>5 DEF VGRemoveSucceeds, Quiet, apiVars
<1>6. CASE VGRemoveNotFound(n)
    BY <1>0, <1>2, <1>4, <1>6 DEF VGRemoveNotFound, Quiet, apiVars, hostVars
<1>7. CASE VGRemoveFails(n)
    BY <1>0, <1>2, <1>7 DEF VGRemoveFails, Quiet, apiVars, hostVars
<1>8. CASE UpdateRejected(n)
    BY <1>0, <1>2, <1>8 DEF UpdateRejected, Quiet, apiVars, hostVars
<1>9. CASE VGDiscover(n)
    <2>1. /\ UNCHANGED <<apiVars, seen, queue, hostVars, edits>>
          /\ faults' \in Nat
        BY <1>2, <1>9 DEF VGDiscover
    <2>2. \E pc \in PC, found, failed \in BOOLEAN, cond \in Condition :
             Continue(n, pc, found, cond, failed)
        BY <1>1, <1>9 DEF VGDiscover, Discovered, Goto, Report, PC
    <2> QED BY <1>0, <1>2, <2>1, <2>2 DEF Quiet, apiVars, hostVars
<1>10. CASE VGCreateSucceeds(n)
    BY <1>0, <1>1, <1>2, <1>10
       DEF VGCreateSucceeds, Discovered, PC, Quiet, apiVars
<1>11. CASE ConvertFails(n)
    BY <1>0, <1>1, <1>2, <1>11 DEF ConvertFails, Report, PC, Quiet, apiVars, hostVars
<1>12. CASE VGCreateFails(n)
    <2>1. /\ UNCHANGED <<apiVars, seen, queue, inUse, edits>>
          /\ faults' \in Nat
          /\ host' \in [Node -> [VGName -> CR \cup {NoVG, Foreign}]]
        BY <1>1, <1>2, <1>12 DEF VGCreateFails
    <2>2. \E pc \in PC, found, failed \in BOOLEAN, cond \in Condition :
             Continue(n, pc, found, cond, failed)
        BY <1>1, <1>3, <1>12 DEF VGCreateFails, Report, PC
    <2> QED BY <1>0, <1>2, <2>1, <2>2 DEF Quiet, apiVars
<1>13. CASE SyncSucceeds(n)
    BY <1>0, <1>1, <1>2, <1>3, <1>13 DEF SyncSucceeds, Report, PC, Quiet, apiVars, hostVars
<1>14. CASE SyncFails(n)
    BY <1>0, <1>1, <1>2, <1>3, <1>14 DEF SyncFails, Report, PC, Quiet, apiVars, hostVars
<1>15. CASE SyncPanics(n)
    BY <1>0, <1>2, <1>15 DEF SyncPanics, Quiet, apiVars, hostVars
<1>16. CASE SelectorPanics(n)
    BY <1>0, <1>2, <1>16 DEF SelectorPanics, Quiet, apiVars, hostVars
<1>17. CASE DeadlinePasses(n)
    <2>1. host' \in [Node -> [VGName -> CR \cup {NoVG, Foreign}]]
        <3>1. \/ host' = host
              \/ host' = [host EXCEPT ![n][Name(n)] = rec[n].cr]
            BY <1>17 DEF DeadlinePasses
        <3>2. host \in [Node -> [VGName -> CR \cup {NoVG, Foreign}]]
            BY <1>2
        <3>3. ASSUME NEW a \in VGName, NEW v \in CR, host' = [host EXCEPT ![n][a] = v]
              PROVE  host' \in [Node -> [VGName -> CR \cup {NoVG, Foreign}]]
            <4>1. [host[n] EXCEPT ![a] = v] \in [VGName -> CR \cup {NoVG, Foreign}]
                BY <3>2
            <4> QED BY <3>2, <3>3, <4>1
        <3>4. Name(n) \in VGName /\ rec[n].cr \in CR
            BY <1>1
        <3> QED BY <3>1, <3>2, <3>3, <3>4, Zenon
    <2> QED BY <1>0, <1>2, <1>17, <2>1 DEF DeadlinePasses, Quiet, apiVars
<1> QED BY <1>5, <1>6, <1>7, <1>8, <1>9, <1>10, <1>11, <1>12, <1>13, <1>14, <1>15,
           <1>16, <1>17
        DEF QuietStep

\* The three writes of the reconciler.
LEMMA BaseWrite ==
    ASSUME Base, NEW n \in Node, RemoveFinalizer(n) \/ AddFinalizer(n) \/ StatusUpdate(n)
    PROVE  Base'
<1>0. TypeOK /\ Busy(n)
    BY DEF Base, Busy, RemoveFinalizer, AddFinalizer, StatusUpdate
<1>1. /\ rec[n].cr \in CR
      /\ Obj(n) \in Version
      /\ rec[n].cond \in Condition
      /\ rec[n].failed \in BOOLEAN
      /\ edits \in Nat /\ faults \in Nat
      /\ (Fault \/ NoFault => faults' \in Nat)
      /\ (Edit \/ UNCHANGED edits => edits' \in Nat)
    BY <1>0, ObjType DEF TypeOK, Work, Fault, NoFault, Edit
<1>2. \E requeue \in BOOLEAN : Return(n, requeue)
    BY <1>1 DEF RemoveFinalizer, AddFinalizer, StatusUpdate, StoreCondition
<1>3. rec' = [rec EXCEPT ![n] = Rest("idle")] /\ queue' \in [Node -> SUBSET CR]
    BY <1>0, <1>2, StepWork
<1>4. /\ rec' \in [Node -> Work]
      /\ \A m \in Node : rec'[m] \in {rec[m], Rest("idle")}
    BY <1>0, <1>3, RestType DEF TypeOK
<1>5. /\ seen' = seen /\ host' = host /\ inUse' = inUse /\ graceOver' = graceOver
      /\ edits' \in Nat /\ faults' \in Nat
    BY <1>1 DEF RemoveFinalizer, AddFinalizer, StatusUpdate, hostVars
<1>6. \/ Store(rec[n].cr, WithFinalizer(Obj(n), FALSE))
      \/ Store(rec[n].cr, WithFinalizer(Obj(n), TRUE))
      \/ Store(rec[n].cr, WithCondition(Obj(n), rec[n].cond))
      \/ hist' = hist
    BY DEF RemoveFinalizer, AddFinalizer, StatusUpdate, StoreCondition
<1>7. /\ WithFinalizer(Obj(n), FALSE) \in Version
      /\ WithFinalizer(Obj(n), TRUE) \in Version
      /\ WithCondition(Obj(n), rec[n].cond) \in Version
    BY <1>1, WriteType, ConditionWriteType DEF Is
<1>8. CASE hist' = hist
    <2>1. Quiet(n)
        BY <1>0, <1>2, <1>5, <1>8 DEF Quiet, TypeOK
    <2> QED BY <2>1, QuietKeepsBase
<1> QED BY <1>1, <1>3, <1>4, <1>5, <1>6, <1>7, <1>8, StoreKeepsBase

\* Every step keeps Base.
LEMMA BaseStep == Base /\ [Next]_vars => Base'
<1> SUFFICES ASSUME Base, [Next]_vars PROVE Base'
    OBVIOUS
<1>1. CASE User
    BY <1>1, BaseUser
<1>2. CASE Host
    BY <1>2, BaseHost
<1>3. ASSUME NEW n \in Node, NEW cr \in CR, Observe(n, cr) \/ Begin(n, cr)
      PROVE  Base'
    BY <1>3, BaseCache
<1>4. ASSUME NEW n \in Node, Proceed(n)
      PROVE  Base'
    <2>1. \/ QuietStep(n)
          \/ RemoveFinalizer(n) \/ AddFinalizer(n) \/ StatusUpdate(n)
        BY <1>4 DEF Proceed, Remove, Maintain, QuietStep
    <2> QED BY <2>1, QuietSteps, QuietKeepsBase, BaseWrite
<1>5. ASSUME NEW n \in Node, Crash(n) \/ Restart(n)
      PROVE  Base'
    BY <1>5, BaseProcess
<1>6. CASE UNCHANGED vars
    BY <1>6 DEF vars, Base, TypeOK, CacheBehind, WorkRead, Busy
<1> QED BY <1>1, <1>2, <1>3, <1>4, <1>5, <1>6 DEF Next

\* Every state of the specification is well typed, and every reconcile in flight
\* works on a version its node has read of a resource of its own.
THEOREM TypeCorrect == Spec => [](TypeOK /\ CacheBehind /\ WorkRead)
<1>1. Spec => []Base
    BY BaseInit, BaseStep, PTL DEF Spec
<1> QED BY <1>1 DEF Base
-----------------------------------------------------------------------------
(* Deletion, finalizers and the VGs they stand for *)

Safe == /\ DeletionSticks
        /\ BranchOfVersion
        /\ CreatedAtHome
        /\ DropsAreSeen
        /\ DroppedFinalizerMeansRemoved
        /\ SyncedImpliesProtected

\* Safe holds at first: there is no history, no work and no VG.
LEMMA SafeInit == Init => Safe
<1> SUFFICES ASSUME Init PROVE Safe
    OBVIOUS
<1>1. \A cr \in CR : hist[cr] = <<>> /\ Len(hist[cr]) = 0
    BY DEF Init
<1>2. DeletionSticks /\ DropsAreSeen /\ DroppedFinalizerMeansRemoved /\ SyncedImpliesProtected
    BY <1>1 DEF DeletionSticks, DropsAreSeen, DroppedFinalizerMeansRemoved,
                SyncedImpliesProtected
<1>3. BranchOfVersion
    BY DEF Init, BranchOfVersion, Busy, Rest
<1>4. CreatedAtHome
    BY DEF Init, CreatedAtHome
<1> QED BY <1>2, <1>3, <1>4 DEF Safe

\* A version of the history, for the facts about histories below.
LEMMA HistType ==
    ASSUME TypeOK, NEW cr \in CR
    PROVE  /\ Len(hist[cr]) \in Nat
           /\ \A i \in 1 .. Len(hist[cr]) : hist[cr][i] \in Version
BY DEF TypeOK

\* While a resource is dropped by its node, no live version of it is in work.
LEMMA NoLiveWorkAfterDrop ==
    ASSUME Base, Safe, NEW n \in Node, Busy(n), ~Obj(n).deleting,
           NEW i \in 1 .. Len(hist[rec[n].cr])
    PROVE  ~DroppedAt(rec[n].cr, i)
<1> SUFFICES ASSUME DroppedAt(rec[n].cr, i) PROVE FALSE
    OBVIOUS
<1>1. rec[n].cr \in CR /\ rec[n].ver \in 1 .. Len(hist[rec[n].cr])
    BY ObjType
<1>2. hist[rec[n].cr][i].deleting /\ i <= rec[n].ver
    BY <1>1 DEF Safe, DropsAreSeen
<1>3. hist[rec[n].cr][rec[n].ver].deleting
    BY <1>1, <1>2 DEF Safe, DeletionSticks
<1> QED BY <1>3 DEF Obj

\* What keeps the invariant when the API server stores nothing: caches grow,
\* work starts only from what is seen, goes on in its branch, or ends; a VG is
\* removed, or created by somebody else, or for a live version in work.
LEMMA NoStoreKeepsSafe ==
    ASSUME Base, Base', Safe, hist' = hist,
           \A m \in Node, c \in CR : seen[m][c] <= seen'[m][c],
           \A m \in Node : Busy(m)' =>
               \/ /\ Busy(m)
                  /\ rec'[m].cr = rec[m].cr
                  /\ rec'[m].ver = rec[m].ver
               \/ rec'[m].ver = seen[m][rec'[m].cr],
           \A m \in Node : Busy(m)' =>
               /\ Obj(m)'.deleting <=> rec'[m].pc \in {"remove", "unfinalize"}
               /\ rec'[m].pc = "unfinalize" => host'[m][Name(m)'] # rec'[m].cr
               /\ rec'[m].pc = "sync" => Obj(m)'.finalizer
               /\ rec'[m].cond.reason = "Synced" => Obj(m)'.finalizer \/ Obj(m)'.deleting,
           \A m \in Node, nm \in VGName :
               \/ host'[m][nm] \in {host[m][nm], NoVG, Foreign}
               \/ /\ Busy(m)
                  /\ ~Obj(m).deleting
                  /\ host'[m][nm] = rec[m].cr
    PROVE  Safe'
<1>0. TypeOK
    BY DEF Base
<1>1. DeletionSticks' /\ SyncedImpliesProtected'
    BY DEF Safe, DeletionSticks, SyncedImpliesProtected
<1>2. BranchOfVersion'
    BY DEF BranchOfVersion
<1>3. CreatedAtHome'
    <2> SUFFICES ASSUME NEW m \in Node, NEW nm \in VGName, host'[m][nm] \in CR
                 PROVE  NodeName[host'[m][nm]] = m
        BY DEF CreatedAtHome
    <2>1. CASE host'[m][nm] \in {host[m][nm], NoVG, Foreign}
        BY <2>1 DEF Safe, CreatedAtHome
    <2>2. CASE Busy(m) /\ host'[m][nm] = rec[m].cr
        BY <2>2, ObjType
    <2> QED BY <2>1, <2>2
<1>4. \A c \in CR, i \in Nat : DroppedAt(c, i)' <=> DroppedAt(c, i)
    BY DEF DroppedAt
<1>5. DropsAreSeen'
    <2> SUFFICES ASSUME NEW c \in CR, NEW i \in 1 .. Len(hist[c]), DroppedAt(c, i)
                 PROVE  /\ hist[c][i].deleting
                        /\ i <= seen'[NodeName[c]][c]
                        /\ \A m \in Node : Busy(m)' /\ rec'[m].cr = c => i <= rec'[m].ver
        BY <1>0, <1>4, HistType DEF DropsAreSeen
    <2>1. hist[c][i].deleting /\ i <= seen[NodeName[c]][c] /\ i \in Nat
        BY <1>0, HistType DEF Safe, DropsAreSeen
    <2>2. NodeName[c] \in Node
        OBVIOUS
    <2>3. i <= seen'[NodeName[c]][c]
        <3>1. seen[NodeName[c]][c] \in Nat /\ seen'[NodeName[c]][c] \in Nat
            BY <2>2 DEF Base, TypeOK
        <3> QED BY <2>1, <2>2, <3>1
    <2>4. ASSUME NEW m \in Node, Busy(m)', rec'[m].cr = c
          PROVE  i <= rec'[m].ver
        <3>1. CASE Busy(m) /\ rec'[m].cr = rec[m].cr /\ rec'[m].ver = rec[m].ver
            BY <2>4, <3>1 DEF Safe, DropsAreSeen
        <3>2. CASE rec'[m].ver = seen[m][rec'[m].cr]
            <4>1. NodeName[c] = m
                BY <2>4 DEF Base, WorkRead
            <4> QED BY <2>1, <2>4, <3>2, <4>1
        <3> QED BY <2>4, <3>1, <3>2
    <2> QED BY <2>1, <2>3, <2>4
<1>6. DroppedFinalizerMeansRemoved'
    <2> SUFFICES ASSUME NEW c \in CR, NEW m \in Node, NEW i \in 1 .. Len(hist[c]),
                        DroppedAt(c, i)
                 PROVE  host'[m][getNameOnNode(c, hist[c][i])] # c
        BY <1>0, <1>4, HistType DEF DroppedFinalizerMeansRemoved, getNameOnNode
    <2> DEFINE nm == getNameOnNode(c, hist[c][i])
    <2>1. nm \in VGName
        BY <1>0, HistType DEF getNameOnNode, Version
    <2>2. host[m][nm] # c
        BY DEF Safe, DroppedFinalizerMeansRemoved
    <2>3. CASE host'[m][nm] \in {host[m][nm], NoVG, Foreign}
        BY <2>2, <2>3
    <2>4. CASE Busy(m) /\ ~Obj(m).deleting /\ host'[m][nm] = rec[m].cr
        <3>1. CASE rec[m].cr = c
            BY <2>4, <3>1, NoLiveWorkAfterDrop
        <3>2. CASE rec[m].cr # c
            BY <2>4, <3>2
        <3> QED BY <3>1, <3>2
    <2> QED BY <2>1, <2>3, <2>4
<1> QED BY <1>1, <1>2, <1>3, <1>5, <1>6 DEF Safe

\* What keeps the invariant when the API server stores a version: deletion is
\* never taken back, and the finalizer is dropped only from the latest version,
\* seen as being deleted, with its VG off the hosts.
LEMMA StoreKeepsSafe ==
    ASSUME Base, Base', Safe, NEW cr \in CR, NEW o \in Version, Store(cr, o),
           seen' = seen, host' = host,
           \A m \in Node : rec'[m] \in {rec[m], Rest("idle")},
           o.cond.reason = "Synced" => o.finalizer \/ o.deleting,
           Len(hist[cr]) > 0 /\ Latest(cr).deleting => o.deleting,
           Len(hist[cr]) > 0 /\ Latest(cr).finalizer /\ ~o.finalizer =>
               /\ Latest(cr).deleting
               /\ Len(hist[cr]) <= seen[NodeName[cr]][cr]
               /\ \A m \in Node : Busy(m)' /\ rec[m].cr = cr => Len(hist[cr]) <= rec[m].ver
               /\ \A m \in Node : host[m][getNameOnNode(cr, Latest(cr))] # cr
    PROVE  Safe'
<1>0. TypeOK /\ TypeOK'
    BY DEF Base
<1>1. /\ Len(hist'[cr]) = Len(hist[cr]) + 1
      /\ hist'[cr][Len(hist[cr]) + 1] = Stored(o)
      /\ \A c \in CR : c # cr => hist'[c] = hist[c]
      /\ \A c \in CR : /\ Len(hist[c]) <= Len(hist'[c])
                       /\ \A i \in 1 .. Len(hist[c]) : hist'[c][i] = hist[c][i]
      /\ \A c \in CR : Len(hist[c]) \in Nat
    BY <1>0, StoreAppends, HistType DEF TypeOK
<1>2. /\ Stored(o).finalizer = o.finalizer
      /\ Stored(o).deleting = o.deleting
      /\ Stored(o).cond = o.cond
    BY StoredType
<1>3. ASSUME NEW c \in CR, NEW i \in 1 .. Len(hist'[c])
      PROVE  \/ i \in 1 .. Len(hist[c]) /\ hist'[c][i] = hist[c][i]
             \/ c = cr /\ i = Len(hist[cr]) + 1 /\ hist'[c][i] = Stored(o)
    <2>1. CASE c = cr
        BY <1>1, <2>1
    <2>2. CASE c # cr
        BY <1>1, <2>2
    <2> QED BY <2>1, <2>2
<1>4. DeletionSticks'
    <2> SUFFICES ASSUME NEW c \in CR, NEW i \in 1 .. Len(hist'[c]),
                        NEW j \in 1 .. Len(hist'[c]),
                        i <= j, hist'[c][i].deleting
                 PROVE  hist'[c][j].deleting
        BY DEF DeletionSticks
    <2>1. CASE j \in 1 .. Len(hist[c]) /\ hist'[c][j] = hist[c][j]
        <3>1. i \in 1 .. Len(hist[c]) /\ hist'[c][i] = hist[c][i]
            BY <1>1, <2>1
        <3> QED BY <2>1, <3>1 DEF Safe, DeletionSticks
    <2>2. CASE c = cr /\ j = Len(hist[cr]) + 1 /\ hist'[c][j] = Stored(o)
        <3>1. CASE i = Len(hist[cr]) + 1
            BY <2>2, <3>1
        <3>2. CASE i \in 1 .. Len(hist[cr]) /\ hist'[c][i] = hist[c][i]
            <4>1. Len(hist[cr]) \in 1 .. Len(hist[cr]) /\ i <= Len(hist[cr])
                BY <1>1, <3>2
            <4>2. Latest(cr).deleting
                BY <2>2, <3>2, <4>1 DEF Safe, DeletionSticks, Latest
            <4> QED BY <1>1, <1>2, <2>2, <4>1, <4>2
        <3> QED BY <1>3, <2>2, <3>1, <3>2
    <2> QED BY <1>3, <2>1, <2>2
<1>5. SyncedImpliesProtected'
    <2> SUFFICES ASSUME NEW c \in CR, NEW i \in 1 .. Len(hist'[c]),
                        hist'[c][i].cond.reason = "Synced"
                 PROVE  hist'[c][i].finalizer \/ hist'[c][i].deleting
        BY DEF SyncedImpliesProtected
    <2>1. CASE i \in 1 .. Len(hist[c]) /\ hist'[c][i] = hist[c][i]
        BY <2>1 DEF Safe, SyncedImpliesProtected
    <2>2. CASE hist'[c][i] = Stored(o)
        BY <1>2, <2>2
    <2> QED BY <1>3, <2>1, <2>2
<1>6. CreatedAtHome'
    BY DEF Safe, CreatedAtHome
<1>7. ASSUME NEW m \in Node, Busy(m)'
      PROVE  /\ Busy(m) /\ rec'[m] = rec[m]
             /\ rec[m].cr \in CR
             /\ Obj(m)' = Obj(m)
    <2>1. Busy(m) /\ rec'[m] = rec[m]
        BY <1>7 DEF Busy, Rest
    <2>2. rec[m].cr \in CR /\ rec[m].ver \in 1 .. Len(hist[rec[m].cr])
        BY <2>1, ObjType
    <2> QED BY <1>1, <2>1, <2>2 DEF Obj
<1>8. BranchOfVersion'
    BY <1>7 DEF Safe, BranchOfVersion, Name
<1>9. ASSUME NEW c \in CR, NEW i \in 1 .. Len(hist'[c]), DroppedAt(c, i)'
      PROVE  \/ /\ i \in 1 .. Len(hist[c])
                /\ hist'[c][i] = hist[c][i]
                /\ DroppedAt(c, i)
             \/ /\ c = cr
                /\ i = Len(hist[cr])
                /\ Len(hist[cr]) > 0
                /\ hist'[c][i] = Latest(cr)
                /\ Latest(cr).finalizer
                /\ ~o.finalizer
    <2>0. i \in 1 .. Len(hist'[c]) - 1 /\ hist'[c][i].finalizer /\ ~hist'[c][i + 1].finalizer
        BY <1>9 DEF DroppedAt
    <2>1. CASE i + 1 \in 1 .. Len(hist[c])
        <3>1. /\ i \in 1 .. Len(hist[c]) - 1
              /\ i \in 1 .. Len(hist[c])
              /\ hist'[c][i] = hist[c][i]
              /\ hist'[c][i + 1] = hist[c][i + 1]
            BY <1>1, <2>0, <2>1
        <3> QED BY <2>0, <3>1 DEF DroppedAt
    <2>2. CASE i + 1 \notin 1 .. Len(hist[c])
        <3>1. c = cr
            BY <1>1, <2>0, <2>2
        <3>2. i = Len(hist[cr]) /\ Len(hist[cr]) > 0
            BY <1>1, <2>0, <2>2, <3>1
        <3>3. hist'[c][i] = Latest(cr) /\ hist'[c][i + 1] = Stored(o)
            BY <1>1, <3>1, <3>2 DEF Latest
        <3> QED BY <1>2, <2>0, <3>1, <3>2, <3>3
    <2> QED BY <2>1, <2>2
<1>10. DropsAreSeen'
    <2> SUFFICES ASSUME NEW c \in CR, NEW i \in 1 .. Len(hist'[c]), DroppedAt(c, i)'
                 PROVE  /\ hist'[c][i].deleting
                        /\ i <= seen'[NodeName[c]][c]
                        /\ \A m \in Node : Busy(m)' /\ rec'[m].cr = c => i <= rec'[m].ver
        BY DEF DropsAreSeen
    <2>1. CASE i \in 1 .. Len(hist[c]) /\ hist'[c][i] = hist[c][i] /\ DroppedAt(c, i)
        BY <1>7, <2>1 DEF Safe, DropsAreSeen
    <2>2. CASE /\ c = cr
               /\ i = Len(hist[cr])
               /\ Len(hist[cr]) > 0
               /\ hist'[c][i] = Latest(cr)
               /\ Latest(cr).finalizer
               /\ ~o.finalizer
        BY <1>7, <2>2
    <2> QED BY <1>9, <2>1, <2>2
<1>11. DroppedFinalizerMeansRemoved'
    <2> SUFFICES ASSUME NEW c \in CR, NEW m \in Node, NEW i \in 1 .. Len(hist'[c]),
                        DroppedAt(c, i)'
                 PROVE  host[m][getNameOnNode(c, hist'[c][i])] # c
        BY DEF DroppedFinalizerMeansRemoved, getNameOnNode
    <2>1. CASE i \in 1 .. Len(hist[c]) /\ hist'[c][i] = hist[c][i] /\ DroppedAt(c, i)
        BY <2>1 DEF Safe, DroppedFinalizerMeansRemoved
    <2>2. CASE /\ c = cr
               /\ i = Len(hist[cr])
               /\ Len(hist[cr]) > 0
               /\ hist'[c][i] = Latest(cr)
               /\ Latest(cr).finalizer
               /\ ~o.finalizer
        BY <2>2
    <2> QED BY <1>9, <2>1, <2>2
<1> QED BY <1>4, <1>5, <1>6, <1>8, <1>10, <1>11 DEF Safe

\* The latest version may be stored again when the finalizer stays.
LEMMA KeptFinalizerKeepsSafe ==
    ASSUME Base, Base', Safe, NEW cr \in CR, hist[cr] # <<>>,
           NEW o \in Version, Store(cr, o),
           seen' = seen, host' = host,
           \A m \in Node : rec'[m] \in {rec[m], Rest("idle")},
           o.finalizer = Latest(cr).finalizer,
           o.deleting = Latest(cr).deleting \/ o.deleting,
           o.cond = Latest(cr).cond
    PROVE  Safe'
<1>1. Latest(cr) \in Version /\ Len(hist[cr]) \in 1 .. Len(hist[cr])
    BY LatestType DEF Base
<1>2. Latest(cr).cond.reason = "Synced" => Latest(cr).finalizer \/ Latest(cr).deleting
    BY <1>1 DEF Safe, SyncedImpliesProtected, Latest
<1>3. Latest(cr).deleting => o.deleting
    BY <1>1 DEF Version
<1> QED BY <1>1, <1>2, <1>3, StoreKeepsSafe DEF Version

\* Users and other controllers never touch our finalizer, so no drop is new.
LEMMA SafeUser == Base /\ Base' /\ Safe /\ User => Safe'
<1> SUFFICES ASSUME Base, Base', Safe, NEW cr \in CR,
                    \/ UserCreate(cr) \/ UserRename(cr) \/ UserDelete(cr)
                    \/ DropOtherFinalizer(cr) \/ GraceExpires(cr)
             PROVE  Safe'
    BY DEF User
<1>0. TypeOK
    BY DEF Base
<1>1. seen' = seen /\ rec' = rec /\ host' = host
    BY DEF UserCreate, UserRename, UserDelete, DropOtherFinalizer, GraceExpires, hostVars
<1>2. CASE UserCreate(cr)
    <2>1. PICK nm \in NameOnNode[cr], others \in OtherFinalizers :
             Store(cr, [exists |-> TRUE, nameOnNode |-> nm, gen |-> 1,
                        finalizer |-> FALSE, others |-> others,
                        deleting |-> FALSE, cond |-> NoCondition])
        BY <1>2 DEF UserCreate
    <2> DEFINE o == [exists |-> TRUE, nameOnNode |-> nm, gen |-> 1,
                     finalizer |-> FALSE, others |-> others,
                     deleting |-> FALSE, cond |-> NoCondition]
    <2>2. /\ o \in Version
          /\ o.cond.reason # "Synced"
        BY DEF Version, NoCondition, Condition, Reason
    <2>3. Len(hist[cr]) = 0
        BY <1>2 DEF UserCreate
    <2> QED BY <1>1, <2>1, <2>2, <2>3, StoreKeepsSafe
<1>3. CASE UserRename(cr)
    <2>1. hist[cr] # <<>> /\ Latest(cr) \in Version
        BY <1>0, <1>3, LatestType DEF UserRename, Exists
    <2>2. PICK nm \in NameOnNode[cr] : Store(cr, Renamed(Latest(cr), nm))
        BY <1>3 DEF UserRename
    <2>3. /\ Renamed(Latest(cr), nm) \in Version
          /\ Renamed(Latest(cr), nm).finalizer = Latest(cr).finalizer
          /\ Renamed(Latest(cr), nm).deleting = Latest(cr).deleting
          /\ Renamed(Latest(cr), nm).cond = Latest(cr).cond
        <3>1. nm \in VGName \cup {Unset}
            OBVIOUS
        <3>2. \A o \in Version, x \in VGName \cup {Unset} :
                 Is(Renamed(o, x), x, o.gen + 1, o.finalizer, o.others, o.deleting, o.cond)
            BY WriteType
        <3> QED BY <2>1, <3>1, <3>2, Zenon DEF Is
    <2> QED BY <1>1, <2>1, <2>2, <2>3, KeptFinalizerKeepsSafe DEF Version
<1>4. CASE UserDelete(cr)
    <2>1. hist[cr] # <<>> /\ Latest(cr) \in Version
        BY <1>0, <1>4, LatestType DEF UserDelete, Exists
    <2>2. Store(cr, MarkedDeleted(Latest(cr)))
        BY <1>4 DEF UserDelete
    <2>3. /\ MarkedDeleted(Latest(cr)) \in Version
          /\ MarkedDeleted(Latest(cr)).finalizer = Latest(cr).finalizer
          /\ MarkedDeleted(Latest(cr)).deleting = TRUE
          /\ MarkedDeleted(Latest(cr)).cond = Latest(cr).cond
        BY <2>1, WriteType, Zenon DEF Is
    <2> QED BY <1>1, <2>1, <2>2, <2>3, KeptFinalizerKeepsSafe
<1>5. CASE DropOtherFinalizer(cr)
    <2>1. hist[cr] # <<>> /\ Latest(cr) \in Version
        BY <1>0, <1>5, LatestType DEF DropOtherFinalizer, Exists
    <2>2. Store(cr, Released(Latest(cr)))
        BY <1>5 DEF DropOtherFinalizer
    <2>3. /\ Released(Latest(cr)) \in Version
          /\ Released(Latest(cr)).finalizer = Latest(cr).finalizer
          /\ Released(Latest(cr)).deleting = Latest(cr).deleting
          /\ Released(Latest(cr)).cond = Latest(cr).cond
        BY <2>1, WriteType DEF Is
    <2> QED BY <1>1, <2>1, <2>2, <2>3, KeptFinalizerKeepsSafe
<1>6. CASE GraceExpires(cr)
    <2>1. hist' = hist
        BY <1>6 DEF GraceExpires
    <2> QED BY <1>1, <2>1, ZenonT(30)
            DEF Safe, DeletionSticks, BranchOfVersion, CreatedAtHome, DropsAreSeen,
                DroppedFinalizerMeansRemoved, SyncedImpliesProtected, DroppedAt, Busy,
                Obj, Name
<1> QED BY <1>2, <1>3, <1>4, <1>5, <1>6

\* Caches do not forget what they have seen.
LEMMA SeenStays ==
    ASSUME Base, seen' = seen
    PROVE  \A m \in Node, c \in CR : seen[m][c] <= seen'[m][c]
BY DEF Base, TypeOK

\* Administrators remove VGs, or create VGs that are not ours.
LEMMA SafeHost == Base /\ Base' /\ Safe /\ Host => Safe'
<1> SUFFICES ASSUME Base, Base', Safe, NEW n \in Node, NEW nm \in VGName,
                    HostRemove(n, nm) \/ HostCreate(n, nm) \/ CreateLV(n, nm)
             PROVE  Safe'
    BY DEF Host
<1>1. hist' = hist /\ seen' = seen /\ rec' = rec
    BY DEF HostRemove, HostCreate, CreateLV, apiVars
<1>2. ASSUME NEW m \in Node, NEW x \in VGName
      PROVE  host'[m][x] \in {host[m][x], NoVG, Foreign}
    <2>1. host \in [Node -> [VGName -> CR \cup {NoVG, Foreign}]]
        BY DEF Base, TypeOK
    <2>2. \/ host' = [host EXCEPT ![n][nm] = NoVG]
          \/ host' = [host EXCEPT ![n][nm] = Foreign]
          \/ host' = host
        BY DEF HostRemove, HostCreate, CreateLV
    <2> QED BY <2>1, <2>2
<1>3. \A m \in Node : Busy(m)' => Busy(m) /\ rec[m].cr \in CR /\ Name(m) \in VGName
    BY <1>1, ObjType DEF Busy
<1>4. \A m \in Node : Busy(m)' =>
          /\ Obj(m).deleting <=> rec[m].pc \in {"remove", "unfinalize"}
          /\ rec[m].pc = "unfinalize" => host[m][Name(m)] # rec[m].cr
          /\ rec[m].pc = "sync" => Obj(m).finalizer
          /\ rec[m].cond.reason = "Synced" => Obj(m).finalizer \/ Obj(m).deleting
    BY <1>3 DEF Safe, BranchOfVersion
<1>5. \A m \in Node : Obj(m)' = Obj(m) /\ Name(m)' = Name(m)
    BY <1>1 DEF Obj, Name
<1>6. \A m \in Node : Busy(m)' =>
          /\ Obj(m)'.deleting <=> rec'[m].pc \in {"remove", "unfinalize"}
          /\ rec'[m].pc = "unfinalize" => host'[m][Name(m)'] # rec'[m].cr
          /\ rec'[m].pc = "sync" => Obj(m)'.finalizer
          /\ rec'[m].cond.reason = "Synced" => Obj(m)'.finalizer \/ Obj(m)'.deleting
    BY <1>1, <1>2, <1>3, <1>4, <1>5
<1> QED BY <1>1, <1>2, <1>3, <1>6, SeenStays, NoStoreKeepsSafe

\* A cache that moves on, and a reconcile that begins with what the cache has,
\* keep Safe: a version from before a drop is never read again.
LEMMA SafeCache ==
    ASSUME Base, Base', Safe, NEW n \in Node, NEW cr \in CR, Observe(n, cr) \/ Begin(n, cr)
    PROVE  Safe'
<1>0. /\ TypeOK
      /\ hist[cr] \in Seq(Version)
      /\ seen[n][cr] \in Nat
      /\ seen[n][cr] <= Len(hist[cr])
    BY DEF Base, TypeOK, CacheBehind
<1>1. hist' = hist /\ host' = host
    BY DEF Observe, Begin, ReconcileSkip, ReconcileBegin, apiVars, hostVars
<1>2. \A m \in Node, x \in VGName : host'[m][x] \in {host[m][x], NoVG, Foreign}
    BY <1>1
<1>3. \A m \in Node, c \in CR : seen[m][c] <= seen'[m][c]
    <2>1. CASE Observe(n, cr)
        <3>1. PICK v \in seen[n][cr] + 1 .. Len(hist[cr]) :
                 seen' = [seen EXCEPT ![n][cr] = v]
            BY <2>1 DEF Observe
        <3>2. seen[n][cr] <= v /\ v \in Nat
            BY <1>0
        <3> SUFFICES ASSUME NEW m \in Node, NEW c \in CR
                     PROVE  seen[m][c] <= seen'[m][c]
            OBVIOUS
        <3>3. /\ seen[m][c] \in Nat
              /\ seen'[m][c] = IF m = n /\ c = cr THEN v ELSE seen[m][c]
            BY <1>0, <3>1 DEF TypeOK
        <3> QED BY <3>2, <3>3
    <2>2. CASE Begin(n, cr)
        BY <2>2, SeenStays DEF Begin, ReconcileSkip, ReconcileBegin
    <2> QED BY <2>1, <2>2
<1>4. CASE rec' = rec
    <2>1. \A m \in Node : Obj(m)' = Obj(m) /\ Name(m)' = Name(m) /\ (Busy(m)' <=> Busy(m))
        BY <1>1, <1>4 DEF Obj, Name, Busy
    <2>2. \A m \in Node : Busy(m)' =>
              /\ Obj(m)'.deleting <=> rec'[m].pc \in {"remove", "unfinalize"}
              /\ rec'[m].pc = "unfinalize" => host'[m][Name(m)'] # rec'[m].cr
              /\ rec'[m].pc = "sync" => Obj(m)'.finalizer
              /\ rec'[m].cond.reason = "Synced" => Obj(m)'.finalizer \/ Obj(m)'.deleting
        BY <1>1, <1>4, <2>1 DEF Safe, BranchOfVersion
    <2> QED BY <1>1, <1>2, <1>3, <1>4, <2>1, <2>2, NoStoreKeepsSafe
<1>5. CASE ReconcileBegin(n, cr)
    <2> DEFINE obj == hist[cr][seen[n][cr]]
               w == [pc     |-> IF obj.deleting THEN "remove" ELSE "discover",
                     cr     |-> cr,
                     ver    |-> seen[n][cr],
                     found  |-> FALSE,
                     force  |-> obj.deleting /\ cr \in graceOver,
                     failed |-> FALSE,
                     cond   |-> obj.cond]
    <2>1. /\ seen[n][cr] \in 1 .. Len(hist[cr])
          /\ rec' = [rec EXCEPT ![n] = w]
        BY <1>0, <1>5 DEF ReconcileBegin, Mine
    <2>2. obj \in Version
        BY <1>0, <2>1
    <2>3. /\ w.pc \in {"remove", "discover"}
          /\ obj.deleting <=> w.pc = "remove"
          /\ w.cr = cr
          /\ w.ver = seen[n][cr]
          /\ w.cond = obj.cond
        OBVIOUS
    <2> HIDE DEF w
    <2>4. /\ rec'[n] = w
          /\ \A m \in Node : m # n => rec'[m] = rec[m]
        BY <1>0, <2>1 DEF TypeOK
    <2>5. Obj(n)' = obj
        BY <1>1, <2>3, <2>4 DEF Obj
    <2>6. obj.cond.reason = "Synced" => obj.finalizer \/ obj.deleting
        BY <2>1 DEF Safe, SyncedImpliesProtected
    <2>7. ASSUME NEW m \in Node, Busy(m)'
          PROVE  /\ Obj(m)'.deleting <=> rec'[m].pc \in {"remove", "unfinalize"}
                 /\ rec'[m].pc = "unfinalize" => host'[m][Name(m)'] # rec'[m].cr
                 /\ rec'[m].pc = "sync" => Obj(m)'.finalizer
                 /\ rec'[m].cond.reason = "Synced" => Obj(m)'.finalizer \/ Obj(m)'.deleting
        <3>1. CASE m = n
            BY <2>3, <2>4, <2>5, <2>6, <3>1
        <3>2. CASE m # n
            <4>1. Obj(m)' = Obj(m) /\ Name(m)' = Name(m) /\ Busy(m) /\ rec'[m] = rec[m]
                BY <1>1, <2>4, <2>7, <3>2 DEF Obj, Name, Busy
            <4> QED BY <1>1, <4>1 DEF Safe, BranchOfVersion
        <3> QED BY <3>1, <3>2
    <2>8. \A m \in Node : Busy(m)' =>
              \/ Busy(m) /\ rec'[m].cr = rec[m].cr /\ rec'[m].ver = rec[m].ver
              \/ rec'[m].ver = seen[m][rec'[m].cr]
        BY <2>3, <2>4 DEF Busy
    <2> QED BY <1>1, <1>2, <1>3, <2>7, <2>8, NoStoreKeepsSafe
<1> QED BY <1>4, <1>5 DEF Observe, Begin, ReconcileSkip

\* A node that rests has no branch to be in, and the others stay in theirs.
LEMMA RestKeepsSafe ==
    ASSUME Base, Base', Safe, NEW n \in Node, NEW pc \in {"idle", "down", "panicked"},
           rec' = [rec EXCEPT ![n] = Rest(pc)],
           hist' = hist,
           \A m \in Node, c \in CR : seen[m][c] <= seen'[m][c],
           \A m \in Node : m # n => host'[m] = host[m],
           \A x \in VGName : \/ host'[n][x] \in {host[n][x], NoVG, Foreign}
                             \/ Busy(n) /\ ~Obj(n).deleting /\ host'[n][x] = rec[n].cr
    PROVE  Safe'
<1>1. ASSUME NEW m \in Node, Busy(m)'
      PROVE  /\ Busy(m) /\ rec'[m] = rec[m]
             /\ Obj(m)' = Obj(m) /\ Name(m)' = Name(m) /\ host'[m] = host[m]
    <2>1. m # n
        BY <1>1, RestType DEF Busy, Base, TypeOK
    <2> QED BY <1>1, <2>1 DEF Busy, Obj, Name, Base, TypeOK
<1>2. \A m \in Node : Busy(m)' =>
          /\ Obj(m)'.deleting <=> rec'[m].pc \in {"remove", "unfinalize"}
          /\ rec'[m].pc = "unfinalize" => host'[m][Name(m)'] # rec'[m].cr
          /\ rec'[m].pc = "sync" => Obj(m)'.finalizer
          /\ rec'[m].cond.reason = "Synced" => Obj(m)'.finalizer \/ Obj(m)'.deleting
    BY <1>1 DEF Safe, BranchOfVersion
<1>3. \A m \in Node, x \in VGName :
          \/ host'[m][x] \in {host[m][x], NoVG, Foreign}
          \/ Busy(m) /\ ~Obj(m).deleting /\ host'[m][x] = rec[m].cr
    OBVIOUS
<1> QED BY <1>1, <1>2, <1>3, NoStoreKeepsSafe

\* A crash or a restart leaves no work behind and forgets no version: Safe stays.
LEMMA SafeProcess ==
    ASSUME Base, Base', Safe, NEW n \in Node, Crash(n) \/ Restart(n)
    PROVE  Safe'
<1>1. hist' = hist /\ host' = host
    BY DEF Crash, Restart, apiVars, hostVars
<1>2. \E pc \in {"idle", "down", "panicked"} : rec' = [rec EXCEPT ![n] = Rest(pc)]
    BY DEF Crash, Restart
<1>3. \A m \in Node, c \in CR : seen[m][c] <= seen'[m][c]
    <2>1. CASE Crash(n)
        BY <2>1, SeenStays DEF Crash
    <2>2. CASE Restart(n)
        <3> SUFFICES ASSUME NEW m \in Node, NEW c \in CR
                     PROVE  seen[m][c] <= seen'[m][c]
            OBVIOUS
        <3>1. /\ seen[m][c] \in Nat
              /\ seen[m][c] <= Len(hist[c])
              /\ seen'[m][c] = IF m = n THEN Len(hist[c]) ELSE seen[m][c]
            BY <2>2 DEF Restart, Base, TypeOK, CacheBehind
        <3> QED BY <3>1
    <2> QED BY <2>1, <2>2
<1> QED BY <1>1, <1>2, <1>3, RestKeepsSafe

\* A step that stays in work keeps what it has read and stays in its branch.
LEMMA ContinueKeepsSafe ==
    ASSUME Base, Base', Safe, NEW n \in Node, Busy(n), NEW w \in Work,
           rec' = [rec EXCEPT ![n] = w],
           w.cr = rec[n].cr, w.ver = rec[n].ver,
           hist' = hist, seen' = seen,
           Obj(n).deleting <=> w.pc \in {"remove", "unfinalize"},
           w.pc = "unfinalize" => host'[n][Name(n)] # rec[n].cr,
           w.pc = "sync" => Obj(n).finalizer,
           w.cond.reason = "Synced" => Obj(n).finalizer \/ Obj(n).deleting,
           \A m \in Node : m # n => host'[m] = host[m],
           \A x \in VGName : \/ host'[n][x] \in {host[n][x], NoVG, Foreign}
                             \/ ~Obj(n).deleting /\ host'[n][x] = rec[n].cr
    PROVE  Safe'
<1>1. rec'[n] = w /\ \A m \in Node : m # n => rec'[m] = rec[m]
    BY DEF Base, TypeOK
<1>2. \A m \in Node : rec'[m].cr = rec[m].cr /\ rec'[m].ver = rec[m].ver
    BY <1>1
<1>3. \A m \in Node : Obj(m)' = Obj(m) /\ Name(m)' = Name(m)
    BY <1>2 DEF Obj, Name
<1>4. \A m \in Node : Busy(m)' => Busy(m)
    BY <1>1 DEF Busy
<1>5. ASSUME NEW m \in Node, Busy(m)'
      PROVE  /\ Obj(m)'.deleting <=> rec'[m].pc \in {"remove", "unfinalize"}
             /\ rec'[m].pc = "unfinalize" => host'[m][Name(m)'] # rec'[m].cr
             /\ rec'[m].pc = "sync" => Obj(m)'.finalizer
             /\ rec'[m].cond.reason = "Synced" => Obj(m)'.finalizer \/ Obj(m)'.deleting
    <2>1. CASE m = n
        BY <1>1, <1>3, <2>1
    <2>2. CASE m # n
        BY <1>1, <1>3, <1>4, <1>5, <2>2 DEF Safe, BranchOfVersion
    <2> QED BY <2>1, <2>2
<1>6. \A m \in Node, x \in VGName :
          \/ host'[m][x] \in {host[m][x], NoVG, Foreign}
          \/ Busy(m) /\ ~Obj(m).deleting /\ host'[m][x] = rec[m].cr
    OBVIOUS
<1>7. \A m \in Node, c \in CR : seen[m][c] <= seen'[m][c]
    BY SeenStays
<1> QED BY <1>2, <1>4, <1>5, <1>6, <1>7, NoStoreKeepsSafe

\* The two ways to go on: return, or continue in the branch of the version read.
LEMMA ReturnKeepsSafe ==
    ASSUME Base, Base', Safe, NEW n \in Node, Busy(n),
           NEW requeue \in BOOLEAN, Return(n, requeue),
           hist' = hist, seen' = seen,
           \A m \in Node : m # n => host'[m] = host[m],
           \A x \in VGName : \/ host'[n][x] \in {host[n][x], NoVG, Foreign}
                             \/ ~Obj(n).deleting /\ host'[n][x] = rec[n].cr
    PROVE  Safe'
<1>1. rec' = [rec EXCEPT ![n] = Rest("idle")]
    BY StepWork
<1> QED BY <1>1, SeenStays, RestKeepsSafe

\* A step of the reconcile that leaves API server and hosts alone keeps Safe.
LEMMA MoveKeepsSafe ==
    ASSUME Base, Base', Safe, NEW n \in Node, Busy(n),
           NEW pc \in PC, NEW found \in BOOLEAN, NEW failed \in BOOLEAN,
           NEW cond \in Condition, Continue(n, pc, found, cond, failed),
           hist' = hist, seen' = seen,
           Obj(n).deleting <=> pc \in {"remove", "unfinalize"},
           pc = "unfinalize" => host'[n][Name(n)] # rec[n].cr,
           pc = "sync" => Obj(n).finalizer,
           cond.reason = "Synced" => Obj(n).finalizer \/ Obj(n).deleting,
           \A m \in Node : m # n => host'[m] = host[m],
           \A x \in VGName : \/ host'[n][x] \in {host[n][x], NoVG, Foreign}
                             \/ ~Obj(n).deleting /\ host'[n][x] = rec[n].cr
    PROVE  Safe'
<1>1. PICK w \in Work : /\ rec' = [rec EXCEPT ![n] = w]
                        /\ w.pc = pc
                        /\ w.cr = rec[n].cr
                        /\ w.ver = rec[n].ver
                        /\ w.cond = cond
    BY StepWork
<1> QED BY <1>1, ContinueKeepsSafe

\* Removing the VG of a resource that is being deleted.
LEMMA SafeRemove ==
    ASSUME Base, Base', Safe, NEW n \in Node,
           VGRemoveSucceeds(n) \/ VGRemoveNotFound(n)
    PROVE  Safe'
<1>0. /\ TypeOK /\ Busy(n) /\ rec[n].pc = "remove"
      /\ hist' = hist /\ seen' = seen
    BY DEF Base, Busy, VGRemoveSucceeds, VGRemoveNotFound, apiVars
<1>1. /\ rec[n].cr \in CR
      /\ rec[n] \in Work
      /\ Name(n) \in VGName
      /\ Obj(n).deleting
      /\ rec[n].cond.reason = "Synced" => Obj(n).finalizer \/ Obj(n).deleting
    BY <1>0, ObjType DEF Safe, BranchOfVersion, TypeOK
<1>2. /\ \A m \in Node : m # n => host'[m] = host[m]
      /\ \A x \in VGName : host'[n][x] \in {host[n][x], NoVG, Foreign}
      /\ host'[n][Name(n)] # rec[n].cr
    <2>1. \/ host' = [host EXCEPT ![n][Name(n)] = NoVG]
          \/ host' = host /\ host[n][Name(n)] = NoVG
        BY DEF VGRemoveSucceeds, VGRemoveNotFound, hostVars
    <2> QED BY <1>0, <1>1, <2>1 DEF TypeOK
<1>3. AfterRemoval(n)
    BY DEF VGRemoveSucceeds, VGRemoveNotFound
<1>4. CASE Return(n, TRUE)
    BY <1>0, <1>2, <1>4, ReturnKeepsSafe
<1>5. CASE Goto(n, "unfinalize")
    <2>1. Continue(n, "unfinalize", rec[n].found, rec[n].cond, rec[n].failed)
        BY <1>5 DEF Goto
    <2>2. /\ "unfinalize" \in PC /\ rec[n].found \in BOOLEAN
          /\ rec[n].failed \in BOOLEAN /\ rec[n].cond \in Condition
        BY <1>1 DEF Work, PC
    <2> QED BY <1>0, <1>1, <1>2, <2>1, <2>2, MoveKeepsSafe
<1> QED BY <1>3, <1>4, <1>5 DEF AfterRemoval

\* The branch of a live object.
LEMMA SafeMaintain ==
    ASSUME Base, Base', Safe, NEW n \in Node,
           \/ VGDiscover(n) \/ VGCreateSucceeds(n) \/ ConvertFails(n)
           \/ VGCreateFails(n) \/ SyncSucceeds(n) \/ SyncFails(n)
    PROVE  Safe'
<1>0. /\ TypeOK /\ Busy(n) /\ rec[n].pc \in {"discover", "create", "sync"}
      /\ hist' = hist /\ seen' = seen
    BY DEF Base, Busy, VGDiscover, VGCreateSucceeds, ConvertFails, VGCreateFails,
           SyncSucceeds, SyncFails, apiVars
<1>1. /\ rec[n].cr \in CR
      /\ rec[n].found \in BOOLEAN /\ rec[n].failed \in BOOLEAN /\ rec[n].cond \in Condition
      /\ Obj(n) \in Version /\ Obj(n).gen \in Nat
      /\ Name(n) \in VGName
    BY <1>0, ObjType DEF TypeOK, Work, Version
<1>2. /\ ~Obj(n).deleting
      /\ rec[n].cond.reason = "Synced" => Obj(n).finalizer
      /\ rec[n].pc = "sync" => Obj(n).finalizer
    BY <1>0 DEF Safe, BranchOfVersion
<1>3. /\ \A m \in Node : m # n => host'[m] = host[m]
      /\ \A x \in VGName : host'[n][x] \in {host[n][x], rec[n].cr}
    <2>1. host' = host \/ host' = [host EXCEPT ![n][Name(n)] = rec[n].cr]
        BY DEF VGDiscover, VGCreateSucceeds, ConvertFails, VGCreateFails,
               SyncSucceeds, SyncFails, hostVars
    <2> QED BY <1>0, <1>1, <2>1 DEF TypeOK
<1>4. /\ SetSyncedOnHostDefault(Obj(n).gen) \in Condition
      /\ SetSyncedOnHostCreationFailed(Obj(n).gen) \in Condition
      /\ SetSyncedOnHostCreationFailed(Obj(n).gen).reason = "Failed"
      /\ SetSyncedOnHostCreationOK(Obj(n).gen) \in Condition
    BY <1>1, ConditionType DEF SetSyncedOnHostCreationFailed
<1>5. \E pc \in {"create", "finalize", "sync", "report"},
         found \in BOOLEAN, failed \in BOOLEAN, cond \in Condition :
          /\ Continue(n, pc, found, cond, failed)
          /\ pc = "sync" => Obj(n).finalizer
          /\ cond.reason = "Synced" => Obj(n).finalizer
    <2>1. CASE VGDiscover(n)
        <3>1. \/ Discovered(n, TRUE)
              \/ Goto(n, "create")
              \/ Report(n, rec[n].cond, TRUE)
            BY <2>1 DEF VGDiscover
        <3>2. CASE Discovered(n, TRUE)
            BY <1>1, <1>2, <3>2 DEF Discovered
        <3>3. CASE Goto(n, "create")
            BY <1>1, <1>2, <3>3 DEF Goto
        <3>4. CASE Report(n, rec[n].cond, TRUE)
            BY <1>1, <1>2, <3>4 DEF Report
        <3> QED BY <3>1, <3>2, <3>3, <3>4
    <2>2. CASE VGCreateSucceeds(n)
        <3>1. Discovered(n, FALSE)
            BY <2>2 DEF VGCreateSucceeds
        <3> QED BY <1>1, <1>2, <3>1 DEF Discovered
    <2>3. CASE ConvertFails(n)
        BY <1>1, <1>2, <2>3 DEF ConvertFails, Report
    <2>4. CASE VGCreateFails(n)
        <3>1. Report(n, SetSyncedOnHostCreationFailed(Obj(n).gen), TRUE)
            BY <2>4 DEF VGCreateFails
        <3> QED BY <1>1, <1>4, <3>1 DEF Report
    <2>5. CASE SyncSucceeds(n)
        <3>1. Report(n, SetSyncedOnHostCreationOK(Obj(n).gen), FALSE) /\ Obj(n).finalizer
            BY <1>2, <2>5 DEF SyncSucceeds
        <3> QED BY <1>1, <1>4, <3>1 DEF Report
    <2>6. CASE SyncFails(n)
        <3>1. PICK cond \in Condition : Report(n, cond, TRUE)
            BY <1>4, <2>6 DEF SyncFails
        <3>2. Obj(n).finalizer
            BY <1>2, <2>6 DEF SyncFails
        <3> QED BY <1>1, <3>1, <3>2 DEF Report
    <2> QED BY <2>1, <2>2, <2>3, <2>4, <2>5, <2>6
<1>6. PICK pc \in {"create", "finalize", "sync", "report"},
           found \in BOOLEAN, failed \in BOOLEAN, cond \in Condition :
          /\ Continue(n, pc, found, cond, failed)
          /\ pc = "sync" => Obj(n).finalizer
          /\ cond.reason = "Synced" => Obj(n).finalizer
    BY <1>5
<1>7. pc \in PC
    BY DEF PC
<1> QED BY <1>0, <1>1, <1>2, <1>3, <1>6, <1>7, MoveKeepsSafe

\* The steps that write nothing to the API server keep Safe.
LEMMA SafeQuiet ==
    ASSUME Base, Base', Safe, NEW n \in Node, QuietStep(n)
    PROVE  Safe'
<1>1. CASE VGRemoveFails(n) \/ UpdateRejected(n)
    <2>1. /\ Busy(n) /\ Return(n, TRUE)
          /\ hist' = hist /\ seen' = seen /\ host' = host
        BY <1>1 DEF VGRemoveFails, UpdateRejected, Busy, apiVars, hostVars
    <2> QED BY <2>1, ReturnKeepsSafe
<1>2. CASE SyncPanics(n) \/ SelectorPanics(n)
    <2>1. /\ rec' = [rec EXCEPT ![n] = Rest("panicked")]
          /\ hist' = hist /\ seen' = seen /\ host' = host
        BY <1>2 DEF SyncPanics, SelectorPanics, apiVars, hostVars
    <2> QED BY <2>1, SeenStays, RestKeepsSafe
<1>3. CASE DeadlinePasses(n)
    <2>1. /\ Busy(n) /\ Return(n, TRUE)
          /\ rec[n].pc \in {"discover", "create", "sync"}
          /\ hist' = hist /\ seen' = seen
          /\ host' = host \/ host' = [host EXCEPT ![n][Name(n)] = rec[n].cr]
        BY <1>3 DEF DeadlinePasses, Busy, apiVars
    <2>2. ~Obj(n).deleting /\ Name(n) \in VGName
        BY <2>1, ObjType DEF Safe, BranchOfVersion
    <2>3. /\ \A m \in Node : m # n => host'[m] = host[m]
          /\ \A x \in VGName : host'[n][x] \in {host[n][x], rec[n].cr}
        BY <2>1, <2>2 DEF Base, TypeOK
    <2> QED BY <2>1, <2>2, <2>3, ReturnKeepsSafe
<1> QED BY <1>1, <1>2, <1>3, SafeRemove, SafeMaintain DEF QuietStep

\* The writes of the reconciler: what is fresh is the latest version.
LEMMA SafeWrite ==
    ASSUME Base, Base', Safe, NEW n \in Node,
           RemoveFinalizer(n) \/ AddFinalizer(n) \/ StatusUpdate(n)
    PROVE  Safe'
<1> DEFINE cr == rec[n].cr
<1>0. /\ TypeOK /\ Busy(n)
      /\ Fresh(n)
      /\ seen' = seen /\ host' = host
    BY DEF Base, Busy, RemoveFinalizer, AddFinalizer, StatusUpdate, hostVars
<1>1. /\ cr \in CR /\ NodeName[cr] = n
      /\ rec[n].ver \in 1 .. Len(hist[cr])
      /\ Obj(n) \in Version
      /\ rec[n].cond \in Condition
      /\ rec[n].failed \in BOOLEAN
    BY <1>0, ObjType DEF TypeOK, Work
<1>2. Obj(n) = Latest(cr) /\ rec[n].ver = Len(hist[cr])
    BY <1>0 DEF Fresh, Obj, Latest
<1>3. \E requeue \in BOOLEAN : Return(n, requeue)
    BY <1>1 DEF RemoveFinalizer, AddFinalizer, StatusUpdate, StoreCondition
<1>4. rec' = [rec EXCEPT ![n] = Rest("idle")]
    BY <1>0, <1>3, StepWork
<1>5. /\ \A m \in Node : rec'[m] \in {rec[m], Rest("idle")}
      /\ ~Busy(n)'
    BY <1>0, <1>4, RestType DEF TypeOK, Busy
<1>6. \A m \in Node : Busy(m)' => rec[m].cr # cr
    <2> SUFFICES ASSUME NEW m \in Node, Busy(m)'
                 PROVE  rec[m].cr # cr
        OBVIOUS
    <2>1. m # n /\ Busy(m)
        BY <1>4, <1>5 DEF Busy, TypeOK, Base
    <2> QED BY <1>1, <2>1, ObjType
<1>7. /\ rec[n].cond.reason = "Synced" => Obj(n).finalizer \/ Obj(n).deleting
      /\ Obj(n).cond.reason = "Synced" => Obj(n).finalizer \/ Obj(n).deleting
    BY <1>0, <1>1, <1>2 DEF Safe, BranchOfVersion, SyncedImpliesProtected, Latest
<1>8. CASE RemoveFinalizer(n)
    <2> DEFINE o == WithFinalizer(Obj(n), FALSE)
    <2>1. o \in Version /\ o.deleting = Obj(n).deleting
        BY <1>1, WriteType DEF Is
    <2>2. Store(cr, o) /\ rec[n].pc = "unfinalize"
        BY <1>8 DEF RemoveFinalizer
    <2>3. Obj(n).deleting /\ host[n][Name(n)] # cr
        BY <1>0, <2>2 DEF Safe, BranchOfVersion
    <2>4. \A m \in Node : host[m][getNameOnNode(cr, Latest(cr))] # cr
        <3> SUFFICES ASSUME NEW m \in Node
                     PROVE  host[m][getNameOnNode(cr, Latest(cr))] # cr
            OBVIOUS
        <3>1. getNameOnNode(cr, Latest(cr)) = Name(n) /\ Name(n) \in VGName
            BY <1>0, <1>2, ObjType DEF Name
        <3>2. CASE m = n
            BY <2>3, <3>1, <3>2
        <3>3. CASE m # n
            BY <1>1, <3>1, <3>3 DEF Safe, CreatedAtHome
        <3> QED BY <3>2, <3>3
    <2>5. Len(hist[cr]) <= seen[NodeName[cr]][cr]
        <3>1. rec[n].ver \in 1 .. seen[n][cr]
            BY <1>0 DEF Base, WorkRead
        <3>2. seen[n][cr] \in Nat
            BY <1>0, <1>1 DEF TypeOK
        <3> QED BY <1>1, <1>2, <3>1, <3>2
    <2> HIDE DEF o
    <2> QED BY <1>0, <1>1, <1>2, <1>5, <1>6, <2>1, <2>2, <2>3, <2>4, <2>5, StoreKeepsSafe
<1>9. CASE AddFinalizer(n)
    <2> DEFINE o == WithFinalizer(Obj(n), TRUE)
    <2>1. o \in Version /\ o.deleting = Obj(n).deleting /\ o.finalizer
        BY <1>1, WriteType DEF Is
    <2>2. Store(cr, o)
        BY <1>9 DEF AddFinalizer
    <2> HIDE DEF o
    <2> QED BY <1>0, <1>1, <1>2, <1>5, <2>1, <2>2, StoreKeepsSafe
<1>10. CASE StatusUpdate(n)
    <2> DEFINE o == WithCondition(Obj(n), rec[n].cond)
    <2>1. /\ o \in Version
          /\ o.deleting = Obj(n).deleting
          /\ o.finalizer = Obj(n).finalizer
          /\ o.cond = rec[n].cond
        BY <1>1, ConditionWriteType DEF Is
    <2>2. Store(cr, o) \/ hist' = hist
        BY <1>10 DEF StatusUpdate, StoreCondition
    <2> HIDE DEF o
    <2>3. CASE Store(cr, o)
        BY <1>0, <1>1, <1>2, <1>5, <1>7, <2>1, <2>3, StoreKeepsSafe
    <2>4. CASE hist' = hist
        BY <1>0, <1>4, <2>4, SeenStays, RestKeepsSafe
    <2> QED BY <2>2, <2>3, <2>4
<1> QED BY <1>8, <1>9, <1>10

\* Every step keeps Safe.
LEMMA SafeStep == Base /\ Base' /\ Safe /\ [Next]_vars => Safe'
<1> SUFFICES ASSUME Base, Base', Safe, [Next]_vars PROVE Safe'
    OBVIOUS
<1>1. CASE User
    BY <1>1, SafeUser
<1>2. CASE Host
    BY <1>2, SafeHost
<1>3. ASSUME NEW n \in Node, NEW cr \in CR, Observe(n, cr) \/ Begin(n, cr)
      PROVE  Safe'
    BY <1>3, SafeCache
<1>4. ASSUME NEW n \in Node, Proceed(n)
      PROVE  Safe'
    <2>1. \/ QuietStep(n)
          \/ RemoveFinalizer(n) \/ AddFinalizer(n) \/ StatusUpdate(n)
        BY <1>4 DEF Proceed, Remove, Maintain, QuietStep
    <2> QED BY <2>1, SafeQuiet, SafeWrite
<1>5. ASSUME NEW n \in Node, Crash(n) \/ Restart(n)
      PROVE  Safe'
    BY <1>5, SafeProcess
<1>6. CASE UNCHANGED vars
    BY <1>6, ZenonT(30)
       DEF vars, Safe, DeletionSticks, BranchOfVersion, CreatedAtHome, DropsAreSeen,
           DroppedFinalizerMeansRemoved, SyncedImpliesProtected, DroppedAt, Busy, Obj,
           Name
<1> QED BY <1>1, <1>2, <1>3, <1>4, <1>5, <1>6 DEF Next

-----------------------------------------------------------------------------
(* What a reconcile knows, and the names of versions and VGs *)

\* How the work of n, and the VGs of its host, may change in a step of its
\* reconcile that writes nothing to the API server.
QuietWork(n) ==
    \/ \E pc \in {"idle", "panicked"} : rec' = [rec EXCEPT ![n] = Rest(pc)]
    \/ \E w \in Work :
          /\ rec' = [rec EXCEPT ![n] = w]
          /\ w.cr = rec[n].cr
          /\ w.ver = rec[n].ver
          /\ w.force = rec[n].force
          /\ w.pc = "unfinalize" => Obj(n).finalizer
          /\ w.cond \in {rec[n].cond,
                         SetSyncedOnHostDefault(Obj(n).gen),
                         SetSyncedOnHostCreationFailed(Obj(n).gen),
                         SetSyncedOnHostCreationOK(Obj(n).gen)}
          /\ w.found => rec[n].found \/ host[n][Name(n)] # NoVG
          /\ w.cond.reason = "Synced" => rec[n].cond.reason = "Synced" \/ rec[n].found

QuietHost(n) ==
    \/ UNCHANGED hostVars
    \/ /\ rec[n].pc = "remove"
       /\ host[n][Name(n)] # NoVG
       /\ Removable(n)
       /\ host' = [host EXCEPT ![n][Name(n)] = NoVG]
    \/ /\ rec[n].pc = "create"
       /\ host[n][Name(n)] = NoVG
       /\ host' = [host EXCEPT ![n][Name(n)] = rec[n].cr]

\* A step of the reconcile that goes on, from what Continue is given.
LEMMA ContinueWork ==
    ASSUME Base, NEW n \in Node, Busy(n),
           NEW pc \in PC, NEW found \in BOOLEAN, NEW cond, NEW failed \in BOOLEAN,
           Continue(n, pc, found, cond, failed),
           pc = "unfinalize" => Obj(n).finalizer,
           cond \in {rec[n].cond,
                     SetSyncedOnHostDefault(Obj(n).gen),
                     SetSyncedOnHostCreationFailed(Obj(n).gen),
                     SetSyncedOnHostCreationOK(Obj(n).gen)},
           found => rec[n].found \/ host[n][Name(n)] # NoVG,
           cond.reason = "Synced" => rec[n].cond.reason = "Synced" \/ rec[n].found
    PROVE  QuietWork(n)
<1>1. Obj(n) \in Version /\ rec[n] \in Work
    BY ObjType DEF Base, TypeOK
<1>2. Obj(n).gen \in Nat /\ rec[n].cond \in Condition
    BY <1>1 DEF Version, Work
<1>3. cond \in Condition
    BY <1>2, ConditionType
<1>4. PICK w \in Work : /\ rec' = [rec EXCEPT ![n] = w]
                        /\ w.pc = pc
                        /\ w.cr = rec[n].cr
                        /\ w.ver = rec[n].ver
                        /\ w.found = found
                        /\ w.force = rec[n].force
                        /\ w.cond = cond
    BY <1>3, StepWork
<1> QED BY <1>4 DEF QuietWork

\* The effect of each step of the reconcile that writes nothing to the API server.
LEMMA QuietEffect ==
    ASSUME Base, NEW n \in Node, QuietStep(n)
    PROVE  /\ Busy(n)
           /\ UNCHANGED <<hist, seen, graceOver, edits>>
           /\ QuietWork(n)
           /\ QuietHost(n)
<1>0. Busy(n) /\ TypeOK
    BY QuietSteps DEF Quiet, Base
<1>1. /\ rec[n] \in Work
      /\ rec[n].found \in BOOLEAN /\ rec[n].failed \in BOOLEAN
    BY <1>0 DEF TypeOK, Work
<1>2. UNCHANGED <<hist, seen, graceOver, edits>>
    BY DEF QuietStep, VGRemoveSucceeds, VGRemoveNotFound, VGRemoveFails, UpdateRejected,
           VGDiscover, VGCreateSucceeds, ConvertFails, VGCreateFails, SyncSucceeds,
           SyncFails, SyncPanics, SelectorPanics, DeadlinePasses, apiVars
<1>3. QuietHost(n)
    BY DEF QuietStep, VGRemoveSucceeds, VGRemoveNotFound, VGRemoveFails, UpdateRejected,
           VGDiscover, VGCreateSucceeds, ConvertFails, VGCreateFails, SyncSucceeds,
           SyncFails, SyncPanics, SelectorPanics, DeadlinePasses, hostVars, QuietHost
<1>4. QuietWork(n)
    <2>1. ASSUME NEW requeue \in BOOLEAN, Return(n, requeue)
          PROVE  QuietWork(n)
        BY <2>1 DEF Return, QuietWork
    <2>2. ASSUME NEW pc \in PC \ {"unfinalize"}, Goto(n, pc)
          PROVE  QuietWork(n)
        BY <1>0, <1>1, <2>2, ContinueWork DEF Goto
    <2>3. ASSUME NEW failed \in BOOLEAN, Report(n, rec[n].cond, failed)
          PROVE  QuietWork(n)
        BY <1>0, <1>1, <2>3, ContinueWork DEF Report, PC
    <2>4. ASSUME NEW failed \in BOOLEAN, rec[n].found,
                 NEW cond \in {SetSyncedOnHostDefault(Obj(n).gen),
                               SetSyncedOnHostCreationFailed(Obj(n).gen),
                               SetSyncedOnHostCreationOK(Obj(n).gen)},
                 Report(n, cond, failed)
          PROVE  QuietWork(n)
        BY <1>0, <1>1, <2>4, ContinueWork, ZenonT(30) DEF Report, PC
    <2>5. CASE VGRemoveSucceeds(n) \/ VGRemoveNotFound(n)
        <3>1. AfterRemoval(n)
            BY <2>5 DEF VGRemoveSucceeds, VGRemoveNotFound
        <3>2. CASE Obj(n).finalizer /\ Goto(n, "unfinalize")
            BY <1>0, <1>1, <3>2, ContinueWork DEF Goto, PC
        <3> QED BY <2>1, <3>1, <3>2 DEF AfterRemoval
    <2>6. CASE VGRemoveFails(n) \/ UpdateRejected(n) \/ DeadlinePasses(n)
        BY <2>1, <2>6 DEF VGRemoveFails, UpdateRejected, DeadlinePasses
    <2>7. CASE SyncPanics(n) \/ SelectorPanics(n)
        BY <2>7 DEF SyncPanics, SelectorPanics, QuietWork
    <2>8. CASE VGDiscover(n)
        <3>1. CASE host[n][Name(n)] # NoVG /\ Discovered(n, TRUE)
            BY <1>0, <1>1, <3>1, ContinueWork DEF Discovered, PC
        <3>2. CASE Goto(n, "create")
            BY <2>2, <3>2 DEF PC
        <3>3. CASE Report(n, rec[n].cond, TRUE)
            BY <2>3, <3>3
        <3> QED BY <2>8, <3>1, <3>2, <3>3 DEF VGDiscover
    <2>9. CASE VGCreateSucceeds(n)
        BY <1>0, <1>1, <2>9, ContinueWork DEF VGCreateSucceeds, Discovered, PC
    <2>10. CASE ConvertFails(n)
        BY <2>3, <2>10 DEF ConvertFails
    <2>11. CASE VGCreateFails(n)
        <3> DEFINE cond == SetSyncedOnHostCreationFailed(Obj(n).gen)
        <3>1. Continue(n, "report", rec[n].found, cond, TRUE)
            BY <2>11 DEF VGCreateFails, Report
        <3>2. cond.reason # "Synced"
            BY DEF SetSyncedOnHostCreationFailed
        <3> HIDE DEF cond
        <3>3. cond = SetSyncedOnHostCreationFailed(Obj(n).gen)
            BY DEF cond
        <3> QED BY <1>0, <1>1, <3>1, <3>2, <3>3, ContinueWork DEF PC
    <2>12. CASE SyncSucceeds(n)
        BY <2>4, <2>12 DEF SyncSucceeds
    <2>13. CASE SyncFails(n)
        BY <2>4, <2>13 DEF SyncFails
    <2> QED BY <2>5, <2>6, <2>7, <2>8, <2>9, <2>10, <2>11, <2>12, <2>13 DEF QuietStep
<1> QED BY <1>0, <1>2, <1>3, <1>4

\* A change of one place of one host leaves all other places alone.
LEMMA HostUpdate ==
    ASSUME TypeOK, NEW n \in Node, NEW nm \in VGName, NEW v,
           host' = [host EXCEPT ![n][nm] = v]
    PROVE  \A m \in Node, x \in VGName :
              host'[m][x] = IF m = n /\ x = nm THEN v ELSE host[m][x]
<1> SUFFICES ASSUME NEW m \in Node, NEW x \in VGName
             PROVE  host'[m][x] = IF m = n /\ x = nm THEN v ELSE host[m][x]
    OBVIOUS
<1> QED BY DEF TypeOK

Known == ExistsWhileHeld /\ WorkKnows /\ NamesGiven

\* Known holds at first: there is no version, no work and no VG of ours.
LEMMA KnownInit == Init => Known
<1> SUFFICES ASSUME Init PROVE Known
    OBVIOUS
<1>1. \A cr \in CR : Len(hist[cr]) = 0
    BY DEF Init
<1>2. ExistsWhileHeld
    BY <1>1 DEF ExistsWhileHeld
<1>3. WorkKnows
    BY DEF Init, WorkKnows, Busy, Rest
<1>4. NamesGiven
    BY <1>1 DEF Init, NamesGiven
<1> QED BY <1>2, <1>3, <1>4 DEF Known

\* What keeps Known when the API server stores nothing: each reconcile stays
\* where it is or knows enough, and a new VG of ours has a name of its resource.
LEMMA NoStoreKeepsKnown ==
    ASSUME Base, Known, hist' = hist, graceOver \subseteq graceOver',
           \A m \in Node : Busy(m)' =>
               \/ rec'[m] = rec[m]
               \/ /\ rec'[m].pc = "unfinalize" => Obj(m)'.finalizer
                  /\ rec'[m].force => rec'[m].cr \in graceOver'
                  /\ rec'[m].cond \in {Obj(m)'.cond,
                                       SetSyncedOnHostDefault(Obj(m)'.gen),
                                       SetSyncedOnHostCreationFailed(Obj(m)'.gen),
                                       SetSyncedOnHostCreationOK(Obj(m)'.gen)},
           \A m \in Node, nm \in VGName :
               \/ host'[m][nm] \in {host[m][nm], NoVG, Foreign}
               \/ nm \in NamesOf(host'[m][nm])
    PROVE  Known'
<1>1. ExistsWhileHeld'
    BY DEF Known, ExistsWhileHeld
<1>2. WorkKnows'
    <2> SUFFICES ASSUME NEW m \in Node, Busy(m)', rec'[m] = rec[m]
                 PROVE  /\ rec'[m].pc = "unfinalize" => Obj(m)'.finalizer
                        /\ rec'[m].force => rec'[m].cr \in graceOver'
                        /\ rec'[m].cond \in {Obj(m)'.cond,
                                             SetSyncedOnHostDefault(Obj(m)'.gen),
                                             SetSyncedOnHostCreationFailed(Obj(m)'.gen),
                                             SetSyncedOnHostCreationOK(Obj(m)'.gen)}
        BY DEF WorkKnows
    <2>1. Busy(m) /\ Obj(m)' = Obj(m)
        BY DEF Busy, Obj
    <2> QED BY <2>1 DEF Known, WorkKnows
<1>3. NamesGiven'
    <2>1. \A m \in Node, nm \in VGName : host'[m][nm] \in CR => nm \in NamesOf(host'[m][nm])
        BY DEF Known, NamesGiven
    <2> QED BY <2>1 DEF Known, NamesGiven
<1> QED BY <1>1, <1>2, <1>3 DEF Known

\* What keeps Known when the API server stores a version: it has a name of its
\* resource, and no reconcile begins or goes on.
LEMMA StoreKeepsKnown ==
    ASSUME Base, Known, NEW cr \in CR, NEW o \in Version, Store(cr, o),
           o.nameOnNode \in NameOnNode[cr],
           host' = host, graceOver' = graceOver,
           \A m \in Node : rec'[m] \in {rec[m], Rest("idle")}
    PROVE  Known'
<1>0. TypeOK
    BY DEF Base
<1>1. /\ Len(hist'[cr]) = Len(hist[cr]) + 1
      /\ hist'[cr][Len(hist[cr]) + 1] = Stored(o)
      /\ \A c \in CR : c # cr => hist'[c] = hist[c]
      /\ \A c \in CR : \A i \in 1 .. Len(hist[c]) : hist'[c][i] = hist[c][i]
      /\ \A c \in CR : Len(hist[c]) \in Nat
    BY <1>0, StoreAppends, HistType DEF TypeOK
<1>2. ASSUME NEW c \in CR, NEW i \in 1 .. Len(hist'[c])
      PROVE  \/ i \in 1 .. Len(hist[c]) /\ hist'[c][i] = hist[c][i]
             \/ c = cr /\ hist'[c][i] = Stored(o)
    <2>1. CASE c = cr
        BY <1>1, <2>1
    <2>2. CASE c # cr
        BY <1>1, <2>2
    <2> QED BY <2>1, <2>2
<1>3. ExistsWhileHeld'
    <2> SUFFICES ASSUME NEW c \in CR, NEW i \in 1 .. Len(hist'[c])
                 PROVE  hist'[c][i].exists <=>
                           hist'[c][i].finalizer \/ hist'[c][i].others \/ ~hist'[c][i].deleting
        BY DEF ExistsWhileHeld
    <2>1. CASE i \in 1 .. Len(hist[c]) /\ hist'[c][i] = hist[c][i]
        BY <2>1 DEF Known, ExistsWhileHeld
    <2>2. CASE hist'[c][i] = Stored(o)
        BY <2>2, StoredType
    <2> QED BY <1>2, <2>1, <2>2
<1>4. WorkKnows'
    <2> SUFFICES ASSUME NEW m \in Node, Busy(m)'
                 PROVE  /\ rec'[m].pc = "unfinalize" => Obj(m)'.finalizer
                        /\ rec'[m].force => rec'[m].cr \in graceOver'
                        /\ rec'[m].cond \in {Obj(m)'.cond,
                                             SetSyncedOnHostDefault(Obj(m)'.gen),
                                             SetSyncedOnHostCreationFailed(Obj(m)'.gen),
                                             SetSyncedOnHostCreationOK(Obj(m)'.gen)}
        BY DEF WorkKnows
    <2>1. Busy(m) /\ rec'[m] = rec[m]
        BY DEF Busy, Rest
    <2>2. rec[m].cr \in CR /\ rec[m].ver \in 1 .. Len(hist[rec[m].cr])
        BY <2>1, ObjType
    <2>3. Obj(m)' = Obj(m)
        BY <1>1, <2>1, <2>2 DEF Obj
    <2> QED BY <2>1, <2>3 DEF Known, WorkKnows
<1>5. NamesGiven'
    <2>1. \A c \in CR : \A i \in 1 .. Len(hist'[c]) : hist'[c][i].nameOnNode \in NameOnNode[c]
        BY <1>2, StoredType DEF Known, NamesGiven
    <2> QED BY <2>1 DEF Known, NamesGiven
<1> QED BY <1>3, <1>4, <1>5 DEF Known

\* The name of an object in work is one of its resource's names.
LEMMA WorkNamed ==
    ASSUME Base, Known, NEW n \in Node, Busy(n)
    PROVE  Obj(n).nameOnNode \in NameOnNode[rec[n].cr] /\ Name(n) \in NamesOf(rec[n].cr)
<1>1. rec[n].cr \in CR /\ rec[n].ver \in 1 .. Len(hist[rec[n].cr])
    BY ObjType
<1>2. Obj(n).nameOnNode \in NameOnNode[rec[n].cr]
    BY <1>1 DEF Known, NamesGiven, Obj
<1> QED BY <1>2 DEF Name, getNameOnNode, NamesOf

\* The latest version has one of its resource's names.
LEMMA LatestNamed ==
    ASSUME Base, Known, NEW cr \in CR, hist[cr] # <<>>
    PROVE  Latest(cr) \in Version /\ Latest(cr).nameOnNode \in NameOnNode[cr]
BY LatestType DEF Base, Known, NamesGiven, Latest

\* A user gives a resource only the names it may have.
LEMMA KnownUser == Base /\ Known /\ User => Known'
<1> SUFFICES ASSUME Base, Known, NEW cr \in CR,
                    \/ UserCreate(cr) \/ UserRename(cr) \/ UserDelete(cr)
                    \/ DropOtherFinalizer(cr) \/ GraceExpires(cr)
             PROVE  Known'
    BY DEF User
<1>1. rec' = rec /\ host' = host
    BY DEF UserCreate, UserRename, UserDelete, DropOtherFinalizer, GraceExpires, hostVars
<1>2. CASE GraceExpires(cr)
    BY <1>1, <1>2, NoStoreKeepsKnown DEF GraceExpires
<1>3. ASSUME ~GraceExpires(cr)
      PROVE  \E o \in Version : Store(cr, o) /\ o.nameOnNode \in NameOnNode[cr]
    <2>1. CASE UserCreate(cr)
        <3>1. PICK nm \in NameOnNode[cr], others \in OtherFinalizers :
                 Store(cr, [exists |-> TRUE, nameOnNode |-> nm, gen |-> 1,
                            finalizer |-> FALSE, others |-> others,
                            deleting |-> FALSE, cond |-> NoCondition])
            BY <2>1 DEF UserCreate
        <3> DEFINE o == [exists |-> TRUE, nameOnNode |-> nm, gen |-> 1,
                         finalizer |-> FALSE, others |-> others,
                         deleting |-> FALSE, cond |-> NoCondition]
        <3>2. o \in Version /\ o.nameOnNode = nm
            BY DEF Version, NoCondition, Condition, Reason
        <3> HIDE DEF o
        <3>3. Store(cr, o)
            BY <3>1 DEF o
        <3> QED BY <3>2, <3>3
    <2>2. CASE UserRename(cr)
        <3>1. PICK nm \in NameOnNode[cr] : Store(cr, Renamed(Latest(cr), nm))
            BY <2>2 DEF UserRename
        <3>2. Latest(cr) \in Version /\ nm \in VGName \cup {Unset}
            BY <2>2, LatestNamed DEF UserRename, Exists
        <3>3. Is(Renamed(Latest(cr), nm), nm, Latest(cr).gen + 1, Latest(cr).finalizer,
                 Latest(cr).others, Latest(cr).deleting, Latest(cr).cond)
            BY <3>2, WriteType
        <3> QED BY <3>1, <3>3 DEF Is
    <2>3. CASE UserDelete(cr)
        <3>1. Latest(cr) \in Version /\ Latest(cr).nameOnNode \in NameOnNode[cr]
            BY <2>3, LatestNamed DEF UserDelete, Exists
        <3>2. Is(MarkedDeleted(Latest(cr)), Latest(cr).nameOnNode, Latest(cr).gen + 1,
                 Latest(cr).finalizer, Latest(cr).others, TRUE, Latest(cr).cond)
            BY <3>1, WriteType
        <3> QED BY <2>3, <3>1, <3>2 DEF UserDelete, Is
    <2>4. CASE DropOtherFinalizer(cr)
        <3>1. Latest(cr) \in Version /\ Latest(cr).nameOnNode \in NameOnNode[cr]
            BY <2>4, LatestNamed DEF DropOtherFinalizer, Exists
        <3>2. Is(Released(Latest(cr)), Latest(cr).nameOnNode, Latest(cr).gen,
                 Latest(cr).finalizer, FALSE, Latest(cr).deleting, Latest(cr).cond)
            BY <3>1, WriteType
        <3> QED BY <2>4, <3>1, <3>2 DEF DropOtherFinalizer, Is
    <2> QED BY <1>3, <2>1, <2>2, <2>3, <2>4
<1>4. ~GraceExpires(cr) => graceOver' = graceOver
    BY DEF UserCreate, UserRename, UserDelete, DropOtherFinalizer
<1> QED BY <1>1, <1>2, <1>3, <1>4, StoreKeepsKnown

\* Everybody but users and the writes of the reconcile leaves the versions alone.
LEMMA KnownElse ==
    ASSUME Base, Known,
           \/ Host
           \/ \E n \in Node, cr \in CR : Observe(n, cr) \/ Begin(n, cr)
           \/ \E n \in Node : QuietStep(n) \/ Crash(n) \/ Restart(n)
    PROVE  Known'
<1>0. TypeOK
    BY DEF Base
<1>1. CASE Host
    <2>1. PICK n \in Node, nm \in VGName :
             HostRemove(n, nm) \/ HostCreate(n, nm) \/ CreateLV(n, nm)
        BY <1>1 DEF Host
    <2>2. hist' = hist /\ rec' = rec /\ graceOver' = graceOver
        BY <2>1 DEF HostRemove, HostCreate, CreateLV, apiVars
    <2>3. \/ host' = [host EXCEPT ![n][nm] = NoVG]
          \/ host' = [host EXCEPT ![n][nm] = Foreign]
          \/ host' = host
        BY <2>1 DEF HostRemove, HostCreate, CreateLV
    <2>4. \A m \in Node, x \in VGName : host'[m][x] \in {host[m][x], NoVG, Foreign}
        <3>1. CASE host' = [host EXCEPT ![n][nm] = NoVG]
            BY <1>0, <3>1, HostUpdate
        <3>2. CASE host' = [host EXCEPT ![n][nm] = Foreign]
            BY <1>0, <3>2, HostUpdate
        <3> QED BY <2>3, <3>1, <3>2
    <2> QED BY <2>2, <2>4, NoStoreKeepsKnown
<1>2. ASSUME NEW n \in Node, NEW cr \in CR, Observe(n, cr) \/ ReconcileSkip(n, cr)
      PROVE  Known'
    <2>1. UNCHANGED <<hist, rec, host, graceOver>>
        BY <1>2 DEF Observe, ReconcileSkip, apiVars, hostVars
    <2> QED BY <2>1, NoStoreKeepsKnown
<1>3. ASSUME NEW n \in Node, NEW cr \in CR, ReconcileBegin(n, cr)
      PROVE  Known'
    <2> DEFINE obj == hist[cr][seen[n][cr]]
               w == [pc     |-> IF obj.deleting THEN "remove" ELSE "discover",
                     cr     |-> cr,
                     ver    |-> seen[n][cr],
                     found  |-> FALSE,
                     force  |-> obj.deleting /\ cr \in graceOver,
                     failed |-> FALSE,
                     cond   |-> obj.cond]
    <2>1. /\ rec' = [rec EXCEPT ![n] = w]
          /\ UNCHANGED <<hist, host, graceOver>>
        BY <1>3 DEF ReconcileBegin, apiVars, hostVars
    <2>2. /\ w.pc # "unfinalize"
          /\ w.force => w.cr \in graceOver
          /\ w.cond = hist[w.cr][w.ver].cond
        OBVIOUS
    <2> HIDE DEF w
    <2>3. rec'[n] = w /\ \A m \in Node : m # n => rec'[m] = rec[m]
        BY <1>0, <2>1 DEF TypeOK
    <2>4. Obj(n)' = hist[w.cr][w.ver]
        BY <2>1, <2>3 DEF Obj
    <2> QED BY <2>1, <2>2, <2>3, <2>4, NoStoreKeepsKnown
<1>4. ASSUME NEW n \in Node, QuietStep(n)
      PROVE  Known'
    <2>1. /\ Busy(n)
          /\ UNCHANGED <<hist, graceOver>>
          /\ QuietWork(n)
          /\ QuietHost(n)
        BY <1>4, QuietEffect
    <2>2. rec[n].cr \in CR /\ Name(n) \in VGName /\ Name(n) \in NamesOf(rec[n].cr)
        BY <2>1, ObjType, WorkNamed
    <2>3. \A m \in Node, x \in VGName :
              \/ host'[m][x] \in {host[m][x], NoVG, Foreign}
              \/ x \in NamesOf(host'[m][x])
        BY <1>0, <2>1, <2>2 DEF QuietHost, hostVars, TypeOK
    <2>4. CASE \E pc \in {"idle", "panicked"} : rec' = [rec EXCEPT ![n] = Rest(pc)]
        <3>1. \A m \in Node : Busy(m)' => rec'[m] = rec[m]
            BY <1>0, <2>4, RestType DEF Busy, TypeOK
        <3> QED BY <2>1, <2>3, <3>1, NoStoreKeepsKnown
    <2>5. CASE \E w \in Work :
                  /\ rec' = [rec EXCEPT ![n] = w]
                  /\ w.cr = rec[n].cr
                  /\ w.ver = rec[n].ver
                  /\ w.force = rec[n].force
                  /\ w.pc = "unfinalize" => Obj(n).finalizer
                  /\ w.cond \in {rec[n].cond,
                                 SetSyncedOnHostDefault(Obj(n).gen),
                                 SetSyncedOnHostCreationFailed(Obj(n).gen),
                                 SetSyncedOnHostCreationOK(Obj(n).gen)}
        <3>1. PICK w \in Work :
                  /\ rec' = [rec EXCEPT ![n] = w]
                  /\ w.cr = rec[n].cr
                  /\ w.ver = rec[n].ver
                  /\ w.force = rec[n].force
                  /\ w.pc = "unfinalize" => Obj(n).finalizer
                  /\ w.cond \in {rec[n].cond,
                                 SetSyncedOnHostDefault(Obj(n).gen),
                                 SetSyncedOnHostCreationFailed(Obj(n).gen),
                                 SetSyncedOnHostCreationOK(Obj(n).gen)}
            BY <2>5
        <3>2. rec'[n] = w /\ \A m \in Node : m # n => rec'[m] = rec[m]
            BY <1>0, <3>1 DEF TypeOK
        <3>3. Obj(n)' = Obj(n)
            BY <2>1, <3>1, <3>2 DEF Obj
        <3>4. /\ rec[n].force => rec[n].cr \in graceOver
              /\ rec[n].cond \in {Obj(n).cond,
                                  SetSyncedOnHostDefault(Obj(n).gen),
                                  SetSyncedOnHostCreationFailed(Obj(n).gen),
                                  SetSyncedOnHostCreationOK(Obj(n).gen)}
            BY <2>1 DEF Known, WorkKnows
        <3>5. /\ rec'[n].pc = "unfinalize" => Obj(n)'.finalizer
              /\ rec'[n].force => rec'[n].cr \in graceOver'
              /\ rec'[n].cond \in {Obj(n)'.cond,
                                   SetSyncedOnHostDefault(Obj(n)'.gen),
                                   SetSyncedOnHostCreationFailed(Obj(n)'.gen),
                                   SetSyncedOnHostCreationOK(Obj(n)'.gen)}
            BY <2>1, <3>1, <3>2, <3>3, <3>4
        <3> QED BY <2>1, <2>3, <3>2, <3>5, NoStoreKeepsKnown
    <2> QED BY <2>1, <2>4, <2>5 DEF QuietWork
<1>5. ASSUME NEW n \in Node, Crash(n) \/ Restart(n)
      PROVE  Known'
    <2>1. /\ UNCHANGED <<hist, host, graceOver>>
          /\ \E pc \in {"idle", "down"} : rec' = [rec EXCEPT ![n] = Rest(pc)]
        BY <1>5 DEF Crash, Restart, apiVars, hostVars
    <2>2. \A m \in Node : Busy(m)' => rec'[m] = rec[m]
        BY <1>0, <2>1, RestType DEF Busy, TypeOK
    <2> QED BY <2>1, <2>2, NoStoreKeepsKnown
<1> QED BY <1>1, <1>2, <1>3, <1>4, <1>5 DEF Begin

\* A write of the reconcile leaves the name of the object alone.
LEMMA KnownWrite ==
    ASSUME Base, Known, NEW n \in Node,
           RemoveFinalizer(n) \/ AddFinalizer(n) \/ StatusUpdate(n)
    PROVE  Known'
<1>0. /\ TypeOK /\ Busy(n)
      /\ UNCHANGED <<host, graceOver>>
    BY DEF Base, Busy, RemoveFinalizer, AddFinalizer, StatusUpdate, hostVars
<1>1. rec' = [rec EXCEPT ![n] = Rest("idle")]
    BY DEF RemoveFinalizer, AddFinalizer, StatusUpdate, Return
<1>2. \A m \in Node : rec'[m] \in {rec[m], Rest("idle")}
    BY <1>0, <1>1 DEF TypeOK
<1>3. /\ rec[n].cr \in CR /\ Obj(n) \in Version
      /\ rec[n].cond \in Condition
      /\ Obj(n).nameOnNode \in NameOnNode[rec[n].cr]
    BY <1>0, ObjType, WorkNamed DEF TypeOK, Work
<1>4. CASE hist' = hist
    <2>1. \A m \in Node : Busy(m)' => rec'[m] = rec[m]
        BY <1>2, RestType DEF Busy
    <2> QED BY <1>0, <1>4, <2>1, NoStoreKeepsKnown
<1>5. \/ hist' = hist
      \/ Store(rec[n].cr, WithFinalizer(Obj(n), FALSE))
      \/ Store(rec[n].cr, WithFinalizer(Obj(n), TRUE))
      \/ Store(rec[n].cr, WithCondition(Obj(n), rec[n].cond))
    BY DEF RemoveFinalizer, AddFinalizer, StatusUpdate, StoreCondition
<1>6. \A o \in {WithFinalizer(Obj(n), FALSE), WithFinalizer(Obj(n), TRUE),
                WithCondition(Obj(n), rec[n].cond)} :
          o \in Version /\ o.nameOnNode \in NameOnNode[rec[n].cr]
    <2>1. ASSUME NEW held \in BOOLEAN
          PROVE  /\ WithFinalizer(Obj(n), held) \in Version
                 /\ WithFinalizer(Obj(n), held).nameOnNode = Obj(n).nameOnNode
        <3>1. Is(WithFinalizer(Obj(n), held), Obj(n).nameOnNode, Obj(n).gen, held,
                 Obj(n).others, Obj(n).deleting, Obj(n).cond)
            BY <1>3, WriteType
        <3> QED BY <3>1 DEF Is
    <2>2. /\ WithCondition(Obj(n), rec[n].cond) \in Version
          /\ WithCondition(Obj(n), rec[n].cond).nameOnNode = Obj(n).nameOnNode
        BY <1>3, ConditionWriteType DEF Is
    <2> QED BY <1>3, <2>1, <2>2
<1> QED BY <1>0, <1>2, <1>3, <1>4, <1>5, <1>6, StoreKeepsKnown

\* Every step keeps Known.
LEMMA KnownStep == Base /\ Known /\ [Next]_vars => Known'
<1> SUFFICES ASSUME Base, Known, [Next]_vars PROVE Known'
    OBVIOUS
<1>1. \/ User
      \/ Host
      \/ \E n \in Node, cr \in CR : Observe(n, cr) \/ Begin(n, cr)
      \/ \E n \in Node : QuietStep(n) \/ Crash(n) \/ Restart(n)
      \/ \E n \in Node : RemoveFinalizer(n) \/ AddFinalizer(n) \/ StatusUpdate(n)
      \/ UNCHANGED vars
    BY DEF Next, Proceed, Remove, Maintain, QuietStep
<1>2. CASE UNCHANGED vars
    BY <1>2 DEF vars, Known, ExistsWhileHeld, WorkKnows, NamesGiven, Busy, Obj
<1> QED BY <1>1, <1>2, KnownUser, KnownElse, KnownWrite

\* The inductive invariant holds in every state of the specification.
THEOREM Invariance == Spec => []IInv
<1>1. Init => Base /\ Safe /\ Known
    BY BaseInit, SafeInit, KnownInit
<1>2. Base /\ Safe /\ Known /\ [Next]_vars => (Base /\ Safe /\ Known)'
    BY BaseStep, SafeStep, KnownStep
<1>3. Spec => [](Base /\ Safe /\ Known)
    BY <1>1, <1>2, PTL DEF Spec
<1>4. Base /\ Safe /\ Known => IInv
    BY DEF Base, Safe, Known, IInv
<1> QED BY <1>3, <1>4, PTL

\* A finalizer that Reconcile dropped stands for a VG that is off the hosts and
\* stays off, however stale the caches are and whatever crashes or fails.
THEOREM FinalizerPromise == Spec => []DroppedFinalizerMeansRemoved
<1>1. IInv => DroppedFinalizerMeansRemoved
    BY DEF IInv
<1> QED BY <1>1, Invariance, PTL

\* A live resource that is reported as synced is held by our finalizer.
THEOREM SyncedIsProtected == Spec => []SyncedImpliesProtected
<1>1. IInv => SyncedImpliesProtected
    BY DEF IInv
<1> QED BY <1>1, Invariance, PTL
=============================================================================
