------------------------------ MODULE Selector ------------------------------
(***************************************************************************)
(* Which block devices a PhysicalVolumeSelector stands for: selector.go on *)
(* the tree that lsblk reports, as lsblk.go decodes it. The selector is    *)
(* evaluated when the VG is created, and again in every sync, when lsblk   *)
(* shows what lvm2 has made of the devices since.                          *)
(***************************************************************************)
EXTENDS SelectorTerms, FiniteSets

CONSTANTS
    Forests,    \* what lsblk may report first
    Selectors   \* the selectors users write: sequences of terms

\* The devices of lsblk are a tree: <<i>> is the place of the i-th device, and
\* Append(p, k) that of the k-th child of the device at p. A forest has a device at
\* each of its places.
IsForest(f) == /\ IsFiniteSet(DOMAIN f)
               /\ \A p \in DOMAIN f : p \in Seq(Nat) /\ Row(f[p])

\* The API accepts no key but the columns of lsblk.
IsSelector(sel) ==
    \A i \in 1 .. Len(sel) : \A k \in 1 .. Len(sel[i]) : sel[i][k].key \in Column

ASSUME ForestsAssumption   == \A f \in Forests : IsForest(f)
ASSUME SelectorsAssumption == \A sel \in Selectors : IsSelector(sel)

VARIABLES
    selector,   \* .spec.physicalVolumeSelector
    forest,     \* the block devices of the host
    created,    \* what the selector stood for when the VG was created
    synced,     \* what it stood for in the sync after that
    pc

vars == <<selector, forest, created, synced, pc>>
-----------------------------------------------------------------------------
(* The devices of the tree as a list *)

\* p comes before q: it is above q, or an elder sibling of it or of one above it.
ComesBefore(p, q) ==
    \E k \in 1 .. Len(q) :
        /\ k - 1 <= Len(p)
        /\ \A i \in 1 .. k - 1 : p[i] = q[i]
        /\ k - 1 = Len(p) \/ p[k] < q[k]

Index(f, p) == Cardinality({q \in DOMAIN f : ComesBefore(q, p)}) + 1

\* Every device, then its children, then the next device.
RecursiveBlockDevices(f) ==
    [i \in 1 .. Cardinality(DOMAIN f) |-> f[CHOOSE p \in DOMAIN f : Index(f, p) = i]]

\* What LSBLK answers: the devices, or an error of the command or its decoding.
LSBLK(devices) == {[end |-> "ok", devices |-> devices], [end |-> "error", devices |-> <<>>]}

\* Mutant: without an answer there are no devices.
DevicesMatchingSelector_NoError(sel, answer) ==
    IF sel = <<>> THEN [end |-> "ok", paths |-> {}]
    ELSE Matching(sel, RecursiveBlockDevices(answer.devices))

DevicesMatchingSelector(sel, answer) ==
    IF sel = <<>> THEN [end |-> "ok", paths |-> {}]
    ELSE IF answer.end = "error" THEN [end |-> "error", paths |-> {}]
    ELSE Matching(sel, RecursiveBlockDevices(answer.devices))

None == [end |-> "none", paths |-> {}]

\* convertToVGCreateOptions: the devices of the new VG.
Create == /\ pc = "create"
          /\ \E answer \in LSBLK(forest) :
                created' = DevicesMatchingSelector(selector, answer)
          /\ pc' = IF created'.end = "ok" /\ created'.paths # {} THEN "use" ELSE "done"
          /\ UNCHANGED <<selector, forest, synced>>

\* vgcreate labels the devices, and LVs come up below some of them, next to the
\* children they have.
Labelled(dev) == IF dev.PATH \in created.paths
                 THEN [dev EXCEPT !.FSTYPE = Text("LVM2_member")] ELSE dev

LV == Device("/dev/vg/lv", "lvm", Null, 1)

Vacant == {p \in {Append(q, k) : q \in {q \in DOMAIN forest : forest[q].PATH \in created.paths},
                                 k \in 1 .. Cardinality(DOMAIN forest) + 1} :
             /\ p \notin DOMAIN forest
             /\ p[Len(p)] = 1 \/ [p EXCEPT ![Len(p)] = @ - 1] \in DOMAIN forest}

Use == /\ pc = "use"
       /\ \E lvs \in SUBSET Vacant :
             forest' = [p \in DOMAIN forest \cup lvs |->
                           IF p \in lvs THEN LV ELSE Labelled(forest[p])]
       /\ pc' = "sync"
       /\ UNCHANGED <<selector, created, synced>>

\* syncPVs: the devices the VG shall have.
Sync == /\ pc = "sync"
        /\ \E answer \in LSBLK(forest) :
              synced' = DevicesMatchingSelector(selector, answer)
        /\ pc' = "done"
        /\ UNCHANGED <<selector, forest, created>>

Init == /\ selector \in Selectors
        /\ forest \in Forests
        /\ created = None
        /\ synced = None
        /\ pc = "create"

Next == Create \/ Use \/ Sync
Spec == Init /\ [][Next]_vars
-----------------------------------------------------------------------------
(* Properties *)

\* What volumegroup_types.go says a selector stands for: the devices, at every depth
\* of the tree, that meet all the requirements of some term.
Documented == {forest[p].PATH : p \in {q \in DOMAIN forest : MeetsSome(forest[q], selector)}}

\* For plain selectors that is what a sync finds, whatever lvm2 made of the devices.
\* Nothing but a failing lsblk can go wrong with them.
PlainMeansDocumented ==
    PlainSelector(selector) /\ synced.end \notin {"none", "error"} =>
        synced = [end |-> "ok", paths |-> Documented]

\* A sync after the creation wants the same devices as the creation did, LVs of
\* the VG itself not included, as long as every term names what lvm2 does not
\* change and an LV does not have. Else syncPVs would take the VG apart, as it
\* would if a failing lsblk passed for a host without devices.
SelectionSurvivesUse ==
    SteadySelector(selector, LV) /\ synced.end \notin {"none", "error"} => synced = created
-----------------------------------------------------------------------------
(* Why they hold: an inductive invariant *)

\* The type invariant: the tree stays one that lsblk can report.
TypeOK == /\ IsSelector(selector)
          /\ IsForest(forest)
          /\ pc \in {"create", "use", "sync", "done"}

\* A sync is the evaluation of the selector on the tree as it is now. Before it, a
\* VG that exists was created from devices that such a selector still stands for.
Evaluated == Matching(selector, RecursiveBlockDevices(forest))
InStep ==
    /\ pc \in {"create", "use", "sync"} => synced = None
    /\ pc \in {"use", "sync"} => created.end = "ok" /\ created.paths # {} /\ selector # <<>>
    /\ pc = "use" => created = Evaluated
    /\ pc = "sync" /\ SteadySelector(selector, LV) => created = Evaluated
    /\ synced.end \notin {"none", "error"} =>
          /\ synced = Evaluated
          /\ SteadySelector(selector, LV) => synced = created

IInv == TypeOK /\ InStep
-----------------------------------------------------------------------------
(* What the documentation says, and the code does not do *)

\* volumegroup_types.go: an empty term matches no objects, NotIn and Lt are valid
\* operators, and Gt takes a quantity. Each term, by itself, selects what that says.
TermsAsDocumented ==
    created.end = "ok" =>
        \A i \in 1 .. Len(selector) :
            LET alone == <<selector[i]>>
            IN  Matching(alone, RecursiveBlockDevices(forest)).paths =
                    {forest[p].PATH : p \in {q \in DOMAIN forest : MeetsSome(forest[q], alone)}}
=============================================================================
