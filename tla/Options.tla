------------------------------ MODULE Options ------------------------------
(***************************************************************************)
(* How the fields of a spec reach a volume group: what the API server      *)
(* admits, what convertToVGCreateOptions hands to vgcreate, what the       *)
(* syncers of volumegroup_controller_sync.go change later, and what lvm2   *)
(* does with either. The same field takes two ways that must agree: the    *)
(* one of creation and, if it can change, the one of sync.                 *)
(*                                                                         *)
(* One resource and its VG. Users edit the spec between any two steps of a *)
(* reconcile, administrators change and remove the VG. Caches, failing     *)
(* calls and crashes are in Lifecycle, PVs and tags in Sync.               *)
(***************************************************************************)
EXTENDS Integers

CONSTANTS
    Unset,              \* a nil field of the spec
    NoVG,               \* there is no VG
    Specs,              \* the specs users write
    Default,            \* what lvm2 takes for an option that is not given
    ExtentSizes,        \* the extent sizes lvm2 accepts
    UsesDevicesFile,    \* does lvm2 on the host see only the devices of a file?
    Mantissa,           \* the bits of a float64's significand, 53 in the code
    MaxEdits            \* bound on what users and administrators do

Size       == {"physicalExtentSize", "metadataSize", "dataAlignment", "dataAlignmentOffset"}
Fixed      == Size \cup {"zero", "devices"}     \* devices stands for devicesFile, too
Changeable == {"maxPV", "maxLV", "alloc", "auto"}
Field      == Fixed \cup Changeable

ASSUME SpecAssumption ==
    /\ \A s \in Specs : DOMAIN s = Field /\ \A f \in Size : s[f] = Unset \/ s[f] \in Int
    /\ DOMAIN Default = Field /\ \A f \in Size : Default[f] \in Nat
ASSUME UnsetAssumption == Unset \notin Specs /\ Unset \notin BOOLEAN /\ Unset \notin Int
ASSUME BoundAssumption == Mantissa \in Nat \ {0} /\ MaxEdits \in Nat

VARIABLES
    spec, gen,  \* what the API server has, and its generation
    phase,      \* live, deleting, released (through the finalizer) or gone (without)
    held,       \* is our finalizer on the object?
    cond,       \* the condition in the status
    vg,         \* the options in effect in the VG
    w,          \* the reconcile in work
    gap,        \* fixed fields that were unset since creation began
    last,       \* the spec the VG was last brought in line with
    edits

apiVars == <<spec, gen, phase>>
vars    == <<spec, gen, phase, held, cond, vg, w, gap, last, edits>>
-----------------------------------------------------------------------------
(* Conversions *)

\* A natural number as a float64, rounded half to even.
AsApproximateFloat64(n) ==
    LET k    == CHOOSE k \in 0 .. n : /\ n < 2^(k + Mantissa)
                                      /\ k = 0 \/ n >= 2^(k - 1 + Mantissa)
        ulp  == 2^k
        rest == n % ulp
        low  == n - rest
    IN  IF 2 * rest > ulp \/ (2 * rest = ulp /\ (low \div ulp) % 2 = 1)
        THEN low + ulp ELSE low

convertQuantityToSize(q) == AsApproximateFloat64(q)
Validate(q) == q >= 0

\* TRUE is to activate, and to zero.
convertToAutoActivation(auto) == auto = Unset
convertToZero(zero) == ~(zero = Unset \/ zero)

Snake == [Contiguous |-> "contiguous", Normal |-> "normal", Cling |-> "cling",
          ClingByTags |-> "cling_by_tags", Anywhere |-> "anywhere", Inherit |-> "inherit"]
ToSnakeCase(name) == IF name \in DOMAIN Snake THEN Snake[name] ELSE name

\* What convertToVGCreateOptions makes of a field that is set.
CreateOption(f, v) ==
    CASE f \in Size -> convertQuantityToSize(v)
      [] f = "zero" -> convertToZero(v)
      [] f = "auto" -> convertToAutoActivation(v)
      [] OTHER      -> v

\* Mutant: one of the options is forgotten.
convertToVGCreateOptions_Forgets(s) ==
    [f \in Field |-> IF s[f] = Unset \/ f = "maxLV" THEN Unset ELSE CreateOption(f, s[f])]

convertToVGCreateOptions(s) ==
    [f \in Field |-> IF s[f] = Unset THEN Unset ELSE CreateOption(f, s[f])]
Convertible(s) == \A f \in Size : s[f] # Unset => Validate(s[f])

\* Mutant: the policy is not spelled as lvm2 does.
SyncOption_Raw(f, v) == IF f = "auto" THEN convertToAutoActivation(v) ELSE v

\* What the syncers make of one.
SyncOption(f, v) ==
    CASE f = "alloc" -> ToSnakeCase(v)
      [] f = "auto"  -> convertToAutoActivation(v)
      [] OTHER       -> v
-----------------------------------------------------------------------------
(* lvm2 *)

\* The policies of a VG; inherit is one of logical volumes.
Policy == {"contiguous", "cling", "cling_by_tags", "normal", "anywhere"}

InEffect(opts) == [f \in Field |-> IF opts[f] = Unset THEN Default[f] ELSE opts[f]]

\* Of the options only vgcreate is given the devices: on a host with a devices
\* file the other commands do not see a VG that was made with them.
Visible == vg # NoVG /\ ~(UsesDevicesFile /\ vg.devices # Default.devices)

\* Does vgcreate, and does vgchange, accept an option?
Creatable(new) == /\ vg = NoVG
                  /\ new.alloc \in Policy
                  /\ new.physicalExtentSize \in ExtentSizes
Settable(f, v) == f = "alloc" => v \in Policy
-----------------------------------------------------------------------------
(* Users and administrators *)

Edit == edits < MaxEdits /\ edits' = edits + 1

\* Mutant: one field has no rule.
Admitted_Lax(old, new) == \A f \in Fixed \ {"metadataSize"} : Unset \in {old[f], new[f]} \/ old[f] = new[f]

\* The rule self == oldSelf of a field is looked at only when the field is set
\* in both versions.
Admitted(old, new) == \A f \in Fixed : Unset \in {old[f], new[f]} \/ old[f] = new[f]

UserEdit ==
    /\ phase \in {"live", "deleting"}
    /\ Edit
    /\ \E new \in Specs \ {spec} :
          /\ Admitted(spec, new)
          /\ spec' = new
          /\ gap' = gap \cup {f \in Fixed : new[f] = Unset}
    /\ gen' = gen + 1
    /\ UNCHANGED <<phase, held, cond, vg, w, last>>

UserDelete ==
    /\ phase = "live"
    /\ phase' = IF held THEN "deleting" ELSE "gone"
    /\ gen' = gen + 1
    /\ UNCHANGED <<spec, held, cond, vg, w, gap, last, edits>>

HostChange ==
    /\ vg # NoVG
    /\ Edit
    /\ \E s \in Specs, f \in Changeable :
          /\ s[f] # Unset
          /\ Settable(f, s[f])
          /\ vg' = [vg EXCEPT ![f] = s[f]]
    /\ last' = Unset
    /\ UNCHANGED <<apiVars, held, cond, w, gap>>

HostRemove ==
    /\ vg # NoVG
    /\ Edit
    /\ vg' = NoVG
    /\ UNCHANGED <<apiVars, held, cond, w, gap, last>>
-----------------------------------------------------------------------------
(* Reconcile *)

Rest == [w EXCEPT !.pc = "idle"]
Goto(pc) == w' = [w EXCEPT !.pc = pc]
Report(reason) == w' = [w EXCEPT !.pc = "report", !.cond = [reason |-> reason, gen |-> w.gen]]

Begin ==
    /\ w.pc = "idle"
    /\ phase \in {"live", "deleting"}
    /\ w' = [pc |-> IF phase = "deleting" THEN "remove" ELSE "discover",
             spec |-> spec, gen |-> gen, held |-> held, cond |-> cond]
    /\ gap' = IF vg = NoVG THEN {f \in Fixed : spec[f] = Unset} ELSE gap
    /\ UNCHANGED <<apiVars, held, cond, vg, last, edits>>

\* VGRemove, and the finalizer is dropped, or the whole is done once more.
Remove ==
    /\ w.pc = "remove"
    /\ vg' = IF Visible THEN NoVG ELSE vg
    /\ phase' = IF w.gen = gen THEN "released" ELSE phase
    /\ w' = Rest
    /\ UNCHANGED <<spec, gen, held, cond, gap, last, edits>>

\* initializeVG. With the finalizer on the object the reconcile ends in a panic
\* once it has created the VG, and the pod starts again.
Create ==
    /\ w.pc = "discover"
    /\ ~Visible
    /\ LET new == InEffect(convertToVGCreateOptions(w.spec)) IN
          \/ /\ ~Convertible(w.spec)
             /\ Goto("report")
             /\ UNCHANGED <<vg, last>>
          \/ /\ Convertible(w.spec) /\ Creatable(new)
             /\ vg' = new
             /\ last' = w.spec
             /\ IF w.held THEN w' = Rest ELSE Goto("finalize")
          \/ /\ Convertible(w.spec) /\ ~Creatable(new)
             /\ Report("Failed")
             /\ UNCHANGED <<vg, last>>
    /\ UNCHANGED <<apiVars, held, cond, gap, edits>>

Adopt ==
    /\ w.pc = "discover"
    /\ Visible
    /\ ~w.held
    /\ Goto("finalize")
    /\ UNCHANGED <<apiVars, held, cond, vg, gap, last, edits>>

AddFinalizer ==
    /\ w.pc = "finalize"
    /\ held' = (held \/ (w.gen = gen /\ phase = "live"))
    /\ w' = Rest
    /\ UNCHANGED <<apiVars, cond, vg, gap, last, edits>>

\* Mutant: syncAutoActivation is not called.
Asked_NotAuto(s) == {f \in Changeable \ {"auto"} : s[f] # Unset /\ vg[f] # SyncOption(f, s[f])}

\* The settings sync asks for, those it can have, and the VG with them.
Asked(s)   == {f \in Changeable : s[f] # Unset /\ vg[f] # SyncOption(f, s[f])}
Refused(s) == {f \in Asked(s) : ~Settable(f, SyncOption(f, s[f]))}
Synced(s)  == [f \in Field |-> IF f \in Asked(s) \ Refused(s) THEN SyncOption(f, s[f]) ELSE vg[f]]

\* syncMaximumVolumes, syncAllocationPolicy and syncAutoActivation.
Sync ==
    /\ w.pc = "discover"
    /\ Visible
    /\ w.held
    /\ vg' = Synced(w.spec)
    /\ Report(IF Refused(w.spec) = {} THEN "Synced" ELSE "Failed")
    /\ last' = w.spec
    /\ UNCHANGED <<apiVars, held, cond, gap, edits>>

UpdateStatus ==
    /\ w.pc = "report"
    /\ cond' = IF w.gen = gen THEN w.cond ELSE cond
    /\ w' = Rest
    /\ UNCHANGED <<apiVars, held, vg, gap, last, edits>>
-----------------------------------------------------------------------------
Init ==
    /\ spec \in Specs
    /\ gen = 1
    /\ phase = "live"
    /\ held = FALSE
    /\ cond = [reason |-> "None", gen |-> 0]
    /\ vg = NoVG
    /\ w = [pc |-> "idle", spec |-> spec, gen |-> 1, held |-> FALSE, cond |-> cond]
    /\ gap = {}
    /\ last = Unset
    /\ edits = 0

Reconcile == \/ Begin \/ Remove \/ Create \/ Adopt \/ AddFinalizer \/ Sync \/ UpdateStatus

Next == Reconcile \/ UserEdit \/ UserDelete \/ HostChange \/ HostRemove

\* Failed reconciles are repeated and others follow at the sync interval.
Spec == Init /\ [][Next]_vars /\ WF_vars(Reconcile)
-----------------------------------------------------------------------------
(* Properties *)

\* A number survives the float64 when its significand fits, and changes by at
\* most half a unit in the last place otherwise.
Close(x, n) == LET d == IF x < n THEN n - x ELSE x - n
               IN  IF n < 2^Mantissa THEN d = 0 ELSE d * 2^Mantissa <= n

\* The sizes and the devices of the spec cannot be changed once set, and are in the
\* VG as the spec has them, sizes up to the precision of a float64, as long as the
\* spec had them all the time the VG is there. (Taking one away and setting it anew
\* is admitted, and changes nothing in the VG.) Not so zero, the other field that is
\* fixed: it reaches vgcreate inverted, as OptionsAsDocumented shows.
FixedAsSpecified ==
    vg # NoVG =>
        /\ \A f \in Size \ gap : Close(vg[f], spec[f])
        /\ "devices" \notin gap => vg.devices = spec.devices

\* Creation and sync agree on what a spec means: the VG that was created, or
\* synced, from a spec is left alone by every later sync from the same spec.
SettledIsLeftAlone == [][Sync /\ w.spec = last => UNCHANGED vg]_vars

\* What keeps a VG from being created, from being changed and from being found:
\* a policy lvm2 does not know (at creation it must be spelled as lvm2 does), a
\* size lvm2 does not take, and devices that the other commands do not look at.
Blocked ==
    \/ /\ vg = NoVG
       /\ \/ \E f \in Size : spec[f] # Unset /\ spec[f] < 0
          \/ spec.physicalExtentSize \notin ExtentSizes \cup {Unset}
          \/ spec.alloc \notin Policy \cup {Unset}
    \/ vg # NoVG /\ ToSnakeCase(spec.alloc) \notin Policy \cup {Unset}
    \/ vg # NoVG /\ vg.devices # Default.devices /\ UsesDevicesFile

\* The VG has what the spec asks for, as the code understands it, and the
\* condition says so.
Settled == /\ vg # NoVG
           /\ spec.maxPV \in {Unset, vg.maxPV}
           /\ spec.maxLV \in {Unset, vg.maxLV}
           /\ spec.alloc # Unset => vg.alloc = ToSnakeCase(spec.alloc)
           /\ spec.auto # Unset => ~vg.auto
           /\ cond = [reason |-> "Synced", gen |-> gen]

\* When users and administrators are done, the VG of a live resource ends up with
\* the settings of its spec, and the VG of one that went through its finalizer is
\* off the host, unless one of the reasons above is in the way.
Settles ==
    <>[]( \/ phase = "live" /\ Settled
          \/ phase = "released" /\ vg = NoVG
          \/ phase = "gone"
          \/ Blocked )
-----------------------------------------------------------------------------
(* What the documentation says, and the code does not do *)

\* volumegroup_types.go: Zero controls if the first sectors are wiped,
\* AutoActivation controls automatic activation, and the allocation policies have
\* the names Contiguous to Inherit, for those of lvm2. So vgcreate is called with
\* the values of the spec, and with a policy lvm2 knows.
OptionsAsDocumented ==
    w.pc = "discover" /\ ~Visible =>
        LET opts == convertToVGCreateOptions(w.spec)
        IN  /\ w.spec.zero \in {Unset, opts.zero}
            /\ w.spec.auto \in {Unset, opts.auto}
            /\ w.spec.alloc \in DOMAIN Snake => opts.alloc = Snake[w.spec.alloc]
-----------------------------------------------------------------------------
(* Why the safety properties hold: an inductive invariant *)

Condition == [reason : {"None", "Synced", "Failed"}, gen : Nat]
Work == [pc : {"idle", "discover", "remove", "finalize", "report"}, spec : Specs, gen : Nat,
         held : BOOLEAN, cond : Condition]

\* The type invariant. What the values of the options are is left open.
TypeOK ==
    /\ spec \in Specs /\ gen \in Nat
    /\ phase \in {"live", "deleting", "released", "gone"}
    /\ held \in BOOLEAN /\ cond \in Condition
    /\ vg = NoVG \/ vg = [f \in Field |-> vg[f]]
    /\ w \in Work
    /\ gap \subseteq Fixed /\ last \in Specs \cup {Unset} /\ edits \in Nat

\* The fixed fields that have been set all the time are as the VG was created with,
\* and as they will be when the VG is created by the reconcile in work.
Lasting == vg # NoVG =>
    \A f \in Fixed \ gap : /\ spec[f] # Unset
                           /\ vg[f] = InEffect(convertToVGCreateOptions(spec))[f]
                           /\ f \in Size => Validate(spec[f])
Awaited == w.pc = "discover" => \A f \in Fixed \ gap : spec[f] # Unset /\ spec[f] = w.spec[f]

\* The settings the VG was last brought in line with are in effect, but those that
\* vgchange refuses.
Agreed == vg # NoVG /\ last # Unset =>
    \A f \in Changeable : \/ last[f] = Unset
                          \/ vg[f] = SyncOption(f, last[f])
                          \/ ~Settable(f, SyncOption(f, last[f]))

IInv == TypeOK /\ Lasting /\ Awaited /\ Agreed

\* The float64 of a size the specs have is as close as Close asks for.
SizesRound ==
    \A s \in Specs, f \in Size :
        s[f] # Unset /\ Validate(s[f]) =>
            /\ convertQuantityToSize(s[f]) \in Nat
            /\ Close(convertQuantityToSize(s[f]), s[f])
=============================================================================
