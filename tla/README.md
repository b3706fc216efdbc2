# TopoVGM in TLA+

TopoVGM is a Kubernetes operator that keeps lvm2 volume groups (VGs) on the nodes of a cluster. A user
writes a `VolumeGroup` resource that names a node, a selector for block devices and some lvm2 options; the
pod of the operator on that node creates the VG, keeps it in line with the resource, reports in the
status, and removes the VG when the resource is deleted.

This directory holds TLA+ modules translated from the Go code, TLC configurations that check them on small
instances, abstract specifications the detailed ones are shown to implement, and TLAPS proofs of the
safety properties for every size. Paths below are relative to
the root of the repository; `controller.go` stands for
`internal/controller/volumegroup_controller.go`, `sync.go` for `volumegroup_controller_sync.go`,
`conversion.go` for `volumegroup_conversion_util.go`, `types.go` for `api/v1alpha1/volumegroup_types.go`.

## 1. Inventory

| Component | State | Operations | Module |
|---|---|---|---|
| Reconciler (`controller.go`) | none of its own between calls; in a call: the object it read, the `lvm` pointer, the joined errors | `Reconcile`, `initializeVG` | Lifecycle; VolumeGroupPromise |
| Condition (`volumegroup_synced_on_host.go`) | the condition `VolumeGroupSyncedOnNode` of the object in hand | three setters | Lifecycle, Sync, Options; StatusContract |
| Sync (`sync.go`) | the VG as read before, errors so far, what is still to be moved | `sync`, `syncTags`, `syncPVs`, `syncMaximumVolumes`, `syncAllocationPolicy`, `syncAutoActivation`, `syncStatus` | Sync (one step of Lifecycle) |
| Two-way sync (`internal/utils/utils.go`) | none | `SequentialTwoWaySync`, `ToSnakeCase` | Sync, Options |
| Conversion (`conversion.go`) | none | options of `vgcreate`, name on the node, sizes, autoactivation | Options (name: Lifecycle, devices: Selector) |
| Selector (`internal/selector/selector.go`) | none | `DevicesMatchingSelector`, `matchesLSBLKRequirement` | SelectorTerms, Selector |
| lsblk (`internal/lsblk/lsblk.go`) | none | `LSBLK`, `RecursiveBlockDevices`, `GetString` | Selector; its failure and its panic also in Sync, Lifecycle |
| API types and CRD (`types.go`, `config/crd`) | the stored resource: spec, generation, finalizers, deletion timestamp, status | validation, immutability of fields | the data of all modules; the rules of immutable fields: Options |
| Manager (`cmd/main.go`, DaemonSet) | work queue, informer cache, one worker per pod | start, watch, requeue, crash and restart | Lifecycle |
| API server, lvm2, kernel | stored objects; VGs, PVs and LVs of the host | conditional writes; commands | external parts of Lifecycle and Sync |
| Generated code, manifests, tests | - | - | not modelled |

How they interact:

- The reconciler **reads** through the informer cache, which lags behind the API server, and **writes** to
  the API server, which accepts a write only with the latest `resourceVersion`. A conflict, a NotFound
  or a lost reply is an error that puts the key back into the work queue.
- A watch event puts the key into the queue of *every* node's pod; the pod of another node drops it at
  the comparison of `spec.nodeName`.
- The reconciler calls lvm2 and lsblk in the namespaces of the host. The host is shared with
  administrators and with programs such as TopoLVM that create logical volumes (LVs).
- `Reconcile` reads the VG once (`VG()`), and `sync`, its recursion and `syncStatus` all work on that
  answer while other commands are run.

What is hard: stale reads of the object; anything that happens between two calls (deletion between
`VGCreate` and the finalizer, a name taken between `VG()` and `VGCreate`, a PV lost between `lsblk` and
`vgextend`); lost replies; crashes half way through a creation or removal; one syncer of several failing;
the recursion of `sync`; the ten seconds passing in the middle of it; a field that reaches the VG one way at
creation and another way in sync; and the selector meeting devices that lvm2 has changed since. `PROJECT.json` lists
40 such hazards at their lines, with the properties aimed at them.

What makes the components correct:

- Reconciler: the finalizer protects exactly as long as there is a VG to remove; nothing is removed that
  was not deleted; nothing a user did is undone; a deleted resource goes away, a live one gets its VG.
- Condition: *Synced* is never said of a VG that is not protected or not there, and never regresses to
  an older generation.
- Sync: *Synced* only when every part of the spec is met; data is lost only by a policy that says so; the
  VG converges.
- Selector: it selects what the API documents, and the same again once the devices are in use.
- Conversion: what a spec says is what the VG has, creation and sync agree on it, and what cannot be changed
  does not change.

## 2. Modules

**Lifecycle** (`controller.go`, the manager, the API server, the hosts). Every stored version of a resource
is kept in `hist[cr]`, so a resourceVersion is an index and a cache is an index that lags (`seen[n][cr]`).
`rec[n]` is the reconcile in flight on node n with a program counter that says which call comes next:
`remove`, `unfinalize` (the branch of a deleted object, `controller.go:81-102`), `discover`, `create`, `finalize`,
`sync`, `report` (the branch of a live one, `:104-139`). One action per call and outcome: `VGRemoveSucceeds`,
`VGRemoveNotFound`, `VGRemoveFails`, `RemoveFinalizer`, `UpdateRejected`, `VGDiscover`, `VGCreateSucceeds`, `ConvertFails`,
`VGCreateFails`, `AddFinalizer`, `SyncSucceeds`, `SyncFails`, `SyncPanics`, `StatusUpdate`, and two that may come at several
places: `SelectorPanics` (the type assertion of `lsblk.go:89`, in a creation or a sync) and `DeadlinePasses` (the ten
seconds of `controller.go:107`: no call after it succeeds, the status cannot be written, and a `vgcreate` that was
cut off may have been done). Around them users create,
rename and delete, other controllers drop their finalizers, the grace period passes, the watch
delivers (possibly skipping versions), administrators create and remove VGs, LVs appear, pods crash and
restart. `host[n][name]` says who created the VG of that name: a resource, somebody else, or nobody.

**Sync** (`sync.go`, `utils.go`). One reconcile over a VG that exists, cut at every command: `AddTags`, `DelTags`,
`ListDevices` (lsblk and the selector), `ReadPVs`, `Extend`, `PVMove` for each PV in turn, `Reduce`, `SyncSetting` for the
two limits, the allocation policy and autoactivation, then `Decide` (the joined error and the
DeviceLossSynchronizationPolicy), `RemoveMissing` with the recursion, `SyncStatus`, `UpdateStatus`. Each command may be
refused by lvm2 for a reason the state shows, fail without one, before or after it has done its work, or
be the last one because the process ends or the ten seconds pass (`Abandon`). `snap` is the VG as it was before sync:
the code never reads it again, and `SyncStatus` writes it into the status next to the PVs it lists anew. The
two device policies may be strings the code does not know, which the CRD lets pass.
Outside, devices are unplugged and plugged, LVs are created, an administrator reduces the VG and the user
edits the spec. `calm` says that nobody but the reconciler has changed the VG or its devices since the reconcile
began; failing commands, LVs and edits of the spec leave it TRUE. `emptyMoveFails` is what the node's lvm2 does with
the `pvmove` of an empty PV, and never changes. Sync details the steps `SyncSucceeds` and `SyncFails` of Lifecycle,
and `StatusUpdate` after them.

**SelectorTerms** (`selector.go`) is the selector as a function from a list of decoded devices to a set of paths, an
error or a panic (a failed type assertion), with the documented meaning next to it. **Selector** (`selector.go`,
`lsblk.go`) has the tree of lsblk, its flattening, and a machine of three steps: the selector is evaluated at
creation, lvm2 then labels the devices and LVs appear below them, and the selector is evaluated again in the
next sync. lsblk itself answers or fails. The tree is a function from places to devices: `<<2>>` is the second device
of the list, `<<2, 1>>` its first child. The list `RecursiveBlockDevices` makes of it is defined by the order of
the places (`ComesBefore`: a device before its children, before the next device); that this is what the recursion of
`lsblk.go:144-150` yields is an assumption of MCSelector (`ListIsRecursion`), which TLC evaluates on all forests
of up to three levels, two devices at the top, two below each and one below those.

**Options** (`conversion.go`, the rules in `types.go`, three syncers of `sync.go`, `ToSnakeCase`). How the fields of a spec
reach the VG: the API server admits an edit (a rule `self == oldSelf` counts only when the field is set before and
after), `Create` converts the spec for `vgcreate`, field by field, `Sync` converts the changeable ones once more for
`vgchange`, and lvm2 fills in defaults and refuses what it does not know. Sizes are rounded to the significand of
a float64 (`Mantissa` bits; 53 in the code). Users edit and delete between any two steps, administrators change
and remove the VG. The reconciler around it is a coarse copy of the branches of Lifecycle, without caches and
faults: the panic after a second creation is the end of that reconcile.

**VolumeGroupPromise** is what a user may rely on, without caches, versions, program counters or calls: per resource
a phase (absent, live, deleting, gone), whether the finalizer holds it, whether it is announced as synced, and
whether the operator has released it; per place a VG with its owner. **StatusContract** is what a client that
waits for the condition may rely on: a status is only written with the generation that is stored at that
moment, and a change of the spec leaves the condition alone, so the observed generation never goes back. **LifecycleRefinement** maps Lifecycle
onto both (`PromiseKept`, `StatusContractKept`): the history becomes the phase of its latest version, the caches and
the reconciles in flight are forgotten, and a VG created for a resource is the resource's. Sync is mapped onto
StatusContract, too: the contract is the interface on which the two meet, so that what Lifecycle proves about
the outcome of a sync as one step is kept by the sync of many.

Theorems are in modules of their own (section 5): **LifecycleProofs** (the invariant), **LifecycleStepProofs** (what follows
of single steps and of pairs of versions), **LifecycleCauseProofs** (what the gaps of the code need), **LifecycleRefinementProofs**, **SyncProofs**, **OptionsProofs**, **SelectorProofs**. **MCLifecycle**, **MCSync**, **MCSelector**, **MCOptions** give the
constants of the runs.

Definitions named `X_Y` that follow the comment "Mutant" are variants of `X` with a plausible mistake. They are
not used by the specification; each property is known to fail when one of them takes the place of `X`.

Assumptions about what is outside the repository:

- API server: optimistic concurrency, a generation that counts spec changes and the deletion, an object
  that disappears with its last finalizer. Watch events of one object arrive in order; after a restart
  the cache lists the latest version. controller-runtime runs one worker per controller.
- A call returns, and has no effect after it returned. Only the branch of a live object has a deadline
  (ten seconds, `controller.go:107`); the removal has none. lvm2go answers a missing VG with no VG
  and `ErrVolumeGroupNotFound`.
- lvm2 refuses changes of a VG while a PV is missing; `vgreduce --removemissing` takes PVs no LV uses and
  with `--force` the LVs with extents on a missing PV too; `vgreduce` of a PV in use is refused, with `--force` it
  may succeed or not. Whether `pvmove` of a PV without extents is an error is left open (`EmptyMoveFails`; the run has both answers, each for good).
- lvm2 refuses to set a limit of PVs or LVs below what the VG holds (`Settable`), to extend a VG beyond its limit of PVs,
  and to create a VG with more PVs than the limit it is given (`Makeable`).
- lvm2 knows the allocation policies of a VG by lower-case names and refuses others; an extent size must be one
  it accepts; on a host that uses a devices file (`UsesDevicesFile`) a VG made with `--devices` or `--devicesfile` is
  not seen by commands without that option. lvm2go refuses negative sizes.
- In Sync LVs fill every PV they have extents on, and one may span several: from the PVs in use it is left open how many
  LVs there are (`LVCounts`). At least one PV of the VG stays attached.

## 3. Runs

Runs that pass:

| Run | Instance | What it shows |
|---|---|---|
| `lifecycle` | 1 resource, other finalizers or none, 2 names, 1 edit, 1 fault; 1,145,953 states | the safety of the reconciler under stale caches, conflicts, a rename, a change of the host, refreshes of the status, a failing, late or lost call, a crash, a panic; how far an orphaned VG and the nil pointer reach; both refinements; and the inductive invariants of the proofs |
| `two` | 2 resources on one node, 1 edit; 419,674 states up to symmetry | reconciling one resource never removes the VG of the other; what was found stays until its own resource is deleted; the promise is kept for two at once |
| `lifecycle_live` | 1 resource, other finalizers or none, 1 edit, 1 fault, fairness; 219,120 states | a deleted resource goes away, a live one is reported synced, a lost VG comes back |
| `sync` | 3 devices, 4 specs, VGs made for any of them, limits up to 2, 2 disturbances or failing commands, both answers of `pvmove` on an empty PV, fairness; 1,835,966 states | see below |
| `selector` | 2 hosts, every selector of at most 2 terms of at most 2 of 11 requirements; 209,362 states | plain selectors mean what the API documents; a selection survives its own use; and the inductive invariant of the proofs |
| `options` | 9 specs, 3 edits, a host with a devices file, fairness; 233,829 states | see below |

Properties of Lifecycle:

- `DroppedFinalizerMeansRemoved`: from the version in which the operator drops its finalizer on, the VG it
  created under the name of that version is on no host, for good. The danger is a reconcile that still
  works on a version from before the deletion and creates the VG again. It holds because a cache does
  not go back and one worker serves the queue.
- `SyncedImpliesProtected`: a stored version with *Synced* has the finalizer or is being deleted.
- `UserEditsSurvive`: the status and the finalizer are written with the whole object read many calls earlier; no
  write undoes a rename, a deletion or the release of another finalizer.
- `StatusContractKept`: no write puts an older status over a newer one, or claims a generation it did not see.
- `PromiseKept`: every step of the detailed system is a step of the promise, or none at all. The finalizer is taken
  from deleted resources only, with their VG off the host or under another name; no VG is created for a
  resource that was released; a resource is announced as synced only when held; users alone create and delete.
- `OrphansExplained`: how far the run `orphan` below reaches. A VG outlives its resource only if the resource never got
  the finalizer, or if the VG has another name than the resource had when the finalizer was dropped.
- `SyncGetsVG`: how far the run `panic` below reaches. As long as no user renames a resource and nobody but the operator
  creates or removes VGs (`edits = 0`: LVs may come, and the operator may write its status as often as it likes),
  `sync` gets the VG that `VG()` found and not the nil pointer `initializeVG` leaves; no crash, conflict, stale cache or failing
  call is enough. It takes a finalizer on an object without its VG, and Reconcile itself does not bring that about.
- `HeldHasVG`: the inductive form of `SyncGetsVG`. The VG is there from before the finalizer is stored until the node has
  seen the deletion, and as long as a reconcile of a live version that found it, made it or read the finalizer goes on.
- `SyncedMeansPresent`: as long as `edits = 0` in the same sense, a live resource that is reported synced has its VG.
- `ForceOnlyAfterGrace`, `OnlyDeletedRemoved`: what `VGRemove` may destroy, and for whom.
- `FoundStays` (run `two`): with names that are unique on the node and as long as `edits = 0`, a VG that a reconcile has
  found, or that any version or reconcile says is synced, is there until its own resource is deleted. It is
  the inductive form of `SyncedMeansPresent`: a reconcile may say *Synced* of a VG it looked for several calls before.
- `IInv`: the inductive invariant of section 5.
- `DeletionCompletes`, `EventuallySynced`, `HostLossRepaired`: no way out of `Reconcile` forgets the key.

Properties of Sync:

- `SyncedMeansInSync`: when the condition becomes *Synced*, every part of the spec that was read is met, unless somebody
  else changed the VG or unplugged or plugged a device meanwhile (`calm`). Commands may fail for no reason the VG
  shows and LVs may appear, so a lost error of any one of the syncers would break it, at any level of the recursion.
- `OnlyForceDestroys`, `FailKeepsMissing`: extents are lost only in `vgreduce` under `ForceReduce`, or in
  `--removemissing --force` under `ForceRemove` with a device lost; under `Fail` a missing PV is still a member when
  it comes back.
- `RecursionNeedsLoss`: each level of recursion needs a further loss of a device, so sync does not recurse forever.
- `Converges`: once left alone the VG becomes what the spec asks for, and the status says so and keeps saying
  so, or one of the reasons in `Stuck` is in the way: lost devices under a policy that leaves them; nothing selected;
  more selected than the limit of PVs allows; PVs to exchange at the limit, which cannot begin because the code
  extends before it reduces, unless sync can lift the limit, which it does later; a limit of LVs below the LVs there
  may be; data with no room or no permission to go; an empty PV that cannot be moved from. Each is needed: without
  any one of them TLC finds a VG that rests out of sync. It covers the status as a whole:
  the snapshot that is one sync behind is right once a sync has found nothing to do.
- `StatusContractKept`: as above, for the sync of many commands.
- `IInv`: the inductive invariant of section 5.

Properties of Selector: `PlainMeansDocumented` compares plain selectors (`In` on columns every device has a text in) with
the documented meaning, at every depth of the tree. `SelectionSurvivesUse`: the sync after the creation selects
the devices of the creation, although they now carry a PV label and have LVs below them, as long as the terms
name columns lvm2 leaves alone; a failing lsblk does not pass for an empty host. `IInv` is the inductive invariant of
section 5.

Properties of Options:

- `FixedAsSpecified`: the sizes and the devices, which cannot be changed once set, are in the VG as the spec has them, sizes
  up to half a unit in the last place of a float64. It does not speak of `zero`, the other fixed field: that one reaches
  `vgcreate` inverted (run `options_documented`). Fields that were unset in between (`gap`) are exempt: the rules of the CRD do
  not see such a change, and nothing applies it to the VG.
- `SettledIsLeftAlone`: a sync from the spec the VG was created or last synced from changes nothing. Creation and sync
  have conversions of their own, and a difference would make every sync undo the creation.
- `Settles`: once left alone a live resource's VG has the settings of its spec and the condition says so, and the VG
  of a deleted one is off the host, or one of the reasons in `Blocked` is in the way: a size or a policy lvm2
  does not take (at creation the policy must be spelled as lvm2 does), or devices that only `vgcreate` was told of.
- `IInv`: the inductive invariant of section 5. MCOptions also assumes, so that TLC evaluates it, that rounding is
  close for the sizes of the specs (`SizesRound`) and, with three bits, for every number up to 512.

Runs that show a disagreement between the code and its documentation:

| Run | The documentation | The code |
|---|---|---|
| `orphan` | README.md:13: deletion of the resource deletes the VG | the VG is created (`controller.go:114`) before the finalizer is added (`:121`); a deletion in between leaves the VG behind, without any fault |
| `rename` | `types.go:37`: changing `nameOnNode` renames the VG | `VG()` is called with the new name, finds nothing, and a second VG is created; `syncName` never has two names to compare |
| `panic` | `main.go:76`: the sync interval picks up changes on the host | a VG removed on the host is created again and the same reconcile passes the nil `lvm` pointer to `sync`, which dereferences it (`sync.go:94`). `HostLossRepaired` still holds: the restarted pod finds the VG |
| `waiting` | `controller.go:100`: "volume group has been removed and is now waiting for other finalizers" | every requeue calls `VGRemove` again and removes whatever has taken the name since |
| `selector_documented` | `types.go:311`: an empty term matches nothing; `types.go:327`: `NotIn` and `Lt` are valid; `selector.go:105`: `Gt` matches a greater value | one selector shows all three: no requirement of an empty term is left unmet, so it matches every device (`selector.go:52`); the switch of `matchesLSBLKRequirement` has neither `NotIn` nor `Lt` (`:70`), so they match nothing and raise no error; `Gt` asserts an `int` where JSON has a `float64` (`:98`) and compares zero |
| `options_documented` | `types.go:111`, `:116`, `:368-373`: zero, autoActivation and the names of the policies | one spec shows all three: `convertToZero` is inverted (`conversion.go:136`), `convertToAutoActivation` answers "no" for `true` as for `false` (`:132`), and the policy reaches `vgcreate` as the spec spells it (`:75`), which lvm2 does not know; sync has `ToSnakeCase` (`sync.go:191`) |

### Bounds

- `MaxEdits` counts renames and the VGs that somebody else creates or removes; `MaxFaults` counts failing, late or lost
  calls, panics of the selector and crashes. One edit and one fault may fall between any two calls of `lifecycle`.
  `MaxVersions` ends the refreshes of the status that change nothing but the transition time, which the code writes at
  nearly every sync: the operator may write one as long as the resource has fewer versions than that. Four leave room
  for one on top of a resource that was created, got its finalizer and was synced, and for more on a resource that
  has not got so far; a history with more of the same tells a cache nothing new. Creation, deletion, LVs, the grace
  period, the other finalizer and all other steps of the operator are not bounded: they end by themselves.
  One resource is enough for every property but `OnlyDeletedRemoved` and `FoundStays`, because the reconciler keeps
  nothing from one key to the next; `two` is for these, with two resources that are alike (its symmetry) and without faults. The runs
  have one node: with a second one, whose pod sees every version too, TLC does not end in time. That it leaves the
  resources of other nodes alone rests on the theorems (`CreatedAtHome`), which have no such bounds, nor those below.
- `MaxTrouble` counts what anybody but the reconciler does in Sync, failures and crashes together. Two are
  needed for a device that is lost and comes back, a loss in the middle of a recursion, and a spec edit
  with a failing command after it. Three devices are the fewest for an exchange that keeps one PV, and with limits of
  at most two the limit is met, exceeded, lifted and lowered. Of the four specs one has two PVs at the limit, one exchanges
  a PV by moving, lifts the limit and takes a limit of one LV, a tag and a policy, one exchanges both PVs for one by
  force at the limit, and one selects more than the limit allows under unknown policies; any may follow any by an edit,
  and the VG may have been made for any that `vgcreate` accepts.
- `MaxEdits` of Options counts edits of the spec and changes of the host. Three are needed for a fixed field that is
  unset and set anew with the VG removed in between, and for an edit that follows a host change during a
  sync from an older spec. `Mantissa = 3` makes sizes of 13, 20 and 27 round down, stay and round up, which 53 bits
  do at sizes TLC does not count to; the nine specs have sizes below, at and above it, a negative one, an
  extent size and a policy lvm2 refuses, a documented policy name and one in the spelling of lvm2, and devices
  of their own.
- The selectors of `selector` have two terms and two requirements because union and intersection need two
  of each; the requirements have each operator the code knows, one it does not (`NotIn`), and the values that
  lead to the error and to the panic. The forests have a partition below a disk, a null column, and a loop device.

Deadlock is not checked: a resource that is gone, or a VG in sync with the disturbances used up, may rest,
the machine of Selector ends, and a resource of Options may be gone.

### Fairness

Lifecycle: a call in flight returns (`WF Proceed`), the DaemonSet restarts a pod (`WF Restart`), the watch delivers
(`WF Observe`), clocks advance (`WF GraceExpires`). `SF Begin`: the worker takes keys in the order they came (the
work queue is first in, first out and holds a key once), so a waiting key is taken although the worker is
busy with others in between; weak fairness would allow it to be passed over each time the worker is idle.
No fairness is assumed of users, administrators or other finalizers: `DeletionCompletes` speaks only of a
resource the others have released.

Sync: `WF Reconcile`, calls return and a further reconcile follows. The latter is what Lifecycle establishes: every
return of the branch of a live object is an error, a requeue, or `RequeueAfter` the sync interval. Which
way `vgreduce --force` decides is left open even under fairness. Options: `WF Reconcile`, for the same reason.

## 4. What is only model-checked

- Liveness (`DeletionCompletes`, `EventuallySynced`, `HostLossRepaired`, `Converges`, `Settles`) is out of the prover's reach.
- That the list of devices is the one the recursion of `lsblk.go` makes of a tree (`ListIsRecursion`): what a recursive
  definition computes for every tree is an induction over data the prover does not have. TLC evaluates it on small
  forests. What is proved for every tree starts from the list as it is defined.
- That a float64 comes close to a size (`SizesRound`): the powers of two in `AsApproximateFloat64` would need an
  induction. TLC evaluates it, and the one theorem that needs it has it as its hypothesis.

Every other property of the passing runs is a theorem.

## 5. What is proved

The theorems hold for every value of the constants that satisfies the named assumptions of the modules: any
resources, nodes, names, devices, specs, limits, and any number of edits, faults and disturbances.

### Lifecycle

`LifecycleProofs`, from `NodeNameAssumption`, `NameAssumption`, `ValueAssumption`, `BoundAssumption`:

- `TypeCorrect`: `Spec => [](TypeOK /\ CacheBehind /\ WorkRead)`. Types; a cache is never ahead of the history; a
  reconcile in flight works on a version its node has read of a resource of its own.
- `Invariance`: `Spec => []IInv`.
- `FinalizerPromise`: `Spec => []DroppedFinalizerMeansRemoved`.
- `SyncedIsProtected`: `Spec => []SyncedImpliesProtected`.

The argument has layers. `Base` (the conjuncts of `TypeCorrect`) is inductive by itself and says that every
expression of the model has a value. On top of it `Safe` is inductive relative to `Base`:

- `DeletionSticks`: a deletion timestamp never goes away.
- `BranchOfVersion`: the branch of `Reconcile` that is in work is the one of the version that was read; when the
  finalizer is about to go, the VG of that name is not one the resource owns; `sync` runs only with the finalizer.
- `CreatedAtHome`: VGs of a resource are on its node only. Without it, another node would have to be shown
  to have removed its copy.
- `DropsAreSeen`: the finalizer is dropped only from a version that is being deleted, the node of the resource
  has seen that version, and no work in flight is older. This is the heart: a reconcile that could create
  the VG again would work on a live version, so (by `DeletionSticks`) on one before the drop, and none is left.

`DroppedFinalizerMeansRemoved` needs all four. The write that drops the finalizer passes the API server only
when the version in hand is the latest, and `BranchOfVersion` then gives that the VG is gone. The rest of `IInv`
(`ExistsWhileHeld`, `WorkKnows`, `NamesGiven`) is for the step properties and the refinements: a version is there until it
is deleted and no finalizer holds it, a reconcile uses force only after the grace period and has a condition of
the generation it read, and names and VGs are ones users gave. The lemmas
follow the shape of the model: what a write does (`StoreAppends`, `StoreKeepsSafe`), what moving the work on does
(`WorkKeepsBase`, `ContinueKeepsSafe`, `ReturnKeepsSafe`), and one lemma per group of actions; `BaseStep` and `SafeStep` put
them together. `IInv` is also an invariant of the run `lifecycle`.

`LifecycleStepProofs`:

- `EditsSurvive` (`UserEditsSurvive`) and `ForcedAfterGrace` (`ForceOnlyAfterGrace`). The steps of Next are first sorted by what
  they do to the histories and to the hosts (`StepKinds`); an operator's write differs from the version it was
  read as in the finalizer and the status only, and passes only on top of that version.
- `OnlyOwnRemoved` (`OnlyDeletedRemoved`), `FoundIsKept` (`FoundStays`) and `SyncedIsPresent` (`SyncedMeansPresent`), each under
  `UniqueNames`: no two resources of a node are given the same VG name. The last two hold until a user renames a resource
  or somebody else creates or removes a VG. The API makes that the user's duty, and
  without it the properties are false: a reconcile removes by name.

`LifecycleCauseProofs`:

- `OrphansHaveCause` (`OrphansExplained`), without further hypotheses. A resource that is gone has no finalizer
  (`ExistsWhileHeld`), so one that ever had it has a version it was dropped from (`DropHappened`: the first version
  without it after one with it), and `DroppedFinalizerMeansRemoved` has the VG of that version's name off every host.
- `HeldIsThere` (`HeldHasVG`) and `NilNeedsEdit` (`SyncGetsVG`), under `UniqueNames` and in the same sense of `edits = 0`. `SyncGetsVG` is not inductive: whether `VG()`
  finds the VG of an object with the finalizer depends on what was on the host when the finalizer was stored, perhaps
  by a pod that has crashed since. The first part of `HeldHasVG` carries that over versions and restarts, until the node
  *sees* the deletion: an object that is deleted but still looks live to the cache must have its VG too. The second
  part carries it through the calls of one reconcile, where the single worker is what keeps the VG (`BusyKeepsVGs`).

`LifecycleRefinementProofs`: `ContractKept` (`StatusContractKept`) and `PromiseIsKept` (`PromiseKept`). Initial states map to
initial states, and each kind of step to a step of the abstract specification or to none. The release of a
resource is the step that needs `IInv`.

### Sync

`SyncProofs`, from `SpecsAssumption`, `NameAssumption`, `LimitAssumption` and `ValueAssumption` (a node has finitely many
devices, and lvm2 has an allocation policy). Each action is first read as what it does to the work and to the
VG: the work goes on at a place with some errors (`Moves`), a command does its work or leaves an error (`Runs`),
and all syncers have in common what `Goes` says: they touch no VG with a missing PV, speak of a missing PV
only if there is one, and lose no error.

- `TypeCorrect` (`TypeOK`), `RecursionEnds` (`RecursionNeedsLoss`): `Base`, the first four parts of `IInv`, is inductive.
  `LossCounted` is why the recursion ends: a PV that is missing, or an error that speaks of one, was lost since
  the last level, and the removal leaves neither.
- `MissingIsKept` (`FailKeepsMissing`), `OnlyForceGivesUp` (`OnlyForceDestroys`; a `pvmove` exchanges one PV in use for another,
  so the number in use stays), `ContractKept` (`StatusContractKept`).
- `Invariance` (`IInv`) and `SyncedIsInSync` (`SyncedMeansInSync`). What `SyncedMeansInSync` says of the end is not inductive:
  the syncers work on a snapshot of the VG as old as the reconcile, and the recursion uses it again. `SyncInStep` says
  what each place in sync knows while nobody else changes the VG or the devices, whatever commands fail: with a missing PV
  the VG still is the snapshot, so that after the removal the snapshot is right but for the PVs, which are read anew;
  without an error each syncer has reached its part (`TagsReached`, `PVsReached`, `SettingsReached`) when the next one
  begins. TLC checks `IInv` in the run `sync`.

### Options

`OptionsProofs`, from `SpecAssumption`, `UnsetAssumption` (nil is not a value) and `BoundAssumption`:

- `Invariance` (`IInv`): the fixed fields that were set all the time are in the VG as it was created (`Lasting`), a
  creation in work has them from the stored spec (`Awaited`), and the VG has the settings of the spec it was last
  brought in line with, but for those lvm2 refuses (`Agreed`).
- `SettledStays` (`SettledIsLeftAlone`): from `Agreed`. The point is `WaysAgree`: `convertToVGCreateOptions` and the syncers make
  the same of a field, if it is the policy because `vgcreate` took only the spelling of lvm2.
- `FixedIsAsSpecified`: `SizesRound => (Spec => []FixedAsSpecified)`, for the sizes and the devices.

### Selector

`SelectorProofs`, from `ForestsAssumption` (lsblk reports finitely many devices, each with a path, a type and a size) and
`SelectorsAssumption` (the CRD admits no key but the columns of lsblk), for trees of any depth and selectors of any length:

- `EveryDeviceOnce`: `RecursiveBlockDevices` lists the device of each place of the tree, and of each once. `ComesBefore` is a
  strict total order of the places, so counting the places before one numbers them without gaps.
- `Invariance` (`IInv`): the tree stays one that lsblk can report, and a VG that exists was created from devices that a
  steady selector still stands for after lvm2 has changed the tree (`InStep`).
- `PlainIsDocumented` (`PlainMeansDocumented`): on any list that has every device of the tree, a plain selector ends without an
  error or a panic and selects the paths of exactly the devices that meet a term.
- `SteadySelects` (`SelectionSurvivesUse`): if nothing went wrong at creation, and the devices have since been labelled and
  LVs no term names have come up below them, the later selection is the same. The list is a different one by then,
  so the argument goes over the set of devices and not over positions. The later evaluation cannot panic:
  whether a type assertion fails depends on the column and not on the device.

## 6. What is not modelled

- Manifests, RBAC, generated deep copies, flags for metrics and probes: no behaviour of their own.
- How a command is run and its output parsed (`nsenter`, JSON decoding): its failure is an outcome, and the
  decoded values are the data of Selector.
- Clocks. That the grace period is over is an event (`GraceExpires`); the comparison of the node's clock with the
  timestamp of the API server (`controller.go:85-86`) is not modelled, nor are clocks that differ.
- Durations. That the ten seconds pass is an action; that a move which always takes longer starves the status, that a hanging `vgremove` blocks the
  worker, and that a cancelled command may end later, are hazards with a note in `PROJECT.json`.
- Status fields that are copied without a decision; message texts. Sizes read back into the status are truncated
  to whole bytes (`convertSizeToQuantity`), and lvm2 reports whole bytes.
- `ToSnakeCase` on strings that are not policies: a policy lvm2 does not know stays one under any spelling.
- Two resources with one name on a node: the API makes uniqueness the user's duty.

## 7. Plan

Done: all modules and runs; the refinements; the theorems of section 5. What could follow:

- a refinement of the steps `SyncSucceeds` and `SyncFails` of Lifecycle by Sync as a whole. So far the two meet in
  StatusContract only.
