# TLA+ models of the RDK HAL interfaces repository

The repository holds the AIDL interfaces of the RDK HAL, the C++ that is generated
from them for each released version, a small header that clients use to decide
whether a server is compatible, and the scripts that cut, stage and publish
releases. This directory models the parts of it that keep state and take
decisions, checks them with TLC on small instances, and proves the central
properties with TLAPS for every value of the constants.

- [What the system is](#what-the-system-is)
- [Modules](#modules)
- [Runs, bounds and results](#runs-bounds-and-results)
- [Where code and documentation part](#where-code-and-documentation-part)
- [Proofs](#proofs)
- [What is only model-checked](#what-is-only-model-checked)
- [What is not modelled](#what-is-not-modelled)
- [Plan](#plan)

## What the system is

| Component | State | Operations | What makes it hard | What makes it correct |
|---|---|---|---|---|
| Version predicate (`common/current/halcompat.h`) | none of its own | `detail::version`, `era`/`major`/`minor`/`bugfix`, `isCompatible` (pure and over a proxy), `getService` | two transactions, either of which may fail; sentinel and development values among real ones | a server is accepted only if it is compatible; a development build only on request |
| Generated proxies (`*/<version>/src/**/I*.cpp`, class `Bp*`) | `cached_version_`, `cached_hash_`, `cached_hash_mutex_` | `getInterfaceVersion`, `getInterfaceHash` | binder threads share a proxy; the version cache has no lock, the hash cache holds a mutex across a transaction; the server may die in between | caches only fill; the mutex comes back; every call ends |
| Release script: version arithmetic (`scripts/release.sh`) | none | `compute_next_versions`, `_version_bump`, `sort -V`, `_snapshot_version_int` | decimal fields of width 1-2-2-1 packed in an int32, read back in C++ | the packed number orders builds as the releases are ordered, and the C++ predicate answers as the change classes say |
| Release script: cohort decision | `COMP_TOUCHED`, `COMP_BREAKING`/`NON_DOC`/`DOC`, `PLAN_COMPONENTS`, `COMP_DEP_CLOSURE`, `COMP_RECOMMENDED`, pins, `BUMPED_COMPONENTS` | commit analysis, plan gate, surface gate, subsume pass, dependency closure, audit gate, per-component loop | eight phases overwrite one class in turn; two fixpoint loops walk a bash hash table in any order with a silent cut-off | the fixpoints are complete and minimal; a cut snapshot can be pinned; the compiler's verdict is the floor; a targeted run stays targeted |
| Release script: staging | the working tree: `current/interface.yaml`, `<comp>/<version>/`, `metadata.yaml`, `versions_released.yaml`, dependency versions inside snapshots | `stage`, `drop`, `clean`, `--apply --commit` | the tree is the only memory; any step may fail, any run may be killed; runs, drops and cleans come in any order | a run that ends well leaves a consistent cohort; `current/` is restored; metadata names only whole snapshots |
| Release script: `--complete` | local and remote `main`, `develop` and tag, the site, the release page | preflight, sync of the branches, git flow finish, push, docs, release page | any step may fail; it is run again, perhaps from another checkout, while others push | one tag, on main; site and page only after it; running it again gets through |
| Compiler-based classification (`scripts/aidl_compat.py`) | none | classify a component against its last release | "could not check" is a verdict too | never better than what the AIDL compiler says |
| Module build driver (`build_modules.sh`) | `out/`, `build/` | build `current`, a snapshot, or the manifest | dependency order; what was built earlier is taken as it is | a manifest builds exactly when everything it reaches is there |
| Change-class sync (`scripts/project_interface_effect.py`, workflows) | labels, project field, sync state of each ticket | event sync of one ticket, sweep of all, pull request to issue and back | two workflows and people edit three surfaces concurrently | an edit is not lost; the surfaces converge |
| Generated parcelables, unions, stubs | the parcel and its position, the objects read into | `readFromParcel`, `writeToParcel`, method code of `Bp` and `Bn` | reader and writer of different releases, types inside one another, arms one side does not know, reused reply objects | each reads what the other wrote into the fields it declares, as long as one release appends to the other |
| Refreeze (`scripts/refreeze_snapshots.sh`) | `current/`, its backup, the snapshot, git's index | swap, stage, stamp, build, copy back, restore, `git add` | the developer's only copy of `current/` is moved aside; signals, failures (most of them unguarded) and kills between any two commands | nothing is lost but by two failures nobody handles; what is reported as refrozen is |
| The HAL components (audiodecoder ... videosink) | contracts only | AIDL methods and callbacks | life cycles described in comments | no implementation in the repository |
| Freeze, toolchain, reports, docs, tests, example | files | sequential scripts | - | - |

How they interact: the decision picks the components and versions; staging bakes the
encoded version into generated code; a client is compiled against one snapshot, meets a
server built from another, and asks the predicate through the caches of its proxy.
`versions_released.yaml` closes the circle: the next decision and the manifest build
read it. `--complete` brings a staged release to `main`, where users find it; the labels
that the change-class sync keeps are what the next decision starts from; refreeze changes
snapshots that are already released.

## Modules

| Module | Models | Kind |
|---|---|---|
| `HalCompat` | packing and predicate of `halcompat.h` | operators |
| `BinderProxy` | client threads in `halcompat::isCompatible` on one proxy, server death and replacement | specification, extends `HalCompat` |
| `ReleaseVersion` | version arithmetic and encoder of `release.sh` | operators, extends `HalCompat` |
| `ReleaseLine` | releases of one component, and a client that judges the newest | specification, composes `ReleaseVersion` and `HalCompat` |
| `ReleaseCohort` | one mutating run's decision | specification, extends `ReleaseVersion` |
| `ReleaseStage` | runs on the working tree between two releases | specification |
| `ReleaseComplete` | `--complete` from several checkouts of one release | specification, refines `Publication` |
| `Publication` | what origin may see of one release | abstract specification |
| `EffectSync` | event workflow, sweep and people on tickets | specification |
| `ParcelSkew` | calls between a client and a server of different releases, cell by cell | specification, extends `HalCompat` |
| `Refreeze` | stamping released snapshots in place | specification |
| `BinderProxyProofs`, `ReleaseLineProofs`, `ReleaseCohortProofs`, `ReleaseStageProofs`, `ReleaseCompleteProofs`, `EffectSyncProofs`, `ParcelSkewProofs`, `RefreezeProofs` | theorems | |
| `MC*` | the instances TLC checks | |

Operators whose comment starts with "mutant" are deliberate mistakes next to the
definition they replace; no specification uses them. Each property of a passing run is
violated when one of them is put in.

### BinderProxy

`pc[t]` is the place of thread `t` inside `isCompatible(service, allowUnfrozen)`:
`LockHash`, `TestHash`, `CallHash`, `ReturnHash` are `BpXxx::getInterfaceHash`,
`TestVersion`, `CallVersion`, `ReturnVersion` are `getInterfaceVersion` and the
predicate. A transaction (`CallHash`, `CallVersion`) fails whenever it likes and must fail
once the server is dead. The version field is shared by the threads without
synchronisation, which is a data race: `ReturnVersion` may return the field or the copy
the thread read last. A hash is one of "frozen" (any real hash), "notfrozen", "" and
"-1": the code compares with nothing else. `Lookup` is a new `getService()` call and is
taken when no thread is inside a call, since a proxy lives as long as its users.

Fairness is `WF_vars(Inside(t))` for each thread: threads are scheduled, and a binder
transaction returns (with a result or `DEAD_OBJECT`). Nothing forces a call, a death or a
lookup.

### ReleaseVersion and ReleaseLine

A release is `[era, major, minor, doc]` for `X.Y.Z.W`. `SnapshotVersionInt` is what
`create_snapshot` bakes in; a release wider than the fields leaves the generator's
default, 1. `ReleaseLine` is the life of one component: `Cut(class)` computes the next
version, `CutPinned` takes an operator's version at or above it, `BuildClient` compiles a
client against the newest snapshot. Any release may be cut unfrozen although it fits the
encoding, also the first: where the contract hash cannot be made or the stamp cannot be
written, the script warns and cuts the snapshot with VERSION 1 all the same
(`release.sh` 2952-2963). `broken` records whether a breaking release was cut
since the client was built.

`AcceptedIffUnbroken` ties the bash encoder to the C++ decoder and `VersionsAdvance` orders
the packed numbers; both are about two frozen snapshots, whatever was cut unfrozen between
them. `UnfrozenIsRefused` is about a frozen and an unfrozen one. Two unfrozen snapshots
both report 1, and the predicate on versions alone takes them for each other: what refuses
that server is the test for the hash "notfrozen" before it (`halcompat.h` 168, in
`BinderProxy`).

### ReleaseCohort

The phases of `release.sh` in order: `analyse` (2122-2235), `plan` (2246-2363),
`surface` (2506-2523), `subsume` (2581-2620), `close` (2644-2695), `audit` (4047-4344,
4485-4500), `decide` (4503-4749). One class per component stands for the maps
`COMP_BREAKING > COMP_NON_DOC > COMP_DOC`. The two fixpoint loops take the components of
a pass in any order, since bash walks an associative array; the sorted loops take the
first of `Order`. The verdict of the compiler and the parser's surface class are inputs.
Abstracted: `--no-audit` and read-only modes, version recovery of an earlier stage run,
hand-edited `metadata.yaml`, imports from outside the repository.

### ReleaseStage

The state is the working tree. `Stage(named)` starts a run: the components to cut are
those the decision picked among the named ones and the ones that already lie in the tree,
and the imports with no released version, as `current/interface.yaml` lists them
(`Listed`: a damaged file lists none). Then, per component, `create_snapshot`:
`Stamp` writes the version into `current/interface.yaml` after a backup, `Build`,
`Replace` (an earlier snapshot of the version is removed), `Copy` (and restore),
`Finish` (pins, documents, headers), `Metadata`. A failed component sets `failed` and the
loop goes on; `EndCut` ends the run if any failed. `Publish` writes the manifest,
`Normalize` rewrites the dependency versions in the cohort snapshots, `Verify` builds.
`Kill` ends a run between any two steps. `Drop`, `Clean` and `Apply` run when no stage
run does. `pins` holds `<<c, v, d, w>>`: snapshot `c/v` refers to version `w` of `d`.

`create_snapshot` runs in the condition of an `if`, with errexit off, so a command it does
not guard fails and the script goes on. Three of these touch `current/interface.yaml`:
the `mktemp` (2956: the stamp has no backup and stays), the `cp` (2957: the backup may be
empty, and is moved over the file) and the `mv` of the restore (2948: the stamp stays, or
the text is lost). A kill and each of these is an `Upset`, bounded by `MaxUpsets`, which
puts the component that is stamped into `spoiled`. `CurrentRestored` says that nothing else
leaves a stamp, whichever of the guarded steps fail, in whichever run; a component in
`spoiled` no later run mends, because the next backup is of the stamped file. That
`_set_interface_version` fails (`SetVersion`) is no upset: the backup is there. The unguarded
`sed -i` of the library names (3052-3053) is not split off: what it leaves is a reference
to `current`, which `Normalize` rewrites with the others.

Abstractions: a component has one new version in a cycle (the audit stops a run whose class
changed under a staged component), the decision is a constant (it is `ReleaseCohort`'s
matter), documentation files and the git index are left out, `drop` and `clean` are
atomic, `--apply` takes the tree as it is, the verification may fail for reasons
of its own but passes only if the manifest builds.

### ReleaseComplete and Publication

A branch is the set of commits it holds beyond a common base, so that "is an ancestor of"
is inclusion; a tag is the checkout that made it with the history it points at, because
annotated tags made apart are different objects. `repo[c]` is a checkout (local branches
and tag, the release branch, HEAD), `run[c]` the `--complete` in progress with what it has
fetched, `origin` the remote. The actions follow `release.sh` 1369-1634: `Start` (the
preflight on the tag), `Fetch`, `SyncBranches` (fast-forward, leave, or die on divergence),
`SkipFinish` or `RunFinish`, git flow's own steps (`FlowMerge`, `FlowTag`,
`FlowBackMerge`, `FlowCleanup`: external, from what the script expects of it),
`Compare`, `Push`, `DeleteBranch`, `DeployDocs`, `PublishPage`. `Stop` ends a run
at any step; `FlowConflict` and `DocsFail` are failures that leave something behind.
`OthersMerge`, `Pull` and `HandPush` are people. Left out: `--sync-labels`, whose result
is a hint and whose failure a warning.

`Publication` has three facts (tagged, documented, announced) and lets them become true
once, the tag first. `Refines` is its specification under the mapping from origin's tag,
site and page.

Fairness: a run that is started goes on, an operator runs the command again
(`WF_vars(Progress(c))`) and reconciles a branch when it is told to
(`SF_vars(\E r \in Refs : Pull(c, r))`); faults are bounded, and nothing makes others stop.

### EffectSync

A ticket has three surfaces: its labels, the field on the project board (`effect`) and
the class last written (`synced`). `run[w]` is an event run (one per issue, as the
workflow's concurrency group says) or the sweep: what it has read of the tickets, the
ticket in hand and its step. `Decide`, `RecheckLabels`, `WriteField`, `AddLabels`,
`RemoveLabels` and `WriteState` are `sync_ticket`, one action per call to the server;
`Propagate` to `SpreadEnd` are `propagate_pr_to_issues`. `EditLabels` and `EditField` are
people, `Kill` the cancellation of a sweep or the end of any run.

The auxiliary variable `due` is the class the last undisturbed edit asks for (`Wanted`):
an edit made while no run was between its last look at the ticket, or at what it is linked
to, and its last write (`Quiet`). It is what `Resolve` says, unless a label that is never
taken away stands for a stronger class: then it is that one (`Lasting`), because the next
sweep derives it again. It is asked of a ticket no pull request closes (`Unlinked`), and of
a pull request with its only issue (`Paired`) when they were in step before the edit: the
pull request's class wins, and one without a class takes the issue's. One case is excepted
(`Outdated`): a sweep that is not done with the pull request has read another class of it
or of its issue than they have. The code reads the issue no second time before the pull
request inherits, so that the old class is spread over the new one; without the exception
TLC finds the lost edit with three edits. Of larger groups nothing is asked (`Free`): with
two pull requests or two issues the last sweep, not the last edit, decides, and TLC shows
it within a few steps. `EditHolds` compares `due` with the field whenever the tickets are
settled and in step (`Together`), also in the middle of a run.

Left out: milestones, scope, dry runs, labels
that do not exist in the repository, failing requests that are not the end of the run.

Fairness: the sweep comes round (`WF_vars(SweepStep)`, a cron job), and a label event
starts a run that goes on (`WF_vars(EventStep(i))`). It does not exclude that event runs
and sweeps overlap forever; `Converges` therefore asks only for what follows once they no
longer do.

### ParcelSkew

`wire` is the parcel, one cell per word the code writes: words, union tags, presence
flags, size headers, element counts. `stack` holds the activations of `writeToParcel` or
`readFromParcel`, each with the position of its size header; a field's value is the place
and the call it was written in, so that a stale value or another field's can be told from
the right one. `Layout[t][r]` is what release `r` declares of parcelable `t`, in the
shapes the templates know: a word, a parcelable or union, an optional one, a vector.
`Arms[u][r]` are the arms of union `u`, each with a value of any of these shapes
(`Holds`), so that an arm may be a vector of parcelables. A union is written as
its templates write it: presence flag, tag, value of the arm; an optional one may be null.

`Connect` reaches a server of any release, and the properties name what they need of the
two. `Appends(old, new)` is the hypothesis: every type's fields, and every union's arms,
of `old` are a prefix of those of `new`. `Skewed` is that in one direction or the other.
It is not what the release audit enforces. The audit compares a component's own types with
`aidl --checkapi` (`aidl_compat.py` 142-159), which finds fields out of order; of what the
component imports it compares the generated headers as sets of declarations (239-252,
296-322), so that a field inserted or moved in an imported parcelable counts as an
addition, and an arm appended to a union is an addition anywhere. Such releases the
predicate accepts and the calls fail; `AcceptedIsServed` states the promise and two
configurations below break it, one for each.

`InPlace` (nothing is read from another field's place) and `NeverRefused` (nothing
is refused but an arm the reader does not know) need `Skewed`. `SidesAgree` (both sides hold
the same) needs `Appends(client, server)`: a server older than its client sends less than
the client declares, and a reused reply object keeps what it held.

A call may also end because the server is of another interface (`checkInterface`, "BAD_TYPE"),
its method returned a status (`Handle`, "EXCEPTION"), memory ran out on either side
(`WriteFails`, `ReadFails`, "NO_MEMORY"), or the server died. `EndArguments` is the stub's
`enforceNoDataAvail`. Abstracted: a method has the same arguments in all releases; a field
is known by its number in its type; the interface token and the status at the head of a
parcel have no cell; `set<arm>()` takes place before the value of the new arm is read. Left
out: `ParcelableHolder`, null vectors and null elements of vectors, strings and byte
vectors as shapes of their own, one-way calls, unknown transactions.

### Refreeze

`cur`, `bak`, `snap` and `index` are the file system, and survive a run; `inflight`,
`passed`, `report` are the script's variables. One action per command of `refreeze_one`;
errexit is off in that function, so commands without handling (`MoveFails`, `MakeSlot`,
`ClearFails`, `RestoreRemove`, `RestoreMove`, `GitAddFails`) fail and the script goes on. `Signal` runs the EXIT trap
(`TrapRemove`, `TrapMove`, `TrapFails`, `TrapIdle`), `SignalAgain` ends the trap too, `Kill` ends the
process. `Resolve` and `Checkout` are what the script's messages tell the operator to do.
The comment at 139-141 asks for handling of every critical command, and the function has
six without: `mv` aside (131), `mkdir` (134), `rm -rf` of the snapshot's bindings (188),
`rm -rf` and `mv` of `restore_current` (125-126) and `git add` (210). In the EXIT trap
errexit is on, so a failing `rm` or `mv` there (71-72) ends the process with status 1
(`TrapFails`).

What a failure leaves is modelled with it. A staging area that `rm` removes in part makes
`mv` put the backup inside it ("nesting"); a failing `mv` leaves the backup aside with no
`current/`, which the next run skips as a "placeholder component"; bindings that were not
removed are copied over ("over"). `missed[c]` remembers which of "move", "remove" and
"clear" failed unnoticed for component `c`. `WorkKept` then says how much is kept: without
"move" and "remove" the developer's `current/` is itself in place or in the backup; with
"remove" it is whole, but further down; with "move", where the snapshot is staged
over the developer's files and `restore_current` removes them, nothing is promised.
`EventuallyRefrozen` excepts the components with "move" or "remove", and no other.

Fairness: a run goes on (`WF_vars(Work)`), the operator starts it again for all components
(`SF_vars(RunAll)`) and puts a stale backup back (`SF_vars(Resolve(c))`). The script asks
for the last when both directories are there; where `current/` is missing it only calls the
component a placeholder, and that the operator finds the backup then is an assumption.
Interruptions and failures are bounded.

## Runs, bounds and results

| Run | Instance | Shows |
|---|---|---|
| `binder_proxy` | 2 threads; builds: same release, later minor, next major, development, empty hash; 2 lookups (15778 states) | accepted servers are compatible, acceptance survives failure, caches only fill; under fairness the mutex is released and a call past it ends |
| `release_line` | from 0.9.8.8 up to 0.11.11.10, 3 pins, all classes, any snapshot frozen or not (163606) | encoder and decoder agree; between a frozen and an unfrozen snapshot all is refused; the packed number rises |
| `release_cohort` | avbuffer -> videodecoder -> common, all released; one commit of any content, every label set and plan, 3 verdicts, pins (227180) | the fixpoint is complete and least, targeted runs stay targeted, the compiler is the floor, unchanged stays |
| `release_closure` | broadcast -> ringbuffer -> avbuffer -> ffv, all but one unreleased, ffv not buildable (233076) | the closure is complete, every cut import has a version |
| `release_stage` | avclock -> common, ringbuffer (new); hdmicec -> common; 2 stage runs, 2 kills or unguarded failures (888972) | whatever a failure, kill, drop or clean leaves, a run that ends well leaves a consistent cohort; guarded failures restore `current/` |
| `release_complete` | 2 checkouts of one release, 1 commit merged by others, 1 fault (521224) | one tag, on main; site and page after it; success means published; running it again gets there |
| `effect_sync` | a pull request and an issue, linked or not; one label, `Query` and no class picked on the board, 2 edits, 1 kill (293848) | an undisturbed edit survives; the surfaces converge once runs do not overlap |
| `parcel_skew` | 4 releases: two that append, one that reorders, one of another interface; parcelables, optionals, vectors, a union with an arm of parcelables, inside one another; 2 calls (1243318) | between releases of which one appends to the other fields are read where they were written, and only an unknown arm is refused; a newer server and its client end with the same values |
| `refreeze` | 2 components, 2 interruptions, 1 failing command (797912) | `current/` is kept, what is reported is whole, reruns get there, but for the two failures `missed` records |

Bounds and why they suffice. Two threads: every race in the proxy is between a thread
that writes a cache and one that reads it; a third only repeats a role. Two lookups: one
proxy that is discarded with its state and one that starts afresh. The line of releases
crosses every field boundary (9 to 10 in major, minor and doc) that separates decimal
order from string order and the doc limit of the encoding. A chain of three is the
smallest graph in which the visiting order changes the number of passes; one commit may
touch any set of components with any labels, and classes only accumulate by maximum, so
a second commit adds no class a single commit cannot give. Two stage runs and two upsets:
one run leaves any debris a failure, a kill, a drop can leave, the second has to cope
with it and may be upset itself; an upset can damage what the next run reads as
imports, which takes a component with two of them, one new. Drops, cleans and guarded
failures are unbounded. `--complete`: two checkouts make the two tags and the
two merges that can compete for origin; one fault stops a run at any step, reruns are
unbounded. Sync: one edit is what a run can be caught in the middle of, the second is the
one that arrives after its last look; one pull request and one issue have every
direction of propagation. Parcels: the second call finds a reused reply object, possibly
filled by a server of another release, and each release has fields, and an arm, the others
lack at every level of nesting. Refreeze: the second
signal falls into the first one's trap, one failure is met by two interruptions and any
number of reruns, the second component shows that one's failure does not leak into the
other. `MaxPasses` is the script's own 20. Deadlock is
checked except in `effect_sync` and `parcel_skew`, where the bounds on edits, kills and
calls end a behaviour; elsewhere the ends of a run are explicit steps.

## Where code and documentation part

Each is a run that TLC finds violated; the property's comment quotes the text.

| Run | Property | What the run shows |
|---|---|---|
| `respin` | `RespinsCapAtNine` | the tenth doc-only respin is 0.g.m.10, which cannot be encoded, so that its snapshot reports a development build; the comment says a minor bump is forced |
| `complete_backmerge` | `CompleteIsMergedBack` | git flow stops between tag and back-merge; the rerun sees the tag, skips git flow, and reports a complete release that `develop` never gets |
| `refreeze_exit` | `ExitRestores` | a signal between the move of `current/` and the assignment the EXIT trap reads, or a second one in the trap, leaves `current/` moved away |

Ten further configurations of the same models are kept beside these runs. Each states
a sentence of the scripts or documents, is violated by what the code does, and is run by hand
(`tlc -config <file> <module>`):

| Configuration | Property | What it shows |
|---|---|---|
| `MCReleaseImporters.cfg` (`MCReleaseCohort`) | `ImportersFollow` | an importer with unchanged AIDL is not released, or at a lower class than its dependency; the comment promises at least the same level |
| `MCReleaseUnbuildable.cfg` (`MCReleaseClosure`) | `ImporterOfUnbuildableStays` | the closure asks whether a dependency is in the release before whether it can be built; its importer is cut with nothing to pin |
| `MCReleaseDeclared.cfg` (`MCReleaseCohort`) | `DeclaredMinorStands` | the versioning SOP (`versioning-sop.md` 130-139) makes the Interface effect field and the label the source of truth: a structural break of unused surface may be declared Minor. The script reports the disagreement as a doubt and takes the compiler's class, major, as the floor; neither the label nor a pin gets below it. `CompilerIsFloor` holds of the code and says the opposite of the SOP |
| `MCReleaseStageRefresh.cfg` (`MCReleaseStage`) | `MetadataHasSnapshot` | the old snapshot of a version is removed before the new copy: a failed or killed refresh leaves `metadata.yaml` naming nothing |
| `MCReleaseStageClean.cfg` | `CleanResets` | a run killed during the build leaves the version stamp in `current/`; `clean` reports a reset tree and keeps it |
| `MCReleaseStageDropOthers.cfg` | `DropKeepsOthers` | dropping one component restores the whole manifest and with it forgets the other staged ones |
| `MCReleaseStageBranch.cfg` | `BranchAgrees` | `--apply` after an interrupted run branches with a snapshot the manifest does not know; the verification builds only what it knows |
| `MCEffectSyncLabel.cfg` (`MCEffectSync`) | `OneClassLabel` | a run that dies between adding a label and removing the old one leaves both; the stronger one agrees with the field from then on and no later run removes the other |
| `MCParcelSkewImport.cfg` (`MCParcelSkew`) | `AcceptedIsServed` | a field inserted into an imported parcelable goes out as minor; the server then reads the fields of an admitted client's request from one another's places and refuses it |
| `MCParcelSkewArm.cfg` (`MCParcelSkew`) | `AcceptedIsServed` | an arm appended to a union goes out as minor; the client the predicate admits gets its tag and refuses the reply |

After `DropKeepsOthers` and `BranchAgrees` are violated the next complete stage run
repairs the tree (`StagedIsConsistent`); the harm is in a drop or apply taken before it.

Four more observations have no property of their own. The commands the scripts leave
unguarded where errexit is off are listed with `ReleaseStage` and `Refreeze`: after a failing
`mktemp`, `cp` or `mv` the stamp or an empty file stays in `current/`, and after a failing
`rm` or `mv` in `restore_current` a target is reported as refrozen without the developer's
`current/` in its place. A pull request without a class
inherits its issues' class as the sweep read it, so an issue that is reclassified in
between is overwritten with the old class (`Outdated` in `EffectSync`). Two pull requests of
different classes that close one issue overwrite it in turn at every sweep. A client that
does not ask the server's release, such as the example's version 3, and reuses a reply
object cannot tell a field an older server did not send from its last value.

## Proofs

TLAPS checks every theorem from the modules alone. Assumptions are the ones in the modules
(`ConfigAssumption`, `NoThreadAssumption`, `LineAssumption`, `CohortAssumption`,
`ComponentsFinite`, `StageAssumption`, `FaultsAssumption`, `TicketsAssumption`,
`EditsAssumption`, `NamesAssumption`, `LayoutAssumption`, `BoundsAssumption`), which TLC evaluates on every
run. The import graph may be anything, cycles included; only the two theorems on how long
the loops take use that there are finitely many components.

| Module | Theorem | For every | Says |
|---|---|---|---|
| `BinderProxyProofs` | `TypeCorrect` | set of threads and builds | types |
| | `AcceptanceSound` | | `AcceptedIsCompatible` |
| | `AcceptanceStable` | | `AcceptanceSticks` |
| | `LearnedIsKept` | | `CachesOnlyFill` |
| `ReleaseLineProofs` | `TypeCorrect` | first release, pins, limit | types |
| | `AcceptanceExact` | | `AcceptedIffUnbroken` |
| | `UnfrozenRefused` | | `UnfrozenIsRefused` |
| | `VersionNumbersRise` | | `VersionsAdvance` |
| `ReleaseCohortProofs` | `TypeCorrect` | component set, import graph, pins, verdicts | types |
| | `PropagationSound` | | `NothingInvented` |
| | `PropagationReachesFixpoint` | | `PropagationComplete`, unless the cut-off stopped the loop |
| | `ClosureReachesFixpoint` | | `ClosureComplete`, likewise |
| | `SnapshotsCanBePinned` | | `ImportsHaveVersions`, likewise |
| | `LoopsEndByThemselves` | | `CutOffUnused`: at most one pass more than there are importers, or imported |
| | `PropagationIsWhole` | | the three before without condition, where importers and imported number less than the cut-off |
| | `TargetedRunStaysInPlan` | | `OnlyPlannedReleased` |
| | `IdenticalSurfaceStays` | | `UnchangedStays` |
| | `VerdictIsFloor` | | `CompilerIsFloor` |
| | `CutVersionsRise` | | `VersionsRise` |
| `ReleaseStageProofs` | `TypeCorrect` | component set, import graph, first releases, bounds | types |
| | `FailuresRestoreCurrent` | | `CurrentRestored` |
| | `MetadataAfterSnapshot` | | `MetadataFollowsSnapshot` |
| | `StageRunsConverge` | | `StagedIsConsistent` |
| `ReleaseCompleteProofs` | `TypeCorrect` | set of checkouts and of others' commits, number of faults | types |
| | `TagStaysOnMain` | | `TagOnMain` |
| | `CompletePublishes` | | `CompleteIsPublished` |
| | `Implements` | | `Refines`: the publication is implemented |
| `EffectSyncProofs` | `TypeCorrect` | set of tickets, links, edits, number of kills | types |
| | `EditsHold` | | `EditHolds`: no run undoes an undisturbed edit |
| `ParcelSkewProofs` | `TypeCorrect` | layouts, releases, nesting, lists, number of calls | types |
| | `ReadsInPlace` | | `InPlace` |
| | `NothingRefused` | | `NeverRefused` |
| | `BothSidesAgree` | | `SidesAgree` |
| `RefreezeProofs` | `TypeCorrect` | set of components, number of signals, kills and faults | types |
| | `DeveloperKeepsWork` | | `WorkKept` |
| | `RefrozenSnapshotsAreWhole` | | `RefrozenIsWhole` |
| | `GitRepairsSnapshots` | | `CheckoutRepairs`: the index never holds half a refreeze |

**BinderProxy.** `AcceptedIsCompatible` speaks of finished calls only and is not inductive.
`CacheInv` adds that each cache holds its sentinel or the peer's value, that a thread's
copy of the version is the sentinel or the cached one, and that a thread past the hash
has the hash of a frozen peer. `StickInv` adds what an acceptance implies about the
caches and about the calls that start after it.

**ReleaseLine.** `LineInv`: the client's release does not come after the newest one,
`broken` says exactly that their majors differ, and each number is the encoded release or
that of an unfrozen build. Lemmas on the decimal packing
(`Decoding`, `EncodingOrder`) carry it over to the numbers the C++ code compares.

**ReleaseCohort.** `SubsumeInv`: while a pass of the subsume loop has changed nothing, the
components it has visited are not below their imports; so a pass that changes nothing
ends in the fixpoint. `CloseInv` says the same of the closure, `DecideInv` which
components have been bumped and why. `AuditInv` ties the audit to the loop behind it:
every component the loop decides is a first release or was audited, because a targeted run
adds only first releases to its plan; so a pin that survives reaches what the compiler
called for, and the version cut is at least that and above the released one. That the
loops end before the cut-off is `CountInv`. In every pass of the subsume loop that changes
something, one more importer gets its final class: of the components not there yet, one
with the highest final class has an import that is (`Waiting`), and the pass visits it. So
passes are counted by the importers that are final (`FinalImporters`), and those of the
closure by what has been pulled in. The repository has 14 importers and 6 imported
components; the cut-off is 20.

**ReleaseStage.** Four parts, each closed under the steps with the others' help. `PlanInv`:
what lies in the tree belongs to the cycle and to the run, a component without a
manifest entry is a first release, and a snapshot refers only to what has a version or is
in the run. `ProgressInv`: components the loop is done with are whole and in their
metadata unless one failed; then the manifest, then the references follow. `RestoreInv`:
a component no upset has met is clean between the cuts; in its cut it may be stamped, and its
backup is then clean, or there is none and it is not stamped.
`StagedIsConsistent` itself: its direction from manifest to snapshot comes from the
verification build, which cannot pass while an entry has no snapshot.

**ReleaseComplete.** `TagInv`: a local tag holds the cut and lies in its checkout's main.
`RunInv`: what a run has seen of origin is there, and it pushes what it saw differ.
`DevelopInv`: a local develop is ahead of origin's only by a back-merge, which is why a
push that leaves main alone still reaches the tag. `StepInv`: past its push a run has the
tag on origin. `Implements` shows with it that each action is a step of `Publication` or a
stutter.

**EffectSync.** `EditHolds` speaks of settled tickets, which the runs leave and reach
again and again; what is inductive is that the tickets are under way. `OnWay(d, t)` says
so of one ticket. `Heads`: what labels, field and state are at the moment resolves to `d`.
`Sound`: whatever a run has read, its step says how much of it is still true. A run that
has not looked again (`Checked`) carries `d`, or has read labels of a class that is neither
the present nor the due one, so that its second look stops it. A run that writes (`Writes`)
carries `d` and takes away no label of it. `Toward` is what every single write does to the
labels; `Heads` and the `Sound` of the other runs survive it, which is why runs may
overtake one another. For an unlinked ticket that is the invariant (`SyncInv`). It rests on
the second look at field and state in `Decide` (without it, the mutant `DecideBlind`, TLC
shows the lost edit) and on the order of the writes: the field before the labels, the state
last.

For a pull request and its issue (`PairInv`) one of two things is true. `Leads`: the pull
request is on its way to a class, and no run lets it inherit another; what the issue has
does not matter, it is written over at the end. `Follows`: the pull request is on its way
to no class and the issue to `d`; neither has, on the board or in what the sweep has read,
any class but `d`, and what the sweep is writing to the issue is `d` (`Linking`). `Adopt`
is the step from the second to the first. `SweepInv` is what makes the second go through:
only the sweep has pull requests in hand, so what it read of a pull request's state is
still true; a pull request inherits only when that state was none. `Outdated` in `Wanted`
is where the invariant fails without the exception. That nothing is asked of other groups
is `GroupInv`.

The lemmas below rest on two ranks, of classes and of labels, in place of the table: the
class of some labels is the least rank among them. TLC checked the invariant as it stands
before its proof, with two edits and with three (3.3 million states).

**ParcelSkew.** A parcel is a tree of fields laid out in a row. `Growing` says, for some
`e`, that the fields written so far form a `Tree`: every field begins where its
predecessor ends, `e` gives the end, a size header, once patched, points there, and a tag
is followed by the value of its arm. When the writer is through it is `Complete`, with the
fields of the writer's release in order. `Walking` puts the reader's activations on the
way from the root to a node of that tree; what the reader declares is then either at the
position it stands at, or behind the end of what the writer sent, or in an arm it does not
know. `Filled` and `Agrees` say what the object read into holds: every field passed, from
the cell of this call, and nothing else except what the writer does not declare. The
hypotheses enter where they are needed and nowhere else: that the parcel is such a tree
holds for any two releases; that the reader walks it needs `Skewed`; that its object is
complete needs `Appends(client, server)`. `LayoutAssumption` only says what types the
constants have. Checking this module from nothing takes about ten minutes.

**Refreeze.** `WorkInv`: while the script has a target in hand the backup holds the
developer's files, and without a backup `current/` does, for each component down to the
level its `missed` commands leave. `SnapInv`: what each copy step has written of the
snapshot, and whether older bindings are among it; `ReportInv` and `IndexInv` follow from
it. `FlightInv`, `TrapInv` and `IdleInv` say for which target, if any, the EXIT trap is armed.

## What is only model-checked

Liveness (`HashMutexReleased`, `PastMutexReturns`, `EventuallyPublished`, `Converges`,
`EventuallyRefrozen`), which is out of the prover's reach: it rests on fairness, and on
that a system of loops and reruns comes to an end. Every invariant and every action
property of the runs is a theorem. The ten configurations run by hand and the three
violated runs are counterexamples and need no proof.

## What is not modelled

See the notes in `PROJECT.json` for each component. In short: the HAL components have no
implementation here, only contracts; toolchain, reports, validators and documentation
are sequential input and output; the build order and the classification script are in the
plan. Of the release script the read-only modes, `--refresh-metadata`, the standalone
`--commit` and documentation files are left out.

Most of the repository's lines are C++ that one generator writes from the AIDL files: some
thousands of files of proxies, stubs and parcelables per component and release that repeat
a handful of templates. `BinderProxy` and `ParcelSkew` model the templates once, at one
file each; the rest of those lines says the same again for other names, so the share of
lines the models name stays small by nature.

## Plan

1. Done, with proofs: `BinderProxy`, `ReleaseVersion`, `ReleaseLine`, `ReleaseCohort`,
   `ReleaseStage`, `ReleaseComplete` with `Publication`, `EffectSync`, `ParcelSkew`,
   `Refreeze`.
2. `BuildOrder`: the manifest build's order and the reuse of built dependencies; abstract
   specification: every library is built after, and from, what it links.
3. `Classify`: `aidl_compat.py` and `_audit_structural_bump` against the class of an edit.
