# sysext-alpine in TLA+

`sysext` merges extension images into `/usr`, `/opt` (sysext) or `/etc`
(confext) with overlayfs, like `systemd-sysext` does, on a system with OpenRC.
This directory models it: TLA+ modules translated from the Go sources, TLC
configurations that check them, and proofs for TLAPS.

## 1. Inventory

| Component | Sources | State it keeps | Operations | What makes it correct |
|---|---|---|---|---|
| merge engine | `internal/overlay/{engine,overlay,lock}.go` | overlays on the hierarchies, the workspace tmpfs with generations `ws` and `ws/next.*`, the flock | `Merge`, `Refresh`, `Unmerge` | one operation at a time; all or nothing; no stacked or unrecognizable overlay; what is reported is what is mounted |
| submounts | `internal/overlay/mounts.go`, `internal/fsutil/mount.go` | mounts of other programs below the hierarchies, clones held as file descriptors | `takeSubmounts`, `attachSubmounts`, `closeSaved`, `detachAll`, `removeTree` | no mount is lost or hidden; nothing is removed through a mount |
| markers | `internal/overlay/markers.go` | files in `.systemd-sysext` of each overlay | `isOurMountPoint`, `recordedWorkDir` | an overlay of ours stays recognizable as long as it is mounted |
| origin | `internal/overlay/origin.go` | origin file | `originEqual` | a refresh replaces the merge exactly when something changed |
| mutable modes | `internal/overlay/mutable.go` | mutable directories and work directories, which outlive a merge | `resolveMutableDir`, `importedMutableDir`, `hostAsLowerDir`, `workDirFor` | layers of each mode as in `docs/MUTABLE.md`; writes end up where they belong; a merge can be repeated |
| image mounting | `internal/image/{image,loop,verity}.go` | loop devices, dm-verity devices, mounts | `MountWithOpts`, `Unmount` | no leaked device; the device used is the one set up; no unsigned device where a signature is required |
| image policy | `internal/image/policy.go` | none | parse, print, derive, check | flags mean what was written, also after printing; no contradiction |
| dissection, signatures | `internal/image/{dissect,gpt,detect,sidecar,signature}.go` | none | choose partitions, root hash and signature | the best partition; the policy is kept; verity where there is any |
| discovery | `internal/discover` | none (reads directories that change) | `Discover`, `pickVersion`, `CompareVersions` | shadowing; the newest version with tries left; a total preorder |
| release matching | `internal/release` | none | match of ID, VERSION_ID, level, architecture | as in `docs/SPEC.md` |
| service actions | `internal/service` | running services | stop, restart, reload | services of an extension are stopped before it goes |
| verbs | `cmd/sysext/{verbs,services,main}.go` | held-back signals | `merge`, `refresh`, `unmerge`, `status`, `check` | no operation stops halfway on a signal; service actions fit what was merged |
| command line, configuration, paths | `cmd/sysext/{cli,output,log,help}.go`, `internal/config`, `internal/fsutil/chase.go` | none | parsing, printing, resolving | not about state |

How they interact: a verb discovers images, builds `MergeOptions` with two
callbacks (`Check`, which matches releases, and `BeforeUnmerge`, which stops
services) and calls the engine; the engine takes the flock, calls the image
code and the callbacks under it, and changes mounts through the submount
functions. State is shared between processes only through the kernel (mounts,
devices, the workspace) and the directories of images and mutable data; it is
read again by each operation, and nothing else survives a process. The hard
behaviours are therefore: a process that dies at any point and leaves the
kernel as it is; steps that fail half-way and the rollback through `abort`; the
promotion of a new generation under live overlays; mounts that exist only as
file descriptors for a while; devices whose names and numbers are given again;
checks made before the lock is taken; and directories that change while they
are read. `PROJECT.json` lists them as hazards, each at its line.

## 2. Modules

| Module | Models |
|---|---|
| `Engine`, `MCEngine` | the merge engine and the submounts it carries; its instances for TLC |
| `EngineProofs` | theorems about `Engine`: types, exclusion, one overlay at a time; what an operation shows and reports, and what describes it; `Engine` implements `MergeSpec`; what an unmerge leaves, what a failed operation leaves and rolls back |
| `MergeSpec` | what Merge, Refresh and Unmerge promise to somebody who sees only the hierarchies |
| `EngineImplements`, `MCEngineImplements` | the mapping under which `Engine` implements `MergeSpec`, and its instance |
| `Verbs`, `ServiceActions`, `MCVerbs` | verbs, signals and services around the engine; the pure part of the service actions |
| `VerbsProofs` | theorems about `Verbs` |
| `Layers`, `MCLayers` | the layers of one hierarchy in each mutable mode, over many operations |
| `LayersProofs` | theorems about `Layers` |
| `ImageMount`, `MCImageMount` | loop and dm-verity devices and mounts of an image |
| `ImageMountProofs` | theorems about `ImageMount` |
| `ImagePolicy` | the flags of image policies and the questions asked of them |
| `PolicyParser`, `MCPolicyParser` | parsing, printing and parsing again |
| `PolicyProofs` | theorems about `ImagePolicy` and `PolicyParser` |
| `Dissect`, `MCDissect` | what of an image is mounted and how it is protected |
| `DissectProofs` | theorems about `Dissect` |
| `VersionCompare`, `VPick` | comparison of versions; versioned directories |
| `VersionProofs` | comparing versions is a total preorder, and the order of a key of each |
| `Discover`, `MCDiscover` | discovery over directories that change |
| `DiscoverProofs` | theorems about `Discover`: what is found, which version, in which order |

`Verbs` is composed with `MergeSpec`, which `Engine` implements; `Discover`
extends `VPick` and that `VersionCompare`, `Dissect` extends `ImagePolicy` and
`VersionCompare`, `PolicyParser` extends `ImagePolicy`. `ImageMount` and
`Dissect` cut the mounting of an image in two: `Dissect` is everything that is
decided, `ImageMount` the devices that are set up once it is. In `Engine`,
`MountImage` is that whole component in one step that succeeds or fails, which
is what `ReleasesEverything` of `ImageMount` justifies.

The operators named "mutant" are defective variants of the definition that
follows them. They are used by no action; each shows, put in the place of that
definition, that the property named in `PROJECT.json` notices the defect.

### Engine

State and its counterpart:

| Variable | Code |
|---|---|
| `lock` | the flock on `<workspace>.lock` (`lock.go`) |
| `stack[h]` | the overlays on hierarchy `h`, each with the images and mode its origin records and the place of its metadata layer |
| `sub[s]` | where a mount of another program is: on the host, on the merged overlay, on a staging overlay, held by a process as a clone, or lost |
| `dirs` | the generations in the workspace: `Base` is `ws` itself, the others are `ws/next.*`; empty when no workspace is mounted |
| `img[d]`, `stage[d]` | images mounted in `d/extensions`, hierarchies staged in `d/overlay` |
| `pc`, `req`, `op` | the next step of a process, its request, its `mergeOp` with the per-hierarchy flags as sets (`merged`, `unmerged`, `staged`, `attached`) |
| `faults`, `crashes` | bounds |
| `before` | history: what the lock holder found |

An action is one step that can fail on its own, or after which a SIGKILL leaves
the kernel in a different state. `Works` lists the steps that succeed, `Fails`
the ways they fail; `Crash` kills the lock holder between any two of them.
The loops of `run`, `Unmerge`, `promote` and `abort` go over hierarchies in
their configured order (`First`), `abort` backwards (`Last`), with `op.todo` as
the rest of the loop.

| Code | Actions |
|---|---|
| `lock` | `Begin`, `Acquire`, `Unlock` |
| `op.run`: what is merged | `Check` |
| `resetWorkspace`, `useWorkspace`, `mountImage` | `ResetWorkspace`, `UseWorkspace`, `MountImage` |
| `op.run`: decisions, `discard` | `PlanNothing`, `Callback`, `PlanUnchanged`, `PlanSwap`, `Discard` |
| `unmergeHierarchy`, `unmergeInPlace` | `TakeSubmounts`, `Unmount`, `HierarchyUnmerged`, `PutBack`, `TeardownWorkspace` |
| `mergeHierarchy` | `StageOverlay`, `TakeHostMounts`, `AttachStaged`; `KeepHost` for a hierarchy without overlay |
| `MS_MOVE` loop, commit | `Staged`, `MoveOverlay`, `Commit` |
| `promote` | `PromoteClear`, `PromoteDrop`, `DropRefused`, `PromoteImage`, `ImagesPromoted`, `PromoteLayers`, `PromoteDone` |
| `abort`, `restoreHost` | `AbortTake`, `AbortDetach`, `AbortAttach`, `AbortRelease` |

Abstractions: images are identities, their origin entry included; an image
either contributes to a hierarchy or not (`Provides`); the mutable modes are
one flag, as all of them merge without images; host directories of the
hierarchies exist; mounts of other programs do not change while an operation
runs; a process killed while it waits for the lock changes nothing and is left
out. The release check may accept or reject any image (`MountImage`).

### MergeSpec and EngineImplements

`MergeSpec` has no workspace, generation, staging point or marker: it knows who
is inside the lock, what that process was asked for, what each hierarchy shows
and how far the operation is. In phase `old` a refresh or an unmerge takes
down the old merge hierarchy by hierarchy; only when all are bare does
`Decide` fix one new merge, which appears hierarchy by hierarchy (phase `new`);
then the operation is `done` and can only succeed, or it is `over` and what
had appeared disappears again. A kill (`Leave`) may come anywhere.

`EngineImplements` maps the state of `Engine` to it: `view` is what the topmost
overlay shows, the phase follows from where the lock holder is (`move` is
`new`; `promote` and a final tear-down after a commit are `done`; `abort` is
`over`), and the goal is `Mounts(p)` or what of it is still attached. `Implements`
says that under this mapping every step of `Engine` is a step of `MergeSpec` or
changes nothing that it shows.

### Verbs and ServiceActions

A process runs `merge`, `refresh` or `unmerge` again and again. `MergeSpec` is
instantiated as `E`, and the process that holds the lock takes its actions.

| Variable | Code |
|---|---|
| `disk`, `running` | images in the search directories; services, each with the place its script was started from |
| `pc`, `verb` | where `cmdMerge`, `cmdRefresh` or `cmdUnmerge` is |
| `snap` | the images `discover` returned, before the lock |
| `acts`, `todo` | the `service.Actions` collected, and the units not yet treated |
| `result`, `pend` | the outcome of the engine; a signal held back by `critical` |
| `refusals`, `refused` | times OpenRC did not do what it was asked; the services that concerns since the last verb began |
| `since`, `current`, `restarted` | history for the properties |
| `holder`, `ask`, `view`, `phase`, `goal` | the variables of `MergeSpec` |

| Code | Actions |
|---|---|
| `cmdMerge`, `cmdRefresh`, `cmdUnmerge` up to the engine | `Start`, `CheckMerged`, `CollectUnlocked`, `CollectFails`, `StopNext`, `Prestopped` |
| `critical`, `lock` | `Probe`, `Enter`, `Unlock`, `Redeliver` |
| the engine up to its decision | `Refuse`, `Prepare`, `NothingToDo`, `BeforeUnmerge` |
| the engine's changes | `Hide`, `Unmerged`, `Decide`, `Show`, `Commit`, `EngineFails`, `Undo` |
| after the engine, `applyActions` | `AfterEngine`, `NoActionsDue`, `SkipApply`, `ApplyNext`, `Applied` |
| surroundings | `Install`, `AdminStarts`, `Signal`, `Kill` |

`Held` names the places where a signal waits; anywhere else it ends the
process. An image fits the host or not (`Fits` stands for release matching),
and may be gone when the engine comes to mount it (`Refuse`). `ServiceActions`
has which units an image lists, which of them are services, in which order they
are treated and who ships a script.

Service commands fail, and the code does no more than warn ("Failures are
warnings", `README.md:210`). `Refuses` counts them, up to `Bounds.refusals`:

* a service that does not stop, or whose state or script `rc-service` cannot
  tell, is left running, and `StopProvidedBy` goes on with the next unit
  (`StopFails`, `openrc.go:167`);
* a restart that fails leaves the service as it was or down, and `dispatch` goes
  on (`ApplyFails`, `openrc.go:147`); a reload that fails becomes a restart
  (`openrc.go:128`);
* where OpenRC is not running, or the workspace cannot be found or read, nothing
  is stopped and the unmerge goes on (the second case of `Stopping`,
  `services.go:50-64`), and nothing is restarted (`SkipApply`,
  `services.go:78`);
* where what is merged cannot be told, `unmerge` ends before the lock
  (`CollectFails`, `verbs.go:142`) and a verb that merged ends without service
  actions (`SkipApply`, `verbs.go:126`); in `BeforeUnmerge` it is an error of the
  engine (`EngineFails`).

Left out: `--no-reload`, with which nothing is collected; an extension whose
release file cannot be read, which is passed over (`services.go:32`); and
`rc-update -u`, whose failing only warns.

### Layers

One hierarchy ("self") and its mutable directory, which is one of its own
("own") or a link to the hierarchy. The contents are one file: who wrote it
last in each directory.

| Variable | Code |
|---|---|
| `route` | what `<mutableBase>/<name>` leads to |
| `place[x]` | the two directories: whether they exist, their permissions, the file, metadata an unprotected merge left, whether a work directory beside them would be on the same or a writable file system |
| `work` | `.systemd-<hierarchy>-workdir` beside each |
| `overlay`, `op.staged` | the merged and the staged overlay: layers from the top, upper directory, work directory recorded, mode of the metadata, origin |
| `pc`, `op` | the operation under the lock |
| `last`, `calm` | history: the last result, and whether nobody changed anything |

| Code | Actions |
|---|---|
| `run` | `Merge`, `Refresh`, `Unmerge` |
| `plan`, `resolveMutableDir`, `mutableDirModeMatches` | `PlanFails`, `PlanUnchanged`, `Plan` |
| `unmergeHierarchy` | `Unmount`, `RemoveWorkDir` |
| `mergeHierarchy`, `upperDir`, `workDirFor`, `hostAsLowerDir` | `KeepHost`, `Refuse`, `Assemble` |
| commit, `abort` | `Commit`, `Fails` |
| users | `WriteThrough`, `ChmodThrough` (through the merge), `EditRoute`, `EditPlace` |

A merge reads through the overlay what the code reads through it: the mode of a
merged hierarchy is that of its top layer, and a merged read-only hierarchy is
a read-only file system. Users do not edit a directory while it is a layer
(overlayfs leaves the result undefined), nor the host while it is covered.
Mount options are left out.

### ImageMount

Several processes mount one image each, of one of four kinds: a plain file
system, one with a hash tree in a second file, a partitioned image with verity,
and such an image on a block device.

| Variable | Code |
|---|---|
| `file`, `diskseq`, `locked` | loop devices: the file behind, the disk sequence number, whether another program holds the flock |
| `ctl` | the flock on `/dev/loop-control` |
| `held`, `dm` | `mounter.loops`, `mounter.verity` |
| `cand`, `attempt` | the loop in `loopAttach` |
| `tries`, `then` | the loop in `dmRemove`, and where it returns to |
| `dms`, `busy` | dm devices with their name, owner, loop devices, whether resumed, whether removal is deferred; those somebody else has open |
| `mounts` | mounted file systems and the device below |
| `trusted` | whether the signature was verified by the kernel or by the certificates |

| Code | Actions |
|---|---|
| `attach`, `useDeviceDirectly` | `Open` |
| `loopAttach`, `loopConfigure`, `verifyLoopConfig` | `GetFree`, `Configure`, `Taken`, `Hiccup`, `AttachFails` |
| `activateVerity`, `createVerityDevice` | `Create`, `CreateFails`, `Load`, `KernelRefuses`, `Resume`, `ActivationFails` |
| `setupVerity`: second attempt without the kernel's check | `Fallback` |
| `dmRemove` | `TryRemove` |
| `mountDevice`, `relinquish`, `cleanup` | `Mount`, `MountFails`, `Relinquish`, `Close`, `CleanupUnmount`, `CleanupDevices` |
| SIGKILL; unmounting later | `Crash`, `Unmounted` |
| other programs | `OtherBinds`, `OtherReleases`, `OtherOpens`, `OtherCloses` |

`Kernel` is what the kernel does of itself after every step: a dm device marked
for deferred removal goes with its last user, and so does the file behind a
loop device set up with `LO_FLAGS_AUTOCLEAR`.

### ImagePolicy and PolicyParser

`ImagePolicy` has the flags as sets; a bit mask of the code is a set of names.
`PolicyParser` is the loop of `parsePolicy`, once gracefully for a text in a
configuration file, then `NormalizePolicy` printing the result rule by rule
(`PrintDefault`, `PrintRule`, `Resolve`), then strictly; a text of the command
line is parsed strictly at once. Words are identities: what they are spelled
like and how whitespace is trimmed is not modelled.

### Dissect

`stage` runs through `mount`, `mountRaw`, `dissect` (one step per partition:
`Skip`, `Generic`, `Consider`, `CannotRead`, `Boot`), `finish` (`TakeGeneric`,
`Finish`), `checkFilesystems`, the search for the root hash in sidecar files,
the signature partition and the UUIDs (`LoadVeritySidecars`, `FindRootHash`) to
mounting (`MountUnpartitioned`, `MountPart`). `parts`, `byType`, `ignored`,
`generic` and `multiple` are the fields of `dissector` and `dissected`,
`verity` is `veritySettings`. A root hash is the pair of UUIDs it stands for. A
signature is whose it is; whether it verifies is a setting of the host.

### VersionCompare, VPick and Discover

`CompareVersions` is a recursive function of the two places read, `Round`; each
iteration of the code's loop is one application of it.
`VPick` parses what follows `NAME_` into version, architecture and boot
counters; `ParseTries` follows `strconv.ParseUint` with base 0, so `010` is
eight and `08` no number, and `MaxUnsigned` stands for the largest `uint32`.
`Discover` reads the search directories entry by entry and a versioned
directory version by version, and between two steps `Change` adds or removes an
entry, like systemd-sysupdate does.

## 3. Runs

| Run | Instance | Checks | Shows |
|---|---|---|---|
| `engine_contention` | `MCEngine`: 2 processes, 3 requests, 2 faults, 1 kill, fairness | `TypeOK`, `NeverStacked`, `NeverMixed`, `OperationsEnd` | the lock and the order of the swap; no loop under the lock runs for ever |
| `engine_crashes` | `MCEngineImplements`: 1 process, 10 requests, 2 faults, 1 kill | `MarkersIntact`, `MergedAsAsked`, `WorkspaceDescribesMerge`, `UnmergeRestoresHost`, `Implements` | what is reported as done is done, after whatever history; from outside: old merge, host, new merge, in this order only |
| `engine_rollback` | `MCEngine`: 1 process, 10 requests, 3 faults, no kill | `SubmountsVisible`, `MergeRollsBack`, `EarlyFailureKeepsMerge`, `FailureLeavesNothingNew` | what a failure leaves; mounts below the hierarchies survive |
| `unchanged_refresh` | `MCEngine`: 1 process, 6 requests, 1 fault | `UnchangedMeansMerged` | violated, see below |
| `verbs` | `MCVerbs`: 1 process with 1 fault, 1 kill, 1 failing service command, 1 change of the images; or 1 with 2 failing commands, 1 change; or 2 processes; or 2 that refresh, 1 change; signals always; fairness | `RefreshedIsCurrent`, `RestartedRunMerged`, `NeverHalfMerged`, `StoppedBeforeUnmerged`, `VerbEnds` | signals never leave half a merge; services fit what is merged, but those whose own command failed; which refresh may be relied on; every verb ends |
| `verbs_orphans` | `MCVerbs`: 1 process, 1 change of the images | `NoServiceWithoutScript` | violated, see below |
| `layers` | `MCLayers`: 6 modes, 2 sets of images, 2 permissions, 2 edits, 1 fault | `ShowsAllLayers`, `LeavesNothingElse`, `RefreshNotices`, `MergeRepeats` | what is shown, where writes go, what a refresh notices, and that a merge can be repeated |
| `image_mount` | `MCImageMount`: three instances with 3 loop devices | `TypeOK`, `ReleasesEverything`, `SignedOnly`, `MountsShowOwnImage`, `NamesNeverCollide` | no device is leaked, confused or used unsigned |
| `image_progress` | `MCImageMount`: 2 partitioned images, 2 loop devices, fairness | `MountEnds` | retries end |
| `discover` | `MCDiscover`: trees of up to 12 entries, pairs of names, 2 changes during the scan | `FirstIsFound`, `NewestIsPicked`, `ImagesSorted`, `StableIsFound` | shadowing, the pick, the order of layers |
| `policy_parser` | `MCPolicyParser`: all texts of up to 2 rules from 66, some of 3 | `TypeOK`, `RefusesAmbiguity`, `SameAsWritten`, `DerivedPermits` | a policy means what was written |
| `dissect` | `MCDissect`: tables of up to 3 partitions of 17 kinds; 30 images with every policy, sidecar and setting | `BestPicked`, `PolicyKept`, `VerityIsUsed`, `SignatureOfHash` | the right partitions, protected as the policy asks |

Why the bounds are enough:

* `Engine`: two hierarchies give every order of "this one done, the other not
  yet". Of the images, `a` contributes to the first hierarchy only, `b` to
  both, `c` to none, so a swap may leave one without overlay. There is one
  mount below each hierarchy. Two names for `ws/next.*` are needed for a
  generation left behind by a failed promotion next to a new one; when both are
  in use `UseWorkspace` fails, which stands for a full tmpfs. Two or three
  failing steps let the rollback of a failure fail itself; one kill leaves any
  intermediate state to later operations, whose number is not bounded. All
  steps may fail (`AllSteps`), except in `engine_rollback` (`AbortSafe`) those
  that undo: `abort` taking a mount from the new overlay (`retake`) or detaching
  that (`detach`), and a mount being put back on its hierarchy, by `abort` or when
  a hierarchy is unmerged in place (`putback`). `restoreHost` and
  `unmergeInPlace` close a clone they cannot attach, so the mount is lost, and an
  overlay that cannot be detached stays. Attaching mounts to a new merge
  does fail there (`AttachStagedFails`, `KeepHostFails`). Nobody is killed in that run: the kernel closes the clones of a killed
  process, and no property says that those mounts come back.
* `Verbs`: image `i1` ships a service of its own, `i2` one the host has too;
  units are to be restarted, reloaded, share a service, are no service or have an
  invalid name. Two failing commands let the same service fail twice, or two.
  With two processes the properties under `OneAtATime` (those about services) do
  not hold (see below); those instances are for `NeverHalfMerged`, `VerbEnds` and
  `RefreshedIsCurrent`; images change in the one in which both refresh.
* `Layers`: one file tells where a write went; two sequences of images tell
  whether their order and their absence are kept; two edits suffice to write
  through a merge and change the directory before the next one.
* `ImageMount`: three loop devices hold two images of one process and one of
  another; two attempts to attach and one retry of a removal reach the last
  attempt and the one before it. Loop devices look alike, so permuting them is a
  symmetry; `image_progress` checks liveness and uses none.
* `Discover`: entries differ in each of the criteria of `better` and
  `makeImage`; two changes let a version come and another one go in one scan.
  `ImagesSorted` compares against a key that is a total order by construction,
  over all pairs of names from a small alphabet and of the documented examples
  of `version.go`.
* `PolicyParser`, `Dissect`: words and partitions of every kind the code tells
  apart, in every order.

Deadlock is checked where nothing stops for good: in `Engine`, `Verbs` and
`Layers` a process may always start again. A scan or a mount ends, so
`discover`, `image_mount` and `image_progress` set `CHECK_DEADLOCK FALSE`;
`Dissect` and `PolicyParser` have an action for being finished.

Fairness. `Engine`: weak, for the lock holder, a running process whose system
calls return; none for getting the lock, as flock(2) promises none. `Verbs`:
weak for what a process does by itself once a verb has begun (`Proceeds`), none
for beginning one; `VerbEnds` therefore speaks of a verb after which no other
begins. `ImageMount`: weak for `Proceeds`, and for other programs letting go of
a loop device they took; none for their closing a dm device, which may stay
open for ever.

### Disagreements found

With a run of their own:

* `Refresh` reports `Unchanged` ("Unchanged: Refresh found the merged state up
  to date.", `overlay.go:302`) when the origin of the first merged hierarchy
  matches (`engine.go:297`). After an `Unmerge` that failed for one hierarchy, a
  repeated `sysext refresh` says that nothing changed and leaves the other
  hierarchies unmerged; the same happens after a kill between two moves
  (`unchanged_refresh`). `MergedAsAsked` shows that a refresh which does swap
  repairs it.
* "Services whose init script is shipped by an extension are stopped before it
  is unmerged" (`README.md:206-208`). `BeforeUnmerge` is only called when no
  image is left (`engine.go:157`): a refresh that replaces a merge by one
  without some extension takes that extension's scripts away with its services
  running (`verbs_orphans`).

Met while modelling, left out of the properties where they would break them:

* "A failed refresh keeps the previous merge." (`README.md:148`) It does until
  the swap begins (`EarlyFailureKeepsMerge`); a failure while hierarchies are
  unmounted, staged or moved leaves the host (`engine.go:704`).
* With two processes, a refresh merges what it discovered before it waited for
  the lock (`verbs.go:171`), which may be older than what the other process has
  just merged. `RefreshedIsCurrent` says what remains true, with any number of
  processes: a refresh that began after the last change of the images, had the
  lock last and succeeded left what is installed, whatever others merged between
  its discovery and its lock. An unmerge stops the services of the extensions
  that were merged before it waited (`verbs.go:142`), not those it then unmerges;
  `StoppedBeforeUnmerged` and `RestartedRunMerged` are therefore about one
  process at a time.
* "Services whose init script is shipped by an extension are stopped before it is
  unmerged": a service that does not stop, or that nobody could be asked to stop,
  loses its script while it runs (`openrc.go:167`, `services.go:50-64`), as
  `README.md:210` admits.
* An image on a block device has no disk sequence number of its own, so two
  activations ask for one dm name (`verity.go:157`); `docs/VERITY.md:155-159`
  says that names never collide. The second one fails.
* A kill between the last mount and `relinquish` (`image.go:582`) leaves a dm
  device that is not marked for removal, so unmounting does not release it;
  `docs/VERITY.md:182-183` says "a crash after mounting cannot leak devices
  beyond the mounts themselves".
* A version that disappears between reading a `.v` directory and resolving its
  entries hides the whole directory for that scan (`vpick.go:103`), although
  only "a `.v` dir without a usable entry is skipped" (`docs/SPEC.md:50-51`).
* A policy like `root=verity+encrypted+absent` lets a plain partition be
  mounted (`dissect.go:262`, `image.go:335`): that `encrypted` never matches
  (`README.md:241`) is not part of the check for found partitions. So does
  `root=verity+unused+absent`, although `unused` is "for partitions that shall
  exist but shall not be used". `PolicyKept` excludes both flags.
* `refresh --mutable=yes` with the documented link from the mutable directory to
  the hierarchy fails while a read-only merge is there: `plan` changes the mode
  of the directory before it compares origins (`mutable.go:80-91`), and that is
  the merged read-only hierarchy. `docs/MUTABLE.md:82-84` says the mode is in the
  origin "so `refresh` remerges when they change".
* A mutable directory created under `yes` while the hierarchy is merged gets the
  mode of the merged hierarchy ("gets the hierarchy's mode",
  `docs/MUTABLE.md:65`). If that was changed through an ephemeral merge, the
  host's mode is another one after the unmerge, and the next merge refuses the
  directory. `MergeRepeats` is about merges after which nobody changed anything.
* The directory `ephemeral-import` imports is not in the origin, so a refresh
  does not notice when it appears; and layers are resolved again after the
  origin was computed. `RefreshNotices` leaves the first out and requires that
  nobody edits during the operation.

## 4. Proofs

### EngineProofs

`EngineProofs` proves for `Engine`, with any finite or infinite sets of
processes, images and mounts, any number of hierarchies, faults and kills:

* `TypeCorrect`: `Spec => []TypeOK`;
* `MutualExclusion`: `Spec => []Exclusive`;
* `SingleOverlay`: `Spec => []NeverStacked`;
* `MarkersKept`: `Spec => []MarkersIntact`.

Assumptions: the constants are of their types, and the names used for places
(`"host"`, `"overlay"`, ...), processes and generations are different.

None of the four is inductive. That `MoveOverlay` does not stack needs that the
hierarchy is bare, which `HierarchyUnmerged` and `Check` established many steps
earlier; that `PromoteDrop` and `PromoteDone` remove no layer in use needs that
all live overlays have their layers in the new generation, respectively none
any more. `Inv` therefore has a conjunct `Phase(p)` for each process: at each
label it relates the process's `mergeOp` to the hierarchies (`PhaseOf`).
Processes outside the lock have an empty `mergeOp`, so a step of the lock
holder cannot invalidate their phase: that argument is the lemma `Assemble`,
which all actions share. `AbortStep` and `FinishStep` are its instances for
steps that fail and steps that end an operation. One lemma per stage
(`WorkspaceInv`, `PlanInv`, `UnmergeInv`, `StageInv`, `LiveInv`, `PromoteInv`,
`AbortInv`, and `...FailsInv` for failures) treats its actions one by one.

What an operation shows and reports is the second part of the module, on top of
`Inv`:

* `MergeShowsRequest`: `Spec => []MergedAsAsked`;
* `MergesNeverMix`: `Spec => []NeverMixed`;
* `MergeDescribed`: `Spec => []WorkspaceDescribesMerge`.

`ShowInv` says which hierarchies the operation has emptied so far and which of
them show its new merge. Neither of the first two is inductive: that
`MoveOverlay` mixes nothing depends on the loop over all merged hierarchies
(`HierarchyUnmerged`) having reached its end, and that the result is what was
asked for on `Staged` having started the moves with all of `Mounts(p)`.
`NeverMixed` is then an induction over steps: each takes overlays away, keeps
them, or adds the one the live ones already show (`StackSteps`). `FillInv`
follows the images from the generation they were mounted in to `ws/extensions`:
while they move, old and new place together hold the images of the merge, and no
image is mounted in a directory that is not there. That last part (`Vacant`) is
why a new generation starts empty although its name may have been used before.
A few closing lemmas (`ShowStep`, `ShowAbort`, `ShowFinish` and their
counterparts) turn the claim about one process into the invariant.

The third part is the refinement, `Refines`: `Spec => Implements`, that is
`Spec => Promise!Spec` under the mapping of `EngineImplements`, for any
constants. `RefInit` maps the initial states and
`RefNextStep` every step: to `Take` (`Acquire`), `Hide` (an unmount of the old
merge, unless there was none), `Decide` (`Staged`), `Show` (`MoveOverlay`),
`Commit`, `Stop` (whatever ends or aborts an operation before the commit), `Undo`
(`AbortDetach` of an overlay that was live), `Leave` (`Unlock`, `Crash`) or to a
stutter. `PhaseAt`, `GoalAt` and `ViewOf` are the mapping as functions of a label,
a mergeOp and a request; one lemma per abstract step (`OldStep`, `HideStep`,
`StopStep`, `LateStep`) serves all actions that map to it.

The simulation needs more than `Inv` and `ShowInv`. `RefInv` adds that an
operation that has not decided yet has attached nothing (else `Stop` would leave
a goal behind), that a merge is never at the labels of an unmerge (`Hide` is not
allowed to it), that the images mounted so far are among those asked for and
that a swap has images or a mode that merges without (`Decide`), and that the
lock holder works on one of `Requests`. It assumes in addition that every request
has a verb (`RequestsAssumption`).

The fourth part is about what an operation leaves, on top of `Inv` and
`ShowInv`, for any constants unless a condition is named:

* `UnmergeRestores`: `Spec => []UnmergeRestoresHost`;
* `EarlyFailureKeeps`: `Spec => []EarlyFailureKeepsMerge`;
* `NothingNewLeft`: `"detach" \notin Fallible => (Spec => []FailureLeavesNothingNew)`;
* `MountsComeBack`: `Careful => (Spec => []SubmountsVisible)`;
* `FailedMergeRollsBack`: `Careful => (Spec => []MergeRollsBack)`.

`HoldInv` says that a carried mount is on an overlay only where there is one,
and that a process holds clones only for hierarchies it will still put back;
`ClearInv` that an operation that ends in place has removed the workspace.
Without `HoldInv` a mount could stay a clone of a process that reports an
unmerge as done.

The other four compare with what the lock holder found (`before`). `KeptInv`:
up to the swap, overlays and mounts are what they were, wherever the operation
fails or another process is killed. `BackInv`: every overlay that is neither
the old merge nor staged is in `attached`, which `abort` empties; an unmount of
`abort` that fails leaves its overlay mounted, so the theorem is about a
`Fallible` without it, while everything else may fail and processes may be
killed. `PlacedInv` says where each mount is at each label (`SitsAt`), with the
hierarchy as before or after its turn in the loop. It is about `Careful`
constants: of the steps that undo, none fails to detach an overlay, to take a
mount again or to put it back on its hierarchy (in `abort` and in
`unmergeInPlace`), and nobody is killed. Both are conditions of the code rather
than of the proof: there is nowhere else to put a mount that cannot be put back,
and a clone goes with the process that has it as a file descriptor. Attaching
mounts to the new merge may fail, for any of them: `AttachSome` keeps the others
with the process, which `UndoneAt` allows until `abort` has been at their
hierarchy. They are the constants of `engine_rollback`; three faults there show
that any other step may fail, and the theorems that it may any number of times.

Each invariant was model-checked on the instances of `engine_contention`,
`engine_crashes` and `engine_rollback` before it was proved.

### PolicyProofs

For texts of any number of rules and any set of unknown words:

* `PrintingKeepsMeaning`: printing any set of flags and parsing it again gives
  every designator the same normalized flags, although contradicting flags are
  not printed;
* `TypeCorrect`: `Spec => []TypeOK`;
* `AmbiguityRefused`: `Spec => []RefusesAmbiguity`;
* `MeaningKept`: `Spec => []SameAsWritten`;
* `DerivedAllowed`: `Spec => []DerivedPermits`.

Assumption: `Order` lists every designator once (`PolicyParserAssumption`).

The inductive invariant `IInv` says, while a text is parsed, that the policy so
far is what the rules before `pos` say (`Read`); while it is printed, that the
text has one rule for the default and one for each designator with a rule that
comes before `pos` in `Order` (`IsPrinted`); and what relates the result to the
text that was asked for, for a text of the command line (`FromOption`) and of a
file (`FromFile`). That a printed text is never refused follows from
`IsPrinted`: its rules have different, known names. `MeaningKept` then combines
`IInv` with `PrintingKeepsMeaning`.

### LayersProofs

For any images, permissions and bounds:

* `NothingElseLeft`: `Spec => []LeavesNothingElse`;
* `AllLayersShown`: `Spec => []ShowsAllLayers`;
* `ChangesNoticed`: `Spec => []RefreshNotices`;
* `MergesRepeat`: `Spec => []MergeRepeats`.

Assumption: `LayersAssumption` (0755 is one of the permissions, the bounds are
natural numbers, `None` is something else, images are sequences of names that
are not those of the model's own layers). The invariant of the first, `IInv`,
adds to it: the upper directory of a merged or staged overlay is the one its mode and the
route at that time led to, exists and has its work directory recorded
(`OverlayInv`); an operation records the mode it was asked for (`OpInv`); and at
each label, which work directory there may be besides (`WorkInv`). The last is
the point: between `Unmount` and `RemoveWorkDir`, and between `Assemble` and
`Commit`, there is one more.

`JInv` is the invariant of the other three. `LayersInv` says which layers an
overlay has, in which order, by its origin: `AllLayersShown` then finds the
first of them that has the file and shows that it is the one that the table of
the modes names. `AloneInv` and `CalmInv` say what the directories are like as
long as only merges touched them, which is what an origin computed early and
layers resolved late need to agree; `LastInv` carries the two properties about
the last result. One lemma per action; both invariants were model-checked on
the instance of `layers` before they were proved.

### ImageMountProofs

For any number of processes, loop devices, attempts, retries, faults and kills:

* `Types`: `Spec => []TypeOK`;
* `OnlySigned`: `Spec => []SignedOnly`;
* `OwnImages`: `Spec => []MountsShowOwnImage`;
* `FreshNames`: `Spec => []NamesNeverCollide`;
* `EverythingReleased`: `Spec => []ReleasesEverything`.

`OnlySigned` lets the certificates in user space vouch for a signature the
kernel refused, as `setupVerity` does. `EverythingReleased` is about operations
that ended, done or failed; of a process that was killed it says nothing (see
"Disagreements found").

Assumption: `ImageMountAssumption` (one attempt at least; devices, names,
processes and files are different things). The inductive invariant `IInv` has a
part for each kind of object: what a process holds at each place of `Mount`
(`Processes`); a loop device a process holds shows that process' file, and a
loop device shows a file only while something uses it (`LoopDevices`); no two
dm devices have one name, each lies on its process' own loop devices, and its
name is the one its process asks for, with a disk sequence number that no later
activation gets again (`DmDevices`); each mount is of a process that has come
that far (`Mounts`). The parts need each other: that a name is not given twice
is why a mount keeps its device, and that a loop device with a file is in use
is why a free one has no name. `EverythingReleased` follows from `LoopDevices`
and from deferred removal (`Stage`: a device that stays is deferred, and then in
use).

### VerbsProofs

For any processes, units, services and images:

* `WholeAlways`: `Spec => []NeverHalfMerged`;
* `CurrentAlways`: `Spec => []RefreshedIsCurrent`;
* `FreshAlways`: `Spec => []RestartedRunMerged`;
* `StoppedFirst`: `Spec => StoppedBeforeUnmerged`, an action property.

Assumptions: `VerbsAssumption` and `ServicesAssumption` (the types of the
constants). `IInv` is `TypeInv`, `LockInv` (the engine is where the process is
that holds the lock), and one part per property. `WholeInv` follows how far the
hierarchies differ at each place, `CurrentInv` that the images installed are
merged from the success of such a refresh until somebody has the lock again,
`ServicesInv` that each unit still to be stopped or restarted is in `todo`, or has been, or
its service is in `refused`. The last is, like `FreshAlways` and `StoppedFirst`,
about one process at a time (`OneAtATime`), with service commands that fail any
number of times. `CurrentAlways` holds while no engine operation failed and nobody was
killed by SIGKILL. That going through a sorted list treats every unit of
a set, and a unit after the ones it shares a service with, is proved by least
numbers.

### DissectProofs

For any table of partitions, sidecar files, labels, settings and policy:

* `PolicyAlwaysKept`: `Spec => []PolicyKept`;
* `VerityAlwaysUsed`: `Spec => []VerityIsUsed`;
* `SignatureFits`: `Spec => []SignatureOfHash`;
* `BestAlwaysPicked`: `Spec => []BestPicked`.

`PolicyKept` leaves out designators whose policy has `encrypted` or `unused`
flags (see "Disagreements found"), and it and `VerityIsUsed` the setting with
which the root hash is not looked for in the UUIDs (`no-guess`).

Assumption: `DissectAssumption` (tables are sequences, labels are texts). `IInv`
follows what is known at each stage: which root hash was chosen (`HashInv`),
that a found partition is one of the table and was checked against the policy
(`TableInv`), and how it is mounted (`MountedInv`). `PickInv` is for the fourth:
while the table is read, the choice for a designator is the best of the
candidates among the partitions read so far, the first of several that are
equally good. A step compares the next partition only with the choice, so this
needs that "better" is transitive, and with it `VersionsOrdered`, as labels are
compared as versions.

### VersionProofs

* `VersionsOrdered`: for any three texts, comparing the first two the other way
  round gives the opposite, and the results are transitive, equality included:
  `CompareVersions` is a total preorder;
* `KeysCompare`: for any two texts, `CompareVersions` is the lexicographic
  comparison of their keys, each written from one text alone (`Key`).

The comparison reads both texts in parallel and what it compares in one depends
on the other: a number in either makes it read both as numbers, and the end of
either ends it. So it is not written as the order of some key computed from each
text, which is what makes a preorder doubtful. The argument: each comparison within a
round is a preorder of what is there at that place (`Content`, `Segment`), and
comparisons made one after the other are one again (`ThenOrdered`). If a round
tells two texts nothing, both had a number there or neither (`Turn`), so where
the next round begins in one text does not depend on the other (`Onward`). The
rounds are the values of one recursive function. That it exists, and that all
its values are ordered, is shown by a least counterexample: among the places
where it fails, the one with the fewest characters left.

That there is such a key after all is `KeysCompare`, shown the same way: the key
of what is left of a text is what one round compares, joined with the key of
what the round leaves (`Grown`), and the comparison of two joined sequences is
that of their beginnings, then that of their ends, as soon as the beginnings
have one length or neither begins with the other (`BeginFirst`, `WordFirst`).
A number begins with the number of its digits and a word ends with a zero for
that reason, and `GrownFirst` is then the equation that defines a round.

### DiscoverProofs

For any search directories, names, versions and changes during the scan:

* `StableFound`: `Spec => []StableIsFound`;
* `FirstFound`: `Spec => []FirstIsFound`;
* `NewestPicked`: `Spec => []NewestIsPicked`;
* `ImagesAlwaysSorted`: `Spec => []ImagesSorted`.

Assumption: `DiscoverAssumption` (what there is at first is finite, a directory
has one entry of a name, names are texts). The inductive invariant `IInv` has
one part per theorem, and `Scene` for the types. Each part says of the entries
whose turn is over (`Handled`) what the property says of all of them in the end:
`AllHandled` is the step from the one to the other.

* `StableInv`: an image nobody touched whose turn is over is found; while its
  versions are looked at, a usable one is still to come, or there is a best one.
* `FirstInv`, as long as nothing was touched: each image comes from an entry of
  its name (`AllCome`), each name comes once (`OneEach`), no entry that came
  before was passed over (`AllLed`), and the best version so far is not worse
  than any that was looked at (`BestSoFar`, `Judged`). A version is compared
  only with the best, so this takes that `CompareVersions` is transitive
  (`VersionsOrdered`).
* `OrderInv`: until they are sorted, images are in the order of the search
  directories. Sorting places each image by the number of those that come
  before it; that this numbers the images from 1 to their number, each once,
  takes `VersionsOrdered` again. `KeysCompare` makes it the order of the keys.

`IInv` was model-checked on the instance of `discover` before it was proved.

### Only model-checked

`UnchangedMeansMerged` and `NoServiceWithoutScript`, which do not hold.
`OperationsEnd`, `VerbEnds` and `MountEnds` are liveness under fairness, which
is out of the prover's reach, as is `ENABLED`. The library's induction theorems
are not used, as no installed prover can instantiate them; where an induction
over data is needed (versions, lists of units, layers) the proofs take a least
counterexample instead (`Least`), and where a recursive function is unfolded
its existence is proved first.

## 5. What could follow

The selection of submounts from mountinfo (`selectSubmounts`, `mountVisible`),
release matching, the format of the origin, path resolution; and in `Engine`
mounts that other programs make while an operation runs. Every invariant and
every action property that a passing run checks has its theorem.

## 6. Not modelled

* Text and byte formats and their parsers: configuration files, env files, the
  origin and `work_dir` files, GPT, MBR and superblocks. They have no state
  besides their input, and tests with vectors reach them.
* PKCS#7, X.509 and the hash tree itself: libraries and the kernel.
* Release matching: a comparison of a few fields (an image fits or not in
  `Verbs`, the check accepts or not in `Engine`).
* Path resolution inside a root: other modules have its result only.
* Option parsing, tables, messages and the exit status; `status`, `list` and
  `check`, which only read.
* The OpenRC scripts and the end-to-end tests.

The reasons for each part are in `PROJECT.json` under `components`.
