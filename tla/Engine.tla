------------------------------- MODULE Engine -------------------------------
(***************************************************************************)
(* The merge engine of internal/overlay for one class and one root: every  *)
(* process that runs Merge, Refresh or Unmerge against it, the flock(2)    *)
(* that serializes them, and the kernel state they change: the overlays on *)
(* the hierarchies, the mounts carried along below them, and the workspace *)
(* tmpfs with its generations.  One action is one step that can fail on    *)
(* its own or after which a SIGKILL leaves a different kernel state.       *)
(***************************************************************************)
EXTENDS Integers, Sequences, FiniteSets

CONSTANTS
  Procs,        \* processes running a verb
  NoProc,       \* "nobody holds the lock"
  N,            \* number of configured hierarchies, in their configured order
  Exts,         \* identities of extension images (name and contents)
  Provides,     \* <<e, h>>: image e has a non-empty directory for hierarchy h
  Subs,         \* mounts other programs made below the hierarchies
  Home,         \* Home[s]: the hierarchy s is mounted below
  Base,         \* the workspace itself, the generation of a first merge
  Nexts,        \* names MkdirTemp can give to ws/next.*
  NoDir,        \* "this operation has no generation yet"
  Requests,     \* what the processes ask for
  Fallible,     \* steps that may fail
  MaxFaults,    \* bound on failing steps
  MaxCrashes    \* bound on killed processes

H    == 1..N
Dirs == Nexts \cup {Base}

Request == [verb : {"none", "merge", "refresh", "unmerge"},
            images : SUBSET Exts, mutable : BOOLEAN, always : BOOLEAN]

NoRequest == [verb |-> "none", images |-> {}, mutable |-> FALSE, always |-> FALSE]

Steps == {"check", "workspace", "image", "plan", "callback", "take", "umount",
          "attach", "putback", "overlay", "move", "promote", "teardown",
          "discard", "retake", "detach"}

Reserved == {"host", "overlay", "lost", "detached", "deleted"}

ASSUME NAssumption == N \in Nat
ASSUME ProvidesAssumption == Provides \subseteq Exts \X H
ASSUME HomeAssumption == Home \in [Subs -> H]
ASSUME RequestsAssumption == Requests \subseteq {r \in Request : r.verb # "none"}
ASSUME BoundsAssumption == MaxFaults \in Nat /\ MaxCrashes \in Nat
ASSUME NamesAssumption ==
  /\ NoProc \notin Procs /\ NoDir \notin Dirs /\ Base \notin Nexts
  /\ Procs \cap Dirs = {}
  /\ Reserved \cap (Procs \cup Dirs) = {}
ASSUME FallibleAssumption == Fallible \subseteq Steps

VARIABLES
  lock,     \* holder of the flock on <workspace>.lock
  stack,    \* stack[h]: the overlays on hierarchy h, the visible one last
  sub,      \* where each carried mount is, see Place
  dirs,     \* generations in the workspace; {} when it is not mounted
  img,      \* img[d]: images mounted in d/extensions
  stage,    \* stage[d]: hierarchies with an overlay at the staging point in d
  pc,       \* the step each process takes next
  req,      \* the request each process carries out
  op,       \* the mergeOp of each process
  faults,   \* failed steps so far
  crashes,  \* killed processes so far
  before    \* history: what the lock holder found, for the properties

kernel == <<stack, sub, dirs, img, stage>>
vars   == <<lock, kernel, pc, req, op, faults, crashes, before>>

(* A merged overlay: the images and mode its origin file records, and where  *)
(* its metadata layer is: in a generation, in a tmpfs that was detached      *)
(* from the workspace ("detached"), or removed below the mount ("deleted").  *)
Overlay == [names : SUBSET Exts, mutable : BOOLEAN,
            loc : Dirs \cup {"detached", "deleted"}]

(* A carried mount is on the host hierarchy, on the merged overlay, on the   *)
(* staging overlay of a generation, held as a clone by a process, or gone.   *)
Place == {"host", "overlay", "lost"} \cup Procs \cup Dirs

Results == {"none", "merged", "unchanged", "nothing", "unmerged",
            "cleanup", "error"}

Op == [merged : SUBSET H, unmerged : SUBSET H, staged : SUBSET H,
       attached : SUBSET H, todo : SUBSET H,
       left : SUBSET Exts, images : SUBSET Exts,
       gen : Dirs \cup {NoDir}, fresh : BOOLEAN,
       unmerging : BOOLEAN, swapping : BOOLEAN, res : Results]

NewOp == [merged |-> {}, unmerged |-> {}, staged |-> {}, attached |-> {},
          todo |-> {}, left |-> {}, images |-> {}, gen |-> NoDir,
          fresh |-> FALSE, unmerging |-> FALSE, swapping |-> FALSE,
          res |-> "none"]

(***************************************************************************)
(* Reading the kernel state                                                *)
(***************************************************************************)

Top(h) == stack[h][Len(stack[h])]

(* isOurMountPoint: an overlay is there and its dev marker can be read. *)
Ours(h) == stack[h] # <<>> /\ Top(h).loc # "deleted"

(* What a mount made below h lands on. *)
Visible(h) == IF stack[h] = <<>> THEN "host" ELSE "overlay"

NotMerged == [names |-> {}, mutable |-> FALSE, merged |-> FALSE]

(* What programs see on h: nothing of ours, or the topmost merge. *)
View(h) == IF stack[h] = <<>> THEN NotMerged
           ELSE [names |-> Top(h).names, mutable |-> Top(h).mutable,
                 merged |-> TRUE]

NoHistory == [view |-> [h \in H |-> NotMerged], sub |-> [s \in Subs |-> "host"]]

(* hs.mount: some image contributes to h, or the mode merges anyway. *)
Mounts(p) == {h \in H : req[p].mutable \/ \E e \in op[p].images : <<e, h>> \in Provides}

(* The plan's origin equals the one the first merged hierarchy records. *)
First(h, S) == h \in S /\ \A k \in S : h <= k
Last(h, S)  == h \in S /\ \A k \in S : k <= h

UpToDate(p) ==
  \E h \in H : /\ First(h, op[p].merged)
               /\ Top(h).names = op[p].images
               /\ Top(h).mutable = req[p].mutable

(* Hierarchies are unmerged in place, not swapped for a new merge. *)
InPlace(p) == req[p].verb = "unmerge" \/ op[p].unmerging

(***************************************************************************)
(* Changing the kernel state                                               *)
(***************************************************************************)

Fault(step) == step \in Fallible /\ faults < MaxFaults /\ faults' = faults + 1

(* Moves the carried mounts of h from one place to another. *)
Carry(h, from, to) ==
  sub' = [s \in Subs |-> IF Home[s] = h /\ sub[s] = from THEN to ELSE sub[s]]

(* The overlays of a stack whose layers are in ds have them in loc now. *)
Relocated(st, ds, loc) ==
  [k \in DOMAIN st |-> IF st[k].loc \in ds THEN [st[k] EXCEPT !.loc = loc] ELSE st[k]]

(* teardownWorkspace, then a new workspace holding the generations ds: all   *)
(* mounts in it go, merged overlays keep their layers alive on their own.    *)
Teardown(ds) ==
  /\ dirs' = ds
  /\ img' = [d \in Dirs |-> {}]
  /\ stage' = [d \in Dirs |-> {}]
  /\ sub' = [s \in Subs |-> IF sub[s] \in Dirs THEN "lost" ELSE sub[s]]
  /\ stack' = [h \in H |-> Relocated(stack[h], Dirs, "detached")]

(* The generation of p stays, with the images that could not be unmounted.   *)
NotReleased(p) ==
  /\ op[p].gen # NoDir /\ Fault("discard") /\ UNCHANGED <<stack, sub, dirs, stage>>
  /\ \E kept \in SUBSET img[op[p].gen] : img' = [img EXCEPT ![op[p].gen] = kept]

(* discard: drops what p built before any merge was touched. *)
Discard(p) ==
  \/ op[p].fresh /\ Teardown({}) /\ UNCHANGED faults
  \/ /\ ~op[p].fresh /\ op[p].gen \in Nexts
     /\ dirs' = dirs \ {op[p].gen}
     /\ img' = [img EXCEPT ![op[p].gen] = {}]
     /\ UNCHANGED <<stack, sub, stage, faults>>
  \/ ~op[p].fresh /\ op[p].gen \notin Nexts /\ UNCHANGED <<kernel, faults>>
  \/ NotReleased(p)

(* p goes on at the label, its mergeOp now being o. *)
Goes(p, label, o) == pc' = [pc EXCEPT ![p] = label] /\ op' = [op EXCEPT ![p] = o]

(* Every action below is taken by the process p at one label; nobody but the *)
(* lock holder changes the kernel state.                                     *)
At(p, label) == pc[p] = label /\ UNCHANGED <<lock, req, crashes, before>>

(* run returned an error: abort visits every hierarchy. *)
Abort(p, o) == Goes(p, "abort", [o EXCEPT !.todo = H, !.res = "error"])

Finish(p, result) == Goes(p, "unlock", [op[p] EXCEPT !.res = result])

(***************************************************************************)
(* Taking the lock; what is merged; the workspace; the images              *)
(***************************************************************************)

(* The verb starts: images are discovered before the lock is asked for. *)
Begin(p) ==
  /\ pc[p] = "idle"
  /\ \E r \in Requests : req' = [req EXCEPT ![p] = r]
  /\ Goes(p, "lock", op[p])
  /\ UNCHANGED <<lock, kernel, faults, crashes, before>>

Acquire(p) ==
  /\ pc[p] = "lock" /\ lock = NoProc
  /\ lock' = p
  /\ before' = [view |-> [h \in H |-> View(h)], sub |-> sub]
  /\ IF req[p].verb = "unmerge"
     THEN Goes(p, "take", [op[p] EXCEPT !.todo = H])
     ELSE Goes(p, "check", op[p])
  /\ UNCHANGED <<kernel, req, faults, crashes>>

(* Mutants of Check: images are mounted without a workspace; what is merged  *)
(* already is not noticed.                                                   *)
CheckNoWorkspace(p) ==
  /\ At(p, "check") /\ UNCHANGED <<kernel, faults>>
  /\ Goes(p, "image", [op[p] EXCEPT !.left = req[p].images])

CheckNothingMerged(p) ==
  /\ At(p, "check") /\ UNCHANGED <<kernel, faults>>
  /\ Goes(p, "workspace", [op[p] EXCEPT !.left = req[p].images])

(* Which hierarchies are merged; Merge refuses if any is. *)
Check(p) ==
  /\ At(p, "check") /\ UNCHANGED <<kernel, faults>>
  /\ LET m == {h \in H : Ours(h)}
         o == [op[p] EXCEPT !.merged = m, !.left = req[p].images]
     IN IF req[p].verb = "merge" /\ m # {}
        THEN Abort(p, op[p])
        ELSE Goes(p, IF req[p].images # {} \/ req[p].mutable THEN "workspace" ELSE "image", o)

CheckFails(p) ==
  At(p, "check") /\ Fault("check") /\ Abort(p, op[p]) /\ UNCHANGED kernel

Reuses(p) == req[p].verb = "refresh" /\ op[p].merged # {}

(* resetWorkspace: whatever is left at the workspace makes room. *)
ResetWorkspace(p) ==
  /\ At(p, "workspace") /\ ~Reuses(p)
  /\ Teardown({Base})
  /\ Goes(p, "image", [op[p] EXCEPT !.gen = Base, !.fresh = TRUE])
  /\ UNCHANGED faults

(* useWorkspace: a new generation next to that of the live merge. *)
UseWorkspace(p) ==
  /\ At(p, "workspace") /\ Reuses(p)
  /\ \E d \in Nexts \ dirs :
       /\ Goes(p, "image", [op[p] EXCEPT !.gen = d, !.fresh = Base \notin dirs])
       /\ IF Base \in dirs
          THEN dirs' = dirs \cup {d} /\ UNCHANGED <<stack, sub, img, stage>>
          ELSE Teardown({Base, d})
  /\ UNCHANGED faults

(* The old workspace is gone only if the mount failed after the teardown.   *)
WorkspaceFails(p) ==
  /\ At(p, "workspace")
  /\ Abort(p, op[p])
  /\ \/ Fault("workspace") /\ UNCHANGED kernel
     \/ Fault("workspace") /\ ~(Reuses(p) /\ Base \in dirs) /\ Teardown({})
     \/ Reuses(p) /\ Nexts \subseteq dirs /\ UNCHANGED <<kernel, faults>>

(* mountImage: the check accepts the image, or ignores it. *)
MountImage(p) ==
  /\ At(p, "image") /\ UNCHANGED <<stack, sub, dirs, stage, faults>>
  /\ \E e \in op[p].left :
       \/ /\ img' = [img EXCEPT ![op[p].gen] = @ \cup {e}]
          /\ Goes(p, "image", [op[p] EXCEPT !.left = @ \ {e}, !.images = @ \cup {e}])
       \/ /\ Goes(p, "image", [op[p] EXCEPT !.left = @ \ {e}])
          /\ UNCHANGED img

MountImageFails(p) ==
  /\ At(p, "image") /\ Fault("image")
  /\ \E e \in op[p].left :
       \/ UNCHANGED img
       \/ img' = [img EXCEPT ![op[p].gen] = @ \cup {e}]
  /\ Abort(p, op[p]) /\ UNCHANGED <<stack, sub, dirs, stage>>

(***************************************************************************)
(* Deciding: nothing to merge, nothing changed, or a swap                  *)
(***************************************************************************)

Prepared(p) == At(p, "image") /\ op[p].left = {}

Nothing(p) == op[p].images = {} /\ ~req[p].mutable

(* Mutant of PlanNothing: the old merge is touched before BeforeUnmerge.     *)
PlanNothingAtOnce(p) ==
  /\ Prepared(p) /\ Nothing(p)
  /\ Discard(p)
  /\ IF op[p].merged = {}
     THEN Finish(p, "nothing")
     ELSE Goes(p, "take", [op[p] EXCEPT !.gen = NoDir, !.fresh = FALSE,
                                       !.todo = op[p].merged])

(* No image qualified: Merge ends, Refresh unmerges what is merged. *)
PlanNothing(p) ==
  /\ Prepared(p) /\ Nothing(p)
  /\ Discard(p)
  /\ IF op[p].merged = {}
     THEN Finish(p, "nothing")
     ELSE Goes(p, "callback", [op[p] EXCEPT !.gen = NoDir, !.fresh = FALSE])

(* BeforeUnmerge, called with the old merge still in place. *)
Callback(p) ==
  /\ At(p, "callback")
  /\ Goes(p, "take", [op[p] EXCEPT !.unmerging = TRUE, !.todo = op[p].merged])
  /\ UNCHANGED <<kernel, faults>>

CallbackFails(p) ==
  At(p, "callback") /\ Fault("callback") /\ Abort(p, op[p]) /\ UNCHANGED kernel

PlanUnchanged(p) ==
  /\ Prepared(p) /\ ~Nothing(p)
  /\ UpToDate(p) /\ ~req[p].always
  /\ Discard(p)
  /\ Finish(p, "unchanged")

(* Mutant of PlanSwap: the old merge is not unmounted first. *)
PlanSwapOnTop(p) ==
  /\ Prepared(p) /\ ~Nothing(p)
  /\ ~UpToDate(p) \/ req[p].always
  /\ Goes(p, "stage", [op[p] EXCEPT !.swapping = TRUE, !.todo = H])
  /\ UNCHANGED <<kernel, faults>>

PlanSwap(p) ==
  /\ Prepared(p) /\ ~Nothing(p)
  /\ ~UpToDate(p) \/ req[p].always
  /\ IF op[p].merged = {}
     THEN Goes(p, "stage", [op[p] EXCEPT !.swapping = TRUE, !.todo = H])
     ELSE Goes(p, "take", [op[p] EXCEPT !.swapping = TRUE, !.todo = op[p].merged])
  /\ UNCHANGED <<kernel, faults>>

PlanFails(p) ==
  Prepared(p) /\ ~Nothing(p) /\ Fault("plan") /\ Abort(p, op[p]) /\ UNCHANGED kernel

(***************************************************************************)
(* unmergeHierarchy, for unmerge, for a refresh that unmerges and for a    *)
(* refresh that swaps                                                      *)
(***************************************************************************)

(* An error here: in place the mounts taken so far are put back first. *)
UnmergeError(p) ==
  IF InPlace(p)
  THEN Goes(p, "putback", [op[p] EXCEPT !.res = "error"])
  ELSE Abort(p, op[p])

(* Another of our overlays is on h: clone the mounts below it, then detach   *)
(* the originals.                                                            *)
TakeSubmounts(p) ==
  /\ At(p, "take") /\ UNCHANGED <<stack, dirs, img, stage, faults>>
  /\ \E h \in H : First(h, op[p].todo) /\ Ours(h) /\ Carry(h, "overlay", p)
  /\ Goes(p, "umount", op[p])

(* Mutant of HierarchyUnmerged: the swap unmerges the first hierarchy only.  *)
OneHierarchyUnmerged(p) ==
  /\ At(p, "take") /\ UNCHANGED <<kernel, faults>>
  /\ \E h \in H : First(h, op[p].todo) /\ ~Ours(h)
  /\ IF InPlace(p) THEN Goes(p, "putback", op[p])
     ELSE Goes(p, "stage", [op[p] EXCEPT !.todo = H])

(* None is left on h: the swap goes on with the next merged hierarchy. *)
HierarchyUnmerged(p) ==
  /\ At(p, "take") /\ UNCHANGED <<kernel, faults>>
  /\ \E h \in H :
       /\ First(h, op[p].todo) /\ ~Ours(h)
       /\ IF InPlace(p)
          THEN Goes(p, "putback", op[p])
          ELSE LET rest == op[p].todo \ {h}
               IN IF rest = {}
                  THEN Goes(p, "stage", [op[p] EXCEPT !.todo = H])
                  ELSE Goes(p, "take", [op[p] EXCEPT !.todo = rest])

(* An error before the detach of the originals leaves them all attached. *)
TakeFails(p) ==
  At(p, "take") /\ Fault("take") /\ UnmergeError(p) /\ UNCHANGED kernel

(* The topmost overlay of h goes, and every mount still on it. *)
Pop(h) ==
  /\ stack' = [stack EXCEPT ![h] = SubSeq(@, 1, Len(@) - 1)]
  /\ Carry(h, "overlay", "lost")

Unmount(p) ==
  /\ At(p, "umount") /\ UNCHANGED <<dirs, img, stage, faults>>
  /\ \E h \in H :
       /\ First(h, op[p].todo) /\ Pop(h)
       /\ IF InPlace(p) THEN Goes(p, "take", op[p])
          ELSE Goes(p, "take", [op[p] EXCEPT !.unmerged = @ \cup {h}])

(* The unmount failed, or it did not but removing the recorded workdir did.  *)
UnmountFails(p) ==
  /\ At(p, "umount") /\ Fault("umount") /\ UNCHANGED <<dirs, img, stage>>
  /\ \E h \in H :
       /\ First(h, op[p].todo)
       /\ \/ UNCHANGED <<stack, sub>> /\ UnmergeError(p)
          \/ /\ Pop(h)
             /\ IF InPlace(p) THEN UnmergeError(p)
                ELSE Abort(p, [op[p] EXCEPT !.unmerged = @ \cup {h}])

(* attachSubmounts of the clones p holds for h, all of them. *)
Attach(p, h, to) == Carry(h, p, to)

(* Some could not be attached, and closeSaved closes those.  In place of      *)
(* AttachSome, which keeps them for abort, a mutant.                         *)
AttachSomeClose(p, h, to) ==
  \E fails \in SUBSET {s \in Subs : Home[s] = h /\ sub[s] = p} :
    /\ fails # {}
    /\ sub' = [s \in Subs |-> IF Home[s] = h /\ sub[s] = p
                              THEN IF s \in fails THEN "lost" ELSE to
                              ELSE sub[s]]

(* Some could not be attached: they stay pending. *)
AttachSome(p, h, to) ==
  \E fails \in SUBSET {s \in Subs : Home[s] = h /\ sub[s] = p} :
    /\ fails # {}
    /\ sub' = [s \in Subs |-> IF Home[s] = h /\ sub[s] = p /\ s \notin fails THEN to ELSE sub[s]]

(* Mutant of UnmergeNext: the loop does not advance. *)
UnmergeAgain(p, h, result) ==
  Goes(p, IF op[p].todo # {} THEN "take" ELSE "teardown", [op[p] EXCEPT !.res = result])

(* unmergeInPlace is done with h.  Unmerge goes on after an error and then   *)
(* keeps the workspace; Refresh stops at the first one.                      *)
UnmergeNext(p, h, result) ==
  LET rest == op[p].todo \ {h}
  IN IF result = "error" /\ op[p].unmerging
     THEN Abort(p, op[p])
     ELSE Goes(p, IF rest # {} THEN "take" ELSE IF result = "error" THEN "unlock" ELSE "teardown",
               [op[p] EXCEPT !.todo = rest, !.res = result])

PutBack(p) ==
  /\ At(p, "putback") /\ UNCHANGED <<stack, dirs, img, stage, faults>>
  /\ \E h \in H :
       /\ First(h, op[p].todo)
       /\ Attach(p, h, Visible(h))
       /\ UnmergeNext(p, h, op[p].res)

PutBackFails(p) ==
  /\ At(p, "putback") /\ Fault("putback") /\ UNCHANGED <<stack, dirs, img, stage>>
  /\ \E h \in H :
       /\ First(h, op[p].todo)
       /\ AttachSomeClose(p, h, Visible(h))
       /\ UnmergeNext(p, h, "error")

(* Mutant of TeardownWorkspace: the workspace stays mounted. *)
KeepWorkspace(p) ==
  /\ At(p, "teardown") /\ UNCHANGED <<kernel, faults>>
  /\ Finish(p, IF op[p].swapping THEN "merged"
               ELSE IF op[p].unmerging THEN "nothing" ELSE "unmerged")

(* The last step of an unmerge, and of a merge that attached no overlay. *)
TeardownWorkspace(p) ==
  /\ At(p, "teardown") /\ Teardown({}) /\ UNCHANGED faults
  /\ Finish(p, IF op[p].swapping THEN "merged"
               ELSE IF op[p].unmerging THEN "nothing" ELSE "unmerged")

(* Not unmounted; or unmounted, and then its mount point was not removed. *)
TeardownFails(p) ==
  /\ At(p, "teardown") /\ Fault("teardown")
  /\ UNCHANGED kernel \/ Teardown({})
  /\ IF op[p].swapping THEN Finish(p, "cleanup")
     ELSE IF op[p].unmerging THEN Abort(p, op[p]) ELSE Finish(p, "error")

(***************************************************************************)
(* mergeHierarchy: the overlay of each hierarchy at its staging point      *)
(***************************************************************************)

(* A hierarchy that gets no overlay this time takes its mounts back. *)
KeepHost(p) ==
  /\ At(p, "stage") /\ UNCHANGED <<stack, dirs, img, stage, faults>>
  /\ \E h \in H :
       /\ First(h, op[p].todo) /\ h \notin Mounts(p)
       /\ Attach(p, h, Visible(h))
       /\ Goes(p, "stage", [op[p] EXCEPT !.todo = @ \ {h}])

KeepHostFails(p) ==
  /\ At(p, "stage") /\ Fault("attach") /\ UNCHANGED <<stack, dirs, img, stage>>
  /\ \E h \in H : /\ First(h, op[p].todo) /\ h \notin Mounts(p)
                  /\ AttachSome(p, h, Visible(h))
  /\ Abort(p, op[p])

StageOverlay(p) ==
  /\ At(p, "stage") /\ UNCHANGED <<stack, sub, dirs, img, faults>>
  /\ \E h \in H :
       /\ First(h, op[p].todo) /\ h \in Mounts(p)
       /\ stage' = [stage EXCEPT ![op[p].gen] = @ \cup {h}]
       /\ Goes(p, "carry", [op[p] EXCEPT !.staged = @ \cup {h}])

(* Not mounted; or mounted, and then writeDev or the marker's bind mount     *)
(* failed, writeDev perhaps between its unmount and its remount.             *)
StageFails(p) ==
  /\ At(p, "stage") /\ Fault("overlay") /\ UNCHANGED <<stack, sub, dirs, img>>
  /\ \E h \in H :
       /\ First(h, op[p].todo) /\ h \in Mounts(p)
       /\ \/ UNCHANGED stage /\ Abort(p, op[p])
          \/ UNCHANGED stage /\ Abort(p, [op[p] EXCEPT !.staged = @ \cup {h}])
          \/ /\ stage' = [stage EXCEPT ![op[p].gen] = @ \cup {h}]
             /\ Abort(p, [op[p] EXCEPT !.staged = @ \cup {h}])

(* Mutant of TakeHostMounts: the mounts stay below the new overlay. *)
LeaveHostMounts(p) ==
  At(p, "carry") /\ UNCHANGED <<kernel, faults>> /\ Goes(p, "adopt", op[p])

(* The mounts of a hierarchy that was not merged are taken from the host;    *)
(* those of a merged one were taken from its old overlay.                    *)
TakeHostMounts(p) ==
  /\ At(p, "carry") /\ UNCHANGED <<stack, dirs, img, stage, faults>>
  /\ \E h \in H : /\ First(h, op[p].todo)
                  /\ IF h \in op[p].merged THEN UNCHANGED sub ELSE Carry(h, "host", p)
  /\ Goes(p, "adopt", op[p])

TakeHostMountsFails(p) ==
  /\ At(p, "carry") /\ Fault("take") /\ UNCHANGED kernel
  /\ \E h \in H : First(h, op[p].todo) /\ h \notin op[p].merged
  /\ Abort(p, op[p])

AttachStaged(p) ==
  /\ At(p, "adopt") /\ UNCHANGED <<stack, dirs, img, stage, faults>>
  /\ \E h \in H : /\ First(h, op[p].todo)
                  /\ Attach(p, h, op[p].gen)
                  /\ Goes(p, "stage", [op[p] EXCEPT !.todo = @ \ {h}])

AttachStagedFails(p) ==
  /\ At(p, "adopt") /\ Fault("attach") /\ UNCHANGED <<stack, dirs, img, stage>>
  /\ \E h \in H : First(h, op[p].todo) /\ AttachSome(p, h, op[p].gen)
  /\ Abort(p, op[p])

(***************************************************************************)
(* Going live, and moving the new generation into place                    *)
(***************************************************************************)

Staged(p) ==
  /\ At(p, "stage") /\ op[p].todo = {}
  /\ Goes(p, "move", [op[p] EXCEPT !.todo = Mounts(p)])
  /\ UNCHANGED <<kernel, faults>>

(* MS_MOVE of the staged overlay onto the hierarchy, with what is below it. *)
MoveOverlay(p) ==
  /\ At(p, "move") /\ UNCHANGED <<dirs, img, faults>>
  /\ \E h \in H :
       /\ First(h, op[p].todo)
       /\ stack' = [stack EXCEPT ![h] = Append(@, [names |-> op[p].images,
                      mutable |-> req[p].mutable, loc |-> op[p].gen])]
       /\ stage' = [stage EXCEPT ![op[p].gen] = @ \ {h}]
       /\ Carry(h, op[p].gen, "overlay")
       /\ Goes(p, "move", [op[p] EXCEPT !.staged = @ \ {h}, !.attached = @ \cup {h},
                                        !.todo = @ \ {h}])

MoveFails(p) ==
  /\ At(p, "move") /\ op[p].todo # {} /\ Fault("move")
  /\ Abort(p, op[p]) /\ UNCHANGED kernel

(* Committed: clones still pending are closed; then the cleanup begins. *)
Commit(p) ==
  /\ At(p, "move") /\ op[p].todo = {}
  /\ sub' = [s \in Subs |-> IF sub[s] = p THEN "lost" ELSE sub[s]]
  /\ IF op[p].attached = {} THEN Goes(p, "teardown", op[p])
     ELSE IF op[p].gen = Base THEN Finish(p, "merged")
     ELSE Goes(p, "clear", op[p])
  /\ UNCHANGED <<stack, dirs, img, stage, faults>>

(* Mutant of PromoteClear: the images of the previous merge stay. *)
PromoteUnclear(p) ==
  /\ At(p, "clear") /\ UNCHANGED <<kernel, faults>>
  /\ Goes(p, "drop", [op[p] EXCEPT !.todo = op[p].attached \cup op[p].unmerged])

(* promote: the images of the previous merge go. *)
PromoteClear(p) ==
  /\ At(p, "clear") /\ UNCHANGED <<stack, sub, dirs, stage, faults>>
  /\ img' = [img EXCEPT ![Base] = {}]
  /\ Goes(p, "drop", [op[p] EXCEPT !.todo = op[p].attached \cup op[p].unmerged])

(* The layers of the previous merge of h go; removeTree refuses while an     *)
(* overlay is mounted below it.                                              *)
PromoteDrop(p) ==
  /\ At(p, "drop") /\ UNCHANGED <<sub, dirs, img, stage, faults>>
  /\ \E h \in H :
       /\ First(h, op[p].todo) /\ h \notin stage[Base]
       /\ stack' = [stack EXCEPT ![h] = Relocated(@, {Base}, "deleted")]
       /\ LET rest == op[p].todo \ {h}
          IN IF rest = {}
             THEN Goes(p, "shift", [op[p] EXCEPT !.todo = {}, !.left = op[p].images])
             ELSE Goes(p, "drop", [op[p] EXCEPT !.todo = rest])

DropRefused(p) ==
  /\ At(p, "drop") /\ UNCHANGED <<kernel, faults>>
  /\ \E h \in H : First(h, op[p].todo) /\ h \in stage[Base]
  /\ Finish(p, "cleanup")

(* The new images move into ws/extensions, one mount after the other. *)
PromoteImage(p) ==
  /\ At(p, "shift") /\ UNCHANGED <<stack, sub, dirs, stage, faults>>
  /\ \E e \in op[p].left :
       /\ img' = [img EXCEPT ![op[p].gen] = @ \ {e}, ![Base] = @ \cup {e}]
       /\ Goes(p, "shift", [op[p] EXCEPT !.left = @ \ {e}])

ImagesPromoted(p) ==
  /\ At(p, "shift") /\ op[p].left = {} /\ UNCHANGED <<kernel, faults>>
  /\ Goes(p, "rename", [op[p] EXCEPT !.todo = op[p].attached])

(* Mutant of PromoteLayers: the layers are not renamed. *)
LeaveLayers(p) ==
  /\ At(p, "rename") /\ op[p].todo # {} /\ UNCHANGED <<kernel, faults>>
  /\ Goes(p, "rename", [op[p] EXCEPT !.todo = {}])

(* The layers of h are renamed to their place below the workspace. *)
PromoteLayers(p) ==
  /\ At(p, "rename") /\ UNCHANGED <<sub, dirs, img, stage, faults>>
  /\ \E h \in H :
       /\ First(h, op[p].todo)
       /\ stack' = [stack EXCEPT ![h] = Relocated(@, {op[p].gen}, Base)]
       /\ Goes(p, "rename", [op[p] EXCEPT !.todo = @ \ {h}])

(* What is left of ws/next.* is removed: nothing is mounted there any more. *)
PromoteDone(p) ==
  /\ At(p, "rename") /\ op[p].todo = {} /\ UNCHANGED <<sub, stage, img, faults>>
  /\ img[op[p].gen] = {} /\ stage[op[p].gen] = {}
  /\ dirs' = dirs \ {op[p].gen}
  /\ stack' = [h \in H |-> Relocated(stack[h], {op[p].gen}, "deleted")]
  /\ Finish(p, "merged")

(* Anything failing here is ErrCleanup: the new merge stays. *)
PromoteFails(p) ==
  /\ pc[p] \in {"clear", "drop", "shift", "rename"} /\ At(p, pc[p])
  /\ Fault("promote") /\ Finish(p, "cleanup") /\ UNCHANGED <<stack, sub, dirs, stage>>
  /\ \/ UNCHANGED img
     \/ /\ pc[p] = "clear"
        /\ \E kept \in SUBSET img[Base] : img' = [img EXCEPT ![Base] = kept]

(***************************************************************************)
(* abort: restoreHost for every hierarchy, the last one first, then the    *)
(* new layers are released                                                 *)
(***************************************************************************)

(* Mutants of Built: abort forgets the overlays that are live already; abort *)
(* forgets the hierarchies that were merged before.                          *)
BuiltStaged(p, h) == h \in op[p].staged

BuiltFirst(p, h) == h \in (op[p].staged \cup op[p].attached) \ op[p].unmerged

Built(p, h) == h \in op[p].staged \cup op[p].attached

Where(p, h) == IF h \in op[p].attached THEN "overlay" ELSE op[p].gen

AbortTake(p) ==
  /\ At(p, "abort") /\ UNCHANGED <<stack, dirs, img, stage>>
  /\ \E h \in H : /\ Last(h, op[p].todo) /\ Built(p, h)
                  /\ \/ Carry(h, Where(p, h), p) /\ UNCHANGED faults
                     \/ Fault("retake") /\ UNCHANGED sub
  /\ Goes(p, "detach", op[p])

(* The new overlay goes, with any mount that could not be taken from it. *)
AbortDetach(p) ==
  /\ At(p, "detach") /\ UNCHANGED <<dirs, img>>
  /\ \E h \in H :
       /\ Last(h, op[p].todo)
       /\ \/ h \in op[p].attached /\ Pop(h) /\ UNCHANGED <<stage, faults>>
          \/ /\ h \notin op[p].attached
             /\ stage' = [stage EXCEPT ![op[p].gen] = @ \ {h}]
             /\ Carry(h, op[p].gen, "lost") /\ UNCHANGED <<stack, faults>>
          \/ Fault("detach") /\ UNCHANGED <<stack, sub, stage>>
       /\ Goes(p, "restore", [op[p] EXCEPT !.attached = @ \ {h}, !.staged = @ \ {h}])

AbortAttach(p) ==
  /\ pc[p] \in {"abort", "restore"} /\ At(p, pc[p]) /\ UNCHANGED <<stack, dirs, img, stage>>
  /\ \E h \in H :
       /\ Last(h, op[p].todo) /\ ~Built(p, h)
       /\ \/ Attach(p, h, Visible(h)) /\ UNCHANGED faults
          \/ Fault("putback") /\ AttachSomeClose(p, h, Visible(h))
       /\ Goes(p, "abort", [op[p] EXCEPT !.todo = @ \ {h}])

AbortRelease(p) ==
  /\ At(p, "abort") /\ op[p].todo = {}
  /\ IF op[p].swapping
     THEN \/ Teardown({}) /\ UNCHANGED faults
          \/ NotReleased(p)
     ELSE Discard(p)
  /\ Finish(p, "error")

(***************************************************************************)
(* The lock is released, by unlock or by the death of the process          *)
(***************************************************************************)

Leave(p) ==
  /\ lock' = NoProc
  /\ req' = [req EXCEPT ![p] = NoRequest]
  /\ before' = NoHistory
  /\ Goes(p, "idle", NewOp)

Unlock(p) ==
  /\ pc[p] = "unlock"
  /\ Leave(p)
  /\ UNCHANGED <<kernel, faults, crashes>>

(* SIGKILL: the clones the process held are closed with it. *)
Crash(p) ==
  /\ lock = p /\ crashes < MaxCrashes
  /\ crashes' = crashes + 1
  /\ Leave(p)
  /\ sub' = [s \in Subs |-> IF sub[s] = p THEN "lost" ELSE sub[s]]
  /\ UNCHANGED <<stack, dirs, img, stage, faults>>

(***************************************************************************)
(* The specification                                                       *)
(***************************************************************************)

(* Nothing merged, no workspace, and every carried mount on its host. *)
Init ==
  /\ lock = NoProc
  /\ stack = [h \in H |-> <<>>]
  /\ sub = [s \in Subs |-> "host"]
  /\ dirs = {} /\ img = [d \in Dirs |-> {}] /\ stage = [d \in Dirs |-> {}]
  /\ pc = [p \in Procs |-> "idle"]
  /\ req = [p \in Procs |-> NoRequest]
  /\ op = [p \in Procs |-> NewOp]
  /\ faults = 0 /\ crashes = 0
  /\ before = NoHistory

(* What the lock holder does when nothing fails, and when something does. *)
Works(p) ==
  \/ Check(p) \/ ResetWorkspace(p) \/ UseWorkspace(p) \/ MountImage(p)
  \/ PlanNothing(p) \/ Callback(p) \/ PlanUnchanged(p) \/ PlanSwap(p)
  \/ TakeSubmounts(p) \/ HierarchyUnmerged(p) \/ Unmount(p) \/ PutBack(p)
  \/ TeardownWorkspace(p) \/ KeepHost(p) \/ StageOverlay(p)
  \/ TakeHostMounts(p) \/ AttachStaged(p) \/ Staged(p) \/ MoveOverlay(p)
  \/ Commit(p) \/ PromoteClear(p) \/ PromoteDrop(p) \/ DropRefused(p)
  \/ PromoteImage(p) \/ ImagesPromoted(p) \/ PromoteLayers(p) \/ PromoteDone(p)
  \/ AbortTake(p) \/ AbortDetach(p) \/ AbortAttach(p) \/ AbortRelease(p)

Fails(p) ==
  \/ CheckFails(p) \/ WorkspaceFails(p) \/ MountImageFails(p) \/ CallbackFails(p)
  \/ PlanFails(p) \/ TakeFails(p) \/ UnmountFails(p) \/ PutBackFails(p)
  \/ TeardownFails(p) \/ KeepHostFails(p) \/ StageFails(p)
  \/ TakeHostMountsFails(p) \/ AttachStagedFails(p) \/ MoveFails(p) \/ PromoteFails(p)

Next == \E p \in Procs : \/ Begin(p) \/ Acquire(p) \/ Works(p) \/ Fails(p)
                         \/ Unlock(p) \/ Crash(p)

Spec == Init /\ [][Next]_vars

(* A process that holds the lock keeps running: nothing it calls blocks. *)
Runs(p) == lock = p /\ (Works(p) \/ Fails(p) \/ Unlock(p))

FairSpec == Spec /\ \A p \in Procs : WF_vars(Runs(p))

(***************************************************************************)
(* Properties                                                              *)
(***************************************************************************)

Labels == {"idle", "lock", "check", "workspace", "image", "callback", "take",
           "umount", "putback", "teardown", "stage", "carry", "adopt", "move",
           "clear", "drop", "shift", "rename", "abort", "detach", "restore", "unlock"}

(* The types of the variables. *)
TypeOK ==
  /\ lock \in Procs \cup {NoProc}
  /\ stack \in [H -> Seq(Overlay)]
  /\ sub \in [Subs -> Place]
  /\ dirs \in SUBSET Dirs
  /\ img \in [Dirs -> SUBSET Exts]
  /\ stage \in [Dirs -> SUBSET H]
  /\ pc \in [Procs -> Labels]
  /\ req \in [Procs -> Request]
  /\ op \in [Procs -> Op]
  /\ faults \in Nat /\ crashes \in Nat

(* Lock (lock.go): from Check to Unlock a process is the only one there, so  *)
(* two operations never change mounts or the workspace at the same time.     *)
Exclusive == \A p \in Procs : pc[p] \notin {"idle", "lock"} => lock = p

(* unmergeHierarchy, Merge's check and abort together: whatever fails and    *)
(* whoever is killed, no hierarchy ever carries two of our overlays, so one  *)
(* unmerge always shows the host again.                                      *)
NeverStacked == \A h \in H : Len(stack[h]) <= 1

(* promote and teardownWorkspace never remove the metadata layer of an       *)
(* overlay that is still mounted: it would stop being recognized as ours     *)
(* (isOurMountPoint) and nothing could unmerge it any more.                  *)
MarkersIntact == \A h \in H : \A k \in DOMAIN stack[h] : stack[h][k].loc # "deleted"

(* Between operations every carried mount is visible where programs look:    *)
(* on the overlay of its hierarchy if there is one, else on the host.        *)
SubmountsVisible == lock = NoProc => \A s \in Subs : sub[s] = Visible(Home[s])

Ends(p, result) == pc[p] = "unlock" /\ op[p].res = result

(* Merge: on error everything is rolled back (overlay.go:322): the           *)
(* hierarchies and the mounts below them are what they were.                 *)
MergeRollsBack ==
  \A p \in Procs : Ends(p, "error") /\ req[p].verb = "merge" =>
    /\ \A h \in H : View(h) = before.view[h]
    /\ sub = before.sub

(* Refresh: a failure before the swap leaves the old merge, and the mounts   *)
(* on it, in place (overlay.go:330), also when BeforeUnmerge failed.         *)
EarlyFailureKeepsMerge ==
  \A p \in Procs :
    Ends(p, "error") /\ req[p].verb = "refresh" /\ ~op[p].swapping /\ ~op[p].unmerging =>
      /\ \A h \in H : View(h) = before.view[h]
      /\ \A s \in Subs : before.sub[s] \in {"host", "overlay"} => sub[s] = before.sub[s]

(* A failed operation never leaves part of the new merge behind: each        *)
(* hierarchy shows what it showed before, or the host.                       *)
FailureLeavesNothingNew ==
  \A p \in Procs : Ends(p, "error") =>
    \A h \in H : View(h) \in {before.view[h], NotMerged}

(* A merge or refresh that reports Merged, or Merged with ErrCleanup, has    *)
(* put exactly its images on every hierarchy they contribute to, in one      *)
(* mode, and no overlay on the others.                                       *)
MergedAsAsked ==
  \A p \in Procs : Ends(p, "merged") \/ Ends(p, "cleanup") =>
    \A h \in H : View(h) = IF h \in Mounts(p)
                           THEN [names |-> op[p].images, mutable |-> req[p].mutable,
                                 merged |-> TRUE]
                           ELSE NotMerged

(* After a Merged without ErrCleanup the workspace lists exactly the images  *)
(* of the merge in ws/extensions, where stopProvidedServices looks for them  *)
(* (services.go:53-68), and all layers of the live overlays are in place.    *)
WorkspaceDescribesMerge ==
  \A p \in Procs : Ends(p, "merged") /\ op[p].attached # {} =>
    /\ img[Base] = op[p].images
    /\ op[p].gen = Base \/ op[p].gen \notin dirs
    /\ \A h \in H : stack[h] # <<>> => Top(h).loc = Base

(* A successful unmerge, and a refresh that unmerged because nothing         *)
(* qualified, leave no overlay, no workspace and every surviving mount on    *)
(* its host; a merge or refresh that found nothing leaves nothing merged.    *)
UnmergeRestoresHost ==
  \A p \in Procs : Ends(p, "unmerged") \/ Ends(p, "nothing") =>
    /\ \A h \in H : stack[h] = <<>>
    /\ InPlace(p) => dirs = {} /\ \A s \in Subs : sub[s] \in {"host", "lost"}

(* A swap never shows a mix of two merges: while the new overlays go live    *)
(* one by one, the others show the host, not the old merge.                  *)
NeverMixed ==
  \A g, h \in H : stack[g] # <<>> /\ stack[h] # <<>> =>
    Top(g).names = Top(h).names /\ Top(g).mutable = Top(h).mutable

(* An operation that got the lock ends, whatever fails on its way. *)
OperationsEnd == \A p \in Procs : lock = p ~> lock # p

(* Unchanged: Refresh found the merged state up to date (overlay.go:302).    *)
UnchangedMeansMerged ==
  \A p \in Procs : Ends(p, "unchanged") =>
    \A h \in Mounts(p) : View(h) = [names |-> op[p].images,
                                    mutable |-> req[p].mutable, merged |-> TRUE]

=============================================================================
