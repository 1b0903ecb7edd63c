------------------------------- MODULE Layers -------------------------------
(***************************************************************************)
(* The layers of one hierarchy in each mutable mode,                       *)
(* internal/overlay/mutable.go with plan and mergeHierarchy of engine.go,  *)
(* over a series of operations, while users write through the overlay and  *)
(* edit the mutable directory, steps fail and processes are killed.        *)
(***************************************************************************)
EXTENDS Naturals, Sequences, SequencesExt

CONSTANTS
  Images,      \* sequences of images that may be merged, oldest first
  Provides,    \* the images with a file for the hierarchy
  Modes,       \* permissions of directories
  Default,     \* 0755
  None,
  Edits, Faults    \* bounds

(* What the directories of a merge are called is no name of an image.        *)
Names == {"own", "self", "workspace", "meta", None}

ASSUME LayersAssumption ==
  /\ Default \in Modes /\ {Edits, Faults} \subseteq Nat
  /\ None \notin Modes \cup {"own", "self", "workspace", "meta"}
  /\ Provides \cap Names = {}
  /\ \A images \in Images :
       images \in Seq(Range(images)) /\ Range(images) \cap Names = {}

VARIABLES
  route,     \* what the mutable directory is: one of its "own", or a link to
             \* the hierarchy it"self"
  place,     \* those two: whether they exist, their mode, what the one file
             \* of the model says there, whether metadata is left there, and
             \* whether they are on the file system of their parent
  work,      \* those with a work directory beside them
  overlay,   \* what is merged, or Bare
  pc, op,    \* the operation that runs
  last,      \* the result of the last one, if nobody changed anything since
  calm,      \* nobody changed anything since the merge, nor did it make the
             \* hierarchy
  edits, faults

vars == <<route, place, work, overlay, pc, op, last, calm, edits, faults>>

Places == {"own", "self"}
MutableModes == {"no", "auto", "yes", "import", "ephemeral", "ephemeral-import"}

ModeIsEphemeral(mode) == mode \in {"ephemeral", "ephemeral-import"}

Directory(mode, file, on) ==
  [exists |-> TRUE, mode |-> mode, file |-> file, stale |-> FALSE, on |-> on]
Missing == [exists |-> FALSE]
Fresh(mode) == Directory(mode, None, "same")

(* What users make of a place.                                               *)
Found(x) ==
  {Missing} \cup {Directory(m, f, "same") : m \in Modes, f \in {None, x}}
    \cup {Directory(Default, x, on) : on \in {"other", "readonly"}}
    \cup {[Directory(Default, x, "same") EXCEPT !.stale = TRUE]}

Bare == [merged |-> FALSE]
NoOp == [staged |-> Bare]

Init ==
  /\ route \in Places
  /\ place \in {[own |-> Missing, self |-> h] : h \in Found("self")}
  /\ work = {} /\ overlay = Bare /\ pc = "idle" /\ op = NoOp
  /\ last = None /\ calm = FALSE /\ edits = 0 /\ faults = 0

----------------------------------------------------------------------------
(* The mode of the directory at a place: the merged hierarchy has that of    *)
(* its top layer.                                                            *)
TopMode(o) ==
  CASE o.upper = None -> o.meta
    [] o.upper = "workspace" -> o.scratch.mode
    [] OTHER -> place[o.upper].mode

ModeAt(x) == IF x = "self" /\ overlay.merged THEN TopMode(overlay) ELSE place[x].mode

HierarchyMode == IF op.found THEN ModeAt("self") ELSE Default

Exists(x) == place[x].exists
DirIsEmpty(x) == place[x].file = None /\ ~place[x].stale

MutableDirModeMatches(mode) ==
  mode \in {"auto", "yes"} /\ Exists(route) => ModeAt(route) = HierarchyMode

(* resolveMutableDir: the directory, and for "yes" whether it can be made    *)
(* (its mode is set even if it is there) and what becomes of the places.     *)
ResolveMutableDir(mode) ==
  IF mode = "no" THEN None
  ELSE IF ModeIsEphemeral(mode) THEN "workspace"
  ELSE IF Exists(route) \/ mode = "yes" THEN route ELSE None

IsReadOnly(x) ==
  IF x = "self" /\ overlay.merged THEN overlay.upper = None ELSE place[x].on = "readonly"

Resolves(mode) ==
  MutableDirModeMatches(mode) /\ ~(mode = "yes" /\ Exists(route) /\ IsReadOnly(route))

(* Mutant of Created: the directory is not given the mode of the hierarchy. *)
CreatedDefault(mode) ==
  IF mode = "yes" /\ ~Exists(route)
  THEN [place EXCEPT ![route] = Fresh(Default)] ELSE place

Created(mode) ==
  IF mode = "yes" /\ ~Exists(route)
  THEN [place EXCEPT ![route] = Fresh(HierarchyMode)] ELSE place

(* importedMutableDir.                                                       *)
ImportedMutableDir(mode) ==
  IF mode \in {"import", "ephemeral-import"} /\ Exists(route) THEN route ELSE None

ImportsItself(mode) == op.found /\ ImportedMutableDir(mode) = "self"

(* hostAsLowerDir: the host hierarchy is the bottom, unless it is the upper. *)
HostAsLowerDir(mode) ==
  /\ op.found /\ ~DirIsEmpty("self")
  /\ \/ mode \in {"import", "ephemeral-import"}
     \/ ResolveMutableDir(mode) # "self"

(* Mutant of UpperDir: writes go to what is imported. *)
UpperDirOfImport(mode) ==
  CASE mode = "import" -> None
    [] mode = "ephemeral-import" /\ Exists(route) -> route
    [] OTHER -> ResolveMutableDir(mode)

UpperDir(mode) == IF mode = "import" THEN None ELSE ResolveMutableDir(mode)

(* The upper directory has to be writable, and its parent on the same file   *)
(* system for the work directory.                                            *)
UpperIsUsable(mode) ==
  UpperDir(mode) \in Places /\ Exists(UpperDir(mode)) =>
    place[UpperDir(mode)].on = "same"

(* usedLayers: what the images contribute, the newest first.                 *)
UsedLayers(images) ==
  LET newest[n \in 0 .. Len(images)] ==
        IF n = 0 THEN <<>>
        ELSE IF images[n] \in Provides THEN <<images[n]>> \o newest[n - 1]
        ELSE newest[n - 1]
  IN newest[Len(images)]

(* Mutant of Lower: the imported directory is below the extensions. *)
LowerImportLast(mode, images) ==
  <<"meta">> \o UsedLayers(images)
    \o (IF ImportedMutableDir(mode) = None THEN <<>> ELSE <<ImportedMutableDir(mode)>>)
    \o (IF HostAsLowerDir(mode) THEN <<"self">> ELSE <<>>)

(* The lower layers, from the top: metadata, import, extensions, host.       *)
Lower(mode, images) ==
  <<"meta">>
    \o (IF ImportedMutableDir(mode) = None THEN <<>> ELSE <<ImportedMutableDir(mode)>>)
    \o UsedLayers(images)
    \o (IF HostAsLowerDir(mode) THEN <<"self">> ELSE <<>>)

----------------------------------------------------------------------------
Users == <<route, edits>>

End(result) ==
  /\ pc' = "idle" /\ op' = NoOp
  /\ last' = IF op.alone
             THEN [result |-> result, mode |-> op.mode, again |-> op.again,
                   found |-> op.found]
             ELSE None

(* run finds out first whether the host hierarchy is there.                  *)
Starts(mode, images, always) ==
  /\ pc = "idle"
  /\ op' = [mode |-> mode, images |-> images, always |-> always,
            found |-> Exists("self"), origin |-> None, drop |-> None,
            staged |-> Bare, alone |-> TRUE,
            again |-> /\ overlay.merged /\ calm
                      /\ overlay.origin.mode = mode
                      /\ overlay.origin.images = images]
  /\ last' = None
  /\ pc' = IF images = <<>> /\ mode = "no" THEN "down" ELSE "plan"
  /\ UNCHANGED <<Users, faults, place, work, overlay, calm>>

Merge(mode, images) ==
  /\ ~overlay.merged /\ (images # <<>> \/ mode # "no")
  /\ Starts(mode, images, FALSE)

Refresh(mode, images, always) == overlay.merged /\ Starts(mode, images, always)

(* Without images and in no mutable mode a refresh does what Unmerge does.   *)
Unmerge == overlay.merged /\ Starts("no", <<>>, FALSE)

(* Mutant of Origin: the mutable directory is left out. *)
OriginWithoutDir(mode, images) == [mode |-> mode, images |-> images, dir |-> None]

Origin(mode, images) ==
  [mode |-> mode, images |-> images, dir |-> ResolveMutableDir(mode)]

(* plan refuses a mutable directory with another mode than the hierarchy, or *)
(* one that cannot be made, with the old merge still in place.               *)
PlanFails ==
  /\ pc = "plan" /\ ~Resolves(op.mode)
  /\ End("refused")
  /\ UNCHANGED <<Users, faults, place, work, overlay, calm>>

Unchanged ==
  /\ overlay.merged /\ overlay.origin = Origin(op.mode, op.images)
  /\ ~op.always

PlanUnchanged ==
  /\ pc = "plan" /\ Resolves(op.mode) /\ Unchanged
  /\ place' = Created(op.mode)
  /\ End("unchanged")
  /\ UNCHANGED <<Users, faults, work, overlay, calm>>

Plan ==
  /\ pc = "plan" /\ Resolves(op.mode) /\ ~Unchanged
  /\ place' = Created(op.mode)
  /\ op' = [op EXCEPT !.origin = Origin(op.mode, op.images)]
  /\ pc' = IF ~overlay.merged THEN "assemble" ELSE "down"
  /\ UNCHANGED <<Users, faults, work, overlay, last, calm>>

(* unmergeHierarchy: the overlay goes, then the recorded work directory.     *)
Unmount ==
  /\ pc = "down" /\ overlay.merged
  /\ overlay' = Bare /\ op' = [op EXCEPT !.drop = overlay.worked] /\ pc' = "work"
  /\ UNCHANGED <<Users, faults, place, work, last, calm>>

Unmerged ==
  \/ /\ op.origin = None /\ End("unmerged")
  \/ /\ op.origin # None /\ pc' = "assemble" /\ UNCHANGED <<op, last>>

RemoveWorkDir ==
  /\ pc = "work"
  /\ work' = work \ {op.drop}
  /\ Unmerged
  /\ UNCHANGED <<Users, faults, place, overlay, calm>>

(* A hierarchy without layers stays as it is, unless the mode is mutable.    *)
HasOverlay == UsedLayers(op.images) # <<>> \/ op.mode # "no"

KeepHost ==
  /\ pc = "assemble" /\ ~HasOverlay
  /\ End("bare")
  /\ UNCHANGED <<Users, faults, place, work, overlay, calm>>

(* mergeHierarchy refuses what cannot be an overlay, after the old one was   *)
(* taken down; "yes" may have created the mutable directory before.          *)
Refusal ==
  \/ ~Resolves(op.mode)
  \/ ImportsItself(op.mode)
  \/ ~UpperIsUsable(op.mode)

Refuse ==
  /\ pc = "assemble" /\ HasOverlay /\ Refusal
  /\ place' = IF Resolves(op.mode) THEN Created(op.mode) ELSE place
  /\ End("refused")
  /\ UNCHANGED <<Users, faults, work, overlay, calm>>

(* work_dir is recorded unless it is in the workspace.                       *)
Recorded(upper) == IF upper \in Places THEN upper ELSE None

(* Otherwise the top layer gets the mode of the hierarchy and loses metadata *)
(* of an earlier merge; an overlay needs two layers.                         *)
Assemble ==
  /\ pc = "assemble" /\ HasOverlay /\ ~Refusal
  /\ LET upper == UpperDir(op.mode)
         made == Created(op.mode)
         lower == Lower(op.mode, op.images)
     IN /\ place' = IF upper \in Places
                    THEN [made EXCEPT ![upper].mode = HierarchyMode,
                                      ![upper].stale = FALSE]
                    ELSE made
        /\ work' = IF upper \in Places THEN work \cup {upper} ELSE work
        /\ IF upper = None /\ Len(lower) = 1
           THEN End("refused")
           ELSE /\ op' = [op EXCEPT !.staged =
                      [merged |-> TRUE, origin |-> op.origin, lower |-> lower,
                       upper |-> upper, meta |-> HierarchyMode,
                       scratch |-> Fresh(HierarchyMode), worked |-> Recorded(upper),
                       routed |-> IF made[route].exists THEN route ELSE None,
                       alone |-> TRUE]]
                /\ pc' = "staged" /\ UNCHANGED last
  /\ UNCHANGED <<Users, faults, overlay, calm>>

(* The overlay is moved onto the hierarchy, which is created if missing.     *)
Commit ==
  /\ pc = "staged"
  /\ overlay' = [op.staged EXCEPT !.alone = op.alone]
  /\ calm' = (op.alone /\ op.found)
  /\ place' = IF Exists("self") THEN place
              ELSE [place EXCEPT !["self"] = Fresh(Default)]
  /\ End("merged")
  /\ UNCHANGED <<Users, faults, work>>

(* A system call fails and abort takes the new overlay down, or the process  *)
(* is killed and the next one does.                                          *)
Fails ==
  /\ pc # "idle" /\ faults < Faults /\ faults' = faults + 1
  /\ End("failed")
  /\ UNCHANGED <<Users, place, work, overlay, calm>>

----------------------------------------------------------------------------
(* Users write to the file of the merged hierarchy and change its mode,      *)
(* which overlayfs does in the upper directory.                              *)
Meant == IF ModeIsEphemeral(overlay.origin.mode) THEN "workspace" ELSE overlay.routed

Written(x) ==
  CASE x = "own" -> "to own" [] x = "self" -> "to self" [] OTHER -> "to workspace"

Upper ==
  IF overlay.upper = "workspace" THEN overlay.scratch ELSE place[overlay.upper]

UpperBecomes(d) ==
  /\ overlay.merged /\ overlay.upper # None
  /\ IF overlay.upper = "workspace"
     THEN overlay' = [overlay EXCEPT !.scratch = d] /\ UNCHANGED place
     ELSE place' = [place EXCEPT ![overlay.upper] = d] /\ UNCHANGED overlay

Edit ==
  /\ edits < Edits /\ edits' = edits + 1
  /\ calm' = FALSE /\ last' = None
  /\ op' = IF pc = "idle" THEN NoOp ELSE [op EXCEPT !.alone = FALSE]
  /\ UNCHANGED <<faults, work, pc>>

WriteThrough ==
  /\ UpperBecomes([Upper EXCEPT !.file = Written(Meant)])
  /\ Edit /\ UNCHANGED route

ChmodThrough(m) ==
  /\ UpperBecomes([Upper EXCEPT !.mode = m])
  /\ Edit /\ UNCHANGED route

(* They point the mutable directory elsewhere, make it, remove it or change  *)
(* it, and do so with the host hierarchy while it is not covered; but never  *)
(* with a directory that is a layer.                                         *)
Layer(x) ==
  \E o \in {overlay, op.staged} :
    o.merged /\ (o.upper = x \/ \E i \in DOMAIN o.lower : o.lower[i] = x)

EditRoute ==
  /\ \E x \in Places \ {route} : route' = x
  /\ Edit /\ UNCHANGED <<place, overlay>>

EditPlace(x) ==
  /\ IF x = "self" THEN pc = "idle" /\ ~overlay.merged ELSE ~Layer(x)
  /\ \E d \in Found(x) \ {place[x]} : place' = [place EXCEPT ![x] = d]
  /\ Edit /\ UNCHANGED <<route, overlay>>

Next ==
  \/ \E mode \in MutableModes, images \in Images :
       Merge(mode, images) \/ \E always \in BOOLEAN : Refresh(mode, images, always)
  \/ Unmerge
  \/ PlanFails \/ PlanUnchanged \/ Plan
  \/ Unmount \/ RemoveWorkDir
  \/ KeepHost \/ Refuse \/ Assemble \/ Commit
  \/ Fails
  \/ WriteThrough \/ EditRoute
  \/ \E m \in Modes : ChmodThrough(m)
  \/ \E x \in Places : EditPlace(x)

Spec == Init /\ [][Next]_vars
----------------------------------------------------------------------------
(* The file of the first layer that has one.                                 *)
FileIn(x) ==
  IF x = None THEN None
  ELSE IF x \in Places THEN (IF Exists(x) THEN place[x].file ELSE None)
  ELSE IF x = "workspace" THEN overlay.scratch.file
  ELSE IF x \in Provides THEN x ELSE None

First(layers) ==
  LET having == {i \in DOMAIN layers : FileIn(layers[i]) # None}
  IN IF having = {} THEN None ELSE FileIn(layers[Min(having)])

Shown == First(<<overlay.upper>> \o overlay.lower)

(* The merged hierarchy shows what the table of the modes says               *)
(* (docs/MUTABLE.md:35-42, 85-86): over everything what was written to it,   *)
(* then the mutable directory unless the mode ignores it, the newest         *)
(* extension and the host, which no mode hides; and no metadata of an        *)
(* earlier merge hides that of this one (engine.go:401-406).                 *)
ShowsAllLayers ==
  overlay.merged =>
    LET mode == overlay.origin.mode
        written == IF ModeIsEphemeral(mode) THEN <<"workspace">> ELSE <<>>
        mutable == IF mode \in {"no", "ephemeral"} THEN <<>>
                   ELSE <<overlay.routed>>
        images == Reverse(overlay.origin.images)
    IN /\ Shown = First(written \o mutable \o images \o <<"self">>)
       /\ overlay.upper \in Places => ~place[overlay.upper].stale

(* What is written under an ephemeral mode is in no directory that stays,    *)
(* and what is written under another one only in the mutable directory of    *)
(* that merge (docs/MUTABLE.md:35-42), whatever the mutable directory was    *)
(* before and will be.                                                       *)
WritesStayPut ==
  \A x \in Places : Exists(x) => place[x].file \in {None, x, Written(x)}

(* Unmerge leaves no work directory of the merge it took down                *)
(* (docs/MUTABLE.md:66-77, 87-88): there is only that of the overlay that    *)
(* is merged, unless an operation failed.                                    *)
WorkDirsGo ==
  pc = "idle" /\ faults = 0 =>
    work \subseteq (IF overlay.merged THEN {overlay.upper} ELSE {})

(* Together, what a merge leaves behind (mutable.go:48-100,                  *)
(* overlay.go:395-415).                                                      *)
LeavesNothingElse == WritesStayPut /\ WorkDirsGo

(* After a refresh that merged or found nothing to do, the hierarchy is      *)
(* writable, and in the directory, as was asked for, although the mode or    *)
(* the mutable directory were changed before ("so refresh remerges when they *)
(* change", docs/MUTABLE.md:82-84).  The directory that ephemeral-import     *)
(* imports is not recorded.                                                  *)
RefreshNotices ==
  pc = "idle" /\ last # None /\ last.result \in {"merged", "unchanged"}
    /\ last.found /\ overlay.merged /\ overlay.alone =>
    LET there == IF Exists(route) THEN route ELSE None
    IN /\ overlay.upper = CASE last.mode \in {"auto", "yes"} -> there
                           [] ModeIsEphemeral(last.mode) -> "workspace"
                           [] OTHER -> None
       /\ last.mode = "import" /\ there # None =>
            \E i \in DOMAIN overlay.lower : overlay.lower[i] = there

(* A merge can be repeated: nothing that it did to the mutable directory or  *)
(* to the hierarchy makes the next one with the same arguments fail          *)
(* (mutable.go:106-125, engine.go:250-292, 354-408).                         *)
MergeRepeats == last # None /\ last.again => last.result # "refused"

=============================================================================
