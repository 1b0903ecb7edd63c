---------------------------- MODULE LayersProofs ----------------------------
(***************************************************************************)
(* Proofs of the invariants of Layers, for any images, modes of            *)
(* directories, numbers of edits and of faults.                            *)
(*                                                                         *)
(* LeavesNothingElse: a write goes to the upper directory of the overlay,  *)
(* and it is where it was meant to go only because the mode that was asked *)
(* for is the one that is recorded, and because the upper directory is     *)
(* what the mutable directory was when the overlay was assembled: OpInv    *)
(* and OverlayInv.  WorkInv says at each label what work directory there   *)
(* may be.                                                                 *)
(*                                                                         *)
(* ShowsAllLayers, RefreshNotices, MergeRepeats: JInv says what the layers *)
(* of an overlay are (LayersInv), when nothing but merges touched the      *)
(* directories and what they are then (AloneInv, CalmInv), and what the    *)
(* last operation ended with (LastInv).  That the first layer with a file  *)
(* is the one that the table of the modes asks for is a fact about         *)
(* sequences, proved by induction on the least number (Least).             *)
(***************************************************************************)
EXTENDS Layers, SequenceTheorems, WellFoundedInduction, TLAPS

IsDirectory(d) ==
  /\ d.exists = TRUE
  /\ d = [exists |-> d.exists, mode |-> d.mode, file |-> d.file,
          stale |-> d.stale, on |-> d.on]

PlaceInv ==
  /\ place = [x \in Places |-> place[x]]
  /\ \A x \in Places : place[x] = Missing \/ IsDirectory(place[x])
  /\ WritesStayPut

Existing == {x \in Places : Exists(x)}

(* What holds of an overlay, staged or merged, while the directories in      *)
(* there exist.                                                              *)
OverlayInv(o, there) ==
  \/ o = Bare
  \/ /\ o.merged = TRUE
     /\ o = [merged |-> o.merged, origin |-> o.origin, lower |-> o.lower,
             upper |-> o.upper, meta |-> o.meta, scratch |-> o.scratch,
             worked |-> o.worked, routed |-> o.routed, alone |-> o.alone]
     /\ o.upper \in Places \cup {"workspace", None}
     /\ o.worked = Recorded(o.upper)
     /\ o.upper \in Places =>
          /\ o.upper \in there
          /\ o.routed = o.upper /\ ~ModeIsEphemeral(o.origin.mode)

OpInv ==
  /\ pc \in {"idle", "plan", "down", "work", "assemble", "staged"}
  /\ pc = "idle" => op = NoOp
  /\ pc # "idle" =>
       /\ op = [mode |-> op.mode, images |-> op.images, always |-> op.always,
                found |-> op.found, origin |-> op.origin, drop |-> op.drop,
                staged |-> op.staged, alone |-> op.alone, again |-> op.again]
       /\ op.mode \in MutableModes
       /\ pc \in {"down", "work"} => op.origin = None \/ op.origin.mode = op.mode
       /\ pc \in {"assemble", "staged"} => op.origin.mode = op.mode
       /\ pc # "staged" => op.staged = Bare
       /\ pc = "staged" => op.staged.merged

WorkInv ==
  /\ work \subseteq Places
  /\ pc = "down" => overlay.merged
  /\ pc \in {"work", "assemble", "staged"} => overlay = Bare
  /\ faults = 0 =>
       /\ pc = "work" => work \subseteq {op.drop}
       /\ pc = "assemble" => work = {}
       /\ pc = "staged" => work \subseteq {op.staged.upper}
       /\ pc \in {"idle", "plan", "down"} =>
            work \subseteq (IF overlay.merged THEN {overlay.upper} ELSE {})

IInv ==
  /\ route \in Places /\ faults \in Nat
  /\ PlaceInv
  /\ OverlayInv(overlay, Existing) /\ OverlayInv(op.staged, Existing)
  /\ OpInv /\ WorkInv

----------------------------------------------------------------------------
(* More directories do no harm to an overlay.                                *)
LEMMA OverlayGrows ==
  ASSUME NEW o, NEW S, NEW T, S \subseteq T, OverlayInv(o, S)
  PROVE  OverlayInv(o, T)
BY DEF OverlayInv

(* Bare is an overlay that has nothing to be wrong about.                    *)
LEMMA BareFits ==
  ASSUME NEW S
  PROVE  OverlayInv(Bare, S) /\ OverlayInv(NoOp.staged, S)
BY DEF OverlayInv, NoOp

(* An overlay is merged unless it is Bare, and its work directory is that of *)
(* its upper directory if it is in a place.                                  *)
LEMMA OverlayCases ==
  ASSUME NEW o, NEW S, OverlayInv(o, S)
  PROVE  /\ o.merged \in BOOLEAN
         /\ ~o.merged => o = Bare
         /\ o.merged => o # Bare
         /\ o.merged => o.worked = Recorded(o.upper)
<1>1. Bare.merged = FALSE
  BY DEF Bare
<1>2. CASE o = Bare
  BY <1>1, <1>2, Zenon
<1>3. CASE o # Bare
  <2>1. o.merged = TRUE /\ o.worked = Recorded(o.upper)
    BY <1>3 DEF OverlayInv
  <2> QED BY <1>3, <2>1, Zenon
<1> QED BY <1>2, <1>3

(* A new directory is one, and nobody wrote to it.                           *)
LEMMA FreshFits ==
  ASSUME NEW m
  PROVE  /\ IsDirectory(Fresh(m)) /\ Fresh(m).exists /\ Fresh(m).file = None
BY DEF Fresh, Directory, IsDirectory

(* What is done to a directory leaves the rest of it alone.                  *)
LEMMA DirectoryChanges ==
  ASSUME NEW d, IsDirectory(d), NEW m, NEW f
  PROVE  LET moved == [d EXCEPT !.mode = m, !.stale = FALSE]
             chmod == [d EXCEPT !.mode = m]
             written == [d EXCEPT !.file = f]
         IN /\ IsDirectory(moved) /\ moved.file = d.file
            /\ IsDirectory(chmod) /\ chmod.file = d.file
            /\ IsDirectory(written) /\ written.file = f
<1> DEFINE moved == [d EXCEPT !.mode = m, !.stale = FALSE]
           chmod == [d EXCEPT !.mode = m]
           written == [d EXCEPT !.file = f]
<1>1. IsDirectory(chmod) /\ chmod.file = d.file
  BY DEF IsDirectory
<1>2. IsDirectory(moved) /\ moved.file = d.file
  <2>1. moved = [chmod EXCEPT !.stale = FALSE]
    OBVIOUS
  <2> HIDE DEF moved, chmod
  <2> QED BY <1>1, <2>1 DEF IsDirectory
<1>3. IsDirectory(written) /\ written.file = f
  BY DEF IsDirectory
<1> QED BY <1>1, <1>2, <1>3

(* Creating the mutable directory, if the mode says so.                      *)
LEMMA CreatedFits ==
  ASSUME PlaceInv, route \in Places, NEW mode
  PROVE  LET made == Created(mode)
         IN /\ made = [x \in Places |-> made[x]]
            /\ \A x \in Places :
                 /\ made[x] = Missing \/ IsDirectory(made[x])
                 /\ made[x].exists => made[x].file \in {None, x, Written(x)}
                 /\ place[x].exists => made[x].exists
                 /\ mode = "yes" => made[route].exists
<1> DEFINE made == Created(mode)
<1>1. CASE mode = "yes" /\ ~Exists(route)
  <2>1. made = [place EXCEPT ![route] = Fresh(HierarchyMode)]
    BY <1>1 DEF Created
  <2>2. IsDirectory(Fresh(HierarchyMode)) /\ Fresh(HierarchyMode).exists
          /\ Fresh(HierarchyMode).file = None
    BY FreshFits
  <2>3. /\ made = [x \in Places |-> made[x]]
        /\ made[route] = Fresh(HierarchyMode)
        /\ \A x \in Places \ {route} : made[x] = place[x]
    BY <2>1 DEF PlaceInv
  <2> HIDE DEF made
  <2>4. ASSUME NEW x \in Places
        PROVE  /\ made[x] = Missing \/ IsDirectory(made[x])
               /\ made[x].exists => made[x].file \in {None, x, Written(x)}
               /\ place[x].exists => made[x].exists
    <3>1. CASE x = route
      BY <3>1, <2>2, <2>3, Zenon
    <3>2. CASE x # route
      BY <3>2, <2>3, <2>4, Zenon DEF PlaceInv, WritesStayPut, Exists
    <3> QED BY <3>1, <3>2
  <2>5. made[route].exists
    BY <2>2, <2>3, Zenon
  <2> QED BY <2>3, <2>4, <2>5, Zenon DEF made
<1>2. CASE ~(mode = "yes" /\ ~Exists(route))
  <2>1. made = place
    BY <1>2 DEF Created
  <2> HIDE DEF made
  <2>2. ASSUME NEW x \in Places
        PROVE  /\ made[x] = Missing \/ IsDirectory(made[x])
               /\ made[x].exists => made[x].file \in {None, x, Written(x)}
    BY <2>1, Zenon DEF PlaceInv, WritesStayPut, Exists
  <2>3. made = [x \in Places |-> made[x]]
    BY <2>1 DEF PlaceInv
  <2> QED BY <2>1, <2>2, <2>3, <1>2, Zenon DEF Exists, made
<1> QED BY <1>1, <1>2

(* Creating the mutable directory keeps every directory in its shape.       *)
LEMMA CreatedKeeps ==
  ASSUME IInv, place' = Created(op.mode)
  PROVE  PlaceInv' /\ Existing \subseteq Existing'
<1>1. /\ place' = [x \in Places |-> place'[x]]
      /\ \A x \in Places :
           /\ place'[x] = Missing \/ IsDirectory(place'[x])
           /\ place'[x].exists => place'[x].file \in {None, x, Written(x)}
           /\ place[x].exists => place'[x].exists
  BY CreatedFits, Zenon DEF IInv
<1> QED BY <1>1, Zenon DEF PlaceInv, WritesStayPut, Exists, Existing

(* Leaving the places alone. *)
LEMMA SamePlaces ==
  ASSUME IInv, UNCHANGED place
  PROVE  PlaceInv' /\ Existing' = Existing
BY Zenon DEF IInv, PlaceInv, WritesStayPut, Exists, Existing

(* An operation that ends with the overlay as it was leaves no label behind. *)
LEMMA Ends ==
  ASSUME IInv, NEW result, End(result), UNCHANGED <<overlay, route>>,
         PlaceInv', Existing \subseteq Existing', faults' \in Nat,
         work' \subseteq Places,
         faults' = 0 =>
           work' \subseteq (IF overlay.merged THEN {overlay.upper} ELSE {})
  PROVE  IInv'
<1>1. op' = NoOp /\ pc' = "idle"
  BY DEF End
<1>2. OverlayInv(overlay', Existing') /\ OverlayInv(op'.staged, Existing')
  BY <1>1, OverlayGrows, BareFits DEF IInv
<1>3. OpInv'
  BY <1>1 DEF OpInv
<1>4. WorkInv'
  BY <1>1 DEF WorkInv
<1> QED BY <1>2, <1>3, <1>4 DEF IInv

(* The invariant, action by action: the start of an operation,              *)
LEMMA StartsKeeps ==
  ASSUME IInv, NEW mode \in MutableModes, NEW images, NEW always,
         Starts(mode, images, always),
         (images = <<>> /\ mode = "no") => overlay.merged
  PROVE  IInv'
<1>1. PlaceInv' /\ Existing' = Existing
  BY SamePlaces DEF Starts
<1>2. /\ op'.staged = Bare /\ op'.origin = None /\ op'.mode = mode
      /\ pc' \in {"down", "plan"} /\ pc = "idle"
      /\ pc' = "down" => overlay.merged
  BY DEF Starts
<1>3. OverlayInv(overlay', Existing') /\ OverlayInv(op'.staged, Existing')
  BY <1>1, <1>2, BareFits DEF IInv, Starts
<1>4. OpInv'
  <2>1. op' = [mode |-> op'.mode, images |-> op'.images, always |-> op'.always,
               found |-> op'.found, origin |-> op'.origin, drop |-> op'.drop,
               staged |-> op'.staged, alone |-> op'.alone, again |-> op'.again]
    BY DEF Starts
  <2> QED BY <1>2, <2>1 DEF OpInv
<1>5. WorkInv'
  BY <1>2 DEF WorkInv, IInv, Starts
<1> QED BY <1>1, <1>3, <1>4, <1>5 DEF IInv, Starts, Users

(* ... the ends of its plan,                                                *)
LEMMA PlanFailsKeeps ==
  ASSUME IInv, PlanFails
  PROVE  IInv'
<1>1. PlaceInv' /\ Existing \subseteq Existing'
  BY SamePlaces DEF PlanFails
<1> QED BY <1>1, Ends DEF PlanFails, Users, IInv, WorkInv

(* ... when nothing changed,                                                *)
LEMMA PlanUnchangedKeeps ==
  ASSUME IInv, PlanUnchanged
  PROVE  IInv'
<1>1. PlaceInv' /\ Existing \subseteq Existing'
  BY CreatedKeeps DEF PlanUnchanged
<1> QED BY <1>1, Ends DEF PlanUnchanged, Users, IInv, WorkInv

(* ... when no image has the hierarchy,                                     *)
LEMMA KeepHostKeeps ==
  ASSUME IInv, KeepHost
  PROVE  IInv'
<1>1. PlaceInv' /\ Existing \subseteq Existing'
  BY SamePlaces DEF KeepHost
<1> QED BY <1>1, Ends DEF KeepHost, Users, IInv, WorkInv, Bare

(* ... a refusal,                                                           *)
LEMMA RefuseKeeps ==
  ASSUME IInv, Refuse
  PROVE  IInv'
<1>1. PlaceInv' /\ Existing \subseteq Existing'
  BY SamePlaces, CreatedKeeps DEF Refuse
<1> QED BY <1>1, Ends DEF Refuse, Users, IInv, WorkInv, Bare

(* ... and a fault of the system at any step,                               *)
LEMMA FailsKeeps ==
  ASSUME IInv, Fails
  PROVE  IInv'
<1>1. PlaceInv' /\ Existing \subseteq Existing'
  BY SamePlaces DEF Fails
<1>2. faults' \in Nat /\ faults' # 0
  BY DEF Fails, IInv
<1> QED BY <1>1, <1>2, Ends DEF Fails, Users, IInv, WorkInv

(* ... the plan, which creates the mutable directory,                       *)
LEMMA PlanKeeps ==
  ASSUME IInv, Plan
  PROVE  IInv'
<1>1. PlaceInv' /\ Existing \subseteq Existing'
  BY CreatedKeeps DEF Plan
<1>2. op = [mode |-> op.mode, images |-> op.images, always |-> op.always,
            found |-> op.found, origin |-> op.origin, drop |-> op.drop,
            staged |-> op.staged, alone |-> op.alone, again |-> op.again]
  BY DEF IInv, OpInv, Plan
<1>3. /\ op' = [mode |-> op'.mode, images |-> op'.images, always |-> op'.always,
                found |-> op'.found, origin |-> op'.origin, drop |-> op'.drop,
                staged |-> op'.staged, alone |-> op'.alone, again |-> op'.again]
      /\ op'.origin.mode = op.mode /\ op'.mode = op.mode
      /\ op'.staged = op.staged
  BY <1>2 DEF Plan, Origin
<1>4. OverlayInv(overlay', Existing') /\ OverlayInv(op'.staged, Existing')
  BY <1>1, <1>3, OverlayGrows DEF IInv, Plan
<1>5. pc' = (IF ~overlay.merged THEN "assemble" ELSE "down") /\ pc = "plan"
  BY DEF Plan
<1>6. OpInv'
  BY <1>3, <1>5 DEF IInv, OpInv
<1>7. overlay.merged \in BOOLEAN /\ (~overlay.merged => overlay = Bare)
  BY OverlayCases DEF IInv
<1>8. WorkInv'
  BY <1>5, <1>7 DEF WorkInv, IInv, Plan
<1> QED BY <1>1, <1>4, <1>6, <1>8 DEF IInv, Plan, Users

(* ... the unmount, which leaves its work directory to be removed,          *)
LEMMA UnmountKeeps ==
  ASSUME IInv, Unmount
  PROVE  IInv'
<1>1. PlaceInv' /\ Existing' = Existing
  BY SamePlaces DEF Unmount
<1>2. op = [mode |-> op.mode, images |-> op.images, always |-> op.always,
            found |-> op.found, origin |-> op.origin, drop |-> op.drop,
            staged |-> op.staged, alone |-> op.alone, again |-> op.again]
  BY DEF IInv, OpInv, Unmount
<1>3. /\ op' = [mode |-> op'.mode, images |-> op'.images, always |-> op'.always,
                found |-> op'.found, origin |-> op'.origin, drop |-> op'.drop,
                staged |-> op'.staged, alone |-> op'.alone, again |-> op'.again]
      /\ op'.origin = op.origin /\ op'.mode = op.mode
      /\ op'.staged = op.staged /\ op'.drop = overlay.worked
  BY <1>2 DEF Unmount
<1>4. OverlayInv(overlay', Existing') /\ OverlayInv(op'.staged, Existing')
  BY <1>1, <1>3, BareFits DEF IInv, Unmount
<1>5. OpInv'
  BY <1>3 DEF IInv, OpInv, Unmount
<1>6. overlay.worked = IF overlay.upper \in Places THEN overlay.upper ELSE None
  BY OverlayCases DEF IInv, Unmount, Recorded
<1>7. WorkInv'
  BY <1>3, <1>6 DEF WorkInv, IInv, Unmount
<1> QED BY <1>1, <1>4, <1>5, <1>7 DEF IInv, Unmount, Users

(* ... its removal,                                                         *)
LEMMA RemoveWorkDirKeeps ==
  ASSUME IInv, RemoveWorkDir
  PROVE  IInv'
<1>1. PlaceInv' /\ Existing' = Existing
  BY SamePlaces DEF RemoveWorkDir
<1>2. overlay = Bare /\ overlay' = overlay /\ faults' = faults
        /\ work' \subseteq Places /\ (faults = 0 => work' = {})
  BY DEF RemoveWorkDir, IInv, WorkInv
<1>3. CASE op.origin = None /\ End("unmerged")
  BY <1>1, <1>2, <1>3, Ends DEF IInv, RemoveWorkDir, Users
<1>4. CASE op.origin # None /\ pc' = "assemble" /\ UNCHANGED <<op, last>>
  <2>1. OpInv'
    BY <1>4 DEF IInv, OpInv, RemoveWorkDir
  <2>2. WorkInv'
    BY <1>2, <1>4 DEF WorkInv
  <2> QED BY <1>1, <1>2, <1>4, <2>1, <2>2 DEF IInv, RemoveWorkDir, Users
<1> QED BY <1>3, <1>4 DEF RemoveWorkDir, Unmerged

(* ... the overlay on the hierarchy,                                        *)
LEMMA CommitKeeps ==
  ASSUME IInv, Commit
  PROVE  IInv'
<1>1. PlaceInv' /\ Existing \subseteq Existing'
  <2>1. CASE Exists("self")
    BY <2>1, SamePlaces DEF Commit
  <2>2. CASE ~Exists("self")
    <3>1. /\ place' = [x \in Places |-> place'[x]]
          /\ place'["self"] = Fresh(Default)
          /\ \A x \in Places \ {"self"} : place'[x] = place[x]
      BY <2>2 DEF Commit, IInv, PlaceInv, Places
    <3>2. IsDirectory(Fresh(Default)) /\ Fresh(Default).exists
            /\ Fresh(Default).file = None
      BY FreshFits
    <3>3. ASSUME NEW x \in Places
          PROVE  /\ place'[x] = Missing \/ IsDirectory(place'[x])
                 /\ place'[x].exists => place'[x].file \in {None, x, Written(x)}
                 /\ place[x].exists => place'[x].exists
      <4>1. CASE x = "self"
        BY <4>1, <3>1, <3>2, Zenon
      <4>2. CASE x # "self"
        BY <4>2, <3>1, <3>3, Zenon DEF IInv, PlaceInv, WritesStayPut, Exists
      <4> QED BY <4>1, <4>2
    <3> QED BY <3>1, <3>3, Zenon DEF PlaceInv, WritesStayPut, Exists, Existing
  <2> QED BY <2>1, <2>2
<1>2. OverlayInv(op.staged, Existing') /\ op.staged.merged = TRUE
  BY <1>1, OverlayGrows, OverlayCases DEF IInv, OpInv, Commit
<1>3. OverlayInv(overlay', Existing') /\ overlay'.upper = op.staged.upper
        /\ overlay'.merged = TRUE
  BY <1>2, OverlayCases DEF OverlayInv, Commit, Bare
<1>4. op' = NoOp /\ pc' = "idle"
  BY DEF Commit, End
<1>5. OpInv'
  BY <1>4 DEF OpInv
<1>6. WorkInv'
  BY <1>3, <1>4 DEF IInv, WorkInv, Commit
<1> QED BY <1>1, <1>3, <1>4, <1>5, <1>6, BareFits DEF IInv, Commit, Users

(* The overlay that Assemble stages writes to a place only if that is what   *)
(* the mutable directory is now and the mode means it to.                    *)
LEMMA AssembleKeeps ==
  ASSUME IInv, Assemble
  PROVE  IInv'
<1> DEFINE upper == UpperDir(op.mode)
           made == Created(op.mode)
<1>1. /\ made = [x \in Places |-> made[x]]
      /\ \A x \in Places :
           /\ made[x] = Missing \/ IsDirectory(made[x])
           /\ made[x].exists => made[x].file \in {None, x, Written(x)}
           /\ place[x].exists => made[x].exists
      /\ op.mode = "yes" => made[route].exists
  BY CreatedFits, Zenon DEF IInv
<1>2. /\ upper \in Places \cup {"workspace", None}
      /\ upper \in Places => /\ upper = route /\ made[route].exists
                              /\ ~ModeIsEphemeral(op.mode)
  <2>1. op.mode = "import" \/ op.mode = "no" => upper = None
    BY DEF UpperDir, ResolveMutableDir
  <2>2. ModeIsEphemeral(op.mode) => upper = "workspace" \/ upper = None
    BY DEF UpperDir, ResolveMutableDir
  <2>3. None \notin Places /\ "workspace" \notin Places
    BY LayersAssumption DEF Places
  <2>4. CASE op.mode \in {"auto", "yes"}
    <3>1. upper = IF Exists(route) \/ op.mode = "yes" THEN route ELSE None
      BY <2>4 DEF UpperDir, ResolveMutableDir, ModeIsEphemeral
    <3>2. Exists(route) \/ op.mode = "yes" => made[route].exists
      BY <1>1, Zenon DEF IInv, Exists
    <3> QED BY <2>3, <2>4, <3>1, <3>2 DEF IInv, ModeIsEphemeral
  <2>5. op.mode \in MutableModes
    BY DEF IInv, OpInv, Assemble
  <2> HIDE DEF upper, made
  <2> QED BY <2>1, <2>2, <2>3, <2>4, <2>5 DEF MutableModes, ModeIsEphemeral
<1>3. place' = IF upper \in Places
               THEN [made EXCEPT ![upper].mode = HierarchyMode,
                                 ![upper].stale = FALSE]
               ELSE made
  BY DEF Assemble
<1>4. work' = IF upper \in Places THEN work \cup {upper} ELSE work
  BY DEF Assemble
<1>5. /\ overlay = Bare /\ UNCHANGED <<route, overlay, faults>>
      /\ faults = 0 => work = {}
      /\ pc = "assemble" /\ op.origin.mode = op.mode
  BY DEF Assemble, IInv, WorkInv, OpInv, Users
<1>6. /\ End("refused") /\ upper = None
      \/ /\ pc' = "staged"
         /\ op' = [op EXCEPT !.staged =
                     [merged |-> TRUE, origin |-> op.origin,
                      lower |-> Lower(op.mode, op.images),
                      upper |-> upper, meta |-> HierarchyMode,
                      scratch |-> Fresh(HierarchyMode), worked |-> Recorded(upper),
                      routed |-> IF made[route].exists THEN route ELSE None,
                      alone |-> TRUE]]
  BY DEF Assemble
<1> HIDE DEF upper, made
<1>7. PlaceInv' /\ Existing \subseteq Existing'
      /\ (upper \in Places => upper \in Existing')
  <2>1. CASE upper \in Places
    <3>1. made[upper] = Missing \/ IsDirectory(made[upper])
      BY <1>1, <2>1
    <3>2. made[upper].exists /\ Missing.exists = FALSE
      BY <1>2, <2>1 DEF Missing
    <3>3. IsDirectory(made[upper])
      BY <3>1, <3>2, Zenon
    <3>4. /\ place' = [x \in Places |-> place'[x]]
          /\ \A x \in Places \ {upper} : place'[x] = made[x]
          /\ place'[upper] = [made[upper] EXCEPT !.mode = HierarchyMode,
                                                 !.stale = FALSE]
      BY <1>1, <1>3, <2>1
    <3>5. IsDirectory(place'[upper]) /\ place'[upper].file = made[upper].file
            /\ place'[upper].exists = TRUE
      BY <3>3, <3>4, DirectoryChanges, Zenon DEF IsDirectory
    <3>6. made[upper].exists
      BY <1>2, <2>1
    <3>7. ASSUME NEW x \in Places
          PROVE  /\ place'[x] = Missing \/ IsDirectory(place'[x])
                 /\ place'[x].exists => place'[x].file \in {None, x, Written(x)}
                 /\ place[x].exists => place'[x].exists
      <4>1. CASE x = upper
        BY <4>1, <3>5, <3>6, <1>1, Zenon
      <4>2. CASE x # upper
        BY <4>2, <3>4, <3>7, <1>1, Zenon
      <4> QED BY <4>1, <4>2
    <3> QED BY <2>1, <3>4, <3>5, <3>7, Zenon
            DEF PlaceInv, WritesStayPut, Exists, Existing
  <2>2. CASE upper \notin Places
    <3>1. place' = made
      BY <1>3, <2>2
    <3> QED BY <1>1, <2>2, <3>1, Zenon
            DEF PlaceInv, WritesStayPut, Exists, Existing
  <2> QED BY <2>1, <2>2
<1>8. CASE End("refused") /\ upper = None
  <2>1. work' = work
    BY <1>4, <1>8, LayersAssumption DEF Places
  <2> QED BY <1>5, <1>7, <1>8, <2>1, Ends DEF IInv, WorkInv
<1>9. CASE pc' = "staged" /\ op' = [op EXCEPT !.staged =
                     [merged |-> TRUE, origin |-> op.origin,
                      lower |-> Lower(op.mode, op.images),
                      upper |-> upper, meta |-> HierarchyMode,
                      scratch |-> Fresh(HierarchyMode), worked |-> Recorded(upper),
                      routed |-> IF made[route].exists THEN route ELSE None,
                      alone |-> TRUE]]
  <2>1. op = [mode |-> op.mode, images |-> op.images, always |-> op.always,
              found |-> op.found, origin |-> op.origin, drop |-> op.drop,
              staged |-> op.staged, alone |-> op.alone, again |-> op.again]
    BY <1>5 DEF IInv, OpInv
  <2>2. op'.staged = [merged |-> TRUE, origin |-> op.origin,
                      lower |-> Lower(op.mode, op.images),
                      upper |-> upper, meta |-> HierarchyMode,
                      scratch |-> Fresh(HierarchyMode), worked |-> Recorded(upper),
                      routed |-> IF made[route].exists THEN route ELSE None,
                      alone |-> TRUE]
    BY <1>9, <2>1
  <2>3. /\ op' = [mode |-> op'.mode, images |-> op'.images, always |-> op'.always,
                  found |-> op'.found, origin |-> op'.origin, drop |-> op'.drop,
                  staged |-> op'.staged, alone |-> op'.alone, again |-> op'.again]
        /\ op'.origin = op.origin /\ op'.mode = op.mode
    BY <1>9, <2>1
  <2>4. /\ op'.staged.merged = TRUE /\ op'.staged.upper = upper
        /\ op'.staged.worked = Recorded(upper)
        /\ op'.staged.origin = op.origin
        /\ op'.staged.routed = IF made[route].exists THEN route ELSE None
        /\ op'.staged = [merged |-> op'.staged.merged, origin |-> op'.staged.origin,
             lower |-> op'.staged.lower, upper |-> op'.staged.upper,
             meta |-> op'.staged.meta, scratch |-> op'.staged.scratch,
             worked |-> op'.staged.worked, routed |-> op'.staged.routed,
             alone |-> op'.staged.alone]
    BY <2>2
  <2>5. OverlayInv(op'.staged, Existing')
    BY <1>2, <1>5, <1>7, <2>4 DEF OverlayInv
  <2>6. OpInv'
    BY <1>5, <1>9, <2>3, <2>4 DEF IInv, OpInv
  <2>7. work' \subseteq Places /\ (faults = 0 => work' \subseteq {upper})
    BY <1>4, <1>5 DEF IInv, WorkInv
  <2>8. WorkInv'
    BY <1>5, <1>9, <2>4, <2>7 DEF WorkInv
  <2> QED BY <1>5, <1>7, <2>5, <2>6, <2>8, BareFits DEF IInv
<1> QED BY <1>6, <1>8, <1>9

(* What users do changes neither an operation that runs, except that it is   *)
(* not alone any more, nor the work directories.                             *)
LEMMA EditKeeps ==
  ASSUME IInv, Edit, route' \in Places, PlaceInv',
         OverlayInv(overlay', Existing'), OverlayInv(op.staged, Existing'),
         overlay'.merged = overlay.merged, overlay'.upper = overlay.upper,
         overlay = Bare => overlay' = Bare
  PROVE  IInv'
<1>1. pc' = pc /\ work' = work /\ faults' = faults
  BY DEF Edit
<1>2. CASE pc = "idle"
  <2>1. op' = NoOp /\ op.staged = NoOp.staged
    BY <1>2 DEF Edit, IInv, OpInv
  <2>2. OpInv'
    BY <1>1, <1>2, <2>1 DEF OpInv
  <2>3. WorkInv'
    BY <1>1, <1>2, Zenon DEF IInv, WorkInv
  <2> QED BY <1>1, <2>1, <2>2, <2>3 DEF IInv
<1>3. CASE pc # "idle"
  <2>1. op = [mode |-> op.mode, images |-> op.images, always |-> op.always,
              found |-> op.found, origin |-> op.origin, drop |-> op.drop,
              staged |-> op.staged, alone |-> op.alone, again |-> op.again]
    BY <1>3 DEF IInv, OpInv
  <2>2. op' = [op EXCEPT !.alone = FALSE]
    BY <1>3 DEF Edit
  <2>3. /\ op' = [mode |-> op'.mode, images |-> op'.images, always |-> op'.always,
                  found |-> op'.found, origin |-> op'.origin, drop |-> op'.drop,
                  staged |-> op'.staged, alone |-> op'.alone, again |-> op'.again]
        /\ op'.origin = op.origin /\ op'.mode = op.mode
        /\ op'.staged = op.staged /\ op'.drop = op.drop
    BY <2>1, <2>2
  <2>4. OpInv'
    BY <1>1, <1>3, <2>3 DEF IInv, OpInv
  <2>5. WorkInv'
    BY <1>1, <2>3, Zenon DEF IInv, WorkInv
  <2> QED BY <1>1, <2>3, <2>4, <2>5 DEF IInv
<1> QED BY <1>2, <1>3

(* A directory in a place becomes another one, not written to where it was   *)
(* not meant to be.                                                          *)
LEMMA PlaceChanges ==
  ASSUME IInv, NEW x \in Places, NEW d, place' = [place EXCEPT ![x] = d],
         d = Missing \/ IsDirectory(d),
         d.exists => d.file \in {None, x, Written(x)}
  PROVE  /\ PlaceInv'
         /\ Existing \ {x} \subseteq Existing'
         /\ d.exists => x \in Existing'
<1>1. /\ place' = [y \in Places |-> place'[y]] /\ place'[x] = d
      /\ \A y \in Places \ {x} : place'[y] = place[y]
  BY DEF IInv, PlaceInv
<1>2. ASSUME NEW y \in Places
      PROVE  /\ place'[y] = Missing \/ IsDirectory(place'[y])
             /\ place'[y].exists => place'[y].file \in {None, y, Written(y)}
             /\ y # x /\ place[y].exists => place'[y].exists
  <2>1. CASE y = x
    BY <2>1, <1>1, Zenon
  <2>2. CASE y # x
    BY <2>2, <1>1, <1>2, Zenon DEF IInv, PlaceInv, WritesStayPut, Exists
  <2> QED BY <2>1, <2>2
<1>3. PlaceInv'
  BY <1>1, <1>2, Zenon DEF PlaceInv, WritesStayPut, Exists
<1>4. Existing \ {x} \subseteq Existing'
  BY <1>2, Zenon DEF Existing, Exists
<1>5. d.exists => x \in Existing'
  BY <1>1, Zenon DEF Existing, Exists
<1> QED BY <1>3, <1>4, <1>5

(* An overlay on which the scratch directory changes.                        *)
LEMMA ScratchChanges ==
  ASSUME NEW o, NEW S, OverlayInv(o, S), o.merged, NEW d
  PROVE  LET n == [o EXCEPT !.scratch = d]
         IN /\ OverlayInv(n, S) /\ n.merged = o.merged /\ n.upper = o.upper
            /\ o # Bare
<1> DEFINE n == [o EXCEPT !.scratch = d]
<1>1. o # Bare /\ o.merged = TRUE
  <2>1. o # Bare
    BY OverlayCases, Zenon
  <2> QED BY <2>1, Zenon DEF OverlayInv
<1>2. o = [merged |-> o.merged, origin |-> o.origin, lower |-> o.lower,
           upper |-> o.upper, meta |-> o.meta, scratch |-> o.scratch,
           worked |-> o.worked, routed |-> o.routed, alone |-> o.alone]
  BY <1>1, Zenon DEF OverlayInv
<1>3. /\ n = [merged |-> n.merged, origin |-> n.origin, lower |-> n.lower,
              upper |-> n.upper, meta |-> n.meta, scratch |-> n.scratch,
              worked |-> n.worked, routed |-> n.routed, alone |-> n.alone]
  BY <1>2
<1>4. /\ n.upper = o.upper /\ n.worked = o.worked /\ n.routed = o.routed
      /\ n.origin = o.origin
  BY <1>2
<1>5. n.merged = o.merged
  BY <1>2
<1> HIDE DEF n
<1>6. /\ o.upper \in Places \cup {"workspace", None}
      /\ o.worked = Recorded(o.upper)
      /\ o.upper \in Places =>
           /\ o.upper \in S
           /\ o.routed = o.upper /\ ~ModeIsEphemeral(o.origin.mode)
  BY <1>1, Zenon DEF OverlayInv
<1>7. n.merged = TRUE
  BY <1>1, <1>5, Zenon
<1>8. OverlayInv(n, S)
  BY <1>3, <1>4, <1>6, <1>7 DEF OverlayInv
<1> QED BY <1>1, <1>4, <1>5, <1>8, Zenon DEF n

(* Users write through the overlay or change the mode of what they see.      *)
LEMMA UpperBecomesKeeps ==
  ASSUME IInv, NEW d, UpperBecomes(d), Edit, UNCHANGED route,
         overlay.upper \in Places =>
           IsDirectory(d) /\ d.file \in {None, overlay.upper, Written(overlay.upper)}
  PROVE  IInv'
<1>1. overlay.merged /\ overlay.upper # None /\ overlay # Bare
  BY OverlayCases DEF UpperBecomes, IInv
<1>2. CASE overlay.upper = "workspace"
  <2>1. overlay' = [overlay EXCEPT !.scratch = d] /\ UNCHANGED place
    BY <1>2 DEF UpperBecomes
  <2>2. PlaceInv' /\ Existing' = Existing
    BY <2>1, SamePlaces
  <2>3. /\ OverlayInv(overlay', Existing') /\ overlay'.merged = overlay.merged
        /\ overlay'.upper = overlay.upper
    BY <1>1, <2>1, <2>2, ScratchChanges DEF IInv
  <2> QED BY <1>1, <2>2, <2>3, EditKeeps DEF IInv
<1>3. CASE overlay.upper # "workspace"
  <2>1. place' = [place EXCEPT ![overlay.upper] = d] /\ UNCHANGED overlay
    BY <1>3 DEF UpperBecomes
  <2>2. overlay.upper \in Places
    BY <1>1, <1>3 DEF IInv, OverlayInv
  <2>3. IsDirectory(d) /\ d.file \in {None, overlay.upper, Written(overlay.upper)}
    BY <2>2
  <2>4. d.exists = TRUE
    BY <2>3 DEF IsDirectory
  <2>5. PlaceInv' /\ Existing \subseteq Existing'
    BY <2>1, <2>2, <2>3, <2>4, PlaceChanges
  <2>6. OverlayInv(overlay', Existing') /\ OverlayInv(op.staged, Existing')
    BY <2>1, <2>5, OverlayGrows DEF IInv
  <2> QED BY <2>1, <2>5, <2>6, EditKeeps DEF IInv
<1> QED BY <1>2, <1>3

(* The upper directory of an overlay, where it is a place.                   *)
LEMMA UpperIsThere ==
  ASSUME IInv, overlay.merged, overlay.upper \in Places
  PROVE  /\ IsDirectory(place[overlay.upper]) /\ Upper = place[overlay.upper]
         /\ place[overlay.upper].file
              \in {None, overlay.upper, Written(overlay.upper)}
         /\ Meant = overlay.upper
<1>1. overlay # Bare
  BY OverlayCases DEF IInv
<1>2. /\ overlay.upper \in Existing /\ overlay.routed = overlay.upper
      /\ ~ModeIsEphemeral(overlay.origin.mode)
  BY <1>1 DEF IInv, OverlayInv
<1>3. place[overlay.upper].exists
  BY <1>2, Zenon DEF Existing, Exists
<1>4. Missing.exists = FALSE
  BY DEF Missing
<1>5. IsDirectory(place[overlay.upper])
  BY <1>3, <1>4, Zenon DEF IInv, PlaceInv
<1>6. place[overlay.upper].file \in {None, overlay.upper, Written(overlay.upper)}
  BY <1>3, Zenon DEF IInv, PlaceInv, WritesStayPut, Exists
<1> QED BY <1>2, <1>5, <1>6 DEF Upper, Meant, Places

(* ... a write through the merged hierarchy,                                *)
LEMMA WriteThroughKeeps ==
  ASSUME IInv, WriteThrough
  PROVE  IInv'
<1> DEFINE d == [Upper EXCEPT !.file = Written(Meant)]
<1>1. overlay.merged /\ UpperBecomes(d) /\ Edit /\ UNCHANGED route
  BY DEF WriteThrough, UpperBecomes
<1>2. ASSUME overlay.upper \in Places
      PROVE  IsDirectory(d) /\ d.file = Written(overlay.upper)
  <2>1. IsDirectory(Upper) /\ Meant = overlay.upper
    BY <1>1, <1>2, UpperIsThere, Zenon
  <2> QED BY <2>1, DirectoryChanges
<1> HIDE DEF d
<1> QED BY <1>1, <1>2, UpperBecomesKeeps

(* ... a change of its mode,                                                *)
LEMMA ChmodThroughKeeps ==
  ASSUME IInv, NEW m, ChmodThrough(m)
  PROVE  IInv'
<1> DEFINE d == [Upper EXCEPT !.mode = m]
<1>1. overlay.merged /\ UpperBecomes(d) /\ Edit /\ UNCHANGED route
  BY DEF ChmodThrough, UpperBecomes
<1>2. ASSUME overlay.upper \in Places
      PROVE  IsDirectory(d)
               /\ d.file \in {None, overlay.upper, Written(overlay.upper)}
  <2>1. /\ IsDirectory(Upper)
        /\ Upper.file \in {None, overlay.upper, Written(overlay.upper)}
    BY <1>1, <1>2, UpperIsThere, Zenon
  <2>2. IsDirectory(d) /\ d.file = Upper.file
    BY <2>1, DirectoryChanges
  <2> QED BY <2>1, <2>2, Zenon
<1> HIDE DEF d
<1> QED BY <1>1, <1>2, UpperBecomesKeeps

(* ... and the symlink to the hierarchy itself made or removed.             *)
LEMMA EditRouteKeeps ==
  ASSUME IInv, EditRoute
  PROVE  IInv'
<1>1. PlaceInv' /\ Existing' = Existing
  BY SamePlaces DEF EditRoute
<1> QED BY <1>1, EditKeeps DEF EditRoute, IInv

(* What users make of a place is a directory with what belongs there.        *)
LEMMA FoundFits ==
  ASSUME NEW x, NEW d \in Found(x)
  PROVE  /\ d = Missing \/ IsDirectory(d)
         /\ d.exists => d.file \in {None, x}
<1>1. \/ d = Missing
      \/ \E m \in Modes, f \in {None, x} : d = Directory(m, f, "same")
      \/ \E on \in {"other", "readonly"} : d = Directory(Default, x, on)
      \/ d = [Directory(Default, x, "same") EXCEPT !.stale = TRUE]
  BY DEF Found
<1>2. CASE d = Missing
  BY <1>2 DEF Missing
<1>3. ASSUME NEW m, NEW f, NEW on, d = Directory(m, f, on)
      PROVE  IsDirectory(d) /\ d.file = f
  BY <1>3 DEF Directory, IsDirectory
<1>4. CASE d = [Directory(Default, x, "same") EXCEPT !.stale = TRUE]
  BY <1>4 DEF Directory, IsDirectory
<1> QED BY <1>1, <1>2, <1>3, <1>4, Zenon

(* The directories users change are no layers.                               *)
LEMMA EditPlaceKeeps ==
  ASSUME IInv, NEW x \in Places, EditPlace(x)
  PROVE  IInv'
<1>1. PICK d \in Found(x) : place' = [place EXCEPT ![x] = d]
  BY DEF EditPlace
<1>2. /\ d = Missing \/ IsDirectory(d)
      /\ d.exists => d.file \in {None, x, Written(x)}
  BY FoundFits
<1>3. PlaceInv' /\ Existing \ {x} \subseteq Existing'
  BY <1>1, <1>2, PlaceChanges
<1>4. /\ overlay.merged => overlay.upper # x
      /\ op.staged.merged => op.staged.upper # x
  <2>1. pc = "idle" => ~op.staged.merged
    BY DEF IInv, OpInv, NoOp, Bare
  <2>2. CASE x = "self"
    BY <2>1, <2>2 DEF EditPlace
  <2>3. CASE x # "self"
    <3>1. ~Layer(x)
      BY <2>3 DEF EditPlace
    <3> QED BY <3>1, Zenon DEF Layer
  <2> QED BY <2>2, <2>3
<1>5. ASSUME NEW o, OverlayInv(o, Existing), o.merged => o.upper # x
      PROVE  OverlayInv(o, Existing')
  <2>1. CASE o = Bare
    BY <2>1 DEF OverlayInv
  <2>2. CASE o # Bare
    BY <1>3, <1>5, <2>2 DEF OverlayInv
  <2> QED BY <2>1, <2>2
<1>6. OverlayInv(overlay, Existing') /\ OverlayInv(op.staged, Existing')
  BY <1>4, <1>5 DEF IInv
<1> QED BY <1>3, <1>6, EditKeeps DEF EditPlace, IInv

----------------------------------------------------------------------------
(* The invariant holds at first and after every step.                       *)
LEMMA InitHolds == Init => IInv
<1> SUFFICES ASSUME Init PROVE IInv
  OBVIOUS
<1>1. PICK h \in Found("self") : place = [own |-> Missing, self |-> h]
  BY DEF Init
<1>2. /\ h = Missing \/ IsDirectory(h)
      /\ h.exists => h.file \in {None, "self"}
  BY <1>1, FoundFits, Zenon
<1>3. /\ place = [x \in Places |-> place[x]]
      /\ place["own"] = Missing /\ place["self"] = h
  BY <1>1 DEF Places
<1>4. PlaceInv
  BY <1>2, <1>3 DEF PlaceInv, WritesStayPut, Exists, Places, Missing
<1>5. OverlayInv(overlay, Existing) /\ OverlayInv(op.staged, Existing)
  BY BareFits DEF Init
<1>6. OpInv /\ WorkInv
  BY DEF Init, OpInv, WorkInv, Bare
<1> QED BY <1>4, <1>5, <1>6 DEF Init, IInv

(* Every step, the actions one by one.                                      *)
LEMMA NextKeeps == IInv /\ [Next]_vars => IInv'
<1> SUFFICES ASSUME IInv, [Next]_vars PROVE IInv'
  OBVIOUS
<1>1. ASSUME NEW mode \in MutableModes, NEW images \in Images, Merge(mode, images)
      PROVE  IInv'
  BY <1>1, StartsKeeps DEF Merge
<1>2. ASSUME NEW mode \in MutableModes, NEW images \in Images,
             NEW always \in BOOLEAN, Refresh(mode, images, always)
      PROVE  IInv'
  BY <1>2, StartsKeeps DEF Refresh
<1>3. CASE Unmerge
  BY <1>3, StartsKeeps DEF Unmerge, MutableModes
<1>4. ASSUME NEW m \in Modes, ChmodThrough(m)
      PROVE  IInv'
  BY <1>4, ChmodThroughKeeps
<1>5. ASSUME NEW x \in Places, EditPlace(x)
      PROVE  IInv'
  BY <1>5, EditPlaceKeeps
<1>6. CASE UNCHANGED vars
  <2>1. PlaceInv' /\ Existing' = Existing
    BY <1>6, SamePlaces DEF vars
  <2>2. OpInv' /\ WorkInv'
    BY <1>6 DEF vars, IInv, OpInv, WorkInv
  <2> QED BY <1>6, <2>1, <2>2 DEF vars, IInv
<1> QED
  BY <1>1, <1>2, <1>3, <1>4, <1>5, <1>6, PlanFailsKeeps, PlanUnchangedKeeps,
     PlanKeeps, UnmountKeeps, RemoveWorkDirKeeps, KeepHostKeeps, RefuseKeeps,
     AssembleKeeps, CommitKeeps, FailsKeeps, WriteThroughKeeps, EditRouteKeeps
  DEF Next

(* What is written through a merge ends up in the mutable directory of that  *)
(* merge or nowhere that lasts, and unmerging leaves no work directory       *)
(* (mutable.go:48-100, overlay.go:395-415).                                  *)
THEOREM NothingElseLeft == Spec => []LeavesNothingElse
<1>1. IInv => LeavesNothingElse
  <2> SUFFICES ASSUME IInv PROVE WritesStayPut /\ WorkDirsGo
    BY DEF LeavesNothingElse
  <2>1. WorkDirsGo
    BY DEF IInv, WorkInv, WorkDirsGo
  <2> QED BY <2>1 DEF IInv, PlaceInv
<1> QED BY <1>1, InitHolds, NextKeeps, PTL DEF Spec

----------------------------------------------------------------------------
(* The layers as sequences.  What is shown is the file of the first layer    *)
(* with one, and usedLayers drops the images without one.                    *)

(* Every set of numbers has a least one: the induction of this module.       *)
LEMMA Least ==
  ASSUME NEW T, T \subseteq Nat, T # {}
  PROVE  \E n \in T : \A m \in T : n <= m
<1> DEFINE R == {ss \in Nat \X Nat : ss[1] < ss[2]}
<1>1. IsWellFoundedOn(R, Nat)
  BY NatLessThanWellFounded DEF OpToRel
<1>2. PICK n \in T : \A m \in T : ~(<<m, n>> \in R)
  <2> HIDE DEF R
  <2> QED BY <1>1, WFMin
<1>3. ASSUME NEW m \in T
      PROVE  n <= m
  <2>1. m \in Nat /\ n \in Nat
    OBVIOUS
  <2>2. <<m, n>> \in R <=> m < n
    <3>1. <<m, n>> \in Nat \X Nat
      BY <2>1
    <3> QED BY <3>1
  <2> HIDE DEF R
  <2>3. ~(m < n)
    BY <1>2, <2>2
  <2> QED BY <2>1, <2>3
<1> QED BY <1>3

(* What First finds.                                                         *)
LEMMA FirstIs ==
  ASSUME NEW T, NEW s \in Seq(T)
  PROVE  /\ (\A i \in 1 .. Len(s) : FileIn(s[i]) = None) => First(s) = None
         /\ \A i \in 1 .. Len(s) :
              /\ FileIn(s[i]) # None
              /\ \A j \in 1 .. i - 1 : FileIn(s[j]) = None
              => First(s) = FileIn(s[i])
         /\ \/ \A i \in 1 .. Len(s) : FileIn(s[i]) = None
            \/ \E i \in 1 .. Len(s) :
                 /\ FileIn(s[i]) # None
                 /\ \A j \in 1 .. i - 1 : FileIn(s[j]) = None
<1> DEFINE having == {i \in 1 .. Len(s) : FileIn(s[i]) # None}
<1>1. DOMAIN s = 1 .. Len(s) /\ Len(s) \in Nat
  BY LenProperties
<1>2. First(s) = IF having = {} THEN None ELSE FileIn(s[Min(having)])
  BY <1>1 DEF First
<1>3. ASSUME NEW i \in 1 .. Len(s), FileIn(s[i]) # None,
             \A j \in 1 .. i - 1 : FileIn(s[j]) = None
      PROVE  First(s) = FileIn(s[i])
  <2>1. i \in having /\ having \subseteq 1 .. Len(s)
    BY <1>3
  <2>2. \A j \in having : i <= j
    BY <1>1, <1>3
  <2> HIDE DEF having
  <2>3. \A k \in having : (\A j \in having : k <= j) => k = i
    BY <1>1, <2>1, <2>2
  <2>4. Min(having) = i
    BY <2>1, <2>2, <2>3 DEF Min
  <2> QED BY <1>2, <2>1, <2>4
<1>4. ASSUME having # {}
      PROVE  \E i \in 1 .. Len(s) :
               /\ FileIn(s[i]) # None
               /\ \A j \in 1 .. i - 1 : FileIn(s[j]) = None
  <2>1. having \subseteq Nat
    BY <1>1
  <2>2. PICK i \in having : \A j \in having : i <= j
    <3> HIDE DEF having
    <3> QED BY <1>4, <2>1, Least
  <2>3. ASSUME NEW j \in 1 .. i - 1
        PROVE  FileIn(s[j]) = None
    <3>1. j \in 1 .. Len(s) /\ ~(i <= j)
      BY <1>1, <2>2
    <3> QED BY <2>2, <3>1
  <2> QED BY <2>2, <2>3
<1>5. having = {} => \A i \in 1 .. Len(s) : FileIn(s[i]) = None
  OBVIOUS
<1>6. (\A i \in 1 .. Len(s) : FileIn(s[i]) = None) => having = {}
  OBVIOUS
<1> HIDE DEF having
<1> QED BY <1>2, <1>3, <1>4, <1>5, <1>6

(* A sequence of one layer shows its file, the empty one nothing.           *)
LEMMA FirstOne ==
  ASSUME NEW x
  PROVE  First(<<x>>) = FileIn(x) /\ First(<<>>) = None
<1>1. PICK s : s = <<x>>
  OBVIOUS
<1>2. s \in Seq({x}) /\ Len(s) = 1 /\ s[1] = x
  BY <1>1
<1>3. PICK e : e = <<>>
  OBVIOUS
<1>4. e \in Seq({x}) /\ Len(e) = 0
  BY <1>3
<1>5. First(e) = None
  <2>1. \A i \in 1 .. Len(e) : FileIn(e[i]) = None
    BY <1>4
  <2> QED BY <1>4, <2>1, FirstIs
<1>6. \A i \in 1 .. Len(s) : i = 1
  BY <1>2
<1>7. CASE FileIn(x) = None
  <2>1. \A i \in 1 .. Len(s) : FileIn(s[i]) = None
    BY <1>2, <1>6, <1>7
  <2>2. First(s) = None
    BY <1>2, <2>1, FirstIs
  <2> QED BY <1>1, <1>3, <1>5, <1>7, <2>2
<1>8. CASE FileIn(x) # None
  <2>1. 1 \in 1 .. Len(s) /\ \A j \in 1 .. 1 - 1 : FileIn(s[j]) = None
    BY <1>2
  <2>2. First(s) = FileIn(s[1])
    BY <1>2, <1>8, <2>1, FirstIs
  <2> QED BY <1>1, <1>2, <1>3, <1>5, <2>2
<1> QED BY <1>7, <1>8

(* Layers below others show where those do not.                              *)
LEMMA FirstConcat ==
  ASSUME NEW T, NEW s \in Seq(T), NEW t \in Seq(T)
  PROVE  First(s \o t) = IF First(s) # None THEN First(s) ELSE First(t)
<1> DEFINE c == s \o t
<1>1. /\ c \in Seq(T) /\ Len(c) = Len(s) + Len(t)
      /\ Len(s) \in Nat /\ Len(t) \in Nat
      /\ \A i \in 1 .. Len(s) : c[i] = s[i]
      /\ \A i \in 1 .. Len(t) : c[Len(s) + i] = t[i]
  <2>1. Len(s) \in Nat /\ Len(t) \in Nat
    OBVIOUS
  <2>2. /\ c \in Seq(T) /\ Len(c) = Len(s) + Len(t)
        /\ \A i \in 1 .. Len(s) + Len(t) :
             c[i] = IF i <= Len(s) THEN s[i] ELSE t[i - Len(s)]
    BY ConcatProperties
  <2> HIDE DEF c
  <2>3. ASSUME NEW i \in 1 .. Len(t)
        PROVE  c[Len(s) + i] = t[i]
    <3>1. /\ Len(s) + i \in 1 .. Len(s) + Len(t) /\ ~(Len(s) + i <= Len(s))
          /\ Len(s) + i - Len(s) = i
      BY <2>1
    <3> QED BY <2>2, <3>1
  <2>4. ASSUME NEW i \in 1 .. Len(s)
        PROVE  c[i] = s[i]
    BY <2>1, <2>2
  <2> QED BY <2>1, <2>2, <2>3, <2>4
<1> HIDE DEF c
<1>2. CASE \E i \in 1 .. Len(s) :
             /\ FileIn(s[i]) # None
             /\ \A j \in 1 .. i - 1 : FileIn(s[j]) = None
  <2>1. PICK i \in 1 .. Len(s) : /\ FileIn(s[i]) # None
                                 /\ \A j \in 1 .. i - 1 : FileIn(s[j]) = None
    BY <1>2
  <2>2. First(s) = FileIn(s[i])
    BY <2>1, FirstIs
  <2>3. i \in 1 .. Len(c) /\ c[i] = s[i]
    BY <1>1
  <2>4. \A j \in 1 .. i - 1 : c[j] = s[j]
    BY <1>1
  <2>5. First(c) = FileIn(c[i])
    <3>1. FileIn(c[i]) # None
      BY <2>1, <2>3
    <3>2. \A j \in 1 .. i - 1 : FileIn(c[j]) = None
      BY <2>1, <2>4
    <3> QED BY <1>1, <2>3, <3>1, <3>2, FirstIs
  <2> QED BY <2>1, <2>2, <2>3, <2>5 DEF c
<1>3. CASE \A i \in 1 .. Len(s) : FileIn(s[i]) = None
  <2>1. First(s) = None
    BY <1>3, FirstIs
  <2>2. CASE \A i \in 1 .. Len(t) : FileIn(t[i]) = None
    <3>1. ASSUME NEW i \in 1 .. Len(c)
          PROVE  FileIn(c[i]) = None
      <4>1. CASE i <= Len(s)
        BY <1>1, <1>3, <4>1
      <4>2. CASE ~(i <= Len(s))
        <5>1. i - Len(s) \in 1 .. Len(t) /\ Len(s) + (i - Len(s)) = i
          BY <1>1, <4>2
        <5> QED BY <1>1, <2>2, <5>1
      <4> QED BY <4>1, <4>2
    <3>2. First(c) = None
      BY <1>1, <3>1, FirstIs
    <3>3. First(t) = None
      BY <2>2, FirstIs
    <3> QED BY <2>1, <3>2, <3>3 DEF c
  <2>3. CASE \E i \in 1 .. Len(t) :
               /\ FileIn(t[i]) # None
               /\ \A j \in 1 .. i - 1 : FileIn(t[j]) = None
    <3>1. PICK i \in 1 .. Len(t) : /\ FileIn(t[i]) # None
                                   /\ \A j \in 1 .. i - 1 : FileIn(t[j]) = None
      BY <2>3
    <3>2. First(t) = FileIn(t[i])
      BY <3>1, FirstIs
    <3>3. Len(s) + i \in 1 .. Len(c) /\ c[Len(s) + i] = t[i]
      BY <1>1
    <3>4. ASSUME NEW j \in 1 .. Len(s) + i - 1
          PROVE  FileIn(c[j]) = None
      <4>1. CASE j <= Len(s)
        BY <1>1, <1>3, <4>1
      <4>2. CASE ~(j <= Len(s))
        <5>1. j - Len(s) \in 1 .. i - 1 /\ j - Len(s) \in 1 .. Len(t)
                /\ Len(s) + (j - Len(s)) = j
          BY <1>1, <4>2
        <5> QED BY <1>1, <3>1, <5>1
      <4> QED BY <4>1, <4>2
    <3>5. First(c) = FileIn(c[Len(s) + i])
      <4> DEFINE k == Len(s) + i
      <4>1. /\ k \in 1 .. Len(c) /\ FileIn(c[k]) # None
            /\ \A j \in 1 .. k - 1 : FileIn(c[j]) = None
        BY <3>1, <3>3, <3>4
      <4> HIDE DEF k
      <4>2. First(c) = FileIn(c[k])
        BY <1>1, <4>1, FirstIs
      <4> QED BY <4>2 DEF k
    <3> QED BY <2>1, <3>2, <3>3, <3>5 DEF c
  <2> QED BY <2>2, <2>3, FirstIs
<1> QED BY <1>2, <1>3, FirstIs

(* The loop of usedLayers, run on the oldest n images.                       *)
Loop(f, images, n) ==
  f = [k \in 0 .. n |->
         IF k = 0 THEN <<>>
         ELSE IF images[k] \in Provides THEN <<images[k]>> \o f[k - 1]
         ELSE f[k - 1]]

(* It can be run on any number of them.                                      *)
LEMMA LoopRuns ==
  ASSUME NEW images, NEW n \in Nat
  PROVE  \E f : Loop(f, images, n)
<1> DEFINE T == {m \in Nat : ~\E f : Loop(f, images, m)}
<1>1. SUFFICES ASSUME T # {} PROVE FALSE
  OBVIOUS
<1>2. PICK m \in T : \A l \in T : m <= l
  <2>1. T \subseteq Nat
    OBVIOUS
  <2> HIDE DEF T
  <2> QED BY <1>1, <2>1, Least
<1>3. m \in Nat /\ ~\E f : Loop(f, images, m)
  OBVIOUS
<1>4. CASE m = 0
  <2> DEFINE g == [k \in 0 .. 0 |-> <<>>]
  <2>1. Loop(g, images, 0)
    BY DEF Loop
  <2> QED BY <1>3, <1>4, <2>1
<1>5. CASE m # 0
  <2>1. m - 1 \in Nat /\ m - 1 \notin T
    BY <1>2, <1>3, <1>5
  <2>2. PICK f : Loop(f, images, m - 1)
    BY <2>1
  <2> DEFINE step == IF images[m] \in Provides
                     THEN <<images[m]>> \o f[m - 1] ELSE f[m - 1]
             g == [k \in 0 .. m |-> IF k = m THEN step ELSE f[k]]
  <2>3. ASSUME NEW k \in 0 .. m
        PROVE  g[k] = IF k = 0 THEN <<>>
                      ELSE IF images[k] \in Provides THEN <<images[k]>> \o g[k - 1]
                      ELSE g[k - 1]
    <3>1. CASE k = m
      <4>1. m - 1 \in 0 .. m /\ m - 1 # m
        BY <1>3, <1>5
      <4>2. g[m - 1] = f[m - 1] /\ g[m] = step
        BY <1>3, <4>1
      <4> HIDE DEF g
      <4> QED BY <1>5, <3>1, <4>2
    <3>2. CASE k # m
      <4>1. k \in 0 .. m - 1 /\ (k # 0 => k - 1 \in 0 .. m /\ k - 1 # m)
        BY <1>3, <3>2
      <4>2. f[k] = IF k = 0 THEN <<>>
                   ELSE IF images[k] \in Provides THEN <<images[k]>> \o f[k - 1]
                   ELSE f[k - 1]
        BY <2>2, <4>1, Zenon DEF Loop
      <4>3. g[k] = f[k] /\ (k # 0 => g[k - 1] = f[k - 1])
        BY <3>2, <4>1
      <4> HIDE DEF g
      <4> QED BY <4>2, <4>3
    <3> QED BY <3>1, <3>2
  <2>4. g = [k \in 0 .. m |-> g[k]]
    OBVIOUS
  <2> HIDE DEF g
  <2>5. Loop(g, images, m)
    BY <2>3, <2>4 DEF Loop
  <2> QED BY <1>3, <2>5
<1> QED BY <1>4, <1>5

(* usedLayers returns layers of images that provide something, and they show *)
(* what the images would, newest first.                                      *)
LEMMA UsedFits ==
  ASSUME NEW images, images \in Seq(Range(images)), Range(images) \cap Names = {}
  PROVE  /\ UsedLayers(images) \in Seq(Provides)
         /\ First(UsedLayers(images)) = First(Reverse(images))
<1> DEFINE N == Len(images)
<1>1. N \in Nat /\ DOMAIN images = 1 .. N
  OBVIOUS
<1>2. PICK f : Loop(f, images, N) /\ UsedLayers(images) = f[N]
  <2> DEFINE newest[n \in 0 .. Len(images)] ==
        IF n = 0 THEN <<>>
        ELSE IF images[n] \in Provides THEN <<images[n]>> \o newest[n - 1]
        ELSE newest[n - 1]
  <2>1. newest = CHOOSE f : Loop(f, images, N)
    BY DEF Loop
  <2>2. UsedLayers(images) = newest[N]
    BY DEF UsedLayers
  <2> HIDE DEF newest
  <2>3. \E f : Loop(f, images, N)
    BY <1>1, LoopRuns
  <2>4. Loop(newest, images, N)
    BY <2>1, <2>3
  <2> QED BY <2>2, <2>4
<1> DEFINE newer(n) == [i \in 1 .. n |-> images[n - i + 1]]
           P(n) == f[n] \in Seq(Provides) /\ First(f[n]) = First(newer(n))
           T == {n \in 0 .. N : ~P(n)}
<1>3. ASSUME NEW n \in 1 .. N
      PROVE  /\ f[n] = IF images[n] \in Provides
                       THEN <<images[n]>> \o f[n - 1] ELSE f[n - 1]
             /\ n - 1 \in 0 .. N /\ images[n] \in Range(images)
             /\ FileIn(images[n]) =
                  IF images[n] \in Provides THEN images[n] ELSE None
             /\ images[n] # None
  <2>1. n \in 0 .. N /\ n # 0 /\ n - 1 \in 0 .. N
    BY <1>1
  <2>2. images[n] \in Range(images)
    BY <1>1 DEF Range
  <2>3. images[n] \notin Places \cup {"workspace", None}
    BY <2>2 DEF Names, Places
  <2> HIDE DEF N
  <2>4. f[n] = IF images[n] \in Provides
               THEN <<images[n]>> \o f[n - 1] ELSE f[n - 1]
    BY <1>2, <2>1, Zenon DEF Loop
  <2> QED BY <2>1, <2>2, <2>3, <2>4 DEF FileIn
<1>4. f[0] = <<>>
  <2>1. 0 \in 0 .. N
    BY <1>1
  <2> HIDE DEF N
  <2> QED BY <1>2, <2>1, Zenon DEF Loop
<1>5. ASSUME NEW n \in 0 .. N
      PROVE  newer(n) \in Seq(Range(images)) /\ Len(newer(n)) = n
  <2>1. \A i \in 1 .. n : n - i + 1 \in 1 .. N
    BY <1>1
  <2>2. \A i \in 1 .. n : images[n - i + 1] \in Range(images)
    BY <1>1, <2>1 DEF Range
  <2> QED BY <1>1, <2>2
<1>6. ASSUME NEW n \in 1 .. N
      PROVE  newer(n) = <<images[n]>> \o newer(n - 1)
  <2>1. /\ n \in 0 .. N /\ n - 1 \in 0 .. N
        /\ <<images[n]>> \in Seq(Range(images)) /\ Len(<<images[n]>>) = 1
    BY <1>1, <1>3
  <2>2. newer(n) \in Seq(Range(images)) /\ Len(newer(n)) = n
    BY <1>5, <2>1
  <2>3. newer(n - 1) \in Seq(Range(images)) /\ Len(newer(n - 1)) = n - 1
    BY <1>5, <2>1
  <2>4. ASSUME NEW i \in 1 .. n
        PROVE  newer(n)[i] = IF i <= 1 THEN images[n] ELSE newer(n - 1)[i - 1]
    <3>1. CASE i = 1
      BY <1>1, <3>1
    <3>2. CASE i # 1
      <4>1. i - 1 \in 1 .. n - 1 /\ (n - 1) - (i - 1) + 1 = n - i + 1
        BY <1>1, <3>2
      <4> QED BY <3>2, <4>1
    <3> QED BY <3>1, <3>2
  <2> HIDE DEF newer, N
  <2> DEFINE c == <<images[n]>> \o newer(n - 1)
  <2>5. /\ c \in Seq(Range(images)) /\ Len(c) = n
        /\ \A i \in 1 .. n : c[i] = IF i <= 1 THEN <<images[n]>>[i] ELSE newer(n - 1)[i - 1]
    <3>1. 1 + (n - 1) = n
      BY <1>1
    <3> QED BY <2>1, <2>3, <3>1, ConcatProperties
  <2>6. \A i \in 1 .. n : i <= 1 => i = 1
    BY <1>1
  <2>7. \A i \in 1 .. n : newer(n)[i] = c[i]
    BY <2>4, <2>5, <2>6
  <2> HIDE DEF c
  <2>8. newer(n) = c
    BY <2>2, <2>5, <2>7, SeqEqual
  <2> QED BY <2>8 DEF c
<1>7. P(0)
  <2>1. newer(0) \in Seq(Range(images)) /\ Len(newer(0)) = 0
    BY <1>1, <1>5
  <2> HIDE DEF newer
  <2>2. newer(0) = <<>>
    BY <2>1
  <2> QED BY <1>4, <2>2
<1>8. ASSUME NEW n \in 1 .. N, P(n - 1)
      PROVE  P(n)
  <2>1. newer(n) = <<images[n]>> \o newer(n - 1)
    BY <1>6
  <2>2. /\ newer(n - 1) \in Seq(Range(images)) /\ <<images[n]>> \in Seq(Range(images))
    BY <1>3, <1>5
  <2> HIDE DEF newer
  <2>6. First(<<images[n]>>) = FileIn(images[n])
    BY FirstOne
  <2>7. First(<<images[n]>> \o newer(n - 1)) =
          IF First(<<images[n]>>) # None THEN First(<<images[n]>>)
          ELSE First(newer(n - 1))
    BY <2>2, FirstConcat
  <2>3. First(newer(n)) = IF FileIn(images[n]) # None THEN FileIn(images[n])
                          ELSE First(newer(n - 1))
    BY <2>1, <2>6, <2>7, Zenon
  <2>4. CASE images[n] \in Provides
    <3>1. <<images[n]>> \in Seq(Provides) /\ f[n - 1] \in Seq(Provides)
      BY <1>8, <2>4
    <3>2. First(<<images[n]>> \o f[n - 1]) =
            IF First(<<images[n]>>) # None THEN First(<<images[n]>>)
            ELSE First(f[n - 1])
      BY <3>1, FirstConcat
    <3>3. f[n] = <<images[n]>> \o f[n - 1]
      BY <1>3, <2>4
    <3>4. First(f[n]) = First(newer(n))
      BY <1>8, <2>3, <2>6, <3>2, <3>3, Zenon
    <3>5. f[n] \in Seq(Provides)
      BY <3>1, <3>3, ConcatProperties
    <3> QED BY <3>4, <3>5
  <2>5. CASE images[n] \notin Provides
    BY <1>3, <1>8, <2>3, <2>5
  <2> QED BY <2>4, <2>5
<1>9. P(N)
  <2> HIDE DEF P
  <2>1. SUFFICES ASSUME T # {} PROVE FALSE
    BY <1>1
  <2>2. PICK m \in T : \A l \in T : m <= l
    <3>1. T \subseteq Nat
      BY <1>1
    <3> HIDE DEF T
    <3> QED BY <2>1, <3>1, Least
  <2>3. m \in 0 .. N /\ ~P(m)
    OBVIOUS
  <2>4. m # 0
    BY <1>7, <2>3
  <2>5. m \in 1 .. N /\ m - 1 \in 0 .. N /\ m - 1 \notin T
    BY <1>1, <2>2, <2>3, <2>4
  <2>6. P(m - 1)
    BY <2>5
  <2> QED BY <1>8, <2>3, <2>5, <2>6
<1>10. newer(N) = Reverse(images)
  BY <1>1 DEF Reverse
<1> QED BY <1>2, <1>9, <1>10
----------------------------------------------------------------------------
(* The rest of the invariant, of the route r and the places pl: how the      *)
(* layers of an overlay come from the request, what an operation that nobody *)
(* disturbs can rely on, and what makes a merge one that can be repeated.    *)
HasLayer(layers, x) == \E i \in DOMAIN layers : layers[i] = x

(* What resolveMutableDir finds.                                             *)
DirOf(mode, r, pl) ==
  IF mode = "no" THEN None
  ELSE IF ModeIsEphemeral(mode) THEN "workspace"
  ELSE IF pl[r].exists \/ mode = "yes" THEN r ELSE None

TopOf(o, pl) ==
  CASE o.upper = None -> o.meta
    [] o.upper = "workspace" -> o.scratch.mode
    [] OTHER -> pl[o.upper].mode

AllImages == Images \cup {<<>>}

(* The layers of an overlay in terms of its mode, of its images and of what  *)
(* the mutable directory was; the host is no layer only if that makes no     *)
(* difference.                                                               *)
ImportOf(o) ==
  IF o.origin.mode \in {"import", "ephemeral-import"} /\ o.routed # None
  THEN <<o.routed>> ELSE <<>>

Layered(o, pl) ==
  /\ o.origin.mode \in MutableModes /\ o.origin.images \in AllImages
  /\ o.routed \in Places \cup {None}
  /\ o.upper = IF o.origin.mode \in {"auto", "yes"} THEN o.routed
               ELSE IF ModeIsEphemeral(o.origin.mode) THEN "workspace" ELSE None
  /\ o.upper \in Places => ~pl[o.upper].stale
  /\ \E host \in {<<"self">>, <<>>} :
       /\ o.lower = <<"meta">> \o ImportOf(o) \o UsedLayers(o.origin.images) \o host
       /\ host = <<>> /\ o.upper # "self" /\ pl["self"].exists =>
            pl["self"].file = None

(* What it recorded of the mutable directory is how it uses it.              *)
Follows(o) ==
  /\ o.upper = IF o.origin.mode = "import" THEN None ELSE o.origin.dir
  /\ o.origin.mode = "import" /\ o.origin.dir # None =>
       HasLayer(o.lower, o.origin.dir)

(* The next merge with these arguments is not refused while the hierarchy is *)
(* bare.                                                                     *)
Repeatable(mode, images, r, pl) ==
  /\ pl["self"].exists
  /\ mode \in {"auto", "yes"} /\ pl[r].exists =>
       pl[r].mode = pl["self"].mode /\ pl[r].on = "same"
  /\ mode \in {"import", "ephemeral-import"} => r = "own"
  /\ mode = "yes" => pl[r].exists
  /\ mode \in {"no", "import"} \/ (mode = "auto" /\ ~pl[r].exists) =>
       \/ mode = "import" /\ pl[r].exists
       \/ UsedLayers(images) # <<>>
       \/ pl["self"].file # None \/ pl["self"].stale

(* Nor is it while the overlay o covers the hierarchy.                       *)
Calm(o, r, pl) ==
  /\ Repeatable(o.origin.mode, o.origin.images, r, pl)
  /\ TopOf(o, pl) = pl["self"].mode
  /\ o.origin.mode = "yes" => o.upper # None

LayersInv ==
  /\ pc # "idle" => op.images \in AllImages
  /\ pc \in {"assemble", "staged"} => op.origin.images = op.images
  /\ pc \in {"down", "work"} => op.origin = None \/ op.origin.images = op.images
  /\ overlay.merged =>
       Layered(overlay, place) /\ Exists("self") /\ (pc # "idle" => op.found)
  /\ pc = "staged" => Layered(op.staged, place) /\ op.staged.origin = op.origin
  /\ pc # "idle" /\ ~op.found /\ Exists("self") => place["self"].file = None
                                                     \/ pc = "staged"

AloneInv ==
  /\ overlay.merged /\ overlay.alone => Follows(overlay)
  /\ pc # "idle" /\ op.alone =>
       /\ op.found => Exists("self")
       /\ pc \in {"assemble", "staged"} => op.origin.dir = DirOf(op.mode, route, place)
       /\ pc \in {"down", "work"} =>
            op.origin = None \/ op.origin.dir = DirOf(op.mode, route, place)
       /\ pc = "staged" => Follows(op.staged)

CalmInv ==
  /\ calm /\ overlay.merged => Calm(overlay, route, place)
  /\ calm /\ pc # "idle" => op.alone
  /\ pc # "idle" /\ op.alone /\ op.again =>
       /\ op.found /\ Repeatable(op.mode, op.images, route, place)
       /\ pc \in {"plan", "down"} =>
            calm /\ overlay.merged /\ overlay.origin.mode = op.mode
  /\ pc = "staged" /\ op.alone /\ op.found => Calm(op.staged, route, place)

LastInv == (pc # "idle" => last = None) /\ RefreshNotices /\ MergeRepeats

JInv == LayersInv /\ AloneInv /\ CalmInv /\ LastInv

(* The images of an operation are a sequence of names of their own.          *)
LEMMA ImagesFit ==
  ASSUME NEW images \in AllImages
  PROVE  images \in Seq(Range(images)) /\ Range(images) \cap Names = {}
<1>1. CASE images = <<>>
  BY <1>1 DEF Range
<1>2. CASE images \in Images
  BY <1>2, LayersAssumption
<1> QED BY <1>1, <1>2 DEF AllImages

(* What is shown under a merge is what the table of the modes says.          *)
LEMMA LayersShow ==
  ASSUME IInv, JInv
  PROVE  ShowsAllLayers
<1> SUFFICES ASSUME overlay.merged PROVE ShowsAllLayers
  BY DEF ShowsAllLayers
<1> DEFINE mode == overlay.origin.mode
           images == overlay.origin.images
           imp == ImportOf(overlay)
           used == UsedLayers(images)
           T == Provides \cup Names \cup Range(images)
           written == IF ModeIsEphemeral(mode) THEN <<"workspace">> ELSE <<>>
           mutable == IF mode \in {"no", "ephemeral"} THEN <<>>
                      ELSE <<overlay.routed>>
<1>1. Layered(overlay, place)
  BY DEF JInv, LayersInv
<1>2. PICK host \in {<<"self">>, <<>>} :
        /\ overlay.lower = <<"meta">> \o imp \o used \o host
        /\ host = <<>> /\ overlay.upper # "self" /\ place["self"].exists =>
             place["self"].file = None
  BY <1>1 DEF Layered
<1>3. /\ mode \in MutableModes /\ images \in AllImages
      /\ overlay.routed \in Places \cup {None}
      /\ overlay.upper = IF mode \in {"auto", "yes"} THEN overlay.routed
                         ELSE IF ModeIsEphemeral(mode) THEN "workspace" ELSE None
      /\ overlay.upper \in Places => ~place[overlay.upper].stale
  BY <1>1 DEF Layered
<1>4. /\ images \in Seq(Range(images))
      /\ used \in Seq(Provides) /\ First(used) = First(Reverse(images))
  BY <1>3, ImagesFit, UsedFits
<1>5. Reverse(images) \in Seq(Range(images))
  <2>1. \A i \in 1 .. Len(images) : images[Len(images) - i + 1] \in Range(images)
    BY <1>4 DEF Range
  <2> QED BY <1>4, <2>1 DEF Reverse
<1>6. /\ overlay.upper \in Names /\ overlay.routed \in Names
      /\ "self" \in Names /\ "meta" \in Names /\ "workspace" \in Names
      /\ Names \subseteq T /\ Provides \subseteq T /\ Range(images) \subseteq T
  BY <1>3 DEF Places, Names
<1>7. used \in Seq(T) /\ Reverse(images) \in Seq(T)
  BY <1>4, <1>5, <1>6, SeqMonotonic
<1>8. FileIn("meta") = None
  BY LayersAssumption DEF FileIn, Names, Places
<1>9. First(<<>>) = None /\ \A x : First(<<x>>) = FileIn(x)
  BY FirstOne
<1>10. imp = IF mode \in {"import", "ephemeral-import"} /\ overlay.routed # None
             THEN <<overlay.routed>> ELSE <<>>
  BY DEF ImportOf
<1> HIDE DEF T, mode, images, imp, used
<1>11. <<>> \in Seq(T) /\ \A x \in T : <<x>> \in Seq(T)
  OBVIOUS
<1>12. /\ imp \in Seq(T) /\ host \in Seq(T) /\ <<"meta">> \in Seq(T)
       /\ <<overlay.upper>> \in Seq(T) /\ <<"self">> \in Seq(T)
       /\ written \in Seq(T) /\ mutable \in Seq(T)
  BY <1>6, <1>10, <1>11, Zenon
<1>13. Shown = IF FileIn(overlay.upper) # None THEN FileIn(overlay.upper)
               ELSE IF First(imp) # None THEN First(imp)
               ELSE IF First(used) # None THEN First(used) ELSE First(host)
  <2>1. <<"meta">> \o imp \in Seq(T) /\ First(<<"meta">> \o imp) = First(imp)
    BY <1>8, <1>9, <1>12, FirstConcat, ConcatProperties
  <2>2. /\ <<"meta">> \o imp \o used \in Seq(T)
        /\ First(<<"meta">> \o imp \o used) =
             IF First(imp) # None THEN First(imp) ELSE First(used)
    <3> DEFINE a == <<"meta">> \o imp
    <3> HIDE DEF a
    <3>1. a \o used \in Seq(T)
            /\ First(a \o used) = IF First(a) # None THEN First(a) ELSE First(used)
      BY <1>7, <2>1, FirstConcat, ConcatProperties DEF a
    <3> QED BY <2>1, <3>1 DEF a
  <2>3. /\ overlay.lower \in Seq(T)
        /\ First(overlay.lower) =
             IF First(imp) # None THEN First(imp)
             ELSE IF First(used) # None THEN First(used) ELSE First(host)
    <3> DEFINE a == <<"meta">> \o imp \o used
    <3> HIDE DEF a
    <3>1. a \o host \in Seq(T)
            /\ First(a \o host) = IF First(a) # None THEN First(a) ELSE First(host)
      BY <1>12, <2>2, FirstConcat, ConcatProperties DEF a
    <3>2. overlay.lower = a \o host
      BY <1>2 DEF a
    <3> QED BY <2>2, <3>1, <3>2 DEF a
  <2>4. First(<<overlay.upper>> \o overlay.lower) =
          IF First(<<overlay.upper>>) # None THEN First(<<overlay.upper>>)
          ELSE First(overlay.lower)
    BY <1>12, <2>3, FirstConcat
  <2> QED BY <1>9, <2>3, <2>4 DEF Shown
<1>14. First(written \o mutable \o Reverse(images) \o <<"self">>) =
         IF First(written) # None THEN First(written)
         ELSE IF First(mutable) # None THEN First(mutable)
         ELSE IF First(used) # None THEN First(used) ELSE FileIn("self")
  <2>1. /\ written \o mutable \in Seq(T)
        /\ First(written \o mutable) =
             IF First(written) # None THEN First(written) ELSE First(mutable)
    <3> HIDE DEF written, mutable
    <3> QED BY <1>12, FirstConcat, ConcatProperties
  <2>2. /\ written \o mutable \o Reverse(images) \in Seq(T)
        /\ First(written \o mutable \o Reverse(images)) =
             IF First(written) # None THEN First(written)
             ELSE IF First(mutable) # None THEN First(mutable) ELSE First(used)
    <3> DEFINE a == written \o mutable
    <3> HIDE DEF a
    <3>1. /\ a \o Reverse(images) \in Seq(T)
          /\ First(a \o Reverse(images)) =
               IF First(a) # None THEN First(a) ELSE First(Reverse(images))
      BY <1>7, <2>1, FirstConcat, ConcatProperties DEF a
    <3> QED BY <1>4, <2>1, <3>1 DEF a
  <2> DEFINE b == written \o mutable \o Reverse(images)
  <2> HIDE DEF b
  <2>3. First(b \o <<"self">>) = IF First(b) # None THEN First(b) ELSE First(<<"self">>)
    BY <1>12, <2>2, FirstConcat DEF b
  <2>4. First(b \o <<"self">>) =
          IF First(written) # None THEN First(written)
          ELSE IF First(mutable) # None THEN First(mutable)
          ELSE IF First(used) # None THEN First(used) ELSE FileIn("self")
    BY <1>9, <2>2, <2>3 DEF b
  <2> QED BY <2>4 DEF b
<1>15. FileIn(None) = None
  BY DEF FileIn
<1>16. host = <<>> => overlay.upper = "self" \/ FileIn("self") = None
  BY <1>2, LayersAssumption DEF FileIn, Places, Exists
<1>17. /\ First(host) = IF host = <<>> THEN None ELSE FileIn("self")
  BY <1>2, <1>9
<1>18. Shown = First(written \o mutable \o Reverse(images) \o <<"self">>)
  <2>1. CASE mode \in {"auto", "yes"}
    <3>1. /\ First(imp) = None /\ First(written) = None
          /\ First(mutable) = FileIn(overlay.upper)
      BY <1>3, <1>9, <1>10, <2>1 DEF mode, ModeIsEphemeral
    <3> QED BY <1>13, <1>14, <1>16, <1>17, <3>1
  <2>2. CASE mode = "import"
    <3>1. /\ FileIn(overlay.upper) = None /\ First(written) = None
          /\ First(mutable) = FileIn(overlay.routed)
          /\ First(imp) = FileIn(overlay.routed)
      BY <1>3, <1>9, <1>10, <1>15, <2>2 DEF mode, ModeIsEphemeral
    <3>2. overlay.upper # "self"
      BY <1>3, <2>2, LayersAssumption DEF mode, ModeIsEphemeral
    <3> QED BY <1>13, <1>14, <1>16, <1>17, <3>1, <3>2
  <2>3. CASE mode = "no"
    <3>1. /\ FileIn(overlay.upper) = None /\ First(written) = None
          /\ First(mutable) = None /\ First(imp) = None
      BY <1>3, <1>9, <1>10, <1>15, <2>3 DEF mode, ModeIsEphemeral
    <3>2. overlay.upper # "self"
      BY <1>3, <2>3, LayersAssumption DEF mode, ModeIsEphemeral
    <3> QED BY <1>13, <1>14, <1>16, <1>17, <3>1, <3>2
  <2>4. CASE mode = "ephemeral"
    <3>1. /\ overlay.upper = "workspace"
          /\ First(written) = FileIn("workspace")
          /\ First(mutable) = None /\ First(imp) = None
      BY <1>3, <1>9, <1>10, <2>4 DEF mode, ModeIsEphemeral
    <3> QED BY <1>13, <1>14, <1>16, <1>17, <3>1
  <2>5. CASE mode = "ephemeral-import"
    <3>1. /\ overlay.upper = "workspace"
          /\ First(written) = FileIn("workspace")
          /\ First(mutable) = FileIn(overlay.routed)
          /\ First(imp) = FileIn(overlay.routed)
      BY <1>3, <1>9, <1>10, <1>15, <2>5 DEF mode, ModeIsEphemeral
    <3> QED BY <1>13, <1>14, <1>16, <1>17, <3>1
  <2> QED BY <1>3, <2>1, <2>2, <2>3, <2>4, <2>5 DEF MutableModes
<1> QED BY <1>3, <1>18, Zenon DEF ShowsAllLayers, mode, images

(* What is asked for is where writes go and what is imported.                *)
Good(o, mode, r, pl) ==
  LET there == IF pl[r].exists THEN r ELSE None
  IN /\ o.upper = IF mode \in {"auto", "yes"} THEN there
                  ELSE IF ModeIsEphemeral(mode) THEN "workspace" ELSE None
     /\ mode = "import" /\ there # None => HasLayer(o.lower, there)

(* An overlay that follows its record writes where the record says.         *)
LEMMA FollowsGood ==
  ASSUME NEW o, NEW r \in Places, NEW pl, Follows(o), o.origin.mode \in MutableModes,
         o.origin.dir = DirOf(o.origin.mode, r, pl),
         o.origin.mode = "yes" => pl[r].exists
  PROVE  Good(o, o.origin.mode, r, pl)
BY DEF Follows, DirOf, Good, MutableModes, ModeIsEphemeral

(* An overlay is as it was if nothing that it depends on changed.            *)
LEMMA LayeredStays ==
  ASSUME NEW o, NEW pl, NEW pm, Layered(o, pl),
         o.upper \in Places => ~pm[o.upper].stale,
         o.upper # "self" /\ pm["self"].exists =>
           \/ pm["self"].file = None
           \/ pl["self"].exists /\ pm["self"].file = pl["self"].file
  PROVE  Layered(o, pm)
BY DEF Layered

(* ResolveMutableDir, of any route and place.                               *)
LEMMA DirIs ==
  ASSUME NEW mode
  PROVE  ResolveMutableDir(mode) = DirOf(mode, route, place)
BY DEF ResolveMutableDir, DirOf, Exists

(* Creating the mutable directory changes nothing that is there.             *)
LEMMA CreatedShape ==
  ASSUME IInv, NEW mode
  PROVE  LET made == Created(mode)
         IN /\ mode # "yes" \/ place[route].exists => made = place
            /\ \A x \in Places : x # route \/ place[x].exists => made[x] = place[x]
            /\ mode = "yes" /\ ~place[route].exists =>
                 /\ made[route] = Fresh(HierarchyMode)
                 /\ made[route].exists /\ ~made[route].stale
                 /\ made[route].file = None /\ made[route].on = "same"
                 /\ made[route].mode = HierarchyMode
            /\ mode = "yes" => made[route].exists
<1>1. CASE mode = "yes" /\ ~Exists(route)
  <2>1. Created(mode) = [place EXCEPT ![route] = Fresh(HierarchyMode)]
    BY <1>1 DEF Created
  <2>2. route \in Places /\ place = [x \in Places |-> place[x]]
    BY DEF IInv, PlaceInv
  <2>3. PICK f : f = Fresh(HierarchyMode)
    OBVIOUS
  <2>4. f.exists /\ ~f.stale /\ f.file = None /\ f.on = "same" /\ f.mode = HierarchyMode
    BY <2>3 DEF Fresh, Directory
  <2> QED BY <1>1, <2>1, <2>2, <2>3, <2>4 DEF Exists
<1>2. CASE ~(mode = "yes" /\ ~Exists(route))
  <2>1. Created(mode) = place
    BY <1>2 DEF Created
  <2> QED BY <1>2, <2>1 DEF Exists
<1> QED BY <1>1, <1>2

(* A merged overlay has its directories.                                     *)
LEMMA UpperExists ==
  ASSUME IInv, overlay.merged, overlay.upper \in Places
  PROVE  place[overlay.upper].exists
<1>1. overlay # Bare
  BY OverlayCases DEF IInv
<1>2. overlay.upper \in Existing
  BY <1>1 DEF IInv, OverlayInv
<1> QED BY <1>2, Zenon DEF Existing, Exists

(* A merge that could be repeated still can with the mutable directory made, *)
(* which then has the mode of the hierarchy.                                 *)
LEMMA RepeatableGrows ==
  ASSUME IInv, JInv, NEW mode, place' = Created(mode),
         NEW m \in MutableModes, NEW images,
         Repeatable(m, images, route, place),
         HierarchyMode = place["self"].mode
  PROVE  Repeatable(m, images, route, place')
<1>1. /\ mode # "yes" \/ place[route].exists => place' = place
      /\ \A x \in Places : x # route \/ place[x].exists => place'[x] = place[x]
      /\ mode = "yes" /\ ~place[route].exists =>
           /\ place'[route].exists /\ place'[route].on = "same"
           /\ place'[route].mode = HierarchyMode
  BY CreatedShape
<1>2. place["self"].exists /\ "self" \in Places
  BY DEF Repeatable, Places
<1>3. place'["self"] = place["self"]
  BY <1>1, <1>2
<1>4. CASE place' = place
  BY <1>4
<1>5. CASE mode = "yes" /\ ~place[route].exists
  BY <1>1, <1>2, <1>3, <1>5 DEF Repeatable
<1> QED BY <1>1, <1>4, <1>5

(* The hierarchy under a merge has the mode of its top layer, which is that  *)
(* of the host.                                                              *)
LEMMA CalmMode ==
  ASSUME IInv, JInv, pc # "idle", calm, overlay.merged
  PROVE  HierarchyMode = place["self"].mode /\ ModeAt("self") = place["self"].mode
<1>1. op.found /\ TopOf(overlay, place) = place["self"].mode
  BY DEF JInv, CalmInv, LayersInv, Calm
<1>2. ModeAt("self") = TopOf(overlay, place)
  BY DEF ModeAt, TopMode, TopOf
<1> QED BY <1>1, <1>2 DEF HierarchyMode

(* What creating the mutable directory leaves of the overlay that is merged. *)
LEMMA CreatedJ ==
  ASSUME IInv, JInv, pc # "idle", place' = Created(op.mode) \/ place' = place
  PROVE  /\ overlay.merged => Layered(overlay, place') /\ place'["self"].exists
         /\ calm /\ overlay.merged => Calm(overlay, route, place')
<1>1. CASE place' = place
  BY <1>1 DEF JInv, LayersInv, CalmInv, Exists
<1>2. CASE place' = Created(op.mode)
  <2>1. /\ op.mode # "yes" \/ place[route].exists => place' = place
        /\ \A x \in Places : x # route \/ place[x].exists => place'[x] = place[x]
        /\ op.mode = "yes" /\ ~place[route].exists => place'[route].file = None
    BY <1>2, CreatedShape
  <2>2. overlay.merged => place["self"].exists /\ place'["self"] = place["self"]
    BY <2>1 DEF JInv, LayersInv, Exists, Places
  <2>3. overlay.merged /\ overlay.upper \in Places =>
          place'[overlay.upper] = place[overlay.upper]
    BY <2>1, UpperExists
  <2>4. ASSUME overlay.merged
        PROVE  Layered(overlay, place')
    <3>1. Layered(overlay, place)
      BY <2>4 DEF JInv, LayersInv
    <3>2. overlay.upper \in Places => ~place'[overlay.upper].stale
      BY <2>3, <2>4, <3>1 DEF Layered
    <3> QED BY <2>2, <2>4, <3>1, <3>2, LayeredStays
  <2>5. ASSUME calm, overlay.merged
        PROVE  Calm(overlay, route, place')
    <3>1. Calm(overlay, route, place)
      BY <2>5 DEF JInv, CalmInv
    <3>2. overlay.origin.mode \in MutableModes /\ overlay.upper \in Places \cup {"workspace", None}
      BY <2>5 DEF JInv, LayersInv, Layered, Places
    <3>3. Repeatable(overlay.origin.mode, overlay.origin.images, route, place')
      BY <1>2, <2>5, <3>1, <3>2, CalmMode, RepeatableGrows DEF Calm
    <3>4. TopOf(overlay, place') = TopOf(overlay, place)
      BY <2>3, <2>5, <3>2 DEF TopOf
    <3> QED BY <2>2, <2>5, <3>1, <3>3, <3>4 DEF Calm
  <2> QED BY <2>2, <2>4, <2>5
<1> QED BY <1>1, <1>2

(* An operation ends, and says so unless somebody disturbed it.              *)
LEMMA EndsLast ==
  ASSUME NEW result, End(result), route' = route,
         op.alone /\ op.again => result # "refused",
         /\ op.alone /\ op.found /\ overlay'.merged /\ overlay'.alone
         /\ result \in {"merged", "unchanged"}
         => Good(overlay', op.mode, route, place')
  PROVE  LastInv'
<1>1. pc' = "idle"
  BY DEF End
<1>2. CASE op.alone
  <2>1. last' = [result |-> result, mode |-> op.mode, again |-> op.again,
                 found |-> op.found]
    BY <1>2 DEF End
  <2>2. MergeRepeats'
    BY <1>2, <2>1 DEF MergeRepeats
  <2>3. /\ last'.result = result /\ last'.mode = op.mode /\ last'.found = op.found
    BY <2>1
  <2>4. ASSUME result \in {"merged", "unchanged"}, op.found,
               overlay'.merged, overlay'.alone
        PROVE  LET there == IF place'[route'].exists THEN route' ELSE None
               IN /\ overlay'.upper = CASE op.mode \in {"auto", "yes"} -> there
                                        [] ModeIsEphemeral(op.mode) -> "workspace"
                                        [] OTHER -> None
                  /\ op.mode = "import" /\ there # None =>
                       \E i \in DOMAIN overlay'.lower : overlay'.lower[i] = there
    <3>1. Good(overlay', op.mode, route, place')
      BY <1>2, <2>4
    <3>2. op.mode \in {"auto", "yes"} => ~ModeIsEphemeral(op.mode)
      BY DEF ModeIsEphemeral
    <3> QED BY <3>1, <3>2 DEF Good, HasLayer
  <2>5. RefreshNotices'
    BY <2>3, <2>4, Zenon DEF RefreshNotices, Exists
  <2> QED BY <1>1, <2>2, <2>5 DEF LastInv
<1>3. CASE ~op.alone
  <2>1. last' = None
    BY <1>3 DEF End
  <2> QED BY <1>1, <2>1 DEF LastInv, MergeRepeats, RefreshNotices
<1> QED BY <1>2, <1>3

(* Nothing is claimed of a refresh that has not ended.                      *)
LEMMA LastNone ==
  ASSUME last' = None
  PROVE  LastInv'
BY DEF LastInv, MergeRepeats, RefreshNotices

(* An operation ends with the overlay as it was.                             *)
LEMMA EndsJ ==
  ASSUME JInv, NEW result, End(result), UNCHANGED <<overlay, route, calm>>,
         overlay.merged => Layered(overlay, place') /\ place'["self"].exists,
         calm /\ overlay.merged => Calm(overlay, route, place'),
         op.alone /\ op.again => result # "refused",
         /\ op.alone /\ op.found /\ overlay.merged /\ overlay.alone
         /\ result \in {"merged", "unchanged"}
         => Good(overlay, op.mode, route, place')
  PROVE  JInv'
<1>1. pc' = "idle"
  BY DEF End
<1>2. LayersInv'
  BY <1>1 DEF LayersInv, Exists
<1>3. AloneInv'
  BY <1>1 DEF JInv, AloneInv
<1>4. CalmInv'
  BY <1>1 DEF CalmInv
<1>5. LastInv'
  BY EndsLast
<1> QED BY <1>2, <1>3, <1>4, <1>5 DEF JInv

(* The invariant of the layers, action by action: the start of an operation,*)
LEMMA StartsJ ==
  ASSUME IInv, JInv, NEW mode \in MutableModes, NEW images \in AllImages, NEW always,
         Starts(mode, images, always)
  PROVE  JInv'
<1>1. /\ UNCHANGED <<route, place, overlay, calm>> /\ last' = None
      /\ pc = "idle" /\ pc' \in {"down", "plan"}
      /\ op'.mode = mode /\ op'.images = images /\ op'.origin = None
      /\ op'.found = place["self"].exists /\ op'.alone = TRUE
      /\ op'.again = (/\ overlay.merged /\ calm
                      /\ overlay.origin.mode = mode
                      /\ overlay.origin.images = images)
  BY DEF Starts, Users, Exists
<1>2. LayersInv'
  BY <1>1 DEF JInv, LayersInv, Exists
<1>3. AloneInv'
  BY <1>1 DEF JInv, AloneInv, Exists
<1>4. CalmInv'
  BY <1>1 DEF JInv, CalmInv, Calm, Repeatable
<1> QED BY <1>1, <1>2, <1>3, <1>4, LastNone DEF JInv

(* While the merge to be repeated is in place, planning finds nothing wrong. *)
LEMMA PlanFailsJ ==
  ASSUME IInv, JInv, PlanFails
  PROVE  JInv'
<1>1. /\ pc = "plan" /\ ~Resolves(op.mode) /\ End("refused")
      /\ UNCHANGED <<overlay, route, calm, place>>
  BY DEF PlanFails, Users
<1>2. ASSUME op.alone, op.again
      PROVE  FALSE
  <2>1. /\ Repeatable(op.mode, op.images, route, place) /\ calm /\ overlay.merged
        /\ op.found /\ overlay.origin.mode = op.mode
    BY <1>1, <1>2 DEF JInv, CalmInv, LayersInv
  <2>2. HierarchyMode = place["self"].mode /\ ModeAt("self") = place["self"].mode
    BY <1>1, <2>1, CalmMode
  <2>3. route \in Places
    BY DEF IInv
  <2>4. MutableDirModeMatches(op.mode)
    BY <2>1, <2>2, <2>3 DEF MutableDirModeMatches, Repeatable, ModeAt, Exists, Places
  <2>5. PICK x : x = route
    OBVIOUS
  <2>6. op.mode = "yes" /\ Exists(route) /\ IsReadOnly(route)
    BY <1>1, <2>4 DEF Resolves
  <2>7. CASE route = "self"
    <3>1. overlay.upper = None
      BY <2>1, <2>6, <2>7 DEF IsReadOnly
    <3>2. Calm(overlay, route, place)
      BY <2>1 DEF JInv, CalmInv
    <3> QED BY <1>1, <2>1, <2>6, <3>1, <3>2 DEF Calm
  <2>8. CASE route # "self"
    BY <2>1, <2>6, <2>8 DEF IsReadOnly, Repeatable, Exists
  <2> QED BY <2>7, <2>8
<1> QED BY <1>1, <1>2, CreatedJ, EndsJ

(* ... a refresh that finds nothing to do, so that what is merged is current,*)
LEMMA PlanUnchangedJ ==
  ASSUME IInv, JInv, PlanUnchanged
  PROVE  JInv'
<1>1. /\ pc = "plan" /\ End("unchanged") /\ place' = Created(op.mode)
      /\ UNCHANGED <<overlay, route, calm>>
      /\ overlay.merged /\ overlay.origin = Origin(op.mode, op.images)
  BY DEF PlanUnchanged, Users, Unchanged
<1>2. op.mode \in MutableModes /\ route \in Places
  BY <1>1 DEF IInv, OpInv
<1>3. /\ overlay.origin.mode = op.mode
      /\ overlay.origin.dir = ResolveMutableDir(op.mode)
  BY <1>1 DEF Origin
<1>4. /\ op.mode # "yes" \/ place[route].exists => place' = place
      /\ op.mode = "yes" => place'[route].exists
  BY <1>1, CreatedShape
<1>5. overlay.origin.dir = DirOf(op.mode, route, place')
  BY <1>3, <1>4, DirIs DEF DirOf, ModeIsEphemeral
<1>6. overlay.alone => Good(overlay, op.mode, route, place')
  <2>1. overlay.alone => Follows(overlay)
    BY <1>1 DEF JInv, AloneInv
  <2>2. Follows(overlay) => Good(overlay, overlay.origin.mode, route, place')
    BY <1>2, <1>3, <1>4, <1>5, FollowsGood
  <2> QED BY <1>3, <2>1, <2>2
<1> QED BY <1>1, <1>6, CreatedJ, EndsJ

(* ... no image has the hierarchy,                                          *)
LEMMA KeepHostJ ==
  ASSUME IInv, JInv, KeepHost
  PROVE  JInv'
<1>1. /\ pc = "assemble" /\ End("bare") /\ UNCHANGED <<overlay, route, calm, place>>
  BY DEF KeepHost, Users
<1> QED BY <1>1, CreatedJ, EndsJ

(* ... a fault of the system,                                               *)
LEMMA FailsJ ==
  ASSUME IInv, JInv, Fails
  PROVE  JInv'
<1>1. /\ pc # "idle" /\ End("failed") /\ UNCHANGED <<overlay, route, calm, place>>
  BY DEF Fails, Users
<1> QED BY <1>1, CreatedJ, EndsJ

(* What the lower layers are, and that there is more than one exactly if     *)
(* there is something to be below the metadata.                              *)
LEMMA LowerLength ==
  ASSUME NEW mode, NEW images \in AllImages, route \in Places
  PROVE  /\ Len(Lower(mode, images)) = 1 <=>
              /\ ImportedMutableDir(mode) = None
              /\ UsedLayers(images) = <<>>
              /\ ~HostAsLowerDir(mode)
         /\ ImportedMutableDir(mode) # None =>
              HasLayer(Lower(mode, images), ImportedMutableDir(mode))
<1> DEFINE imp == IF ImportedMutableDir(mode) = None THEN <<>>
                  ELSE <<ImportedMutableDir(mode)>>
           used == UsedLayers(images)
           host == IF HostAsLowerDir(mode) THEN <<"self">> ELSE <<>>
           T == Provides \cup Names
<1>1. Lower(mode, images) = <<"meta">> \o imp \o used \o host
  BY DEF Lower
<1>2. used \in Seq(Provides)
  BY ImagesFit, UsedFits
<1>3. used \in Seq(T)
  <2> HIDE DEF used
  <2> QED BY <1>2, SeqMonotonic
<1>4. ImportedMutableDir(mode) \in Places \cup {None}
  BY DEF ImportedMutableDir
<1>5. /\ imp \in Seq(T) /\ host \in Seq(T) /\ <<"meta">> \in Seq(T)
      /\ Len(<<"meta">>) = 1
      /\ Len(imp) = IF ImportedMutableDir(mode) = None THEN 0 ELSE 1
      /\ Len(host) = IF HostAsLowerDir(mode) THEN 1 ELSE 0
      /\ ImportedMutableDir(mode) # None => imp[1] = ImportedMutableDir(mode)
  <2>1. \A x \in Names : <<x>> \in Seq(T) /\ Len(<<x>>) = 1
    OBVIOUS
  <2>2. <<>> \in Seq(T) /\ Len(<<>>) = 0
    OBVIOUS
  <2>3. /\ ImportedMutableDir(mode) \in Names /\ "meta" \in Names /\ "self" \in Names
    BY <1>4 DEF Places, Names
  <2> HIDE DEF T
  <2>4. imp \in Seq(T) /\ Len(imp) = IF ImportedMutableDir(mode) = None THEN 0 ELSE 1
    <3>1. CASE ImportedMutableDir(mode) = None
      <4>1. imp = <<>>
        BY <3>1
      <4> HIDE DEF imp
      <4> QED BY <2>2, <3>1, <4>1
    <3>2. CASE ImportedMutableDir(mode) # None
      <4>1. imp = <<ImportedMutableDir(mode)>>
        BY <3>2
      <4> HIDE DEF imp
      <4> QED BY <2>1, <2>3, <3>2, <4>1
    <3> QED BY <3>1, <3>2
  <2>5. host \in Seq(T) /\ Len(host) = IF HostAsLowerDir(mode) THEN 1 ELSE 0
    <3>1. CASE HostAsLowerDir(mode)
      <4>1. host = <<"self">>
        BY <3>1
      <4> HIDE DEF host
      <4> QED BY <2>1, <2>3, <3>1, <4>1
    <3>2. CASE ~HostAsLowerDir(mode)
      <4>1. host = <<>>
        BY <3>2
      <4> HIDE DEF host
      <4> QED BY <2>2, <3>2, <4>1
    <3> QED BY <3>1, <3>2
  <2>6. ImportedMutableDir(mode) # None => imp[1] = ImportedMutableDir(mode)
    OBVIOUS
  <2> QED BY <2>1, <2>3, <2>4, <2>5, <2>6
<1>6. Len(used) \in Nat /\ (Len(used) = 0 <=> used = <<>>)
  <2> HIDE DEF used
  <2> QED BY <1>3, EmptySeq, LenProperties
<1> HIDE DEF imp, used, host, T
<1>7. /\ <<"meta">> \o imp \in Seq(T) /\ Len(<<"meta">> \o imp) = 1 + Len(imp)
      /\ ImportedMutableDir(mode) # None =>
           (<<"meta">> \o imp)[2] = ImportedMutableDir(mode)
  <2> DEFINE a == <<"meta">>
  <2> HIDE DEF a
  <2>1. /\ a \o imp \in Seq(T) /\ Len(a \o imp) = Len(a) + Len(imp)
        /\ \A i \in 1 .. Len(a) + Len(imp) :
             (a \o imp)[i] = IF i <= Len(a) THEN a[i] ELSE imp[i - Len(a)]
    BY <1>5, ConcatProperties DEF a
  <2>2. Len(a) = 1
    BY DEF a
  <2> QED BY <1>5, <2>1, <2>2 DEF a
<1> DEFINE b == <<"meta">> \o imp
           c == b \o used
           d == c \o host
<1>8. b \in Seq(T) /\ Len(b) = 1 + Len(imp)
  BY <1>7
<1> HIDE DEF b
<1>9. /\ c \in Seq(T) /\ Len(c) = Len(b) + Len(used)
      /\ \A i \in 1 .. Len(b) + Len(used) :
           c[i] = IF i <= Len(b) THEN b[i] ELSE used[i - Len(b)]
  <2>1. used \in Seq(T) /\ b \in Seq(T)
    BY <1>3, <1>8
  <2> QED BY <2>1, ConcatProperties
<1> HIDE DEF c
<1>10. /\ d \in Seq(T) /\ Len(d) = Len(c) + Len(host)
       /\ \A i \in 1 .. Len(c) + Len(host) :
            d[i] = IF i <= Len(c) THEN c[i] ELSE host[i - Len(c)]
  <2>1. host \in Seq(T) /\ c \in Seq(T)
    BY <1>5, <1>9
  <2> QED BY <2>1, ConcatProperties
<1> HIDE DEF d
<1>11. Lower(mode, images) = d
  BY <1>1 DEF b, c, d
<1>12. Len(d) = 1 + Len(imp) + Len(used) + Len(host)
  BY <1>5, <1>6, <1>8, <1>9, <1>10
<1>13. ASSUME ImportedMutableDir(mode) # None
       PROVE  HasLayer(d, ImportedMutableDir(mode))
  <2>1. b[2] = ImportedMutableDir(mode) /\ Len(imp) = 1 /\ Len(b) = 2
    BY <1>5, <1>7, <1>8, <1>13 DEF b
  <2>2. c[2] = b[2] /\ Len(c) \in Nat /\ 2 <= Len(c)
    BY <1>6, <1>9, <2>1
  <2>3. d[2] = c[2] /\ 2 \in 1 .. Len(d)
    BY <1>5, <1>10, <2>2
  <2>4. DOMAIN d = 1 .. Len(d)
    BY <1>10, LenProperties
  <2> QED BY <2>1, <2>2, <2>3, <2>4 DEF HasLayer
<1>14. Len(d) = 1 <=> Len(imp) = 0 /\ Len(used) = 0 /\ Len(host) = 0
  <2>1. Len(imp) \in Nat /\ Len(host) \in Nat
    BY <1>5
  <2> QED BY <1>6, <1>12, <2>1
<1>15. /\ Len(imp) = 0 <=> ImportedMutableDir(mode) = None
       /\ Len(host) = 0 <=> ~HostAsLowerDir(mode)
  BY <1>5
<1> QED BY <1>6, <1>11, <1>13, <1>14, <1>15 DEF used

(* With the hierarchy bare, nothing stands in the way of the merge that is   *)
(* to be repeated.                                                           *)
LEMMA NotRefused ==
  ASSUME IInv, JInv, pc = "assemble", op.alone, op.again
  PROVE  /\ ~Refusal
         /\ UpperDir(op.mode) = None => Len(Lower(op.mode, op.images)) # 1
<1>1. /\ Repeatable(op.mode, op.images, route, place) /\ op.found
      /\ overlay = Bare /\ route \in Places /\ op.mode \in MutableModes
      /\ op.images \in AllImages
  BY DEF JInv, CalmInv, LayersInv, IInv, WorkInv, OpInv
<1>2. ~overlay.merged
  BY <1>1 DEF Bare
<1>3. HierarchyMode = place["self"].mode /\ ModeAt(route) = place[route].mode
  BY <1>1, <1>2 DEF HierarchyMode, ModeAt
<1>4. Resolves(op.mode)
  BY <1>1, <1>2, <1>3 DEF Resolves, MutableDirModeMatches, IsReadOnly, Repeatable, Exists
<1>5. None \notin Places /\ "workspace" \notin Places
  BY LayersAssumption DEF Places
<1>6. ~ImportsItself(op.mode)
  <2>1. "own" # "self" /\ None # "self"
    BY <1>5 DEF Places
  <2> QED BY <1>1, <2>1 DEF ImportsItself, ImportedMutableDir, Repeatable
<1>7. UpperDir(op.mode) \in Places =>
        op.mode \in {"auto", "yes"} /\ UpperDir(op.mode) = route
  BY <1>1, <1>5
  DEF UpperDir, ResolveMutableDir, MutableModes, ModeIsEphemeral
<1>8. UpperIsUsable(op.mode)
  BY <1>1, <1>7 DEF UpperIsUsable, Repeatable, Exists
<1>9. ASSUME UpperDir(op.mode) = None
      PROVE  Len(Lower(op.mode, op.images)) # 1
  <2>1. op.mode \in {"no", "import"} \/ (op.mode = "auto" /\ ~place[route].exists)
    BY <1>1, <1>5, <1>9, LayersAssumption
    DEF UpperDir, ResolveMutableDir, MutableModes, ModeIsEphemeral, Exists
  <2>2. \/ ImportedMutableDir(op.mode) # None
        \/ UsedLayers(op.images) # <<>>
        \/ HostAsLowerDir(op.mode)
    <3>1. \/ op.mode = "import" /\ place[route].exists
          \/ UsedLayers(op.images) # <<>>
          \/ place["self"].file # None \/ place["self"].stale
      BY <1>1, <2>1 DEF Repeatable
    <3>2. op.mode = "import" /\ place[route].exists => ImportedMutableDir(op.mode) # None
      BY <1>1, <1>5 DEF ImportedMutableDir, Exists
    <3>3. op.mode = "import" \/ ResolveMutableDir(op.mode) # "self"
      BY <2>1, LayersAssumption DEF ResolveMutableDir, ModeIsEphemeral, Exists
    <3> QED BY <1>1, <3>1, <3>2, <3>3 DEF HostAsLowerDir, DirIsEmpty
  <2> QED BY <1>1, <2>2, LowerLength
<1> QED BY <1>4, <1>6, <1>8, <1>9 DEF Refusal

(* ... a refusal, which no repeated merge meets (NotRefused),               *)
LEMMA RefuseJ ==
  ASSUME IInv, JInv, Refuse
  PROVE  JInv'
<1>1. /\ pc = "assemble" /\ Refusal /\ End("refused")
      /\ place' = place \/ place' = Created(op.mode)
      /\ UNCHANGED <<overlay, route, calm>>
  BY DEF Refuse, Users
<1> QED BY <1>1, CreatedJ, EndsJ, NotRefused

(* ... the plan,                                                            *)
LEMMA PlanJ ==
  ASSUME IInv, JInv, Plan
  PROVE  JInv'
<1>1. op = [mode |-> op.mode, images |-> op.images, always |-> op.always,
            found |-> op.found, origin |-> op.origin, drop |-> op.drop,
            staged |-> op.staged, alone |-> op.alone, again |-> op.again]
  BY DEF IInv, OpInv, Plan
<1>2. /\ op'.mode = op.mode /\ op'.images = op.images /\ op'.found = op.found
      /\ op'.alone = op.alone /\ op'.again = op.again
      /\ op'.origin = Origin(op.mode, op.images)
  BY <1>1 DEF Plan
<1>3. /\ op'.origin.images = op.images
      /\ op'.origin.dir = DirOf(op.mode, route, place)
  BY <1>2, DirIs DEF Origin
<1>4. /\ pc = "plan" /\ pc' = (IF ~overlay.merged THEN "assemble" ELSE "down")
      /\ UNCHANGED <<route, overlay, last, calm>> /\ place' = Created(op.mode)
  BY DEF Plan, Users
<1>5. /\ op.mode # "yes" \/ place[route].exists => place' = place
      /\ \A x \in Places : x # route \/ place[x].exists => place'[x] = place[x]
      /\ op.mode = "yes" /\ ~place[route].exists => place'[route].file = None
      /\ op.mode = "yes" => place'[route].exists
  BY <1>4, CreatedShape
<1>6. op'.origin.dir = DirOf(op.mode, route, place')
  BY <1>3, <1>5 DEF DirOf, ModeIsEphemeral
<1>7. place["self"].exists => place'["self"] = place["self"]
  BY <1>5 DEF Places
<1>8. ~place["self"].exists /\ place'["self"].exists => place'["self"].file = None
  BY <1>5 DEF Places
<1>9. /\ overlay.merged => Layered(overlay, place') /\ place'["self"].exists
      /\ calm /\ overlay.merged => Calm(overlay, route, place')
  BY <1>4, CreatedJ
<1>10. LayersInv'
  BY <1>2, <1>3, <1>4, <1>7, <1>8, <1>9 DEF JInv, LayersInv, Exists
<1>11. AloneInv'
  BY <1>2, <1>3, <1>4, <1>6, <1>7 DEF JInv, AloneInv, Exists
<1>12. ASSUME op.alone, op.again
       PROVE  op.found /\ Repeatable(op.mode, op.images, route, place')
                /\ calm /\ overlay.merged /\ overlay.origin.mode = op.mode
  <2>1. /\ op.found /\ Repeatable(op.mode, op.images, route, place)
        /\ calm /\ overlay.merged /\ overlay.origin.mode = op.mode
    BY <1>4, <1>12 DEF JInv, CalmInv
  <2>2. op.mode \in MutableModes
    BY <1>4 DEF IInv, OpInv
  <2> QED BY <1>4, <2>1, <2>2, CalmMode, RepeatableGrows
<1>13. CalmInv'
  BY <1>2, <1>4, <1>9, <1>12 DEF JInv, CalmInv
<1>14. last' = None
  BY <1>4 DEF JInv, LastInv
<1> QED BY <1>10, <1>11, <1>13, <1>14, LastNone DEF JInv

(* ... the unmount,                                                         *)
LEMMA UnmountJ ==
  ASSUME IInv, JInv, Unmount
  PROVE  JInv'
<1>1. op = [mode |-> op.mode, images |-> op.images, always |-> op.always,
            found |-> op.found, origin |-> op.origin, drop |-> op.drop,
            staged |-> op.staged, alone |-> op.alone, again |-> op.again]
  BY DEF IInv, OpInv, Unmount
<1>2. /\ op'.mode = op.mode /\ op'.images = op.images /\ op'.found = op.found
      /\ op'.alone = op.alone /\ op'.again = op.again /\ op'.origin = op.origin
  BY <1>1 DEF Unmount
<1>3. /\ pc = "down" /\ pc' = "work" /\ ~overlay'.merged
      /\ UNCHANGED <<route, place, last, calm>>
  BY DEF Unmount, Users, Bare
<1>4. LayersInv'
  BY <1>2, <1>3 DEF JInv, LayersInv, Exists
<1>5. AloneInv'
  BY <1>2, <1>3 DEF JInv, AloneInv, Exists
<1>6. CalmInv'
  BY <1>2, <1>3 DEF JInv, CalmInv
<1>7. last' = None
  BY <1>3 DEF JInv, LastInv
<1> QED BY <1>4, <1>5, <1>6, <1>7, LastNone DEF JInv

(* ... the removal of the work directory,                                   *)
LEMMA RemoveWorkDirJ ==
  ASSUME IInv, JInv, RemoveWorkDir
  PROVE  JInv'
<1>1. pc = "work" /\ UNCHANGED <<route, place, overlay, calm>>
  BY DEF RemoveWorkDir, Users
<1>2. CASE End("unmerged")
  BY <1>1, <1>2, CreatedJ, EndsJ
<1>3. CASE op.origin # None /\ pc' = "assemble" /\ UNCHANGED <<op, last>>
  <2>1. LayersInv'
    BY <1>1, <1>3 DEF JInv, LayersInv, Exists
  <2>2. AloneInv'
    BY <1>1, <1>3 DEF JInv, AloneInv, Exists
  <2>3. CalmInv'
    BY <1>1, <1>3 DEF JInv, CalmInv
  <2>4. last' = None
    BY <1>1, <1>3 DEF JInv, LastInv
  <2> QED BY <2>1, <2>2, <2>3, <2>4, LastNone DEF JInv
<1> QED BY <1>2, <1>3 DEF RemoveWorkDir, Unmerged

(* The upper directory as Assemble chooses it.                               *)
LEMMA UpperShape ==
  ASSUME NEW mode \in MutableModes, route \in Places
  PROVE  /\ mode = "auto" => UpperDir(mode) = IF place[route].exists THEN route ELSE None
         /\ mode = "yes" => UpperDir(mode) = route
         /\ ModeIsEphemeral(mode) => UpperDir(mode) = "workspace"
         /\ mode \in {"no", "import"} => UpperDir(mode) = None
         /\ UpperDir(mode) \in Places => UpperDir(mode) = route /\ mode \in {"auto", "yes"}
         /\ UpperDir(mode) = IF mode = "import" THEN None ELSE DirOf(mode, route, place)
<1>1. None \notin Places /\ "workspace" \notin Places
  BY LayersAssumption DEF Places
<1>2. /\ mode = "auto" => UpperDir(mode) = IF place[route].exists THEN route ELSE None
      /\ mode = "yes" => UpperDir(mode) = route
      /\ ModeIsEphemeral(mode) => UpperDir(mode) = "workspace"
      /\ mode \in {"no", "import"} => UpperDir(mode) = None
  BY DEF UpperDir, ResolveMutableDir, ModeIsEphemeral, Exists
<1>3. mode \in {"auto", "yes", "no", "import"} \/ ModeIsEphemeral(mode)
  BY DEF MutableModes, ModeIsEphemeral
<1>4. UpperDir(mode) = IF mode = "import" THEN None ELSE DirOf(mode, route, place)
  BY DirIs DEF UpperDir
<1> QED BY <1>1, <1>2, <1>3, <1>4

(* The top layer gets the mode of the hierarchy and keeps the rest, but for  *)
(* metadata of an earlier merge.                                             *)
LEMMA TopBecomes ==
  ASSUME NEW d, IsDirectory(d), NEW m
  PROVE  LET n == [d EXCEPT !.mode = m, !.stale = FALSE]
         IN /\ n.mode = m /\ ~n.stale /\ n.file = d.file /\ n.on = d.on
            /\ n.exists = d.exists
<1> DEFINE c == [d EXCEPT !.mode = m]
<1>1. IsDirectory(c) /\ c.mode = m /\ c.file = d.file /\ c.on = d.on /\ c.exists = d.exists
  BY DEF IsDirectory
<1>2. [d EXCEPT !.mode = m, !.stale = FALSE] = [c EXCEPT !.stale = FALSE]
  OBVIOUS
<1> HIDE DEF c
<1> QED BY <1>1, <1>2 DEF IsDirectory

(* The places after Assemble.                                                *)
LEMMA AssemblePlaces ==
  ASSUME IInv, Assemble
  PROVE  LET upper == UpperDir(op.mode)
             made == Created(op.mode)
         IN /\ \A x \in Places : x # upper => place'[x] = made[x]
            /\ upper \in Places =>
                 /\ place'[upper].mode = HierarchyMode /\ ~place'[upper].stale
                 /\ place'[upper].file = made[upper].file
                 /\ place'[upper].on = made[upper].on
                 /\ place'[upper].exists /\ made[upper].exists
            /\ \A x \in Places : place'[x].exists = made[x].exists
<1> DEFINE upper == UpperDir(op.mode)
           made == Created(op.mode)
<1>1. place' = IF upper \in Places
               THEN [made EXCEPT ![upper].mode = HierarchyMode,
                                 ![upper].stale = FALSE]
               ELSE made
  BY DEF Assemble
<1>2. /\ made = [x \in Places |-> made[x]]
      /\ \A x \in Places : made[x] = Missing \/ IsDirectory(made[x])
  BY CreatedFits, Zenon DEF IInv
<1>3. op.mode \in MutableModes /\ route \in Places
  BY DEF IInv, OpInv, Assemble
<1>4. upper \in Places => upper = route /\ op.mode \in {"auto", "yes"}
  BY <1>3, UpperShape
<1>5. upper \in Places => made[upper].exists
  <2>1. op.mode = "auto" /\ upper \in Places => place[route].exists
    BY <1>3, UpperShape, LayersAssumption DEF Places
  <2>2. op.mode = "yes" => made[route].exists
    BY CreatedShape
  <2>3. place[route].exists => made[route] = place[route]
    BY <1>3, CreatedShape
  <2> HIDE DEF upper, made
  <2> QED BY <1>4, <2>1, <2>2, <2>3
<1> HIDE DEF upper, made
<1>6. ASSUME upper \in Places
      PROVE  /\ place'[upper] = [made[upper] EXCEPT !.mode = HierarchyMode, !.stale = FALSE]
             /\ \A x \in Places : x # upper => place'[x] = made[x]
  BY <1>1, <1>2, <1>6
<1>7. upper \in Places => IsDirectory(made[upper])
  <2>1. Missing.exists = FALSE
    BY DEF Missing
  <2> QED BY <1>2, <1>5, <2>1
<1>8. upper \in Places =>
        /\ place'[upper].mode = HierarchyMode /\ ~place'[upper].stale
        /\ place'[upper].file = made[upper].file
        /\ place'[upper].on = made[upper].on
        /\ place'[upper].exists = made[upper].exists
  <2> SUFFICES ASSUME upper \in Places
               PROVE  /\ place'[upper].mode = HierarchyMode /\ ~place'[upper].stale
                      /\ place'[upper].file = made[upper].file
                      /\ place'[upper].on = made[upper].on
                      /\ place'[upper].exists = made[upper].exists
    OBVIOUS
  <2>1. PICK d : d = made[upper]
    OBVIOUS
  <2>2. PICK m : m = HierarchyMode
    OBVIOUS
  <2>3. IsDirectory(d) /\ place'[upper] = [d EXCEPT !.mode = m, !.stale = FALSE]
    BY <1>6, <1>7, <2>1, <2>2
  <2> QED BY <2>1, <2>2, <2>3, TopBecomes
<1>9. \A x \in Places : x # upper => place'[x] = made[x]
  BY <1>1, <1>6
<1> QED BY <1>5, <1>8, <1>9 DEF upper, made

(* The overlay that is staged.                                               *)
LEMMA AssembleStages ==
  ASSUME IInv, JInv, Assemble, pc' # "idle"
  PROVE  /\ pc' = "staged" /\ UNCHANGED <<route, overlay, last, calm>>
         /\ op'.mode = op.mode /\ op'.images = op.images /\ op'.found = op.found
         /\ op'.alone = op.alone /\ op'.again = op.again /\ op'.origin = op.origin
         /\ op'.staged.origin = op.origin
         /\ op'.staged.lower = Lower(op.mode, op.images)
         /\ op'.staged.upper = UpperDir(op.mode)
         /\ op'.staged.meta = HierarchyMode /\ op'.staged.scratch.mode = HierarchyMode
         /\ op'.staged.routed = IF Created(op.mode)[route].exists THEN route ELSE None
         /\ UpperDir(op.mode) = None => Len(Lower(op.mode, op.images)) # 1
<1>1. op = [mode |-> op.mode, images |-> op.images, always |-> op.always,
            found |-> op.found, origin |-> op.origin, drop |-> op.drop,
            staged |-> op.staged, alone |-> op.alone, again |-> op.again]
  BY DEF IInv, OpInv, Assemble
<1>2. PICK s : s = [merged |-> TRUE, origin |-> op.origin,
                    lower |-> Lower(op.mode, op.images),
                    upper |-> UpperDir(op.mode), meta |-> HierarchyMode,
                    scratch |-> Fresh(HierarchyMode),
                    worked |-> Recorded(UpperDir(op.mode)),
                    routed |-> IF Created(op.mode)[route].exists THEN route ELSE None,
                    alone |-> TRUE]
  OBVIOUS
<1>3. /\ op' = [op EXCEPT !.staged = s] /\ pc' = "staged"
      /\ UNCHANGED <<route, overlay, last, calm>>
      /\ UpperDir(op.mode) = None => Len(Lower(op.mode, op.images)) # 1
  BY <1>2 DEF Assemble, End, Users
<1>4. /\ op'.mode = op.mode /\ op'.images = op.images /\ op'.found = op.found
      /\ op'.alone = op.alone /\ op'.again = op.again /\ op'.origin = op.origin
      /\ op'.staged = s
  BY <1>1, <1>3
<1>5. Fresh(HierarchyMode).mode = HierarchyMode
  BY DEF Fresh, Directory
<1>6. /\ s.origin = op.origin /\ s.lower = Lower(op.mode, op.images)
      /\ s.upper = UpperDir(op.mode) /\ s.meta = HierarchyMode
      /\ s.scratch = Fresh(HierarchyMode)
      /\ s.routed = IF Created(op.mode)[route].exists THEN route ELSE None
  BY <1>2
<1> QED BY <1>3, <1>4, <1>5, <1>6

(* Its layers are those of its mode.                                         *)
LEMMA AssembleLayered ==
  ASSUME IInv, JInv, Assemble, pc' # "idle"
  PROVE  Layered(op'.staged, place')
<1> DEFINE mode == op.mode
           upper == UpperDir(mode)
           made == Created(mode)
           o == op'.staged
<1>1. /\ mode \in MutableModes /\ route \in Places /\ op.images \in AllImages
      /\ op.origin.mode = mode /\ op.origin.images = op.images
      /\ overlay = Bare /\ pc = "assemble"
      /\ ~op.found /\ place["self"].exists => place["self"].file = None
  BY DEF IInv, OpInv, WorkInv, Assemble, JInv, LayersInv, Exists
<1>2. /\ o.origin = op.origin /\ o.lower = Lower(mode, op.images) /\ o.upper = upper
      /\ o.routed = IF made[route].exists THEN route ELSE None
  BY AssembleStages
<1>3. /\ mode # "yes" \/ place[route].exists => made = place
      /\ \A x \in Places : x # route \/ place[x].exists => made[x] = place[x]
      /\ mode = "yes" /\ ~place[route].exists => made[route].file = None
      /\ mode = "yes" => made[route].exists
  BY CreatedShape
<1>4. /\ \A x \in Places : x # upper => place'[x] = made[x]
      /\ upper \in Places => ~place'[upper].stale
  BY AssemblePlaces
<1>5. /\ mode = "auto" => upper = IF place[route].exists THEN route ELSE None
      /\ mode = "yes" => upper = route
      /\ ModeIsEphemeral(mode) => upper = "workspace"
      /\ mode \in {"no", "import"} => upper = None
  BY <1>1, UpperShape
<1>6. upper = IF mode \in {"auto", "yes"} THEN o.routed
              ELSE IF ModeIsEphemeral(mode) THEN "workspace" ELSE None
  <2> HIDE DEF mode, upper, made, o
  <2> QED BY <1>1, <1>2, <1>3, <1>5 DEF MutableModes, ModeIsEphemeral
<1>7. ImportOf(o) = IF ImportedMutableDir(mode) = None THEN <<>>
                    ELSE <<ImportedMutableDir(mode)>>
  <2>1. ImportedMutableDir(mode) =
          IF mode \in {"import", "ephemeral-import"} /\ place[route].exists
          THEN route ELSE None
    BY DEF ImportedMutableDir, Exists
  <2>2. mode \in {"import", "ephemeral-import"} => made = place
    BY <1>3
  <2>3. route # None
    BY <1>1, LayersAssumption DEF Places
  <2> HIDE DEF mode, upper, made, o
  <2> QED BY <1>1, <1>2, <2>1, <2>2, <2>3 DEF ImportOf
<1> DEFINE host == IF HostAsLowerDir(mode) THEN <<"self">> ELSE <<>>
<1>8. o.lower = <<"meta">> \o ImportOf(o) \o UsedLayers(op.images) \o host
  BY <1>2, <1>7 DEF Lower
<1>9. ASSUME host = <<>>, upper # "self", place'["self"].exists
      PROVE  place'["self"].file = None
  <2>1. place'["self"] = made["self"]
    BY <1>4, <1>9 DEF Places
  <2>2. CASE place["self"].exists
    <3>1. made["self"] = place["self"]
      BY <1>3, <2>2 DEF Places
    <3>2. ~HostAsLowerDir(mode)
      BY <1>9
    <3>3. \/ ~op.found \/ DirIsEmpty("self")
          \/ /\ mode \notin {"import", "ephemeral-import"}
             /\ ResolveMutableDir(mode) = "self"
      BY <3>2 DEF HostAsLowerDir
    <3>4. /\ mode \notin {"import", "ephemeral-import"}
          /\ ResolveMutableDir(mode) = "self"
          => upper = "self"
      BY DEF UpperDir
    <3> QED BY <1>1, <1>9, <2>1, <2>2, <3>1, <3>3, <3>4 DEF DirIsEmpty
  <2>3. CASE ~place["self"].exists
    BY <1>3, <1>9, <2>1, <2>3 DEF Places
  <2> QED BY <2>2, <2>3
<1>10. host \in {<<"self">>, <<>>}
  OBVIOUS
<1>11. o.routed \in Places \cup {None}
  BY <1>1, <1>2
<1>12. upper \in Places => ~place'[upper].stale
  BY <1>4
<1> HIDE DEF mode, upper, made, o, host
<1>13. Layered(o, place')
  BY <1>1, <1>2, <1>6, <1>8, <1>9, <1>10, <1>11, <1>12 DEF Layered
<1> QED BY <1>13 DEF o

(* It can be repeated if nobody disturbed the operation.                     *)
LEMMA AssembleCalm ==
  ASSUME IInv, JInv, Assemble, pc' # "idle", op.alone, op.found
  PROVE  Calm(op'.staged, route, place')
<1> DEFINE mode == op.mode
           upper == UpperDir(mode)
           made == Created(mode)
           o == op'.staged
<1>1. /\ mode \in MutableModes /\ route \in Places /\ op.images \in AllImages
      /\ op.origin.mode = mode /\ op.origin.images = op.images
      /\ overlay = Bare /\ pc = "assemble" /\ ~Refusal
      /\ place["self"].exists
  BY DEF IInv, OpInv, WorkInv, Assemble, JInv, LayersInv, AloneInv, Exists
<1>2. /\ o.origin = op.origin /\ o.upper = upper
      /\ o.meta = HierarchyMode /\ o.scratch.mode = HierarchyMode
      /\ upper = None => Len(Lower(mode, op.images)) # 1
  BY AssembleStages
<1>3. /\ mode # "yes" \/ place[route].exists => made = place
      /\ \A x \in Places : x # route \/ place[x].exists => made[x] = place[x]
      /\ mode = "yes" /\ ~place[route].exists => made[route].on = "same"
      /\ mode = "yes" => made[route].exists
  BY CreatedShape
<1>4. /\ \A x \in Places : x # upper => place'[x] = made[x]
      /\ upper \in Places =>
           /\ place'[upper].mode = HierarchyMode /\ place'[upper].on = made[upper].on
      /\ \A x \in Places : place'[x].exists = made[x].exists
  BY AssemblePlaces
<1>5. /\ mode = "auto" => upper = IF place[route].exists THEN route ELSE None
      /\ mode = "yes" => upper = route
      /\ ModeIsEphemeral(mode) => upper = "workspace"
      /\ mode \in {"no", "import"} => upper = None
      /\ upper \in Places => upper = route /\ mode \in {"auto", "yes"}
  BY <1>1, UpperShape
<1>6. HierarchyMode = place["self"].mode
  BY <1>1 DEF HierarchyMode, ModeAt, Bare
<1>7. "self" \in Places /\ None \notin Places /\ "workspace" \notin Places
        /\ None # "workspace"
  BY LayersAssumption DEF Places
<1>8. made["self"] = place["self"]
  BY <1>1, <1>3, <1>7
<1>9. place'["self"].exists /\ place'["self"].mode = HierarchyMode
  <2>1. made["self"].mode = HierarchyMode
    BY <1>6, <1>8
  <2> HIDE DEF upper, made
  <2> QED BY <1>1, <1>4, <1>7, <1>8, <2>1
<1>10. UpperDir(mode) \in Places /\ place[UpperDir(mode)].exists =>
         place[UpperDir(mode)].on = "same"
  BY <1>1 DEF Refusal, UpperIsUsable, Exists
<1>11. mode \in {"import", "ephemeral-import"} => route = "own"
  <2>1. ~ImportsItself(mode)
    BY <1>1 DEF Refusal
  <2> QED BY <1>1, <2>1 DEF ImportsItself, ImportedMutableDir, Exists, Places
<1>12. upper = None =>
         \/ ImportedMutableDir(mode) # None
         \/ UsedLayers(op.images) # <<>>
         \/ HostAsLowerDir(mode)
  BY <1>1, <1>2, LowerLength
<1>13. HostAsLowerDir(mode) => place["self"].file # None \/ place["self"].stale
  BY DEF HostAsLowerDir, DirIsEmpty
<1>14. ImportedMutableDir(mode) # None =>
         mode \in {"import", "ephemeral-import"} /\ place[route].exists
  BY DEF ImportedMutableDir, Exists
<1>15. ModeIsEphemeral(mode) => mode \notin {"no", "import", "auto", "yes"}
  BY DEF ModeIsEphemeral
<1> HIDE DEF mode, made, o
<1>16. ASSUME mode \in {"auto", "yes"}, place'[route].exists
       PROVE  place'[route].mode = place'["self"].mode /\ place'[route].on = "same"
  <2>1. upper = route
    <3>1. mode = "auto" => made = place
      BY <1>3, <1>16
    <3> QED BY <1>1, <1>4, <1>5, <1>16, <3>1
  <2>2. made[route].on = "same"
    <3>1. CASE place[route].exists
      <4>1. made[route] = place[route]
        BY <1>1, <1>3, <3>1
      <4> QED BY <1>1, <1>10, <2>1, <3>1, <4>1
    <3>2. CASE ~place[route].exists
      <4>1. mode = "yes"
        BY <1>1, <1>3, <1>4, <1>16, <3>2
      <4> QED BY <1>3, <3>2, <4>1
    <3> QED BY <3>1, <3>2
  <2> QED BY <1>1, <1>4, <1>9, <2>1, <2>2
<1> HIDE DEF upper
<1>17. mode \in {"no", "import"} \/ (mode = "auto" /\ ~place'[route].exists) =>
         \/ mode = "import" /\ place'[route].exists
         \/ UsedLayers(op.images) # <<>>
         \/ place'["self"].file # None \/ place'["self"].stale
  <2> SUFFICES ASSUME mode \in {"no", "import"} \/ (mode = "auto" /\ ~place'[route].exists)
               PROVE  \/ mode = "import" /\ place'[route].exists
                      \/ UsedLayers(op.images) # <<>>
                      \/ place'["self"].file # None \/ place'["self"].stale
    OBVIOUS
  <2>1. made = place
    BY <1>3
  <2>2. upper = None
    BY <1>1, <1>4, <1>5, <2>1
  <2>3. place'["self"] = place["self"] /\ place'[route].exists = place[route].exists
    BY <1>1, <1>4, <1>7, <2>1, <2>2
  <2> QED BY <1>12, <1>13, <1>14, <2>2, <2>3
<1>18. mode = "yes" => place'[route].exists /\ upper # None
  BY <1>1, <1>3, <1>4, <1>5, <1>7
<1>19. Repeatable(mode, op.images, route, place')
  BY <1>9, <1>11, <1>16, <1>17, <1>18 DEF Repeatable
<1>20. TopOf(o, place') = place'["self"].mode
  <2>1. upper \in Places \cup {"workspace", None}
    BY <1>1, <1>5 DEF MutableModes, ModeIsEphemeral
  <2> QED BY <1>2, <1>4, <1>7, <1>9, <2>1 DEF TopOf
<1>21. Calm(o, route, place')
  BY <1>1, <1>2, <1>18, <1>19, <1>20 DEF Calm
<1> QED BY <1>21 DEF o

(* ... the overlay staged over what is there,                               *)
LEMMA AssembleJ ==
  ASSUME IInv, JInv, Assemble
  PROVE  JInv'
<1>1. /\ pc = "assemble" /\ UNCHANGED <<route, overlay, calm>> /\ overlay = Bare
      /\ op.mode \in MutableModes /\ route \in Places
      /\ op.origin.mode = op.mode /\ op.origin.images = op.images
  BY DEF Assemble, Users, IInv, WorkInv, OpInv, JInv, LayersInv
<1>2. ~overlay.merged
  BY <1>1 DEF Bare
<1>3. \/ /\ pc' = "idle" /\ End("refused")
         /\ UpperDir(op.mode) = None /\ Len(Lower(op.mode, op.images)) = 1
      \/ pc' = "staged"
  BY DEF Assemble, End
<1>4. CASE pc' = "idle"
  <2>1. op.alone => ~op.again
    BY <1>1, <1>3, <1>4, NotRefused
  <2> QED BY <1>1, <1>2, <1>3, <1>4, <2>1, EndsJ
<1>5. CASE pc' = "staged"
  <2>1. pc' # "idle"
    BY <1>5
  <2>2. /\ UNCHANGED <<route, overlay, last, calm>>
        /\ op'.mode = op.mode /\ op'.images = op.images /\ op'.found = op.found
        /\ op'.alone = op.alone /\ op'.again = op.again /\ op'.origin = op.origin
        /\ op'.staged.origin = op.origin
        /\ op'.staged.lower = Lower(op.mode, op.images)
        /\ op'.staged.upper = UpperDir(op.mode)
    BY <2>1, AssembleStages
  <2>3. Layered(op'.staged, place')
    BY <2>1, AssembleLayered
  <2>4. op.alone /\ op.found => Calm(op'.staged, route, place')
    BY <2>1, AssembleCalm
  <2>5. \A x \in Places : place[x].exists => place'[x].exists
    <3>1. \A x \in Places : place'[x].exists = Created(op.mode)[x].exists
      BY AssemblePlaces
    <3> QED BY <3>1, CreatedShape
  <2>6. op.alone => op.origin.dir = DirOf(op.mode, route, place)
    BY <1>1 DEF JInv, AloneInv
  <2>7. DirOf(op.mode, route, place') = DirOf(op.mode, route, place)
    <3>1. op.mode # "yes" => Created(op.mode) = place
      BY CreatedShape
    <3>2. place'[route].exists = Created(op.mode)[route].exists
      BY <1>1, AssemblePlaces
    <3> QED BY <3>1, <3>2 DEF DirOf, ModeIsEphemeral
  <2>8. op.alone => Follows(op'.staged)
    <3> SUFFICES ASSUME op.alone PROVE Follows(op'.staged)
      OBVIOUS
    <3>1. UpperDir(op.mode) = IF op.mode = "import" THEN None
                              ELSE DirOf(op.mode, route, place)
      BY <1>1, UpperShape
    <3>2. op.mode = "import" => DirOf(op.mode, route, place) = ImportedMutableDir(op.mode)
      BY DEF DirOf, ImportedMutableDir, ModeIsEphemeral, Exists
    <3>3. op.images \in AllImages
      BY <1>1 DEF JInv, LayersInv
    <3>4. op.mode = "import" /\ op.origin.dir # None =>
            HasLayer(Lower(op.mode, op.images), op.origin.dir)
      BY <1>1, <2>6, <3>2, <3>3, LowerLength
    <3> QED BY <1>1, <2>2, <2>6, <3>1, <3>4 DEF Follows
  <2>9. LayersInv'
    BY <1>1, <1>2, <1>5, <2>2, <2>3 DEF JInv, LayersInv
  <2>10. "self" \in Places
    BY DEF Places
  <2>11. AloneInv'
    BY <1>1, <1>2, <1>5, <2>2, <2>5, <2>6, <2>7, <2>8, <2>10 DEF JInv, AloneInv, Exists
  <2>12. CalmInv'
    <3>1. calm => op.alone
      BY <1>1 DEF JInv, CalmInv
    <3>2. ASSUME op.alone, op.again
          PROVE  op.found /\ Repeatable(op.mode, op.images, route, place')
      <4>1. op.found
        BY <1>1, <3>2 DEF JInv, CalmInv
      <4> QED BY <1>1, <2>2, <2>4, <3>2, <4>1 DEF Calm
    <3> QED BY <1>1, <1>2, <1>5, <2>2, <2>4, <3>1, <3>2 DEF CalmInv
  <2>13. last' = None
    BY <1>1, <2>2 DEF JInv, LastInv
  <2> QED BY <2>9, <2>11, <2>12, <2>13, LastNone DEF JInv
<1> QED BY <1>3, <1>4, <1>5

(* ... and put on the hierarchy,                                            *)
LEMMA CommitJ ==
  ASSUME IInv, JInv, Commit
  PROVE  JInv'
<1>1. /\ pc = "staged" /\ End("merged") /\ route' = route
      /\ overlay' = [op.staged EXCEPT !.alone = op.alone]
      /\ calm' = (op.alone /\ op.found)
      /\ place' = IF place["self"].exists THEN place
                  ELSE [place EXCEPT !["self"] = Fresh(Default)]
  BY DEF Commit, Users, Exists
<1>2. /\ op.staged.merged /\ op.mode \in MutableModes /\ route \in Places
      /\ OverlayInv(op.staged, Existing) /\ op.staged # Bare
      /\ place = [x \in Places |-> place[x]] /\ op.origin.mode = op.mode
  BY <1>1, OverlayCases DEF IInv, OpInv, PlaceInv
<1>3. /\ Layered(op.staged, place) /\ op.staged.origin = op.origin
      /\ op.origin.images = op.images
  BY <1>1 DEF JInv, LayersInv
<1>4. /\ overlay'.merged /\ overlay'.origin = op.staged.origin
      /\ overlay'.lower = op.staged.lower /\ overlay'.upper = op.staged.upper
      /\ overlay'.meta = op.staged.meta /\ overlay'.scratch = op.staged.scratch
      /\ overlay'.routed = op.staged.routed /\ overlay'.alone = op.alone
  <2>1. op.staged = [merged |-> op.staged.merged, origin |-> op.staged.origin,
          lower |-> op.staged.lower, upper |-> op.staged.upper,
          meta |-> op.staged.meta, scratch |-> op.staged.scratch,
          worked |-> op.staged.worked, routed |-> op.staged.routed,
          alone |-> op.staged.alone]
    BY <1>2, Zenon DEF OverlayInv
  <2> QED BY <1>1, <1>2, <2>1
<1>5. Fresh(Default).exists /\ Fresh(Default).file = None
  BY FreshFits
<1>6. /\ place["self"].exists => place' = place
      /\ \A x \in Places \ {"self"} : place'[x] = place[x]
      /\ ~place["self"].exists => place'["self"] = Fresh(Default)
      /\ place'["self"].exists
  BY <1>1, <1>2, <1>5 DEF Places
<1>7. op.staged.upper \in Places => place[op.staged.upper].exists
  BY <1>2, Zenon DEF OverlayInv, Existing, Exists
<1>8. Layered(op.staged, place')
  <2>1. op.staged.upper \in Places => ~place'[op.staged.upper].stale
    BY <1>3, <1>6, <1>7 DEF Layered
  <2> QED BY <1>3, <1>5, <1>6, <2>1, LayeredStays
<1>9. Layered(overlay', place')
  BY <1>4, <1>8 DEF Layered, ImportOf
<1>10. op.alone => Follows(op.staged)
  BY <1>1 DEF JInv, AloneInv
<1>11. op.alone => Follows(overlay')
  BY <1>4, <1>10 DEF Follows
<1>12. pc' = "idle"
  BY <1>1 DEF End
<1>13. ASSUME op.alone, op.found
       PROVE  Calm(overlay', route', place')
  <2>1. Calm(op.staged, route, place)
    BY <1>1, <1>13 DEF JInv, CalmInv
  <2>2. place' = place
    BY <1>6, <2>1 DEF Calm, Repeatable
  <2> QED BY <1>1, <1>4, <2>1, <2>2 DEF Calm, TopOf
<1>14. ASSUME op.alone, op.found
       PROVE  Good(overlay', op.mode, route, place')
  <2>1. Calm(op.staged, route, place)
    BY <1>1, <1>14 DEF JInv, CalmInv
  <2>2. place' = place
    BY <1>6, <2>1 DEF Calm, Repeatable
  <2>3. op.origin.dir = DirOf(op.mode, route, place)
    BY <1>1, <1>14 DEF JInv, AloneInv
  <2>4. op.mode = "yes" => place[route].exists
    BY <1>2, <1>3, <2>1 DEF Calm, Repeatable
  <2>5. Good(op.staged, op.mode, route, place)
    <3>1. op.staged.origin.mode = op.mode /\ op.staged.origin.dir = op.origin.dir
      BY <1>2, <1>3
    <3>2. PICK m : m = op.mode
      OBVIOUS
    <3> QED BY <1>2, <1>10, <1>14, <2>3, <2>4, <3>1, FollowsGood
  <2> QED BY <1>4, <2>2, <2>5 DEF Good
<1>15. LayersInv'
  BY <1>6, <1>9, <1>12 DEF LayersInv, Exists
<1>16. AloneInv'
  BY <1>4, <1>11, <1>12 DEF AloneInv
<1>17. CalmInv'
  BY <1>1, <1>12, <1>13 DEF CalmInv
<1>18. LastInv'
  BY <1>1, <1>14, EndsLast
<1> QED BY <1>15, <1>16, <1>17, <1>18 DEF JInv

(* What users do disturbs an operation that runs, and a merge is not calm    *)
(* any more.                                                                 *)
LEMMA EditJ ==
  ASSUME IInv, JInv, Edit,
         overlay'.merged => overlay.merged,
         overlay'.merged =>
           /\ Layered(overlay', place') /\ place'["self"].exists
           /\ overlay'.alone => overlay.alone
           /\ Follows(overlay) => Follows(overlay'),
         pc = "staged" => Layered(op.staged, place'),
         pc # "idle" /\ ~op.found /\ place'["self"].exists =>
           place'["self"].file = None \/ pc = "staged"
  PROVE  JInv'
<1>1. pc' = pc /\ ~calm' /\ last' = None
  BY DEF Edit
<1>2. CASE pc = "idle"
  <2>1. LayersInv'
    BY <1>1, <1>2 DEF JInv, LayersInv, Exists
  <2>2. AloneInv'
    BY <1>1, <1>2 DEF JInv, AloneInv
  <2>3. CalmInv'
    BY <1>1, <1>2 DEF CalmInv
  <2> QED BY <1>1, <2>1, <2>2, <2>3, LastNone DEF JInv
<1>3. CASE pc # "idle"
  <2>1. op = [mode |-> op.mode, images |-> op.images, always |-> op.always,
              found |-> op.found, origin |-> op.origin, drop |-> op.drop,
              staged |-> op.staged, alone |-> op.alone, again |-> op.again]
    BY <1>3 DEF IInv, OpInv
  <2>2. op' = [op EXCEPT !.alone = FALSE]
    BY <1>3 DEF Edit
  <2>3. /\ op'.origin = op.origin /\ op'.mode = op.mode /\ op'.images = op.images
        /\ op'.staged = op.staged /\ op'.found = op.found /\ op'.alone = FALSE
    BY <2>1, <2>2
  <2>4. LayersInv'
    BY <1>1, <1>3, <2>3 DEF JInv, LayersInv, Exists
  <2>5. AloneInv'
    BY <1>1, <1>3, <2>3 DEF JInv, AloneInv
  <2>6. CalmInv'
    BY <1>1, <1>3, <2>3 DEF CalmInv
  <2> QED BY <1>1, <2>4, <2>5, <2>6, LastNone DEF JInv
<1> QED BY <1>2, <1>3

(* Writing and changing the mode through the overlay.                        *)
LEMMA UpperBecomesJ ==
  ASSUME IInv, JInv, NEW d, UpperBecomes(d), Edit, route' = route,
         overlay.upper \in Places => (d.stale <=> place[overlay.upper].stale) /\ d.exists
  PROVE  JInv'
<1>1. /\ overlay.merged /\ overlay.upper # None /\ overlay # Bare
      /\ Layered(overlay, place) /\ place["self"].exists
      /\ pc # "idle" => op.found
  BY OverlayCases DEF UpperBecomes, IInv, JInv, LayersInv, Exists
<1>2. pc # "staged"
  BY <1>1 DEF IInv, WorkInv, Bare
<1>3. CASE overlay.upper = "workspace"
  <2>1. overlay' = [overlay EXCEPT !.scratch = d] /\ place' = place
    BY <1>3 DEF UpperBecomes
  <2>2. overlay = [merged |-> overlay.merged, origin |-> overlay.origin,
          lower |-> overlay.lower, upper |-> overlay.upper,
          meta |-> overlay.meta, scratch |-> overlay.scratch,
          worked |-> overlay.worked, routed |-> overlay.routed,
          alone |-> overlay.alone]
    BY <1>1, Zenon DEF IInv, OverlayInv
  <2>3. /\ overlay'.merged = overlay.merged /\ overlay'.origin = overlay.origin
        /\ overlay'.lower = overlay.lower /\ overlay'.upper = overlay.upper
        /\ overlay'.routed = overlay.routed /\ overlay'.alone = overlay.alone
    BY <2>1, <2>2
  <2>4. Layered(overlay', place') /\ (Follows(overlay) => Follows(overlay'))
    BY <1>1, <2>1, <2>3 DEF Layered, ImportOf, Follows
  <2> QED BY <1>1, <1>2, <2>1, <2>3, <2>4, EditJ
<1>4. CASE overlay.upper # "workspace"
  <2>1. place' = [place EXCEPT ![overlay.upper] = d] /\ overlay' = overlay
    BY <1>4 DEF UpperBecomes
  <2>2. overlay.upper \in Places
    BY <1>1, <1>4 DEF IInv, OverlayInv
  <2>3. place = [x \in Places |-> place[x]]
    BY DEF IInv, PlaceInv
  <2>4. /\ place'[overlay.upper] = d
        /\ \A x \in Places : x # overlay.upper => place'[x] = place[x]
    BY <2>1, <2>2, <2>3
  <2>5. d.exists /\ ~d.stale
    BY <1>1, <2>2 DEF Layered
  <2>6. Layered(overlay, place') /\ place'["self"].exists
    BY <1>1, <2>2, <2>4, <2>5, LayeredStays DEF Places
  <2> QED BY <1>1, <1>2, <2>1, <2>6, EditJ
<1> QED BY <1>3, <1>4

(* ... a write,                                                             *)
LEMMA WriteThroughJ ==
  ASSUME IInv, JInv, WriteThrough
  PROVE  JInv'
<1> DEFINE d == [Upper EXCEPT !.file = Written(Meant)]
<1>1. overlay.merged /\ UpperBecomes(d) /\ Edit /\ route' = route
  BY DEF WriteThrough, UpperBecomes
<1>2. ASSUME overlay.upper \in Places
      PROVE  (d.stale <=> place[overlay.upper].stale) /\ d.exists
  <2>1. IsDirectory(Upper) /\ Upper = place[overlay.upper]
    BY <1>1, <1>2, UpperIsThere, Zenon
  <2>2. Upper.exists = TRUE /\ Upper = [exists |-> Upper.exists, mode |-> Upper.mode,
          file |-> Upper.file, stale |-> Upper.stale, on |-> Upper.on]
    BY <2>1, Zenon DEF IsDirectory
  <2>3. d.stale = Upper.stale /\ d.exists = Upper.exists
    BY <2>2
  <2> QED BY <2>1, <2>2, <2>3
<1> HIDE DEF d
<1> QED BY <1>1, <1>2, UpperBecomesJ

(* ... a change of mode,                                                    *)
LEMMA ChmodThroughJ ==
  ASSUME IInv, JInv, NEW m, ChmodThrough(m)
  PROVE  JInv'
<1> DEFINE d == [Upper EXCEPT !.mode = m]
<1>1. overlay.merged /\ UpperBecomes(d) /\ Edit /\ route' = route
  BY DEF ChmodThrough, UpperBecomes
<1>2. ASSUME overlay.upper \in Places
      PROVE  (d.stale <=> place[overlay.upper].stale) /\ d.exists
  <2>1. IsDirectory(Upper) /\ Upper = place[overlay.upper]
    BY <1>1, <1>2, UpperIsThere, Zenon
  <2>2. Upper.exists = TRUE /\ Upper = [exists |-> Upper.exists, mode |-> Upper.mode,
          file |-> Upper.file, stale |-> Upper.stale, on |-> Upper.on]
    BY <2>1, Zenon DEF IsDirectory
  <2>3. d.stale = Upper.stale /\ d.exists = Upper.exists
    BY <2>2
  <2> QED BY <2>1, <2>2, <2>3
<1> HIDE DEF d
<1> QED BY <1>1, <1>2, UpperBecomesJ

(* ... a change of the symlink.                                             *)
LEMMA EditRouteJ ==
  ASSUME IInv, JInv, EditRoute
  PROVE  JInv'
<1>1. Edit /\ UNCHANGED <<place, overlay>>
  BY DEF EditRoute
<1> QED BY <1>1, EditJ DEF JInv, LayersInv, Exists

(* A directory that is a layer is left alone.                                *)
LEMMA EditPlaceJ ==
  ASSUME IInv, JInv, NEW x \in Places, EditPlace(x)
  PROVE  JInv'
<1>1. PICK d \in Found(x) : place' = [place EXCEPT ![x] = d]
  BY DEF EditPlace
<1>2. Edit /\ overlay' = overlay /\ place = [y \in Places |-> place[y]]
  BY DEF EditPlace, IInv, PlaceInv
<1>3. CASE x = "self"
  <2>1. pc = "idle" /\ ~overlay.merged
    BY <1>3 DEF EditPlace
  <2> QED BY <1>2, <2>1, EditJ
<1>4. CASE x # "self"
  <2>1. ~Layer(x)
    BY <1>4 DEF EditPlace
  <2>2. /\ overlay.merged => overlay.upper # x
        /\ op.staged.merged => op.staged.upper # x
    BY <2>1, Zenon DEF Layer
  <2>3. \A y \in Places : y # x => place'[y] = place[y]
    BY <1>1, <1>2
  <2>4. place'["self"] = place["self"]
    BY <1>4, <2>3 DEF Places
  <2>5. ASSUME overlay.merged
        PROVE  Layered(overlay, place') /\ place'["self"].exists
    <3>1. Layered(overlay, place) /\ place["self"].exists
      BY <2>5 DEF JInv, LayersInv, Exists
    <3>2. overlay.upper \in Places => ~place'[overlay.upper].stale
      BY <2>2, <2>3, <2>5, <3>1 DEF Layered
    <3> QED BY <2>4, <3>1, <3>2, LayeredStays
  <2>6. ASSUME pc = "staged"
        PROVE  Layered(op.staged, place')
    <3>1. Layered(op.staged, place) /\ op.staged.merged
      BY <2>6 DEF JInv, LayersInv, IInv, OpInv
    <3>2. op.staged.upper \in Places => ~place'[op.staged.upper].stale
      BY <2>2, <2>3, <3>1 DEF Layered
    <3> QED BY <2>4, <3>1, <3>2, LayeredStays
  <2>7. pc # "idle" /\ ~op.found /\ place'["self"].exists =>
          place'["self"].file = None \/ pc = "staged"
    BY <2>4 DEF JInv, LayersInv, Exists
  <2> QED BY <1>2, <2>5, <2>6, <2>7, EditJ
<1> QED BY <1>3, <1>4

----------------------------------------------------------------------------
(* In the beginning nothing is merged, asked for or promised.                *)
LEMMA InitJ == Init => JInv
<1> SUFFICES ASSUME Init PROVE JInv
  OBVIOUS
<1>1. pc = "idle" /\ ~overlay.merged /\ last = None /\ calm = FALSE
  BY DEF Init, Bare
<1>2. LayersInv
  BY <1>1 DEF LayersInv
<1>3. AloneInv
  BY <1>1 DEF AloneInv
<1>4. CalmInv
  BY <1>1 DEF CalmInv
<1>5. LastInv
  BY <1>1 DEF LastInv, RefreshNotices, MergeRepeats
<1> QED BY <1>2, <1>3, <1>4, <1>5 DEF JInv

(* Every step keeps the rest of the invariant.                               *)
LEMMA NextJ == IInv /\ JInv /\ [Next]_vars => JInv'
<1> SUFFICES ASSUME IInv, JInv, [Next]_vars PROVE JInv'
  OBVIOUS
<1>1. ASSUME NEW mode \in MutableModes, NEW images \in Images,
             \/ Merge(mode, images)
             \/ \E always \in BOOLEAN : Refresh(mode, images, always)
      PROVE  JInv'
  BY <1>1, StartsJ DEF Merge, Refresh, AllImages
<1>2. CASE Unmerge
  BY <1>2, StartsJ DEF Unmerge, MutableModes, AllImages
<1>3. ASSUME NEW m \in Modes, ChmodThrough(m)
      PROVE  JInv'
  BY <1>3, ChmodThroughJ
<1>4. ASSUME NEW x \in Places, EditPlace(x)
      PROVE  JInv'
  BY <1>4, EditPlaceJ
<1>5. CASE UNCHANGED vars
  <2>1. /\ UNCHANGED <<route, place, overlay, pc, op, last, calm>>
    BY <1>5 DEF vars
  <2>2. LayersInv'
    BY <2>1 DEF JInv, LayersInv, Exists
  <2>3. AloneInv'
    BY <2>1 DEF JInv, AloneInv, Exists
  <2>4. CalmInv'
    BY <2>1 DEF JInv, CalmInv
  <2>5. LastInv'
    BY <2>1 DEF JInv, LastInv, RefreshNotices, MergeRepeats, Exists
  <2> QED BY <2>2, <2>3, <2>4, <2>5 DEF JInv
<1> QED
  BY <1>1, <1>2, <1>3, <1>4, <1>5, PlanFailsJ, PlanUnchangedJ, PlanJ, UnmountJ,
     RemoveWorkDirJ, KeepHostJ, RefuseJ, AssembleJ, CommitJ, FailsJ,
     WriteThroughJ, EditRouteJ
  DEF Next

(* Both invariants, together.                                               *)
LEMMA JInvHolds == Spec => [](IInv /\ JInv)
BY InitHolds, NextKeeps, InitJ, NextJ, PTL DEF Spec

(* Whatever was merged, written and edited in whatever order, the merged     *)
(* hierarchy shows what the table of the modes says (docs/MUTABLE.md:35-42), *)
(* and no metadata of an earlier merge hides that of this one                *)
(* (engine.go:401-406).                                                      *)
THEOREM AllLayersShown == Spec => []ShowsAllLayers
BY JInvHolds, LayersShow, PTL

(* After a refresh that merged or found nothing to do, the hierarchy is      *)
(* writable, and in the directory, as was asked for, whatever became of the  *)
(* mode or the mutable directory before (docs/MUTABLE.md:82-84).             *)
THEOREM ChangesNoticed == Spec => []RefreshNotices
<1>1. JInv => RefreshNotices
  BY DEF JInv, LastInv
<1> QED BY <1>1, JInvHolds, PTL

(* Nothing that a merge does to the mutable directory or to the hierarchy    *)
(* makes the next one with the same arguments fail (mutable.go:106-125,      *)
(* engine.go:250-292, 354-408).                                              *)
THEOREM MergesRepeat == Spec => []MergeRepeats
<1>1. JInv => MergeRepeats
  BY DEF JInv, LastInv
<1> QED BY <1>1, JInvHolds, PTL

=============================================================================
