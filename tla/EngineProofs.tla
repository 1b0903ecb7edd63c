---------------------------- MODULE EngineProofs ----------------------------
(***************************************************************************)
(* Proofs about Engine, for any number of processes, hierarchies, images   *)
(* and mounts, any faults and any kills.  The first part: the types of its *)
(* variables, the mutual exclusion of the flock, one overlay per hierarchy *)
(* at most, and the markers of all mounted overlays.  The second: what an  *)
(* operation shows on the hierarchies and describes in the workspace.  The *)
(* third: that Engine implements MergeSpec.  The fourth: what an unmerge   *)
(* and an operation that failed leave.                                     *)
(*                                                                         *)
(* The first four are not inductive on their own: a move is harmless only  *)
(* because the steps before it emptied the hierarchy, and removing a       *)
(* directory of the workspace only because no live overlay has its layers  *)
(* there.  Inv adds what holds at each label of the lock holder (Phase).   *)
(* One lemma per stage of an operation shows that its actions keep Inv:    *)
(* each action gives the new mergeOp, shows KernelInv', shows the Phase of *)
(* the next label, and ends in Assemble, AbortStep or FinishStep.          *)
(***************************************************************************)
EXTENDS EngineImplements, TLAPS

(* Where the metadata layer of an overlay can be. *)
Locs == Dirs \cup {"detached", "deleted"}

(* The part of the invariant that is about the kernel state alone. *)
KernelInv ==
  /\ stack \in [H -> Seq(Overlay)]
  /\ sub \in [Subs -> Place]
  /\ dirs \in SUBSET Dirs
  /\ img \in [Dirs -> SUBSET Exts]
  /\ stage \in [Dirs -> SUBSET H]
  /\ NeverStacked
  /\ MarkersIntact

(* Relocated changes the place of the layers and nothing else: removing or
   renaming a directory of the workspace mounts and unmounts no overlay. *)
LEMMA RelocatedType ==
  ASSUME NEW st \in Seq(Overlay), NEW ds, NEW loc \in Locs
  PROVE  /\ Relocated(st, ds, loc) \in Seq(Overlay)
         /\ Len(Relocated(st, ds, loc)) = Len(st)
         /\ \A k \in DOMAIN st :
              Relocated(st, ds, loc)[k].loc = IF st[k].loc \in ds THEN loc ELSE st[k].loc
<1>1. \A k \in 1..Len(st) : st[k] \in Overlay
  OBVIOUS
<1>2. \A o \in Overlay : [o EXCEPT !.loc = loc] \in Overlay
  BY DEF Overlay, Locs
<1>3. Relocated(st, ds, loc) = [k \in 1..Len(st) |->
        IF st[k].loc \in ds THEN [st[k] EXCEPT !.loc = loc] ELSE st[k]]
  BY DEF Relocated
<1>4. Relocated(st, ds, loc) \in Seq(Overlay) /\ Len(Relocated(st, ds, loc)) = Len(st)
  BY <1>2, <1>3
<1>5. \A k \in 1..Len(st) :
        Relocated(st, ds, loc)[k].loc = IF st[k].loc \in ds THEN loc ELSE st[k].loc
  BY <1>3
<1> QED BY <1>4, <1>5

(* Moving the mounts below a hierarchy keeps every mount at a known place. *)
LEMMA CarryType ==
  ASSUME KernelInv, NEW h, NEW from, NEW to \in Place, Carry(h, from, to)
  PROVE  sub' \in [Subs -> Place]
BY DEF KernelInv, Carry

(* teardownWorkspace detaches the layers of live overlays and unmounts none. *)
LEMMA TeardownKernel ==
  ASSUME KernelInv, NEW ds \in SUBSET Dirs, Teardown(ds)
  PROVE  /\ KernelInv'
         /\ \A h \in H : stack'[h] = <<>> <=> stack[h] = <<>>
<1>0. "detached" \in Locs
  BY DEF Locs
<1>1. \A h \in H : /\ stack'[h] \in Seq(Overlay)
                   /\ Len(stack'[h]) = Len(stack[h])
                   /\ \A k \in DOMAIN stack[h] : stack'[h][k].loc =
                        IF stack[h][k].loc \in Dirs THEN "detached" ELSE stack[h][k].loc
  BY RelocatedType, <1>0 DEF Teardown, KernelInv
<1>2. stack' \in [H -> Seq(Overlay)]
  BY <1>1 DEF Teardown
<1>3. NeverStacked' /\ MarkersIntact'
  BY <1>1, <1>2 DEF NeverStacked, MarkersIntact, KernelInv
<1>4. sub' \in [Subs -> Place]
  BY DEF Teardown, KernelInv, Place
<1>5. KernelInv'
  BY <1>2, <1>3, <1>4 DEF Teardown, KernelInv
<1>6. \A h \in H : stack'[h] = <<>> <=> stack[h] = <<>>
  BY <1>1
<1> QED BY <1>5, <1>6

(* One unmount empties a hierarchy, as it carries one overlay at most. *)
LEMMA PopKernel ==
  ASSUME KernelInv, NEW h \in H, Pop(h), UNCHANGED <<dirs, img>>,
         stage' \in [Dirs -> SUBSET H]
  PROVE  KernelInv' /\ stack'[h] = <<>> /\ \A g \in H \ {h} : stack'[g] = stack[g]
<1>1. stack[h] \in Seq(Overlay) /\ Len(stack[h]) <= 1
  BY DEF KernelInv, NeverStacked
<1>2. SubSeq(stack[h], 1, Len(stack[h]) - 1) = <<>>
  BY <1>1
<1>3. stack' = [stack EXCEPT ![h] = <<>>]
  BY <1>2 DEF Pop
<1>4. "lost" \in Place
  BY DEF Place
<1>5. sub' \in [Subs -> Place]
  BY <1>4, CarryType DEF Pop
<1>6. stack' \in [H -> Seq(Overlay)] /\ NeverStacked' /\ MarkersIntact'
  BY <1>3 DEF KernelInv, NeverStacked, MarkersIntact
<1> QED BY <1>3, <1>5, <1>6 DEF KernelInv

(* A step that leaves the hierarchies alone keeps KernelInv if it keeps types. *)
LEMMA SameStack ==
  ASSUME KernelInv, UNCHANGED stack, sub' \in [Subs -> Place], dirs' \in SUBSET Dirs,
         img' \in [Dirs -> SUBSET Exts], stage' \in [Dirs -> SUBSET H]
  PROVE  KernelInv'
BY DEF KernelInv, NeverStacked, MarkersIntact

(* A step that changes no mount and no directory keeps KernelInv. *)
LEMMA SameKernel ==
  ASSUME KernelInv, UNCHANGED kernel
  PROVE  KernelInv'
BY DEF KernelInv, NeverStacked, MarkersIntact, kernel

(* takeSubmounts and attachSubmounts keep KernelInv. *)
LEMMA CarryKernel ==
  ASSUME KernelInv, UNCHANGED <<stack, dirs, img, stage>>,
         NEW h, NEW from, NEW to \in Place, Carry(h, from, to)
  PROVE  KernelInv'
BY CarryType, SameStack DEF KernelInv

(* An attachSubmounts that fails half-way keeps KernelInv. *)
LEMMA AttachSomeKernel ==
  ASSUME KernelInv, UNCHANGED <<stack, dirs, img, stage>>,
         NEW p, NEW h, NEW to \in Place, AttachSome(p, h, to) \/ AttachSomeClose(p, h, to)
  PROVE  KernelInv'
<1>1. sub' \in [Subs -> Place]
  BY DEF KernelInv, AttachSome, AttachSomeClose, Place
<1> QED BY <1>1, SameStack DEF KernelInv

(* A generation that could not be dropped keeps KernelInv. *)
LEMMA ReleaseKernel ==
  ASSUME KernelInv, faults \in Nat, NEW p, NotReleased(p)
  PROVE  KernelInv' /\ faults' \in Nat
<1>1. img' \in [Dirs -> SUBSET Exts]
  BY DEF NotReleased, KernelInv
<1> QED BY <1>1, SameStack DEF NotReleased, Fault, KernelInv

(* discard keeps KernelInv, whether it succeeds or not. *)
LEMMA DiscardKernel ==
  ASSUME KernelInv, faults \in Nat, NEW p, Discard(p)
  PROVE  KernelInv' /\ faults' \in Nat
<1>1. CASE Teardown({}) /\ UNCHANGED faults
  BY <1>1, TeardownKernel
<1>2. CASE UNCHANGED kernel
  BY <1>2, SameKernel DEF Discard, NotReleased, Fault
<1>4. CASE NotReleased(p)
  BY <1>4, ReleaseKernel
<1>3. CASE /\ op[p].gen \in Nexts /\ dirs' = dirs \ {op[p].gen}
           /\ img' = [img EXCEPT ![op[p].gen] = {}]
           /\ UNCHANGED <<stack, sub, stage, faults>>
  BY <1>3, SameStack DEF KernelInv
<1> QED BY <1>1, <1>2, <1>3, <1>4 DEF Discard

(* The labels at which a process does not hold the lock, those at which it
   does, the labels of promote, and labels nothing need be known about. *)
Outside == {"idle", "lock"}
Inside  == Labels \ Outside
Layers  == {"clear", "drop", "shift", "rename"}
Quiet   == {"teardown", "abort", "detach", "restore", "unlock"}

(* Outside S no overlay is mounted. *)
Empty(st, S) == \A h \in H : h \notin S => st[h] = <<>>

(* The layers of all overlays on S are in d; none of them are. *)
LocsAre(st, S, d) == \A h \in S : \A k \in DOMAIN st[h] : st[h][k].loc = d
LocsAreNot(st, S, d) == \A h \in S : \A k \in DOMAIN st[h] : st[h][k].loc # d

(* A swap has a generation to stage in. *)
Swaps(o) == o.swapping => o.gen \in Dirs

(* What the label of a process, its mergeOp and its request say about each
   other and about the hierarchies. *)
PhaseOf(l, o, r, st) ==
  /\ l \in Outside => o = NewOp
  /\ Swaps(o)
  /\ l \in {"check", "workspace"} => o.images = {} /\ o.attached = {} /\ ~o.swapping /\ o.gen = NoDir
  /\ l = "putback" => r.verb = "unmerge" \/ o.unmerging
  /\ l = "image" => \/ o.gen \in Dirs
                    \/ o.left = {} /\ o.images = {} /\ ~r.mutable
  /\ l \in {"image", "callback"} => o.attached = {} /\ ~o.swapping
  /\ l \in {"workspace", "image"} => Empty(st, o.merged)
  /\ l \in {"stage", "carry", "adopt", "move"} \cup Layers => o.swapping
  /\ l \in {"take", "umount"} /\ ~(r.verb = "unmerge" \/ o.unmerging) =>
       o.swapping /\ o.attached = {} /\ Empty(st, o.todo)
  /\ l \in {"stage", "carry", "adopt"} => o.attached = {} /\ Empty(st, {})
  /\ l = "move" => o.todo \cap o.attached = {}
  /\ l \in {"move", "clear", "drop", "shift"} => LocsAre(st, H, o.gen)
  /\ l \in {"move"} \cup Layers => Empty(st, o.attached)
  /\ l \in Layers => o.gen \in Nexts
  /\ l = "rename" => LocsAre(st, o.todo, o.gen) /\ LocsAreNot(st, H \ o.todo, o.gen)

(* What holds of p at its label. *)
Phase(p) == PhaseOf(pc[p], op[p], req[p], stack)

(* The inductive invariant. *)
Inv == TypeOK /\ Exclusive /\ NeverStacked /\ MarkersIntact /\ \A p \in Procs : Phase(p)

(* p holds the lock and goes on at l with the mergeOp o. *)
StepsTo(p, l, o) ==
  /\ pc[p] \in Inside /\ UNCHANGED <<lock, req, crashes>> /\ faults' \in Nat
  /\ Goes(p, l, o)

(* A process outside the lock has an empty mergeOp. *)
LEMMA OutsidePhase ==
  ASSUME NEW l \in Outside, NEW r, NEW st PROVE PhaseOf(l, NewOp, r, st)
BY DEF PhaseOf, Outside, NewOp, Layers, Swaps

(* At a quiet label only Swaps is required. *)
LEMMA QuietPhase ==
  ASSUME NEW l \in Quiet, NEW o, Swaps(o), NEW r, NEW st PROVE PhaseOf(l, o, r, st)
BY DEF PhaseOf, Outside, Quiet, Layers

(* Inv holds after a step of the lock holder that keeps KernelInv and leads to
   its next Phase: the others are outside the lock and notice nothing. *)
LEMMA Assemble ==
  ASSUME Inv, NEW p \in Procs, NEW l \in Inside, NEW o \in Op, StepsTo(p, l, o),
         KernelInv', PhaseOf(l, o, req[p], stack')
  PROVE  Inv'
<1> USE DEF StepsTo
<1>1. TypeOK'
  BY DEF Inv, TypeOK, KernelInv, Goes, Inside
<1>2. lock = p
  BY DEF Inv, Exclusive, Inside, Outside
<1>3. Exclusive'
  BY <1>2 DEF Inv, Exclusive, Goes
<1>4. ASSUME NEW q \in Procs, q # p PROVE Phase(q)'
  <2>1. pc[q] \in Outside /\ Phase(q)
    BY <1>2, <1>4 DEF Inv, Exclusive, Outside
  <2>2. pc'[q] = pc[q] /\ op'[q] = op[q] /\ op[q] = NewOp
    BY <1>4, <2>1 DEF Goes, Phase, PhaseOf
  <2> QED BY <2>1, <2>2, OutsidePhase DEF Phase
<1>5. Phase(p)'
  BY DEF Goes, Inv, TypeOK, Phase
<1> QED BY <1>1, <1>3, <1>4, <1>5 DEF Inv, KernelInv

(* What every action may use of Inv. *)
LEMMA Facts ==
  ASSUME Inv, NEW p \in Procs
  PROVE  /\ KernelInv /\ faults \in Nat
         /\ op[p] \in Op /\ req[p] \in Request
         /\ PhaseOf(pc[p], op[p], req[p], stack)
         /\ Swaps(op[p])
BY DEF Inv, TypeOK, KernelInv, Phase, PhaseOf

(* p takes a step under the lock. *)
Working(p) == pc[p] \in Inside /\ UNCHANGED <<lock, req, crashes>> /\ faults' \in Nat

(* An error under the lock, which goes to abort, keeps Inv. *)
LEMMA AbortStep ==
  ASSUME Inv, NEW p \in Procs, Working(p), NEW o \in Op, Swaps(o), Abort(p, o), KernelInv'
  PROVE  Inv'
<1> DEFINE n == [o EXCEPT !.todo = H, !.res = "error"]
<1>1. n \in Op
  BY DEF Op, Results
<1>2. Swaps(n)
  BY DEF Swaps
<1>3. StepsTo(p, "abort", n)
  BY DEF Abort, StepsTo, Working
<1>4. "abort" \in Inside /\ "abort" \in Quiet
  BY DEF Inside, Outside, Labels, Quiet
<1>5. PhaseOf("abort", n, req[p], stack')
  BY <1>2, <1>4, QuietPhase
<1> QED BY <1>1, <1>3, <1>4, <1>5, Assemble

(* Going to Unlock with a result keeps Inv. *)
LEMMA FinishStep ==
  ASSUME Inv, NEW p \in Procs, Working(p), NEW result \in Results, Finish(p, result), KernelInv'
  PROVE  Inv'
<1> DEFINE n == [op[p] EXCEPT !.res = result]
<1>1. n \in Op
  BY Facts DEF Op
<1>2. Swaps(n)
  BY Facts DEF Swaps
<1>3. StepsTo(p, "unlock", n)
  BY DEF Finish, StepsTo, Working
<1>4. "unlock" \in Inside /\ "unlock" \in Quiet
  BY DEF Inside, Outside, Labels, Quiet
<1>5. PhaseOf("unlock", n, req[p], stack')
  BY <1>2, <1>4, QuietPhase
<1> QED BY <1>1, <1>3, <1>4, <1>5, Assemble

(* Recording what is merged, making the workspace and mounting images keep
   Inv; in particular all hierarchies not recorded as merged are bare. *)
LEMMA WorkspaceInv ==
  ASSUME Inv, NEW p \in Procs,
         Check(p) \/ ResetWorkspace(p) \/ UseWorkspace(p) \/ MountImage(p)
  PROVE  Inv'
<1>0. /\ KernelInv /\ faults \in Nat /\ op[p] \in Op /\ req[p] \in Request
      /\ PhaseOf(pc[p], op[p], req[p], stack) /\ Swaps(op[p])
  BY Facts
<1>1. CASE Check(p)
  <2>0. pc[p] = "check" /\ UNCHANGED <<lock, req, crashes, kernel, faults>>
    BY <1>1 DEF Check, At
  <2>1. CASE req[p].verb = "merge" /\ {h \in H : Ours(h)} # {}
    <3>a. Working(p)
      BY <2>0, <1>0 DEF Working, Inside, Outside, Labels, Teardown
    <3>b. KernelInv'
      BY <2>0, <1>0, SameKernel
    <3> QED BY <1>1, <2>1, <1>0, <3>a, <3>b, AbortStep DEF Check
  <2>2. CASE ~(req[p].verb = "merge" /\ {h \in H : Ours(h)} # {})
    <3> DEFINE o == [op[p] EXCEPT !.merged = {h \in H : Ours(h)}, !.left = req[p].images]
    <3>a. o \in Op
      BY <1>0 DEF Op, Request
    <3>b. Empty(stack', o.merged)
      BY <1>0, <2>0 DEF Empty, Ours, Top, KernelInv, MarkersIntact, kernel
    <3>c. KernelInv'
      BY <1>0, <2>0, SameKernel
    <3>1. CASE req[p].images # {} \/ req[p].mutable
      <4>1. StepsTo(p, "workspace", o)
        BY <1>1, <2>0, <2>2, <3>1, <1>0 DEF Check, StepsTo, Inside, Outside, Labels
      <4>2. PhaseOf("workspace", o, req[p], stack')
        BY <1>0, <2>0, <3>b DEF PhaseOf, Swaps, Outside, Layers
      <4> QED BY <3>a, <3>c, <4>1, <4>2, Assemble DEF Inside, Outside, Labels
    <3>2. CASE ~(req[p].images # {} \/ req[p].mutable)
      <4>1. StepsTo(p, "image", o)
        BY <1>1, <2>0, <2>2, <3>2, <1>0 DEF Check, StepsTo, Inside, Outside, Labels
      <4>2. PhaseOf("image", o, req[p], stack')
        BY <1>0, <2>0, <3>2, <3>b DEF PhaseOf, Swaps, Outside, Layers
      <4> QED BY <3>a, <3>c, <4>1, <4>2, Assemble DEF Inside, Outside, Labels
    <3> QED BY <3>1, <3>2
  <2> QED BY <2>1, <2>2
<1>2. CASE ResetWorkspace(p)
  <2>0. KernelInv' /\ \A h \in H : stack'[h] = <<>> <=> stack[h] = <<>>
    BY <1>2, <1>0, TeardownKernel DEF ResetWorkspace, Dirs
  <2> DEFINE o == [op[p] EXCEPT !.gen = Base, !.fresh = TRUE]
  <2>a. o \in Op
    BY <1>2, <1>0 DEF Op, Dirs
  <2>b. StepsTo(p, "image", o)
    BY <1>2, <1>0 DEF StepsTo, At, ResetWorkspace, Inside, Outside, Labels
  <2>c. KernelInv'
    BY <2>0
  <2>e. PhaseOf("image", o, req[p], stack')
    BY <1>2, <1>0, <2>0 DEF ResetWorkspace, At, Dirs, PhaseOf, Empty, Swaps, Outside, Layers
  <2> QED BY <2>a, <2>b, <2>c, <2>e, Assemble DEF Inside, Outside, Labels
<1>3. CASE UseWorkspace(p)
  <2>0. PICK d \in Nexts \ dirs :
          /\ Goes(p, "image", [op[p] EXCEPT !.gen = d, !.fresh = Base \notin dirs])
          /\ IF Base \in dirs
             THEN dirs' = dirs \cup {d} /\ UNCHANGED <<stack, sub, img, stage>>
             ELSE Teardown({Base, d})
    BY <1>3 DEF UseWorkspace
  <2>1. KernelInv' /\ \A h \in H : stack'[h] = <<>> <=> stack[h] = <<>>
    <3>1. CASE Base \in dirs
      BY <1>0, <2>0, <3>1, SameStack DEF KernelInv, Dirs
    <3>2. CASE Base \notin dirs
      BY <1>0, <2>0, <3>2, TeardownKernel DEF Dirs
    <3> QED BY <3>1, <3>2
  <2> DEFINE o == [op[p] EXCEPT !.gen = d, !.fresh = Base \notin dirs]
  <2>a. o \in Op
    BY <1>3, <2>0, <1>0 DEF Op, Dirs
  <2>b. StepsTo(p, "image", o)
    BY <1>3, <2>0, <1>0 DEF StepsTo, Goes, At, UseWorkspace, Inside, Outside, Labels
  <2>c. KernelInv'
    BY <2>1
  <2>e. PhaseOf("image", o, req[p], stack')
    BY <1>3, <2>0, <1>0, <2>1 DEF UseWorkspace, At, Dirs, PhaseOf, Empty, LocsAre, LocsAreNot, Swaps, Outside, Layers, Op
  <2> QED BY <2>a, <2>b, <2>c, <2>e, Assemble DEF Inside, Outside, Labels
<1>4. CASE MountImage(p)
  <2>0. PICK e \in op[p].left :
          \/ /\ img' = [img EXCEPT ![op[p].gen] = @ \cup {e}]
             /\ Goes(p, "image", [op[p] EXCEPT !.left = @ \ {e}, !.images = @ \cup {e}])
          \/ img' = img /\ Goes(p, "image", [op[p] EXCEPT !.left = @ \ {e}])
    BY <1>4 DEF MountImage
  <2>1. e \in Exts /\ img \in [Dirs -> SUBSET Exts]
    BY <1>0 DEF Op, KernelInv
  <2>2. img' \in [Dirs -> SUBSET Exts]
    BY <2>0, <2>1
  <2>3. KernelInv'
    BY <1>4, <1>0, <2>2, SameStack DEF MountImage, KernelInv
  <2>4. CASE Goes(p, "image", [op[p] EXCEPT !.left = @ \ {e}, !.images = @ \cup {e}])
    <3> DEFINE o == [op[p] EXCEPT !.left = @ \ {e}, !.images = @ \cup {e}]
    <3>a. o \in Op
      BY <1>4, <2>1, <2>4, <1>0 DEF Op
    <3>b. StepsTo(p, "image", o)
      BY <1>4, <2>1, <2>4, <1>0 DEF StepsTo, Goes, At, MountImage, Inside, Outside, Labels
    <3>c. KernelInv'
      BY <2>3
    <3>e. PhaseOf("image", o, req[p], stack')
      BY <1>4, <2>1, <2>4, <1>0, <2>0 DEF MountImage, At, PhaseOf, Empty, LocsAre, LocsAreNot, Swaps, Outside, Layers, Op
    <3> QED BY <3>a, <3>b, <3>c, <3>e, Assemble DEF Inside, Outside, Labels
  <2>5. CASE Goes(p, "image", [op[p] EXCEPT !.left = @ \ {e}])
    <3> DEFINE o == [op[p] EXCEPT !.left = @ \ {e}]
    <3>a. o \in Op
      BY <1>0 DEF Op
    <3>b. StepsTo(p, "image", o)
      BY <1>4, <2>1, <2>5, <1>0 DEF StepsTo, Goes, At, MountImage, Inside, Outside, Labels
    <3>c. KernelInv'
      BY <2>3
    <3>e. PhaseOf("image", o, req[p], stack')
      BY <1>4, <2>1, <2>5, <1>0, <2>0 DEF MountImage, At, PhaseOf, Empty, LocsAre, LocsAreNot, Swaps, Outside, Layers, Op
    <3> QED BY <3>a, <3>b, <3>c, <3>e, Assemble DEF Inside, Outside, Labels
  <2> QED BY <2>0, <2>4, <2>5
<1> QED BY <1>1, <1>2, <1>3, <1>4

(* The decision between nothing, unchanged and a swap keeps Inv: a swap always
   has a generation. *)
LEMMA PlanInv ==
  ASSUME Inv, NEW p \in Procs,
         PlanNothing(p) \/ Callback(p) \/ PlanUnchanged(p) \/ PlanSwap(p)
  PROVE  Inv'
<1>0. /\ KernelInv /\ faults \in Nat /\ op[p] \in Op /\ req[p] \in Request
      /\ PhaseOf(pc[p], op[p], req[p], stack) /\ Swaps(op[p])
  BY Facts
<1>1. CASE PlanNothing(p)
  <2>0. KernelInv' /\ faults' \in Nat
    BY <1>1, <1>0, DiscardKernel DEF PlanNothing
  <2>1. CASE op[p].merged = {}
    <3>1. Working(p)
      BY <1>1, <2>0 DEF Working, PlanNothing, Prepared, At, Inside, Outside, Labels
    <3> QED BY <1>1, <2>0, <2>1, <3>1, FinishStep DEF PlanNothing, Results
  <2>2. CASE op[p].merged # {}
    <3> DEFINE o == [op[p] EXCEPT !.gen = NoDir, !.fresh = FALSE]
    <3>a. o \in Op
      BY <1>1, <2>0, <2>2, <1>0 DEF Op
    <3>b. StepsTo(p, "callback", o)
      BY <1>1, <2>0, <2>2 DEF StepsTo, At, PlanNothing, Prepared, Inside, Outside, Labels
    <3>c. KernelInv'
      BY <2>0
    <3>e. PhaseOf("callback", o, req[p], stack')
      BY <1>1, <1>0 DEF PlanNothing, Prepared, At, PhaseOf, Swaps, Outside, Layers
    <3> QED BY <3>a, <3>b, <3>c, <3>e, Assemble DEF Inside, Outside, Labels
  <2> QED BY <2>1, <2>2
<1>2. CASE Callback(p)
  <2> DEFINE o == [op[p] EXCEPT !.unmerging = TRUE, !.todo = op[p].merged]
  <2>a. o \in Op
    BY <1>2, <1>0 DEF Op
  <2>b. StepsTo(p, "take", o)
    BY <1>2, <1>0 DEF StepsTo, At, Callback, Inside, Outside, Labels
  <2>c. KernelInv'
    BY <1>2, <1>0, SameKernel DEF Callback
  <2>e. PhaseOf("take", o, req[p], stack')
    BY <1>0 DEF PhaseOf, Swaps, Outside, Layers
  <2> QED BY <2>a, <2>b, <2>c, <2>e, Assemble DEF Inside, Outside, Labels
<1>3. CASE PlanUnchanged(p)
  <2>0. KernelInv' /\ faults' \in Nat
    BY <1>3, <1>0, DiscardKernel DEF PlanUnchanged
  <2>1. Working(p)
    BY <1>3, <2>0 DEF Working, PlanUnchanged, Prepared, At, Inside, Outside, Labels
  <2> QED BY <1>3, <2>0, <2>1, FinishStep DEF PlanUnchanged, Results
<1>4. CASE PlanSwap(p)
  <2>0. op[p].gen \in Dirs /\ UNCHANGED stack
    BY <1>4, <1>0 DEF PlanSwap, Prepared, At, Nothing, PhaseOf, kernel
  <2>1. CASE op[p].merged = {}
    <3> DEFINE o == [op[p] EXCEPT !.swapping = TRUE, !.todo = H]
    <3>a. o \in Op
      BY <1>4, <2>0, <2>1, <1>0 DEF Op
    <3>b. StepsTo(p, "stage", o)
      BY <1>4, <2>1, <1>0 DEF StepsTo, At, PlanSwap, Prepared, Inside, Outside, Labels
    <3>c. KernelInv'
      BY <1>4, <1>0, SameKernel DEF PlanSwap
    <3>e. PhaseOf("stage", o, req[p], stack')
      BY <1>4, <2>0, <2>1, <1>0 DEF PlanSwap, Prepared, At, PhaseOf, Swaps, Outside, Layers
    <3> QED BY <3>a, <3>b, <3>c, <3>e, Assemble DEF Inside, Outside, Labels
  <2>2. CASE op[p].merged # {}
    <3> DEFINE o == [op[p] EXCEPT !.swapping = TRUE, !.todo = op[p].merged]
    <3>a. o \in Op
      BY <1>4, <2>0, <2>2, <1>0 DEF Op
    <3>b. StepsTo(p, "take", o)
      BY <1>4, <2>2, <1>0 DEF StepsTo, At, PlanSwap, Prepared, Inside, Outside, Labels
    <3>c. KernelInv'
      BY <1>4, <1>0, SameKernel DEF PlanSwap
    <3>e. PhaseOf("take", o, req[p], stack')
      BY <1>4, <2>0, <1>0 DEF PlanSwap, Prepared, At, PhaseOf, Swaps, Outside, Layers
    <3> QED BY <3>a, <3>b, <3>c, <3>e, Assemble DEF Inside, Outside, Labels
  <2> QED BY <2>1, <2>2
<1> QED BY <1>1, <1>2, <1>3, <1>4

(* Putting mounts back happens under the lock. *)
LEMMA PutBackInside == "putback" \in Inside
BY DEF Inside, Outside, Labels

(* However the unmerge in place of one hierarchy ended, Inv holds after it. *)
LEMMA UnmergeNextStep ==
  ASSUME Inv, NEW p \in Procs, NEW h \in H, NEW result \in Results,
         Working(p), pc[p] = "putback", UnmergeNext(p, h, result), KernelInv'
  PROVE  Inv'
<1>0. /\ KernelInv /\ faults \in Nat /\ op[p] \in Op /\ req[p] \in Request
      /\ PhaseOf(pc[p], op[p], req[p], stack) /\ Swaps(op[p])
  BY Facts
<1>1. CASE result = "error" /\ op[p].unmerging
  BY <1>0, <1>1, AbortStep DEF UnmergeNext
<1>2. CASE ~(result = "error" /\ op[p].unmerging)
  <2> DEFINE o == [op[p] EXCEPT !.todo = op[p].todo \ {h}, !.res = result]
  <2>1. PICK l \in {"take", "unlock", "teardown"} : Goes(p, l, o)
    BY <1>2 DEF UnmergeNext
  <2>2. o \in Op /\ Swaps(o)
    BY <1>0 DEF Op, Swaps
  <2>3. StepsTo(p, l, o) /\ l \in Inside
    BY <2>1 DEF StepsTo, Working, Inside, Outside, Labels
  <2>4. CASE l \in Quiet
    BY <2>2, <2>3, <2>4, QuietPhase, Assemble
  <2>5. CASE l = "take"
    <3>1. InPlace(p)
      BY <1>0 DEF PhaseOf, InPlace
    <3>2. PhaseOf("take", o, req[p], stack')
      BY <1>0, <2>2 DEF PhaseOf, Outside, Layers
    <3> QED BY <2>2, <2>3, <2>5, <3>2, Assemble
  <2> QED BY <2>4, <2>5 DEF Quiet
<1> QED BY <1>1, <1>2

(* Unmerging keeps Inv; in particular a hierarchy is left behind only when no
   overlay is on it, so that the swap stages on bare hierarchies only. *)
LEMMA UnmergeInv ==
  ASSUME Inv, NEW p \in Procs,
         TakeSubmounts(p) \/ HierarchyUnmerged(p) \/ Unmount(p) \/
           PutBack(p) \/ TeardownWorkspace(p)
  PROVE  Inv'
<1>0. /\ KernelInv /\ faults \in Nat /\ op[p] \in Op /\ req[p] \in Request
      /\ PhaseOf(pc[p], op[p], req[p], stack) /\ Swaps(op[p])
  BY Facts
<1>1. CASE TakeSubmounts(p)
  <2>0. PICK h \in H : Carry(h, "overlay", p)
    BY <1>1 DEF TakeSubmounts
  <2>1. KernelInv'
    BY <1>1, <1>0, <2>0, CarryKernel DEF TakeSubmounts, Place
  <2> DEFINE o == op[p]
  <2>a. o \in Op
    BY <1>0
  <2>b. StepsTo(p, "umount", o)
    BY <1>1, <1>0 DEF StepsTo, At, TakeSubmounts, Inside, Outside, Labels
  <2>c. KernelInv'
    BY <2>1
  <2>e. PhaseOf("umount", o, req[p], stack')
    BY <1>1, <1>0 DEF TakeSubmounts, At, PhaseOf, Outside, Layers
  <2> QED BY <2>a, <2>b, <2>c, <2>e, Assemble DEF Inside, Outside, Labels
<1>2. CASE HierarchyUnmerged(p)
  <2>0. PICK h \in H : h \in op[p].todo /\ ~Ours(h) /\
            IF InPlace(p)
            THEN Goes(p, "putback", op[p])
            ELSE IF op[p].todo \ {h} = {}
                 THEN Goes(p, "stage", [op[p] EXCEPT !.todo = H])
                 ELSE Goes(p, "take", [op[p] EXCEPT !.todo = op[p].todo \ {h}])
    BY <1>2 DEF HierarchyUnmerged, First
  <2>1. stack[h] = <<>>
    BY <1>0, <2>0 DEF Ours, Top, KernelInv, MarkersIntact
  <2>2. pc[p] = "take" /\ UNCHANGED <<lock, req, crashes, kernel, faults>>
    BY <1>2 DEF HierarchyUnmerged, At
  <2>3. KernelInv'
    BY <1>0, <2>2, SameKernel
  <2>4. CASE InPlace(p)
    <3> DEFINE o == op[p]
    <3>a. o \in Op
      BY <1>0
    <3>b. StepsTo(p, "putback", o)
      BY <2>0, <2>2, <2>4, <1>0 DEF StepsTo, Inside, Outside, Labels
    <3>c. KernelInv'
      BY <2>3
    <3>e. PhaseOf("putback", o, req[p], stack')
      BY <2>4, <1>0 DEF InPlace, PhaseOf, Outside, Layers
    <3> QED BY <3>a, <3>b, <3>c, <3>e, Assemble DEF Inside, Outside, Labels
  <2>5. CASE ~InPlace(p)
    <3>1. op[p].swapping /\ op[p].attached = {} /\ Empty(stack, op[p].todo \ {h})
      BY <1>0, <2>1, <2>2, <2>5 DEF PhaseOf, InPlace, Empty
    <3>2. CASE op[p].todo \ {h} = {}
      <4> DEFINE o == [op[p] EXCEPT !.todo = H]
      <4>a. o \in Op
        BY <1>0 DEF Op
      <4>b. StepsTo(p, "stage", o)
        BY <2>0, <2>2, <2>5, <3>2, <1>0 DEF StepsTo, Inside, Outside, Labels
      <4>c. KernelInv'
        BY <2>3
      <4>e. PhaseOf("stage", o, req[p], stack')
        BY <2>2, <3>1, <3>2, <1>0 DEF kernel, PhaseOf, Swaps, Outside, Layers
      <4> QED BY <4>a, <4>b, <4>c, <4>e, Assemble DEF Inside, Outside, Labels
    <3>3. CASE op[p].todo \ {h} # {}
      <4> DEFINE o == [op[p] EXCEPT !.todo = op[p].todo \ {h}]
      <4>a. o \in Op
        BY <1>0 DEF Op
      <4>b. StepsTo(p, "take", o)
        BY <2>0, <2>2, <2>5, <3>3, <1>0 DEF StepsTo, Inside, Outside, Labels
      <4>c. KernelInv'
        BY <2>3
      <4>e. PhaseOf("take", o, req[p], stack')
        BY <2>2, <3>1, <1>0 DEF kernel, PhaseOf, Empty, Swaps, Outside
      <4> QED BY <4>a, <4>b, <4>c, <4>e, Assemble DEF Inside, Outside, Labels
    <3> QED BY <3>2, <3>3
  <2> QED BY <2>4, <2>5
<1>3. CASE Unmount(p)
  <2>0. PICK h \in H : h \in op[p].todo /\ Pop(h) /\
            IF InPlace(p) THEN Goes(p, "take", op[p])
            ELSE Goes(p, "take", [op[p] EXCEPT !.unmerged = @ \cup {h}])
    BY <1>3 DEF Unmount, First
  <2>1. KernelInv' /\ stack'[h] = <<>> /\ \A g \in H \ {h} : stack'[g] = stack[g]
    BY <1>3, <1>0, <2>0, PopKernel DEF Unmount, KernelInv
  <2>2. CASE InPlace(p)
    <3> DEFINE o == op[p]
    <3>a. o \in Op
      BY <1>0
    <3>b. StepsTo(p, "take", o)
      BY <1>3, <2>2, <1>0 DEF StepsTo, At, Unmount, Inside, Outside, Labels
    <3>c. KernelInv'
      BY <2>1
    <3>e. PhaseOf("take", o, req[p], stack')
      BY <2>2, <1>0 DEF InPlace, PhaseOf, Outside, Layers
    <3> QED BY <3>a, <3>b, <3>c, <3>e, Assemble DEF Inside, Outside, Labels
  <2>3. CASE ~InPlace(p)
    <3> DEFINE o == [op[p] EXCEPT !.unmerged = @ \cup {h}]
    <3>a. o \in Op
      BY <1>0 DEF Op
    <3>b. StepsTo(p, "take", o)
      BY <1>3, <2>0, <2>3, <1>0 DEF StepsTo, At, Unmount, Inside, Outside, Labels
    <3>c. KernelInv'
      BY <2>1
    <3>e. PhaseOf("take", o, req[p], stack')
      BY <1>3, <2>1, <1>0 DEF Unmount, At, PhaseOf, Empty, Swaps, Outside, Layers
    <3> QED BY <3>a, <3>b, <3>c, <3>e, Assemble DEF Inside, Outside, Labels
  <2> QED BY <2>2, <2>3
<1>4. CASE PutBack(p)
  <2>0. PICK h \in H : Carry(h, p, Visible(h)) /\ UnmergeNext(p, h, op[p].res)
    BY <1>4 DEF PutBack, Attach
  <2>1. KernelInv'
    BY <1>4, <1>0, <2>0, CarryKernel DEF PutBack, Visible, Place
  <2>2. pc[p] = "putback" /\ UNCHANGED <<lock, req, crashes, faults>>
    BY <1>4 DEF PutBack, At
  <2>3. op[p].res \in Results
    BY <1>0 DEF Op
  <2> QED BY <1>0, <2>0, <2>1, <2>2, <2>3, UnmergeNextStep, PutBackInside DEF Working
<1>5. CASE TeardownWorkspace(p)
  <2>1. Working(p)
    BY <1>5, <1>0 DEF Working, TeardownWorkspace, At, Inside, Outside, Labels
  <2>2. KernelInv'
    BY <1>5, <1>0, TeardownKernel DEF TeardownWorkspace
  <2> QED BY <1>5, <2>1, <2>2, FinishStep DEF TeardownWorkspace, Results
<1> QED BY <1>1, <1>2, <1>3, <1>4, <1>5

(* Staging overlays and carrying mounts onto them keep Inv. *)
LEMMA StageInv ==
  ASSUME Inv, NEW p \in Procs,
         KeepHost(p) \/ StageOverlay(p) \/ TakeHostMounts(p) \/
           AttachStaged(p) \/ Staged(p)
  PROVE  Inv'
<1>0. /\ KernelInv /\ faults \in Nat /\ op[p] \in Op /\ req[p] \in Request
      /\ PhaseOf(pc[p], op[p], req[p], stack) /\ Swaps(op[p])
  BY Facts
<1>1. CASE KeepHost(p)
  <2>0. PICK h \in H : Carry(h, p, Visible(h)) /\ Goes(p, "stage", [op[p] EXCEPT !.todo = @ \ {h}])
    BY <1>1 DEF KeepHost, Attach
  <2>1. KernelInv'
    BY <1>1, <1>0, <2>0, CarryKernel DEF KeepHost, Visible, Place
  <2> DEFINE o == [op[p] EXCEPT !.todo = @ \ {h}]
  <2>a. o \in Op
    BY <1>0 DEF Op
  <2>b. StepsTo(p, "stage", o)
    BY <1>1, <2>0, <1>0 DEF StepsTo, At, KeepHost, Inside, Outside, Labels
  <2>c. KernelInv'
    BY <2>1
  <2>e. PhaseOf("stage", o, req[p], stack')
    BY <1>1, <1>0 DEF KeepHost, At, PhaseOf, Swaps, Outside
  <2> QED BY <2>a, <2>b, <2>c, <2>e, Assemble DEF Inside, Outside, Labels
<1>2. CASE StageOverlay(p)
  <2>0. PICK h \in H : /\ stage' = [stage EXCEPT ![op[p].gen] = @ \cup {h}]
                      /\ Goes(p, "carry", [op[p] EXCEPT !.staged = @ \cup {h}])
    BY <1>2 DEF StageOverlay
  <2>1. KernelInv'
    BY <1>2, <1>0, <2>0, SameStack DEF StageOverlay, KernelInv
  <2> DEFINE o == [op[p] EXCEPT !.staged = @ \cup {h}]
  <2>a. o \in Op
    BY <1>0 DEF Op
  <2>b. StepsTo(p, "carry", o)
    BY <1>2, <2>0, <1>0 DEF StepsTo, At, StageOverlay, Inside, Outside, Labels
  <2>c. KernelInv'
    BY <2>1
  <2>e. PhaseOf("carry", o, req[p], stack')
    BY <1>2, <1>0 DEF StageOverlay, At, PhaseOf, Swaps, Outside, Layers
  <2> QED BY <2>a, <2>b, <2>c, <2>e, Assemble DEF Inside, Outside, Labels
<1>3. CASE TakeHostMounts(p)
  <2>0. PICK h \in H : sub' = sub \/ Carry(h, "host", p)
    BY <1>3 DEF TakeHostMounts
  <2>1. KernelInv'
    BY <1>3, <1>0, <2>0, CarryKernel, SameKernel DEF TakeHostMounts, Place, kernel
  <2> DEFINE o == op[p]
  <2>a. o \in Op
    BY <1>0
  <2>b. StepsTo(p, "adopt", o)
    BY <1>3, <1>0 DEF StepsTo, At, TakeHostMounts, Inside, Outside, Labels
  <2>c. KernelInv'
    BY <2>1
  <2>e. PhaseOf("adopt", o, req[p], stack')
    BY <1>3, <1>0 DEF TakeHostMounts, At, PhaseOf, Outside, Layers
  <2> QED BY <2>a, <2>b, <2>c, <2>e, Assemble DEF Inside, Outside, Labels
<1>4. CASE AttachStaged(p)
  <2>0. PICK h \in H : Carry(h, p, op[p].gen) /\ Goes(p, "stage", [op[p] EXCEPT !.todo = @ \ {h}])
    BY <1>4 DEF AttachStaged, Attach
  <2>1. op[p].gen \in Dirs
    BY <1>4, <1>0 DEF AttachStaged, At, PhaseOf, Swaps
  <2>2. KernelInv'
    BY <1>4, <1>0, <2>0, <2>1, CarryKernel DEF AttachStaged, Place
  <2> DEFINE o == [op[p] EXCEPT !.todo = @ \ {h}]
  <2>a. o \in Op
    BY <1>0 DEF Op
  <2>b. StepsTo(p, "stage", o)
    BY <1>4, <2>0, <1>0 DEF StepsTo, At, AttachStaged, Inside, Outside, Labels
  <2>c. KernelInv'
    BY <2>2
  <2>e. PhaseOf("stage", o, req[p], stack')
    BY <1>4, <1>0 DEF AttachStaged, At, PhaseOf, Swaps, Outside, Layers
  <2> QED BY <2>a, <2>b, <2>c, <2>e, Assemble DEF Inside, Outside, Labels
<1>5. CASE Staged(p)
  <2>0. Mounts(p) \subseteq H
    BY DEF Mounts
  <2> DEFINE o == [op[p] EXCEPT !.todo = Mounts(p)]
  <2>a. o \in Op
    BY <2>0, <1>0 DEF Op
  <2>b. StepsTo(p, "move", o)
    BY <1>5, <1>0 DEF StepsTo, At, Staged, Inside, Outside, Labels
  <2>c. KernelInv'
    BY <1>5, <1>0, SameKernel DEF Staged
  <2>e. PhaseOf("move", o, req[p], stack')
    BY <1>5, <1>0 DEF Staged, At, kernel, PhaseOf, Empty, LocsAre, Swaps, Outside, Layers
  <2> QED BY <2>a, <2>b, <2>c, <2>e, Assemble DEF Inside, Outside, Labels
<1> QED BY <1>1, <1>2, <1>3, <1>4, <1>5

(* A staged overlay moves onto a bare hierarchy: NeverStacked is kept. *)
LEMMA LiveInv ==
  ASSUME Inv, NEW p \in Procs,
         MoveOverlay(p) \/ Commit(p)
  PROVE  Inv'
<1>0. /\ KernelInv /\ faults \in Nat /\ op[p] \in Op /\ req[p] \in Request
      /\ PhaseOf(pc[p], op[p], req[p], stack) /\ Swaps(op[p])
  BY Facts
<1>1. CASE MoveOverlay(p)
  <2> DEFINE new == [names |-> op[p].images, mutable |-> req[p].mutable, loc |-> op[p].gen]
  <2>0. PICK h \in H :
          /\ h \in op[p].todo
          /\ stack' = [stack EXCEPT ![h] = Append(@, new)]
          /\ stage' = [stage EXCEPT ![op[p].gen] = @ \ {h}]
          /\ Carry(h, op[p].gen, "overlay")
          /\ Goes(p, "move", [op[p] EXCEPT !.staged = @ \ {h}, !.attached = @ \cup {h}, !.todo = @ \ {h}])
    BY <1>1 DEF MoveOverlay, First
  <2>1. /\ pc[p] = "move" /\ op[p].gen \in Dirs /\ op[p].swapping
        /\ op[p].todo \cap op[p].attached = {} /\ Empty(stack, op[p].attached)
        /\ LocsAre(stack, H, op[p].gen)
    BY <1>1, <1>0 DEF MoveOverlay, At, PhaseOf, Swaps
  <2>2. new \in Overlay /\ new.loc = op[p].gen /\ new.loc # "deleted"
    BY <1>0, <2>1, NamesAssumption DEF Overlay, Op, Request, Reserved
  <2>3. stack[h] = <<>>
    BY <2>0, <2>1 DEF Empty
  <2>4. stack' = [stack EXCEPT ![h] = <<new>>]
    <3>1. Append(<<>>, new) = <<new>>
      OBVIOUS
    <3> HIDE DEF new
    <3> QED BY <2>0, <2>3
  <2>5. <<new>> \in Seq(Overlay) /\ Len(<<new>>) = 1 /\ \A k \in DOMAIN <<new>> : <<new>>[k] = new
    BY <2>2
  <2>6. /\ stack' \in [H -> Seq(Overlay)] /\ stack'[h] = <<new>>
        /\ \A g \in H \ {h} : stack'[g] = stack[g]
    <3> HIDE DEF new
    <3> QED BY <1>0, <2>4, <2>5 DEF KernelInv
  <2>7. NeverStacked' /\ MarkersIntact'
    <3> HIDE DEF new
    <3>1. Len(stack'[h]) <= 1 /\ \A k \in DOMAIN stack'[h] : stack'[h][k].loc # "deleted"
      BY <2>2, <2>6
    <3>2. \A g \in H \ {h} : /\ Len(stack'[g]) <= 1
                            /\ \A k \in DOMAIN stack'[g] : stack'[g][k].loc # "deleted"
      BY <1>0, <2>6 DEF KernelInv, NeverStacked, MarkersIntact
    <3> QED BY <3>1, <3>2 DEF NeverStacked, MarkersIntact
  <2>8. sub' \in [Subs -> Place]
    BY <1>0, <2>0, CarryType DEF Place
  <2>9. KernelInv'
    BY <1>1, <1>0, <2>0, <2>6, <2>7, <2>8 DEF MoveOverlay, KernelInv
  <2>10. LocsAre(stack', H, op[p].gen)
    <3> HIDE DEF new
    <3> QED BY <2>1, <2>2, <2>6 DEF LocsAre
  <2>11. Empty(stack', op[p].attached \cup {h})
    BY <2>1, <2>6 DEF Empty
  <2> HIDE DEF new
  <2> DEFINE o == [op[p] EXCEPT !.staged = @ \ {h}, !.attached = @ \cup {h}, !.todo = @ \ {h}]
  <2>a. o \in Op
    BY <1>0, <2>0 DEF Op
  <2>b. StepsTo(p, "move", o)
    BY <1>1, <2>0, <1>0 DEF MoveOverlay, StepsTo, At, Inside, Outside, Labels
  <2>e. PhaseOf("move", o, req[p], stack')
    BY <1>0, <2>1, <2>10, <2>11 DEF PhaseOf, Swaps, Outside
  <2> QED BY <2>a, <2>b, <2>9, <2>e, Assemble DEF Inside, Outside, Labels
<1>2. CASE Commit(p)
  <2>0. /\ pc[p] = "move" /\ op[p].gen \in Dirs /\ op[p].swapping
        /\ Empty(stack, op[p].attached) /\ LocsAre(stack, H, op[p].gen)
        /\ UNCHANGED <<lock, req, crashes, stack, faults>>
    BY <1>2, <1>0 DEF Commit, At, PhaseOf, Swaps
  <2>1. KernelInv'
    <3>1. sub' \in [Subs -> Place]
      BY <1>2, <1>0 DEF Commit, KernelInv, Place
    <3> QED BY <1>2, <1>0, <3>1, SameStack DEF Commit, KernelInv
  <2>2. CASE op[p].attached = {}
    <3> DEFINE o == op[p]
    <3>a. o \in Op
      BY <1>0
    <3>b. StepsTo(p, "teardown", o)
      BY <1>2, <2>0, <2>2, <1>0 DEF StepsTo, Commit, Inside, Outside, Labels
    <3>c. KernelInv'
      BY <2>1
    <3>d. Swaps(o)
      BY <1>0
    <3>e. PhaseOf("teardown", o, req[p], stack')
      BY <3>d, QuietPhase DEF Quiet
    <3> QED BY <3>a, <3>b, <3>c, <3>e, Assemble DEF Inside, Outside, Labels
  <2>3. CASE op[p].attached # {} /\ op[p].gen = Base
    <3>1. Working(p)
      BY <1>0, <2>0 DEF Working, Inside, Outside, Labels
    <3> QED BY <1>2, <2>1, <2>3, <3>1, FinishStep DEF Commit, Results
  <2>4. CASE op[p].attached # {} /\ op[p].gen # Base
    <3> DEFINE o == op[p]
    <3>a. o \in Op
      BY <1>0
    <3>b. StepsTo(p, "clear", o)
      BY <1>2, <2>0, <2>4, <1>0 DEF StepsTo, Commit, Inside, Outside, Labels
    <3>c. KernelInv'
      BY <2>1
    <3>e. PhaseOf("clear", o, req[p], stack')
      BY <2>0, <2>4, <1>0 DEF Dirs, PhaseOf, Outside
    <3> QED BY <3>a, <3>b, <3>c, <3>e, Assemble DEF Inside, Outside, Labels
  <2> QED BY <2>2, <2>3, <2>4
<1> QED BY <1>1, <1>2

(* Layers that are removed or renamed below overlays of other generations keep
   KernelInv. *)
LEMMA RelocatedKernel ==
  ASSUME KernelInv, stack' \in [H -> Seq(Overlay)],
         \A g \in H : /\ Len(stack'[g]) = Len(stack[g])
                     /\ \A k \in DOMAIN stack[g] : stack'[g][k].loc # "deleted",
         sub' \in [Subs -> Place], dirs' \in SUBSET Dirs,
         img' \in [Dirs -> SUBSET Exts], stage' \in [Dirs -> SUBSET H]
  PROVE  KernelInv'
<1>1. \A g \in H : stack[g] \in Seq(Overlay) /\ stack'[g] \in Seq(Overlay)
  BY DEF KernelInv
<1>2. \A g \in H : DOMAIN stack'[g] = DOMAIN stack[g]
  OBVIOUS
<1>3. NeverStacked' /\ MarkersIntact'
  BY DEF NeverStacked, MarkersIntact, KernelInv
<1> QED BY <1>3 DEF KernelInv

(* promote keeps Inv: it removes only the layers of overlays that are gone, and
   the new generation only after all its layers were renamed. *)
LEMMA PromoteInv ==
  ASSUME Inv, NEW p \in Procs,
         PromoteClear(p) \/ PromoteDrop(p) \/ DropRefused(p) \/
           PromoteImage(p) \/ ImagesPromoted(p) \/ PromoteLayers(p) \/
           PromoteDone(p)
  PROVE  Inv'
<1>0. /\ KernelInv /\ faults \in Nat /\ op[p] \in Op /\ req[p] \in Request
      /\ PhaseOf(pc[p], op[p], req[p], stack) /\ Swaps(op[p])
  BY Facts
<1>1. CASE PromoteClear(p)
  <2>0. KernelInv'
    BY <1>1, <1>0, SameStack DEF PromoteClear, KernelInv
  <2> DEFINE o == [op[p] EXCEPT !.todo = op[p].attached \cup op[p].unmerged]
  <2>a. o \in Op
    BY <1>0 DEF Op
  <2>b. StepsTo(p, "drop", o)
    BY <1>1, <1>0 DEF StepsTo, At, PromoteClear, Inside, Outside, Labels
  <2>c. KernelInv'
    BY <2>0
  <2>e. PhaseOf("drop", o, req[p], stack')
    BY <1>1, <1>0 DEF PromoteClear, At, PhaseOf, Swaps, Outside, Layers
  <2> QED BY <2>a, <2>b, <2>c, <2>e, Assemble DEF Inside, Outside, Labels
<1>2. CASE PromoteDrop(p)
  <2>0. PICK h \in H :
          /\ stack' = [stack EXCEPT ![h] = Relocated(@, {Base}, "deleted")]
          /\ IF op[p].todo \ {h} = {} THEN Goes(p, "shift", [op[p] EXCEPT !.todo = {}, !.left = op[p].images])
             ELSE Goes(p, "drop", [op[p] EXCEPT !.todo = op[p].todo \ {h}])
    BY <1>2 DEF PromoteDrop
  <2>1. /\ pc[p] = "drop" /\ op[p].gen \in Nexts /\ op[p].swapping
        /\ LocsAre(stack, H, op[p].gen) /\ Empty(stack, op[p].attached)
    BY <1>2, <1>0 DEF PromoteDrop, At, PhaseOf, Layers
  <2>2. "deleted" \in Locs
    BY DEF Locs
  <2>3. op[p].gen # Base
    BY <2>1, NamesAssumption
  <2>4. \A g \in H : /\ stack'[g] \in Seq(Overlay) /\ Len(stack'[g]) = Len(stack[g])
                     /\ \A k \in DOMAIN stack[g] : stack'[g][k].loc = stack[g][k].loc
    BY <1>0, <2>0, <2>1, <2>2, <2>3, RelocatedType DEF KernelInv, LocsAre
  <2>5. stack' \in [H -> Seq(Overlay)]
    BY <1>0, <2>0, <2>4 DEF KernelInv
  <2>6. KernelInv'
    <3>1. \A g \in H : \A k \in DOMAIN stack[g] : stack'[g][k].loc # "deleted"
      BY <1>0, <2>4 DEF KernelInv, MarkersIntact
    <3> QED BY <1>2, <1>0, <2>4, <2>5, <3>1, RelocatedKernel DEF PromoteDrop, KernelInv
  <2>9. LocsAre(stack', H, op[p].gen) /\ Empty(stack', op[p].attached)
    <3>1. \A g \in H : stack[g] \in Seq(Overlay)
      BY <1>0 DEF KernelInv
    <3>2. \A g \in H : DOMAIN stack'[g] = DOMAIN stack[g] /\ (stack'[g] = <<>> <=> stack[g] = <<>>)
      BY <2>4, <3>1
    <3> QED BY <2>1, <2>4, <3>2 DEF LocsAre, Empty
  <2>7. CASE op[p].todo \ {h} = {}
    <3> DEFINE o == [op[p] EXCEPT !.todo = {}, !.left = op[p].images]
    <3>a. o \in Op
      BY <1>2, <2>0, <2>1, <2>7, <1>0 DEF Op
    <3>b. StepsTo(p, "shift", o)
      BY <1>2, <2>0, <2>7, <1>0 DEF StepsTo, At, PromoteDrop, Inside, Outside, Labels
    <3>c. KernelInv'
      BY <2>6
    <3>e. PhaseOf("shift", o, req[p], stack')
      BY <2>1, <1>0, <2>9 DEF PhaseOf, Swaps, Outside
    <3> QED BY <3>a, <3>b, <3>c, <3>e, Assemble DEF Inside, Outside, Labels
  <2>8. CASE op[p].todo \ {h} # {}
    <3> DEFINE o == [op[p] EXCEPT !.todo = op[p].todo \ {h}]
    <3>a. o \in Op
      BY <1>0 DEF Op
    <3>b. StepsTo(p, "drop", o)
      BY <1>2, <2>0, <2>8, <1>0 DEF StepsTo, At, PromoteDrop, Inside, Outside, Labels
    <3>c. KernelInv'
      BY <2>6
    <3>e. PhaseOf("drop", o, req[p], stack')
      BY <2>1, <1>0, <2>9 DEF PhaseOf, Swaps, Outside
    <3> QED BY <3>a, <3>b, <3>c, <3>e, Assemble DEF Inside, Outside, Labels
  <2> QED BY <2>7, <2>8
<1>3. CASE DropRefused(p)
  <2>1. Working(p)
    BY <1>3, <1>0 DEF Working, DropRefused, At, Inside, Outside, Labels
  <2>2. KernelInv'
    BY <1>3, <1>0, SameKernel DEF DropRefused
  <2> QED BY <1>3, <2>1, <2>2, FinishStep DEF DropRefused, Results
<1>4. CASE PromoteImage(p)
  <2>0. PICK e \in op[p].left :
          /\ img' = [img EXCEPT ![op[p].gen] = @ \ {e}, ![Base] = @ \cup {e}]
          /\ Goes(p, "shift", [op[p] EXCEPT !.left = @ \ {e}])
    BY <1>4 DEF PromoteImage
  <2>1. e \in Exts
    BY <1>0 DEF Op
  <2>2. img' \in [Dirs -> SUBSET Exts]
    BY <1>0, <2>0, <2>1 DEF KernelInv
  <2>3. KernelInv'
    BY <1>4, <1>0, <2>2, SameStack DEF PromoteImage, KernelInv
  <2> DEFINE o == [op[p] EXCEPT !.left = @ \ {e}]
  <2>a. o \in Op
    BY <1>0 DEF Op
  <2>b. StepsTo(p, "shift", o)
    BY <1>4, <2>0, <1>0 DEF StepsTo, At, PromoteImage, Inside, Outside, Labels
  <2>c. KernelInv'
    BY <2>3
  <2>e. PhaseOf("shift", o, req[p], stack')
    BY <1>4, <1>0 DEF PromoteImage, At, PhaseOf, Swaps, Outside
  <2> QED BY <2>a, <2>b, <2>c, <2>e, Assemble DEF Inside, Outside, Labels
<1>5. CASE ImagesPromoted(p)
  <2> DEFINE o == [op[p] EXCEPT !.todo = op[p].attached]
  <2>a. o \in Op
    BY <1>0 DEF Op
  <2>b. StepsTo(p, "rename", o)
    BY <1>5, <1>0 DEF StepsTo, At, ImagesPromoted, Inside, Outside, Labels
  <2>c. KernelInv'
    BY <1>5, <1>0, SameKernel DEF ImagesPromoted
  <2>e. PhaseOf("rename", o, req[p], stack')
    BY <1>5, <1>0 DEF ImagesPromoted, At, kernel, PhaseOf, Empty, LocsAre, LocsAreNot, Swaps, Outside, Layers, Op
  <2> QED BY <2>a, <2>b, <2>c, <2>e, Assemble DEF Inside, Outside, Labels
<1>6. CASE PromoteLayers(p)
  <2>0. PICK h \in H :
          /\ h \in op[p].todo
          /\ stack' = [stack EXCEPT ![h] = Relocated(@, {op[p].gen}, Base)]
          /\ Goes(p, "rename", [op[p] EXCEPT !.todo = @ \ {h}])
    BY <1>6 DEF PromoteLayers, First
  <2>1. /\ pc[p] = "rename" /\ op[p].gen \in Nexts /\ op[p].swapping
        /\ LocsAre(stack, op[p].todo, op[p].gen) /\ LocsAreNot(stack, H \ op[p].todo, op[p].gen)
        /\ Empty(stack, op[p].attached)
    BY <1>6, <1>0 DEF PromoteLayers, At, PhaseOf, Layers
  <2>2. Base \in Locs /\ Base # "deleted"
    BY NamesAssumption DEF Locs, Dirs, Reserved
  <2>3. op[p].gen # Base
    BY <2>1, NamesAssumption
  <2>4. \A g \in H : /\ stack'[g] \in Seq(Overlay) /\ Len(stack'[g]) = Len(stack[g])
                     /\ \A k \in DOMAIN stack[g] :
                          stack'[g][k].loc = IF g = h THEN Base ELSE stack[g][k].loc
    BY <1>0, <2>0, <2>1, <2>2, RelocatedType DEF KernelInv, LocsAre
  <2>5. stack' \in [H -> Seq(Overlay)]
    BY <1>0, <2>0, <2>4 DEF KernelInv
  <2>6. KernelInv'
    <3>1. \A g \in H : \A k \in DOMAIN stack[g] : stack'[g][k].loc # "deleted"
      BY <1>0, <2>2, <2>4 DEF KernelInv, MarkersIntact
    <3> QED BY <1>6, <1>0, <2>4, <2>5, <3>1, RelocatedKernel DEF PromoteLayers, KernelInv
  <2>7. \A g \in H : DOMAIN stack'[g] = DOMAIN stack[g] /\ (stack'[g] = <<>> <=> stack[g] = <<>>)
    <3>1. \A g \in H : stack[g] \in Seq(Overlay)
      BY <1>0 DEF KernelInv
    <3> QED BY <2>4, <3>1
  <2>8. LocsAre(stack', op[p].todo \ {h}, op[p].gen) /\ LocsAreNot(stack', H \ (op[p].todo \ {h}), op[p].gen)
    BY <1>0, <2>1, <2>3, <2>4, <2>7 DEF LocsAre, LocsAreNot, Op
  <2>9. Empty(stack', op[p].attached)
    BY <2>1, <2>7 DEF Empty
  <2> DEFINE o == [op[p] EXCEPT !.todo = @ \ {h}]
  <2>a. o \in Op
    BY <1>0 DEF Op
  <2>b. StepsTo(p, "rename", o)
    BY <1>6, <2>0, <1>0 DEF StepsTo, At, PromoteLayers, Inside, Outside, Labels
  <2>c. KernelInv'
    BY <2>6
  <2>e. PhaseOf("rename", o, req[p], stack')
    BY <2>1, <2>8, <2>9, <1>0 DEF PhaseOf, Swaps, Outside
  <2> QED BY <2>a, <2>b, <2>c, <2>e, Assemble DEF Inside, Outside, Labels
<1>7. CASE PromoteDone(p)
  <2>1. /\ stack' = [h \in H |-> Relocated(stack[h], {op[p].gen}, "deleted")]
        /\ dirs' = dirs \ {op[p].gen} /\ UNCHANGED <<sub, img, stage>>
        /\ LocsAreNot(stack, H, op[p].gen)
    BY <1>7, <1>0 DEF PromoteDone, At, PhaseOf
  <2>2. "deleted" \in Locs
    BY DEF Locs
  <2>4. \A g \in H : /\ stack'[g] \in Seq(Overlay) /\ Len(stack'[g]) = Len(stack[g])
                     /\ \A k \in DOMAIN stack[g] : stack'[g][k].loc = stack[g][k].loc
    <3>1. \A g \in H : stack[g] \in Seq(Overlay) /\ stack'[g] = Relocated(stack[g], {op[p].gen}, "deleted")
      BY <1>0, <2>1 DEF KernelInv
    <3>2. \A g \in H : \A k \in DOMAIN stack[g] : stack[g][k].loc \notin {op[p].gen}
      BY <2>1 DEF LocsAreNot
    <3> QED BY <2>2, <3>1, <3>2, RelocatedType
  <2>5. stack' \in [H -> Seq(Overlay)]
    BY <2>1, <2>4
  <2>6. KernelInv'
    <3>1. \A g \in H : \A k \in DOMAIN stack[g] : stack'[g][k].loc # "deleted"
      BY <1>0, <2>4 DEF KernelInv, MarkersIntact
    <3>2. dirs' \in SUBSET Dirs
      BY <1>0, <2>1 DEF KernelInv
    <3> QED BY <1>0, <2>1, <2>4, <2>5, <3>1, <3>2, RelocatedKernel DEF KernelInv
  <2>7. Working(p)
    BY <1>7, <1>0 DEF Working, PromoteDone, At, Inside, Outside, Labels
  <2> QED BY <1>7, <2>6, <2>7, FinishStep DEF PromoteDone, Results
<1> QED BY <1>1, <1>2, <1>3, <1>4, <1>5, <1>6, <1>7

(* abort keeps Inv. *)
LEMMA AbortInv ==
  ASSUME Inv, NEW p \in Procs,
         AbortTake(p) \/ AbortDetach(p) \/ AbortAttach(p) \/ AbortRelease(p)
  PROVE  Inv'
<1>0. /\ KernelInv /\ faults \in Nat /\ op[p] \in Op /\ req[p] \in Request
      /\ PhaseOf(pc[p], op[p], req[p], stack) /\ Swaps(op[p])
  BY Facts
<1>1. CASE AbortTake(p)
  <2>0. PICK h \in H : /\ Last(h, op[p].todo) /\ Built(p, h)
                      /\ \/ Carry(h, Where(p, h), p) /\ UNCHANGED faults
                         \/ Fault("retake") /\ UNCHANGED sub
    BY <1>1 DEF AbortTake
  <2>1. KernelInv' /\ faults' \in Nat
    <3>1. UNCHANGED <<stack, dirs, img, stage>>
      BY <1>1 DEF AbortTake
    <3>2. CASE Carry(h, Where(p, h), p) /\ UNCHANGED faults
      BY <1>0, <3>1, <3>2, CarryKernel DEF Place
    <3>3. CASE Fault("retake") /\ UNCHANGED sub
      BY <1>0, <3>1, <3>3, SameKernel DEF Fault, kernel
    <3> QED BY <2>0, <3>2, <3>3
  <2> DEFINE o == op[p]
  <2>a. o \in Op
    BY <1>0
  <2>b. StepsTo(p, "detach", o)
    BY <1>1, <2>1 DEF StepsTo, At, AbortTake, Inside, Outside, Labels
  <2>c. KernelInv'
    BY <2>1
  <2>d. Swaps(o)
    BY <1>0
  <2>e. PhaseOf("detach", o, req[p], stack')
    BY <2>d, QuietPhase DEF Quiet
  <2> QED BY <2>a, <2>b, <2>c, <2>e, Assemble DEF Inside, Outside, Labels
<1>2. CASE AbortDetach(p)
  <2>0. PICK h \in H :
          /\ \/ Pop(h) /\ UNCHANGED <<stage, faults>>
             \/ /\ stage' = [stage EXCEPT ![op[p].gen] = @ \ {h}]
                /\ Carry(h, op[p].gen, "lost") /\ UNCHANGED <<stack, faults>>
             \/ Fault("detach") /\ UNCHANGED <<stack, sub, stage>>
          /\ Goes(p, "restore", [op[p] EXCEPT !.attached = @ \ {h}, !.staged = @ \ {h}])
    BY <1>2 DEF AbortDetach
  <2>1. faults' \in Nat
    BY <1>0, <2>0 DEF Fault
  <2>2. UNCHANGED <<dirs, img>> /\ stage' \in [Dirs -> SUBSET H]
    BY <1>2, <1>0, <2>0 DEF AbortDetach, KernelInv
  <2>3. KernelInv'
    <3>1. CASE Pop(h)
      BY <1>0, <2>2, <3>1, PopKernel
    <3>2. CASE Carry(h, op[p].gen, "lost") /\ UNCHANGED stack
      BY <1>0, <2>2, <3>2, CarryType, SameStack DEF KernelInv, Place
    <3>3. CASE UNCHANGED <<stack, sub, stage>>
      BY <1>0, <2>2, <3>3, SameStack DEF KernelInv
    <3> QED BY <2>0, <3>1, <3>2, <3>3
  <2> DEFINE o == [op[p] EXCEPT !.attached = @ \ {h}, !.staged = @ \ {h}]
  <2>a. o \in Op
    BY <1>2, <2>0, <2>1, <1>0 DEF Op
  <2>b. StepsTo(p, "restore", o)
    BY <1>2, <2>0, <2>1, <1>0 DEF StepsTo, Goes, At, AbortDetach, Inside, Outside, Labels
  <2>c. KernelInv'
    BY <2>3
  <2>d. Swaps(o)
    BY <1>0 DEF Swaps
  <2>e. PhaseOf("restore", o, req[p], stack')
    BY <2>d, QuietPhase DEF Quiet
  <2> QED BY <2>a, <2>b, <2>c, <2>e, Assemble DEF Inside, Outside, Labels
<1>3. CASE AbortAttach(p)
  <2>0. PICK h \in H :
          /\ \/ Carry(h, p, Visible(h)) /\ UNCHANGED faults
             \/ Fault("putback") /\ AttachSomeClose(p, h, Visible(h))
          /\ Goes(p, "abort", [op[p] EXCEPT !.todo = @ \ {h}])
    BY <1>3 DEF AbortAttach, Attach
  <2>1. Visible(h) \in Place
    BY DEF Visible, Place
  <2>2. KernelInv' /\ faults' \in Nat
    BY <1>3, <1>0, <2>0, <2>1, CarryKernel, AttachSomeKernel DEF AbortAttach, Fault
  <2> DEFINE o == [op[p] EXCEPT !.todo = @ \ {h}]
  <2>a. o \in Op
    BY <1>0 DEF Op
  <2>b. StepsTo(p, "abort", o)
    BY <1>3, <2>0, <2>2 DEF StepsTo, At, AbortAttach, Inside, Outside, Labels
  <2>c. KernelInv'
    BY <2>2
  <2>d. Swaps(o)
    BY <1>0 DEF Swaps
  <2>e. PhaseOf("abort", o, req[p], stack')
    BY <2>d, QuietPhase DEF Quiet
  <2> QED BY <2>a, <2>b, <2>c, <2>e, Assemble DEF Inside, Outside, Labels
<1>4. CASE AbortRelease(p)
  <2>1. KernelInv' /\ faults' \in Nat
    BY <1>4, <1>0, TeardownKernel, DiscardKernel, ReleaseKernel DEF AbortRelease
  <2>2. Working(p)
    BY <1>4, <2>1 DEF Working, AbortRelease, At, Inside, Outside, Labels
  <2> QED BY <1>4, <2>1, <2>2, FinishStep DEF AbortRelease, Results
<1> QED BY <1>1, <1>2, <1>3, <1>4

(* An error while a hierarchy is unmerged keeps Inv. *)
LEMMA UnmergeErrorStep ==
  ASSUME Inv, NEW p \in Procs, Working(p), UnmergeError(p), KernelInv'
  PROVE  Inv'
<1>0. KernelInv /\ op[p] \in Op /\ Swaps(op[p])
  BY Facts
<1>1. CASE InPlace(p)
  <2> DEFINE o == [op[p] EXCEPT !.res = "error"]
  <2>1. o \in Op /\ Swaps(o) /\ o.unmerging = op[p].unmerging
    BY <1>0 DEF Op, Results, Swaps
  <2>2. StepsTo(p, "putback", o)
    BY <1>1 DEF UnmergeError, StepsTo, Working
  <2>3. PhaseOf("putback", o, req[p], stack')
    BY <1>1, <2>1 DEF PhaseOf, InPlace, Outside, Layers
  <2> QED BY <2>1, <2>2, <2>3, PutBackInside, Assemble
<1>2. CASE ~InPlace(p)
  BY <1>0, <1>2, AbortStep DEF UnmergeError
<1> QED BY <1>1, <1>2

(* Failures before anything merged is touched keep Inv. *)
LEMMA PrepareFailsInv ==
  ASSUME Inv, NEW p \in Procs,
         CheckFails(p) \/ WorkspaceFails(p) \/ MountImageFails(p) \/
           CallbackFails(p) \/ PlanFails(p)
  PROVE  Inv'
<1>0. /\ KernelInv /\ faults \in Nat /\ op[p] \in Op /\ req[p] \in Request
      /\ PhaseOf(pc[p], op[p], req[p], stack) /\ Swaps(op[p])
  BY Facts
<1>1. CASE CheckFails(p)
  <2>1. Working(p)
    BY <1>1, <1>0 DEF Working, At, Fault, CheckFails, Inside, Outside, Labels
  <2>2. KernelInv'
    BY <1>1, <1>0, SameKernel DEF CheckFails
  <2> QED BY <1>1, <1>0, <2>1, <2>2, AbortStep DEF CheckFails
<1>2. CASE WorkspaceFails(p)
  <2>1. Working(p)
    BY <1>2, <1>0 DEF Working, At, Fault, WorkspaceFails, Inside, Outside, Labels
  <2>2. UNCHANGED kernel \/ Teardown({})
    BY <1>2 DEF WorkspaceFails
  <2>3. KernelInv'
    BY <1>0, <2>2, SameKernel, TeardownKernel
  <2> QED BY <1>2, <1>0, <2>1, <2>3, AbortStep DEF WorkspaceFails
<1>3. CASE MountImageFails(p)
  <2>1. Working(p)
    BY <1>3, <1>0 DEF Working, At, Fault, MountImageFails, Inside, Outside, Labels
  <2>2. PICK e \in op[p].left : img' = img \/ img' = [img EXCEPT ![op[p].gen] = @ \cup {e}]
    BY <1>3 DEF MountImageFails
  <2>3. img' \in [Dirs -> SUBSET Exts]
    BY <1>0, <2>2 DEF KernelInv, Op
  <2>4. KernelInv'
    BY <1>3, <1>0, <2>3, SameStack DEF MountImageFails, KernelInv
  <2> QED BY <1>3, <1>0, <2>1, <2>4, AbortStep DEF MountImageFails
<1>4. CASE CallbackFails(p)
  <2>1. Working(p)
    BY <1>4, <1>0 DEF Working, At, Fault, CallbackFails, Inside, Outside, Labels
  <2>2. KernelInv'
    BY <1>4, <1>0, SameKernel DEF CallbackFails
  <2> QED BY <1>4, <1>0, <2>1, <2>2, AbortStep DEF CallbackFails
<1>5. CASE PlanFails(p)
  <2>1. Working(p)
    BY <1>5, <1>0 DEF Working, At, Fault, PlanFails, Inside, Outside, Labels, Prepared
  <2>2. KernelInv'
    BY <1>5, <1>0, SameKernel DEF PlanFails
  <2> QED BY <1>5, <1>0, <2>1, <2>2, AbortStep DEF PlanFails
<1> QED BY <1>1, <1>2, <1>3, <1>4, <1>5

(* Failures of an unmerge keep Inv. *)
LEMMA UnmergeFailsInv ==
  ASSUME Inv, NEW p \in Procs,
         TakeFails(p) \/ UnmountFails(p) \/ PutBackFails(p) \/
           TeardownFails(p)
  PROVE  Inv'
<1>0. /\ KernelInv /\ faults \in Nat /\ op[p] \in Op /\ req[p] \in Request
      /\ PhaseOf(pc[p], op[p], req[p], stack) /\ Swaps(op[p])
  BY Facts
<1>1. CASE TakeFails(p)
  <2>1. Working(p)
    BY <1>1, <1>0 DEF Working, At, Fault, TakeFails, Inside, Outside, Labels
  <2>2. KernelInv'
    BY <1>1, <1>0, SameKernel DEF TakeFails
  <2> QED BY <1>1, <2>1, <2>2, UnmergeErrorStep DEF TakeFails
<1>2. CASE UnmountFails(p)
  <2>0. PICK h \in H :
          \/ UNCHANGED <<stack, sub>> /\ UnmergeError(p)
          \/ /\ Pop(h)
             /\ IF InPlace(p) THEN UnmergeError(p) ELSE Abort(p, [op[p] EXCEPT !.unmerged = @ \cup {h}])
    BY <1>2 DEF UnmountFails
  <2>1. Working(p)
    BY <1>2, <1>0 DEF Working, At, Fault, UnmountFails, Inside, Outside, Labels
  <2>2. UNCHANGED <<dirs, img, stage>> /\ stage' \in [Dirs -> SUBSET H]
    BY <1>2, <1>0 DEF UnmountFails, KernelInv
  <2>3. CASE UNCHANGED <<stack, sub>> /\ UnmergeError(p)
    <3>1. KernelInv'
      BY <1>0, <2>2, <2>3, SameKernel DEF kernel
    <3> QED BY <2>1, <2>3, <3>1, UnmergeErrorStep
  <2>4. CASE Pop(h) /\ InPlace(p) /\ UnmergeError(p)
    <3>1. KernelInv'
      BY <1>0, <2>2, <2>4, PopKernel
    <3> QED BY <2>1, <2>4, <3>1, UnmergeErrorStep
  <2>5. CASE Pop(h) /\ ~InPlace(p) /\ Abort(p, [op[p] EXCEPT !.unmerged = @ \cup {h}])
    <3>1. KernelInv'
      BY <1>0, <2>2, <2>5, PopKernel
    <3>2. [op[p] EXCEPT !.unmerged = @ \cup {h}] \in Op /\ Swaps([op[p] EXCEPT !.unmerged = @ \cup {h}])
      BY <1>0 DEF Op, Swaps
    <3> QED BY <2>1, <2>5, <3>1, <3>2, AbortStep
  <2> QED BY <2>0, <2>3, <2>4, <2>5
<1>3. CASE PutBackFails(p)
  <2>0. PICK h \in H : AttachSomeClose(p, h, Visible(h)) /\ UnmergeNext(p, h, "error")
    BY <1>3 DEF PutBackFails
  <2>1. Working(p) /\ pc[p] = "putback"
    BY <1>3, <1>0 DEF Working, At, Fault, PutBackFails, Inside, Outside, Labels
  <2>2. Visible(h) \in Place
    BY DEF Visible, Place
  <2>3. KernelInv'
    BY <1>3, <1>0, <2>0, <2>2, AttachSomeKernel DEF PutBackFails
  <2> QED BY <2>0, <2>1, <2>3, UnmergeNextStep DEF Results
<1>4. CASE TeardownFails(p)
  <2>1. Working(p)
    BY <1>4, <1>0 DEF Working, At, Fault, TeardownFails, Inside, Outside, Labels
  <2>2. KernelInv'
    BY <1>4, <1>0, SameKernel, TeardownKernel DEF TeardownFails
  <2>3. CASE Abort(p, op[p])
    BY <1>0, <2>1, <2>2, <2>3, AbortStep
  <2>4. CASE Finish(p, "cleanup") \/ Finish(p, "error")
    BY <2>1, <2>2, <2>4, FinishStep DEF Results
  <2> QED BY <1>4, <2>3, <2>4 DEF TeardownFails
<1> QED BY <1>1, <1>2, <1>3, <1>4

(* Failures while overlays are staged keep Inv. *)
LEMMA StageFailsInv ==
  ASSUME Inv, NEW p \in Procs,
         KeepHostFails(p) \/ StageFails(p) \/ TakeHostMountsFails(p) \/
           AttachStagedFails(p)
  PROVE  Inv'
<1>0. /\ KernelInv /\ faults \in Nat /\ op[p] \in Op /\ req[p] \in Request
      /\ PhaseOf(pc[p], op[p], req[p], stack) /\ Swaps(op[p])
  BY Facts
<1>1. CASE KeepHostFails(p)
  <2>0. PICK h \in H : AttachSome(p, h, Visible(h))
    BY <1>1 DEF KeepHostFails
  <2>1. Working(p)
    BY <1>1, <1>0 DEF Working, At, Fault, KeepHostFails, Inside, Outside, Labels
  <2>2. Visible(h) \in Place
    BY DEF Visible, Place
  <2>3. KernelInv'
    BY <1>1, <1>0, <2>0, <2>2, AttachSomeKernel DEF KeepHostFails
  <2> QED BY <1>1, <1>0, <2>1, <2>3, AbortStep DEF KeepHostFails
<1>2. CASE StageFails(p)
  <2>0. PICK h \in H :
          \/ UNCHANGED stage /\ Abort(p, op[p])
          \/ UNCHANGED stage /\ Abort(p, [op[p] EXCEPT !.staged = @ \cup {h}])
          \/ /\ stage' = [stage EXCEPT ![op[p].gen] = @ \cup {h}]
             /\ Abort(p, [op[p] EXCEPT !.staged = @ \cup {h}])
    BY <1>2 DEF StageFails
  <2>1. Working(p)
    BY <1>2, <1>0 DEF Working, At, Fault, StageFails, Inside, Outside, Labels
  <2>2. stage' \in [Dirs -> SUBSET H]
    BY <1>0, <2>0 DEF KernelInv
  <2>3. KernelInv'
    BY <1>2, <1>0, <2>2, SameStack DEF StageFails, KernelInv
  <2>4. [op[p] EXCEPT !.staged = @ \cup {h}] \in Op /\ Swaps([op[p] EXCEPT !.staged = @ \cup {h}])
    BY <1>0 DEF Op, Swaps
  <2>5. CASE Abort(p, op[p])
    BY <1>0, <2>1, <2>3, <2>5, AbortStep
  <2>6. CASE Abort(p, [op[p] EXCEPT !.staged = @ \cup {h}])
    BY <2>1, <2>3, <2>4, <2>6, AbortStep
  <2> QED BY <2>0, <2>5, <2>6
<1>3. CASE TakeHostMountsFails(p)
  <2>1. Working(p)
    BY <1>3, <1>0 DEF Working, At, Fault, TakeHostMountsFails, Inside, Outside, Labels
  <2>2. KernelInv'
    BY <1>3, <1>0, SameKernel DEF TakeHostMountsFails
  <2> QED BY <1>3, <1>0, <2>1, <2>2, AbortStep DEF TakeHostMountsFails
<1>4. CASE AttachStagedFails(p)
  <2>0. PICK h \in H : AttachSome(p, h, op[p].gen)
    BY <1>4 DEF AttachStagedFails
  <2>1. Working(p)
    BY <1>4, <1>0 DEF Working, At, Fault, AttachStagedFails, Inside, Outside, Labels
  <2>2. op[p].gen \in Place
    BY <1>4, <1>0 DEF AttachStagedFails, At, PhaseOf, Swaps, Place
  <2>3. KernelInv'
    BY <1>4, <1>0, <2>2, AttachSomeKernel DEF AttachStagedFails
  <2> QED BY <1>4, <1>0, <2>1, <2>3, AbortStep DEF AttachStagedFails
<1> QED BY <1>1, <1>2, <1>3, <1>4

(* A failing move and a failing promote keep Inv. *)
LEMMA LiveFailsInv ==
  ASSUME Inv, NEW p \in Procs,
         MoveFails(p) \/ PromoteFails(p)
  PROVE  Inv'
<1>0. /\ KernelInv /\ faults \in Nat /\ op[p] \in Op /\ req[p] \in Request
      /\ PhaseOf(pc[p], op[p], req[p], stack) /\ Swaps(op[p])
  BY Facts
<1>1. CASE MoveFails(p)
  <2>1. Working(p)
    BY <1>1, <1>0 DEF Working, At, Fault, MoveFails, Inside, Outside, Labels
  <2>2. KernelInv'
    BY <1>1, <1>0, SameKernel DEF MoveFails
  <2> QED BY <1>1, <1>0, <2>1, <2>2, AbortStep DEF MoveFails
<1>2. CASE PromoteFails(p)
  <2>1. Working(p)
    BY <1>2, <1>0 DEF Working, At, Fault, PromoteFails, Inside, Outside, Labels
  <2>2. KernelInv'
    <3>1. img' \in [Dirs -> SUBSET Exts]
      BY <1>2, <1>0 DEF PromoteFails, KernelInv
    <3> QED BY <1>2, <1>0, SameStack DEF PromoteFails, KernelInv
  <2> QED BY <1>2, <2>1, <2>2, FinishStep DEF PromoteFails, Results
<1> QED BY <1>1, <1>2

(* A process that starts waiting for the lock keeps Inv. *)
LEMMA BeginInv ==
  ASSUME Inv, NEW p \in Procs, Begin(p)
  PROVE  Inv'
<1>0. PICK r \in Requests : req' = [req EXCEPT ![p] = r]
  BY DEF Begin
<1>1. pc[p] = "idle" /\ op[p] = NewOp /\ op' = op
  <2>1. pc[p] = "idle" /\ op \in [Procs -> Op] /\ op' = [op EXCEPT ![p] = op[p]]
    BY DEF Begin, Goes, Inv, TypeOK
  <2>2. op[p] = NewOp
    BY <2>1 DEF Inv, Phase, PhaseOf, Outside
  <2> QED BY <2>1, <2>2
<1>2. KernelInv'
  BY Facts, SameKernel DEF Begin
<1>3. r \in Request
  BY RequestsAssumption
<1>4. TypeOK'
  BY <1>0, <1>2, <1>3 DEF Begin, Goes, Inv, TypeOK, KernelInv, Labels
<1>5. Exclusive'
  BY DEF Begin, Goes, Inv, Exclusive
<1>6. ASSUME NEW q \in Procs PROVE Phase(q)'
  <2>1. CASE q = p
    <3>1. pc'[q] = "lock" /\ op'[q] = NewOp
      BY <1>1, <2>1 DEF Begin, Goes, Inv, TypeOK
    <3> QED BY <3>1, OutsidePhase DEF Phase, Outside
  <2>2. CASE q # p
    <3>1. pc'[q] = pc[q] /\ req'[q] = req[q] /\ stack' = stack
      BY <2>2 DEF Begin, Goes, kernel
    <3> QED BY <1>1, <3>1 DEF Inv, Phase
  <2> QED BY <2>1, <2>2
<1> QED BY <1>2, <1>4, <1>5, <1>6 DEF Inv, KernelInv

(* Nobody else is inside when the lock is taken. *)
LEMMA AcquireInv ==
  ASSUME Inv, NEW p \in Procs, Acquire(p)
  PROVE  Inv'
<1>0. /\ pc[p] = "lock" /\ lock = NoProc /\ lock' = p
      /\ UNCHANGED <<kernel, req, faults, crashes>>
  BY DEF Acquire
<1>1. \A q \in Procs : pc[q] \in Outside /\ op[q] = NewOp
  BY <1>0, NamesAssumption DEF Inv, Exclusive, Outside, Phase, PhaseOf
<1>2. KernelInv'
  BY <1>0, Facts, SameKernel
<1>3. PICK l \in {"take", "check"}, o \in {[NewOp EXCEPT !.todo = H], NewOp} :
        /\ Goes(p, l, o)
        /\ l = "take" => req[p].verb = "unmerge"
        /\ l = "check" => o = NewOp
  BY <1>1 DEF Acquire
<1>4. NewOp \in Op /\ [NewOp EXCEPT !.todo = H] \in Op
  BY DEF NewOp, Op, Results
<1>5. o \in Op /\ o.swapping = FALSE /\ o.images = {} /\ o.attached = {} /\ o.gen = NoDir
  <2>1. CASE o = NewOp
    BY <1>4, <2>1 DEF NewOp
  <2>2. CASE o = [NewOp EXCEPT !.todo = H]
    BY <1>4, <2>2 DEF NewOp
  <2> QED BY <2>1, <2>2
<1>6. TypeOK'
  BY <1>0, <1>2, <1>3, <1>5 DEF Goes, Inv, TypeOK, KernelInv, Labels
<1>7. Exclusive'
  BY <1>0, <1>1, <1>3 DEF Goes, Exclusive, Outside
<1>8. ASSUME NEW q \in Procs PROVE Phase(q)'
  <2>1. CASE q = p
    <3>1. pc'[q] = l /\ op'[q] = o /\ req' = req
      BY <1>0, <1>3, <2>1 DEF Goes, Inv, TypeOK
    <3>2. PhaseOf(l, o, req[p], stack')
      BY <1>3, <1>5 DEF PhaseOf, Swaps, Outside, Layers
    <3> QED BY <2>1, <3>1, <3>2 DEF Phase
  <2>2. CASE q # p
    <3>1. pc'[q] = pc[q] /\ op'[q] = NewOp
      BY <1>1, <1>3, <2>2 DEF Goes
    <3> QED BY <1>1, <3>1, OutsidePhase DEF Phase
  <2> QED BY <2>1, <2>2
<1> QED BY <1>2, <1>6, <1>7, <1>8 DEF Inv, KernelInv

(* Leaving the lock keeps Inv: everybody is outside then. *)
LEMMA LeaveInv ==
  ASSUME Inv, NEW p \in Procs, lock = p, Leave(p), KernelInv',
         faults' \in Nat, crashes' \in Nat
  PROVE  Inv'
<1>1. \A q \in Procs \ {p} : pc[q] \in Outside /\ op[q] = NewOp
  BY DEF Inv, Exclusive, Outside, Phase, PhaseOf
<1>2. NewOp \in Op /\ NoRequest \in Request
  BY DEF NewOp, Op, Results, NoRequest, Request
<1>3. TypeOK'
  BY <1>2 DEF Leave, Goes, Inv, TypeOK, KernelInv, Labels
<1>4. \A q \in Procs : pc'[q] \in Outside /\ op'[q] = NewOp
  BY <1>1 DEF Leave, Goes, Inv, TypeOK, Outside
<1>5. Exclusive'
  BY <1>4 DEF Exclusive, Outside
<1>6. \A q \in Procs : Phase(q)'
  BY <1>4, OutsidePhase DEF Phase
<1> QED BY <1>3, <1>5, <1>6 DEF Inv, KernelInv

(* unlock keeps Inv. *)
LEMMA UnlockInv ==
  ASSUME Inv, NEW p \in Procs, Unlock(p)
  PROVE  Inv'
<1>1. lock = p
  BY DEF Unlock, Inv, Exclusive
<1>2. KernelInv'
  BY Facts, SameKernel DEF Unlock
<1> QED BY <1>1, <1>2, LeaveInv DEF Unlock, Inv, TypeOK

(* A SIGKILL of the lock holder, at any label, keeps Inv. *)
LEMMA CrashInv ==
  ASSUME Inv, NEW p \in Procs, Crash(p)
  PROVE  Inv'
<1>1. KernelInv
  BY Facts
<1>2. sub' \in [Subs -> Place]
  BY <1>1 DEF Crash, KernelInv, Place
<1>3. KernelInv'
  BY <1>1, <1>2, SameStack DEF Crash, KernelInv
<1> QED BY <1>3, LeaveInv DEF Crash, Inv, TypeOK

(* Inv holds initially. *)
LEMMA InitInv == Init => Inv
<1> SUFFICES ASSUME Init PROVE Inv
  OBVIOUS
<1>1. NewOp \in Op /\ NoRequest \in Request
  BY DEF NewOp, Op, Results, NoRequest, Request
<1>2. TypeOK
  BY <1>1 DEF Init, TypeOK, Place, Labels
<1>3. Exclusive
  BY DEF Init, Exclusive
<1>4. NeverStacked /\ MarkersIntact
  BY DEF Init, NeverStacked, MarkersIntact
<1>5. \A p \in Procs : Phase(p)
  BY OutsidePhase DEF Init, Phase, Outside
<1> QED BY <1>2, <1>3, <1>4, <1>5 DEF Inv

(* Every step keeps Inv. *)
LEMMA NextInv ==
  ASSUME Inv, Next
  PROVE  Inv'
<1>0. PICK p \in Procs : Begin(p) \/ Acquire(p) \/ Works(p) \/ Fails(p) \/ Unlock(p) \/ Crash(p)
  BY DEF Next
<1>1. CASE Begin(p) \/ Acquire(p) \/ Unlock(p) \/ Crash(p)
  BY <1>1, BeginInv, AcquireInv, UnlockInv, CrashInv
<1>2. CASE Works(p)
  BY <1>2, WorkspaceInv, PlanInv, UnmergeInv, StageInv, LiveInv, PromoteInv, AbortInv DEF Works
<1>3. CASE Fails(p)
  BY <1>3, PrepareFailsInv, UnmergeFailsInv, StageFailsInv, LiveFailsInv DEF Fails
<1> QED BY <1>0, <1>1, <1>2, <1>3

(* A step of the rest of the system keeps Inv. *)
LEMMA StutterInv ==
  ASSUME Inv, UNCHANGED vars
  PROVE  Inv'
<1>1. Exclusive' /\ NeverStacked' /\ MarkersIntact'
  BY DEF Inv, Exclusive, NeverStacked, MarkersIntact, vars, kernel
<1>2. TypeOK'
  BY DEF Inv, TypeOK, vars, kernel
<1>3. \A p \in Procs : Phase(p)'
  BY DEF Inv, Phase, vars, kernel
<1> QED BY <1>1, <1>2, <1>3 DEF Inv

(* Inv is an invariant of the engine. *)
THEOREM Invariance == Spec => []Inv
<1>1. Init => Inv
  BY InitInv
<1>2. Inv /\ [Next]_vars => Inv'
  BY NextInv, StutterInv
<1> QED BY <1>1, <1>2, PTL DEF Spec

(* Every variable keeps its type: no step indexes a generation that is not
   there, and no mount ends up at an unknown place. *)
THEOREM TypeCorrect == Spec => []TypeOK
<1>1. Inv => TypeOK
  BY DEF Inv
<1> QED BY <1>1, Invariance, PTL

(* lock.go: the flock admits one process at a time to the steps between lock
   and unlock, kills included. *)
THEOREM MutualExclusion == Spec => []Exclusive
<1>1. Inv => Exclusive
  BY DEF Inv
<1> QED BY <1>1, Invariance, PTL

(* Merge and Refresh never put a second overlay of ours on a hierarchy,
   whatever fails and whoever is killed before. *)
THEOREM SingleOverlay == Spec => []NeverStacked
<1>1. Inv => NeverStacked
  BY DEF Inv
<1> QED BY <1>1, Invariance, PTL

(* promote, discard and teardownWorkspace never remove the metadata layer below
   a mounted overlay, so isOurMountPoint keeps recognizing all of them. *)
THEOREM MarkersKept == Spec => []MarkersIntact
<1>1. Inv => MarkersIntact
  BY DEF Inv
<1> QED BY <1>1, Invariance, PTL

-----------------------------------------------------------------------------
(***************************************************************************)
(* What an operation shows on the hierarchies: never two merges at a time, *)
(* and at the end what it reports.  ShowInv follows an operation from      *)
(* label to label: which hierarchies an unmerge has emptied, and which of  *)
(* them show the new merge.  One lemma per stage shows that its actions    *)
(* keep ShowInv, and ends in ShowStep, ShowAbort or ShowFinish.            *)
(*                                                                         *)
(* FillInv does the same for what a merge leaves in the workspace: it      *)
(* follows the images from the generation they were mounted in to          *)
(* ws/extensions, and the layers of the overlays with them.                *)
(***************************************************************************)
(* Mounts and InPlace for a mergeOp and a request. *)
MountsOf(o, r) == {h \in H : r.mutable \/ \E e \in o.images : <<e, h>> \in Provides}
InPlaceOf(o, r) == r.verb = "unmerge" \/ o.unmerging

(* The hierarchies in S show the new merge, the others the host. *)
Live(st, S, o, r) ==
  \A h \in H : IF h \in S
               THEN /\ st[h] # <<>> /\ st[h][1].names = o.images
                    /\ st[h][1].mutable = r.mutable
               ELSE st[h] = <<>>

(* What is on the hierarchies at each label: which of them an unmerge has
   emptied, and which ones show the new merge. *)
ShowsOf(l, o, r, st) ==
  /\ l # "unlock" => o.res \in {"none", "error"}
  /\ InPlaceOf(o, r) => ~o.swapping
  /\ l \in {"check", "workspace", "image"} => ~InPlaceOf(o, r)
  /\ l = "callback" => Empty(st, o.merged)
  /\ l \in {"take", "umount"} /\ o.res = "none" /\ InPlaceOf(o, r) => Empty(st, o.todo)
  /\ l = "putback" /\ o.res = "none" =>
       \A h \in H : First(h, o.todo) => Empty(st, o.todo \ {h})
  /\ l = "teardown" => IF o.swapping THEN o.attached = {} /\ Live(st, MountsOf(o, r), o, r)
                                    ELSE Empty(st, {}) /\ InPlaceOf(o, r)
  /\ l = "move" => o.attached \cup o.todo = MountsOf(o, r)
  /\ l \in Layers => o.attached = MountsOf(o, r)
  /\ l \in {"move"} \cup Layers => Live(st, o.attached, o, r)
  /\ l = "unlock" /\ o.res \in {"merged", "cleanup"} => Live(st, MountsOf(o, r), o, r)
  /\ l = "unlock" /\ o.res \in {"unmerged", "nothing"} => Empty(st, {})

Shows(p) == ShowsOf(pc[p], op[p], req[p], stack)

ShowInv == \A p \in Procs : Shows(p)

-----------------------------------------------------------------------------
(* A hierarchy carries nothing or one overlay. *)
LEMMA AtMostOne ==
  ASSUME NEW st \in Seq(Overlay), Len(st) <= 1
  PROVE  st = <<>> \/ Len(st) = 1
<1>1. Len(st) \in Nat
  OBVIOUS
<1>2. CASE Len(st) = 0
  BY <1>2
<1>3. CASE Len(st) = 1
  BY <1>3
<1> QED BY <1>1, <1>2, <1>3

(* What every action may use. *)
LEMMA Given ==
  ASSUME Inv, ShowInv, NEW p \in Procs
  PROVE  /\ KernelInv /\ op[p] \in Op /\ req[p] \in Request
         /\ PhaseOf(pc[p], op[p], req[p], stack) /\ Swaps(op[p])
         /\ ShowsOf(pc[p], op[p], req[p], stack)
         /\ \A h \in H : stack[h] = <<>> \/ Len(stack[h]) = 1
<1>0. \A h \in H : stack[h] \in Seq(Overlay) /\ Len(stack[h]) <= 1
  BY DEF Inv, TypeOK, NeverStacked
<1>1. \A h \in H : stack[h] = <<>> \/ Len(stack[h]) = 1
  BY <1>0, AtMostOne
<1> QED BY <1>1, Facts DEF ShowInv, Shows

(* A step under the lock is the business of one process only. *)
LEMMA Alone ==
  ASSUME Inv, NEW p \in Procs, pc[p] \in Inside, UNCHANGED req,
         NEW l, NEW o, Goes(p, l, o)
  PROVE  /\ pc'[p] = l /\ op'[p] = o /\ req'[p] = req[p] /\ lock = p
         /\ \A q \in Procs \ {p} : pc'[q] \in Outside /\ op'[q] = NewOp
<1>1. pc'[p] = l /\ op'[p] = o /\ lock = p
  BY DEF Inv, TypeOK, Goes, Exclusive, Inside, Outside
<1>2. ASSUME NEW q \in Procs \ {p} PROVE pc'[q] \in Outside /\ op'[q] = NewOp
  <2>1. pc[q] \in Outside /\ PhaseOf(pc[q], op[q], req[q], stack)
    BY <1>1 DEF Inv, Exclusive, Outside, Phase
  <2>2. pc'[q] = pc[q] /\ op'[q] = op[q]
    BY DEF Goes, Inv, TypeOK
  <2> QED BY <2>1, <2>2 DEF PhaseOf
<1> QED BY <1>1, <1>2

(* Outside the lock nothing is claimed. *)
LEMMA OutsideShows ==
  ASSUME NEW l \in Outside, NEW r, NEW st
  PROVE  ShowsOf(l, NewOp, r, st)
BY DEF ShowsOf, Outside, NewOp, Layers

(* ShowInv holds after a step of p that shows what the next label wants. *)
LEMMA ShowStep ==
  ASSUME Inv, NEW p \in Procs, pc[p] \in Inside, UNCHANGED req,
         NEW l, NEW o, Goes(p, l, o), ShowsOf(l, o, req[p], stack')
  PROVE  ShowInv'
<1>1. Shows(p)'
  BY Alone DEF Shows
<1>2. ASSUME NEW q \in Procs \ {p} PROVE Shows(q)'
  BY Alone, OutsideShows DEF Shows
<1> QED BY <1>1, <1>2 DEF ShowInv

(* abort starts whatever the hierarchies show. *)
LEMMA ShowAbort ==
  ASSUME Inv, NEW p \in Procs, pc[p] \in Inside, UNCHANGED req,
         NEW o \in Op, InPlaceOf(o, req[p]) => ~o.swapping, Abort(p, o)
  PROVE  ShowInv'
<1> DEFINE n == [o EXCEPT !.todo = H, !.res = "error"]
<1>1. n.res = "error" /\ (InPlaceOf(n, req[p]) => ~n.swapping)
  BY DEF Op, InPlaceOf
<1>2. ShowsOf("abort", n, req[p], stack')
  BY <1>1 DEF ShowsOf, Layers
<1> QED BY <1>2, ShowStep DEF Abort

(* An operation may end with a result if the hierarchies show it. *)
LEMMA ShowFinish ==
  ASSUME Inv, ShowInv, NEW p \in Procs, pc[p] \in Inside, UNCHANGED req,
         NEW result, Finish(p, result),
         result \in {"merged", "cleanup"} =>
           Live(stack', MountsOf(op[p], req[p]), op[p], req[p]),
         result \in {"unmerged", "nothing"} => Empty(stack', {})
  PROVE  ShowInv'
<1> DEFINE n == [op[p] EXCEPT !.res = result]
<1>1. /\ n.res = result /\ n.images = op[p].images
      /\ InPlaceOf(n, req[p]) => ~n.swapping
  BY Given DEF Op, InPlaceOf, ShowsOf
<1>2. MountsOf(n, req[p]) = MountsOf(op[p], req[p])
  BY <1>1 DEF MountsOf
<1>3. ShowsOf("unlock", n, req[p], stack')
  BY <1>1, <1>2 DEF ShowsOf, Layers, Live
<1> QED BY <1>3, ShowStep DEF Finish

(* Removing or renaming a directory of the workspace, or all of them, changes
   nothing that the hierarchies show. *)
Same(st, st2) ==
  \A h \in H : /\ st2[h] = <<>> <=> st[h] = <<>>
               /\ st[h] # <<>> => st2[h][1].names = st[h][1].names
                                 /\ st2[h][1].mutable = st[h][1].mutable

(* A merge whose layers are elsewhere is still the same merge. *)
LEMMA RelocatedSame ==
  ASSUME NEW st \in Seq(Overlay), NEW ds, NEW loc
  PROVE  /\ Relocated(st, ds, loc) = <<>> <=> st = <<>>
         /\ st # <<>> => /\ Relocated(st, ds, loc)[1].names = st[1].names
                         /\ Relocated(st, ds, loc)[1].mutable = st[1].mutable
<1>1. Relocated(st, ds, loc) = [k \in 1..Len(st) |->
        IF st[k].loc \in ds THEN [st[k] EXCEPT !.loc = loc] ELSE st[k]]
  BY DEF Relocated
<1>2. CASE st = <<>>
  <2>1. Relocated(st, ds, loc) = <<>>
    BY <1>1, <1>2
  <2> QED BY <1>2, <2>1
<1>3. CASE st # <<>>
  <2>1. 1 \in 1..Len(st) /\ st[1] \in Overlay
    BY <1>3
  <2>2. Relocated(st, ds, loc)[1] = IF st[1].loc \in ds THEN [st[1] EXCEPT !.loc = loc] ELSE st[1]
    BY <1>1, <2>1
  <2>3. /\ Relocated(st, ds, loc)[1].names = st[1].names
        /\ Relocated(st, ds, loc)[1].mutable = st[1].mutable
    BY <2>1, <2>2 DEF Overlay
  <2>4. DOMAIN Relocated(st, ds, loc) = 1..Len(st)
    BY <1>1
  <2>5. Relocated(st, ds, loc) # <<>>
    BY <2>1, <2>4
  <2> QED BY <1>3, <2>3, <2>5
<1> QED BY <1>2, <1>3

(* Removing the workspace changes where layers are, not what is merged. *)
LEMMA TeardownSame ==
  ASSUME KernelInv, NEW ds, Teardown(ds)
  PROVE  Same(stack, stack')
BY RelocatedSame DEF Teardown, KernelInv, Same

(* So does moving the layers of one hierarchy ... *)
LEMMA OneSame ==
  ASSUME KernelInv, NEW h \in H, NEW ds, NEW loc,
         stack' = [stack EXCEPT ![h] = Relocated(@, ds, loc)]
  PROVE  Same(stack, stack')
BY RelocatedSame DEF KernelInv, Same

(* ... and moving those of all hierarchies. *)
LEMMA AllSame ==
  ASSUME KernelInv, NEW ds, NEW loc, stack' = [h \in H |-> Relocated(stack[h], ds, loc)]
  PROVE  Same(stack, stack')
BY RelocatedSame DEF KernelInv, Same

(* What does not change is the same. *)
LEMMA UnchangedSame ==
  ASSUME UNCHANGED stack
  PROVE  Same(stack, stack')
BY DEF Same

(* Discarding a generation changes no merge. *)
LEMMA DiscardSame ==
  ASSUME KernelInv, NEW p, Discard(p)
  PROVE  Same(stack, stack')
<1>1. CASE Teardown({})
  BY <1>1, TeardownSame
<1>2. CASE UNCHANGED stack
  BY <1>2, UnchangedSame
<1> QED BY <1>1, <1>2 DEF Discard, NotReleased, kernel

(* Live and Empty depend on what is merged only, not on where its layers are. *)
LEMMA SameLive ==
  ASSUME NEW st, NEW st2, Same(st, st2), NEW S, NEW o, NEW r
  PROVE  /\ Live(st, S, o, r) => Live(st2, S, o, r)
         /\ Empty(st, S) => Empty(st2, S)
<1>1. ASSUME Live(st, S, o, r), NEW h \in H
      PROVE  IF h \in S THEN st2[h] # <<>> /\ st2[h][1].names = o.images /\ st2[h][1].mutable = r.mutable
                        ELSE st2[h] = <<>>
  <2>1. CASE h \in S
    BY <1>1, <2>1 DEF Live, Same
  <2>2. CASE h \notin S
    BY <1>1, <2>2 DEF Live, Same
  <2> QED BY <2>1, <2>2
<1>2. Live(st, S, o, r) => Live(st2, S, o, r)
  BY <1>1 DEF Live
<1>3. Empty(st, S) => Empty(st2, S)
  BY DEF Empty, Same
<1> QED BY <1>2, <1>3

(* Mounts and Live look at the images of the mergeOp only. *)
LEMMA MountsSame ==
  ASSUME NEW o, NEW n, n.images = o.images, NEW r, NEW st
  PROVE  /\ MountsOf(n, r) = MountsOf(o, r)
         /\ \A S : Live(st, S, n, r) <=> Live(st, S, o, r)
<1>1. MountsOf(n, r) = MountsOf(o, r)
  BY DEF MountsOf
<1>2. \A S : Live(st, S, n, r) <=> Live(st, S, o, r)
  BY DEF Live
<1> QED BY <1>1, <1>2

(* Mounts and InPlace are functions of the mergeOp and the request. *)
LEMMA Fields ==
  \A p \in Procs : Mounts(p) = MountsOf(op[p], req[p]) /\ (InPlace(p) <=> InPlaceOf(op[p], req[p]))
BY DEF Mounts, MountsOf, InPlace, InPlaceOf

-----------------------------------------------------------------------------
(* What the hierarchies show, stage by stage of an operation. *)

(* Recording what is merged, the workspace and the images. *)
LEMMA ShowPrepare ==
  ASSUME Inv, ShowInv, NEW p \in Procs,
         Check(p) \/ ResetWorkspace(p) \/ UseWorkspace(p) \/ MountImage(p)
  PROVE  ShowInv'
<1>0. /\ KernelInv /\ op[p] \in Op /\ req[p] \in Request
      /\ PhaseOf(pc[p], op[p], req[p], stack) /\ ShowsOf(pc[p], op[p], req[p], stack)
  BY Given
<1>i. pc[p] \in Inside /\ UNCHANGED req /\ pc[p] \in {"check", "workspace", "image"}
  BY DEF Check, ResetWorkspace, UseWorkspace, MountImage, At, Inside, Outside, Labels
<1>r. op[p].res \in {"none", "error"} /\ ~InPlaceOf(op[p], req[p])
  BY <1>0, <1>i DEF ShowsOf
<1>s. ASSUME NEW l \in {"workspace", "image"}, NEW n, Goes(p, l, n),
             n.res = op[p].res, n.unmerging = op[p].unmerging
      PROVE  ShowInv'
  <2>1. ShowsOf(l, n, req[p], stack')
    BY <1>s, <1>r DEF ShowsOf, InPlaceOf, Layers
  <2> QED BY <2>1, <1>s, <1>i, ShowStep
<1>1. CASE Check(p)
  <2> DEFINE o == [op[p] EXCEPT !.merged = {h \in H : Ours(h)}, !.left = req[p].images]
  <2>1. CASE Abort(p, op[p])
    BY <2>1, <1>0, <1>i, <1>r, ShowAbort
  <2>2. CASE Goes(p, "workspace", o) \/ Goes(p, "image", o)
    <3>1. o.res = op[p].res /\ o.unmerging = op[p].unmerging
      BY <1>0 DEF Op
    <3> QED BY <2>2, <3>1, <1>s
  <2> QED BY <1>1, <2>1, <2>2 DEF Check
<1>2. CASE ResetWorkspace(p)
  <2> DEFINE o == [op[p] EXCEPT !.gen = Base, !.fresh = TRUE]
  <2>1. o.res = op[p].res /\ o.unmerging = op[p].unmerging
    BY <1>0 DEF Op
  <2> QED BY <1>2, <2>1, <1>s DEF ResetWorkspace
<1>3. CASE UseWorkspace(p)
  <2>0. PICK d \in Nexts \ dirs : Goes(p, "image", [op[p] EXCEPT !.gen = d, !.fresh = Base \notin dirs])
    BY <1>3 DEF UseWorkspace
  <2> DEFINE o == [op[p] EXCEPT !.gen = d, !.fresh = Base \notin dirs]
  <2>1. o.res = op[p].res /\ o.unmerging = op[p].unmerging
    BY <1>0 DEF Op
  <2> QED BY <2>0, <2>1, <1>s
<1>4. CASE MountImage(p)
  <2>0. PICK e \in op[p].left :
          \/ Goes(p, "image", [op[p] EXCEPT !.left = @ \ {e}, !.images = @ \cup {e}])
          \/ Goes(p, "image", [op[p] EXCEPT !.left = @ \ {e}])
    BY <1>4 DEF MountImage
  <2> DEFINE o1 == [op[p] EXCEPT !.left = @ \ {e}, !.images = @ \cup {e}]
             o2 == [op[p] EXCEPT !.left = @ \ {e}]
  <2>1. /\ o1.res = op[p].res /\ o1.unmerging = op[p].unmerging
        /\ o2.res = op[p].res /\ o2.unmerging = op[p].unmerging
    BY <1>0 DEF Op
  <2> QED BY <2>0, <2>1, <1>s
<1> QED BY <1>1, <1>2, <1>3, <1>4

(* The decision between nothing, unchanged and a swap. *)
LEMMA ShowPlan ==
  ASSUME Inv, ShowInv, NEW p \in Procs,
         PlanNothing(p) \/ Callback(p) \/ PlanUnchanged(p) \/ PlanSwap(p)
  PROVE  ShowInv'
<1>0. /\ KernelInv /\ op[p] \in Op /\ req[p] \in Request
      /\ PhaseOf(pc[p], op[p], req[p], stack) /\ ShowsOf(pc[p], op[p], req[p], stack)
  BY Given
<1>i. pc[p] \in Inside /\ UNCHANGED req /\ pc[p] \in {"image", "callback"}
  BY DEF PlanNothing, Callback, PlanUnchanged, PlanSwap, Prepared, At, Inside, Outside,
     Labels
<1>r. op[p].res \in {"none", "error"} /\ ~op[p].swapping
  BY <1>0, <1>i DEF ShowsOf, PhaseOf
<1>m. pc[p] = "image" => ~InPlaceOf(op[p], req[p]) /\ Empty(stack, op[p].merged)
  BY <1>0 DEF ShowsOf, PhaseOf
<1>1. CASE PlanNothing(p)
  <2>0. pc[p] = "image" /\ Empty(stack', op[p].merged)
    BY <1>1, <1>m, <1>0, DiscardSame, SameLive DEF PlanNothing, Prepared, At
  <2>1. CASE op[p].merged = {}
    BY <1>1, <2>0, <2>1, <1>i, ShowFinish DEF PlanNothing
  <2>2. CASE op[p].merged # {}
    <3> DEFINE o == [op[p] EXCEPT !.gen = NoDir, !.fresh = FALSE]
    <3>1. /\ o.res = op[p].res /\ o.unmerging = op[p].unmerging
          /\ o.swapping = op[p].swapping /\ o.merged = op[p].merged
      BY <1>0 DEF Op
    <3>2. ShowsOf("callback", o, req[p], stack')
      BY <3>1, <2>0, <1>r DEF ShowsOf, Layers
    <3> QED BY <1>1, <2>2, <3>2, <1>i, ShowStep DEF PlanNothing
  <2> QED BY <2>1, <2>2
<1>2. CASE Callback(p)
  <2> DEFINE o == [op[p] EXCEPT !.unmerging = TRUE, !.todo = op[p].merged]
  <2>0. pc[p] = "callback" /\ stack' = stack
    BY <1>2 DEF Callback, At, kernel
  <2>1. /\ o.res = op[p].res /\ o.swapping = op[p].swapping /\ o.todo = op[p].merged
    BY <1>0 DEF Op
  <2>2. Empty(stack', op[p].merged)
    BY <2>0, <1>0 DEF ShowsOf
  <2>3. ShowsOf("take", o, req[p], stack')
    BY <2>1, <2>2, <1>r DEF ShowsOf, Layers
  <2> QED BY <1>2, <2>3, <1>i, ShowStep DEF Callback
<1>3. CASE PlanUnchanged(p)
  BY <1>3, <1>i, ShowFinish DEF PlanUnchanged
<1>4. CASE PlanSwap(p)
  <2>0. pc[p] = "image"
    BY <1>4 DEF PlanSwap, Prepared, At
  <2> DEFINE o1 == [op[p] EXCEPT !.swapping = TRUE, !.todo = H]
             o2 == [op[p] EXCEPT !.swapping = TRUE, !.todo = op[p].merged]
  <2>1. /\ o1.res = op[p].res /\ o1.unmerging = op[p].unmerging
        /\ o2.res = op[p].res /\ o2.unmerging = op[p].unmerging
    BY <1>0 DEF Op
  <2>2. ~InPlaceOf(o1, req[p]) /\ ~InPlaceOf(o2, req[p])
    BY <2>0, <2>1, <1>m DEF InPlaceOf
  <2>3. ShowsOf("stage", o1, req[p], stack') /\ ShowsOf("take", o2, req[p], stack')
    BY <2>1, <2>2, <1>r DEF ShowsOf, Layers
  <2> QED BY <1>4, <2>3, <1>i, ShowStep DEF PlanSwap
<1> QED BY <1>1, <1>2, <1>3, <1>4

(* The unmerge in place of one hierarchy is over. *)
LEMMA ShowNext ==
  ASSUME Inv, ShowInv, NEW p \in Procs, pc[p] = "putback", UNCHANGED <<stack, req>>,
         NEW h \in H, First(h, op[p].todo), NEW result \in {"none", "error"},
         result = "none" => op[p].res = "none", UnmergeNext(p, h, result)
  PROVE  ShowInv'
<1>0. /\ op[p] \in Op /\ PhaseOf(pc[p], op[p], req[p], stack)
      /\ ShowsOf(pc[p], op[p], req[p], stack)
  BY Given
<1>i. pc[p] \in Inside
  BY DEF Inside, Outside, Labels
<1>r. InPlaceOf(op[p], req[p]) /\ ~op[p].swapping
  BY <1>0 DEF PhaseOf, ShowsOf, InPlaceOf
<1> DEFINE rest == op[p].todo \ {h}
           n == [op[p] EXCEPT !.todo = rest, !.res = result]
<1>1. CASE Abort(p, op[p])
  BY <1>1, <1>0, <1>i, <1>r, ShowAbort
<1>2. CASE ~Abort(p, op[p])
  <2>1. /\ n.res = result /\ n.todo = rest /\ n.swapping = op[p].swapping
        /\ n.unmerging = op[p].unmerging
    BY <1>0 DEF Op
  <2>2. InPlaceOf(n, req[p]) /\ ~n.swapping
    BY <2>1, <1>r DEF InPlaceOf
  <2>3. result = "none" => Empty(stack', rest)
    BY <1>0 DEF ShowsOf
  <2>4. CASE Goes(p, "take", n)
    <3>1. ShowsOf("take", n, req[p], stack')
      BY <2>1, <2>2, <2>3 DEF ShowsOf, Layers
    <3> QED BY <2>4, <3>1, <1>i, ShowStep
  <2>5. CASE rest = {} /\ result = "error" /\ Goes(p, "unlock", n)
    <3>1. ShowsOf("unlock", n, req[p], stack')
      BY <2>1, <2>2, <2>5 DEF ShowsOf, Layers
    <3> QED BY <2>5, <3>1, <1>i, ShowStep
  <2>6. CASE rest = {} /\ result = "none" /\ Goes(p, "teardown", n)
    <3>1. ShowsOf("teardown", n, req[p], stack')
      BY <2>1, <2>2, <2>3, <2>6 DEF ShowsOf, Layers
    <3> QED BY <2>6, <3>1, <1>i, ShowStep
  <2> QED BY <1>2, <2>4, <2>5, <2>6 DEF UnmergeNext
<1> QED BY <1>1, <1>2

(* Taking down what is merged, in place or for a swap. *)
LEMMA ShowUnmerge ==
  ASSUME Inv, ShowInv, NEW p \in Procs,
         TakeSubmounts(p) \/ HierarchyUnmerged(p) \/ Unmount(p) \/
           PutBack(p) \/ TeardownWorkspace(p)
  PROVE  ShowInv'
<1>0. /\ KernelInv /\ op[p] \in Op /\ req[p] \in Request
      /\ PhaseOf(pc[p], op[p], req[p], stack) /\ ShowsOf(pc[p], op[p], req[p], stack)
  BY Given
<1>i. /\ pc[p] \in Inside /\ UNCHANGED req
      /\ pc[p] \in {"take", "umount", "putback", "teardown"}
  BY DEF TakeSubmounts, HierarchyUnmerged, Unmount, PutBack, TeardownWorkspace,
         At, Inside, Outside, Labels
<1>r. op[p].res \in {"none", "error"} /\ (InPlaceOf(op[p], req[p]) => ~op[p].swapping)
  BY <1>0, <1>i DEF ShowsOf
<1>1. CASE TakeSubmounts(p)
  <2>0. pc[p] = "take" /\ UNCHANGED stack
    BY <1>1 DEF TakeSubmounts, At
  <2>1. ShowsOf("umount", op[p], req[p], stack')
    BY <2>0, <1>0, <1>r DEF ShowsOf, Layers
  <2> QED BY <1>1, <2>1, <1>i, ShowStep DEF TakeSubmounts
<1>2. CASE HierarchyUnmerged(p)
  <2>0. pc[p] = "take" /\ UNCHANGED stack
    BY <1>2 DEF HierarchyUnmerged, At, kernel
  <2>1. PICK h \in H : /\ First(h, op[p].todo) /\ ~Ours(h)
                       /\ IF InPlace(p)
                          THEN Goes(p, "putback", op[p])
                          ELSE LET rest == op[p].todo \ {h}
                               IN IF rest = {}
                                  THEN Goes(p, "stage", [op[p] EXCEPT !.todo = H])
                                  ELSE Goes(p, "take", [op[p] EXCEPT !.todo = rest])
    BY <1>2 DEF HierarchyUnmerged
  <2>2. stack[h] = <<>>
    BY <2>1, <1>0 DEF Ours, Top, KernelInv, MarkersIntact
  <2>3. CASE InPlace(p)
    <3>1. \A g \in H : First(g, op[p].todo) => g = h
      BY <2>1 DEF First, H
    <3>2. op[p].res = "none" => \A g \in H : First(g, op[p].todo) => Empty(stack', op[p].todo \ {g})
      <4>1. op[p].res = "none" => Empty(stack, op[p].todo)
        BY <2>0, <2>3, <1>0, Fields DEF ShowsOf
      <4>2. op[p].res = "none" => Empty(stack', op[p].todo \ {h})
        BY <4>1, <2>0, <2>2 DEF Empty
      <4> QED BY <4>2, <3>1
    <3>3. ShowsOf("putback", op[p], req[p], stack')
      BY <3>2, <1>r DEF ShowsOf, Layers
    <3> QED BY <2>1, <2>3, <3>3, <1>i, ShowStep
  <2>4. CASE ~InPlace(p)
    <3> DEFINE o1 == [op[p] EXCEPT !.todo = H]
               o2 == [op[p] EXCEPT !.todo = op[p].todo \ {h}]
    <3>1. /\ o1.res = op[p].res /\ o1.unmerging = op[p].unmerging
          /\ o2.res = op[p].res /\ o2.unmerging = op[p].unmerging
      BY <1>0 DEF Op
    <3>2. ~InPlaceOf(o1, req[p]) /\ ~InPlaceOf(o2, req[p])
      BY <3>1, <2>4, Fields DEF InPlaceOf
    <3>3. ShowsOf("stage", o1, req[p], stack') /\ ShowsOf("take", o2, req[p], stack')
      BY <3>1, <3>2, <1>r DEF ShowsOf, Layers
    <3> QED BY <2>1, <2>4, <3>3, <1>i, ShowStep
  <2> QED BY <2>3, <2>4
<1>3. CASE Unmount(p)
  <2>0. pc[p] = "umount" /\ UNCHANGED <<dirs, img, stage>>
    BY <1>3 DEF Unmount, At
  <2>1. PICK h \in H : /\ First(h, op[p].todo) /\ Pop(h)
                       /\ IF InPlace(p) THEN Goes(p, "take", op[p])
                          ELSE Goes(p, "take", [op[p] EXCEPT !.unmerged = @ \cup {h}])
    BY <1>3 DEF Unmount
  <2>2. stack'[h] = <<>> /\ \A g \in H \ {h} : stack'[g] = stack[g]
    BY <2>0, <2>1, <1>0, PopKernel DEF KernelInv
  <2>3. CASE InPlace(p)
    <3>1. op[p].res = "none" => Empty(stack', op[p].todo)
      BY <2>0, <2>2, <2>3, <1>0, Fields DEF ShowsOf, Empty
    <3>2. ShowsOf("take", op[p], req[p], stack')
      BY <3>1, <1>r DEF ShowsOf, Layers
    <3> QED BY <2>1, <2>3, <3>2, <1>i, ShowStep
  <2>4. CASE ~InPlace(p)
    <3> DEFINE o == [op[p] EXCEPT !.unmerged = @ \cup {h}]
    <3>1. o.res = op[p].res /\ o.unmerging = op[p].unmerging
      BY <1>0 DEF Op
    <3>2. ~InPlaceOf(o, req[p])
      BY <3>1, <2>4, Fields DEF InPlaceOf
    <3>3. ShowsOf("take", o, req[p], stack')
      BY <3>1, <3>2, <1>r DEF ShowsOf, Layers
    <3> QED BY <2>1, <2>4, <3>3, <1>i, ShowStep
  <2> QED BY <2>3, <2>4
<1>4. CASE PutBack(p)
  BY <1>4, <1>r, ShowNext DEF PutBack, At
<1>5. CASE TeardownWorkspace(p)
  <2>0. pc[p] = "teardown" /\ Same(stack, stack')
    BY <1>5, <1>0, TeardownSame DEF TeardownWorkspace, At
  <2>1. CASE op[p].swapping
    <3>1. Live(stack, MountsOf(op[p], req[p]), op[p], req[p])
      BY <2>0, <2>1, <1>0 DEF ShowsOf
    <3>2. Live(stack', MountsOf(op[p], req[p]), op[p], req[p])
      BY <3>1, <2>0, SameLive
    <3> QED BY <1>5, <2>1, <3>2, <1>i, ShowFinish DEF TeardownWorkspace
  <2>2. CASE ~op[p].swapping
    <3>1. Empty(stack', {})
      BY <2>0, <2>2, <1>0, SameLive DEF ShowsOf
    <3>2. Finish(p, "nothing") \/ Finish(p, "unmerged")
      BY <1>5, <2>2 DEF TeardownWorkspace
    <3> QED BY <3>1, <3>2, <1>i, ShowFinish
  <2> QED BY <2>1, <2>2
<1> QED BY <1>1, <1>2, <1>3, <1>4, <1>5

(* Staging the new overlays: the hierarchies stay as they are. *)
LEMMA ShowStage ==
  ASSUME Inv, ShowInv, NEW p \in Procs,
         KeepHost(p) \/ StageOverlay(p) \/ TakeHostMounts(p) \/
           AttachStaged(p) \/ Staged(p)
  PROVE  ShowInv'
<1>0. /\ KernelInv /\ op[p] \in Op /\ req[p] \in Request
      /\ PhaseOf(pc[p], op[p], req[p], stack) /\ ShowsOf(pc[p], op[p], req[p], stack)
  BY Given
<1>i. /\ pc[p] \in Inside /\ UNCHANGED <<req, stack>>
      /\ pc[p] \in {"stage", "carry", "adopt"}
  BY DEF KeepHost, StageOverlay, TakeHostMounts, AttachStaged, Staged, At, kernel,
         Inside, Outside, Labels
<1>r. op[p].res \in {"none", "error"} /\ ~InPlaceOf(op[p], req[p])
  BY <1>0, <1>i DEF ShowsOf, PhaseOf
<1>s. ASSUME NEW l \in {"stage", "carry", "adopt"}, NEW n, Goes(p, l, n),
             n.res = op[p].res, n.unmerging = op[p].unmerging
      PROVE  ShowInv'
  <2>1. ShowsOf(l, n, req[p], stack')
    BY <1>s, <1>r DEF ShowsOf, InPlaceOf, Layers
  <2> QED BY <2>1, <1>s, <1>i, ShowStep
<1>1. CASE KeepHost(p) \/ AttachStaged(p)
  <2>0. PICK h \in H : Goes(p, "stage", [op[p] EXCEPT !.todo = @ \ {h}])
    BY <1>1 DEF KeepHost, AttachStaged
  <2> DEFINE o == [op[p] EXCEPT !.todo = @ \ {h}]
  <2>1. o.res = op[p].res /\ o.unmerging = op[p].unmerging
    BY <1>0 DEF Op
  <2> QED BY <2>0, <2>1, <1>s
<1>2. CASE StageOverlay(p)
  <2>0. PICK h \in H : Goes(p, "carry", [op[p] EXCEPT !.staged = @ \cup {h}])
    BY <1>2 DEF StageOverlay
  <2> DEFINE o == [op[p] EXCEPT !.staged = @ \cup {h}]
  <2>1. o.res = op[p].res /\ o.unmerging = op[p].unmerging
    BY <1>0 DEF Op
  <2> QED BY <2>0, <2>1, <1>s
<1>3. CASE TakeHostMounts(p)
  BY <1>3, <1>s DEF TakeHostMounts
<1>4. CASE Staged(p)
  <2> DEFINE o == [op[p] EXCEPT !.todo = Mounts(p)]
  <2>1. /\ o.res = op[p].res /\ o.unmerging = op[p].unmerging /\ o.images = op[p].images
        /\ o.todo = Mounts(p) /\ o.attached = op[p].attached
    BY <1>0 DEF Op
  <2>2. op[p].attached = {} /\ Empty(stack', {})
    BY <1>4, <1>0, <1>i DEF Staged, At, PhaseOf
  <2>3. o.attached \cup o.todo = MountsOf(o, req[p])
    <3>1. Mounts(p) = MountsOf(o, req[p])
      BY <2>1 DEF Mounts, MountsOf
    <3> QED BY <3>1, <2>1, <2>2
  <2>4. Live(stack', o.attached, o, req[p])
    BY <2>1, <2>2 DEF Live, Empty
  <2>5. ShowsOf("move", o, req[p], stack')
    BY <2>1, <2>3, <2>4, <1>r DEF ShowsOf, InPlaceOf, Layers
  <2> QED BY <1>4, <2>5, <1>i, ShowStep DEF Staged
<1> QED BY <1>1, <1>2, <1>3, <1>4

(* Going live: one hierarchy after the other shows the new merge, the ones not
   reached yet show the host. *)
LEMMA ShowLive ==
  ASSUME Inv, ShowInv, NEW p \in Procs, MoveOverlay(p) \/ Commit(p)
  PROVE  ShowInv'
<1>0. /\ KernelInv /\ op[p] \in Op /\ req[p] \in Request
      /\ PhaseOf(pc[p], op[p], req[p], stack) /\ ShowsOf(pc[p], op[p], req[p], stack)
  BY Given
<1>i. pc[p] \in Inside /\ UNCHANGED req /\ pc[p] = "move"
  BY DEF MoveOverlay, Commit, At, Inside, Outside, Labels
<1>r. /\ op[p].res \in {"none", "error"} /\ op[p].swapping /\ ~InPlaceOf(op[p], req[p])
      /\ op[p].attached \cup op[p].todo = MountsOf(op[p], req[p])
      /\ Live(stack, op[p].attached, op[p], req[p])
      /\ op[p].todo \cap op[p].attached = {}
  BY <1>0, <1>i DEF ShowsOf, PhaseOf
<1>1. CASE MoveOverlay(p)
  <2>0. PICK h \in H :
          /\ First(h, op[p].todo)
          /\ stack' = [stack EXCEPT ![h] = Append(@, [names |-> op[p].images,
                         mutable |-> req[p].mutable, loc |-> op[p].gen])]
          /\ Goes(p, "move", [op[p] EXCEPT !.staged = @ \ {h}, !.attached = @ \cup {h},
                                           !.todo = @ \ {h}])
    BY <1>1 DEF MoveOverlay
  <2> DEFINE n == [names |-> op[p].images, mutable |-> req[p].mutable, loc |-> op[p].gen]
             o == [op[p] EXCEPT !.staged = @ \ {h}, !.attached = @ \cup {h}, !.todo = @ \ {h}]
  <2>1. /\ o.res = op[p].res /\ o.unmerging = op[p].unmerging /\ o.images = op[p].images
        /\ o.attached = op[p].attached \cup {h} /\ o.todo = op[p].todo \ {h}
    BY <1>0 DEF Op
  <2>2. h \in op[p].todo /\ stack[h] = <<>>
    BY <2>0, <1>r DEF First, Live
  <2>3. stack'[h] = <<n>> /\ \A g \in H \ {h} : stack'[g] = stack[g]
    BY <2>0, <2>2, <1>0 DEF KernelInv
  <2>4. Live(stack', o.attached, o, req[p])
    <3>1. ASSUME NEW g \in H
          PROVE  IF g \in o.attached
                 THEN stack'[g] # <<>> /\ stack'[g][1].names = o.images
                      /\ stack'[g][1].mutable = req[p].mutable
                 ELSE stack'[g] = <<>>
      <4>1. CASE g = h
        BY <4>1, <2>1, <2>3
      <4>2. CASE g # h
        BY <4>2, <2>1, <2>3, <1>r DEF Live
      <4> QED BY <4>1, <4>2
    <3> QED BY <3>1 DEF Live
  <2>5. o.attached \cup o.todo = MountsOf(o, req[p])
    <3>1. MountsOf(o, req[p]) = MountsOf(op[p], req[p])
      BY <2>1 DEF MountsOf
    <3>2. o.attached \cup o.todo = op[p].attached \cup op[p].todo
      BY <2>1, <2>2
    <3> QED BY <3>1, <3>2, <1>r
  <2>6. ShowsOf("move", o, req[p], stack')
    BY <2>1, <2>4, <2>5, <1>r DEF ShowsOf, InPlaceOf, Layers
  <2> QED BY <2>0, <2>6, <1>i, ShowStep
<1>2. CASE Commit(p)
  <2>0. UNCHANGED stack /\ op[p].todo = {}
    BY <1>2 DEF Commit
  <2>1. op[p].attached = MountsOf(op[p], req[p])
    BY <2>0, <1>r
  <2>2. CASE op[p].attached = {}
    <3>1. ShowsOf("teardown", op[p], req[p], stack')
      BY <2>0, <2>1, <2>2, <1>r DEF ShowsOf, Layers
    <3> QED BY <1>2, <2>2, <3>1, <1>i, ShowStep DEF Commit
  <2>3. CASE Finish(p, "merged")
    <3>1. Live(stack', MountsOf(op[p], req[p]), op[p], req[p])
      BY <2>0, <2>1, <1>r
    <3> QED BY <2>3, <3>1, <1>i, ShowFinish
  <2>4. CASE Goes(p, "clear", op[p])
    <3>1. ShowsOf("clear", op[p], req[p], stack')
      BY <2>0, <2>1, <1>r DEF ShowsOf, Layers
    <3> QED BY <2>4, <3>1, <1>i, ShowStep
  <2> QED BY <1>2, <2>2, <2>3, <2>4 DEF Commit
<1> QED BY <1>1, <1>2

(* Moving the generation into place renames layers below the live overlays and
   takes none of them down. *)
LEMMA ShowPromote ==
  ASSUME Inv, ShowInv, NEW p \in Procs,
         PromoteClear(p) \/ PromoteDrop(p) \/ DropRefused(p) \/ PromoteImage(p) \/
           ImagesPromoted(p) \/ PromoteLayers(p) \/ PromoteDone(p) \/ PromoteFails(p)
  PROVE  ShowInv'
<1>0. /\ KernelInv /\ op[p] \in Op /\ req[p] \in Request
      /\ PhaseOf(pc[p], op[p], req[p], stack) /\ ShowsOf(pc[p], op[p], req[p], stack)
  BY Given
<1>i. pc[p] \in Inside /\ UNCHANGED req /\ pc[p] \in Layers
  BY DEF PromoteClear, PromoteDrop, DropRefused, PromoteImage, ImagesPromoted,
     PromoteLayers,
         PromoteDone, PromoteFails, At, Inside, Outside, Labels, Layers
<1>r. /\ op[p].res \in {"none", "error"} /\ ~InPlaceOf(op[p], req[p])
      /\ op[p].attached = MountsOf(op[p], req[p])
      /\ Live(stack, op[p].attached, op[p], req[p])
  BY <1>0, <1>i DEF ShowsOf, PhaseOf, Layers
<1>s. ASSUME Same(stack, stack'), NEW l \in Layers, NEW n, Goes(p, l, n),
             n.res = op[p].res, n.unmerging = op[p].unmerging, n.images = op[p].images,
             n.attached = op[p].attached
      PROVE  ShowInv'
  <2>1. n.attached = MountsOf(n, req[p])
    BY <1>s, <1>r, MountsSame
  <2>2. Live(stack', n.attached, n, req[p])
    BY <1>s, <1>r, MountsSame, SameLive
  <2>3. ShowsOf(l, n, req[p], stack')
    BY <1>s, <1>r, <2>1, <2>2 DEF ShowsOf, InPlaceOf, Layers
  <2> QED BY <2>3, <1>s, <1>i, ShowStep
<1>f. ASSUME Same(stack, stack'), NEW result \in {"merged", "cleanup"}, Finish(p, result)
      PROVE  ShowInv'
  <2>1. Live(stack', MountsOf(op[p], req[p]), op[p], req[p])
    BY <1>f, <1>r, SameLive
  <2> QED BY <1>f, <2>1, <1>i, ShowFinish
<1>1. CASE PromoteClear(p)
  <2> DEFINE o == [op[p] EXCEPT !.todo = op[p].attached \cup op[p].unmerged]
  <2>1. /\ o.res = op[p].res /\ o.unmerging = op[p].unmerging /\ o.images = op[p].images
        /\ o.attached = op[p].attached
    BY <1>0 DEF Op
  <2> QED BY <1>1, <2>1, <1>s, UnchangedSame DEF PromoteClear, Layers
<1>2. CASE PromoteDrop(p)
  <2>0. PICK h \in H :
          /\ stack' = [stack EXCEPT ![h] = Relocated(@, {Base}, "deleted")]
          /\ \/ Goes(p, "shift", [op[p] EXCEPT !.todo = {}, !.left = op[p].images])
             \/ Goes(p, "drop", [op[p] EXCEPT !.todo = op[p].todo \ {h}])
    BY <1>2 DEF PromoteDrop
  <2> DEFINE o1 == [op[p] EXCEPT !.todo = {}, !.left = op[p].images]
             o2 == [op[p] EXCEPT !.todo = op[p].todo \ {h}]
  <2>1. /\ o1.res = op[p].res /\ o1.unmerging = op[p].unmerging /\ o1.images = op[p].images
        /\ o1.attached = op[p].attached
        /\ o2.res = op[p].res /\ o2.unmerging = op[p].unmerging /\ o2.images = op[p].images
        /\ o2.attached = op[p].attached
    BY <1>0 DEF Op
  <2>2. Same(stack, stack')
    BY <2>0, <1>0, OneSame
  <2> QED BY <2>0, <2>1, <2>2, <1>s DEF Layers
<1>3. CASE DropRefused(p)
  BY <1>3, <1>f, UnchangedSame DEF DropRefused, kernel
<1>4. CASE PromoteImage(p)
  <2>0. PICK e \in op[p].left : Goes(p, "shift", [op[p] EXCEPT !.left = @ \ {e}])
    BY <1>4 DEF PromoteImage
  <2> DEFINE o == [op[p] EXCEPT !.left = @ \ {e}]
  <2>1. /\ o.res = op[p].res /\ o.unmerging = op[p].unmerging /\ o.images = op[p].images
        /\ o.attached = op[p].attached
    BY <1>0 DEF Op
  <2> QED BY <1>4, <2>0, <2>1, <1>s, UnchangedSame DEF PromoteImage, Layers
<1>5. CASE ImagesPromoted(p)
  <2> DEFINE o == [op[p] EXCEPT !.todo = op[p].attached]
  <2>1. /\ o.res = op[p].res /\ o.unmerging = op[p].unmerging /\ o.images = op[p].images
        /\ o.attached = op[p].attached
    BY <1>0 DEF Op
  <2> QED BY <1>5, <2>1, <1>s, UnchangedSame DEF ImagesPromoted, kernel, Layers
<1>6. CASE PromoteLayers(p)
  <2>0. PICK h \in H : /\ stack' = [stack EXCEPT ![h] = Relocated(@, {op[p].gen}, Base)]
                       /\ Goes(p, "rename", [op[p] EXCEPT !.todo = @ \ {h}])
    BY <1>6 DEF PromoteLayers
  <2> DEFINE o == [op[p] EXCEPT !.todo = @ \ {h}]
  <2>1. /\ o.res = op[p].res /\ o.unmerging = op[p].unmerging /\ o.images = op[p].images
        /\ o.attached = op[p].attached
    BY <1>0 DEF Op
  <2>2. Same(stack, stack')
    BY <2>0, <1>0, OneSame
  <2> QED BY <2>0, <2>1, <2>2, <1>s DEF Layers
<1>7. CASE PromoteDone(p)
  <2>1. Same(stack, stack')
    BY <1>7, <1>0, AllSame DEF PromoteDone
  <2> QED BY <1>7, <2>1, <1>f DEF PromoteDone
<1>8. CASE PromoteFails(p)
  BY <1>8, <1>f, UnchangedSame DEF PromoteFails
<1> QED BY <1>1, <1>2, <1>3, <1>4, <1>5, <1>6, <1>7, <1>8

(* What abort visits, and that it ends with an error. *)
LEMMA ShowUndo ==
  ASSUME Inv, ShowInv, NEW p \in Procs,
         AbortTake(p) \/ AbortDetach(p) \/ AbortAttach(p) \/ AbortRelease(p)
  PROVE  ShowInv'
<1>0. /\ KernelInv /\ op[p] \in Op /\ req[p] \in Request
      /\ PhaseOf(pc[p], op[p], req[p], stack) /\ ShowsOf(pc[p], op[p], req[p], stack)
  BY Given
<1>i. pc[p] \in Inside /\ UNCHANGED req /\ pc[p] \in {"abort", "detach", "restore"}
  BY DEF AbortTake, AbortDetach, AbortAttach, AbortRelease, At, Inside, Outside, Labels
<1>r. op[p].res \in {"none", "error"} /\ (InPlaceOf(op[p], req[p]) => ~op[p].swapping)
  BY <1>0, <1>i DEF ShowsOf
<1>s. ASSUME NEW l \in {"abort", "detach", "restore"}, NEW n, Goes(p, l, n),
             n.res = op[p].res, n.unmerging = op[p].unmerging, n.swapping = op[p].swapping
      PROVE  ShowInv'
  <2>1. ShowsOf(l, n, req[p], stack')
    BY <1>s, <1>r DEF ShowsOf, InPlaceOf, Layers
  <2> QED BY <2>1, <1>s, <1>i, ShowStep
<1>1. CASE AbortTake(p)
  BY <1>1, <1>s DEF AbortTake
<1>2. CASE AbortDetach(p)
  <2>0. PICK h \in H : Goes(p, "restore", [op[p] EXCEPT !.attached = @ \ {h}, !.staged = @ \ {h}])
    BY <1>2 DEF AbortDetach
  <2> DEFINE o == [op[p] EXCEPT !.attached = @ \ {h}, !.staged = @ \ {h}]
  <2>1. /\ o.res = op[p].res /\ o.unmerging = op[p].unmerging /\ o.swapping = op[p].swapping
    BY <1>0 DEF Op
  <2> QED BY <2>0, <2>1, <1>s
<1>3. CASE AbortAttach(p)
  <2>0. PICK h \in H : Goes(p, "abort", [op[p] EXCEPT !.todo = @ \ {h}])
    BY <1>3 DEF AbortAttach
  <2> DEFINE o == [op[p] EXCEPT !.todo = @ \ {h}]
  <2>1. /\ o.res = op[p].res /\ o.unmerging = op[p].unmerging /\ o.swapping = op[p].swapping
    BY <1>0 DEF Op
  <2> QED BY <2>0, <2>1, <1>s
<1>4. CASE AbortRelease(p)
  BY <1>4, <1>i, ShowFinish DEF AbortRelease
<1> QED BY <1>1, <1>2, <1>3, <1>4

(* Steps that fail: the operation goes to abort, or puts the mounts of a
   hierarchy back first, or ends. *)
LEMMA ShowFails ==
  ASSUME Inv, ShowInv, NEW p \in Procs, Fails(p)
  PROVE  ShowInv'
<1>0. /\ KernelInv /\ op[p] \in Op /\ req[p] \in Request
      /\ PhaseOf(pc[p], op[p], req[p], stack) /\ ShowsOf(pc[p], op[p], req[p], stack)
  BY Given
<1>i. /\ pc[p] \in Inside /\ UNCHANGED req
      /\ pc[p] # "unlock"
  BY DEF Fails, CheckFails, WorkspaceFails, MountImageFails, CallbackFails, PlanFails,
     TakeFails,
         UnmountFails, PutBackFails, TeardownFails, KeepHostFails, StageFails,
         TakeHostMountsFails, AttachStagedFails, MoveFails, PromoteFails, Prepared,
         At, Inside, Outside, Labels
<1>r. op[p].res \in {"none", "error"} /\ (InPlaceOf(op[p], req[p]) => ~op[p].swapping)
  BY <1>0, <1>i DEF ShowsOf
<1>a. ASSUME Abort(p, op[p]) PROVE ShowInv'
  BY <1>a, <1>0, <1>i, <1>r, ShowAbort
<1>e. ASSUME UnmergeError(p) PROVE ShowInv'
  <2> DEFINE o == [op[p] EXCEPT !.res = "error"]
  <2>1. /\ o.res = "error" /\ o.unmerging = op[p].unmerging /\ o.swapping = op[p].swapping
    BY <1>0 DEF Op
  <2>2. ShowsOf("putback", o, req[p], stack')
    BY <2>1, <1>r DEF ShowsOf, InPlaceOf, Layers
  <2> QED BY <2>2, <1>e, <1>a, <1>i, ShowStep DEF UnmergeError
<1>1. CASE CheckFails(p) \/ WorkspaceFails(p) \/ MountImageFails(p) \/ CallbackFails(p)
             \/ PlanFails(p) \/ KeepHostFails(p) \/ TakeHostMountsFails(p)
             \/ AttachStagedFails(p) \/ MoveFails(p)
  BY <1>1, <1>a DEF CheckFails, WorkspaceFails, MountImageFails, CallbackFails, PlanFails,
                    KeepHostFails, TakeHostMountsFails, AttachStagedFails, MoveFails
<1>2. CASE TakeFails(p)
  BY <1>2, <1>e DEF TakeFails
<1>3. CASE UnmountFails(p)
  <2>0. PICK h \in H : \/ UnmergeError(p)
                       \/ Abort(p, [op[p] EXCEPT !.unmerged = @ \cup {h}])
    BY <1>3 DEF UnmountFails
  <2> DEFINE o == [op[p] EXCEPT !.unmerged = @ \cup {h}]
  <2>1. o \in Op /\ o.unmerging = op[p].unmerging /\ o.swapping = op[p].swapping
    BY <1>0 DEF Op
  <2>2. InPlaceOf(o, req[p]) => ~o.swapping
    BY <2>1, <1>r DEF InPlaceOf
  <2> QED BY <2>0, <2>1, <2>2, <1>e, <1>i, ShowAbort
<1>4. CASE PutBackFails(p)
  BY <1>4, ShowNext DEF PutBackFails, At
<1>5. CASE TeardownFails(p)
  <2>0. pc[p] = "teardown" /\ Same(stack, stack')
    BY <1>5, <1>0, TeardownSame, UnchangedSame DEF TeardownFails, At, kernel
  <2>1. CASE op[p].swapping
    <3>1. Live(stack', MountsOf(op[p], req[p]), op[p], req[p])
      BY <2>0, <2>1, <1>0, SameLive DEF ShowsOf
    <3> QED BY <1>5, <2>1, <3>1, <1>i, ShowFinish DEF TeardownFails
  <2>2. CASE ~op[p].swapping
    <3>1. Abort(p, op[p]) \/ Finish(p, "error")
      BY <1>5, <2>2 DEF TeardownFails
    <3> QED BY <3>1, <1>a, <1>i, ShowFinish
  <2> QED BY <2>1, <2>2
<1>6. CASE StageFails(p)
  <2>0. PICK h \in H : \/ Abort(p, op[p])
                       \/ Abort(p, [op[p] EXCEPT !.staged = @ \cup {h}])
    BY <1>6 DEF StageFails
  <2> DEFINE o == [op[p] EXCEPT !.staged = @ \cup {h}]
  <2>1. o \in Op /\ o.unmerging = op[p].unmerging /\ o.swapping = op[p].swapping
    BY <1>0 DEF Op
  <2>2. InPlaceOf(o, req[p]) => ~o.swapping
    BY <2>1, <1>r DEF InPlaceOf
  <2> QED BY <2>0, <2>1, <2>2, <1>a, <1>i, ShowAbort
<1>7. CASE PromoteFails(p)
  BY <1>7, ShowPromote
<1> QED BY <1>1, <1>2, <1>3, <1>4, <1>5, <1>6, <1>7 DEF Fails

(* The lock is taken, released, or lost with its holder. *)
LEMMA ShowLock ==
  ASSUME Inv, ShowInv, NEW p \in Procs, Begin(p) \/ Acquire(p) \/ Unlock(p) \/ Crash(p)
  PROVE  ShowInv'
<1>0. \A q \in Procs : /\ op[q] \in Op /\ req[q] \in Request
                       /\ PhaseOf(pc[q], op[q], req[q], stack)
                       /\ ShowsOf(pc[q], op[q], req[q], stack)
  BY Given
<1>o. \A q \in Procs : pc[q] \in Outside => op[q] = NewOp
  BY <1>0 DEF PhaseOf
<1>t. pc \in [Procs -> Labels] /\ op \in [Procs -> Op] /\ req \in [Procs -> Request]
  BY DEF Inv, TypeOK
<1>1. CASE Begin(p)
  <2>1. \A q \in Procs \ {p} : pc'[q] = pc[q] /\ op'[q] = op[q] /\ req'[q] = req[q] /\ stack' = stack
    BY <1>1, <1>t DEF Begin, Goes, kernel
  <2>2. pc'[p] \in Outside /\ op'[p] = NewOp
    BY <1>1, <1>o, <1>t DEF Begin, Goes, Outside
  <2>3. Shows(p)'
    BY <2>2, OutsideShows DEF Shows
  <2>4. \A q \in Procs \ {p} : Shows(q)'
    BY <2>1, <1>0 DEF Shows
  <2> QED BY <2>3, <2>4 DEF ShowInv
<1>2. CASE Acquire(p)
  <2>0. \A q \in Procs : pc[q] \in Outside
    BY <1>2, NamesAssumption DEF Acquire, Inv, Exclusive, Outside, TypeOK
  <2>1. \A q \in Procs \ {p} : Shows(q)'
    <3> TAKE q \in Procs \ {p}
    <3>1. pc'[q] \in Outside /\ op'[q] = NewOp
      BY <1>2, <2>0, <1>o, <1>t DEF Acquire, Goes
    <3> QED BY <3>1, OutsideShows DEF Shows
  <2>2. op[p] = NewOp /\ req' = req /\ stack' = stack
    BY <1>2, <2>0, <1>o DEF Acquire, kernel
  <2>3. CASE req[p].verb = "unmerge"
    <3> DEFINE o == [op[p] EXCEPT !.todo = H]
    <3>1. pc'[p] = "take" /\ op'[p] = o
      BY <1>2, <2>3, <1>t DEF Acquire, Goes
    <3>2. o.res = "none" /\ ~o.swapping /\ o.todo = H
      BY <2>2 DEF NewOp
    <3>3. ShowsOf("take", o, req[p], stack)
      BY <3>2 DEF ShowsOf, Empty, Layers
    <3>4. Shows(p)'
      BY <3>1, <3>3, <2>2 DEF Shows
    <3> QED BY <2>1, <3>4 DEF ShowInv
  <2>4. CASE req[p].verb # "unmerge"
    <3>1. pc'[p] = "check" /\ op'[p] = NewOp
      BY <1>2, <2>4, <2>2, <1>t DEF Acquire, Goes
    <3>2. NewOp.res = "none" /\ ~NewOp.swapping /\ ~NewOp.unmerging
      BY DEF NewOp
    <3>3. ShowsOf("check", NewOp, req[p], stack)
      BY <3>2, <2>4 DEF ShowsOf, InPlaceOf, Layers
    <3>4. Shows(p)'
      BY <3>1, <3>3, <2>2 DEF Shows
    <3> QED BY <2>1, <3>4 DEF ShowInv
  <2> QED BY <2>3, <2>4
<1>3. CASE Unlock(p) \/ Crash(p)
  <2>0. lock = p /\ Leave(p)
    BY <1>3 DEF Unlock, Crash, Inv, Exclusive
  <2>1. \A q \in Procs : pc'[q] \in Outside /\ op'[q] = NewOp
    <3>1. pc'[p] \in Outside /\ op'[p] = NewOp
      BY <2>0, <1>t DEF Leave, Goes, Outside
    <3>2. \A q \in Procs \ {p} : pc'[q] \in Outside /\ op'[q] = NewOp
      BY <2>0, <1>o, <1>t DEF Leave, Goes, Inv, Exclusive, Outside
    <3> QED BY <3>1, <3>2
  <2>2. \A q \in Procs : Shows(q)'
    BY <2>1, OutsideShows DEF Shows
  <2> QED BY <2>2 DEF ShowInv
<1> QED BY <1>1, <1>2, <1>3

(* Initially nothing is claimed. *)
LEMMA ShowInit == Init => ShowInv
BY OutsideShows DEF Init, ShowInv, Shows, Outside

(* Every step keeps ShowInv. *)
LEMMA ShowNextStep ==
  ASSUME Inv, ShowInv, Next
  PROVE  ShowInv'
<1>0. PICK p \in Procs : Begin(p) \/ Acquire(p) \/ Works(p) \/ Fails(p) \/ Unlock(p) \/ Crash(p)
  BY DEF Next
<1>1. CASE Begin(p) \/ Acquire(p) \/ Unlock(p) \/ Crash(p)
  BY <1>1, ShowLock
<1>2. CASE Works(p)
  BY <1>2, ShowPrepare, ShowPlan, ShowUnmerge, ShowStage, ShowLive, ShowPromote,
     ShowUndo DEF Works
<1>3. CASE Fails(p)
  BY <1>3, ShowFails
<1> QED BY <1>0, <1>1, <1>2, <1>3

(* What the hierarchies show is invariant. *)
LEMMA ShowAlways == Spec => []ShowInv
<1>1. Init => ShowInv
  BY ShowInit
<1>2. ShowInv /\ UNCHANGED vars => ShowInv'
  BY DEF ShowInv, Shows, vars, kernel
<1>3. Inv /\ ShowInv /\ [Next]_vars => ShowInv'
  BY <1>2, ShowNextStep
<1> QED BY <1>1, <1>3, Invariance, PTL DEF Spec

-----------------------------------------------------------------------------
(* A merge or refresh that reports Merged, even with ErrCleanup, has put exactly
   the images it accepted, in the mode asked for, on every hierarchy they
   contribute to, and nothing on the others. *)
THEOREM MergeShowsRequest == Spec => []MergedAsAsked
<1>1. Inv /\ ShowInv => MergedAsAsked
  <2> SUFFICES ASSUME Inv, ShowInv, NEW p \in Procs, Ends(p, "merged") \/ Ends(p, "cleanup"),
                      NEW h \in H
               PROVE  View(h) = IF h \in Mounts(p)
                                THEN [names |-> op[p].images, mutable |-> req[p].mutable,
                                      merged |-> TRUE]
                                ELSE NotMerged
    BY DEF MergedAsAsked
  <2>1. ShowsOf(pc[p], op[p], req[p], stack) /\ (stack[h] = <<>> \/ Len(stack[h]) = 1)
    BY Given
  <2>2. Live(stack, Mounts(p), op[p], req[p])
    BY <2>1, Fields DEF Ends, ShowsOf
  <2>3. CASE h \in Mounts(p)
    BY <2>1, <2>2, <2>3 DEF Live, View, Top
  <2>4. CASE h \notin Mounts(p)
    BY <2>2, <2>4 DEF Live, View
  <2> QED BY <2>3, <2>4
<1> QED BY <1>1, Invariance, ShowAlways, PTL

(* h is emptied and nothing else changes. *)
Emptied(h) == stack'[h] = <<>> /\ \A g \in H \ {h} : stack'[g] = stack[g]

(* The three kinds of steps, as programs see them: nothing changes, a hierarchy
   shows the host again, or an overlay goes live. *)
LEMMA StackSteps ==
  ASSUME Inv, Next
  PROVE  \/ Same(stack, stack')
         \/ \E h \in H : Emptied(h)
         \/ \E p \in Procs : MoveOverlay(p)
<1>0. PICK p \in Procs : Begin(p) \/ Acquire(p) \/ Works(p) \/ Fails(p) \/ Unlock(p) \/ Crash(p)
  BY DEF Next
<1>k. KernelInv
  BY Facts
<1>u. ASSUME UNCHANGED stack PROVE Same(stack, stack')
  BY <1>u, UnchangedSame
<1>t. ASSUME NEW ds, Teardown(ds) PROVE Same(stack, stack')
  BY <1>t, <1>k, TeardownSame
<1>d. ASSUME Discard(p) PROVE Same(stack, stack')
  BY <1>d, <1>k, DiscardSame
<1>p. ASSUME NEW h \in H, Pop(h), UNCHANGED <<dirs, img, stage>> PROVE Emptied(h)
  BY <1>p, <1>k, PopKernel DEF KernelInv, Emptied
<1>1. CASE Begin(p) \/ Acquire(p) \/ Unlock(p) \/ Crash(p)
  BY <1>1, <1>u DEF Begin, Acquire, Unlock, Crash, kernel
<1>2. CASE Check(p) \/ MountImage(p) \/ Callback(p) \/ PlanSwap(p) \/ TakeSubmounts(p)
           \/ HierarchyUnmerged(p) \/ PutBack(p)
  BY <1>2, <1>u DEF Check, MountImage, Callback, PlanSwap, TakeSubmounts, HierarchyUnmerged,
                    PutBack, kernel
<1>3. CASE KeepHost(p) \/ StageOverlay(p) \/ TakeHostMounts(p) \/ AttachStaged(p) \/ Staged(p)
           \/ Commit(p) \/ PromoteClear(p) \/ DropRefused(p) \/ PromoteImage(p)
           \/ ImagesPromoted(p) \/ AbortTake(p) \/ AbortAttach(p)
  BY <1>3, <1>u DEF KeepHost, StageOverlay, TakeHostMounts, AttachStaged, Staged, Commit,
                    PromoteClear, DropRefused, PromoteImage, ImagesPromoted, AbortTake,
                    AbortAttach, kernel
<1>4. CASE CheckFails(p) \/ MountImageFails(p) \/ CallbackFails(p) \/ PlanFails(p) \/ TakeFails(p)
           \/ PutBackFails(p) \/ KeepHostFails(p) \/ StageFails(p) \/ TakeHostMountsFails(p)
           \/ AttachStagedFails(p) \/ MoveFails(p) \/ PromoteFails(p)
  BY <1>4, <1>u DEF CheckFails, MountImageFails, CallbackFails, PlanFails, TakeFails,
                    PutBackFails, KeepHostFails, StageFails, TakeHostMountsFails,
                    AttachStagedFails, MoveFails, PromoteFails, kernel
<1>5. CASE ResetWorkspace(p) \/ UseWorkspace(p) \/ WorkspaceFails(p) \/ TeardownWorkspace(p)
           \/ TeardownFails(p)
  BY <1>5, <1>u, <1>t DEF ResetWorkspace, UseWorkspace, WorkspaceFails, TeardownWorkspace,
                          TeardownFails, kernel
<1>6. CASE PlanNothing(p) \/ PlanUnchanged(p)
  BY <1>6, <1>d DEF PlanNothing, PlanUnchanged
<1>7. CASE AbortRelease(p)
  BY <1>7, <1>d, <1>t, <1>u DEF AbortRelease, NotReleased
<1>8. CASE PromoteDrop(p) \/ PromoteLayers(p)
  BY <1>8, <1>k, OneSame DEF PromoteDrop, PromoteLayers
<1>9. CASE PromoteDone(p)
  BY <1>9, <1>k, AllSame DEF PromoteDone
<1>10. CASE Unmount(p) \/ UnmountFails(p)
  BY <1>10, <1>p, <1>u DEF Unmount, UnmountFails
<1>11. CASE AbortDetach(p)
  <2>1. UNCHANGED <<dirs, img>>
    BY <1>11 DEF AbortDetach
  <2>2. PICK h \in H : (Pop(h) /\ UNCHANGED stage) \/ UNCHANGED stack
    BY <1>11 DEF AbortDetach
  <2> QED BY <2>1, <2>2, <1>p, <1>u
<1> QED BY <1>0, <1>1, <1>2, <1>3, <1>4, <1>5, <1>6, <1>7, <1>8, <1>9, <1>10, <1>11 DEF Works, Fails

(* NeverMixed, for a function from hierarchies to stacks of one overlay. *)
Uniform(st) ==
  \A g, h \in H : st[g] # <<>> /\ st[h] # <<>> =>
    st[g][1].names = st[h][1].names /\ st[g][1].mutable = st[h][1].mutable

(* With one overlay at most, NeverMixed compares the first overlays. *)
LEMMA OneTop ==
  ASSUME Inv
  PROVE  NeverMixed <=> Uniform(stack)
<1>1. \A h \in H : stack[h] \in Seq(Overlay) /\ Len(stack[h]) <= 1
  BY DEF Inv, TypeOK, NeverStacked
<1>2. \A h \in H : stack[h] # <<>> => Top(h) = stack[h][1]
  BY <1>1, AtMostOne DEF Top
<1> QED BY <1>2 DEF NeverMixed, Uniform

(* Every step keeps NeverMixed. *)
LEMMA MixedStep ==
  ASSUME Inv, ShowInv, Uniform(stack), Next
  PROVE  Uniform(stack')
<1>1. CASE Same(stack, stack')
  BY <1>1 DEF Same, Uniform
<1>2. ASSUME NEW h \in H, Emptied(h) PROVE Uniform(stack')
  BY <1>2 DEF Emptied, Uniform
<1>3. ASSUME NEW p \in Procs, MoveOverlay(p) PROVE Uniform(stack')
  <2>1. ShowInv'
    BY <1>3, ShowLive
  <2>2. pc'[p] = "move"
    BY <1>3 DEF MoveOverlay, Goes, Inv, TypeOK
  <2>3. Live(stack', op'[p].attached, op'[p], req'[p])
    BY <2>1, <2>2 DEF ShowInv, Shows, ShowsOf
  <2>4. \A h \in H : stack'[h] # <<>> =>
          stack'[h][1].names = op'[p].images /\ stack'[h][1].mutable = req'[p].mutable
    BY <2>3 DEF Live
  <2> QED BY <2>4 DEF Uniform
<1> QED BY <1>1, <1>2, <1>3, StackSteps

(* Programs never see a mix of two merges, at any point of a swap, after any
   failure and after any kill. *)
THEOREM MergesNeverMix == Spec => []NeverMixed
<1>1. Init => Uniform(stack)
  BY DEF Init, Uniform
<1>2. Uniform(stack) /\ UNCHANGED vars => Uniform(stack)'
  BY DEF vars, kernel, Uniform
<1>3. Inv /\ ShowInv /\ Uniform(stack) /\ [Next]_vars => Uniform(stack)'
  BY <1>2, MixedStep
<1>4. Inv /\ Uniform(stack) => NeverMixed
  BY OneTop
<1> QED BY <1>1, <1>3, <1>4, Invariance, ShowAlways, PTL DEF Spec


-----------------------------------------------------------------------------
(* What a merge leaves in the workspace. *)

(* The images in the workspace at each label, im[d] being those in d. *)
FillsOf(l, o, im, st, ds) ==
  /\ l \in {"image", "stage", "carry", "adopt", "move"} \cup Layers /\ o.gen \in Dirs =>
       {o.gen, Base} \subseteq ds
  /\ l \in {"image", "stage", "carry", "adopt", "move", "clear", "drop"} /\ o.gen \in Dirs =>
       im[o.gen] = o.images
  /\ l \in {"take", "umount"} /\ o.swapping =>
       {o.gen, Base} \subseteq ds /\ im[o.gen] = o.images
  /\ l = "drop" => im[Base] = {}
  /\ l = "shift" => o.left \subseteq o.images /\ im[o.gen] = o.left /\ im[Base] = o.images \ o.left
  /\ l = "rename" => im[Base] = o.images /\ LocsAre(st, H \ o.todo, Base)
  /\ l = "unlock" /\ o.res = "merged" /\ o.attached # {} =>
       /\ im[Base] = o.images /\ LocsAre(st, H, Base)
       /\ o.gen = Base \/ o.gen \notin ds

Fills(p) == FillsOf(pc[p], op[p], img, stack, dirs)

(* No image is mounted in a directory that is not there. *)
Vacant == \A d \in Dirs \ dirs : img[d] = {}

FillInv == Vacant /\ \A p \in Procs : Fills(p)

-----------------------------------------------------------------------------
(* Which images are in the workspace. *)

(* Labels at which nothing is claimed about the images. *)
Silent == {"check", "workspace", "callback", "putback", "teardown", "abort", "detach", "restore"}

(* At a silent label, FillsOf holds whatever is mounted. *)
LEMMA SilentFills ==
  ASSUME NEW l \in Silent \cup Outside, NEW o, NEW im, NEW st, NEW ds
  PROVE  FillsOf(l, o, im, st, ds)
BY DEF FillsOf, Silent, Outside, Layers

(* FillInv holds after a step of p that leaves what the next label wants. *)
LEMMA FillStep ==
  ASSUME Inv, NEW p \in Procs, pc[p] \in Inside, UNCHANGED req,
         NEW l, NEW o, Goes(p, l, o), Vacant', FillsOf(l, o, img', stack', dirs')
  PROVE  FillInv'
<1>1. Fills(p)'
  BY Alone DEF Fills
<1>2. ASSUME NEW q \in Procs \ {p} PROVE Fills(q)'
  BY Alone, SilentFills DEF Fills
<1> QED BY <1>1, <1>2 DEF FillInv

(* FillInv holds after a step that aborts the operation. *)
LEMMA FillAbort ==
  ASSUME Inv, NEW p \in Procs, pc[p] \in Inside, UNCHANGED req, NEW o, Abort(p, o), Vacant'
  PROVE  FillInv'
BY FillStep, SilentFills DEF Abort, Silent

(* Nothing is claimed of an operation that ends without "merged". *)
LEMMA FillFinish ==
  ASSUME Inv, NEW p \in Procs, pc[p] \in Inside, UNCHANGED req,
         NEW result, result # "merged" \/ op[p].attached = {}, Finish(p, result), Vacant'
  PROVE  FillInv'
<1> DEFINE n == [op[p] EXCEPT !.res = result]
<1>1. n.res = result /\ n.attached = op[p].attached
  BY Facts DEF Op
<1>2. FillsOf("unlock", n, img', stack', dirs')
  BY <1>1 DEF FillsOf, Layers
<1> QED BY <1>2, FillStep DEF Finish

(* Directories that go take their images along. *)
LEMMA VacantTeardown ==
  ASSUME NEW ds, Teardown(ds)
  PROVE  Vacant'
BY DEF Teardown, Vacant

(* Vacant says nothing of anything but img and dirs. *)
LEMMA VacantSame ==
  ASSUME Vacant, UNCHANGED <<img, dirs>>
  PROVE  Vacant'
BY DEF Vacant

(* An image that could not be unmounted stays in a directory that stays. *)
LEMMA VacantReleased ==
  ASSUME KernelInv, Vacant, NEW p \in Procs, op[p] \in Op, NotReleased(p)
  PROVE  Vacant'
<1>1. PICK kept \in SUBSET img[op[p].gen] : img' = [img EXCEPT ![op[p].gen] = kept]
  BY DEF NotReleased
<1>2. op[p].gen \in Dirs /\ UNCHANGED dirs
  BY DEF NotReleased, Op
<1>3. ASSUME NEW d \in Dirs \ dirs PROVE img'[d] = {}
  BY <1>1, <1>2 DEF Vacant, KernelInv
<1> QED BY <1>2, <1>3 DEF Vacant

(* Discarding a generation discards its images. *)
LEMMA VacantDiscard ==
  ASSUME KernelInv, Vacant, NEW p \in Procs, op[p] \in Op, Discard(p)
  PROVE  Vacant'
<1>1. CASE Teardown({})
  BY <1>1, VacantTeardown
<1>2. CASE UNCHANGED kernel
  BY <1>2 DEF Vacant, kernel
<1>3. CASE NotReleased(p)
  BY <1>3, VacantReleased
<1>4. CASE /\ op[p].gen \in Nexts /\ dirs' = dirs \ {op[p].gen}
           /\ img' = [img EXCEPT ![op[p].gen] = {}]
  BY <1>4 DEF Vacant, KernelInv
<1> QED BY <1>1, <1>2, <1>3, <1>4 DEF Discard

(* Preparing: the generation holds exactly the images accepted so far. *)
LEMMA FillPrepare ==
  ASSUME Inv, FillInv, NEW p \in Procs,
         Check(p) \/ ResetWorkspace(p) \/ UseWorkspace(p) \/ MountImage(p)
  PROVE  FillInv'
<1>0. /\ KernelInv /\ op[p] \in Op /\ PhaseOf(pc[p], op[p], req[p], stack)
      /\ Vacant /\ FillsOf(pc[p], op[p], img, stack, dirs)
  BY Facts DEF FillInv, Fills
<1>i. pc[p] \in Inside /\ UNCHANGED req
  BY DEF Check, ResetWorkspace, UseWorkspace, MountImage, At, Inside, Outside, Labels
<1>n. NoDir \notin Dirs /\ Base \in Dirs /\ Nexts \subseteq Dirs
  BY NamesAssumption DEF Dirs
<1>1. CASE Check(p)
  <2>0. Vacant' /\ pc[p] = "check"
    BY <1>1, <1>0, VacantSame DEF Check, At, kernel
  <2> DEFINE o == [op[p] EXCEPT !.merged = {h \in H : Ours(h)}, !.left = req[p].images]
  <2>1. CASE Abort(p, op[p])
    BY <2>1, <2>0, <1>i, FillAbort
  <2>2. CASE Goes(p, "workspace", o)
    BY <2>2, <2>0, <1>i, FillStep, SilentFills DEF Silent
  <2>3. CASE Goes(p, "image", o)
    <3>1. o.gen = NoDir
      BY <2>0, <1>0 DEF Op, PhaseOf
    <3>2. FillsOf("image", o, img', stack', dirs')
      BY <3>1, <1>n DEF FillsOf, Layers
    <3> QED BY <2>3, <2>0, <3>2, <1>i, FillStep
  <2> QED BY <1>1, <2>1, <2>2, <2>3 DEF Check
<1>2. CASE ResetWorkspace(p)
  <2> DEFINE o == [op[p] EXCEPT !.gen = Base, !.fresh = TRUE]
  <2>1. o.gen = Base /\ o.images = {}
    BY <1>2, <1>0 DEF ResetWorkspace, At, Op, PhaseOf
  <2>2. dirs' = {Base} /\ img'[Base] = {} /\ Vacant'
    BY <1>2, <1>n, VacantTeardown DEF ResetWorkspace, Teardown
  <2>3. FillsOf("image", o, img', stack', dirs')
    BY <2>1, <2>2 DEF FillsOf, Layers
  <2> QED BY <1>2, <2>2, <2>3, <1>i, FillStep DEF ResetWorkspace
<1>3. CASE UseWorkspace(p)
  <2>0. PICK d \in Nexts \ dirs :
          /\ Goes(p, "image", [op[p] EXCEPT !.gen = d, !.fresh = Base \notin dirs])
          /\ IF Base \in dirs
             THEN dirs' = dirs \cup {d} /\ UNCHANGED <<stack, sub, img, stage>>
             ELSE Teardown({Base, d})
    BY <1>3 DEF UseWorkspace
  <2> DEFINE o == [op[p] EXCEPT !.gen = d, !.fresh = Base \notin dirs]
  <2>1. o.gen = d /\ o.images = {}
    BY <1>3, <1>0, <1>n DEF UseWorkspace, At, Op, PhaseOf
  <2>2. {d, Base} \subseteq dirs' /\ img'[d] = {} /\ Vacant'
    <3>1. CASE Base \in dirs
      BY <2>0, <3>1, <1>0, <1>n DEF Vacant
    <3>2. CASE Base \notin dirs
      BY <2>0, <3>2, <1>n, VacantTeardown DEF Teardown
    <3> QED BY <3>1, <3>2
  <2>3. FillsOf("image", o, img', stack', dirs')
    BY <2>1, <2>2 DEF FillsOf, Layers
  <2> QED BY <2>0, <2>2, <2>3, <1>i, FillStep
<1>4. CASE MountImage(p)
  <2>0. pc[p] = "image" /\ UNCHANGED dirs
    BY <1>4 DEF MountImage, At
  <2>1. PICK e \in op[p].left :
          \/ /\ img' = [img EXCEPT ![op[p].gen] = @ \cup {e}]
             /\ Goes(p, "image", [op[p] EXCEPT !.left = @ \ {e}, !.images = @ \cup {e}])
          \/ Goes(p, "image", [op[p] EXCEPT !.left = @ \ {e}]) /\ UNCHANGED img
    BY <1>4 DEF MountImage
  <2>2. op[p].gen \in Dirs
    BY <2>0, <2>1, <1>0 DEF PhaseOf
  <2>3. {op[p].gen, Base} \subseteq dirs /\ img[op[p].gen] = op[p].images
    BY <2>0, <2>2, <1>0 DEF FillsOf
  <2>4. CASE /\ img' = [img EXCEPT ![op[p].gen] = @ \cup {e}]
             /\ Goes(p, "image", [op[p] EXCEPT !.left = @ \ {e}, !.images = @ \cup {e}])
    <3> DEFINE o == [op[p] EXCEPT !.left = @ \ {e}, !.images = @ \cup {e}]
    <3>1. o.gen = op[p].gen /\ o.images = op[p].images \cup {e}
      BY <1>0 DEF Op
    <3>2. img'[op[p].gen] = op[p].images \cup {e}
      BY <2>2, <2>3, <2>4, <1>0 DEF KernelInv
    <3>3. Vacant'
      BY <2>0, <2>3, <2>4, <1>0 DEF Vacant, KernelInv
    <3>4. FillsOf("image", o, img', stack', dirs')
      BY <2>0, <2>3, <3>1, <3>2 DEF FillsOf, Layers
    <3> QED BY <2>4, <3>3, <3>4, <1>i, FillStep
  <2>5. CASE Goes(p, "image", [op[p] EXCEPT !.left = @ \ {e}]) /\ UNCHANGED img
    <3> DEFINE o == [op[p] EXCEPT !.left = @ \ {e}]
    <3>1. o.gen = op[p].gen /\ o.images = op[p].images
      BY <1>0 DEF Op
    <3>2. FillsOf("image", o, img', stack', dirs')
      BY <2>0, <2>3, <2>5, <3>1 DEF FillsOf, Layers
    <3> QED BY <2>0, <2>5, <3>2, <1>0, <1>i, FillStep, VacantSame
  <2> QED BY <2>1, <2>4, <2>5
<1> QED BY <1>1, <1>2, <1>3, <1>4

(* Deciding: what is prepared stays for a swap, and goes otherwise. *)
LEMMA FillPlan ==
  ASSUME Inv, FillInv, NEW p \in Procs,
         PlanNothing(p) \/ Callback(p) \/ PlanUnchanged(p) \/ PlanSwap(p)
  PROVE  FillInv'
<1>0. /\ KernelInv /\ op[p] \in Op /\ PhaseOf(pc[p], op[p], req[p], stack)
      /\ Vacant /\ FillsOf(pc[p], op[p], img, stack, dirs)
  BY Facts DEF FillInv, Fills
<1>i. pc[p] \in Inside /\ UNCHANGED req
  BY DEF PlanNothing, Callback, PlanUnchanged, PlanSwap, Prepared, At, Inside, Outside,
     Labels
<1>1. CASE PlanNothing(p)
  <2>1. Vacant'
    BY <1>1, <1>0, VacantDiscard DEF PlanNothing
  <2>2. CASE Finish(p, "nothing")
    BY <2>1, <2>2, <1>i, FillFinish
  <2>3. CASE Goes(p, "callback", [op[p] EXCEPT !.gen = NoDir, !.fresh = FALSE])
    BY <2>1, <2>3, <1>i, FillStep, SilentFills DEF Silent
  <2> QED BY <1>1, <2>2, <2>3 DEF PlanNothing
<1>2. CASE Callback(p)
  <2> DEFINE o == [op[p] EXCEPT !.unmerging = TRUE, !.todo = op[p].merged]
  <2>1. ~o.swapping
    BY <1>2, <1>0 DEF Callback, At, Op, PhaseOf
  <2>2. FillsOf("take", o, img', stack', dirs')
    BY <2>1 DEF FillsOf, Layers
  <2>3. Vacant'
    BY <1>2, <1>0, VacantSame DEF Callback, kernel
  <2> QED BY <1>2, <2>2, <2>3, <1>i, FillStep DEF Callback
<1>3. CASE PlanUnchanged(p)
  <2>1. Vacant'
    BY <1>3, <1>0, VacantDiscard DEF PlanUnchanged
  <2> QED BY <1>3, <2>1, <1>i, FillFinish DEF PlanUnchanged
<1>4. CASE PlanSwap(p)
  <2>0. pc[p] = "image" /\ UNCHANGED <<img, dirs>> /\ ~Nothing(p)
    BY <1>4 DEF PlanSwap, Prepared, At, kernel
  <2>1. op[p].gen \in Dirs
    BY <2>0, <1>0 DEF PhaseOf, Nothing
  <2>2. {op[p].gen, Base} \subseteq dirs' /\ img'[op[p].gen] = op[p].images
    BY <2>0, <2>1, <1>0 DEF FillsOf
  <2> DEFINE o1 == [op[p] EXCEPT !.swapping = TRUE, !.todo = H]
             o2 == [op[p] EXCEPT !.swapping = TRUE, !.todo = op[p].merged]
  <2>3. /\ o1.gen = op[p].gen /\ o1.images = op[p].images
        /\ o2.gen = op[p].gen /\ o2.images = op[p].images
    BY <1>0 DEF Op
  <2>4. FillsOf("stage", o1, img', stack', dirs') /\ FillsOf("take", o2, img', stack', dirs')
    BY <2>2, <2>3 DEF FillsOf, Layers
  <2>5. Vacant'
    BY <2>0, <1>0, VacantSame
  <2> QED BY <1>4, <2>4, <2>5, <1>i, FillStep DEF PlanSwap
<1> QED BY <1>1, <1>2, <1>3, <1>4

(* The unmerge in place of a hierarchy ends nothing with "merged". *)
LEMMA FillNext ==
  ASSUME Inv, ShowInv, NEW p \in Procs, pc[p] = "putback", UNCHANGED req, Vacant',
         NEW h, NEW result \in {"none", "error"}, UnmergeNext(p, h, result)
  PROVE  FillInv'
<1>i. pc[p] \in Inside /\ op[p] \in Op
  BY Facts DEF Inside, Outside, Labels
<1>s. PhaseOf(pc[p], op[p], req[p], stack) /\ ShowsOf(pc[p], op[p], req[p], stack)
  BY Given
<1>p. ~op[p].swapping
  BY <1>s DEF PhaseOf, ShowsOf, InPlaceOf
<1> DEFINE n == [op[p] EXCEPT !.todo = op[p].todo \ {h}, !.res = result]
<1>1. n.res = result /\ n.swapping = op[p].swapping
  BY <1>i DEF Op
<1>2. FillsOf("take", n, img', stack', dirs') /\ FillsOf("unlock", n, img', stack', dirs')
  BY <1>1, <1>p DEF FillsOf, Layers
<1>3. FillsOf("teardown", n, img', stack', dirs')
  BY SilentFills DEF Silent
<1>4. CASE Abort(p, op[p])
  BY <1>4, <1>i, FillAbort
<1>5. CASE Goes(p, "take", n) \/ Goes(p, "unlock", n) \/ Goes(p, "teardown", n)
  BY <1>5, <1>2, <1>3, <1>i, FillStep
<1> QED BY <1>4, <1>5 DEF UnmergeNext

(* Taking down merges keeps the prepared generation of a swap. *)
LEMMA FillUnmerge ==
  ASSUME Inv, ShowInv, FillInv, NEW p \in Procs,
         TakeSubmounts(p) \/ HierarchyUnmerged(p) \/ Unmount(p) \/ PutBack(p) \/
           TeardownWorkspace(p)
  PROVE  FillInv'
<1>0. /\ KernelInv /\ op[p] \in Op /\ PhaseOf(pc[p], op[p], req[p], stack)
      /\ Vacant /\ FillsOf(pc[p], op[p], img, stack, dirs)
      /\ ShowsOf(pc[p], op[p], req[p], stack)
  BY Facts, Given DEF FillInv, Fills
<1>i. pc[p] \in Inside /\ UNCHANGED req
  BY DEF TakeSubmounts, HierarchyUnmerged, Unmount, PutBack, TeardownWorkspace,
         At, Inside, Outside, Labels
<1>b. UNCHANGED <<img, dirs>> => Vacant'
  BY <1>0, VacantSame
<1>s. ASSUME pc[p] \in {"take", "umount"}, UNCHANGED <<img, dirs>>,
             NEW l \in {"take", "umount", "stage"}, NEW o, Goes(p, l, o),
             o.gen = op[p].gen, o.images = op[p].images, o.swapping = op[p].swapping,
             l = "stage" => op[p].swapping
      PROVE  FillInv'
  <2>1. FillsOf(l, o, img', stack', dirs')
    BY <1>s, <1>0 DEF FillsOf, Layers
  <2> QED BY <2>1, <1>s, <1>b, <1>i, FillStep
<1>1. CASE TakeSubmounts(p)
  <2>1. pc[p] = "take" /\ UNCHANGED <<img, dirs>> /\ Goes(p, "umount", op[p])
    BY <1>1 DEF TakeSubmounts, At
  <2> QED BY <2>1, <1>s
<1>2. CASE HierarchyUnmerged(p)
  <2>0. pc[p] = "take" /\ UNCHANGED <<img, dirs>>
    BY <1>2 DEF HierarchyUnmerged, At, kernel
  <2>1. CASE InPlace(p)
    <3>1. Goes(p, "putback", op[p])
      BY <1>2, <2>1 DEF HierarchyUnmerged
    <3> QED BY <2>0, <3>1, <1>b, <1>i, FillStep, SilentFills DEF Silent
  <2>2. CASE ~InPlace(p)
    <3>0. PICK h \in H : \/ Goes(p, "stage", [op[p] EXCEPT !.todo = H])
                         \/ Goes(p, "take", [op[p] EXCEPT !.todo = op[p].todo \ {h}])
      BY <1>2, <2>2 DEF HierarchyUnmerged
    <3> DEFINE o1 == [op[p] EXCEPT !.todo = H]
               o2 == [op[p] EXCEPT !.todo = op[p].todo \ {h}]
    <3>1. /\ o1.gen = op[p].gen /\ o1.images = op[p].images /\ o1.swapping = op[p].swapping
          /\ o2.gen = op[p].gen /\ o2.images = op[p].images /\ o2.swapping = op[p].swapping
      BY <1>0 DEF Op
    <3>2. op[p].swapping
      BY <2>0, <2>2, <1>0 DEF PhaseOf, InPlace
    <3>3. CASE Goes(p, "stage", o1)
      BY <2>0, <3>1, <3>2, <3>3, <1>s
    <3>4. CASE Goes(p, "take", o2)
      BY <2>0, <3>1, <3>4, <1>s
    <3> QED BY <3>0, <3>3, <3>4
  <2> QED BY <2>1, <2>2
<1>3. CASE Unmount(p)
  <2>0. pc[p] = "umount" /\ UNCHANGED <<img, dirs>>
    BY <1>3 DEF Unmount, At
  <2>1. PICK h \in H : \/ Goes(p, "take", op[p])
                       \/ Goes(p, "take", [op[p] EXCEPT !.unmerged = @ \cup {h}])
    BY <1>3 DEF Unmount
  <2> DEFINE o == [op[p] EXCEPT !.unmerged = @ \cup {h}]
  <2>2. o.gen = op[p].gen /\ o.images = op[p].images /\ o.swapping = op[p].swapping
    BY <1>0 DEF Op
  <2>3. CASE Goes(p, "take", op[p])
    BY <2>0, <2>3, <1>s
  <2>4. CASE Goes(p, "take", o)
    BY <2>0, <2>2, <2>4, <1>s
  <2> QED BY <2>1, <2>3, <2>4
<1>4. CASE PutBack(p)
  <2>1. pc[p] = "putback" /\ UNCHANGED <<img, dirs>>
    BY <1>4 DEF PutBack, At
  <2>2. PICK h \in H : UnmergeNext(p, h, op[p].res)
    BY <1>4 DEF PutBack
  <2>3. op[p].res \in {"none", "error"}
    BY <2>1, <1>0 DEF ShowsOf
  <2> QED BY <2>1, <2>2, <2>3, <1>b, <1>i, FillNext
<1>5. CASE TeardownWorkspace(p)
  <2>0. pc[p] = "teardown" /\ Vacant'
    BY <1>5, VacantTeardown DEF TeardownWorkspace, At
  <2>1. CASE op[p].swapping
    BY <1>5, <2>0, <2>1, <1>0, <1>i, FillFinish DEF TeardownWorkspace, ShowsOf
  <2>2. CASE ~op[p].swapping
    BY <1>5, <2>0, <2>2, <1>i, FillFinish DEF TeardownWorkspace
  <2> QED BY <2>1, <2>2
<1> QED BY <1>1, <1>2, <1>3, <1>4, <1>5

(* Staging and going live keep it; a first merge is complete at its commit. *)
LEMMA FillStage ==
  ASSUME Inv, FillInv, NEW p \in Procs,
         KeepHost(p) \/ StageOverlay(p) \/ TakeHostMounts(p) \/ AttachStaged(p) \/
           Staged(p) \/ MoveOverlay(p) \/ Commit(p)
  PROVE  FillInv'
<1>0. /\ KernelInv /\ op[p] \in Op /\ PhaseOf(pc[p], op[p], req[p], stack)
      /\ Vacant /\ FillsOf(pc[p], op[p], img, stack, dirs)
  BY Facts DEF FillInv, Fills
<1>i. /\ pc[p] \in Inside /\ UNCHANGED <<req, img, dirs>>
      /\ pc[p] \in {"stage", "carry", "adopt", "move"}
  BY DEF KeepHost, StageOverlay, TakeHostMounts, AttachStaged, Staged, MoveOverlay, Commit,
         At, kernel, Inside, Outside, Labels
<1>b. Vacant'
  BY <1>0, <1>i, VacantSame
<1>s. ASSUME NEW l \in {"stage", "carry", "adopt", "move", "clear"}, NEW o, Goes(p, l, o),
             o.gen = op[p].gen, o.images = op[p].images
      PROVE  FillInv'
  <2>1. FillsOf(l, o, img', stack', dirs')
    BY <1>s, <1>0, <1>i DEF FillsOf, Layers
  <2> QED BY <2>1, <1>s, <1>b, <1>i, FillStep
<1>1. CASE KeepHost(p) \/ AttachStaged(p)
  <2>0. PICK h \in H : Goes(p, "stage", [op[p] EXCEPT !.todo = @ \ {h}])
    BY <1>1 DEF KeepHost, AttachStaged
  <2> DEFINE o == [op[p] EXCEPT !.todo = @ \ {h}]
  <2>1. o.gen = op[p].gen /\ o.images = op[p].images
    BY <1>0 DEF Op
  <2> QED BY <2>0, <2>1, <1>s
<1>2. CASE StageOverlay(p)
  <2>0. PICK h \in H : Goes(p, "carry", [op[p] EXCEPT !.staged = @ \cup {h}])
    BY <1>2 DEF StageOverlay
  <2> DEFINE o == [op[p] EXCEPT !.staged = @ \cup {h}]
  <2>1. o.gen = op[p].gen /\ o.images = op[p].images
    BY <1>0 DEF Op
  <2> QED BY <2>0, <2>1, <1>s
<1>3. CASE TakeHostMounts(p)
  BY <1>3, <1>s DEF TakeHostMounts
<1>4. CASE Staged(p)
  <2> DEFINE o == [op[p] EXCEPT !.todo = Mounts(p)]
  <2>1. o.gen = op[p].gen /\ o.images = op[p].images
    BY <1>0 DEF Op
  <2> QED BY <1>4, <2>1, <1>s DEF Staged
<1>5. CASE MoveOverlay(p)
  <2>0. PICK h \in H : Goes(p, "move", [op[p] EXCEPT !.staged = @ \ {h}, !.attached = @ \cup {h},
                                                     !.todo = @ \ {h}])
    BY <1>5 DEF MoveOverlay
  <2> DEFINE o == [op[p] EXCEPT !.staged = @ \ {h}, !.attached = @ \cup {h}, !.todo = @ \ {h}]
  <2>1. o.gen = op[p].gen /\ o.images = op[p].images
    BY <1>0 DEF Op
  <2> QED BY <2>0, <2>1, <1>s
<1>6. CASE Commit(p)
  <2>0. pc[p] = "move" /\ UNCHANGED stack
    BY <1>6 DEF Commit, At
  <2>1. CASE Goes(p, "teardown", op[p])
    BY <2>1, <1>b, <1>i, FillStep, SilentFills DEF Silent
  <2>2. CASE op[p].gen = Base /\ Finish(p, "merged")
    <3> DEFINE n == [op[p] EXCEPT !.res = "merged"]
    <3>1. n.gen = Base /\ n.images = op[p].images
      BY <2>2, <1>0 DEF Op
    <3>2. img'[Base] = op[p].images
      BY <2>0, <2>2, <1>0, <1>i DEF FillsOf, Dirs
    <3>3. LocsAre(stack', H, Base)
      BY <2>0, <2>2, <1>0 DEF PhaseOf
    <3>4. FillsOf("unlock", n, img', stack', dirs')
      BY <3>1, <3>2, <3>3 DEF FillsOf, Layers
    <3> QED BY <2>2, <3>4, <1>b, <1>i, FillStep DEF Finish
  <2>3. CASE Goes(p, "clear", op[p])
    BY <2>3, <1>s
  <2> QED BY <1>6, <2>1, <2>2, <2>3 DEF Commit
<1> QED BY <1>1, <1>2, <1>3, <1>4, <1>5, <1>6

(* promote: the images and the layers of the previous merge go, those of the new
   one move to their place, one by one. *)
LEMMA FillPromote ==
  ASSUME Inv, FillInv, NEW p \in Procs,
         PromoteClear(p) \/ PromoteDrop(p) \/ DropRefused(p) \/ PromoteImage(p) \/
           ImagesPromoted(p) \/ PromoteLayers(p) \/ PromoteDone(p) \/ PromoteFails(p)
  PROVE  FillInv'
<1>0. /\ KernelInv /\ op[p] \in Op /\ PhaseOf(pc[p], op[p], req[p], stack)
      /\ Vacant /\ FillsOf(pc[p], op[p], img, stack, dirs)
  BY Facts DEF FillInv, Fills
<1>i. pc[p] \in Inside /\ UNCHANGED req /\ pc[p] \in Layers
  BY DEF PromoteClear, PromoteDrop, DropRefused, PromoteImage, ImagesPromoted,
     PromoteLayers,
         PromoteDone, PromoteFails, At, Inside, Outside, Labels, Layers
<1>g. /\ op[p].gen \in Dirs /\ Base \in Dirs /\ op[p].gen # Base
      /\ {op[p].gen, Base} \subseteq dirs
  BY <1>0, <1>i, NamesAssumption DEF PhaseOf, FillsOf, Dirs
<1>b. UNCHANGED <<img, dirs>> => Vacant'
  BY <1>0, VacantSame
<1>1. CASE PromoteClear(p)
  <2>0. pc[p] = "clear" /\ UNCHANGED dirs /\ img' = [img EXCEPT ![Base] = {}]
    BY <1>1 DEF PromoteClear, At
  <2> DEFINE o == [op[p] EXCEPT !.todo = op[p].attached \cup op[p].unmerged]
  <2>1. o.gen = op[p].gen /\ o.images = op[p].images
    BY <1>0 DEF Op
  <2>2. img'[Base] = {} /\ img'[op[p].gen] = op[p].images
    BY <2>0, <1>0, <1>g DEF KernelInv, FillsOf
  <2>3. Vacant'
    BY <2>0, <1>0, <1>g DEF Vacant, KernelInv
  <2>4. FillsOf("drop", o, img', stack', dirs')
    BY <2>0, <2>1, <2>2, <1>g DEF FillsOf, Layers
  <2> QED BY <1>1, <2>3, <2>4, <1>i, FillStep DEF PromoteClear
<1>2. CASE PromoteDrop(p)
  <2>0. pc[p] = "drop" /\ UNCHANGED <<img, dirs>>
    BY <1>2 DEF PromoteDrop, At
  <2>1. PICK h \in H : \/ Goes(p, "shift", [op[p] EXCEPT !.todo = {}, !.left = op[p].images])
                       \/ Goes(p, "drop", [op[p] EXCEPT !.todo = op[p].todo \ {h}])
    BY <1>2 DEF PromoteDrop
  <2> DEFINE o1 == [op[p] EXCEPT !.todo = {}, !.left = op[p].images]
             o2 == [op[p] EXCEPT !.todo = op[p].todo \ {h}]
  <2>2. /\ o1.gen = op[p].gen /\ o1.images = op[p].images /\ o1.left = op[p].images
        /\ o2.gen = op[p].gen /\ o2.images = op[p].images
    BY <1>0 DEF Op
  <2>3. img[Base] = {} /\ img[op[p].gen] = op[p].images
    BY <2>0, <1>0, <1>g DEF FillsOf
  <2>4. FillsOf("shift", o1, img', stack', dirs') /\ FillsOf("drop", o2, img', stack', dirs')
    BY <2>0, <2>2, <2>3, <1>g DEF FillsOf, Layers
  <2> QED BY <2>0, <2>1, <2>4, <1>b, <1>i, FillStep
<1>3. CASE DropRefused(p)
  <2>1. UNCHANGED <<img, dirs>> /\ Finish(p, "cleanup")
    BY <1>3 DEF DropRefused, kernel
  <2> QED BY <2>1, <1>b, <1>i, FillFinish
<1>4. CASE PromoteImage(p)
  <2>0. pc[p] = "shift" /\ UNCHANGED dirs
    BY <1>4 DEF PromoteImage, At
  <2>1. PICK e \in op[p].left :
          /\ img' = [img EXCEPT ![op[p].gen] = @ \ {e}, ![Base] = @ \cup {e}]
          /\ Goes(p, "shift", [op[p] EXCEPT !.left = @ \ {e}])
    BY <1>4 DEF PromoteImage
  <2> DEFINE o == [op[p] EXCEPT !.left = @ \ {e}]
  <2>2. o.gen = op[p].gen /\ o.images = op[p].images /\ o.left = op[p].left \ {e}
    BY <1>0 DEF Op
  <2>3. /\ op[p].left \subseteq op[p].images /\ img[op[p].gen] = op[p].left
        /\ img[Base] = op[p].images \ op[p].left
    BY <2>0, <1>0 DEF FillsOf
  <2>4. img'[op[p].gen] = op[p].left \ {e} /\ img'[Base] = op[p].images \ (op[p].left \ {e})
    BY <2>1, <2>3, <1>0, <1>g DEF KernelInv
  <2>5. Vacant'
    BY <2>0, <2>1, <1>0, <1>g DEF Vacant, KernelInv
  <2>6. FillsOf("shift", o, img', stack', dirs')
    BY <2>0, <2>2, <2>3, <2>4, <1>g DEF FillsOf, Layers
  <2> QED BY <2>1, <2>5, <2>6, <1>i, FillStep
<1>5. CASE ImagesPromoted(p)
  <2>0. pc[p] = "shift" /\ UNCHANGED <<img, dirs, stack>> /\ op[p].left = {}
    BY <1>5 DEF ImagesPromoted, At, kernel
  <2> DEFINE o == [op[p] EXCEPT !.todo = op[p].attached]
  <2>1. o.gen = op[p].gen /\ o.images = op[p].images /\ o.todo = op[p].attached
    BY <1>0 DEF Op
  <2>2. img[Base] = op[p].images
    BY <2>0, <1>0 DEF FillsOf
  <2>3. LocsAre(stack', H \ op[p].attached, Base)
    <3>1. \A h \in H \ op[p].attached : stack[h] = <<>>
      BY <2>0, <1>0 DEF PhaseOf, Empty, Layers
    <3> QED BY <2>0, <3>1 DEF LocsAre
  <2>4. FillsOf("rename", o, img', stack', dirs')
    BY <2>0, <2>1, <2>2, <2>3, <1>g DEF FillsOf, Layers
  <2> QED BY <1>5, <2>0, <2>4, <1>b, <1>i, FillStep DEF ImagesPromoted
<1>6. CASE PromoteLayers(p)
  <2>0. pc[p] = "rename" /\ UNCHANGED <<img, dirs>>
    BY <1>6 DEF PromoteLayers, At
  <2>1. PICK h \in H : /\ First(h, op[p].todo)
                       /\ stack' = [stack EXCEPT ![h] = Relocated(@, {op[p].gen}, Base)]
                       /\ Goes(p, "rename", [op[p] EXCEPT !.todo = @ \ {h}])
    BY <1>6 DEF PromoteLayers
  <2> DEFINE o == [op[p] EXCEPT !.todo = @ \ {h}]
  <2>2. o.gen = op[p].gen /\ o.images = op[p].images /\ o.todo = op[p].todo \ {h}
    BY <1>0 DEF Op
  <2>3. img[Base] = op[p].images /\ LocsAre(stack, H \ op[p].todo, Base)
    BY <2>0, <1>0 DEF FillsOf
  <2>4. h \in op[p].todo /\ \A k \in DOMAIN stack[h] : stack[h][k].loc = op[p].gen
    BY <2>0, <2>1, <1>0 DEF PhaseOf, LocsAre, First
  <2>5. /\ stack[h] \in Seq(Overlay)
        /\ stack'[h] = Relocated(stack[h], {op[p].gen}, Base)
        /\ \A g \in H \ {h} : stack'[g] = stack[g]
    BY <2>1, <1>0 DEF KernelInv
  <2>6. /\ Len(stack'[h]) = Len(stack[h]) /\ stack'[h] \in Seq(Overlay)
        /\ \A k \in DOMAIN stack[h] :
             stack'[h][k].loc = IF stack[h][k].loc \in {op[p].gen} THEN Base ELSE stack[h][k].loc
    <3>1. Base \in Locs
      BY <1>g DEF Locs
    <3>2. /\ Relocated(stack[h], {op[p].gen}, Base) \in Seq(Overlay)
          /\ Len(Relocated(stack[h], {op[p].gen}, Base)) = Len(stack[h])
          /\ \A k \in DOMAIN stack[h] : Relocated(stack[h], {op[p].gen}, Base)[k].loc =
               IF stack[h][k].loc \in {op[p].gen} THEN Base ELSE stack[h][k].loc
      BY <3>1, <2>5, RelocatedType
    <3> QED BY <3>2, <2>5
  <2>7. ASSUME NEW k \in DOMAIN stack'[h] PROVE stack'[h][k].loc = Base
    <3>1. k \in DOMAIN stack[h]
      BY <2>5, <2>6, <2>7
    <3> QED BY <3>1, <2>4, <2>6
  <2>8. LocsAre(stack', H \ (op[p].todo \ {h}), Base)
    BY <2>3, <2>5, <2>7 DEF LocsAre
  <2>9. FillsOf("rename", o, img', stack', dirs')
    BY <2>0, <2>2, <2>3, <2>8, <1>g DEF FillsOf, Layers
  <2> QED BY <2>0, <2>1, <2>9, <1>b, <1>i, FillStep
<1>7. CASE PromoteDone(p)
  <2>0. /\ pc[p] = "rename" /\ op[p].todo = {} /\ UNCHANGED img
        /\ img[op[p].gen] = {} /\ dirs' = dirs \ {op[p].gen}
        /\ stack' = [h \in H |-> Relocated(stack[h], {op[p].gen}, "deleted")]
    BY <1>7 DEF PromoteDone, At
  <2> DEFINE n == [op[p] EXCEPT !.res = "merged"]
  <2>1. n.gen = op[p].gen /\ n.images = op[p].images
    BY <1>0 DEF Op
  <2>2. img[Base] = op[p].images /\ LocsAre(stack, H, Base)
    BY <2>0, <1>0 DEF FillsOf
  <2>3. LocsAre(stack', H, Base)
    <3>1. ASSUME NEW h \in H, NEW k \in DOMAIN stack'[h] PROVE stack'[h][k].loc = Base
      <4>0. stack[h] \in Seq(Overlay) /\ "deleted" \in Locs
        BY <1>0 DEF KernelInv, Locs
      <4>1. /\ stack'[h] \in Seq(Overlay) /\ Len(stack'[h]) = Len(stack[h])
            /\ \A j \in DOMAIN stack[h] :
                 stack'[h][j].loc = IF stack[h][j].loc \in {op[p].gen} THEN "deleted"
                                    ELSE stack[h][j].loc
        BY <2>0, <4>0, RelocatedType
      <4>2. k \in DOMAIN stack[h]
        BY <4>0, <4>1, <3>1
      <4> QED BY <4>1, <4>2, <2>2, <1>g DEF LocsAre
    <3> QED BY <3>1 DEF LocsAre
  <2>4. Vacant'
    BY <2>0, <1>0 DEF Vacant
  <2>5. FillsOf("unlock", n, img', stack', dirs')
    BY <2>0, <2>1, <2>2, <2>3 DEF FillsOf, Layers
  <2> QED BY <1>7, <2>4, <2>5, <1>i, FillStep DEF PromoteDone, Finish
<1>8. CASE PromoteFails(p)
  <2>0. UNCHANGED dirs /\ Finish(p, "cleanup")
    BY <1>8 DEF PromoteFails
  <2>1. Vacant'
    <3>1. CASE UNCHANGED img
      BY <2>0, <3>1, <1>b
    <3>2. ASSUME NEW kept \in SUBSET img[Base], img' = [img EXCEPT ![Base] = kept] PROVE Vacant'
      BY <2>0, <3>2, <1>0, <1>g DEF Vacant, KernelInv
    <3> QED BY <1>8, <3>1, <3>2 DEF PromoteFails
  <2> QED BY <2>0, <2>1, <1>i, FillFinish
<1> QED BY <1>1, <1>2, <1>3, <1>4, <1>5, <1>6, <1>7, <1>8

(* abort drops the workspace or the generation, or what could be dropped of it. *)
LEMMA FillUndo ==
  ASSUME Inv, FillInv, NEW p \in Procs,
         AbortTake(p) \/ AbortDetach(p) \/ AbortAttach(p) \/ AbortRelease(p)
  PROVE  FillInv'
<1>0. KernelInv /\ op[p] \in Op /\ Vacant
  BY Facts DEF FillInv
<1>i. pc[p] \in Inside /\ UNCHANGED req
  BY DEF AbortTake, AbortDetach, AbortAttach, AbortRelease, At, Inside, Outside, Labels
<1>1. CASE AbortTake(p) \/ AbortDetach(p) \/ AbortAttach(p)
  <2>l. PICK l \in Silent : \E o : Goes(p, l, o)
    BY <1>1 DEF AbortTake, AbortDetach, AbortAttach, Silent
  <2>1. PICK o : Goes(p, l, o)
    BY <2>l
  <2>2. Vacant'
    BY <1>1, <1>0, VacantSame DEF AbortTake, AbortDetach, AbortAttach
  <2> QED BY <2>1, <2>2, <1>i, FillStep, SilentFills
<1>2. CASE AbortRelease(p)
  <2>1. Vacant'
    BY <1>2, <1>0, VacantTeardown, VacantReleased, VacantDiscard DEF AbortRelease
  <2> QED BY <1>2, <2>1, <1>i, FillFinish DEF AbortRelease
<1> QED BY <1>1, <1>2

(* Steps that fail keep FillInv: they claim nothing, or change nothing. *)
LEMMA FillFails ==
  ASSUME Inv, ShowInv, FillInv, NEW p \in Procs, Fails(p)
  PROVE  FillInv'
<1>0. /\ KernelInv /\ op[p] \in Op /\ PhaseOf(pc[p], op[p], req[p], stack)
      /\ Vacant /\ FillsOf(pc[p], op[p], img, stack, dirs)
  BY Facts DEF FillInv, Fills
<1>i. pc[p] \in Inside /\ UNCHANGED req
  BY DEF Fails, CheckFails, WorkspaceFails, MountImageFails, CallbackFails, PlanFails,
     TakeFails,
         UnmountFails, PutBackFails, TeardownFails, KeepHostFails, StageFails,
         TakeHostMountsFails, AttachStagedFails, MoveFails, PromoteFails, Prepared,
         At, Inside, Outside, Labels
<1>b. UNCHANGED <<img, dirs>> => Vacant'
  BY <1>0, VacantSame
<1>a. ASSUME NEW o, Abort(p, o), Vacant' PROVE FillInv'
  BY <1>a, <1>i, FillAbort
<1>e. ASSUME UnmergeError(p), UNCHANGED <<img, dirs>> PROVE FillInv'
  BY <1>e, <1>a, <1>b, <1>i, FillStep, SilentFills DEF UnmergeError, Silent
<1>1. CASE CheckFails(p) \/ CallbackFails(p) \/ PlanFails(p) \/ TakeHostMountsFails(p) \/ MoveFails(p)
  BY <1>1, <1>a, <1>b DEF CheckFails, CallbackFails, PlanFails, TakeHostMountsFails,
     MoveFails, kernel
<1>2. CASE KeepHostFails(p) \/ AttachStagedFails(p)
  BY <1>2, <1>a, <1>b DEF KeepHostFails, AttachStagedFails
<1>3. CASE StageFails(p)
  <2>1. UNCHANGED <<img, dirs>> /\ \E o : Abort(p, o)
    BY <1>3 DEF StageFails
  <2> QED BY <2>1, <1>a, <1>b
<1>4. CASE WorkspaceFails(p)
  <2>1. Vacant'
    BY <1>4, <1>b, VacantTeardown DEF WorkspaceFails, kernel
  <2> QED BY <1>4, <2>1, <1>a DEF WorkspaceFails
<1>5. CASE MountImageFails(p)
  <2>1. Abort(p, op[p]) /\ UNCHANGED dirs /\ pc[p] = "image"
    BY <1>5 DEF MountImageFails, At
  <2>2. PICK e \in op[p].left : UNCHANGED img \/ img' = [img EXCEPT ![op[p].gen] = @ \cup {e}]
    BY <1>5 DEF MountImageFails
  <2>3. op[p].gen \in Dirs /\ op[p].gen \in dirs
    BY <2>1, <2>2, <1>0 DEF PhaseOf, FillsOf
  <2>4. Vacant'
    BY <2>1, <2>2, <2>3, <1>0, <1>b DEF Vacant, KernelInv
  <2> QED BY <2>1, <2>4, <1>a
<1>6. CASE TakeFails(p)
  BY <1>6, <1>e DEF TakeFails, kernel
<1>7. CASE UnmountFails(p)
  <2>1. UNCHANGED <<img, dirs>> /\ (UnmergeError(p) \/ \E o : Abort(p, o))
    BY <1>7 DEF UnmountFails
  <2> QED BY <2>1, <1>a, <1>b, <1>e
<1>8. CASE PutBackFails(p)
  BY <1>8, <1>b, <1>i, FillNext DEF PutBackFails, At
<1>9. CASE TeardownFails(p)
  <2>1. Vacant'
    BY <1>9, <1>b, VacantTeardown DEF TeardownFails, kernel
  <2>2. Abort(p, op[p]) \/ Finish(p, "cleanup") \/ Finish(p, "error")
    BY <1>9 DEF TeardownFails
  <2> QED BY <2>1, <2>2, <1>a, <1>i, FillFinish
<1>10. CASE PromoteFails(p)
  BY <1>10, FillPromote
<1> QED BY <1>1, <1>2, <1>3, <1>4, <1>5, <1>6, <1>7, <1>8, <1>9, <1>10 DEF Fails

(* The lock is taken, released, or lost with its holder: the workspace stays. *)
LEMMA FillLock ==
  ASSUME Inv, FillInv, NEW p \in Procs, Begin(p) \/ Acquire(p) \/ Unlock(p) \/ Crash(p)
  PROVE  FillInv'
<1>t. pc \in [Procs -> Labels] /\ op \in [Procs -> Op]
  BY DEF Inv, TypeOK
<1>1. UNCHANGED <<img, dirs, stack>>
  BY DEF Begin, Acquire, Unlock, Crash, kernel
<1>2. Vacant'
  BY <1>1, VacantSame DEF FillInv
<1>3. \A q \in Procs \ {p} : Fills(q)'
  <2>1. \A q \in Procs \ {p} : pc'[q] = pc[q] /\ op'[q] = op[q]
    BY <1>t DEF Begin, Acquire, Unlock, Crash, Leave, Goes
  <2> QED BY <2>1, <1>1 DEF FillInv, Fills
<1>4. Fills(p)'
  <2>1. CASE Acquire(p) /\ req[p].verb = "unmerge"
    <3>1. op[p] = NewOp
      BY <2>1, Facts DEF Acquire, PhaseOf, Outside
    <3>2. pc'[p] = "take" /\ op'[p] = [NewOp EXCEPT !.todo = H]
      BY <2>1, <3>1, <1>t DEF Acquire, Goes
    <3>3. ~op'[p].swapping
      BY <3>2 DEF NewOp
    <3> QED BY <3>2, <3>3 DEF Fills, FillsOf, Layers
  <2>2. CASE ~(Acquire(p) /\ req[p].verb = "unmerge")
    <3>1. pc'[p] \in {"idle", "lock", "check"}
      BY <2>2, <1>t DEF Begin, Acquire, Unlock, Crash, Leave, Goes
    <3> QED BY <3>1, SilentFills DEF Fills, Silent, Outside
  <2> QED BY <2>1, <2>2
<1> QED BY <1>2, <1>3, <1>4 DEF FillInv

(* Every step keeps FillInv. *)
LEMMA FillNextStep ==
  ASSUME Inv, ShowInv, FillInv, Next
  PROVE  FillInv'
<1>0. PICK p \in Procs : Begin(p) \/ Acquire(p) \/ Works(p) \/ Fails(p) \/ Unlock(p) \/ Crash(p)
  BY DEF Next
<1>1. CASE Begin(p) \/ Acquire(p) \/ Unlock(p) \/ Crash(p)
  BY <1>1, FillLock
<1>2. CASE Works(p)
  BY <1>2, FillPrepare, FillPlan, FillUnmerge, FillStage, FillPromote, FillUndo DEF Works
<1>3. CASE Fails(p)
  BY <1>3, FillFails
<1> QED BY <1>0, <1>1, <1>2, <1>3

(* FillInv is an invariant of the engine. *)
LEMMA FillAlways == Spec => []FillInv
<1>1. Init => FillInv
  BY SilentFills DEF Init, FillInv, Fills, Vacant, Outside
<1>2. FillInv /\ UNCHANGED vars => FillInv'
  BY DEF FillInv, Fills, Vacant, vars, kernel
<1>3. Inv /\ ShowInv /\ FillInv /\ [Next]_vars => FillInv'
  BY <1>2, FillNextStep
<1> QED BY <1>1, <1>3, Invariance, ShowAlways, PTL DEF Spec

(* After a Merged without ErrCleanup the workspace lists exactly the images of
   the merge, the generation it was built in is gone, and the layers of every
   live overlay are in place. *)
THEOREM MergeDescribed == Spec => []WorkspaceDescribesMerge
<1>1. Inv /\ ShowInv /\ FillInv => WorkspaceDescribesMerge
  <2> SUFFICES ASSUME Inv, ShowInv, FillInv,
                      NEW p \in Procs, Ends(p, "merged"), op[p].attached # {}
               PROVE  /\ img[Base] = op[p].images
                      /\ op[p].gen = Base \/ op[p].gen \notin dirs
                      /\ \A h \in H : stack[h] # <<>> => Top(h).loc = Base
    BY DEF WorkspaceDescribesMerge
  <2>1. FillsOf("unlock", op[p], img, stack, dirs) /\ op[p].res = "merged"
    BY DEF FillInv, Fills, Ends
  <2>2. /\ img[Base] = op[p].images /\ LocsAre(stack, H, Base)
        /\ op[p].gen = Base \/ op[p].gen \notin dirs
    BY <2>1 DEF FillsOf
  <2>3. ASSUME NEW h \in H, stack[h] # <<>> PROVE Top(h).loc = Base
    <3>1. Len(stack[h]) = 1 /\ stack[h] \in Seq(Overlay)
      BY <2>3, Given DEF KernelInv
    <3>2. 1 \in DOMAIN stack[h]
      BY <3>1
    <3> QED BY <2>2, <3>1, <3>2 DEF LocsAre, Top
  <2> QED BY <2>2, <2>3
<1> QED BY <1>1, Invariance, ShowAlways, FillAlways, PTL

-----------------------------------------------------------------------------
(***************************************************************************)
(* Engine implements MergeSpec: the step simulation under the mapping of   *)
(* EngineImplements.  RefInv says of an operation what ShowInv leaves      *)
(* open: that it shows nothing new before it decided to, that a merge      *)
(* takes nothing down, and that it makes only what it was asked for.  Each *)
(* lemma about actions names the next mergeOp, its place in RefOf, and     *)
(* ends in the lemma for the phases the step leads from and to.            *)
(***************************************************************************)
(* Labels at which the old merge, or what is left of it, is on the hierarchies. *)
Before == {"check", "workspace", "image", "callback", "take", "umount", "putback",
           "stage", "carry", "adopt"}

Over == {"abort", "detach", "restore", "unlock"}

(* The phase of MergeSpec an operation is in, by its label and its mergeOp. *)
PhaseAt(l, o) ==
  IF \/ l \in Layers
     \/ l = "teardown" /\ o.swapping
     \/ l = "unlock" /\ o.res \in {"merged", "cleanup"}
  THEN "done"
  ELSE IF l = "move" THEN "new"
  ELSE IF l \in Over THEN "over"
  ELSE "old"

(* The hierarchies that show the new merge, or shall show it. *)
GoalSet(l, o, r) ==
  IF PhaseAt(l, o) \in {"new", "done"} THEN MountsOf(o, r)
  ELSE IF PhaseAt(l, o) = "over" THEN o.attached
  ELSE {}

GoalAt(l, o, r) ==
  [h \in H |-> IF h \in GoalSet(l, o, r)
               THEN [names |-> o.images, mutable |-> r.mutable, merged |-> TRUE]
               ELSE NotMerged]

ViewOf(st) ==
  [h \in H |-> IF st[h] = <<>> THEN NotMerged
               ELSE [names |-> st[h][1].names, mutable |-> st[h][1].mutable, merged |-> TRUE]]

(* What an operation has made, and what it was asked for, at each label. *)
RefOf(l, o, r) ==
  /\ PhaseAt(l, o) = "old" => o.attached = {}
  /\ l \in {"workspace", "image"} /\ r.verb = "merge" => o.merged = {}
  /\ l \in {"callback", "take", "umount", "putback"} => r.verb # "merge"
  /\ l = "workspace" => o.left \subseteq r.images
  /\ l = "image" => o.left \cup o.images \subseteq r.images
  /\ o.swapping => o.images \subseteq r.images /\ (o.images # {} \/ r.mutable)

RefInv ==
  /\ lock # NoProc => pc[lock] \in Inside
  /\ \A p \in Procs : pc[p] # "idle" => req[p] \in Requests
  /\ \A p \in Procs : RefOf(pc[p], op[p], req[p])

(* A step of MergeSpec, or one it does not see. *)
Simulates == [Promise!Next]_(Promise!vars)

-----------------------------------------------------------------------------
(* What the mapping shows of the lock holder. *)

(* A hierarchy shows its one overlay, now ... *)
LEMMA OneView ==
  ASSUME Inv
  PROVE  [h \in H |-> View(h)] = ViewOf(stack)
<1>1. \A h \in H : stack[h] \in Seq(Overlay) /\ Len(stack[h]) <= 1
  BY DEF Inv, TypeOK, NeverStacked
<1>2. \A h \in H : stack[h] # <<>> => Top(h) = stack[h][1]
  BY <1>1, AtMostOne DEF Top
<1> QED BY <1>2 DEF View, ViewOf

(* ... and after a step. *)
LEMMA OneViewNext ==
  ASSUME Inv'
  PROVE  [h \in H |-> View(h)]' = ViewOf(stack')
<1>1. \A h \in H : stack'[h] \in Seq(Overlay) /\ Len(stack'[h]) <= 1
  BY DEF Inv, TypeOK, NeverStacked
<1>2. \A h \in H : stack'[h] # <<>> => Top(h)' = stack'[h][1]
  BY <1>1, AtMostOne DEF Top
<1> QED BY <1>2 DEF View, ViewOf

(* The mapping looks at the label, mergeOp and request of the lock holder, now ... *)
LEMMA Seen ==
  ASSUME NEW p \in Procs, lock = p
  PROVE  PhaseOfRun = PhaseAt(pc[p], op[p]) /\ GoalOfRun = GoalAt(pc[p], op[p], req[p])
<1>1. p # NoProc
  BY NamesAssumption
<1>2. PhaseOfRun = PhaseAt(pc[p], op[p])
  BY <1>1 DEF PhaseOfRun, Swapped, PhaseAt, Layers, Over
<1>3. Mounts(p) = MountsOf(op[p], req[p])
  BY Fields
<1>4. GoalOfRun = GoalAt(pc[p], op[p], req[p])
  BY <1>2, <1>3 DEF GoalOfRun, GoalAt, GoalSet, MergeOf, PhaseAt
<1> QED BY <1>2, <1>4

(* ... and after a step. *)
LEMMA SeenNext ==
  ASSUME NEW p \in Procs, lock' = p
  PROVE  PhaseOfRun' = PhaseAt(pc'[p], op'[p]) /\ GoalOfRun' = GoalAt(pc'[p], op'[p], req'[p])
<1>1. p # NoProc
  BY NamesAssumption
<1>2. PhaseOfRun' = PhaseAt(pc'[p], op'[p])
  BY <1>1 DEF PhaseOfRun, Swapped, PhaseAt, Layers, Over
<1>3. Mounts(p)' = MountsOf(op'[p], req'[p])
  BY DEF Mounts, MountsOf
<1>4. GoalOfRun' = GoalAt(pc'[p], op'[p], req'[p])
  BY <1>2, <1>3 DEF GoalOfRun, GoalAt, GoalSet, MergeOf, PhaseAt
<1> QED BY <1>2, <1>4

(* A step of the lock holder, seen through the mapping. *)
LEMMA StepSeen ==
  ASSUME Inv, Inv', NEW p \in Procs, pc[p] \in Inside, UNCHANGED <<lock, req>>,
         NEW l, NEW o, Goes(p, l, o)
  PROVE  /\ lock = p /\ lock' = p /\ p # NoProc
         /\ PhaseOfRun = PhaseAt(pc[p], op[p]) /\ PhaseOfRun' = PhaseAt(l, o)
         /\ GoalOfRun = GoalAt(pc[p], op[p], req[p]) /\ GoalOfRun' = GoalAt(l, o, req[p])
         /\ [h \in H |-> View(h)] = ViewOf(stack) /\ [h \in H |-> View(h)]' = ViewOf(stack')
<1>1. lock = p /\ lock' = p /\ pc'[p] = l /\ op'[p] = o
  BY Alone
<1>2. p # NoProc
  BY NamesAssumption
<1> QED BY <1>1, <1>2, Seen, SeenNext, OneView, OneViewNext

(* RefInv holds after a step of p that keeps RefOf. *)
LEMMA RefStep ==
  ASSUME Inv, RefInv, NEW p \in Procs, pc[p] \in Inside, UNCHANGED <<lock, req>>,
         NEW l \in Inside, NEW o, Goes(p, l, o), RefOf(l, o, req[p])
  PROVE  RefInv'
<1>1. pc'[p] = l /\ op'[p] = o /\ lock = p
  BY Alone
<1>2. \A q \in Procs \ {p} : pc'[q] = pc[q] /\ op'[q] = op[q]
  BY DEF Goes, Inv, TypeOK
<1>3. pc[p] # "idle"
  BY DEF Inside, Outside
<1> QED BY <1>1, <1>2, <1>3 DEF RefInv

(* The place of the layers is not seen. *)
LEMMA SameView ==
  ASSUME NEW st, NEW st2, Same(st, st2)
  PROVE  ViewOf(st2) = ViewOf(st)
BY DEF Same, ViewOf

(* Without hierarchies the goal is that all are bare. *)
LEMMA OldGoal ==
  ASSUME NEW l, NEW o, NEW r, GoalSet(l, o, r) = {}
  PROVE  GoalAt(l, o, r) = Promise!AllBare
BY DEF GoalAt, Promise!AllBare, Promise!Bare, NotMerged

(* Nothing is to be seen of a step that shows the same and has the same goal. *)
LEMMA Unseen ==
  ASSUME Inv, Inv', NEW p \in Procs, pc[p] \in Inside, UNCHANGED <<lock, req>>,
         NEW l, NEW o, Goes(p, l, o), Same(stack, stack'),
         PhaseAt(l, o) = PhaseAt(pc[p], op[p]),
         GoalAt(l, o, req[p]) = GoalAt(pc[p], op[p], req[p])
  PROVE  Simulates
<1>1. ViewOf(stack') = ViewOf(stack)
  BY SameView
<1>2. UNCHANGED Promise!vars
  BY <1>1, StepSeen DEF Promise!vars
<1> QED BY <1>2 DEF Simulates

(* An operation that has not decided on anything goes on. *)
LEMMA OldStep ==
  ASSUME Inv, Inv', RefInv, NEW p \in Procs, pc[p] \in Inside, UNCHANGED <<lock, req>>,
         NEW l \in Inside, NEW o, Goes(p, l, o), Same(stack, stack'),
         PhaseAt(pc[p], op[p]) = "old", PhaseAt(l, o) = "old", RefOf(l, o, req[p])
  PROVE  RefInv' /\ Simulates
<1>1. GoalSet(l, o, req[p]) = {} /\ GoalSet(pc[p], op[p], req[p]) = {}
  BY DEF GoalSet
<1> QED BY <1>1, OldGoal, Unseen, RefStep

(* It takes down the merge of h, if there is one. *)
LEMMA HideStep ==
  ASSUME Inv, Inv', RefInv, NEW p \in Procs, pc[p] \in Inside, UNCHANGED <<lock, req>>,
         NEW l \in Inside, NEW o, Goes(p, l, o), req[p].verb # "merge",
         NEW h \in H, stack'[h] = <<>>, \A g \in H \ {h} : stack'[g] = stack[g],
         PhaseAt(pc[p], op[p]) = "old", PhaseAt(l, o) = "old", RefOf(l, o, req[p])
  PROVE  RefInv' /\ Simulates
<1>1. GoalSet(l, o, req[p]) = {} /\ GoalSet(pc[p], op[p], req[p]) = {}
  BY DEF GoalSet
<1>2. CASE stack[h] = <<>>
  BY <1>2, OldStep DEF Same
<1>3. CASE stack[h] # <<>>
  <2>1. ViewOf(stack') = [ViewOf(stack) EXCEPT ![h] = Promise!Bare]
    BY DEF ViewOf, Promise!Bare, NotMerged
  <2>2. ViewOf(stack)[h] # Promise!Bare
    BY <1>3 DEF ViewOf, Promise!Bare
  <2>3. GoalAt(l, o, req[p]) = GoalAt(pc[p], op[p], req[p])
    BY <1>1, OldGoal
  <2>4. Promise!Hide(h)
    BY <2>1, <2>2, <2>3, StepSeen DEF Promise!Hide
  <2> QED BY <2>4, RefStep DEF Simulates, Promise!Next
<1> QED BY <1>2, <1>3

(* It ends, or has to be aborted, before it decided on anything. *)
LEMMA StopStep ==
  ASSUME Inv, Inv', RefInv, NEW p \in Procs, pc[p] \in Inside, UNCHANGED <<lock, req>>,
         NEW l \in Inside, NEW o, Goes(p, l, o), PhaseAt(pc[p], op[p]) = "old",
         PhaseAt(l, o) = "over", o.attached = {}, RefOf(l, o, req[p]),
         \/ Same(stack, stack')
         \/ /\ req[p].verb = "refresh"
            /\ \E h \in H : stack'[h] = <<>> /\ \A g \in H \ {h} : stack'[g] = stack[g]
  PROVE  RefInv' /\ Simulates
<1>1. GoalSet(l, o, req[p]) = {} /\ GoalSet(pc[p], op[p], req[p]) = {}
  BY DEF GoalSet
<1>2. GoalAt(l, o, req[p]) = Promise!AllBare /\ GoalAt(pc[p], op[p], req[p]) = Promise!AllBare
  BY <1>1, OldGoal
<1>3. GoalOfRun' = [h \in H |-> IF [g \in H |-> View(g)][h] = GoalOfRun[h]
                                THEN GoalOfRun[h] ELSE Promise!Bare]
  BY <1>2, StepSeen DEF Promise!AllBare
<1>4. CASE Same(stack, stack')
  <2>1. UNCHANGED [h \in H |-> View(h)]
    BY <1>4, SameView, StepSeen
  <2>2. Promise!Stop
    BY <2>1, <1>3, StepSeen DEF Promise!Stop
  <2> QED BY <2>2, RefStep DEF Simulates, Promise!Next
<1>5. ASSUME req[p].verb = "refresh",
             NEW h \in H, stack'[h] = <<>>, \A g \in H \ {h} : stack'[g] = stack[g]
      PROVE  RefInv' /\ Simulates
  <2>1. ViewOf(stack') = [ViewOf(stack) EXCEPT ![h] = Promise!Bare]
    BY <1>5 DEF ViewOf, Promise!Bare, NotMerged
  <2>2. \E k \in H : [g \in H |-> View(g)]' = [[g \in H |-> View(g)] EXCEPT ![k] = Promise!Bare]
    BY <2>1, StepSeen
  <2>s. /\ PhaseOfRun = "old" /\ PhaseOfRun' = "over" /\ p # NoProc /\ lock = p
        /\ UNCHANGED <<lock, IF lock = NoProc THEN NoRequest ELSE req[lock]>>
        /\ (IF lock = NoProc THEN NoRequest ELSE req[lock]).verb = "refresh"
    BY <1>5, StepSeen
  <2>3. Promise!Stop
    BY <2>2, <1>3, <2>s DEF Promise!Stop
  <2> QED BY <2>3, RefStep DEF Simulates, Promise!Next
<1> QED BY <1>4, <1>5

(* A step with the same images on the same hierarchies keeps the goal. *)
LEMMA GoalSame ==
  ASSUME NEW l, NEW o, NEW l2, NEW o2, NEW r,
         PhaseAt(l2, o2) = PhaseAt(l, o), o2.images = o.images,
         o2.attached = o.attached \/ PhaseAt(l, o) # "over"
  PROVE  GoalAt(l2, o2, r) = GoalAt(l, o, r)
<1>1. MountsOf(o2, r) = MountsOf(o, r)
  BY MountsSame
<1> QED BY <1>1 DEF GoalAt, GoalSet

(* What is committed, and what is rolled back, goes on unseen. *)
LEMMA LateStep ==
  ASSUME Inv, Inv', RefInv, NEW p \in Procs, pc[p] \in Inside, UNCHANGED <<lock, req>>,
         NEW l \in Inside, NEW o, Goes(p, l, o), Same(stack, stack'),
         PhaseAt(pc[p], op[p]) \in {"done", "over"}, PhaseAt(l, o) = PhaseAt(pc[p], op[p]),
         l \in Layers \cup Over, o.images = op[p].images, o.swapping = op[p].swapping,
         o.attached = op[p].attached \/ PhaseAt(l, o) = "done"
  PROVE  RefInv' /\ Simulates
<1>1. RefOf(l, o, req[p])
  BY DEF RefOf, RefInv, Layers, Over
<1>2. GoalAt(l, o, req[p]) = GoalAt(pc[p], op[p], req[p])
  BY GoalSame
<1> QED BY <1>1, <1>2, RefStep, Unseen

(* An error before anything was decided. *)
LEMMA RefAbort ==
  ASSUME Inv, Inv', RefInv, NEW p \in Procs, pc[p] \in Inside, UNCHANGED <<lock, req>>,
         PhaseAt(pc[p], op[p]) = "old", NEW o \in Op, Abort(p, o),
         o.images = op[p].images, o.swapping = op[p].swapping, o.attached = op[p].attached,
         \/ Same(stack, stack')
         \/ /\ req[p].verb = "refresh"
            /\ \E h \in H : stack'[h] = <<>> /\ \A g \in H \ {h} : stack'[g] = stack[g]
  PROVE  RefInv' /\ Simulates
<1> DEFINE n == [o EXCEPT !.todo = H, !.res = "error"]
<1>1. n.images = op[p].images /\ n.swapping = op[p].swapping /\ n.attached = op[p].attached
  BY DEF Op
<1>2. op[p].attached = {} /\ RefOf(pc[p], op[p], req[p])
  BY DEF RefInv, RefOf
<1>3. PhaseAt("abort", n) = "over"
  BY DEF PhaseAt, Layers, Over
<1>4. RefOf("abort", n, req[p])
  BY <1>1, <1>2, <1>3 DEF RefOf
<1>5. "abort" \in Inside
  BY DEF Inside, Labels, Outside
<1> QED BY <1>1, <1>2, <1>3, <1>4, <1>5, StopStep DEF Abort

(* It ends without a new merge. *)
LEMMA RefFinish ==
  ASSUME Inv, Inv', RefInv, NEW p \in Procs, pc[p] \in Inside, UNCHANGED <<lock, req>>,
         PhaseAt(pc[p], op[p]) = "old", op[p] \in Op,
         NEW result, result \notin {"merged", "cleanup"}, Finish(p, result), Same(stack, stack')
  PROVE  RefInv' /\ Simulates
<1> DEFINE n == [op[p] EXCEPT !.res = result]
<1>1. /\ n.images = op[p].images /\ n.swapping = op[p].swapping /\ n.attached = op[p].attached
      /\ n.res = result
  BY DEF Op
<1>2. op[p].attached = {} /\ RefOf(pc[p], op[p], req[p])
  BY DEF RefInv, RefOf
<1>3. PhaseAt("unlock", n) = "over"
  BY <1>1 DEF PhaseAt, Layers, Over
<1>4. RefOf("unlock", n, req[p])
  BY <1>1, <1>2, <1>3 DEF RefOf
<1>5. "unlock" \in Inside
  BY DEF Inside, Labels, Outside
<1> QED BY <1>1, <1>2, <1>3, <1>4, <1>5, StopStep DEF Finish

(* The labels before the decision are in phase "old". *)
LEMMA BeforeOld ==
  ASSUME NEW l \in Before, NEW o
  PROVE  PhaseAt(l, o) = "old" /\ l \in Inside
BY DEF PhaseAt, Before, Layers, Over, Inside, Outside, Labels

-----------------------------------------------------------------------------
(* The actions, stage by stage. *)

(* What is merged, the workspace and the images. *)
LEMMA RefPrepare ==
  ASSUME Inv, Inv', ShowInv, RefInv, NEW p \in Procs,
         \/ Check(p) \/ ResetWorkspace(p) \/ UseWorkspace(p) \/ MountImage(p)
         \/ CheckFails(p) \/ WorkspaceFails(p) \/ MountImageFails(p)
  PROVE  RefInv' /\ Simulates
<1>0. /\ KernelInv /\ op[p] \in Op /\ req[p] \in Request
      /\ PhaseOf(pc[p], op[p], req[p], stack) /\ RefOf(pc[p], op[p], req[p])
  BY Given DEF RefInv
<1>i. /\ pc[p] \in Inside /\ UNCHANGED <<lock, req>>
      /\ pc[p] \in {"check", "workspace", "image"} /\ PhaseAt(pc[p], op[p]) = "old"
  BY BeforeOld DEF Check, ResetWorkspace, UseWorkspace, MountImage, CheckFails, WorkspaceFails,
         MountImageFails, At, Before
<1>r. op[p].attached = {} /\ ~op[p].swapping
  BY <1>0, <1>i DEF PhaseOf
<1>u. Same(stack, stack')
  BY <1>0, TeardownSame, UnchangedSame DEF Check, ResetWorkspace, UseWorkspace, MountImage,
         CheckFails, WorkspaceFails, MountImageFails, kernel
<1>s. ASSUME NEW l \in {"workspace", "image"}, NEW n, Goes(p, l, n),
             n.attached = op[p].attached, n.swapping = op[p].swapping,
             req[p].verb = "merge" => n.merged = {},
             n.left \cup n.images \subseteq req[p].images
      PROVE  RefInv' /\ Simulates
  <2>1. RefOf(l, n, req[p])
    BY <1>s, <1>r DEF RefOf
  <2> QED BY <2>1, <1>s, <1>i, <1>u, BeforeOld, OldStep DEF Before
<1>1. CASE Abort(p, op[p])
  BY <1>1, <1>0, <1>i, <1>u, RefAbort
<1>2. CASE Check(p)
  <2> DEFINE m == {h \in H : Ours(h)}
             o == [op[p] EXCEPT !.merged = m, !.left = req[p].images]
  <2>1. /\ o.attached = op[p].attached /\ o.swapping = op[p].swapping
        /\ o.merged = m /\ o.left = req[p].images /\ o.images = {}
    BY <1>2, <1>0 DEF Op, Check, At, PhaseOf
  <2>2. CASE req[p].verb = "merge" /\ m # {}
    BY <1>2, <2>2, <1>1 DEF Check
  <2>3. CASE ~(req[p].verb = "merge" /\ m # {})
    BY <1>2, <2>1, <2>3, <1>s DEF Check
  <2> QED BY <2>2, <2>3
<1>3. CASE ResetWorkspace(p)
  <2> DEFINE o == [op[p] EXCEPT !.gen = Base, !.fresh = TRUE]
  <2>1. /\ o.attached = op[p].attached /\ o.swapping = op[p].swapping
        /\ o.merged = op[p].merged /\ o.left = op[p].left /\ o.images = {}
    BY <1>3, <1>0 DEF Op, ResetWorkspace, At, PhaseOf
  <2>2. op[p].left \subseteq req[p].images /\ (req[p].verb = "merge" => op[p].merged = {})
    BY <1>3, <1>0 DEF RefOf, ResetWorkspace, At
  <2> QED BY <1>3, <2>1, <2>2, <1>s DEF ResetWorkspace
<1>4. CASE UseWorkspace(p)
  <2>0. PICK d \in Nexts \ dirs : Goes(p, "image", [op[p] EXCEPT !.gen = d, !.fresh = Base \notin dirs])
    BY <1>4 DEF UseWorkspace
  <2> DEFINE o == [op[p] EXCEPT !.gen = d, !.fresh = Base \notin dirs]
  <2>1. /\ o.attached = op[p].attached /\ o.swapping = op[p].swapping
        /\ o.merged = op[p].merged /\ o.left = op[p].left /\ o.images = {}
    BY <1>4, <1>0 DEF Op, UseWorkspace, At, PhaseOf
  <2>2. op[p].left \subseteq req[p].images /\ (req[p].verb = "merge" => op[p].merged = {})
    BY <1>4, <1>0 DEF RefOf, UseWorkspace, At
  <2> QED BY <2>0, <2>1, <2>2, <1>s
<1>5. CASE MountImage(p)
  <2>0. PICK e \in op[p].left :
          \/ Goes(p, "image", [op[p] EXCEPT !.left = @ \ {e}, !.images = @ \cup {e}])
          \/ Goes(p, "image", [op[p] EXCEPT !.left = @ \ {e}])
    BY <1>5 DEF MountImage
  <2> DEFINE o1 == [op[p] EXCEPT !.left = @ \ {e}, !.images = @ \cup {e}]
             o2 == [op[p] EXCEPT !.left = @ \ {e}]
  <2>1. /\ o1.attached = op[p].attached /\ o1.swapping = op[p].swapping
        /\ o1.merged = op[p].merged /\ o1.left = op[p].left \ {e}
        /\ o1.images = op[p].images \cup {e}
    BY <1>0 DEF Op
  <2>2. /\ o2.attached = op[p].attached /\ o2.swapping = op[p].swapping
        /\ o2.merged = op[p].merged /\ o2.left = op[p].left \ {e} /\ o2.images = op[p].images
    BY <1>0 DEF Op
  <2>3. /\ op[p].left \cup op[p].images \subseteq req[p].images
        /\ req[p].verb = "merge" => op[p].merged = {}
    BY <1>5, <1>0 DEF RefOf, MountImage, At
  <2> QED BY <2>0, <2>1, <2>2, <2>3, <1>s
<1> QED BY <1>1, <1>2, <1>3, <1>4, <1>5 DEF CheckFails, WorkspaceFails, MountImageFails

(* The decision between nothing, unchanged and a swap. *)
LEMMA RefPlan ==
  ASSUME Inv, Inv', ShowInv, RefInv, NEW p \in Procs,
         \/ PlanNothing(p) \/ Callback(p) \/ PlanUnchanged(p) \/ PlanSwap(p)
         \/ CallbackFails(p) \/ PlanFails(p)
  PROVE  RefInv' /\ Simulates
<1>0. /\ KernelInv /\ op[p] \in Op /\ req[p] \in Request
      /\ PhaseOf(pc[p], op[p], req[p], stack) /\ RefOf(pc[p], op[p], req[p])
  BY Given DEF RefInv
<1>i. /\ pc[p] \in Inside /\ UNCHANGED <<lock, req>>
      /\ pc[p] \in {"image", "callback"} /\ PhaseAt(pc[p], op[p]) = "old"
  BY BeforeOld DEF PlanNothing, Callback, PlanUnchanged, PlanSwap, CallbackFails, PlanFails,
         Prepared, At, Before
<1>r. op[p].attached = {} /\ ~op[p].swapping
  BY <1>0, <1>i DEF PhaseOf
<1>u. Same(stack, stack')
  BY <1>0, DiscardSame, UnchangedSame DEF PlanNothing, Callback, PlanUnchanged, PlanSwap,
         CallbackFails, PlanFails, kernel
<1>s. ASSUME NEW l \in {"callback", "take", "stage"}, NEW n, Goes(p, l, n),
             n.attached = {}, l # "stage" => req[p].verb # "merge",
             n.swapping => n.images \subseteq req[p].images /\ (n.images # {} \/ req[p].mutable)
      PROVE  RefInv' /\ Simulates
  <2>1. RefOf(l, n, req[p])
    BY <1>s DEF RefOf
  <2> QED BY <2>1, <1>s, <1>i, <1>u, BeforeOld, OldStep DEF Before
<1>m. pc[p] = "image" /\ op[p].merged # {} => req[p].verb # "merge"
  BY <1>0 DEF RefOf
<1>1. CASE Abort(p, op[p])
  BY <1>1, <1>0, <1>i, <1>u, RefAbort
<1>2. CASE PlanNothing(p)
  <2> DEFINE o == [op[p] EXCEPT !.gen = NoDir, !.fresh = FALSE]
  <2>1. o.attached = {} /\ ~o.swapping
    BY <1>0, <1>r DEF Op
  <2>2. CASE op[p].merged = {}
    BY <1>2, <2>2, <1>0, <1>i, <1>u, RefFinish DEF PlanNothing
  <2>3. CASE op[p].merged # {}
    BY <1>2, <2>1, <2>3, <1>m, <1>s DEF PlanNothing, Prepared, At
  <2> QED BY <2>2, <2>3
<1>3. CASE Callback(p)
  <2> DEFINE o == [op[p] EXCEPT !.unmerging = TRUE, !.todo = op[p].merged]
  <2>1. o.attached = {} /\ ~o.swapping
    BY <1>0, <1>r DEF Op
  <2>2. req[p].verb # "merge"
    BY <1>3, <1>0 DEF Callback, At, RefOf
  <2> QED BY <1>3, <2>1, <2>2, <1>s DEF Callback
<1>4. CASE PlanUnchanged(p)
  BY <1>4, <1>0, <1>i, <1>u, RefFinish DEF PlanUnchanged
<1>5. CASE PlanSwap(p)
  <2> DEFINE o1 == [op[p] EXCEPT !.swapping = TRUE, !.todo = H]
             o2 == [op[p] EXCEPT !.swapping = TRUE, !.todo = op[p].merged]
  <2>1. /\ o1.attached = {} /\ o1.images = op[p].images
        /\ o2.attached = {} /\ o2.images = op[p].images
    BY <1>0, <1>r DEF Op
  <2>2. op[p].images \subseteq req[p].images /\ (op[p].images # {} \/ req[p].mutable)
    BY <1>5, <1>0 DEF PlanSwap, Prepared, At, Nothing, RefOf
  <2>3. pc[p] = "image"
    BY <1>5 DEF PlanSwap, Prepared, At
  <2>4. CASE op[p].merged = {}
    BY <1>5, <2>1, <2>2, <2>4, <1>s DEF PlanSwap
  <2>5. CASE op[p].merged # {}
    BY <1>5, <2>1, <2>2, <2>3, <2>5, <1>m, <1>s DEF PlanSwap
  <2> QED BY <2>4, <2>5
<1> QED BY <1>1, <1>2, <1>3, <1>4, <1>5 DEF CallbackFails, PlanFails

(* The unmerge in place of one hierarchy is over. *)
LEMMA RefNext ==
  ASSUME Inv, Inv', ShowInv, RefInv, NEW p \in Procs, pc[p] = "putback",
         UNCHANGED <<lock, stack, req>>, NEW h \in H, NEW result, UnmergeNext(p, h, result),
         result \in {"none", "error"}
  PROVE  RefInv' /\ Simulates
<1>0. /\ op[p] \in Op /\ RefOf(pc[p], op[p], req[p]) /\ ShowsOf(pc[p], op[p], req[p], stack)
      /\ PhaseOf(pc[p], op[p], req[p], stack)
  BY Given DEF RefInv
<1>i. pc[p] \in Inside /\ PhaseAt(pc[p], op[p]) = "old" /\ Same(stack, stack')
  BY BeforeOld, UnchangedSame DEF Before
<1>r. op[p].attached = {} /\ req[p].verb # "merge" /\ ~op[p].swapping
  BY <1>0, <1>i DEF RefOf, ShowsOf, PhaseOf, InPlaceOf
<1> DEFINE rest == op[p].todo \ {h}
           n == [op[p] EXCEPT !.todo = rest, !.res = result]
<1>n. n.attached = {} /\ ~n.swapping /\ n.res = result
  BY <1>0, <1>r DEF Op
<1>1. CASE Abort(p, op[p])
  BY <1>1, <1>0, <1>i, RefAbort
<1>2. ASSUME NEW l \in {"take", "teardown"}, Goes(p, l, n)
      PROVE  RefInv' /\ Simulates
  <2>1. PhaseAt(l, n) = "old" /\ l \in Inside
    BY <1>n DEF PhaseAt, Layers, Over, Inside, Outside, Labels
  <2>2. RefOf(l, n, req[p])
    BY <1>n, <1>r DEF RefOf
  <2> QED BY <2>1, <2>2, <1>2, <1>i, OldStep
<1>3. CASE Goes(p, "unlock", n)
  <2>1. PhaseAt("unlock", n) = "over" /\ "unlock" \in Inside
    BY <1>n DEF PhaseAt, Layers, Over, Inside, Outside, Labels
  <2>2. RefOf("unlock", n, req[p])
    BY <1>n, <2>1 DEF RefOf
  <2> QED BY <2>1, <2>2, <1>n, <1>3, <1>i, StopStep
<1> QED BY <1>1, <1>2, <1>3 DEF UnmergeNext

(* Taking down what is merged, in place or for a swap. *)
LEMMA RefUnmerge ==
  ASSUME Inv, Inv', ShowInv, RefInv, NEW p \in Procs,
         \/ TakeSubmounts(p) \/ HierarchyUnmerged(p) \/ Unmount(p) \/ PutBack(p)
         \/ TakeFails(p) \/ UnmountFails(p) \/ PutBackFails(p)
  PROVE  RefInv' /\ Simulates
<1>0. /\ KernelInv /\ op[p] \in Op /\ req[p] \in Request
      /\ RefOf(pc[p], op[p], req[p]) /\ ShowsOf(pc[p], op[p], req[p], stack)
      /\ PhaseOf(pc[p], op[p], req[p], stack)
  BY Given DEF RefInv
<1>i. /\ pc[p] \in Inside /\ UNCHANGED <<lock, req>>
      /\ pc[p] \in {"take", "umount", "putback"} /\ PhaseAt(pc[p], op[p]) = "old"
  BY BeforeOld DEF TakeSubmounts, HierarchyUnmerged, Unmount, PutBack, TakeFails, UnmountFails,
         PutBackFails, At, Before
<1>r. op[p].attached = {} /\ req[p].verb # "merge"
  BY <1>0, <1>i DEF RefOf
<1>q. ~InPlace(p) => req[p].verb = "refresh"
  <2>1. req[p] \in Requests
    BY <1>i DEF RefInv, Inside, Outside
  <2>2. req[p].verb \in {"merge", "refresh", "unmerge"}
    BY <2>1, RequestsAssumption DEF Request
  <2> QED BY <2>2, <1>r DEF InPlace
<1>n. ASSUME NEW l \in {"take", "umount", "putback", "stage"}, NEW n,
             n.attached = op[p].attached, n.images = op[p].images, n.swapping = op[p].swapping
      PROVE  RefOf(l, n, req[p]) /\ PhaseAt(l, n) = "old" /\ l \in Inside
  <2>1. RefOf(l, n, req[p])
    BY <1>n, <1>r, <1>0 DEF RefOf
  <2> QED BY <2>1, BeforeOld DEF Before
<1>s. ASSUME NEW l \in {"take", "umount", "putback", "stage"}, NEW n, Goes(p, l, n), Same(stack, stack'),
             n.attached = op[p].attached, n.images = op[p].images, n.swapping = op[p].swapping
      PROVE  RefInv' /\ Simulates
  BY <1>s, <1>n, <1>i, OldStep
<1>h. ASSUME NEW l \in {"take", "umount", "putback", "stage"}, NEW n, Goes(p, l, n), NEW h \in H, Pop(h),
             UNCHANGED <<dirs, img, stage>>,
             n.attached = op[p].attached, n.images = op[p].images, n.swapping = op[p].swapping
      PROVE  RefInv' /\ Simulates
  <2>1. stack'[h] = <<>> /\ \A g \in H \ {h} : stack'[g] = stack[g]
    BY <1>h, <1>0, PopKernel DEF KernelInv
  <2> QED BY <2>1, <1>h, <1>n, <1>i, <1>r, HideStep
<1>e. ASSUME UNCHANGED stack, UnmergeError(p)
      PROVE  RefInv' /\ Simulates
  <2>1. Same(stack, stack')
    BY <1>e, UnchangedSame
  <2> DEFINE o == [op[p] EXCEPT !.res = "error"]
  <2>2. o.attached = op[p].attached /\ o.images = op[p].images /\ o.swapping = op[p].swapping
    BY <1>0 DEF Op
  <2> QED BY <2>1, <2>2, <1>e, <1>s, <1>0, <1>i, RefAbort DEF UnmergeError
<1>1. CASE TakeSubmounts(p)
  BY <1>1, <1>s, UnchangedSame DEF TakeSubmounts
<1>2. CASE HierarchyUnmerged(p)
  <2>0. PICK h \in H : IF InPlace(p)
                        THEN Goes(p, "putback", op[p])
                        ELSE LET rest == op[p].todo \ {h}
                             IN IF rest = {}
                                THEN Goes(p, "stage", [op[p] EXCEPT !.todo = H])
                                ELSE Goes(p, "take", [op[p] EXCEPT !.todo = rest])
    BY <1>2 DEF HierarchyUnmerged
  <2> DEFINE o1 == [op[p] EXCEPT !.todo = H]
             o2 == [op[p] EXCEPT !.todo = op[p].todo \ {h}]
  <2>1. /\ o1.attached = op[p].attached /\ o1.images = op[p].images /\ o1.swapping = op[p].swapping
        /\ o2.attached = op[p].attached /\ o2.images = op[p].images /\ o2.swapping = op[p].swapping
    BY <1>0 DEF Op
  <2>2. Same(stack, stack')
    BY <1>2, UnchangedSame DEF HierarchyUnmerged, kernel
  <2> QED BY <2>0, <2>1, <2>2, <1>s
<1>3. CASE Unmount(p)
  <2>0. PICK h \in H : /\ Pop(h)
                       /\ IF InPlace(p) THEN Goes(p, "take", op[p])
                          ELSE Goes(p, "take", [op[p] EXCEPT !.unmerged = @ \cup {h}])
    BY <1>3 DEF Unmount
  <2> DEFINE o == [op[p] EXCEPT !.unmerged = @ \cup {h}]
  <2>1. o.attached = op[p].attached /\ o.images = op[p].images /\ o.swapping = op[p].swapping
    BY <1>0 DEF Op
  <2>2. UNCHANGED <<dirs, img, stage>>
    BY <1>3 DEF Unmount
  <2> QED BY <2>0, <2>1, <2>2, <1>h
<1>4. CASE PutBack(p) \/ PutBackFails(p)
  <2>0. op[p].res \in {"none", "error"}
    BY <1>0, <1>i DEF ShowsOf
  <2>1. PICK h \in H, result \in {"none", "error"} : UnmergeNext(p, h, result)
    BY <1>4, <2>0 DEF PutBack, PutBackFails
  <2>2. pc[p] = "putback" /\ UNCHANGED <<lock, stack, req>>
    BY <1>4 DEF PutBack, PutBackFails, At
  <2> QED BY <2>1, <2>2, RefNext
<1>5. CASE TakeFails(p)
  BY <1>5, <1>e DEF TakeFails, kernel
<1>6. CASE UnmountFails(p)
  <2>0. PICK h \in H : \/ UNCHANGED <<stack, sub>> /\ UnmergeError(p)
                       \/ /\ Pop(h)
                          /\ IF InPlace(p) THEN UnmergeError(p)
                             ELSE Abort(p, [op[p] EXCEPT !.unmerged = @ \cup {h}])
    BY <1>6 DEF UnmountFails
  <2>1. UNCHANGED <<dirs, img, stage>>
    BY <1>6 DEF UnmountFails
  <2>2. CASE UNCHANGED <<stack, sub>> /\ UnmergeError(p)
    BY <2>2, <1>e
  <2>3. CASE Pop(h) /\ InPlace(p) /\ UnmergeError(p)
    <3> DEFINE o == [op[p] EXCEPT !.res = "error"]
    <3>1. o.attached = op[p].attached /\ o.images = op[p].images /\ o.swapping = op[p].swapping
      BY <1>0 DEF Op
    <3> QED BY <3>1, <2>1, <2>3, <1>h DEF UnmergeError
  <2>4. CASE Pop(h) /\ ~InPlace(p) /\ Abort(p, [op[p] EXCEPT !.unmerged = @ \cup {h}])
    <3> DEFINE o == [op[p] EXCEPT !.unmerged = @ \cup {h}]
    <3>1. o.attached = op[p].attached /\ o.images = op[p].images /\ o.swapping = op[p].swapping
          /\ o \in Op
      BY <1>0 DEF Op
    <3>2. stack'[h] = <<>> /\ \A g \in H \ {h} : stack'[g] = stack[g]
      BY <2>1, <2>4, <1>0, PopKernel DEF KernelInv
    <3> QED BY <3>1, <3>2, <2>4, <1>i, <1>q, RefAbort
  <2> QED BY <2>0, <2>2, <2>3, <2>4
<1> QED BY <1>1, <1>2, <1>3, <1>4, <1>5, <1>6

(* Removing the workspace ends an unmerge, or a merge that is committed. *)
LEMMA RefTeardown ==
  ASSUME Inv, Inv', ShowInv, RefInv, NEW p \in Procs, TeardownWorkspace(p) \/ TeardownFails(p)
  PROVE  RefInv' /\ Simulates
<1>0. KernelInv /\ op[p] \in Op
  BY Given
<1>i. pc[p] \in Inside /\ UNCHANGED <<lock, req>> /\ pc[p] = "teardown"
  BY DEF TeardownWorkspace, TeardownFails, At, Inside, Outside, Labels
<1>u. Same(stack, stack')
  BY <1>0, TeardownSame, UnchangedSame DEF TeardownWorkspace, TeardownFails, kernel
<1>1. CASE op[p].swapping
  <2>1. PICK result \in {"merged", "cleanup"} : Finish(p, result)
    BY <1>1 DEF TeardownWorkspace, TeardownFails
  <2> DEFINE o == [op[p] EXCEPT !.res = result]
  <2>2. o.res = result /\ o.images = op[p].images /\ o.swapping = op[p].swapping
    BY <1>0 DEF Op
  <2>3. PhaseAt("unlock", o) = "done" /\ PhaseAt(pc[p], op[p]) = "done"
    BY <2>2, <1>1, <1>i DEF PhaseAt
  <2>4. "unlock" \in Inside /\ "unlock" \in Over
    BY DEF Inside, Outside, Labels, Over
  <2> QED BY <2>1, <2>2, <2>3, <2>4, <1>i, <1>u, LateStep DEF Finish
<1>2. CASE ~op[p].swapping
  <2>1. PhaseAt(pc[p], op[p]) = "old"
    BY <1>2, <1>i DEF PhaseAt, Layers, Over
  <2>2. CASE Abort(p, op[p])
    BY <2>1, <2>2, <1>0, <1>i, <1>u, RefAbort
  <2>3. ASSUME NEW result \in {"nothing", "unmerged", "error"}, Finish(p, result)
        PROVE  RefInv' /\ Simulates
    BY <2>1, <2>3, <1>0, <1>i, <1>u, RefFinish
  <2> QED BY <1>2, <2>2, <2>3 DEF TeardownWorkspace, TeardownFails
<1> QED BY <1>1, <1>2

(* Staging shows nothing. *)
LEMMA RefStage ==
  ASSUME Inv, Inv', ShowInv, RefInv, NEW p \in Procs,
         \/ KeepHost(p) \/ StageOverlay(p) \/ TakeHostMounts(p) \/ AttachStaged(p)
         \/ KeepHostFails(p) \/ StageFails(p) \/ TakeHostMountsFails(p) \/ AttachStagedFails(p)
  PROVE  RefInv' /\ Simulates
<1>0. KernelInv /\ op[p] \in Op /\ RefOf(pc[p], op[p], req[p])
  BY Given DEF RefInv
<1>i. /\ pc[p] \in Inside /\ UNCHANGED <<lock, req>>
      /\ pc[p] \in {"stage", "carry", "adopt"} /\ PhaseAt(pc[p], op[p]) = "old"
  BY BeforeOld DEF KeepHost, StageOverlay, TakeHostMounts, AttachStaged, KeepHostFails, StageFails,
         TakeHostMountsFails, AttachStagedFails, At, Before
<1>u. Same(stack, stack')
  BY UnchangedSame DEF KeepHost, StageOverlay, TakeHostMounts, AttachStaged, KeepHostFails,
         StageFails, TakeHostMountsFails, AttachStagedFails, kernel
<1>s. ASSUME NEW l \in {"stage", "carry", "adopt"}, NEW n, Goes(p, l, n),
             n.attached = op[p].attached, n.images = op[p].images, n.swapping = op[p].swapping
      PROVE  RefInv' /\ Simulates
  <2>1. RefOf(l, n, req[p])
    BY <1>s, <1>0, <1>i DEF RefOf
  <2> QED BY <2>1, <1>s, <1>i, <1>u, BeforeOld, OldStep DEF Before
<1>1. CASE KeepHost(p) \/ AttachStaged(p)
  <2>0. PICK h \in H : Goes(p, "stage", [op[p] EXCEPT !.todo = @ \ {h}])
    BY <1>1 DEF KeepHost, AttachStaged
  <2> DEFINE o == [op[p] EXCEPT !.todo = @ \ {h}]
  <2>1. o.attached = op[p].attached /\ o.images = op[p].images /\ o.swapping = op[p].swapping
    BY <1>0 DEF Op
  <2> QED BY <2>0, <2>1, <1>s
<1>2. CASE StageOverlay(p)
  <2>0. PICK h \in H : Goes(p, "carry", [op[p] EXCEPT !.staged = @ \cup {h}])
    BY <1>2 DEF StageOverlay
  <2> DEFINE o == [op[p] EXCEPT !.staged = @ \cup {h}]
  <2>1. o.attached = op[p].attached /\ o.images = op[p].images /\ o.swapping = op[p].swapping
    BY <1>0 DEF Op
  <2> QED BY <2>0, <2>1, <1>s
<1>3. CASE TakeHostMounts(p)
  BY <1>3, <1>s DEF TakeHostMounts
<1>4. CASE Abort(p, op[p])
  BY <1>4, <1>0, <1>i, <1>u, RefAbort
<1>5. CASE StageFails(p)
  <2>0. PICK h \in H : Abort(p, op[p]) \/ Abort(p, [op[p] EXCEPT !.staged = @ \cup {h}])
    BY <1>5 DEF StageFails
  <2> DEFINE o == [op[p] EXCEPT !.staged = @ \cup {h}]
  <2>1. /\ o.attached = op[p].attached /\ o.images = op[p].images /\ o.swapping = op[p].swapping
        /\ o \in Op
    BY <1>0 DEF Op
  <2> QED BY <2>0, <2>1, <1>0, <1>4, <1>i, <1>u, RefAbort
<1> QED BY <1>1, <1>2, <1>3, <1>4, <1>5 DEF KeepHostFails, TakeHostMountsFails, AttachStagedFails

(* When all is staged and the old merge is gone, the new one is decided on. *)
LEMMA RefDecide ==
  ASSUME Inv, Inv', ShowInv, RefInv, NEW p \in Procs, Staged(p)
  PROVE  RefInv' /\ Simulates
<1>0. /\ KernelInv /\ op[p] \in Op /\ req[p] \in Request /\ RefOf(pc[p], op[p], req[p])
      /\ PhaseOf(pc[p], op[p], req[p], stack) /\ ShowsOf(pc[p], op[p], req[p], stack)
  BY Given DEF RefInv
<1>i. /\ pc[p] \in Inside /\ UNCHANGED <<lock, req, stack>> /\ pc[p] = "stage"
      /\ PhaseAt(pc[p], op[p]) = "old"
  BY BeforeOld DEF Staged, At, Before, kernel
<1> DEFINE o == [op[p] EXCEPT !.todo = Mounts(p)]
           m == [names |-> op[p].images, mutable |-> req[p].mutable, merged |-> TRUE]
<1>1. o.images = op[p].images /\ o.swapping = op[p].swapping
  BY <1>0 DEF Op
<1>2. /\ op[p].images \subseteq req[p].images /\ (op[p].images # {} \/ req[p].mutable)
      /\ req[p].verb # "unmerge" /\ Empty(stack, {})
  BY <1>0, <1>i DEF PhaseOf, RefOf, ShowsOf, InPlaceOf
<1>3. Goes(p, "move", o) /\ PhaseAt("move", o) = "new" /\ "move" \in Inside
  BY DEF Staged, PhaseAt, Layers, Over, Inside, Outside, Labels
<1>4. RefOf("move", o, req[p])
  BY <1>1, <1>2, <1>3 DEF RefOf
<1>5. RefInv'
  BY <1>3, <1>4, <1>i, RefStep
<1>6. m \in Promise!Merge /\ m.names = op[p].images /\ m.mutable = req[p].mutable
  BY <1>0 DEF Promise!Merge, Op, Request
<1>7. GoalAt("move", o, req[p]) = [h \in H |-> IF h \in Mounts(p) THEN m ELSE Promise!Bare]
  <2>1. MountsOf(o, req[p]) = Mounts(p)
    BY <1>1 DEF MountsOf, Mounts
  <2> QED BY <2>1, <1>1, <1>3 DEF GoalAt, GoalSet, NotMerged, Promise!Bare
<1>8. ViewOf(stack) = Promise!AllBare /\ ViewOf(stack') = ViewOf(stack)
  BY <1>2, <1>i DEF ViewOf, Empty, Promise!AllBare, Promise!Bare, NotMerged
<1>9. Mounts(p) \in SUBSET H
  BY DEF Mounts
<1>10. /\ PhaseOfRun = "old" /\ PhaseOfRun' = "new"
       /\ (IF lock = NoProc THEN NoRequest ELSE req[lock]) = req[p]
       /\ UNCHANGED <<lock, IF lock = NoProc THEN NoRequest ELSE req[lock], [h \in H |-> View(h)]>>
       /\ [h \in H |-> View(h)] = Promise!AllBare
       /\ GoalOfRun' = [h \in H |-> IF h \in Mounts(p) THEN m ELSE Promise!Bare]
  BY <1>3, <1>7, <1>8, <1>i, StepSeen
<1>11. \E mm \in Promise!Merge, hs \in SUBSET H :
         /\ mm.names \subseteq (IF lock = NoProc THEN NoRequest ELSE req[lock]).images
         /\ mm.mutable = (IF lock = NoProc THEN NoRequest ELSE req[lock]).mutable
         /\ mm.names # {} \/ mm.mutable
         /\ GoalOfRun' = [h \in H |-> IF h \in hs THEN mm ELSE Promise!Bare]
  BY <1>2, <1>6, <1>9, <1>10
<1> HIDE DEF m, o
<1>12. Promise!Decide
  BY <1>2, <1>10, <1>11 DEF Promise!Decide
<1> QED BY <1>5, <1>12 DEF Simulates, Promise!Next

(* Going live: the new merge appears on the next hierarchy. *)
LEMMA RefMove ==
  ASSUME Inv, Inv', ShowInv, RefInv, NEW p \in Procs, MoveOverlay(p)
  PROVE  RefInv' /\ Simulates
<1>0. /\ KernelInv /\ op[p] \in Op /\ req[p] \in Request /\ RefOf(pc[p], op[p], req[p])
      /\ PhaseOf(pc[p], op[p], req[p], stack) /\ ShowsOf(pc[p], op[p], req[p], stack)
  BY Given DEF RefInv
<1>i. pc[p] \in Inside /\ UNCHANGED <<lock, req>> /\ pc[p] = "move"
  BY DEF MoveOverlay, At, Inside, Outside, Labels
<1>1. PICK h \in H :
       /\ First(h, op[p].todo)
       /\ stack' = [stack EXCEPT ![h] = Append(@, [names |-> op[p].images,
                      mutable |-> req[p].mutable, loc |-> op[p].gen])]
       /\ Goes(p, "move", [op[p] EXCEPT !.staged = @ \ {h}, !.attached = @ \cup {h},
                                        !.todo = @ \ {h}])
  BY DEF MoveOverlay
<1> DEFINE o == [op[p] EXCEPT !.staged = @ \ {h}, !.attached = @ \cup {h}, !.todo = @ \ {h}]
<1>2. o.images = op[p].images /\ o.swapping = op[p].swapping
  BY <1>0 DEF Op
<1>3. PhaseAt("move", o) = "new" /\ PhaseAt(pc[p], op[p]) = "new"
  BY <1>i DEF PhaseAt, Layers, Over
<1>4. RefOf("move", o, req[p])
  BY <1>0, <1>2, <1>3 DEF RefOf
<1>5. h \in MountsOf(op[p], req[p]) /\ stack[h] = <<>>
  BY <1>0, <1>1, <1>i DEF ShowsOf, PhaseOf, First, Empty
<1>6. stack'[h] = <<[names |-> op[p].images, mutable |-> req[p].mutable, loc |-> op[p].gen]>>
      /\ \A g \in H \ {h} : stack'[g] = stack[g]
  BY <1>0, <1>1, <1>5 DEF KernelInv
<1>g. Goes(p, "move", o)
  BY <1>1
<1> HIDE DEF o
<1>7. GoalAt("move", o, req[p]) = GoalAt(pc[p], op[p], req[p])
  BY <1>2, <1>3, GoalSame
<1>8. GoalAt(pc[p], op[p], req[p])[h] =
        [names |-> op[p].images, mutable |-> req[p].mutable, merged |-> TRUE]
  BY <1>3, <1>5 DEF GoalAt, GoalSet
<1>v. /\ stack'[h] # <<>> /\ stack'[h][1].names = op[p].images
      /\ stack'[h][1].mutable = req[p].mutable
  BY <1>6
<1>9. /\ ViewOf(stack') = [ViewOf(stack) EXCEPT ![h] = GoalAt(pc[p], op[p], req[p])[h]]
      /\ ViewOf(stack)[h] = Promise!Bare
  <2>1. ViewOf(stack')[h] = GoalAt(pc[p], op[p], req[p])[h]
    BY <1>v, <1>8 DEF ViewOf
  <2>2. \A g \in H \ {h} : ViewOf(stack')[g] = ViewOf(stack)[g]
    BY <1>6 DEF ViewOf
  <2>3. ViewOf(stack)[h] = Promise!Bare
    BY <1>5 DEF ViewOf, Promise!Bare, NotMerged
  <2>4. /\ DOMAIN ViewOf(stack) = H /\ ViewOf(stack) = [g \in H |-> ViewOf(stack)[g]]
        /\ ViewOf(stack') = [g \in H |-> ViewOf(stack')[g]]
    BY DEF ViewOf
  <2> QED BY <2>1, <2>2, <2>3, <2>4
<1>10. GoalAt(pc[p], op[p], req[p])[h] # Promise!Bare
  BY <1>8 DEF Promise!Bare
<1>s. /\ PhaseOfRun = "new" /\ PhaseOfRun' = "new" /\ GoalOfRun' = GoalOfRun
      /\ [g \in H |-> View(g)][h] = Promise!Bare /\ GoalOfRun[h] # Promise!Bare
      /\ [g \in H |-> View(g)]' = [[g \in H |-> View(g)] EXCEPT ![h] = GoalOfRun[h]]
      /\ UNCHANGED <<lock, IF lock = NoProc THEN NoRequest ELSE req[lock]>>
  BY <1>g, <1>3, <1>7, <1>9, <1>10, <1>i, StepSeen
<1>11. Promise!Show(h)
  BY <1>s DEF Promise!Show
<1>12. "move" \in Inside
  BY DEF Inside, Outside, Labels
<1> QED BY <1>g, <1>4, <1>11, <1>12, <1>i, RefStep DEF Simulates, Promise!Next

(* What the hierarchies show while the new overlays are moved. *)
LEMMA ShownSoFar ==
  ASSUME Inv, ShowInv, NEW p \in Procs, pc[p] = "move"
  PROVE  /\ ViewOf(stack) = [h \in H |-> IF h \in op[p].attached
                              THEN [names |-> op[p].images, mutable |-> req[p].mutable, merged |-> TRUE]
                              ELSE NotMerged]
         /\ op[p].attached \cup op[p].todo = MountsOf(op[p], req[p])
         /\ GoalAt(pc[p], op[p], req[p]) = [h \in H |-> IF h \in MountsOf(op[p], req[p])
                              THEN [names |-> op[p].images, mutable |-> req[p].mutable, merged |-> TRUE]
                              ELSE NotMerged]
         /\ PhaseAt(pc[p], op[p]) = "new" /\ pc[p] \in Inside /\ op[p].swapping
<1>1. Live(stack, op[p].attached, op[p], req[p]) /\ op[p].swapping
  BY Given DEF ShowsOf, PhaseOf
<1>2. op[p].attached \cup op[p].todo = MountsOf(op[p], req[p])
  BY Given DEF ShowsOf
<1>3. PhaseAt(pc[p], op[p]) = "new" /\ pc[p] \in Inside
  BY DEF PhaseAt, Layers, Over, Inside, Outside, Labels
<1>4. ViewOf(stack) = [h \in H |-> IF h \in op[p].attached
                              THEN [names |-> op[p].images, mutable |-> req[p].mutable, merged |-> TRUE]
                              ELSE NotMerged]
  BY <1>1 DEF Live, ViewOf
<1>5. GoalSet(pc[p], op[p], req[p]) = MountsOf(op[p], req[p])
  BY <1>3 DEF GoalSet
<1> QED BY <1>1, <1>2, <1>3, <1>4, <1>5 DEF GoalAt

(* All are there: committed. *)
LEMMA RefCommit ==
  ASSUME Inv, Inv', ShowInv, RefInv, NEW p \in Procs, Commit(p)
  PROVE  RefInv' /\ Simulates
<1>0. op[p] \in Op /\ RefOf(pc[p], op[p], req[p])
  BY Given DEF RefInv
<1>i. pc[p] = "move" /\ pc[p] \in Inside /\ UNCHANGED <<lock, req, stack>> /\ op[p].todo = {}
  BY DEF Commit, At, Inside, Outside, Labels
<1>s. ASSUME NEW l \in {"teardown", "unlock", "clear"}, NEW n, Goes(p, l, n),
             n.images = op[p].images, n.swapping = op[p].swapping,
             l = "unlock" => n.res = "merged"
      PROVE  RefInv' /\ Simulates
  <2>1. PhaseAt(l, n) = "done" /\ l \in Inside
    BY <1>s, <1>i, ShownSoFar DEF PhaseAt, Layers, Inside, Outside, Labels
  <2>2. RefOf(l, n, req[p])
    BY <1>0, <1>s, <2>1 DEF RefOf
  <2>3. ViewOf(stack) = GoalAt(pc[p], op[p], req[p]) /\ PhaseAt(pc[p], op[p]) = "new"
    BY <1>i, ShownSoFar
  <2>4. GoalAt(l, n, req[p]) = GoalAt(pc[p], op[p], req[p])
    <3>1. MountsOf(n, req[p]) = MountsOf(op[p], req[p])
      BY <1>s DEF MountsOf
    <3> QED BY <3>1, <1>s, <2>1, <2>3 DEF GoalAt, GoalSet
  <2>5. Promise!Commit
    BY <1>s, <2>1, <2>3, <2>4, <1>i, StepSeen DEF Promise!Commit
  <2> QED BY <1>s, <2>1, <2>2, <2>5, <1>i, RefStep DEF Simulates, Promise!Next
<1> DEFINE o == [op[p] EXCEPT !.res = "merged"]
<1>1. o.images = op[p].images /\ o.swapping = op[p].swapping /\ o.res = "merged"
  BY <1>0 DEF Op
<1>2. Goes(p, "teardown", op[p]) \/ Goes(p, "clear", op[p]) \/ Goes(p, "unlock", o)
  BY DEF Commit, Finish
<1> QED BY <1>1, <1>2, <1>s

(* A move failed: what is there already has to go. *)
LEMMA RefMoveFails ==
  ASSUME Inv, Inv', ShowInv, RefInv, NEW p \in Procs, MoveFails(p)
  PROVE  RefInv' /\ Simulates
<1>0. op[p] \in Op /\ RefOf(pc[p], op[p], req[p])
  BY Given DEF RefInv
<1>i. pc[p] = "move" /\ pc[p] \in Inside /\ UNCHANGED <<lock, req, stack>>
  BY DEF MoveFails, At, Inside, Outside, Labels, kernel
<1> DEFINE n == [op[p] EXCEPT !.todo = H, !.res = "error"]
<1>1. n.images = op[p].images /\ n.swapping = op[p].swapping /\ n.attached = op[p].attached
  BY <1>0 DEF Op
<1>2. Goes(p, "abort", n) /\ PhaseAt("abort", n) = "over" /\ "abort" \in Inside
  BY DEF MoveFails, Abort, PhaseAt, Layers, Over, Inside, Outside, Labels
<1>3. RefOf("abort", n, req[p])
  BY <1>0, <1>1, <1>2 DEF RefOf
<1>4. GoalAt("abort", n, req[p]) =
        [h \in H |-> IF h \in op[p].attached
                     THEN [names |-> op[p].images, mutable |-> req[p].mutable, merged |-> TRUE]
                     ELSE NotMerged]
  BY <1>1, <1>2 DEF GoalAt, GoalSet
<1>5. GoalAt("abort", n, req[p]) =
        [h \in H |-> IF ViewOf(stack)[h] = GoalAt(pc[p], op[p], req[p])[h]
                     THEN GoalAt(pc[p], op[p], req[p])[h] ELSE Promise!Bare]
  <2> DEFINE M == [names |-> op[p].images, mutable |-> req[p].mutable, merged |-> TRUE]
  <2>1. M # NotMerged /\ Promise!Bare = NotMerged
    BY DEF NotMerged, Promise!Bare
  <2>2. \A h \in H : ViewOf(stack)[h] = IF h \in op[p].attached THEN M ELSE NotMerged
    BY <1>i, ShownSoFar
  <2>3. PhaseAt(pc[p], op[p]) = "new"
    BY <1>i, ShownSoFar
  <2>4. \A h \in H : GoalAt(pc[p], op[p], req[p])[h] =
                      IF h \in MountsOf(op[p], req[p]) THEN M ELSE NotMerged
    BY <2>3 DEF GoalAt, GoalSet
  <2>5. op[p].attached \subseteq MountsOf(op[p], req[p])
    BY <1>i, ShownSoFar
  <2>6. GoalAt("abort", n, req[p]) = [h \in H |-> IF h \in op[p].attached THEN M ELSE NotMerged]
    BY <1>4
  <2> HIDE DEF M, n
  <2>7. \A h \in H : (IF ViewOf(stack)[h] = GoalAt(pc[p], op[p], req[p])[h]
                       THEN GoalAt(pc[p], op[p], req[p])[h] ELSE Promise!Bare)
                      = IF h \in op[p].attached THEN M ELSE NotMerged
    BY <2>1, <2>2, <2>4, <2>5
  <2> QED BY <2>7, <2>6
<1>6. PhaseAt(pc[p], op[p]) = "new"
  BY <1>i, ShownSoFar
<1>7. Promise!Stop
  BY <1>2, <1>5, <1>6, <1>i, StepSeen DEF Promise!Stop
<1> QED BY <1>2, <1>3, <1>7, <1>i, RefStep DEF Simulates, Promise!Next

(* The generation moves into place behind what is shown. *)
LEMMA RefPromote ==
  ASSUME Inv, Inv', ShowInv, RefInv, NEW p \in Procs,
         \/ PromoteClear(p) \/ PromoteDrop(p) \/ DropRefused(p) \/ PromoteImage(p)
         \/ ImagesPromoted(p) \/ PromoteLayers(p) \/ PromoteDone(p) \/ PromoteFails(p)
  PROVE  RefInv' /\ Simulates
<1>0. KernelInv /\ op[p] \in Op
  BY Given
<1>i. pc[p] \in Inside /\ UNCHANGED <<lock, req>> /\ pc[p] \in Layers
  BY DEF PromoteClear, PromoteDrop, DropRefused, PromoteImage, ImagesPromoted, PromoteLayers,
         PromoteDone, PromoteFails, At, Layers, Inside, Outside, Labels
<1>d. PhaseAt(pc[p], op[p]) = "done"
  BY <1>i DEF PhaseAt
<1>u. Same(stack, stack')
  <2>1. CASE UNCHANGED stack
    BY <2>1, UnchangedSame
  <2>2. CASE PromoteDrop(p) \/ PromoteLayers(p)
    BY <2>2, <1>0, OneSame DEF PromoteDrop, PromoteLayers
  <2>3. CASE PromoteDone(p)
    BY <2>3, <1>0, AllSame DEF PromoteDone
  <2> QED BY <2>1, <2>2, <2>3 DEF PromoteClear, DropRefused, PromoteImage, ImagesPromoted,
       PromoteFails, kernel
<1>s. ASSUME NEW l \in Layers, NEW n, Goes(p, l, n),
             n.images = op[p].images, n.swapping = op[p].swapping
      PROVE  RefInv' /\ Simulates
  <2>1. PhaseAt(l, n) = "done" /\ l \in Inside
    BY DEF PhaseAt, Layers, Inside, Outside, Labels
  <2> QED BY <2>1, <1>s, <1>i, <1>d, <1>u, LateStep
<1>f. ASSUME NEW result \in {"merged", "cleanup"}, Finish(p, result)
      PROVE  RefInv' /\ Simulates
  <2> DEFINE o == [op[p] EXCEPT !.res = result]
  <2>1. o.images = op[p].images /\ o.swapping = op[p].swapping /\ o.res = result
    BY <1>0 DEF Op
  <2>2. PhaseAt("unlock", o) = "done" /\ "unlock" \in Inside /\ "unlock" \in Over
    BY <2>1 DEF PhaseAt, Inside, Outside, Labels, Over
  <2>3. Goes(p, "unlock", o)
    BY <1>f DEF Finish
  <2> HIDE DEF o
  <2> QED BY <2>1, <2>2, <2>3, <1>i, <1>d, <1>u, LateStep
<1>1. CASE PromoteClear(p)
  <2> DEFINE o == [op[p] EXCEPT !.todo = op[p].attached \cup op[p].unmerged]
  <2>1. o.images = op[p].images /\ o.swapping = op[p].swapping
    BY <1>0 DEF Op
  <2> QED BY <1>1, <2>1, <1>s DEF PromoteClear, Layers
<1>2. CASE PromoteDrop(p)
  <2>0. PICK h \in H : LET rest == op[p].todo \ {h}
                       IN IF rest = {}
                          THEN Goes(p, "shift", [op[p] EXCEPT !.todo = {}, !.left = op[p].images])
                          ELSE Goes(p, "drop", [op[p] EXCEPT !.todo = rest])
    BY <1>2 DEF PromoteDrop
  <2> DEFINE o1 == [op[p] EXCEPT !.todo = {}, !.left = op[p].images]
             o2 == [op[p] EXCEPT !.todo = op[p].todo \ {h}]
  <2>1. /\ o1.images = op[p].images /\ o1.swapping = op[p].swapping
        /\ o2.images = op[p].images /\ o2.swapping = op[p].swapping
    BY <1>0 DEF Op
  <2> QED BY <2>0, <2>1, <1>s DEF Layers
<1>3. CASE PromoteImage(p)
  <2>0. PICK e \in op[p].left : Goes(p, "shift", [op[p] EXCEPT !.left = @ \ {e}])
    BY <1>3 DEF PromoteImage
  <2> DEFINE o == [op[p] EXCEPT !.left = @ \ {e}]
  <2>1. o.images = op[p].images /\ o.swapping = op[p].swapping
    BY <1>0 DEF Op
  <2> QED BY <2>0, <2>1, <1>s DEF Layers
<1>4. CASE ImagesPromoted(p)
  <2> DEFINE o == [op[p] EXCEPT !.todo = op[p].attached]
  <2>1. o.images = op[p].images /\ o.swapping = op[p].swapping
    BY <1>0 DEF Op
  <2> QED BY <1>4, <2>1, <1>s DEF ImagesPromoted, Layers
<1>5. CASE PromoteLayers(p)
  <2>0. PICK h \in H : Goes(p, "rename", [op[p] EXCEPT !.todo = @ \ {h}])
    BY <1>5 DEF PromoteLayers
  <2> DEFINE o == [op[p] EXCEPT !.todo = @ \ {h}]
  <2>1. o.images = op[p].images /\ o.swapping = op[p].swapping
    BY <1>0 DEF Op
  <2> QED BY <2>0, <2>1, <1>s DEF Layers
<1>6. CASE PromoteDone(p) \/ DropRefused(p) \/ PromoteFails(p)
  BY <1>6, <1>f DEF PromoteDone, DropRefused, PromoteFails
<1> QED BY <1>1, <1>2, <1>3, <1>4, <1>5, <1>6

(* abort takes away what was there of the new merge, one by one. *)
LEMMA RefRollBack ==
  ASSUME Inv, Inv', ShowInv, RefInv, NEW p \in Procs,
         AbortTake(p) \/ AbortDetach(p) \/ AbortAttach(p) \/ AbortRelease(p)
  PROVE  RefInv' /\ Simulates
<1>0. KernelInv /\ op[p] \in Op /\ RefOf(pc[p], op[p], req[p])
  BY Given DEF RefInv
<1>i. pc[p] \in Inside /\ UNCHANGED <<lock, req>> /\ pc[p] \in {"abort", "detach", "restore"}
  BY DEF AbortTake, AbortDetach, AbortAttach, AbortRelease, At, Inside, Outside, Labels
<1>d. PhaseAt(pc[p], op[p]) = "over"
  BY <1>i DEF PhaseAt, Layers, Over
<1>o. ASSUME NEW l \in {"abort", "detach", "restore"}, NEW n
      PROVE  PhaseAt(l, n) = "over" /\ l \in Inside /\ l \in Over
  BY DEF PhaseAt, Layers, Over, Inside, Outside, Labels
<1>s. ASSUME NEW l \in {"abort", "detach", "restore"}, NEW n, Goes(p, l, n), Same(stack, stack'),
             n.images = op[p].images, n.swapping = op[p].swapping, n.attached = op[p].attached
      PROVE  RefInv' /\ Simulates
  BY <1>s, <1>o, <1>i, <1>d, LateStep
<1>1. CASE AbortTake(p)
  BY <1>1, <1>s, UnchangedSame DEF AbortTake
<1>2. CASE AbortAttach(p)
  <2>0. PICK h \in H : Goes(p, "abort", [op[p] EXCEPT !.todo = @ \ {h}])
    BY <1>2 DEF AbortAttach
  <2> DEFINE o == [op[p] EXCEPT !.todo = @ \ {h}]
  <2>1. o.images = op[p].images /\ o.swapping = op[p].swapping /\ o.attached = op[p].attached
    BY <1>0 DEF Op
  <2>2. Same(stack, stack')
    BY <1>2, UnchangedSame DEF AbortAttach
  <2> QED BY <2>0, <2>1, <2>2, <1>s
<1>3. CASE AbortRelease(p)
  <2> DEFINE o == [op[p] EXCEPT !.res = "error"]
  <2>1. /\ o.images = op[p].images /\ o.swapping = op[p].swapping /\ o.attached = op[p].attached
        /\ o.res = "error"
    BY <1>0 DEF Op
  <2>2. PhaseAt("unlock", o) = "over" /\ "unlock" \in Inside /\ "unlock" \in Over
    BY <2>1 DEF PhaseAt, Layers, Inside, Outside, Labels, Over
  <2>3. Goes(p, "unlock", o)
    BY <1>3 DEF AbortRelease, Finish
  <2>4. Same(stack, stack')
    BY <1>3, <1>0, TeardownSame, UnchangedSame, DiscardSame DEF AbortRelease, NotReleased
  <2> HIDE DEF o
  <2> QED BY <2>1, <2>2, <2>3, <2>4, <1>i, <1>d, LateStep
<1>4. CASE AbortDetach(p)
  <2>0. PICK h \in H :
          /\ \/ h \in op[p].attached /\ Pop(h) /\ UNCHANGED <<stage, faults>>
             \/ h \notin op[p].attached /\ UNCHANGED stack
             \/ UNCHANGED stack
          /\ Goes(p, "restore", [op[p] EXCEPT !.attached = @ \ {h}, !.staged = @ \ {h}])
    BY <1>4 DEF AbortDetach
  <2> DEFINE o == [op[p] EXCEPT !.attached = @ \ {h}, !.staged = @ \ {h}]
  <2>1. /\ o.images = op[p].images /\ o.swapping = op[p].swapping
        /\ o.attached = op[p].attached \ {h}
    BY <1>0 DEF Op
  <2>2. Goes(p, "restore", o)
    BY <2>0
  <2>3. UNCHANGED <<dirs, img>>
    BY <1>4 DEF AbortDetach
  <2> HIDE DEF o
  <2>4. CASE h \notin op[p].attached
    <3>1. o.attached = op[p].attached
      BY <2>1, <2>4
    <3>2. Same(stack, stack')
      BY <2>0, <2>4, UnchangedSame
    <3> QED BY <3>1, <3>2, <2>1, <2>2, <1>s
  <2>5. CASE h \in op[p].attached
    <3>1. RefOf("restore", o, req[p])
      BY <2>1, <1>0, <1>o DEF RefOf
    <3>2. RefInv'
      BY <3>1, <2>2, <1>o, <1>i, RefStep
    <3> DEFINE M == [names |-> op[p].images, mutable |-> req[p].mutable, merged |-> TRUE]
    <3>3. GoalAt("restore", o, req[p]) = [g \in H |-> IF g \in op[p].attached \ {h} THEN M ELSE NotMerged]
      BY <2>1, <1>o DEF GoalAt, GoalSet
    <3>4. GoalAt(pc[p], op[p], req[p]) = [g \in H |-> IF g \in op[p].attached THEN M ELSE NotMerged]
      BY <1>d DEF GoalAt, GoalSet
    <3>5. M # NotMerged /\ Promise!Bare = NotMerged
      BY DEF NotMerged, Promise!Bare
    <3> HIDE DEF M
    <3>6. /\ GoalAt("restore", o, req[p]) = [GoalAt(pc[p], op[p], req[p]) EXCEPT ![h] = Promise!Bare]
          /\ GoalAt(pc[p], op[p], req[p])[h] # Promise!Bare
      BY <3>3, <3>4, <3>5, <2>5
    <3>7. ViewOf(stack') = [ViewOf(stack) EXCEPT ![h] = Promise!Bare] \/ ViewOf(stack') = ViewOf(stack)
      <4>1. CASE UNCHANGED stack
        BY <4>1
      <4>2. CASE Pop(h) /\ UNCHANGED stage
        <5>1. stack'[h] = <<>> /\ \A g \in H \ {h} : stack'[g] = stack[g]
          BY <4>2, <2>3, <1>0, PopKernel DEF KernelInv
        <5> QED BY <5>1 DEF ViewOf, Promise!Bare, NotMerged
      <4> QED BY <2>0, <4>1, <4>2
    <3>8. /\ PhaseOfRun = "over" /\ PhaseOfRun' = "over" /\ GoalOfRun[h] # Promise!Bare
          /\ GoalOfRun' = [GoalOfRun EXCEPT ![h] = Promise!Bare]
          /\ \/ [g \in H |-> View(g)]' = [[g \in H |-> View(g)] EXCEPT ![h] = Promise!Bare]
             \/ UNCHANGED [g \in H |-> View(g)]
          /\ UNCHANGED <<lock, IF lock = NoProc THEN NoRequest ELSE req[lock]>>
      BY <3>6, <3>7, <2>2, <1>o, <1>d, <1>i, StepSeen
    <3>9. Promise!Undo(h)
      BY <3>8 DEF Promise!Undo
    <3> QED BY <3>2, <3>9 DEF Simulates, Promise!Next
  <2> QED BY <2>4, <2>5
<1> QED BY <1>1, <1>2, <1>3, <1>4

-----------------------------------------------------------------------------
(* Outside the lock, and the theorem. *)

(* Between operations there is no goal, now ... *)
LEMMA FreeSeen ==
  ASSUME lock = NoProc
  PROVE  PhaseOfRun = "free" /\ GoalOfRun = Promise!AllBare
<1>1. PhaseOfRun = "free"
  BY DEF PhaseOfRun
<1>2. GoalOfRun = [h \in H |-> NotMerged]
  BY <1>1 DEF GoalOfRun
<1> QED BY <1>1, <1>2 DEF Promise!AllBare, Promise!Bare, NotMerged

(* ... and after a step. *)
LEMMA FreeSeenNext ==
  ASSUME lock' = NoProc
  PROVE  PhaseOfRun' = "free" /\ GoalOfRun' = Promise!AllBare
<1>1. PhaseOfRun' = "free"
  BY DEF PhaseOfRun
<1>2. GoalOfRun' = [h \in H |-> NotMerged]
  BY <1>1 DEF GoalOfRun
<1> QED BY <1>1, <1>2 DEF Promise!AllBare, Promise!Bare, NotMerged

(* A verb starts: nobody sees it. *)
LEMMA RefBegin ==
  ASSUME Inv, Inv', RefInv, NEW p \in Procs, Begin(p)
  PROVE  RefInv' /\ Simulates
<1>0. /\ pc[p] = "idle" /\ op[p] = NewOp /\ UNCHANGED <<lock, stack>>
      /\ \E r \in Requests : req' = [req EXCEPT ![p] = r]
      /\ Goes(p, "lock", op[p])
  BY DEF Begin, Inv, Phase, PhaseOf, Outside, kernel
<1>1. /\ pc'[p] = "lock" /\ op'[p] = NewOp /\ req'[p] \in Requests
      /\ \A q \in Procs \ {p} : pc'[q] = pc[q] /\ op'[q] = op[q] /\ req'[q] = req[q]
  BY <1>0 DEF Goes, Inv, TypeOK
<1>2. lock # p
  BY <1>0, NamesAssumption DEF RefInv, Inside, Outside
<1>3. RefOf("lock", NewOp, req'[p])
  BY DEF RefOf, NewOp
<1>4. RefInv'
  BY <1>0, <1>1, <1>2, <1>3 DEF RefInv, Inv, TypeOK
<1>5. [h \in H |-> View(h)]' = [h \in H |-> View(h)]
  BY <1>0, OneView, OneViewNext
<1>6. CASE lock = NoProc
  <2>1. UNCHANGED Promise!vars
    BY <1>0, <1>5, <1>6, FreeSeen, FreeSeenNext DEF Promise!vars
  <2> QED BY <2>1, <1>4 DEF Simulates
<1>7. CASE lock # NoProc
  <2>1. lock \in Procs \ {p}
    BY <1>2, <1>7 DEF Inv, TypeOK
  <2>2. PhaseOfRun' = PhaseOfRun /\ GoalOfRun' = GoalOfRun
    BY <2>1, <1>0, <1>1, Seen, SeenNext
  <2>3. UNCHANGED Promise!vars
    BY <2>1, <2>2, <1>0, <1>1, <1>5 DEF Promise!vars
  <2> QED BY <2>3, <1>4 DEF Simulates
<1> QED BY <1>6, <1>7

(* It gets the lock. *)
LEMMA RefAcquire ==
  ASSUME Inv, Inv', RefInv, NEW p \in Procs, Acquire(p)
  PROVE  RefInv' /\ Simulates
<1>0. /\ pc[p] = "lock" /\ op[p] = NewOp /\ lock = NoProc /\ lock' = p /\ UNCHANGED <<stack, req>>
  BY DEF Acquire, Inv, Phase, PhaseOf, Outside, kernel
<1>1. PICK l \in {"take", "check"} : /\ l = "take" => req[p].verb = "unmerge"
                                    /\ \E n : Goes(p, l, n) /\ n.attached = {} /\ ~n.swapping
  <2>1. [op[p] EXCEPT !.todo = H].attached = {} /\ ~[op[p] EXCEPT !.todo = H].swapping
    BY <1>0 DEF NewOp
  <2>2. op[p].attached = {} /\ ~op[p].swapping
    BY <1>0 DEF NewOp
  <2> QED BY <2>1, <2>2 DEF Acquire
<1>2. PICK n : Goes(p, l, n) /\ n.attached = {} /\ ~n.swapping
  BY <1>1
<1>3. /\ pc'[p] = l /\ op'[p] = n
      /\ \A q \in Procs \ {p} : pc'[q] = pc[q] /\ op'[q] = op[q]
  BY <1>2 DEF Goes, Inv, TypeOK
<1>4. PhaseAt(l, n) = "old" /\ l \in Inside
  BY BeforeOld DEF Before
<1>5. RefOf(l, n, req[p])
  BY <1>1, <1>2 DEF RefOf
<1>6. RefInv' /\ req[p] \in Requests
  BY <1>0, <1>3, <1>4, <1>5 DEF RefInv
<1>7. GoalAt(l, n, req[p]) = Promise!AllBare
  BY <1>4, OldGoal DEF GoalSet
<1>8. UNCHANGED [h \in H |-> View(h)]
  BY <1>0, OneView, OneViewNext
<1>9. p # NoProc
  BY NamesAssumption
<1>10. /\ PhaseOfRun = "free" /\ PhaseOfRun' = "old" /\ lock' = p
       /\ (IF lock = NoProc THEN NoRequest ELSE req[lock])' = req[p]
       /\ UNCHANGED <<[h \in H |-> View(h)], GoalOfRun>>
  BY <1>0, <1>3, <1>4, <1>7, <1>8, <1>9, FreeSeen, SeenNext
<1>11. Promise!Take(p)
  BY <1>6, <1>10 DEF Promise!Take
<1> QED BY <1>6, <1>11 DEF Simulates, Promise!Next

(* It releases the lock, or is killed. *)
LEMMA RefLeave ==
  ASSUME Inv, Inv', RefInv, NEW p \in Procs, Unlock(p) \/ Crash(p)
  PROVE  RefInv' /\ Simulates
<1>0. lock = p /\ Leave(p) /\ UNCHANGED stack
  BY DEF Unlock, Crash, Inv, Exclusive, kernel
<1>1. /\ pc'[p] = "idle" /\ op'[p] = NewOp /\ lock' = NoProc
      /\ \A q \in Procs \ {p} : pc'[q] = pc[q] /\ op'[q] = op[q] /\ req'[q] = req[q]
  BY <1>0 DEF Leave, Goes, Inv, TypeOK
<1>2. RefOf("idle", NewOp, req'[p])
  BY DEF RefOf, NewOp
<1>3. RefInv'
  BY <1>1, <1>2 DEF RefInv
<1>4. PhaseAt(pc[p], op[p]) # "free"
  BY DEF PhaseAt
<1>5. UNCHANGED [h \in H |-> View(h)]
  BY <1>0, OneView, OneViewNext
<1>6. /\ PhaseOfRun # "free" /\ PhaseOfRun' = "free" /\ lock' = NoProc
      /\ (IF lock = NoProc THEN NoRequest ELSE req[lock])' = NoRequest
      /\ GoalOfRun' = Promise!AllBare
  BY <1>0, <1>1, <1>4, Seen, FreeSeenNext
<1>7. Promise!Leave
  BY <1>5, <1>6 DEF Promise!Leave
<1> QED BY <1>3, <1>7 DEF Simulates, Promise!Next

(* Every step of Engine is one of MergeSpec, or changes nothing it shows. *)
LEMMA RefNextStep ==
  ASSUME Inv, Inv', ShowInv, RefInv, [Next]_vars
  PROVE  RefInv' /\ Simulates
<1>1. CASE UNCHANGED vars
  <2>1. RefInv'
    BY <1>1 DEF RefInv, vars
  <2>2. UNCHANGED Promise!vars
    BY <1>1 DEF Promise!vars, vars, kernel, View, Top, PhaseOfRun, Swapped, GoalOfRun, MergeOf, Mounts
  <2> QED BY <2>1, <2>2 DEF Simulates
<1>2. ASSUME NEW p \in Procs, Works(p)
      PROVE  RefInv' /\ Simulates
  BY <1>2, RefPrepare, RefPlan, RefUnmerge, RefTeardown, RefStage, RefDecide, RefMove, RefCommit,
     RefPromote, RefRollBack DEF Works
<1>3. ASSUME NEW p \in Procs, Fails(p)
      PROVE  RefInv' /\ Simulates
  BY <1>3, RefPrepare, RefPlan, RefUnmerge, RefTeardown, RefStage, RefMoveFails, RefPromote DEF Fails
<1>4. ASSUME NEW p \in Procs, Begin(p) \/ Acquire(p) \/ Unlock(p) \/ Crash(p)
      PROVE  RefInv' /\ Simulates
  BY <1>4, RefBegin, RefAcquire, RefLeave
<1> QED BY <1>1, <1>2, <1>3, <1>4 DEF Next

(* Initially nothing is merged and no operation is under way. *)
LEMMA RefInit ==
  ASSUME Init
  PROVE  RefInv /\ Promise!Init
<1>1. RefInv
  BY DEF Init, RefInv, RefOf, NewOp, PhaseAt, Layers, Over
<1>2. [h \in H |-> View(h)] = Promise!AllBare
  BY DEF Init, View, Promise!AllBare, Promise!Bare, NotMerged
<1>3. lock = NoProc
  BY DEF Init
<1>4. Promise!Init
  BY <1>2, <1>3, FreeSeen DEF Promise!Init
<1> QED BY <1>1, <1>4

(* Whatever fails and whoever is killed, a run of the engine is a run of
   MergeSpec: outside one sees the old merge go, then one new merge of what was
   asked for appear, and that again only go if the operation fails. *)
THEOREM Refines == Spec => Implements
<1>1. Init => RefInv /\ Promise!Init
  BY RefInit
<1>2. Inv /\ Inv' /\ ShowInv /\ RefInv /\ [Next]_vars => RefInv' /\ [Promise!Next]_(Promise!vars)
  BY RefNextStep DEF Simulates
<1> QED BY <1>1, <1>2, Invariance, ShowAlways, PTL DEF Spec, Implements, Promise!Spec

----------------------------------------------------------------------------
(***************************************************************************)
(* Proofs that Engine restores what it found: an unmerge everything, and   *)
(* an operation that failed what it had touched.                           *)
(*                                                                         *)
(* For unmerge, HoldInv says where the mounts carried along can be: on an  *)
(* overlay only where there is one, and as clones only with the process    *)
(* that will put them back, for the hierarchies it works on.  ClearInv     *)
(* says that an operation that ends in place has removed the workspace.    *)
(*                                                                         *)
(* For failures, three invariants compare the hierarchies and the mounts   *)
(* with what the lock holder found.  KeptInv: an operation has touched     *)
(* nothing before it swaps or unmerges.  BackInv: what is new is recorded  *)
(* in attached, which abort empties; this needs that no unmount of abort   *)
(* fails.  PlacedInv: where each mount is at each label; this needs that   *)
(* nothing abort does fails and nobody is killed, as a clone dies with the *)
(* process that holds it.                                                  *)
(***************************************************************************)

(* The hierarchies whose mounts p may hold as clones at a label. *)
MayHold(l, o, r) ==
  CASE l \in {"take", "umount", "putback"} /\ InPlaceOf(o, r) -> {h \in H : First(h, o.todo)}
    [] l \in {"take", "umount"} /\ ~InPlaceOf(o, r) -> H
    [] l \in {"stage", "carry", "adopt", "move"} -> H
    [] l \in {"abort", "detach", "restore"} -> o.todo
    [] OTHER -> {}

Holds(p) == \A s \in Subs : sub[s] = p => Home[s] \in MayHold(pc[p], op[p], req[p])

(* Mounts are on an overlay only where there is one, and clones are held only
   by the one who will put them back. *)
HoldInv ==
  /\ \A s \in Subs : sub[s] = "overlay" => stack[Home[s]] # <<>>
  /\ \A p \in Procs : Holds(p)

(* Where an operation that took down merges in place is done, nothing is left. *)
Cleared(p) ==
  pc[p] = "unlock" /\ op[p].res \in {"unmerged", "nothing"} /\ InPlace(p) =>
    dirs = {} /\ \A s \in Subs : sub[s] \notin Dirs

-----------------------------------------------------------------------------
(* Which mounts are where. *)

(* HoldInv holds after a step of p that takes no mount beyond those the next
   label allows, and brings none below an overlay that is not there. *)
LEMMA HoldStep ==
  ASSUME Inv, HoldInv, NEW p \in Procs, pc[p] \in Inside, UNCHANGED req,
         NEW l, NEW o, Goes(p, l, o),
         \A s \in Subs : sub'[s] \in {sub[s], p, "host", "overlay", "lost"} \cup Dirs,
         \A s \in Subs : sub'[s] = p => Home[s] \in MayHold(l, o, req[p]),
         \A s \in Subs : sub'[s] = "overlay" => stack'[Home[s]] # <<>>
  PROVE  HoldInv'
<1>1. Holds(p)'
  BY Alone DEF Holds
<1>2. ASSUME NEW q \in Procs \ {p} PROVE Holds(q)'
  <2>1. pc[q] \in Outside
    BY DEF Inv, Exclusive, Inside, Outside
  <2>2. MayHold(pc[q], op[q], req[q]) = {}
    BY <2>1 DEF MayHold, Outside
  <2>3. \A s \in Subs : sub[s] # q
    BY <2>2 DEF HoldInv, Holds
  <2>4. q \notin {"host", "overlay", "lost"} \cup Dirs
    BY NamesAssumption DEF Reserved
  <2>5. \A s \in Subs : sub'[s] # q
    BY <2>3, <2>4
  <2> QED BY <2>5 DEF Holds
<1> QED BY <1>1, <1>2 DEF HoldInv

(* What Same and Emptied mean for the mounts that are on an overlay. *)
LEMMA StillOn ==
  ASSUME HoldInv, Same(stack, stack')
  PROVE  \A s \in Subs : sub[s] = "overlay" => stack'[Home[s]] # <<>>
BY HomeAssumption DEF HoldInv, Same

(* An unmount takes the mounts that are still on the overlay with it. *)
LEMMA PopOn ==
  ASSUME Inv, HoldInv, NEW h \in H, Pop(h), UNCHANGED <<dirs, img, stage>>
  PROVE  /\ \A s \in Subs : sub'[s] \in {sub[s], "lost"}
         /\ \A s \in Subs : sub'[s] = "overlay" => stack'[Home[s]] # <<>>
<1>1. KernelInv
  BY DEF Inv, TypeOK, KernelInv
<1>2. stack'[h] = <<>> /\ \A g \in H \ {h} : stack'[g] = stack[g]
  BY <1>1, PopKernel DEF KernelInv
<1>3. \A s \in Subs : sub'[s] = IF Home[s] = h /\ sub[s] = "overlay" THEN "lost" ELSE sub[s]
  BY DEF Pop, Carry
<1>4. \A s \in Subs : sub'[s] \in {sub[s], "lost"}
  BY <1>3
<1>5. ASSUME NEW s \in Subs, sub'[s] = "overlay" PROVE stack'[Home[s]] # <<>>
  <2>1. Home[s] # h /\ sub[s] = "overlay"
    BY <1>3, <1>5
  <2>2. Home[s] \in H
    BY HomeAssumption
  <2> QED BY <1>2, <2>1, <2>2 DEF HoldInv
<1> QED BY <1>4, <1>5

(* Where nobody may hold anything, a step that takes no mount may go anywhere. *)
LEMMA HoldNone ==
  ASSUME Inv, HoldInv, NEW p \in Procs, pc[p] \in Inside, UNCHANGED req,
         MayHold(pc[p], op[p], req[p]) = {},
         NEW l, NEW o, Goes(p, l, o), Same(stack, stack'),
         \A s \in Subs : sub'[s] \in {sub[s], "lost"}
  PROVE  HoldInv'
<1>1. \A s \in Subs : sub[s] # p
  BY DEF HoldInv, Holds
<1>2. p # "lost"
  BY NamesAssumption DEF Reserved
<1>3. \A s \in Subs : sub'[s] # p
  BY <1>1, <1>2
<1>4. \A s \in Subs : sub'[s] = "overlay" => stack'[Home[s]] # <<>>
  BY StillOn
<1> QED BY <1>3, <1>4, HoldStep

(* The same for a step that leads where p may hold everything. *)
LEMMA HoldAll ==
  ASSUME Inv, HoldInv, NEW p \in Procs, pc[p] \in Inside, UNCHANGED req,
         NEW l, NEW o, Goes(p, l, o), MayHold(l, o, req[p]) = H,
         \A s \in Subs : sub'[s] \in {sub[s], p, "host", "overlay", "lost"} \cup Dirs,
         \A s \in Subs : sub'[s] = "overlay" => stack'[Home[s]] # <<>>
  PROVE  HoldInv'
BY HomeAssumption, HoldStep

(* Teardown and discard lose the mounts on staged overlays and take none. *)
LEMMA TeardownSubs ==
  ASSUME KernelInv, NEW ds, Teardown(ds)
  PROVE  /\ \A s \in Subs : sub'[s] \in {sub[s], "lost"}
         /\ \A s \in Subs : sub'[s] \notin Dirs
         /\ dirs' = ds
<1>1. "lost" \notin Dirs
  BY NamesAssumption DEF Reserved
<1> QED BY <1>1 DEF Teardown

(* Discarding a generation loses mounts at most. *)
LEMMA DiscardSubs ==
  ASSUME KernelInv, NEW p, Discard(p)
  PROVE  \A s \in Subs : sub'[s] \in {sub[s], "lost"}
<1>1. CASE Teardown({})
  BY <1>1, TeardownSubs
<1>2. CASE UNCHANGED sub
  BY <1>2
<1> QED BY <1>1, <1>2 DEF Discard, NotReleased, kernel

(* abort may hold the mounts of every hierarchy. *)
LEMMA HoldAbort ==
  ASSUME Inv, HoldInv, NEW p \in Procs, pc[p] \in Inside, UNCHANGED req,
         NEW o \in Op, Abort(p, o),
         \A s \in Subs : sub'[s] \in {sub[s], p, "host", "overlay", "lost"} \cup Dirs,
         \A s \in Subs : sub'[s] = "overlay" => stack'[Home[s]] # <<>>
  PROVE  HoldInv'
<1> DEFINE n == [o EXCEPT !.todo = H, !.res = "error"]
<1>1. n.todo = H
  BY DEF Op
<1>2. MayHold("abort", n, req[p]) = H
  BY <1>1 DEF MayHold
<1> QED BY <1>2, HoldAll DEF Abort

(* Preparing and deciding hold nothing. *)
LEMMA HoldPrepare ==
  ASSUME Inv, HoldInv, NEW p \in Procs,
         \/ Check(p) \/ ResetWorkspace(p) \/ UseWorkspace(p) \/ MountImage(p)
         \/ PlanNothing(p) \/ Callback(p) \/ PlanUnchanged(p) \/ PlanSwap(p)
  PROVE  HoldInv'
<1>0. KernelInv
  BY Facts
<1>i. /\ pc[p] \in Inside /\ UNCHANGED req
      /\ pc[p] \in {"check", "workspace", "image", "callback"}
  BY DEF Check, ResetWorkspace, UseWorkspace, MountImage, PlanNothing, Callback,
     PlanUnchanged,
         PlanSwap, Prepared, At, Inside, Outside, Labels
<1>h. MayHold(pc[p], op[p], req[p]) = {}
  BY <1>i DEF MayHold
<1>u. ASSUME UNCHANGED <<stack, sub>>
      PROVE  Same(stack, stack') /\ \A s \in Subs : sub'[s] \in {sub[s], "lost"}
  BY <1>u, UnchangedSame
<1>t. ASSUME NEW ds, Teardown(ds)
      PROVE  Same(stack, stack') /\ \A s \in Subs : sub'[s] \in {sub[s], "lost"}
  BY <1>t, <1>0, TeardownSame, TeardownSubs
<1>d. ASSUME Discard(p)
      PROVE  Same(stack, stack') /\ \A s \in Subs : sub'[s] \in {sub[s], "lost"}
  BY <1>d, <1>0, DiscardSame, DiscardSubs
<1>1. Same(stack, stack') /\ \A s \in Subs : sub'[s] \in {sub[s], "lost"}
  <2>1. CASE Check(p) \/ MountImage(p) \/ Callback(p) \/ PlanSwap(p)
    BY <2>1, <1>u DEF Check, MountImage, Callback, PlanSwap, kernel
  <2>2. CASE ResetWorkspace(p) \/ UseWorkspace(p)
    BY <2>2, <1>u, <1>t DEF ResetWorkspace, UseWorkspace
  <2>3. CASE PlanNothing(p) \/ PlanUnchanged(p)
    BY <2>3, <1>d DEF PlanNothing, PlanUnchanged
  <2> QED BY <2>1, <2>2, <2>3
<1>2. PICK l, o : Goes(p, l, o)
  BY DEF Check, ResetWorkspace, UseWorkspace, MountImage, PlanNothing, Callback,
     PlanUnchanged,
         PlanSwap, Abort, Finish
<1> QED BY <1>1, <1>2, <1>i, <1>h, HoldNone

(* What p may hold while it takes down merges: the mounts of the hierarchy it
   works on, or, for a swap, those of any. *)
LEMMA MayUnmerge ==
  ASSUME NEW l \in {"take", "umount", "putback"}, NEW o, NEW r
  PROVE  /\ InPlaceOf(o, r) => MayHold(l, o, r) = {h \in H : First(h, o.todo)}
         /\ ~InPlaceOf(o, r) /\ l # "putback" => MayHold(l, o, r) = H
BY DEF MayHold

(* After the mounts of the hierarchy are back, or closed, nothing is held. *)
LEMMA HoldNext ==
  ASSUME Inv, HoldInv, NEW p \in Procs, pc[p] = "putback", UNCHANGED <<stack, req>>,
         NEW h \in H, First(h, op[p].todo),
         Attach(p, h, Visible(h)) \/ AttachSomeClose(p, h, Visible(h)),
         NEW result, UnmergeNext(p, h, result)
  PROVE  HoldInv'
<1>0. PhaseOf(pc[p], op[p], req[p], stack)
  BY Facts
<1>i. pc[p] \in Inside
  BY DEF Inside, Outside, Labels
<1>1. \A s \in Subs : sub[s] = p => Home[s] = h
  <2>1. MayHold(pc[p], op[p], req[p]) = {g \in H : First(g, op[p].todo)}
    BY <1>0, MayUnmerge DEF PhaseOf, InPlaceOf
  <2>2. \A g \in H : First(g, op[p].todo) => g = h
    BY DEF First, H
  <2> QED BY <2>1, <2>2 DEF HoldInv, Holds
<1>2. Visible(h) \in {"host", "overlay"} /\ (Visible(h) = "overlay" => stack'[h] # <<>>)
  BY DEF Visible
<1>3. p \notin {"host", "overlay", "lost"}
  BY NamesAssumption DEF Reserved
<1>4. \A s \in Subs : sub'[s] = sub[s] \/ sub'[s] = "lost" \/ (Home[s] = h /\ sub'[s] = Visible(h))
  BY DEF Attach, Carry, AttachSomeClose
<1>5. \A s \in Subs : sub'[s] # p
  BY <1>1, <1>2, <1>3 DEF Attach, Carry, AttachSomeClose
<1>6. \A s \in Subs : sub'[s] = "overlay" => stack'[Home[s]] # <<>>
  BY <1>2, <1>4 DEF HoldInv
<1>7. \A s \in Subs : sub'[s] \in {sub[s], p, "host", "overlay", "lost"} \cup Dirs
  BY <1>2, <1>4
<1>8. PICK l, o : Goes(p, l, o)
  BY DEF UnmergeNext, Abort
<1> QED BY <1>5, <1>6, <1>7, <1>8, <1>i, HoldStep

(* Taking down what is merged holds the mounts of one hierarchy, and of all
   hierarchies visited so far in a swap. *)
LEMMA HoldUnmerge ==
  ASSUME Inv, HoldInv, NEW p \in Procs,
         TakeSubmounts(p) \/ HierarchyUnmerged(p) \/ Unmount(p) \/
           PutBack(p) \/ TeardownWorkspace(p)
  PROVE  HoldInv'
<1>0. /\ KernelInv /\ op[p] \in Op /\ PhaseOf(pc[p], op[p], req[p], stack)
  BY Facts
<1>i. /\ pc[p] \in Inside /\ UNCHANGED req
  BY DEF TakeSubmounts, HierarchyUnmerged, Unmount, PutBack, TeardownWorkspace,
         At, Inside, Outside, Labels
<1>n. p \notin {"host", "overlay", "lost"}
  BY NamesAssumption DEF Reserved
<1>h. \A s \in Subs : sub[s] = p => Home[s] \in MayHold(pc[p], op[p], req[p])
  BY DEF HoldInv, Holds
<1>o. UNCHANGED stack => \A s \in Subs : sub[s] = "overlay" => stack'[Home[s]] # <<>>
  BY DEF HoldInv
<1>1. CASE TakeSubmounts(p)
  <2>0. pc[p] = "take" /\ UNCHANGED stack /\ Goes(p, "umount", op[p])
    BY <1>1 DEF TakeSubmounts, At
  <2>1. PICK h \in H : First(h, op[p].todo) /\ Carry(h, "overlay", p)
    BY <1>1 DEF TakeSubmounts
  <2>2. \A s \in Subs : sub'[s] = sub[s] \/ (Home[s] = h /\ sub'[s] = p)
    BY <2>1 DEF Carry
  <2>3. \A s \in Subs : sub'[s] = p => Home[s] \in MayHold("umount", op[p], req[p])
    <3>1. CASE InPlaceOf(op[p], req[p])
      BY <3>1, <2>0, <2>1, <2>2, <1>h, MayUnmerge
    <3>2. CASE ~InPlaceOf(op[p], req[p])
      BY <3>2, HomeAssumption, MayUnmerge
    <3> QED BY <3>1, <3>2
  <2>4. \A s \in Subs : sub'[s] = "overlay" => stack'[Home[s]] # <<>>
    BY <2>0, <2>2, <1>n, <1>o
  <2>5. \A s \in Subs : sub'[s] \in {sub[s], p, "host", "overlay", "lost"} \cup Dirs
    BY <2>2
  <2> QED BY <2>0, <2>3, <2>4, <2>5, <1>i, HoldStep
<1>2. CASE HierarchyUnmerged(p)
  <2>0. pc[p] = "take" /\ UNCHANGED <<stack, sub>>
    BY <1>2 DEF HierarchyUnmerged, At, kernel
  <2>s. \A s \in Subs : sub'[s] \in {sub[s], p, "host", "overlay", "lost"} \cup Dirs
    BY <2>0
  <2>o. \A s \in Subs : sub'[s] = "overlay" => stack'[Home[s]] # <<>>
    BY <2>0, <1>o
  <2>1. CASE InPlace(p)
    <3>1. Goes(p, "putback", op[p])
      BY <1>2, <2>1 DEF HierarchyUnmerged
    <3>2. MayHold("putback", op[p], req[p]) = MayHold(pc[p], op[p], req[p])
      BY <2>0, <2>1, Fields, MayUnmerge
    <3>3. \A s \in Subs : sub'[s] = p => Home[s] \in MayHold("putback", op[p], req[p])
      BY <2>0, <3>2, <1>h
    <3> QED BY <3>1, <3>3, <2>s, <2>o, <1>i, HoldStep
  <2>2. CASE ~InPlace(p)
    <3>0. PICK h \in H : \/ Goes(p, "stage", [op[p] EXCEPT !.todo = H])
                         \/ Goes(p, "take", [op[p] EXCEPT !.todo = op[p].todo \ {h}])
      BY <1>2, <2>2 DEF HierarchyUnmerged
    <3> DEFINE o1 == [op[p] EXCEPT !.todo = H]
               o2 == [op[p] EXCEPT !.todo = op[p].todo \ {h}]
    <3>1. o2.unmerging = op[p].unmerging
      BY <1>0 DEF Op
    <3>2. MayHold("stage", o1, req[p]) = H
      BY DEF MayHold
    <3>3. MayHold("take", o2, req[p]) = H
      BY <3>1, <2>2, Fields, MayUnmerge DEF InPlaceOf
    <3> QED BY <3>0, <3>2, <3>3, <2>s, <2>o, <1>i, HoldAll
  <2> QED BY <2>1, <2>2
<1>3. CASE Unmount(p)
  <2>0. pc[p] = "umount" /\ UNCHANGED <<dirs, img, stage>>
    BY <1>3 DEF Unmount, At
  <2>1. PICK h \in H : /\ Pop(h)
                       /\ IF InPlace(p) THEN Goes(p, "take", op[p])
                          ELSE Goes(p, "take", [op[p] EXCEPT !.unmerged = @ \cup {h}])
    BY <1>3 DEF Unmount
  <2>2. /\ \A s \in Subs : sub'[s] \in {sub[s], "lost"}
        /\ \A s \in Subs : sub'[s] = "overlay" => stack'[Home[s]] # <<>>
    BY <2>0, <2>1, PopOn
  <2>s. \A s \in Subs : sub'[s] \in {sub[s], p, "host", "overlay", "lost"} \cup Dirs
    BY <2>2
  <2>3. CASE InPlace(p)
    <3>1. MayHold("take", op[p], req[p]) = MayHold(pc[p], op[p], req[p])
      BY <2>0, <2>3, Fields, MayUnmerge
    <3>2. \A s \in Subs : sub'[s] = p => Home[s] \in MayHold("take", op[p], req[p])
      BY <2>2, <3>1, <1>h, <1>n
    <3> QED BY <2>1, <2>2, <2>3, <2>s, <3>2, <1>i, HoldStep
  <2>4. CASE ~InPlace(p)
    <3> DEFINE o == [op[p] EXCEPT !.unmerged = @ \cup {h}]
    <3>1. o.unmerging = op[p].unmerging
      BY <1>0 DEF Op
    <3>2. MayHold("take", o, req[p]) = H
      BY <3>1, <2>4, Fields, MayUnmerge DEF InPlaceOf
    <3> QED BY <2>1, <2>2, <2>4, <2>s, <3>2, <1>i, HoldAll
  <2> QED BY <2>3, <2>4
<1>4. CASE PutBack(p)
  BY <1>4, HoldNext DEF PutBack, At
<1>5. CASE TeardownWorkspace(p)
  <2>1. MayHold(pc[p], op[p], req[p]) = {}
    BY <1>5 DEF TeardownWorkspace, At, MayHold
  <2>2. Same(stack, stack') /\ \A s \in Subs : sub'[s] \in {sub[s], "lost"}
    BY <1>5, <1>0, TeardownSame, TeardownSubs DEF TeardownWorkspace
  <2>3. PICK l, o : Goes(p, l, o)
    BY <1>5 DEF TeardownWorkspace, Finish
  <2> QED BY <2>1, <2>2, <2>3, <1>i, HoldNone
<1> QED BY <1>1, <1>2, <1>3, <1>4, <1>5

(* Staging and going live may hold the mounts of every hierarchy; the commit
   lets go of all of them. *)
LEMMA HoldStage ==
  ASSUME Inv, HoldInv, NEW p \in Procs,
         KeepHost(p) \/ StageOverlay(p) \/ TakeHostMounts(p) \/ AttachStaged(p) \/
           Staged(p) \/ MoveOverlay(p) \/ Commit(p)
  PROVE  HoldInv'
<1>0. /\ KernelInv /\ op[p] \in Op /\ PhaseOf(pc[p], op[p], req[p], stack)
  BY Facts
<1>i. /\ pc[p] \in Inside /\ UNCHANGED req /\ pc[p] \in {"stage", "carry", "adopt", "move"}
  BY DEF KeepHost, StageOverlay, TakeHostMounts, AttachStaged, Staged, MoveOverlay, Commit,
         At, Inside, Outside, Labels
<1>n. p \notin {"host", "overlay", "lost"} /\ "overlay" \notin Dirs
  BY NamesAssumption DEF Reserved
<1>g. op[p].gen \in Dirs
  BY <1>0, <1>i DEF PhaseOf, Swaps
<1>v. \A h \in H : Visible(h) \in {"host", "overlay"}
                   /\ (Visible(h) = "overlay" => stack[h] # <<>>)
  BY DEF Visible
<1>m. ASSUME NEW l \in {"stage", "carry", "adopt", "move"}, NEW o PROVE MayHold(l, o, req[p]) = H
  BY DEF MayHold
<1>1. CASE KeepHost(p)
  <2>0. PICK h \in H : Attach(p, h, Visible(h)) /\ Goes(p, "stage", [op[p] EXCEPT !.todo = @ \ {h}])
    BY <1>1 DEF KeepHost
  <2>1. \A s \in Subs : sub'[s] = sub[s] \/ (Home[s] = h /\ sub'[s] = Visible(h))
    BY <2>0 DEF Attach, Carry
  <2>2. UNCHANGED stack
    BY <1>1 DEF KeepHost
  <2>3. \A s \in Subs : sub'[s] = "overlay" => stack'[Home[s]] # <<>>
    BY <2>1, <2>2, <1>v DEF HoldInv
  <2>4. \A s \in Subs : sub'[s] \in {sub[s], p, "host", "overlay", "lost"} \cup Dirs
    BY <2>1, <1>v
  <2> QED BY <2>0, <2>3, <2>4, <1>i, <1>m, HoldAll
<1>2. CASE StageOverlay(p) \/ Staged(p)
  <2>1. UNCHANGED <<stack, sub>>
    BY <1>2 DEF StageOverlay, Staged, kernel
  <2>l. PICK l \in {"carry", "move"} : \E o : Goes(p, l, o)
    BY <1>2 DEF StageOverlay, Staged
  <2>2. PICK o : Goes(p, l, o)
    BY <2>l
  <2>3. \A s \in Subs : sub'[s] = "overlay" => stack'[Home[s]] # <<>>
    BY <2>1 DEF HoldInv
  <2>4. \A s \in Subs : sub'[s] \in {sub[s], p, "host", "overlay", "lost"} \cup Dirs
    BY <2>1
  <2> QED BY <2>2, <2>3, <2>4, <1>i, <1>m, HoldAll
<1>3. CASE TakeHostMounts(p)
  <2>1. UNCHANGED stack /\ Goes(p, "adopt", op[p])
    BY <1>3 DEF TakeHostMounts
  <2>2. \A s \in Subs : sub'[s] \in {sub[s], p}
    BY <1>3 DEF TakeHostMounts, Carry
  <2>3. \A s \in Subs : sub'[s] = "overlay" => stack'[Home[s]] # <<>>
    BY <2>1, <2>2, <1>n DEF HoldInv
  <2>4. \A s \in Subs : sub'[s] \in {sub[s], p, "host", "overlay", "lost"} \cup Dirs
    BY <2>2
  <2> QED BY <2>1, <2>3, <2>4, <1>i, <1>m, HoldAll
<1>4. CASE AttachStaged(p)
  <2>0. PICK h \in H : /\ Attach(p, h, op[p].gen)
                       /\ Goes(p, "stage", [op[p] EXCEPT !.todo = @ \ {h}])
    BY <1>4 DEF AttachStaged
  <2>1. UNCHANGED stack
    BY <1>4 DEF AttachStaged
  <2>2. \A s \in Subs : sub'[s] \in {sub[s], op[p].gen}
    BY <2>0 DEF Attach, Carry
  <2>3. \A s \in Subs : sub'[s] = "overlay" => stack'[Home[s]] # <<>>
    BY <2>1, <2>2, <1>n, <1>g DEF HoldInv
  <2>4. \A s \in Subs : sub'[s] \in {sub[s], p, "host", "overlay", "lost"} \cup Dirs
    BY <2>2, <1>g
  <2> QED BY <2>0, <2>3, <2>4, <1>i, <1>m, HoldAll
<1>5. CASE MoveOverlay(p)
  <2>0. PICK h \in H :
          /\ stack' = [stack EXCEPT ![h] = Append(@, [names |-> op[p].images,
                         mutable |-> req[p].mutable, loc |-> op[p].gen])]
          /\ Carry(h, op[p].gen, "overlay")
          /\ Goes(p, "move", [op[p] EXCEPT !.staged = @ \ {h}, !.attached = @ \cup {h},
                                           !.todo = @ \ {h}])
    BY <1>5 DEF MoveOverlay
  <2>1. \A s \in Subs : sub'[s] = sub[s] \/ (Home[s] = h /\ sub'[s] = "overlay")
    BY <2>0 DEF Carry
  <2>2. stack'[h] # <<>> /\ \A g \in H \ {h} : stack'[g] = stack[g]
    BY <2>0, <1>0 DEF KernelInv
  <2>3. \A s \in Subs : sub'[s] = "overlay" => stack'[Home[s]] # <<>>
    <3> TAKE s \in Subs
    <3>1. CASE Home[s] = h
      BY <3>1, <2>2
    <3>2. CASE Home[s] # h
      BY <3>2, <2>1, <2>2, HomeAssumption DEF HoldInv
    <3> QED BY <3>1, <3>2
  <2>4. \A s \in Subs : sub'[s] \in {sub[s], p, "host", "overlay", "lost"} \cup Dirs
    BY <2>1
  <2> QED BY <2>0, <2>3, <2>4, <1>i, <1>m, HoldAll
<1>6. CASE Commit(p)
  <2>1. \A s \in Subs : sub'[s] = IF sub[s] = p THEN "lost" ELSE sub[s]
    BY <1>6 DEF Commit
  <2>2. UNCHANGED stack
    BY <1>6 DEF Commit
  <2>3. PICK l, o : Goes(p, l, o)
    BY <1>6 DEF Commit, Finish
  <2>4. \A s \in Subs : sub'[s] # p
    BY <2>1, <1>n
  <2>5. \A s \in Subs : sub'[s] = "overlay" => stack'[Home[s]] # <<>>
    BY <2>1, <2>2 DEF HoldInv
  <2>6. \A s \in Subs : sub'[s] \in {sub[s], p, "host", "overlay", "lost"} \cup Dirs
    BY <2>1
  <2> QED BY <2>3, <2>4, <2>5, <2>6, <1>i, HoldStep
<1> QED BY <1>1, <1>2, <1>3, <1>4, <1>5, <1>6

(* promote moves no mount. *)
LEMMA HoldPromote ==
  ASSUME Inv, HoldInv, NEW p \in Procs,
         PromoteClear(p) \/ PromoteDrop(p) \/ DropRefused(p) \/ PromoteImage(p) \/
           ImagesPromoted(p) \/ PromoteLayers(p) \/ PromoteDone(p) \/ PromoteFails(p)
  PROVE  HoldInv'
<1>0. KernelInv
  BY Facts
<1>i. pc[p] \in Inside /\ UNCHANGED <<req, sub>> /\ pc[p] \in Layers
  BY DEF PromoteClear, PromoteDrop, DropRefused, PromoteImage, ImagesPromoted,
     PromoteLayers,
         PromoteDone, PromoteFails, At, kernel, Inside, Outside, Labels, Layers
<1>h. MayHold(pc[p], op[p], req[p]) = {}
  BY <1>i DEF MayHold, Layers
<1>1. Same(stack, stack')
  <2>1. CASE PromoteDrop(p) \/ PromoteLayers(p)
    BY <2>1, <1>0, OneSame DEF PromoteDrop, PromoteLayers
  <2>2. CASE PromoteDone(p)
    BY <2>2, <1>0, AllSame DEF PromoteDone
  <2>3. CASE UNCHANGED stack
    BY <2>3, UnchangedSame
  <2> QED BY <2>1, <2>2, <2>3 DEF PromoteClear, DropRefused, PromoteImage, ImagesPromoted,
                                  PromoteFails, kernel
<1>2. PICK l, o : Goes(p, l, o)
  BY DEF PromoteClear, PromoteDrop, DropRefused, PromoteImage, ImagesPromoted,
     PromoteLayers,
         PromoteDone, PromoteFails, Finish
<1>3. \A s \in Subs : sub'[s] \in {sub[s], "lost"}
  BY <1>i
<1> QED BY <1>1, <1>2, <1>3, <1>i, <1>h, HoldNone

(* abort holds mounts of hierarchies it has not restored yet only. *)
LEMMA HoldUndo ==
  ASSUME Inv, HoldInv, NEW p \in Procs,
         AbortTake(p) \/ AbortDetach(p) \/ AbortAttach(p) \/ AbortRelease(p)
  PROVE  HoldInv'
<1>0. KernelInv /\ op[p] \in Op
  BY Facts
<1>i. pc[p] \in Inside /\ UNCHANGED req /\ pc[p] \in {"abort", "detach", "restore"}
  BY DEF AbortTake, AbortDetach, AbortAttach, AbortRelease, At, Inside, Outside, Labels
<1>n. p \notin {"host", "overlay", "lost"}
  BY NamesAssumption DEF Reserved
<1>m. ASSUME NEW l \in {"abort", "detach", "restore"}, NEW o PROVE MayHold(l, o, req[p]) = o.todo
  BY DEF MayHold
<1>h. \A s \in Subs : sub[s] = p => Home[s] \in op[p].todo
  BY <1>i, <1>m DEF HoldInv, Holds
<1>1. CASE AbortTake(p)
  <2>0. PICK h \in H : Last(h, op[p].todo) /\ (Carry(h, Where(p, h), p) \/ UNCHANGED sub)
    BY <1>1 DEF AbortTake
  <2>1. Goes(p, "detach", op[p]) /\ UNCHANGED stack
    BY <1>1 DEF AbortTake
  <2>2. \A s \in Subs : sub'[s] = sub[s] \/ (Home[s] = h /\ sub'[s] = p)
    BY <2>0 DEF Carry
  <2>3. \A s \in Subs : sub'[s] = p => Home[s] \in MayHold("detach", op[p], req[p])
    BY <2>0, <2>2, <1>h, <1>m DEF Last
  <2>4. \A s \in Subs : sub'[s] = "overlay" => stack'[Home[s]] # <<>>
    BY <2>1, <2>2, <1>n DEF HoldInv
  <2>5. \A s \in Subs : sub'[s] \in {sub[s], p, "host", "overlay", "lost"} \cup Dirs
    BY <2>2
  <2> QED BY <2>1, <2>3, <2>4, <2>5, <1>i, HoldStep
<1>2. CASE AbortDetach(p)
  <2>0. PICK h \in H :
          /\ \/ Pop(h) /\ UNCHANGED stage
             \/ Carry(h, op[p].gen, "lost") /\ UNCHANGED stack
             \/ UNCHANGED <<stack, sub>>
          /\ Goes(p, "restore", [op[p] EXCEPT !.attached = @ \ {h}, !.staged = @ \ {h}])
    BY <1>2 DEF AbortDetach
  <2> DEFINE o == [op[p] EXCEPT !.attached = @ \ {h}, !.staged = @ \ {h}]
  <2>1. /\ \A s \in Subs : sub'[s] \in {sub[s], "lost"}
        /\ \A s \in Subs : sub'[s] = "overlay" => stack'[Home[s]] # <<>>
    <3>1. CASE Pop(h) /\ UNCHANGED stage
      BY <1>2, <3>1, PopOn DEF AbortDetach
    <3>2. CASE Carry(h, op[p].gen, "lost") /\ UNCHANGED stack
      BY <3>2 DEF Carry, HoldInv
    <3>3. CASE UNCHANGED <<stack, sub>>
      BY <3>3 DEF HoldInv
    <3> QED BY <2>0, <3>1, <3>2, <3>3
  <2>2. o.todo = op[p].todo
    BY <1>0 DEF Op
  <2>3. \A s \in Subs : sub'[s] = p => Home[s] \in MayHold("restore", o, req[p])
    BY <2>1, <2>2, <1>h, <1>m, <1>n
  <2>4. \A s \in Subs : sub'[s] \in {sub[s], p, "host", "overlay", "lost"} \cup Dirs
    BY <2>1
  <2> QED BY <2>0, <2>1, <2>3, <2>4, <1>i, HoldStep
<1>3. CASE AbortAttach(p)
  <2>0. PICK h \in H : /\ Attach(p, h, Visible(h)) \/ AttachSomeClose(p, h, Visible(h))
                       /\ Goes(p, "abort", [op[p] EXCEPT !.todo = @ \ {h}])
    BY <1>3 DEF AbortAttach
  <2> DEFINE o == [op[p] EXCEPT !.todo = @ \ {h}]
  <2>1. UNCHANGED stack
    BY <1>3 DEF AbortAttach
  <2>2. Visible(h) \in {"host", "overlay"} /\ (Visible(h) = "overlay" => stack'[h] # <<>>)
    BY <2>1 DEF Visible
  <2>3. \A s \in Subs : sub'[s] = sub[s] \/ sub'[s] = "lost" \/ (Home[s] = h /\ sub'[s] = Visible(h))
    BY <2>0 DEF Attach, Carry, AttachSomeClose
  <2>4. \A s \in Subs : sub'[s] = p => sub[s] = p /\ Home[s] # h
    BY <2>0, <2>2, <1>n DEF Attach, Carry, AttachSomeClose
  <2>5. o.todo = op[p].todo \ {h}
    BY <1>0 DEF Op
  <2>6. \A s \in Subs : sub'[s] = p => Home[s] \in MayHold("abort", o, req[p])
    BY <2>4, <2>5, <1>h, <1>m
  <2>7. \A s \in Subs : sub'[s] = "overlay" => stack'[Home[s]] # <<>>
    BY <2>1, <2>2, <2>3 DEF HoldInv
  <2>8. \A s \in Subs : sub'[s] \in {sub[s], p, "host", "overlay", "lost"} \cup Dirs
    BY <2>2, <2>3
  <2> QED BY <2>0, <2>6, <2>7, <2>8, <1>i, HoldStep
<1>4. CASE AbortRelease(p)
  <2>1. MayHold(pc[p], op[p], req[p]) = {}
    BY <1>4, <1>i, <1>m DEF AbortRelease
  <2>2. Same(stack, stack') /\ \A s \in Subs : sub'[s] \in {sub[s], "lost"}
    BY <1>4, <1>0, TeardownSame, TeardownSubs, DiscardSame, DiscardSubs, UnchangedSame
       DEF AbortRelease, NotReleased
  <2>3. PICK l, o : Goes(p, l, o)
    BY <1>4 DEF AbortRelease, Finish
  <2> QED BY <2>1, <2>2, <2>3, <1>i, HoldNone
<1> QED BY <1>1, <1>2, <1>3, <1>4

(* Steps that fail keep HoldInv. *)
LEMMA HoldFails ==
  ASSUME Inv, HoldInv, NEW p \in Procs, Fails(p)
  PROVE  HoldInv'
<1>0. /\ KernelInv /\ op[p] \in Op /\ PhaseOf(pc[p], op[p], req[p], stack)
  BY Facts
<1>i. pc[p] \in Inside /\ UNCHANGED req
  BY DEF Fails, CheckFails, WorkspaceFails, MountImageFails, CallbackFails, PlanFails,
     TakeFails,
         UnmountFails, PutBackFails, TeardownFails, KeepHostFails, StageFails,
         TakeHostMountsFails, AttachStagedFails, MoveFails, PromoteFails, Prepared,
         At, Inside, Outside, Labels
<1>n. p \notin {"host", "overlay", "lost"} /\ "overlay" \notin Dirs
  BY NamesAssumption DEF Reserved
<1>h. \A s \in Subs : sub[s] = p => Home[s] \in MayHold(pc[p], op[p], req[p])
  BY DEF HoldInv, Holds
<1>v. \A h \in H : Visible(h) \in {"host", "overlay"}
                   /\ (Visible(h) = "overlay" => stack[h] # <<>>)
  BY DEF Visible
<1>a. ASSUME NEW o \in Op, Abort(p, o), \A s \in Subs : sub'[s] \in {sub[s], "lost"},
             Same(stack, stack')
      PROVE  HoldInv'
  <2>1. \A s \in Subs : sub'[s] = "overlay" => stack'[Home[s]] # <<>>
    BY <1>a, StillOn
  <2>2. \A s \in Subs : sub'[s] \in {sub[s], p, "host", "overlay", "lost"} \cup Dirs
    BY <1>a
  <2> QED BY <1>a, <2>1, <2>2, <1>i, HoldAbort
<1>u. UNCHANGED <<stack, sub>> => Same(stack, stack') /\ \A s \in Subs : sub'[s] \in {sub[s], "lost"}
  BY UnchangedSame
<1>e. ASSUME UnmergeError(p), pc[p] \in {"take", "umount"},
             \A s \in Subs : sub'[s] \in {sub[s], "lost"},
             \A s \in Subs : sub'[s] = "overlay" => stack'[Home[s]] # <<>>
      PROVE  HoldInv'
  <2>s. \A s \in Subs : sub'[s] \in {sub[s], p, "host", "overlay", "lost"} \cup Dirs
    BY <1>e
  <2>1. CASE InPlace(p)
    <3> DEFINE o == [op[p] EXCEPT !.res = "error"]
    <3>1. o.todo = op[p].todo /\ o.unmerging = op[p].unmerging
      BY <1>0 DEF Op
    <3>2. InPlaceOf(o, req[p]) /\ InPlaceOf(op[p], req[p])
      BY <3>1, <2>1, Fields DEF InPlaceOf
    <3>3. MayHold("putback", o, req[p]) = MayHold(pc[p], op[p], req[p])
      <4>1. MayHold("putback", o, req[p]) = {h \in H : First(h, o.todo)}
        BY <3>2, MayUnmerge
      <4>2. MayHold(pc[p], op[p], req[p]) = {h \in H : First(h, op[p].todo)}
        BY <3>2, <1>e, MayUnmerge
      <4> QED BY <4>1, <4>2, <3>1
    <3>4. \A s \in Subs : sub'[s] = p => Home[s] \in MayHold("putback", o, req[p])
      BY <3>3, <1>e, <1>h, <1>n
    <3> QED BY <1>e, <2>1, <2>s, <3>4, <1>i, HoldStep DEF UnmergeError
  <2>2. CASE ~InPlace(p)
    BY <1>e, <2>2, <2>s, <1>0, <1>i, HoldAbort DEF UnmergeError
  <2> QED BY <2>1, <2>2
<1>1. CASE CheckFails(p) \/ CallbackFails(p) \/ PlanFails(p) \/ TakeHostMountsFails(p) \/ MoveFails(p)
  BY <1>1, <1>0, <1>a, <1>u DEF CheckFails, CallbackFails, PlanFails, TakeHostMountsFails,
                                MoveFails, kernel
<1>2. CASE MountImageFails(p)
  BY <1>2, <1>0, <1>a, <1>u DEF MountImageFails
<1>3. CASE WorkspaceFails(p)
  <2>1. Same(stack, stack') /\ \A s \in Subs : sub'[s] \in {sub[s], "lost"}
    BY <1>3, <1>0, <1>u, TeardownSame, TeardownSubs DEF WorkspaceFails, kernel
  <2> QED BY <1>3, <2>1, <1>0, <1>a DEF WorkspaceFails
<1>4. CASE KeepHostFails(p)
  <2>0. PICK h \in H : AttachSome(p, h, Visible(h))
    BY <1>4 DEF KeepHostFails
  <2>1. \A s \in Subs : sub'[s] = sub[s] \/ (Home[s] = h /\ sub'[s] = Visible(h))
    BY <2>0 DEF AttachSome
  <2>2. UNCHANGED stack /\ Abort(p, op[p])
    BY <1>4 DEF KeepHostFails
  <2>3. \A s \in Subs : sub'[s] = "overlay" => stack'[Home[s]] # <<>>
    BY <2>1, <2>2, <1>v DEF HoldInv
  <2>4. \A s \in Subs : sub'[s] \in {sub[s], p, "host", "overlay", "lost"} \cup Dirs
    BY <2>1, <1>v
  <2> QED BY <2>2, <2>3, <2>4, <1>0, <1>i, HoldAbort
<1>5. CASE AttachStagedFails(p)
  <2>0. PICK h \in H : AttachSome(p, h, op[p].gen)
    BY <1>5 DEF AttachStagedFails
  <2>1. \A s \in Subs : sub'[s] \in {sub[s], op[p].gen}
    BY <2>0 DEF AttachSome
  <2>2. UNCHANGED stack /\ Abort(p, op[p]) /\ op[p].gen \in Dirs
    BY <1>5, <1>0 DEF AttachStagedFails, At, PhaseOf, Swaps
  <2>3. \A s \in Subs : sub'[s] = "overlay" => stack'[Home[s]] # <<>>
    BY <2>1, <2>2, <1>n DEF HoldInv
  <2>4. \A s \in Subs : sub'[s] \in {sub[s], p, "host", "overlay", "lost"} \cup Dirs
    BY <2>1, <2>2
  <2> QED BY <2>2, <2>3, <2>4, <1>0, <1>i, HoldAbort
<1>6. CASE StageFails(p)
  <2>0. PICK h \in H : \/ Abort(p, op[p])
                       \/ Abort(p, [op[p] EXCEPT !.staged = @ \cup {h}])
    BY <1>6 DEF StageFails
  <2>1. [op[p] EXCEPT !.staged = @ \cup {h}] \in Op
    BY <1>0 DEF Op
  <2>2. UNCHANGED <<stack, sub>>
    BY <1>6 DEF StageFails
  <2> QED BY <2>0, <2>1, <2>2, <1>0, <1>a, <1>u
<1>7. CASE TakeFails(p)
  <2>1. pc[p] = "take" /\ UnmergeError(p) /\ UNCHANGED <<stack, sub>>
    BY <1>7 DEF TakeFails, At, kernel
  <2>2. \A s \in Subs : sub'[s] = "overlay" => stack'[Home[s]] # <<>>
    BY <2>1 DEF HoldInv
  <2> QED BY <2>1, <2>2, <1>u, <1>e
<1>8. CASE UnmountFails(p)
  <2>0. pc[p] = "umount" /\ UNCHANGED <<dirs, img, stage>>
    BY <1>8 DEF UnmountFails, At
  <2>1. PICK h \in H :
          \/ UNCHANGED <<stack, sub>> /\ UnmergeError(p)
          \/ Pop(h) /\ (UnmergeError(p) \/ Abort(p, [op[p] EXCEPT !.unmerged = @ \cup {h}]))
    BY <1>8 DEF UnmountFails
  <2>2. /\ \A s \in Subs : sub'[s] \in {sub[s], "lost"}
        /\ \A s \in Subs : sub'[s] = "overlay" => stack'[Home[s]] # <<>>
    <3>1. CASE UNCHANGED <<stack, sub>>
      BY <3>1 DEF HoldInv
    <3>2. CASE Pop(h)
      BY <3>2, <2>0, PopOn
    <3> QED BY <2>1, <3>1, <3>2
  <2>3. [op[p] EXCEPT !.unmerged = @ \cup {h}] \in Op
    BY <1>0 DEF Op
  <2>4. \A s \in Subs : sub'[s] \in {sub[s], p, "host", "overlay", "lost"} \cup Dirs
    BY <2>2
  <2>5. CASE UnmergeError(p)
    BY <2>5, <2>0, <2>2, <1>e
  <2>6. CASE Abort(p, [op[p] EXCEPT !.unmerged = @ \cup {h}])
    BY <2>6, <2>2, <2>3, <2>4, <1>i, HoldAbort
  <2> QED BY <2>1, <2>5, <2>6
<1>9. CASE PutBackFails(p)
  BY <1>9, HoldNext DEF PutBackFails, At
<1>10. CASE TeardownFails(p)
  <2>1. MayHold(pc[p], op[p], req[p]) = {}
    BY <1>10 DEF TeardownFails, At, MayHold
  <2>2. Same(stack, stack') /\ \A s \in Subs : sub'[s] \in {sub[s], "lost"}
    BY <1>10, <1>0, <1>u, TeardownSame, TeardownSubs DEF TeardownFails, kernel
  <2>3. PICK l, o : Goes(p, l, o)
    BY <1>10 DEF TeardownFails, Finish, Abort
  <2> QED BY <2>1, <2>2, <2>3, <1>i, HoldNone
<1>11. CASE PromoteFails(p)
  BY <1>11, HoldPromote
<1> QED BY <1>1, <1>2, <1>3, <1>4, <1>5, <1>6, <1>7, <1>8, <1>9, <1>10, <1>11 DEF Fails

(* The lock is taken or released with no clone held; the death of its holder
   closes the clones. *)
LEMMA HoldLock ==
  ASSUME Inv, HoldInv, NEW p \in Procs, Begin(p) \/ Acquire(p) \/ Unlock(p) \/ Crash(p)
  PROVE  HoldInv'
<1>t. pc \in [Procs -> Labels] /\ op \in [Procs -> Op] /\ req \in [Procs -> Request]
  BY DEF Inv, TypeOK
<1>1. \A q \in Procs \ {p} : pc'[q] = pc[q] /\ op'[q] = op[q] /\ req'[q] = req[q]
  BY <1>t DEF Begin, Acquire, Unlock, Crash, Leave, Goes
<1>2. UNCHANGED stack /\ \A s \in Subs : sub'[s] \in {sub[s], "lost"}
  BY DEF Begin, Acquire, Unlock, Crash, kernel
<1>3. \A q \in Procs : q # "lost"
  BY NamesAssumption DEF Reserved
<1>4. \A q \in Procs \ {p} : Holds(q)'
  BY <1>1, <1>2, <1>3 DEF HoldInv, Holds
<1>5. \A s \in Subs : sub'[s] = "overlay" => stack'[Home[s]] # <<>>
  BY <1>2 DEF HoldInv
<1>6. \A s \in Subs : sub'[s] # p
  <2>1. CASE Crash(p)
    BY <2>1, <1>3 DEF Crash
  <2>2. CASE Begin(p) \/ Acquire(p) \/ Unlock(p)
    <3>1. MayHold(pc[p], op[p], req[p]) = {}
      BY <2>2 DEF Begin, Acquire, Unlock, MayHold
    <3> QED BY <3>1, <1>2, <1>3 DEF HoldInv, Holds
  <2> QED BY <2>1, <2>2
<1>7. Holds(p)'
  BY <1>6 DEF Holds
<1> QED BY <1>4, <1>5, <1>7 DEF HoldInv

(* Every step keeps HoldInv. *)
LEMMA HoldNextStep ==
  ASSUME Inv, HoldInv, Next
  PROVE  HoldInv'
<1>0. PICK p \in Procs : Begin(p) \/ Acquire(p) \/ Works(p) \/ Fails(p) \/ Unlock(p) \/ Crash(p)
  BY DEF Next
<1>1. CASE Begin(p) \/ Acquire(p) \/ Unlock(p) \/ Crash(p)
  BY <1>1, HoldLock
<1>2. CASE Works(p)
  BY <1>2, HoldPrepare, HoldUnmerge, HoldStage, HoldPromote, HoldUndo DEF Works
<1>3. CASE Fails(p)
  BY <1>3, HoldFails
<1> QED BY <1>0, <1>1, <1>2, <1>3

(* Initially all mounts are on their hosts. *)
LEMMA HoldInit == Init => HoldInv
<1>1. \A q \in Procs : q # "host"
  BY NamesAssumption DEF Reserved
<1> QED BY <1>1 DEF Init, HoldInv, Holds

(* HoldInv is an invariant. *)
LEMMA HoldAlways == Spec => []HoldInv
<1>1. Init => HoldInv
  BY HoldInit
<1>2. HoldInv /\ UNCHANGED vars => HoldInv'
  BY DEF HoldInv, Holds, vars, kernel
<1>3. Inv /\ HoldInv /\ [Next]_vars => HoldInv'
  BY <1>2, HoldNextStep
<1> QED BY <1>1, <1>3, Invariance, PTL DEF Spec

-----------------------------------------------------------------------------
(* Where an unmerge in place is over, the workspace and its mounts are gone. *)
ClearInv == \A p \in Procs : Cleared(p)

(* Only the teardown of the workspace ends an operation in place with
   "unmerged" or "nothing", and nothing changes until the lock is released. *)
LEMMA ClearStep ==
  ASSUME Inv, ShowInv, ClearInv, Next
  PROVE  ClearInv'
<1>0. PICK p \in Procs : Begin(p) \/ Acquire(p) \/ Works(p) \/ Fails(p) \/ Unlock(p) \/ Crash(p)
  BY DEF Next
<1>t. pc \in [Procs -> Labels] /\ op \in [Procs -> Op] /\ req \in [Procs -> Request]
  BY DEF Inv, TypeOK
<1>p. /\ KernelInv /\ op[p] \in Op /\ PhaseOf(pc[p], op[p], req[p], stack)
      /\ ShowsOf(pc[p], op[p], req[p], stack)
  BY Given
<1>1. CASE Begin(p)
  <2>1. pc'[p] = "lock" /\ \A q \in Procs \ {p} : pc'[q] = pc[q] /\ op'[q] = op[q] /\ req'[q] = req[q]
    BY <1>1, <1>t DEF Begin, Goes
  <2>2. UNCHANGED <<dirs, sub>>
    BY <1>1 DEF Begin, kernel
  <2> QED BY <2>1, <2>2 DEF ClearInv, Cleared, InPlace
<1>2. CASE Acquire(p)
  <2>1. \A q \in Procs : pc[q] # "unlock"
    BY <1>2, NamesAssumption DEF Acquire, Inv, Exclusive
  <2>2. \A q \in Procs : pc'[q] # "unlock"
    BY <1>2, <2>1, <1>t DEF Acquire, Goes
  <2> QED BY <2>2 DEF ClearInv, Cleared
<1>3. CASE Unlock(p) \/ Crash(p)
  <2>1. lock = p /\ Leave(p)
    BY <1>3 DEF Unlock, Crash, Inv, Exclusive
  <2>2. \A q \in Procs : pc'[q] # "unlock"
    BY <2>1, <1>t DEF Leave, Goes, Inv, Exclusive
  <2> QED BY <2>2 DEF ClearInv, Cleared
<1>4. CASE Works(p) \/ Fails(p)
  <2>i. pc[p] \in Inside /\ UNCHANGED req
    BY <1>4 DEF Works, Fails, Check, ResetWorkspace, UseWorkspace, MountImage, PlanNothing,
       Callback, PlanUnchanged, PlanSwap, TakeSubmounts, HierarchyUnmerged, Unmount, PutBack,
       TeardownWorkspace, KeepHost, StageOverlay, TakeHostMounts, AttachStaged, Staged,
       MoveOverlay, Commit, PromoteClear, PromoteDrop, DropRefused, PromoteImage,
       ImagesPromoted, PromoteLayers, PromoteDone, AbortTake, AbortDetach, AbortAttach,
       AbortRelease, CheckFails, WorkspaceFails, MountImageFails, CallbackFails, PlanFails,
       TakeFails, UnmountFails, PutBackFails, TeardownFails, KeepHostFails, StageFails,
       TakeHostMountsFails, AttachStagedFails, MoveFails, PromoteFails, Prepared, At,
       Inside, Outside, Labels
  <2>q. ASSUME NEW q \in Procs \ {p} PROVE Cleared(q)'
    <3>1. pc[q] \in Outside
      BY <2>i DEF Inv, Exclusive, Inside, Outside
    <3>2. PICK l, o : Goes(p, l, o)
      BY <1>4 DEF Works, Fails, Check, ResetWorkspace, UseWorkspace, MountImage,
         PlanNothing,
       Callback, PlanUnchanged, PlanSwap, TakeSubmounts, HierarchyUnmerged, Unmount, PutBack,
       TeardownWorkspace, KeepHost, StageOverlay, TakeHostMounts, AttachStaged, Staged,
       MoveOverlay, Commit, PromoteClear, PromoteDrop, DropRefused, PromoteImage,
       ImagesPromoted, PromoteLayers, PromoteDone, AbortTake, AbortDetach, AbortAttach,
       AbortRelease, CheckFails, WorkspaceFails, MountImageFails, CallbackFails, PlanFails,
       TakeFails, UnmountFails, PutBackFails, TeardownFails, KeepHostFails, StageFails,
       TakeHostMountsFails, AttachStagedFails, MoveFails, PromoteFails, Abort, Finish,
       UnmergeError, UnmergeNext
    <3>3. pc'[q] = pc[q]
      BY <3>2, <1>t DEF Goes
    <3> QED BY <3>1, <3>3 DEF Cleared, Outside
  <2>p. Cleared(p)'
    <3>1. CASE TeardownWorkspace(p)
      BY <3>1, <1>p, TeardownSubs DEF TeardownWorkspace, Cleared
    <3>2. CASE PlanNothing(p)
      <4>1. ~InPlaceOf(op[p], req[p])
        BY <3>2, <1>p DEF PlanNothing, Prepared, At, ShowsOf
      <4> DEFINE n == [op[p] EXCEPT !.res = "nothing"]
      <4>2. CASE Finish(p, "nothing")
        <5>1. n.unmerging = op[p].unmerging
          BY <1>p DEF Op
        <5>2. op'[p] = n /\ req'[p] = req[p]
          BY <4>2, <2>i, <1>t DEF Finish, Goes
        <5>3. ~InPlace(p)'
          BY <4>1, <5>1, <5>2 DEF InPlace, InPlaceOf
        <5> QED BY <5>3 DEF Cleared
      <4>3. CASE pc' = [pc EXCEPT ![p] = "callback"]
        BY <4>3, <1>t DEF Cleared
      <4> QED BY <3>2, <4>2, <4>3 DEF PlanNothing, Goes
    <3>3. ASSUME NEW result \in {"merged", "cleanup", "error", "unchanged"}, Finish(p, result)
          PROVE  Cleared(p)'
      <4>1. op'[p] = [op[p] EXCEPT !.res = result]
        BY <3>3, <1>t DEF Finish, Goes
      <4>2. op'[p].res = result
        BY <4>1, <1>p DEF Op
      <4> QED BY <4>2, <3>3 DEF Cleared
    <3>4. ASSUME NEW l \in Labels \ {"unlock"}, NEW o, Goes(p, l, o) PROVE Cleared(p)'
      BY <3>4, <1>t DEF Cleared, Goes
    <3>5. ASSUME NEW o, Abort(p, o) PROVE Cleared(p)'
      BY <3>5, <3>4 DEF Abort, Labels
    <3>6. CASE PutBack(p) \/ PutBackFails(p)
      <4>1. PICK h \in H, result \in {"none", "error"} : UnmergeNext(p, h, result)
        <5>1. pc[p] = "putback"
          BY <3>6 DEF PutBack, PutBackFails, At
        <5>2. op[p].res \in {"none", "error"}
          BY <5>1, <1>p DEF ShowsOf
        <5> QED BY <3>6, <5>2 DEF PutBack, PutBackFails
      <4> DEFINE n == [op[p] EXCEPT !.todo = op[p].todo \ {h}, !.res = result]
      <4>2. n.res = result
        BY <1>p DEF Op
      <4>3. CASE Goes(p, "unlock", n)
        <5>1. op'[p].res \in {"none", "error"}
          BY <4>1, <4>2, <4>3, <1>t DEF Goes
        <5> QED BY <5>1 DEF Cleared
      <4> QED BY <4>1, <4>3, <3>4, <3>5 DEF UnmergeNext, Labels
    <3>7. CASE \/ Check(p) \/ ResetWorkspace(p) \/ UseWorkspace(p) \/ MountImage(p) \/ Callback(p)
               \/ PlanUnchanged(p) \/ PlanSwap(p) \/ TakeSubmounts(p) \/ HierarchyUnmerged(p)
               \/ Unmount(p)
      BY <3>7, <3>3, <3>4, <3>5 DEF Check, ResetWorkspace, UseWorkspace, MountImage,
         Callback,
         PlanUnchanged, PlanSwap, TakeSubmounts, HierarchyUnmerged, Unmount, Labels
    <3>8. CASE \/ KeepHost(p) \/ StageOverlay(p) \/ TakeHostMounts(p) \/ AttachStaged(p)
               \/ Staged(p) \/ MoveOverlay(p) \/ AbortTake(p) \/ AbortDetach(p) \/ AbortAttach(p)
      BY <3>8, <3>4 DEF KeepHost, StageOverlay, TakeHostMounts, AttachStaged, Staged,
         MoveOverlay, AbortTake, AbortDetach, AbortAttach, Labels
    <3>9. CASE \/ Commit(p) \/ PromoteClear(p) \/ PromoteDrop(p) \/ DropRefused(p)
               \/ PromoteImage(p) \/ ImagesPromoted(p) \/ PromoteLayers(p) \/ PromoteDone(p)
               \/ PromoteFails(p) \/ AbortRelease(p)
      BY <3>9, <3>3, <3>4 DEF Commit, PromoteClear, PromoteDrop, DropRefused, PromoteImage,
         ImagesPromoted, PromoteLayers, PromoteDone, PromoteFails, AbortRelease, Labels
    <3>10. CASE \/ CheckFails(p) \/ WorkspaceFails(p) \/ MountImageFails(p) \/ CallbackFails(p)
                \/ PlanFails(p) \/ TakeFails(p) \/ UnmountFails(p) \/ KeepHostFails(p)
                \/ StageFails(p) \/ TakeHostMountsFails(p) \/ AttachStagedFails(p) \/ MoveFails(p)
      BY <3>10, <3>4, <3>5 DEF CheckFails, WorkspaceFails, MountImageFails, CallbackFails,
         PlanFails, TakeFails, UnmountFails, KeepHostFails, StageFails, TakeHostMountsFails,
         AttachStagedFails, MoveFails, UnmergeError, Labels
    <3>11. CASE TeardownFails(p)
      BY <3>11, <3>3, <3>5 DEF TeardownFails
    <3> QED BY <1>4, <3>1, <3>2, <3>6, <3>7, <3>8, <3>9, <3>10, <3>11 DEF Works, Fails
  <2> QED BY <2>q, <2>p DEF ClearInv
<1> QED BY <1>0, <1>1, <1>2, <1>3, <1>4

(* ClearInv is an invariant. *)
LEMMA ClearAlways == Spec => []ClearInv
<1>1. Init => ClearInv
  BY DEF Init, ClearInv, Cleared
<1>2. ClearInv /\ UNCHANGED vars => ClearInv'
  BY DEF ClearInv, Cleared, InPlace, vars, kernel
<1>3. Inv /\ ShowInv /\ ClearInv /\ [Next]_vars => ClearInv'
  BY <1>2, ClearStep
<1> QED BY <1>1, <1>3, Invariance, ShowAlways, PTL DEF Spec

(* A successful unmerge, and a refresh that unmerged because nothing qualified,
   leave no overlay, no workspace and every surviving mount on its host. *)
THEOREM UnmergeRestores == Spec => []UnmergeRestoresHost
<1>1. Inv /\ ShowInv /\ HoldInv /\ ClearInv => UnmergeRestoresHost
  <2> SUFFICES ASSUME Inv, ShowInv, HoldInv, ClearInv,
                      NEW p \in Procs, Ends(p, "unmerged") \/ Ends(p, "nothing")
               PROVE  /\ \A h \in H : stack[h] = <<>>
                      /\ InPlace(p) => dirs = {} /\ \A s \in Subs : sub[s] \in {"host", "lost"}
    BY DEF UnmergeRestoresHost
  <2>0. pc[p] = "unlock" /\ op[p].res \in {"unmerged", "nothing"}
    BY DEF Ends
  <2>1. \A h \in H : stack[h] = <<>>
    <3>1. ShowsOf(pc[p], op[p], req[p], stack)
      BY Given
    <3>2. Empty(stack, {})
      BY <2>0, <3>1 DEF ShowsOf
    <3> QED BY <3>2 DEF Empty
  <2>2. ASSUME InPlace(p) PROVE dirs = {} /\ \A s \in Subs : sub[s] \in {"host", "lost"}
    <3>1. dirs = {} /\ \A s \in Subs : sub[s] \notin Dirs
      BY <2>0, <2>2 DEF ClearInv, Cleared
    <3>2. \A s \in Subs : sub[s] # "overlay"
      BY <2>1, HomeAssumption DEF HoldInv
    <3>3. ASSUME NEW s \in Subs, NEW q \in Procs PROVE sub[s] # q
      <4>1. pc[q] \in Outside \/ pc[q] = "unlock"
        BY <2>0 DEF Inv, Exclusive, Outside
      <4>2. MayHold(pc[q], op[q], req[q]) = {}
        BY <4>1 DEF MayHold, Outside
      <4> QED BY <4>2 DEF HoldInv, Holds
    <3>4. \A s \in Subs : sub[s] \in Place
      BY DEF Inv, TypeOK
    <3> QED BY <3>1, <3>2, <3>3, <3>4 DEF Place
  <2> QED BY <2>1, <2>2
<1> QED BY <1>1, Invariance, ShowAlways, HoldAlways, ClearAlways, PTL


-----------------------------------------------------------------------------
(* What programs see on a hierarchy with the overlays x, of which there is
   one at most. *)
Shown(x) == IF x = <<>> THEN NotMerged
           ELSE [names |-> x[1].names, mutable |-> x[1].mutable, merged |-> TRUE]

(* The mounts of a hierarchy with the overlays x are where programs look. *)
Spot(x) == IF x = <<>> THEN "host" ELSE "overlay"

(* The labels before anything is touched, those of abort, and the end of an operation that failed. *)
Preparing == {"check", "workspace", "image", "callback"}
Undoing == {"abort", "detach", "restore"}
Failed(l, o) == l = "unlock" /\ o.res = "error"

(* An operation that neither swaps nor unmerges has shown nothing new and
   taken nothing away. *)
Untouched(st, sb, was) ==
  /\ \A h \in H : Shown(st[h]) = was.view[h]
  /\ \A s \in Subs : was.sub[s] \in {"host", "overlay"} => sb[s] = was.sub[s]

KeptOf(l, o, r, st, sb, was) ==
  /\ l \in {"workspace", "image", "callback"} => \A h \in o.merged : st[h] # <<>>
  /\ /\ l \in Preparing \cup Undoing \/ Failed(l, o)
     /\ ~o.swapping /\ ~InPlaceOf(o, r)
     => Untouched(st, sb, was)
  /\ l \in Preparing => ~o.swapping /\ ~InPlaceOf(o, r)
  /\ l \in Preparing \cup {"take", "umount", "putback"} => o.staged = {} /\ o.attached = {}
  /\ l = "teardown" /\ ~o.swapping => o.staged = {} /\ o.attached = {}
  /\ l \in Undoing /\ ~o.swapping => l = "abort" /\ o.staged = {} /\ o.attached = {}

Kept(p) == pc[p] \in Inside => KeptOf(pc[p], op[p], req[p], stack, sub, before)

(* What is not of the new merge is what it was or gone. *)
Old(st, S, was) == \A h \in H \ S : Shown(st[h]) \in {was.view[h], NotMerged}

BackOf(l, o, st, was) ==
  /\ l \in Undoing => o.attached \subseteq o.todo
  /\ l \notin Layers \cup {"teardown", "unlock"} => Old(st, o.attached, was)
  /\ Failed(l, o) => Old(st, {}, was)

Back(p) == pc[p] \in Inside => BackOf(pc[p], op[p], stack, before)

(* No step fails that puts a mount back where programs look, and none of what
   abort does; and nobody is killed. *)
Careful == Fallible \cap {"putback", "retake", "detach"} = {} /\ MaxCrashes = 0

(* Where the mounts of h may be while p stages the new merge. *)
StagedAt(o, r, h, x, p) ==
  IF h \in o.todo THEN x = IF h \in o.merged THEN p ELSE "host"
  ELSE IF h \in MountsOf(o, r) THEN x = o.gen /\ h \in o.staged
  ELSE x = "host"

(* Where they may be while p undoes a merge, before abort has been at h. *)
UndoneAt(l, o, st, h, x, p) ==
  IF l = "detach" /\ Last(h, o.todo) THEN x = p \/ (h \notin o.attached /\ x = Spot(st[h]))
  ELSE IF h \in o.attached THEN x \in {p, "overlay"}
  ELSE x \in {p, Spot(st[h])} \/ (h \in o.staged /\ x = o.gen)

(* The labels where all mounts are where programs look. *)
Settled == Preparing \cup Layers \cup {"teardown", "unlock"}

(* A mount below h, which is at x, while p is at a label. *)
SitsAt(l, o, r, st, h, x, p) ==
  /\ l \in Settled => x = Spot(st[h])
  /\ l \in {"take", "umount"} /\ InPlaceOf(o, r) =>
       IF ~First(h, o.todo) THEN x = Spot(st[h])
       ELSE x = p \/ (l = "take" /\ x = Spot(st[h]))
  /\ l \in {"take", "umount"} /\ ~InPlaceOf(o, r) =>
       x = IF h \in o.merged /\ (st[h] = <<>> \/ (l = "umount" /\ First(h, o.todo)))
           THEN p ELSE Spot(st[h])
  /\ l = "putback" => x = Spot(st[h]) \/ (First(h, o.todo) /\ x = p)
  /\ l = "stage" => StagedAt(o, r, h, x, p)
  /\ l \in {"carry", "adopt"} =>
       IF First(h, o.todo) THEN /\ h \in MountsOf(o, r) /\ h \in o.staged
                                /\ x = IF l = "adopt" \/ h \in o.merged THEN p ELSE "host"
       ELSE StagedAt(o, r, h, x, p)
  /\ l = "move" => IF h \in o.attached THEN x = "overlay"
                   ELSE IF h \in o.todo THEN x = o.gen /\ h \in o.staged
                   ELSE x = "host"
  /\ l \in Undoing => IF h \in o.todo THEN UndoneAt(l, o, st, h, x, p) ELSE x = Spot(st[h])

(* A swap takes the mounts of what was merged, and a merge starts from nothing. *)
ChoseOf(l, o, r, was) ==
  /\ was.sub \in [Subs -> {"host", "overlay"}]
  /\ l \in {"take", "umount"} /\ ~InPlaceOf(o, r) => o.todo \subseteq o.merged
  /\ r.verb = "merge" => l # "callback" /\ o.merged = {} /\ ~o.unmerging
  /\ r.verb = "merge" /\ o.swapping =>
       (\A h \in H : was.view[h] = NotMerged) /\ (\A s \in Subs : was.sub[s] = "host")

PlacedOf(l, o, r, st, sb, was, p) ==
  /\ \A s \in Subs : SitsAt(l, o, r, st, Home[s], sb[s], p)
  /\ ChoseOf(l, o, r, was)

Placed(p) == pc[p] \in Inside => PlacedOf(pc[p], op[p], req[p], stack, sub, before, p)

Resting == lock = NoProc => \A s \in Subs : sub[s] = Spot(stack[Home[s]])

KeptInv == \A p \in Procs : Kept(p)
BackInv == "detach" \notin Fallible => \A p \in Procs : Back(p)
PlacedInv == Careful => Resting /\ (\A p \in Procs : Placed(p))

-----------------------------------------------------------------------------
(* Before an operation swaps or unmerges anything. *)

(* Shown is what the hierarchies show, now ... *)
LEMMA SeenView ==
  ASSUME Inv
  PROVE  \A h \in H : View(h) = Shown(stack[h]) /\ Visible(h) = Spot(stack[h])
<1>1. \A h \in H : stack[h] \in Seq(Overlay) /\ Len(stack[h]) <= 1
  BY DEF Inv, TypeOK, NeverStacked
<1>2. \A h \in H : stack[h] # <<>> => Top(h) = stack[h][1]
  BY <1>1, AtMostOne DEF Top
<1> QED BY <1>2 DEF View, Shown, Visible, Spot

(* ... and it is the same wherever the layers are. *)
LEMMA SameSeen ==
  ASSUME NEW st, NEW st2, Same(st, st2)
  PROVE  \A h \in H : Shown(st2[h]) = Shown(st[h]) /\ Spot(st2[h]) = Spot(st[h])
BY DEF Same, Shown, Spot

(* Teardown and discard touch mounts in the workspace only. *)
LEMMA TeardownTouches ==
  ASSUME KernelInv, NEW ds, Teardown(ds)
  PROVE  /\ Same(stack, stack')
         /\ \A s \in Subs : sub[s] \notin Dirs => sub'[s] = sub[s]
BY TeardownSame DEF Teardown

LEMMA DiscardTouches ==
  ASSUME KernelInv, NEW p, Discard(p)
  PROVE  /\ Same(stack, stack')
         /\ \A s \in Subs : sub[s] \notin Dirs => sub'[s] = sub[s]
<1>1. CASE Teardown({})
  BY <1>1, TeardownTouches
<1>2. CASE UNCHANGED <<stack, sub>>
  BY <1>2, UnchangedSame
<1> QED BY <1>1, <1>2 DEF Discard, NotReleased, kernel

(* Preparing and deciding touch no merge, and no mount that programs see. *)
LEMMA PrepareTouches ==
  ASSUME Inv, NEW p \in Procs,
         \/ Check(p) \/ ResetWorkspace(p) \/ UseWorkspace(p) \/ MountImage(p)
         \/ PlanNothing(p) \/ Callback(p) \/ PlanUnchanged(p) \/ PlanSwap(p)
         \/ CheckFails(p) \/ WorkspaceFails(p) \/ MountImageFails(p) \/ CallbackFails(p)
         \/ PlanFails(p)
  PROVE  /\ Same(stack, stack')
         /\ \A s \in Subs : sub[s] \notin Dirs => sub'[s] = sub[s]
<1>0. KernelInv
  BY Facts
<1>u. ASSUME UNCHANGED <<stack, sub>>
      PROVE  /\ Same(stack, stack')
             /\ \A s \in Subs : sub[s] \notin Dirs => sub'[s] = sub[s]
  BY <1>u, UnchangedSame
<1>1. CASE Check(p) \/ MountImage(p) \/ Callback(p) \/ PlanSwap(p) \/ CheckFails(p)
           \/ MountImageFails(p) \/ CallbackFails(p) \/ PlanFails(p)
  BY <1>1, <1>u DEF Check, MountImage, Callback, PlanSwap, CheckFails, MountImageFails,
                    CallbackFails, PlanFails, kernel
<1>2. CASE ResetWorkspace(p) \/ UseWorkspace(p) \/ WorkspaceFails(p)
  BY <1>2, <1>0, <1>u, TeardownTouches DEF ResetWorkspace, UseWorkspace, WorkspaceFails,
     kernel
<1>3. CASE PlanNothing(p) \/ PlanUnchanged(p)
  BY <1>3, <1>0, DiscardTouches DEF PlanNothing, PlanUnchanged
<1> QED BY <1>1, <1>2, <1>3

(* Untouched stays true while no mount is touched that programs see. *)
LEMMA UntouchedStays ==
  ASSUME NEW was, Untouched(stack, sub, was), Same(stack, stack'),
         \A s \in Subs : sub[s] \in {"host", "overlay"} => sub'[s] = sub[s]
  PROVE  Untouched(stack', sub', was)
BY SameSeen DEF Untouched

(* KeptInv holds after a step of p that keeps KeptOf. *)
LEMMA KeptStep ==
  ASSUME Inv, NEW p \in Procs, pc[p] \in Inside, UNCHANGED <<req, before>>,
         NEW l, NEW o, Goes(p, l, o), KeptOf(l, o, req[p], stack', sub', before)
  PROVE  KeptInv'
<1>1. Kept(p)'
  BY Alone DEF Kept
<1>2. ASSUME NEW q \in Procs \ {p} PROVE Kept(q)'
  BY Alone DEF Kept, Inside
<1> QED BY <1>1, <1>2 DEF KeptInv

(* What every action may use. *)
LEMMA KeptFacts ==
  ASSUME Inv, ShowInv, KeptInv, NEW p \in Procs, pc[p] \in Inside
  PROVE  /\ KernelInv /\ op[p] \in Op /\ req[p] \in Request
         /\ PhaseOf(pc[p], op[p], req[p], stack)
         /\ ShowsOf(pc[p], op[p], req[p], stack)
         /\ KeptOf(pc[p], op[p], req[p], stack, sub, before)
BY Given DEF KeptInv, Kept

(* An operation may abort that has touched nothing, or that swaps or unmerges
   and says what it staged. *)
LEMMA KeptAbort ==
  ASSUME Inv, NEW p \in Procs, pc[p] \in Inside, UNCHANGED <<req, before>>,
         NEW o \in Op, Abort(p, o),
         ~o.swapping => o.staged = {} /\ o.attached = {},
         ~o.swapping /\ ~InPlaceOf(o, req[p]) => Untouched(stack', sub', before)
  PROVE  KeptInv'
<1> DEFINE n == [o EXCEPT !.todo = H, !.res = "error"]
<1>1. /\ n.swapping = o.swapping /\ n.staged = o.staged /\ n.attached = o.attached
      /\ n.unmerging = o.unmerging
  BY DEF Op
<1>2. KeptOf("abort", n, req[p], stack', sub', before)
  BY <1>1 DEF KeptOf, InPlaceOf, Preparing, Undoing, Failed
<1> QED BY <1>2, KeptStep DEF Abort

(* An operation may end with anything but an error. *)
LEMMA KeptFinish ==
  ASSUME Inv, NEW p \in Procs, pc[p] \in Inside, UNCHANGED <<req, before>>,
         NEW result, result # "error", Finish(p, result)
  PROVE  KeptInv'
<1> DEFINE n == [op[p] EXCEPT !.res = result]
<1>1. n.res = result
  BY Facts DEF Op
<1>2. KeptOf("unlock", n, req[p], stack', sub', before)
  BY <1>1 DEF KeptOf, Preparing, Undoing, Failed
<1> QED BY <1>2, KeptStep DEF Finish

(* Recording what is merged, the workspace and the images touch nothing. *)
LEMMA KeptPrepare ==
  ASSUME Inv, ShowInv, KeptInv, NEW p \in Procs,
         \/ Check(p) \/ ResetWorkspace(p) \/ UseWorkspace(p) \/ MountImage(p)
         \/ PlanNothing(p) \/ Callback(p) \/ PlanUnchanged(p) \/ PlanSwap(p)
  PROVE  KeptInv'
<1>i. /\ pc[p] \in Inside /\ UNCHANGED <<req, before>>
      /\ pc[p] \in Preparing
  BY DEF Check, ResetWorkspace, UseWorkspace, MountImage, PlanNothing, Callback,
     PlanUnchanged,
         PlanSwap, Prepared, At, Inside, Outside, Labels, Preparing
<1>0. /\ KernelInv /\ op[p] \in Op /\ req[p] \in Request
      /\ KeptOf(pc[p], op[p], req[p], stack, sub, before)
  BY <1>i, KeptFacts
<1>k. /\ ~op[p].swapping /\ ~InPlaceOf(op[p], req[p])
      /\ Untouched(stack, sub, before) /\ op[p].staged = {} /\ op[p].attached = {}
      /\ pc[p] # "check" => \A h \in op[p].merged : stack[h] # <<>>
  BY <1>0, <1>i DEF KeptOf, Preparing
<1>s. Same(stack, stack') /\ \A s \in Subs : sub[s] \notin Dirs => sub'[s] = sub[s]
  BY PrepareTouches
<1>t. Untouched(stack', sub', before)
  <2>1. "host" \notin Dirs /\ "overlay" \notin Dirs
    BY NamesAssumption DEF Reserved
  <2> QED BY <2>1, <1>k, <1>s, UntouchedStays
<1>n. ASSUME NEW l \in {"workspace", "image", "callback"}, NEW o, Goes(p, l, o),
             ~o.swapping, ~InPlaceOf(o, req[p]), o.staged = {}, o.attached = {},
             \A h \in o.merged : stack'[h] # <<>>
      PROVE  KeptInv'
  <2>1. KeptOf(l, o, req[p], stack', sub', before)
    BY <1>n, <1>t DEF KeptOf, Preparing, Undoing, Failed
  <2> QED BY <2>1, <1>n, <1>i, KeptStep
<1>m. pc[p] # "check" => \A h \in op[p].merged : stack'[h] # <<>>
  <2>1. op[p].merged \subseteq H
    BY <1>0 DEF Op
  <2> QED BY <2>1, <1>k, <1>s DEF Same
<1>1. CASE Check(p)
  <2> DEFINE o == [op[p] EXCEPT !.merged = {h \in H : Ours(h)}, !.left = req[p].images]
  <2>1. /\ o.merged = {h \in H : Ours(h)} /\ o.swapping = op[p].swapping
        /\ o.unmerging = op[p].unmerging /\ o.staged = op[p].staged
        /\ o.attached = op[p].attached
    BY <1>0 DEF Op
  <2>2. \A h \in o.merged : stack'[h] # <<>>
    BY <1>1, <2>1 DEF Check, Ours, kernel
  <2>3. CASE Abort(p, op[p])
    BY <2>3, <1>0, <1>k, <1>t, <1>i, KeptAbort
  <2>4. ASSUME NEW l \in {"workspace", "image"}, Goes(p, l, o) PROVE KeptInv'
    <3>1. ~o.swapping /\ ~InPlaceOf(o, req[p]) /\ o.staged = {} /\ o.attached = {}
      BY <2>1, <1>k DEF InPlaceOf
    <3> HIDE DEF o
    <3> QED BY <2>4, <3>1, <2>2, <1>n
  <2> QED BY <1>1, <2>3, <2>4 DEF Check
<1>2. CASE ResetWorkspace(p) \/ UseWorkspace(p) \/ MountImage(p)
  <2>1. PICK o : /\ Goes(p, "image", o) /\ o.swapping = op[p].swapping
                 /\ o.unmerging = op[p].unmerging /\ o.staged = op[p].staged
                 /\ o.attached = op[p].attached /\ o.merged = op[p].merged
    <3>1. CASE ResetWorkspace(p)
      <4> WITNESS [op[p] EXCEPT !.gen = Base, !.fresh = TRUE]
      <4> QED BY <3>1, <1>0 DEF ResetWorkspace, Op
    <3>2. CASE UseWorkspace(p)
      <4>1. PICK d : Goes(p, "image", [op[p] EXCEPT !.gen = d, !.fresh = Base \notin dirs])
        BY <3>2 DEF UseWorkspace
      <4> WITNESS [op[p] EXCEPT !.gen = d, !.fresh = Base \notin dirs]
      <4> QED BY <4>1, <1>0 DEF Op
    <3>3. CASE MountImage(p)
      <4>1. PICK x, y : Goes(p, "image", [op[p] EXCEPT !.left = x, !.images = y])
        <5>1. PICK e :
           \/ Goes(p, "image", [op[p] EXCEPT !.left = @ \ {e}, !.images = @ \cup {e}])
           \/ Goes(p, "image", [op[p] EXCEPT !.left = @ \ {e}])
          BY <3>3 DEF MountImage
        <5>2. [op[p] EXCEPT !.left = @ \ {e}]
                = [op[p] EXCEPT !.left = @ \ {e}, !.images = op[p].images]
          BY <1>0 DEF Op
        <5> QED BY <5>1, <5>2
      <4> WITNESS [op[p] EXCEPT !.left = x, !.images = y]
      <4> QED BY <4>1, <1>0 DEF Op
    <3> QED BY <1>2, <3>1, <3>2, <3>3
  <2>2. pc[p] # "check"
    BY <1>2 DEF ResetWorkspace, UseWorkspace, MountImage, At
  <2> QED BY <2>1, <2>2, <1>k, <1>m, <1>n DEF InPlaceOf
<1>3. CASE PlanNothing(p)
  <2> DEFINE o == [op[p] EXCEPT !.gen = NoDir, !.fresh = FALSE]
  <2>1. /\ o.swapping = op[p].swapping /\ o.merged = op[p].merged
        /\ o.unmerging = op[p].unmerging /\ o.staged = op[p].staged
        /\ o.attached = op[p].attached
    BY <1>0 DEF Op
  <2>2. CASE Finish(p, "nothing")
    BY <2>2, <1>i, KeptFinish
  <2>3. CASE Goes(p, "callback", o)
    <3>1. /\ ~o.swapping /\ ~InPlaceOf(o, req[p]) /\ o.staged = {} /\ o.attached = {}
          /\ \A h \in o.merged : stack'[h] # <<>>
      BY <1>3, <2>1, <1>k, <1>m DEF InPlaceOf, PlanNothing, Prepared, At
    <3> HIDE DEF o
    <3> QED BY <2>3, <3>1, <1>n
  <2> QED BY <1>3, <2>2, <2>3 DEF PlanNothing
<1>4. CASE Callback(p)
  <2> DEFINE o == [op[p] EXCEPT !.unmerging = TRUE, !.todo = op[p].merged]
  <2>1. o.staged = {} /\ o.attached = {}
    BY <1>0, <1>k DEF Op
  <2>2. KeptOf("take", o, req[p], stack', sub', before)
    BY <2>1 DEF KeptOf, Preparing, Undoing, Failed
  <2> QED BY <1>4, <2>2, <1>i, KeptStep DEF Callback
<1>5. CASE PlanUnchanged(p)
  BY <1>5, <1>i, KeptFinish DEF PlanUnchanged
<1>6. CASE PlanSwap(p)
  <2>1. CASE Goes(p, "stage", [op[p] EXCEPT !.swapping = TRUE, !.todo = H])
    <3>1. KeptOf("stage", [op[p] EXCEPT !.swapping = TRUE, !.todo = H], req[p], stack', sub',
                 before)
      BY DEF KeptOf, Preparing, Undoing, Failed
    <3> QED BY <2>1, <3>1, <1>i, KeptStep
  <2>2. CASE Goes(p, "take", [op[p] EXCEPT !.swapping = TRUE, !.todo = op[p].merged])
    <3> DEFINE o == [op[p] EXCEPT !.swapping = TRUE, !.todo = op[p].merged]
    <3>1. o.staged = {} /\ o.attached = {}
      BY <1>0, <1>k DEF Op
    <3>2. KeptOf("take", o, req[p], stack', sub', before)
      BY <3>1 DEF KeptOf, Preparing, Undoing, Failed
    <3> QED BY <2>2, <3>2, <1>i, KeptStep
  <2> QED BY <1>6, <2>1, <2>2 DEF PlanSwap
<1> QED BY <1>1, <1>2, <1>3, <1>4, <1>5, <1>6

(* An unmerge stages and attaches nothing. *)
LEMMA KeptUnmerge ==
  ASSUME Inv, ShowInv, KeptInv, NEW p \in Procs,
         \/ TakeSubmounts(p) \/ HierarchyUnmerged(p) \/ Unmount(p) \/ PutBack(p)
         \/ TeardownWorkspace(p) \/ TakeFails(p) \/ UnmountFails(p) \/ PutBackFails(p)
  PROVE  KeptInv'
<1>i. pc[p] \in Inside /\ UNCHANGED <<req, before>>
  BY DEF TakeSubmounts, HierarchyUnmerged, Unmount, PutBack, TeardownWorkspace, TakeFails,
         UnmountFails, PutBackFails, At, Inside, Outside, Labels
<1>0. /\ op[p] \in Op /\ PhaseOf(pc[p], op[p], req[p], stack)
      /\ ShowsOf(pc[p], op[p], req[p], stack)
      /\ KeptOf(pc[p], op[p], req[p], stack, sub, before)
  BY <1>i, KeptFacts
<1>1. CASE TeardownWorkspace(p)
  BY <1>1, <1>i, KeptFinish DEF TeardownWorkspace
<1>2. CASE ~TeardownWorkspace(p)
  <2>1. pc[p] \in {"take", "umount", "putback"}
    BY <1>2 DEF TakeSubmounts, HierarchyUnmerged, Unmount, PutBack, TakeFails,
         UnmountFails, PutBackFails, At
  <2>2. op[p].staged = {} /\ op[p].attached = {} /\ (op[p].swapping \/ InPlaceOf(op[p], req[p]))
    BY <2>1, <1>0 DEF KeptOf, PhaseOf, InPlaceOf
  <2>a. ASSUME NEW o, o = op[p] \/ (\E x : o = [op[p] EXCEPT !.unmerged = x]), Abort(p, o)
        PROVE  KeptInv'
    <3>1. o.staged = {} /\ o.attached = {} /\ (o.swapping \/ InPlaceOf(o, req[p])) 
      BY <2>a, <2>2, <1>0 DEF Op, InPlaceOf
    <3>2. o.swapping = op[p].swapping /\ o.unmerging = op[p].unmerging
      BY <2>a, <1>0 DEF Op
    <3> DEFINE n == [o EXCEPT !.todo = H, !.res = "error"]
    <3>3. /\ n.swapping = o.swapping /\ n.staged = o.staged /\ n.attached = o.attached
          /\ n.unmerging = o.unmerging
      BY <2>a, <1>0 DEF Op
    <3>4. KeptOf("abort", n, req[p], stack', sub', before)
      BY <3>1, <3>3 DEF KeptOf, InPlaceOf, Preparing, Undoing, Failed
    <3> QED BY <3>4, <2>a, <1>i, KeptStep DEF Abort
  <2>g. ASSUME NEW l \in {"take", "umount", "putback", "stage", "teardown"}, NEW o,
               Goes(p, l, o), o.staged = {}, o.attached = {}
        PROVE  KeptInv'
    <3>1. KeptOf(l, o, req[p], stack', sub', before)
      BY <2>g DEF KeptOf, Preparing, Undoing, Failed
    <3> QED BY <2>g, <3>1, <1>i, KeptStep
  <2>o. \A x, y : /\ [op[p] EXCEPT !.todo = x].staged = {}
                  /\ [op[p] EXCEPT !.todo = x].attached = {}
                  /\ [op[p] EXCEPT !.unmerged = x].staged = {}
                  /\ [op[p] EXCEPT !.unmerged = x].attached = {}
                  /\ [op[p] EXCEPT !.res = x].staged = {}
                  /\ [op[p] EXCEPT !.res = x].attached = {}
                  /\ [op[p] EXCEPT !.todo = x, !.res = y].staged = {}
                  /\ [op[p] EXCEPT !.todo = x, !.res = y].attached = {}
    BY <2>2, <1>0 DEF Op
  <2>3. CASE TakeSubmounts(p)
    BY <2>3, <2>2, <2>g DEF TakeSubmounts
  <2>4. CASE HierarchyUnmerged(p)
    BY <2>4, <2>2, <2>g, <2>o DEF HierarchyUnmerged
  <2>5. CASE Unmount(p)
    BY <2>5, <2>2, <2>g, <2>o DEF Unmount
  <2>e. ASSUME UnmergeError(p) PROVE KeptInv'
    BY <2>e, <2>g, <2>o, <2>a DEF UnmergeError
  <2>6. CASE TakeFails(p)
    BY <2>6, <2>e DEF TakeFails
  <2>7. CASE UnmountFails(p)
    BY <2>7, <2>e, <2>a DEF UnmountFails
  <2>8. CASE PutBack(p) \/ PutBackFails(p)
    <3>1. pc[p] = "putback"
      BY <2>8 DEF PutBack, PutBackFails, At
    <3>2. PICK h \in H, result \in {op[p].res, "error"} : UnmergeNext(p, h, result)
      BY <2>8 DEF PutBack, PutBackFails
    <3> DEFINE o == [op[p] EXCEPT !.todo = op[p].todo \ {h}, !.res = result]
    <3>3. InPlaceOf(op[p], req[p]) /\ o.unmerging = op[p].unmerging
      BY <3>1, <1>0 DEF PhaseOf, InPlaceOf, Op
    <3>4. KeptOf("unlock", o, req[p], stack', sub', before)
      BY <3>3 DEF KeptOf, InPlaceOf, Preparing, Undoing, Failed
    <3>5. CASE Goes(p, "unlock", o)
      BY <3>4, <3>5, <1>i, KeptStep
    <3>6. ASSUME NEW l \in {"take", "teardown"}, Goes(p, l, o) PROVE KeptInv'
      BY <3>6, <2>o, <2>g
    <3> QED BY <3>2, <3>5, <3>6, <2>a DEF UnmergeNext
  <2> QED BY <1>2, <2>3, <2>4, <2>5, <2>6, <2>7, <2>8
<1> QED BY <1>1, <1>2

(* A swap says nothing of what it has not touched. *)
LEMMA KeptSwap ==
  ASSUME Inv, ShowInv, KeptInv, NEW p \in Procs,
         \/ KeepHost(p) \/ StageOverlay(p) \/ TakeHostMounts(p) \/ AttachStaged(p)
         \/ Staged(p) \/ MoveOverlay(p) \/ Commit(p) \/ PromoteClear(p) \/ PromoteDrop(p)
         \/ DropRefused(p) \/ PromoteImage(p) \/ ImagesPromoted(p) \/ PromoteLayers(p)
         \/ PromoteDone(p) \/ KeepHostFails(p) \/ StageFails(p) \/ TakeHostMountsFails(p)
         \/ AttachStagedFails(p) \/ MoveFails(p) \/ PromoteFails(p)
  PROVE  KeptInv'
<1>i. /\ pc[p] \in Inside /\ UNCHANGED <<req, before>>
      /\ pc[p] \in {"stage", "carry", "adopt", "move"} \cup Layers
  BY DEF KeepHost, StageOverlay, TakeHostMounts, AttachStaged, Staged, MoveOverlay, Commit,
         PromoteClear, PromoteDrop, DropRefused, PromoteImage, ImagesPromoted, PromoteLayers,
         PromoteDone, KeepHostFails, StageFails, TakeHostMountsFails, AttachStagedFails,
         MoveFails, PromoteFails, At, Inside, Outside, Labels, Layers
<1>0. op[p] \in Op /\ PhaseOf(pc[p], op[p], req[p], stack)
  BY <1>i, KeptFacts
<1>1. op[p].swapping
  BY <1>0, <1>i DEF PhaseOf
<1>g. ASSUME NEW l \in {"stage", "carry", "adopt", "move"} \cup Layers, NEW o, Goes(p, l, o)
      PROVE  KeptInv'
  <2>1. KeptOf(l, o, req[p], stack', sub', before)
    BY DEF KeptOf, Preparing, Undoing, Failed, Layers
  <2> QED BY <1>g, <2>1, <1>i, KeptStep
<1>a. ASSUME NEW o \in Op, o.swapping, Abort(p, o) PROVE KeptInv'
  BY <1>a, <1>i, KeptAbort
<1>2. CASE \/ KeepHost(p) \/ StageOverlay(p) \/ TakeHostMounts(p) \/ AttachStaged(p)
           \/ Staged(p) \/ MoveOverlay(p)
  BY <1>2, <1>g DEF KeepHost, StageOverlay, TakeHostMounts, AttachStaged, Staged,
     MoveOverlay
<1>3. CASE \/ PromoteClear(p) \/ PromoteDrop(p) \/ PromoteImage(p) \/ ImagesPromoted(p)
           \/ PromoteLayers(p)
  BY <1>3, <1>g DEF PromoteClear, PromoteDrop, PromoteImage, ImagesPromoted, PromoteLayers,
                    Layers
<1>4. CASE DropRefused(p) \/ PromoteDone(p) \/ PromoteFails(p)
  BY <1>4, <1>i, KeptFinish DEF DropRefused, PromoteDone, PromoteFails
<1>5. CASE Commit(p)
  <2>1. CASE Goes(p, "teardown", op[p])
    <3>1. KeptOf("teardown", op[p], req[p], stack', sub', before)
      BY <1>1 DEF KeptOf, Preparing, Undoing, Failed
    <3> QED BY <2>1, <3>1, <1>i, KeptStep
  <2> QED BY <1>5, <2>1, <1>g, <1>i, KeptFinish DEF Commit, Layers
<1>6. CASE KeepHostFails(p) \/ TakeHostMountsFails(p) \/ AttachStagedFails(p) \/ MoveFails(p)
  BY <1>6, <1>0, <1>1, <1>a DEF KeepHostFails, TakeHostMountsFails, AttachStagedFails,
     MoveFails
<1>7. CASE StageFails(p)
  <2>1. PICK h \in H : \/ Abort(p, op[p])
                       \/ Abort(p, [op[p] EXCEPT !.staged = @ \cup {h}])
    BY <1>7 DEF StageFails
  <2>2. /\ [op[p] EXCEPT !.staged = @ \cup {h}] \in Op
        /\ [op[p] EXCEPT !.staged = @ \cup {h}].swapping
    BY <1>0, <1>1 DEF Op
  <2> QED BY <2>1, <2>2, <1>0, <1>1, <1>a
<1> QED BY <1>2, <1>3, <1>4, <1>5, <1>6, <1>7

(* abort, of an operation that has touched nothing, touches nothing. *)
LEMMA KeptUndo ==
  ASSUME Inv, ShowInv, KeptInv, NEW p \in Procs,
         AbortTake(p) \/ AbortDetach(p) \/ AbortAttach(p) \/ AbortRelease(p)
  PROVE  KeptInv'
<1>i. pc[p] \in Inside /\ UNCHANGED <<req, before>> /\ pc[p] \in Undoing
  BY DEF AbortTake, AbortDetach, AbortAttach, AbortRelease, At, Inside, Outside, Labels,
     Undoing
<1>0. /\ KernelInv /\ op[p] \in Op /\ KeptOf(pc[p], op[p], req[p], stack, sub, before)
      /\ ShowsOf(pc[p], op[p], req[p], stack)
  BY <1>i, KeptFacts
<1>k. /\ ~op[p].swapping /\ ~InPlaceOf(op[p], req[p]) => Untouched(stack, sub, before)
      /\ ~op[p].swapping => pc[p] = "abort" /\ op[p].staged = {} /\ op[p].attached = {}
  BY <1>0, <1>i DEF KeptOf, Undoing
<1>1. CASE AbortTake(p)
  <2>1. Goes(p, "detach", op[p]) /\ op[p].swapping
    BY <1>1, <1>k DEF AbortTake, Built
  <2>2. KeptOf("detach", op[p], req[p], stack', sub', before)
    BY <2>1 DEF KeptOf, Preparing, Undoing, Failed
  <2> QED BY <2>1, <2>2, <1>i, KeptStep
<1>2. CASE AbortDetach(p)
  <2>1. PICK h \in H :
          Goes(p, "restore", [op[p] EXCEPT !.attached = @ \ {h}, !.staged = @ \ {h}])
    BY <1>2 DEF AbortDetach
  <2> DEFINE o == [op[p] EXCEPT !.attached = @ \ {h}, !.staged = @ \ {h}]
  <2>2. o.swapping
    BY <1>2, <1>k, <1>0 DEF AbortDetach, At, Op
  <2>3. KeptOf("restore", o, req[p], stack', sub', before)
    BY <2>2 DEF KeptOf, Preparing, Undoing, Failed
  <2> QED BY <2>1, <2>3, <1>i, KeptStep
<1>3. CASE AbortAttach(p)
  <2>1. PICK h \in H : /\ Attach(p, h, Visible(h)) \/ AttachSomeClose(p, h, Visible(h))
                       /\ Goes(p, "abort", [op[p] EXCEPT !.todo = @ \ {h}])
    BY <1>3 DEF AbortAttach
  <2> DEFINE o == [op[p] EXCEPT !.todo = @ \ {h}]
  <2>2. /\ o.swapping = op[p].swapping /\ o.unmerging = op[p].unmerging
        /\ o.staged = op[p].staged /\ o.attached = op[p].attached
    BY <1>0 DEF Op
  <2>3. p \notin {"host", "overlay"}
    BY NamesAssumption DEF Reserved
  <2>4. \A s \in Subs : sub[s] \in {"host", "overlay"} => sub'[s] = sub[s]
    BY <2>1, <2>3 DEF Attach, Carry, AttachSomeClose
  <2>5. Same(stack, stack')
    BY <1>3, UnchangedSame DEF AbortAttach
  <2>6. ~o.swapping /\ ~InPlaceOf(o, req[p]) => Untouched(stack', sub', before)
    BY <1>k, <2>2, <2>4, <2>5, UntouchedStays DEF InPlaceOf
  <2> HIDE DEF o
  <2>7. KeptOf("abort", o, req[p], stack', sub', before)
    BY <2>2, <2>6, <1>k DEF KeptOf, Preparing, Undoing, Failed
  <2> QED BY <2>1, <2>7, <1>i, KeptStep DEF o
<1>4. CASE AbortRelease(p)
  <2> DEFINE o == [op[p] EXCEPT !.res = "error"]
  <2>1. o.swapping = op[p].swapping /\ o.unmerging = op[p].unmerging
    BY <1>0 DEF Op
  <2>2. ASSUME ~op[p].swapping, ~InPlaceOf(op[p], req[p])
        PROVE  Untouched(stack', sub', before)
    <3>1. Discard(p)
      BY <1>4, <2>2 DEF AbortRelease
    <3>2. "host" \notin Dirs /\ "overlay" \notin Dirs
      BY NamesAssumption DEF Reserved
    <3> QED BY <3>1, <3>2, <2>2, <1>k, <1>0, DiscardTouches, UntouchedStays
  <2>3. KeptOf("unlock", o, req[p], stack', sub', before)
    BY <2>1, <2>2 DEF KeptOf, InPlaceOf, Preparing, Undoing, Failed
  <2>4. Goes(p, "unlock", o)
    BY <1>4 DEF AbortRelease, Finish
  <2> QED BY <2>3, <2>4, <1>i, KeptStep
<1> QED BY <1>1, <1>2, <1>3, <1>4

(* A failure before anything is touched. *)
LEMMA KeptFails ==
  ASSUME Inv, ShowInv, KeptInv, NEW p \in Procs,
         \/ CheckFails(p) \/ WorkspaceFails(p) \/ MountImageFails(p) \/ CallbackFails(p)
         \/ PlanFails(p) \/ TeardownFails(p)
  PROVE  KeptInv'
<1>i. pc[p] \in Inside /\ UNCHANGED <<req, before>>
  BY DEF CheckFails, WorkspaceFails, MountImageFails, CallbackFails, PlanFails,
     TeardownFails,
         Prepared, At, Inside, Outside, Labels
<1>0. /\ KernelInv /\ op[p] \in Op /\ KeptOf(pc[p], op[p], req[p], stack, sub, before)
      /\ ShowsOf(pc[p], op[p], req[p], stack)
  BY <1>i, KeptFacts
<1>1. CASE ~TeardownFails(p)
  <2>1. pc[p] \in Preparing
    BY <1>1 DEF CheckFails, WorkspaceFails, MountImageFails, CallbackFails, PlanFails,
         Prepared, At, Preparing
  <2>2. /\ ~op[p].swapping /\ ~InPlaceOf(op[p], req[p])
        /\ Untouched(stack, sub, before) /\ op[p].staged = {} /\ op[p].attached = {}
    BY <1>0, <2>1 DEF KeptOf
  <2>3. "host" \notin Dirs /\ "overlay" \notin Dirs
    BY NamesAssumption DEF Reserved
  <2>4. Untouched(stack', sub', before)
    BY <1>1, <2>2, <2>3, PrepareTouches, UntouchedStays
  <2>5. Abort(p, op[p])
    BY <1>1 DEF CheckFails, WorkspaceFails, MountImageFails, CallbackFails, PlanFails
  <2> QED BY <2>2, <2>4, <2>5, <1>0, <1>i, KeptAbort
<1>2. CASE TeardownFails(p)
  <2>0. pc[p] = "teardown"
    BY <1>2 DEF TeardownFails, At
  <2>1. ~op[p].swapping => /\ op[p].staged = {} /\ op[p].attached = {}
                           /\ InPlaceOf(op[p], req[p])
    BY <2>0, <1>0 DEF KeptOf, ShowsOf
  <2>2. CASE op[p].swapping
    BY <1>2, <2>2, <1>i, KeptFinish DEF TeardownFails
  <2>3. CASE ~op[p].swapping /\ op[p].unmerging
    BY <1>2, <2>1, <2>3, <1>0, <1>i, KeptAbort DEF TeardownFails
  <2>4. CASE ~op[p].swapping /\ ~op[p].unmerging
    <3> DEFINE o == [op[p] EXCEPT !.res = "error"]
    <3>1. o.unmerging = op[p].unmerging
      BY <1>0 DEF Op
    <3>2. KeptOf("unlock", o, req[p], stack', sub', before)
      BY <3>1, <2>1, <2>4 DEF KeptOf, InPlaceOf, Preparing, Undoing, Failed
    <3> QED BY <1>2, <2>4, <3>2, <1>i, KeptStep DEF TeardownFails, Finish
  <2> QED BY <2>2, <2>3, <2>4
<1> QED BY <1>1, <1>2

(* The lock is taken with a record of what is there, which ends with it. *)
LEMMA KeptLock ==
  ASSUME Inv, KeptInv, NEW p \in Procs, Begin(p) \/ Acquire(p) \/ Unlock(p) \/ Crash(p)
  PROVE  KeptInv'
<1>t. pc \in [Procs -> Labels] /\ op \in [Procs -> Op] /\ req \in [Procs -> Request]
  BY DEF Inv, TypeOK
<1>1. CASE Begin(p)
  <2>1. pc'[p] \notin Inside
    BY <1>1, <1>t DEF Begin, Goes, Inside, Outside
  <2>2. \A q \in Procs \ {p} : pc'[q] = pc[q] /\ op'[q] = op[q] /\ req'[q] = req[q]
    BY <1>1, <1>t DEF Begin, Goes
  <2>3. UNCHANGED <<stack, sub, before>>
    BY <1>1 DEF Begin, kernel
  <2> QED BY <2>1, <2>2, <2>3 DEF KeptInv, Kept
<1>2. CASE Acquire(p)
  <2>1. \A q \in Procs \ {p} : pc'[q] = pc[q] /\ pc[q] \in Outside
    BY <1>2, <1>t, NamesAssumption DEF Acquire, Goes, Inv, Exclusive, Outside
  <2>2. op[p] = NewOp /\ req'[p] = req[p]
    BY <1>2, <1>t DEF Acquire, Inv, Phase, PhaseOf, Outside
  <2>3. /\ UNCHANGED <<stack, sub>> /\ before'.sub = sub
        /\ \A h \in H : before'.view[h] = View(h)
    BY <1>2 DEF Acquire, kernel
  <2>4. Untouched(stack', sub', before')
    BY <2>3, SeenView DEF Untouched
  <2>5. CASE req[p].verb = "unmerge"
    <3>1. /\ pc'[p] = "take" /\ op'[p].staged = {} /\ op'[p].attached = {}
      BY <1>2, <2>2, <2>5, <1>t DEF Acquire, Goes, NewOp
    <3>2. Kept(p)'
      BY <3>1 DEF Kept, KeptOf, Preparing, Undoing, Failed
    <3> QED BY <3>2, <2>1 DEF KeptInv, Kept, Inside
  <2>6. CASE req[p].verb # "unmerge"
    <3>1. /\ pc'[p] = "check" /\ op'[p] = NewOp
      BY <1>2, <2>2, <2>6, <1>t DEF Acquire, Goes
    <3>2. Kept(p)'
      BY <3>1, <2>2, <2>4, <2>6 DEF Kept, KeptOf, NewOp, InPlaceOf, Preparing, Undoing,
         Failed
    <3> QED BY <3>2, <2>1 DEF KeptInv, Kept, Inside
  <2> QED BY <2>5, <2>6
<1>3. CASE Unlock(p) \/ Crash(p)
  <2>1. lock = p /\ Leave(p)
    BY <1>3 DEF Unlock, Crash, Inv, Exclusive
  <2>2. \A q \in Procs : pc'[q] \notin Inside
    BY <2>1, <1>t DEF Leave, Goes, Inv, Exclusive, Inside, Outside
  <2> QED BY <2>2 DEF KeptInv, Kept
<1> QED BY <1>1, <1>2, <1>3

(* Every step keeps KeptInv. *)
LEMMA KeptNext ==
  ASSUME Inv, ShowInv, KeptInv, Next
  PROVE  KeptInv'
<1>0. PICK p \in Procs : Begin(p) \/ Acquire(p) \/ Works(p) \/ Fails(p) \/ Unlock(p) \/ Crash(p)
  BY DEF Next
<1>1. CASE Begin(p) \/ Acquire(p) \/ Unlock(p) \/ Crash(p)
  BY <1>1, KeptLock
<1>2. CASE Works(p)
  BY <1>2, KeptPrepare, KeptUnmerge, KeptSwap, KeptUndo DEF Works
<1>3. CASE Fails(p)
  BY <1>3, KeptFails, KeptUnmerge, KeptSwap DEF Fails
<1> QED BY <1>0, <1>1, <1>2, <1>3

(* KeptInv is an invariant. *)
LEMMA KeptAlways == Spec => []KeptInv
<1>1. Init => KeptInv
  BY DEF Init, KeptInv, Kept, Inside, Outside
<1>2. KeptInv /\ UNCHANGED vars => KeptInv'
  BY DEF KeptInv, Kept, vars, kernel
<1>3. Inv /\ ShowInv /\ KeptInv /\ [Next]_vars => KeptInv'
  BY <1>2, KeptNext
<1> QED BY <1>1, <1>3, Invariance, ShowAlways, PTL DEF Spec

(* A refresh that fails before it swaps or unmerges leaves the old merge and
   the mounts on it in place, whatever fails and whoever was killed before. *)
THEOREM EarlyFailureKeeps == Spec => []EarlyFailureKeepsMerge
<1>1. Inv /\ KeptInv => EarlyFailureKeepsMerge
  <2> SUFFICES ASSUME Inv, KeptInv, NEW p \in Procs, Ends(p, "error"),
                      req[p].verb = "refresh", ~op[p].swapping, ~op[p].unmerging
               PROVE  /\ \A h \in H : View(h) = before.view[h]
                      /\ \A s \in Subs : before.sub[s] \in {"host", "overlay"}
                                           => sub[s] = before.sub[s]
    BY DEF EarlyFailureKeepsMerge
  <2>1. pc[p] \in Inside /\ Failed(pc[p], op[p])
    BY DEF Ends, Failed, Inside, Outside, Labels
  <2>2. Untouched(stack, sub, before)
    BY <2>1 DEF KeptInv, Kept, KeptOf, InPlaceOf
  <2> QED BY <2>2, SeenView DEF Untouched
<1> QED BY <1>1, KeptAlways, Invariance, PTL


-----------------------------------------------------------------------------
(* What a failure leaves of the new merge, if abort can unmount it. *)

(* The labels of p before an overlay goes live. *)
Early == Preparing \cup {"take", "umount", "putback", "stage", "carry", "adopt"}

(* Old stays true while hierarchies are emptied or left as they are. *)
LEMMA OldStays ==
  ASSUME NEW was, NEW S, Old(stack, S, was),
         Same(stack, stack') \/ \E h \in H : Emptied(h)
  PROVE  Old(stack', S, was)
<1>1. CASE Same(stack, stack')
  BY <1>1, SameSeen DEF Old
<1>2. ASSUME NEW h \in H, Emptied(h) PROVE Old(stack', S, was)
  <2>1. Shown(stack'[h]) = NotMerged
    BY <1>2 DEF Emptied, Shown
  <2>2. \A g \in H \ {h} : Shown(stack'[g]) = Shown(stack[g])
    BY <1>2 DEF Emptied
  <2> QED BY <2>1, <2>2 DEF Old
<1> QED BY <1>1, <1>2

(* Only MoveOverlay shows anything new. *)
LEMMA NothingNew ==
  ASSUME Inv, Next, NEW p \in Procs, lock = p, pc[p] # "move"
  PROVE  Same(stack, stack') \/ \E h \in H : Emptied(h)
<1>1. ASSUME NEW q \in Procs, MoveOverlay(q) PROVE FALSE
  <2>1. pc[q] = "move"
    BY <1>1 DEF MoveOverlay, At
  <2>2. lock = q
    BY <2>1 DEF Inv, Exclusive
  <2> QED BY <2>1, <2>2
<1> QED BY <1>1, StackSteps

(* BackInv holds after a step of p that keeps BackOf. *)
LEMMA BackStep ==
  ASSUME Inv, NEW p \in Procs, pc[p] \in Inside, UNCHANGED <<req, before>>,
         NEW l, NEW o, Goes(p, l, o), BackOf(l, o, stack', before)
  PROVE  BackInv'
<1>1. Back(p)'
  BY Alone DEF Back
<1>2. ASSUME NEW q \in Procs \ {p} PROVE Back(q)'
  BY Alone DEF Back, Inside
<1> QED BY <1>1, <1>2 DEF BackInv

(* abort starts with what is new among the hierarchies it will visit. *)
LEMMA BackAbort ==
  ASSUME Inv, NEW p \in Procs, pc[p] \in Inside, UNCHANGED <<req, before>>,
         NEW o \in Op, Abort(p, o), Old(stack', o.attached, before)
  PROVE  BackInv'
<1> DEFINE n == [o EXCEPT !.todo = H, !.res = "error"]
<1>1. n.attached = o.attached /\ n.attached \subseteq n.todo
  BY DEF Op
<1>2. BackOf("abort", n, stack', before)
  BY <1>1 DEF BackOf, Failed
<1> QED BY <1>2, BackStep DEF Abort

(* An operation that does not fail may end as it likes. *)
LEMMA BackFinish ==
  ASSUME Inv, NEW p \in Procs, pc[p] \in Inside, UNCHANGED <<req, before>>,
         NEW result, Finish(p, result),
         result = "error" => Old(stack', {}, before)
  PROVE  BackInv'
<1> DEFINE n == [op[p] EXCEPT !.res = result]
<1>1. n.res = result
  BY Facts DEF Op
<1>2. BackOf("unlock", n, stack', before)
  BY <1>1 DEF BackOf, Failed, Undoing
<1> QED BY <1>2, BackStep DEF Finish

(* What p did before it shows anything new keeps BackInv. *)
LEMMA BackEarly ==
  ASSUME Inv, KeptInv, BackInv, "detach" \notin Fallible, Next,
         NEW p \in Procs, pc[p] \in Early, UNCHANGED <<req, before>>
  PROVE  /\ \A l, o : Goes(p, l, o) /\ l \notin Undoing => BackInv'
         /\ \A o \in Op : Abort(p, o) => BackInv'
<1>1. pc[p] \in Inside /\ pc[p] # "move"
  BY DEF Early, Preparing, Inside, Outside, Labels
<1>2. op[p].attached = {}
  BY <1>1, Facts DEF KeptInv, Kept, KeptOf, PhaseOf, Early
<1>3. Old(stack, {}, before)
  BY <1>1, <1>2 DEF BackInv, Back, BackOf, Early, Preparing, Layers
<1>4. lock = p
  BY <1>1 DEF Inv, Exclusive, Inside, Outside
<1>5. Old(stack', {}, before)
  BY <1>1, <1>3, <1>4, NothingNew, OldStays
<1>6. \A S : Old(stack', S, before)
  BY <1>5 DEF Old
<1>7. ASSUME NEW l, NEW o, Goes(p, l, o), l \notin Undoing PROVE BackInv'
  <2>1. BackOf(l, o, stack', before)
    BY <1>6, <1>7 DEF BackOf
  <2> QED BY <2>1, <1>1, <1>7, BackStep
<1>8. ASSUME NEW o \in Op, Abort(p, o) PROVE BackInv'
  BY <1>1, <1>6, <1>8, BackAbort
<1> QED BY <1>7, <1>8

(* Before an overlay goes live nothing new is shown. *)
LEMMA BackPrepare ==
  ASSUME Inv, KeptInv, BackInv, "detach" \notin Fallible, Next, NEW p \in Procs,
         \/ Check(p) \/ ResetWorkspace(p) \/ UseWorkspace(p) \/ MountImage(p)
         \/ PlanNothing(p) \/ Callback(p) \/ PlanUnchanged(p) \/ PlanSwap(p)
         \/ CheckFails(p) \/ WorkspaceFails(p) \/ MountImageFails(p) \/ CallbackFails(p)
         \/ PlanFails(p)
  PROVE  BackInv'
<1>1. pc[p] \in Early /\ UNCHANGED <<req, before>>
  BY DEF Check, ResetWorkspace, UseWorkspace, MountImage, PlanNothing, Callback,
     PlanUnchanged,
         PlanSwap, CheckFails, WorkspaceFails, MountImageFails, CallbackFails, PlanFails,
         Prepared, At, Early, Preparing
<1>2. op[p] \in Op
  BY Facts
<1>g. /\ \A l, o : Goes(p, l, o) /\ l \notin Undoing => BackInv'
      /\ \A o \in Op : Abort(p, o) => BackInv'
  BY <1>1, BackEarly
<1>n. /\ "workspace" \notin Undoing /\ "image" \notin Undoing /\ "callback" \notin Undoing
      /\ "take" \notin Undoing /\ "stage" \notin Undoing /\ "unlock" \notin Undoing
  BY DEF Undoing
<1>3. CASE Check(p)
  BY <1>3, <1>2, <1>g, <1>n DEF Check
<1>4. CASE ResetWorkspace(p) \/ UseWorkspace(p) \/ MountImage(p)
  BY <1>4, <1>g, <1>n DEF ResetWorkspace, UseWorkspace, MountImage
<1>5. CASE PlanNothing(p) \/ Callback(p) \/ PlanUnchanged(p) \/ PlanSwap(p)
  BY <1>5, <1>g, <1>n DEF PlanNothing, Callback, PlanUnchanged, PlanSwap, Finish
<1>6. CASE CheckFails(p) \/ WorkspaceFails(p) \/ MountImageFails(p) \/ CallbackFails(p)
           \/ PlanFails(p)
  BY <1>6, <1>2, <1>g DEF CheckFails, WorkspaceFails, MountImageFails, CallbackFails,
     PlanFails
<1> QED BY <1>3, <1>4, <1>5, <1>6

(* Nor does an unmerge show anything new. *)
LEMMA BackUnmerge ==
  ASSUME Inv, KeptInv, BackInv, "detach" \notin Fallible, Next, NEW p \in Procs,
         \/ TakeSubmounts(p) \/ HierarchyUnmerged(p) \/ Unmount(p) \/ PutBack(p)
         \/ TakeFails(p) \/ UnmountFails(p) \/ PutBackFails(p)
  PROVE  BackInv'
<1>1. pc[p] \in Early /\ UNCHANGED <<req, before>>
  BY DEF TakeSubmounts, HierarchyUnmerged, Unmount, PutBack, TakeFails, UnmountFails,
         PutBackFails, At, Early
<1>2. op[p] \in Op /\ \A h \in H : [op[p] EXCEPT !.unmerged = @ \cup {h}] \in Op
  BY Facts DEF Op
<1>g. /\ \A l, o : Goes(p, l, o) /\ l \notin Undoing => BackInv'
      /\ \A o \in Op : Abort(p, o) => BackInv'
  BY <1>1, BackEarly
<1>n. /\ "umount" \notin Undoing /\ "putback" \notin Undoing /\ "teardown" \notin Undoing
      /\ "take" \notin Undoing /\ "stage" \notin Undoing /\ "unlock" \notin Undoing
  BY DEF Undoing
<1>e. UnmergeError(p) => BackInv'
  BY <1>2, <1>g, <1>n DEF UnmergeError
<1>3. CASE TakeSubmounts(p)
  BY <1>3, <1>g, <1>n DEF TakeSubmounts
<1>4. CASE HierarchyUnmerged(p)
  BY <1>4, <1>g, <1>n DEF HierarchyUnmerged
<1>5. CASE Unmount(p)
  BY <1>5, <1>g, <1>n DEF Unmount
<1>6. CASE TakeFails(p)
  BY <1>6, <1>e DEF TakeFails
<1>7. CASE UnmountFails(p)
  BY <1>7, <1>2, <1>e, <1>g DEF UnmountFails
<1>8. CASE PutBack(p) \/ PutBackFails(p)
  <2>1. PICK h \in H, result \in {op[p].res, "error"} : UnmergeNext(p, h, result)
    BY <1>8 DEF PutBack, PutBackFails
  <2> QED BY <2>1, <1>2, <1>g, <1>n DEF UnmergeNext
<1> QED BY <1>3, <1>4, <1>5, <1>6, <1>7, <1>8

(* Nor does staging. *)
LEMMA BackStage ==
  ASSUME Inv, KeptInv, BackInv, "detach" \notin Fallible, Next, NEW p \in Procs,
         \/ KeepHost(p) \/ StageOverlay(p) \/ TakeHostMounts(p) \/ AttachStaged(p) \/ Staged(p)
         \/ KeepHostFails(p) \/ StageFails(p) \/ TakeHostMountsFails(p) \/ AttachStagedFails(p)
  PROVE  BackInv'
<1>1. pc[p] \in Early /\ UNCHANGED <<req, before>>
  BY DEF KeepHost, StageOverlay, TakeHostMounts, AttachStaged, Staged, KeepHostFails,
     StageFails,
         TakeHostMountsFails, AttachStagedFails, At, Early
<1>2. op[p] \in Op /\ \A h \in H : [op[p] EXCEPT !.staged = @ \cup {h}] \in Op
  BY Facts DEF Op
<1>g. /\ \A l, o : Goes(p, l, o) /\ l \notin Undoing => BackInv'
      /\ \A o \in Op : Abort(p, o) => BackInv'
  BY <1>1, BackEarly
<1>n. /\ "stage" \notin Undoing /\ "carry" \notin Undoing /\ "adopt" \notin Undoing
      /\ "move" \notin Undoing
  BY DEF Undoing
<1>3. CASE KeepHost(p) \/ StageOverlay(p) \/ TakeHostMounts(p) \/ AttachStaged(p) \/ Staged(p)
  BY <1>3, <1>g, <1>n DEF KeepHost, StageOverlay, TakeHostMounts, AttachStaged, Staged
<1>4. CASE KeepHostFails(p) \/ StageFails(p) \/ TakeHostMountsFails(p) \/ AttachStagedFails(p)
  BY <1>4, <1>2, <1>g DEF KeepHostFails, StageFails, TakeHostMountsFails, AttachStagedFails
<1> QED BY <1>3, <1>4

(* What goes live is recorded, and once all is live nothing can be undone. *)
LEMMA BackLive ==
  ASSUME Inv, BackInv, "detach" \notin Fallible, NEW p \in Procs,
         \/ MoveOverlay(p) \/ Commit(p) \/ PromoteClear(p) \/ PromoteDrop(p)
         \/ DropRefused(p) \/ PromoteImage(p) \/ ImagesPromoted(p) \/ PromoteLayers(p)
         \/ PromoteDone(p) \/ MoveFails(p) \/ PromoteFails(p)
  PROVE  BackInv'
<1>i. pc[p] \in Inside /\ UNCHANGED <<req, before>>
  BY DEF MoveOverlay, Commit, PromoteClear, PromoteDrop, DropRefused, PromoteImage,
         ImagesPromoted, PromoteLayers, PromoteDone, MoveFails, PromoteFails, At, Inside,
         Outside, Labels
<1>0. op[p] \in Op /\ BackOf(pc[p], op[p], stack, before)
  BY <1>i, Facts DEF BackInv, Back
<1>g. ASSUME NEW l \in Layers \cup {"teardown"}, NEW o, Goes(p, l, o) PROVE BackInv'
  <2>1. BackOf(l, o, stack', before)
    BY DEF BackOf, Layers, Undoing, Failed
  <2> QED BY <1>g, <1>i, <2>1, BackStep
<1>f. \A result : result # "error" /\ Finish(p, result) => BackInv'
  BY <1>i, BackFinish
<1>1. CASE MoveOverlay(p)
  <2>0. Old(stack, op[p].attached, before)
    BY <1>0, <1>1 DEF MoveOverlay, At, BackOf, Layers
  <2>1. PICK h \in H :
          /\ stack' = [stack EXCEPT ![h] = Append(@, [names |-> op[p].images,
                         mutable |-> req[p].mutable, loc |-> op[p].gen])]
          /\ Goes(p, "move", [op[p] EXCEPT !.staged = @ \ {h}, !.attached = @ \cup {h},
                                           !.todo = @ \ {h}])
    BY <1>1 DEF MoveOverlay
  <2> DEFINE o == [op[p] EXCEPT !.staged = @ \ {h}, !.attached = @ \cup {h}, !.todo = @ \ {h}]
  <2>2. o.attached = op[p].attached \cup {h}
    BY <1>0 DEF Op
  <2>3. \A g \in H \ {h} : stack'[g] = stack[g]
    BY <2>1, Facts DEF KernelInv
  <2>4. Old(stack', o.attached, before)
    BY <2>0, <2>2, <2>3 DEF Old
  <2>5. BackOf("move", o, stack', before)
    BY <2>4 DEF BackOf, Undoing, Failed
  <2> QED BY <2>1, <2>5, <1>i, BackStep
<1>2. CASE MoveFails(p)
  <2>1. Old(stack', op[p].attached, before) /\ Abort(p, op[p])
    BY <1>0, <1>2 DEF MoveFails, At, BackOf, Layers, kernel
  <2> QED BY <2>1, <1>0, <1>i, BackAbort
<1>3. CASE Commit(p)
  BY <1>3, <1>g, <1>f DEF Commit, Layers
<1>4. CASE PromoteClear(p) \/ PromoteDrop(p) \/ PromoteImage(p) \/ ImagesPromoted(p)
           \/ PromoteLayers(p)
  BY <1>4, <1>g DEF PromoteClear, PromoteDrop, PromoteImage, ImagesPromoted, PromoteLayers,
                    Layers
<1>5. CASE DropRefused(p) \/ PromoteDone(p) \/ PromoteFails(p)
  BY <1>5, <1>f DEF DropRefused, PromoteDone, PromoteFails
<1> QED BY <1>1, <1>2, <1>3, <1>4, <1>5

(* abort empties what is new, one hierarchy after the other. *)
LEMMA BackUndo ==
  ASSUME Inv, BackInv, "detach" \notin Fallible, NEW p \in Procs,
         AbortTake(p) \/ AbortDetach(p) \/ AbortAttach(p) \/ AbortRelease(p)
  PROVE  BackInv'
<1>i. pc[p] \in Inside /\ UNCHANGED <<req, before>> /\ pc[p] \in Undoing
  BY DEF AbortTake, AbortDetach, AbortAttach, AbortRelease, At, Inside, Outside, Labels,
     Undoing
<1>0. /\ KernelInv /\ op[p] \in Op /\ BackOf(pc[p], op[p], stack, before)
  BY <1>i, Facts DEF BackInv, Back
<1>k. op[p].attached \subseteq op[p].todo /\ Old(stack, op[p].attached, before)
  BY <1>0, <1>i DEF BackOf, Undoing, Layers
<1>g. ASSUME NEW l \in Undoing, NEW o, Goes(p, l, o), o.attached \subseteq o.todo,
             Old(stack', o.attached, before)
      PROVE  BackInv'
  <2>1. BackOf(l, o, stack', before)
    BY <1>g DEF BackOf, Undoing, Failed
  <2> QED BY <1>g, <1>i, <2>1, BackStep
<1>n. "abort" \in Undoing /\ "detach" \in Undoing /\ "restore" \in Undoing
  BY DEF Undoing
<1>1. CASE AbortTake(p)
  BY <1>1, <1>k, <1>g, <1>n DEF AbortTake
<1>2. CASE AbortDetach(p)
  <2>1. PICK h \in H :
          /\ \/ h \in op[p].attached /\ Pop(h) /\ UNCHANGED stage
             \/ h \notin op[p].attached /\ UNCHANGED stack
          /\ Goes(p, "restore", [op[p] EXCEPT !.attached = @ \ {h}, !.staged = @ \ {h}])
    BY <1>2 DEF AbortDetach, Fault
  <2> DEFINE o == [op[p] EXCEPT !.attached = @ \ {h}, !.staged = @ \ {h}]
  <2>2. o.attached = op[p].attached \ {h} /\ o.todo = op[p].todo
    BY <1>0 DEF Op
  <2>3. CASE h \in op[p].attached
    <3>1. stack'[h] = <<>> /\ \A g \in H \ {h} : stack'[g] = stack[g]
      BY <1>2, <1>0, <2>1, <2>3, PopKernel DEF AbortDetach, KernelInv
    <3>2. Shown(stack'[h]) = NotMerged
      BY <3>1 DEF Shown
    <3>3. Old(stack', o.attached, before)
      BY <3>1, <3>2, <2>2, <1>k DEF Old
    <3> HIDE DEF o
    <3> QED BY <3>3, <2>1, <2>2, <1>k, <1>g, <1>n DEF o
  <2>4. CASE h \notin op[p].attached
    <3>1. Old(stack', o.attached, before)
      BY <2>1, <2>2, <2>4, <1>k DEF Old
    <3> QED BY <3>1, <2>1, <2>2, <1>k, <1>g, <1>n
  <2> QED BY <2>3, <2>4
<1>3. CASE AbortAttach(p)
  <2>1. PICK h \in H : ~Built(p, h) /\ Goes(p, "abort", [op[p] EXCEPT !.todo = @ \ {h}])
    BY <1>3 DEF AbortAttach
  <2> DEFINE o == [op[p] EXCEPT !.todo = @ \ {h}]
  <2>2. o.attached = op[p].attached /\ o.attached \subseteq o.todo
    BY <1>0, <1>k, <2>1 DEF Op, Built
  <2>3. Old(stack', o.attached, before)
    BY <1>3, <1>k, <2>2 DEF AbortAttach
  <2> QED BY <2>1, <2>2, <2>3, <1>g, <1>n
<1>4. CASE AbortRelease(p)
  <2>1. op[p].attached = {}
    BY <1>4, <1>k DEF AbortRelease
  <2>2. Same(stack, stack')
    BY <1>4, <1>0, TeardownSame, DiscardSame, UnchangedSame DEF AbortRelease, NotReleased
  <2>3. Old(stack', {}, before)
    BY <2>1, <2>2, <1>k, OldStays
  <2> QED BY <1>4, <2>3, <1>i, BackFinish DEF AbortRelease
<1> QED BY <1>1, <1>2, <1>3, <1>4

(* The workspace is torn down when nothing of ours is left to be seen. *)
LEMMA BackTeardown ==
  ASSUME Inv, ShowInv, NEW p \in Procs, TeardownWorkspace(p) \/ TeardownFails(p)
  PROVE  BackInv'
<1>i. pc[p] \in Inside /\ UNCHANGED <<req, before>> /\ pc[p] = "teardown"
  BY DEF TeardownWorkspace, TeardownFails, At, Inside, Outside, Labels
<1>0. KernelInv /\ op[p] \in Op /\ ShowsOf(pc[p], op[p], req[p], stack)
  BY Given
<1>1. CASE TeardownWorkspace(p)
  BY <1>1, <1>i, BackFinish DEF TeardownWorkspace
<1>2. CASE TeardownFails(p)
  <2>1. CASE op[p].swapping
    BY <1>2, <2>1, <1>i, BackFinish DEF TeardownFails
  <2>2. CASE ~op[p].swapping
    <3>1. Same(stack, stack')
      BY <1>2, <1>0, TeardownSame, UnchangedSame DEF TeardownFails, kernel
    <3>2. Empty(stack', {})
      BY <1>0, <1>i, <2>2, <3>1 DEF ShowsOf, Empty, Same
    <3>3. \A S : Old(stack', S, before)
      BY <3>2 DEF Empty, Old, Shown
    <3> QED BY <1>2, <1>0, <1>i, <2>2, <3>3, BackAbort, BackFinish DEF TeardownFails
  <2> QED BY <2>1, <2>2
<1> QED BY <1>1, <1>2

(* The lock is taken with a record of what is there. *)
LEMMA BackLock ==
  ASSUME Inv, BackInv, "detach" \notin Fallible, NEW p \in Procs,
         Begin(p) \/ Acquire(p) \/ Unlock(p) \/ Crash(p)
  PROVE  BackInv'
<1>t. pc \in [Procs -> Labels] /\ op \in [Procs -> Op] /\ req \in [Procs -> Request]
  BY DEF Inv, TypeOK
<1>1. CASE Begin(p)
  <2>1. pc'[p] \notin Inside
    BY <1>1, <1>t DEF Begin, Goes, Inside, Outside
  <2>2. \A q \in Procs \ {p} : pc'[q] = pc[q] /\ op'[q] = op[q]
    BY <1>1, <1>t DEF Begin, Goes
  <2>3. UNCHANGED <<stack, before>>
    BY <1>1 DEF Begin, kernel
  <2> QED BY <2>1, <2>2, <2>3 DEF BackInv, Back
<1>2. CASE Acquire(p)
  <2>1. \A q \in Procs \ {p} : pc'[q] = pc[q] /\ pc[q] \in Outside
    BY <1>2, <1>t, NamesAssumption DEF Acquire, Goes, Inv, Exclusive, Outside
  <2>2. UNCHANGED stack /\ \A h \in H : before'.view[h] = View(h)
    BY <1>2 DEF Acquire, kernel
  <2>3. \A S : Old(stack', S, before')
    BY <2>2, SeenView DEF Old
  <2>4. pc'[p] \in {"take", "check"}
    BY <1>2, <1>t DEF Acquire, Goes
  <2>5. Back(p)'
    BY <2>3, <2>4 DEF Back, BackOf, Undoing, Failed
  <2> QED BY <2>1, <2>5 DEF BackInv, Back, Inside
<1>3. CASE Unlock(p) \/ Crash(p)
  <2>1. lock = p /\ Leave(p)
    BY <1>3 DEF Unlock, Crash, Inv, Exclusive
  <2>2. \A q \in Procs : pc'[q] \notin Inside
    BY <2>1, <1>t DEF Leave, Goes, Inv, Exclusive, Inside, Outside
  <2> QED BY <2>2 DEF BackInv, Back
<1> QED BY <1>1, <1>2, <1>3

(* Every step keeps BackInv. *)
LEMMA BackNext ==
  ASSUME Inv, ShowInv, KeptInv, BackInv, Next
  PROVE  BackInv'
<1>0. PICK p \in Procs : Begin(p) \/ Acquire(p) \/ Works(p) \/ Fails(p) \/ Unlock(p) \/ Crash(p)
  BY DEF Next
<1>1. SUFFICES ASSUME "detach" \notin Fallible PROVE BackInv'
  BY DEF BackInv
<1>2. CASE Begin(p) \/ Acquire(p) \/ Unlock(p) \/ Crash(p)
  BY <1>1, <1>2, BackLock
<1>3. CASE Works(p)
  BY <1>1, <1>3, BackPrepare, BackUnmerge, BackStage, BackLive, BackUndo,
     BackTeardown DEF Works
<1>4. CASE Fails(p)
  BY <1>1, <1>4, BackPrepare, BackUnmerge, BackStage, BackLive, BackTeardown DEF Fails
<1> QED BY <1>0, <1>2, <1>3, <1>4

(* BackInv is an invariant. *)
LEMMA BackAlways == Spec => []BackInv
<1>1. Init => BackInv
  BY DEF Init, BackInv, Back, Inside, Outside
<1>2. BackInv /\ UNCHANGED vars => BackInv'
  BY DEF BackInv, Back, vars, kernel
<1>3. Inv /\ ShowInv /\ KeptInv /\ BackInv /\ [Next]_vars => BackInv'
  BY <1>2, BackNext
<1> QED BY <1>1, <1>3, Invariance, ShowAlways, KeptAlways, PTL DEF Spec

(* If no unmount of abort fails, a failed operation leaves nothing of the new
   merge: every hierarchy shows what it showed before, or the host. *)
THEOREM NothingNewLeft == "detach" \notin Fallible => (Spec => []FailureLeavesNothingNew)
<1> SUFFICES ASSUME "detach" \notin Fallible PROVE Spec => []FailureLeavesNothingNew
  OBVIOUS
<1>1. Inv /\ BackInv => FailureLeavesNothingNew
  <2> SUFFICES ASSUME Inv, BackInv, NEW p \in Procs, Ends(p, "error"), NEW h \in H
               PROVE  View(h) \in {before.view[h], NotMerged}
    BY DEF FailureLeavesNothingNew
  <2>1. pc[p] \in Inside /\ Failed(pc[p], op[p])
    BY DEF Ends, Failed, Inside, Outside, Labels
  <2>2. Old(stack, {}, before)
    BY <2>1 DEF BackInv, Back, BackOf
  <2> QED BY <2>2, SeenView DEF Old
<1> QED BY <1>1, BackAlways, Invariance, PTL

-----------------------------------------------------------------------------
(* Where the mounts below the hierarchies are, if abort cannot fail and nobody
   is killed. *)

(* One hierarchy is the first of a set, and one the last. *)
LEMMA OneFirst ==
  ASSUME NEW S, NEW g \in H, NEW h \in H
  PROVE  /\ First(g, S) /\ First(h, S) => g = h
         /\ Last(g, S) /\ Last(h, S) => g = h
BY NAssumption DEF First, Last, H

(* The places of the model are different from each other. *)
LEMMA Places ==
  ASSUME NEW p \in Procs
  PROVE  /\ p \notin {"host", "overlay", "lost"} \cup Dirs
         /\ "host" \notin Dirs /\ "overlay" \notin Dirs
         /\ \A x : Spot(x) \in {"host", "overlay"} /\ Spot(x) \notin Dirs /\ Spot(x) # p
BY NamesAssumption DEF Reserved, Spot

(* What every action may use. *)
LEMMA PlacedFacts ==
  ASSUME Inv, ShowInv, KeptInv, PlacedInv, Careful, NEW p \in Procs, pc[p] \in Inside
  PROVE  /\ KernelInv /\ op[p] \in Op /\ req[p] \in Request /\ lock = p
         /\ PhaseOf(pc[p], op[p], req[p], stack)
         /\ ShowsOf(pc[p], op[p], req[p], stack)
         /\ KeptOf(pc[p], op[p], req[p], stack, sub, before)
         /\ \A s \in Subs : /\ Home[s] \in H
                            /\ SitsAt(pc[p], op[p], req[p], stack, Home[s], sub[s], p)
         /\ ChoseOf(pc[p], op[p], req[p], before)
<1>1. lock = p
  BY DEF Inv, Exclusive, Inside, Outside
<1> QED BY <1>1, KeptFacts, HomeAssumption DEF PlacedInv, Placed, PlacedOf

(* PlacedInv holds after a step of p that puts the mounts where the next label
   wants them. *)
LEMMA PlacedStep ==
  ASSUME Inv, NEW p \in Procs, pc[p] \in Inside, UNCHANGED <<lock, req, before>>,
         NEW l, NEW o, Goes(p, l, o), ChoseOf(l, o, req[p], before),
         \A s \in Subs : SitsAt(l, o, req[p], stack', Home[s], sub'[s], p)
  PROVE  PlacedInv'
<1>1. Placed(p)'
  BY Alone DEF Placed, PlacedOf
<1>2. ASSUME NEW q \in Procs \ {p} PROVE Placed(q)'
  BY Alone DEF Placed, Inside
<1>3. Resting'
  BY Alone, NamesAssumption DEF Resting
<1> QED BY <1>1, <1>2, <1>3 DEF PlacedInv

(* What an operation chose stays chosen. *)
Unchosen(o, n) == n.merged = o.merged /\ n.unmerging = o.unmerging /\ n.swapping = o.swapping

LEMMA ChoseStays ==
  ASSUME NEW l, NEW o, NEW r, NEW was, ChoseOf(l, o, r, was), NEW m, m # "callback",
         NEW n, Unchosen(o, n),
         m \in {"take", "umount"} /\ ~InPlaceOf(n, r) => n.todo \subseteq n.merged
  PROVE  ChoseOf(m, n, r, was)
BY DEF ChoseOf, Unchosen

(* The mounts are where programs look, and the next label wants them there. *)
LEMMA PlacedSettled ==
  ASSUME Inv, NEW p \in Procs, pc[p] \in Inside, UNCHANGED <<lock, req, before>>,
         ChoseOf(pc[p], op[p], req[p], before),
         NEW l \in Settled \ {"callback"}, NEW o, Goes(p, l, o), Unchosen(op[p], o),
         \A s \in Subs : sub'[s] = Spot(stack'[Home[s]])
  PROVE  PlacedInv'
<1>1. l \notin {"take", "umount", "putback", "stage", "carry", "adopt", "move"} \cup Undoing
  BY DEF Settled, Preparing, Layers, Undoing
<1>2. \A s \in Subs : SitsAt(l, o, req[p], stack', Home[s], sub'[s], p)
  BY <1>1 DEF SitsAt
<1>3. ChoseOf(l, o, req[p], before)
  BY <1>1, ChoseStays
<1> QED BY <1>2, <1>3, PlacedStep

(* An operation ends with the mounts where programs look. *)
LEMMA PlacedFinish ==
  ASSUME Inv, NEW p \in Procs, pc[p] \in Inside, UNCHANGED <<lock, req, before>>,
         ChoseOf(pc[p], op[p], req[p], before), NEW result, Finish(p, result),
         \A s \in Subs : sub'[s] = Spot(stack'[Home[s]])
  PROVE  PlacedInv'
<1>1. Unchosen(op[p], [op[p] EXCEPT !.res = result])
  BY Facts DEF Op, Unchosen
<1>2. "unlock" \in Settled \ {"callback"}
  BY DEF Settled
<1> QED BY <1>1, <1>2, PlacedSettled DEF Finish

(* abort starts: the mounts of a hierarchy are on what is new of it, with p,
   or where programs look. *)
LEMMA PlacedAbort ==
  ASSUME Inv, NEW p \in Procs, pc[p] \in Inside, UNCHANGED <<lock, req, before>>,
         ChoseOf(pc[p], op[p], req[p], before),
         NEW o \in Op, Unchosen(op[p], o), Abort(p, o),
         \A s \in Subs : IF Home[s] \in o.attached THEN sub'[s] \in {p, "overlay"}
                         ELSE \/ sub'[s] \in {p, Spot(stack'[Home[s]])}
                              \/ Home[s] \in o.staged /\ sub'[s] = o.gen
  PROVE  PlacedInv'
<1> DEFINE n == [o EXCEPT !.todo = H, !.res = "error"]
<1>1. /\ n.todo = H /\ n.attached = o.attached /\ n.staged = o.staged /\ n.gen = o.gen
      /\ Unchosen(op[p], n)
  BY DEF Op, Unchosen
<1>2. ASSUME NEW s \in Subs
      PROVE  SitsAt("abort", n, req[p], stack', Home[s], sub'[s], p)
  <2>1. Home[s] \in n.todo
    BY <1>1, HomeAssumption
  <2>2. UndoneAt("abort", n, stack', Home[s], sub'[s], p)
    BY <1>1 DEF UndoneAt
  <2> QED BY <2>1, <2>2 DEF SitsAt, Settled, Preparing, Layers
<1>3. ChoseOf("abort", n, req[p], before)
  BY <1>1, ChoseStays
<1> QED BY <1>2, <1>3, PlacedStep DEF Abort

(* The workspace and the images are prepared with all mounts where programs look. *)
LEMMA PlacedPrepare ==
  ASSUME Inv, ShowInv, KeptInv, PlacedInv, Careful, NEW p \in Procs,
         \/ Check(p) \/ ResetWorkspace(p) \/ UseWorkspace(p) \/ MountImage(p)
         \/ PlanNothing(p) \/ Callback(p) \/ PlanUnchanged(p) \/ PlanSwap(p)
         \/ CheckFails(p) \/ WorkspaceFails(p) \/ MountImageFails(p) \/ CallbackFails(p)
         \/ PlanFails(p)
  PROVE  PlacedInv'
<1>i. pc[p] \in Inside /\ UNCHANGED <<lock, req, before>> /\ pc[p] \in Preparing
  BY DEF Check, ResetWorkspace, UseWorkspace, MountImage, PlanNothing, Callback,
     PlanUnchanged,
         PlanSwap, CheckFails, WorkspaceFails, MountImageFails, CallbackFails, PlanFails,
         Prepared, At, Inside, Outside, Labels, Preparing
<1>0. /\ op[p] \in Op /\ PhaseOf(pc[p], op[p], req[p], stack)
      /\ KeptOf(pc[p], op[p], req[p], stack, sub, before)
      /\ ChoseOf(pc[p], op[p], req[p], before)
      /\ \A s \in Subs : /\ Home[s] \in H
                         /\ SitsAt(pc[p], op[p], req[p], stack, Home[s], sub[s], p)
  BY <1>i, PlacedFacts
<1>s. Same(stack, stack') /\ \A s \in Subs : sub[s] \notin Dirs => sub'[s] = sub[s]
  BY PrepareTouches
<1>w. \A s \in Subs : sub[s] = Spot(stack[Home[s]]) /\ sub'[s] = Spot(stack'[Home[s]])
  <2>1. \A s \in Subs : sub[s] = Spot(stack[Home[s]])
    BY <1>0, <1>i DEF SitsAt, Settled
  <2> QED BY <2>1, <1>0, <1>s, Places, SameSeen
<1>k. /\ ~op[p].swapping /\ ~InPlaceOf(op[p], req[p]) /\ op[p].staged = {} /\ op[p].attached = {}
      /\ Untouched(stack, sub, before)
      /\ pc[p] # "check" => \A h \in op[p].merged : stack[h] # <<>>
  BY <1>0, <1>i DEF KeptOf, Preparing
<1>a. ASSUME Abort(p, op[p]) PROVE PlacedInv'
  <2>1. Unchosen(op[p], op[p])
    BY DEF Unchosen
  <2> QED BY <2>1, <1>a, <1>i, <1>0, <1>k, <1>w, PlacedAbort
<1>g. ASSUME NEW l \in {"workspace", "image"}, NEW o, Goes(p, l, o), Unchosen(op[p], o)
      PROVE  PlacedInv'
  <2>1. l \in Settled \ {"callback"}
    BY DEF Settled, Preparing
  <2> QED BY <2>1, <1>g, <1>i, <1>0, <1>w, PlacedSettled
<1>f. ASSUME NEW result, Finish(p, result) PROVE PlacedInv'
  BY <1>f, <1>i, <1>0, <1>w, PlacedFinish
<1>1. CASE Check(p)
  <2> DEFINE o == [op[p] EXCEPT !.merged = {h \in H : Ours(h)}, !.left = req[p].images]
  <2>1. CASE Abort(p, op[p])
    BY <2>1, <1>a
  <2>2. ASSUME NEW l \in {"workspace", "image"}, Goes(p, l, o),
               ~(req[p].verb = "merge" /\ {h \in H : Ours(h)} # {})
        PROVE  PlacedInv'
    <3>1. /\ o.merged = {h \in H : Ours(h)} /\ o.swapping = op[p].swapping
          /\ o.unmerging = op[p].unmerging
      BY <1>0 DEF Op
    <3>2. ChoseOf(l, o, req[p], before)
      BY <3>1, <2>2, <1>0, <1>k DEF ChoseOf
    <3>3. l \in Settled /\ l \notin {"take", "umount", "putback", "stage", "carry", "adopt",
                                     "move"} \cup Undoing
      BY DEF Settled, Preparing, Undoing
    <3>4. \A s \in Subs : SitsAt(l, o, req[p], stack', Home[s], sub'[s], p)
      BY <3>3, <1>w DEF SitsAt
    <3> HIDE DEF o
    <3> QED BY <3>2, <3>4, <2>2, <1>i, PlacedStep
  <2> QED BY <1>1, <2>1, <2>2 DEF Check
<1>2. CASE ResetWorkspace(p) \/ UseWorkspace(p) \/ MountImage(p)
  <2>1. PICK o : Goes(p, "image", o) /\ Unchosen(op[p], o)
    <3>1. CASE ResetWorkspace(p)
      <4> WITNESS [op[p] EXCEPT !.gen = Base, !.fresh = TRUE]
      <4> QED BY <3>1, <1>0 DEF ResetWorkspace, Op, Unchosen
    <3>2. CASE UseWorkspace(p)
      <4>1. PICK d : Goes(p, "image", [op[p] EXCEPT !.gen = d, !.fresh = Base \notin dirs])
        BY <3>2 DEF UseWorkspace
      <4> WITNESS [op[p] EXCEPT !.gen = d, !.fresh = Base \notin dirs]
      <4> QED BY <4>1, <1>0 DEF Op, Unchosen
    <3>3. CASE MountImage(p)
      <4>1. PICK e :
         \/ Goes(p, "image", [op[p] EXCEPT !.left = @ \ {e}, !.images = @ \cup {e}])
         \/ Goes(p, "image", [op[p] EXCEPT !.left = @ \ {e}])
        BY <3>3 DEF MountImage
      <4>2. /\ Unchosen(op[p], [op[p] EXCEPT !.left = @ \ {e}, !.images = @ \cup {e}])
            /\ Unchosen(op[p], [op[p] EXCEPT !.left = @ \ {e}])
        BY <1>0 DEF Op, Unchosen
      <4> QED BY <4>1, <4>2
    <3> QED BY <1>2, <3>1, <3>2, <3>3
  <2> QED BY <2>1, <1>g
<1>3. CASE PlanNothing(p)
  <2> DEFINE o == [op[p] EXCEPT !.gen = NoDir, !.fresh = FALSE]
  <2>1. ASSUME op[p].merged # {}, Goes(p, "callback", o) PROVE PlacedInv'
    <3>1. Unchosen(op[p], o)
      BY <1>0 DEF Op, Unchosen
    <3>2. ChoseOf("callback", o, req[p], before)
      BY <3>1, <2>1, <1>0 DEF ChoseOf, Unchosen
    <3>3. \A s \in Subs : SitsAt("callback", o, req[p], stack', Home[s], sub'[s], p)
      BY <1>w DEF SitsAt, Undoing
    <3> HIDE DEF o
    <3> QED BY <3>2, <3>3, <2>1, <1>i, PlacedStep
  <2> QED BY <1>3, <2>1, <1>f DEF PlanNothing
<1>4. CASE Callback(p)
  <2> DEFINE o == [op[p] EXCEPT !.unmerging = TRUE, !.todo = op[p].merged]
  <2>1. /\ o.unmerging = TRUE /\ o.swapping = op[p].swapping /\ o.merged = op[p].merged
    BY <1>0 DEF Op
  <2>2. InPlaceOf(o, req[p])
    BY <2>1 DEF InPlaceOf
  <2>3. ChoseOf("take", o, req[p], before)
    BY <2>1, <2>2, <1>0, <1>4 DEF ChoseOf, Callback, At
  <2>4. \A s \in Subs : SitsAt("take", o, req[p], stack', Home[s], sub'[s], p)
    BY <1>w, <2>2 DEF SitsAt, Settled, Preparing, Layers, Undoing
  <2>5. Goes(p, "take", o)
    BY <1>4 DEF Callback
  <2> HIDE DEF o
  <2> QED BY <2>3, <2>4, <2>5, <1>i, PlacedStep
<1>5. CASE PlanUnchanged(p)
  BY <1>5, <1>f DEF PlanUnchanged
<1>6. CASE PlanSwap(p)
  <2>i. pc[p] = "image" /\ UNCHANGED stack
    BY <1>6 DEF PlanSwap, Prepared, At, kernel
  <2>e. Empty(stack, op[p].merged)
    BY <1>0, <2>i DEF PhaseOf
  <2>m. req[p].verb = "merge" => /\ op[p].merged = {} /\ ~op[p].unmerging
                                 /\ \A h \in H : before.view[h] = NotMerged
                                 /\ \A s \in Subs : before.sub[s] = "host"
    <3>1. SUFFICES ASSUME req[p].verb = "merge"
                   PROVE  /\ op[p].merged = {} /\ ~op[p].unmerging
                          /\ \A h \in H : before.view[h] = NotMerged
                          /\ \A s \in Subs : before.sub[s] = "host"
      OBVIOUS
    <3>2. op[p].merged = {} /\ ~op[p].unmerging
      BY <3>1, <1>0 DEF ChoseOf
    <3>3. \A h \in H : Shown(stack[h]) = NotMerged /\ Spot(stack[h]) = "host"
      BY <3>2, <2>e DEF Empty, Shown, Spot
    <3>4. \A s \in Subs : before.sub[s] \in {"host", "overlay"}
      BY <1>0 DEF ChoseOf
    <3>5. \A s \in Subs : sub[s] = "host"
      BY <3>3, <1>w, <1>0
    <3> QED BY <3>2, <3>3, <3>4, <3>5, <1>k DEF Untouched
  <2>1. CASE op[p].merged = {} /\ Goes(p, "stage", [op[p] EXCEPT !.swapping = TRUE, !.todo = H])
    <3> DEFINE o == [op[p] EXCEPT !.swapping = TRUE, !.todo = H]
    <3>1. /\ o.swapping = TRUE /\ o.todo = H /\ o.merged = {} /\ o.unmerging = op[p].unmerging
      BY <1>0, <2>1 DEF Op
    <3>2. ChoseOf("stage", o, req[p], before)
      BY <3>1, <2>m, <1>0 DEF ChoseOf
    <3>3. \A s \in Subs : sub'[s] = "host"
      BY <1>w, <1>0, <2>e, <2>i, <2>1 DEF Empty, Spot
    <3>4. \A s \in Subs : SitsAt("stage", o, req[p], stack', Home[s], sub'[s], p)
      BY <3>1, <3>3, <1>0 DEF SitsAt, StagedAt, Settled, Preparing, Layers, Undoing
    <3> HIDE DEF o
    <3> QED BY <2>1, <3>2, <3>4, <1>i, PlacedStep DEF o
  <2>2. CASE Goes(p, "take", [op[p] EXCEPT !.swapping = TRUE, !.todo = op[p].merged])
    <3> DEFINE o == [op[p] EXCEPT !.swapping = TRUE, !.todo = op[p].merged]
    <3>1. /\ o.swapping = TRUE /\ o.todo = op[p].merged /\ o.merged = op[p].merged
          /\ o.unmerging = op[p].unmerging
      BY <1>0 DEF Op
    <3>2. ChoseOf("take", o, req[p], before)
      BY <3>1, <2>m, <1>0 DEF ChoseOf
    <3>3. ~InPlaceOf(o, req[p])
      BY <3>1, <1>k DEF InPlaceOf
    <3>4. \A h \in o.merged : stack'[h] # <<>>
      BY <3>1, <2>i, <1>k
    <3>5. \A s \in Subs : SitsAt("take", o, req[p], stack', Home[s], sub'[s], p)
      BY <3>3, <3>4, <1>w DEF SitsAt, Settled, Preparing, Layers, Undoing
    <3> HIDE DEF o
    <3> QED BY <2>2, <3>2, <3>5, <1>i, PlacedStep DEF o
  <2> QED BY <1>6, <2>1, <2>2 DEF PlanSwap
<1>7. CASE CheckFails(p) \/ WorkspaceFails(p) \/ MountImageFails(p) \/ CallbackFails(p)
           \/ PlanFails(p)
  BY <1>7, <1>a DEF CheckFails, WorkspaceFails, MountImageFails, CallbackFails, PlanFails
<1> QED BY <1>1, <1>2, <1>3, <1>4, <1>5, <1>6, <1>7

(* An unmerge works on labels where nothing is staged or attached. *)
LEMMA UnmergeFacts ==
  ASSUME Inv, ShowInv, KeptInv, PlacedInv, Careful, NEW p \in Procs,
         \/ TakeSubmounts(p) \/ HierarchyUnmerged(p) \/ Unmount(p) \/ PutBack(p)
         \/ TakeFails(p) \/ UnmountFails(p) \/ PutBackFails(p)
  PROVE  /\ pc[p] \in Inside /\ UNCHANGED <<lock, req, before>>
         /\ pc[p] \in {"take", "umount", "putback"}
         /\ KernelInv /\ op[p] \in Op /\ op[p].attached = {}
         /\ PhaseOf(pc[p], op[p], req[p], stack)
         /\ ChoseOf(pc[p], op[p], req[p], before)
         /\ \A s \in Subs : /\ Home[s] \in H
                            /\ SitsAt(pc[p], op[p], req[p], stack, Home[s], sub[s], p)
         /\ InPlace(p) <=> InPlaceOf(op[p], req[p])
<1>1. /\ pc[p] \in Inside /\ UNCHANGED <<lock, req, before>>
      /\ pc[p] \in {"take", "umount", "putback"}
  BY DEF TakeSubmounts, HierarchyUnmerged, Unmount, PutBack, TakeFails, UnmountFails,
         PutBackFails, At, Inside, Outside, Labels
<1>2. op[p].attached = {}
  BY <1>1, PlacedFacts DEF KeptOf
<1> QED BY <1>1, <1>2, PlacedFacts, Fields

(* An error while h is unmerged: in place its mounts are put back, in a swap
   abort puts back those of all hierarchies. *)
LEMMA PlacedUnmergeError ==
  ASSUME Inv, NEW p \in Procs, pc[p] \in Inside, UNCHANGED <<lock, req, before>>,
         op[p].attached = {}, ChoseOf(pc[p], op[p], req[p], before),
         InPlace(p) <=> InPlaceOf(op[p], req[p]), UnmergeError(p),
         \A s \in Subs : sub'[s] \in {p, Spot(stack'[Home[s]])},
         InPlace(p) => \A s \in Subs : ~First(Home[s], op[p].todo)
                                         => sub'[s] = Spot(stack'[Home[s]])
  PROVE  PlacedInv'
<1>0. op[p] \in Op
  BY Facts
<1>1. CASE InPlace(p)
  <2> DEFINE o == [op[p] EXCEPT !.res = "error"]
  <2>1. o.todo = op[p].todo /\ Unchosen(op[p], o)
    BY <1>0 DEF Op, Unchosen
  <2>2. ChoseOf("putback", o, req[p], before)
    BY <2>1, ChoseStays
  <2>3. \A s \in Subs : SitsAt("putback", o, req[p], stack', Home[s], sub'[s], p)
    BY <1>1, <2>1 DEF SitsAt, Settled, Preparing, Layers, Undoing
  <2> HIDE DEF o
  <2> QED BY <1>1, <2>2, <2>3, PlacedStep DEF UnmergeError, o
<1>2. CASE ~InPlace(p)
  <2>1. Abort(p, op[p]) /\ Unchosen(op[p], op[p])
    BY <1>2 DEF UnmergeError, Unchosen
  <2> QED BY <2>1, <1>0, PlacedAbort
<1> QED BY <1>1, <1>2

(* The mounts of the first hierarchy are taken from its overlay. *)
LEMMA PlacedTake ==
  ASSUME Inv, ShowInv, KeptInv, PlacedInv, Careful, NEW p \in Procs,
         TakeSubmounts(p) \/ TakeFails(p)
  PROVE  PlacedInv'
<1>0. /\ pc[p] \in Inside /\ UNCHANGED <<lock, req, before>> /\ op[p] \in Op
      /\ op[p].attached = {} /\ ChoseOf(pc[p], op[p], req[p], before)
      /\ \A s \in Subs : /\ Home[s] \in H
                         /\ SitsAt(pc[p], op[p], req[p], stack, Home[s], sub[s], p)
      /\ InPlace(p) <=> InPlaceOf(op[p], req[p])
  BY UnmergeFacts
<1>t. pc[p] = "take" /\ UNCHANGED stack
  BY DEF TakeSubmounts, TakeFails, At, kernel
<1>p. /\ \A x : Spot(x) # p
      /\ \A h \in H : stack[h] # <<>> => Spot(stack[h]) = "overlay"
  BY Places DEF Spot
<1>1. CASE TakeSubmounts(p)
  <2>1. PICK h \in H : First(h, op[p].todo) /\ Ours(h) /\ Carry(h, "overlay", p)
    BY <1>1 DEF TakeSubmounts
  <2>2. \A s \in Subs : sub'[s] = IF Home[s] = h /\ sub[s] = "overlay" THEN p ELSE sub[s]
    BY <2>1 DEF Carry
  <2>3. \A g \in H : First(g, op[p].todo) <=> g = h
    BY <2>1, OneFirst
  <2>4. Spot(stack[h]) = "overlay" /\ stack[h] # <<>>
    BY <2>1, <1>p DEF Ours
  <2>5. ~InPlaceOf(op[p], req[p]) => h \in op[p].merged
    BY <2>1, <1>0, <1>t DEF ChoseOf, First
  <2>6. ASSUME NEW s \in Subs
        PROVE  SitsAt("umount", op[p], req[p], stack', Home[s], sub'[s], p)
    <3>1. CASE InPlaceOf(op[p], req[p])
      <4>1. IF Home[s] # h THEN sub[s] = Spot(stack[Home[s]])
            ELSE sub[s] = p \/ sub[s] = Spot(stack[Home[s]])
        BY <3>1, <2>3, <1>0, <1>t DEF SitsAt
      <4>2. IF Home[s] # h THEN sub'[s] = Spot(stack[Home[s]]) ELSE sub'[s] = p
        BY <4>1, <2>2, <2>4
      <4> QED BY <4>2, <3>1, <2>3, <1>0, <1>t DEF SitsAt, Settled, Preparing, Layers,
             Undoing
    <3>2. CASE ~InPlaceOf(op[p], req[p])
      <4>1. sub[s] = IF Home[s] \in op[p].merged /\ stack[Home[s]] = <<>> THEN p
                     ELSE Spot(stack[Home[s]])
        BY <3>2, <1>0, <1>t DEF SitsAt
      <4>2. sub'[s] = IF Home[s] \in op[p].merged /\ (stack[Home[s]] = <<>> \/ Home[s] = h)
                      THEN p ELSE Spot(stack[Home[s]])
        BY <4>1, <2>2, <2>4, <2>5, <3>2
      <4> QED BY <4>2, <3>2, <2>3, <1>0, <1>t DEF SitsAt, Settled, Preparing, Layers,
             Undoing
    <3> QED BY <3>1, <3>2
  <2>7. Unchosen(op[p], op[p]) /\ Goes(p, "umount", op[p])
    BY <1>1 DEF Unchosen, TakeSubmounts
  <2>8. ChoseOf("umount", op[p], req[p], before)
    BY <1>0, <1>t DEF ChoseOf
  <2> QED BY <2>6, <2>7, <2>8, <1>0, PlacedStep
<1>2. CASE TakeFails(p)
  <2>1. UNCHANGED sub /\ UnmergeError(p)
    BY <1>2 DEF TakeFails, kernel
  <2>2. \A s \in Subs : sub'[s] \in {p, Spot(stack'[Home[s]])}
    BY <2>1, <1>0, <1>t DEF SitsAt
  <2>3. InPlace(p) => \A s \in Subs : ~First(Home[s], op[p].todo)
                                        => sub'[s] = Spot(stack'[Home[s]])
    BY <2>1, <1>0, <1>t DEF SitsAt
  <2> QED BY <2>1, <2>2, <2>3, <1>0, PlacedUnmergeError
<1> QED BY <1>1, <1>2

(* No overlay is left on the first hierarchy. *)
LEMMA PlacedEmptied ==
  ASSUME Inv, ShowInv, KeptInv, PlacedInv, Careful, NEW p \in Procs, HierarchyUnmerged(p)
  PROVE  PlacedInv'
<1>0. /\ pc[p] \in Inside /\ UNCHANGED <<lock, req, before>> /\ op[p] \in Op
      /\ PhaseOf(pc[p], op[p], req[p], stack)
      /\ op[p].attached = {} /\ ChoseOf(pc[p], op[p], req[p], before)
      /\ \A s \in Subs : /\ Home[s] \in H
                         /\ SitsAt(pc[p], op[p], req[p], stack, Home[s], sub[s], p)
      /\ InPlace(p) <=> InPlaceOf(op[p], req[p])
  BY UnmergeFacts
<1>t. pc[p] = "take" /\ UNCHANGED <<stack, sub>>
  BY DEF HierarchyUnmerged, At, kernel
<1>1. CASE InPlace(p)
  <2>1. Goes(p, "putback", op[p])
    BY <1>1 DEF HierarchyUnmerged
  <2>2. \A s \in Subs : SitsAt("putback", op[p], req[p], stack', Home[s], sub'[s], p)
    BY <1>1, <1>0, <1>t DEF SitsAt, Settled, Preparing, Layers, Undoing
  <2>3. ChoseOf("putback", op[p], req[p], before)
    BY <1>0 DEF ChoseOf
  <2> QED BY <2>1, <2>2, <2>3, <1>0, PlacedStep
<1>2. CASE ~InPlace(p)
  <2>1. PICK h \in H :
          /\ First(h, op[p].todo) /\ ~Ours(h)
          /\ IF op[p].todo \ {h} = {} THEN Goes(p, "stage", [op[p] EXCEPT !.todo = H])
             ELSE Goes(p, "take", [op[p] EXCEPT !.todo = op[p].todo \ {h}])
    BY <1>2 DEF HierarchyUnmerged
  <2>2. \A s \in Subs : sub[s] = IF Home[s] \in op[p].merged /\ stack[Home[s]] = <<>> THEN p
                                 ELSE Spot(stack[Home[s]])
    BY <1>2, <1>0, <1>t DEF SitsAt
  <2>3. CASE op[p].todo \ {h} = {} /\ Goes(p, "stage", [op[p] EXCEPT !.todo = H])
    <3> DEFINE o == [op[p] EXCEPT !.todo = H]
    <3>1. o.todo = H /\ o.merged = op[p].merged /\ Unchosen(op[p], o)
      BY <1>0 DEF Op, Unchosen
    <3>2. stack[h] = <<>>
      <4>1. stack[h] \in Seq(Overlay) /\ Len(stack[h]) <= 1
            /\ \A k \in DOMAIN stack[h] : stack[h][k].loc # "deleted"
        BY DEF Inv, TypeOK, NeverStacked, MarkersIntact
      <4>2. Len(stack[h]) = 1 => Top(h).loc # "deleted"
        BY <4>1 DEF Top
      <4> QED BY <4>1, <4>2, <2>1, AtMostOne DEF Ours
    <3>3. \A g \in H : stack[g] = <<>>
      BY <3>2, <2>3, <1>0, <1>t, <1>2 DEF PhaseOf, Empty, InPlaceOf
    <3>4. \A s \in Subs : sub'[s] = IF Home[s] \in op[p].merged THEN p ELSE "host"
      BY <3>3, <2>2, <1>0, <1>t DEF Spot
    <3>5. \A s \in Subs : SitsAt("stage", o, req[p], stack', Home[s], sub'[s], p)
      BY <3>1, <3>4, <1>0 DEF SitsAt, StagedAt, Settled, Preparing, Layers, Undoing
    <3>6. ChoseOf("stage", o, req[p], before)
      BY <3>1, <1>0, ChoseStays
    <3> HIDE DEF o
    <3> QED BY <2>3, <3>5, <3>6, <1>0, PlacedStep DEF o
  <2>4. CASE Goes(p, "take", [op[p] EXCEPT !.todo = op[p].todo \ {h}])
    <3> DEFINE o == [op[p] EXCEPT !.todo = op[p].todo \ {h}]
    <3>1. /\ o.todo = op[p].todo \ {h} /\ o.merged = op[p].merged /\ Unchosen(op[p], o)
      BY <1>0 DEF Op, Unchosen
    <3>2. ~InPlaceOf(o, req[p])
      BY <3>1, <1>0, <1>2 DEF InPlaceOf, Unchosen
    <3>3. o.todo \subseteq o.merged
      BY <3>1, <1>0, <1>2, <1>t DEF ChoseOf
    <3>4. ChoseOf("take", o, req[p], before)
      BY <3>1, <3>3, <1>0, ChoseStays
    <3>5. \A s \in Subs : SitsAt("take", o, req[p], stack', Home[s], sub'[s], p)
      BY <3>1, <3>2, <2>2, <1>t DEF SitsAt, Settled, Preparing, Layers, Undoing
    <3> HIDE DEF o
    <3> QED BY <2>4, <3>4, <3>5, <1>0, PlacedStep DEF o
  <2> QED BY <2>1, <2>3, <2>4
<1> QED BY <1>1, <1>2

(* The overlay goes, with no mount on it. *)
LEMMA PlacedUnmount ==
  ASSUME Inv, ShowInv, KeptInv, PlacedInv, Careful, NEW p \in Procs,
         Unmount(p) \/ UnmountFails(p)
  PROVE  PlacedInv'
<1>0. /\ pc[p] \in Inside /\ UNCHANGED <<lock, req, before>> /\ op[p] \in Op /\ KernelInv
      /\ op[p].attached = {} /\ ChoseOf(pc[p], op[p], req[p], before)
      /\ \A s \in Subs : /\ Home[s] \in H
                         /\ SitsAt(pc[p], op[p], req[p], stack, Home[s], sub[s], p)
      /\ InPlace(p) <=> InPlaceOf(op[p], req[p])
  BY UnmergeFacts
<1>t. pc[p] = "umount" /\ UNCHANGED <<dirs, img, stage>>
  BY DEF Unmount, UnmountFails, At
<1>c. ~InPlaceOf(op[p], req[p]) => op[p].todo \subseteq op[p].merged
  BY <1>0, <1>t DEF ChoseOf
<1>s. ASSUME NEW s \in Subs
      PROVE  IF First(Home[s], op[p].todo) THEN sub[s] = p
             ELSE IF InPlaceOf(op[p], req[p]) THEN sub[s] = Spot(stack[Home[s]])
             ELSE sub[s] = IF Home[s] \in op[p].merged /\ stack[Home[s]] = <<>> THEN p
                           ELSE Spot(stack[Home[s]])
  BY <1>0, <1>t, <1>c DEF SitsAt, First
<1>p. ASSUME NEW h \in H, First(h, op[p].todo), Pop(h), NEW s \in Subs
      PROVE  /\ sub'[s] = sub[s]
             /\ First(Home[s], op[p].todo) <=> Home[s] = h
             /\ Home[s] # h => stack'[Home[s]] = stack[Home[s]]
             /\ stack'[h] = <<>>
  <2>1. stack'[h] = <<>> /\ \A g \in H \ {h} : stack'[g] = stack[g]
    BY <1>p, <1>0, <1>t, PopKernel DEF KernelInv
  <2>2. First(Home[s], op[p].todo) <=> Home[s] = h
    BY <1>p, <1>0, OneFirst
  <2>3. sub'[s] = IF Home[s] = h /\ sub[s] = "overlay" THEN "lost" ELSE sub[s]
    BY <1>p DEF Pop, Carry
  <2> QED BY <2>1, <2>2, <2>3, <1>s, <1>0, Places
<1>e. ASSUME UnmergeError(p), UNCHANGED <<stack, sub>> PROVE PlacedInv'
  <2>1. \A s \in Subs : sub'[s] \in {p, Spot(stack'[Home[s]])}
    BY <1>e, <1>s
  <2>2. InPlace(p) => \A s \in Subs : ~First(Home[s], op[p].todo)
                                        => sub'[s] = Spot(stack'[Home[s]])
    BY <1>e, <1>s, <1>0
  <2> QED BY <2>1, <2>2, <1>e, <1>0, PlacedUnmergeError
<1>1. ASSUME NEW h \in H, First(h, op[p].todo), Pop(h), InPlace(p), UnmergeError(p)
      PROVE  PlacedInv'
  <2>1. \A s \in Subs : sub'[s] \in {p, Spot(stack'[Home[s]])}
    BY <1>1, <1>s, <1>p, <1>0
  <2>2. \A s \in Subs : ~First(Home[s], op[p].todo) => sub'[s] = Spot(stack'[Home[s]])
    BY <1>1, <1>s, <1>p, <1>0
  <2> QED BY <2>1, <2>2, <1>1, <1>0, PlacedUnmergeError
<1>2. ASSUME NEW h \in H, First(h, op[p].todo), Pop(h), InPlace(p), Goes(p, "take", op[p])
      PROVE  PlacedInv'
  <2>1. ASSUME NEW s \in Subs
        PROVE  SitsAt("take", op[p], req[p], stack', Home[s], sub'[s], p)
    <3>1. IF First(Home[s], op[p].todo) THEN sub'[s] = p
          ELSE sub'[s] = Spot(stack'[Home[s]])
      BY <1>2, <1>s, <1>p, <1>0
    <3> QED BY <1>2, <3>1, <1>0 DEF SitsAt, Settled, Preparing, Layers, Undoing
  <2>2. ChoseOf("take", op[p], req[p], before)
    BY <1>0, <1>c DEF ChoseOf
  <2> QED BY <2>1, <2>2, <1>2, <1>0, PlacedStep
<1>3. ASSUME NEW h \in H, First(h, op[p].todo), Pop(h), ~InPlace(p),
             \/ Goes(p, "take", [op[p] EXCEPT !.unmerged = @ \cup {h}])
             \/ Abort(p, [op[p] EXCEPT !.unmerged = @ \cup {h}])
      PROVE  PlacedInv'
  <2> DEFINE o == [op[p] EXCEPT !.unmerged = @ \cup {h}]
  <2>1. /\ o \in Op /\ o.todo = op[p].todo /\ o.merged = op[p].merged /\ Unchosen(op[p], o)
        /\ o.attached = {}
    BY <1>0 DEF Op, Unchosen
  <2>2. ~InPlaceOf(o, req[p])
    BY <2>1, <1>0, <1>3 DEF InPlaceOf, Unchosen
  <2>3. ASSUME NEW s \in Subs
        PROVE  sub'[s] = IF Home[s] \in op[p].merged /\ stack'[Home[s]] = <<>> THEN p
                         ELSE Spot(stack'[Home[s]])
    <3>1. h \in op[p].merged
      BY <1>3, <1>c, <1>0 DEF First
    <3> QED BY <3>1, <1>3, <1>s, <1>p, <1>0
  <2>4. CASE Goes(p, "take", o)
    <3>1. ChoseOf("take", o, req[p], before)
      BY <2>1, <1>0, <1>c, <1>3, ChoseStays
    <3>2. \A s \in Subs : SitsAt("take", o, req[p], stack', Home[s], sub'[s], p)
      BY <2>1, <2>2, <2>3 DEF SitsAt, Settled, Preparing, Layers, Undoing
    <3> HIDE DEF o
    <3> QED BY <2>4, <3>1, <3>2, <1>0, PlacedStep
  <2>5. CASE Abort(p, o)
    <3>1. \A s \in Subs : /\ Home[s] \notin o.attached
                         /\ sub'[s] \in {p, Spot(stack'[Home[s]])}
      BY <2>1, <2>3
    <3> HIDE DEF o
    <3> QED BY <2>1, <2>5, <3>1, <1>0, PlacedAbort
  <2> QED BY <1>3, <2>4, <2>5
<1>4. CASE Unmount(p)
  BY <1>4, <1>2, <1>3 DEF Unmount
<1>5. CASE UnmountFails(p)
  BY <1>5, <1>1, <1>3, <1>e DEF UnmountFails
<1> QED BY <1>4, <1>5

(* The mounts of the first hierarchy are put back where programs look. *)
LEMMA PlacedPutBack ==
  ASSUME Inv, ShowInv, KeptInv, PlacedInv, Careful, NEW p \in Procs,
         PutBack(p) \/ PutBackFails(p)
  PROVE  PlacedInv'
<1>0. /\ pc[p] \in Inside /\ UNCHANGED <<lock, req, before>> /\ op[p] \in Op
      /\ PhaseOf(pc[p], op[p], req[p], stack)
      /\ op[p].attached = {} /\ ChoseOf(pc[p], op[p], req[p], before)
      /\ \A s \in Subs : /\ Home[s] \in H
                         /\ SitsAt(pc[p], op[p], req[p], stack, Home[s], sub[s], p)
  BY UnmergeFacts
<1>t. pc[p] = "putback" /\ UNCHANGED stack
  BY DEF PutBack, PutBackFails, At
<1>1. ~PutBackFails(p)
  BY DEF PutBackFails, Fault, Careful
<1>2. PICK h \in H : /\ First(h, op[p].todo) /\ Attach(p, h, Visible(h))
                     /\ UnmergeNext(p, h, op[p].res)
  BY <1>1 DEF PutBack
<1>3. \A s \in Subs : sub'[s] = Spot(stack'[Home[s]])
  <2>1. \A s \in Subs : sub'[s] = IF Home[s] = h /\ sub[s] = p THEN Spot(stack[h]) ELSE sub[s]
    BY <1>2, SeenView DEF Attach, Carry
  <2>2. \A s \in Subs : sub[s] = Spot(stack[Home[s]]) \/ (Home[s] = h /\ sub[s] = p)
    BY <1>0, <1>t, <1>2, OneFirst DEF SitsAt
  <2> QED BY <2>1, <2>2, <1>t
<1>4. CASE Abort(p, op[p])
  <2>1. Unchosen(op[p], op[p])
    BY DEF Unchosen
  <2> QED BY <2>1, <1>0, <1>3, <1>4, PlacedAbort
<1>5. ASSUME NEW l \in {"take", "unlock", "teardown"},
             Goes(p, l, [op[p] EXCEPT !.todo = op[p].todo \ {h}, !.res = op[p].res])
      PROVE  PlacedInv'
  <2> DEFINE o == [op[p] EXCEPT !.todo = op[p].todo \ {h}, !.res = op[p].res]
  <2>1. Unchosen(op[p], o)
    BY <1>0 DEF Op, Unchosen
  <2>2. InPlaceOf(o, req[p])
    BY <2>1, <1>0, <1>t DEF PhaseOf, InPlaceOf, Unchosen
  <2>3. ChoseOf(l, o, req[p], before)
    BY <2>1, <2>2, <1>0, ChoseStays
  <2>4. \A s \in Subs : SitsAt(l, o, req[p], stack', Home[s], sub'[s], p)
    BY <1>3, <2>2 DEF SitsAt, Undoing
  <2> HIDE DEF o
  <2> QED BY <1>5, <2>3, <2>4, <1>0, PlacedStep DEF o
<1> QED BY <1>2, <1>4, <1>5 DEF UnmergeNext

(* While the new merge is staged, the mounts move to its overlays. *)
LEMMA StageFacts ==
  ASSUME Inv, ShowInv, KeptInv, PlacedInv, Careful, NEW p \in Procs,
         pc[p] \in {"stage", "carry", "adopt"}
  PROVE  /\ op[p] \in Op /\ op[p].attached = {}
         /\ ChoseOf(pc[p], op[p], req[p], before)
         /\ \A s \in Subs : /\ Home[s] \in H
                            /\ SitsAt(pc[p], op[p], req[p], stack, Home[s], sub[s], p)
         /\ \A h \in H : stack[h] = <<>>
         /\ Mounts(p) = MountsOf(op[p], req[p])
         /\ pc[p] \in Inside
<1>1. pc[p] \in Inside
  BY DEF Inside, Outside, Labels
<1>2. op[p].attached = {} /\ \A h \in H : stack[h] = <<>>
  BY <1>1, PlacedFacts DEF PhaseOf, Empty
<1> QED BY <1>1, <1>2, PlacedFacts, Fields

(* abort finds what was staged, and the mounts on it, with p or on the host. *)
LEMMA StagedAbort ==
  ASSUME Inv, ShowInv, KeptInv, PlacedInv, Careful, NEW p \in Procs,
         pc[p] \in {"stage", "carry", "adopt"}, UNCHANGED <<lock, req, before, stack>>,
         \A s \in Subs : \/ sub'[s] \in {sub[s], "host"}
                         \/ Home[s] \in op[p].staged /\ sub'[s] = op[p].gen,
         NEW o \in Op, Abort(p, o), Unchosen(op[p], o), o.attached = {}, o.gen = op[p].gen,
         op[p].staged \subseteq o.staged
  PROVE  PlacedInv'
<1>0. /\ pc[p] \in Inside /\ ChoseOf(pc[p], op[p], req[p], before)
      /\ \A s \in Subs : /\ Home[s] \in H
                         /\ SitsAt(pc[p], op[p], req[p], stack, Home[s], sub[s], p)
      /\ \A h \in H : stack[h] = <<>>
  BY StageFacts
<1>1. \A s \in Subs : \/ sub[s] \in {p, "host"}
                      \/ Home[s] \in op[p].staged /\ sub[s] = op[p].gen
  BY <1>0 DEF SitsAt, StagedAt
<1>2. \A s \in Subs : Spot(stack'[Home[s]]) = "host"
  BY <1>0 DEF Spot
<1>3. ASSUME NEW s \in Subs
      PROVE  \/ sub'[s] \in {p, Spot(stack'[Home[s]])}
             \/ Home[s] \in o.staged /\ sub'[s] = o.gen
  <2>1. CASE sub'[s] = sub[s]
    BY <2>1, <1>1, <1>2
  <2>2. CASE sub'[s] = "host"
    BY <2>2, <1>2
  <2>3. CASE Home[s] \in op[p].staged /\ sub'[s] = op[p].gen
    BY <2>3
  <2> QED BY <2>1, <2>2, <2>3
<1> QED BY <1>0, <1>3, PlacedAbort

(* The mounts of one hierarchy after the other find their place. *)
LEMMA PlacedStage ==
  ASSUME Inv, ShowInv, KeptInv, PlacedInv, Careful, NEW p \in Procs,
         KeepHost(p) \/ StageOverlay(p) \/ Staged(p) \/ StageFails(p) \/ KeepHostFails(p)
  PROVE  PlacedInv'
<1>t. pc[p] = "stage" /\ UNCHANGED <<lock, req, before, stack>>
  BY DEF KeepHost, StageOverlay, Staged, StageFails, KeepHostFails, At, kernel
<1>0. /\ op[p] \in Op /\ op[p].attached = {}
      /\ ChoseOf(pc[p], op[p], req[p], before)
      /\ \A s \in Subs : Home[s] \in H /\ StagedAt(op[p], req[p], Home[s], sub[s], p)
      /\ \A h \in H : stack[h] = <<>>
      /\ Mounts(p) = MountsOf(op[p], req[p])
      /\ pc[p] \in Inside
  BY <1>t, StageFacts DEF SitsAt
<1>1. CASE KeepHost(p)
  <2>1. PICK h \in H : /\ First(h, op[p].todo) /\ h \notin MountsOf(op[p], req[p])
                       /\ Attach(p, h, Visible(h))
                       /\ Goes(p, "stage", [op[p] EXCEPT !.todo = @ \ {h}])
    BY <1>1, <1>0 DEF KeepHost
  <2> DEFINE o == [op[p] EXCEPT !.todo = @ \ {h}]
  <2>2. /\ o.todo = op[p].todo \ {h} /\ Unchosen(op[p], o) /\ o.merged = op[p].merged
        /\ o.staged = op[p].staged /\ o.gen = op[p].gen
        /\ MountsOf(o, req[p]) = MountsOf(op[p], req[p])
    BY <1>0 DEF Op, Unchosen, MountsOf
  <2>3. \A s \in Subs : sub'[s] = IF Home[s] = h /\ sub[s] = p THEN "host" ELSE sub[s]
    BY <2>1, <1>0 DEF Attach, Carry, Visible
  <2>4. \A s \in Subs : StagedAt(o, req[p], Home[s], sub'[s], p)
    BY <2>1, <2>2, <2>3, <1>0 DEF StagedAt, First
  <2>5. \A s \in Subs : SitsAt("stage", o, req[p], stack', Home[s], sub'[s], p)
    BY <2>4 DEF SitsAt, Settled, Preparing, Layers, Undoing
  <2>6. ChoseOf("stage", o, req[p], before)
    BY <2>2, <1>0, ChoseStays
  <2> HIDE DEF o
  <2> QED BY <2>1, <2>5, <2>6, <1>0, <1>t, PlacedStep DEF o
<1>2. CASE StageOverlay(p)
  <2>1. PICK h \in H : /\ First(h, op[p].todo) /\ h \in MountsOf(op[p], req[p])
                       /\ Goes(p, "carry", [op[p] EXCEPT !.staged = @ \cup {h}])
    BY <1>2, <1>0 DEF StageOverlay
  <2> DEFINE o == [op[p] EXCEPT !.staged = @ \cup {h}]
  <2>2. /\ o.todo = op[p].todo /\ Unchosen(op[p], o) /\ o.merged = op[p].merged
        /\ o.staged = op[p].staged \cup {h} /\ o.gen = op[p].gen
        /\ MountsOf(o, req[p]) = MountsOf(op[p], req[p])
    BY <1>0 DEF Op, Unchosen, MountsOf
  <2>3. UNCHANGED sub
    BY <1>2 DEF StageOverlay
  <2>4. \A s \in Subs : First(Home[s], op[p].todo) <=> Home[s] = h
    BY <2>1, <1>0, OneFirst
  <2>5. ASSUME NEW s \in Subs PROVE SitsAt("carry", o, req[p], stack', Home[s], sub'[s], p)
    <3>1. IF First(Home[s], o.todo)
          THEN /\ Home[s] \in MountsOf(o, req[p]) /\ Home[s] \in o.staged
               /\ sub'[s] = IF Home[s] \in o.merged THEN p ELSE "host"
          ELSE StagedAt(o, req[p], Home[s], sub'[s], p)
      BY <2>1, <2>2, <2>3, <2>4, <1>0 DEF StagedAt, First
    <3> QED BY <3>1 DEF SitsAt, Settled, Preparing, Layers, Undoing
  <2>6. ChoseOf("carry", o, req[p], before)
    BY <2>2, <1>0, ChoseStays
  <2> HIDE DEF o
  <2> QED BY <2>1, <2>5, <2>6, <1>0, <1>t, PlacedStep DEF o
<1>3. CASE Staged(p)
  <2> DEFINE o == [op[p] EXCEPT !.todo = Mounts(p)]
  <2>1. /\ o.todo = MountsOf(op[p], req[p]) /\ Unchosen(op[p], o) /\ o.attached = {}
        /\ o.staged = op[p].staged /\ o.gen = op[p].gen
    BY <1>0 DEF Op, Unchosen
  <2>2. op[p].todo = {} /\ UNCHANGED sub /\ Goes(p, "move", o)
    BY <1>3 DEF Staged, kernel
  <2>3. ASSUME NEW s \in Subs PROVE SitsAt("move", o, req[p], stack', Home[s], sub'[s], p)
    <3>1. IF Home[s] \in o.todo THEN sub'[s] = o.gen /\ Home[s] \in o.staged
          ELSE sub'[s] = "host"
      BY <2>1, <2>2, <1>0 DEF StagedAt
    <3> QED BY <3>1, <2>1 DEF SitsAt, Settled, Preparing, Layers, Undoing
  <2>4. ChoseOf("move", o, req[p], before)
    BY <2>1, <1>0, ChoseStays
  <2> HIDE DEF o
  <2> QED BY <2>2, <2>3, <2>4, <1>0, <1>t, PlacedStep
<1>4. CASE StageFails(p)
  <2>1. PICK h \in H : \/ Abort(p, op[p])
                       \/ Abort(p, [op[p] EXCEPT !.staged = @ \cup {h}])
    BY <1>4 DEF StageFails
  <2> DEFINE o == [op[p] EXCEPT !.staged = @ \cup {h}]
  <2>2. /\ o \in Op /\ Unchosen(op[p], o) /\ o.attached = {} /\ o.gen = op[p].gen
        /\ op[p].staged \subseteq o.staged /\ Unchosen(op[p], op[p])
    BY <1>0 DEF Op, Unchosen
  <2>3. UNCHANGED <<lock, req, before, stack, sub>> /\ \A s \in Subs : sub'[s] = sub[s]
    BY <1>4, <1>t DEF StageFails
  <2> HIDE DEF o
  <2> QED BY <2>1, <2>2, <2>3, <1>0, <1>t, StagedAbort DEF o
<1>5. CASE KeepHostFails(p)
  <2>1. PICK h \in H : AttachSome(p, h, "host")
    BY <1>5, <1>0 DEF KeepHostFails, Visible
  <2>2. \A s \in Subs : sub'[s] \in {sub[s], "host"}
    BY <2>1 DEF AttachSome
  <2>3. Abort(p, op[p]) /\ Unchosen(op[p], op[p])
    BY <1>5 DEF KeepHostFails, Unchosen
  <2> QED BY <2>2, <2>3, <1>0, <1>t, StagedAbort
<1> QED BY <1>1, <1>2, <1>3, <1>4, <1>5

(* The mounts of a hierarchy that was not merged are taken from the host, and
   all are attached to the new overlay. *)
LEMMA PlacedAdopt ==
  ASSUME Inv, ShowInv, KeptInv, PlacedInv, Careful, NEW p \in Procs,
         TakeHostMounts(p) \/ AttachStaged(p) \/ TakeHostMountsFails(p) \/ AttachStagedFails(p)
  PROVE  PlacedInv'
<1>t. pc[p] \in {"carry", "adopt"} /\ UNCHANGED <<lock, req, before, stack>>
  BY DEF TakeHostMounts, AttachStaged, TakeHostMountsFails, AttachStagedFails, At, kernel
<1>0. /\ op[p] \in Op /\ op[p].attached = {}
      /\ ChoseOf(pc[p], op[p], req[p], before)
      /\ \A s \in Subs : Home[s] \in H
      /\ pc[p] \in Inside
  BY <1>t, StageFacts
<1>s. \A s \in Subs :
        IF First(Home[s], op[p].todo)
        THEN /\ Home[s] \in MountsOf(op[p], req[p]) /\ Home[s] \in op[p].staged
             /\ sub[s] = IF pc[p] = "adopt" \/ Home[s] \in op[p].merged THEN p ELSE "host"
        ELSE StagedAt(op[p], req[p], Home[s], sub[s], p)
  BY <1>t, StageFacts DEF SitsAt
<1>1. CASE TakeHostMounts(p)
  <2>1. PICK h \in H : /\ First(h, op[p].todo)
                       /\ IF h \in op[p].merged THEN UNCHANGED sub ELSE Carry(h, "host", p)
    BY <1>1 DEF TakeHostMounts
  <2>2. pc[p] = "carry" /\ Goes(p, "adopt", op[p])
    BY <1>1 DEF TakeHostMounts, At
  <2>3. \A s \in Subs : sub'[s] = IF Home[s] = h /\ h \notin op[p].merged /\ sub[s] = "host"
                                  THEN p ELSE sub[s]
    BY <2>1, PlacedFacts, <1>0 DEF Carry, KernelInv
  <2>4. \A s \in Subs : First(Home[s], op[p].todo) <=> Home[s] = h
    BY <2>1, <1>0, OneFirst
  <2>5. ASSUME NEW s \in Subs
        PROVE  SitsAt("adopt", op[p], req[p], stack', Home[s], sub'[s], p)
    <3>1. IF First(Home[s], op[p].todo)
          THEN /\ Home[s] \in MountsOf(op[p], req[p]) /\ Home[s] \in op[p].staged
               /\ sub'[s] = p
          ELSE StagedAt(op[p], req[p], Home[s], sub'[s], p)
      BY <2>2, <2>3, <2>4, <1>s
    <3> QED BY <3>1 DEF SitsAt, Settled, Preparing, Layers, Undoing
  <2>6. ChoseOf("adopt", op[p], req[p], before)
    BY <1>0 DEF ChoseOf
  <2> QED BY <2>2, <2>5, <2>6, <1>0, <1>t, PlacedStep
<1>2. CASE AttachStaged(p)
  <2>1. PICK h \in H : /\ First(h, op[p].todo) /\ Attach(p, h, op[p].gen)
                       /\ Goes(p, "stage", [op[p] EXCEPT !.todo = @ \ {h}])
    BY <1>2 DEF AttachStaged
  <2> DEFINE o == [op[p] EXCEPT !.todo = @ \ {h}]
  <2>2. /\ o.todo = op[p].todo \ {h} /\ Unchosen(op[p], o) /\ o.merged = op[p].merged
        /\ o.staged = op[p].staged /\ o.gen = op[p].gen
        /\ MountsOf(o, req[p]) = MountsOf(op[p], req[p])
    BY <1>0 DEF Op, Unchosen, MountsOf
  <2>3. \A s \in Subs : sub'[s] = IF Home[s] = h /\ sub[s] = p THEN op[p].gen ELSE sub[s]
    BY <2>1 DEF Attach, Carry
  <2>4. pc[p] = "adopt" /\ \A s \in Subs : First(Home[s], op[p].todo) <=> Home[s] = h
    BY <2>1, <1>0, <1>2, OneFirst DEF AttachStaged, At
  <2>5. ASSUME NEW s \in Subs PROVE StagedAt(o, req[p], Home[s], sub'[s], p)
    <3>1. CASE Home[s] = h
      BY <3>1, <2>2, <2>3, <2>4, <1>s DEF StagedAt
    <3>2. CASE Home[s] # h
      BY <3>2, <2>2, <2>3, <2>4, <1>s DEF StagedAt
    <3> QED BY <3>1, <3>2
  <2>6. \A s \in Subs : SitsAt("stage", o, req[p], stack', Home[s], sub'[s], p)
    BY <2>5 DEF SitsAt, Settled, Preparing, Layers, Undoing
  <2>7. ChoseOf("stage", o, req[p], before)
    BY <2>2, <1>0, ChoseStays
  <2> HIDE DEF o
  <2> QED BY <2>1, <2>6, <2>7, <1>0, <1>t, PlacedStep DEF o
<1>3. CASE TakeHostMountsFails(p)
  <2>1. /\ Abort(p, op[p]) /\ Unchosen(op[p], op[p])
        /\ \A s \in Subs : sub'[s] = sub[s]
    BY <1>3 DEF TakeHostMountsFails, kernel, Unchosen
  <2> QED BY <2>1, <1>0, <1>t, StagedAbort
<1>4. CASE AttachStagedFails(p)
  <2>1. PICK h \in H : First(h, op[p].todo) /\ AttachSome(p, h, op[p].gen)
    BY <1>4 DEF AttachStagedFails
  <2>2. \A s \in Subs : First(Home[s], op[p].todo) <=> Home[s] = h
    BY <2>1, <1>0, OneFirst
  <2>3. \A s \in Subs : sub'[s] = sub[s] \/ (Home[s] = h /\ sub'[s] = op[p].gen)
    BY <2>1 DEF AttachSome
  <2>4. \A s \in Subs : \/ sub'[s] \in {sub[s], "host"}
                        \/ Home[s] \in op[p].staged /\ sub'[s] = op[p].gen
    BY <2>2, <2>3, <1>s
  <2>5. Abort(p, op[p]) /\ Unchosen(op[p], op[p])
    BY <1>4 DEF AttachStagedFails, Unchosen
  <2> QED BY <2>4, <2>5, <1>0, <1>t, StagedAbort
<1> QED BY <1>1, <1>2, <1>3, <1>4

(* The new overlays go live with the mounts on them. *)
LEMMA PlacedLive ==
  ASSUME Inv, ShowInv, KeptInv, PlacedInv, Careful, NEW p \in Procs,
         MoveOverlay(p) \/ MoveFails(p) \/ Commit(p)
  PROVE  PlacedInv'
<1>t. /\ pc[p] = "move" /\ pc[p] \in Inside /\ UNCHANGED <<lock, req, before>>
  BY DEF MoveOverlay, MoveFails, Commit, At, Inside, Outside, Labels
<1>0. /\ op[p] \in Op /\ KernelInv /\ ChoseOf(pc[p], op[p], req[p], before)
      /\ \A s \in Subs : Home[s] \in H
      /\ \A h \in H : stack[h] # <<>> <=> h \in op[p].attached
      /\ op[p].todo \cap op[p].attached = {}
  BY <1>t, PlacedFacts DEF PhaseOf, ShowsOf, Empty, Live
<1>s. \A s \in Subs : IF Home[s] \in op[p].attached THEN sub[s] = "overlay"
                      ELSE IF Home[s] \in op[p].todo
                      THEN sub[s] = op[p].gen /\ Home[s] \in op[p].staged
                      ELSE sub[s] = "host"
  BY <1>t, PlacedFacts DEF SitsAt
<1>1. CASE MoveOverlay(p)
  <2>1. PICK h \in H :
          /\ First(h, op[p].todo) /\ Carry(h, op[p].gen, "overlay")
          /\ Goes(p, "move", [op[p] EXCEPT !.staged = @ \ {h}, !.attached = @ \cup {h},
                                           !.todo = @ \ {h}])
    BY <1>1 DEF MoveOverlay
  <2> DEFINE o == [op[p] EXCEPT !.staged = @ \ {h}, !.attached = @ \cup {h}, !.todo = @ \ {h}]
  <2>2. /\ o.todo = op[p].todo \ {h} /\ o.staged = op[p].staged \ {h}
        /\ o.attached = op[p].attached \cup {h} /\ o.gen = op[p].gen /\ Unchosen(op[p], o)
    BY <1>0 DEF Op, Unchosen
  <2>3. \A s \in Subs : sub'[s] = IF Home[s] = h /\ sub[s] = op[p].gen THEN "overlay" ELSE sub[s]
    BY <2>1 DEF Carry
  <2>4. h \in op[p].todo
    BY <2>1 DEF First
  <2>5. ASSUME NEW s \in Subs PROVE SitsAt("move", o, req[p], stack', Home[s], sub'[s], p)
    <3>1. IF Home[s] \in o.attached THEN sub'[s] = "overlay"
          ELSE IF Home[s] \in o.todo THEN sub'[s] = o.gen /\ Home[s] \in o.staged
          ELSE sub'[s] = "host"
      BY <2>2, <2>3, <2>4, <1>s, <1>0
    <3> QED BY <3>1 DEF SitsAt, Settled, Preparing, Layers, Undoing
  <2>6. ChoseOf("move", o, req[p], before)
    BY <2>2, <1>0, ChoseStays
  <2> HIDE DEF o
  <2> QED BY <2>1, <2>5, <2>6, <1>t, PlacedStep DEF o
<1>2. CASE MoveFails(p)
  <2>1. Abort(p, op[p]) /\ UNCHANGED <<stack, sub>> /\ Unchosen(op[p], op[p])
    BY <1>2 DEF MoveFails, kernel, Unchosen
  <2>2. \A s \in Subs : IF Home[s] \in op[p].attached THEN sub'[s] \in {p, "overlay"}
                        ELSE \/ sub'[s] \in {p, Spot(stack'[Home[s]])}
                             \/ Home[s] \in op[p].staged /\ sub'[s] = op[p].gen
    BY <2>1, <1>s, <1>0 DEF Spot
  <2> QED BY <2>1, <2>2, <1>0, <1>t, PlacedAbort
<1>3. CASE Commit(p)
  <2>1. op[p].todo = {} /\ UNCHANGED stack
    BY <1>3 DEF Commit
  <2>2. \A s \in Subs : sub[s] = Spot(stack[Home[s]])
    BY <2>1, <1>s, <1>0 DEF Spot
  <2>3. \A s \in Subs : sub'[s] = IF sub[s] = p THEN "lost" ELSE sub[s]
    BY <1>3 DEF Commit
  <2>4. \A s \in Subs : sub'[s] = Spot(stack'[Home[s]])
    BY <2>1, <2>2, <2>3, Places
  <2>5. "teardown" \in Settled \ {"callback"} /\ "clear" \in Settled \ {"callback"}
    BY DEF Settled, Layers
  <2>6. Unchosen(op[p], op[p])
    BY DEF Unchosen
  <2> QED BY <1>3, <2>4, <2>5, <2>6, <1>0, <1>t, PlacedSettled, PlacedFinish DEF Commit
<1> QED BY <1>1, <1>2, <1>3

(* The clean-up after a merge, and the end of an unmerge, move no mount that
   programs see. *)
LEMMA PlacedPromote ==
  ASSUME Inv, ShowInv, KeptInv, PlacedInv, Careful, NEW p \in Procs,
         \/ PromoteClear(p) \/ PromoteDrop(p) \/ DropRefused(p) \/ PromoteImage(p)
         \/ ImagesPromoted(p) \/ PromoteLayers(p) \/ PromoteDone(p) \/ PromoteFails(p)
  PROVE  PlacedInv'
<1>t. pc[p] \in Layers /\ pc[p] \in Inside /\ UNCHANGED <<lock, req, before, sub>>
  BY DEF PromoteClear, PromoteDrop, DropRefused, PromoteImage, ImagesPromoted,
     PromoteLayers,
         PromoteDone, PromoteFails, At, Inside, Outside, Labels, Layers, kernel
<1>0. /\ op[p] \in Op /\ KernelInv /\ ChoseOf(pc[p], op[p], req[p], before)
      /\ \A s \in Subs : Home[s] \in H /\ sub[s] = Spot(stack[Home[s]])
  BY <1>t, PlacedFacts DEF SitsAt, Settled
<1>1. Same(stack, stack')
  <2>1. CASE PromoteDrop(p) \/ PromoteLayers(p)
    BY <1>0, <2>1, OneSame DEF PromoteDrop, PromoteLayers
  <2>2. CASE PromoteDone(p)
    BY <1>0, <2>2, AllSame DEF PromoteDone
  <2>3. CASE ~(PromoteDrop(p) \/ PromoteLayers(p) \/ PromoteDone(p))
    BY <2>3, UnchangedSame DEF PromoteClear, DropRefused, PromoteImage, ImagesPromoted,
       PromoteFails, kernel
  <2> QED BY <2>1, <2>2, <2>3
<1>2. \A s \in Subs : sub'[s] = Spot(stack'[Home[s]])
  BY <1>t, <1>0, <1>1, SameSeen
<1>g. ASSUME NEW l \in Layers, NEW o, Goes(p, l, o), Unchosen(op[p], o) PROVE PlacedInv'
  <2>1. l \in Settled \ {"callback"}
    BY DEF Settled, Layers
  <2> QED BY <2>1, <1>g, <1>t, <1>0, <1>2, PlacedSettled
<1>f. ASSUME NEW result, Finish(p, result) PROVE PlacedInv'
  BY <1>f, <1>t, <1>0, <1>2, PlacedFinish
<1>u. \A x, y : /\ Unchosen(op[p], [op[p] EXCEPT !.todo = x])
                /\ Unchosen(op[p], [op[p] EXCEPT !.left = x])
                /\ Unchosen(op[p], [op[p] EXCEPT !.todo = x, !.left = y])
  BY <1>0 DEF Op, Unchosen
<1>n. "drop" \in Layers /\ "shift" \in Layers /\ "rename" \in Layers
  BY DEF Layers
<1>3. CASE PromoteClear(p) \/ ImagesPromoted(p)
  BY <1>3, <1>g, <1>u, <1>n DEF PromoteClear, ImagesPromoted
<1>4. CASE PromoteDrop(p)
  BY <1>4, <1>g, <1>u, <1>n DEF PromoteDrop
<1>5. CASE PromoteImage(p)
  <2>1. PICK e : Goes(p, "shift", [op[p] EXCEPT !.left = @ \ {e}])
    BY <1>5 DEF PromoteImage
  <2> QED BY <2>1, <1>g, <1>u, <1>n
<1>6. CASE PromoteLayers(p)
  <2>1. PICK h : Goes(p, "rename", [op[p] EXCEPT !.todo = @ \ {h}])
    BY <1>6 DEF PromoteLayers
  <2> QED BY <2>1, <1>g, <1>u, <1>n
<1>7. CASE DropRefused(p) \/ PromoteDone(p) \/ PromoteFails(p)
  BY <1>7, <1>f DEF DropRefused, PromoteDone, PromoteFails
<1> QED BY <1>3, <1>4, <1>5, <1>6, <1>7

(* The workspace is torn down with no mount in it that programs see. *)
LEMMA PlacedTeardown ==
  ASSUME Inv, ShowInv, KeptInv, PlacedInv, Careful, NEW p \in Procs,
         TeardownWorkspace(p) \/ TeardownFails(p)
  PROVE  PlacedInv'
<1>t. pc[p] = "teardown" /\ pc[p] \in Inside /\ UNCHANGED <<lock, req, before>>
  BY DEF TeardownWorkspace, TeardownFails, At, Inside, Outside, Labels
<1>0. /\ op[p] \in Op /\ KernelInv /\ ChoseOf(pc[p], op[p], req[p], before)
      /\ \A s \in Subs : Home[s] \in H /\ sub[s] = Spot(stack[Home[s]])
      /\ ~op[p].swapping => op[p].attached = {}
  BY <1>t, PlacedFacts DEF SitsAt, Settled, KeptOf
<1>1. Same(stack, stack') /\ \A s \in Subs : sub[s] \notin Dirs => sub'[s] = sub[s]
  BY <1>0, TeardownTouches, UnchangedSame DEF TeardownWorkspace, TeardownFails, kernel
<1>2. \A s \in Subs : sub'[s] = Spot(stack'[Home[s]])
  BY <1>0, <1>1, Places, SameSeen
<1>3. ASSUME NEW result, Finish(p, result) PROVE PlacedInv'
  BY <1>3, <1>t, <1>0, <1>2, PlacedFinish
<1>4. ASSUME ~op[p].swapping, Abort(p, op[p]) PROVE PlacedInv'
  <2>1. Unchosen(op[p], op[p])
    BY DEF Unchosen
  <2> QED BY <2>1, <1>4, <1>t, <1>0, <1>2, PlacedAbort
<1> QED BY <1>3, <1>4 DEF TeardownWorkspace, TeardownFails

(* abort takes the mounts from what is new, unmounts it, and puts the mounts
   where programs look, for one hierarchy after the other. *)
LEMMA PlacedUndo ==
  ASSUME Inv, ShowInv, KeptInv, PlacedInv, Careful, NEW p \in Procs,
         AbortTake(p) \/ AbortDetach(p) \/ AbortAttach(p) \/ AbortRelease(p)
  PROVE  PlacedInv'
<1>t. pc[p] \in Undoing /\ pc[p] \in Inside /\ UNCHANGED <<lock, req, before>>
  BY DEF AbortTake, AbortDetach, AbortAttach, AbortRelease, At, Inside, Outside, Labels,
     Undoing
<1>0. /\ op[p] \in Op /\ KernelInv /\ ChoseOf(pc[p], op[p], req[p], before)
      /\ KeptOf(pc[p], op[p], req[p], stack, sub, before) /\ Swaps(op[p])
      /\ \A s \in Subs : /\ Home[s] \in H
                         /\ IF Home[s] \in op[p].todo
                            THEN UndoneAt(pc[p], op[p], stack, Home[s], sub[s], p)
                            ELSE sub[s] = Spot(stack[Home[s]])
  BY <1>t, PlacedFacts DEF SitsAt, PhaseOf
<1>g. ASSUME NEW l \in Undoing, NEW o, Goes(p, l, o), Unchosen(op[p], o),
             \A s \in Subs : IF Home[s] \in o.todo
                             THEN UndoneAt(l, o, stack', Home[s], sub'[s], p)
                             ELSE sub'[s] = Spot(stack'[Home[s]])
      PROVE  PlacedInv'
  <2>1. ChoseOf(l, o, req[p], before)
    BY <1>g, <1>0, ChoseStays DEF Undoing
  <2>2. \A s \in Subs : SitsAt(l, o, req[p], stack', Home[s], sub'[s], p)
    BY <1>g DEF SitsAt, Settled, Preparing, Layers, Undoing
  <2> QED BY <2>1, <2>2, <1>g, <1>t, PlacedStep
<1>n. "abort" \in Undoing /\ "detach" \in Undoing /\ "restore" \in Undoing
  BY DEF Undoing
<1>1. CASE AbortTake(p)
  <2>1. PICK h \in H : /\ Last(h, op[p].todo) /\ Built(p, h) /\ Carry(h, Where(p, h), p)
    BY <1>1 DEF AbortTake, Fault, Careful
  <2>2. /\ pc[p] = "abort" /\ UNCHANGED stack /\ Goes(p, "detach", op[p])
        /\ Unchosen(op[p], op[p])
    BY <1>1 DEF AbortTake, At, Unchosen
  <2>3. \A s \in Subs : sub'[s] = IF Home[s] = h /\ sub[s] = Where(p, h) THEN p ELSE sub[s]
    BY <2>1 DEF Carry
  <2>4. \A s \in Subs : Last(Home[s], op[p].todo) <=> Home[s] = h
    BY <2>1, <1>0, OneFirst
  <2>5. h \in op[p].todo
    BY <2>1 DEF Last
  <2>6. ASSUME NEW s \in Subs
        PROVE  IF Home[s] \in op[p].todo
               THEN UndoneAt("detach", op[p], stack', Home[s], sub'[s], p)
               ELSE sub'[s] = Spot(stack'[Home[s]])
    <3>1. CASE Home[s] # h
      BY <3>1, <2>2, <2>3, <2>4, <1>0 DEF UndoneAt
    <3>2. CASE Home[s] = h /\ h \in op[p].attached
      <4>1. sub[s] \in {p, "overlay"} /\ Where(p, h) = "overlay"
        BY <3>2, <2>2, <2>5, <1>0 DEF UndoneAt, Where
      <4> QED BY <4>1, <3>2, <2>3, <2>4, <2>5 DEF UndoneAt
    <3>3. CASE Home[s] = h /\ h \notin op[p].attached
      <4>1. /\ sub[s] \in {p, Spot(stack[h])} \/ sub[s] = op[p].gen
            /\ Where(p, h) = op[p].gen
        BY <3>3, <2>2, <2>5, <1>0 DEF UndoneAt, Where
      <4>2. sub'[s] \in {p, Spot(stack'[h])}
        BY <4>1, <3>3, <2>2, <2>3
      <4> QED BY <4>2, <3>3, <2>4, <2>5 DEF UndoneAt
    <3> QED BY <3>1, <3>2, <3>3
  <2> QED BY <2>2, <2>6, <1>g, <1>n
<1>2. CASE AbortDetach(p)
  <2>1. PICK h \in H :
          /\ Last(h, op[p].todo)
          /\ \/ h \in op[p].attached /\ Pop(h) /\ UNCHANGED stage
             \/ h \notin op[p].attached /\ Carry(h, op[p].gen, "lost") /\ UNCHANGED stack
          /\ Goes(p, "restore", [op[p] EXCEPT !.attached = @ \ {h}, !.staged = @ \ {h}])
    BY <1>2 DEF AbortDetach, Fault, Careful
  <2> DEFINE o == [op[p] EXCEPT !.attached = @ \ {h}, !.staged = @ \ {h}]
  <2>2. /\ o.attached = op[p].attached \ {h} /\ o.staged = op[p].staged \ {h}
        /\ o.todo = op[p].todo /\ o.gen = op[p].gen /\ Unchosen(op[p], o)
    BY <1>0 DEF Op, Unchosen
  <2>3. pc[p] = "detach" /\ UNCHANGED <<dirs, img>>
    BY <1>2 DEF AbortDetach, At
  <2>4. \A s \in Subs : Last(Home[s], op[p].todo) <=> Home[s] = h
    BY <2>1, <1>0, OneFirst
  <2>5. h \in op[p].todo
    BY <2>1 DEF Last
  <2>6. op[p].gen \in Dirs
    BY <2>3, <1>0, <1>t DEF KeptOf, Swaps
  <2>7. \A g \in H \ {h} : stack'[g] = stack[g]
    <3>1. CASE Pop(h) /\ UNCHANGED stage
      BY <3>1, <2>3, <1>0, PopKernel DEF KernelInv
    <3> QED BY <3>1, <2>1
  <2>8. \A s \in Subs : IF Home[s] = h THEN sub'[s] \in {p, Spot(stack'[h])}
                        ELSE sub'[s] = sub[s]
    <3>1. \A s \in Subs : Home[s] = h => \/ sub[s] = p
                                         \/ h \notin op[p].attached /\ sub[s] = Spot(stack[h])
      BY <2>3, <2>4, <2>5, <1>0 DEF UndoneAt
    <3>2. CASE h \in op[p].attached /\ Pop(h)
      <4>1. \A s \in Subs : sub'[s] = IF Home[s] = h /\ sub[s] = "overlay" THEN "lost" ELSE sub[s]
        BY <3>2 DEF Pop, Carry
      <4> QED BY <4>1, <3>1, <3>2, Places
    <3>3. CASE h \notin op[p].attached /\ Carry(h, op[p].gen, "lost") /\ UNCHANGED stack
      <4>1. \A s \in Subs : sub'[s] = IF Home[s] = h /\ sub[s] = op[p].gen THEN "lost" ELSE sub[s]
        BY <3>3 DEF Carry
      <4> QED BY <4>1, <3>1, <3>3, <2>6, Places
    <3> QED BY <2>1, <3>2, <3>3
  <2>9. ASSUME NEW s \in Subs
        PROVE  IF Home[s] \in o.todo THEN UndoneAt("restore", o, stack', Home[s], sub'[s], p)
               ELSE sub'[s] = Spot(stack'[Home[s]])
    <3>1. CASE Home[s] = h
      BY <3>1, <2>2, <2>5, <2>8 DEF UndoneAt
    <3>2. CASE Home[s] # h
      <4>1. sub'[s] = sub[s] /\ stack'[Home[s]] = stack[Home[s]]
        BY <3>2, <2>7, <2>8, <1>0
      <4>2. Home[s] \in op[p].todo => UndoneAt("detach", op[p], stack, Home[s], sub[s], p)
        BY <2>3, <1>0
      <4>3. Home[s] \in op[p].todo => UndoneAt("restore", o, stack', Home[s], sub'[s], p)
        BY <4>1, <4>2, <3>2, <2>2, <2>4 DEF UndoneAt
      <4> QED BY <4>1, <4>3, <2>2, <1>0
    <3> QED BY <3>1, <3>2
  <2> HIDE DEF o
  <2> QED BY <2>1, <2>2, <2>9, <1>g, <1>n DEF o
<1>3. CASE AbortAttach(p)
  <2>1. PICK h \in H : /\ Last(h, op[p].todo) /\ ~Built(p, h) /\ Attach(p, h, Visible(h))
                       /\ Goes(p, "abort", [op[p] EXCEPT !.todo = @ \ {h}])
    BY <1>3 DEF AbortAttach, Fault, Careful
  <2> DEFINE o == [op[p] EXCEPT !.todo = @ \ {h}]
  <2>2. /\ o.attached = op[p].attached /\ o.staged = op[p].staged
        /\ o.todo = op[p].todo \ {h} /\ o.gen = op[p].gen /\ Unchosen(op[p], o)
    BY <1>0 DEF Op, Unchosen
  <2>3. pc[p] \in {"abort", "restore"} /\ UNCHANGED stack
    BY <1>3 DEF AbortAttach
  <2>4. \A s \in Subs : sub'[s] = IF Home[s] = h /\ sub[s] = p THEN Spot(stack[h]) ELSE sub[s]
    BY <2>1, SeenView DEF Attach, Carry
  <2>5. h \in op[p].todo /\ h \notin op[p].attached /\ h \notin op[p].staged
    BY <2>1 DEF Last, Built
  <2>6. ASSUME NEW s \in Subs
        PROVE  IF Home[s] \in o.todo THEN UndoneAt("abort", o, stack', Home[s], sub'[s], p)
               ELSE sub'[s] = Spot(stack'[Home[s]])
    <3>1. CASE Home[s] = h
      <4>1. sub[s] \in {p, Spot(stack[h])}
        BY <3>1, <2>3, <2>5, <1>0 DEF UndoneAt
      <4> QED BY <4>1, <3>1, <2>2, <2>3, <2>4
    <3>2. CASE Home[s] # h
      BY <3>2, <2>2, <2>3, <2>4, <1>0 DEF UndoneAt
    <3> QED BY <3>1, <3>2
  <2> HIDE DEF o
  <2> QED BY <2>1, <2>2, <2>6, <1>g, <1>n DEF o
<1>4. CASE AbortRelease(p)
  <2>1. \A s \in Subs : sub[s] = Spot(stack[Home[s]])
    BY <1>4, <1>0 DEF AbortRelease
  <2>2. Same(stack, stack') /\ \A s \in Subs : sub[s] \notin Dirs => sub'[s] = sub[s]
    BY <1>4, <1>0, TeardownTouches, DiscardTouches, UnchangedSame DEF AbortRelease,
       NotReleased
  <2>3. \A s \in Subs : sub'[s] = Spot(stack'[Home[s]])
    BY <2>1, <2>2, <1>0, Places, SameSeen
  <2> QED BY <1>4, <2>3, <1>0, <1>t, PlacedFinish DEF AbortRelease
<1> QED BY <1>1, <1>2, <1>3, <1>4

(* Whoever takes the lock finds the mounts where programs look, and leaves
   them there. *)
LEMMA PlacedLock ==
  ASSUME Inv, ShowInv, KeptInv, PlacedInv, Careful, NEW p \in Procs,
         Begin(p) \/ Acquire(p) \/ Unlock(p) \/ Crash(p)
  PROVE  PlacedInv'
<1>t. pc \in [Procs -> Labels] /\ op \in [Procs -> Op] /\ req \in [Procs -> Request]
  BY DEF Inv, TypeOK
<1>1. CASE Begin(p)
  <2>1. pc'[p] \notin Inside
    BY <1>1, <1>t DEF Begin, Goes, Inside, Outside
  <2>2. \A q \in Procs \ {p} : pc'[q] = pc[q] /\ op'[q] = op[q] /\ req'[q] = req[q]
    BY <1>1, <1>t DEF Begin, Goes
  <2>3. UNCHANGED <<lock, stack, sub, before>>
    BY <1>1 DEF Begin, kernel
  <2> QED BY <2>1, <2>2, <2>3 DEF PlacedInv, Placed, Resting
<1>2. CASE Acquire(p)
  <2>1. \A q \in Procs \ {p} : pc'[q] = pc[q] /\ pc[q] \in Outside
    BY <1>2, <1>t, NamesAssumption DEF Acquire, Goes, Inv, Exclusive, Outside
  <2>2. op[p] = NewOp /\ req'[p] = req[p]
    BY <1>2, <1>t DEF Acquire, Inv, Phase, PhaseOf, Outside
  <2>3. /\ UNCHANGED <<stack, sub>> /\ before'.sub = sub
        /\ lock = NoProc /\ lock' # NoProc
    BY <1>2, NamesAssumption DEF Acquire, kernel
  <2>4. \A s \in Subs : sub'[s] = Spot(stack'[Home[s]])
    BY <2>3 DEF PlacedInv, Resting
  <2>5. before'.sub \in [Subs -> {"host", "overlay"}]
    <3>1. \A s \in Subs : sub[s] \in {"host", "overlay"}
      BY <2>3, <2>4, Places
    <3> QED BY <2>3, <3>1 DEF Inv, TypeOK
  <2>6. /\ pc'[p] = IF req[p].verb = "unmerge" THEN "take" ELSE "check"
        /\ ~op'[p].swapping /\ ~op'[p].unmerging /\ op'[p].merged = {}
    BY <1>2, <2>2, <1>t DEF Acquire, Goes, NewOp
  <2>7. ChoseOf(pc'[p], op'[p], req'[p], before')
    BY <2>2, <2>5, <2>6 DEF ChoseOf, InPlaceOf
  <2>8. \A s \in Subs : SitsAt(pc'[p], op'[p], req'[p], stack', Home[s], sub'[s], p)
    BY <2>2, <2>4, <2>6 DEF SitsAt, InPlaceOf, Undoing
  <2>9. Placed(p)'
    BY <2>7, <2>8 DEF Placed, PlacedOf
  <2> QED BY <2>1, <2>3, <2>9 DEF PlacedInv, Placed, Resting, Inside
<1>3. CASE Unlock(p)
  <2>1. pc[p] = "unlock" /\ pc[p] \in Inside /\ Leave(p) /\ lock = p /\ UNCHANGED <<stack, sub>>
    BY <1>3 DEF Unlock, Inv, Exclusive, Inside, Outside, Labels, kernel
  <2>2. \A q \in Procs : pc'[q] \notin Inside
    BY <2>1, <1>t DEF Leave, Goes, Inv, Exclusive, Inside, Outside
  <2>3. \A s \in Subs : sub[s] = Spot(stack[Home[s]])
    BY <2>1, PlacedFacts DEF SitsAt, Settled
  <2> QED BY <2>1, <2>2, <2>3 DEF PlacedInv, Placed, Resting
<1>4. ~Crash(p)
  BY DEF Crash, Careful, Inv, TypeOK
<1> QED BY <1>1, <1>2, <1>3, <1>4

(* Every step keeps PlacedInv. *)
LEMMA PlacedNext ==
  ASSUME Inv, ShowInv, KeptInv, PlacedInv, Next
  PROVE  PlacedInv'
<1>0. PICK p \in Procs : Begin(p) \/ Acquire(p) \/ Works(p) \/ Fails(p) \/ Unlock(p) \/ Crash(p)
  BY DEF Next
<1>1. SUFFICES ASSUME Careful PROVE PlacedInv'
  BY DEF PlacedInv
<1>2. CASE Begin(p) \/ Acquire(p) \/ Unlock(p) \/ Crash(p)
  BY <1>1, <1>2, PlacedLock
<1>3. CASE Works(p)
  BY <1>1, <1>3, PlacedPrepare, PlacedTake, PlacedEmptied, PlacedUnmount, PlacedPutBack,
     PlacedStage, PlacedAdopt, PlacedLive, PlacedPromote, PlacedTeardown, PlacedUndo DEF Works
<1>4. CASE Fails(p)
  BY <1>1, <1>4, PlacedPrepare, PlacedTake, PlacedUnmount, PlacedPutBack, PlacedStage,
     PlacedAdopt, PlacedLive, PlacedPromote, PlacedTeardown DEF Fails
<1> QED BY <1>0, <1>2, <1>3, <1>4

(* PlacedInv is an invariant. *)
LEMMA PlacedAlways == Spec => []PlacedInv
<1>1. Init => PlacedInv
  BY HomeAssumption DEF Init, PlacedInv, Placed, Resting, Inside, Outside, Spot
<1>2. PlacedInv /\ UNCHANGED vars => PlacedInv'
  BY DEF PlacedInv, Placed, Resting, vars, kernel
<1>3. Inv /\ ShowInv /\ KeptInv /\ PlacedInv /\ [Next]_vars => PlacedInv'
  BY <1>2, PlacedNext
<1> QED BY <1>1, <1>3, Invariance, ShowAlways, KeptAlways, PTL DEF Spec

(* If no mount fails to be put back where programs look (by an unmerge or by
   abort), abort takes down what was built, and nobody is killed, then every mount
   below a hierarchy is visible where programs look whenever nobody works: after
   any failure before that, of attaching a mount to the new merge too. *)
THEOREM MountsComeBack == Careful => (Spec => []SubmountsVisible)
<1> SUFFICES ASSUME Careful PROVE Spec => []SubmountsVisible
  OBVIOUS
<1>1. Inv /\ PlacedInv => SubmountsVisible
  BY SeenView, HomeAssumption DEF PlacedInv, Resting, SubmountsVisible
<1> QED BY <1>1, PlacedAlways, Invariance, PTL

(* On the same conditions a merge that fails, attaching the mounts to its new
   overlays included, leaves every hierarchy and every mount as it found them. *)
THEOREM FailedMergeRollsBack == Careful => (Spec => []MergeRollsBack)
<1> SUFFICES ASSUME Careful PROVE Spec => []MergeRollsBack
  OBVIOUS
<1>1. Inv /\ ShowInv /\ KeptInv /\ BackInv /\ PlacedInv => MergeRollsBack
  <2> SUFFICES ASSUME Inv, ShowInv, KeptInv, BackInv, PlacedInv, NEW p \in Procs,
                      Ends(p, "error"), req[p].verb = "merge"
               PROVE  /\ \A h \in H : View(h) = before.view[h]
                      /\ sub = before.sub
    BY DEF MergeRollsBack
  <2>1. pc[p] = "unlock" /\ pc[p] \in Inside /\ Failed(pc[p], op[p])
    BY DEF Ends, Failed, Inside, Outside, Labels
  <2>2. /\ KeptOf(pc[p], op[p], req[p], stack, sub, before)
        /\ ChoseOf(pc[p], op[p], req[p], before)
        /\ \A s \in Subs : Home[s] \in H /\ sub[s] = Spot(stack[Home[s]])
    BY <2>1, PlacedFacts DEF SitsAt, Settled
  <2>3. ~InPlaceOf(op[p], req[p]) /\ before.sub \in [Subs -> {"host", "overlay"}]
    BY <2>2 DEF ChoseOf, InPlaceOf
  <2>4. /\ \A h \in H : Shown(stack[h]) = before.view[h]
        /\ \A s \in Subs : sub[s] = before.sub[s]
    <3>1. CASE ~op[p].swapping
      BY <3>1, <2>1, <2>2, <2>3 DEF KeptOf, Untouched
    <3>2. CASE op[p].swapping
      <4>1. (\A h \in H : before.view[h] = NotMerged) /\ (\A s \in Subs : before.sub[s] = "host")
        BY <3>2, <2>2 DEF ChoseOf
      <4>2. \A h \in H : Shown(stack[h]) = NotMerged
        BY <4>1, <2>1 DEF BackInv, Back, BackOf, Old, Careful
      <4>3. \A h \in H : stack[h] = <<>>
        BY <4>2 DEF Shown, NotMerged
      <4> QED BY <4>1, <4>2, <4>3, <2>2 DEF Spot
    <3> QED BY <3>1, <3>2
  <2> QED BY <2>3, <2>4, SeenView DEF Inv, TypeOK
<1> QED BY <1>1, PlacedAlways, BackAlways, KeptAlways, ShowAlways, Invariance, PTL

=============================================================================
