-------------------------- MODULE EngineImplements --------------------------
(***************************************************************************)
(* Engine implements MergeSpec: what its state means to somebody who only  *)
(* looks at the hierarchies.                                               *)
(***************************************************************************)
EXTENDS Engine

(* The process inside the lock, and its answer once it has one. *)
Swapped(p) ==
  \/ pc[p] \in {"clear", "drop", "shift", "rename"}
  \/ pc[p] = "teardown" /\ op[p].swapping
  \/ pc[p] = "unlock" /\ op[p].res \in {"merged", "cleanup"}

PhaseOfRun ==
  IF lock = NoProc THEN "free"
  ELSE IF Swapped(lock) THEN "done"
  ELSE IF pc[lock] = "move" THEN "new"
  ELSE IF pc[lock] \in {"abort", "detach", "restore", "unlock"} THEN "over"
  ELSE "old"

(* The merge p makes, and the hierarchies that show it or shall show it. *)
MergeOf(p) == [names |-> op[p].images, mutable |-> req[p].mutable, merged |-> TRUE]

GoalOfRun ==
  LET hs == CASE PhaseOfRun \in {"new", "done"} -> Mounts(lock)
              [] PhaseOfRun = "over" -> op[lock].attached
              [] OTHER -> {}
  IN [h \in H |-> IF h \in hs THEN MergeOf(lock) ELSE NotMerged]

Promise == INSTANCE MergeSpec WITH
  holder <- lock,
  ask    <- IF lock = NoProc THEN NoRequest ELSE req[lock],
  view   <- [h \in H |-> View(h)],
  phase  <- PhaseOfRun,
  goal   <- GoalOfRun

(* Every run of the engine, with failures and kills anywhere, is a run of    *)
(* MergeSpec: overlays, generations and the rollback never show outside in   *)
(* any other order than old merge, host, new merge, host (run, overlay.go).  *)
Implements == Promise!Spec
=============================================================================
