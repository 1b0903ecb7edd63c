------------------------------ MODULE MergeSpec ------------------------------
(***************************************************************************)
(* What Merge, Refresh and Unmerge of internal/overlay promise to somebody *)
(* who only looks at the hierarchies: one operation at a time, and in it   *)
(* first the old merge disappears, then one new merge appears, then, if    *)
(* something went wrong, what appeared of it disappears again.  There is   *)
(* no workspace, no generation, no staging point and no marker here.       *)
(***************************************************************************)
EXTENDS Integers

CONSTANTS
  Procs, NoProc,  \* processes, and "nobody"
  H,              \* hierarchies
  Exts,           \* extension images
  Requests,       \* what the processes ask for
  NoRequest       \* what nobody asks for

VARIABLES
  holder,  \* the process whose operation is under way
  ask,     \* what it was asked for
  view,    \* what each hierarchy shows
  phase,   \* how far the operation is
  goal     \* what each hierarchy shall show, in the phases "new" and "done";
           \* in the phase "over", what is still left there of the new merge

vars == <<holder, ask, view, phase, goal>>

Bare == [names |-> {}, mutable |-> FALSE, merged |-> FALSE]

Merge == [names : SUBSET Exts, mutable : BOOLEAN, merged : {TRUE}]

AllBare == [h \in H |-> Bare]

(* No operation is under way, and nothing is merged. *)
Init ==
  /\ holder = NoProc /\ ask = NoRequest /\ phase = "free"
  /\ view = AllBare /\ goal = AllBare

(* An operation gets the lock. *)
Take(p) ==
  /\ phase = "free" /\ phase' = "old"
  /\ holder' = p /\ \E r \in Requests : ask' = r
  /\ UNCHANGED <<view, goal>>

(* Refresh and Unmerge take down the merge of a hierarchy; Merge never does. *)
Hide(h) ==
  /\ phase = "old" /\ ask.verb # "merge"
  /\ view[h] # Bare /\ view' = [view EXCEPT ![h] = Bare]
  /\ UNCHANGED <<holder, ask, phase, goal>>

(* Merge and Refresh decide on one merge of some of the requested images, in *)
(* the requested mode, for some hierarchies: the old merge is gone by then.  *)
Decide ==
  /\ phase = "old" /\ ask.verb # "unmerge" /\ view = AllBare
  /\ phase' = "new"
  /\ \E m \in Merge, hs \in SUBSET H :
       /\ m.names \subseteq ask.images /\ m.mutable = ask.mutable
       /\ m.names # {} \/ m.mutable
       /\ goal' = [h \in H |-> IF h \in hs THEN m ELSE Bare]
  /\ UNCHANGED <<holder, ask, view>>

(* The new merge appears on a hierarchy. *)
Show(h) ==
  /\ phase = "new" /\ view[h] = Bare /\ goal[h] # Bare
  /\ view' = [view EXCEPT ![h] = goal[h]]
  /\ UNCHANGED <<holder, ask, phase, goal>>

(* It is there: from now on the operation can only report success. *)
Commit ==
  /\ phase = "new" /\ view = goal
  /\ phase' = "done"
  /\ UNCHANGED <<holder, ask, view, goal>>

(* The operation ends without a new merge, as it was to or because of an     *)
(* error, which a refresh may meet in taking down the merge of a hierarchy.  *)
Stop ==
  /\ phase \in {"old", "new"} /\ phase' = "over"
  /\ goal' = [h \in H |-> IF view[h] = goal[h] THEN goal[h] ELSE Bare]
  /\ \/ UNCHANGED view
     \/ /\ phase = "old" /\ ask.verb = "refresh"
        /\ \E h \in H : view' = [view EXCEPT ![h] = Bare]
  /\ UNCHANGED <<holder, ask>>

(* What had appeared of the new merge disappears, or cannot be unmounted.    *)
Undo(h) ==
  /\ phase = "over" /\ goal[h] # Bare
  /\ goal' = [goal EXCEPT ![h] = Bare]
  /\ view' = [view EXCEPT ![h] = Bare] \/ UNCHANGED view
  /\ UNCHANGED <<holder, ask, phase>>

(* The lock is released by the process or by its death; only a process that  *)
(* is killed leaves an operation half done.                                  *)
Leave ==
  /\ phase # "free" /\ phase' = "free"
  /\ holder' = NoProc /\ ask' = NoRequest /\ goal' = AllBare
  /\ UNCHANGED view

Next ==
  \/ \E p \in Procs : Take(p)
  \/ \E h \in H : Hide(h) \/ Show(h) \/ Undo(h)
  \/ Decide \/ Commit \/ Stop \/ Leave

Spec == Init /\ [][Next]_vars
=============================================================================
