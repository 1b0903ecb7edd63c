-------------------------------- MODULE Verbs --------------------------------
(***************************************************************************)
(* The verbs merge, refresh and unmerge of cmd/sysext around the engine:   *)
(* the discovery of the images before the lock is taken, the signals held  *)
(* back while the engine works, and the services stopped before an unmerge *)
(* and restarted after the verb.                                           *)
(*                                                                         *)
(* The engine is MergeSpec, which EngineImplements shows the engine to     *)
(* implement; its actions (E!...) are taken by the process that holds the  *)
(* lock.                                                                   *)
(***************************************************************************)
EXTENDS Integers, ServiceActions

CONSTANTS
  Procs, NoProc,  \* processes running sysext, and "nobody"
  H,              \* hierarchies
  Fits,           \* images that fit the host, by the check of the verbs
  Bounds          \* who runs verbs, and bounds: engine operations that fail,
                  \* processes killed by SIGKILL, changes of the images on disk,
                  \* times the service manager does not do what it is asked

ASSUME VerbsAssumption ==
  /\ NoProc \notin Procs
  /\ Bounds \subseteq [procs : SUBSET Procs, verbs : SUBSET {"merge", "refresh", "unmerge"},
                    faults : Nat, kills : Nat, installs : Nat, refusals : Nat]

VARIABLES
  bounds,    \* one of Bounds
  disk,      \* images installed in the search directories
  installs, faults, kills,
  running,   \* running[s]: who shipped the script s was started from, {} if down
  refusals,
  refused,   \* history: services for which a command failed, or that nobody was
             \* asked about, since the last verb began
  pc, verb,  \* where a process is, in which verb
  snap,      \* images it discovered
  acts,      \* service actions it collected
  todo,      \* units it still has to stop or restart
  result,    \* what the engine told it
  pend,      \* whether a signal is held back for it
  since,     \* history: its refresh began after the last change of disk
  current,   \* history: the last operation of the engine was such a refresh, it
             \* succeeded, and the disk has not changed since
  restarted, \* history: the last verb came to the end of its service actions
  holder, ask, view, phase, goal  \* of MergeSpec

engine == <<holder, ask, view, phase, goal>>
counts == <<bounds, installs, faults, kills>>
openrc == <<running, refusals, refused>>
history == <<since, current, restarted>>
vars == <<disk, counts, openrc, pc, verb, snap, acts, todo, result, pend,
          history, engine>>

VerbNames == {"merge", "refresh", "unmerge"}
Requests == [verb : VerbNames, images : SUBSET Images, mutable : {FALSE}]
NoRequest == [verb |-> "none", images |-> {}, mutable |-> FALSE]

E == INSTANCE MergeSpec WITH Exts <- Images

(* The extensions merged now, by CurrentStatus.                              *)
Merged == UNION {view[h].names : h \in H}

(* Mutant of Held: the signals are only held back while waiting.             *)
HeldWaiting == {"wait"}

(* Places where SIGINT, SIGTERM and SIGHUP are held back by critical.        *)
Held == {"wait", "old", "ready", "stop", "new", "undo"}

Idle(p) == pc[p] = "idle"

Init ==
  /\ bounds \in Bounds
  /\ disk \in SUBSET Images
  /\ installs = 0 /\ faults = 0 /\ kills = 0
  /\ running = [s \in Services |-> {}] /\ refusals = 0 /\ refused = {}
  /\ pc = [p \in Procs |-> "idle"] /\ verb = [p \in Procs |-> "none"]
  /\ snap = [p \in Procs |-> {}] /\ todo = [p \in Procs |-> <<>>]
  /\ acts = [p \in Procs |-> NoActions]
  /\ result = [p \in Procs |-> "none"] /\ pend = [p \in Procs |-> FALSE]
  /\ since = [p \in Procs |-> FALSE] /\ current = FALSE /\ restarted = FALSE
  /\ E!Init

----------------------------------------------------------------------------
(* The end of a verb, by returning or by a signal: nothing of it is left.    *)
Gone(p) ==
  /\ pc' = [pc EXCEPT ![p] = "idle"] /\ verb' = [verb EXCEPT ![p] = "none"]
  /\ snap' = [snap EXCEPT ![p] = {}] /\ todo' = [todo EXCEPT ![p] = <<>>]
  /\ acts' = [acts EXCEPT ![p] = NoActions]
  /\ result' = [result EXCEPT ![p] = "none"] /\ pend' = [pend EXCEPT ![p] = FALSE]
  /\ since' = [since EXCEPT ![p] = FALSE]

Goto(p, place) == pc' = [pc EXCEPT ![p] = place]

Locals == <<verb, snap, acts, todo, result, pend>>

(* A verb begins.  Merge and refresh discover the images now, and merge      *)
(* looks whether something is merged; unmerge collects the service actions.  *)
Start(p, v) ==
  /\ Idle(p) /\ p \in bounds.procs /\ v \in bounds.verbs
  /\ verb' = [verb EXCEPT ![p] = v]
  /\ snap' = [snap EXCEPT ![p] = IF v = "unmerge" THEN {} ELSE disk]
  /\ Goto(p, CASE v = "merge" -> "check" [] v = "refresh" -> "probe"
               [] v = "unmerge" -> "collect")
  /\ since' = [since EXCEPT ![p] = v = "refresh"]
  /\ restarted' = FALSE /\ refused' = {}
  /\ UNCHANGED <<disk, counts, running, refusals, acts, todo, result, pend, current,
                 engine>>

CheckMerged(p) ==
  /\ pc[p] = "check"
  /\ IF \E h \in H : view[h] # E!Bare
     THEN Gone(p) /\ UNCHANGED <<current, restarted>>
     ELSE Goto(p, "probe") /\ UNCHANGED <<Locals, history>>
  /\ UNCHANGED <<disk, counts, openrc, engine>>

(* What OpenRC is asked may fail, or it may not be there to be asked.  The   *)
(* code warns at most, and goes on.                                          *)
Refuses(services) ==
  /\ refusals < bounds.refusals /\ refusals' = refusals + 1
  /\ refused' = refused \cup services

Obeys == UNCHANGED <<refusals, refused>>

(* stopProvidedServices goes through the units, or returns without stopping  *)
(* any: OpenRC did not boot the system, or the workspace cannot be read.     *)
Stopping(p, a) ==
  \/ todo' = [todo EXCEPT ![p] = InOrder(a)] /\ Obeys
  \/ /\ todo' = [todo EXCEPT ![p] = <<>>]
     /\ Refuses({ServiceOf[u] : u \in a.restart \cup a.reload} \cap Services)

(* cmdUnmerge asks what the services need and whom to stop before it has     *)
(* the lock.                                                                 *)
CollectUnlocked(p) ==
  /\ pc[p] = "collect"
  /\ LET a == CollectActions(Merged)
     IN  acts' = [acts EXCEPT ![p] = a] /\ Stopping(p, a)
  /\ Goto(p, "prestop")
  /\ UNCHANGED <<disk, counts, running, verb, snap, result, pend, history, engine>>

(* It cannot tell what is merged, and ends.                                  *)
CollectFails(p) ==
  /\ pc[p] = "collect" /\ Refuses({}) /\ Gone(p)
  /\ UNCHANGED <<disk, counts, running, engine, current, restarted>>

(* One unit of StopProvidedBy: nothing to do for it, or its service stops.   *)
StopsOrSkips(u) ==
  \/ ~MustStop(u, running, Merged) /\ UNCHANGED openrc
  \/ /\ MustStop(u, running, Merged)
     /\ running' = [running EXCEPT ![ServiceOf[u]] = {}] /\ Obeys

(* A service that does not stop keeps running.                               *)
StopFails(u) ==
  MustStop(u, running, Merged) /\ Refuses({ServiceOf[u]}) /\ UNCHANGED running

(* Mutant of StopNext: the loop does not advance.                            *)
StopNextAgain(p) ==
  /\ pc[p] \in {"prestop", "stop"} /\ todo[p] # <<>>
  /\ StopsOrSkips(Head(todo[p])) \/ StopFails(Head(todo[p]))
  /\ UNCHANGED <<disk, counts, pc, todo, verb, snap, acts, result, pend, history, engine>>

(* Mutant of StopNext: the loop ends with the first service that does not    *)
(* stop.                                                                     *)
StopNextOrGiveUp(p) ==
  /\ pc[p] \in {"prestop", "stop"} /\ todo[p] # <<>>
  /\ \/ StopsOrSkips(Head(todo[p])) /\ todo' = [todo EXCEPT ![p] = Tail(@)]
     \/ StopFails(Head(todo[p])) /\ todo' = [todo EXCEPT ![p] = <<>>]
  /\ UNCHANGED <<disk, counts, pc, verb, snap, acts, result, pend, history, engine>>

(* The loop of StopProvidedBy goes on with the next unit in any case.        *)
StopNext(p) ==
  /\ pc[p] \in {"prestop", "stop"} /\ todo[p] # <<>>
  /\ StopsOrSkips(Head(todo[p])) \/ StopFails(Head(todo[p]))
  /\ todo' = [todo EXCEPT ![p] = Tail(@)]
  /\ UNCHANGED <<disk, counts, pc, verb, snap, acts, result, pend, history, engine>>

Prestopped(p) ==
  /\ pc[p] = "prestop" /\ todo[p] = <<>>
  /\ Goto(p, "probe")
  /\ UNCHANGED <<disk, counts, openrc, Locals, history, engine>>

(* critical waits for the lock, gives it back, and from then on holds the    *)
(* signals back.                                                             *)
Probe(p) ==
  /\ pc[p] = "probe" /\ phase = "free"
  /\ Goto(p, "wait")
  /\ UNCHANGED <<disk, counts, openrc, Locals, history, engine>>

----------------------------------------------------------------------------
(* The engine, with the lock.  Its result is fixed when it stops.            *)
Enter(p) ==
  /\ pc[p] = "wait" /\ E!Take(p)
  /\ ask' = [verb |-> verb[p], images |-> snap[p], mutable |-> FALSE]
  /\ Goto(p, IF verb[p] = "unmerge" THEN "ready" ELSE "old")
  /\ current' = FALSE
  /\ UNCHANGED <<disk, counts, openrc, Locals, since, restarted>>

Works(p, place) == pc[p] = place /\ holder = p

(* The images the engine merges, once it mounted and checked all it was      *)
(* given.                                                                    *)
Found(p) == snap[p] \cap Fits

Reports(p, r) ==
  /\ result' = [result EXCEPT ![p] = r] /\ Goto(p, "undo")
  /\ current' = (since[p] /\ r \in {"merged", "nothing", "unchanged"})
  /\ UNCHANGED <<verb, snap, acts, todo, pend, since, restarted>>

(* An operation ends before it touched anything when merge finds a merge, or *)
(* when an image is gone since it was discovered; else the images are        *)
(* mounted, and it no longer matters what becomes of them on disk.           *)
Refused(p) ==
  \/ verb[p] = "merge" /\ \E h \in H : view[h] # E!Bare
  \/ ~(snap[p] \subseteq disk)

Refuse(p) ==
  /\ Works(p, "old") /\ Refused(p)
  /\ UNCHANGED view /\ E!Stop
  /\ Reports(p, "failed")
  /\ UNCHANGED <<disk, counts, openrc>>

Prepare(p) ==
  /\ Works(p, "old") /\ ~Refused(p)
  /\ Goto(p, "ready")
  /\ UNCHANGED <<disk, counts, openrc, Locals, history, engine>>

(* Mutant of NothingToDo: an image that was added goes unnoticed.            *)
NothingToDoUnlessRemoved(p) ==
  /\ Works(p, "ready")
  /\ IF verb[p] # "unmerge" /\ Found(p) # {}
     THEN \E h \in H : view[h] # E!Bare /\ view[h].names \subseteq Found(p)
     ELSE \A h \in H : view[h] = E!Bare
  /\ UNCHANGED view /\ E!Stop
  /\ Reports(p, IF verb[p] # "unmerge" /\ Found(p) # {} THEN "unchanged" ELSE "nothing")
  /\ UNCHANGED <<disk, counts, openrc>>

(* Nothing to do: no image for merge, the same images for refresh, nothing   *)
(* merged for an unmerge or for a refresh without images.                    *)
NothingToDo(p) ==
  /\ Works(p, "ready")
  /\ IF verb[p] # "unmerge" /\ Found(p) # {}
     THEN \E h \in H : view[h] # E!Bare /\ view[h].names = Found(p)
     ELSE \A h \in H : view[h] = E!Bare
  /\ UNCHANGED view /\ E!Stop
  /\ Reports(p, IF verb[p] # "unmerge" /\ Found(p) # {} THEN "unchanged" ELSE "nothing")
  /\ UNCHANGED <<disk, counts, openrc>>

(* Mutant of BeforeUnmerge: nobody is stopped.                               *)
BeforeUnmergeCollects(p) ==
  /\ Works(p, "ready") /\ verb[p] = "refresh"
  /\ Found(p) = {} /\ \E h \in H : view[h] # E!Bare
  /\ acts' = [acts EXCEPT ![p] = CollectActions(Merged)]
  /\ Goto(p, "stop")
  /\ UNCHANGED <<disk, counts, openrc, verb, snap, todo, result, pend, history, engine>>

(* A refresh without images calls BeforeUnmerge before it takes down what is *)
(* merged: the services are stopped with the lock held.  One that replaces a *)
(* merge does not call it.                                                   *)
BeforeUnmerge(p) ==
  /\ Works(p, "ready") /\ verb[p] = "refresh"
  /\ Found(p) = {} /\ \E h \in H : view[h] # E!Bare
  /\ LET a == CollectActions(Merged)
     IN  acts' = [acts EXCEPT ![p] = a] /\ Stopping(p, a)
  /\ Goto(p, "stop")
  /\ UNCHANGED <<disk, counts, running, verb, snap, result, pend, history, engine>>

Replaces(p) ==
  /\ verb[p] = "refresh" /\ Found(p) # {}
  /\ \A h \in H : view[h] # E!Bare => view[h].names # Found(p)

Hide(p, h) ==
  /\ \/ Works(p, "stop") /\ todo[p] = <<>>
     \/ Works(p, "ready") /\ (verb[p] = "unmerge" \/ Replaces(p))
  /\ E!Hide(h)
  /\ UNCHANGED <<disk, counts, openrc, pc, Locals, history>>

(* The old merge is gone and there is none to come.                          *)
Unmerged(p) ==
  /\ Works(p, "stop") /\ todo[p] = <<>>
  /\ \A h \in H : view[h] = E!Bare
  /\ UNCHANGED view /\ E!Stop
  /\ Reports(p, "nothing")
  /\ UNCHANGED <<disk, counts, openrc>>

Decide(p) ==
  /\ Works(p, "ready") /\ Found(p) # {}
  /\ E!Decide
  /\ goal' = [h \in H |-> [names |-> Found(p), mutable |-> FALSE, merged |-> TRUE]]
  /\ Goto(p, "new")
  /\ UNCHANGED <<disk, counts, openrc, Locals, history>>

Show(p, h) ==
  /\ Works(p, "new") /\ E!Show(h)
  /\ UNCHANGED <<disk, counts, openrc, pc, Locals, history>>

(* The merge is there; only cleaning up after it can still go wrong          *)
(* (ErrCleanup), and then the services are left alone.                       *)
Commit(p) ==
  /\ Works(p, "new") /\ E!Commit
  /\ \/ Reports(p, "merged") /\ UNCHANGED faults
     \/ faults < bounds.faults /\ faults' = faults + 1 /\ Reports(p, "uncleaned")
  /\ UNCHANGED <<disk, bounds, installs, kills, openrc>>

(* Any other step fails; what was shown of the new merge is taken back.      *)
EngineFails(p) ==
  /\ holder = p /\ pc[p] \in {"old", "ready", "stop", "new"} /\ faults < bounds.faults
  /\ E!Stop /\ faults' = faults + 1
  /\ Reports(p, "failed")
  /\ UNCHANGED <<disk, bounds, installs, kills, openrc>>

Undo(p, h) ==
  /\ Works(p, "undo") /\ E!Undo(h) /\ view' = [view EXCEPT ![h] = E!Bare]
  /\ UNCHANGED <<disk, counts, openrc, pc, Locals, history>>

Unlock(p) ==
  /\ Works(p, "undo")
  /\ phase = "over" => \A h \in H : goal[h] = E!Bare
  /\ E!Leave
  /\ Goto(p, "after")
  /\ UNCHANGED <<disk, counts, openrc, Locals, history>>

----------------------------------------------------------------------------
(* After the engine.  A held back signal ends the process now.  A verb that  *)
(* merged collects the actions of what is merged now; one that took a merge  *)
(* down uses those it collected before; the others are done.                 *)
Redeliver(p) ==
  /\ pc[p] = "after" /\ pend[p]
  /\ Gone(p)
  /\ UNCHANGED <<disk, counts, openrc, engine, current, restarted>>

(* Mutant of AfterEngine: always the actions collected before.               *)
AfterEngineStale(p) ==
  /\ pc[p] = "after" /\ ~pend[p] /\ result[p] \in {"merged", "nothing"}
  /\ todo' = [todo EXCEPT ![p] = InOrder(acts[p])]
  /\ Goto(p, "apply")
  /\ UNCHANGED <<disk, counts, openrc, verb, snap, acts, result, pend, history, engine>>

AfterEngine(p) ==
  /\ pc[p] = "after" /\ ~pend[p] /\ result[p] \in {"merged", "nothing"}
  /\ LET a == IF result[p] = "merged" THEN CollectActions(Merged) ELSE acts[p]
     IN  /\ todo' = [todo EXCEPT ![p] = InOrder(a)]
         /\ acts' = [acts EXCEPT ![p] = a]
  /\ Goto(p, "apply")
  /\ UNCHANGED <<disk, counts, openrc, verb, snap, result, pend, history, engine>>

NoActionsDue(p) ==
  /\ pc[p] = "after" /\ ~pend[p] /\ result[p] \notin {"merged", "nothing"}
  /\ Gone(p)
  /\ UNCHANGED <<disk, counts, openrc, engine, current, restarted>>

(* What is merged cannot be told after a merge, or OpenRC is not running.    *)
SkipApply(p) ==
  /\ pc[p] = "after" /\ ~pend[p] /\ result[p] \in {"merged", "nothing"}
  /\ Refuses({}) /\ Gone(p)
  /\ UNCHANGED <<disk, counts, running, engine, current, restarted>>

(* One unit of dispatch: RestartUnit or ReloadOrRestartUnit.  A reload       *)
(* leaves the service as it is; if it fails, or cannot be had, a restart     *)
(* takes the script that is there now.                                       *)
AppliesOrSkips(u, a) ==
  \/ ~Exists(u, Merged) /\ UNCHANGED openrc
  \/ Exists(u, Merged) /\ Reloads(u, a, running) /\ UNCHANGED openrc
  \/ /\ Exists(u, Merged) /\ Obeys
     /\ running' = [running EXCEPT ![ServiceOf[u]] = Providers(ServiceOf[u], Merged)]

(* A restart that fails leaves the service as it was, or down.               *)
ApplyFails(u) ==
  /\ Exists(u, Merged) /\ Refuses({ServiceOf[u]})
  /\ \/ UNCHANGED running
     \/ running' = [running EXCEPT ![ServiceOf[u]] = {}]

(* Mutant of ApplyNext: dispatch returns the first error.                    *)
ApplyNextOrGiveUp(p) ==
  /\ pc[p] = "apply" /\ todo[p] # <<>>
  /\ \/ AppliesOrSkips(Head(todo[p]), acts[p]) /\ todo' = [todo EXCEPT ![p] = Tail(@)]
     \/ ApplyFails(Head(todo[p])) /\ todo' = [todo EXCEPT ![p] = <<>>]
  /\ UNCHANGED <<disk, counts, pc, verb, snap, acts, result, pend, history, engine>>

(* dispatch goes on with the next unit in any case.                          *)
ApplyNext(p) ==
  /\ pc[p] = "apply" /\ todo[p] # <<>>
  /\ AppliesOrSkips(Head(todo[p]), acts[p]) \/ ApplyFails(Head(todo[p]))
  /\ todo' = [todo EXCEPT ![p] = Tail(@)]
  /\ UNCHANGED <<disk, counts, pc, verb, snap, acts, result, pend, history, engine>>

Applied(p) ==
  /\ pc[p] = "apply" /\ todo[p] = <<>>
  /\ Gone(p) /\ restarted' = TRUE
  /\ UNCHANGED <<disk, counts, openrc, engine, current>>

----------------------------------------------------------------------------
(* The surroundings: images are installed and removed, the administrator     *)
(* starts a service while no verb is under way, signals and kills come.      *)
Install ==
  /\ installs < bounds.installs /\ installs' = installs + 1
  /\ \E d \in (SUBSET Images) \ {disk} : disk' = d
  /\ since' = [p \in Procs |-> FALSE] /\ current' = FALSE
  /\ UNCHANGED <<bounds, faults, kills, openrc, pc, Locals, restarted, engine>>

AdminStarts(s) ==
  /\ \A p \in Procs : Idle(p)
  /\ running[s] = {} /\ Providers(s, Merged) # {}
  /\ running' = [running EXCEPT ![s] = Providers(s, Merged)] /\ Obeys
  /\ UNCHANGED <<disk, counts, pc, Locals, history, engine>>

(* A process ends early; the kernel releases the lock it may hold.           *)
Dies(p) ==
  /\ Gone(p)
  /\ IF holder = p THEN E!Leave ELSE UNCHANGED engine

(* SIGINT, SIGTERM or SIGHUP.                                                *)
Signal(p) ==
  /\ ~Idle(p)
  /\ IF pc[p] \in Held
     THEN ~pend[p] /\ pend' = [pend EXCEPT ![p] = TRUE]
          /\ UNCHANGED <<pc, verb, snap, acts, todo, result, since, engine>>
     ELSE Dies(p)
  /\ UNCHANGED <<disk, counts, openrc, current, restarted>>

(* SIGKILL.                                                                  *)
Kill(p) ==
  /\ ~Idle(p) /\ kills < bounds.kills /\ kills' = kills + 1
  /\ Dies(p)
  /\ UNCHANGED <<disk, bounds, installs, faults, openrc, current, restarted>>

(* What a process does of itself once a verb has begun.                      *)
Proceeds(p) ==
  \/ CheckMerged(p) \/ CollectUnlocked(p) \/ CollectFails(p) \/ StopNext(p)
  \/ Prestopped(p) \/ Probe(p) \/ Enter(p) \/ Refuse(p) \/ Prepare(p)
  \/ NothingToDo(p) \/ BeforeUnmerge(p)
  \/ \E h \in H : Hide(p, h) \/ Show(p, h) \/ Undo(p, h)
  \/ Unmerged(p) \/ Decide(p) \/ Commit(p) \/ EngineFails(p) \/ Unlock(p)
  \/ Redeliver(p) \/ AfterEngine(p) \/ SkipApply(p) \/ NoActionsDue(p)
  \/ ApplyNext(p) \/ Applied(p)

Next ==
  \/ \E p \in Procs : Proceeds(p) \/ Signal(p) \/ Kill(p)
  \/ \E p \in Procs, v \in VerbNames : Start(p, v)
  \/ Install \/ \E s \in Services : AdminStarts(s)

Spec == Init /\ [][Next]_vars

FairSpec == Spec /\ \A p \in Procs : WF_vars(Proceeds(p))

----------------------------------------------------------------------------
(* Signals alone never leave the hierarchies half merged, whenever they come *)
(* and however many processes are at it: the job of critical.                *)
NeverHalfMerged ==
  phase = "free" /\ faults = 0 /\ kills = 0 => \A h, k \in H : view[h] = view[k]

(* Whatever other verbs do meanwhile: when a refresh that began after the    *)
(* last change of the installed images was the last to have the lock, and    *)
(* succeeded, then the images installed are merged.  It does not matter what *)
(* was merged when it discovered them.  (After a failure or a kill, Engine   *)
(* has the exception.)                                                       *)
RefreshedIsCurrent ==
  current /\ faults = 0 /\ kills = 0 => \A h \in H : view[h].names = disk \cap Fits

(* Verbs that never overlap: one process alone runs them.  With two, neither *)
(* of the properties that assume it holds (verbs.go:142, 175).               *)
OneAtATime == \A p, q \in bounds.procs : p = q

(* After a verb that came to its end, a service a merged extension wants     *)
(* restarted runs from the scripts that are merged now, unless its own       *)
(* restart failed: the failure of one costs the others nothing.              *)
RestartedRunMerged ==
  OneAtATime /\ (\A p \in Procs : Idle(p)) /\ restarted =>
    \A u \in CollectActions(Merged).restart :
      Exists(u, Merged) =>
        \/ running[ServiceOf[u]] = Providers(ServiceOf[u], Merged)
        \/ ServiceOf[u] \in refused

(* The units the merged extensions list.                                     *)
Listed == CollectActions(Merged).restart \cup CollectActions(Merged).reload

(* A step that unmerges the last hierarchy, with nothing to follow.          *)
TakenDown ==
  /\ Merged # {} /\ Merged' = {} /\ faults' = faults
  /\ ask.verb = "unmerge" \/ ask.images \cap Fits = {}

(* When the extensions are unmerged for good, by unmerge or by a refresh     *)
(* without images, each service they list and ship has been stopped by then  *)
(* (stopProvidedServices), unless stopping it failed or OpenRC could not be  *)
(* asked.                                                                    *)
StoppedBeforeUnmerged ==
  [][OneAtATime /\ TakenDown =>
       \A u \in Listed : MustStop(u, running, Merged) => ServiceOf[u] \in refused]_vars

(* No service runs without an init script to stop it with while no verb is   *)
(* under way, README.md on the services an extension ships.                  *)
NoServiceWithoutScript ==
  (\A p \in Procs : Idle(p)) /\ faults = 0 /\ kills = 0 /\ refusals = 0 =>
    \A s \in Services : running[s] # {} => Providers(s, Merged) # {}

(* A verb comes to its end when no other verb begins any more: the waits for *)
(* the lock, the service actions and the engine all end.                     *)
VerbEnds ==
  \A p \in Procs :
    (<>[](\A q \in Procs \ {p} : Idle(q))) => (~Idle(p) ~> Idle(p))
=============================================================================
