------------------------------- MODULE MCVerbs -------------------------------
(* Small systems for Verbs: image i1 ships service s1, and wants it and s2    *)
(* restarted; image i2 ships a script for s2, which the host has too, and     *)
(* wants it reloaded.  One unit of i1 is not a service, and one name is not   *)
(* valid.                                                                     *)
EXTENDS Verbs, TLC

CONSTANTS i1, i2, s1, s2, u1, u2, u3, timer, bad, p1, p2

MCShips == (i1 :> {s1}) @@ (i2 :> {s2}) @@ (Host :> {s2})
MCUnits == <<bad, u1, u2, timer, u3>>
MCServiceOf == (bad :> s2) @@ (u1 :> s1) @@ (u2 :> s2) @@ (u3 :> s2) @@ (timer :> NoService)
MCValid == {u1, u2, u3, timer}
MCRestart == (i1 :> {u1, u3, timer}) @@ (i2 :> {bad})
MCReload == (i1 :> {u1}) @@ (i2 :> {u2})

\* One process with everything that can go wrong going wrong once; one with
\* service commands that fail; two that run all verbs at the same time, and two
\* that refresh while the images change.
MCBounds ==
  {[procs |-> {p1}, verbs |-> VerbNames,
    faults |-> 1, kills |-> 1, installs |-> 1, refusals |-> 1],
   [procs |-> {p1}, verbs |-> VerbNames,
    faults |-> 0, kills |-> 0, installs |-> 1, refusals |-> 2],
   [procs |-> {p1, p2}, verbs |-> VerbNames,
    faults |-> 0, kills |-> 0, installs |-> 0, refusals |-> 0],
   [procs |-> {p1, p2}, verbs |-> {"refresh"},
    faults |-> 0, kills |-> 0, installs |-> 1, refusals |-> 0]}

MCShort ==
  {[procs |-> {p1}, verbs |-> VerbNames,
    faults |-> 0, kills |-> 0, installs |-> 1, refusals |-> 0]}
=============================================================================
