------------------------------ MODULE MCEngine ------------------------------
(***************************************************************************)
(* Instances of Engine for TLC: two hierarchies, image a contributes to    *)
(* the first only, image b to both, c to none; one or two carried mounts.  *)
(***************************************************************************)
EXTENDS Engine

CONSTANTS a, b, c, s1, s2

MCProvides == {<<a, 1>>, <<b, 1>>, <<b, 2>>}

MCHome == [s \in Subs |-> IF s = s1 THEN 1 ELSE 2]

Asks(verb, images, mutable, always) ==
  [verb |-> verb, images |-> images, mutable |-> mutable, always |-> always]

Unmerge == Asks("unmerge", {}, FALSE, FALSE)

(* All verbs, images that come and go, and a refresh nothing qualifies for.  *)
ManyRequests ==
  { Asks("merge", {b}, FALSE, FALSE), Asks("merge", {a, b}, FALSE, FALSE),
    Asks("refresh", {a}, FALSE, FALSE), Asks("refresh", {a, b}, FALSE, FALSE),
    Asks("refresh", {}, FALSE, FALSE), Unmerge }

(* Mutable merges without images, forced refreshes, images for no hierarchy. *)
OddRequests ==
  { Asks("merge", {}, TRUE, FALSE), Asks("refresh", {c}, FALSE, FALSE),
    Asks("refresh", {b}, TRUE, TRUE), Unmerge }

AllRequests == ManyRequests \cup OddRequests

FewRequests ==
  { Asks("merge", {b}, FALSE, FALSE), Asks("refresh", {a}, FALSE, FALSE), Unmerge }

AllSteps == Steps

(* Every step may fail but those that put a mount back where programs look,  *)
(* after which its clone is closed, and those of abort that take the mounts  *)
(* and detach the new overlay.  Attaching mounts to a new merge may fail.    *)
AbortSafe == Steps \ {"putback", "retake", "detach"}
=============================================================================
