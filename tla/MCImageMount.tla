---------------------------- MODULE MCImageMount ----------------------------
(* Small systems for ImageMount: all loop devices look alike.                *)
EXTENDS ImageMount, TLC

CONSTANTS p, q, d1, d2, d3

MCTwo == {p, q}
MCTwoLoops == {d1, d2}
MCThreeLoops == {d1, d2, d3}

(* One mount of any kind with everything that can happen to it; two mounts   *)
(* that share the loop devices with another program; and two of those with a *)
(* dm device, each with a kill.                                              *)
MCBounds ==
  {[procs |-> {p}, kinds |-> AllKinds, signatures |-> AllSignatures,
    hiccups |-> 2, faults |-> 2, crashes |-> 1, others |-> 1, opens |-> 1],
   [procs |-> {p, q}, kinds |-> {"plain", "ddi", "device"}, signatures |-> {"none"},
    hiccups |-> 1, faults |-> 0, crashes |-> 1, others |-> 1, opens |-> 1],
   [procs |-> {p, q}, kinds |-> {"external", "ddi"}, signatures |-> {"none", "may"},
    hiccups |-> 0, faults |-> 0, crashes |-> 1, others |-> 0, opens |-> 1]}

(* For liveness, two partitioned images with a signature the policy can do   *)
(* without.                                                                  *)
MCProgress ==
  {[procs |-> {p, q}, kinds |-> {"ddi"}, signatures |-> {"may"},
    hiccups |-> 0, faults |-> 1, crashes |-> 0, others |-> 1, opens |-> 1]}

LoopSymmetry == Permutations(Loops)
=============================================================================
