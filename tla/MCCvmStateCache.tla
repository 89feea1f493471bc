--------------------------- MODULE MCCvmStateCache ---------------------------
(* Instances of CvmStateCache for TLC: two values, two processors, two       *)
(* registers of one group that views synchronize and one that they do not,   *)
(* all of them in VMCB areas with a clean bit.                               *)
EXTENDS CvmStateCache, TLC

Symmetry == Permutations(Procs)
==============================================================================
