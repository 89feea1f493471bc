--------------------------- MODULE MCCvmExclusion ---------------------------
(***************************************************************************)
(* Bounds for CvmExclusion: two host threads and a table of two vCPU       *)
(* slots, which is enough for two vCPUs that request NSV services at once, *)
(* for a mapping that waits for a running vCPU, and for a vCPU that is     *)
(* released or created while the other is run or mapped.                   *)
(***************************************************************************)
EXTENDS CvmExclusion
=============================================================================
