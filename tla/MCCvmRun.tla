------------------------------- MODULE MCCvmRun -------------------------------
(***************************************************************************)
(* Bounds for CvmRun: two events are enough for an interrupt that waits in *)
(* V_IRQ while an exception or another interrupt is injected.              *)
(***************************************************************************)
EXTENDS CvmRun
=============================================================================
