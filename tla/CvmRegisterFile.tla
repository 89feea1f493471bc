--------------------------- MODULE CvmRegisterFile ---------------------------
(* What the register interface of a customizable vCPU promises a user        *)
(* hypervisor: there is one value per register; the guest changes it while   *)
(* the vCPU runs, the host while it does not, and whoever looks sees the     *)
(* latest value.  How NoirVisor spreads that value over the vCPU structure,  *)
(* the VMCB and the processor's VMCB cache is the subject of CvmStateCache,  *)
(* which is checked and proved to implement this specification.              *)
CONSTANTS Regs,       \* the registers of the vCPU
          Values      \* the values a register can hold

VARIABLES regs,       \* regs[r]: the value of r
          running,    \* the vCPU is in guest mode
          seen        \* the last register the host has viewed, with its value

vars == <<regs, running, seen>>

Init == /\ regs \in [Regs -> Values]
        /\ running = FALSE
        /\ seen \in [reg : Regs, val : Values]

Enter == /\ ~running
         /\ running' = TRUE
         /\ UNCHANGED <<regs, seen>>

Leave == /\ running
         /\ running' = FALSE
         /\ UNCHANGED <<regs, seen>>

GuestWrite == /\ running
              /\ \E r \in Regs, v \in Values : regs' = [regs EXCEPT ![r] = v]
              /\ UNCHANGED <<running, seen>>

\* A call edits some of the registers; the others keep their values.
Edit == /\ ~running
        /\ \E R \in SUBSET Regs, new \in [Regs -> Values] :
              regs' = [r \in Regs |-> IF r \in R THEN new[r] ELSE regs[r]]
        /\ UNCHANGED <<running, seen>>

View == /\ ~running
        /\ \E r \in Regs : seen' = [reg |-> r, val |-> regs[r]]
        /\ UNCHANGED <<regs, running>>

Next == Enter \/ Leave \/ GuestWrite \/ Edit \/ View

Spec == Init /\ [][Next]_vars
==============================================================================
