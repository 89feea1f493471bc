------------------------------- MODULE MCVtCvm -------------------------------
(* VtCvm on a small instance.                                               *)
EXTENDS VtCvm

CONSTANTS f1, p1, p2, v1

\* The tables, the events and the registers depart from their start one at a time.
MapsMoved == pte # <<>> \/ refused
EventsMoved == \E v \in Vcpus : event[v] # NoEvent \/ cr8[v] # 0 \/ nmi_blocked[v]
RegsMoved == \E v \in Vcpus : fresh_header[v] # Regs \/ fresh_vmcs[v] \notin {{}, Regs \ {"kgs"}}

Focus ==
  /\ MapsMoved => home = [v \in Vcpus |-> NoProc]
  /\ \A v \in Vcpus : injection[v].type = "exc" => ~ event[v].valid \/ event[v].type = "exc"
  /\ EventsMoved => \A v \in Vcpus : {"cr0", "cs", "star", "kgs"} \cap Regs \subseteq valid[v] \cup fresh_header[v]
  /\ Len(pte) <= 3
=============================================================================
