----------------------------- MODULE MCSvmExits -----------------------------
(* Bounds for SvmExits: two VMCBs of L1, which may or may not fall in one of *)
(* two nodes, and two contents of a field.  The VMCB of the host and those   *)
(* of its guests meet only in SVME and in the world that runs, so a state in *)
(* which both have moved from where they were is not followed further; nor   *)
(* one in which both events and NPIEP have.                                  *)
EXTENDS SvmExits, TLC

HostUntouched ==
  /\ clean \in {{}, Groups, Groups \ {"control_reg"}} /\ pending = {}
  /\ ~ gif /\ ~ r_init /\ ~ sipi_sent /\ ~ umip /\ npiep = {} /\ ~ restarted
NestedUntouched ==
  /\ world = "L1" /\ written = Vmcbs /\ field = "gpr"
  /\ \A x \in Vmcbs : vmcb_c[x] = 0 /\ hash[x] = nested
  /\ pending = {} \/ (npiep = {} /\ ~ umip /\ Cardinality(pending) <= 2)

Focus == HostUntouched \/ NestedUntouched
Symmetry == Permutations(Vmcbs) \cup Permutations(Nodes)
============================================================================
