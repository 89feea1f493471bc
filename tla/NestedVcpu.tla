----------------------------- MODULE NestedVcpu -----------------------------
(***************************************************************************)
(* Nested virtualization on AMD-V: the subverted host (L1) runs guests of  *)
(* its own (L2).  L1 describes an L2 in a VMCB of its memory; NoirVisor    *)
(* runs L2 on a copy of it, the vmcb_t of one of a few nodes, chosen by a  *)
(* hash of the address of L1's VMCB.  vmrun copies only the fields whose   *)
(* clean bit L1 left unset; a VM-Exit of L2 copies the state back.         *)
(*                                                                         *)
(* Fields are copied independently, so one field is watched, any of them.  *)
(* The bits of real VMCBs that it does not need are left out.              *)
(***************************************************************************)
EXTENDS Naturals, FiniteSets

CONSTANTS
  Vmcbs,   \* VMCBs of L1
  Nodes,   \* nested_hvm.node_pool
  Values,  \* contents of a field, among them 0: no ASID, no nested paging
  Start,   \* tlb_tagging.start: first ASID of the CVMs
  None     \* no VMCB, no content

ASSUME NestedAssumption ==
  /\ Vmcbs # {} /\ Nodes # {} /\ 0 \in Values
  /\ None \notin Vmcbs /\ Values \subseteq Nat /\ Start \in Nat
  /\ \A v \in Values : v < Start - 2  \* L1 keeps to the number of ASIDs that cpuid reports

\* Groups of fields that are copied alike.  L2 changes those of Running by itself.
\* The LBRs are left out: nothing enables their virtualization in vmcb_t.
Controls == {"interceptions", "iomsrpm", "asid", "npt", "avic"}
Running == {"tpr", "crx", "drx", "gdt", "idt", "seg", "cpl", "cr2", "cet", "gpr"}
Hidden == {"fs_gs_tr_ldtr_msr"}
Fields == Controls \cup Running \cup Hidden

\* Fields that vmrun copies from vmcb_c, whatever their clean bit.
AlwaysUncached == {"gpr"}
\* Fields that one of svm_clean_vmcb copies: all the others, but not the CPL.
Uncached == (Controls \cup Running) \ {"gpr", "cpl"}
\* Copiers that clear the clean bit of what they copied: AVIC's clears that of the LBRs.
Invalidated == Uncached \ {"avic"}
\* Fields that switch_from_nested copies back: it copies GDTR's base twice, IDTR's never.
Saved == Running \ {"idt"}

\* Fields that reach neither L2 nor L1 as they should.
Lost == {"cpl", "idt", "avic"}

VARIABLES
  field,     \* the field that is watched
  hash,      \* hash[x]: the node for L1's VMCB x, by its address
  vmcb_c,    \* vmcb_c[x]: the field in L1's VMCB x
  bit,       \* bit[x]: L1 set the clean bit of the field in x
  node,      \* the nodes of the pool
  cache,     \* cache[n]: what the processor may have cached of node n's vmcb_t
  vmcb_l1,   \* the field in the VMCB of L1 itself (if it is Hidden)
  nested,    \* loader_stack->nested_vcpu
  world,     \* whose VMCB loader_stack->guest_vmcb_pa is: "L1" or "L2"
  live,      \* the field as L2 runs (0 while L1 runs)
  expected,  \* history: what L1 and L2 made of the field, for each VMCB
  hidden,    \* history: what they made of the Hidden registers
  settled,   \* history: where a Hidden register is the one of the machine that L1 expects
  written    \* history: VMCBs that L1 has written since it ran them

nested_vars == <<field, hash, vmcb_c, bit, node, cache, vmcb_l1, nested, world, live,
                 expected, hidden, settled, written>>

\* What the copiers make of a field.  ASID 1 is that of L1; without nested paging L2 is
\* under NoirVisor's own nested page table.
Primary == Start
Convert(v) == CASE field = "asid" -> IF v = 0 THEN 0 ELSE v + 1
                [] field = "npt"  -> IF v = 0 THEN Primary ELSE v
                [] OTHER          -> v
Copies == Values \cup {v + 1 : v \in Values} \cup {Primary}

EmptyNode(v) == [vmcb_c |-> None, clean |-> FALSE, vmcb_t |-> v, bit |-> FALSE]

NestedInit ==
  /\ field \in Fields
  /\ hash \in [Vmcbs -> Nodes]
  /\ \E v \in Values :
       /\ vmcb_c = [x \in Vmcbs |-> v]
       /\ node = [n \in Nodes |-> EmptyNode(v)]
       /\ vmcb_l1 = v /\ hidden = v
  /\ live = 0
  /\ bit = [x \in Vmcbs |-> FALSE]
  /\ cache = [n \in Nodes |-> None]
  /\ nested \in Nodes
  /\ world = "L1"
  /\ expected = vmcb_c
  /\ settled = "nowhere"
  /\ written = Vmcbs

NestedTypeOK ==
  /\ field \in Fields /\ hash \in [Vmcbs -> Nodes]
  /\ vmcb_c \in [Vmcbs -> Values] /\ bit \in [Vmcbs -> BOOLEAN]
  /\ node \in [Nodes -> [vmcb_c : Vmcbs \cup {None}, clean : BOOLEAN,
                         vmcb_t : Copies, bit : BOOLEAN]]
  /\ cache \in [Nodes -> Copies \cup {None}]
  /\ vmcb_l1 \in Values /\ nested \in Nodes /\ world \in {"L1", "L2"}
  /\ live \in Copies /\ expected \in [Vmcbs -> Values]
  /\ hidden \in Values /\ settled \in {"nowhere", "L1", "everywhere"} /\ written \subseteq Vmcbs

-----------------------------------------------------------------------------
(* What L1 does between two exits: it obeys the rules of the clean bits.   *)

L1WritesVmcb(x) ==
  /\ \E v \in Values :
       /\ vmcb_c' = [vmcb_c EXCEPT ![x] = v]
       /\ expected' = [expected EXCEPT ![x] = v]
  /\ bit' = [bit EXCEPT ![x] = FALSE]
  /\ written' = written \cup {x}
  /\ UNCHANGED <<field, hash, node, cache, vmcb_l1, nested, world, live, hidden, settled>>

L1MarksClean(x) ==
  /\ x \notin written
  /\ bit' = [bit EXCEPT ![x] = TRUE]
  /\ UNCHANGED <<field, hash, vmcb_c, node, cache, vmcb_l1, nested, world, live,
                 expected, hidden, settled, written>>

\* L1 loads a segment register, say: only its live register changes.
L1ChangesHidden ==
  /\ field \in Hidden
  /\ \E v \in Values : vmcb_l1' = v /\ hidden' = v
  /\ settled' = IF settled = "nowhere" THEN settled ELSE "L1"
  /\ UNCHANGED <<field, hash, vmcb_c, bit, node, cache, nested, world, live,
                 expected, written>>

-----------------------------------------------------------------------------
(* The functions of the exit handlers of L1.                               *)

\* nvc_svm_vmload_handler: vmload(x) loads L1's VMCB and every node.
LoadHidden(x) ==
  /\ IF field \in Hidden
       THEN /\ vmcb_l1' = vmcb_c[x]
            /\ node' = [n \in Nodes |-> [node[n] EXCEPT !.vmcb_t = vmcb_c[x]]]
            /\ hidden' = vmcb_c[x]
       ELSE UNCHANGED <<vmcb_l1, node, hidden>>
  /\ settled' = "everywhere"
  /\ UNCHANGED <<field, hash, vmcb_c, bit, cache, nested, world, live, expected, written>>

\* nvc_svm_vmsave_handler.
SaveHidden(x) ==
  /\ IF field \in Hidden
       THEN vmcb_c' = [vmcb_c EXCEPT ![x] = vmcb_l1]
       ELSE UNCHANGED vmcb_c
  /\ UNCHANGED <<field, hash, bit, node, cache, vmcb_l1, nested, world, live, expected,
                 hidden, settled, written>>

\* Mutant: a VMCB that takes a node over relies on what is cached for the other.
NodeForCollided(x) == [node[hash[x]] EXCEPT !.vmcb_c = x]

\* The node of x, as vmrun finds it: on a collision the other VMCB loses it.
NodeFor(x) ==
  LET n == node[hash[x]]
  IN IF n.vmcb_c = x THEN n ELSE [n EXCEPT !.vmcb_c = x, !.clean = FALSE]

\* nvc_svm_switch_to_nested_vcpu, up to the return: the node after the copy.
SwitchTo(n, x) ==
  LET copied == \/ field \in AlwaysUncached
                \/ field \in Uncached /\ (~ n.clean \/ ~ bit[x])
      t == IF copied THEN Convert(vmcb_c[x]) ELSE n.vmcb_t
      b == n.bit /\ ~ (copied /\ field \in Invalidated)
  IN [n EXCEPT !.vmcb_t = t, !.bit = b, !.clean = TRUE]

\* What vmrun may load of node n: a cached field whose clean bit is set may
\* come from the cache.  The general registers are never cached.
Loads(n, i) ==
  {n.vmcb_t} \cup IF n.bit /\ cache[i] # None /\ field \notin AlwaysUncached \cup Hidden
                    THEN {cache[i]} ELSE {}

\* nvc_svm_vmrun_handler, and the vmrun that follows it.
EnterNested(x) ==
  LET n == SwitchTo(NodeFor(x), x)
  IN /\ nested' = hash[x]
     /\ world' = "L2"
     /\ live' \in Loads(n, hash[x])
     /\ node' = [node EXCEPT ![hash[x]] = n]
     /\ cache' = [cache EXCEPT ![hash[x]] = live']
     /\ written' = written \ {x}
     /\ settled' = IF settled = "everywhere" THEN settled ELSE "nowhere"
     /\ UNCHANGED <<field, hash, vmcb_c, bit, vmcb_l1, expected, hidden>>

-----------------------------------------------------------------------------
(* L2 and its exits.                                                       *)

Current == node[nested].vmcb_c

\* L2 changes its own state.
L2Runs ==
  /\ world = "L2"
  /\ field \in Running \cup Hidden
  /\ live' \in Values
  /\ IF field \in Hidden
       THEN hidden' = live' /\ UNCHANGED expected
       ELSE expected' = [expected EXCEPT ![Current] = live'] /\ UNCHANGED hidden
  /\ UNCHANGED <<field, hash, vmcb_c, bit, node, cache, vmcb_l1, nested, world,
                 settled, written>>

\* The processor saves the state of L2, and the exit handler marks all of it cached.
Exited == [node[nested] EXCEPT !.vmcb_t = live, !.bit = TRUE]

\* nvc_svm_switch_from_nested_vcpu: the exit is forwarded to L1.
ForwardExit ==
  /\ world = "L2"
  /\ node' = [node EXCEPT ![nested] = Exited]
  /\ cache' = [cache EXCEPT ![nested] = live]
  /\ vmcb_c' = IF field \in Saved THEN [vmcb_c EXCEPT ![Current] = live] ELSE vmcb_c
  /\ vmcb_l1' = IF field \in Hidden THEN live ELSE vmcb_l1
  /\ settled' = IF settled = "everywhere" THEN "L1" ELSE settled
  /\ world' = "L1"
  /\ live' = 0
  /\ UNCHANGED <<field, hash, bit, nested, expected, hidden, written>>

\* nvc_svm_nvexit_cpuid_handler when L1 does not intercept cpuid: NoirVisor
\* writes the result and the rip to vmcb_t, and L2 goes on.
HandleCpuid ==
  /\ world = "L2"
  /\ LET handled(v) == IF field \in AlwaysUncached THEN [Exited EXCEPT !.vmcb_t = v] ELSE Exited
     IN \E v \in Values :
          /\ node' = [node EXCEPT ![nested] = handled(v)]
          /\ live' = handled(v).vmcb_t
  /\ cache' = [cache EXCEPT ![nested] = live']
  /\ expected' = IF field \in AlwaysUncached THEN [expected EXCEPT ![Current] = live']
                 ELSE expected
  /\ UNCHANGED <<field, hash, vmcb_c, bit, vmcb_l1, nested, world, hidden, settled, written>>

NestedExit == ForwardExit \/ HandleCpuid

-----------------------------------------------------------------------------
(* Properties.                                                             *)

\* L2 runs on the state that L1 described and L2 left, and L1 finds in its
\* VMCB the state L2 left: neither the clean bits of L1, those of vmcb_t,
\* two VMCBs in one node, nor an exit NoirVisor handled by itself lose it.
\* The registers of vmload and vmsave are the same in both worlds, if L1
\* runs vmload before vmrun.  No ASID of L2 is that of L1 or of a CVM.  The
\* fields of Lost are excepted.
NestedStateKept ==
  CASE field \in Hidden ->
         /\ world = "L2" /\ settled = "everywhere" => live = hidden
         /\ world = "L1" /\ settled # "nowhere" => vmcb_l1 = hidden
    [] field \in Lost -> TRUE
    [] OTHER ->
         /\ world = "L2" => live = Convert(expected[Current])
         /\ world = "L1" => vmcb_c = expected
         /\ field = "asid" /\ world = "L2" => live # 1 /\ live < Start

\* What a nested VM-Exit says of the state of L2: "We have to be dumb and just
\* synchronize everything."
EverythingSynchronized == world = "L1" /\ field \notin Hidden => vmcb_c = expected
=============================================================================
