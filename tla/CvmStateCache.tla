---------------------------- MODULE CvmStateCache ----------------------------
(* The registers of one customizable vCPU in the SVM core.  A register has   *)
(* up to four copies: the vCPU structure the host edits and views (header),  *)
(* the VMCB, the processor while the guest runs (live), and what a processor *)
(* keeps of the VMCB between two vmruns (hw).  The validity bits of          *)
(* state_cache say per group which of header and VMCB is current, the        *)
(* synchronized bit that header is up to date, and the VMCB clean bits which *)
(* areas the processor may take from its own copy instead of the VMCB.       *)
EXTENDS FiniteSets

CONSTANTS Regs,         \* the registers considered, a subset of Registers
          Values,       \* the values a register can hold
          Procs,        \* logical processors
          Interface,    \* the host's calls: "edit", "edit2", "view", "view2"
          SyncFirst,    \* the host makes calls that never synchronize only once
                        \* the state is synchronized
          Concurrent,   \* host calls may be made while the vCPU runs
          NoProc        \* proc_id of a vCPU that never ran

\* One register per treatment the code gives it: rip (with rflags) and rsp
\* (with rax and the other GPRs), cr0/cr3, cr4 (intercepted writes), efer (as
\* pat: viewed without synchronization), fs (as every segment and system-call
\* register), kgs (Kernel-GS-Base), tsc, and dr0 (as dr1-dr3 and xcr0).
Registers == {"rip", "rsp", "cr0", "cr3", "cr4", "efer", "fs", "kgs", "tsc", "dr0"}

ASSUME RegsAssumption == Regs \subseteq Registers
ASSUME InterfaceAssumption == Interface \subseteq {"edit", "edit2", "view", "view2"}
ASSUME ProcsAssumption == NoProc \notin Procs
ASSUME ModeAssumption == SyncFirst \in BOOLEAN /\ Concurrent \in BOOLEAN

VARIABLES header,       \* registers in noir_cvm_virtual_cpu
          vmcb,         \* registers in the VMCB
          live,         \* registers in the processor while in guest mode
          hw,           \* hw[p][r]: what processor p keeps of the VMCB
          valid,        \* groups whose bit is set in state_cache
          synchronized, \* state_cache.synchronized
          clean,        \* areas whose VMCB clean bit is set
          proc_id,      \* cvcpu->proc_id
          mode,         \* "host" or "guest"
          dumping,      \* a dump hypercall has copied, but not set synchronized
          seen          \* the last register the host has viewed

vars == <<header, vmcb, live, hw, valid, synchronized, clean, proc_id, mode, dumping, seen>>

Groups == {"gpr", "cr", "ef", "fg", "ts"}
Areas == {"control", "interception"}

\* The group of state_cache a register belongs to; dr0 is not cached.
Group(r) == CASE r \in {"rip", "rsp"} -> "gpr"
              [] r \in {"cr0", "cr3", "cr4"} -> "cr"
              [] r = "efer" -> "ef"
              [] r \in {"fs", "kgs"} -> "fg"
              [] r = "tsc" -> "ts"
              [] OTHER -> "none"

\* The clean bit that covers a register; the rest is loaded by vmload or by
\* every vmrun.
Area(r) == CASE r \in {"cr0", "cr3", "cr4", "efer"} -> "control"
             [] r = "tsc" -> "interception"
             [] OTHER -> "none"

\* switch_to_host copies these to the vCPU structure at every world switch.
SavedAtSwitch == {"rip", "rsp", "dr0"}
\* The dump hypercall copies these, if their group is valid.
Dumped == {"cr0", "cr3", "cr4", "efer", "fs"}
\* Guest writes to these are intercepted and carried out on the VMCB.
AlwaysIntercepted == {"cr4", "tsc"}
Emulated == {"cr4", "tsc", "efer", "kgs", "fs"}

\* The registers of one call of nvc_edit_vcpu_registers/nvc_view_vcpu_registers.
\* Kernel-GS-Base comes with fs and gs if the caller's buffer is long enough.
Units == {{"rip"}, {"rsp"}, {"cr0", "cr3", "cr4"}, {"efer"}, {"fs"}, {"fs", "kgs"}, {"tsc"}, {"dr0"}}
UnitsOf == {U \cap Regs : U \in Units} \ {{}}

\* view synchronizes for groups kept in the VMCB, except efer (and pat).
ViewSynchronizes(r) == r \in {"cr0", "cr3", "cr4", "fs", "kgs"}

InVmcb(r) == r # "dr0"
Merge(f, g, R) == [r \in Regs |-> IF r \in R THEN g[r] ELSE f[r]]

TypeOK ==
  /\ header \in [Regs -> Values]
  /\ vmcb \in [Regs -> Values]
  /\ live \in [Regs -> Values]
  /\ hw \in [Procs -> [Regs -> Values]]
  /\ valid \subseteq Groups
  /\ synchronized \in BOOLEAN
  /\ clean \subseteq Areas
  /\ proc_id \in Procs \cup {NoProc}
  /\ mode \in {"host", "guest"}
  /\ mode = "guest" => proc_id \in Procs
  /\ dumping \in BOOLEAN
  /\ seen \in [reg : Regs, val : Values]

\* A new vCPU: no group is valid, no clean bit set, never run on a processor.
Init ==
  \E v \in Values :
    /\ header = [r \in Regs |-> v]
    /\ vmcb = [r \in Regs |-> v]
    /\ live = [r \in Regs |-> v]
    /\ hw = [p \in Procs |-> [r \in Regs |-> v]]
    /\ valid = {} /\ synchronized = FALSE /\ clean = {}
    /\ proc_id = NoProc /\ mode = "host" /\ dumping = FALSE
    /\ seen \in [reg : Regs, val : {v}]

----------------------------------------------------------------------------
(* The world switches and the guest.                                        *)

\* vmrun on p: an area with its clean bit set may come from the processor.
Vmrun(p, source, cleanBits) ==
  \E keep \in SUBSET cleanBits :
     live' = [r \in Regs |-> IF Area(r) \in keep THEN hw[p][r] ELSE source[r]]

\* Mutant: the clean bits survive a migration.
CleanForKept(p) == clean
\* The clean bits are reset if the vCPU last ran on another processor.
CleanFor(p) == IF proc_id # p THEN {} ELSE clean

\* Mutant: EFER is loaded without clearing the clean bit.
LoadedAreasNoEfer(R) == {Area(r) : r \in R \ {"efer"}}
LoadedAreas(R) == {Area(r) : r \in R}

\* Groups that are not valid are loaded from the vCPU structure; dr0 always is.
ToLoad == {r \in Regs : Group(r) \notin valid}

ValidAfterLoad == valid \cup {Group(r) : r \in {q \in Regs : Group(q) # "none"}}

\* nvc_svm_switch_to_guest_vcpu followed by vmrun.
Enter(p) ==
  /\ mode = "host"
  /\ Concurrent \/ ~dumping
  /\ LET cleanBits == CleanFor(p) \ LoadedAreas(ToLoad)
         loaded == Merge(vmcb, header, ToLoad)
     IN /\ vmcb' = loaded
        /\ clean' = cleanBits
        /\ Vmrun(p, loaded, cleanBits)
  /\ valid' = ValidAfterLoad
  /\ proc_id' = p
  /\ mode' = "guest"
  /\ UNCHANGED <<header, hw, synchronized, dumping, seen>>

\* The guest changes a register without an intercept.
GuestWrite(r, v) ==
  /\ mode = "guest"
  /\ r \notin AlwaysIntercepted
  /\ live' = [live EXCEPT ![r] = v]
  /\ UNCHANGED <<header, vmcb, hw, valid, synchronized, clean, proc_id, mode, dumping, seen>>

\* vmexit: the processor stores the guest's state and keeps its cached areas;
\* the exit handler then sets every clean bit and clears synchronized.
Vmexit ==
  /\ hw' = [hw EXCEPT ![proc_id] = Merge(hw[proc_id], live, {r \in Regs : Area(r) # "none"})]
  /\ synchronized' = FALSE

\* Handlers clear the clean bit of what they write; that of CR4 does not.
ClearedByHandler(r) == IF r = "cr4" THEN {} ELSE {Area(r)}

\* The guest writes an intercepted register; its handler carries the write out
\* on the VMCB and the guest is resumed.
Emulate(r, v) ==
  /\ mode = "guest"
  /\ r \in Emulated
  /\ Vmexit
  /\ vmcb' = Merge(vmcb, [live EXCEPT ![r] = v], {q \in Regs : InVmcb(q)})
  /\ clean' = Areas \ ClearedByHandler(r)
  /\ \E keep \in SUBSET (Areas \ ClearedByHandler(r)) :
        live' = [q \in Regs |-> IF Area(q) \in keep THEN live[q]
                                ELSE IF q = r THEN v ELSE live[q]]
  /\ UNCHANGED <<header, valid, proc_id, mode, dumping, seen>>

\* nvc_svm_switch_to_host_vcpu, after an exit that the host handles.
Exit ==
  /\ mode = "guest"
  /\ Vmexit
  /\ vmcb' = Merge(vmcb, live, {r \in Regs : InVmcb(r)})
  /\ clean' = Areas
  /\ header' = Merge(header, live, SavedAtSwitch)
  /\ mode' = "host"
  /\ UNCHANGED <<live, valid, proc_id, dumping, seen>>

----------------------------------------------------------------------------
(* The host's calls.  None of them takes a lock.                            *)

HostCalls(call) == call \in Interface /\ ~dumping /\ (mode = "host" \/ Concurrent)

\* The vCPU structure has the current value of r.
Fresh(r) == r \in SavedAtSwitch \/ synchronized \/ Group(r) \notin valid

\* nvc_edit_vcpu_registers: one unit of registers.
Edit(U, new) ==
  /\ HostCalls("edit")
  /\ SyncFirst => \A q \in Regs \ U : Group(q) \in {Group(r) : r \in U} => Fresh(q)
  /\ header' = Merge(header, new, U)
  /\ valid' = valid \ {Group(r) : r \in U}
  /\ UNCHANGED <<vmcb, live, hw, synchronized, clean, proc_id, mode, dumping, seen>>

\* Mutant: Edit2 invalidates cr0's group only.
Edit2ClearsCr0(r) == IF r = "cr0" THEN {Group(r)} ELSE {}
\* Of the GPRs only rax invalidates the group.
Edit2Clears(r) == IF r = "rsp" THEN {} ELSE {Group(r)}

\* nvc_edit_vcpu_registers2: one register.
Edit2(r, v) ==
  /\ HostCalls("edit2")
  /\ SyncFirst => Fresh(r)
  /\ header' = [header EXCEPT ![r] = v]
  /\ valid' = valid \ Edit2Clears(r)
  /\ UNCHANGED <<vmcb, live, hw, synchronized, clean, proc_id, mode, dumping, seen>>

\* State the host has edited since is not dumped over.
Dumpable == {r \in Regs \cap Dumped : Group(r) \in valid}

NeedsDump(r) == ViewSynchronizes(r) /\ Group(r) \in valid /\ ~synchronized

\* nvc_svm_dump_guest_vcpu_state, called by a view that finds the state valid
\* but not synchronized.
Dump ==
  /\ HostCalls("view")
  /\ \E r \in Regs : NeedsDump(r)
  /\ header' = Merge(header, vmcb, Dumpable)
  /\ dumping' = TRUE
  /\ UNCHANGED <<vmcb, live, hw, valid, synchronized, clean, proc_id, mode, seen>>

DumpDone ==
  /\ dumping
  /\ synchronized' = TRUE
  /\ dumping' = FALSE
  /\ UNCHANGED <<header, vmcb, live, hw, valid, clean, proc_id, mode, seen>>

Show(r) == seen' = [reg |-> r, val |-> header[r]]

\* nvc_view_vcpu_registers, once no synchronization is due.
View(r) ==
  /\ HostCalls("view")
  /\ ~NeedsDump(r)
  /\ SyncFirst => Fresh(r)
  /\ Show(r)
  /\ UNCHANGED <<header, vmcb, live, hw, valid, synchronized, clean, proc_id, mode, dumping>>

\* nvc_view_vcpu_registers2.
View2(r) ==
  /\ HostCalls("view2")
  /\ SyncFirst => Fresh(r)
  /\ Show(r)
  /\ UNCHANGED <<header, vmcb, live, hw, valid, synchronized, clean, proc_id, mode, dumping>>

Next ==
  \/ \E p \in Procs : Enter(p)
  \/ \E r \in Regs, v \in Values : GuestWrite(r, v) \/ Emulate(r, v) \/ Edit2(r, v)
  \/ Exit
  \/ \E U \in UnitsOf : \E new \in [U -> Values] : Edit(U, new)
  \/ Dump \/ DumpDone
  \/ \E r \in Regs : View(r) \/ View2(r)

Spec == Init /\ [][Next]_vars

----------------------------------------------------------------------------
(* Properties.                                                              *)

\* The copy of a register that is current while the vCPU is not in guest mode.
Current(r) == IF Group(r) \in valid THEN vmcb[r] ELSE header[r]

\* The register file the host and the guest believe in.
RegisterFile == INSTANCE CvmRegisterFile
  WITH regs <- [r \in Regs |-> IF mode = "guest" THEN live[r] ELSE Current(r)],
       running <- (mode = "guest")
\* For nvc_svm_switch_to_guest_vcpu, the dump and the edit and view calls: the
\* world switches, validity bits, synchronization and clean bits together
\* behave like one value per register.
RegistersImplemented == RegisterFile!Spec

\* For state_cache.synchronized: while it is set and the vCPU is not running,
\* every valid register in the vCPU structure has the value of the VMCB.
SynchronizedIsFresh ==
  (synchronized /\ mode = "host") => \A r \in Regs : Group(r) \in valid => header[r] = vmcb[r]

\* For the VMCB clean bits: a vmrun loads every register as the VMCB has it,
\* whatever the processor kept.
VmrunLoadsVmcb ==
  [][(\E p \in Procs : Enter(p)) \/ (\E r \in Regs, v \in Values : Emulate(r, v))
       => \A r \in Regs : InVmcb(r) => live'[r] = vmcb'[r]]_vars

----------------------------------------------------------------------------
(* The inductive invariant of the proofs and the uses it holds for.         *)

\* Hosts that do not call while the vCPU runs, synchronize before calls that
\* never synchronize, and do not set rsp by name; guests without the registers
\* whose handling is at fault.
SoundUse ==
  /\ ~Concurrent /\ SyncFirst
  /\ Regs \cap {"cr4", "kgs", "tsc"} = {}
  /\ "rsp" \in Regs => "edit2" \notin Interface

\* Not in guest mode, the copies that the flags declare equal are equal.
Coherent ==
  /\ dumping => mode = "host"
  /\ mode = "guest" => \A r \in Regs : Group(r) \in valid \cup {"none"}
  /\ mode = "host" =>
       /\ clean # {} => proc_id \in Procs
       /\ \A r \in Regs : Area(r) \in clean => hw[proc_id][r] = vmcb[r]
       /\ \A r \in Regs : Group(r) \in valid /\ (synchronized \/ dumping \/ r \in SavedAtSwitch)
                            => header[r] = vmcb[r]
============================================================================
