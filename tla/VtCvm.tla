-------------------------------- MODULE VtCvm --------------------------------
(***************************************************************************)
(* The vCPUs of a CVM in the VT core.  A hypercall of the host makes the   *)
(* guest's VMCS the current one of the processor (switch_to_guest), and    *)
(* the return from the exit handler then enters the guest.  Exits of the   *)
(* guest are carried out on its VMCS, or switch back to the host's.        *)
(*                                                                         *)
(* A register has two copies, the vCPU structure (header) and what the     *)
(* guest runs with (the VMCS, its MSR list, or the processor itself).      *)
(* Their values are abstracted to whether they are what the host or the    *)
(* guest has written last.                                                 *)
(***************************************************************************)
EXTENDS VtGuestPaging

CONSTANTS
  Procs, Vcpus,
  Regs,       \* the registers considered
  Top,        \* the highest priority of an interrupt
  Pinned,     \* a vCPU is run where it was created
  Host,       \* the host's VMCS, and the idle vCPU
  NoProc      \* a vCPU that is not created or has not run

\* One register per treatment: rip (with rflags), rsp, cr0 (with the control
\* registers, dr7, descriptor tables and sysenter MSRs), cs (with the data segments),
\* kgs (Kernel-GS-Base), efer (with pat), star (with the system-call MSRs), and dr0
\* (with dr1-dr6, cr2, xcr0, the extended state and the other GPRs).
Registers == {"rip", "rsp", "cr0", "cs", "kgs", "efer", "star", "dr0"}

ASSUME VtCvmAssumption ==
  /\ Regs \subseteq Registers /\ Top \in Nat /\ Pinned \in BOOLEAN
  /\ Host \notin Vcpus /\ NoProc \notin Procs

VARIABLES
  current,      \* current[p]: current VMCS of the processor
  custom_vcpu,  \* custom_vcpu[p], in the stack of the processor
  initial_vmcs, \* initial_vmcs[p]: to be entered by vmlaunch
  entered,      \* processors that are not in the hypervisor
  lost,         \* processors stopped by an exit of no known vCPU
  home,         \* home[v]: the processor whose stack and tables the VMCS has as host state
  proc_id,      \* proc_id[v]: where it ran last
  launched,     \* vCPUs whose VMCS is launched
  valid,        \* valid[v]: groups whose bit is set in state_cache
  fresh_header, fresh_vmcs,  \* registers of which this copy is what was written last
  event,        \* event[v]: header.injected_event
  cr8,          \* cr8[v]: header.crs.cr8
  if,           \* if[v]: RFLAGS.IF of the guest
  nmi_blocked,  \* nmi_blocked[v]: the guest is handling an NMI
  windows,      \* windows[v]: windows that exit
  injection,    \* injection[v]: interruption information for the entry
  took          \* history: what was wrong with events that guests took

proc_vars == <<current, custom_vcpu, initial_vmcs, entered, lost>>
place_vars == <<home, proc_id, launched>>
reg_vars == <<valid, fresh_header, fresh_vmcs>>
event_vars == <<event, cr8, if, nmi_blocked, windows, injection>>
vars == <<proc_vars, place_vars, reg_vars, event_vars, took, guest_paging>>

Group(r) == CASE r \in {"rip", "rsp"} -> "gpr"
              [] r = "cr0" -> "cr" [] r = "cs" -> "sr" [] r = "kgs" -> "fg"
              [] r = "efer" -> "ef" [] r = "star" -> "sc" [] r = "dr0" -> "none"
Groups == {"gpr", "cr", "sr", "fg", "ef", "sc"}

NoEvent == [valid |-> FALSE, type |-> "exc", priority |-> 0, ec_valid |-> FALSE]
Events ==
  {NoEvent} \cup [valid : {TRUE}, type : {"ext"}, priority : 1 .. Top, ec_valid : BOOLEAN]
            \cup [valid : {TRUE}, type : {"nmi"}, priority : {0}, ec_valid : {FALSE}]
            \cup [valid : {TRUE}, type : {"exc"}, priority : {0}, ec_valid : {FALSE}]
            \cup [valid : {FALSE}, type : {"ext"}, priority : {Top}, ec_valid : {FALSE}]
NoInjection == [type |-> "none", ec |-> FALSE]

Init ==
  /\ GuestPagingInit
  /\ current = [p \in Procs |-> Host] /\ custom_vcpu = [p \in Procs |-> Host]
  /\ initial_vmcs = [p \in Procs |-> FALSE] /\ entered = Procs /\ lost = {}
  /\ home = [v \in Vcpus |-> NoProc] /\ proc_id = [v \in Vcpus |-> NoProc] /\ launched = {}
  /\ valid = [v \in Vcpus |-> {}]
  /\ fresh_header = [v \in Vcpus |-> Regs] /\ fresh_vmcs = [v \in Vcpus |-> {}]
  /\ event = [v \in Vcpus |-> NoEvent] /\ cr8 = [v \in Vcpus |-> 0]
  /\ if = [v \in Vcpus |-> FALSE] /\ nmi_blocked = [v \in Vcpus |-> FALSE]
  /\ windows = [v \in Vcpus |-> {}] /\ injection = [v \in Vcpus |-> NoInjection]
  /\ took = {}

Running(v) == \E p \in Procs : current[p] = v
HostRuns(p) == p \in entered /\ current[p] = Host
GuestRuns(p, v) == p \in entered /\ current[p] = v /\ home[v] = p

-----------------------------------------------------------------------------
(* The host.                                                               *)

\* nvc_vtc_create_vcpu with the hypercall that initializes the VMCS.
CreateVcpu(p, v) ==
  /\ HostRuns(p) /\ home[v] = NoProc
  /\ home' = [home EXCEPT ![v] = p]
  /\ UNCHANGED <<proc_vars, proc_id, launched, reg_vars, event_vars, took, guest_paging>>

\* What the host edits at a time: whole groups, and rip and rsp of theirs.
Units == {{"rip"}, {"rsp"}} \cup {{r \in Regs : Group(r) = g} : g \in (Groups \ {"gpr"}) \cup {"none"}}

\* nvc_edit_vcpu_registers.
Edit(v, R) ==
  /\ home[v] # NoProc /\ ~ Running(v) /\ R # {} /\ R \subseteq Regs
  /\ fresh_header' = [fresh_header EXCEPT ![v] = @ \cup R]
  /\ fresh_vmcs' = [fresh_vmcs EXCEPT ![v] = @ \ R]
  /\ valid' = [valid EXCEPT ![v] = @ \ {Group(r) : r \in R}]
  /\ if' \in IF "rip" \in R THEN {[if EXCEPT ![v] = b] : b \in BOOLEAN} ELSE {if}
  /\ UNCHANGED <<proc_vars, place_vars, event, cr8, nmi_blocked, windows, injection, took, guest_paging>>

\* nvc_vt_dump_vcpu_state of valid groups: it reads the current VMCS, which is the
\* host's; only what is in the guest's MSR list is the guest's.  EFER and PAT are not
\* dumped, and no one sets state_cache.synchronized.
Dump(p, v) ==
  LET read == {r \in Regs : Group(r) \in valid[v] \ {"gpr", "ef"}}
  IN /\ HostRuns(p) /\ home[v] # NoProc /\ ~ Running(v)
     /\ fresh_header' = [fresh_header EXCEPT ![v] = (@ \ read) \cup (read \cap {"kgs", "star"} \cap fresh_vmcs[v])]
     /\ UNCHANGED <<proc_vars, place_vars, valid, fresh_vmcs, event_vars, took, guest_paging>>

\* nvc_set_event_injection, and edits of CR8.
SetEvent(v, e) ==
  /\ home[v] # NoProc /\ ~ Running(v) /\ e # event[v]
  /\ event' = [event EXCEPT ![v] = e]
  /\ UNCHANGED <<proc_vars, place_vars, reg_vars, cr8, if, nmi_blocked, windows, injection, took, guest_paging>>

EditCr8(v, priority) ==
  /\ home[v] # NoProc /\ ~ Running(v) /\ priority # cr8[v]
  /\ cr8' = [cr8 EXCEPT ![v] = priority]
  /\ UNCHANGED <<proc_vars, place_vars, reg_vars, event, if, nmi_blocked, windows, injection, took, guest_paging>>

\* Mutant: CR8 is not looked at.
AboveAny(v) == TRUE

Above(v) == event[v].priority > cr8[v]
External(ec) == [type |-> "ext", ec |-> ec]
Nmi == [type |-> "nmi", ec |-> FALSE]
OpenWindow(v, w) == windows' = [windows EXCEPT ![v] = @ \cup {w}] /\ UNCHANGED injection
Inject(v, i) == injection' = [injection EXCEPT ![v] = i] /\ UNCHANGED windows

\* The event injection of nvc_vt_switch_to_guest_vcpu.  The test of RFLAGS.IF has its
\* branches swapped, and the interrupt is given an error code.
InjectAtSwitch(v) ==
  LET e == event[v] IN
  \/ ~ e.valid /\ Inject(v, NoInjection)
  \/ e.valid /\ e.type = "exc" /\ Inject(v, [type |-> "exc", ec |-> FALSE])
  \/ /\ e.valid /\ e.type = "ext" /\ Above(v)
     /\ IF ~ if[v] THEN Inject(v, External(TRUE)) ELSE OpenWindow(v, "interrupt")
  \/ e.valid /\ e.type = "ext" /\ ~ Above(v) /\ UNCHANGED <<windows, injection>>
  \/ /\ e.valid /\ e.type = "nmi"
     /\ IF ~ nmi_blocked[v] THEN Inject(v, Nmi) ELSE OpenWindow(v, "nmi")

\* What nvc_vt_switch_to_guest_vcpu loads from the header: what is not cached always,
\* Kernel-GS-Base never.
Loaded(v) == {r \in Regs : Group(r) \notin valid[v]} \ {"kgs"}

\* Run: nvc_vtc_run_vcpu and nvc_vt_switch_to_guest_vcpu.  No lock keeps the vCPU
\* from being run by two threads.
SwitchToGuest(p, v) ==
  /\ HostRuns(p) /\ home[v] # NoProc /\ (Pinned => home[v] = p)
  /\ IF proc_id[v] # p
       THEN /\ proc_id' = [proc_id EXCEPT ![v] = p]
            /\ launched' = launched \ {v}          \* vmclear
            /\ initial_vmcs' = [initial_vmcs EXCEPT ![p] = TRUE]
       ELSE UNCHANGED <<proc_id, launched, initial_vmcs>>
  /\ custom_vcpu' = [custom_vcpu EXCEPT ![p] = v]
  /\ current' = [current EXCEPT ![p] = v]
  /\ fresh_vmcs' = [fresh_vmcs EXCEPT ![v] = (@ \ Loaded(v)) \cup (Loaded(v) \cap fresh_header[v])]
  /\ valid' = [valid EXCEPT ![v] = Groups]
  /\ InjectAtSwitch(v)
  /\ entered' = entered \ {p}
  /\ UNCHANGED <<lost, home, fresh_header, event, cr8, if, nmi_blocked, took, guest_paging>>

-----------------------------------------------------------------------------
(* Entry, and return to the host.                                          *)

\* Mutant: rip is left in the VMCS.
SavedNoRip == {"rsp", "dr0"}

\* What nvc_vt_switch_to_host_vcpu saves.
Saved == {"rip", "rsp", "dr0"}

\* Mutant: the processor's stack still names the vCPU.
StillNamed(v) == v

\* The idle vCPU takes the place of the one that ran.
Replacement(v) == Host

\* nvc_vt_switch_to_host_vcpu, after some registers were saved by the handler.
SwitchToHost(p, v, saved) ==
  LET S == (Saved \cup saved) \cap Regs
  IN /\ fresh_header' = [fresh_header EXCEPT ![v] = (@ \ S) \cup (S \cap fresh_vmcs[v])]
     /\ custom_vcpu' = [custom_vcpu EXCEPT ![p] = Replacement(v)]
     /\ current' = [current EXCEPT ![p] = Host]
     /\ entered' = entered \cup {p}
     /\ UNCHANGED <<lost, home, proc_id, valid, fresh_vmcs>>

\* What is wrong with an interrupt or NMI that the guest takes.
Wrongs(v) ==
  IF injection[v].type = "ext"
    THEN {w \in {"masked", "low", "stale"} :
            \/ w = "masked" /\ ~ if[v]
            \/ w = "low" /\ event[v].priority <= cr8[v]
            \/ w = "stale" /\ ~ event[v].valid}
    ELSE {w \in {"nested"} : injection[v].type = "nmi" /\ nmi_blocked[v]}

LaunchMatches(p, v) == initial_vmcs[p] = (v \notin launched)

\* vmlaunch or vmresume succeeds; the event is delivered, with RFLAGS.IF cleared.
Enter(p, v) ==
  /\ p \notin entered /\ current[p] = v
  /\ LaunchMatches(p, v) /\ ~ injection[v].ec
  /\ initial_vmcs' = [initial_vmcs EXCEPT ![p] = FALSE]
  /\ launched' = launched \cup {v}
  /\ entered' = entered \cup {p}
  /\ took' = took \cup Wrongs(v)
  /\ if' = [if EXCEPT ![v] = @ /\ injection[v].type = "none"]
  /\ nmi_blocked' = [nmi_blocked EXCEPT ![v] = @ \/ injection[v].type = "nmi"]
  /\ injection' = [injection EXCEPT ![v] = NoInjection]
  /\ UNCHANGED <<current, custom_vcpu, lost, home, proc_id, reg_vars, event, cr8, windows, guest_paging>>

\* It fails: nvc_vt_resume_failure returns to the host.
EntryFails(p, v) ==
  /\ p \notin entered /\ current[p] = v
  /\ ~ LaunchMatches(p, v) \/ injection[v].ec
  /\ SwitchToHost(p, v, {})
  /\ initial_vmcs' = [initial_vmcs EXCEPT ![p] = FALSE]
  /\ UNCHANGED <<launched, event_vars, took, guest_paging>>

\* The guest state is invalid, or an MSR of the list: an exit, whose handler reads the
\* state to no effect and returns to the host.  An interrupt without error code is
\* injected between two exits, which leave the state valid.  A VMCS that was not
\* launched stays so, and is entered by vmresume from now on.
InvalidStateExit(p, v) ==
  /\ p \notin entered /\ current[p] = v /\ home[v] = p
  /\ LaunchMatches(p, v) /\ ~ injection[v].ec /\ injection[v].type # "ext"
  /\ SwitchToHost(p, v, {})
  /\ initial_vmcs' = [initial_vmcs EXCEPT ![p] = FALSE]
  /\ UNCHANGED <<launched, event_vars, took, guest_paging>>

-----------------------------------------------------------------------------
(* The guest and its exits.                                                *)

Written(v, r) ==
  /\ fresh_vmcs' = [fresh_vmcs EXCEPT ![v] = @ \cup {r}]
  /\ fresh_header' = [fresh_header EXCEPT ![v] = @ \ {r}]

\* The guest writes a register.
GuestWrites(p, v, r) ==
  /\ GuestRuns(p, v) /\ r \in Regs
  /\ Written(v, r)
  /\ if' \in IF r = "rip" THEN {[if EXCEPT ![v] = b] : b \in BOOLEAN} ELSE {if}
  /\ nmi_blocked' \in {nmi_blocked, [nmi_blocked EXCEPT ![v] = FALSE]}
  /\ UNCHANGED <<proc_vars, place_vars, valid, event, cr8, windows, injection, took, guest_paging>>

\* Back to the host: with no more than what the switch saves, or, for exits that the
\* user hypervisor handles, after nvc_vt_save_generic_cvexit_context.
Return(p, v) == SwitchToHost(p, v, {}) /\ UNCHANGED <<initial_vmcs, launched, event_vars>>
Deliver(p, v) == SwitchToHost(p, v, {"rip", "cs"}) /\ UNCHANGED <<initial_vmcs, launched, event_vars>>

Stay == UNCHANGED <<current, custom_vcpu, initial_vmcs, lost, place_vars, valid, event, cr8, if, nmi_blocked, windows>>
Reenter(p) == entered' = entered \ {p}
\* The handler does nothing: INIT and SIPI, instructions that it leaves where they are.
Pass(p) == Stay /\ Reenter(p) /\ UNCHANGED <<fresh_header, fresh_vmcs, injection>>
\* It emulates the instruction, which writes r, and skips it.
Emulate(p, v, r) ==
  /\ Stay /\ Reenter(p)
  /\ fresh_vmcs' = [fresh_vmcs EXCEPT ![v] = @ \cup ({"rip", r} \cap Regs)]
  /\ fresh_header' = [fresh_header EXCEPT ![v] = @ \ {"rip", r}]
  /\ UNCHANGED injection
\* It injects a fault.
Fault(p, v) ==
  /\ Stay /\ Reenter(p)
  /\ injection' = [injection EXCEPT ![v] = [type |-> "exc", ec |-> FALSE]]
  /\ UNCHANGED <<fresh_header, fresh_vmcs>>

\* Exceptions that the user hypervisor intercepts (a breakpoint of the hypervisor
\* follows), and NMIs and machine checks, which are injected to the host.
ExceptionExit(p, v) == Deliver(p, v) \/ Return(p, v)
\* External interrupts, triple faults, INIT and SIPI.
InterruptExit(p, v) == Return(p, v) \/ Deliver(p, v) \/ Pass(p)
\* Task switches, hlt, vmcall; cpuid unless it is emulated; invd.
InstructionExit(p, v) == Deliver(p, v) \/ Emulate(p, v, "rip")
\* VMX instructions: a #UD that the user hypervisor intercepts, or nothing.
VmxInstructionExit(p, v) == Deliver(p, v) \/ Pass(p)
\* CR3, which is delivered or written, for reads too; CR4.VMXE; clts and lmsw, which
\* are not skipped.
CrAccess(p, v) ==
  \/ Deliver(p, v) \/ Emulate(p, v, "cr0") \/ Fault(p, v) \/ Pass(p)
  \/ /\ Stay /\ Reenter(p) /\ "cr0" \in Regs /\ Written(v, "cr0") /\ UNCHANGED injection
IoExit(p, v) == Deliver(p, v)
\* MSRs are delivered, or fault.
MsrExit(p, v) == Deliver(p, v) \/ Fault(p, v)
\* Memory that is not mapped, and tables that are not well-formed.
MemoryExit(p, v) == Deliver(p, v) \/ Return(p, v)
\* xsetbv loads XCR0, or faults; the fault is delivered without context if the user
\* hypervisor does not intercept it.
XsetbvExit(p, v) == Emulate(p, v, "dr0") \/ Fault(p, v) \/ Return(p, v)

GuestExit(p, v) ==
  /\ GuestRuns(p, v)
  /\ \/ ExceptionExit(p, v) \/ InterruptExit(p, v) \/ InstructionExit(p, v) \/ VmxInstructionExit(p, v)
     \/ CrAccess(p, v) \/ IoExit(p, v) \/ MsrExit(p, v) \/ MemoryExit(p, v) \/ XsetbvExit(p, v)
  /\ UNCHANGED <<took, guest_paging>>

\* nvc_vt_interrupt_window_cvexit_handler, which leaves the window open as long as it
\* has something to inject.
InterruptWindow(p, v) ==
  /\ GuestRuns(p, v) /\ "interrupt" \in windows[v] /\ if[v]
  /\ IF event[v].valid /\ event[v].type = "ext" /\ Above(v)
       THEN /\ Inject(v, External(event[v].ec_valid)) /\ Reenter(p)
            /\ UNCHANGED <<current, custom_vcpu, lost, home, proc_id, reg_vars>>
       ELSE /\ windows' = [windows EXCEPT ![v] = @ \ {"interrupt"}] /\ UNCHANGED injection
            /\ \/ Reenter(p) /\ UNCHANGED <<current, custom_vcpu, lost, home, proc_id, reg_vars>>
               \/ SwitchToHost(p, v, {"rip", "cs"})
  /\ UNCHANGED <<initial_vmcs, launched, event, cr8, if, nmi_blocked, took, guest_paging>>

\* nvc_vt_nmi_window_cvexit_handler.
NmiWindow(p, v) ==
  /\ GuestRuns(p, v) /\ "nmi" \in windows[v] /\ ~ nmi_blocked[v]
  /\ IF event[v].valid /\ event[v].type = "nmi"
       THEN /\ Inject(v, Nmi) /\ Reenter(p)
            /\ UNCHANGED <<current, custom_vcpu, lost, home, proc_id, reg_vars>>
       ELSE /\ windows' = [windows EXCEPT ![v] = @ \ {"nmi"}] /\ UNCHANGED injection
            /\ \/ Reenter(p) /\ UNCHANGED <<current, custom_vcpu, lost, home, proc_id, reg_vars>>
               \/ SwitchToHost(p, v, {"rip", "cs"})
  /\ UNCHANGED <<initial_vmcs, launched, event, cr8, if, nmi_blocked, took, guest_paging>>

\* A write of CR8 in nvc_vt_cr_access_cvexit_handler, which does not ask whether the
\* event is valid.
WriteCr8(p, v, priority) ==
  /\ GuestRuns(p, v)
  /\ cr8' = [cr8 EXCEPT ![v] = priority]
  /\ IF priority < event[v].priority /\ event[v].type = "ext"
       THEN IF if[v] THEN Inject(v, External(event[v].ec_valid)) ELSE OpenWindow(v, "interrupt")
       ELSE UNCHANGED <<windows, injection>>
  /\ Reenter(p)
  /\ UNCHANGED <<current, custom_vcpu, initial_vmcs, lost, place_vars, reg_vars, event, if, nmi_blocked, took, guest_paging>>

\* nvc_vt_exit_handler runs on the stack of another processor and knows no such vCPU.
ExitElsewhere(p, v) ==
  /\ p \in entered /\ current[p] = v /\ home[v] # p
  /\ entered' = entered \ {p} /\ lost' = lost \cup {p}
  /\ UNCHANGED <<current, custom_vcpu, initial_vmcs, place_vars, reg_vars, event_vars, took, guest_paging>>

Next ==
  \/ SetMapping /\ UNCHANGED <<proc_vars, place_vars, reg_vars, event_vars, took>>
  \/ \E v \in Vcpus :
       \/ \E R \in Units : Edit(v, R)
       \/ \E e \in Events : SetEvent(v, e)
       \/ \E priority \in 0 .. Top : EditCr8(v, priority)
       \/ \E p \in Procs \ lost :
            \/ CreateVcpu(p, v) \/ Dump(p, v) \/ SwitchToGuest(p, v)
            \/ Enter(p, v) \/ EntryFails(p, v) \/ InvalidStateExit(p, v)
            \/ GuestExit(p, v) \/ InterruptWindow(p, v) \/ NmiWindow(p, v)
            \/ ExitElsewhere(p, v)
            \/ \E r \in Registers : GuestWrites(p, v, r)
            \/ \E priority \in 0 .. Top : WriteCr8(p, v, priority)

Spec == Init /\ [][Next]_vars

-----------------------------------------------------------------------------
TypeOK ==
  /\ current \in [Procs -> Vcpus \cup {Host}] /\ custom_vcpu = current
  /\ initial_vmcs \in [Procs -> BOOLEAN] /\ entered \subseteq Procs /\ lost \subseteq Procs
  /\ home \in [Vcpus -> Procs \cup {NoProc}] /\ proc_id \in [Vcpus -> Procs \cup {NoProc}]
  /\ launched \subseteq Vcpus
  /\ valid \in [Vcpus -> SUBSET Groups]
  /\ fresh_header \in [Vcpus -> SUBSET Regs] /\ fresh_vmcs \in [Vcpus -> SUBSET Regs]
  /\ event \in [Vcpus -> Events]
  /\ cr8 \in [Vcpus -> 0 .. Top] /\ if \in [Vcpus -> BOOLEAN] /\ nmi_blocked \in [Vcpus -> BOOLEAN]
  /\ windows \in [Vcpus -> SUBSET {"interrupt", "nmi"}]
  /\ injection \in [Vcpus -> [type : {"none", "ext", "nmi", "exc"}, ec : BOOLEAN]]
  /\ took \subseteq {"masked", "low", "stale", "nested"}

\* A guest runs with what was written last, by the host or by itself, in every
\* register: through edits of part of a group, dumps that spoil the header, failed
\* entries and exits.  Kernel-GS-Base is excepted, which is never loaded.
GuestStateKept ==
  \A p \in Procs, v \in Vcpus : GuestRuns(p, v) => Regs \ {"kgs"} \subseteq fresh_vmcs[v]

\* A guest takes an external interrupt only with RFLAGS.IF set and of a priority above
\* its CR8, and an NMI only when it is not handling one, whichever of the switch, the
\* window and the write of CR8 injects it, and whatever has changed since a window was
\* opened.
InterruptsRespected == took \cap {"masked", "low", "nested"} = {}

\* A vCPU that is scheduled to another processor runs there: its exits are handled by
\* that processor.
MigrationWorks == lost = {}
=============================================================================
