------------------------------ MODULE SvmExits ------------------------------
(***************************************************************************)
(* The VM-Exits of the subverted host on AMD-V, and of the guests it       *)
(* nests.  One processor: an exit handler runs with GIF clear, so each     *)
(* exit with its handler is one step.                                      *)
(*                                                                         *)
(* The processor may keep the VMCB it last ran: the exit handler marks all *)
(* of it clean and forbids TLB flushes, and each handler that writes the   *)
(* VMCB must unmark what it wrote, and flush what it made obsolete.        *)
(*                                                                         *)
(* Values that the host only passes through (general registers, MSRs that  *)
(* are not cached, results of cpuid) are left out.                         *)
(***************************************************************************)
EXTENDS NestedVcpu

CONSTANT
  Nesting  \* options.nested_virtualization

ASSUME NestingAssumption == Nesting \in BOOLEAN

Stores == {"sidt", "sgdt", "sldt", "str"}  \* the instructions of NPIEP

\* Groups of the VMCB with a clean bit that the handlers of the host may write.
Groups == {"interception", "npt", "control_reg", "debug_reg", "idt_gdt", "segment_reg", "cr2"}

VARIABLES
  phase,      \* "guest", "handled", "wait_for_sipi", or "off": subversion is undone
  clean,      \* vmcb_clean_bits of the host's VMCB
  stale,      \* groups that were written since the processor last loaded the VMCB
  flush,      \* tlb_control
  owed,       \* history: translations that the exit made obsolete
  umip,       \* CR4.UMIP of the host
  npiep,      \* mshvcpu.npiep_config: instructions that user mode may not use
  list1,      \* those of them that are intercepted
  hcr3,       \* the page table of the hypervisor: "system", or a "process"'s
  restarted,  \* history: INIT has reset CR4 since these interceptions were configured
  unguarded,  \* history: NPIEP was asked for sldt or str without sgdt
  svme, gif, r_init,  \* nested_hvm
  pending,    \* nested_hvm.pending_db, pending_mc, pending_nmi and pending_init
  sipi_sent   \* bit noir_svm_sipi_sent of global_state

host_vmcb == <<clean, stale, flush, owed>>
npiep_vars == <<umip, npiep, list1, hcr3, restarted, unguarded>>
nested_hvm == <<svme, gif, r_init, pending>>
host_vars == <<phase, host_vmcb, npiep_vars, nested_hvm, sipi_sent>>
vars == <<host_vars, nested_vars>>

\* nvc_svm_setup_control_area leaves nothing clean; nested_hvm is zeroed.
Init ==
  /\ NestedInit
  /\ phase = "guest"
  /\ clean = {} /\ stale = {} /\ flush = "nothing" /\ owed = "nothing"
  /\ umip \in BOOLEAN /\ npiep = {} /\ list1 = {} /\ hcr3 = "system"
  /\ restarted = FALSE /\ unguarded = FALSE
  /\ svme = FALSE /\ gif = FALSE /\ r_init = FALSE /\ pending = {}
  /\ sipi_sent = FALSE

Flushes == {"nothing", "non_global", "guest"}
Covers(f, o) == o = "nothing" \/ f = "guest" \/ f = o

\* The exit handler of the host, around a handler that writes the groups `wrote',
\* unmarks the groups `unmarked', and asks for a flush.
Handle(wrote, unmarked, tlb_control) ==
  /\ phase = "guest" /\ world = "L1"
  /\ stale' = wrote
  /\ clean' = Groups \ unmarked
  /\ flush' = tlb_control
  /\ phase' = "handled"

\* An exit that writes no group of the VMCB: it advances rip, or injects an event.
Plain == Handle({}, {}, "nothing") /\ owed' = "nothing"

\* vmrun at the end of the exit.
Resume ==
  /\ phase = "handled"
  /\ stale' = {} /\ flush' = "nothing" /\ owed' = "nothing"
  /\ phase' = "guest"
  /\ UNCHANGED <<clean, npiep_vars, nested_hvm, sipi_sent, nested_vars>>

-----------------------------------------------------------------------------
(* Control registers, NPIEP and paging.                                    *)

\* nvc_svm_reconfigure_npiep_interceptions.
Reconfigure(u, n) == IF u THEN {} ELSE n

\* Bits of CR4 whose change invalidates the TLB.
FlushingBits == {"pae_pse_pge", "pke_set", "pcide_reset"}

Cr4Write ==
  \E toggled \in SUBSET ({"umip", "other"} \cup FlushingBits) :
    LET f == IF toggled \cap FlushingBits # {} THEN "guest" ELSE "nothing"
        wrote == IF toggled = {} THEN {}
                 ELSE {"control_reg"} \cup IF "umip" \in toggled THEN {"interception"} ELSE {}
    IN /\ Handle(wrote, wrote, f)
       /\ owed' = f
       /\ IF "umip" \in toggled
            THEN umip' = ~ umip /\ list1' = Reconfigure(~ umip, npiep) /\ restarted' = FALSE
            ELSE UNCHANGED <<umip, list1, restarted>>
       /\ UNCHANGED <<npiep, hcr3, unguarded, nested_hvm, sipi_sent, nested_vars>>

\* The handlers of these instructions write their operand through the page table
\* of the process if it is user mode's, and go back if NPIEP is on for `guard'.
Store(instruction, guard) ==
  /\ instruction \in list1
  /\ Plain
  /\ \/ UNCHANGED hcr3
     \/ hcr3' = IF guard \in npiep THEN "system" ELSE "process"
  /\ UNCHANGED <<umip, npiep, list1, restarted, unguarded, nested_hvm, sipi_sent, nested_vars>>

StoreTable == \E i \in {"sidt", "sgdt"} : Store(i, i)
StoreSelector == \E i \in {"sldt", "str"} : Store(i, "sgdt")

\* nvc_svm_pf_exception_handler: at the system call the kernel's page table is
\* loaded, other faults are injected with CR2.
PageFault ==
  /\ \/ Handle({"control_reg"}, {"control_reg"}, "non_global") /\ owed' = "non_global"
     \/ Handle({"cr2"}, {"cr2"}, "nothing") /\ owed' = "nothing"
  /\ UNCHANGED <<npiep_vars, nested_hvm, sipi_sent, nested_vars>>

\* nvc_svm_nested_pf_handler: an instruction fetch switches between the nested
\* page tables with and without hooks; other accesses are skipped.
NestedPageFault ==
  /\ \/ Handle({"npt"}, {"npt"}, "guest") /\ owed' = "guest"
     \/ Plain
  /\ UNCHANGED <<npiep_vars, nested_hvm, sipi_sent, nested_vars>>

-----------------------------------------------------------------------------
(* Exceptions and INIT.                                                    *)

\* #DB: while GIF is clear single steps are held pending.
DebugException ==
  /\ Plain
  /\ \/ ~ gif /\ svme /\ pending' = pending \cup {"db"}
     \/ UNCHANGED pending
  /\ UNCHANGED <<svme, gif, r_init, npiep_vars, sipi_sent, nested_vars>>

MachineCheck ==
  /\ Plain
  /\ pending' = IF gif THEN pending ELSE pending \cup {"mc"}
  /\ UNCHANGED <<svme, gif, r_init, npiep_vars, sipi_sent, nested_vars>>

Nmi ==
  /\ Plain
  /\ pending' = pending \cup {"nmi"}
  /\ UNCHANGED <<svme, gif, r_init, npiep_vars, sipi_sent, nested_vars>>

\* The other exceptions are injected again; #UD is ignored.
OtherException == Plain /\ UNCHANGED <<npiep_vars, nested_hvm, sipi_sent, nested_vars>>

\* nvc_svm_sx_exception_handler: INIT arrives as #SX.  With GIF set it is pended.
InitPended ==
  /\ gif /\ Plain
  /\ pending' = pending \cup {"init"}
  /\ UNCHANGED <<svme, gif, r_init, npiep_vars, sipi_sent, nested_vars>>

InitRedirected ==
  /\ ~ gif /\ r_init /\ Plain
  /\ UNCHANGED <<npiep_vars, nested_hvm, sipi_sent, nested_vars>>

\* Mutants: the LBRs are reset as well; the debug registers stay marked as clean.
ResetLbr == {"control_reg", "debug_reg", "idt_gdt", "segment_reg", "cr2", "lbr"}
UnmarkedButDebug == {"control_reg", "idt_gdt", "segment_reg", "cr2"}

\* nvc_svm_emulate_init_signal: what INIT resets of the VMCB, and what it unmarks.
Reset == {"control_reg", "debug_reg", "idt_gdt", "segment_reg", "cr2"}
Unmarked == {"control_reg", "debug_reg", "idt_gdt", "segment_reg", "cr2"}

InitEmulated ==
  /\ phase = "guest" /\ world = "L1"
  /\ ~ gif /\ ~ r_init
  /\ stale' = Reset /\ clean' = Groups \ Unmarked
  /\ flush' = "guest" /\ owed' = "guest"
  /\ umip' = FALSE /\ restarted' = TRUE
  /\ phase' = "wait_for_sipi"
  /\ UNCHANGED <<npiep, list1, hcr3, unguarded, nested_hvm, sipi_sent, nested_vars>>

\* The handler spins until a SIPI was sent, then sets CS and rip.
StartUp ==
  /\ phase = "wait_for_sipi" /\ sipi_sent
  /\ sipi_sent' = FALSE
  /\ stale' = stale \cup {"segment_reg"}
  /\ phase' = "handled"
  /\ UNCHANGED <<clean, flush, owed, npiep_vars, nested_hvm, nested_vars>>

\* Another processor writes its interrupt command register (nvc_svm_nested_pf_handler
\* there).  A SIPI is kept even if nobody waits for it.
SendSipi ==
  /\ phase # "off"
  /\ sipi_sent' = TRUE
  /\ UNCHANGED <<phase, host_vmcb, npiep_vars, nested_hvm, nested_vars>>

-----------------------------------------------------------------------------
(* cpuid, MSRs and hypercalls.                                             *)

Cpuid == Plain /\ UNCHANGED <<npiep_vars, nested_hvm, sipi_sent, nested_vars>>

Rdmsr == Plain /\ UNCHANGED <<npiep_vars, nested_hvm, sipi_sent, nested_vars>>

\* EFER.SVME stays set in the VMCB: the host's own view of it is nested_hvm.svme.
WrmsrEfer ==
  \E s \in BOOLEAN :
    /\ IF s /\ ~ Nesting
         THEN Plain /\ UNCHANGED svme
         ELSE /\ Handle({"control_reg"}, {"control_reg"}, "nothing") /\ owed' = "nothing"
              /\ svme' = s
    /\ UNCHANGED <<gif, r_init, pending, npiep_vars, sipi_sent, nested_vars>>

WrmsrVmcr ==
  /\ Plain
  /\ r_init' \in BOOLEAN
  /\ UNCHANGED <<svme, gif, pending, npiep_vars, sipi_sent, nested_vars>>

\* HV_X64_MSR_NPIEP_CONFIG, through nvc_mshv_wrmsr_handler.
WrmsrNpiep ==
  /\ Handle({"interception"}, {"interception"}, "nothing") /\ owed' = "nothing"
  /\ npiep' \in SUBSET Stores
  /\ list1' = Reconfigure(umip, npiep')
  /\ restarted' = FALSE
  /\ unguarded' = (unguarded \/ (npiep' \cap {"sldt", "str"} # {} /\ "sgdt" \notin npiep'))
  /\ UNCHANGED <<umip, hcr3, nested_hvm, sipi_sent, nested_vars>>

\* MSRs whose value is not cached: HSAVE_PA, LSTAR and the other synthetic ones.
WrmsrOther == Plain /\ UNCHANGED <<npiep_vars, nested_hvm, sipi_sent, nested_vars>>

\* noir_svm_callexit from the hypervisor's own image: back to the caller, unvirtualized.
CallExit ==
  /\ phase = "guest" /\ world = "L1"
  /\ phase' = "off"
  /\ UNCHANGED <<host_vmcb, npiep_vars, nested_hvm, sipi_sent, nested_vars>>

\* noir_svm_call_flush_tlb makes the processor reload the nested paging group.
VmmcallFlushTlb ==
  /\ Handle({}, {"npt"}, "nothing") /\ owed' = "nothing"
  /\ UNCHANGED <<npiep_vars, nested_hvm, sipi_sent, nested_vars>>

\* The calls for CVMs and NSV, and calls that are refused with #UD.
VmmcallOther == Plain /\ UNCHANGED <<npiep_vars, nested_hvm, sipi_sent, nested_vars>>

-----------------------------------------------------------------------------
(* SVM instructions of the host.  Without SVME they are #UD; an unaligned  *)
(* VMCB is #GP.                                                            *)

SvmInstructionFaults ==
  /\ Plain
  /\ UNCHANGED <<npiep_vars, nested_hvm, sipi_sent, nested_vars>>

Vmrun(x) ==
  /\ phase = "guest" /\ world = "L1" /\ svme
  /\ EnterNested(x)
  /\ clean' = Groups /\ flush' = "nothing"
  /\ UNCHANGED <<phase, stale, owed, npiep_vars, nested_hvm, sipi_sent>>

Vmload(x) == svme /\ Plain /\ LoadHidden(x) /\ UNCHANGED <<npiep_vars, nested_hvm, sipi_sent>>
Vmsave(x) == svme /\ Plain /\ SaveHidden(x) /\ UNCHANGED <<npiep_vars, nested_hvm, sipi_sent>>

Stgi ==
  /\ svme /\ Plain
  /\ gif' = TRUE
  /\ UNCHANGED <<svme, r_init, pending, npiep_vars, sipi_sent, nested_vars>>

Clgi ==
  /\ svme /\ Plain
  /\ gif' = FALSE
  /\ UNCHANGED <<svme, r_init, pending, npiep_vars, sipi_sent, nested_vars>>

\* invlpga: the ASID is that of L2 plus one.  skinit is always #UD.
Invlpga == svme /\ Plain /\ UNCHANGED <<npiep_vars, nested_hvm, sipi_sent, nested_vars>>

-----------------------------------------------------------------------------
Nested ==
  /\ \/ phase = "guest" /\ world = "L1"
        /\ (L1ChangesHidden \/ \E x \in Vmcbs : L1WritesVmcb(x) \/ L1MarksClean(x))
     \/ L2Runs \/ NestedExit
  /\ UNCHANGED host_vars

SvmInstruction ==
  \/ SvmInstructionFaults \/ Stgi \/ Clgi \/ Invlpga
  \/ \E x \in Vmcbs : Vmrun(x) \/ Vmload(x) \/ Vmsave(x)

Exception == DebugException \/ MachineCheck \/ Nmi \/ OtherException
InitSignal == InitPended \/ InitRedirected \/ InitEmulated \/ StartUp
Msr == Rdmsr \/ WrmsrEfer \/ WrmsrVmcr \/ WrmsrNpiep \/ WrmsrOther
Vmmcall == CallExit \/ VmmcallFlushTlb \/ VmmcallOther

Next ==
  \/ Resume \/ Cr4Write \/ StoreTable \/ StoreSelector \/ PageFault \/ NestedPageFault
  \/ Exception \/ InitSignal \/ SendSipi \/ Cpuid \/ Msr \/ Vmmcall
  \/ SvmInstruction \/ Nested

Spec == Init /\ [][Next]_vars

-----------------------------------------------------------------------------
(* Properties.                                                             *)

TypeOK ==
  /\ NestedTypeOK
  /\ phase \in {"guest", "handled", "wait_for_sipi", "off"}
  /\ clean \subseteq Groups /\ stale \subseteq Groups
  /\ flush \in Flushes /\ owed \in Flushes
  /\ umip \in BOOLEAN /\ npiep \subseteq Stores /\ list1 \subseteq Stores
  /\ hcr3 \in {"system", "process"} /\ restarted \in BOOLEAN /\ unguarded \in BOOLEAN
  /\ svme \in BOOLEAN /\ gif \in BOOLEAN /\ r_init \in BOOLEAN
  /\ pending \subseteq {"db", "mc", "nmi", "init"} /\ sipi_sent \in BOOLEAN

\* When the host resumes, the processor loads every group that a handler wrote, no
\* translation that the exit made obsolete survives in the TLB, and sidt and the like are
\* intercepted as NPIEP and UMIP ask: they are configured from two exits, the write of
\* CR4 and that of the MSR; INIT resets CR4 behind their back.  The hypervisor is on
\* its own page table, unless NPIEP was on for sldt or str but off for sgdt, for which
\* the handlers of the two look.
HostResumesAsWritten ==
  phase = "handled" =>
    /\ stale \cap clean = {}
    /\ Covers(flush, owed)
    /\ ~ restarted => list1 = {i \in npiep : ~ umip}
    /\ ~ unguarded => hcr3 = "system"
=============================================================================
