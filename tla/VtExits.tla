------------------------------- MODULE VtExits -------------------------------
(***************************************************************************)
(* The VM-Exits of the subverted host on Intel VT-x.  One processor: an    *)
(* exit with its handler is one step, and so is an instruction of the      *)
(* system that does not exit.                                              *)
(*                                                                         *)
(* The processor may keep translations: through the extended page tables,  *)
(* and, when it tags them with VPIDs, those of the system's own paging.    *)
(* What a handler changes in the tables must be invalidated.               *)
(***************************************************************************)
EXTENDS NestedVmx, EptTables

CONSTANTS
  Touched,  \* pages that the system's instructions lie in and access
  Mtrrs,    \* what the variable MTRRs may hold
  Count,    \* their number
  Vpid      \* noir_vt_vpid_tagged_tlb

ASSUME VtExitsAssumption ==
  /\ Touched \subseteq Pages /\ Count \in Nat /\ Vpid \in BOOLEAN
  /\ Mtrrs \subseteq [type : Types, unit : {"off", "page", "region", "gigabyte"}, at : Nat]
  /\ \A m \in Mtrrs : (m.unit = "page" => m.at \in Pages) /\ (m.unit = "region" => m.at \in RegionSet)

VARIABLES
  phase,    \* "active", "wait_for_sipi", or "off": subversion is undone
  ept,      \* the extended page tables
  tlb,      \* translations through them that the processor keeps
  mtf, pending_hook_index,  \* the page whose access is stepped over
  abandoned,                \* history: INIT came during a step, which goes on elsewhere
  mtrr,     \* the processor's MTRRs
  cd,       \* CR0.CD
  mtrr_dirty,
  stopped,  \* history: a type for the gigabyte stopped at a split region
  pg, cr3,  \* CR0.PG; the page table of the process: the "user"'s or the "kernel"'s
  efer,     \* bits of the guest's EFER: "lme", "lma"
  ia32e,    \* entry control ia32e_mode_guest
  paged     \* kinds of translation kept of the system's own paging

step_vars == <<mtf, pending_hook_index, abandoned>>
ept_vars == <<ept, tlb, step_vars>>
mtrr_vars == <<mtrr, cd, mtrr_dirty, stopped>>
paging_vars == <<pg, cr3, efer, ia32e, paged>>
exit_vars == <<phase, ept_vars, mtrr_vars, paging_vars, nested_vmx>>

Defs == {[enabled |-> TRUE, fixed |-> TRUE, type |-> WB], [enabled |-> FALSE, fixed |-> FALSE, type |-> WB]}

ExitInit ==
  /\ NestedVmxInit
  /\ phase = "active"
  /\ mtrr = [var |-> [i \in 1 .. Count |-> Off], fixed |-> WB]
  /\ \E def \in Defs : ept = BuildTables(def, mtrr)
  /\ tlb = <<>> /\ mtf = FALSE /\ pending_hook_index = Min(Hooked) /\ abandoned = FALSE
  /\ cd = FALSE /\ mtrr_dirty = FALSE /\ stopped = FALSE
  /\ pg = TRUE /\ cr3 = "kernel" /\ efer = {"lme", "lma"} /\ ia32e = TRUE /\ paged = {}

\* The kind of the translations that the system's paging makes now.
Mode == IF pg THEN cr3 ELSE "unpaged"

-----------------------------------------------------------------------------
(* Hooks.                                                                  *)

Translation(p) == IF p \in DOMAIN tlb THEN tlb[p] ELSE Translate(ept, p)
May(p, access) == access \in Translation(p).perms

\* Where the next instruction lies: a step is of the instruction that caused it.
Runs(rip) == phase = "active" /\ (mtf /\ ~ abandoned => rip = pending_hook_index)

\* Mutant: the hooked page is mapped, but what the processor keeps stays.
NoInvept(t) == t

\* invept of a single context.
Invept(t) == <<>>

\* nvc_vt_monitor_trap_flag_handler, after an instruction that was stepped over.
MonitorTrap(kept) ==
  /\ ept' = [ept EXCEPT !.pt[pending_hook_index].perms = @ \ {"r", "w"},
                        !.pt[pending_hook_index].to = HookOf(pending_hook_index)]
  /\ tlb' = Invept(kept)
  /\ mtf' = FALSE

\* An instruction at page `rip' that accesses the pages `operands', with every access
\* permitted.  The processor keeps all translations.
Retire(rip, operands) ==
  LET used == {rip} \cup operands
      kept == [p \in used \cup DOMAIN tlb |-> Translation(p)]
  IN /\ Runs(rip)
     /\ May(rip, "x") /\ \A p \in operands : {"r", "w"} \subseteq Translation(p).perms
     /\ IF mtf THEN MonitorTrap(kept) ELSE tlb' = kept /\ UNCHANGED <<ept, mtf>>
     /\ paged' = IF Vpid THEN paged \cup {Mode} ELSE {}
     /\ UNCHANGED <<phase, pending_hook_index, abandoned, mtrr_vars, pg, cr3, efer, ia32e, nested_vmx>>

\* With the monitor trap flag an interrupt is delivered, and traps before its handler.
Interrupted ==
  /\ phase = "active" /\ mtf
  /\ MonitorTrap(tlb)
  /\ UNCHANGED <<phase, pending_hook_index, abandoned, mtrr_vars, paging_vars, nested_vmx>>

\* Mutant: the search for the hooked page ends one too far.
FoundNext(p) == p + 1

\* The binary search of the sorted hook_pages.
Found(p) == CHOOSE q \in Hooked : q = p

\* The violation drops the translation that caused it.
Forget(p) == tlb' = [q \in DOMAIN tlb \ {p} |-> tlb[q]]

Substitute(p, perms, to) ==
  /\ ept' = [ept EXCEPT !.pt[p].perms = perms, !.pt[p].to = to]
  /\ Forget(p)

\* nvc_vt_ept_violation_handler, for an instruction fetch: hooked code is mapped;
\* elsewhere the instruction is skipped.
FetchViolation(rip) ==
  /\ Runs(rip) /\ ~ May(rip, "x")
  /\ IF rip \in Hooked THEN Substitute(rip, {"x"}, HookOf(rip))
                       ELSE Forget(rip) /\ UNCHANGED ept
  /\ UNCHANGED <<phase, step_vars, mtrr_vars, paging_vars, nested_vmx>>

\* For a data access: the original page is mapped, without execution unless the
\* instruction itself lies there, when it is stepped over.  Elsewhere the access is
\* emulated as MMIO and the instruction skipped.
DataViolation(rip, p) ==
  /\ Runs(rip) /\ May(rip, "x") /\ ~ ({"r", "w"} \subseteq Translation(p).perms)
  /\ IF p \in Hooked
       THEN IF rip = p
              THEN Substitute(p, Full, p) /\ mtf' = TRUE /\ pending_hook_index' = Found(p)
              ELSE Substitute(p, {"r", "w"}, p) /\ UNCHANGED <<mtf, pending_hook_index>>
       ELSE Forget(p) /\ UNCHANGED <<ept, mtf, pending_hook_index>>
  /\ UNCHANGED <<phase, abandoned, mtrr_vars, paging_vars, nested_vmx>>

HookStep ==
  \/ Interrupted
  \/ \E rip \in Touched :
       \/ FetchViolation(rip)
       \/ \E p \in Touched : DataViolation(rip, p)
       \/ \E operands \in SUBSET Touched : Cardinality(operands) <= 2 /\ Retire(rip, operands)

-----------------------------------------------------------------------------
(* MTRRs and CR0.                                                          *)

\* The update of the tables, and the invept after it.
Update(m) ==
  /\ ept' = UpdateByMtrr(ept, m)
  /\ tlb' = Invept(tlb)
  /\ stopped' = (stopped \/ (\E i \in 1 .. Count : m.var[i].unit = "gigabyte"))

\* A write of an MTRR: with caching disabled the update is put off until it is enabled.
WriteMtrr(m) ==
  /\ phase = "active" /\ m # mtrr
  /\ mtrr' = m
  /\ IF cd THEN mtrr_dirty' = TRUE /\ UNCHANGED <<ept, tlb, stopped>>
           ELSE Update(m) /\ UNCHANGED mtrr_dirty
  /\ UNCHANGED <<phase, step_vars, cd, paging_vars, nested_vmx>>

WrmsrMtrr ==
  \/ \E i \in 1 .. Count, v \in Mtrrs : WriteMtrr([mtrr EXCEPT !.var[i] = v])
  \/ \E t \in Types : WriteMtrr([mtrr EXCEPT !.fixed = t])

\* EFER.LMA when CR0.PG changes.
Lma(e, p) == {b \in e : b = "lme"} \cup (IF "lme" \in e /\ p THEN {"lma"} ELSE {})

\* A write of CR0 that the processor accepts.
Cr0Write ==
  \E c \in BOOLEAN, p \in BOOLEAN :
    /\ phase = "active"
    /\ cd' = c /\ pg' = p
    /\ IF c # cd /\ ~ c /\ mtrr_dirty
         THEN Update(mtrr) /\ mtrr_dirty' = FALSE
         ELSE UNCHANGED <<ept, tlb, mtrr_dirty, stopped>>
    /\ IF p # pg
         THEN /\ efer' = Lma(efer, p)
              /\ ia32e' = ("lma" \in efer')
              /\ paged' = {}
         ELSE UNCHANGED <<efer, ia32e, paged>>
    /\ UNCHANGED <<phase, step_vars, mtrr, cr3, nested_vmx>>

\* The system's own writes that do not exit: LME while paging is off, and CR3, with
\* which the processor drops what it keeps of the old page table.
SystemWrites ==
  /\ phase = "active"
  /\ \/ /\ ~ pg
        /\ efer' \in SUBSET {"lme"}
        /\ UNCHANGED <<cr3, paged>>
     \/ /\ cr3' \in {"user", "kernel"}
        /\ paged' = paged \ {"user", "kernel"}
        /\ UNCHANGED efer
  /\ UNCHANGED <<phase, ept_vars, mtrr_vars, pg, ia32e, nested_vmx>>

-----------------------------------------------------------------------------
(* Exceptions and INIT.                                                    *)

\* #PF on the system call: it is retried with the kernel's page table.  Others are
\* injected with CR2.
PageFault ==
  /\ phase = "active" /\ pg
  /\ \/ cr3' = "kernel" /\ paged' = paged \ {"user", "kernel"}
     \/ UNCHANGED <<cr3, paged>>
  /\ UNCHANGED <<phase, ept_vars, mtrr_vars, pg, efer, ia32e, nested_vmx>>

\* INIT keeps CR0.CD.  VMX status, the monitor trap flag and the interception of the
\* descriptor tables are not reset.
InitSignal ==
  /\ phase = "active"
  /\ pg' = FALSE /\ efer' = {} /\ ia32e' = FALSE /\ paged' = {}
  /\ cr3' = "kernel"
  /\ InitCr4
  /\ phase' = "wait_for_sipi"
  /\ abandoned' = (abandoned \/ mtf)
  /\ UNCHANGED <<ept, tlb, mtf, pending_hook_index, mtrr_vars>>

StartUp ==
  /\ phase = "wait_for_sipi"
  /\ phase' = "active"
  /\ UNCHANGED <<ept_vars, mtrr_vars, paging_vars, nested_vmx>>

\* noir_vt_callexit from the hypervisor's own image: everything is invalidated and the
\* caller goes on without the hypervisor.  From elsewhere the call is answered with
\* nothing, not even the next instruction.
CallExit ==
  /\ phase = "active"
  /\ phase' = "off" /\ tlb' = Invept(tlb) /\ paged' = {}
  /\ UNCHANGED <<ept, step_vars, mtrr_vars, pg, cr3, efer, ia32e, nested_vmx>>

\* The rest changes nothing that is modelled here: what it reads and writes passes
\* through, and the instruction is advanced, or a fault is injected.
Unmoved == phase = "active" /\ UNCHANGED exit_vars

Cpuid == Unmoved

\* getsec is skipped, invd done as wbinvd; xsetbv is done, or #GP.
PlainInstruction == Unmoved

\* LSTAR reads as the system wrote it while noir_system_call is loaded.  A VMX capability
\* is #GP, and then read like LSTAR.
Rdmsr == Unmoved

\* Microcode, LSTAR and synthetic MSRs.
WrmsrOther == Unmoved

\* A load, or a store of the tables or of what NPIEP shows instead.
DescriptorTableAccess == Unmoved

\* Handlers that only report: the exit comes again.
Unhandled == Unmoved

VmxInstruction ==
  /\ phase = "active" /\ NestedVmxNext
  /\ UNCHANGED <<phase, ept_vars, mtrr_vars, paging_vars>>

ExitNext ==
  \/ HookStep \/ WrmsrMtrr \/ Cr0Write \/ SystemWrites \/ PageFault
  \/ InitSignal \/ StartUp \/ CallExit \/ VmxInstruction
  \/ Cpuid \/ PlainInstruction \/ Rdmsr \/ WrmsrOther \/ DescriptorTableAccess \/ Unhandled

ExitSpec == ExitInit /\ [][ExitNext]_exit_vars

-----------------------------------------------------------------------------
(* Properties.                                                             *)

ExitTypeOK ==
  /\ NestedVmxTypeOK
  /\ phase \in {"active", "wait_for_sipi", "off"}
  /\ DOMAIN tlb \subseteq Pages
  /\ \A p \in DOMAIN tlb : tlb[p].type \in Types /\ tlb[p].perms \subseteq Full
  /\ mtf \in BOOLEAN /\ pending_hook_index \in Hooked /\ abandoned \in BOOLEAN
  /\ mtrr.fixed \in Types /\ \A i \in 1 .. Count : mtrr.var[i] \in Mtrrs \cup {Off}
  /\ cd \in BOOLEAN /\ mtrr_dirty \in BOOLEAN /\ stopped \in BOOLEAN
  /\ pg \in BOOLEAN /\ cr3 \in {"user", "kernel"} /\ efer \subseteq {"lme", "lma"}
  /\ ia32e \in BOOLEAN /\ paged \subseteq {"user", "kernel", "unpaged"}

\* A hooked page is never read or written but in its original, nor executed but in its
\* hooked form, except for the one instruction that is stepped over: neither by what the
\* tables say nor by what the processor keeps of them, however reads, fetches, steps,
\* interrupts and updates of the memory types alternate.  INIT during a step is not
\* handled: the step is then one of another instruction.
HooksHidden ==
  ~ abandoned => \A p \in Hooked :
    \A v \in {Translate(ept, p)} \cup (IF p \in DOMAIN tlb THEN {tlb[p]} ELSE {}) :
      /\ v.perms \cap {"r", "w"} # {} => v.to = p
      /\ "x" \in v.perms /\ ~ (mtf /\ pending_hook_index = p) => v.to = HookOf(p)

\* The type a variable MTRR gives a page: the strongest of those that cover it, leaving
\* out those of the default type.
Covering(p) == {i \in 1 .. Count : mtrr.var[i].type # ept.def.type /\ Covers(mtrr.var[i], p)}
MtrrType(p) == Min({mtrr.var[i].type : i \in Covering(p)})

\* While the system may cache, the types of the tables, and those that the processor
\* keeps, are those of the MTRRs that cover a page (one for the whole gigabyte excepted:
\* it is not applied behind a split region; and the region of the tables themselves, which
\* is mapped large over the tables of its pages: to describe them again brings back their
\* old types); the processor enters long mode exactly if EFER and CR0 ask for it, and keeps
\* no translation of another paging mode.
MemoryAsConfigured ==
  phase # "off" =>
    /\ ~ cd => ~ mtrr_dirty
    /\ ~ cd /\ ept.def.enabled /\ ~ stopped =>
         \A p \in Pages \ (FixedPages \cup PagesOf(OwnRegion)) : Covering(p) # {} =>
           \A v \in {Translate(ept, p)} \cup (IF p \in DOMAIN tlb THEN {tlb[p]} ELSE {}) :
             v.type = MtrrType(p)
    /\ ia32e = ("lma" \in efer) /\ ("lma" \in efer) = ("lme" \in efer /\ pg)
    /\ paged \subseteq {Mode}
=============================================================================
