---------------------------- MODULE HostProcessor ----------------------------
(***************************************************************************)
(* One logical processor that is subverted and restored: the registers     *)
(* that its operating system sees, the areas of the VMCS or VMCB they are  *)
(* taken through, and the features and controls that decide whether the    *)
(* processor enters the guest.  Registers hold tokens: "os" and "os2" are  *)
(* values of the operating system, the others are the hypervisor's.        *)
(***************************************************************************)
EXTENDS HostResources

\* `enable' is CR4.VMXE or EFER.SVME, `bases' the hidden bases that vmload and
\* vmsave move, `rip' the flow of control (rip, rsp and flags).
Regs == {"cr0", "cr3", "cr4", "enable", "gdtr", "idtr", "tr", "bases", "segs", "dr7", "lstar", "rip"}
Vals == {"os", "os2", "off", "on", "hv", "null", "hook", "reset"}

\* What the processor can do: secondary controls that may be set and EPT/VPID
\* capabilities, as far as the launch depends on them.
CapNames == {"enable_ept", "ept_requirements", "enable_vpid", "vpid_requirements", "unrestricted_guest"}

NewProc ==
  [mode |-> "off", status |-> "off", refs |-> {}, vmsr |-> "os",
   real |-> [r \in Regs |-> IF r = "enable" THEN "off" ELSE "os"],
   host |-> [r \in Regs |-> "hv"]]
ProcType ==
  [mode : {"off", "root", "guest"}, status : {"off", "on", "trans"}, refs : SUBSET Items,
   vmsr : Vals, real : [Regs -> Vals], host : [Regs -> Vals]]

------------------------------------------------------------------------------
(* Hooks: the MSRs that are intercepted, and the system-call hook. *)

VtMsrHook(options) ==
  {"bios_updt_trig", "mtrr", "vmx"} \cup (IF "stealth_msr_hook" \in options THEN {"lstar"} ELSE {})
SvmMsrHook(options) ==
  {"efer", "vmcr", "hsave_pa", "svm_key"} \cup (IF "stealth_msr_hook" \in options THEN {"lstar"} ELSE {})
Hooked(options) == "stealth_msr_hook" \in options

\* What the operating system reads while it is a guest.  VT answers LSTAR from
\* the virtual MSR and CR4.VMXE from the read shadow; SVM translates the
\* address of the hook, and hides EFER.SVME as EFER is intercepted.
VtView(options, p) ==
  [p.real EXCEPT !.enable = "off", !.lstar = IF "lstar" \in VtMsrHook(options) THEN p.vmsr ELSE @]
SvmView(options, p) ==
  [p.real EXCEPT !.enable = IF "efer" \in SvmMsrHook(options) THEN "off" ELSE @,
                 !.lstar = IF "lstar" \in SvmMsrHook(options) /\ @ = "hook" THEN "os" ELSE @]
View(engine, options, p) ==
  CASE p.mode # "guest"                  -> p.real
    [] p.mode = "guest" /\ engine = "vt" -> VtView(options, p)
    [] OTHER                             -> SvmView(options, p)

VtWrite(options, p, r, v) ==
  IF p.mode = "guest" /\ r = "lstar" /\ "lstar" \in VtMsrHook(options)
  THEN [p EXCEPT !.vmsr = v] ELSE [p EXCEPT !.real[r] = v]
SvmWrite(options, p, r, v) ==
  IF p.mode = "guest" /\ r = "lstar" /\ "lstar" \in SvmMsrHook(options) /\ v = "os"
  THEN [p EXCEPT !.real[r] = "hook"] ELSE [p EXCEPT !.real[r] = v]
Write(engine, options, p, r, v) ==
  IF engine = "vt" THEN VtWrite(options, p, r, v) ELSE SvmWrite(options, p, r, v)

------------------------------------------------------------------------------
(* Intel VT-x *)

VtEnable(real) == [real EXCEPT !.enable = "on"]
VtDisable(p) == [p EXCEPT !.mode = "off", !.status = "off", !.refs = {}, !.real.enable = "off"]

\* Controls that are wanted and not supported are dropped silently.
VtControls(caps) ==
  {"use_io_bitmap", "use_msr_bitmap", "save_debug_controls", "load_ia32_efer"}
    \cup ({"enable_ept", "enable_vpid", "unrestricted_guest"} \cap caps)
VtFeatures(caps) ==
  (IF {"enable_ept", "ept_requirements"} \subseteq caps THEN {"extended_paging"} ELSE {})
    \cup (IF {"enable_vpid", "vpid_requirements"} \subseteq caps THEN {"vpid_tagged_tlb"} ELSE {})

\* The EPT pointer and the VPID are written for the features only; an entry with
\* a control set and its field zero fails, as does one with unrestricted guest
\* and no EPT.
VtEntryValid(caps) ==
  /\ "enable_ept" \in VtControls(caps) => "extended_paging" \in VtFeatures(caps)
  /\ "enable_vpid" \in VtControls(caps) => "vpid_tagged_tlb" \in VtFeatures(caps)
  /\ "unrestricted_guest" \in VtControls(caps) => "enable_ept" \in VtControls(caps)

\* The guest goes on after the call, with the registers of the host; the MSR-load
\* list of the entry has the address of the system-call hook.
VtGuestArea(options, real) == [real EXCEPT !.rip = "os", !.lstar = IF Hooked(options) THEN "hook" ELSE @]

\* Copies of GDT and IDT, selectors without privilege level, the hypervisor's
\* page table (null if it was not built) and its exit handler; the MSR-load list
\* of the exit has the original LSTAR, debug registers are reset by the exit.
VtHostArea(options, real, hcr3) ==
  [real EXCEPT !.cr3 = hcr3, !.gdtr = "hv", !.idtr = "hv", !.segs = "hv", !.rip = "hv",
               !.dr7 = "reset", !.lstar = IF Hooked(options) THEN "os" ELSE @]
VtHostState == {"cr0", "cr3", "cr4", "enable", "gdtr", "idtr", "tr", "bases", "segs", "dr7", "rip"}
VtExit(options, p) ==
  [r \in Regs |-> IF r \in VtHostState \/ (r = "lstar" /\ Hooked(options)) THEN p.host[r] ELSE p.real[r]]

VtUsed(p, caps) ==
  {<<n, p>> : n \in {"vmxon", "vmcs", "msr_auto", "hv_stack"}
                      \cup (IF "extended_paging" \in VtFeatures(caps) THEN {"ept"} ELSE {})}
    \cup {<<n>> : n \in {"virtual_cpu", "msr_bitmap", "io_bitmap_a", "io_bitmap_b", "hcr3", "pdpt"}}

VtRoot(pr, i) ==
  [pr EXCEPT !.mode = "root", !.status = "trans", !.real = VtEnable(@),
             !.refs = {<<"virtual_cpu">>, <<"vmxon", i>>, <<"vmcs", i>>}]

\* Mutant of VtLaunch: status stays "on" when the launch fails.
VtLaunchStaysOn(options, caps, pr, i, hcr3) ==
  LET root == [VtRoot(pr, i) EXCEPT !.vmsr = "os", !.host = VtHostArea(options, VtEnable(pr.real), hcr3)] IN
  IF VtEntryValid(caps)
  THEN [root EXCEPT !.mode = "guest", !.status = "on", !.refs = VtUsed(i, caps),
                    !.real = VtGuestArea(options, @)]
  ELSE [root EXCEPT !.status = "on"]

\* status is set before the launch and taken back if it fails.
VtLaunch(options, caps, pr, i, hcr3) ==
  LET root == [VtRoot(pr, i) EXCEPT !.vmsr = "os", !.host = VtHostArea(options, VtEnable(pr.real), hcr3)] IN
  IF VtEntryValid(caps)
  THEN [root EXCEPT !.mode = "guest", !.status = "on", !.refs = VtUsed(i, caps),
                    !.real = VtGuestArea(options, @)]
  ELSE [root EXCEPT !.status = "trans"]

\* nvc_vt_subvert_processor, with the instruction that fails (or "none").
VtSubvert(options, caps, pr, i, hcr3, fault) ==
  CASE fault = "vmxon"               -> [pr EXCEPT !.real = VtEnable(@)]
    [] fault \in {"vmclear", "vmptrld"} -> VtRoot(pr, i)
    [] OTHER                         -> VtLaunch(options, caps, pr, i, hcr3)

\* The exit call leaves the guest, without resuming it, at its own instruction.
VtCallExit(options, p) ==
  [p EXCEPT !.mode = "root", !.status = "trans",
            !.real = [VtExit(options, p) EXCEPT !.cr3 = p.real.cr3, !.cr4 = p.real.cr4,
                        !.gdtr = p.real.gdtr, !.idtr = p.real.idtr, !.rip = p.real.rip]]
VtRestore(options, p) ==
  LET q == IF p.status = "on" /\ p.mode = "guest" THEN VtCallExit(options, p) ELSE p IN
  IF q.status = "trans" THEN VtDisable(q) ELSE q

------------------------------------------------------------------------------
(* AMD-V *)

SvmDisable(p) == [p EXCEPT !.mode = "off", !.status = "off", !.refs = {}, !.real.enable = "off"]

\* The processor itself goes over to the hypervisor's tables before vmrun, which
\* saves it as the host; vmsave has kept TR, the bases and LSTAR in hvmcb.
SvmHostArea(real, hcr3) ==
  [real EXCEPT !.cr3 = hcr3, !.gdtr = "hv", !.idtr = "hv", !.tr = "hv", !.rip = "hv", !.dr7 = "reset"]
SvmGuestArea(options, real) == [real EXCEPT !.rip = "os", !.lstar = IF Hooked(options) THEN "hook" ELSE @]

SvmUsed(p) ==
  {<<n, p>> : n \in {"vmcb", "hsave", "hvmcb", "hv_stack"}}
    \cup {<<n>> : n \in {"virtual_cpu", "primary_nptm", "msrpm", "iopm", "hcr3", "pdpt"}}

SvmSubvert(options, pr, i, hcr3) ==
  LET real == [pr.real EXCEPT !.enable = "on"] IN
  [pr EXCEPT !.mode = "guest", !.status = "on", !.refs = SvmUsed(i), !.vmsr = "os",
             !.host = SvmHostArea(real, hcr3), !.real = SvmGuestArea(options, real)]

\* Mutant of SvmCallExit: CR3 of the guest is not put back.
SvmCallExitHostCr3(p) ==
  [p EXCEPT !.mode = "root", !.status = "trans",
            !.real = [p.host EXCEPT !.tr = p.real.tr, !.bases = p.real.bases, !.lstar = "os",
                        !.cr4 = p.real.cr4, !.gdtr = p.real.gdtr,
                        !.idtr = p.real.idtr, !.rip = p.real.rip]]

\* vmload brings back TR, the bases and LSTAR (the original one).
SvmCallExit(p) ==
  [p EXCEPT !.mode = "root", !.status = "trans",
            !.real = [p.host EXCEPT !.tr = p.real.tr, !.bases = p.real.bases, !.lstar = "os",
                        !.cr3 = p.real.cr3, !.cr4 = p.real.cr4, !.gdtr = p.real.gdtr,
                        !.idtr = p.real.idtr, !.rip = p.real.rip]]
SvmRestore(p) ==
  LET q == IF p.status = "on" /\ p.mode = "guest" THEN SvmCallExit(p) ELSE p IN
  IF q.status = "trans" THEN SvmDisable(q) ELSE q
=============================================================================
