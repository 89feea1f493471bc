---------------------------- MODULE HostResources ----------------------------
(***************************************************************************)
(* The memory that a subversion of the host needs: what is allocated, in   *)
(* which order, which failures are tolerated, and what the clean-up of     *)
(* each engine releases.  An item is <<name>> or, for the structures of a  *)
(* virtual processor, <<name, processor>>.                                 *)
(*                                                                         *)
(* Two sets describe the memory: `held', the items that are allocated, and *)
(* `ptr', the items whose pointer in the hypervisor's structure is not     *)
(* null.  No clean-up nulls a pointer, so an item of ptr that is not held  *)
(* is a stale pointer: freeing or reading it is undefined behaviour.       *)
(***************************************************************************)
EXTENDS Naturals, Sequences

CONSTANT CpuCount       \* noir_get_processor_count()
ASSUME CpuCountAssumption == CpuCount \in Nat \ {0}

Procs == 0 .. CpuCount - 1
Engines == {"vt", "svm"}
OptionNames == {"stealth_msr_hook", "nested_virtualization", "enable_nsv", "enable_iommu"}

VtCpuItems == <<"vmcs", "vmxon", "msr_auto", "vmcs_t", "hv_stack", "ept", "xsave">>
SvmCpuItems == <<"vmcb", "hsave", "hvmcb", "hv_stack", "xsave", "vmcb_t">>
VtItems == {"virtual_cpu", "msr_bitmap", "io_bitmap_a", "io_bitmap_b", "cpuid_handlers",
            "hcr3", "pdpt", "mmio_hooks", "iommu", "vm_list_lock", "tag_pool", "tag_lock"}
SvmItems == {"virtual_cpu", "primary_nptm", "secondary_nptm", "cpuid_handlers", "msrpm",
             "iopm", "vm_list_lock", "tag_pool", "tag_lock", "hcr3", "pdpt", "blank_page",
             "rmd", "rmt"}
NamesOf(s) == {s[i] : i \in 1 .. Len(s)}
CpuItems == (NamesOf(VtCpuItems) \cup NamesOf(SvmCpuItems)) \X Procs
Items == {<<n>> : n \in VtItems \cup SvmItems} \cup CpuItems

(***************************************************************************)
(* Steps of nvc_vt_subvert_system and nvc_svm_subvert_system.  A step gets *)
(* its items one after the other; if it fails the subversion fails, unless *)
(* the step is optional.  `array': the step goes through virtual_cpu; it   *)
(* is skipped ("loop"), fails ("check") or faults ("use") if that is null. *)
(* Maps stands for the pages of a paging structure that a step has to      *)
(* split: they may be refused like an item, and are freed with the root.   *)
(***************************************************************************)
Step(items, optional, array) == [items |-> items, optional |-> optional, array |-> array]
Maps == <<"maps">>
Must(name) == Step(<< <<name>> >>, FALSE, "no")
May(name) == Step(<< <<name>> >>, TRUE, "no")
PerCpu(names) ==
  [i \in 1 .. CpuCount * Len(names) |->
     Step(<< <<names[((i - 1) % Len(names)) + 1], (i - 1) \div Len(names)>> >>, FALSE, "loop")]
When(c, s) == IF c THEN s ELSE <<>>
HostPageTable == Step(<< <<"hcr3">>, <<"pdpt">> >>, TRUE, "no")
IommuStep == Step(<< <<"iommu">>, <<"mmio_hooks">> >>, TRUE, "no")
CvmModule == Must("vm_list_lock")
ProtectHypervisor == Step(<<Maps>>, FALSE, "no")
ProtectCritical == Step(<< <<"blank_page">>, Maps >>, FALSE, "use")
VirtualCpuCheck == Step(<<>>, FALSE, "check")

VtPlan(options) ==
  <<May("virtual_cpu")>> \o PerCpu(VtCpuItems)
    \o <<Must("msr_bitmap"), May("io_bitmap_a"), May("io_bitmap_b"),
         Must("cpuid_handlers"), VirtualCpuCheck, HostPageTable>>
    \o When("enable_iommu" \in options, <<IommuStep>>)
    \o <<ProtectHypervisor, CvmModule, Must("tag_pool"), Must("tag_lock")>>

SvmPlan(options) ==
  <<May("virtual_cpu")>>
    \o PerCpu(IF "nested_virtualization" \in options THEN SvmCpuItems ELSE SubSeq(SvmCpuItems, 1, 5))
    \o <<Must("primary_nptm"), Must("secondary_nptm"), Step(<<Maps>>, FALSE, "no"), Must("cpuid_handlers"),
         Must("msrpm"), Must("iopm"), CvmModule, Must("tag_pool"), Must("tag_lock"),
         HostPageTable, ProtectCritical, VirtualCpuCheck>>
    \o When("enable_nsv" \in options, <<Step(<< <<"rmd">>, <<"rmt">> >>, FALSE, "no")>>)

Plan(engine, options) == IF engine = "vt" THEN VtPlan(options) ELSE SvmPlan(options)

(***************************************************************************)
(* nvc_vt_cleanup and nvc_svm_cleanup free whatever pointer is not null.   *)
(* Left out by both: the cpuid handlers; by VT the IOMMU; by SVM the lock  *)
(* of the VM list.  The restoration of the system releases those, too.     *)
(***************************************************************************)
VtForgetsXsave ==     \* mutant of VtCleaned: the xsave areas are not freed
  {<<n>> : n \in VtItems \ {"cpuid_handlers", "iommu"}}
    \cup {x \in CpuItems : x[1] # "xsave"}
VtCleaned == {<<n>> : n \in VtItems \ {"cpuid_handlers", "iommu"}} \cup CpuItems
SvmCleaned == {<<n>> : n \in SvmItems \ {"cpuid_handlers", "vm_list_lock"}} \cup CpuItems
Cleaned(engine) == IF engine = "vt" THEN VtCleaned ELSE SvmCleaned
Kept(engine) == Items \ Cleaned(engine)

ToFree(engine, ptr) ==
  {x \in Cleaned(engine) \cap ptr : /\ x \in CpuItems => <<"virtual_cpu">> \in ptr
                                   /\ x = <<"rmt">> => <<"rmd">> \in ptr}

\* The clean-up frees nothing twice.  With a directory of the reverse-mapping
\* table it frees a table for each of dir_count entries, null or not; `dirs' is
\* dir_count in units of the number of memory ranges.
CleansUp(engine, held, ptr, dirs) ==
  /\ ToFree(engine, ptr) \subseteq held
  /\ engine = "svm" /\ <<"rmd">> \in ptr => dirs = 1 /\ <<"rmt">> \in held

\* What a step reads besides its own items: nvc_npt_protect_critical_hypervisor
\* goes through dir_count entries of the directory, nvc_ept_setup_mmio_hooks
\* through the tree of MMIO hooks.
StepReads(step, ptr, dirs) ==
  (IF step = ProtectCritical /\ dirs > 0 THEN {<<"rmd">>} ELSE {})
    \cup (IF step = ProtectHypervisor THEN {<<"mmio_hooks">>} \cap ptr ELSE {})
=============================================================================
