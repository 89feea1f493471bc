# A TLA+ verification of NoirVisor

NoirVisor is a hypervisor for Intel VT-x and AMD-V that subverts a running host
and lets that host create customizable virtual machines (CVMs).  This directory
holds TLA+ models of its concurrent and stateful parts, the TLC configurations
that check them, and TLAPS proofs.  Paths below are relative to the repository.

## 1. The system

| Component | Source | State it keeps | Operations | Talks to |
|---|---|---|---|---|
| CVM interface | `src/xpf_core/noirhvm.c` | VM list, vCPU headers (register file, state-cache bits, injected event, options), locker lists, reference counts | run, rescind, view and edit registers, map and unmap, accessing bits, create/release/ref/deref of VMs and vCPUs | the SVM or the VT core, chosen by `selected_core` |
| SVM core, CVM part | `src/svm_core/svm_custom.c` | vCPU table, VMCBs, nested page tables, ASID pool, AVIC tables | world switch, VMCB caching, locking, mapping, NSV host services | hypercalls (`svm_exit.c`), reverse-mapping table (`svm_npt.c`) |
| SVM core, exits | `svm_exit.c`, `svm_cvexit.c`, `svm_cvnsv.c` | intercept code, exit context, pending NMI and virtual IRQ flags | one handler per intercept, world switch to host, NSV MSRs | the CVM interface (exit context), the guest |
| Reverse-mapping table | `svm_npt.c`, `svm_exit.c` | owner, ASID and guest page of every host page; the host's nested page table | validate and configure reassignments, split large pages | mapping, NSV, release of VMs |
| VT core, CVM part | `src/vt_core/vt_custom.c`, `vt_cvexit.c` | VMCS, EPT, VPID pool | as the SVM core | the CVM interface |
| VT core, host part | `src/vt_core/vt_exit.c`, `vt_ept.c` | the host's EPT, hooked pages, shadow of MTRRs, VMX status of a nested hypervisor | one handler per exit, MTRR updates, page hooks | the host |
| Subversion | `svm_main.c`, `vt_main.c`, `svm_nvcpu.c`, `vt_nvcpu.c`, `nvsys.c`, `winhvm.c` | per-CPU vCPUs, nested state, everything that a subversion allocates | subvert, restore, sleep and resume, nested virtualisation | the host |
| Windows layer | `xpf_core/windows/*` | CVM handle table, locks, threads | `Noir*` entry points, process-exit callback, CVM handles | the CVM interface |
| Support | `xpf_core/devkits.c`, `ci.c` | AVL trees, bitmaps, code-integrity pages | search, insert, delete; periodic scan | everything |
| HAXM, WHP and MSHV fronts | `cvhax.c`, `haxm.c`, `winhvm.c`, `mshv_core` | translated vCPU state, synthetic MSRs | translate calls | the CVM interface |
| IOMMU | `vt_iommu.c` | DMA remapping tables | build, protect | the host |
| Drivers, UEFI host, disassembler, boot | `drv_core`, `xpf_core/uefi`, `disasm`, `booting` | device state | I/O | the hypervisor |

The parts meet in three ways: ordinary calls from the interface to a core,
hypercalls (`vmmcall`) from a core's driver half to its hypervisor half with
interrupts and GIF off, and shared memory (the vCPU header, the VMCB and the
nested page tables), which host threads and the hypervisor both write.

Hard behaviours: several host threads use the same VM and vCPU; a vCPU moves
between processors with caches left behind on each; registers live in three
places at once; events are injected over several entries; page ownership is
changed while guests run; requests fail half way through.

Per component, what makes it correct:

- *Locking.* A vCPU lock and the list lock are owned exactly where the code
  needs them, however runs, mappings, creations, releases and NSV services
  interleave; page tables and page ownership change only with the vCPUs out of
  guest mode; the vCPU table stands still in loops that read it more than
  once; nobody waits in a circle.
- *Registers.* The vCPU structure, the VMCB, the processor and its VMCB cache
  behave like one value per register.
- *Nested paging.* The guest sees the pages that were asked for and no others;
  the driver's searches and the processor's walks agree; failures are undone.
- *Running.* A rescission is reported once, if it was accepted; an event is
  taken once, however often the vCPU leaves the guest in between.
- *Lifetime.* A handle means one CVM; a CVM in use is not released; a process
  that ends leaves none behind.
- *Pools and locker lists.* No ASID or VPID belongs to two vCPUs; a released
  one can be had again; a locker slot frees what it locked.
- *Reverse-mapping table and NSV.* A host page has one owner; a reassignment is
  made for all its pages or none; a secure page is not seen by the host.
- *SVM exits.* What a handler writes to the VMCB is loaded by the next vmrun,
  what it makes obsolete leaves the TLB; a guest of a nested hypervisor is
  entered with what that hypervisor wrote.
- *VT core, CVM part.* A guest runs with the registers written last, takes
  events only when it may, and finds the pages that are mapped.
- *VT core, host part.* Hooked pages show their original to reads and their
  hook to fetches; the types of memory are those of the MTRRs.
- *Subversion.* No processor uses memory that is freed, whatever fails; the
  operating system finds what it wrote; stopping releases what was allocated.
- *Support.* The trees stay ordered and balanced; bitmaps find a free bit.

## 2. The plan

Modules are ordered by how much of the system's own logic, and how many of its
hazards, each of them reaches.

| Module | Subject | State |
|---|---|---|
| `CvmExclusion` | locks of a VM and of its vCPUs, NSV exclusion | checked, proved |
| `CvmStateCache` over `CvmRegisterFile` | copies of registers | checked, proved, refinement |
| `CvmNestedPaging` over `CvmPageMap` | nested page tables | checked, proved, refinement |
| `CvmRun` | rescission, event injection, exits of a CVM | checked, proved |
| `CvmLifetime` | handles, processes, HAXM list | checked, proved |
| `PageOwnership` | reverse-mapping table, the host's nested page table | checked, proved |
| `SvmExits` over `NestedVcpu` | exits of the host on AMD-V, nested guests | checked, proved |
| `VtCvm` over `VtGuestPaging` | vCPUs of the VT core | checked, proved |
| `VtExits` over `EptTables` and `NestedVmx` | exits of the host on VT-x | checked, proved |
| `Subversion` over `HostResources` and `HostProcessor` | subverting and restoring | checked, proved |
| `CvmTlb` | edits of a nested page table against the TLB of each (core, ASID): composes `CvmExclusion`'s locking with `CvmNestedPaging`'s writes and the flushes requested at entry | left |
| `CvmPools` | ASID and VPID pools, locker lists (`svm_custom.c` 1005-1024, `noirhvm.c` 1040-1093), over a specification of an allocator | left |
| `HandleTree` | the table of several levels of `layered.c` against the map `CvmLifetime` uses | left |
| `AvlTree`, `CodeIntegrity` | `devkits.c` 60-135 against a set; the scan of code pages | left |

Two components have an abstract specification, `CvmRegisterFile` and
`CvmPageMap`, which the detailed modules are shown to implement.  `MC<module>`
holds what a module needs to be run: definitions of constants, symmetry, and
the constraint where there is one.

## 3. The modules and the code

In all of them one step is what the code does between two points at which
another actor can see or change something: an acquisition or release of a
lock, a hypercall, a world switch, a write to a shared word or table.  Memory,
locks, processes and the processor are external to the repository; they are
modelled by how the code uses them.

### CvmExclusion

`vcpu` is the set of slots of `vm->vcpu` in use, `vcpu_lock` the owner of each
`cvcpu->vcpu_lock`, and `list_owner` and `list_shared` the resource lock
`vcpu_list_lock`, which a waiting exclusive acquirer closes to new sharers.
`pc`, `target` and `cursor` say where a thread is, on which vCPU, and at which
slot of a loop.  Four sequences of actions follow the code:

| Code | Actions |
|---|---|
| `nvc_run_vcpu`, `nvc_svmc_run_vcpu` | RunReference, RunLock, GuestExit, RunUnlock |
| `nvc_svmc_gain_exclusion`, the NSV services, `nvc_svmc_free_exclusion` | GuestNsvExit, GainList, GainVcpu, GainDone, NsvActivate or NsvClaim, FreeExclusion |
| `nvc_set_mapping`, the SVM core's mapping and unmapping, accessing bits | ListOperation, MapReassign, MapVcpu, MapDone, MapWrite, MapUnlock, UnmapReassign, SharedWork, ListUnlock |
| `nvc_svmc_create_vcpu`, `nvc_svmc_release_vcpu` | CreateCall, CreateLock, CreateVcpu, ReleaseReference, ReleaseList, ReleaseLock, ReleaseVcpu |

The loops that unlock every vCPU read the table again, and the model does
(`ReleaseVcpus`).  `ownership` and `vmcb_secure` are what the reverse-mapping
table says of one page of guest memory and of the VMCB pages.  The user
hypervisor does not release a vCPU that it runs (`NotRunning`,
`NotReleasing`): the code does not guard against it.

### CvmStateCache and CvmRegisterFile

A register has a copy in the vCPU structure (`header`), in the VMCB, in the
processor while the guest runs (`live`), and in what each processor keeps of
the VMCB (`hw`).  `valid`, `synchronized` and `clean` are the bits of
`state_cache` and of the VMCB that say which copies are current; `Group`,
`Area`, `Units`, `SavedAtSwitch` and `Dumped` are the tables that the code
spells out register by register.  Enter is `nvc_svm_switch_to_guest_vcpu` and
vmrun, Exit is `nvc_svm_switch_to_host_vcpu`, Emulate is an intercepted write
resumed in the hypervisor, Dump and DumpDone are the dump hypercall, and Edit,
Edit2, View and View2 are the four entry points of the interface.
`CvmRegisterFile` is what the interface promises: one value per register.

`SyncFirst` and `Concurrent` restrict the host.  With `SyncFirst`, it makes a
call that does not synchronise only when there is nothing to synchronise; without
`Concurrent`, it makes no call while the vCPU runs.  Outside of that use, and for
registers with a path of their own (`rsp` by name, `cr4`, `kgs`, `tsc`), the
register file is not implemented: PROJECT.json lists the places under hazards.

### CvmNestedPaging and CvmPageMap

`listed` holds the descriptors the driver keeps per level, `link` the entries
that point to tables, `pte` the entries of pages.  A table may be listed and
not be linked, and an entry that the null mapping of a new table made present
leads to host frame 0 until it is overwritten ("zero").  Find, Create,
CreateFails, Link and Write are the loop of `nvc_svmc_set_page_map` with its
creation of tables from the bottom up; SetMapping, SetUnmapping, Undo and
Return are the operations around it; QueryAbsent, QueryPage, QuerySpin and
ClearPage the operations on accessing bits, with the query's loop that never
advances.  GuestAccess is a running guest.  `CvmPageMap` is what the memory
interface promises: requests change the pages they name.

### CvmRun

`injected` is `header.injected_event`, `eventinj` and `virq` the VMCB's
fields, `prev_virq`, `prev_nmi` and `rescission` the bits of `special_state`.
A plain write to one of its bit-fields is a read (Fetch) and a write-back
(`WriteBack`) that may carry the neighbouring bit along, as the compiler
chooses.  StartRun to EndRun follow `nvc_svmc_run_vcpu`, the world switches
and the end of `nvc_svm_exit_handler`; VirtIntInject, VirtIntWindow, IretInject
and IretWindow the two handlers that inject events of the host, InjectException
the one that raises an exception of its own, for MSRs that nobody knows and
for the instructions of SVM.  SchedulerExit, AccessExit, CpuidExit,
HltOrIoExit, MsrExit and ShutdownOrHypercall are the other handlers of
`svm_cvexit.c`, as far as they leave the guest; Deliver, InterceptDelivery,
AcceptInterrupts and BlockInterrupts are the processor.  `owed`, `sort`,
`deliveries`, `exempt` and `sound` are history variables.  The intercept of a
run that has ended is not kept (EndRun), since each run writes it before reading.

### CvmLifetime

`entry`, `max_handle` and `leaves` are the handle table of `layered.c` under
`table_lock`, `hax` is `HaxVmList` under `hax_lock`, `alive`, `pid` and
`ref_count` are the CVM structures.  CreateVm, Insert, InsertFails, Use, Lookup,
UseDone, Release, ReleaseVm and HaxNotify are the `Noir*VirtualMachine` entry
points; ProcessExit to ExitDone the process callback; HaxCreate to
HaxInsertFails the creation through HAXM; HaxClose to DerefAgain the closing
of a VM device, with its two dereferences.  `noir_locked_dec` returns the new
count and `nvc_deref_vm` compares it as if it were the previous one, so that a
close releases a CVM only after its count has wrapped around; `wrapped` records
that, and the properties are stated for the time before.  The handle -1 of an
empty slot leads to the last entry of a table of one level (`Index`).

### PageOwnership

`owner` and `asid` are the reverse-mapping table, `pte` what the host's nested
page table allows for each page, `table` the pages that a split has made tables
and `linked` the regions whose entry points to theirs.  A reassignment is
`nvc_npt_reassign_page_ownership`, whose splits allocate tables that are
reassigned in their turn: `stack` holds the calls under way with their local
variables, innermost last.  LockNptm, LockRmd and Unlock take and give the two
locks; LookUp, SplitPdpte, SplitPde and SplitFails are stage I, ReassignRmt and
Refuse the hypercall of stage II, Remap that of stage III; ReturnTrue and
ReturnFalse are how an inner call ends.  The callers run in any number of
threads: CreateVm to CreateFails, ReleaseVm to VmReleased, SetMapping to
UnmapDone, and Claim, NsvActivate, NsvDeactivate and NsvDone for the services of
an NSV guest.  ListFails is the list of a CVM's pages that cannot be allocated.
`exposed`, `starved` and `dirty` record what a failed allocation leaves.

### SvmExits and NestedVcpu

One exit with its handler is one step, because handlers run with GIF clear.
`SvmExits` keeps the clean bits and TLB control of the host's VMCB (`clean`,
`flush`) beside what the handlers really wrote and made obsolete (`stale`,
`owed`), the instructions that NPIEP and UMIP ask to intercept, and
`nested_hvm`.  Every handler of `svm_exit.c` that changes one of these has its
action or is named in one.  `NestedVcpu` watches one field of the VMCBs of a
nested hypervisor, any of them: `vmcb_c` is its content in L1's VMCB, `node` the
copies that run, `hash` the node for each VMCB, `cache` and `vmcb_l1` what
the processor has.  Vmrun, Vmload, Vmsave, switches from and to the nested guest
and the field's changes by L1 and L2 are its operations; `expected` is what
the field should be.  CPL, IDTR and AVIC, which the code does not copy as it
should, are excepted (`Lost`).

### VtExits, EptTables and NestedVmx

`EptTables` builds the host's extended page tables from default type and
MTRRs, protects NoirVisor's own pages, inserts hooks and splits regions, as
`vt_ept.c` does; entries keep permissions, type and target.  What the code does
in loops over the pages of a table is written at once for all of them (SplitPdes,
MergePages, UpdatePtes); only the loop over the variable MTRRs is left a loop,
the recursive function of UpdateByVarMtrrs, because the first MTRR to cover an
entry sets its type and the later ones only lower it.  A page with a hook is
neither under code integrity nor the blank page, which are the hypervisor's own
(EptAssumption).  `VtExits` is the
processor in the guest: accesses to hooked pages with their violations and
single steps (HookStep), writes of MTRRs collected while CR0.CD is set and
applied afterwards, the paging mode with IA-32e entry control, INIT and SIPI,
and the exits that only advance or fault.  `tlb` and `paged` are what the
processor keeps.  `NestedVmx` adds the VMX instructions of a nested hypervisor:
VMXE, the VMXON and current VMCS pointers, which VMCSs are clear or launched, and
their success and failure.  NoirVisor never runs the nested guest.

### VtCvm and VtGuestPaging

Several vCPUs on several processors: `current`, `custom_vcpu` and
`initial_vmcs` say per processor which VMCS is active and who runs, `home`,
`proc_id` and `launched` where a vCPU's VMCS is.  `valid` are the bits of
`state_cache`, `fresh_header` and `fresh_vmcs` the registers whose copy is what
was written last, and `lost` the processors that a VMX failure has
stopped.  SwitchToGuest, Enter, EntryFails, InvalidStateExit, GuestExit,
InterruptWindow, NmiWindow, WriteCr8 and ExitElsewhere follow `vt_custom.c` 20-310
and `vt_cvexit.c`; Edit, EditCr8, SetEvent, Dump and CreateVcpu are the host's
calls.  An inverted test of the interrupt flag and events that stay valid in the
code are modelled as they are; `took` records what was wrong with an event that a
guest took.  "stale", an event the host has taken back, is recorded too, and
InterruptsRespected leaves it out.
`VtGuestPaging` is the guest's page tables with failing allocations.

### Subversion, HostResources and HostProcessor

`HostResources` lists what `nvc_vt_subvert_system` and `nvc_svm_subvert_system`
allocate, in their order (`Plan`), and what the clean-up of each frees;
`held` and `ptr` tell memory that exists from pointers that are not null, which
the clean-up leaves behind.  `HostProcessor` is one logical processor: its
registers as tokens, the steps of subverting it and of leaving.  `Subversion`
puts requests (Subvert, Restore, Suspend, ResumeFromSleep, Unload), the plan (Prepare,
any allocation failing), the broadcast to the processors in any order (Launch,
SubvertProcessor, RestoreProcessor) and the writes of the operating system
together.  Where the code frees or reads freed memory the model goes to stage
"ub" and claims nothing more.  Requests come one at a time, as the model's
control program waits for an answer.

## 4. The runs

Passing runs:

| Run | Bounds | What it shows |
|---|---|---|
| `exclusion` | 2 threads, 2 slots; 359 000 states | LockDiscipline, MappingExcluded, NsvExcluded and TableFrozenWhileLocking with NSV and without; NoCircularWait and OperationsReturn without NSV |
| `registers` | cr0, cr3, efer; 2 values, 2 processors; 237 000 states | RegistersImplemented (refinement), SynchronizedIsFresh, VmrunLoadsVmcb |
| `nested_paging` | 4 pages in three 2MiB and two 1GiB regions, 2 backings, requests of up to 3 pages (MaxMap), unmapping one by one (MaxUnmap); 929 000 states | WalksInTables, SearchesMatchWalks, PageMapImplemented (refinement), any allocation failing |
| `run_vcpu` | 2 events; 821 000 states | RescissionOwed, EventsKept, DeliveredOnce, InterruptsTaken, RescissionSettled |
| `vm_lifetime` | 3 threads of 2 processes, 2 CVMs, 2 handles in tables of 1 (Capacity), 2 slots, counts modulo 4 (RefCounts); 1.8 million states up to symmetry | HandlesMeanVms, UsedVmsAlive, ExitReleasesAll |
| `page_ownership` | 2 threads, 1 CVM of 2 guest pages, 2 pages of data and 3 the driver allocates, in two regions of 2MiB and one of 1GiB; 4.2 million states up to symmetry | HostViewFollowsRmt, TablesProtected, SuccessMeansReassigned, ReleasedPagesReturned, any allocation failing |
| `svm_exits` | 2 VMCBs of L1, 2 nodes, 2 contents of one watched field, whichever it is (Start, the first ASID of CVMs, is 4); 1.6 million states up to symmetry | HostResumesAsWritten, NestedStateKept |
| `vt_exits` | 4 regions of 2 pages, 2 hooked pages, 2 variable MTRRs, 2 VMX areas; 240 000 states up to symmetry | HooksHidden, MemoryAsConfigured, NestedVmxSound |
| `vt_cvm` | 1 processor, 1 vCPU (Pinned), 6 registers, of each treatment that GuestStateKept covers; priorities up to 2 (Top); tables of 2 entries (Offsets) on 3 levels, 1 frame; 247 000 states | GuestStateKept, InterruptsRespected, MappedAsTold |
| `subversion` | 2 processors (CpuCount), 5 machines (Systems), 2 registers that the system writes (Written), 2 subversions (MaxBuilds); every allocation and VMX instruction may fail (MemoryMayRunOut, VmxMayFail), the broadcast not (BroadcastMayFail); 1 000 000 states | UsedMemoryHeld, OsSeesItsOwn, Released |

The type invariant is a theorem of all ten specifications, and the five later runs
check it too (HostTypeOK and ExitTypeOK are those of `subversion` and `vt_exits`).

Why the bounds are enough to meet the interesting cases:

- Two threads and two vCPUs are what a circular wait, an exclusion against a
  running vCPU and a table that changes under a loop take; more threads repeat
  the roles of these, and the proofs cover any number.
- Two processors are a migration; two registers of one group and one of
  another tell the group's bit from the register's; two values tell a fresh
  copy from a stale one.  In `vt_cvm` a register is fresh or not.
- The four pages share tables at some levels and not at others, in every
  combination a request of up to three pages can cross.
- Two events are one that waits and one that overtakes it.
- Two CVMs and two handles are reused at once, and tables of one entry make
  the second table appear.  The constraint `Bound` cuts behaviours only after
  a count has wrapped around, for which nothing is claimed.  `deliveries`
  saturates at 2, which is one more than allowed.
- Two regions of 2MiB with driver pages in both give a new table that lies in
  the region it splits and one that lies in the other, which decides whether a
  reassignment nests; page 0 is where an unset address leads.
- Two VMCBs of L1 over two nodes fall into one node or do not: a node reused
  for another VMCB, and two nodes whose ASIDs differ.
- Two MTRRs overlap or do not, and may be of the default type; two hooked
  pages in different regions are what one single step may take for the other.
- Two processors are one that enters and one that fails; two subversions are
  what memory left behind by the first can hurt.

`Focus` in the modules MCSvmExits, MCVtExits and MCVtCvm keeps parts that do
not touch each other from departing from their start together.  In
MCSvmExits these are the host's VMCB, with its events and NPIEP, and those of
its guests; in MCVtExits hooks, MTRRs, paging mode and nested VMX; in MCVtCvm
mappings, events and registers, with at most three tables of the last
level.  The theorems about `SvmExits`, `VtExits` and `VtCvm` do not have the constraint.
`subversion` takes four of the machines that options can give: VT with the
system-call hook, VT without the requirements of EPT and with the IOMMU, SVM with
the hook, and SVM with NSV and nested virtualisation.  UsedMemoryHeld leaves out
the allocations that the plan does without when they fail (DoneWithout).

Deadlock is checked except in `CvmExclusion` and `CvmLifetime`, where threads
really can come to wait for each other for ever (below), or all processes end;
in `PageOwnership`, where a creation that fails brings the host down (CreateFails); in
`SvmExits`, `VtExits` and `VtCvm`, which stop where the machine does: the
host waits for a start-up IPI, has halted, or each processor is lost to a
failed VMX instruction.

Runs that end in a violation show what the source says of itself and does not
do; each has an entry under "findings" that quotes the line:

| Run | What happens |
|---|---|
| `nsv_deadlock` | a guest's NSV request waits for the list lock while it owns its vCPU's lock, against the order of every other operation |
| `resume_with_nsv` | after sleep, the reverse-mapping table is rebuilt with the count of directories left by the first build, and the hypervisor does not start again |

Further configurations demonstrate a disagreement in the same way.  They are
kept for whoever repairs the code, and are run by hand with the module named:

| Configuration, module | Violated | What happens |
|---|---|---|
| `CvmExclusionReassign`, MCCvmExclusion | ReassignScheduledOut | ownership of pages is reassigned (`svm_custom.c:1378`) before the vCPUs are locked, though the reassignment demands that they be (`svm_npt.c:649`) |
| `CvmStateCacheCr4`, MCCvmStateCache | VmrunLoadsVmcb | an emulated write of CR4 leaves the clean bit set (`svm_cvexit.c:167`, unlike `svm_exit.c:133`), and the guest is resumed with the old CR4 |
| `CvmNestedPagingFailed`, MCCvmNestedPaging | FailedMappingUnmapped | "Failure of mapping will result in unmapping." (`svm_custom.c:1414`): a mapping that fails half way leaves pages mapped |
| `CvmRunNmi`, MCCvmRun | NmiKept | an NMI is lost when the vCPU leaves the guest before iret (`svm_cvexit.c:459`) |
| `CvmRunRescission`, MCCvmRun | RescissionKept | a rescission between the read and the write of a neighbouring bit-field is erased (`svm_custom.c:302`, 623) |
| `CvmLifetimeHaxm`, MCCvmLifetime | HaxCreationReturns | creation through HAXM (`haxm.c:113`) and the process callback (`layered.c:145`, 496) take two locks in opposite orders |
| `VtCvmMigration`, MCVtCvm | MigrationWorks | a vCPU that moves to another processor is not cleared on the old one (`vt_custom.c:75`, against `vt_core/readme.md:372`) |
| `SvmExitsSynchronize`, MCSvmExits | EverythingSynchronized | CPL, IDTR and AVIC of a nested guest are not copied as the other fields are (`svm_nvcpu.c:73`) |

The counterexample of `CvmRunRescission` depends on how the compiler writes a
bit-field; the one of `CvmStateCacheCr4` on a processor that caches the area.
The model allows both outcomes of each.

Every property has a mutant in PROJECT.json: a changed definition, such as a
guard dropped or a loop off by one, under which its run fails.  Mutants that
need a definition of their own are in the modules and say "mutant".

## 5. Fairness

- `CvmExclusion`: strong fairness of Continue(t) for each thread.  Scheduling is
  fair in the host, the guest is left at the latest when a physical interrupt
  is intercepted, and who finds a lock free again and again gets it: the push
  locks and resource locks of Windows queue their waiters.  Nothing makes a
  thread start an operation.
- `CvmRun`: weak fairness of the thread that runs the vCPU, including the
  delivery of an event the processor has in EVENTINJ.  Strong fairness of
  SchedulerExit, since host interrupts keep coming (the other exits depend on
  what the guest does, and nothing makes it do that); of AcceptInterrupts and of
  VirtIntExit, which is an assumption on the guest: that it enables interrupts
  again and again and is not interrupted each time before it takes one.
  InterruptsTaken also supposes that rescissions cease, as a vCPU that is always
  rescinded never enters.
- `CvmLifetime`: strong fairness of Continue(t), used by the demonstration
  `CvmLifetimeHaxm` only: the deadlock it finds is not a thread that stops.
- The other modules state none.  Their actions are exits, requests and writes
  that the guest, the host or the user may or may not make, and a machine on
  which nothing happens any more is a legal one.

## 6. The proofs

Each proof module extends the module it is about and proves its theorems for
every value of the constants that satisfies the named assumptions; each
follows from an inductive invariant, with one step per action.

- `CvmExclusionProofs`: TypeCorrect, LockDisciplineCorrect, MappingExclusion,
  NsvExclusion, TableFrozen, NoDeadlock, for any set of threads and any table
  length.  MappingExcluded alone is not inductive: that a thread owns the locks
  it needs (VcpuDiscipline) rests on the table not changing under it
  (ListDiscipline), and that a release frees no one else's lock rests on
  TargetDiscipline.  The invariant is the conjunction of the three with the
  type invariant; exclusion follows because two threads cannot own one vCPU's
  lock.  NoDeadlock needs no more: without NSV, a thread that waits for a
  vCPU's lock waits for one further along the table than those it owns, so in a
  circle of waiting threads the one furthest along would wait for nobody.
- `CvmStateCacheProofs`: TypeCorrect without conditions; SynchronizedFresh,
  CleanBitsCorrect and RegistersCorrect under `SoundUse`, for any processors
  and values.  The invariant Coherent says which copies are equal while the
  vCPU is out of guest mode, a clean area and the last processor's copy among
  them.  RegistersCorrect maps every step to a step of CvmRegisterFile or a
  stutter.
- `CvmNestedPagingProofs`: TypeCorrect, WalksCorrect, SearchesCorrect for any
  layout of regions that nests, and PageMapCorrect for hosts that unmap
  single pages (MaxUnmap = 1).  The invariant describes a creation under way:
  which tables are listed but not linked, where entries lead to frame 0, and
  that a table left behind by a failure is reached by nothing.  For the
  refinement it also says which pages of a request are done.
- `CvmRunProofs`: TypeCorrect, RescissionCorrect, EventsCorrect and
  DeliveryCorrect, for any number of events.  The invariant says, for each
  place in the run, in which of header, V_IRQ and EVENTINJ an event can be, and
  that it is in one of them only; it is conditional on Regular: events set
  between runs, no NMI among them.  A handler that raises an exception puts
  one with no host event behind it in EVENTINJ, which an exit has found empty
  (Raised, RaisedIsException).
- `CvmLifetimeProofs`: TypeCorrect, HandlesCorrect, UsedCorrect, ExitCorrect,
  for any processes, threads, tables and slots.  The invariant adds what
  a thread inside a call may rely on: a CVM being inserted has no handle yet,
  the handle of a release is no longer promised, a process that ends has no
  thread elsewhere, and entries are never above the maximum.
- `PageOwnershipProofs`: TypeCorrect, HostViewCorrect, TablesCorrect,
  ReassignmentCorrect, ReturnCorrect, for any threads, CVMs, pages and layout of
  regions.
  The invariant says what each call on the stack has done when an inner one
  returns (CallDiscipline), that only the owner of both locks has a stack
  (LockDiscipline, RequestDiscipline), and which pages' entries are between two
  values while a reassignment is under way (ViewDiscipline, TableDiscipline).
  ReturnCorrect adds who owns pages and why pages come back (ReturnInv): each
  request has a purpose, which its caller's place and its arguments fit; a page
  has one user, in a list, a table or a save area; and the calls that hand pages
  back reach regions that were split when the pages were taken, so that they
  need no memory.  Releases that find no memory for their list are set apart
  (the pages they name keep the ASID).
- `HostProofs`, about `Subversion`: HostTypeCorrect and ReleasedCorrect without
  conditions, UsedMemoryCorrect and OsSeesItsOwnCorrect while the broadcasts
  reach the processors (not BroadcastMayFail: noir_generic_call fails silently,
  and memory is then freed under a guest, see section 7), for any machines,
  processors and number of subversions.  A plan is three sequences in a row; that
  no item is asked for twice, that each item is of the clean-up or of the
  restoration, and that what a processor uses is asked for, are lemmas about it
  (PlanFacts, PlanProvides).  The invariant accounts for memory: what is
  allocated has a pointer and was asked for by the steps done so far (Accounted),
  each step done has got what it needs (Provided), dir_count lags behind the
  subversions (Counted).  Entered then says which processors may be inside at
  each stage, and OsKept where each register of the operating system is while
  they are.
- `HostProofs`, about `SvmExits`: TypeCorrect, ResumeCorrect,
  NestedStateCorrect, for any VMCBs, nodes and contents.  NestedInv says where
  the last content of the watched field is, L1's VMCB, the node's copy or the
  processor, and that the hash gives each VMCB one node; HostVmcbInv is the
  synchronisation of clean bits and TLB with what was written, and what NPIEP
  guards.
- `VtProofs`, about `VtCvm`: MappedCorrect for every use; TypeCorrect,
  GuestStateCorrect, InterruptsCorrect, for any processors, vCPUs and registers,
  while vCPUs stay where they are (Pinned), as migration is broken.  The invariant
  Sound says of each vCPU that its VMCS is on its processor only, that a register
  whose bit is valid is fresh in the VMCS and one whose bit is not is fresh in the
  structure, and that what is to be injected can be delivered.  That of the
  guest's mappings, TablesInv, says that no two tables of a level cover the same
  addresses (CoveredOnce), that an entry of a directory leads to the one table of
  the level below that covers its addresses, and is empty exactly if there is none
  (GigabytesLinked, MegabytesLinked), and that the tables of the last level hold
  what was asked for (Remembered): the list that is searched and the tree that is
  walked agree.
- `VtProofs`, about `VtExits`: ExitTypeCorrect, HooksHiddenCorrect,
  MemoryAsConfiguredCorrect and NestedVmxCorrect without conditions, for any
  regions, hooks, touched pages, number of MTRRs and what they may hold, and VMX
  areas.  Shape says which of the levels of the tables lead on and which map: a
  region with entries for its pages maps through them, but for the tables' own.
  Each operation on the tables has a lemma that says what it leaves (Carried for an
  update of the types, Remapped and Reset for mappings).  The invariant says that
  what the processor keeps is what the tables say (Coherent), that a hooked
  page always has an entry of its own, in one of the forms that hide the hook
  (HooksKept), that no entry is marked as covered between two updates (Fresh), and
  that the types follow unless an update was put off (TypesFollow).  TypesByUpdate
  is the loop over the MTRRs: after i of them an entry is marked exactly if one of
  these counts, and then has the strongest type (Follows); by induction on i.

Two proofs use induction over the natural numbers.  The library states it for a
predicate, which the provers cannot instantiate; SetInduction in `VtProofs`
states it for a set, and is proved from the fact that a set of natural
numbers that is not empty has a minimal element.  LoopExists shows in the same way
that the recursive definition of the loop has a function that satisfies it.

One proof attempt changed a property.  The region of the page tables themselves
is mapped large and read-only over entries of its pages that may exist already.
If an MTRR for a page of that region comes later, the region is split again and
the old entries return, with the types, and the permissions, that they had
before: `nvc_ept_split_pde` links a table again that was described once.
MemoryAsConfigured leaves that region out; a run with MTRRs there shows the old
type.

The refinements of the two abstract specifications are proved under the
conditions named above.  Only model-checked are:

- OperationsReturn, InterruptsTaken and RescissionSettled, and the violations
  of ExclusionGained, ResumeRestarts and the demonstrations: they need fairness,
  which the prover does not treat, or are refuted and not proved.

## 7. What is not modelled

In the modules:

- `CvmRun`: exits for an invalid VMCB, AVIC and NSV guests, a second thread
  that runs the same vCPU; the clean bit of the virtual-TPR area.
- `CvmNestedPaging`: pages of 2MiB and 1GiB, two mapping operations at once.
- `CvmLifetime`: the vCPU devices of HAXM, the VM list (`nvc_svmc_create_vm`),
  the use of a handle that a thread of the same process is releasing.
- `CvmExclusion`: the release of a whole VM; operations on the last of its 256
  slots, which set_mapping leaves out (MapSlots), for TLC.
- `PageOwnership`: the save areas of secure vCPUs, encryption of page contents.
- `SvmExits`: exits that only read, and the virtualised LBRs.
- `VtCvm`: creation and release of VMs, release of vCPUs and the VPID pool, the
  control bits options choose, edits of parts of a group, rescission, and edits
  while the vCPU runs.
- `Subversion`: a process's own use of CVMs across sleep, and a second control
  request while one is under way.

Components without a module:

- ASID and VPID pools, locker lists, handle trees, AVL trees and the scan of
  code pages are left on the plan of section 2.
- IOMMU tables and the host's page tables, which are built once, beyond their
  place in the plan of `Subversion`; device drivers, the debugger, the UEFI
  host, disassembly and assembly stubs, which are I/O or straight-line code; the
  translation of calls by the HAXM, WHP and MSHV fronts.

Reading the code for the models brought up further places that deserve a look.
Those that a property bears on are hazards in PROJECT.json; the others are:

- *CVM interface.* Accessing bits are cleared with the list lock shared and no
  vCPU lock (`noirhvm.c:1169`); concurrent mappings append to the same
  descriptor lists (`noirhvm.c:1101`); set_event_injection writes without a
  lock (`noirhvm.c:832`); the exit context is copied after the unlock
  (`noirhvm.c:896`); the list lock is dropped before the vCPU is used
  (`noirhvm.c:950`); the slot that a locker list frees is off (`noirhvm.c:1066`);
  a creation that fails removes an entry that was not inserted (`noirhvm.c:1247`);
  a CVM is leaked when its handle cannot be made (`layered.c:209`).
- *SVM, CVMs.* The VM becomes an NSV guest though its VMCB's reassignment failed
  (`svm_custom.c:657`); guests walk tables while unmapping builds them
  (`svm_custom.c:1121`); the query of accessing bits may loop for ever
  (`svm_custom.c:1517`); the list of guest pages is handed over before it is
  filled (`svm_custom.c:1378`); a failed creation releases a vCPU whose `vm` is
  not set (`svm_custom.c:880`); an emulated MSR access advances rip in the wrong
  place (`svm_cvexit.c:889`) or, when not intercepted by the user, not at all
  (`svm_cvexit.c:762`); an iret window may repeat (`svm_cvexit.c:463`); the
  interrupt window clears another clean bit than the one it needs
  (`svm_cvexit.c:350`); live registers are lost when NSV is activated
  (`svm_cvnsv.c:71`).
- *SVM, host.* A reassignment fails when its new table lies in the region it
  splits (`svm_npt.c:591`); the TLB flush after a remap is commented out
  (`svm_npt.c:572`); the sense of the GIF test for a redirected INIT is inverted
  and a SIPI is kept when nobody waits (`svm_exit.c:322`, 338); sldt and str test
  the bit of sgdt (`svm_exit.c:536`, 604); MSR handlers advance rip after raising
  #GP (`svm_exit.c:1035`); reading the host save area's MSR zeroes it
  (`svm_exit.c:859`).
- *VT, host.* vmxon succeeds without advancing rip (`vt_exit.c:708`); rdmsr of a
  VMX MSR falls through after #GP; the binary search of hooks goes one past the
  end (`vt_exit.c:1291`); an instruction in a hooked page that reads that page
  faults for ever; a memory type update of a split region reports failure
  (`vt_ept.c:227`); the test of `ignore_mt` is inverted (`vt_ept.c:316`); the
  types of disabled MTRRs are not reset.
- *VT, CVMs.* The valid bit of an injected event is never cleared; the test of
  IF is inverted (`vt_custom.c:269`); a read of CR3 writes it
  (`vt_cvexit.c:556`); the condition of xsetbv's #GP is inverted
  (`vt_cvexit.c:868`); cpuid's results are not written back; vCPUs have no lock;
  a dump reads the VMCS of the host (`vt_custom.c:309`); a failed first entry
  leaves the VMCS clear for a vmresume; offsets in large pages are wrong
  (`vt_custom.c:784`, 806); mapping changes are not followed by invept; the VPID
  is compared with a wider constant (`vt_custom.c:1084`) and freed without
  invvpid.
- *Subversion.* The power callback leaves NoirHypervisorStarted set and ignores
  the build's result (`winhvm.c:558`), and runs with CVMs alive (`winhvm.c:566`);
  two control requests race (`winhvm.c:421`); the clean-up leaves pointers that a
  second failing build frees again (`vt_main.c:113`); memory is freed under
  processors that a silently failed broadcast never reached (`nvsys.c:270`); EPT
  and VPID are enabled without their requirements, and success is reported
  though every vmlaunch failed; leaving VT loses DR7, IA32_DEBUGCTL, DS and ES, and
  leaving either engine an LSTAR the system wrote (`svm_exit.c:1124`).
