------------------------------ MODULE Subversion ------------------------------
(***************************************************************************)
(* Subverting a running system and restoring it: the requests (from the    *)
(* control program, from the power callback, from the unloading of the     *)
(* driver), the allocations of nvc_vt_subvert_system or                    *)
(* nvc_svm_subvert_system one by one, each of which may be refused, the    *)
(* broadcasts that send a DPC to every processor, and the clean-up.        *)
(*                                                                         *)
(* Freeing a stale pointer or a null table, reading freed memory and       *)
(* running on a null page table are undefined behaviour: stage "ub", where *)
(* nothing more is said of the system.                                     *)
(***************************************************************************)
EXTENDS HostProcessor, FiniteSets

CONSTANTS
  Systems,            \* set of [engine, caps, options]
  MemoryMayRunOut,    \* may an allocation of a subversion be refused?
  BroadcastMayFail,   \* may noir_generic_call be refused its buffer?
  VmxMayFail,         \* may vmxon, vmclear and vmptrld fail?
  Written,            \* <<processor, register>> that the operating system writes
  MaxBuilds           \* bound: subversions per behaviour
ASSUME SystemsAssumption ==
  Systems \subseteq [engine : Engines, caps : SUBSET CapNames, options : SUBSET OptionNames]
ASSUME ConstantsAssumption ==
  /\ {MemoryMayRunOut, BroadcastMayFail, VmxMayFail} \subseteq BOOLEAN
  /\ Written \subseteq Procs \X (Regs \ {"enable", "rip"})
  /\ MaxBuilds \in Nat

VARIABLES
  sys,        \* the machine, one of Systems
  started,    \* NoirHypervisorStarted
  asleep,     \* the system has been told that it sleeps
  call,       \* the request that is being served, or "none"
  stage,      \* "idle", "plan", "launch", "leave", "unloaded" or "ub"
  at,         \* the next step of the plan
  todo,       \* processors whose DPC has not run yet
  held, ptr,  \* memory that is allocated; pointers that are not null
  lost,       \* memory that is allocated and that no pointer points to
  dirs,       \* rmd.dir_count
  builds,     \* subversions that were begun
  failed,     \* history: did one fail?
  proc,       \* the processors
  os          \* history: what the operating system has in its registers

memory == <<held, ptr, lost, dirs>>
hostVars == <<sys, started, asleep, call, stage, at, todo, memory, builds, failed, proc, os>>

Calls == {"none", "subvert", "resume", "restore", "suspend", "unload"}
Stages == {"idle", "plan", "launch", "leave", "unloaded", "ub"}
plan == Plan(sys.engine, sys.options)
step == plan[at]
HostCr3 == IF <<"hcr3">> \in ptr THEN "hv" ELSE "null"

HostInit ==
  /\ sys \in Systems
  /\ started = FALSE /\ asleep = FALSE /\ call = "none" /\ stage = "idle"
  /\ at = 1 /\ todo = {} /\ held = {} /\ ptr = {} /\ lost = {} /\ dirs = 0
  /\ builds = 0 /\ failed = FALSE
  /\ proc = [p \in Procs |-> NewProc]
  /\ os = [p \in Procs |-> NewProc.real]

Undefined == /\ stage' = "ub"
             /\ UNCHANGED <<sys, started, asleep, call, at, todo, memory, builds, failed, proc, os>>

------------------------------------------------------------------------------
(* nvc_build_hypervisor *)

Build(request) ==
  /\ builds < MaxBuilds
  /\ call' = request /\ stage' = "plan" /\ at' = 1 /\ builds' = builds + 1
  /\ UNCHANGED <<sys, started, todo, memory, failed, proc, os>>

\* NoirBuildHypervisor does nothing when the hypervisor is started already.
Subvert == /\ stage = "idle" /\ ~asleep /\ ~started
           /\ Build("subvert")
           /\ UNCHANGED asleep

\* The power callback builds whatever is marked as started.
ResumeFromSleep == /\ stage = "idle" /\ asleep /\ asleep' = FALSE
          /\ IF started THEN Build("resume")
             ELSE UNCHANGED <<sys, started, call, stage, at, todo, memory, builds, failed, proc, os>>

\* alloc_failure: nvc_vt_cleanup or nvc_svm_cleanup (a debugger handles the
\* breakpoint before the latter).  The power callback ignores the failure.
FailWith(h, pt, d) ==
  IF CleansUp(sys.engine, h, pt, d)
  THEN /\ held' = h \ ToFree(sys.engine, pt)
       /\ call' = "none" /\ stage' = "idle" /\ failed' = TRUE /\ UNCHANGED at
  ELSE /\ held' = h /\ stage' = "ub" /\ UNCHANGED <<call, at, failed>>

Advance == at' = at + 1 /\ UNCHANGED <<call, stage, failed>>

\* A step that gets the first n of its items.
Allocate(n) ==
  LET got == {step.items[i] : i \in 1 .. n} \cap Items
      assigned == {step.items[i] : i \in (1 .. n + 1) \cap DOMAIN step.items} \cap Items
      \* a new array of virtual processors is zeroed
      reset == assigned \cup IF <<"virtual_cpu">> \in assigned THEN CpuItems ELSE {}
      h == (held \ reset) \cup got
      pt == (ptr \ reset) \cup got
      d == IF <<"rmd">> \in got THEN dirs + 1 ELSE dirs
      complete == n = Len(step.items) /\ (<<"rmt">> \in got => d = 1)
  IN /\ lost' = lost \cup (held \cap reset)
     /\ ptr' = pt /\ dirs' = d
     /\ IF complete \/ step.optional THEN Advance /\ held' = h ELSE FailWith(h, pt, d)
     /\ UNCHANGED <<sys, started, asleep, todo, builds, proc, os>>

Skip == Advance /\ UNCHANGED <<sys, started, asleep, todo, memory, builds, proc, os>>
Fail == /\ FailWith(held, ptr, dirs)
        /\ UNCHANGED <<sys, started, asleep, todo, ptr, lost, dirs, builds, proc, os>>

\* nvc_vt_iommu_initialize: n = 0, no manager; 1, its tables are refused, so the
\* clean-up frees the manager, too, and leaves its pointer; 2, the regions are
\* not registered.  Registering them inserts into the tree of MMIO hooks.
Iommu(n) ==
  IF \/ n = 0 /\ <<"iommu">> \in ptr \ held
     \/ n = 3 /\ <<"mmio_hooks">> \in ptr \ held
  THEN Undefined
  ELSE LET got == CASE n = 3 -> {<<"iommu">>, <<"mmio_hooks">>} [] n = 2 -> {<<"iommu">>} [] OTHER -> {}
       IN /\ held' = held \cup got
          /\ ptr' = ptr \cup got \cup IF n > 0 THEN {<<"iommu">>} ELSE {}
          /\ Advance
          /\ UNCHANGED <<sys, started, asleep, todo, lost, dirs, builds, proc, os>>

Prepare ==
  /\ stage = "plan" /\ at <= Len(plan)
  /\ LET null == <<"virtual_cpu">> \notin ptr IN
     CASE step.array = "loop" /\ null  -> Skip
       [] step.array = "check"         -> IF null THEN Fail ELSE Skip
       [] step = IommuStep             -> \E n \in IF MemoryMayRunOut THEN 0 .. 3 ELSE {3} : Iommu(n)
       [] OTHER ->
            \E n \in IF MemoryMayRunOut THEN 0 .. Len(step.items) ELSE {Len(step.items)} :
              IF n > 0 /\ (~(StepReads(step, ptr, dirs) \subseteq held) \/ (step.array = "use" /\ null))
              THEN Undefined ELSE Allocate(n)

------------------------------------------------------------------------------
(* noir_generic_call: one DPC per processor, in any order.  Without memory   *)
(* for the DPCs it does nothing, and does not say so.                        *)

BroadcastOneMore ==   \* mutant of Broadcast: the loop goes to Num, too
  todo' = 0 .. CpuCount \/ (BroadcastMayFail /\ todo' = {})
Broadcast == todo' = Procs \/ (BroadcastMayFail /\ todo' = {})

Launch == /\ stage = "plan" /\ at > Len(plan) /\ stage' = "launch"
          /\ Broadcast
          /\ UNCHANGED <<sys, started, asleep, call, at, memory, builds, failed, proc, os>>

Subverted(p, fault) ==
  IF sys.engine = "vt" THEN VtSubvert(sys.options, sys.caps, proc[p], p, HostCr3, fault)
  ELSE SvmSubvert(sys.options, proc[p], p, HostCr3)

Faults == {"none"} \cup IF VmxMayFail /\ sys.engine = "vt" THEN {"vmxon", "vmclear", "vmptrld"} ELSE {}

\* The hook answers LSTAR with orig_system_call, read when the driver was loaded:
\* what has been written to it since is forgotten.
Hook(p) == os' = IF Hooked(sys.options) THEN [os EXCEPT ![p]["lstar"] = "os"] ELSE os

\* On SVM the processor itself moves to the hypervisor's page table.
SubvertProcessor(p) ==
  /\ stage = "launch" /\ p \in todo
  /\ IF sys.engine = "svm" /\ HostCr3 = "null" THEN Undefined
     ELSE /\ \E fault \in Faults : proc' = [proc EXCEPT ![p] = Subverted(p, fault)]
          /\ todo' = todo \ {p}
          /\ Hook(p)
          /\ UNCHANGED <<sys, started, asleep, call, stage, at, memory, builds, failed>>

\* Success is reported whatever the processors answered.
LaunchDone == /\ stage = "launch" /\ todo = {}
              /\ stage' = "idle" /\ call' = "none"
              /\ started' = (started \/ call = "subvert")
              /\ UNCHANGED <<sys, asleep, at, todo, memory, builds, failed, proc, os>>

------------------------------------------------------------------------------
(* nvc_teardown_hypervisor *)

Ended(request) ==
  /\ call' = "none"
  /\ started' = (started /\ request = "suspend")
  /\ asleep' = (request = "suspend")
  /\ stage' = IF request = "unload" THEN "unloaded" ELSE "idle"

\* Nothing is done without virtual processors; a stale array is used.
TearDown(request) ==
  CASE <<"virtual_cpu">> \notin ptr ->
         Ended(request) /\ UNCHANGED <<sys, at, todo, memory, builds, failed, proc, os>>
    [] <<"virtual_cpu">> \in ptr \ held -> Undefined
    [] OTHER ->
         /\ call' = request /\ stage' = "leave"
         /\ Broadcast
         /\ UNCHANGED <<sys, started, asleep, at, memory, builds, failed, proc, os>>
NothingToDo(request) == Ended(request) /\ UNCHANGED <<sys, at, todo, memory, builds, failed, proc, os>>

Restore == stage = "idle" /\ ~asleep /\ started /\ TearDown("restore")
Suspend == /\ stage = "idle" /\ ~asleep
           /\ IF started THEN builds < MaxBuilds /\ TearDown("suspend") ELSE NothingToDo("suspend")
Unload == /\ stage = "idle" /\ ~asleep
          /\ IF started THEN TearDown("unload") ELSE NothingToDo("unload")

Restored(p) == IF sys.engine = "vt" THEN VtRestore(sys.options, p) ELSE SvmRestore(p)

\* Leaving SVM loads LSTAR with orig_system_call, hook or not: what the guest has
\* written to it is forgotten, too.
Unhook(p) == os' = IF sys.engine = "svm" /\ proc[p].mode = "guest" THEN [os EXCEPT ![p]["lstar"] = "os"] ELSE os

RestoreProcessor(p) ==
  /\ stage = "leave" /\ p \in todo
  /\ proc' = [proc EXCEPT ![p] = Restored(@)] /\ todo' = todo \ {p}
  /\ Unhook(p)
  /\ UNCHANGED <<sys, started, asleep, call, stage, at, memory, builds, failed>>

\* The IOMMU is finalized before the clean-up, the CPUID handlers (whose pointer
\* is nulled) and the lock of SVM's list of VMs after it.
FinalizesIommu == "enable_iommu" \in sys.options /\ <<"iommu">> \in ptr
Finalized ==
  {<<"cpuid_handlers">>} \cup (IF sys.engine = "svm" THEN {<<"vm_list_lock">>} ELSE {})
    \cup (IF FinalizesIommu THEN {<<"iommu">>} ELSE {})
RestoreDone ==
  /\ stage = "leave" /\ todo = {}
  /\ IF CleansUp(sys.engine, held, ptr, dirs) /\ (FinalizesIommu => <<"iommu">> \in held)
     THEN /\ held' = held \ (ToFree(sys.engine, ptr) \cup Finalized)
          /\ ptr' = ptr \ {<<"cpuid_handlers">>}
          /\ Ended(call)
          /\ UNCHANGED <<sys, at, todo, lost, dirs, builds, failed, proc, os>>
     ELSE Undefined

------------------------------------------------------------------------------
(* The operating system in the meantime.  No step of a plan reads or changes  *)
(* a processor, so writes are left out there: they may as well come before.   *)

OsWrites(p, r, v) ==
  /\ stage \in {"idle", "launch", "leave"} /\ ~asleep
  /\ proc' = [proc EXCEPT ![p] = Write(sys.engine, sys.options, @, r, v)]
  /\ os' = [os EXCEPT ![p][r] = v]
  /\ UNCHANGED <<sys, started, asleep, call, stage, at, todo, memory, builds, failed>>

\* The first exit on a null page table.
HostLost(p) ==
  /\ stage \notin {"ub", "unloaded"} /\ proc[p].mode = "guest" /\ proc[p].host["cr3"] = "null"
  /\ Undefined

Stopped == stage \in {"ub", "unloaded"} /\ UNCHANGED hostVars

HostNext ==
  \/ Subvert \/ ResumeFromSleep \/ Prepare \/ Launch \/ LaunchDone
  \/ Restore \/ Suspend \/ Unload \/ RestoreDone
  \/ \E p \in Procs : SubvertProcessor(p) \/ RestoreProcessor(p) \/ HostLost(p)
  \/ \E w \in Written, v \in {"os", "os2"} : OsWrites(w[1], w[2], v)
  \/ Stopped

HostSpec == HostInit /\ [][HostNext]_hostVars

------------------------------------------------------------------------------
(* Properties *)

\* Every variable has its type.
HostTypeOK ==
  /\ sys \in Systems /\ {started, asleep, failed} \subseteq BOOLEAN
  /\ call \in Calls /\ stage \in Stages
  /\ at \in 1 .. Len(plan) + 1 /\ todo \subseteq Procs
  /\ held \subseteq Items /\ ptr \subseteq Items /\ lost \subseteq Items
  /\ dirs \in 0 .. MaxBuilds /\ builds \in 0 .. MaxBuilds
  /\ proc \in [Procs -> ProcType] /\ os \in [Procs -> [Regs -> Vals]]

\* Whatever allocation was refused and whatever instruction failed: a processor
\* that is in VMX operation or in the guest uses allocated memory only, as the
\* clean-up comes after every processor has left (nvc_vt_restore_system,
\* nvc_svm_restore_system) or before any has entered (alloc_failure).  What the
\* plan does without is not covered: nvc_vt_setup_io_hook_p writes the address
\* of an I/O bitmap whether or not there is one.
DoneWithout == {<<"io_bitmap_a">>, <<"io_bitmap_b">>, <<"hcr3">>, <<"pdpt">>}
UsedMemoryHeld ==
  stage # "ub" =>
    \A p \in Procs : proc[p].mode # "off" =>
      proc[p].refs \ (IF MemoryMayRunOut THEN DoneWithout ELSE {}) \subseteq held

\* The operating system reads what it last wrote, in the guest, where the
\* system-call hook and the enabling bits are hidden from it, and outside, where
\* the exit call has put back what the hypervisor replaces for itself.  Not
\* covered, as leaving loses them: DR7, the selectors of VT, among them TR if it
\* has been loaded since the subversion, and, until the next one, LSTAR.
PutBack(p) ==
  {"cr3", "cr4", "gdtr", "idtr", "rip"}
    \cup (IF sys.engine = "vt" /\ <<p, "tr">> \in Written THEN {} ELSE {"tr"})
OsSeesItsOwn ==
  stage # "ub" =>
    \A p \in Procs :
      \A r \in PutBack(p) \cup (IF proc[p].mode = "guest" THEN {"enable", "lstar"} ELSE {}) :
        View(sys.engine, sys.options, proc[p])[r] = os[p][r]

\* Once the hypervisor is stopped, by a request, by sleep or because memory ran
\* out, its memory is freed.  Only a failed subversion keeps some: what the
\* clean-up does not know (Kept), and at the next one that is lost.
Released ==
  stage \in {"idle", "unloaded"} /\ (~started \/ asleep) =>
    held \cup lost \subseteq IF failed THEN Kept(sys.engine) ELSE {}

\* winhvm.c, NoirPowerStateCallback: "System is resuming from sleeping or
\* hibernating. Restart the hypervisor."  With memory enough, the hypervisor is
\* back on every processor once a resume is over.
ResumeRestarts ==
  /\ stage # "ub"
  /\ stage = "idle" /\ started /\ ~asleep => \A p \in Procs : proc[p].mode = "guest"
=============================================================================
