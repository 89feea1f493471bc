---------------------------- MODULE CvmExclusion ----------------------------
(***************************************************************************)
(* Locking of one customizable VM (CVM) in the SVM core of NoirVisor.      *)
(*                                                                         *)
(* Every vCPU has a push lock (vcpu_lock) held while the vCPU runs, and    *)
(* the VM has a resource lock (vcpu_list_lock), shared or exclusive, that  *)
(* protects the table of vCPUs.  "Exclusion of the VM" means that no vCPU  *)
(* is in guest mode; it is gained by taking the locks of all the vCPUs.    *)
(* Host threads issue the operations of the CVM interface concurrently:    *)
(* run a vCPU, set or unset a mapping, query or clear the accessing bits,  *)
(* create and release vCPUs.  A guest may ask for NSV (secure VM) services *)
(* whose host part is executed under exclusion by the running thread.      *)
(*                                                                         *)
(* One step is one acquisition or release of a lock, or the critical work  *)
(* between two of them.                                                    *)
(***************************************************************************)
EXTENDS Integers, FiniteSets

CONSTANTS
  Threads,    \* host threads that use the VM
  Slots,      \* length of the vCPU table vm->vcpu (256 in the code)
  MapSlots,   \* slots nvc_svmc_set_mapping iterates over (255 in the code)
  None        \* no thread

ASSUME SlotsAssumption == Slots \in Nat \ {0} /\ MapSlots \in Nat /\ MapSlots <= Slots
ASSUME NoneAssumption == None \notin Threads

VARIABLES
  vcpu,        \* slots of vm->vcpu that are not null
  vcpu_lock,   \* owner of each vCPU's push lock
  list_owner,  \* exclusive owner of vcpu_list_lock
  list_shared, \* threads holding vcpu_list_lock shared
  pc,          \* where each thread is
  target,      \* the vCPU each thread operates on
  cursor,      \* loop variable of a thread locking all vCPUs
  enable_nsv,  \* hvm_p->options.enable_nsv, set when NoirVisor is loaded
  nsv_guest,   \* vm->header.properties.nsv_guest
  ownership,   \* RMT ownership of a representative page of guest memory
  vmcb_secure  \* vCPUs whose VMCB page is owned by the secure guest

locks == <<vcpu_lock, list_owner, list_shared>>
nsv == <<enable_nsv, nsv_guest, ownership, vmcb_secure>>
vars == <<vcpu, locks, pc, target, cursor, nsv>>

Ids == 0 .. Slots - 1
Owners == {"subverted_host", "insecure_guest", "secure_guest"}

\* Threads waiting for the list lock exclusively.
AwaitPcs == {"nsv_list", "create_list", "release_list"}
\* Threads holding the list lock exclusively.
ExclusivePcs == {"nsv_lock", "nsv_work", "nsv_free", "create", "release_lock", "release_free"}
\* Threads holding the list lock shared.
SharedPcs == {"map_reassign", "map_lock", "map_write", "map_unlock",
              "unmap_reassign", "unmap", "query", "clear", "list_unlock"}
\* Threads holding the push lock of their own vCPU.
RunPcs == {"guest", "nsv_list", "nsv_lock", "nsv_work", "nsv_free", "run_unlock"}
ReleasePcs == {"release_list", "release_lock", "release_free"}
Pcs == {"idle", "run_lock"} \cup AwaitPcs \cup ExclusivePcs \cup SharedPcs \cup RunPcs

Init ==
  /\ vcpu = {}
  /\ vcpu_lock = [v \in Ids |-> None]
  /\ list_owner = None
  /\ list_shared = {}
  /\ pc = [t \in Threads |-> "idle"]
  /\ target = [t \in Threads |-> 0]
  /\ cursor = [t \in Threads |-> 0]
  /\ enable_nsv \in BOOLEAN
  /\ nsv_guest = FALSE
  /\ ownership = "subverted_host"
  /\ vmcb_secure = {}

Goto(t, where) == pc' = [pc EXCEPT ![t] = where]

-----------------------------------------------------------------------------
(* The locks.                                                              *)

\* ExAcquireResourceSharedLite: a waiting exclusive acquirer blocks new sharers.
CanShare == list_owner = None /\ \A u \in Threads : pc[u] \notin AwaitPcs
CanExcludeSharers == list_owner = None \* mutant: ignores the sharers
CanExclude == list_owner = None /\ list_shared = {}

AcquireShared(t) == /\ CanShare
                    /\ list_shared' = list_shared \cup {t}
                    /\ UNCHANGED list_owner
AcquireExclusive(t) == /\ CanExclude
                       /\ list_owner' = t
                       /\ UNCHANGED list_shared
AcquireVcpu(t, v) == /\ vcpu_lock[v] = None
                     /\ vcpu_lock' = [vcpu_lock EXCEPT ![v] = t]
\* Releasing re-reads the table: it frees the lock of every slot listed.
ReleaseVcpus(S) == vcpu_lock' = [v \in Ids |-> IF v \in S THEN None ELSE vcpu_lock[v]]

-----------------------------------------------------------------------------
(* nvc_run_vcpu.  The caller first resolves the vCPU with                  *)
(* nvc_reference_vcpu, under the list lock shared, and drops that lock.    *)

\* The user hypervisor keeps vCPUs it is releasing and vCPUs it uses apart.
NotReleasing(v) == \A u \in Threads : target[u] = v => pc[u] \notin ReleasePcs
NotRunning(v) == \A u \in Threads : target[u] = v => pc[u] \notin RunPcs \cup {"run_lock"}

RunReference(t) ==
  /\ pc[t] = "idle" /\ CanShare
  /\ \E v \in vcpu : NotReleasing(v) /\ target' = [target EXCEPT ![t] = v]
  /\ Goto(t, "run_lock")
  /\ UNCHANGED <<vcpu, locks, cursor, nsv>>

RunLock(t) ==
  /\ pc[t] = "run_lock"
  /\ AcquireVcpu(t, target[t])
  /\ Goto(t, "guest")
  /\ UNCHANGED <<vcpu, list_owner, list_shared, target, cursor, nsv>>

\* The guest leaves to the host for an ordinary reason...
GuestExit(t) ==
  /\ pc[t] = "guest"
  /\ Goto(t, "run_unlock")
  /\ UNCHANGED <<vcpu, locks, target, cursor, nsv>>

GuestNsvExitUnchecked(t) == \* mutant: the NSV option is not checked
  /\ pc[t] = "guest"
  /\ Goto(t, "nsv_list")
  /\ UNCHANGED <<vcpu, locks, target, cursor, nsv>>

\* ... or because it asks for an NSV service that needs exclusion.
GuestNsvExit(t) ==
  /\ pc[t] = "guest" /\ enable_nsv
  /\ Goto(t, "nsv_list")
  /\ UNCHANGED <<vcpu, locks, target, cursor, nsv>>

RunUnlock(t) ==
  /\ pc[t] = "run_unlock"
  /\ ReleaseVcpus({target[t]})
  /\ Goto(t, "idle")
  /\ UNCHANGED <<vcpu, list_owner, list_shared, target, cursor, nsv>>

(* nvc_svmc_gain_exclusion and nvc_svmc_free_exclusion.                    *)
GainList(t) ==
  /\ pc[t] = "nsv_list"
  /\ AcquireExclusive(t)
  /\ cursor' = [cursor EXCEPT ![t] = 0]
  /\ Goto(t, "nsv_lock")
  /\ UNCHANGED <<vcpu, vcpu_lock, target, nsv>>

OtherVcpus(t) == vcpu \ {target[t]}
GainPendingFromOne(t) == {v \in OtherVcpus(t) : v > cursor[t]} \* mutant: first slot missed
GainPending(t) == {v \in OtherVcpus(t) : v >= cursor[t]}

\* Take the lock of the next vCPU in ascending order.
LockNext(t, pending) ==
  \E v \in pending :
    /\ \A w \in pending : v <= w
    /\ AcquireVcpu(t, v)
    /\ cursor' = [cursor EXCEPT ![t] = v + 1]

GainVcpu(t) ==
  /\ pc[t] = "nsv_lock"
  /\ LockNext(t, GainPending(t))
  /\ UNCHANGED <<vcpu, list_owner, list_shared, pc, target, nsv>>

GainDone(t) ==
  /\ pc[t] = "nsv_lock" /\ GainPending(t) = {}
  /\ Goto(t, "nsv_work")
  /\ UNCHANGED <<vcpu, locks, target, cursor, nsv>>

FreeExclusionAll(t) == \* mutant: the caller's own lock is freed as well
  /\ pc[t] = "nsv_free"
  /\ ReleaseVcpus(vcpu)
  /\ list_owner' = None
  /\ Goto(t, "run_unlock")
  /\ UNCHANGED <<vcpu, list_shared, target, cursor, nsv>>

FreeExclusion(t) ==
  /\ pc[t] = "nsv_free"
  /\ ReleaseVcpus(OtherVcpus(t))
  /\ list_owner' = None
  /\ Goto(t, "run_unlock")
  /\ UNCHANGED <<vcpu, list_shared, target, cursor, nsv>>

(* cv_scheduler_nsv_activate: (de)activate NSV.  The list of VMCB pages    *)
(* may fail to be allocated, and then no page is reassigned.               *)
NsvActivate(t) ==
  /\ pc[t] = "nsv_work"
  /\ \E activation, allocated \in BOOLEAN :
       /\ nsv_guest' = activation
       /\ ownership' = IF allocated /\ ~activation /\ ownership = "secure_guest"
                         THEN "insecure_guest" ELSE ownership
       /\ vmcb_secure' = IF ~allocated THEN vmcb_secure
                         ELSE IF activation THEN vcpu ELSE {}
  /\ Goto(t, "nsv_free")
  /\ UNCHANGED <<vcpu, locks, target, cursor, enable_nsv>>

(* cv_scheduler_nsv_claim_security: the guest makes pages secure or not.   *)
NsvClaim(t) ==
  /\ pc[t] = "nsv_work"
  /\ ownership' \in {"secure_guest", "insecure_guest", ownership}
  /\ Goto(t, "nsv_free")
  /\ UNCHANGED <<vcpu, locks, target, cursor, enable_nsv, nsv_guest, vmcb_secure>>

-----------------------------------------------------------------------------
(* nvc_set_mapping and the accessing-bit operations, all under the list    *)
(* lock shared.                                                            *)

ListOperation(t) ==
  /\ pc[t] = "idle"
  /\ AcquireShared(t)
  /\ \E op \in {"map_reassign", "unmap_reassign", "query", "clear"} : Goto(t, op)
  /\ UNCHANGED <<vcpu, vcpu_lock, target, cursor, nsv>>

MapOwnership == IF enable_nsv THEN {"secure_guest", "insecure_guest"} ELSE {ownership}

\* nvc_svmc_set_mapping reassigns the pages before it gains exclusion, and
\* gives up on a reverse-mapping violation or a large page.
MapReassign(t) ==
  /\ pc[t] = "map_reassign"
  /\ \/ /\ ownership' \in MapOwnership
        /\ Goto(t, "map_lock") \/ Goto(t, "list_unlock")
     \/ /\ ownership' = ownership \* no memory, or noir_nsv_violation
        /\ Goto(t, "list_unlock")
  /\ cursor' = [cursor EXCEPT ![t] = 0]
  /\ UNCHANGED <<vcpu, locks, target, enable_nsv, nsv_guest, vmcb_secure>>

MapVcpus == {v \in vcpu : v < MapSlots}
MapPendingFromOne(t) == {v \in MapVcpus : v > cursor[t]} \* mutant: first slot missed
MapPending(t) == {v \in MapVcpus : v >= cursor[t]}

MapVcpu(t) ==
  /\ pc[t] = "map_lock"
  /\ LockNext(t, MapPending(t))
  /\ UNCHANGED <<vcpu, list_owner, list_shared, pc, target, nsv>>

MapDone(t) ==
  /\ pc[t] = "map_lock" /\ MapPending(t) = {}
  /\ Goto(t, "map_write")
  /\ UNCHANGED <<vcpu, locks, target, cursor, nsv>>

\* The nested page table and the TLB state of the vCPUs are written here.
MapWrite(t) ==
  /\ pc[t] = "map_write"
  /\ Goto(t, "map_unlock")
  /\ UNCHANGED <<vcpu, locks, target, cursor, nsv>>

MapUnlockOnSuccess(t) == \* mutant: the failure path returns with the locks
  /\ pc[t] = "map_unlock"
  /\ \/ ReleaseVcpus(MapVcpus) /\ Goto(t, "list_unlock")
     \/ UNCHANGED vcpu_lock /\ Goto(t, "unmap_reassign")
  /\ UNCHANGED <<vcpu, list_owner, list_shared, target, cursor, nsv>>

\* A failed mapping results in unmapping, once the locks are released.
MapUnlock(t) ==
  /\ pc[t] = "map_unlock"
  /\ ReleaseVcpus(MapVcpus)
  /\ Goto(t, "list_unlock") \/ Goto(t, "unmap_reassign")
  /\ UNCHANGED <<vcpu, list_owner, list_shared, target, cursor, nsv>>

UnmapReassign(t) ==
  /\ pc[t] = "unmap_reassign"
  /\ \/ ownership' = (IF enable_nsv THEN "subverted_host" ELSE ownership) /\ Goto(t, "unmap")
     \/ ownership' = ownership /\ Goto(t, "list_unlock")
  /\ UNCHANGED <<vcpu, locks, target, cursor, enable_nsv, nsv_guest, vmcb_secure>>

\* Page-table work with the list lock shared and no vCPU locked.
SharedWork(t) ==
  /\ pc[t] \in {"unmap", "query", "clear"}
  /\ Goto(t, "list_unlock")
  /\ UNCHANGED <<vcpu, locks, target, cursor, nsv>>

ListUnlock(t) ==
  /\ pc[t] = "list_unlock"
  /\ list_shared' = list_shared \ {t}
  /\ Goto(t, "idle")
  /\ UNCHANGED <<vcpu, vcpu_lock, list_owner, target, cursor, nsv>>

-----------------------------------------------------------------------------
(* nvc_svmc_create_vcpu and nvc_svmc_release_vcpu.                         *)

CreateCall(t) ==
  /\ pc[t] = "idle"
  /\ \E v \in Ids : target' = [target EXCEPT ![t] = v]
  /\ Goto(t, "create_list")
  /\ UNCHANGED <<vcpu, locks, cursor, nsv>>

CreateLock(t) ==
  /\ pc[t] = "create_list"
  /\ AcquireExclusive(t)
  /\ Goto(t, "create")
  /\ UNCHANGED <<vcpu, vcpu_lock, target, cursor, nsv>>

\* An occupied slot is left alone.  A new VMCB belongs to the insecure guest.
CreateVcpu(t) ==
  /\ pc[t] = "create"
  /\ vcpu' = vcpu \cup {target[t]}
  /\ list_owner' = None
  /\ Goto(t, "idle")
  /\ UNCHANGED <<vcpu_lock, list_shared, target, cursor, nsv>>

ReleaseReference(t) ==
  /\ pc[t] = "idle" /\ CanShare
  /\ \E v \in vcpu : /\ NotReleasing(v) /\ NotRunning(v)
                     /\ target' = [target EXCEPT ![t] = v]
  /\ Goto(t, "release_list")
  /\ UNCHANGED <<vcpu, locks, cursor, nsv>>

ReleaseList(t) ==
  /\ pc[t] = "release_list"
  /\ AcquireExclusive(t)
  /\ Goto(t, "release_lock")
  /\ UNCHANGED <<vcpu, vcpu_lock, target, cursor, nsv>>

ReleaseLock(t) ==
  /\ pc[t] = "release_lock"
  /\ AcquireVcpu(t, target[t])
  /\ Goto(t, "release_free")
  /\ UNCHANGED <<vcpu, list_owner, list_shared, target, cursor, nsv>>

ReleaseVcpu(t) ==
  /\ pc[t] = "release_free"
  /\ vcpu' = vcpu \ {target[t]}
  /\ vmcb_secure' = vmcb_secure \ {target[t]}
  /\ ReleaseVcpus({target[t]})
  /\ list_owner' = None
  /\ Goto(t, "idle")
  /\ UNCHANGED <<list_shared, target, cursor, enable_nsv, nsv_guest, ownership>>

-----------------------------------------------------------------------------
\* A thread inside an operation goes on.
Continue(t) ==
  \/ RunLock(t) \/ GuestExit(t) \/ GuestNsvExit(t) \/ RunUnlock(t)
  \/ GainList(t) \/ GainVcpu(t) \/ GainDone(t) \/ NsvActivate(t) \/ NsvClaim(t)
  \/ FreeExclusion(t)
  \/ MapReassign(t) \/ MapVcpu(t) \/ MapDone(t) \/ MapWrite(t) \/ MapUnlock(t)
  \/ UnmapReassign(t) \/ SharedWork(t) \/ ListUnlock(t)
  \/ CreateLock(t) \/ CreateVcpu(t) \/ ReleaseList(t) \/ ReleaseLock(t) \/ ReleaseVcpu(t)

\* A user hypervisor starts an operation on an idle thread.
Start(t) == RunReference(t) \/ ListOperation(t) \/ CreateCall(t) \/ ReleaseReference(t)

Next == \E t \in Threads : Start(t) \/ Continue(t)

Spec == Init /\ [][Next]_vars

\* An acquirer that keeps finding its lock free eventually gets it.
Fairness == \A t \in Threads : SF_vars(Continue(t))

FairSpec == Spec /\ Fairness

-----------------------------------------------------------------------------
(* Invariants.                                                             *)

\* Every variable has its type.
TypeOK ==
  /\ vcpu \subseteq Ids
  /\ vcpu_lock \in [Ids -> Threads \cup {None}]
  /\ list_owner \in Threads \cup {None}
  /\ list_shared \subseteq Threads
  /\ pc \in [Threads -> Pcs]
  /\ target \in [Threads -> Ids]
  /\ cursor \in [Threads -> 0 .. Slots]
  /\ enable_nsv \in BOOLEAN
  /\ nsv_guest \in BOOLEAN
  /\ ownership \in Owners
  /\ vmcb_secure \subseteq Ids

\* The push locks a thread must hold, from where it is in its operation.
Held(t) ==
  {v \in Ids :
     \/ pc[t] \in RunPcs \cup {"release_free"} /\ v = target[t]
     \/ pc[t] = "nsv_lock" /\ v \in OtherVcpus(t) /\ v < cursor[t]
     \/ pc[t] \in {"nsv_work", "nsv_free"} /\ v \in OtherVcpus(t)
     \/ pc[t] = "map_lock" /\ v \in MapVcpus /\ v < cursor[t]
     \/ pc[t] \in {"map_write", "map_unlock"} /\ v \in MapVcpus}

\* The list lock is owned, or shared, exactly by the threads inside the
\* sections that take it, and never both at once.
ListDiscipline ==
  /\ \A t \in Threads : list_owner = t <=> pc[t] \in ExclusivePcs
  /\ list_shared = {t \in Threads : pc[t] \in SharedPcs}
  /\ list_owner # None => list_shared = {}

\* A thread owns a push lock exactly while its operation needs it: no lock
\* is leaked, and none is freed by a thread that does not own it, although
\* the release loops read the table of vCPUs again.
VcpuDiscipline ==
  \A t \in Threads, v \in Ids : vcpu_lock[v] = t <=> v \in Held(t)

\* A vCPU in use is in the table, and not being released by another thread.
TargetDiscipline ==
  /\ \A t \in Threads :
       pc[t] \in RunPcs \cup ReleasePcs \cup {"run_lock"} => target[t] \in vcpu
  /\ \A t, u \in Threads :
       t # u /\ target[t] = target[u] /\ pc[t] \in ReleasePcs
         => pc[u] \notin RunPcs \cup ReleasePcs \cup {"run_lock"}

\* The locking discipline of run, map, create and release, as a whole.
LockDiscipline == ListDiscipline /\ VcpuDiscipline /\ TargetDiscipline

\* While set_mapping edits the nested page table under "Exclusion of VM", no
\* vCPU it iterates over is in guest mode.
MappingExcluded ==
  \A t, u \in Threads :
    pc[t] = "map_write" /\ pc[u] = "guest" => target[u] >= MapSlots

\* NSV is (de)activated, and pages are claimed, while no other vCPU is in
\* guest mode and no other thread works on the VM's mappings.
NsvExcluded ==
  \A t, u \in Threads :
    pc[t] = "nsv_work" /\ u # t => pc[u] # "guest" /\ pc[u] \notin SharedPcs

\* The threads a thread is blocked by.
FirstOf(pending) == {v \in pending : \A w \in pending : v <= w}
WaitsFor(t) ==
  IF pc[t] \in AwaitPcs THEN ({list_owner} \cup list_shared) \ {None}
  ELSE LET wanted == CASE pc[t] \in {"run_lock", "release_lock"} -> {target[t]}
                       [] pc[t] = "nsv_lock" -> FirstOf(GainPending(t))
                       [] pc[t] = "map_lock" -> FirstOf(MapPending(t))
                       [] OTHER -> {}
       IN {vcpu_lock[v] : v \in wanted} \ {None}

\* Without NSV, no set of threads waits in a circle on vCPU locks and the
\* list lock.
NoCircularWait ==
  ~enable_nsv => ~ \E S \in SUBSET Threads :
      S # {} /\ \A t \in S : WaitsFor(t) \cap S # {}

-----------------------------------------------------------------------------
(* Action and liveness properties.                                         *)

\* The table of vCPUs does not change while a thread locks all the vCPUs or
\* is about to unlock them all, whose loops read the table once per pass.
TableFrozenWhileLocking ==
  [][vcpu' # vcpu =>
       \A t \in Threads : pc[t] \notin {"nsv_lock", "nsv_work", "nsv_free",
                                        "map_lock", "map_write", "map_unlock"}]_vars

\* Without NSV, an operation inside the driver comes back to the user
\* hypervisor.
OperationsReturn ==
  \A t \in Threads :
    ~enable_nsv /\ pc[t] \notin {"idle"} \cup AwaitPcs ~> pc[t] = "idle"

-----------------------------------------------------------------------------
(* What comments in the source say of the locking, and the code refutes.   *)

\* svm_npt.c, nvc_npt_reassign_page_ownership: "Schedule out all vCPUs from
\* execution before reassignment!": ownership changes with no other vCPU in
\* guest mode.
ReassignScheduledOut ==
  [][ownership' # ownership => \A u \in Threads : pc[u] # "guest"]_vars

\* svm_custom.c, nvc_svmc_run_vcpu: "(De)Activation of NSV must be done under
\* exclusion": a guest's request for it gains exclusion.
ExclusionGained == \A t \in Threads : pc[t] = "nsv_list" ~> pc[t] = "nsv_work"

=============================================================================
