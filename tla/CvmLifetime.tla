---------------------------- MODULE CvmLifetime ----------------------------
(***************************************************************************)
(* The life of CVMs in the Windows layer of NoirVisor.                     *)
(*                                                                         *)
(* A process creates CVMs and names them by handles, indices into a table  *)
(* that the push lock HandleTableLock protects.  A CVM is released when    *)
(* its handle is, and when the process that created it ends: a callback of *)
(* the kernel walks the table and releases what the process has left.      *)
(* The HAXM front keeps its own list of VMs, HaxVmList, under a lock of    *)
(* its own, and counts on that list to learn of CVMs that are released.    *)
(* Closing a VM device of HAXM is to take a reference off the CVM.         *)
(*                                                                         *)
(* One step is one section under a lock, or what happens between two.      *)
(***************************************************************************)
EXTENDS Integers, FiniteSets

CONSTANTS
  Threads,    \* threads of the processes
  Procs,      \* processes
  Owner,      \* Owner[t]: the process of thread t
  VMs,        \* addresses of CVM structures
  MaxHandles, \* bound: handles 0 .. MaxHandles - 1
  Capacity,   \* entries of one table of the lowest level (512 in the code)
  MaxSlots,   \* length of HaxVmList (8 in the code)
  RefCounts,  \* values of ref_count (2^32 in the code)
  None        \* null: no thread, no CVM

Handles == 0 .. MaxHandles - 1
Slots == 0 .. MaxSlots - 1
NoHandle == -1

ASSUME OwnerAssumption == Owner \in [Threads -> Procs]
ASSUME BoundAssumption ==
  /\ MaxHandles \in Nat \ {0} /\ MaxSlots \in Nat \ {0} /\ RefCounts \in Nat \ {0, 1}
  /\ Capacity \in 1 .. MaxHandles
ASSUME NoneAssumption == None \notin Threads \cup VMs

VARIABLES
  alive,       \* CVM structures that are allocated
  ref_count,   \* ref_count[v]: references to v
  pid,         \* pid[v]: the process that created v
  entry,       \* the handle table
  max_handle,  \* NoirCvmHandleTable.MaximumHandleValue
  leaves,      \* tables of the lowest level
  table_lock,  \* exclusive owner of HandleTableLock across steps
  hax,         \* HaxVmList[s].Handle
  hax_lock,    \* owner of HaxVmDeviceListLock across steps
  pc,          \* where each thread is
  vm,          \* the CVM each thread works on
  handle,      \* the handle each thread works on
  slot,        \* the slot of HaxVmList a thread has chosen
  dead,        \* processes that have ended
  promised,    \* history: handles returned and not released: <<handle, CVM, process>>
  leaked,      \* history: CVMs that got no handle
  wrapped      \* history: a CVM was released because its ref_count has wrapped around

cvms == <<alive, ref_count, pid>>
table == <<entry, max_handle, leaves>>
locks == <<table_lock, hax_lock>>
local == <<vm, handle, slot>>
history == <<promised, leaked, wrapped>>
vars == <<cvms, table, hax, locks, pc, local, dead, history>>

TablePcs == {"exit", "exit_hax"}
HaxPcs == {"hax_vm", "hax_insert"}
InsertPcs == {"insert", "hax_insert"}
ClosePcs == {"close", "deref", "close_entry", "close_hax", "deref_again"}
Pcs == {"idle", "release", "hax_notify", "lookup", "use"}
         \cup TablePcs \cup HaxPcs \cup InsertPcs \cup ClosePcs

Init ==
  /\ alive = {} /\ ref_count = [v \in VMs |-> 0]
  /\ pid \in [VMs -> Procs]
  /\ entry = [h \in Handles |-> None]
  /\ max_handle = 0
  /\ leaves = 1
  /\ hax = [s \in Slots |-> NoHandle]
  /\ table_lock = None /\ hax_lock = None
  /\ pc = [t \in Threads |-> "idle"]
  /\ vm = [t \in Threads |-> None]
  /\ handle = [t \in Threads |-> NoHandle]
  /\ slot = [t \in Threads |-> 0]
  /\ dead = {}
  /\ promised = {} /\ leaked = {} /\ wrapped = FALSE

Goto(t, where) == pc' = [pc EXCEPT ![t] = where]

\* A thread comes back from a call, and forgets what it worked on.
Return(t) ==
  /\ Goto(t, "idle")
  /\ vm' = [vm EXCEPT ![t] = None]
  /\ handle' = [handle EXCEPT ![t] = NoHandle]
  /\ slot' = [slot EXCEPT ![t] = 0]

Calls(t) == pc[t] = "idle" /\ Owner[t] \notin dead

-----------------------------------------------------------------------------
(* Creating.                                                               *)

\* nvc_create_vm; a creation that fails leaves nothing.
AllocateVm(t) ==
  \E v \in VMs \ alive :
    /\ alive' = alive \cup {v}
    /\ ref_count' = [ref_count EXCEPT ![v] = 1]
    /\ pid' = [pid EXCEPT ![v] = Owner[t]]
    /\ leaked' = leaked \ {v}
    /\ vm' = [vm EXCEPT ![t] = v]

CreateVm(t) ==
  /\ Calls(t)
  /\ AllocateVm(t)
  /\ Goto(t, "insert")
  /\ UNCHANGED <<table, hax, locks, handle, slot, dead, promised, wrapped>>

\* NoirHaxCreateVirtualMachine takes its lock and the first free slot.
HaxCreate(t) ==
  /\ Calls(t)
  /\ hax_lock = None
  /\ \E s \in Slots :
       /\ hax[s] = NoHandle /\ \A r \in Slots : hax[r] = NoHandle => s <= r
       /\ slot' = [slot EXCEPT ![t] = s]
  /\ hax_lock' = t
  /\ Goto(t, "hax_vm")
  /\ UNCHANGED <<cvms, table, hax, table_lock, vm, handle, dead, history>>

HaxCreateVm(t) ==
  /\ pc[t] = "hax_vm"
  /\ AllocateVm(t)
  /\ Goto(t, "hax_insert")
  /\ UNCHANGED <<table, hax, locks, handle, slot, dead, promised, wrapped>>

HaxCreateFails(t) ==
  /\ pc[t] = "hax_vm"
  /\ hax_lock' = None
  /\ Return(t)
  /\ UNCHANGED <<cvms, table, hax, table_lock, dead, history>>

\* NoirCreateHandle finds the first vacant entry, and makes tables up to it.
FirstVacant(h) == entry[h] = None /\ \A g \in Handles : entry[g] = None => h <= g
HasTable(h) == h < leaves * Capacity

InsertKeepMaximum(t, h) == \* mutant: MaximumHandleValue is not updated
  /\ FirstVacant(h)
  /\ entry' = [entry EXCEPT ![h] = vm[t]]
  /\ leaves' = IF HasTable(h) THEN leaves ELSE leaves + 1
  /\ UNCHANGED max_handle
InsertHandle(t, h) ==
  /\ FirstVacant(h)
  /\ entry' = [entry EXCEPT ![h] = vm[t]]
  /\ leaves' = IF HasTable(h) THEN leaves ELSE leaves + 1
  /\ max_handle' = IF h > max_handle THEN h ELSE max_handle

\* The handle is not made because there is no memory for a table.
NoTable == \E h \in Handles : FirstVacant(h) /\ ~HasTable(h)

Insert(t) ==
  /\ pc[t] = "insert" /\ table_lock = None
  /\ \E h \in Handles :
       /\ InsertHandle(t, h)
       /\ promised' = promised \cup {<<h, vm[t], Owner[t]>>}
  /\ Return(t)
  /\ UNCHANGED <<cvms, hax, locks, dead, leaked, wrapped>>

\* NoirCreateVirtualMachine does not release the CVM.
InsertFails(t) ==
  /\ pc[t] = "insert" /\ table_lock = None
  /\ NoTable
  /\ leaked' = leaked \cup {vm[t]}
  /\ Return(t)
  /\ UNCHANGED <<cvms, table, hax, locks, dead, promised, wrapped>>

HaxInsert(t) ==
  /\ pc[t] = "hax_insert" /\ table_lock = None
  /\ \E h \in Handles :
       /\ InsertHandle(t, h)
       /\ hax' = [hax EXCEPT ![slot[t]] = h]
  /\ hax_lock' = None
  /\ Return(t)
  /\ UNCHANGED <<cvms, table_lock, dead, history>>

\* The search for an entry has left 0 in the handle, which is the slot's.
HaxInsertFails(t) ==
  /\ pc[t] = "hax_insert" /\ table_lock = None
  /\ NoTable
  /\ hax' = [hax EXCEPT ![slot[t]] = 0]
  /\ hax_lock' = None
  /\ leaked' = leaked \cup {vm[t]}
  /\ Return(t)
  /\ UNCHANGED <<cvms, table, table_lock, dead, promised, wrapped>>

-----------------------------------------------------------------------------
(* Using and releasing.  A process uses the handles it was given.  It does *)
(* not release one that another of its threads uses: the layer does not    *)
(* guard against that, as it holds no reference while a CVM is used.       *)

Use(t) ==
  /\ Calls(t)
  /\ \E p \in promised : p[3] = Owner[t] /\ handle' = [handle EXCEPT ![t] = p[1]]
  /\ Goto(t, "lookup")
  /\ UNCHANGED <<cvms, table, hax, locks, vm, slot, dead, history>>

\* NoirReferenceVirtualMachineByHandle drops the lock before the CVM is used.
Lookup(t) ==
  /\ pc[t] = "lookup" /\ table_lock = None
  /\ IF entry[handle[t]] = None
       THEN Return(t)
       ELSE /\ vm' = [vm EXCEPT ![t] = entry[handle[t]]]
            /\ Goto(t, "use")
            /\ UNCHANGED <<handle, slot>>
  /\ UNCHANGED <<cvms, table, hax, locks, dead, history>>

UseDone(t) ==
  /\ pc[t] = "use"
  /\ Return(t)
  /\ UNCHANGED <<cvms, table, hax, locks, dead, history>>

NotUsed(h, p) ==
  \A t \in Threads : Owner[t] = p /\ handle[t] = h => pc[t] \notin {"lookup", "use"}

Release(t) ==
  /\ Calls(t)
  /\ \E p \in promised :
       /\ p[3] = Owner[t] /\ NotUsed(p[1], p[3])
       /\ handle' = [handle EXCEPT ![t] = p[1]]
       /\ promised' = promised \ {p}
  /\ Goto(t, "release")
  /\ UNCHANGED <<cvms, table, hax, locks, vm, slot, dead, leaked, wrapped>>

\* nvc_release_vm and NoirDeleteHandleUnsafe, under the table lock.
ReleaseEntry(t, h) ==
  /\ alive' = alive \ {entry[h]}
  /\ entry' = [entry EXCEPT ![h] = None]
  /\ UNCHANGED <<ref_count, pid, max_handle, leaves>>

ReleaseVm(t) ==
  /\ pc[t] = "release" /\ table_lock = None
  /\ ReleaseEntry(t, handle[t])
  /\ Goto(t, "hax_notify")
  /\ UNCHANGED <<hax, locks, local, dead, history>>

\* NoirHaxRemoveVirtualMachineNotification clears the first slot with the
\* handle, if there is one.
ClearSlot(h) ==
  hax' = [s \in Slots |->
            IF hax[s] = h /\ \A r \in Slots : hax[r] = h => s <= r THEN NoHandle ELSE hax[s]]

HaxNotify(t) ==
  /\ pc[t] = "hax_notify" /\ hax_lock = None
  /\ ClearSlot(handle[t])
  /\ Return(t)
  /\ UNCHANGED <<cvms, table, locks, dead, history>>

-----------------------------------------------------------------------------
(* NoirCreateProcessNotifyRoutine, called by the last thread of a process. *)

ProcessExit(t) ==
  /\ Calls(t) /\ table_lock = None
  /\ \A u \in Threads : Owner[u] = Owner[t] => pc[u] = "idle"
  /\ table_lock' = t
  /\ dead' = dead \cup {Owner[t]}
  /\ promised' = {p \in promised : p[3] # Owner[t]}
  /\ Goto(t, "exit")
  /\ UNCHANGED <<cvms, table, hax, hax_lock, local, leaked, wrapped>>

AllLeft(t) == {h \in Handles : h <= max_handle /\ entry[h] # None} \* mutant: pid ignored
LeftBy(t) ==
  {h \in Handles : h <= max_handle /\ entry[h] # None /\ pid[entry[h]] = Owner[t]}

ExitRelease(t) ==
  /\ pc[t] = "exit"
  /\ \E h \in LeftBy(t) :
       /\ \A g \in LeftBy(t) : h <= g
       /\ ReleaseEntry(t, h)
       /\ handle' = [handle EXCEPT ![t] = h]
  /\ Goto(t, "exit_hax")
  /\ UNCHANGED <<hax, locks, vm, slot, dead, history>>

ExitNotify(t) ==
  /\ pc[t] = "exit_hax" /\ hax_lock = None
  /\ ClearSlot(handle[t])
  /\ Goto(t, "exit")
  /\ UNCHANGED <<cvms, table, locks, local, dead, history>>

ExitDone(t) ==
  /\ pc[t] = "exit" /\ LeftBy(t) = {}
  /\ table_lock' = None
  /\ Return(t)
  /\ UNCHANGED <<cvms, table, hax, hax_lock, dead, history>>

-----------------------------------------------------------------------------
(* NoirHaxDispatchClose: a process, or the kernel once it has ended, closes *)
(* the VM device of a slot, whatever CVM the slot leads to by then.         *)

HaxClose(t) ==
  /\ pc[t] = "idle"
  /\ \E s \in Slots : handle' = [handle EXCEPT ![t] = hax[s]]
  /\ Goto(t, "close")
  /\ UNCHANGED <<cvms, table, hax, locks, vm, slot, dead, history>>

\* The handle -1 of a slot without a CVM leads to the last entry of a table of
\* one level; with more levels it leads to null, and the machine stops.
Index(h) == IF h = NoHandle THEN Capacity - 1 ELSE h
Leads(h) == h = NoHandle => leaves = 1

\* NoirDecrementVirtualMachineReference.
CloseLookup(t) ==
  /\ pc[t] = "close" /\ table_lock = None /\ Leads(handle[t])
  /\ LET v == entry[Index(handle[t])]
     IN  IF v = None
           THEN Return(t)
           ELSE vm' = [vm EXCEPT ![t] = v] /\ Goto(t, "deref") /\ UNCHANGED <<handle, slot>>
  /\ UNCHANGED <<cvms, table, hax, locks, dead, history>>

\* nvc_deref_vm takes what _InterlockedDecrement returns, the new count, for
\* the previous one, and releases a CVM that has one reference left.  As
\* nothing in the driver takes references, a count gets there from 1 when it
\* has wrapped around.
Decremented(v) == IF ref_count[v] = 0 THEN RefCounts - 1 ELSE ref_count[v] - 1
Destroying(v) == Decremented(v) = 1

Dereference(v) ==
  /\ ref_count' = [ref_count EXCEPT ![v] = Decremented(v)]
  /\ alive' = IF Destroying(v) THEN alive \ {v} ELSE alive
  /\ wrapped' = (wrapped \/ Destroying(v))
  /\ UNCHANGED <<pid, promised, leaked>>

Deref(t) ==
  /\ pc[t] = "deref"
  /\ Dereference(vm[t])
  /\ Goto(t, IF Destroying(vm[t]) THEN "close_entry" ELSE "deref_again")
  /\ UNCHANGED <<table, hax, locks, local, dead>>

CloseEntry(t) ==
  /\ pc[t] = "close_entry" /\ table_lock = None /\ Leads(handle[t])
  /\ entry' = [entry EXCEPT ![Index(handle[t])] = None]
  /\ Goto(t, "close_hax")
  /\ UNCHANGED <<cvms, max_handle, leaves, hax, locks, local, dead, history>>

CloseNotify(t) ==
  /\ pc[t] = "close_hax" /\ hax_lock = None
  /\ ClearSlot(handle[t])
  /\ Goto(t, "deref_again")
  /\ UNCHANGED <<cvms, table, locks, local, dead, history>>

\* The return statement dereferences the CVM a second time.
DerefAgain(t) ==
  /\ pc[t] = "deref_again"
  /\ Dereference(vm[t])
  /\ Return(t)
  /\ UNCHANGED <<table, hax, locks, dead>>

-----------------------------------------------------------------------------
Call(t) == CreateVm(t) \/ HaxCreate(t) \/ Use(t) \/ Release(t) \/ ProcessExit(t) \/ HaxClose(t)

Continue(t) ==
  \/ HaxCreateVm(t) \/ HaxCreateFails(t)
  \/ Insert(t) \/ InsertFails(t) \/ HaxInsert(t) \/ HaxInsertFails(t)
  \/ Lookup(t) \/ UseDone(t) \/ ReleaseVm(t) \/ HaxNotify(t)
  \/ ExitRelease(t) \/ ExitNotify(t) \/ ExitDone(t)
  \/ CloseLookup(t) \/ Deref(t) \/ CloseEntry(t) \/ CloseNotify(t) \/ DerefAgain(t)

Next == \E t \in Threads : Call(t) \/ Continue(t)

Spec == Init /\ [][Next]_vars

\* A thread inside a call goes on, and gets a lock that is free again and again.
Fairness == \A t \in Threads : SF_vars(Continue(t))

FairSpec == Spec /\ Fairness

-----------------------------------------------------------------------------
(* Properties.                                                             *)

CvmTypes == /\ alive \subseteq VMs /\ ref_count \in [VMs -> 0 .. RefCounts - 1]
            /\ pid \in [VMs -> Procs]
            /\ entry \in [Handles -> VMs \cup {None}]
            /\ max_handle \in Nat /\ leaves \in Nat
FrontTypes == /\ hax \in [Slots -> Handles \cup {NoHandle}]
              /\ table_lock \in Threads \cup {None} /\ hax_lock \in Threads \cup {None}
LocalTypes == /\ pc \in [Threads -> Pcs]
              /\ vm \in [Threads -> VMs \cup {None}]
              /\ handle \in [Threads -> Handles \cup {NoHandle}]
              /\ slot \in [Threads -> Slots]
HistoryTypes == /\ dead \subseteq Procs
                /\ promised \subseteq Handles \X VMs \X Procs
                /\ leaked \subseteq VMs
                /\ wrapped \in BOOLEAN
\* Where a thread works on a handle, and on a CVM.
HandlePcs == {"lookup", "use", "release", "hax_notify", "exit_hax"}
VmPcs == InsertPcs \cup {"use", "deref", "close_entry", "close_hax", "deref_again"}

\* Every variable has its type, and a thread that works on a handle or a CVM
\* has one.
TypeOK ==
  /\ CvmTypes /\ FrontTypes /\ LocalTypes /\ HistoryTypes
  /\ \A t \in Threads : pc[t] \in HandlePcs => handle[t] \in Handles
  /\ \A t \in Threads : pc[t] \in VmPcs => vm[t] \in VMs

\* A handle names the CVM it was returned for, which is alive, until its
\* process releases it or ends: whatever other processes create, release and
\* reuse, whatever VM devices are closed, as long as no count has wrapped around.
HandlesMeanVms ==
  ~wrapped => \A p \in promised : /\ entry[p[1]] = p[2]
                                 /\ p[2] \in alive
                                 /\ pid[p[2]] = p[3]

\* A CVM that NoirReferenceVirtualMachineByHandle has returned stays alive
\* while its caller uses it, although the lock of the table is not held: no
\* other release, and no process that ends, takes it away.
UsedVmsAlive == ~wrapped => \A t \in Threads : pc[t] = "use" => vm[t] \in alive

\* When the callback for a process has returned, none of the CVMs of the
\* process is left, except those that never got a handle.
ExitReleasesAll ==
  ~wrapped => \A v \in alive \ leaked :
    pid[v] \in dead => \E t \in Threads : Owner[t] = pid[v] /\ pc[t] \in TablePcs

\* layered.c, NoirCreateHandle: "this function acquires the lock, so do what
\* you should do to circumvent deadlocking": a creation by way of HAXM, which
\* calls it with a lock of its own, comes back.
HaxCreationReturns == \A t \in Threads : pc[t] = "hax_insert" ~> pc[t] = "idle"
=============================================================================
