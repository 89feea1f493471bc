------------------------- MODULE CvmLifetimeProofs -------------------------
(***************************************************************************)
(* Proofs about CvmLifetime, for any processes, threads and CVMs, and any  *)
(* size of the handle table and of HaxVmList.                              *)
(***************************************************************************)
EXTENDS CvmLifetime, TLAPS

-----------------------------------------------------------------------------
(* Types.                                                                  *)

\* The variables shared by the threads keep their types.
LEMMA SharedStep ==
  ASSUME TypeOK, NEW t \in Threads, Call(t) \/ Continue(t)
  PROVE  CvmTypes' /\ FrontTypes' /\ HistoryTypes'
<1> USE OwnerAssumption, BoundAssumption, NoneAssumption
    DEF TypeOK, CvmTypes, FrontTypes, HistoryTypes, Handles, Slots, NoHandle,
        HandlePcs, VmPcs, InsertPcs, ClosePcs, Return, Goto, Calls, table, cvms,
        locks, local, history
<1>0. Owner[t] \in Procs /\ pc[t] \in Pcs BY DEF LocalTypes
<1>1. CASE CreateVm(t) BY <1>0, <1>1 DEF CreateVm, AllocateVm
<1>2. CASE HaxCreate(t) BY <1>0, <1>2 DEF HaxCreate
<1>3. CASE HaxCreateVm(t) BY <1>0, <1>3 DEF HaxCreateVm, AllocateVm
<1>4. CASE HaxCreateFails(t) BY <1>0, <1>4 DEF HaxCreateFails
<1>5. CASE Insert(t)
  <2>1. vm[t] \in VMs BY <1>5 DEF Insert
  <2> QED BY <1>0, <1>5, <2>1 DEF Insert, InsertHandle
<1>6. CASE InsertFails(t) BY <1>0, <1>6 DEF InsertFails
<1>7. CASE HaxInsert(t)
  <2>1. vm[t] \in VMs BY <1>7 DEF HaxInsert
  <2> QED BY <1>0, <1>7, <2>1 DEF HaxInsert, InsertHandle, LocalTypes
<1>8. CASE HaxInsertFails(t) BY <1>0, <1>8 DEF HaxInsertFails, LocalTypes
<1>9. CASE Use(t) \/ Lookup(t) \/ UseDone(t) BY <1>9 DEF Use, Lookup, UseDone
<1>10. CASE Release(t) BY <1>10 DEF Release
<1>11. CASE ReleaseVm(t) BY <1>11 DEF ReleaseVm, ReleaseEntry
<1>12. CASE HaxNotify(t) \/ ExitNotify(t) \/ CloseNotify(t)
  BY <1>12 DEF HaxNotify, ExitNotify, CloseNotify, ClearSlot
<1>13. CASE ProcessExit(t) BY <1>0, <1>13 DEF ProcessExit
<1>14. CASE ExitRelease(t) BY <1>14 DEF ExitRelease, ReleaseEntry, LeftBy
<1>15. CASE ExitDone(t) BY <1>15 DEF ExitDone
<1>16. CASE HaxClose(t) BY <1>16 DEF HaxClose
<1>17. CASE CloseLookup(t) BY <1>17 DEF CloseLookup
<1>18. CASE Deref(t) \/ DerefAgain(t)
  <2>1. vm[t] \in VMs BY <1>18 DEF Deref, DerefAgain
  <2>2. Decremented(vm[t]) \in 0 .. RefCounts - 1
    <3>1. ref_count[vm[t]] \in 0 .. RefCounts - 1 BY <2>1
    <3> QED BY <3>1 DEF Decremented
  <2>3. /\ ref_count' = [ref_count EXCEPT ![vm[t]] = Decremented(vm[t])]
        /\ alive' \in {alive, alive \ {vm[t]}} /\ wrapped' \in BOOLEAN
        /\ UNCHANGED <<pid, entry, max_handle, leaves, hax, table_lock, hax_lock,
                       dead, promised, leaked>>
    BY <1>18 DEF Deref, DerefAgain, Dereference
  <2> QED BY <2>2, <2>3
<1>19. CASE CloseEntry(t) BY <1>19 DEF CloseEntry
<1> QED BY <1>1, <1>2, <1>3, <1>4, <1>5, <1>6, <1>7, <1>8, <1>9, <1>10, <1>11, <1>12,
           <1>13, <1>14, <1>15, <1>16, <1>17, <1>18, <1>19 DEF Call, Continue

\* A step keeps the types of the variables of its thread, and leaves those of
\* the other threads alone.
LEMMA LocalStep ==
  ASSUME TypeOK, NEW t \in Threads, Call(t) \/ Continue(t)
  PROVE  /\ LocalTypes'
         /\ pc'[t] \in HandlePcs => handle'[t] \in Handles
         /\ pc'[t] \in VmPcs => vm'[t] \in VMs
         /\ \A u \in Threads \ {t} :
              pc'[u] = pc[u] /\ vm'[u] = vm[u] /\ handle'[u] = handle[u]
<1> USE OwnerAssumption, BoundAssumption, NoneAssumption
    DEF TypeOK, LocalTypes, Handles, Slots, NoHandle, TablePcs, HaxPcs,
        HandlePcs, VmPcs, InsertPcs, ClosePcs, Pcs, Return, Goto, Calls, local
<1>1. CASE CreateVm(t) BY <1>1 DEF CreateVm, AllocateVm
<1>2. CASE HaxCreate(t) BY <1>2 DEF HaxCreate
<1>3. CASE HaxCreateVm(t) BY <1>3 DEF HaxCreateVm, AllocateVm
<1>4. CASE HaxCreateFails(t) BY <1>4 DEF HaxCreateFails
<1>5. CASE Insert(t) \/ InsertFails(t) \/ HaxInsert(t) \/ HaxInsertFails(t)
  BY <1>5 DEF Insert, InsertFails, HaxInsert, HaxInsertFails
<1>6. CASE Use(t)
  <2>1. \A p \in promised : p[1] \in Handles BY DEF HistoryTypes
  <2> QED BY <1>6, <2>1 DEF Use
<1>7. CASE Lookup(t)
  <2>1. handle[t] \in Handles BY <1>7 DEF Lookup
  <2>2. entry[handle[t]] \in VMs \cup {None} BY <2>1 DEF CvmTypes
  <2> QED BY <1>7, <2>1, <2>2 DEF Lookup
<1>8. CASE UseDone(t) \/ HaxNotify(t) \/ ExitDone(t) \/ DerefAgain(t)
  BY <1>8 DEF UseDone, HaxNotify, ExitDone, DerefAgain
<1>9. CASE Release(t)
  <2>1. \A p \in promised : p[1] \in Handles BY DEF HistoryTypes
  <2> QED BY <1>9, <2>1 DEF Release
<1>10. CASE ReleaseVm(t) BY <1>10 DEF ReleaseVm
<1>11. CASE ProcessExit(t) BY <1>11 DEF ProcessExit
<1>12. CASE ExitRelease(t) BY <1>12 DEF ExitRelease, LeftBy
<1>13. CASE ExitNotify(t) BY <1>13 DEF ExitNotify
<1>14. CASE HaxClose(t) BY <1>14 DEF HaxClose, FrontTypes
<1>15. CASE CloseLookup(t)
  <2>1. handle[t] \in Handles \cup {NoHandle} BY <1>15
  <2>2. Index(handle[t]) \in Handles
    <3>1. Capacity - 1 \in Handles BY BoundAssumption
    <3> QED BY <2>1, <3>1 DEF Index
  <2>3. entry[Index(handle[t])] \in VMs \cup {None} BY <2>2 DEF CvmTypes
  <2> QED BY <1>15, <2>3 DEF CloseLookup
<1>16. CASE Deref(t) \/ CloseEntry(t) \/ CloseNotify(t)
  BY <1>16 DEF Deref, CloseEntry, CloseNotify
<1> QED BY <1>1, <1>2, <1>3, <1>4, <1>5, <1>6, <1>7, <1>8, <1>9, <1>10, <1>11, <1>12,
           <1>13, <1>14, <1>15, <1>16 DEF Call, Continue

LEMMA TypeInit == Init => TypeOK
<1> SUFFICES ASSUME Init PROVE TypeOK OBVIOUS
<1>1. 0 \in 0 .. RefCounts - 1 BY BoundAssumption
<1>2. 0 \in Slots BY BoundAssumption DEF Slots
<1>3. CvmTypes /\ HistoryTypes BY <1>1 DEF Init, CvmTypes, HistoryTypes
<1>4. FrontTypes /\ LocalTypes BY <1>2 DEF Init, FrontTypes, LocalTypes, Pcs
<1>5. \A t \in Threads : pc[t] \notin HandlePcs \cup VmPcs
  BY DEF Init, HandlePcs, VmPcs, InsertPcs
<1> QED BY <1>3, <1>4, <1>5 DEF TypeOK

LEMMA TypeStep == TypeOK /\ [Next]_vars => TypeOK'
<1> SUFFICES ASSUME TypeOK, [Next]_vars PROVE TypeOK' OBVIOUS
<1>1. CASE UNCHANGED vars
  BY <1>1 DEF vars, cvms, table, locks, local, history, TypeOK, CvmTypes, FrontTypes,
              LocalTypes, HistoryTypes
<1>2. ASSUME NEW t \in Threads, Call(t) \/ Continue(t) PROVE TypeOK'
  <2>1. CvmTypes' /\ FrontTypes' /\ HistoryTypes' BY <1>2, SharedStep
  <2>2. /\ LocalTypes'
        /\ pc'[t] \in HandlePcs => handle'[t] \in Handles
        /\ pc'[t] \in VmPcs => vm'[t] \in VMs
        /\ \A u \in Threads \ {t} :
             pc'[u] = pc[u] /\ vm'[u] = vm[u] /\ handle'[u] = handle[u]
    BY <1>2, LocalStep
  <2>3. \A u \in Threads : /\ pc'[u] \in HandlePcs => handle'[u] \in Handles
                           /\ pc'[u] \in VmPcs => vm'[u] \in VMs
    BY <2>2 DEF TypeOK
  <2> QED BY <2>1, <2>2, <2>3 DEF TypeOK
<1> QED BY <1>1, <1>2 DEF Next

\* The variables keep their types, for any bounds: a thread never works on a
\* handle or a CVM it does not have.
THEOREM TypeCorrect == Spec => []TypeOK
BY TypeInit, TypeStep, PTL DEF Spec
-----------------------------------------------------------------------------
(* The inductive invariant.  A CVM that has not leaked is in one place: in *)
(* one entry of the table, or with the thread that is about to insert it.  *)
(* A handle is promised to a process, or one thread is releasing it; the   *)
(* entries of a process that has ended are those its last thread has not   *)
(* come to.                                                                *)

\* The threads of a process that has ended do no more than the kernel does
\* for them.
DeadQuiet ==
  \A t \in Threads :
    /\ Owner[t] \in dead => pc[t] \in {"idle"} \cup TablePcs \cup ClosePcs
    /\ pc[t] \in TablePcs => Owner[t] \in dead

Undisturbed == \A t \in Threads : pc[t] \notin {"close_entry", "close_hax"}

Entries ==
  /\ \A h \in Handles : entry[h] # None => entry[h] \in alive \ leaked /\ h <= max_handle
  /\ \A g, h \in Handles : entry[g] = entry[h] /\ entry[g] # None => g = h

Inserting(t) == pc[t] \in InsertPcs

Inserts ==
  /\ \A t \in Threads : Inserting(t) => /\ vm[t] \in alive \ leaked
                                        /\ pid[vm[t]] = Owner[t]
                                        /\ \A h \in Handles : entry[h] # vm[t]
  /\ \A t, u \in Threads : Inserting(t) /\ Inserting(u) /\ vm[t] = vm[u] => t = u

Promises ==
  \A p \in promised : entry[p[1]] = p[2] /\ pid[p[2]] = p[3] /\ p[3] \notin dead

Uses ==
  \A t \in Threads : pc[t] \in {"lookup", "use"} =>
    \E p \in promised : /\ p[1] = handle[t] /\ p[3] = Owner[t]
                        /\ pc[t] = "use" => p[2] = vm[t]

Releases ==
  /\ \A t \in Threads : pc[t] = "release" => /\ entry[handle[t]] # None
                                             /\ pid[entry[handle[t]]] = Owner[t]
                                             /\ \A p \in promised : p[1] # handle[t]
  /\ \A t, u \in Threads :
       pc[t] = "release" /\ pc[u] = "release" /\ handle[t] = handle[u] => t = u

Placed ==
  \A v \in alive \ leaked : \/ \E h \in Handles : entry[h] = v
                            \/ \E t \in Threads : Inserting(t) /\ vm[t] = v

Left ==
  \A h \in Handles : entry[h] # None /\ pid[entry[h]] \in dead =>
    \E t \in Threads : Owner[t] = pid[entry[h]] /\ pc[t] \in TablePcs

Safe == Undisturbed /\ Entries /\ Inserts /\ Promises /\ Uses /\ Releases /\ Placed /\ Left

IInv == TypeOK /\ DeadQuiet /\ (~wrapped => Safe)
-----------------------------------------------------------------------------
(* Ended processes.                                                        *)

LEMMA DeadQuietStep ==
  ASSUME TypeOK, DeadQuiet, NEW t \in Threads, Call(t) \/ Continue(t)
  PROVE  DeadQuiet'
<1> USE DEF DeadQuiet, TablePcs, ClosePcs, Calls, Goto, Return
<1>1. pc \in [Threads -> Pcs] BY DEF TypeOK, LocalTypes
<1>2. CASE ProcessExit(t)
  <2>1. /\ dead' = dead \cup {Owner[t]} /\ pc' = [pc EXCEPT ![t] = "exit"]
        /\ \A u \in Threads : Owner[u] = Owner[t] => pc[u] = "idle"
    BY <1>2 DEF ProcessExit
  <2> QED BY <1>1, <2>1
<1>3. ASSUME ~ProcessExit(t)
      PROVE  /\ dead' = dead
             /\ \A u \in Threads \ {t} : pc'[u] = pc[u]
             /\ Owner[t] \in dead => pc'[t] \in {"idle"} \cup TablePcs \cup ClosePcs
             /\ pc'[t] \in TablePcs => Owner[t] \in dead
  <2>1. CASE CreateVm(t) \/ HaxCreate(t) \/ Use(t) \/ Release(t) \/ HaxClose(t)
    BY <1>1, <2>1 DEF CreateVm, HaxCreate, Use, Release, HaxClose
  <2>2. CASE \/ HaxCreateVm(t) \/ HaxCreateFails(t)
             \/ Insert(t) \/ InsertFails(t) \/ HaxInsert(t) \/ HaxInsertFails(t)
    BY <1>1, <2>2 DEF HaxCreateVm, HaxCreateFails, Insert, InsertFails, HaxInsert, HaxInsertFails
  <2>3. CASE Lookup(t) \/ UseDone(t) \/ ReleaseVm(t) \/ HaxNotify(t)
    BY <1>1, <2>3 DEF Lookup, UseDone, ReleaseVm, HaxNotify
  <2>4. CASE ExitRelease(t) \/ ExitNotify(t) \/ ExitDone(t)
    BY <1>1, <2>4 DEF ExitRelease, ExitNotify, ExitDone
  <2>5. CASE CloseLookup(t) \/ Deref(t) \/ CloseEntry(t) \/ CloseNotify(t) \/ DerefAgain(t)
    BY <1>1, <2>5 DEF CloseLookup, Deref, CloseEntry, CloseNotify, DerefAgain
  <2> QED BY <1>3, <2>1, <2>2, <2>3, <2>4, <2>5 DEF Call, Continue
<1> QED BY <1>2, <1>3

-----------------------------------------------------------------------------
(* What the steps do to the variables that Safe is about.                  *)

\* Thread t leaves a place of From and comes to one of To.
Moves(t, From, To) == pc[t] \in From /\ \E w \in To : pc' = [pc EXCEPT ![t] = w]

\* Steps that are none of the creation, insertion and release of a CVM.
Elsewhere(t) ==
  \/ HaxCreate(t) \/ HaxCreateFails(t) \/ UseDone(t) \/ HaxNotify(t) \/ ExitNotify(t)
  \/ HaxClose(t) \/ CloseLookup(t) \/ Deref(t) \/ DerefAgain(t)

LEMMA CreateEffect ==
  ASSUME TypeOK, DeadQuiet, NEW t \in Threads, CreateVm(t) \/ HaxCreateVm(t)
  PROVE  /\ \E v \in VMs \ alive : /\ alive' = alive \cup {v}
                                   /\ pid' = [pid EXCEPT ![v] = Owner[t]]
                                   /\ leaked' = leaked \ {v}
                                   /\ vm' = [vm EXCEPT ![t] = v]
         /\ Moves(t, {"idle", "hax_vm"}, InsertPcs)
         /\ UNCHANGED <<entry, max_handle, handle, dead, promised>>
BY DEF CreateVm, HaxCreateVm, AllocateVm, Calls, Goto, Moves, InsertPcs, table

LEMMA InsertEffect ==
  ASSUME TypeOK, DeadQuiet, NEW t \in Threads, Insert(t) \/ HaxInsert(t)
  PROVE  /\ \E h \in Handles : 
              /\ entry[h] = None /\ entry' = [entry EXCEPT ![h] = vm[t]]
              /\ max_handle' \in Int /\ h <= max_handle' /\ max_handle <= max_handle'
              /\ promised' \in {promised, promised \cup {<<h, vm[t], Owner[t]>>}}
         /\ Moves(t, InsertPcs, {"idle"})
         /\ Owner[t] \notin dead
         /\ vm' = [vm EXCEPT ![t] = None] /\ handle' = [handle EXCEPT ![t] = NoHandle]
         /\ UNCHANGED <<alive, pid, leaked, dead>>
<1>1. max_handle \in Nat /\ Handles \subseteq Int
  BY DEF TypeOK, CvmTypes, Handles
<1>2. pc[t] \in InsertPcs BY DEF Insert, HaxInsert, InsertPcs
<1>3. Owner[t] \notin dead BY <1>2 DEF DeadQuiet, InsertPcs, TablePcs, ClosePcs
<1>4. \E h \in Handles : /\ InsertHandle(t, h)
                         /\ promised' \in {promised, promised \cup {<<h, vm[t], Owner[t]>>}}
  BY DEF Insert, HaxInsert, history
<1>5. PICK h \in Handles : /\ InsertHandle(t, h)
                           /\ promised' \in {promised, promised \cup {<<h, vm[t], Owner[t]>>}}
  BY <1>4
<1>6. entry[h] = None /\ entry' = [entry EXCEPT ![h] = vm[t]]
  BY <1>5 DEF InsertHandle, FirstVacant
<1>7. max_handle' \in Int /\ h <= max_handle' /\ max_handle <= max_handle'
  BY <1>1, <1>5 DEF InsertHandle
<1>8. Moves(t, InsertPcs, {"idle"}) BY <1>2 DEF Insert, HaxInsert, Return, Goto, Moves
<1>9. /\ vm' = [vm EXCEPT ![t] = None] /\ handle' = [handle EXCEPT ![t] = NoHandle]
      /\ UNCHANGED <<alive, pid, leaked, dead>>
  BY DEF Insert, HaxInsert, Return, cvms, history
<1> QED BY <1>3, <1>5, <1>6, <1>7, <1>8, <1>9

LEMMA LoseEffect ==
  ASSUME TypeOK, NEW t \in Threads, InsertFails(t) \/ HaxInsertFails(t)
  PROVE  /\ leaked' = leaked \cup {vm[t]}
         /\ Moves(t, InsertPcs, {"idle"})
         /\ vm' = [vm EXCEPT ![t] = None] /\ handle' = [handle EXCEPT ![t] = NoHandle]
         /\ UNCHANGED <<alive, pid, entry, max_handle, dead, promised>>
BY DEF InsertFails, HaxInsertFails, InsertPcs, Return, Goto, Moves, cvms, table

\* The entry that is released is the thread's to release: it is promised to
\* nobody, and no other thread is going to release it.
LEMMA FreeEffect ==
  ASSUME TypeOK, DeadQuiet, Safe, NEW t \in Threads, ReleaseVm(t) \/ ExitRelease(t)
  PROVE  /\ \E h \in Handles :
              /\ entry[h] # None
              /\ alive' = alive \ {entry[h]} /\ entry' = [entry EXCEPT ![h] = None]
              /\ \A p \in promised : p[1] # h
              /\ \A u \in Threads \ {t} : pc[u] = "release" => handle[u] # h
         /\ \/ Moves(t, {"release"}, {"hax_notify"})
            \/ Moves(t, {"exit"}, {"exit_hax"})
         /\ \A u \in Threads \ {t} : handle'[u] = handle[u]
         /\ UNCHANGED <<pid, max_handle, vm, dead, promised, leaked>>
<1>1. CASE ReleaseVm(t)
  <2>1. pc[t] = "release" /\ handle[t] \in Handles
    BY <1>1 DEF ReleaseVm, TypeOK, HandlePcs
  <2>2. /\ entry[handle[t]] # None /\ \A p \in promised : p[1] # handle[t]
        /\ \A u \in Threads \ {t} : pc[u] = "release" => handle[u] # handle[t]
    BY <2>1 DEF Safe, Releases
  <2>3. alive' = alive \ {entry[handle[t]]} /\ entry' = [entry EXCEPT ![handle[t]] = None]
    BY <1>1 DEF ReleaseVm, ReleaseEntry
  <2>4. /\ Moves(t, {"release"}, {"hax_notify"})
        /\ UNCHANGED <<handle, pid, max_handle, vm, dead, promised, leaked>>
    BY <1>1 DEF ReleaseVm, ReleaseEntry, Goto, Moves, local, history
  <2> QED BY <2>1, <2>2, <2>3, <2>4
<1>2. CASE ExitRelease(t)
  <2>1. PICK h \in LeftBy(t) : ReleaseEntry(t, h) /\ handle' = [handle EXCEPT ![t] = h]
    BY <1>2 DEF ExitRelease
  <2>2. h \in Handles /\ entry[h] # None /\ pid[entry[h]] = Owner[t] BY DEF LeftBy
  <2>3. Owner[t] \in dead BY <1>2 DEF ExitRelease, DeadQuiet, TablePcs
  <2>4. \A p \in promised : p[1] # h BY <2>2, <2>3 DEF Safe, Promises
  <2>5. \A u \in Threads \ {t} : pc[u] = "release" => handle[u] # h
    BY <2>2, <2>3 DEF Safe, Releases, DeadQuiet, TablePcs, ClosePcs
  <2>6. alive' = alive \ {entry[h]} /\ entry' = [entry EXCEPT ![h] = None]
    BY <2>1 DEF ReleaseEntry
  <2>7. /\ Moves(t, {"exit"}, {"exit_hax"})
        /\ UNCHANGED <<pid, max_handle, vm, dead, promised, leaked>>
    BY <1>2, <2>1 DEF ExitRelease, ReleaseEntry, Goto, Moves, history
  <2>8. \A u \in Threads \ {t} : handle'[u] = handle[u]
    BY <2>1 DEF TypeOK, LocalTypes
  <2> QED BY <2>2, <2>4, <2>5, <2>6, <2>7, <2>8
<1> QED BY <1>1, <1>2

LEMMA ElsewhereEffect ==
  ASSUME TypeOK, Undisturbed, ~wrapped', NEW t \in Threads, Elsewhere(t)
  PROVE  /\ \/ Moves(t, {"idle", "hax_vm", "use", "hax_notify", "close", "deref", "deref_again"},
                        {"idle", "hax_vm", "close", "deref", "deref_again"})
            \/ Moves(t, {"exit_hax"}, {"exit"})
         /\ \A u \in Threads \ {t} : vm'[u] = vm[u] /\ handle'[u] = handle[u]
         /\ UNCHANGED <<alive, pid, entry, max_handle, dead, promised, leaked>>
<1> USE DEF Goto, Return, Calls, Moves, cvms, table, local, history, TypeOK, LocalTypes
<1>1. CASE HaxCreate(t) \/ HaxCreateFails(t) BY <1>1 DEF HaxCreate, HaxCreateFails
<1>2. CASE UseDone(t) \/ HaxNotify(t) BY <1>2 DEF UseDone, HaxNotify
<1>3. CASE ExitNotify(t) BY <1>3 DEF ExitNotify
<1>4. CASE HaxClose(t) BY <1>4 DEF HaxClose
<1>5. CASE CloseLookup(t) BY <1>5 DEF CloseLookup
<1>6. CASE Deref(t) \/ DerefAgain(t) BY <1>6 DEF Deref, DerefAgain, Dereference
<1> QED BY <1>1, <1>2, <1>3, <1>4, <1>5, <1>6 DEF Elsewhere
-----------------------------------------------------------------------------
(* The invariant is kept, action by action.                                *)

LEMMA CreateKeeps ==
  ASSUME TypeOK, DeadQuiet, Safe, NEW t \in Threads, CreateVm(t) \/ HaxCreateVm(t)
  PROVE  Safe'
<1> USE DEF TypeOK, CvmTypes, LocalTypes, HistoryTypes, InsertPcs, TablePcs, Inserting
<1>1. PICK v \in VMs \ alive : /\ alive' = alive \cup {v}
                               /\ pid' = [pid EXCEPT ![v] = Owner[t]]
                               /\ leaked' = leaked \ {v}
                               /\ vm' = [vm EXCEPT ![t] = v]
  BY CreateEffect
<1>2. /\ pc[t] \in {"idle", "hax_vm"} /\ \E w \in InsertPcs : pc' = [pc EXCEPT ![t] = w]
      /\ UNCHANGED <<entry, max_handle, handle, dead, promised>>
  BY CreateEffect DEF Moves
<1>3. \A h \in Handles : entry[h] # v
  BY NoneAssumption DEF Safe, Entries
<1>4. Undisturbed' BY <1>2 DEF Safe, Undisturbed
<1>5. Entries' BY <1>1, <1>2, <1>3 DEF Safe, Entries
<1>6. Inserts' BY <1>1, <1>2, <1>3, OwnerAssumption DEF Safe, Inserts
<1>7. Promises'
  <2>1. \A p \in promised : p[1] \in Handles /\ p[2] # v BY <1>3 DEF Safe, Promises
  <2> QED BY <1>1, <1>2, <2>1 DEF Safe, Promises
<1>8. Uses' BY <1>1, <1>2 DEF Safe, Uses
<1>9. Releases'
  <2>1. \A u \in Threads : pc[u] = "release" => handle[u] \in Handles BY DEF HandlePcs
  <2> QED BY <1>1, <1>2, <1>3, <2>1 DEF Safe, Releases
<1>10. Placed' BY <1>1, <1>2 DEF Safe, Placed
<1>11. Left' BY <1>1, <1>2, <1>3 DEF Safe, Left
<1> QED BY <1>4, <1>5, <1>6, <1>7, <1>8, <1>9, <1>10, <1>11 DEF Safe

LEMMA InsertKeeps ==
  ASSUME TypeOK, DeadQuiet, Safe, NEW t \in Threads, Insert(t) \/ HaxInsert(t)
  PROVE  Safe'
<1> USE NoneAssumption
    DEF TypeOK, CvmTypes, LocalTypes, HistoryTypes, InsertPcs, TablePcs, Inserting
<1>1. PICK h \in Handles :
        /\ entry[h] = None /\ entry' = [entry EXCEPT ![h] = vm[t]]
        /\ max_handle' \in Int /\ h <= max_handle' /\ max_handle <= max_handle'
        /\ promised' \in {promised, promised \cup {<<h, vm[t], Owner[t]>>}}
  BY InsertEffect
<1>2. /\ pc[t] \in InsertPcs /\ pc' = [pc EXCEPT ![t] = "idle"]
      /\ Owner[t] \notin dead
      /\ vm' = [vm EXCEPT ![t] = None] /\ handle' = [handle EXCEPT ![t] = NoHandle]
      /\ UNCHANGED <<alive, pid, leaked, dead>>
  BY InsertEffect DEF Moves
<1>3. /\ vm[t] \in VMs /\ vm[t] \in alive \ leaked /\ pid[vm[t]] = Owner[t]
      /\ \A g \in Handles : entry[g] # vm[t]
      /\ \A u \in Threads : Inserting(u) /\ vm[u] = vm[t] => u = t
  BY <1>2 DEF Safe, Inserts
<1>4. \A p \in promised : p[1] \in Handles /\ p[2] \in VMs /\ p[1] # h
  BY <1>1 DEF Safe, Promises
<1>5. Undisturbed' BY <1>2 DEF Safe, Undisturbed
<1>6. Entries'
  <2>1. \A g \in Handles : entry'[g] = IF g = h THEN vm[t] ELSE entry[g] BY <1>1
  <2>2. max_handle \in Int /\ Handles \subseteq Int BY DEF Handles
  <2> QED BY <1>1, <1>2, <1>3, <2>1, <2>2 DEF Safe, Entries
<1>7. Inserts' BY <1>1, <1>2, <1>3 DEF Safe, Inserts
<1>8. Promises'
  <2>1. \A p \in promised' : p \in promised \/ p = <<h, vm[t], Owner[t]>> BY <1>1
  <2>2. \A p \in promised : entry'[p[1]] = p[2] /\ pid'[p[2]] = p[3] /\ p[3] \notin dead'
    BY <1>1, <1>2, <1>4 DEF Safe, Promises
  <2> QED BY <1>1, <1>2, <1>3, <2>1, <2>2 DEF Promises
<1>9. Uses'
  <2>1. promised \subseteq promised' BY <1>1
  <2> QED BY <1>2, <2>1 DEF Safe, Uses
<1>10. Releases'
  <2>1. \A u \in Threads : pc'[u] = "release" =>
          pc[u] = "release" /\ handle'[u] = handle[u] /\ handle[u] \in Handles
    BY <1>2 DEF HandlePcs
  <2>2. \A u \in Threads : pc[u] = "release" => handle[u] # h BY <1>1 DEF Safe, Releases
  <2>3. \A p \in promised' : p \in promised \/ p[1] = h BY <1>1
  <2> QED BY <1>1, <1>2, <2>1, <2>2, <2>3 DEF Safe, Releases
<1>11. Placed'
  <2> SUFFICES ASSUME NEW v \in alive \ leaked
               PROVE  \/ \E g \in Handles : entry'[g] = v
                      \/ \E u \in Threads : Inserting(u)' /\ vm'[u] = v
    BY <1>2 DEF Placed
  <2>1. CASE v = vm[t] BY <1>1, <2>1
  <2>2. CASE \E g \in Handles : entry[g] = v
    <3>1. v # None BY NoneAssumption DEF Safe
    <3> QED BY <1>1, <2>2, <3>1
  <2>3. CASE \E u \in Threads \ {t} : Inserting(u) /\ vm[u] = v BY <1>2, <2>3
  <2> QED BY <2>1, <2>2, <2>3 DEF Safe, Placed
<1>12. Left'
  <2>1. \A g \in Handles : entry'[g] = IF g = h THEN vm[t] ELSE entry[g] BY <1>1
  <2>2. pid'[entry'[h]] \notin dead' BY <1>2, <1>3, <2>1
  <2>3. \A u \in Threads : pc[u] \in TablePcs => pc'[u] = pc[u] BY <1>2
  <2> QED BY <1>2, <2>1, <2>2, <2>3 DEF Safe, Left
<1> QED BY <1>5, <1>6, <1>7, <1>8, <1>9, <1>10, <1>11, <1>12 DEF Safe

LEMMA LoseKeeps ==
  ASSUME TypeOK, DeadQuiet, Safe, NEW t \in Threads, InsertFails(t) \/ HaxInsertFails(t)
  PROVE  Safe'
<1> USE DEF TypeOK, CvmTypes, LocalTypes, HistoryTypes, InsertPcs, TablePcs, Inserting
<1>1. /\ leaked' = leaked \cup {vm[t]}
      /\ pc[t] \in InsertPcs /\ pc' = [pc EXCEPT ![t] = "idle"]
      /\ vm' = [vm EXCEPT ![t] = None] /\ handle' = [handle EXCEPT ![t] = NoHandle]
      /\ UNCHANGED <<alive, pid, entry, max_handle, dead, promised>>
  BY LoseEffect DEF Moves
<1>2. Undisturbed' BY <1>1 DEF Safe, Undisturbed
<1>3. Entries' BY <1>1 DEF Safe, Entries, Inserts
<1>4. Inserts' BY <1>1 DEF Safe, Inserts
<1>5. Promises' BY <1>1 DEF Safe, Promises
<1>6. Uses' BY <1>1 DEF Safe, Uses
<1>7. Releases' BY <1>1 DEF Safe, Releases
<1>8. Placed' BY <1>1 DEF Safe, Placed
<1>9. Left' BY <1>1 DEF Safe, Left
<1> QED BY <1>2, <1>3, <1>4, <1>5, <1>6, <1>7, <1>8, <1>9 DEF Safe

LEMMA FreeKeeps ==
  ASSUME TypeOK, DeadQuiet, Safe, NEW t \in Threads, ReleaseVm(t) \/ ExitRelease(t)
  PROVE  Safe'
<1> USE NoneAssumption
    DEF TypeOK, CvmTypes, LocalTypes, HistoryTypes, InsertPcs, TablePcs, Inserting
<1>1. PICK h \in Handles :
        /\ entry[h] # None
        /\ alive' = alive \ {entry[h]} /\ entry' = [entry EXCEPT ![h] = None]
        /\ \A p \in promised : p[1] # h
        /\ \A u \in Threads \ {t} : pc[u] = "release" => handle[u] # h
  BY FreeEffect
<1>2. /\ \/ pc[t] = "release" /\ pc' = [pc EXCEPT ![t] = "hax_notify"]
         \/ pc[t] = "exit" /\ pc' = [pc EXCEPT ![t] = "exit_hax"]
      /\ \A u \in Threads \ {t} : handle'[u] = handle[u]
      /\ UNCHANGED <<pid, max_handle, vm, dead, promised, leaked>>
  BY FreeEffect DEF Moves
<1>3. \A g \in Handles : entry'[g] = IF g = h THEN None ELSE entry[g] BY <1>1
<1>4. \A u \in Threads \ {t} : pc'[u] = pc[u] BY <1>2
<1>5. pc'[t] \in {"hax_notify", "exit_hax"} BY <1>2
<1>6. Undisturbed' BY <1>2 DEF Safe, Undisturbed
<1>7. Entries' BY <1>1, <1>2, <1>3 DEF Safe, Entries
<1>8. Inserts' BY <1>1, <1>2, <1>3, <1>4, <1>5 DEF Safe, Inserts
<1>9. Promises' BY <1>1, <1>2, <1>3 DEF Safe, Promises
<1>10. Uses' BY <1>2, <1>4, <1>5 DEF Safe, Uses
<1>11. Releases'
  <2>1. \A u \in Threads : pc'[u] = "release" =>
          /\ u # t /\ pc[u] = "release" /\ handle'[u] = handle[u]
          /\ handle[u] \in Handles /\ handle[u] # h
    BY <1>1, <1>2, <1>4, <1>5 DEF HandlePcs
  <2> QED BY <1>2, <1>3, <2>1 DEF Safe, Releases
<1>12. Placed'
  <2> SUFFICES ASSUME NEW v \in alive \ leaked, v # entry[h]
               PROVE  \/ \E g \in Handles : entry'[g] = v
                      \/ \E u \in Threads : Inserting(u)' /\ vm'[u] = v
    BY <1>1, <1>2 DEF Placed
  <2>1. CASE \E g \in Handles : entry[g] = v BY <1>3, <2>1
  <2>2. CASE \E u \in Threads : Inserting(u) /\ vm[u] = v BY <1>2, <2>2
  <2> QED BY <2>1, <2>2 DEF Safe, Placed
<1>13. Left' BY <1>2, <1>3 DEF Safe, Left
<1> QED BY <1>6, <1>7, <1>8, <1>9, <1>10, <1>11, <1>12, <1>13 DEF Safe
LEMMA ElsewhereKeeps ==
  ASSUME TypeOK, DeadQuiet, Safe, ~wrapped', NEW t \in Threads, Elsewhere(t)
  PROVE  Safe'
<1> USE DEF TypeOK, LocalTypes, InsertPcs, TablePcs
<1>1. /\ \/ /\ pc[t] \in {"idle", "hax_vm", "use", "hax_notify", "close", "deref", "deref_again"}
            /\ \E w \in {"idle", "hax_vm", "close", "deref", "deref_again"} :
                 pc' = [pc EXCEPT ![t] = w]
         \/ pc[t] = "exit_hax" /\ pc' = [pc EXCEPT ![t] = "exit"]
      /\ \A u \in Threads \ {t} : vm'[u] = vm[u] /\ handle'[u] = handle[u]
      /\ UNCHANGED <<alive, pid, entry, max_handle, dead, promised, leaked>>
  BY ElsewhereEffect DEF Moves, Safe
<1>2. /\ \A u \in Threads \ {t} : pc'[u] = pc[u]
      /\ pc'[t] \in {"idle", "hax_vm", "close", "deref", "deref_again", "exit"}
      /\ pc[t] \notin InsertPcs
      /\ pc[t] \in TablePcs => pc'[t] \in TablePcs
  BY <1>1
<1>3. Undisturbed' BY <1>2 DEF Safe, Undisturbed
<1>4. Entries' BY <1>1 DEF Safe, Entries
<1>5. Inserts' BY <1>1, <1>2 DEF Safe, Inserts, Inserting
<1>6. Promises' BY <1>1 DEF Safe, Promises
<1>7. Uses' BY <1>1, <1>2 DEF Safe, Uses
<1>8. Releases' BY <1>1, <1>2 DEF Safe, Releases
<1>9. Placed' BY <1>1, <1>2 DEF Safe, Placed, Inserting
<1>10. Left' BY <1>1, <1>2 DEF Safe, Left
<1> QED BY <1>3, <1>4, <1>5, <1>6, <1>7, <1>8, <1>9, <1>10 DEF Safe

\* A process uses a handle it was promised, and finds the CVM it was promised.
LEMMA UseKeeps ==
  ASSUME TypeOK, DeadQuiet, Safe, NEW t \in Threads, Use(t) \/ Lookup(t)
  PROVE  Safe'
<1> USE DEF TypeOK, LocalTypes, InsertPcs, TablePcs
<1>1. /\ pc[t] \in {"idle", "lookup"} /\ pc'[t] \in {"idle", "lookup", "use"}
      /\ \A u \in Threads \ {t} : pc'[u] = pc[u] /\ vm'[u] = vm[u] /\ handle'[u] = handle[u]
      /\ UNCHANGED <<alive, pid, entry, max_handle, dead, promised, leaked>>
  BY DEF Use, Lookup, Goto, Return, Calls, cvms, table, history
<1>2. pc'[t] \in {"lookup", "use"} =>
        \E p \in promised : /\ p[1] = handle'[t] /\ p[3] = Owner[t]
                            /\ pc'[t] = "use" => p[2] = vm'[t]
  <2>1. CASE Use(t) BY <2>1 DEF Use, Goto
  <2>2. CASE Lookup(t) /\ pc'[t] \in {"lookup", "use"}
    <3>1. /\ pc[t] = "lookup" /\ handle'[t] = handle[t] /\ vm'[t] = entry[handle[t]]
      BY <2>2 DEF Lookup, Goto, Return
    <3>2. PICK p \in promised : p[1] = handle[t] /\ p[3] = Owner[t]
      BY <3>1 DEF Safe, Uses
    <3> QED BY <3>1, <3>2 DEF Safe, Promises
  <2> QED BY <2>1, <2>2
<1>3. Undisturbed' BY <1>1 DEF Safe, Undisturbed
<1>4. Entries' BY <1>1 DEF Safe, Entries
<1>5. Inserts' BY <1>1 DEF Safe, Inserts, Inserting
<1>6. Promises' BY <1>1 DEF Safe, Promises
<1>7. Uses'
  <2> SUFFICES ASSUME NEW u \in Threads, pc'[u] \in {"lookup", "use"}
               PROVE  \E p \in promised : /\ p[1] = handle'[u] /\ p[3] = Owner[u]
                                          /\ pc'[u] = "use" => p[2] = vm'[u]
    BY <1>1 DEF Uses
  <2> QED BY <1>1, <1>2 DEF Safe, Uses
<1>8. Releases' BY <1>1 DEF Safe, Releases
<1>9. Placed' BY <1>1 DEF Safe, Placed, Inserting
<1>10. Left' BY <1>1 DEF Safe, Left
<1> QED BY <1>3, <1>4, <1>5, <1>6, <1>7, <1>8, <1>9, <1>10 DEF Safe

\* The promise is taken back when the release begins, and the handle is no
\* other's: two promises for one handle are the same.
LEMMA ReleaseKeeps ==
  ASSUME TypeOK, DeadQuiet, Safe, NEW t \in Threads, Release(t)
  PROVE  Safe'
<1> USE DEF TypeOK, LocalTypes, HistoryTypes, InsertPcs, TablePcs
<1>1. PICK p \in promised : /\ p[3] = Owner[t] /\ NotUsed(p[1], p[3])
                            /\ handle' = [handle EXCEPT ![t] = p[1]]
                            /\ promised' = promised \ {p}
  BY DEF Release
<1>2. /\ pc[t] = "idle" /\ pc' = [pc EXCEPT ![t] = "release"]
      /\ UNCHANGED <<alive, pid, entry, max_handle, vm, dead, leaked>>
  BY DEF Release, Calls, Goto, cvms, table
<1>3. /\ p \in Handles \X VMs \X Procs /\ entry[p[1]] = p[2] /\ pid[p[2]] = p[3]
  BY DEF Safe, Promises
<1>4. \A q \in promised : q[1] = p[1] => q = p
  BY <1>3 DEF Safe, Promises
<1>5. handle'[t] = p[1] /\ \A u \in Threads \ {t} : handle'[u] = handle[u] BY <1>1
<1>6. Undisturbed' BY <1>2 DEF Safe, Undisturbed
<1>7. Entries' BY <1>2 DEF Safe, Entries
<1>8. Inserts' BY <1>2 DEF Safe, Inserts, Inserting
<1>9. Promises' BY <1>1, <1>2 DEF Safe, Promises
<1>10. Uses'
  <2> SUFFICES ASSUME NEW u \in Threads, pc'[u] \in {"lookup", "use"}
               PROVE  \E q \in promised' : /\ q[1] = handle'[u] /\ q[3] = Owner[u]
                                           /\ pc'[u] = "use" => q[2] = vm'[u]
    BY DEF Uses
  <2>1. u # t /\ pc'[u] = pc[u] BY <1>2
  <2>2. PICK q \in promised : /\ q[1] = handle[u] /\ q[3] = Owner[u]
                              /\ pc[u] = "use" => q[2] = vm[u]
    BY <2>1 DEF Safe, Uses
  <2>3. q # p BY <1>1, <2>1, <2>2 DEF NotUsed
  <2> QED BY <1>1, <1>2, <1>5, <2>1, <2>2, <2>3
<1>11. Releases'
  <2>1. \A u \in Threads : pc[u] = "release" => handle[u] # p[1] BY DEF Safe, Releases
  <2>2. entry[p[1]] # None BY <1>3, NoneAssumption
  <2> QED BY <1>1, <1>2, <1>3, <1>4, <1>5, <2>1, <2>2 DEF Safe, Releases
<1>12. Placed' BY <1>2 DEF Safe, Placed, Inserting
<1>13. Left' BY <1>2 DEF Safe, Left
<1> QED BY <1>6, <1>7, <1>8, <1>9, <1>10, <1>11, <1>12, <1>13 DEF Safe

\* The last thread of a process takes its promises back; when it leaves the
\* callback no entry of the process is left, because none is beyond max_handle.
LEMMA ExitKeeps ==
  ASSUME TypeOK, DeadQuiet, Safe, NEW t \in Threads, ProcessExit(t) \/ ExitDone(t)
  PROVE  Safe'
<1> USE DEF TypeOK, LocalTypes, HistoryTypes, InsertPcs, TablePcs
<1>1. CASE ProcessExit(t)
  <2>1. /\ \A u \in Threads : Owner[u] = Owner[t] => pc[u] = "idle"
        /\ pc' = [pc EXCEPT ![t] = "exit"]
        /\ dead' = dead \cup {Owner[t]}
        /\ promised' = {p \in promised : p[3] # Owner[t]}
        /\ UNCHANGED <<alive, pid, entry, max_handle, vm, handle, leaked>>
    BY <1>1 DEF ProcessExit, Goto, cvms, table, local
  <2>2. pc[t] = "idle" BY <2>1
  <2>3. Undisturbed' BY <2>1 DEF Safe, Undisturbed
  <2>4. Entries' BY <2>1 DEF Safe, Entries
  <2>5. Inserts' BY <2>1, <2>2 DEF Safe, Inserts, Inserting
  <2>6. Promises' BY <2>1 DEF Safe, Promises
  <2>7. Uses'
    <3> SUFFICES ASSUME NEW u \in Threads, pc'[u] \in {"lookup", "use"}
                 PROVE  \E p \in promised' : /\ p[1] = handle'[u] /\ p[3] = Owner[u]
                                             /\ pc'[u] = "use" => p[2] = vm'[u]
      BY DEF Uses
    <3>1. pc'[u] = pc[u] /\ Owner[u] # Owner[t] BY <2>1
    <3> QED BY <2>1, <3>1 DEF Safe, Uses
  <2>8. Releases' BY <2>1, <2>2 DEF Safe, Releases
  <2>9. Placed' BY <2>1, <2>2 DEF Safe, Placed, Inserting
  <2>10. Left' BY <2>1, <2>2 DEF Safe, Left
  <2> QED BY <2>3, <2>4, <2>5, <2>6, <2>7, <2>8, <2>9, <2>10 DEF Safe
<1>2. CASE ExitDone(t)
  <2>1. /\ pc[t] = "exit" /\ pc' = [pc EXCEPT ![t] = "idle"] /\ LeftBy(t) = {}
        /\ \A u \in Threads \ {t} : vm'[u] = vm[u] /\ handle'[u] = handle[u]
        /\ UNCHANGED <<alive, pid, entry, max_handle, dead, promised, leaked>>
    BY <1>2 DEF ExitDone, Return, Goto, cvms, table, history
  <2>2. \A h \in Handles : entry[h] # None => pid[entry[h]] # Owner[t]
    BY <2>1 DEF LeftBy, Safe, Entries
  <2>3. Undisturbed' BY <2>1 DEF Safe, Undisturbed
  <2>4. Entries' BY <2>1 DEF Safe, Entries
  <2>5. Inserts' BY <2>1 DEF Safe, Inserts, Inserting
  <2>6. Promises' BY <2>1 DEF Safe, Promises
  <2>7. Uses' BY <2>1 DEF Safe, Uses
  <2>8. Releases' BY <2>1 DEF Safe, Releases
  <2>9. Placed' BY <2>1 DEF Safe, Placed, Inserting
  <2>10. Left' BY <2>1, <2>2 DEF Safe, Left
  <2> QED BY <2>3, <2>4, <2>5, <2>6, <2>7, <2>8, <2>9, <2>10 DEF Safe
<1> QED BY <1>1, <1>2

\* The entry is deleted only after the count has wrapped around.
LEMMA CloseWrapped ==
  ASSUME Undisturbed, NEW t \in Threads
  PROVE  ~(CloseEntry(t) \/ CloseNotify(t))
BY DEF Undisturbed, CloseEntry, CloseNotify

\* Nobody takes back that a count has wrapped around.
LEMMA WrappedStays ==
  ASSUME TypeOK, wrapped, NEW t \in Threads, Call(t) \/ Continue(t)
  PROVE  wrapped'
<1> USE DEF history
<1>1. CASE Call(t)
  BY <1>1 DEF Call, CreateVm, HaxCreate, Use, Release, ProcessExit, HaxClose
<1>2. CASE \/ HaxCreateVm(t) \/ HaxCreateFails(t)
           \/ Insert(t) \/ InsertFails(t) \/ HaxInsert(t) \/ HaxInsertFails(t)
  BY <1>2 DEF HaxCreateVm, HaxCreateFails, Insert, InsertFails, HaxInsert, HaxInsertFails
<1>3. CASE \/ Lookup(t) \/ UseDone(t) \/ ReleaseVm(t) \/ HaxNotify(t)
           \/ ExitRelease(t) \/ ExitNotify(t) \/ ExitDone(t)
  BY <1>3 DEF Lookup, UseDone, ReleaseVm, HaxNotify, ExitRelease, ExitNotify, ExitDone
<1>4. CASE CloseLookup(t) \/ Deref(t) \/ CloseEntry(t) \/ CloseNotify(t) \/ DerefAgain(t)
  BY <1>4 DEF CloseLookup, Deref, CloseEntry, CloseNotify, DerefAgain, Dereference
<1> QED BY <1>1, <1>2, <1>3, <1>4 DEF Continue

LEMMA IInvInit == Init => IInv
<1> SUFFICES ASSUME Init PROVE IInv OBVIOUS
<1>1. TypeOK BY TypeInit
<1>2. DeadQuiet BY DEF Init, DeadQuiet, TablePcs
<1>3. Undisturbed /\ Uses /\ Inserts /\ Releases /\ Promises
  BY DEF Init, Undisturbed, Uses, Inserts, Inserting, InsertPcs, Releases, Promises
<1>4. Entries /\ Placed /\ Left BY DEF Init, Entries, Placed, Left
<1> QED BY <1>1, <1>2, <1>3, <1>4 DEF IInv, Safe

LEMMA IInvStep == IInv /\ [Next]_vars => IInv'
<1> SUFFICES ASSUME IInv, [Next]_vars PROVE IInv' OBVIOUS
<1>1. TypeOK' BY TypeStep DEF IInv
<1>2. CASE UNCHANGED vars
  <2>1. DeadQuiet' BY <1>2 DEF vars, IInv, DeadQuiet
  <2>2. UNCHANGED <<alive, pid, entry, max_handle, pc, vm, handle, dead, promised, leaked, wrapped>>
    BY <1>2 DEF vars, cvms, table, local, history
  <2>3. ~wrapped' => Safe'
    BY <2>2 DEF IInv, Safe, Undisturbed, Entries, Inserts, Inserting, Promises, Uses, Releases,
                Placed, Left
  <2> QED BY <1>1, <2>1, <2>3 DEF IInv
<1>3. ASSUME NEW t \in Threads, Call(t) \/ Continue(t) PROVE IInv'
  <2>1. DeadQuiet' BY <1>3, DeadQuietStep DEF IInv
  <2>2. ASSUME ~wrapped' PROVE Safe'
    <3>1. Safe BY <1>3, <2>2, WrappedStays DEF IInv
    <3>2. TypeOK /\ DeadQuiet BY DEF IInv
    <3>3. CASE CreateVm(t) \/ HaxCreateVm(t) BY <3>1, <3>2, <3>3, CreateKeeps
    <3>4. CASE Insert(t) \/ HaxInsert(t) BY <3>1, <3>2, <3>4, InsertKeeps
    <3>5. CASE InsertFails(t) \/ HaxInsertFails(t) BY <3>1, <3>2, <3>5, LoseKeeps
    <3>6. CASE ReleaseVm(t) \/ ExitRelease(t) BY <3>1, <3>2, <3>6, FreeKeeps
    <3>7. CASE Use(t) \/ Lookup(t) BY <3>1, <3>2, <3>7, UseKeeps
    <3>8. CASE Release(t) BY <3>1, <3>2, <3>8, ReleaseKeeps
    <3>9. CASE ProcessExit(t) \/ ExitDone(t) BY <3>1, <3>2, <3>9, ExitKeeps
    <3>10. CASE Elsewhere(t) BY <2>2, <3>1, <3>2, <3>10, ElsewhereKeeps
    <3>11. ~(CloseEntry(t) \/ CloseNotify(t)) BY <3>1, CloseWrapped DEF Safe
    <3> QED BY <1>3, <3>3, <3>4, <3>5, <3>6, <3>7, <3>8, <3>9, <3>10, <3>11
            DEF Call, Continue, Elsewhere
  <2> QED BY <1>1, <2>1, <2>2 DEF IInv
<1> QED BY <1>2, <1>3 DEF Next

LEMMA IInvCorrect == Spec => []IInv
BY IInvInit, IInvStep, PTL DEF Spec

\* A handle means the CVM it was returned for until it is released, for any
\* number of processes that create, release and reuse handles.
THEOREM HandlesCorrect == Spec => []HandlesMeanVms
<1>1. IInv => HandlesMeanVms
  <2> SUFFICES ASSUME IInv, ~wrapped, NEW p \in promised
               PROVE  entry[p[1]] = p[2] /\ p[2] \in alive /\ pid[p[2]] = p[3]
    BY DEF HandlesMeanVms
  <2>1. Safe /\ p \in Handles \X VMs \X Procs BY DEF IInv, TypeOK, HistoryTypes
  <2>2. entry[p[1]] = p[2] /\ pid[p[2]] = p[3] BY <2>1 DEF Safe, Promises
  <2> QED BY <2>1, <2>2, NoneAssumption DEF Safe, Entries
<1> QED BY <1>1, IInvCorrect, PTL

\* A CVM is not released under a caller that looked it up and dropped the lock
\* of the table.
THEOREM UsedCorrect == Spec => []UsedVmsAlive
<1>1. IInv => UsedVmsAlive
  <2> SUFFICES ASSUME IInv, ~wrapped, NEW t \in Threads, pc[t] = "use"
               PROVE  vm[t] \in alive
    BY DEF UsedVmsAlive
  <2>1. PICK p \in promised : p[2] = vm[t] BY DEF IInv, Safe, Uses
  <2>2. p \in Handles \X VMs \X Procs BY DEF IInv, TypeOK, HistoryTypes
  <2>3. entry[p[1]] = vm[t] BY <2>1 DEF IInv, Safe, Promises
  <2> QED BY <2>1, <2>2, <2>3, NoneAssumption DEF IInv, Safe, Entries
<1> QED BY <1>1, IInvCorrect, PTL

\* The callback for a process that ends misses none of its CVMs.
THEOREM ExitCorrect == Spec => []ExitReleasesAll
<1>1. IInv => ExitReleasesAll
  <2> SUFFICES ASSUME IInv, ~wrapped, NEW v \in alive \ leaked, pid[v] \in dead
               PROVE  \E t \in Threads : Owner[t] = pid[v] /\ pc[t] \in TablePcs
    BY DEF ExitReleasesAll
  <2>1. v \in VMs BY DEF IInv, TypeOK, CvmTypes
  <2>2. CASE \E h \in Handles : entry[h] = v
    BY <2>1, <2>2, NoneAssumption DEF IInv, Safe, Left
  <2>3. CASE \E t \in Threads : Inserting(t) /\ vm[t] = v
    <3>1. PICK t \in Threads : Inserting(t) /\ vm[t] = v BY <2>3
    <3>2. Owner[t] \in dead BY <3>1 DEF IInv, Safe, Inserts
    <3> QED BY <3>1, <3>2 DEF IInv, DeadQuiet, Inserting, InsertPcs, TablePcs, ClosePcs
  <2> QED BY <2>2, <2>3 DEF IInv, Safe, Placed
<1> QED BY <1>1, IInvCorrect, PTL
============================================================================
