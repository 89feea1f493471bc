------------------------- MODULE CvmExclusionProofs -------------------------
(***************************************************************************)
(* Proofs about CvmExclusion, for any set of threads and any table size.   *)
(***************************************************************************)
EXTENDS CvmExclusion, WellFoundedInduction, TLAPS

\* Every step keeps the variables in their types.
THEOREM TypeCorrect == Spec => []TypeOK
<1>1. Init => TypeOK
  <2> SUFFICES ASSUME Init PROVE TypeOK
    OBVIOUS
  <2>1. vcpu \subseteq Ids /\ vmcb_secure \subseteq Ids /\ list_shared \subseteq Threads
    BY DEF Init
  <2>2. vcpu_lock \in [Ids -> Threads \cup {None}] /\ list_owner \in Threads \cup {None}
    BY DEF Init
  <2>3. pc \in [Threads -> Pcs]
    BY DEF Init, Pcs
  <2>4. target \in [Threads -> Ids] /\ cursor \in [Threads -> 0 .. Slots]
    BY SlotsAssumption DEF Init, Ids
  <2>5. enable_nsv \in BOOLEAN /\ nsv_guest \in BOOLEAN /\ ownership \in Owners
    BY DEF Init, Owners
  <2> QED BY <2>1, <2>2, <2>3, <2>4, <2>5 DEF TypeOK
<1>2. TypeOK /\ [Next]_vars => TypeOK'
  <2> SUFFICES ASSUME TypeOK, [Next]_vars PROVE TypeOK'
    OBVIOUS
  <2> USE SlotsAssumption DEF TypeOK, Ids, Pcs, Owners, Goto, AwaitPcs, ExclusivePcs,
          SharedPcs, RunPcs
  <2>1. ASSUME NEW t \in Threads, Start(t) PROVE TypeOK'
    <3>1. CASE RunReference(t)
      BY <3>1 DEF RunReference, locks, nsv
    <3>2. CASE ListOperation(t)
      BY <3>2 DEF ListOperation, AcquireShared, nsv
    <3>3. CASE CreateCall(t)
      BY <3>3 DEF CreateCall, locks, nsv
    <3>4. CASE ReleaseReference(t)
      BY <3>4 DEF ReleaseReference, locks, nsv
    <3> QED BY <2>1, <3>1, <3>2, <3>3, <3>4 DEF Start
  <2>2. ASSUME NEW t \in Threads, Continue(t) PROVE TypeOK'
    <3>1. CASE RunLock(t)
      BY <3>1 DEF RunLock, AcquireVcpu, nsv
    <3>2. CASE GuestExit(t) \/ GuestNsvExit(t)
      BY <3>2 DEF GuestExit, GuestNsvExit, locks, nsv
    <3>3. CASE RunUnlock(t)
      BY <3>3 DEF RunUnlock, ReleaseVcpus, nsv
    <3>4. CASE GainList(t)
      BY <3>4 DEF GainList, AcquireExclusive, nsv
    <3>5. CASE GainVcpu(t)
      BY <3>5 DEF GainVcpu, LockNext, GainPending, OtherVcpus, AcquireVcpu, nsv
    <3>6. CASE GainDone(t) \/ MapDone(t) \/ MapWrite(t)
      BY <3>6 DEF GainDone, MapDone, MapWrite, locks, nsv
    <3>7. CASE FreeExclusion(t)
      BY <3>7 DEF FreeExclusion, ReleaseVcpus, nsv
    <3>8. CASE NsvActivate(t)
      BY <3>8 DEF NsvActivate, locks
    <3>9. CASE NsvClaim(t)
      BY <3>9 DEF NsvClaim, locks
    <3>10. CASE MapReassign(t)
      <4>1. MapOwnership \subseteq Owners
        BY DEF MapOwnership
      <4>2. ownership' \in Owners
        BY <3>10, <4>1 DEF MapReassign
      <4>3. pc' \in [Threads -> Pcs]
        BY <3>10 DEF MapReassign
      <4> QED BY <3>10, <4>2, <4>3 DEF MapReassign, locks
    <3>11. CASE MapVcpu(t)
      BY <3>11 DEF MapVcpu, LockNext, MapPending, MapVcpus, AcquireVcpu, nsv
    <3>12. CASE MapUnlock(t)
      BY <3>12 DEF MapUnlock, ReleaseVcpus, nsv
    <3>13. CASE UnmapReassign(t)
      BY <3>13 DEF UnmapReassign, locks
    <3>14. CASE SharedWork(t)
      BY <3>14 DEF SharedWork, locks, nsv
    <3>15. CASE ListUnlock(t)
      BY <3>15 DEF ListUnlock, nsv
    <3>16. CASE CreateLock(t) \/ ReleaseList(t)
      BY <3>16 DEF CreateLock, ReleaseList, AcquireExclusive, nsv
    <3>17. CASE CreateVcpu(t)
      BY <3>17 DEF CreateVcpu, nsv
    <3>18. CASE ReleaseLock(t)
      BY <3>18 DEF ReleaseLock, AcquireVcpu, nsv
    <3>19. CASE ReleaseVcpu(t)
      BY <3>19 DEF ReleaseVcpu, ReleaseVcpus
    <3> QED BY <2>2, <3>1, <3>2, <3>3, <3>4, <3>5, <3>6, <3>7, <3>8, <3>9, <3>10, <3>11,
               <3>12, <3>13, <3>14, <3>15, <3>16, <3>17, <3>18, <3>19 DEF Continue
  <2>3. CASE UNCHANGED vars
    BY <2>3 DEF vars, locks, nsv
  <2> QED BY <2>1, <2>2, <2>3 DEF Next
<1> QED BY <1>1, <1>2, PTL DEF Spec

-----------------------------------------------------------------------------
(* The list lock.                                                          *)

\* The list lock is owned and shared as the threads' positions say.
LEMMA ListCorrect == Spec => []ListDiscipline
<1>1. Init => ListDiscipline
  BY NoneAssumption DEF Init, ListDiscipline, ExclusivePcs, SharedPcs
<1>2. TypeOK /\ ListDiscipline /\ [Next]_vars => ListDiscipline'
  <2> SUFFICES ASSUME TypeOK, ListDiscipline, [Next]_vars PROVE ListDiscipline'
    OBVIOUS
  <2> USE NoneAssumption DEF ListDiscipline, Goto, ExclusivePcs, SharedPcs
  <2>0. pc \in [Threads -> Pcs] /\ list_owner \in Threads \cup {None}
    BY DEF TypeOK
  <2>1. ASSUME NEW t \in Threads, Start(t) PROVE ListDiscipline'
    <3>1. CASE RunReference(t) \/ CreateCall(t) \/ ReleaseReference(t)
      BY <2>0, <3>1 DEF RunReference, CreateCall, ReleaseReference, locks
    <3>2. CASE ListOperation(t)
      BY <2>0, <3>2 DEF ListOperation, AcquireShared, CanShare
    <3> QED BY <2>1, <3>1, <3>2 DEF Start
  <2>2. ASSUME NEW t \in Threads, Continue(t) PROVE ListDiscipline'
    <3>1. CASE RunLock(t) \/ RunUnlock(t)
      BY <2>0, <3>1 DEF RunLock, RunUnlock
    <3>2. CASE GuestExit(t) \/ GuestNsvExit(t)
      BY <2>0, <3>2 DEF GuestExit, GuestNsvExit, locks
    <3>3. CASE GainList(t) \/ CreateLock(t) \/ ReleaseList(t)
      BY <2>0, <3>3 DEF GainList, CreateLock, ReleaseList, AcquireExclusive, CanExclude
    <3>4. CASE GainVcpu(t) \/ MapVcpu(t)
      BY <2>0, <3>4 DEF GainVcpu, MapVcpu
    <3>5. CASE GainDone(t) \/ MapDone(t) \/ MapWrite(t)
      BY <2>0, <3>5 DEF GainDone, MapDone, MapWrite, locks
    <3>6. CASE NsvActivate(t) \/ NsvClaim(t)
      BY <2>0, <3>6 DEF NsvActivate, NsvClaim, locks
    <3>7. CASE FreeExclusion(t) \/ CreateVcpu(t) \/ ReleaseVcpu(t)
      BY <2>0, <3>7 DEF FreeExclusion, CreateVcpu, ReleaseVcpu
    <3>8. CASE MapReassign(t) \/ UnmapReassign(t) \/ SharedWork(t)
      BY <2>0, <3>8 DEF MapReassign, UnmapReassign, SharedWork, locks
    <3>9. CASE MapUnlock(t)
      BY <2>0, <3>9 DEF MapUnlock
    <3>10. CASE ListUnlock(t)
      BY <2>0, <3>10 DEF ListUnlock
    <3>11. CASE ReleaseLock(t)
      BY <2>0, <3>11 DEF ReleaseLock
    <3> QED BY <2>2, <3>1, <3>2, <3>3, <3>4, <3>5, <3>6, <3>7, <3>8, <3>9, <3>10, <3>11
            DEF Continue
  <2>3. CASE UNCHANGED vars
    BY <2>3 DEF vars, locks
  <2> QED BY <2>1, <2>2, <2>3 DEF Next
<1> QED BY <1>1, <1>2, TypeCorrect, PTL DEF Spec

-----------------------------------------------------------------------------
(* The push locks.                                                         *)

\* Where a thread stands in a loop over all the vCPUs.
LoopPcs == {"nsv_lock", "nsv_work", "nsv_free", "map_lock", "map_write", "map_unlock"}

\* The vCPU table changes only under the list lock exclusively, hence with no
\* other thread inside a loop over it.
LEMMA TableChange ==
  ASSUME TypeOK, ListDiscipline, NEW t \in Threads, Start(t) \/ Continue(t), vcpu' # vcpu
  PROVE  /\ CreateVcpu(t) \/ ReleaseVcpu(t)
         /\ \A u \in Threads : pc[u] \notin LoopPcs
<1>1. CreateVcpu(t) \/ ReleaseVcpu(t)
  BY DEF Start, Continue, RunReference, ListOperation, CreateCall, ReleaseReference, RunLock,
     GuestExit, GuestNsvExit, RunUnlock, GainList, GainVcpu, GainDone, NsvActivate, NsvClaim,
     FreeExclusion, MapReassign, MapVcpu, MapDone, MapWrite, MapUnlock, UnmapReassign,
     SharedWork, ListUnlock, CreateLock, ReleaseList, ReleaseLock
<1>2. pc[t] \in {"create", "release_free"}
  BY <1>1 DEF CreateVcpu, ReleaseVcpu
<1>3. list_owner = t /\ list_shared = {}
  BY <1>2, NoneAssumption DEF ListDiscipline, ExclusivePcs
<1>4. ASSUME NEW u \in Threads PROVE pc[u] \notin LoopPcs
  <2>1. u = t \/ pc[u] \notin ExclusivePcs
    BY <1>3 DEF ListDiscipline
  <2>2. pc[u] \notin SharedPcs
    BY <1>3 DEF ListDiscipline
  <2> QED BY <1>2, <2>1, <2>2 DEF LoopPcs, ExclusivePcs, SharedPcs
<1> QED BY <1>1, <1>4

\* What another thread holds is not disturbed by a step of t.
LEMMA OthersKeep ==
  ASSUME TypeOK, ListDiscipline, NEW t \in Threads, Start(t) \/ Continue(t),
         NEW u \in Threads, u # t
  PROVE  /\ pc'[u] = pc[u] /\ target'[u] = target[u] /\ cursor'[u] = cursor[u]
         /\ Held(u)' = Held(u)
<1>1. pc'[u] = pc[u] /\ target'[u] = target[u] /\ cursor'[u] = cursor[u]
  <2> USE DEF Goto, TypeOK
  <2>1. CASE Start(t)
    BY <2>1 DEF Start, RunReference, ListOperation, CreateCall, ReleaseReference
  <2>2. CASE Continue(t)
    BY <2>2 DEF Continue, RunLock, GuestExit, GuestNsvExit, RunUnlock, GainList, GainVcpu,
       GainDone, NsvActivate, NsvClaim, FreeExclusion, MapReassign, MapVcpu, MapDone, MapWrite,
       MapUnlock, UnmapReassign, SharedWork, ListUnlock, CreateLock, CreateVcpu, ReleaseList,
       ReleaseLock, ReleaseVcpu, LockNext
  <2> QED BY <2>1, <2>2
<1>2. CASE vcpu' = vcpu
  BY <1>1, <1>2 DEF Held, OtherVcpus, MapVcpus
<1>3. CASE vcpu' # vcpu
  <2>1. pc[u] \notin LoopPcs
    BY <1>3, TableChange
  <2> QED BY <1>1, <2>1 DEF Held, LoopPcs
<1> QED BY <1>1, <1>2, <1>3

\* A step changes the locks of no other thread, and leaves to its own thread
\* the locks its new position needs.
LEMMA VcpuStep ==
  ASSUME TypeOK, TypeOK', LockDiscipline, NEW t \in Threads, Start(t) \/ Continue(t)
  PROVE  VcpuDiscipline'
<1> USE NoneAssumption
<1>0. pc \in [Threads -> Pcs] /\ cursor \in [Threads -> 0 .. Slots]
      /\ vcpu_lock \in [Ids -> Threads \cup {None}] /\ target \in [Threads -> Ids]
      /\ vcpu \subseteq Ids
  BY DEF TypeOK
<1>1. \A u \in Threads \ {t}, v \in Ids : v \in Held(u)' <=> vcpu_lock[v] = u
  BY OthersKeep DEF LockDiscipline, VcpuDiscipline
<1>2. \A v \in Ids : vcpu_lock[v] = t <=> v \in Held(t)
  BY DEF LockDiscipline, VcpuDiscipline
\* It is enough to follow the locks of t.
<1>3. SUFFICES
        /\ \A u \in Threads \ {t}, v \in Ids : vcpu_lock'[v] = u <=> vcpu_lock[v] = u
        /\ \A v \in Ids : vcpu_lock'[v] = t <=> v \in Held(t)'
  BY <1>1 DEF VcpuDiscipline
<1>4. CASE vcpu_lock' = vcpu_lock /\ Held(t)' = Held(t)
  BY <1>2, <1>4
<1>5. ASSUME NEW v \in Ids, AcquireVcpu(t, v), Held(t)' = Held(t) \cup {v}
      PROVE  /\ \A u \in Threads \ {t}, w \in Ids : vcpu_lock'[w] = u <=> vcpu_lock[w] = u
             /\ \A w \in Ids : vcpu_lock'[w] = t <=> w \in Held(t)'
  BY <1>0, <1>2, <1>5 DEF AcquireVcpu
<1>6. ASSUME NEW S \in SUBSET Held(t), ReleaseVcpus(S), Held(t)' = Held(t) \ S
      PROVE  /\ \A u \in Threads \ {t}, w \in Ids : vcpu_lock'[w] = u <=> vcpu_lock[w] = u
             /\ \A w \in Ids : vcpu_lock'[w] = t <=> w \in Held(t)'
  BY <1>0, <1>2, <1>6 DEF ReleaseVcpus
\* Steps that take or free no push lock.
<1>7. CASE Start(t)
  BY <1>0, <1>4, <1>7 DEF Start, RunReference, ListOperation, CreateCall, ReleaseReference,
     Goto, locks, Held, RunPcs
<1>8. CASE GuestExit(t) \/ GuestNsvExit(t)
  BY <1>0, <1>4, <1>8 DEF GuestExit, GuestNsvExit, Goto, locks, Held, RunPcs
<1>9. CASE GainList(t)
  <2>1. vcpu_lock' = vcpu_lock /\ vcpu' = vcpu /\ target' = target
    BY <1>9 DEF GainList
  <2>2. Held(t) = {v \in Ids : v = target[t]}
    BY <1>9 DEF GainList, Held, RunPcs
  <2>3. Held(t)' = {v \in Ids : v = target[t]}
    BY <1>0, <1>9, <2>1 DEF GainList, Goto, Held, RunPcs, Ids
  <2> QED BY <1>4, <2>1, <2>2, <2>3
<1>10. CASE GainDone(t)
  BY <1>0, <1>4, <1>10 DEF GainDone, GainPending, OtherVcpus, Goto, locks, Held, RunPcs, Ids
<1>11. CASE MapDone(t)
  BY <1>0, <1>4, <1>11 DEF MapDone, MapPending, MapVcpus, Goto, locks, Held, RunPcs, Ids
<1>12. CASE NsvActivate(t) \/ NsvClaim(t) \/ MapWrite(t)
  BY <1>0, <1>4, <1>12 DEF NsvActivate, NsvClaim, MapWrite, OtherVcpus, MapVcpus, Goto, locks,
     Held, RunPcs
<1>13. CASE MapReassign(t)
  <2>1. Held(t) = {} /\ Held(t)' = {}
    BY <1>0, <1>13 DEF MapReassign, MapVcpus, Goto, Held, RunPcs, Ids
  <2> QED BY <1>4, <1>13, <2>1 DEF MapReassign, locks
<1>14. CASE UnmapReassign(t) \/ SharedWork(t) \/ ListUnlock(t)
  BY <1>0, <1>4, <1>14 DEF UnmapReassign, SharedWork, ListUnlock, Goto, locks, Held, RunPcs
<1>15. CASE CreateLock(t) \/ ReleaseList(t) \/ CreateVcpu(t)
  BY <1>0, <1>4, <1>15 DEF CreateLock, ReleaseList, CreateVcpu, Goto, Held, RunPcs
\* Steps that take a push lock.
<1>16. CASE RunLock(t)
  <2>1. Held(t)' = Held(t) \cup {target[t]}
    BY <1>0, <1>16 DEF RunLock, Goto, Held, RunPcs
  <2> QED BY <1>0, <1>5, <1>16, <2>1 DEF RunLock
<1>17. CASE ReleaseLock(t)
  <2>1. Held(t)' = Held(t) \cup {target[t]}
    BY <1>0, <1>17 DEF ReleaseLock, Goto, Held, RunPcs
  <2> QED BY <1>0, <1>5, <1>17, <2>1 DEF ReleaseLock
<1>18. CASE GainVcpu(t)
  <2>1. PICK v \in GainPending(t) : /\ \A w \in GainPending(t) : v <= w
                                   /\ AcquireVcpu(t, v)
                                   /\ cursor' = [cursor EXCEPT ![t] = v + 1]
    BY <1>18 DEF GainVcpu, LockNext
  <2>2. v \in Ids
    BY <1>0 DEF GainPending, OtherVcpus
  <2>3. Held(t)' = Held(t) \cup {v}
    BY <1>0, <1>18, <2>1, <2>2 DEF GainVcpu, GainPending, OtherVcpus, Held, RunPcs, Ids
  <2> QED BY <1>5, <2>1, <2>2, <2>3
<1>19. CASE MapVcpu(t)
  <2>1. PICK v \in MapPending(t) : /\ \A w \in MapPending(t) : v <= w
                                  /\ AcquireVcpu(t, v)
                                  /\ cursor' = [cursor EXCEPT ![t] = v + 1]
    BY <1>19 DEF MapVcpu, LockNext
  <2>2. v \in Ids
    BY <1>0 DEF MapPending, MapVcpus
  <2>3. Held(t)' = Held(t) \cup {v}
    BY <1>0, <1>19, <2>1, <2>2 DEF MapVcpu, MapPending, MapVcpus, Held, RunPcs, Ids
  <2> QED BY <1>5, <2>1, <2>2, <2>3
\* Steps that free push locks.
<1>20. CASE RunUnlock(t)
  <2>1. Held(t) = {target[t]} /\ Held(t)' = {}
    BY <1>0, <1>20 DEF RunUnlock, Goto, Held, RunPcs
  <2> QED BY <1>6, <1>20, <2>1 DEF RunUnlock
<1>21. CASE FreeExclusion(t)
  <2>1. OtherVcpus(t) \subseteq Held(t)
    BY <1>0, <1>21 DEF FreeExclusion, OtherVcpus, Held
  <2>2. Held(t)' = Held(t) \ OtherVcpus(t)
    BY <1>0, <1>21 DEF FreeExclusion, OtherVcpus, Goto, Held, RunPcs
  <2> QED BY <1>6, <1>21, <2>1, <2>2 DEF FreeExclusion
<1>22. CASE MapUnlock(t)
  <2>1. MapVcpus \subseteq Held(t)
    BY <1>0, <1>22 DEF MapUnlock, MapVcpus, Held
  <2>2. Held(t)' = Held(t) \ MapVcpus
    BY <1>0, <1>22 DEF MapUnlock, MapVcpus, Goto, Held, RunPcs
  <2> QED BY <1>6, <1>22, <2>1, <2>2 DEF MapUnlock
<1>23. CASE ReleaseVcpu(t)
  <2>1. Held(t) = {target[t]} /\ Held(t)' = {}
    BY <1>0, <1>23 DEF ReleaseVcpu, Goto, Held, RunPcs
  <2> QED BY <1>6, <1>23, <2>1 DEF ReleaseVcpu
<1> QED BY <1>7, <1>8, <1>9, <1>10, <1>11, <1>12, <1>13, <1>14, <1>15, <1>16, <1>17, <1>18,
           <1>19, <1>20, <1>21, <1>22, <1>23 DEF Continue

-----------------------------------------------------------------------------
(* The vCPUs in use, and the discipline as a whole.                        *)

\* A step does not release a vCPU another thread uses.
LEMMA TargetStep ==
  ASSUME TypeOK, LockDiscipline, NEW t \in Threads, Start(t) \/ Continue(t)
  PROVE  TargetDiscipline'
<1> DEFINE Using(u) == pc[u] \in RunPcs \cup ReleasePcs \cup {"run_lock"}
<1>0. pc \in [Threads -> Pcs] /\ target \in [Threads -> Ids]
  BY DEF TypeOK
<1>1. \A u \in Threads \ {t} : pc'[u] = pc[u] /\ target'[u] = target[u]
  BY OthersKeep DEF LockDiscipline
<1>2. /\ \A u \in Threads : Using(u) => target[u] \in vcpu
      /\ \A u, w \in Threads : u # w /\ target[u] = target[w] /\ pc[u] \in ReleasePcs
                                => ~Using(w)
  BY DEF LockDiscipline, TargetDiscipline
\* Steps that keep the thread on the same vCPU or leave it.
<1>3. CASE /\ vcpu \subseteq vcpu' /\ target' = target
           /\ Using(t)' => Using(t)
           /\ pc'[t] \in ReleasePcs => pc[t] \in ReleasePcs
  BY <1>0, <1>1, <1>2, <1>3 DEF TargetDiscipline
<1> USE DEF Goto, RunPcs, ReleasePcs
<1>4. CASE RunReference(t)
  BY <1>0, <1>1, <1>2, <1>4 DEF RunReference, NotReleasing, TargetDiscipline
<1>5. CASE ReleaseReference(t)
  BY <1>0, <1>1, <1>2, <1>5 DEF ReleaseReference, NotReleasing, NotRunning, TargetDiscipline
<1>6. CASE CreateCall(t)
  BY <1>0, <1>1, <1>2, <1>6 DEF CreateCall, TargetDiscipline
<1>7. CASE ReleaseVcpu(t)
  BY <1>0, <1>1, <1>2, <1>7 DEF ReleaseVcpu, TargetDiscipline
<1>8. CASE ListOperation(t)
  BY <1>0, <1>3, <1>8 DEF ListOperation
<1>9. CASE RunLock(t) \/ GuestExit(t) \/ GuestNsvExit(t) \/ RunUnlock(t)
  BY <1>0, <1>3, <1>9 DEF RunLock, GuestExit, GuestNsvExit, RunUnlock
<1>10. CASE GainList(t) \/ GainVcpu(t) \/ GainDone(t) \/ FreeExclusion(t)
  BY <1>0, <1>3, <1>10 DEF GainList, GainVcpu, GainDone, FreeExclusion
<1>11. CASE NsvActivate(t) \/ NsvClaim(t)
  BY <1>0, <1>3, <1>11 DEF NsvActivate, NsvClaim
<1>12. CASE MapReassign(t) \/ MapVcpu(t) \/ MapDone(t) \/ MapWrite(t) \/ MapUnlock(t)
  BY <1>0, <1>3, <1>12 DEF MapReassign, MapVcpu, MapDone, MapWrite, MapUnlock
<1>13. CASE UnmapReassign(t) \/ SharedWork(t) \/ ListUnlock(t)
  BY <1>0, <1>3, <1>13 DEF UnmapReassign, SharedWork, ListUnlock
<1>14. CASE CreateLock(t) \/ CreateVcpu(t)
  BY <1>0, <1>3, <1>14 DEF CreateLock, CreateVcpu
<1>15. CASE ReleaseList(t) \/ ReleaseLock(t)
  BY <1>0, <1>3, <1>15 DEF ReleaseList, ReleaseLock
<1> QED BY <1>4, <1>5, <1>6, <1>7, <1>8, <1>9, <1>10, <1>11, <1>12, <1>13, <1>14, <1>15
        DEF Start, Continue

\* The locking discipline of the CVM operations holds for every number of host
\* threads and vCPUs: no lock is leaked, double-owned or freed by another.
THEOREM LockDisciplineCorrect == Spec => []LockDiscipline
<1>1. Init => VcpuDiscipline /\ TargetDiscipline
  BY NoneAssumption DEF Init, VcpuDiscipline, TargetDiscipline, Held, RunPcs, ReleasePcs
<1>2. TypeOK /\ TypeOK' /\ ListDiscipline /\ VcpuDiscipline /\ TargetDiscipline /\ [Next]_vars
        => VcpuDiscipline' /\ TargetDiscipline'
  <2> SUFFICES ASSUME TypeOK, TypeOK', ListDiscipline, VcpuDiscipline, TargetDiscipline,
                      [Next]_vars
               PROVE  VcpuDiscipline' /\ TargetDiscipline'
    OBVIOUS
  <2>1. LockDiscipline
    BY DEF LockDiscipline
  <2>2. CASE UNCHANGED vars
    BY <2>2 DEF vars, locks, VcpuDiscipline, TargetDiscipline, Held, OtherVcpus, MapVcpus
  <2>3. CASE Next
    BY <2>1, <2>3, VcpuStep, TargetStep DEF Next
  <2> QED BY <2>2, <2>3
<1>3. Spec => [](VcpuDiscipline /\ TargetDiscipline)
  BY <1>1, <1>2, TypeCorrect, ListCorrect, PTL DEF Spec
<1> QED BY <1>3, ListCorrect, PTL DEF LockDiscipline

-----------------------------------------------------------------------------
(* What the discipline gives.                                              *)

\* While set_mapping edits the nested page table, every vCPU it iterates over
\* is out of guest mode, for every number of threads and slots.
THEOREM MappingExclusion == Spec => []MappingExcluded
<1>1. TypeOK /\ LockDiscipline => MappingExcluded
  <2> SUFFICES ASSUME TypeOK, LockDiscipline, NEW t \in Threads, NEW u \in Threads,
                      pc[t] = "map_write", pc[u] = "guest", target[u] < MapSlots
               PROVE  FALSE
    BY SlotsAssumption DEF MappingExcluded, TypeOK, Ids
  <2>1. target[u] \in vcpu /\ target[u] \in Ids
    BY DEF LockDiscipline, TargetDiscipline, RunPcs, TypeOK
  <2>2. target[u] \in Held(t) /\ target[u] \in Held(u)
    BY <2>1 DEF Held, MapVcpus, RunPcs
  <2>3. vcpu_lock[target[u]] = t /\ vcpu_lock[target[u]] = u
    BY <2>1, <2>2 DEF LockDiscipline, VcpuDiscipline
  <2> QED BY <2>3
<1> QED BY <1>1, TypeCorrect, LockDisciplineCorrect, PTL

\* NSV activation and page claims run with every other vCPU out of guest mode
\* and every mapping operation outside its section.
THEOREM NsvExclusion == Spec => []NsvExcluded
<1>1. TypeOK /\ LockDiscipline => NsvExcluded
  <2> SUFFICES ASSUME TypeOK, LockDiscipline, NEW t \in Threads, NEW u \in Threads,
                      pc[t] = "nsv_work", u # t
               PROVE  pc[u] # "guest" /\ pc[u] \notin SharedPcs
    BY DEF NsvExcluded
  <2>1. pc[u] \notin SharedPcs
    BY NoneAssumption DEF LockDiscipline, ListDiscipline, ExclusivePcs
  <2>2. ASSUME pc[u] = "guest" PROVE FALSE
    <3>1. target[u] \in vcpu /\ target[u] \in Ids
      BY <2>2 DEF LockDiscipline, TargetDiscipline, RunPcs, TypeOK
    <3>2. target[u] \in Held(t) /\ target[u] \in Held(u)
      BY <2>2, <3>1 DEF Held, OtherVcpus, RunPcs
    <3>3. vcpu_lock[target[u]] = t /\ vcpu_lock[target[u]] = u
      BY <3>1, <3>2 DEF LockDiscipline, VcpuDiscipline
    <3> QED BY <3>3
  <2> QED BY <2>1, <2>2
<1> QED BY <1>1, TypeCorrect, LockDisciplineCorrect, PTL

\* The table of vCPUs is frozen while a thread is inside a loop over it.
THEOREM TableFrozen == Spec => TableFrozenWhileLocking
<1>1. TypeOK /\ ListDiscipline /\ [Next]_vars
        => [vcpu' # vcpu => \A t \in Threads : pc[t] \notin LoopPcs]_vars
  <2> SUFFICES ASSUME TypeOK, ListDiscipline, Next, vcpu' # vcpu
               PROVE  \A t \in Threads : pc[t] \notin LoopPcs
    BY DEF vars
  <2> QED BY TableChange DEF Next
<1>2. TypeOK /\ ListDiscipline /\ [Next]_vars
        => [vcpu' # vcpu =>
              \A t \in Threads : pc[t] \notin {"nsv_lock", "nsv_work", "nsv_free",
                                               "map_lock", "map_write", "map_unlock"}]_vars
  BY <1>1 DEF LoopPcs
<1> QED BY <1>2, TypeCorrect, ListCorrect, PTL DEF Spec, TableFrozenWhileLocking

-----------------------------------------------------------------------------
(* Deadlock.                                                               *)

\* Without NSV no thread is in a section of it.
NsvPcs == {"nsv_list", "nsv_lock", "nsv_work", "nsv_free"}
NoNsv == ~ enable_nsv => \A t \in Threads : pc[t] \notin NsvPcs

LEMMA NoNsvCorrect == Spec => []NoNsv
<1>1. Init => NoNsv BY DEF Init, NoNsv, NsvPcs
<1>2. TypeOK /\ NoNsv /\ [Next]_vars => NoNsv'
  <2> SUFFICES ASSUME TypeOK, NoNsv, [Next]_vars, ~ enable_nsv' PROVE \A t \in Threads : pc'[t] \notin NsvPcs
    BY DEF NoNsv
  <2>1. CASE UNCHANGED vars BY <2>1 DEF vars, nsv, NoNsv
  <2>2. ASSUME NEW t \in Threads, Start(t) \/ Continue(t) PROVE \A u \in Threads : pc'[u] \notin NsvPcs
    <3>1. ~ enable_nsv
      BY <2>2 DEF Start, Continue, RunReference, ListOperation, CreateCall, ReleaseReference, RunLock,
         GuestExit, GuestNsvExit, RunUnlock, GainList, GainVcpu, GainDone, NsvActivate, NsvClaim,
         FreeExclusion, MapReassign, MapVcpu, MapDone, MapWrite, MapUnlock, UnmapReassign, SharedWork,
         ListUnlock, CreateLock, CreateVcpu, ReleaseList, ReleaseLock, ReleaseVcpu, nsv
    <3>2. pc[t] \notin NsvPcs /\ pc \in [Threads -> Pcs] BY <3>1 DEF NoNsv, TypeOK
    <3>3. PICK where \in Pcs \ NsvPcs : pc' = [pc EXCEPT ![t] = where] \/ pc' = pc
      <4> USE DEF Goto, NsvPcs, Pcs, AwaitPcs, ExclusivePcs, SharedPcs, RunPcs
      <4>1. CASE Start(t)
        BY <4>1 DEF Start, RunReference, ListOperation, CreateCall, ReleaseReference
      <4>2. CASE RunLock(t) \/ GuestExit(t) \/ RunUnlock(t) BY <4>2 DEF RunLock, GuestExit, RunUnlock
      <4>3. CASE GuestNsvExit(t) BY <3>1, <4>3 DEF GuestNsvExit
      <4>4. CASE GainList(t) \/ GainVcpu(t) \/ GainDone(t) \/ NsvActivate(t) \/ NsvClaim(t) \/ FreeExclusion(t)
        BY <3>2, <4>4 DEF GainList, GainVcpu, GainDone, NsvActivate, NsvClaim, FreeExclusion
      <4>5. CASE MapReassign(t) \/ MapVcpu(t) \/ MapDone(t) \/ MapWrite(t) \/ MapUnlock(t) \/ UnmapReassign(t)
        BY <4>5 DEF MapReassign, MapVcpu, MapDone, MapWrite, MapUnlock, UnmapReassign
      <4>6. CASE SharedWork(t) \/ ListUnlock(t) BY <4>6 DEF SharedWork, ListUnlock
      <4>7. CASE CreateLock(t) \/ CreateVcpu(t) \/ ReleaseList(t) \/ ReleaseLock(t) \/ ReleaseVcpu(t)
        BY <4>7 DEF CreateLock, CreateVcpu, ReleaseList, ReleaseLock, ReleaseVcpu
      <4> QED BY <2>2, <4>1, <4>2, <4>3, <4>4, <4>5, <4>6, <4>7 DEF Continue
    <3> QED BY <3>1, <3>2, <3>3 DEF NoNsv
  <2> QED BY <2>1, <2>2 DEF Next
<1> QED BY <1>1, <1>2, TypeCorrect, PTL DEF Spec

\* Who waits for a vCPU waits for a mapping operation that locks them all, and that one for
\* another that is further in the table.
LEMMA Waiters ==
  ASSUME TypeOK, LockDiscipline, NoNsv, ~ enable_nsv,
         NEW t \in Threads, NEW u \in Threads, u \in WaitsFor(t), NEW z, z \in WaitsFor(u)
  PROVE  /\ pc[t] # "release_lock" /\ pc[u] \in {"map_lock", "release_lock"}
         /\ pc[t] = "map_lock" => pc[u] = "map_lock" /\ cursor[t] < cursor[u]
<1> USE NoneAssumption
<1>1. pc[t] \notin NsvPcs /\ pc[u] \notin NsvPcs BY DEF NoNsv
<1>2. /\ pc[u] \in AwaitPcs \cup {"run_lock", "release_lock", "map_lock"}
      /\ pc[t] \in AwaitPcs \cup {"run_lock", "release_lock", "map_lock"}
  BY <1>1 DEF WaitsFor, NsvPcs
<1>3. ASSUME pc[t] \in AwaitPcs PROVE pc[u] \in {"map_lock", "release_lock"}
  <2>1. list_owner = u \/ u \in list_shared BY <1>3 DEF WaitsFor
  <2>2. pc[u] \in ExclusivePcs \cup SharedPcs BY <2>1 DEF LockDiscipline, ListDiscipline
  <2> QED BY <1>1, <1>2, <2>2 DEF ExclusivePcs, SharedPcs, AwaitPcs, NsvPcs
<1>4. ASSUME NEW v \in Ids, vcpu_lock[v] = u PROVE pc[u] = "map_lock" /\ v \in MapVcpus /\ v < cursor[u]
  <2>1. v \in Held(u) BY <1>4 DEF LockDiscipline, VcpuDiscipline
  <2> QED BY <1>1, <1>2, <2>1 DEF Held, RunPcs, AwaitPcs, NsvPcs
<1>5. ASSUME pc[t] \in {"run_lock", "release_lock"} PROVE vcpu_lock[target[t]] = u /\ target[t] \in Ids
  BY <1>5 DEF WaitsFor, AwaitPcs, TypeOK
<1>6. pc[t] # "release_lock"
  <2> SUFFICES ASSUME pc[t] = "release_lock" PROVE FALSE
    OBVIOUS
  <2>1. pc[u] = "map_lock" BY <1>4, <1>5
  <2>2. u \in list_shared /\ list_owner = t
    BY <2>1 DEF LockDiscipline, ListDiscipline, SharedPcs, ExclusivePcs
  <2> QED BY <2>2 DEF LockDiscipline, ListDiscipline
<1>7. ASSUME pc[t] = "map_lock" PROVE pc[u] = "map_lock" /\ cursor[t] < cursor[u]
  <2>1. PICK v \in MapPending(t) : vcpu_lock[v] = u BY <1>7 DEF WaitsFor, AwaitPcs, FirstOf
  <2>2. v \in Ids /\ v >= cursor[t] BY <2>1 DEF MapPending, MapVcpus, TypeOK
  <2>3. pc[u] = "map_lock" /\ v < cursor[u] BY <1>4, <2>1, <2>2
  <2>4. v \in Int /\ cursor[t] \in Int /\ cursor[u] \in Int BY <2>2, SlotsAssumption DEF TypeOK, Ids
  <2> QED BY <2>2, <2>3, <2>4
<1> QED BY <1>2, <1>3, <1>4, <1>5, <1>6, <1>7

\* Without NSV no threads wait for each other in a circle, for every number of threads and
\* slots: each mapping operation waits for one that is further in the table.
THEOREM NoDeadlock == Spec => []NoCircularWait
<1>1. TypeOK /\ LockDiscipline /\ NoNsv => NoCircularWait
  <2> SUFFICES ASSUME TypeOK, LockDiscipline, NoNsv, ~ enable_nsv,
                      NEW S \in SUBSET Threads, S # {}, \A t \in S : WaitsFor(t) \cap S # {}
               PROVE  FALSE
    BY DEF NoCircularWait
  <2>1. ASSUME NEW t \in S
        PROVE  \E u \in S : /\ pc[t] # "release_lock" /\ pc[u] = "map_lock"
                            /\ pc[t] = "map_lock" => cursor[t] < cursor[u]
    <3>1. PICK u \in S : u \in WaitsFor(t) OBVIOUS
    <3>2. PICK z \in S : z \in WaitsFor(u) OBVIOUS
    <3>3. PICK y \in S : y \in WaitsFor(z) OBVIOUS
    <3>4. /\ pc[t] # "release_lock" /\ pc[u] \in {"map_lock", "release_lock"}
          /\ pc[t] = "map_lock" => pc[u] = "map_lock" /\ cursor[t] < cursor[u]
      BY <3>1, <3>2, Waiters
    <3>5. pc[u] # "release_lock" BY <3>2, <3>3, Waiters
    <3> QED BY <3>4, <3>5
  <2> DEFINE Left == {Slots - cursor[t] : t \in {u \in S : pc[u] = "map_lock"}}
  <2>2. Left \subseteq Nat BY SlotsAssumption DEF TypeOK
  <2>3. Left # {} BY <2>1
  <2>4. PICK x \in Left : \A y \in Left : ~ (<<y, x>> \in OpToRel(<, Nat))
    BY <2>2, <2>3, WFMin, NatLessThanWellFounded
  <2>5. \A y \in Left : ~ (y < x) BY <2>2, <2>4 DEF OpToRel
  <2>6. PICK t \in S : pc[t] = "map_lock" /\ x = Slots - cursor[t] BY <2>4
  <2>7. PICK u \in S : pc[u] = "map_lock" /\ cursor[t] < cursor[u] BY <2>1, <2>6
  <2>8. Slots - cursor[u] \in Left BY <2>7
  <2>9. Slots - cursor[u] < Slots - cursor[t] BY <2>7, SlotsAssumption DEF TypeOK
  <2> QED BY <2>5, <2>6, <2>8, <2>9
<1> QED BY <1>1, TypeCorrect, LockDisciplineCorrect, NoNsvCorrect, PTL
=============================================================================
