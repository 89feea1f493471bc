------------------------- MODULE CvmStateCacheProofs -------------------------
(* Type correctness of the state cache for every use of the interface, and,  *)
(* for hosts that use it the way it can be relied on (SoundUse), coherence   *)
(* of the copies and implementation of the register file.                    *)
EXTENDS CvmStateCache, TLAPS

USE RegsAssumption, InterfaceAssumption, ProcsAssumption, ModeAssumption

\* What the groups and areas of registers can be.
LEMMA GroupArea ==
  \A r \in Regs : Group(r) \in Groups \cup {"none"} /\ Area(r) \in Areas \cup {"none"}
BY DEF Group, Area, Groups, Areas, Registers

LEMMA NoneIsNoArea == "none" \notin Areas /\ "none" \notin Groups
BY DEF Areas, Groups

LEMMA TypeStep ==
  ASSUME TypeOK, [Next]_vars PROVE TypeOK'
<1> USE DEF TypeOK
<1>1. CASE UNCHANGED vars
  BY <1>1 DEF vars
<1>2. ASSUME NEW p \in Procs, Enter(p) PROVE TypeOK'
  <2> DEFINE cleanBits == CleanFor(p) \ LoadedAreas(ToLoad)
             loaded == Merge(vmcb, header, ToLoad)
  <2>1. loaded \in [Regs -> Values]
    BY DEF Merge
  <2>2. cleanBits \subseteq Areas
    BY DEF CleanFor
  <2>3. PICK keep \in SUBSET cleanBits :
           live' = [r \in Regs |-> IF Area(r) \in keep THEN hw[p][r] ELSE loaded[r]]
    BY <1>2 DEF Enter, Vmrun
  <2>4. live' \in [Regs -> Values]
    BY <2>1, <2>3
  <2>5. valid' \subseteq Groups
    BY <1>2, GroupArea DEF Enter, ValidAfterLoad
  <2> QED
    BY <1>2, <2>1, <2>2, <2>4, <2>5 DEF Enter
<1>3. ASSUME NEW r \in Regs, NEW v \in Values, GuestWrite(r, v) PROVE TypeOK'
  BY <1>3 DEF GuestWrite
<1>4. ASSUME NEW r \in Regs, NEW v \in Values, Emulate(r, v) PROVE TypeOK'
  <2>1. PICK keep : live' = [q \in Regs |-> IF Area(q) \in keep THEN live[q]
                                            ELSE IF q = r THEN v ELSE live[q]]
    BY <1>4 DEF Emulate
  <2>2. live' \in [Regs -> Values]
    BY <2>1
  <2>3. vmcb' \in [Regs -> Values] /\ hw' \in [Procs -> [Regs -> Values]]
    BY <1>4 DEF Emulate, Merge, Vmexit
  <2> QED
    BY <1>4, <2>2, <2>3 DEF Emulate, Vmexit
<1>5. ASSUME NEW r \in Regs, NEW v \in Values, Edit2(r, v) PROVE TypeOK'
  BY <1>5 DEF Edit2
<1>6. CASE Exit
  BY <1>6 DEF Exit, Vmexit, Merge
<1>7. ASSUME NEW U \in UnitsOf, NEW new \in [U -> Values], Edit(U, new) PROVE TypeOK'
  BY <1>7 DEF Edit, Merge
<1>8. CASE Dump \/ DumpDone
  BY <1>8 DEF Dump, DumpDone, Merge
<1>9. ASSUME NEW r \in Regs, View(r) \/ View2(r) PROVE TypeOK'
  BY <1>9 DEF View, View2, Show
<1> HIDE DEF TypeOK
<1> QED
  BY <1>1, <1>2, <1>3, <1>4, <1>5, <1>6, <1>7, <1>8, <1>9 DEF Next

LEMMA InitTypeOK == Init => TypeOK
<1> SUFFICES ASSUME Init PROVE TypeOK
  OBVIOUS
<1>1. PICK v \in Values :
        /\ header = [r \in Regs |-> v]
        /\ vmcb = [r \in Regs |-> v]
        /\ live = [r \in Regs |-> v]
        /\ hw = [p \in Procs |-> [r \in Regs |-> v]]
        /\ valid = {} /\ synchronized = FALSE /\ clean = {}
        /\ proc_id = NoProc /\ mode = "host" /\ dumping = FALSE
        /\ seen \in [reg : Regs, val : {v}]
  BY DEF Init
<1>2. seen \in [reg : Regs, val : Values]
  BY <1>1
<1>3. hw \in [Procs -> [Regs -> Values]]
  BY <1>1
<1> QED
  BY <1>1, <1>2, <1>3 DEF TypeOK

\* For the world switches and the host's calls: every copy of every register
\* keeps its type, and a vCPU in guest mode is on a processor.
THEOREM TypeCorrect == Spec => []TypeOK
<1> QED
  BY InitTypeOK, TypeStep, PTL DEF Spec
------------------------------------------------------------------------------
\* What SoundUse says of each register.
LEMMA SoundRegs ==
  ASSUME SoundUse, NEW r \in Regs
  PROVE  /\ r \in Dumped \/ r \in SavedAtSwitch
         /\ r # "cr4"
         /\ Area(r) \in Areas => InVmcb(r)
         /\ Group(r) # "none" => InVmcb(r)
         /\ Group(r) = "none" => ~InVmcb(r)
BY DEF SoundUse, Dumped, SavedAtSwitch, Registers, Area, Areas, Group, InVmcb

\* Entering loads what the host left: the processor's copy is used only where
\* it is the VMCB's.
LEMMA EnterLoads ==
  ASSUME SoundUse, TypeOK, Coherent, NEW p \in Procs, Enter(p)
  PROVE  /\ live' = Merge(vmcb, header, ToLoad)
         /\ vmcb' = Merge(vmcb, header, ToLoad)
<1> DEFINE cleanBits == CleanFor(p) \ LoadedAreas(ToLoad)
           loaded == Merge(vmcb, header, ToLoad)
<1>1. vmcb' = loaded
  BY DEF Enter
<1>2. PICK keep \in SUBSET cleanBits :
         live' = [r \in Regs |-> IF Area(r) \in keep THEN hw[p][r] ELSE loaded[r]]
  BY DEF Enter, Vmrun
<1>3. ASSUME NEW r \in Regs, Area(r) \in keep PROVE hw[p][r] = loaded[r]
  <2>1. Area(r) \in CleanFor(p) /\ Area(r) \notin LoadedAreas(ToLoad)
    BY <1>2, <1>3
  <2>2. proc_id = p /\ Area(r) \in clean
    BY <2>1 DEF CleanFor
  <2>3. r \notin ToLoad
    BY <2>1 DEF LoadedAreas
  <2>4. hw[p][r] = vmcb[r]
    BY <2>2 DEF Coherent, Enter
  <2> QED
    BY <2>3, <2>4 DEF Merge
<1>4. live' = [r \in Regs |-> loaded[r]]
  BY <1>2, <1>3
<1>5. [r \in Regs |-> loaded[r]] = loaded
  BY DEF Merge
<1> QED
  BY <1>1, <1>4, <1>5

\* A handler's write is what the guest resumes with.
LEMMA EmulateLoads ==
  ASSUME SoundUse, TypeOK, NEW r \in Regs, NEW v \in Values, Emulate(r, v)
  PROVE  live' = [live EXCEPT ![r] = v]
<1>1. PICK keep \in SUBSET (Areas \ ClearedByHandler(r)) :
        live' = [q \in Regs |-> IF Area(q) \in keep THEN live[q]
                                ELSE IF q = r THEN v ELSE live[q]]
  BY DEF Emulate
<1>2. Area(r) \notin keep
  BY <1>1, SoundRegs DEF ClearedByHandler
<1>3. live \in [Regs -> Values]
  BY DEF TypeOK
<1> QED
  BY <1>1, <1>2, <1>3

LEMMA CoherentStep ==
  ASSUME SoundUse, TypeOK, Coherent, [Next]_vars PROVE Coherent'
<1>0. ~Concurrent
  BY DEF SoundUse
<1>1. CASE UNCHANGED vars
  BY <1>1 DEF vars, Coherent
<1>2. ASSUME NEW p \in Procs, Enter(p) PROVE Coherent'
  <2>1. mode' = "guest" /\ dumping' = FALSE
    BY <1>2, <1>0 DEF Enter, TypeOK
  <2>2. \A r \in Regs : Group(r) \in valid' \cup {"none"}
    BY <1>2 DEF Enter, ValidAfterLoad
  <2> QED
    BY <2>1, <2>2 DEF Coherent
<1>3. ASSUME NEW r \in Regs, NEW v \in Values, GuestWrite(r, v) PROVE Coherent'
  BY <1>3 DEF GuestWrite, Coherent
<1>4. ASSUME NEW r \in Regs, NEW v \in Values, Emulate(r, v) PROVE Coherent'
  BY <1>4 DEF Emulate, Coherent
<1>5. ASSUME NEW r \in Regs, NEW v \in Values, Edit2(r, v) PROVE Coherent'
  <2>1. r # "rsp" /\ mode = "host" /\ ~dumping
    BY <1>5, <1>0 DEF Edit2, HostCalls, SoundUse
  <2>2. valid' = valid \ {Group(r)} /\ header' = [header EXCEPT ![r] = v]
    BY <1>5, <2>1 DEF Edit2, Edit2Clears
  <2>3. \A q \in Regs : Group(q) \in valid' => header'[q] = header[q] /\ Group(q) \in valid
    BY <2>2 DEF TypeOK
  <2> QED
    BY <1>5, <2>1, <2>3 DEF Edit2, Coherent
<1>6. CASE Exit
  <2>1. ~dumping /\ proc_id \in Procs /\ mode = "guest"
    BY <1>6 DEF Exit, Coherent, TypeOK
  <2>2. \A r \in Regs : Area(r) \in Areas => hw'[proc_id'][r] = vmcb'[r]
    <3>1. hw'[proc_id] = Merge(hw[proc_id], live, {r \in Regs : Area(r) # "none"}) /\ proc_id' = proc_id
      BY <1>6, <2>1 DEF Exit, Vmexit, TypeOK
    <3>2. vmcb' = Merge(vmcb, live, {r \in Regs : InVmcb(r)})
      BY <1>6 DEF Exit
    <3> QED
      BY <3>1, <3>2, SoundRegs, NoneIsNoArea DEF Merge
  <2>3. \A r \in Regs : Group(r) \in valid' /\ r \in SavedAtSwitch => header'[r] = vmcb'[r]
    BY <1>6, SoundRegs, NoneIsNoArea DEF Exit, Merge, TypeOK
  <2> QED
    BY <1>6, <2>1, <2>2, <2>3 DEF Exit, Vmexit, Coherent
<1>7. ASSUME NEW U \in UnitsOf, NEW new \in [U -> Values], Edit(U, new) PROVE Coherent'
  <2>1. mode = "host" /\ ~dumping
    BY <1>7, <1>0 DEF Edit, HostCalls
  <2>2. \A q \in Regs : Group(q) \in valid' => header'[q] = header[q] /\ Group(q) \in valid
    BY <1>7 DEF Edit, Merge
  <2> QED
    BY <1>7, <2>1, <2>2 DEF Edit, Coherent
<1>8. CASE Dump
  <2>1. mode = "host"
    BY <1>8, <1>0 DEF Dump, HostCalls
  <2>2. \A r \in Regs : Group(r) \in valid => header'[r] = vmcb[r]
    BY <1>8, <2>1, SoundRegs DEF Dump, Merge, Dumpable, Coherent
  <2> QED
    BY <1>8, <2>1, <2>2 DEF Dump, Coherent
<1>9. CASE DumpDone
  BY <1>9 DEF DumpDone, Coherent
<1>10. ASSUME NEW r \in Regs, View(r) \/ View2(r) PROVE Coherent'
  BY <1>10 DEF View, View2, Coherent
<1> QED
  BY <1>1, <1>2, <1>3, <1>4, <1>5, <1>6, <1>7, <1>8, <1>9, <1>10 DEF Next

LEMMA InitCoherent == Init => TypeOK /\ Coherent
<1> SUFFICES ASSUME Init PROVE TypeOK /\ Coherent
  OBVIOUS
<1>1. TypeOK
  BY InitTypeOK
<1>2. Coherent
  BY DEF Init, Coherent
<1> QED
  BY <1>1, <1>2

LEMMA CoherentAlways == ASSUME SoundUse PROVE Spec => [](TypeOK /\ Coherent)
<1>1. TypeOK /\ Coherent /\ [Next]_vars => (TypeOK /\ Coherent)'
  BY TypeStep, CoherentStep
<1> QED
  BY <1>1, InitCoherent, PTL DEF Spec

\* For state_cache.synchronized (nvc_svm_dump_guest_vcpu_state and the views):
\* under SoundUse it never claims more than is true.
THEOREM SynchronizedFresh == ASSUME SoundUse PROVE Spec => []SynchronizedIsFresh
<1>1. TypeOK /\ Coherent => SynchronizedIsFresh
  BY DEF Coherent, SynchronizedIsFresh
<1> QED
  BY <1>1, CoherentAlways, PTL

\* For the VMCB clean bits: under SoundUse every vmrun loads what the VMCB says,
\* on whatever processor the vCPU is scheduled.
THEOREM CleanBitsCorrect == ASSUME SoundUse PROVE Spec => VmrunLoadsVmcb
<1>1. ASSUME TypeOK, Coherent, [Next]_vars
      PROVE  [(\E p \in Procs : Enter(p)) \/ (\E r \in Regs, v \in Values : Emulate(r, v))
               => \A r \in Regs : InVmcb(r) => live'[r] = vmcb'[r]]_vars
  <2>1. ASSUME NEW p \in Procs, Enter(p) PROVE \A r \in Regs : live'[r] = vmcb'[r]
    BY <1>1, <2>1, EnterLoads
  <2>2. ASSUME NEW r \in Regs, NEW v \in Values, Emulate(r, v)
        PROVE  \A q \in Regs : InVmcb(q) => live'[q] = vmcb'[q]
    <3>1. live' = [live EXCEPT ![r] = v]
      BY <1>1, <2>2, EmulateLoads
    <3> QED
      BY <3>1, <2>2 DEF Emulate, Merge
  <2> QED
    BY <2>1, <2>2
<1> QED
  BY <1>1, CoherentAlways, PTL DEF Spec, VmrunLoadsVmcb
------------------------------------------------------------------------------
(* The state cache implements the register file.                             *)

\* The refinement mapping of regs.
Abstract == [r \in Regs |-> IF mode = "guest" THEN live[r] ELSE Current(r)]

\* A register whose group the host may rely on is shown as it is.
LEMMA FreshIsCurrent ==
  ASSUME Coherent, mode = "host", ~dumping, NEW r \in Regs, Fresh(r)
  PROVE  header[r] = Current(r)
BY DEF Coherent, Fresh, Current

LEMMA RefinementStep ==
  ASSUME SoundUse, TypeOK, Coherent, [Next]_vars
  PROVE  [RegisterFile!Next]_(RegisterFile!vars)
<1>0. ~Concurrent /\ SyncFirst /\ Abstract \in [Regs -> Values]
  BY DEF SoundUse, TypeOK, Abstract, Current
<1>1. CASE UNCHANGED vars
  <2>1. Abstract' = Abstract
    BY <1>1 DEF vars, Abstract, Current
  <2> QED
    BY <1>1, <2>1 DEF vars, Abstract, RegisterFile!vars
<1>2. ASSUME NEW p \in Procs, Enter(p) PROVE RegisterFile!Enter
  <2>1. mode = "host" /\ mode' = "guest" /\ seen' = seen
    BY <1>2 DEF Enter
  <2>2. \A r \in Regs : live'[r] = Current(r)
    BY <1>2, EnterLoads DEF Merge, ToLoad, Current
  <2>3. Abstract' = Abstract
    BY <2>1, <2>2 DEF Abstract
  <2> QED
    BY <2>1, <2>3 DEF RegisterFile!Enter, Abstract
<1>3. ASSUME NEW r \in Regs, NEW v \in Values, GuestWrite(r, v) \/ Emulate(r, v)
      PROVE  RegisterFile!GuestWrite
  <2>1. mode = "guest" /\ mode' = "guest" /\ seen' = seen
    BY <1>3 DEF GuestWrite, Emulate
  <2>2. live' = [live EXCEPT ![r] = v]
    BY <1>3, EmulateLoads DEF GuestWrite
  <2>3. Abstract' = [Abstract EXCEPT ![r] = v]
    BY <2>1, <2>2 DEF Abstract, TypeOK
  <2> QED
    BY <2>1, <2>3 DEF RegisterFile!GuestWrite, Abstract
<1>4. CASE Exit
  <2>1. mode = "guest" /\ mode' = "host" /\ seen' = seen /\ valid' = valid
    BY <1>4 DEF Exit
  <2>2. \A r \in Regs : Group(r) # "none" => Group(r) \in valid'
    BY <2>1 DEF Coherent
  <2>3. \A r \in Regs : Current(r)' = live[r]
    <3>1. ASSUME NEW r \in Regs, Group(r) = "none" PROVE Current(r)' = live[r]
      <4>1. r = "dr0"
        BY <3>1, SoundRegs DEF InVmcb
      <4>2. Group(r) \notin valid'
        BY <3>1, <2>1, NoneIsNoArea DEF TypeOK
      <4> QED
        BY <4>1, <4>2, <1>4 DEF Exit, Merge, SavedAtSwitch, Current
    <3>2. ASSUME NEW r \in Regs, Group(r) # "none" PROVE Current(r)' = live[r]
      <4>1. InVmcb(r) /\ Group(r) \in valid'
        BY <3>2, <2>2, SoundRegs
      <4> QED
        BY <4>1, <1>4 DEF Exit, Merge, Current
    <3> QED
      BY <3>1, <3>2
  <2>4. Abstract' = Abstract
    BY <2>1, <2>3 DEF Abstract
  <2> QED
    BY <2>1, <2>4 DEF RegisterFile!Leave, RegisterFile!Next, Abstract
<1>5. ASSUME NEW r \in Regs, NEW v \in Values, Edit2(r, v) PROVE RegisterFile!Edit
  <2>1. mode = "host" /\ mode' = "host" /\ ~dumping /\ r # "rsp" /\ Fresh(r) /\ seen' = seen
    BY <1>5, <1>0 DEF Edit2, HostCalls, SoundUse
  <2>2. vmcb' = vmcb /\ header' = [header EXCEPT ![r] = v] /\ valid' = valid \ {Group(r)}
    BY <1>5, <2>1 DEF Edit2, Edit2Clears
  <2>3. Current(r)' = v
    BY <2>2 DEF Current, TypeOK
  <2>4. ASSUME NEW q \in Regs, q # r PROVE Current(q)' = Current(q)
    <3>1. CASE Group(q) \in valid /\ Group(q) = Group(r)
      <4>1. synchronized \/ q \in SavedAtSwitch
        BY <3>1, <2>1, <2>4 DEF Fresh, Group, SavedAtSwitch, Registers
      <4>2. header[q] = vmcb[q]
        BY <4>1, <3>1, <2>1 DEF Coherent
      <4> QED
        BY <4>2, <3>1, <2>2, <2>4 DEF Current, TypeOK
    <3>2. CASE ~(Group(q) \in valid /\ Group(q) = Group(r))
      BY <3>2, <2>2, <2>4 DEF Current, TypeOK
    <3> QED
      BY <3>1, <3>2
  <2>5. Abstract' = [q \in Regs |-> IF q \in {r} THEN [Abstract EXCEPT ![r] = v][q] ELSE Abstract[q]]
    BY <2>1, <2>3, <2>4 DEF Abstract
  <2>6. [Abstract EXCEPT ![r] = v] \in [Regs -> Values]
    BY <1>0
  <2> QED
    BY <2>1, <2>5, <2>6 DEF RegisterFile!Edit, Abstract
<1>6. ASSUME NEW U \in UnitsOf, NEW new \in [U -> Values], Edit(U, new) PROVE RegisterFile!Edit
  <2>1. mode = "host" /\ mode' = "host" /\ ~dumping /\ seen' = seen /\ U \subseteq Regs
    BY <1>6, <1>0 DEF Edit, HostCalls, UnitsOf
  <2>2. vmcb' = vmcb /\ header' = Merge(header, new, U) /\ valid' = valid \ {Group(r) : r \in U}
    BY <1>6 DEF Edit
  <2>3. \A r \in U : Current(r)' = new[r]
    BY <2>1, <2>2 DEF Current, Merge
  <2>4. ASSUME NEW q \in Regs \ U PROVE Current(q)' = Current(q)
    <3>1. CASE Group(q) \in {Group(r) : r \in U}
      <4>1. header[q] = Current(q)
        BY <3>1, <1>6, <1>0, <2>1, FreshIsCurrent DEF Edit
      <4> QED
        BY <4>1, <3>1, <2>2 DEF Current, Merge
    <3>2. CASE Group(q) \notin {Group(r) : r \in U}
      BY <3>2, <2>2 DEF Current, Merge
    <3> QED
      BY <3>1, <3>2
  <2>5. Abstract' = [q \in Regs |-> IF q \in U THEN new[q] ELSE Abstract[q]]
    BY <2>1, <2>3, <2>4 DEF Abstract
  <2> DEFINE full == [q \in Regs |-> IF q \in U THEN new[q] ELSE Abstract[q]]
  <2>6. full \in [Regs -> Values] /\ Abstract' = [q \in Regs |-> IF q \in U THEN full[q] ELSE Abstract[q]]
    BY <1>0, <2>1, <2>5
  <2> HIDE DEF full
  <2> QED
    BY <2>1, <2>6 DEF RegisterFile!Edit, Abstract
<1>7. CASE Dump
  <2>1. mode = "host" /\ mode' = "host" /\ valid' = valid /\ vmcb' = vmcb /\ seen' = seen
    BY <1>7, <1>0 DEF Dump, HostCalls
  <2>2. \A r \in Regs : Group(r) \notin valid => header'[r] = header[r]
    BY <1>7 DEF Dump, Merge, Dumpable
  <2>3. Abstract' = Abstract
    BY <2>1, <2>2 DEF Abstract, Current
  <2> QED
    BY <2>1, <2>3 DEF Abstract, RegisterFile!vars
<1>8. CASE DumpDone
  <2>1. Abstract' = Abstract
    BY <1>8 DEF DumpDone, Abstract, Current
  <2> QED
    BY <1>8, <2>1 DEF DumpDone, Abstract, RegisterFile!vars
<1>9. ASSUME NEW r \in Regs, View(r) \/ View2(r) PROVE RegisterFile!View
  <2>1. mode = "host" /\ ~dumping /\ Fresh(r) /\ mode' = mode /\ Abstract' = Abstract
    BY <1>9, <1>0 DEF View, View2, HostCalls, Abstract, Current
  <2>2. seen' = [reg |-> r, val |-> Abstract[r]]
    BY <1>9, <2>1, FreshIsCurrent DEF View, View2, Show, Abstract
  <2> QED
    BY <2>1, <2>2 DEF RegisterFile!View, Abstract
<1> QED
  BY <1>1, <1>2, <1>3, <1>4, <1>5, <1>6, <1>7, <1>8, <1>9 DEF Next, RegisterFile!Next

\* For the whole of the state cache: for hosts that keep to SoundUse, world
\* switches, migration, edits, views and synchronization implement one value
\* per register.
THEOREM RegistersCorrect == ASSUME SoundUse PROVE Spec => RegistersImplemented
<1>1. Init => RegisterFile!Init
  <2> SUFFICES ASSUME Init PROVE RegisterFile!Init
    OBVIOUS
  <2>1. Abstract \in [Regs -> Values] /\ mode = "host" /\ seen \in [reg : Regs, val : Values]
    BY InitTypeOK DEF TypeOK, Init, Abstract, Current
  <2> QED
    BY <2>1 DEF RegisterFile!Init, Abstract
<1> QED
  BY <1>1, RefinementStep, CoherentAlways, PTL DEF Spec, RegistersImplemented, RegisterFile!Spec
==============================================================================
