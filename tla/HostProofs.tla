------------------------------ MODULE HostProofs ------------------------------
(***************************************************************************)
(* Proofs about the host of NoirVisor: Subversion, with any number of      *)
(* processors, any machines and any number of subversions, and, after it,  *)
(* SvmExits, what the hypervisor then makes of a nested guest.             *)
(***************************************************************************)
EXTENDS Subversion, SvmExits, TLAPS

-----------------------------------------------------------------------------
(* The plans of a subversion: one step for the array of virtual processors,  *)
(* then one for each item of each processor, then those of Tail.             *)

VirtualCpu == <<"virtual_cpu">>
ItemsOf(s) == NamesOf(s.items) \cap Items
StepSet ==
  [items : Seq(Items \cup {Maps}), optional : BOOLEAN, array : {"no", "loop", "check", "use"}]

CpuNames(engine, options) ==
  CASE engine = "vt" -> VtCpuItems
    [] engine = "svm" /\ "nested_virtualization" \in options -> SvmCpuItems
    [] OTHER -> SubSeq(SvmCpuItems, 1, 5)
VtTail(options) ==
  IF "enable_iommu" \in options
  THEN <<Must("msr_bitmap"), May("io_bitmap_a"), May("io_bitmap_b"),
         Must("cpuid_handlers"), VirtualCpuCheck, HostPageTable, IommuStep,
         ProtectHypervisor, CvmModule, Must("tag_pool"), Must("tag_lock")>>
  ELSE <<Must("msr_bitmap"), May("io_bitmap_a"), May("io_bitmap_b"),
         Must("cpuid_handlers"), VirtualCpuCheck, HostPageTable,
         ProtectHypervisor, CvmModule, Must("tag_pool"), Must("tag_lock")>>
SvmTail(options) ==
  IF "enable_nsv" \in options
  THEN <<Must("primary_nptm"), Must("secondary_nptm"), Step(<<Maps>>, FALSE, "no"), Must("cpuid_handlers"),
         Must("msrpm"), Must("iopm"), CvmModule, Must("tag_pool"), Must("tag_lock"),
         HostPageTable, ProtectCritical, VirtualCpuCheck, Step(<< <<"rmd">>, <<"rmt">> >>, FALSE, "no")>>
  ELSE <<Must("primary_nptm"), Must("secondary_nptm"), Step(<<Maps>>, FALSE, "no"), Must("cpuid_handlers"),
         Must("msrpm"), Must("iopm"), CvmModule, Must("tag_pool"), Must("tag_lock"),
         HostPageTable, ProtectCritical, VirtualCpuCheck>>
PlanTail(engine, options) == IF engine = "vt" THEN VtTail(options) ELSE SvmTail(options)

\* Three sequences in a row.
LEMMA ThreeInARow ==
  ASSUME NEW S, NEW x \in S, NEW s \in Seq(S), NEW t \in Seq(S)
  PROVE  LET w == <<x>> \o s \o t IN
         /\ w \in Seq(S) /\ Len(w) = 1 + Len(s) + Len(t) /\ w[1] = x
         /\ \A i \in 1 .. Len(s) : w[1 + i] = s[i]
         /\ \A i \in 1 .. Len(t) : w[1 + Len(s) + i] = t[i]
OBVIOUS

LEMMA FiveNames ==
  SubSeq(SvmCpuItems, 1, 5) = <<"vmcb", "hsave", "hvmcb", "hv_stack", "xsave">>
<1> DEFINE five == <<"vmcb", "hsave", "hvmcb", "hv_stack", "xsave">>
           six == <<"vmcb", "hsave", "hvmcb", "hv_stack", "xsave", "vmcb_t">>
           S == {"vmcb", "hsave", "hvmcb", "hv_stack", "xsave", "vmcb_t"}
<1>1. six \in Seq(S) /\ Len(six) = 6 OBVIOUS
<1>2. SubSeq(six, 1, 5) \in Seq(S) /\ Len(SubSeq(six, 1, 5)) = 5 BY <1>1
<1>3. \A i \in 1 .. 5 : SubSeq(six, 1, 5)[i] = six[i] BY <1>1
<1>4. five \in Seq(S) /\ Len(five) = 5 /\ \A i \in 1 .. 5 : five[i] = six[i]
  <2>1. 1 .. 5 = {1, 2, 3, 4, 5} OBVIOUS
  <2> QED BY <2>1
<1> HIDE DEF five, six
<1>5. SubSeq(six, 1, 5) = five BY <1>2, <1>3, <1>4
<1> QED BY <1>5 DEF SvmCpuItems, five, six

LEMMA CpuNamesType ==
  ASSUME NEW engine \in Engines, NEW options \in SUBSET OptionNames
  PROVE  LET names == CpuNames(engine, options) IN
         /\ names \in Seq(NamesOf(VtCpuItems) \cup NamesOf(SvmCpuItems))
         /\ Len(names) \in {5, 6, 7}
         /\ \A i, j \in 1 .. Len(names) : names[i] = names[j] => i = j
<1> DEFINE N == NamesOf(VtCpuItems) \cup NamesOf(SvmCpuItems)
           P(names) == /\ names \in Seq(N)
                       /\ Len(names) \in {5, 6, 7}
                       /\ \A i, j \in 1 .. Len(names) : names[i] = names[j] => i = j
<1>1. {"vmcs", "vmxon", "msr_auto", "vmcs_t", "hv_stack", "ept", "xsave", "vmcb", "hsave", "hvmcb", "vmcb_t"}
        \subseteq N
  <2>1. Len(VtCpuItems) = 7 /\ Len(SvmCpuItems) = 6 BY DEF VtCpuItems, SvmCpuItems
  <2>2. \A i \in 1 .. 7 : VtCpuItems[i] \in N BY <2>1 DEF NamesOf
  <2>3. \A i \in 1 .. 6 : SvmCpuItems[i] \in N BY <2>1 DEF NamesOf
  <2> QED BY <2>2, <2>3 DEF VtCpuItems, SvmCpuItems
<1> HIDE DEF N
<1>2. P(VtCpuItems)
  <2>1. Len(VtCpuItems) = 7 /\ 1 .. 7 = {1, 2, 3, 4, 5, 6, 7} BY DEF VtCpuItems
  <2> QED BY <1>1, <2>1 DEF VtCpuItems
<1>3. P(SvmCpuItems)
  <2>1. Len(SvmCpuItems) = 6 /\ 1 .. 6 = {1, 2, 3, 4, 5, 6} BY DEF SvmCpuItems
  <2> QED BY <1>1, <2>1 DEF SvmCpuItems
<1>4. P(SubSeq(SvmCpuItems, 1, 5))
  <2>1. 1 .. 5 = {1, 2, 3, 4, 5} OBVIOUS
  <2>2. P(<<"vmcb", "hsave", "hvmcb", "hv_stack", "xsave">>) BY <1>1, <2>1
  <2> HIDE DEF P
  <2> QED BY <2>2, FiveNames
<1> HIDE DEF P
<1>5. CpuNames(engine, options) \in {VtCpuItems, SvmCpuItems, SubSeq(SvmCpuItems, 1, 5)}
  BY DEF CpuNames
<1>6. P(CpuNames(engine, options)) BY <1>2, <1>3, <1>4, <1>5
<1> QED BY <1>6 DEF P, N

LEMMA ItemsOfNames ==
  /\ \A n \in VtItems \cup SvmItems : <<n>> \in Items
  /\ \A n \in NamesOf(VtCpuItems) \cup NamesOf(SvmCpuItems), p \in Procs : <<n, p>> \in CpuItems
  /\ CpuItems \subseteq Items
BY DEF Items, CpuItems

LEMMA StepTypes ==
  /\ \A n \in VtItems \cup SvmItems : Must(n) \in StepSet /\ May(n) \in StepSet
  /\ HostPageTable \in StepSet /\ IommuStep \in StepSet /\ ProtectHypervisor \in StepSet
  /\ ProtectCritical \in StepSet /\ VirtualCpuCheck \in StepSet /\ CvmModule \in StepSet
  /\ Step(<<Maps>>, FALSE, "no") \in StepSet /\ Step(<< <<"rmd">>, <<"rmt">> >>, FALSE, "no") \in StepSet
<1> DEFINE I == Items \cup {Maps}
           A == {"no", "loop", "check", "use"}
<1>1. \A n \in VtItems \cup SvmItems : <<n>> \in I BY ItemsOfNames
<1>2. {"hcr3", "pdpt", "iommu", "mmio_hooks", "blank_page", "rmd", "rmt", "vm_list_lock"} \subseteq VtItems \cup SvmItems
  BY DEF VtItems, SvmItems
<1>3. Maps \in I OBVIOUS
<1> HIDE DEF I
<1>4. \A x, y \in I : <<x>> \in Seq(I) /\ <<x, y>> \in Seq(I) /\ <<>> \in Seq(I) OBVIOUS
<1>5. \A s \in Seq(I), o \in BOOLEAN, a \in A : Step(s, o, a) \in StepSet BY DEF Step, StepSet, I
<1> HIDE DEF A
<1>6. {"no", "loop", "check", "use"} \subseteq A BY DEF A
<1>7. {<<"hcr3">>, <<"pdpt">>, <<"iommu">>, <<"mmio_hooks">>, <<"blank_page">>, <<"rmd">>, <<"rmt">>, <<"vm_list_lock">>}
        \subseteq I
  BY <1>1, <1>2
<1>8. Step(<<Maps>>, FALSE, "no") \in StepSet BY <1>3, <1>4, <1>5, <1>6
<1> QED
  BY <1>1, <1>2, <1>3, <1>4, <1>5, <1>6, <1>7, <1>8
  DEF Must, May, HostPageTable, IommuStep, ProtectHypervisor, ProtectCritical, VirtualCpuCheck, CvmModule

LEMMA PerCpuType ==
  ASSUME NEW names \in Seq(NamesOf(VtCpuItems) \cup NamesOf(SvmCpuItems)), Len(names) \in {5, 6, 7}
  PROVE  /\ PerCpu(names) \in Seq(StepSet) /\ Len(PerCpu(names)) = CpuCount * Len(names)
         /\ \A i \in 1 .. CpuCount * Len(names) :
              /\ ((i - 1) % Len(names)) + 1 \in 1 .. Len(names) /\ (i - 1) \div Len(names) \in Procs
              /\ PerCpu(names)[i] =
                   Step(<< <<names[((i - 1) % Len(names)) + 1], (i - 1) \div Len(names)>> >>, FALSE, "loop")
<1> DEFINE m == CpuCount * Len(names)
           q(i) == (i - 1) \div Len(names)
           r(i) == ((i - 1) % Len(names)) + 1
<1>1. m \in Nat BY CpuCountAssumption
<1>2. \A i \in 1 .. m : r(i) \in 1 .. Len(names) /\ q(i) \in Procs
  <2> SUFFICES ASSUME NEW i \in 1 .. m PROVE r(i) \in 1 .. Len(names) /\ q(i) \in Procs
    OBVIOUS
  <2>1. CASE Len(names) = 5 BY <2>1, CpuCountAssumption DEF Procs
  <2>2. CASE Len(names) = 6 BY <2>2, CpuCountAssumption DEF Procs
  <2>3. CASE Len(names) = 7 BY <2>3, CpuCountAssumption DEF Procs
  <2> QED BY <2>1, <2>2, <2>3
<1>3. ASSUME NEW i \in 1 .. m
      PROVE  Step(<< <<names[r(i)], q(i)>> >>, FALSE, "loop") \in StepSet
  <2> HIDE DEF m
  <2>1. names[r(i)] \in NamesOf(VtCpuItems) \cup NamesOf(SvmCpuItems) BY <1>2
  <2>2. <<names[r(i)], q(i)>> \in Items \cup {Maps} BY <1>2, <2>1, ItemsOfNames
  <2> HIDE DEF r, q
  <2>3. << <<names[r(i)], q(i)>> >> \in Seq(Items \cup {Maps}) BY <2>2
  <2> QED BY <2>3 DEF Step, StepSet
<1>4. PerCpu(names) = [i \in 1 .. m |-> Step(<< <<names[r(i)], q(i)>> >>, FALSE, "loop")]
  BY DEF PerCpu
<1>5. PerCpu(names) \in Seq(StepSet) /\ Len(PerCpu(names)) = m
  <2>1. PerCpu(names) \in [1 .. m -> StepSet] BY <1>3, <1>4
  <2> HIDE DEF m, r, q
  <2> QED BY <1>1, <2>1
<1> HIDE DEF m, r, q
<1> QED BY <1>2, <1>4, <1>5 DEF m, r, q

LEMMA Grouped ==
  ASSUME NEW S, NEW s \in Seq(S), NEW t \in Seq(S), NEW u \in Seq(S)
  PROVE  (s \o t) \o u = s \o (t \o u)
OBVIOUS

LEMMA ThreePieces ==
  ASSUME NEW S, NEW s \in Seq(S), NEW t \in Seq(S), NEW u \in Seq(S)
  PROVE  LET w == (s \o t) \o u IN
         /\ w \in Seq(S) /\ Len(w) = Len(s) + Len(t) + Len(u)
         /\ \A i \in 1 .. Len(w) :
              w[i] = IF i <= Len(s) THEN s[i] ELSE IF i <= Len(s) + Len(t) THEN t[i - Len(s)]
                     ELSE u[i - (Len(s) + Len(t))]
OBVIOUS

LEMMA SameElements ==
  ASSUME NEW S, NEW s \in Seq(S), NEW t \in Seq(S), Len(s) = Len(t),
         \A i \in 1 .. Len(s) : s[i] = t[i]
  PROVE  s = t
OBVIOUS

\* A plan is one sequence after the other.
LEMMA PlanShape ==
  ASSUME NEW engine \in Engines, NEW options \in SUBSET OptionNames
  PROVE  LET P == Plan(engine, options)
             names == CpuNames(engine, options)
             T == PlanTail(engine, options)
             m == CpuCount * Len(names)
         IN /\ P \in Seq(StepSet) /\ T \in Seq(StepSet) /\ m \in Nat /\ Len(P) = 1 + m + Len(T)
            /\ P[1] = May("virtual_cpu")
            /\ \A i \in 1 .. m : P[1 + i] = PerCpu(names)[i]
            /\ \A i \in 1 .. Len(T) : P[1 + m + i] = T[i]
<1> DEFINE names == CpuNames(engine, options)
           T == PlanTail(engine, options)
           U == <<May("virtual_cpu")>> \o PerCpu(names)
<1>1. names \in Seq(NamesOf(VtCpuItems) \cup NamesOf(SvmCpuItems)) /\ Len(names) \in {5, 6, 7}
  BY CpuNamesType
<1>2. PerCpu(names) \in Seq(StepSet) /\ Len(PerCpu(names)) = CpuCount * Len(names)
  BY <1>1, PerCpuType
<1>3. May("virtual_cpu") \in StepSet BY StepTypes DEF VtItems
<1> HIDE DEF names
<1>4. U \in Seq(StepSet) BY <1>2, <1>3
<1>5. T \in Seq(StepSet) /\ Plan(engine, options) = U \o T
  <2> DEFINE V1 == <<Must("msr_bitmap"), May("io_bitmap_a"), May("io_bitmap_b"),
                     Must("cpuid_handlers"), VirtualCpuCheck, HostPageTable>>
             V2 == When("enable_iommu" \in options, <<IommuStep>>)
             V3 == <<ProtectHypervisor, CvmModule, Must("tag_pool"), Must("tag_lock")>>
             S1 == <<Must("primary_nptm"), Must("secondary_nptm"), Step(<<Maps>>, FALSE, "no"),
                     Must("cpuid_handlers"), Must("msrpm"), Must("iopm"), CvmModule, Must("tag_pool"),
                     Must("tag_lock"), HostPageTable, ProtectCritical, VirtualCpuCheck>>
             S2 == When("enable_nsv" \in options, <<Step(<< <<"rmd">>, <<"rmt">> >>, FALSE, "no")>>)
  <2>1. CASE engine = "vt"
    <3>1. Plan(engine, options) = ((U \o V1) \o V2) \o V3
      BY <2>1 DEF Plan, VtPlan, CpuNames, names
    <3>2. V1 \in Seq(StepSet) /\ V2 \in Seq(StepSet) /\ V3 \in Seq(StepSet)
      BY StepTypes DEF VtItems, When
    <3>3. ((U \o V1) \o V2) \o V3 = U \o ((V1 \o V2) \o V3)
      <4> HIDE DEF U, V1, V2, V3
      <4>1. V1 \o V2 \in Seq(StepSet) BY <3>2
      <4>2. (U \o V1) \o V2 = U \o (V1 \o V2) BY <1>4, <3>2, Grouped
      <4>3. (U \o (V1 \o V2)) \o V3 = U \o ((V1 \o V2) \o V3) BY <1>4, <3>2, <4>1, Grouped
      <4> QED BY <4>2, <4>3
    <3>4. (V1 \o V2) \o V3 = T
      <4> HIDE DEF U
      <4> DEFINE W == (V1 \o V2) \o V3
      <4>1. Len(V1) = 6 /\ Len(V3) = 4 OBVIOUS
      <4>2. W \in Seq(StepSet) /\ Len(W) = Len(V1) + Len(V2) + Len(V3)
            /\ \A i \in 1 .. Len(W) :
                 W[i] = IF i <= Len(V1) THEN V1[i] ELSE IF i <= Len(V1) + Len(V2) THEN V2[i - Len(V1)]
                        ELSE V3[i - (Len(V1) + Len(V2))]
        <5> HIDE DEF V1, V2, V3
        <5> QED BY <3>2, ThreePieces
      <4>3. CASE "enable_iommu" \in options
        <5>1. V2 = <<IommuStep>> /\ Len(V2) = 1 BY <4>3 DEF When
        <5>2. Len(W) = 11
          <6> HIDE DEF W, V1, V2, V3
          <6> QED BY <4>1, <4>2, <5>1
        <5>3. T \in Seq(StepSet) /\ Len(T) = 11
          BY <2>1, <4>3, StepTypes DEF T, PlanTail, VtTail, VtItems
        <5>4. \A i \in 1 .. 11 : W[i] = T[i]
          <6>1. \A i \in 1 .. 6 : W[i] = V1[i]
            <7> HIDE DEF W, V1, V2, V3, T
            <7> QED BY <4>1, <4>2, <5>1, <5>2
          <6>2. W[7] = IommuStep
            <7>1. V2[1] = IommuStep BY <5>1
            <7> HIDE DEF W, V1, V2, V3, T
            <7> QED BY <4>1, <4>2, <5>1, <5>2, <7>1
          <6>3. \A i \in 1 .. 4 : W[7 + i] = V3[i]
            <7>1. \A i \in 1 .. 4 : /\ 7 + i \in 1 .. 11 /\ (7 + i) - 7 = i
                                    /\ ~(7 + i <= 7) /\ ~(7 + i <= 6)
              OBVIOUS
            <7> HIDE DEF W, V1, V2, V3, T
            <7> QED BY <4>1, <4>2, <5>1, <5>2, <7>1
          <6>4. /\ T[1] = V1[1] /\ T[2] = V1[2] /\ T[3] = V1[3] /\ T[4] = V1[4] /\ T[5] = V1[5] /\ T[6] = V1[6]
                /\ T[7] = IommuStep /\ T[8] = V3[1] /\ T[9] = V3[2] /\ T[10] = V3[3] /\ T[11] = V3[4]
            <7> HIDE DEF W
            <7> QED BY <2>1, <4>3 DEF T, PlanTail, VtTail
          <6> HIDE DEF W, V1, V2, V3, T
          <6>5. \A i \in 1 .. 11 : i \in 1 .. 6 \/ i = 7 \/ i \in 8 .. 11 OBVIOUS
          <6>6. \A i \in 1 .. 6 : W[i] = T[i] BY <6>1, <6>4
          <6>7. W[8] = V3[1] /\ W[9] = V3[2] /\ W[10] = V3[3] /\ W[11] = V3[4] BY <6>3
          <6>8. \A i \in 8 .. 11 : W[i] = T[i] BY <6>4, <6>7
          <6> QED BY <6>2, <6>4, <6>5, <6>6, <6>8
        <5> HIDE DEF W, T
        <5> QED BY <4>2, <5>2, <5>3, <5>4, SameElements DEF W
      <4>4. CASE "enable_iommu" \notin options
        <5>1. V2 = <<>> /\ Len(V2) = 0 BY <4>4 DEF When
        <5>2. Len(W) = 10
          <6> HIDE DEF W, V1, V2, V3
          <6> QED BY <4>1, <4>2, <5>1
        <5>3. T \in Seq(StepSet) /\ Len(T) = 10
          BY <2>1, <4>4, StepTypes DEF T, PlanTail, VtTail, VtItems
        <5>4. \A i \in 1 .. 10 : W[i] = T[i]
          <6>1. \A i \in 1 .. 6 : W[i] = V1[i]
            <7> HIDE DEF W, V1, V2, V3, T
            <7> QED BY <4>1, <4>2, <5>1, <5>2
          <6>3. \A i \in 1 .. 4 : W[6 + i] = V3[i]
            <7>1. \A i \in 1 .. 4 : /\ 6 + i \in 1 .. 10 /\ (6 + i) - 6 = i
                                    /\ ~(6 + i <= 6) /\ ~(6 + i <= 6)
              OBVIOUS
            <7> HIDE DEF W, V1, V2, V3, T
            <7> QED BY <4>1, <4>2, <5>1, <5>2, <7>1
          <6>4. /\ T[1] = V1[1] /\ T[2] = V1[2] /\ T[3] = V1[3] /\ T[4] = V1[4] /\ T[5] = V1[5] /\ T[6] = V1[6]
                /\ T[7] = V3[1] /\ T[8] = V3[2] /\ T[9] = V3[3] /\ T[10] = V3[4]
            <7> HIDE DEF W
            <7> QED BY <2>1, <4>4 DEF T, PlanTail, VtTail
          <6> HIDE DEF W, V1, V2, V3, T
          <6>5. \A i \in 1 .. 10 : i \in 1 .. 6 \/ i \in 7 .. 10 OBVIOUS
          <6>6. \A i \in 1 .. 6 : W[i] = T[i] BY <6>1, <6>4
          <6>7. W[7] = V3[1] /\ W[8] = V3[2] /\ W[9] = V3[3] /\ W[10] = V3[4] BY <6>3
          <6>8. \A i \in 7 .. 10 : W[i] = T[i] BY <6>4, <6>7
          <6> QED BY <6>4, <6>5, <6>6, <6>8
        <5> HIDE DEF W, T
        <5> QED BY <4>2, <5>2, <5>3, <5>4, SameElements DEF W
      <4> QED BY <4>3, <4>4
    <3>5. (V1 \o V2) \o V3 \in Seq(StepSet)
      <4> HIDE DEF U, V1, V2, V3
      <4> QED BY <3>2
    <3> QED BY <3>1, <3>3, <3>4, <3>5
  <2>2. CASE engine = "svm"
    <3>1. Plan(engine, options) = (U \o S1) \o S2
      BY <2>2 DEF Plan, SvmPlan, CpuNames, names
    <3>2. S1 \in Seq(StepSet) /\ S2 \in Seq(StepSet)
      <4>1. Step(<< <<"rmd">>, <<"rmt">> >>, FALSE, "no") \in StepSet BY StepTypes
      <4>2. S2 \in Seq(StepSet)
        <5> DEFINE x == Step(<< <<"rmd">>, <<"rmt">> >>, FALSE, "no")
        <5>1. x \in StepSet BY <4>1
        <5> HIDE DEF x
        <5>2. <<x>> \in Seq(StepSet) /\ <<>> \in Seq(StepSet) BY <5>1
        <5> QED BY <5>2 DEF When, x
      <4>3. {Must("primary_nptm"), Must("secondary_nptm"), Must("cpuid_handlers"), Must("msrpm"), Must("iopm"),
             Must("tag_pool"), Must("tag_lock")} \subseteq StepSet
        BY StepTypes DEF SvmItems
      <4>4. S1 \in Seq(StepSet)
        <5> DEFINE y == Step(<<Maps>>, FALSE, "no")
        <5>1. y \in StepSet BY StepTypes
        <5> HIDE DEF y
        <5>2. <<Must("primary_nptm"), Must("secondary_nptm"), y, Must("cpuid_handlers"),
                Must("msrpm"), Must("iopm"), CvmModule, Must("tag_pool"), Must("tag_lock"),
                HostPageTable, ProtectCritical, VirtualCpuCheck>> \in Seq(StepSet)
          BY <4>3, <5>1, StepTypes
        <5> QED BY <5>2 DEF y
      <4> QED BY <4>2, <4>4
    <3>3. (U \o S1) \o S2 = U \o (S1 \o S2)
      <4> HIDE DEF U, S1, S2
      <4> QED BY <1>4, <3>2, Grouped
    <3>4. S1 \o S2 = T
      <4> HIDE DEF U
      <4> DEFINE W == S1 \o S2
                 last == Step(<< <<"rmd">>, <<"rmt">> >>, FALSE, "no")
                 map == Step(<<Maps>>, FALSE, "no")
      <4>1. Len(S1) = 12 OBVIOUS
      <4>2. W \in Seq(StepSet) /\ Len(W) = Len(S1) + Len(S2)
            /\ \A i \in 1 .. Len(W) : W[i] = IF i <= Len(S1) THEN S1[i] ELSE S2[i - Len(S1)]
        <5> HIDE DEF S1, S2
        <5> QED BY <3>2
      <4>3. engine # "vt" BY <2>2
      <4>4. last \in StepSet /\ map \in StepSet
            /\ {Must("primary_nptm"), Must("secondary_nptm"), Must("cpuid_handlers"), Must("msrpm"), Must("iopm"),
                 Must("tag_pool"), Must("tag_lock")} \subseteq StepSet
        BY StepTypes DEF SvmItems
      <4> HIDE DEF last, map
      <4>5. CASE "enable_nsv" \in options
        <5>1. S2 = <<last>> /\ Len(S2) = 1 BY <4>5 DEF When, last
        <5>2. Len(W) = 13
          <6> HIDE DEF W, S1, S2
          <6> QED BY <4>1, <4>2, <5>1
        <5>3. T = <<Must("primary_nptm"), Must("secondary_nptm"), map, Must("cpuid_handlers"),
                    Must("msrpm"), Must("iopm"), CvmModule, Must("tag_pool"), Must("tag_lock"),
                    HostPageTable, ProtectCritical, VirtualCpuCheck, last>>
          BY <4>3, <4>5 DEF T, PlanTail, SvmTail, map, last
        <5> HIDE DEF T
        <5>4. T \in Seq(StepSet) /\ Len(T) = 13 BY <4>4, <5>3, StepTypes
        <5>5. \A i \in 1 .. 13 : W[i] = T[i]
          <6>1. \A i \in 1 .. 12 : W[i] = S1[i]
            <7> HIDE DEF W, S1, S2
            <7> QED BY <4>1, <4>2, <5>1, <5>2
          <6>2. \A i \in 1 .. 12 : T[i] = S1[i]
            <7> HIDE DEF W
            <7>1. \A i \in 1 .. 12 : i \in 1 .. 6 \/ i \in 7 .. 12 OBVIOUS
            <7>2. /\ T[1] = S1[1] /\ T[2] = S1[2] /\ T[3] = S1[3] /\ T[4] = S1[4]
                  /\ T[5] = S1[5] /\ T[6] = S1[6]
              BY <5>3 DEF map
            <7>3. \A i \in 7 .. 12 : T[i] = S1[i] BY <5>3 DEF map
            <7> HIDE DEF S1
            <7> QED BY <7>1, <7>2, <7>3
          <6>3. W[13] = last
            <7> HIDE DEF W, S1, S2
            <7> QED BY <4>1, <4>2, <5>1, <5>2
          <6>4. T[13] = last BY <5>3
          <6>5. \A i \in 1 .. 13 : i \in 1 .. 12 \/ i = 13 OBVIOUS
          <6> HIDE DEF W, S1, S2
          <6> QED BY <6>1, <6>2, <6>3, <6>4, <6>5
        <5> HIDE DEF W
        <5> QED BY <4>2, <5>2, <5>4, <5>5, SameElements DEF W
      <4>6. CASE "enable_nsv" \notin options
        <5>1. S2 = <<>> /\ Len(S2) = 0 BY <4>6 DEF When
        <5>2. Len(W) = 12
          <6> HIDE DEF W, S1, S2
          <6> QED BY <4>1, <4>2, <5>1
        <5>3. T = <<Must("primary_nptm"), Must("secondary_nptm"), map, Must("cpuid_handlers"),
                    Must("msrpm"), Must("iopm"), CvmModule, Must("tag_pool"), Must("tag_lock"),
                    HostPageTable, ProtectCritical, VirtualCpuCheck>>
          BY <4>3, <4>6 DEF T, PlanTail, SvmTail, map
        <5> HIDE DEF T
        <5>4. T \in Seq(StepSet) /\ Len(T) = 12 BY <4>4, <5>3, StepTypes
        <5>5. \A i \in 1 .. 12 : W[i] = T[i]
          <6>1. \A i \in 1 .. 12 : W[i] = S1[i]
            <7> HIDE DEF W, S1, S2
            <7> QED BY <4>1, <4>2, <5>1, <5>2
          <6>2. \A i \in 1 .. 12 : T[i] = S1[i]
            <7> HIDE DEF W
            <7>1. \A i \in 1 .. 12 : i \in 1 .. 6 \/ i \in 7 .. 12 OBVIOUS
            <7>2. /\ T[1] = S1[1] /\ T[2] = S1[2] /\ T[3] = S1[3] /\ T[4] = S1[4]
                  /\ T[5] = S1[5] /\ T[6] = S1[6]
              BY <5>3 DEF map
            <7>3. \A i \in 7 .. 12 : T[i] = S1[i] BY <5>3 DEF map
            <7> HIDE DEF S1
            <7> QED BY <7>1, <7>2, <7>3
          <6> HIDE DEF W, S1, S2
          <6> QED BY <6>1, <6>2
        <5> HIDE DEF W
        <5> QED BY <4>2, <5>2, <5>4, <5>5, SameElements DEF W
      <4> QED BY <4>5, <4>6
    <3>5. S1 \o S2 \in Seq(StepSet)
      <4> HIDE DEF U, S1, S2
      <4> QED BY <3>2
    <3> QED BY <3>1, <3>3, <3>4, <3>5
  <2> QED BY <2>1, <2>2 DEF Engines
<1>6. CpuCount * Len(names) \in Nat BY <1>1, CpuCountAssumption
<1> HIDE DEF T
<1>7. LET w == <<May("virtual_cpu")>> \o PerCpu(names) \o T IN
      /\ w \in Seq(StepSet) /\ Len(w) = 1 + Len(PerCpu(names)) + Len(T) /\ w[1] = May("virtual_cpu")
      /\ \A i \in 1 .. Len(PerCpu(names)) : w[1 + i] = PerCpu(names)[i]
      /\ \A i \in 1 .. Len(T) : w[1 + Len(PerCpu(names)) + i] = T[i]
  BY <1>2, <1>3, <1>5, ThreeInARow
<1> QED BY <1>2, <1>5, <1>6, <1>7 DEF names, T

LEMMA ItemsOfSteps ==
  /\ \A n \in VtItems \cup SvmItems : ItemsOf(Must(n)) = {<<n>>} /\ ItemsOf(May(n)) = {<<n>>}
  /\ ItemsOf(HostPageTable) = {<<"hcr3">>, <<"pdpt">>} /\ ItemsOf(IommuStep) = {<<"iommu">>, <<"mmio_hooks">>}
  /\ ItemsOf(ProtectHypervisor) = {} /\ ItemsOf(ProtectCritical) = {<<"blank_page">>}
  /\ ItemsOf(VirtualCpuCheck) = {} /\ ItemsOf(CvmModule) = {<<"vm_list_lock">>}
  /\ ItemsOf(Step(<<Maps>>, FALSE, "no")) = {}
  /\ ItemsOf(Step(<< <<"rmd">>, <<"rmt">> >>, FALSE, "no")) = {<<"rmd">>, <<"rmt">>}
  /\ \A x \in CpuItems : ItemsOf(Step(<<x>>, FALSE, "loop")) = {x}
<1>1. \A x, o, a : NamesOf(Step(<<x>>, o, a).items) = {x} BY DEF NamesOf, Step
<1>2. \A x, y, o, a : NamesOf(Step(<<x, y>>, o, a).items) = {x, y} BY DEF NamesOf, Step
<1>3. \A o, a : NamesOf(Step(<<>>, o, a).items) = {} BY DEF NamesOf, Step
<1>4. Maps \notin Items
  <2>1. \A n \in VtItems \cup SvmItems : <<n>> # <<"maps">>
    <3>1. "maps" \notin VtItems \cup SvmItems BY DEF VtItems, SvmItems
    <3> QED BY <3>1
  <2>2. <<"maps">> \notin CpuItems BY DEF CpuItems
  <2> QED BY <2>1, <2>2 DEF Items, Maps
<1>5. \A n \in VtItems \cup SvmItems : <<n>> \in Items BY ItemsOfNames
<1>6. {"hcr3", "pdpt", "iommu", "mmio_hooks", "blank_page", "rmd", "rmt", "vm_list_lock"} \subseteq VtItems \cup SvmItems
  BY DEF VtItems, SvmItems
<1>7. {<<"hcr3">>, <<"pdpt">>, <<"iommu">>, <<"mmio_hooks">>, <<"blank_page">>, <<"rmd">>, <<"rmt">>, <<"vm_list_lock">>}
        \subseteq Items
  BY <1>5, <1>6
<1>8. \A x, o, a : x \in Items => ItemsOf(Step(<<x>>, o, a)) = {x}
  <2>1. \A x, o, a : ItemsOf(Step(<<x>>, o, a)) = {x} \cap Items BY <1>1 DEF ItemsOf
  <2>2. \A x : x \in Items => {x} \cap Items = {x} OBVIOUS
  <2> QED BY <2>1, <2>2
<1>9. \A x, y, o, a : x \in Items /\ y \in Items => ItemsOf(Step(<<x, y>>, o, a)) = {x, y} BY <1>2 DEF ItemsOf
<1>10. \A n \in VtItems \cup SvmItems : ItemsOf(Must(n)) = {<<n>>} /\ ItemsOf(May(n)) = {<<n>>}
  BY <1>5, <1>8 DEF Must, May
<1>11. ItemsOf(HostPageTable) = {<<"hcr3">>, <<"pdpt">>} /\ ItemsOf(IommuStep) = {<<"iommu">>, <<"mmio_hooks">>}
  BY <1>7, <1>9 DEF HostPageTable, IommuStep
<1>12. ItemsOf(ProtectHypervisor) = {} /\ ItemsOf(Step(<<Maps>>, FALSE, "no")) = {}
  <2>1. \A x, o, a : x \notin Items => ItemsOf(Step(<<x>>, o, a)) = {}
    <3> SUFFICES ASSUME NEW x, NEW o, NEW a, x \notin Items PROVE ItemsOf(Step(<<x>>, o, a)) = {}
      OBVIOUS
    <3>1. NamesOf(Step(<<x>>, o, a).items) = {x} BY <1>1
    <3>2. {x} \cap Items = {} OBVIOUS
    <3> QED BY <3>1, <3>2 DEF ItemsOf
  <2> QED BY <1>4, <2>1 DEF ProtectHypervisor
<1>13. ItemsOf(ProtectCritical) = {<<"blank_page">>}
  <2>1. \A x, y, o, a : x \in Items /\ y \notin Items => ItemsOf(Step(<<x, y>>, o, a)) = {x}
    BY <1>2 DEF ItemsOf
  <2> QED BY <1>4, <1>7, <2>1 DEF ProtectCritical
<1>14. ItemsOf(VirtualCpuCheck) = {} BY <1>3 DEF VirtualCpuCheck, ItemsOf
<1>15. ItemsOf(CvmModule) = {<<"vm_list_lock">>} BY <1>6, <1>10 DEF CvmModule
<1>16. ItemsOf(Step(<< <<"rmd">>, <<"rmt">> >>, FALSE, "no")) = {<<"rmd">>, <<"rmt">>} BY <1>7, <1>9
<1>17. \A x \in CpuItems : ItemsOf(Step(<<x>>, FALSE, "loop")) = {x} BY <1>8, ItemsOfNames
<1> QED BY <1>10, <1>11, <1>12, <1>13, <1>14, <1>15, <1>16, <1>17

\* What the steps of a tail ask for, in order.
LEMMA VtTailItems ==
  ASSUME NEW options, NEW k \in 1 .. Len(VtTail(options))
  PROVE  LET s == VtTail(options)[k]
             i == IF "enable_iommu" \in options THEN 1 ELSE 0
         IN \/ k = 1 /\ s = Must("msr_bitmap")
            \/ k = 2 /\ s = May("io_bitmap_a")
            \/ k = 3 /\ s = May("io_bitmap_b")
            \/ k = 4 /\ s = Must("cpuid_handlers")
            \/ k = 5 /\ s = VirtualCpuCheck
            \/ k = 6 /\ s = HostPageTable
            \/ k = 7 /\ i = 1 /\ s = IommuStep
            \/ k = 7 + i /\ s = ProtectHypervisor
            \/ k = 8 + i /\ s = CvmModule
            \/ k = 9 + i /\ s = Must("tag_pool")
            \/ k = 10 + i /\ s = Must("tag_lock")
<1> DEFINE T == VtTail(options)
<1>1. CASE "enable_iommu" \in options
  <2>1. k \in 1 .. 11 BY <1>1 DEF VtTail
  <2>2. k \in {1, 2, 3, 4, 5, 6, 7, 8, 9, 10, 11} BY <2>1
  <2>3. /\ T[1] = Must("msr_bitmap") /\ T[2] = May("io_bitmap_a") /\ T[3] = May("io_bitmap_b")
        /\ T[4] = Must("cpuid_handlers") /\ T[5] = VirtualCpuCheck /\ T[6] = HostPageTable
        /\ T[7] = IommuStep /\ T[8] = ProtectHypervisor /\ T[9] = CvmModule
        /\ T[10] = Must("tag_pool") /\ T[11] = Must("tag_lock")
    BY <1>1 DEF VtTail
  <2> HIDE DEF T
  <2> SUFFICES \/ k = 1 /\ T[k] = Must("msr_bitmap")
               \/ k = 2 /\ T[k] = May("io_bitmap_a")
               \/ k = 3 /\ T[k] = May("io_bitmap_b")
               \/ k = 4 /\ T[k] = Must("cpuid_handlers")
               \/ k = 5 /\ T[k] = VirtualCpuCheck
               \/ k = 6 /\ T[k] = HostPageTable
               \/ k = 7 /\ T[k] = IommuStep
               \/ k = 8 /\ T[k] = ProtectHypervisor
               \/ k = 9 /\ T[k] = CvmModule
               \/ k = 10 /\ T[k] = Must("tag_pool")
               \/ k = 11 /\ T[k] = Must("tag_lock")
    BY <1>1 DEF T
  <2> QED BY <2>2, <2>3
<1>2. CASE "enable_iommu" \notin options
  <2>1. k \in 1 .. 10 BY <1>2 DEF VtTail
  <2>2. k \in {1, 2, 3, 4, 5, 6, 7, 8, 9, 10} BY <2>1
  <2>3. /\ T[1] = Must("msr_bitmap") /\ T[2] = May("io_bitmap_a") /\ T[3] = May("io_bitmap_b")
        /\ T[4] = Must("cpuid_handlers") /\ T[5] = VirtualCpuCheck /\ T[6] = HostPageTable
        /\ T[7] = ProtectHypervisor /\ T[8] = CvmModule /\ T[9] = Must("tag_pool")
        /\ T[10] = Must("tag_lock")
    BY <1>2 DEF VtTail
  <2> HIDE DEF T
  <2> SUFFICES \/ k = 1 /\ T[k] = Must("msr_bitmap")
               \/ k = 2 /\ T[k] = May("io_bitmap_a")
               \/ k = 3 /\ T[k] = May("io_bitmap_b")
               \/ k = 4 /\ T[k] = Must("cpuid_handlers")
               \/ k = 5 /\ T[k] = VirtualCpuCheck
               \/ k = 6 /\ T[k] = HostPageTable
               \/ k = 7 /\ T[k] = ProtectHypervisor
               \/ k = 8 /\ T[k] = CvmModule
               \/ k = 9 /\ T[k] = Must("tag_pool")
               \/ k = 10 /\ T[k] = Must("tag_lock")
    BY <1>2 DEF T
  <2> QED BY <2>2, <2>3
<1> QED BY <1>1, <1>2

LEMMA SvmTailItems ==
  ASSUME NEW options, NEW k \in 1 .. Len(SvmTail(options))
  PROVE  LET s == SvmTail(options)[k]
         IN \/ k = 1 /\ s = Must("primary_nptm")
            \/ k = 2 /\ s = Must("secondary_nptm")
            \/ k = 3 /\ s = Step(<<Maps>>, FALSE, "no")
            \/ k = 4 /\ s = Must("cpuid_handlers")
            \/ k = 5 /\ s = Must("msrpm")
            \/ k = 6 /\ s = Must("iopm")
            \/ k = 7 /\ s = CvmModule
            \/ k = 8 /\ s = Must("tag_pool")
            \/ k = 9 /\ s = Must("tag_lock")
            \/ k = 10 /\ s = HostPageTable
            \/ k = 11 /\ s = ProtectCritical
            \/ k = 12 /\ s = VirtualCpuCheck
            \/ k = 13 /\ "enable_nsv" \in options /\ s = Step(<< <<"rmd">>, <<"rmt">> >>, FALSE, "no")
<1> DEFINE map == Step(<<Maps>>, FALSE, "no")
           last == Step(<< <<"rmd">>, <<"rmt">> >>, FALSE, "no")
           T == SvmTail(options)
<1>1. CASE "enable_nsv" \in options
  <2>1. T = <<Must("primary_nptm"), Must("secondary_nptm"), map, Must("cpuid_handlers"),
              Must("msrpm"), Must("iopm"), CvmModule, Must("tag_pool"), Must("tag_lock"),
              HostPageTable, ProtectCritical, VirtualCpuCheck, last>>
    BY <1>1 DEF SvmTail
  <2>2. k \in 1 .. Len(T) OBVIOUS
  <2> HIDE DEF map, last, T
  <2>3. Len(T) = 13 BY <2>1
  <2>4. k \in {1, 2, 3, 4, 5, 6, 7, 8, 9, 10, 11, 12, 13} BY <2>2, <2>3
  <2>5. /\ T[1] = Must("primary_nptm") /\ T[2] = Must("secondary_nptm") /\ T[3] = map
        /\ T[4] = Must("cpuid_handlers") /\ T[5] = Must("msrpm") /\ T[6] = Must("iopm")
        /\ T[7] = CvmModule /\ T[8] = Must("tag_pool") /\ T[9] = Must("tag_lock")
        /\ T[10] = HostPageTable /\ T[11] = ProtectCritical /\ T[12] = VirtualCpuCheck
        /\ T[13] = last
    BY <2>1
  <2>6. \/ k = 1 /\ T[k] = Must("primary_nptm")
        \/ k = 2 /\ T[k] = Must("secondary_nptm")
        \/ k = 3 /\ T[k] = map
        \/ k = 4 /\ T[k] = Must("cpuid_handlers")
        \/ k = 5 /\ T[k] = Must("msrpm")
        \/ k = 6 /\ T[k] = Must("iopm")
        \/ k = 7 /\ T[k] = CvmModule
        \/ k = 8 /\ T[k] = Must("tag_pool")
        \/ k = 9 /\ T[k] = Must("tag_lock")
        \/ k = 10 /\ T[k] = HostPageTable
        \/ k = 11 /\ T[k] = ProtectCritical
        \/ k = 12 /\ T[k] = VirtualCpuCheck
        \/ k = 13 /\ T[k] = last
    BY <2>4, <2>5
  <2> QED BY <1>1, <2>6 DEF map, last, T
<1>2. CASE "enable_nsv" \notin options
  <2>1. T = <<Must("primary_nptm"), Must("secondary_nptm"), map, Must("cpuid_handlers"),
              Must("msrpm"), Must("iopm"), CvmModule, Must("tag_pool"), Must("tag_lock"),
              HostPageTable, ProtectCritical, VirtualCpuCheck>>
    BY <1>2 DEF SvmTail
  <2>2. k \in 1 .. Len(T) OBVIOUS
  <2> HIDE DEF map, last, T
  <2>3. Len(T) = 12 BY <2>1
  <2>4. k \in {1, 2, 3, 4, 5, 6, 7, 8, 9, 10, 11, 12} BY <2>2, <2>3
  <2>5. /\ T[1] = Must("primary_nptm") /\ T[2] = Must("secondary_nptm") /\ T[3] = map
        /\ T[4] = Must("cpuid_handlers") /\ T[5] = Must("msrpm") /\ T[6] = Must("iopm")
        /\ T[7] = CvmModule /\ T[8] = Must("tag_pool") /\ T[9] = Must("tag_lock")
        /\ T[10] = HostPageTable /\ T[11] = ProtectCritical /\ T[12] = VirtualCpuCheck
    BY <2>1
  <2>6. \/ k = 1 /\ T[k] = Must("primary_nptm")
        \/ k = 2 /\ T[k] = Must("secondary_nptm")
        \/ k = 3 /\ T[k] = map
        \/ k = 4 /\ T[k] = Must("cpuid_handlers")
        \/ k = 5 /\ T[k] = Must("msrpm")
        \/ k = 6 /\ T[k] = Must("iopm")
        \/ k = 7 /\ T[k] = CvmModule
        \/ k = 8 /\ T[k] = Must("tag_pool")
        \/ k = 9 /\ T[k] = Must("tag_lock")
        \/ k = 10 /\ T[k] = HostPageTable
        \/ k = 11 /\ T[k] = ProtectCritical
        \/ k = 12 /\ T[k] = VirtualCpuCheck
    BY <2>4, <2>5
  <2> QED BY <2>6 DEF map, last, T
<1> QED BY <1>1, <1>2

\* What is asked for in the tail is asked for once, and is freed by the clean-up or
\* by what follows it.
OnceInTail(engine, options) ==
  LET T == PlanTail(engine, options) IN
  \A j, k \in 1 .. Len(T) : ItemsOf(T[j]) \cap ItemsOf(T[k]) # {} => j = k
TailStepOk(engine, options, k) ==
  LET T == PlanTail(engine, options)
      s == T[k]
  IN /\ s.array # "loop" /\ VirtualCpu \notin ItemsOf(s) /\ ItemsOf(s) \cap CpuItems = {}
     /\ \A x \in ItemsOf(s) :
          /\ \/ x \in Cleaned(engine)
             \/ x = <<"cpuid_handlers">>
             \/ engine = "svm" /\ x = <<"vm_list_lock">>
             \/ "enable_iommu" \in options /\ x = <<"iommu">>
          /\ x \in {<<"rmd">>, <<"rmt">>} =>
               engine = "svm" /\ k = Len(T) /\ s.items = << <<"rmd">>, <<"rmt">> >>

\* The place of an item in the tail.
VtPlace(options, n) ==
  LET i == IF "enable_iommu" \in options THEN 1 ELSE 0 IN
  CASE n = "msr_bitmap" -> 1 [] n = "io_bitmap_a" -> 2 [] n = "io_bitmap_b" -> 3
    [] n = "cpuid_handlers" -> 4 [] n \in {"hcr3", "pdpt"} -> 6 [] n \in {"iommu", "mmio_hooks"} -> 7
    [] n = "vm_list_lock" -> 8 + i [] n = "tag_pool" -> 9 + i [] n = "tag_lock" -> 10 + i
SvmPlace(n) ==
  CASE n = "primary_nptm" -> 1 [] n = "secondary_nptm" -> 2 [] n = "cpuid_handlers" -> 4
    [] n = "msrpm" -> 5 [] n = "iopm" -> 6 [] n = "vm_list_lock" -> 7 [] n = "tag_pool" -> 8
    [] n = "tag_lock" -> 9 [] n \in {"hcr3", "pdpt"} -> 10 [] n = "blank_page" -> 11
    [] n \in {"rmd", "rmt"} -> 13
VtTailNames(options) ==
  {"msr_bitmap", "io_bitmap_a", "io_bitmap_b", "cpuid_handlers", "hcr3", "pdpt", "vm_list_lock", "tag_pool", "tag_lock"}
    \cup IF "enable_iommu" \in options THEN {"iommu", "mmio_hooks"} ELSE {}
SvmTailNames(options) ==
  {"primary_nptm", "secondary_nptm", "cpuid_handlers", "msrpm", "iopm", "vm_list_lock", "tag_pool", "tag_lock",
   "hcr3", "pdpt", "blank_page"} \cup IF "enable_nsv" \in options THEN {"rmd", "rmt"} ELSE {}

LEMMA VtTailSteps ==
  ASSUME NEW options, NEW k \in 1 .. Len(VtTail(options))
  PROVE  LET s == VtTail(options)[k] IN
         /\ s.array # "loop"
         /\ \A x \in ItemsOf(s) : \E n \in VtTailNames(options) : x = <<n>> /\ VtPlace(options, n) = k
<1> DEFINE s == VtTail(options)[k]
           N == VtTailNames(options)
           Q(t) == t.array # "loop" /\ \A x \in ItemsOf(t) : \E n \in N : x = <<n>> /\ VtPlace(options, n) = k
<1>1. \A n \in VtItems \cup SvmItems :
        /\ n \in N /\ VtPlace(options, n) = k => Q(Must(n)) /\ Q(May(n))
  BY ItemsOfSteps DEF Must, May, Step
<1>2. {"msr_bitmap", "io_bitmap_a", "io_bitmap_b", "cpuid_handlers", "hcr3", "pdpt", "vm_list_lock", "tag_pool",
       "tag_lock"} \subseteq (VtItems \cup SvmItems) \cap N
  BY DEF VtItems, VtTailNames
<1>3. Q(ProtectHypervisor) BY ItemsOfSteps DEF ProtectHypervisor, Step
<1>4. Q(VirtualCpuCheck) BY ItemsOfSteps DEF VirtualCpuCheck, Step
<1>5. k = 6 => Q(HostPageTable)
  <2>1. k = 6 => VtPlace(options, "hcr3") = k /\ VtPlace(options, "pdpt") = k BY DEF VtPlace
  <2> QED BY <1>2, <2>1, ItemsOfSteps DEF HostPageTable, Step
<1>6. k = 7 /\ "enable_iommu" \in options => Q(IommuStep)
  <2>1. k = 7 => VtPlace(options, "iommu") = k /\ VtPlace(options, "mmio_hooks") = k BY DEF VtPlace
  <2>2. "enable_iommu" \in options => {"iommu", "mmio_hooks"} \subseteq N BY DEF VtTailNames
  <2> QED BY <2>1, <2>2, ItemsOfSteps DEF IommuStep, Step
<1> HIDE DEF Q, N
<1>7. CASE "enable_iommu" \in options
  <2>1. /\ VtPlace(options, "msr_bitmap") = 1 /\ VtPlace(options, "io_bitmap_a") = 2
        /\ VtPlace(options, "io_bitmap_b") = 3 /\ VtPlace(options, "cpuid_handlers") = 4
        /\ VtPlace(options, "vm_list_lock") = 9 /\ VtPlace(options, "tag_pool") = 10
        /\ VtPlace(options, "tag_lock") = 11
    BY <1>7 DEF VtPlace
  <2> QED BY <1>1, <1>2, <1>3, <1>4, <1>5, <1>6, <1>7, <2>1, VtTailItems DEF Q, N, CvmModule
<1>8. CASE "enable_iommu" \notin options
  <2>1. /\ VtPlace(options, "msr_bitmap") = 1 /\ VtPlace(options, "io_bitmap_a") = 2
        /\ VtPlace(options, "io_bitmap_b") = 3 /\ VtPlace(options, "cpuid_handlers") = 4
        /\ VtPlace(options, "vm_list_lock") = 8 /\ VtPlace(options, "tag_pool") = 9
        /\ VtPlace(options, "tag_lock") = 10
    BY <1>8 DEF VtPlace
  <2> QED BY <1>1, <1>2, <1>3, <1>4, <1>5, <1>8, <2>1, VtTailItems DEF Q, N, CvmModule
<1> QED BY <1>7, <1>8

LEMMA SvmTailSteps ==
  ASSUME NEW options, NEW k \in 1 .. Len(SvmTail(options))
  PROVE  LET s == SvmTail(options)[k] IN
         /\ s.array # "loop"
         /\ \A x \in ItemsOf(s) : \E n \in SvmTailNames(options) : x = <<n>> /\ SvmPlace(n) = k
         /\ k = 13 => "enable_nsv" \in options /\ s = Step(<< <<"rmd">>, <<"rmt">> >>, FALSE, "no")
<1> DEFINE s == SvmTail(options)[k]
           N == SvmTailNames(options)
           Q(t) == t.array # "loop" /\ \A x \in ItemsOf(t) : \E n \in N : x = <<n>> /\ SvmPlace(n) = k
           last == Step(<< <<"rmd">>, <<"rmt">> >>, FALSE, "no")
           map == Step(<<Maps>>, FALSE, "no")
<1>1. \A n \in VtItems \cup SvmItems :
        n \in N /\ SvmPlace(n) = k => Q(Must(n)) /\ Q(May(n))
  BY ItemsOfSteps DEF Must, May, Step
<1>2. {"primary_nptm", "secondary_nptm", "cpuid_handlers", "msrpm", "iopm", "vm_list_lock", "tag_pool", "tag_lock",
       "hcr3", "pdpt", "blank_page"} \subseteq (VtItems \cup SvmItems) \cap N
  BY DEF SvmItems, SvmTailNames
<1>3. Q(map) BY ItemsOfSteps DEF Step
<1>4. Q(VirtualCpuCheck) BY ItemsOfSteps DEF VirtualCpuCheck, Step
<1>5. k = 10 => Q(HostPageTable)
  <2>1. k = 10 => SvmPlace("hcr3") = k /\ SvmPlace("pdpt") = k BY DEF SvmPlace
  <2> QED BY <1>2, <2>1, ItemsOfSteps DEF HostPageTable, Step
<1>6. k = 11 => Q(ProtectCritical)
  <2>1. k = 11 => SvmPlace("blank_page") = k BY DEF SvmPlace
  <2> QED BY <1>2, <2>1, ItemsOfSteps DEF ProtectCritical, Step
<1>7. k = 13 /\ "enable_nsv" \in options => Q(last)
  <2>1. k = 13 => SvmPlace("rmd") = k /\ SvmPlace("rmt") = k BY DEF SvmPlace
  <2>2. "enable_nsv" \in options => {"rmd", "rmt"} \subseteq N BY DEF SvmTailNames
  <2> QED BY <2>1, <2>2, ItemsOfSteps DEF Step
<1>8. /\ SvmPlace("primary_nptm") = 1 /\ SvmPlace("secondary_nptm") = 2 /\ SvmPlace("cpuid_handlers") = 4
      /\ SvmPlace("msrpm") = 5 /\ SvmPlace("iopm") = 6 /\ SvmPlace("vm_list_lock") = 7
      /\ SvmPlace("tag_pool") = 8 /\ SvmPlace("tag_lock") = 9
  BY DEF SvmPlace
<1>9. \/ k = 1 /\ s = Must("primary_nptm")
      \/ k = 2 /\ s = Must("secondary_nptm")
      \/ k = 3 /\ s = map
      \/ k = 4 /\ s = Must("cpuid_handlers")
      \/ k = 5 /\ s = Must("msrpm")
      \/ k = 6 /\ s = Must("iopm")
      \/ k = 7 /\ s = CvmModule
      \/ k = 8 /\ s = Must("tag_pool")
      \/ k = 9 /\ s = Must("tag_lock")
      \/ k = 10 /\ s = HostPageTable
      \/ k = 11 /\ s = ProtectCritical
      \/ k = 12 /\ s = VirtualCpuCheck
      \/ k = 13 /\ "enable_nsv" \in options /\ s = last
  BY SvmTailItems
<1> HIDE DEF Q, N, last, map, s
<1>10. Q(s) BY <1>1, <1>2, <1>3, <1>4, <1>5, <1>6, <1>7, <1>8, <1>9 DEF CvmModule
<1>11. k = 13 => "enable_nsv" \in options /\ s = last BY <1>9
<1> QED BY <1>10, <1>11 DEF Q, N, last, s

LEMMA TailOk ==
  ASSUME NEW engine \in Engines, NEW options
  PROVE  /\ OnceInTail(engine, options)
         /\ \A k \in 1 .. Len(PlanTail(engine, options)) : TailStepOk(engine, options, k)
<1> DEFINE T == PlanTail(engine, options)
<1>1. \A n \in VtItems \cup SvmItems : <<n>> \notin CpuItems BY DEF CpuItems
<1>2. CASE engine = "vt"
  <2> DEFINE N == VtTailNames(options)
  <2>1. T = VtTail(options) BY <1>2 DEF PlanTail
  <2>2. \A k \in 1 .. Len(T) : /\ T[k].array # "loop"
                               /\ \A x \in ItemsOf(T[k]) : \E n \in N : x = <<n>> /\ VtPlace(options, n) = k
    BY <2>1, VtTailSteps
  <2>3. \A n \in N : /\ n \in VtItems /\ n # "virtual_cpu" /\ n \notin {"rmd", "rmt"}
                     /\ n \in {"cpuid_handlers", "iommu"} \/ n \in VtItems \ {"cpuid_handlers", "iommu"}
                     /\ n = "iommu" => "enable_iommu" \in options
    BY DEF VtTailNames, VtItems
  <2>4. OnceInTail(engine, options)
    <3> HIDE DEF T, N
    <3>1. \A j, k \in 1 .. Len(T) : ItemsOf(T[j]) \cap ItemsOf(T[k]) # {} => j = k BY <2>2
    <3> QED BY <3>1 DEF OnceInTail, T
  <2>5. ASSUME NEW k \in 1 .. Len(T) PROVE TailStepOk(engine, options, k)
    <3>1. Cleaned(engine) = VtCleaned BY <1>2 DEF Cleaned
    <3>2. \A n \in VtItems \ {"cpuid_handlers", "iommu"} : <<n>> \in VtCleaned BY DEF VtCleaned
    <3> HIDE DEF T, N
    <3>3. \A x \in ItemsOf(T[k]) :
            /\ x \notin CpuItems /\ x # VirtualCpu /\ x \notin {<<"rmd">>, <<"rmt">>}
            /\ x \in VtCleaned \/ x = <<"cpuid_handlers">> \/ ("enable_iommu" \in options /\ x = <<"iommu">>)
      <4> SUFFICES ASSUME NEW x \in ItemsOf(T[k])
                   PROVE  /\ x \notin CpuItems /\ x # VirtualCpu /\ x \notin {<<"rmd">>, <<"rmt">>}
                          /\ \/ x \in VtCleaned \/ x = <<"cpuid_handlers">>
                             \/ "enable_iommu" \in options /\ x = <<"iommu">>
        OBVIOUS
      <4>1. PICK n \in N : x = <<n>> BY <2>2
      <4>2. x \notin {<<"rmd">>, <<"rmt">>} /\ x # VirtualCpu BY <2>3, <4>1 DEF VirtualCpu
      <4> QED BY <2>3, <1>1, <3>2, <4>1, <4>2
    <3> QED BY <2>2, <3>1, <3>3 DEF TailStepOk, T
  <2> QED BY <2>4, <2>5
<1>3. CASE engine = "svm"
  <2> DEFINE N == SvmTailNames(options)
             last == Step(<< <<"rmd">>, <<"rmt">> >>, FALSE, "no")
  <2>1. T = SvmTail(options) BY <1>3 DEF PlanTail
  <2>2. \A k \in 1 .. Len(T) : /\ T[k].array # "loop"
                               /\ \A x \in ItemsOf(T[k]) : \E n \in N : x = <<n>> /\ SvmPlace(n) = k
    BY <2>1, SvmTailSteps
  <2>3. \A n \in N : /\ n \in SvmItems /\ n # "virtual_cpu"
                     /\ n \in {"cpuid_handlers", "vm_list_lock"} \/ n \in SvmItems \ {"cpuid_handlers", "vm_list_lock"}
                     /\ n \in {"rmd", "rmt"} => SvmPlace(n) = 13
    BY DEF SvmTailNames, SvmItems, SvmPlace
  <2>4. \A k \in 1 .. Len(T) : k = 13 => k = Len(T) /\ T[k] = last
    <3>1. "enable_nsv" \in options => Len(T) = 13 BY <2>1 DEF SvmTail
    <3>2. \A k \in 1 .. Len(T) : k = 13 => "enable_nsv" \in options /\ T[k] = last
      <4> HIDE DEF last
      <4> QED BY <2>1, SvmTailSteps DEF last
    <3> QED BY <3>1, <3>2
  <2>5. last.items = << <<"rmd">>, <<"rmt">> >> BY DEF Step
  <2>6. OnceInTail(engine, options)
    <3> HIDE DEF T, N
    <3>1. \A j, k \in 1 .. Len(T) : ItemsOf(T[j]) \cap ItemsOf(T[k]) # {} => j = k BY <2>2
    <3> QED BY <3>1 DEF OnceInTail, T
  <2>7. ASSUME NEW k \in 1 .. Len(T) PROVE TailStepOk(engine, options, k)
    <3>1. Cleaned(engine) = SvmCleaned BY <1>3 DEF Cleaned
    <3>2. \A n \in SvmItems \ {"cpuid_handlers", "vm_list_lock"} : <<n>> \in SvmCleaned BY DEF SvmCleaned
    <3> HIDE DEF T, N, last
    <3>3. \A x \in ItemsOf(T[k]) :
            /\ x \notin CpuItems /\ x # VirtualCpu
            /\ x \in {<<"rmd">>, <<"rmt">>} => k = Len(T) /\ T[k].items = << <<"rmd">>, <<"rmt">> >>
            /\ x \in SvmCleaned \/ x = <<"cpuid_handlers">> \/ x = <<"vm_list_lock">>
      <4> SUFFICES ASSUME NEW x \in ItemsOf(T[k])
                   PROVE  /\ x \notin CpuItems /\ x # VirtualCpu
                          /\ x \in {<<"rmd">>, <<"rmt">>} => k = Len(T) /\ T[k].items = << <<"rmd">>, <<"rmt">> >>
                          /\ x \in SvmCleaned \/ x = <<"cpuid_handlers">> \/ x = <<"vm_list_lock">>
        OBVIOUS
      <4>1. PICK n \in N : x = <<n>> /\ SvmPlace(n) = k BY <2>2
      <4>2. x \in {<<"rmd">>, <<"rmt">>} => k = 13 BY <2>3, <4>1
      <4> QED BY <2>2, <2>3, <2>4, <2>5, <1>1, <3>2, <4>1, <4>2 DEF VirtualCpu
    <3> QED BY <1>3, <2>2, <3>1, <3>3 DEF TailStepOk, T
  <2> QED BY <2>6, <2>7
<1> QED BY <1>2, <1>3 DEF Engines

LEMMA TailChecks ==
  ASSUME NEW engine \in Engines, NEW options
  PROVE  LET T == PlanTail(engine, options) IN
         /\ \E k \in 1 .. Len(T) : T[k].array = "check"
         /\ engine = "vt" => \A n \in {"msr_bitmap", "io_bitmap_a", "io_bitmap_b", "hcr3", "pdpt"} :
              \E k \in 1 .. Len(T) : /\ <<n>> \in ItemsOf(T[k]) /\ T[k].array # "check"
                                     /\ T[k].optional => <<n>> \in DoneWithout
         /\ engine = "svm" => \A n \in {"primary_nptm", "msrpm", "iopm", "hcr3", "pdpt"} :
              \E k \in 1 .. Len(T) : /\ <<n>> \in ItemsOf(T[k]) /\ T[k].array # "check"
                                     /\ T[k].optional => <<n>> \in DoneWithout
<1> DEFINE T == PlanTail(engine, options)
           W(n, k) == /\ k \in 1 .. Len(T) /\ <<n>> \in ItemsOf(T[k]) /\ T[k].array # "check"
                      /\ T[k].optional => <<n>> \in DoneWithout
<1>1. /\ \A n \in VtItems \cup SvmItems : ~Must(n).optional /\ Must(n).array = "no" /\ May(n).array = "no"
      /\ HostPageTable.array = "no"
  BY DEF Must, May, HostPageTable, Step
<1>2. VirtualCpuCheck.array = "check" BY DEF VirtualCpuCheck, Step
<1>3. CASE engine = "vt"
  <2>1. /\ 1 \in 1 .. Len(T) /\ 2 \in 1 .. Len(T) /\ 3 \in 1 .. Len(T) /\ 5 \in 1 .. Len(T) /\ 6 \in 1 .. Len(T)
        /\ T[1] = Must("msr_bitmap") /\ T[2] = May("io_bitmap_a") /\ T[3] = May("io_bitmap_b")
        /\ T[5] = VirtualCpuCheck /\ T[6] = HostPageTable
    <3>1. CASE "enable_iommu" \in options BY <1>3, <3>1 DEF PlanTail, VtTail
    <3>2. CASE "enable_iommu" \notin options BY <1>3, <3>2 DEF PlanTail, VtTail
    <3> QED BY <3>1, <3>2
  <2>2. {"msr_bitmap", "io_bitmap_a", "io_bitmap_b"} \subseteq VtItems BY DEF VtItems
  <2> HIDE DEF T
  <2>3. W("msr_bitmap", 1) /\ W("io_bitmap_a", 2) /\ W("io_bitmap_b", 3) /\ W("hcr3", 6) /\ W("pdpt", 6)
    BY <1>1, <2>1, <2>2, ItemsOfSteps DEF DoneWithout
  <2> QED BY <1>2, <1>3, <2>1, <2>3 DEF T
<1>4. CASE engine = "svm"
  <2>1. /\ 1 \in 1 .. Len(T) /\ 5 \in 1 .. Len(T) /\ 6 \in 1 .. Len(T) /\ 10 \in 1 .. Len(T) /\ 12 \in 1 .. Len(T)
        /\ T[1] = Must("primary_nptm") /\ T[5] = Must("msrpm") /\ T[6] = Must("iopm")
        /\ T[10] = HostPageTable /\ T[12] = VirtualCpuCheck
    <3>1. CASE "enable_nsv" \in options BY <1>4, <3>1 DEF PlanTail, SvmTail
    <3>2. CASE "enable_nsv" \notin options BY <1>4, <3>2 DEF PlanTail, SvmTail
    <3> QED BY <3>1, <3>2
  <2>2. {"primary_nptm", "msrpm", "iopm"} \subseteq SvmItems BY DEF SvmItems
  <2> HIDE DEF T
  <2>3. W("primary_nptm", 1) /\ W("msrpm", 5) /\ W("iopm", 6) /\ W("hcr3", 10) /\ W("pdpt", 10)
    BY <1>1, <2>1, <2>2, ItemsOfSteps DEF DoneWithout
  <2> QED BY <1>2, <1>4, <2>1, <2>3 DEF T
<1> QED BY <1>3, <1>4 DEF Engines

LEMMA PerCpuItems ==
  ASSUME NEW engine \in Engines, NEW options \in SUBSET OptionNames
  PROVE  LET names == CpuNames(engine, options)
             m == CpuCount * Len(names)
             S == PerCpu(names)
         IN /\ \A i \in 1 .. m : /\ S[i].array = "loop" /\ ~S[i].optional
                                 /\ \E x \in CpuItems : ItemsOf(S[i]) = {x}
            /\ \A i, j \in 1 .. m : ItemsOf(S[i]) \cap ItemsOf(S[j]) # {} => i = j
            /\ \A a \in 1 .. Len(names), p \in Procs :
                 \E i \in 1 .. m : <<names[a], p>> \in ItemsOf(S[i])
<1> DEFINE names == CpuNames(engine, options)
           l == Len(names)
           m == CpuCount * l
           S == PerCpu(names)
           q(i) == (i - 1) \div l
           r(i) == ((i - 1) % l) + 1
<1>1. /\ names \in Seq(NamesOf(VtCpuItems) \cup NamesOf(SvmCpuItems)) /\ l \in {5, 6, 7}
      /\ \A a, b \in 1 .. l : names[a] = names[b] => a = b
  BY CpuNamesType
<1> HIDE DEF names
<1>2. \A i \in 1 .. m : r(i) \in 1 .. l /\ q(i) \in Procs /\ S[i] = Step(<< <<names[r(i)], q(i)>> >>, FALSE, "loop")
  BY <1>1, PerCpuType
<1>3. \A a \in 1 .. l : names[a] \in NamesOf(VtCpuItems) \cup NamesOf(SvmCpuItems) BY <1>1
<1>4. \A i, j \in 1 .. m : r(i) = r(j) /\ q(i) = q(j) => i = j
  <2>1. CASE l = 5 BY <2>1, CpuCountAssumption
  <2>2. CASE l = 6 BY <2>2, CpuCountAssumption
  <2>3. CASE l = 7 BY <2>3, CpuCountAssumption
  <2> QED BY <1>1, <2>1, <2>2, <2>3
<1>5. \A a \in 1 .. l, p \in Procs : p * l + a \in 1 .. m /\ r(p * l + a) = a /\ q(p * l + a) = p
  <2>1. CASE l = 5 BY <2>1, CpuCountAssumption DEF Procs
  <2>2. CASE l = 6 BY <2>2, CpuCountAssumption DEF Procs
  <2>3. CASE l = 7 BY <2>3, CpuCountAssumption DEF Procs
  <2> QED BY <1>1, <2>1, <2>2, <2>3
<1> HIDE DEF l, m, q, r, S
<1>6. \A i \in 1 .. m : /\ <<names[r(i)], q(i)>> \in CpuItems /\ S[i].array = "loop" /\ ~S[i].optional
                        /\ ItemsOf(S[i]) = {<<names[r(i)], q(i)>>}
  <2> SUFFICES ASSUME NEW i \in 1 .. m
               PROVE  /\ <<names[r(i)], q(i)>> \in CpuItems /\ S[i].array = "loop" /\ ~S[i].optional
                      /\ ItemsOf(S[i]) = {<<names[r(i)], q(i)>>}
    OBVIOUS
  <2>1. <<names[r(i)], q(i)>> \in CpuItems BY <1>2, <1>3, ItemsOfNames
  <2>2. S[i] = Step(<< <<names[r(i)], q(i)>> >>, FALSE, "loop") BY <1>2
  <2>3. \A x : Step(<<x>>, FALSE, "loop").array = "loop" /\ ~Step(<<x>>, FALSE, "loop").optional BY DEF Step
  <2> QED BY <2>1, <2>2, <2>3, ItemsOfSteps
<1>7. \A i, j \in 1 .. m : ItemsOf(S[i]) \cap ItemsOf(S[j]) # {} => i = j
  <2> SUFFICES ASSUME NEW i \in 1 .. m, NEW j \in 1 .. m, ItemsOf(S[i]) \cap ItemsOf(S[j]) # {}
               PROVE  i = j
    OBVIOUS
  <2>1. <<names[r(i)], q(i)>> = <<names[r(j)], q(j)>> BY <1>6
  <2>2. names[r(i)] = names[r(j)] /\ q(i) = q(j) BY <2>1
  <2>3. r(i) = r(j) BY <1>1, <1>2, <2>2
  <2> QED BY <1>4, <2>2, <2>3
<1>8. \A a \in 1 .. l, p \in Procs : \E i \in 1 .. m : <<names[a], p>> \in ItemsOf(S[i])
  <2> SUFFICES ASSUME NEW a \in 1 .. l, NEW p \in Procs
               PROVE  \E i \in 1 .. m : <<names[a], p>> \in ItemsOf(S[i])
    OBVIOUS
  <2>1. /\ p * l + a \in 1 .. m
        /\ <<names[r(p * l + a)], q(p * l + a)>> = <<names[a], p>>
    BY <1>5
  <2> QED BY <1>6, <2>1
<1>9. \A i \in 1 .. m : S[i].array = "loop" /\ ~S[i].optional /\ \E x \in CpuItems : ItemsOf(S[i]) = {x} BY <1>6
<1> QED BY <1>7, <1>8, <1>9 DEF l, m, S, names

LEMMA CpuNamesUsed ==
  ASSUME NEW engine \in Engines, NEW options \in SUBSET OptionNames
  PROVE  LET names == CpuNames(engine, options) IN
         /\ engine = "vt" => {"vmxon", "vmcs", "msr_auto", "hv_stack", "ept"} \subseteq NamesOf(names)
         /\ engine = "svm" => {"vmcb", "hsave", "hvmcb", "hv_stack"} \subseteq NamesOf(names)
<1>1. ASSUME engine = "vt" PROVE {"vmxon", "vmcs", "msr_auto", "hv_stack", "ept"} \subseteq NamesOf(VtCpuItems)
  BY DEF NamesOf, VtCpuItems
<1>2. {"vmcb", "hsave", "hvmcb", "hv_stack"} \subseteq NamesOf(SvmCpuItems)
  BY DEF NamesOf, SvmCpuItems
<1>3. {"vmcb", "hsave", "hvmcb", "hv_stack"} \subseteq NamesOf(<<"vmcb", "hsave", "hvmcb", "hv_stack", "xsave">>)
  BY DEF NamesOf
<1>4. {"vmcb", "hsave", "hvmcb", "hv_stack"} \subseteq NamesOf(SubSeq(SvmCpuItems, 1, 5))
  BY <1>3, FiveNames
<1> QED BY <1>1, <1>2, <1>4 DEF CpuNames

\* What the proofs use of a plan.
PlanOk(engine, options) ==
  LET P == Plan(engine, options)
      L == Len(P)
  IN /\ P \in Seq(StepSet) /\ L \in Nat \ {0} /\ ItemsOf(P[1]) = {VirtualCpu}
     /\ P[1].items = <<VirtualCpu>> /\ P[1].array = "no"
     /\ \A j, k \in 1 .. L : ItemsOf(P[j]) \cap ItemsOf(P[k]) # {} => j = k
     /\ \A j \in 1 .. L : ItemsOf(P[j]) \cap CpuItems # {} => P[j].array = "loop"
     /\ \A j \in 1 .. L : \A x \in ItemsOf(P[j]) :
          /\ \/ x \in Cleaned(engine)
             \/ x = <<"cpuid_handlers">>
             \/ engine = "svm" /\ x = <<"vm_list_lock">>
             \/ "enable_iommu" \in options /\ x = <<"iommu">>
          /\ x \in {<<"rmd">>, <<"rmt">>} =>
               engine = "svm" /\ j = L /\ P[j].items = << <<"rmd">>, <<"rmt">> >>
     /\ \E j \in 1 .. L : P[j].array = "check"

LEMMA PlanFacts ==
  ASSUME NEW engine \in Engines, NEW options \in SUBSET OptionNames
  PROVE  PlanOk(engine, options)
<1> DEFINE P == Plan(engine, options)
           L == Len(P)
           names == CpuNames(engine, options)
           m == CpuCount * Len(names)
           S == PerCpu(names)
           T == PlanTail(engine, options)
           InTail(k) == /\ T[k].array # "loop" /\ VirtualCpu \notin ItemsOf(T[k]) /\ ItemsOf(T[k]) \cap CpuItems = {}
                        /\ \A x \in ItemsOf(T[k]) :
                             /\ \/ x \in Cleaned(engine)
                                \/ x = <<"cpuid_handlers">>
                                \/ engine = "svm" /\ x = <<"vm_list_lock">>
                                \/ "enable_iommu" \in options /\ x = <<"iommu">>
                             /\ x \in {<<"rmd">>, <<"rmt">>} =>
                                  engine = "svm" /\ k = Len(T) /\ T[k].items = << <<"rmd">>, <<"rmt">> >>
<1>1. /\ P \in Seq(StepSet) /\ m \in Nat /\ Len(T) \in Nat /\ L = 1 + m + Len(T)
      /\ P[1] = May("virtual_cpu")
      /\ \A i \in 1 .. m : P[1 + i] = S[i]
      /\ \A i \in 1 .. Len(T) : P[1 + m + i] = T[i]
  BY PlanShape
<1>2. ItemsOf(P[1]) = {VirtualCpu} /\ P[1].items = <<VirtualCpu>> /\ P[1].array = "no"
  <2>1. "virtual_cpu" \in VtItems BY DEF VtItems
  <2> QED BY <1>1, <2>1, ItemsOfSteps DEF VirtualCpu, May, Step
<1>3. /\ \A i \in 1 .. m : S[i].array = "loop" /\ \E x \in CpuItems : ItemsOf(S[i]) = {x}
      /\ \A i, j \in 1 .. m : ItemsOf(S[i]) \cap ItemsOf(S[j]) # {} => i = j
  BY PerCpuItems
<1>4. /\ \A j, k \in 1 .. Len(T) : ItemsOf(T[j]) \cap ItemsOf(T[k]) # {} => j = k
      /\ \A k \in 1 .. Len(T) : InTail(k)
      /\ \E k \in 1 .. Len(T) : T[k].array = "check"
  BY TailOk, TailChecks DEF OnceInTail, TailStepOk
<1>5. /\ VirtualCpu \notin CpuItems /\ VirtualCpu \in Cleaned(engine) /\ VirtualCpu \notin {<<"rmd">>, <<"rmt">>}
      /\ CpuItems \subseteq Cleaned(engine) /\ \A x \in CpuItems : x \notin {<<"rmd">>, <<"rmt">>}
  BY DEF VirtualCpu, CpuItems, Cleaned, VtCleaned, SvmCleaned, VtItems, SvmItems
<1> HIDE DEF P, L, m, S, T, InTail
<1>6. \A j \in 1 .. L : \/ j = 1
                        \/ \E i \in 1 .. m : j = 1 + i /\ P[j] = S[i]
                        \/ \E k \in 1 .. Len(T) : j = 1 + m + k /\ P[j] = T[k]
  <2> SUFFICES ASSUME NEW j \in 1 .. L, j # 1, ~\E i \in 1 .. m : j = 1 + i /\ P[j] = S[i]
               PROVE  \E k \in 1 .. Len(T) : j = 1 + m + k /\ P[j] = T[k]
    OBVIOUS
  <2>1. j - 1 \in 1 .. m => P[1 + (j - 1)] = S[j - 1] BY <1>1
  <2>2. j > 1 + m BY <1>1, <2>1
  <2>3. j - (1 + m) \in 1 .. Len(T) /\ P[1 + m + (j - (1 + m))] = T[j - (1 + m)] BY <1>1, <2>2
  <2> QED BY <1>1, <2>3
<1>7. \A k \in 1 .. Len(T) : 1 + m + k \in 1 .. L /\ (k = Len(T) => 1 + m + k = L) BY <1>1
<1>8. ASSUME NEW j \in 1 .. L, NEW k \in 1 .. L, ItemsOf(P[j]) \cap ItemsOf(P[k]) # {} PROVE j = k
  <2>1. PICK y \in ItemsOf(P[j]) : y \in ItemsOf(P[k]) BY <1>8
  <2> DEFINE First(n) == n = 1
             Array(n) == \E i \in 1 .. m : n = 1 + i /\ P[n] = S[i]
             Last(n) == \E i \in 1 .. Len(T) : n = 1 + m + i /\ P[n] = T[i]
  <2>2. \A n \in 1 .. L : First(n) => ItemsOf(P[n]) = {VirtualCpu} BY <1>2
  <2>3. \A n \in 1 .. L : Array(n) => ItemsOf(P[n]) \subseteq CpuItems BY <1>3
  <2>4. \A n \in 1 .. L : Last(n) => VirtualCpu \notin ItemsOf(P[n]) /\ ItemsOf(P[n]) \cap CpuItems = {}
    BY <1>4 DEF InTail
  <2>5. CASE First(j) /\ First(k) BY <2>5
  <2>6. CASE Array(j) /\ Array(k) BY <1>3, <2>1, <2>6
  <2>7. CASE Last(j) /\ Last(k) BY <1>4, <2>1, <2>7
  <2>8. (First(j) \/ Array(j) \/ Last(j)) /\ (First(k) \/ Array(k) \/ Last(k)) BY <1>6
  <2> HIDE DEF First, Array, Last
  <2> QED BY <1>5, <2>1, <2>2, <2>3, <2>4, <2>5, <2>6, <2>7, <2>8
<1>9. ASSUME NEW j \in 1 .. L
      PROVE  /\ ItemsOf(P[j]) \cap CpuItems # {} => P[j].array = "loop"
             /\ \A x \in ItemsOf(P[j]) :
                  /\ \/ x \in Cleaned(engine)
                     \/ x = <<"cpuid_handlers">>
                     \/ engine = "svm" /\ x = <<"vm_list_lock">>
                     \/ "enable_iommu" \in options /\ x = <<"iommu">>
                  /\ x \in {<<"rmd">>, <<"rmt">>} =>
                       engine = "svm" /\ j = L /\ P[j].items = << <<"rmd">>, <<"rmt">> >>
  <2>1. CASE j = 1 BY <1>2, <1>5, <2>1
  <2>2. CASE \E i \in 1 .. m : j = 1 + i /\ P[j] = S[i]
    <3>1. PICK i \in 1 .. m : P[j] = S[i] BY <2>2
    <3>2. PICK x \in CpuItems : ItemsOf(P[j]) = {x} BY <1>3, <3>1
    <3> QED BY <1>3, <1>5, <3>1, <3>2
  <2>3. CASE \E k \in 1 .. Len(T) : j = 1 + m + k /\ P[j] = T[k]
    <3>1. PICK k \in 1 .. Len(T) : j = 1 + m + k /\ P[j] = T[k] BY <2>3
    <3>2. InTail(k) BY <1>4
    <3> QED BY <1>7, <3>1, <3>2 DEF InTail
  <2> QED BY <1>6, <2>1, <2>2, <2>3
<1>10. \E j \in 1 .. L : P[j].array = "check" BY <1>1, <1>4, <1>7
<1>11. P \in Seq(StepSet) /\ L \in Nat \ {0} BY <1>1
<1> QED BY <1>2, <1>8, <1>9, <1>10, <1>11 DEF PlanOk, P, L

\* What a processor uses, the plan provides.
LEMMA PlanProvides ==
  ASSUME NEW engine \in Engines, NEW options \in SUBSET OptionNames, NEW p \in Procs, NEW caps,
         NEW x \in (IF engine = "vt" THEN VtUsed(p, caps) ELSE SvmUsed(p)) \ {VirtualCpu}
  PROVE  LET P == Plan(engine, options) IN
         \E j \in 1 .. Len(P) : /\ x \in ItemsOf(P[j]) /\ P[j].array # "check"
                                /\ P[j].optional => x \in DoneWithout
<1> DEFINE P == Plan(engine, options)
           names == CpuNames(engine, options)
           m == CpuCount * Len(names)
           S == PerCpu(names)
           T == PlanTail(engine, options)
<1>1. /\ P \in Seq(StepSet) /\ m \in Nat /\ Len(T) \in Nat /\ Len(P) = 1 + m + Len(T)
      /\ \A i \in 1 .. m : P[1 + i] = S[i]
      /\ \A i \in 1 .. Len(T) : P[1 + m + i] = T[i]
  BY PlanShape
<1>2. /\ \A i \in 1 .. m : S[i].array = "loop" /\ ~S[i].optional
      /\ \A a \in 1 .. Len(names) : \E i \in 1 .. m : <<names[a], p>> \in ItemsOf(S[i])
  BY PerCpuItems
<1>3. /\ engine = "vt" => {"vmxon", "vmcs", "msr_auto", "hv_stack", "ept"} \subseteq NamesOf(names)
      /\ engine = "svm" => {"vmcb", "hsave", "hvmcb", "hv_stack"} \subseteq NamesOf(names)
  BY CpuNamesUsed
<1> DEFINE D == IF engine = "vt" THEN {"msr_bitmap", "io_bitmap_a", "io_bitmap_b", "hcr3", "pdpt"}
                ELSE {"primary_nptm", "msrpm", "iopm", "hcr3", "pdpt"}
<1>4. \A n \in D : \E k \in 1 .. Len(T) : /\ <<n>> \in ItemsOf(T[k]) /\ T[k].array # "check"
                                          /\ T[k].optional => <<n>> \in DoneWithout
  BY TailChecks DEF Engines
<1>5. (\E n \in NamesOf(names) : x = <<n, p>>) \/ (\E n \in D : x = <<n>>)
  <2>1. CASE engine = "vt" BY <2>1, <1>3 DEF VtUsed, VirtualCpu
  <2>2. CASE engine = "svm" BY <2>2, <1>3 DEF SvmUsed, VirtualCpu
  <2> QED BY <2>1, <2>2 DEF Engines
<1> HIDE DEF P, m, S, T, D, names
<1>6. CASE \E n \in NamesOf(names) : x = <<n, p>>
  <2>1. PICK a \in 1 .. Len(names) : x = <<names[a], p>> BY <1>6 DEF NamesOf
  <2>2. PICK i \in 1 .. m : x \in ItemsOf(S[i]) BY <1>2, <2>1
  <2>3. 1 + i \in 1 .. Len(P) /\ P[1 + i] = S[i] BY <1>1
  <2> QED BY <1>2, <2>2, <2>3 DEF P
<1>7. CASE \E n \in D : x = <<n>>
  <2>1. PICK k \in 1 .. Len(T) : x \in ItemsOf(T[k]) /\ T[k].array # "check" /\ (T[k].optional => x \in DoneWithout)
    BY <1>4, <1>7
  <2>2. 1 + m + k \in 1 .. Len(P) /\ P[1 + m + k] = T[k] BY <1>1
  <2> QED BY <2>1, <2>2 DEF P
<1> QED BY <1>5, <1>6, <1>7

-----------------------------------------------------------------------------
(* The memory of a subversion.                                             *)

NoArray == VirtualCpu \notin ptr
Asked(P, n) == UNION {ItemsOf(P[j]) : j \in 1 .. n - 1}
Left == IF failed THEN Kept(sys.engine) ELSE {}

\* Nothing is subverted, nor can be torn down.
AtRest == stage = "unloaded" \/ (stage = "idle" /\ (~started \/ asleep \/ NoArray))

\* The requests behind a plan.
Requested ==
  stage \in {"plan", "launch"} => call \in {"subvert", "resume"} /\ (call = "resume" => started) /\ ~asleep

\* What is allocated has a pointer and was asked for by the plan, as far as it went;
\* only what an earlier clean-up has kept is there before, or is lost.
Accounted ==
  /\ held \subseteq ptr /\ held \subseteq Asked(plan, Len(plan) + 1) /\ lost \subseteq Left
  /\ held \cap CpuItems # {} => ~NoArray
  /\ <<"rmt">> \in held => <<"rmd">> \in ptr
  /\ stage = "plan" => held \subseteq Asked(plan, at) \cup Left
  /\ AtRest => held \subseteq Left
  /\ stage = "launch" => ~NoArray

Counted == dirs <= builds /\ (stage = "plan" /\ at <= Len(plan) => dirs < builds)

\* What a step that is done has got.
Done(s) ==
  /\ s.array = "check" => ~NoArray
  /\ s.array # "check" /\ (s.array = "loop" => ~NoArray) /\ (s.optional => ~MemoryMayRunOut) => ItemsOf(s) \subseteq held
Spare == IF MemoryMayRunOut THEN DoneWithout ELSE {}
Used(p) == IF sys.engine = "vt" THEN VtUsed(p, sys.caps) ELSE SvmUsed(p)
Provided ==
  /\ stage = "plan" /\ at > 1 => (NoArray \/ VirtualCpu \in held) /\ \A j \in 1 .. at - 1 : Done(plan[j])
  /\ stage = "launch" => \A p \in Procs : Used(p) \ Spare \subseteq held

MemoryInv == HostTypeOK /\ Requested /\ Accounted /\ Counted /\ Provided

LEMMA PlanNow ==
  ASSUME HostTypeOK
  PROVE  /\ sys.engine \in Engines /\ sys.options \in SUBSET OptionNames
         /\ PlanOk(sys.engine, sys.options) /\ plan = Plan(sys.engine, sys.options)
         /\ plan \in Seq(StepSet) /\ Len(plan) \in Nat \ {0}
<1>1. sys.engine \in Engines /\ sys.options \in SUBSET OptionNames BY SystemsAssumption DEF HostTypeOK
<1>2. PlanOk(sys.engine, sys.options) BY <1>1, PlanFacts
<1> QED BY <1>1, <1>2 DEF PlanOk, plan

LEMMA InitMemory == HostInit => MemoryInv
<1> SUFFICES ASSUME HostInit PROVE MemoryInv OBVIOUS
<1>1. HostTypeOK
  <2>1. sys.engine \in Engines /\ sys.options \in SUBSET OptionNames BY SystemsAssumption DEF HostInit
  <2>2. Len(plan) \in Nat BY <2>1, PlanFacts DEF PlanOk, plan
  <2>3. NewProc \in ProcType BY DEF NewProc, ProcType, Vals, Items
  <2>4. NewProc.real \in [Regs -> Vals] BY DEF NewProc, Vals
  <2>5. at \in 1 .. Len(plan) + 1 BY <2>2 DEF HostInit
  <2>6. 0 \in 0 .. MaxBuilds BY ConstantsAssumption
  <2> QED BY <2>3, <2>4, <2>5, <2>6 DEF HostInit, HostTypeOK, Calls, Stages
<1>2. Accounted /\ Counted /\ Provided /\ Requested BY DEF HostInit, Accounted, Counted, Provided, Requested, AtRest
<1> QED BY <1>1, <1>2 DEF MemoryInv

\* The items that a step asks for, and those whose pointer it writes.
LEMMA AllocateParts ==
  ASSUME MemoryInv, stage = "plan", at <= Len(plan), NEW n \in 0 .. Len(step.items), Allocate(n)
  PROVE  \E got \in SUBSET ItemsOf(step), assigned \in SUBSET ItemsOf(step) :
           LET reset == assigned \cup IF VirtualCpu \in assigned THEN CpuItems ELSE {}
               h == (held \ reset) \cup got
               pt == (ptr \ reset) \cup got
               d == IF <<"rmd">> \in got THEN dirs + 1 ELSE dirs
           IN /\ got \subseteq assigned /\ (n = Len(step.items) => got = ItemsOf(step))
              /\ at = 1 => assigned = {VirtualCpu}
              /\ <<"rmt">> \in got => <<"rmd">> \in got
              /\ lost' = lost \cup (held \cap reset) /\ ptr' = pt /\ dirs' = d
              /\ \/ /\ step.optional \/ n = Len(step.items)
                    /\ Advance /\ held' = h
                 \/ FailWith(h, pt, d)
              /\ UNCHANGED <<sys, started, asleep, todo, builds, proc, os>>
<1> DEFINE got == {step.items[i] : i \in 1 .. n} \cap Items
           assigned == {step.items[i] : i \in (1 .. n + 1) \cap DOMAIN step.items} \cap Items
           L == Len(step.items)
           reset == assigned \cup IF VirtualCpu \in assigned THEN CpuItems ELSE {}
           h == (held \ reset) \cup got
           pt == (ptr \ reset) \cup got
           d == IF <<"rmd">> \in got THEN dirs + 1 ELSE dirs
           complete == n = L /\ (<<"rmt">> \in got => d = 1)
<1>1. at \in 1 .. Len(plan) /\ step = plan[at] /\ step \in StepSet
  BY PlanNow DEF MemoryInv, HostTypeOK, step
<1>2. step.items \in Seq(Items \cup {Maps}) /\ L \in Nat /\ DOMAIN step.items = 1 .. L BY <1>1 DEF StepSet
<1>3. ItemsOf(step) = {step.items[i] : i \in 1 .. L} \cap Items BY DEF ItemsOf, NamesOf
<1>4. /\ got \in SUBSET ItemsOf(step) /\ assigned \in SUBSET ItemsOf(step) /\ got \subseteq assigned
      /\ n = L => got = ItemsOf(step)
  BY <1>2, <1>3
<1>5. at = 1 => assigned = {VirtualCpu}
  <2> SUFFICES ASSUME at = 1 PROVE assigned = {VirtualCpu} OBVIOUS
  <2>1. step.items = <<VirtualCpu>> /\ ItemsOf(step) = {VirtualCpu} BY <1>1, PlanNow DEF PlanOk, MemoryInv
  <2>2. DOMAIN step.items = {1} /\ step.items[1] = VirtualCpu BY <2>1
  <2>3. 1 \in (1 .. n + 1) \cap DOMAIN step.items BY <2>2, <1>2
  <2>4. VirtualCpu \in Items BY <2>1, <1>3
  <2> QED BY <2>2, <2>3, <2>4
<1>6. <<"rmt">> \in got => <<"rmd">> \in got
  <2> SUFFICES ASSUME <<"rmt">> \in got PROVE <<"rmd">> \in got OBVIOUS
  <2>1. step.items = << <<"rmd">>, <<"rmt">> >> BY <1>1, <1>4, PlanNow DEF PlanOk, MemoryInv
  <2>2. PICK i \in 1 .. n : <<"rmt">> = step.items[i] OBVIOUS
  <2>3. n \in Nat /\ step.items[1] = <<"rmd">> /\ <<"rmd">> \in Items
    <3>1. <<"rmd">> \in Items BY ItemsOfNames DEF SvmItems
    <3> QED BY <1>2, <2>1, <3>1
  <2>4. <<"rmd">> # <<"rmt">> OBVIOUS
  <2>5. 1 \in 1 .. n BY <2>2, <2>3
  <2> HIDE DEF L
  <2> QED BY <2>3, <2>5
<1>7. /\ lost' = lost \cup (held \cap reset) /\ ptr' = pt /\ dirs' = d
      /\ IF complete \/ step.optional THEN Advance /\ held' = h ELSE FailWith(h, pt, d)
      /\ UNCHANGED <<sys, started, asleep, todo, builds, proc, os>>
  BY DEF Allocate, VirtualCpu
<1> HIDE DEF got, assigned, h, pt, d, reset, L
<1>8. \/ /\ step.optional \/ n = L
         /\ Advance /\ held' = h
      \/ FailWith(h, pt, d)
  BY <1>7
<1> QED BY <1>4, <1>5, <1>6, <1>7, <1>8 DEF reset, h, pt, d, L

\* An item is asked for once, so nothing is overwritten but what an earlier clean-up has kept.
LEMMA FreshItems ==
  ASSUME MemoryInv, stage = "plan", at <= Len(plan)
  PROVE  /\ at \in 1 .. Len(plan) /\ step = plan[at] /\ step \in StepSet
         /\ held \cap ItemsOf(step) \subseteq Left /\ (at = 1 => held \subseteq Left)
         /\ \A j \in 1 .. at - 1 : j \in 1 .. Len(plan) /\ ItemsOf(plan[j]) \cap ItemsOf(step) = {}
         /\ VirtualCpu \in ItemsOf(step) => at = 1
         /\ <<"rmt">> \notin held
         /\ ItemsOf(step) \cap CpuItems # {} => step.array = "loop" /\ at # 1
         /\ <<"rmd">> \in ItemsOf(step) => at = Len(plan)
<1>1. at \in 1 .. Len(plan) /\ step = plan[at] /\ step \in StepSet /\ Len(plan) \in Nat \ {0}
  BY PlanNow DEF MemoryInv, HostTypeOK, step
<1>2. /\ \A j, k \in 1 .. Len(plan) : ItemsOf(plan[j]) \cap ItemsOf(plan[k]) # {} => j = k
      /\ \A j \in 1 .. Len(plan) : ItemsOf(plan[j]) \cap CpuItems # {} => plan[j].array = "loop"
      /\ ItemsOf(plan[1]) = {VirtualCpu} /\ plan[1].array = "no"
      /\ \A j \in 1 .. Len(plan) : \A x \in ItemsOf(plan[j]) :
           x \in {<<"rmd">>, <<"rmt">>} => sys.engine = "svm" /\ j = Len(plan)
  BY PlanNow DEF PlanOk, MemoryInv
<1>3. \A j \in 1 .. at - 1 : j \in 1 .. Len(plan) /\ j # at /\ j # Len(plan) BY <1>1
<1>4. held \subseteq Asked(plan, at) \cup Left BY DEF MemoryInv, Accounted
<1>5. held \cap ItemsOf(step) \subseteq Left
  <2> SUFFICES ASSUME NEW x \in held \cap ItemsOf(step), x \notin Left PROVE FALSE OBVIOUS
  <2>1. PICK j \in 1 .. at - 1 : x \in ItemsOf(plan[j]) BY <1>4 DEF Asked
  <2> QED BY <1>1, <1>2, <1>3, <2>1
<1>6. at = 1 => held \subseteq Left
  <2>1. at = 1 => Asked(plan, at) = {} BY DEF Asked
  <2> QED BY <1>4, <2>1
<1>7. \A j \in 1 .. at - 1 : ItemsOf(plan[j]) \cap ItemsOf(step) = {} BY <1>1, <1>2, <1>3
<1>8. VirtualCpu \in ItemsOf(step) => at = 1 BY <1>1, <1>2
<1>9. <<"rmt">> \notin held
  <2> SUFFICES ASSUME <<"rmt">> \in held PROVE FALSE OBVIOUS
  <2>1. PICK k \in 1 .. Len(plan) : <<"rmt">> \in ItemsOf(plan[k])
    <3>1. (Len(plan) + 1) - 1 = Len(plan) BY <1>1
    <3> QED BY <3>1 DEF MemoryInv, Accounted, Asked
  <2>2. sys.engine = "svm" BY <1>2, <2>1
  <2>3. <<"rmt">> \in Cleaned(sys.engine) BY <2>2 DEF Cleaned, SvmCleaned, SvmItems
  <2>4. <<"rmt">> \notin Left BY <2>3 DEF Left, Kept
  <2>5. PICK j \in 1 .. at - 1 : <<"rmt">> \in ItemsOf(plan[j]) BY <1>4, <2>4 DEF Asked
  <2> QED BY <1>2, <1>3, <2>5
<1>10. ItemsOf(step) \cap CpuItems # {} => step.array = "loop" /\ at # 1 BY <1>1, <1>2
<1>11. <<"rmd">> \in ItemsOf(step) => at = Len(plan) BY <1>1, <1>2
<1> QED BY <1>1, <1>3, <1>5, <1>6, <1>7, <1>8, <1>9, <1>10, <1>11

\* Failing: the clean-up frees all that it knows.
LEMMA FailMemory ==
  ASSUME MemoryInv, stage = "plan", NEW h \in SUBSET Items, NEW pt, NEW d \in 0 .. MaxBuilds,
         FailWith(h, pt, d), ptr' = pt, dirs' = d, d <= builds,
         UNCHANGED <<sys, started, asleep, todo, builds, proc, os>>,
         pt \subseteq Items, h \subseteq pt, h \subseteq Asked(plan, Len(plan) + 1),
         h \cap CpuItems # {} => VirtualCpu \in pt,
         <<"rmt">> \in h => <<"rmd">> \in pt,
         lost' \subseteq Left
  PROVE  MemoryInv'
<1>1. plan' = plan BY DEF plan
<1>2. Left \subseteq Kept(sys.engine) /\ Left' \in {Left, Kept(sys.engine)} BY DEF Left, FailWith
<1>3. lost' \subseteq Left' /\ lost' \subseteq Items
  <2>1. Left \subseteq Items BY <1>2 DEF Kept
  <2> QED BY <1>2, <2>1
<1>4. Cleaned(sys.engine) \cap h \subseteq ToFree(sys.engine, pt) BY DEF ToFree, VirtualCpu
<1>5. CASE stage' = "idle" /\ held' = h \ ToFree(sys.engine, pt) /\ call' = "none" /\ failed' = TRUE /\ at' = at
  <2>1. held' \subseteq h /\ held' \subseteq Items BY <1>5
  <2>2. held' \subseteq Kept(sys.engine) BY <1>4, <1>5 DEF Kept
  <2>3. held' \subseteq Left' BY <1>5, <2>2 DEF Left
  <2>4. HostTypeOK' BY <1>1, <1>3, <1>5, <2>1 DEF MemoryInv, HostTypeOK, Calls, Stages
  <2>5. Accounted'
    <3>1. held' \subseteq Asked(plan', Len(plan') + 1) BY <1>1, <2>1
    <3> QED BY <1>3, <1>5, <2>1, <2>3, <3>1 DEF Accounted, NoArray
  <2>6. Requested' /\ Counted' /\ Provided' BY <1>5 DEF Requested, Counted, Provided
  <2> QED BY <2>4, <2>5, <2>6 DEF MemoryInv
<1>6. CASE stage' = "ub" /\ held' = h /\ UNCHANGED <<call, at, failed>>
  <2>1. HostTypeOK' BY <1>1, <1>3, <1>6 DEF MemoryInv, HostTypeOK, Calls, Stages
  <2>2. Accounted'
    <3>1. held' \subseteq Asked(plan', Len(plan') + 1) BY <1>1, <1>6
    <3> QED BY <1>3, <1>6, <3>1 DEF Accounted, NoArray, AtRest
  <2>3. Requested' /\ Counted' /\ Provided' BY <1>6 DEF Requested, Counted, Provided
  <2> QED BY <2>1, <2>2, <2>3 DEF MemoryInv
<1> QED BY <1>5, <1>6 DEF FailWith

LEMMA AskedSteps ==
  ASSUME NEW P, NEW k \in Nat \ {0}
  PROVE  /\ Asked(P, k + 1) = Asked(P, k) \cup ItemsOf(P[k])
         /\ \A n \in Nat : k <= n => Asked(P, k) \subseteq Asked(P, n)
<1>1. \A j : j \in 1 .. (k + 1) - 1 <=> j \in 1 .. k - 1 \/ j = k OBVIOUS
<1>2. \A j : \A n \in Nat : k <= n /\ j \in 1 .. k - 1 => j \in 1 .. n - 1 OBVIOUS
<1> QED BY <1>1, <1>2 DEF Asked

LEMMA AllocateMemory ==
  ASSUME MemoryInv, stage = "plan", at <= Len(plan), NEW n \in 0 .. Len(step.items), Allocate(n),
         step.array # "check", step.array = "loop" => ~NoArray, ~MemoryMayRunOut => n = Len(step.items)
  PROVE  MemoryInv'
<1>1. PICK got \in SUBSET ItemsOf(step), assigned \in SUBSET ItemsOf(step) :
         LET reset == assigned \cup IF VirtualCpu \in assigned THEN CpuItems ELSE {}
             h == (held \ reset) \cup got
             pt == (ptr \ reset) \cup got
             d == IF <<"rmd">> \in got THEN dirs + 1 ELSE dirs
         IN /\ got \subseteq assigned /\ (n = Len(step.items) => got = ItemsOf(step))
            /\ at = 1 => assigned = {VirtualCpu}
            /\ <<"rmt">> \in got => <<"rmd">> \in got
            /\ lost' = lost \cup (held \cap reset) /\ ptr' = pt /\ dirs' = d
            /\ \/ /\ step.optional \/ n = Len(step.items)
                  /\ Advance /\ held' = h
               \/ FailWith(h, pt, d)
            /\ UNCHANGED <<sys, started, asleep, todo, builds, proc, os>>
  BY AllocateParts
<1> DEFINE reset == assigned \cup IF VirtualCpu \in assigned THEN CpuItems ELSE {}
           h == (held \ reset) \cup got
           pt == (ptr \ reset) \cup got
           d == IF <<"rmd">> \in got THEN dirs + 1 ELSE dirs
<1>2. /\ got \subseteq assigned /\ (n = Len(step.items) => got = ItemsOf(step))
      /\ at = 1 => assigned = {VirtualCpu}
      /\ <<"rmt">> \in got => <<"rmd">> \in got
      /\ lost' = lost \cup (held \cap reset) /\ ptr' = pt /\ dirs' = d
      /\ UNCHANGED <<sys, started, asleep, todo, builds, proc, os>>
  BY <1>1
<1>3. \/ /\ step.optional \/ n = Len(step.items)
         /\ Advance /\ held' = h
      \/ FailWith(h, pt, d)
  BY <1>1
<1>4. /\ at \in 1 .. Len(plan) /\ step = plan[at] /\ step \in StepSet
      /\ held \cap ItemsOf(step) \subseteq Left /\ (at = 1 => held \subseteq Left)
      /\ \A j \in 1 .. at - 1 : j \in 1 .. Len(plan) /\ ItemsOf(plan[j]) \cap ItemsOf(step) = {}
      /\ VirtualCpu \in ItemsOf(step) => at = 1
      /\ <<"rmt">> \notin held
      /\ ItemsOf(step) \cap CpuItems # {} => step.array = "loop" /\ at # 1
      /\ <<"rmd">> \in ItemsOf(step) => at = Len(plan)
  BY FreshItems
<1>5. ItemsOf(step) \subseteq Items /\ CpuItems \subseteq Items BY ItemsOfNames DEF ItemsOf
<1>6. /\ held \subseteq ptr /\ held \subseteq Items /\ ptr \subseteq Items /\ lost \subseteq Left
      /\ held \cap CpuItems # {} => VirtualCpu \in ptr
      /\ held \subseteq Asked(plan, at) \cup Left /\ held \subseteq Asked(plan, Len(plan) + 1)
      /\ dirs \in 0 .. MaxBuilds /\ builds \in 0 .. MaxBuilds /\ dirs < builds
  BY <1>4 DEF MemoryInv, HostTypeOK, Accounted, Counted, NoArray
<1>7. Asked(plan, at + 1) = Asked(plan, at) \cup ItemsOf(step)
      /\ Asked(plan, at + 1) \subseteq Asked(plan, Len(plan) + 1)
  <2>1. /\ at \in Nat \ {0} /\ at + 1 \in Nat \ {0} /\ Len(plan) + 1 \in Nat /\ at + 1 <= Len(plan) + 1
    BY <1>4, PlanNow DEF MemoryInv
  <2> QED BY <1>4, <2>1, AskedSteps
<1>8. VirtualCpu \in assigned <=> at = 1 BY <1>2, <1>4
<1> HIDE DEF reset
<1>9. reset = assigned \/ (at = 1 /\ reset \subseteq Items) BY <1>5, <1>8 DEF reset
<1>10. VirtualCpu \in reset => CpuItems \subseteq reset /\ at = 1
  <2>1. VirtualCpu \notin CpuItems BY DEF VirtualCpu, CpuItems
  <2> QED BY <1>8, <2>1 DEF reset
<1>11. h \subseteq pt /\ h \subseteq Items /\ pt \subseteq Items BY <1>5, <1>6
<1>12. h \cap CpuItems # {} => VirtualCpu \in pt
  <2> SUFFICES ASSUME NEW x \in h \cap CpuItems PROVE VirtualCpu \in pt OBVIOUS
  <2>1. CASE x \in got
    <3>1. ~NoArray /\ at # 1 BY <1>4, <2>1
    <3> QED BY <1>10, <3>1 DEF NoArray
  <2>2. CASE x \in held \ reset BY <1>6, <1>10, <2>2
  <2> QED BY <2>1, <2>2
<1>13. <<"rmt">> \in h => <<"rmd">> \in pt BY <1>2, <1>4
<1>14. h \subseteq Asked(plan, at + 1) \cup Left /\ h \subseteq Asked(plan, Len(plan) + 1) BY <1>6, <1>7
<1>15. lost' \subseteq Left BY <1>2, <1>4, <1>6, <1>9
<1>16. d \in 0 .. MaxBuilds /\ d <= builds /\ (<<"rmd">> \in got => at = Len(plan))
  <2>1. MaxBuilds \in Nat BY ConstantsAssumption
  <2>2. d \in {dirs, dirs + 1} OBVIOUS
  <2>3. dirs + 1 \in 0 .. MaxBuilds /\ dirs + 1 <= builds /\ dirs <= builds BY <1>6, <2>1
  <2>4. <<"rmd">> \in got => at = Len(plan) BY <1>4
  <2> HIDE DEF d
  <2> QED BY <1>6, <2>2, <2>3, <2>4
<1>17. CASE FailWith(h, pt, d)
  <2> HIDE DEF h, pt, d
  <2> QED BY <1>2, <1>11, <1>12, <1>13, <1>14, <1>15, <1>16, <1>17, FailMemory
<1>18. CASE (step.optional \/ n = Len(step.items)) /\ Advance /\ held' = h
  <2>1. plan' = plan /\ at' = at + 1 /\ UNCHANGED <<call, stage, failed>> BY <1>2, <1>18 DEF plan, Advance
  <2>2. Left' = Left BY <1>2, <2>1 DEF Left
  <2>3. HostTypeOK'
    <3>1. at + 1 \in 1 .. Len(plan) + 1 BY <1>4, PlanNow DEF MemoryInv
    <3>2. Left \subseteq Items BY DEF Left, Kept
    <3> HIDE DEF h, pt, d
    <3> QED BY <1>2, <1>11, <1>15, <1>16, <1>18, <2>1, <3>1, <3>2 DEF MemoryInv, HostTypeOK
  <2>4. Requested' BY <1>2, <2>1 DEF MemoryInv, Requested
  <2>5. Accounted'
    <3>1. held' \subseteq Asked(plan', at') \cup Left' BY <1>14, <1>18, <2>1, <2>2
    <3>2. held' \subseteq Asked(plan', Len(plan') + 1) BY <1>14, <1>18, <2>1
    <3> HIDE DEF h, pt
    <3> QED BY <1>2, <1>11, <1>12, <1>13, <1>15, <1>18, <2>1, <2>2, <3>1, <3>2 DEF Accounted, AtRest, NoArray
  <2>6. Counted' BY <1>2, <1>4, <1>6, <1>16, <2>1 DEF Counted
  <2>7. ItemsOf(step) \subseteq held' \/ (step.optional /\ MemoryMayRunOut)
    <3>1. n = Len(step.items) => ItemsOf(step) \subseteq held' BY <1>2, <1>18
    <3> QED BY <1>18, <3>1
  <2>8. Provided'
    <3>1. NoArray' \/ VirtualCpu \in held'
      <4>1. CASE at = 1
        <5>1. VirtualCpu \in reset BY <1>8, <4>1 DEF reset
        <5> QED BY <1>2, <1>18, <5>1 DEF NoArray
      <4>2. CASE at # 1
        <5>1. NoArray \/ VirtualCpu \in held BY <1>4, <4>2 DEF MemoryInv, Provided
        <5>2. VirtualCpu \notin ItemsOf(step) /\ VirtualCpu \notin reset BY <1>4, <1>10, <4>2
        <5> QED BY <1>2, <1>18, <5>1, <5>2 DEF NoArray
      <4> QED BY <4>1, <4>2
    <3>2. ASSUME NEW j \in 1 .. at - 1 PROVE Done(plan[j])'
      <4>1. at # 1 /\ Done(plan[j]) BY <1>4 DEF MemoryInv, Provided
      <4>2. NoArray' = NoArray BY <1>2, <1>4, <1>10, <4>1 DEF NoArray
      <4>3. reset = assigned BY <1>9, <4>1
      <4>4. ItemsOf(plan[j]) \subseteq held => ItemsOf(plan[j]) \subseteq held' BY <1>4, <1>18, <4>3
      <4> QED BY <2>1, <4>1, <4>2, <4>4 DEF Done
    <3>3. \A i \in {at} : Done(plan[i])' BY <1>4, <2>1, <2>7 DEF Done
    <3>4. \A i \in 1 .. at' - 1 : i \in 1 .. at - 1 \/ i \in {at} BY <1>4, <2>1
    <3>5. \A i \in 1 .. at' - 1 : Done(plan[i])' BY <3>2, <3>3, <3>4
    <3> QED BY <2>1, <3>1, <3>5 DEF Provided
  <2> QED BY <2>3, <2>4, <2>5, <2>6, <2>8 DEF MemoryInv
<1> QED BY <1>3, <1>17, <1>18

LEMMA UndefinedMemory == ASSUME MemoryInv, Undefined PROVE MemoryInv'
<1>1. plan' = plan /\ Left' = Left /\ UNCHANGED memory BY DEF Undefined, plan, Left
<1>2. HostTypeOK' BY <1>1 DEF MemoryInv, HostTypeOK, Undefined, Stages, memory
<1>3. Accounted' BY <1>1 DEF MemoryInv, Accounted, Undefined, NoArray, AtRest, memory
<1>4. Requested' /\ Counted' /\ Provided' BY <1>1 DEF MemoryInv, Requested, Counted, Provided, Undefined, memory
<1> QED BY <1>2, <1>3, <1>4 DEF MemoryInv

\* A step that adds items of its own, if any, and overwrites none.
LEMMA AdvanceMemory ==
  ASSUME MemoryInv, stage = "plan", at <= Len(plan), at # 1, Advance,
         UNCHANGED <<sys, started, asleep, todo, lost, dirs, builds, proc, os>>,
         NEW more \in SUBSET ItemsOf(step), NEW got \in SUBSET more,
         held' = held \cup got, ptr' = ptr \cup more,
         more \cap CpuItems = {}, <<"rmt">> \notin more,
         \/ step.array = "loop" /\ NoArray
         \/ step.array = "check" /\ ~NoArray
         \/ step.array = "no" /\ (~MemoryMayRunOut => got = ItemsOf(step)) /\ step.optional
  PROVE  MemoryInv'
<1>1. /\ at \in 1 .. Len(plan) /\ step = plan[at] /\ step \in StepSet
      /\ VirtualCpu \notin ItemsOf(step) /\ <<"rmt">> \notin held
  BY FreshItems
<1>2. plan' = plan /\ Left' = Left /\ at' = at + 1 /\ stage' = "plan" /\ UNCHANGED <<call, failed>>
  BY DEF Advance, plan, Left
<1>3. NoArray' = NoArray BY <1>1 DEF NoArray
<1>4. Asked(plan, at + 1) = Asked(plan, at) \cup ItemsOf(step)
      /\ Asked(plan, at + 1) \subseteq Asked(plan, Len(plan) + 1)
  <2>1. /\ at \in Nat \ {0} /\ at + 1 \in Nat \ {0} /\ Len(plan) + 1 \in Nat /\ at + 1 <= Len(plan) + 1
    BY <1>1, PlanNow DEF MemoryInv
  <2> QED BY <1>1, <2>1, AskedSteps
<1>5. HostTypeOK'
  <2>1. at + 1 \in 1 .. Len(plan) + 1 BY <1>1, PlanNow DEF MemoryInv
  <2>2. ItemsOf(step) \subseteq Items BY DEF ItemsOf
  <2> QED BY <1>2, <2>1, <2>2 DEF MemoryInv, HostTypeOK
<1>6. Requested' BY <1>2 DEF MemoryInv, Requested
<1>7. Accounted'
  <2>1. held' \subseteq Asked(plan', at') \cup Left' /\ held' \subseteq Asked(plan', Len(plan') + 1)
    BY <1>2, <1>4 DEF MemoryInv, Accounted
  <2>2. held' \subseteq ptr' /\ lost' \subseteq Left' BY <1>2 DEF MemoryInv, Accounted
  <2>3. held' \cap CpuItems # {} => ~NoArray' BY <1>3 DEF MemoryInv, Accounted
  <2>4. <<"rmt">> \notin held' BY <1>1
  <2> QED BY <1>2, <2>1, <2>2, <2>3, <2>4 DEF Accounted, AtRest
<1>8. Counted' BY <1>1, <1>2 DEF MemoryInv, Counted
<1>9. Provided'
  <2>1. NoArray' \/ VirtualCpu \in held' BY <1>1, <1>3 DEF MemoryInv, Provided
  <2>2. ASSUME NEW j \in 1 .. at - 1 PROVE Done(plan[j])'
    <3>1. Done(plan[j]) BY <1>1 DEF MemoryInv, Provided
    <3> QED BY <1>2, <1>3, <3>1 DEF Done
  <2>3. \A i \in {at} : Done(plan[i])' BY <1>1, <1>2, <1>3 DEF Done
  <2>4. \A i \in 1 .. at' - 1 : i \in 1 .. at - 1 \/ i \in {at} BY <1>1, <1>2
  <2>5. \A i \in 1 .. at' - 1 : Done(plan[i])' BY <2>2, <2>3, <2>4
  <2> QED BY <1>2, <2>1, <2>5 DEF Provided
<1> QED BY <1>5, <1>6, <1>7, <1>8, <1>9 DEF MemoryInv

LEMMA SkipMemory ==
  ASSUME MemoryInv, stage = "plan", at <= Len(plan), Skip,
         (step.array = "loop" /\ NoArray) \/ (step.array = "check" /\ ~NoArray)
  PROVE  MemoryInv'
<1>1. at # 1
  <2>1. plan[1].array = "no" BY PlanNow DEF MemoryInv, PlanOk
  <2> QED BY <2>1 DEF step
<1>2. held' = held \cup {} /\ ptr' = ptr \cup {} BY DEF Skip, memory
<1>3. Advance /\ UNCHANGED <<sys, started, asleep, todo, lost, dirs, builds, proc, os>> BY DEF Skip, memory
<1>4. {} \in SUBSET ItemsOf(step) /\ {} \in SUBSET {} /\ {} \cap CpuItems = {} /\ <<"rmt">> \notin {} OBVIOUS
<1> QED BY <1>1, <1>2, <1>3, <1>4, AdvanceMemory

LEMMA IommuMemory ==
  ASSUME MemoryInv, stage = "plan", at <= Len(plan), step = IommuStep,
         NEW n \in IF MemoryMayRunOut THEN 0 .. 3 ELSE {3}, Iommu(n)
  PROVE  MemoryInv'
<1>1. /\ ItemsOf(step) = {<<"iommu">>, <<"mmio_hooks">>} /\ step.array = "no" /\ step.optional
  BY ItemsOfSteps DEF IommuStep, Step
<1>2. at # 1
  <2>1. ItemsOf(plan[1]) = {VirtualCpu} BY PlanNow DEF MemoryInv, PlanOk
  <2>2. <<"iommu">> # VirtualCpu BY DEF VirtualCpu
  <2> QED BY <1>1, <2>1, <2>2 DEF step
<1>3. n \in 0 .. 3 /\ (~MemoryMayRunOut => n = 3)
  <2>1. MemoryMayRunOut \in BOOLEAN BY ConstantsAssumption
  <2> QED BY <2>1
<1> DEFINE got == CASE n = 3 -> {<<"iommu">>, <<"mmio_hooks">>} [] n = 2 -> {<<"iommu">>} [] OTHER -> {}
           more == got \cup IF n > 0 THEN {<<"iommu">>} ELSE {}
<1>4. got \in SUBSET more /\ more \in SUBSET ItemsOf(step) /\ (~MemoryMayRunOut => got = ItemsOf(step))
  BY <1>1, <1>3
<1>5. more \cap CpuItems = {} /\ <<"rmt">> \notin more
  <2>1. ItemsOf(step) \cap CpuItems # {} => step.array = "loop" BY FreshItems
  <2>2. <<"rmt">> \notin ItemsOf(step) BY <1>1
  <2> HIDE DEF more
  <2> QED BY <1>1, <1>4, <2>1, <2>2
<1>6. CASE Undefined BY <1>6, UndefinedMemory
<1>7. CASE /\ held' = held \cup got
           /\ ptr' = ptr \cup got \cup IF n > 0 THEN {<<"iommu">>} ELSE {}
           /\ Advance
           /\ UNCHANGED <<sys, started, asleep, todo, lost, dirs, builds, proc, os>>
  <2>1. ptr' = ptr \cup more BY <1>7
  <2> HIDE DEF got, more
  <2> QED BY <1>1, <1>2, <1>4, <1>5, <1>7, <2>1, AdvanceMemory
<1> QED BY <1>6, <1>7 DEF Iommu

LEMMA PrepareCases ==
  ASSUME Prepare
  PROVE  Skip \/ Fail \/ Undefined \/ (\E n : Iommu(n)) \/ (\E n : Allocate(n))
<1> DEFINE Tables == \E n \in IF MemoryMayRunOut THEN 0 .. 3 ELSE {3} : Iommu(n)
           Rest == \E n \in IF MemoryMayRunOut THEN 0 .. Len(step.items) ELSE {Len(step.items)} :
                     IF n > 0 /\ (~(StepReads(step, ptr, dirs) \subseteq held) \/ (step.array = "use" /\ NoArray))
                     THEN Undefined ELSE Allocate(n)
<1>1. (CASE step.array = "loop" /\ NoArray -> Skip
         [] step.array = "check"            -> IF NoArray THEN Fail ELSE Skip
         [] step = IommuStep                -> Tables
         [] OTHER                           -> Rest)
  BY DEF Prepare, NoArray, VirtualCpu
<1>2. Tables => \E n : Iommu(n) OBVIOUS
<1>3. Rest => Undefined \/ \E n : Allocate(n) OBVIOUS
<1> HIDE DEF Tables, Rest
<1>4. Skip \/ Fail \/ Tables \/ Rest BY <1>1
<1> QED BY <1>2, <1>3, <1>4

LEMMA PrepareMemory == ASSUME MemoryInv, Prepare PROVE MemoryInv'
<1>1. stage = "plan" /\ at <= Len(plan) BY DEF Prepare
<1> DEFINE Tables == \E n \in IF MemoryMayRunOut THEN 0 .. 3 ELSE {3} : Iommu(n)
           Rest == \E n \in IF MemoryMayRunOut THEN 0 .. Len(step.items) ELSE {Len(step.items)} :
                       IF n > 0 /\ (~(StepReads(step, ptr, dirs) \subseteq held) \/ (step.array = "use" /\ NoArray))
                       THEN Undefined ELSE Allocate(n)
<1>2. (CASE step.array = "loop" /\ NoArray -> Skip
         [] step.array = "check"            -> IF NoArray THEN Fail ELSE Skip
         [] step = IommuStep                -> Tables
         [] OTHER                           -> Rest)
  BY DEF Prepare, NoArray, VirtualCpu
<1>3. step = IommuStep => step.array = "no" BY DEF IommuStep, Step
<1> HIDE DEF Tables, Rest
<1>4. CASE step.array = "loop" /\ NoArray
  <2>1. Skip BY <1>2, <1>3, <1>4
  <2> QED BY <1>1, <1>4, <2>1, SkipMemory
<1>5. CASE step.array = "check" /\ ~NoArray
  <2>1. Skip BY <1>2, <1>3, <1>5
  <2> QED BY <1>1, <1>5, <2>1, SkipMemory
<1>6. CASE step.array = "check" /\ NoArray
  <2>1. Fail BY <1>2, <1>3, <1>6
  <2>2. FailWith(held, ptr, dirs) /\ UNCHANGED <<sys, started, asleep, todo, ptr, lost, dirs, builds, proc, os>>
    BY <2>1 DEF Fail
  <2>3. /\ held \in SUBSET Items /\ dirs \in 0 .. MaxBuilds /\ ptr \subseteq Items /\ held \subseteq ptr /\ dirs <= builds
        /\ held \subseteq Asked(plan, Len(plan) + 1) /\ (held \cap CpuItems # {} => VirtualCpu \in ptr)
        /\ (<<"rmt">> \in held => <<"rmd">> \in ptr) /\ lost' \subseteq Left
    BY <2>2 DEF MemoryInv, HostTypeOK, Accounted, Counted, NoArray
  <2> QED BY <1>1, <2>2, <2>3, FailMemory
<1>7. CASE step = IommuStep
  <2>1. Tables BY <1>2, <1>3, <1>7
  <2>2. \E n \in IF MemoryMayRunOut THEN 0 .. 3 ELSE {3} : Iommu(n) BY <2>1 DEF Tables
  <2> QED BY <1>1, <1>7, <2>2, IommuMemory
<1>8. CASE step.array # "check" /\ (step.array = "loop" => ~NoArray) /\ step # IommuStep
  <2>1. PICK n \in IF MemoryMayRunOut THEN 0 .. Len(step.items) ELSE {Len(step.items)} : Undefined \/ Allocate(n)
    <3>1. Rest BY <1>2, <1>8
    <3> QED BY <3>1 DEF Rest
  <2>2. n \in 0 .. Len(step.items) /\ (~MemoryMayRunOut => n = Len(step.items))
    <3>1. step \in StepSet BY <1>1, FreshItems
    <3>2. Len(step.items) \in Nat /\ MemoryMayRunOut \in BOOLEAN BY <3>1, ConstantsAssumption DEF StepSet
    <3> QED BY <2>1, <3>2
  <2> QED BY <1>1, <1>8, <2>1, <2>2, UndefinedMemory, AllocateMemory
<1> QED BY <1>4, <1>5, <1>6, <1>7, <1>8

\* Steps that leave the memory and the request alone.
LEMMA SameMemory ==
  ASSUME MemoryInv, UNCHANGED <<sys, started, asleep, call, stage, at, memory, builds, failed>>,
         todo' \subseteq Procs, proc' \in [Procs -> ProcType], os' \in [Procs -> [Regs -> Vals]]
  PROVE  MemoryInv'
<1>1. plan' = plan /\ Left' = Left /\ NoArray' = NoArray /\ UNCHANGED <<held, ptr, lost, dirs>>
  BY DEF plan, Left, NoArray, memory
<1>2. HostTypeOK' BY <1>1 DEF MemoryInv, HostTypeOK
<1>3. Requested' /\ Counted' BY <1>1 DEF MemoryInv, Requested, Counted
<1>4. Accounted' BY <1>1 DEF MemoryInv, Accounted, AtRest
<1>5. Provided'
  <2>1. \A j \in 1 .. at - 1 : Done(plan[j])' <=> Done(plan[j]) BY <1>1 DEF Done
  <2>2. \A p \in Procs : Used(p)' = Used(p) BY <1>1 DEF Used
  <2> QED BY <1>1, <2>1, <2>2 DEF MemoryInv, Provided
<1> QED BY <1>2, <1>3, <1>4, <1>5 DEF MemoryInv

LEMMA BuildMemory ==
  ASSUME MemoryInv, stage = "idle", AtRest, NEW request \in {"subvert", "resume"}, Build(request),
         request = "resume" => started, asleep' = FALSE
  PROVE  MemoryInv'
<1>1. /\ plan' = plan /\ Left' = Left /\ NoArray' = NoArray /\ UNCHANGED <<held, ptr, lost, dirs, sys, started>>
      /\ at' = 1 /\ stage' = "plan" /\ call' = request /\ builds' = builds + 1
      /\ UNCHANGED <<todo, proc, os, failed>>
  BY DEF Build, plan, Left, NoArray, memory
<1>2. HostTypeOK'
  <2>1. 1 \in 1 .. Len(plan) + 1 BY PlanNow DEF MemoryInv
  <2>2. builds + 1 \in 0 .. MaxBuilds BY ConstantsAssumption DEF Build, MemoryInv, HostTypeOK
  <2> QED BY <1>1, <2>1, <2>2 DEF MemoryInv, HostTypeOK, Calls, Stages
<1>3. Requested' BY <1>1 DEF Requested
<1>4. Accounted' BY <1>1 DEF MemoryInv, Accounted, AtRest
<1>5. Counted' BY <1>1 DEF MemoryInv, HostTypeOK, Counted
<1>6. Provided' BY <1>1 DEF Provided
<1> QED BY <1>2, <1>3, <1>4, <1>5, <1>6 DEF MemoryInv

\* Being asked to do nothing, or having nothing to restore.
LEMMA EndedMemory ==
  ASSUME MemoryInv, stage = "idle", AtRest, NEW request \in Calls, Ended(request),
         UNCHANGED <<sys, at, todo, memory, builds, failed, proc, os>>
  PROVE  MemoryInv'
<1>1. /\ plan' = plan /\ Left' = Left /\ NoArray' = NoArray /\ UNCHANGED <<held, ptr, lost, dirs>>
      /\ stage' \in {"idle", "unloaded"} /\ call' = "none"
  BY DEF Ended, plan, Left, NoArray, memory
<1>2. HostTypeOK' BY <1>1 DEF MemoryInv, HostTypeOK, Ended, Calls, Stages
<1>3. Accounted' BY <1>1 DEF MemoryInv, Accounted
<1>4. Requested' /\ Counted' /\ Provided' BY <1>1 DEF MemoryInv, Requested, Counted, Provided
<1> QED BY <1>2, <1>3, <1>4 DEF MemoryInv

LEMMA TearDownMemory ==
  ASSUME MemoryInv, stage = "idle", NEW request \in Calls, TearDown(request)
  PROVE  MemoryInv'
<1>1. CASE NoArray
  <2>1. Ended(request) /\ UNCHANGED <<sys, at, todo, memory, builds, failed, proc, os>>
    BY <1>1 DEF TearDown, NoArray, VirtualCpu
  <2> QED BY <1>1, <2>1, EndedMemory DEF AtRest
<1>2. CASE ~NoArray /\ VirtualCpu \notin held
  <2>1. Undefined BY <1>2 DEF TearDown, NoArray, VirtualCpu
  <2> QED BY <2>1, UndefinedMemory
<1>3. CASE ~NoArray /\ VirtualCpu \in held
  <2>1. /\ call' = request /\ stage' = "leave" /\ Broadcast
        /\ UNCHANGED <<sys, started, asleep, at, memory, builds, failed, proc, os>>
    BY <1>3 DEF TearDown, NoArray, VirtualCpu
  <2>2. plan' = plan /\ Left' = Left /\ NoArray' = NoArray /\ UNCHANGED <<held, ptr, lost, dirs>>
    BY <2>1 DEF plan, Left, NoArray, memory
  <2>3. HostTypeOK' BY <2>1, <2>2 DEF MemoryInv, HostTypeOK, Stages, Broadcast
  <2>4. Accounted' BY <2>1, <2>2 DEF MemoryInv, Accounted, AtRest
  <2>5. Requested' /\ Counted' /\ Provided' BY <2>1, <2>2 DEF MemoryInv, Requested, Counted, Provided
  <2> QED BY <2>3, <2>4, <2>5 DEF MemoryInv
<1> QED BY <1>1, <1>2, <1>3

\* What a processor may use has been allocated, but for what the plan does without.
LEMMA LaunchMemory == ASSUME MemoryInv, Launch PROVE MemoryInv'
<1>1. /\ stage = "plan" /\ stage' = "launch" /\ Broadcast
      /\ UNCHANGED <<sys, started, asleep, call, at, memory, builds, failed, proc, os>>
  BY DEF Launch
<1>2. plan' = plan /\ Left' = Left /\ NoArray' = NoArray /\ UNCHANGED <<held, ptr, lost, dirs>>
  BY <1>1 DEF plan, Left, NoArray, memory
<1>3. /\ PlanOk(sys.engine, sys.options) /\ plan = Plan(sys.engine, sys.options) /\ Len(plan) \in Nat \ {0}
      /\ sys.engine \in Engines /\ sys.options \in SUBSET OptionNames
  BY PlanNow DEF MemoryInv
<1>4. at = Len(plan) + 1 BY <1>3 DEF Launch, MemoryInv, HostTypeOK
<1>5. (NoArray \/ VirtualCpu \in held) /\ \A j \in 1 .. Len(plan) : Done(plan[j])
  <2>1. at > 1 /\ at - 1 = Len(plan) BY <1>3, <1>4
  <2> QED BY <1>1, <2>1 DEF MemoryInv, Provided
<1>6. ~NoArray /\ VirtualCpu \in held
  <2>1. PICK j \in 1 .. Len(plan) : plan[j].array = "check" BY <1>3 DEF PlanOk
  <2> QED BY <1>5, <2>1 DEF Done
<1>7. ASSUME NEW p \in Procs, NEW x \in Used(p), x \notin Spare PROVE x \in held
  <2>1. CASE x = VirtualCpu BY <1>6, <2>1
  <2>2. CASE x # VirtualCpu
    <3>1. x \in (IF sys.engine = "vt" THEN VtUsed(p, sys.caps) ELSE SvmUsed(p)) \ {VirtualCpu} BY <2>2, <1>7 DEF Used
    <3>2. PICK j \in 1 .. Len(plan) : /\ x \in ItemsOf(plan[j]) /\ plan[j].array # "check"
                                      /\ plan[j].optional => x \in DoneWithout
      BY <1>3, <3>1, PlanProvides
    <3>3. plan[j].optional => ~MemoryMayRunOut BY <1>7, <3>2, ConstantsAssumption DEF Spare
    <3> QED BY <1>5, <1>6, <3>2, <3>3 DEF Done
  <2> QED BY <2>1, <2>2
<1>8. HostTypeOK' BY <1>1, <1>2 DEF MemoryInv, HostTypeOK, Stages, Broadcast
<1>9. Requested' /\ Counted' BY <1>1, <1>2 DEF MemoryInv, Requested, Counted
<1>10. Accounted' BY <1>1, <1>2, <1>6 DEF MemoryInv, Accounted, AtRest
<1>11. Provided'
  <2>1. \A p \in Procs : Used(p)' = Used(p) BY <1>1 DEF Used
  <2> QED BY <1>1, <1>2, <1>7, <2>1 DEF Provided
<1> QED BY <1>8, <1>9, <1>10, <1>11 DEF MemoryInv

LEMMA LaunchDoneMemory == ASSUME MemoryInv, LaunchDone PROVE MemoryInv'
<1>1. /\ plan' = plan /\ Left' = Left /\ NoArray' = NoArray /\ UNCHANGED <<held, ptr, lost, dirs>>
  BY DEF LaunchDone, plan, Left, NoArray, memory
<1>2. HostTypeOK' BY <1>1 DEF LaunchDone, MemoryInv, HostTypeOK, Calls, Stages
<1>3. started' /\ ~asleep' /\ ~NoArray' BY <1>1 DEF LaunchDone, MemoryInv, Requested, Accounted
<1>4. Accounted' BY <1>1, <1>3 DEF LaunchDone, MemoryInv, Accounted, AtRest
<1>5. Requested' /\ Counted' /\ Provided' BY <1>1 DEF LaunchDone, MemoryInv, Requested, Counted, Provided
<1> QED BY <1>2, <1>4, <1>5 DEF MemoryInv

\* A restoration frees whatever a plan asks for.
LEMMA RestoreDoneMemory == ASSUME MemoryInv, RestoreDone PROVE MemoryInv'
<1>1. CASE Undefined BY <1>1, UndefinedMemory
<1>2. CASE /\ held' = held \ (ToFree(sys.engine, ptr) \cup Finalized)
           /\ ptr' = ptr \ {<<"cpuid_handlers">>}
           /\ Ended(call)
           /\ UNCHANGED <<sys, at, todo, lost, dirs, builds, failed, proc, os>>
  <2>1. held' = {}
    <3> SUFFICES ASSUME NEW x \in held PROVE x \in ToFree(sys.engine, ptr) \cup Finalized BY <1>2
    <3>1. /\ PlanOk(sys.engine, sys.options) /\ plan = Plan(sys.engine, sys.options) /\ Len(plan) \in Nat \ {0}
      BY PlanNow DEF MemoryInv
    <3>2. PICK j \in 1 .. Len(plan) : x \in ItemsOf(plan[j])
      <4>1. (Len(plan) + 1) - 1 = Len(plan) BY <3>1
      <4> QED BY <4>1 DEF MemoryInv, Accounted, Asked
    <3>3. x \in ptr /\ (x \in CpuItems => <<"virtual_cpu">> \in ptr) /\ (x = <<"rmt">> => <<"rmd">> \in ptr)
      BY DEF MemoryInv, Accounted, NoArray, VirtualCpu
    <3>4. \/ x \in Cleaned(sys.engine)
          \/ x = <<"cpuid_handlers">>
          \/ sys.engine = "svm" /\ x = <<"vm_list_lock">>
          \/ "enable_iommu" \in sys.options /\ x = <<"iommu">>
      BY <3>1, <3>2 DEF PlanOk
    <3>5. x \in Cleaned(sys.engine) => x \in ToFree(sys.engine, ptr) BY <3>3 DEF ToFree
    <3> QED BY <3>3, <3>4, <3>5 DEF Finalized, FinalizesIommu
  <2>2. /\ plan' = plan /\ Left' = Left /\ stage' \in {"idle", "unloaded"} /\ call' = "none"
    BY <1>2 DEF Ended, plan, Left
  <2>3. HostTypeOK' BY <1>2, <2>1, <2>2 DEF MemoryInv, HostTypeOK, Ended, Calls, Stages
  <2>4. Accounted' BY <1>2, <2>1, <2>2 DEF MemoryInv, Accounted
  <2>5. Requested' /\ Counted' /\ Provided' BY <1>2, <2>2 DEF MemoryInv, Requested, Counted, Provided
  <2> QED BY <2>3, <2>4, <2>5 DEF MemoryInv
<1> QED BY <1>1, <1>2 DEF RestoreDone

-----------------------------------------------------------------------------
(* The processors.                                                         *)

LEMMA UsedItems == \A caps : \A p \in Procs : VtUsed(p, caps) \subseteq Items /\ SvmUsed(p) \subseteq Items
<1>1. /\ {"vmxon", "vmcs", "msr_auto", "hv_stack", "ept", "vmcb", "hsave", "hvmcb"}
           \subseteq NamesOf(VtCpuItems) \cup NamesOf(SvmCpuItems)
      /\ {"virtual_cpu", "msr_bitmap", "io_bitmap_a", "io_bitmap_b", "hcr3", "pdpt", "primary_nptm", "msrpm", "iopm"}
           \subseteq VtItems \cup SvmItems
  <2>1. Len(VtCpuItems) = 7 /\ Len(SvmCpuItems) = 6 BY DEF VtCpuItems, SvmCpuItems
  <2>2. \A i \in 1 .. 7 : VtCpuItems[i] \in NamesOf(VtCpuItems) BY <2>1 DEF NamesOf
  <2>3. \A i \in 1 .. 6 : SvmCpuItems[i] \in NamesOf(SvmCpuItems) BY <2>1 DEF NamesOf
  <2>4. /\ VtCpuItems[1] = "vmcs" /\ VtCpuItems[2] = "vmxon" /\ VtCpuItems[3] = "msr_auto"
        /\ VtCpuItems[5] = "hv_stack" /\ VtCpuItems[6] = "ept"
        /\ SvmCpuItems[1] = "vmcb" /\ SvmCpuItems[2] = "hsave" /\ SvmCpuItems[3] = "hvmcb"
    BY DEF VtCpuItems, SvmCpuItems
  <2>5. {"virtual_cpu", "msr_bitmap", "io_bitmap_a", "io_bitmap_b", "hcr3", "pdpt", "primary_nptm", "msrpm", "iopm"}
           \subseteq VtItems \cup SvmItems
    BY DEF VtItems, SvmItems
  <2> QED BY <2>2, <2>3, <2>4, <2>5
<1>2. /\ \A n \in VtItems \cup SvmItems : <<n>> \in Items
      /\ \A n \in NamesOf(VtCpuItems) \cup NamesOf(SvmCpuItems), p \in Procs : <<n, p>> \in Items
  BY ItemsOfNames
<1> QED BY <1>1, <1>2 DEF VtUsed, SvmUsed

\* The registers in the areas of the VMCS and of the VMCB are registers.
LEMMA AreaTypes ==
  ASSUME NEW options, NEW table \in Vals, NEW real \in [Regs -> Vals]
  PROVE  /\ VtEnable(real) \in [Regs -> Vals] /\ VtGuestArea(options, real) \in [Regs -> Vals]
         /\ VtHostArea(options, real, table) \in [Regs -> Vals]
         /\ SvmHostArea(real, table) \in [Regs -> Vals] /\ SvmGuestArea(options, real) \in [Regs -> Vals]
BY DEF VtEnable, VtGuestArea, VtHostArea, SvmHostArea, SvmGuestArea, Vals

LEMMA SubvertType ==
  ASSUME NEW options, NEW caps, NEW pr \in ProcType, NEW i \in Procs, NEW table \in Vals, NEW fault
  PROVE  VtSubvert(options, caps, pr, i, table, fault) \in ProcType /\ SvmSubvert(options, pr, i, table) \in ProcType
<1>1. VtUsed(i, caps) \in SUBSET Items /\ SvmUsed(i) \in SUBSET Items
      /\ {<<"virtual_cpu">>, <<"vmxon", i>>, <<"vmcs", i>>} \in SUBSET Items
  <2>1. {<<"virtual_cpu">>, <<"vmxon", i>>, <<"vmcs", i>>} \subseteq VtUsed(i, caps) BY DEF VtUsed
  <2> QED BY <2>1, UsedItems
<1>2. pr.real \in [Regs -> Vals] /\ pr.host \in [Regs -> Vals] /\ "os" \in Vals BY DEF ProcType, Vals
<1>3. [pr EXCEPT !.real = VtEnable(@)] \in ProcType BY <1>2, AreaTypes DEF ProcType
<1>4. VtRoot(pr, i) \in ProcType BY <1>1, <1>2, AreaTypes DEF VtRoot, ProcType
<1> DEFINE root == [VtRoot(pr, i) EXCEPT !.vmsr = "os", !.host = VtHostArea(options, VtEnable(pr.real), table)]
<1>5. root \in ProcType
  <2>1. VtHostArea(options, VtEnable(pr.real), table) \in [Regs -> Vals] BY <1>2, AreaTypes
  <2> QED BY <1>2, <1>4, <2>1 DEF ProcType
<1> HIDE DEF root
<1>6. /\ [root EXCEPT !.mode = "guest", !.status = "on", !.refs = VtUsed(i, caps), !.real = VtGuestArea(options, @)] \in ProcType
      /\ [root EXCEPT !.status = "trans"] \in ProcType
  <2>1. VtGuestArea(options, root.real) \in [Regs -> Vals] BY <1>5, AreaTypes, <1>2 DEF ProcType
  <2> QED BY <1>1, <1>5, <2>1 DEF ProcType
<1>7. VtLaunch(options, caps, pr, i, table) \in ProcType BY <1>6 DEF VtLaunch, root
<1>8. SvmSubvert(options, pr, i, table) \in ProcType
  <2> DEFINE real == [pr.real EXCEPT !.enable = "on"]
  <2>1. real \in [Regs -> Vals] BY <1>2 DEF Vals
  <2>2. SvmHostArea(real, table) \in [Regs -> Vals] /\ SvmGuestArea(options, real) \in [Regs -> Vals]
    BY <1>2, <2>1, AreaTypes
  <2> HIDE DEF real
  <2>3. [pr EXCEPT !.mode = "guest", !.status = "on", !.refs = SvmUsed(i), !.vmsr = "os",
             !.host = SvmHostArea(real, table), !.real = SvmGuestArea(options, real)] \in ProcType
    BY <1>1, <1>2, <2>2 DEF ProcType
  <2> QED BY <2>3 DEF SvmSubvert, real
<1> QED BY <1>3, <1>4, <1>7, <1>8 DEF VtSubvert

LEMMA RestoreType ==
  ASSUME NEW options, NEW pr \in ProcType
  PROVE  VtRestore(options, pr) \in ProcType /\ SvmRestore(pr) \in ProcType
<1>1. pr.real \in [Regs -> Vals] /\ pr.host \in [Regs -> Vals] BY DEF ProcType
<1>2. VtCallExit(options, pr) \in ProcType
  <2>1. VtExit(options, pr) \in [Regs -> Vals] BY <1>1 DEF VtExit
  <2>2. [VtExit(options, pr) EXCEPT !.cr3 = pr.real.cr3, !.cr4 = pr.real.cr4,
           !.gdtr = pr.real.gdtr, !.idtr = pr.real.idtr, !.rip = pr.real.rip] \in [Regs -> Vals]
    BY <1>1, <2>1 DEF Regs
  <2> QED BY <2>2 DEF VtCallExit, ProcType
<1>3. SvmCallExit(pr) \in ProcType
  <2>1. [pr.host EXCEPT !.tr = pr.real.tr, !.bases = pr.real.bases, !.lstar = "os",
           !.cr3 = pr.real.cr3, !.cr4 = pr.real.cr4, !.gdtr = pr.real.gdtr,
           !.idtr = pr.real.idtr, !.rip = pr.real.rip] \in [Regs -> Vals]
    BY <1>1 DEF Regs, Vals
  <2> QED BY <2>1 DEF SvmCallExit, ProcType
<1>4. \A q \in ProcType : VtDisable(q) \in ProcType /\ SvmDisable(q) \in ProcType
  <2> SUFFICES ASSUME NEW q \in ProcType PROVE VtDisable(q) \in ProcType /\ SvmDisable(q) \in ProcType OBVIOUS
  <2>1. [q.real EXCEPT !.enable = "off"] \in [Regs -> Vals] BY DEF ProcType, Vals
  <2>2. [q EXCEPT !.mode = "off", !.status = "off", !.refs = {}, !.real = [q.real EXCEPT !.enable = "off"]] \in ProcType
    BY <2>1 DEF ProcType
  <2> QED BY <2>2 DEF VtDisable, SvmDisable
<1> QED BY <1>2, <1>3, <1>4 DEF VtRestore, SvmRestore

LEMMA WriteType ==
  ASSUME NEW engine, NEW options, NEW pr \in ProcType, NEW r \in Regs, NEW v \in Vals
  PROVE  Write(engine, options, pr, r, v) \in ProcType
<1>1. \A w \in Vals : [pr EXCEPT !.vmsr = w] \in ProcType /\ [pr EXCEPT !.real = [pr.real EXCEPT ![r] = w]] \in ProcType
  BY DEF ProcType
<1>2. "hook" \in Vals BY DEF Vals
<1>3. \A w : [pr EXCEPT !.real[r] = w] = [pr EXCEPT !.real = [pr.real EXCEPT ![r] = w]] OBVIOUS
<1> HIDE DEF ProcType
<1> QED BY <1>1, <1>2, <1>3 DEF Write, VtWrite, SvmWrite

LEMMA HostCr3Type == HostCr3 \in Vals BY DEF HostCr3, Vals

LEMMA SubvertProcessorMemory == ASSUME MemoryInv, NEW p \in Procs, SubvertProcessor(p) PROVE MemoryInv'
<1>1. CASE Undefined BY <1>1, UndefinedMemory
<1>2. CASE /\ \E fault \in Faults : proc' = [proc EXCEPT ![p] = Subverted(p, fault)]
           /\ todo' = todo \ {p}
           /\ Hook(p)
           /\ UNCHANGED <<sys, started, asleep, call, stage, at, memory, builds, failed>>
  <2>1. proc[p] \in ProcType /\ proc \in [Procs -> ProcType] /\ os \in [Procs -> [Regs -> Vals]] /\ todo \subseteq Procs
    BY DEF MemoryInv, HostTypeOK
  <2>2. PICK fault \in Faults : proc' = [proc EXCEPT ![p] = Subverted(p, fault)] BY <1>2
  <2>3. Subverted(p, fault) \in ProcType BY <2>1, HostCr3Type, SubvertType DEF Subverted
  <2>4. proc' \in [Procs -> ProcType] BY <2>1, <2>2, <2>3
  <2>5. os' \in [Procs -> [Regs -> Vals]] BY <1>2, <2>1 DEF Hook, Regs, Vals
  <2> QED BY <1>2, <2>1, <2>4, <2>5, SameMemory
<1> QED BY <1>1, <1>2 DEF SubvertProcessor

LEMMA RestoreProcessorMemory == ASSUME MemoryInv, NEW p \in Procs, RestoreProcessor(p) PROVE MemoryInv'
<1>1. proc[p] \in ProcType /\ proc \in [Procs -> ProcType] /\ os \in [Procs -> [Regs -> Vals]] /\ todo \subseteq Procs
  BY DEF MemoryInv, HostTypeOK
<1>2. Restored(proc[p]) \in ProcType BY <1>1, RestoreType DEF Restored
<1>3. proc' \in [Procs -> ProcType] BY <1>1, <1>2 DEF RestoreProcessor
<1>4. os' \in [Procs -> [Regs -> Vals]] BY <1>1 DEF RestoreProcessor, Unhook, Regs, Vals
<1>5. todo' \subseteq Procs /\ UNCHANGED <<sys, started, asleep, call, stage, at, memory, builds, failed>>
  BY <1>1 DEF RestoreProcessor
<1> QED BY <1>3, <1>4, <1>5, SameMemory

LEMMA OsWritesMemory ==
  ASSUME MemoryInv, NEW w \in Written, NEW v \in {"os", "os2"}, OsWrites(w[1], w[2], v)
  PROVE  MemoryInv'
<1>1. w[1] \in Procs /\ w[2] \in Regs /\ v \in Vals BY ConstantsAssumption DEF Vals
<1>2. proc \in [Procs -> ProcType] /\ os \in [Procs -> [Regs -> Vals]] /\ proc[w[1]] \in ProcType
  BY <1>1 DEF MemoryInv, HostTypeOK
<1>3. Write(sys.engine, sys.options, proc[w[1]], w[2], v) \in ProcType BY <1>1, <1>2, WriteType
<1>4. proc' \in [Procs -> ProcType] BY <1>2, <1>3 DEF OsWrites
<1>5. os' \in [Procs -> [Regs -> Vals]] BY <1>1, <1>2 DEF OsWrites
<1>6. todo' \subseteq Procs /\ UNCHANGED <<sys, started, asleep, call, stage, at, memory, builds, failed>>
  BY DEF OsWrites, MemoryInv, HostTypeOK
<1> QED BY <1>4, <1>5, <1>6, SameMemory

LEMMA NextMemory == ASSUME MemoryInv, [HostNext]_hostVars PROVE MemoryInv'
<1>1. CASE Subvert
  <2>1. stage = "idle" /\ AtRest /\ Build("subvert") /\ asleep' = FALSE
    BY <1>1 DEF Subvert, AtRest, MemoryInv, HostTypeOK
  <2> QED BY <2>1, BuildMemory
<1>2. CASE ResumeFromSleep
  <2>1. stage = "idle" /\ AtRest /\ asleep' = FALSE BY <1>2 DEF ResumeFromSleep, AtRest
  <2>2. CASE started
    <3>1. Build("resume") BY <1>2, <2>2 DEF ResumeFromSleep
    <3> QED BY <2>1, <2>2, <3>1, BuildMemory
  <2>3. CASE ~started
    <3>1. UNCHANGED <<sys, started, call, stage, at, todo, memory, builds, failed, proc, os>>
      BY <1>2, <2>3 DEF ResumeFromSleep
    <3>2. plan' = plan /\ Left' = Left /\ NoArray' = NoArray /\ UNCHANGED <<held, ptr, lost, dirs>>
      BY <3>1 DEF plan, Left, NoArray, memory
    <3>3. HostTypeOK' BY <2>1, <3>1, <3>2 DEF MemoryInv, HostTypeOK
    <3>4. Accounted' BY <2>1, <3>1, <3>2 DEF MemoryInv, Accounted, AtRest
    <3>5. Requested' /\ Counted' /\ Provided' BY <2>1, <3>1, <3>2 DEF MemoryInv, Requested, Counted, Provided
    <3> QED BY <3>3, <3>4, <3>5 DEF MemoryInv
  <2> QED BY <2>2, <2>3
<1>3. CASE Prepare BY <1>3, PrepareMemory
<1>4. CASE Launch BY <1>4, LaunchMemory
<1>5. CASE LaunchDone BY <1>5, LaunchDoneMemory
<1>6. CASE Restore
  <2>1. stage = "idle" /\ TearDown("restore") /\ "restore" \in Calls BY <1>6 DEF Restore, Calls
  <2> QED BY <2>1, TearDownMemory
<1>7. CASE Suspend
  <2>1. stage = "idle" /\ "suspend" \in Calls BY <1>7 DEF Suspend, Calls
  <2>2. CASE started
    <3>1. TearDown("suspend") BY <1>7, <2>2 DEF Suspend
    <3> QED BY <2>1, <3>1, TearDownMemory
  <2>3. CASE ~started
    <3>1. NothingToDo("suspend") BY <1>7, <2>3 DEF Suspend
    <3> QED BY <2>1, <2>3, <3>1, EndedMemory DEF NothingToDo, AtRest
  <2> QED BY <2>2, <2>3
<1>8. CASE Unload
  <2>1. stage = "idle" /\ "unload" \in Calls BY <1>8 DEF Unload, Calls
  <2>2. CASE started
    <3>1. TearDown("unload") BY <1>8, <2>2 DEF Unload
    <3> QED BY <2>1, <3>1, TearDownMemory
  <2>3. CASE ~started
    <3>1. NothingToDo("unload") BY <1>8, <2>3 DEF Unload
    <3> QED BY <2>1, <2>3, <3>1, EndedMemory DEF NothingToDo, AtRest
  <2> QED BY <2>2, <2>3
<1>9. CASE RestoreDone BY <1>9, RestoreDoneMemory
<1>10. CASE \E p \in Procs : SubvertProcessor(p) BY <1>10, SubvertProcessorMemory
<1>11. CASE \E p \in Procs : RestoreProcessor(p) BY <1>11, RestoreProcessorMemory
<1>12. CASE \E p \in Procs : HostLost(p)
  <2>1. Undefined BY <1>12 DEF HostLost
  <2> QED BY <2>1, UndefinedMemory
<1>13. CASE \E w \in Written, v \in {"os", "os2"} : OsWrites(w[1], w[2], v) BY <1>13, OsWritesMemory
<1>14. CASE UNCHANGED hostVars
  <2>1. /\ UNCHANGED <<sys, started, asleep, call, stage, at, memory, builds, failed>>
        /\ todo' = todo /\ proc' = proc /\ os' = os
    BY <1>14 DEF hostVars
  <2>2. todo \subseteq Procs /\ proc \in [Procs -> ProcType] /\ os \in [Procs -> [Regs -> Vals]]
    BY DEF MemoryInv, HostTypeOK
  <2> QED BY <2>1, <2>2, SameMemory
<1> QED BY <1>1, <1>2, <1>3, <1>4, <1>5, <1>6, <1>7, <1>8, <1>9, <1>10, <1>11, <1>12, <1>13, <1>14 DEF HostNext, Stopped

THEOREM MemoryCorrect == HostSpec => []MemoryInv
<1> QED BY InitMemory, NextMemory, PTL DEF HostSpec

\* Every variable has its type, in every system and however often it is subverted
\* (nvc_vt_subvert_system, nvc_svm_subvert_system and what they call).
THEOREM HostTypeCorrect == HostSpec => []HostTypeOK
<1>1. MemoryInv => HostTypeOK BY DEF MemoryInv
<1> QED BY <1>1, MemoryCorrect, PTL

\* Once the hypervisor is stopped its memory is freed, but for what the clean-up
\* after a failed subversion does not know (nvc_vt_cleanup, nvc_svm_cleanup).
THEOREM ReleasedCorrect == HostSpec => []Released
<1>1. MemoryInv => Released BY DEF MemoryInv, Accounted, AtRest, Released, Left
<1> QED BY <1>1, MemoryCorrect, PTL

-----------------------------------------------------------------------------
(* Processors that have entered VMX operation or the guest.  Without memory  *)
(* for the DPCs processors are left behind there: from here on noir_         *)
(* generic_call gets its buffer.                                             *)

\* No processor has entered, or this one not yet, or it has left.
Outside(p) ==
  AtRest \/ stage = "plan" \/ (stage = "launch" /\ p \in todo) \/ (stage = "leave" /\ p \notin todo)
Matched(pr) == (pr.mode = "off" <=> pr.status = "off") /\ (pr.mode = "guest" <=> pr.status = "on")
Entered ==
  \A p \in Procs :
    /\ Matched(proc[p])
    /\ Outside(p) => proc[p].mode = "off"
    /\ stage # "ub" /\ proc[p].mode # "off" => proc[p].refs \ Spare \subseteq held

\* What a processor that is subverted keeps of its operating system.
Launched(options, pr, q) ==
  /\ Matched(q)
  /\ \A r \in Regs \ {"enable", "rip", "lstar"} : q.real[r] = pr.real[r]
  /\ q.real["rip"] \in {"os", pr.real["rip"]}
  /\ ~Hooked(options) => q.real["lstar"] = pr.real["lstar"]
  /\ q.mode = "guest" => q.vmsr = "os" /\ (Hooked(options) => q.real["lstar"] = "hook")

LEMMA VtLaunched ==
  ASSUME NEW options, NEW caps, NEW pr \in ProcType, pr.mode = "off", pr.status = "off",
         NEW i \in Procs, NEW table, NEW fault
  PROVE  LET q == VtSubvert(options, caps, pr, i, table, fault) IN
         /\ Launched(options, pr, q)
         /\ q.mode # "off" => q.refs \subseteq VtUsed(i, caps)
         /\ q.mode = "guest" => q.host["tr"] = pr.real["tr"]
<1>1. pr.real \in [Regs -> Vals] BY DEF ProcType
<1> DEFINE Vt(x) == /\ Launched(options, pr, x)
                    /\ x.mode # "off" => x.refs \subseteq VtUsed(i, caps)
                    /\ x.mode = "guest" => x.host["tr"] = pr.real["tr"]
           on == VtEnable(pr.real)
           area == VtHostArea(options, on, table)
           guest == VtGuestArea(options, on)
           enabled == [pr EXCEPT !.real = VtEnable(@)]
           root == VtRoot(pr, i)
           Root(x, refs, real) == x.mode = "root" /\ x.status = "trans" /\ x.refs = refs /\ x.real = real
           ready == [root EXCEPT !.vmsr = "os", !.host = area]
           entry == [ready EXCEPT !.mode = "guest", !.status = "on", !.refs = VtUsed(i, caps),
                                  !.real = VtGuestArea(options, @)]
           refused == [ready EXCEPT !.status = "trans"]
           First == {<<"virtual_cpu">>, <<"vmxon", i>>, <<"vmcs", i>>}
<1>2. /\ \A r \in Regs \ {"enable"} : on[r] = pr.real[r]
      /\ area["tr"] = pr.real["tr"]
      /\ \A r \in Regs \ {"enable", "rip", "lstar"} : guest[r] = pr.real[r]
      /\ guest["rip"] = "os" /\ guest["lstar"] = IF Hooked(options) THEN "hook" ELSE pr.real["lstar"]
  BY <1>1 DEF VtEnable, VtHostArea, VtGuestArea, Regs
<1>3. First \subseteq VtUsed(i, caps) BY DEF VtUsed
<1>4. enabled.mode = "off" /\ enabled.status = "off" /\ enabled.real = on BY DEF ProcType
<1>5. /\ root.mode = "root" /\ root.status = "trans" /\ root.refs = First /\ root.real = on
      /\ refused.mode = "root" /\ refused.status = "trans" /\ refused.refs = First /\ refused.real = on
      /\ entry.mode = "guest" /\ entry.status = "on" /\ entry.refs = VtUsed(i, caps) /\ entry.real = guest
      /\ entry.vmsr = "os" /\ entry.host = area
  BY DEF VtRoot, ProcType
<1>6. "lstar" \in Regs /\ "rip" \in Regs /\ "tr" \in Regs BY DEF Regs
<1>7. VtSubvert(options, caps, pr, i, table, fault) \in {enabled, root, entry, refused} BY DEF VtSubvert, VtLaunch
<1> HIDE DEF on, area, guest, enabled, root, ready, entry, refused, First
<1>8. Vt(enabled) BY <1>2, <1>4, <1>6 DEF Launched, Matched
<1>9. Vt(root) /\ Vt(refused) BY <1>2, <1>3, <1>5, <1>6 DEF Launched, Matched
<1>10. Vt(entry) BY <1>2, <1>5, <1>6 DEF Launched, Matched
<1> HIDE DEF Vt
<1>11. Vt(VtSubvert(options, caps, pr, i, table, fault)) BY <1>7, <1>8, <1>9, <1>10
<1> QED BY <1>11 DEF Vt

LEMMA SvmLaunched ==
  ASSUME NEW options, NEW pr \in ProcType, NEW i \in Procs, NEW table
  PROVE  LET q == SvmSubvert(options, pr, i, table) IN
         Launched(options, pr, q) /\ q.mode = "guest" /\ q.refs = SvmUsed(i)
<1> DEFINE on == [pr.real EXCEPT !.enable = "on"]
           guest == SvmGuestArea(options, on)
           q == SvmSubvert(options, pr, i, table)
<1>1. pr.real \in [Regs -> Vals] BY DEF ProcType
<1>2. /\ \A r \in Regs \ {"enable", "rip", "lstar"} : guest[r] = pr.real[r]
      /\ guest["rip"] = "os" /\ guest["lstar"] = IF Hooked(options) THEN "hook" ELSE pr.real["lstar"]
  BY <1>1 DEF SvmGuestArea, Regs
<1>3. q.mode = "guest" /\ q.status = "on" /\ q.refs = SvmUsed(i) /\ q.vmsr = "os" /\ q.real = guest
  BY DEF SvmSubvert, ProcType
<1> HIDE DEF on, guest, q
<1>4. Launched(options, pr, q) BY <1>2, <1>3 DEF Launched, Matched
<1> QED BY <1>3, <1>4 DEF q

\* A processor that is restored has left, with the registers of its operating system.
LEMMA VtRestored ==
  ASSUME NEW options, NEW pr \in ProcType, Matched(pr)
  PROVE  LET q == VtRestore(options, pr) IN
         /\ q.mode = "off" /\ q.status = "off"
         /\ \A r \in {"cr3", "cr4", "gdtr", "idtr", "rip"} : q.real[r] = pr.real[r]
         /\ q.real["tr"] = IF pr.mode = "guest" THEN pr.host["tr"] ELSE pr.real["tr"]
         /\ ~Hooked(options) => q.real["lstar"] = pr.real["lstar"]
<1>1. pr.real \in [Regs -> Vals] /\ pr.host \in [Regs -> Vals] BY DEF ProcType
<1> DEFINE real == [VtExit(options, pr) EXCEPT !.cr3 = pr.real.cr3, !.cr4 = pr.real.cr4,
                      !.gdtr = pr.real.gdtr, !.idtr = pr.real.idtr, !.rip = pr.real.rip]
           out == VtCallExit(options, pr)
<1>2. VtExit(options, pr) \in [Regs -> Vals] BY <1>1 DEF VtExit
<1>3. /\ VtExit(options, pr)["tr"] = pr.host["tr"]
      /\ ~Hooked(options) => VtExit(options, pr)["lstar"] = pr.real["lstar"]
  BY DEF VtExit, Regs, VtHostState
<1>4. /\ \A r \in {"cr3", "cr4", "gdtr", "idtr", "rip"} : real[r] = pr.real[r]
      /\ real["tr"] = pr.host["tr"] /\ (~Hooked(options) => real["lstar"] = pr.real["lstar"]) /\ real \in [Regs -> Vals]
  BY <1>1, <1>2, <1>3 DEF Regs
<1>5. out.status = "trans" /\ out.real = real /\ out \in ProcType
  <2>1. out \in ProcType
    <3> HIDE DEF real
    <3>1. out = [pr EXCEPT !.mode = "root", !.status = "trans", !.real = real] BY DEF VtCallExit, real
    <3> HIDE DEF out
    <3> QED BY <1>4, <3>1 DEF ProcType
  <2> QED BY <2>1 DEF VtCallExit, ProcType
<1>6. ASSUME NEW x \in ProcType
      PROVE  /\ VtDisable(x).mode = "off" /\ VtDisable(x).status = "off"
             /\ \A r \in Regs \ {"enable"} : VtDisable(x).real[r] = x.real[r]
  <2>1. x.real \in [Regs -> Vals] BY DEF ProcType
  <2> QED BY <2>1 DEF VtDisable, ProcType
<1>7. {"cr3", "cr4", "gdtr", "idtr", "rip", "tr", "lstar"} \subseteq Regs \ {"enable"} BY DEF Regs
<1>8. pr.mode \in {"off", "root", "guest"} /\ pr.status \in {"off", "on", "trans"} BY DEF ProcType
<1> HIDE DEF real, out
<1>9. CASE pr.mode = "guest"
  <2>1. VtRestore(options, pr) = VtDisable(out) BY <1>5, <1>9 DEF VtRestore, Matched, out
  <2> QED BY <1>4, <1>5, <1>6, <1>7, <1>9, <2>1
<1>10. CASE pr.mode = "root"
  <2>1. VtRestore(options, pr) = VtDisable(pr) BY <1>8, <1>10 DEF VtRestore, Matched
  <2> QED BY <1>6, <1>7, <1>10, <2>1
<1>11. CASE pr.mode = "off"
  <2>1. VtRestore(options, pr) = pr BY <1>11 DEF VtRestore, Matched
  <2> QED BY <1>11, <2>1 DEF Matched
<1> QED BY <1>8, <1>9, <1>10, <1>11

LEMMA SvmRestored ==
  ASSUME NEW pr \in ProcType, Matched(pr)
  PROVE  LET q == SvmRestore(pr) IN
         /\ q.mode = "off" /\ q.status = "off"
         /\ \A r \in {"cr3", "cr4", "gdtr", "idtr", "rip", "tr"} : q.real[r] = pr.real[r]
         /\ q.real["lstar"] = IF pr.mode = "guest" THEN "os" ELSE pr.real["lstar"]
<1>1. pr.real \in [Regs -> Vals] /\ pr.host \in [Regs -> Vals] BY DEF ProcType
<1> DEFINE real == [pr.host EXCEPT !.tr = pr.real.tr, !.bases = pr.real.bases, !.lstar = "os",
                      !.cr3 = pr.real.cr3, !.cr4 = pr.real.cr4, !.gdtr = pr.real.gdtr,
                      !.idtr = pr.real.idtr, !.rip = pr.real.rip]
           out == SvmCallExit(pr)
<1>2. /\ \A r \in {"cr3", "cr4", "gdtr", "idtr", "rip", "tr"} : real[r] = pr.real[r]
      /\ real["lstar"] = "os" /\ real \in [Regs -> Vals]
  BY <1>1 DEF Regs, Vals
<1>3. out.status = "trans" /\ out.real = real /\ out \in ProcType
  <2>1. out \in ProcType
    <3> HIDE DEF real
    <3>1. out = [pr EXCEPT !.mode = "root", !.status = "trans", !.real = real] BY DEF SvmCallExit, real
    <3> HIDE DEF out
    <3> QED BY <1>2, <3>1 DEF ProcType
  <2> QED BY <2>1 DEF SvmCallExit, ProcType
<1>4. ASSUME NEW x \in ProcType
      PROVE  /\ SvmDisable(x).mode = "off" /\ SvmDisable(x).status = "off"
             /\ \A r \in Regs \ {"enable"} : SvmDisable(x).real[r] = x.real[r]
  <2>1. x.real \in [Regs -> Vals] BY DEF ProcType
  <2> QED BY <2>1 DEF SvmDisable, ProcType
<1>5. {"cr3", "cr4", "gdtr", "idtr", "rip", "tr", "lstar"} \subseteq Regs \ {"enable"} BY DEF Regs
<1>6. pr.mode \in {"off", "root", "guest"} /\ pr.status \in {"off", "on", "trans"} BY DEF ProcType
<1> HIDE DEF real, out
<1>7. CASE pr.mode = "guest"
  <2>1. SvmRestore(pr) = SvmDisable(out) BY <1>3, <1>7 DEF SvmRestore, Matched, out
  <2> QED BY <1>2, <1>3, <1>4, <1>5, <1>7, <2>1
<1>8. CASE pr.mode = "root"
  <2>1. SvmRestore(pr) = SvmDisable(pr) BY <1>6, <1>8 DEF SvmRestore, Matched
  <2> QED BY <1>4, <1>5, <1>8, <2>1
<1>9. CASE pr.mode = "off"
  <2>1. SvmRestore(pr) = pr BY <1>9 DEF SvmRestore, Matched
  <2> QED BY <1>9, <2>1 DEF Matched
<1> QED BY <1>6, <1>7, <1>8, <1>9

LEMMA InitEntered == HostInit => Entered
BY DEF HostInit, Entered, Matched, NewProc

LEMMA KeptProcs ==
  ASSUME Entered, proc' = proc,
         \A p \in Procs : proc[p].mode # "off" =>
           ~Outside(p)' /\ (stage' # "ub" => stage # "ub" /\ held \subseteq held')
  PROVE  Entered'
BY DEF Entered, Spare

LEMMA SubvertProcessorEntered ==
  ASSUME MemoryInv, Entered, NEW p \in Procs, SubvertProcessor(p)
  PROVE  Entered'
<1>1. CASE Undefined
  <2>1. proc' = proc /\ stage' = "ub" BY <1>1 DEF Undefined
  <2>2. \A i \in Procs : ~Outside(i)' BY <2>1 DEF Outside, AtRest
  <2> QED BY <2>1, <2>2, KeptProcs
<1>2. CASE /\ \E fault \in Faults : proc' = [proc EXCEPT ![p] = Subverted(p, fault)]
           /\ todo' = todo \ {p}
           /\ UNCHANGED <<sys, started, asleep, call, stage, at, memory, builds, failed>>
  <2>1. /\ proc \in [Procs -> ProcType] /\ proc[p] \in ProcType /\ stage = "launch" /\ p \in todo
        /\ proc[p].mode = "off" /\ proc[p].status = "off" /\ sys.engine \in Engines
    BY PlanNow DEF SubvertProcessor, MemoryInv, HostTypeOK, Entered, Outside, Matched
  <2>2. PICK fault \in Faults : proc' = [proc EXCEPT ![p] = Subverted(p, fault)] BY <1>2
  <2>3. proc'[p] = Subverted(p, fault) /\ \A i \in Procs : i # p => proc'[i] = proc[i] BY <2>1, <2>2
  <2>4. Matched(proc'[p]) /\ (proc'[p].mode # "off" => proc'[p].refs \subseteq Used(p))
    <3> DEFINE q == Subverted(p, fault)
    <3>1. CASE sys.engine = "vt"
      <4>1. q = VtSubvert(sys.options, sys.caps, proc[p], p, HostCr3, fault) BY <3>1 DEF Subverted
      <4> HIDE DEF q
      <4>2. Launched(sys.options, proc[p], q) /\ (q.mode # "off" => q.refs \subseteq VtUsed(p, sys.caps))
        BY <2>1, <4>1, VtLaunched
      <4>3. proc'[p] = q BY <2>3 DEF q
      <4> QED BY <3>1, <4>2, <4>3 DEF Launched, Used
    <3>2. CASE sys.engine = "svm"
      <4>1. q = SvmSubvert(sys.options, proc[p], p, HostCr3) BY <3>2 DEF Subverted
      <4> HIDE DEF q
      <4>2. Launched(sys.options, proc[p], q) /\ q.refs = SvmUsed(p) BY <2>1, <4>1, SvmLaunched
      <4>3. proc'[p] = q BY <2>3 DEF q
      <4> QED BY <3>2, <4>2, <4>3 DEF Launched, Used
    <3> QED BY <2>1, <3>1, <3>2 DEF Engines
  <2>5. Used(p) \ Spare \subseteq held BY <2>1 DEF MemoryInv, Provided
  <2>6. UNCHANGED <<stage, held>> /\ \A i \in Procs : Outside(i)' => Outside(i) /\ i # p
    BY <1>2, <2>1 DEF Outside, AtRest, memory
  <2>7. ASSUME NEW i \in Procs
        PROVE  /\ Matched(proc'[i]) /\ (Outside(i)' => proc'[i].mode = "off")
               /\ stage' # "ub" /\ proc'[i].mode # "off" => proc'[i].refs \ Spare \subseteq held'
    <3>1. CASE i = p BY <2>3, <2>4, <2>5, <2>6, <3>1
    <3>2. CASE i # p BY <2>3, <2>6, <3>2 DEF Entered
    <3> QED BY <3>1, <3>2
  <2>8. Spare' = Spare BY DEF Spare
  <2>9. \A i \in Procs : Matched(proc[i])' <=> Matched(proc'[i]) BY DEF Matched
  <2> QED BY <2>7, <2>8, <2>9 DEF Entered
<1> QED BY <1>1, <1>2 DEF SubvertProcessor

LEMMA RestoreProcessorEntered ==
  ASSUME MemoryInv, Entered, NEW p \in Procs, RestoreProcessor(p)
  PROVE  Entered'
<1>1. /\ proc \in [Procs -> ProcType] /\ proc[p] \in ProcType /\ Matched(proc[p]) /\ sys.engine \in Engines
      /\ stage = "leave" /\ proc' = [proc EXCEPT ![p] = Restored(proc[p])]
      /\ todo' = todo \ {p} /\ stage' = stage /\ held' = held
  BY PlanNow DEF RestoreProcessor, MemoryInv, HostTypeOK, Entered, memory
<1>2. proc'[p].mode = "off" /\ proc'[p].status = "off" /\ \A i \in Procs : i # p => proc'[i] = proc[i]
  <2>1. Restored(proc[p]).mode = "off" /\ Restored(proc[p]).status = "off"
    <3>1. CASE sys.engine = "vt" BY <1>1, <3>1, VtRestored DEF Restored
    <3>2. CASE sys.engine = "svm" BY <1>1, <3>2, SvmRestored DEF Restored
    <3> QED BY <1>1, <3>1, <3>2 DEF Engines
  <2> QED BY <1>1, <2>1
<1>3. \A i \in Procs : i # p /\ Outside(i)' => Outside(i) BY <1>1 DEF Outside, AtRest
<1>4. ASSUME NEW i \in Procs
      PROVE  /\ Matched(proc'[i]) /\ (Outside(i)' => proc'[i].mode = "off")
             /\ stage' # "ub" /\ proc'[i].mode # "off" => proc'[i].refs \ Spare \subseteq held'
  <2>1. CASE i = p BY <1>2, <2>1 DEF Matched
  <2>2. CASE i # p BY <1>1, <1>2, <1>3, <2>2 DEF Entered
  <2> QED BY <2>1, <2>2
<1>5. Spare' = Spare BY DEF Spare
<1>6. \A i \in Procs : Matched(proc[i])' <=> Matched(proc'[i]) BY DEF Matched
<1> QED BY <1>4, <1>5, <1>6 DEF Entered

\* What the operating system writes is not where the processor is.
LEMMA WriteKeeps ==
  ASSUME NEW engine, NEW options, NEW pr \in ProcType, NEW r, NEW v
  PROVE  LET q == Write(engine, options, pr, r, v) IN
         q.mode = pr.mode /\ q.status = pr.status /\ q.refs = pr.refs /\ q.host = pr.host
<1> DEFINE Same(q) == q.mode = pr.mode /\ q.status = pr.status /\ q.refs = pr.refs /\ q.host = pr.host
<1>1. \A w : Same([pr EXCEPT !.vmsr = w]) /\ Same([pr EXCEPT !.real[r] = w]) BY DEF ProcType
<1> HIDE DEF Same
<1>2. Same(Write(engine, options, pr, r, v)) BY <1>1 DEF Write, VtWrite, SvmWrite
<1> QED BY <1>2 DEF Same

LEMMA OsWritesEntered ==
  ASSUME MemoryInv, Entered, NEW p \in Procs, NEW r, NEW v, OsWrites(p, r, v)
  PROVE  Entered'
<1>1. /\ proc \in [Procs -> ProcType] /\ proc[p] \in ProcType
      /\ proc' = [proc EXCEPT ![p] = Write(sys.engine, sys.options, proc[p], r, v)]
      /\ UNCHANGED <<stage, todo, started, asleep, held, ptr>>
  BY DEF OsWrites, MemoryInv, HostTypeOK, memory
<1>2. \A i \in Procs : proc'[i].mode = proc[i].mode /\ proc'[i].status = proc[i].status /\ proc'[i].refs = proc[i].refs
  BY <1>1, WriteKeeps
<1>3. \A i \in Procs : Outside(i)' <=> Outside(i) BY <1>1 DEF Outside, AtRest, NoArray
<1> QED BY <1>1, <1>2, <1>3 DEF Entered, Matched, Spare

LEMMA NextEntered ==
  ASSUME ~BroadcastMayFail, MemoryInv, Entered, [HostNext]_hostVars
  PROVE  Entered'
<1> DEFINE Off == \A p \in Procs : proc[p].mode = "off"
<1>1. AtRest \/ stage = "plan" => Off BY DEF Entered, Outside
<1>2. ASSUME proc' = proc, Off PROVE Entered' BY <1>2, KeptProcs
<1>3. ASSUME Undefined PROVE Entered'
  <2>1. proc' = proc /\ stage' = "ub" BY <1>3 DEF Undefined
  <2>2. \A p \in Procs : ~Outside(p)' BY <2>1 DEF Outside, AtRest
  <2> QED BY <2>1, <2>2, KeptProcs
<1>4. ASSUME NEW request \in Calls, stage = "idle", TearDown(request) PROVE Entered'
  <2>1. CASE NoArray
    <3>1. AtRest /\ proc' = proc BY <1>4, <2>1 DEF TearDown, AtRest, NoArray, VirtualCpu
    <3> QED BY <1>1, <1>2, <3>1
  <2>2. CASE ~NoArray /\ VirtualCpu \notin held
    <3>1. Undefined BY <2>2, <1>4 DEF TearDown, NoArray, VirtualCpu
    <3> QED BY <3>1, <1>3
  <2>3. CASE ~NoArray /\ VirtualCpu \in held
    <3>1. stage' = "leave" /\ Broadcast /\ proc' = proc /\ held' = held
      BY <2>3, <1>4 DEF TearDown, NoArray, VirtualCpu, memory
    <3>2. todo' = Procs BY <3>1 DEF Broadcast
    <3>3. \A p \in Procs : ~Outside(p)' BY <3>1, <3>2 DEF Outside, AtRest
    <3> QED BY <1>4, <3>1, <3>3, KeptProcs
  <2> QED BY <2>1, <2>2, <2>3
<1>5. CASE Subvert
  <2>1. AtRest /\ proc' = proc BY <1>5 DEF Subvert, Build, AtRest
  <2> QED BY <1>1, <1>2, <2>1
<1>6. CASE ResumeFromSleep
  <2>1. AtRest /\ proc' = proc BY <1>6 DEF ResumeFromSleep, Build, AtRest
  <2> QED BY <1>1, <1>2, <2>1
<1>7. CASE Prepare
  <2>1. stage = "plan" BY <1>7 DEF Prepare
  <2>2. proc' = proc
    <3>1. \A n : Iommu(n) => proc' = proc BY DEF Iommu, Undefined
    <3>2. \A n : Allocate(n) => proc' = proc BY DEF Allocate
    <3>3. (Skip \/ Fail \/ Undefined) => proc' = proc BY DEF Skip, Fail, Undefined
    <3>4. Skip \/ Fail \/ Undefined \/ (\E n : Iommu(n)) \/ (\E n : Allocate(n)) BY <1>7, PrepareCases
    <3> QED BY <3>1, <3>2, <3>3, <3>4
  <2> QED BY <1>1, <1>2, <2>1, <2>2
<1>8. CASE Launch
  <2>1. stage = "plan" /\ proc' = proc BY <1>8 DEF Launch
  <2> QED BY <1>1, <1>2, <2>1
<1>9. CASE LaunchDone
  <2>1. /\ stage = "launch" /\ stage' = "idle" /\ proc' = proc /\ held' = held /\ ptr' = ptr /\ asleep' = asleep
        /\ started' = (started \/ call = "subvert")
    BY <1>9 DEF LaunchDone, memory
  <2>2. ~AtRest' BY <2>1 DEF AtRest, NoArray, MemoryInv, Requested, Accounted
  <2>3. \A p \in Procs : ~Outside(p)' BY <2>1, <2>2 DEF Outside
  <2> QED BY <2>1, <2>3, KeptProcs
<1>10. CASE Restore
  <2>1. stage = "idle" /\ TearDown("restore") /\ "restore" \in Calls BY <1>10 DEF Restore, Calls
  <2> QED BY <2>1, <1>4
<1>11. CASE Suspend
  <2>1. CASE started
    <3>1. stage = "idle" /\ TearDown("suspend") /\ "suspend" \in Calls BY <1>11, <2>1 DEF Suspend, Calls
    <3> QED BY <3>1, <1>4
  <2>2. CASE ~started
    <3>1. AtRest /\ proc' = proc BY <1>11, <2>2 DEF Suspend, NothingToDo, AtRest
    <3> QED BY <1>1, <1>2, <3>1
  <2> QED BY <2>1, <2>2
<1>12. CASE Unload
  <2>1. CASE started
    <3>1. stage = "idle" /\ TearDown("unload") /\ "unload" \in Calls BY <1>12, <2>1 DEF Unload, Calls
    <3> QED BY <3>1, <1>4
  <2>2. CASE ~started
    <3>1. AtRest /\ proc' = proc BY <1>12, <2>2 DEF Unload, NothingToDo, AtRest
    <3> QED BY <1>1, <1>2, <3>1
  <2> QED BY <2>1, <2>2
<1>13. CASE RestoreDone
  <2>1. stage = "leave" /\ todo = {} /\ proc' = proc BY <1>13 DEF RestoreDone, Undefined
  <2>2. Off BY <2>1 DEF Entered, Outside
  <2> QED BY <1>2, <2>1, <2>2
<1>14. CASE \E p \in Procs : SubvertProcessor(p) BY <1>14, SubvertProcessorEntered
<1>15. CASE \E p \in Procs : RestoreProcessor(p) BY <1>15, RestoreProcessorEntered
<1>16. CASE \E p \in Procs : HostLost(p)
  <2>1. Undefined BY <1>16 DEF HostLost
  <2> QED BY <2>1, <1>3
<1>17. CASE \E w \in Written, v \in {"os", "os2"} : OsWrites(w[1], w[2], v)
  <2>1. PICK w \in Written, v \in {"os", "os2"} : OsWrites(w[1], w[2], v) BY <1>17
  <2>2. w[1] \in Procs BY ConstantsAssumption
  <2> QED BY <2>1, <2>2, OsWritesEntered
<1>18. CASE UNCHANGED hostVars
  <2>1. proc' = proc /\ UNCHANGED <<stage, todo, started, asleep, held, ptr>> BY <1>18 DEF hostVars, memory
  <2>2. \A p \in Procs : Outside(p)' <=> Outside(p) BY <2>1 DEF Outside, AtRest, NoArray
  <2> QED BY <2>1, <2>2 DEF Entered, Spare
<1> QED BY <1>5, <1>6, <1>7, <1>8, <1>9, <1>10, <1>11, <1>12, <1>13, <1>14, <1>15, <1>16, <1>17, <1>18 DEF HostNext, Stopped

-----------------------------------------------------------------------------
(* The registers of the operating system.                                   *)

\* Where LSTAR of the operating system is kept while it is hooked.
OsLstar(engine, options, pr) ==
  CASE ~Hooked(options)                                   -> pr.real["lstar"]
    [] Hooked(options) /\ engine = "vt"                   -> pr.vmsr
    [] Hooked(options) /\ engine # "vt" -> IF pr.real["lstar"] = "hook" THEN "os" ELSE pr.real["lstar"]

\* The registers that are put back, LSTAR, TR where VT takes it from, and what is
\* never written.
OsKept(p) ==
  /\ os[p]["enable"] = "off" /\ os[p]["rip"] = "os"
  /\ \A r \in PutBack(p) : proc[p].real[r] = os[p][r]
  /\ ~Hooked(sys.options) \/ proc[p].mode = "guest" =>
       OsLstar(sys.engine, sys.options, proc[p]) = os[p]["lstar"]
  /\ sys.engine = "vt" /\ proc[p].mode = "guest" /\ "tr" \in PutBack(p) => proc[p].host["tr"] = os[p]["tr"]

LEMMA PutBackRegs ==
  \A p : /\ PutBack(p) \subseteq {"cr3", "cr4", "gdtr", "idtr", "rip", "tr"}
         /\ {"cr3", "cr4", "gdtr", "idtr", "rip"} \subseteq PutBack(p)
         /\ PutBack(p) \subseteq Regs \ {"enable", "lstar"} /\ (sys.engine # "vt" => "tr" \in PutBack(p))
BY DEF PutBack, Regs

LEMMA InitOsKept == HostInit => \A p \in Procs : OsKept(p)
<1> SUFFICES ASSUME HostInit, NEW p \in Procs PROVE OsKept(p) OBVIOUS
<1>1. proc[p] = NewProc /\ os[p] = NewProc.real BY DEF HostInit
<1>2. \A r \in Regs : NewProc.real[r] = IF r = "enable" THEN "off" ELSE "os" BY DEF NewProc
<1>3. {"enable", "rip", "lstar"} \subseteq Regs /\ NewProc.mode = "off" BY DEF Regs, NewProc
<1>4. ~Hooked(sys.options) => OsLstar(sys.engine, sys.options, proc[p]) = os[p]["lstar"] BY <1>1 DEF OsLstar
<1> QED BY <1>1, <1>2, <1>3, <1>4, PutBackRegs DEF OsKept

\* In the guest and outside, the operating system reads its own.
LEMMA OsKeptSeen ==
  ASSUME NEW p \in Procs, OsKept(p), proc[p] \in ProcType,
         NEW r \in PutBack(p) \cup (IF proc[p].mode = "guest" THEN {"enable", "lstar"} ELSE {})
  PROVE  View(sys.engine, sys.options, proc[p])[r] = os[p][r]
<1>1. proc[p].real \in [Regs -> Vals] BY DEF ProcType
<1>2. CASE proc[p].mode # "guest"
  <2>1. View(sys.engine, sys.options, proc[p]) = proc[p].real BY <1>2 DEF View
  <2>2. r \in PutBack(p) BY <1>2
  <2> QED BY <2>1, <2>2 DEF OsKept
<1>3. CASE proc[p].mode = "guest"
  <2>1. "lstar" \in VtMsrHook(sys.options) <=> Hooked(sys.options) BY DEF VtMsrHook, Hooked
  <2>2. "lstar" \in SvmMsrHook(sys.options) <=> Hooked(sys.options) BY DEF SvmMsrHook, Hooked
  <2>3. "efer" \in SvmMsrHook(sys.options) BY DEF SvmMsrHook
  <2>4. PutBack(p) \subseteq Regs \ {"enable", "lstar"} /\ "enable" \in Regs /\ "lstar" \in Regs BY PutBackRegs DEF Regs
  <2>5. CASE sys.engine = "vt"
    <3>1. View(sys.engine, sys.options, proc[p]) = VtView(sys.options, proc[p]) BY <1>3, <2>5 DEF View
    <3>2. /\ \A x \in Regs \ {"enable", "lstar"} : VtView(sys.options, proc[p])[x] = proc[p].real[x]
          /\ VtView(sys.options, proc[p])["enable"] = "off"
          /\ VtView(sys.options, proc[p])["lstar"] = IF Hooked(sys.options) THEN proc[p].vmsr ELSE proc[p].real["lstar"]
      BY <1>1, <2>1, <2>4 DEF VtView
    <3> QED BY <1>3, <2>4, <2>5, <3>1, <3>2 DEF OsKept, OsLstar
  <2>6. CASE sys.engine # "vt"
    <3>1. View(sys.engine, sys.options, proc[p]) = SvmView(sys.options, proc[p]) BY <1>3, <2>6 DEF View
    <3>2. /\ \A x \in Regs \ {"enable", "lstar"} : SvmView(sys.options, proc[p])[x] = proc[p].real[x]
          /\ SvmView(sys.options, proc[p])["enable"] = "off"
          /\ SvmView(sys.options, proc[p])["lstar"] =
               IF Hooked(sys.options) /\ proc[p].real["lstar"] = "hook" THEN "os" ELSE proc[p].real["lstar"]
      BY <1>1, <2>2, <2>3, <2>4 DEF SvmView
    <3> QED BY <1>3, <2>4, <2>6, <3>1, <3>2 DEF OsKept, OsLstar
  <2> QED BY <2>5, <2>6
<1> QED BY <1>2, <1>3

LEMMA SubvertProcessorOs ==
  ASSUME MemoryInv, Entered, NEW p \in Procs, SubvertProcessor(p), \A i \in Procs : OsKept(i)
  PROVE  \A i \in Procs : OsKept(i)'
<1>1. CASE Undefined BY <1>1 DEF Undefined, OsKept, PutBack
<1>2. CASE /\ \E fault \in Faults : proc' = [proc EXCEPT ![p] = Subverted(p, fault)]
           /\ Hook(p) /\ sys' = sys
  <2>1. /\ proc \in [Procs -> ProcType] /\ proc[p] \in ProcType /\ os \in [Procs -> [Regs -> Vals]]
        /\ proc[p].mode = "off" /\ proc[p].status = "off" /\ sys.engine \in Engines /\ "lstar" \in Regs
    BY PlanNow DEF SubvertProcessor, MemoryInv, HostTypeOK, Entered, Outside, Matched, Regs
  <2>2. PICK fault \in Faults : proc' = [proc EXCEPT ![p] = Subverted(p, fault)] BY <1>2
  <2> DEFINE q == Subverted(p, fault)
  <2>3. proc'[p] = q /\ \A i \in Procs : i # p => proc'[i] = proc[i] BY <2>1, <2>2
  <2>4. /\ \A i \in Procs : i # p => os'[i] = os[i]
        /\ \A r \in Regs \ {"lstar"} : os'[p][r] = os[p][r]
        /\ os'[p]["lstar"] = IF Hooked(sys.options) THEN "os" ELSE os[p]["lstar"]
    BY <1>2, <2>1 DEF Hook
  <2>5. Launched(sys.options, proc[p], q) /\ (sys.engine = "vt" /\ q.mode = "guest" => q.host["tr"] = proc[p].real["tr"])
    <3>1. CASE sys.engine = "vt"
      <4>1. q = VtSubvert(sys.options, sys.caps, proc[p], p, HostCr3, fault) BY <3>1 DEF Subverted
      <4> HIDE DEF q
      <4>2. LET v == VtSubvert(sys.options, sys.caps, proc[p], p, HostCr3, fault) IN
            /\ Launched(sys.options, proc[p], v)
            /\ v.mode # "off" => v.refs \subseteq VtUsed(p, sys.caps)
            /\ v.mode = "guest" => v.host["tr"] = proc[p].real["tr"]
        <5>1. proc[p] \in ProcType /\ proc[p].mode = "off" /\ proc[p].status = "off" BY <2>1
        <5> QED BY <5>1, VtLaunched
      <4> QED BY <4>1, <4>2
    <3>2. CASE sys.engine = "svm"
      <4>1. q = SvmSubvert(sys.options, proc[p], p, HostCr3) BY <3>2 DEF Subverted
      <4> HIDE DEF q
      <4> QED BY <2>1, <3>2, <4>1, SvmLaunched
    <3> QED BY <2>1, <3>1, <3>2 DEF Engines
  <2> HIDE DEF q
  <2>6. \A i \in Procs : PutBack(i)' = PutBack(i) BY <1>2 DEF PutBack
  <2>7. \A i \in {p} : OsKept(i)'
    <3>1. /\ os'[p]["enable"] = "off" /\ os'[p]["rip"] = "os" /\ \A r \in PutBack(p) : proc[p].real[r] = os[p][r]
          /\ "rip" \in PutBack(p) /\ PutBack(p) \subseteq Regs \ {"enable", "lstar"}
      BY <2>4, PutBackRegs DEF OsKept, Regs
    <3>2. ASSUME NEW r \in PutBack(p) PROVE q.real[r] = os'[p][r]
      <4>1. CASE r = "rip" BY <2>5, <3>1, <4>1 DEF Launched, OsKept
      <4>2. CASE r # "rip" BY <2>4, <2>5, <3>1, <4>2 DEF Launched
      <4> QED BY <4>1, <4>2
    <3>3. ~Hooked(sys.options) \/ q.mode = "guest" => OsLstar(sys.engine, sys.options, q) = os'[p]["lstar"]
      <4>1. CASE Hooked(sys.options) BY <2>4, <2>5, <4>1 DEF Launched, OsLstar
      <4>2. CASE ~Hooked(sys.options)
        <5>1. OsLstar(sys.engine, sys.options, proc[p]) = os[p]["lstar"] BY <4>2 DEF OsKept
        <5> QED BY <2>4, <2>5, <4>2, <5>1 DEF Launched, OsLstar
      <4> QED BY <4>1, <4>2
    <3>4. sys.engine = "vt" /\ q.mode = "guest" /\ "tr" \in PutBack(p) => q.host["tr"] = os'[p]["tr"]
      BY <2>4, <2>5, <3>1
    <3> QED BY <1>2, <2>3, <2>6, <3>1, <3>2, <3>3, <3>4 DEF OsKept, OsLstar
  <2>8. \A i \in Procs : i # p => OsKept(i)' BY <1>2, <2>3, <2>4, <2>6 DEF OsKept, OsLstar
  <2> QED BY <2>7, <2>8
<1> QED BY <1>1, <1>2 DEF SubvertProcessor

LEMMA RestoreProcessorOs ==
  ASSUME MemoryInv, Entered, NEW p \in Procs, RestoreProcessor(p), \A i \in Procs : OsKept(i)
  PROVE  \A i \in Procs : OsKept(i)'
<1>1. /\ proc \in [Procs -> ProcType] /\ proc[p] \in ProcType /\ os \in [Procs -> [Regs -> Vals]] /\ Matched(proc[p])
      /\ sys.engine \in Engines /\ "lstar" \in Regs
      /\ proc' = [proc EXCEPT ![p] = Restored(proc[p])] /\ Unhook(p) /\ sys' = sys
  BY PlanNow DEF RestoreProcessor, MemoryInv, HostTypeOK, Entered, Regs
<1> DEFINE q == Restored(proc[p])
<1>2. proc'[p] = q /\ \A i \in Procs : i # p => proc'[i] = proc[i] BY <1>1
<1>3. /\ \A i \in Procs : i # p => os'[i] = os[i]
      /\ \A r \in Regs \ {"lstar"} : os'[p][r] = os[p][r]
      /\ os'[p]["lstar"] = IF sys.engine = "svm" /\ proc[p].mode = "guest" THEN "os" ELSE os[p]["lstar"]
  BY <1>1 DEF Unhook
<1>4. /\ q.mode = "off"
      /\ \A r \in {"cr3", "cr4", "gdtr", "idtr", "rip"} : q.real[r] = proc[p].real[r]
      /\ q.real["tr"] = IF sys.engine = "vt" /\ proc[p].mode = "guest" THEN proc[p].host["tr"] ELSE proc[p].real["tr"]
      /\ sys.engine = "vt" /\ ~Hooked(sys.options) => q.real["lstar"] = proc[p].real["lstar"]
      /\ sys.engine = "svm" => q.real["lstar"] = IF proc[p].mode = "guest" THEN "os" ELSE proc[p].real["lstar"]
  <2>1. CASE sys.engine = "vt"
    <3>1. q = VtRestore(sys.options, proc[p]) BY <2>1 DEF Restored
    <3> HIDE DEF q
    <3> QED BY <1>1, <2>1, <3>1, VtRestored
  <2>2. CASE sys.engine = "svm"
    <3>1. q = SvmRestore(proc[p]) BY <2>2 DEF Restored
    <3> HIDE DEF q
    <3> QED BY <1>1, <2>2, <3>1, SvmRestored
  <2> QED BY <1>1, <2>1, <2>2 DEF Engines
<1> HIDE DEF q
<1>5. \A i \in Procs : PutBack(i)' = PutBack(i) BY <1>1 DEF PutBack
<1>6. \A i \in {p} : OsKept(i)'
  <2>1. /\ os'[p]["enable"] = "off" /\ os'[p]["rip"] = "os" /\ \A r \in PutBack(p) : proc[p].real[r] = os[p][r]
        /\ PutBack(p) \subseteq {"cr3", "cr4", "gdtr", "idtr", "rip", "tr"} /\ PutBack(p) \subseteq Regs \ {"enable", "lstar"}
    BY <1>3, PutBackRegs DEF OsKept, Regs
  <2>2. ASSUME NEW r \in PutBack(p) PROVE q.real[r] = os'[p][r]
    <3>1. os'[p][r] = os[p][r] /\ proc[p].real[r] = os[p][r] BY <1>3, <2>1
    <3>2. CASE r = "tr" BY <1>4, <3>1, <3>2 DEF OsKept
    <3>3. CASE r # "tr" BY <1>4, <2>1, <3>1, <3>3
    <3> QED BY <3>2, <3>3
  <2>3. ~Hooked(sys.options) => OsLstar(sys.engine, sys.options, q) = os'[p]["lstar"]
    <3> SUFFICES ASSUME ~Hooked(sys.options) PROVE q.real["lstar"] = os'[p]["lstar"] BY DEF OsLstar
    <3>1. proc[p].real["lstar"] = os[p]["lstar"] BY DEF OsKept, OsLstar
    <3> QED BY <1>1, <1>3, <1>4, <3>1 DEF Engines
  <2> QED BY <1>1, <1>2, <1>4, <1>5, <2>1, <2>2, <2>3 DEF OsKept, OsLstar
<1>7. \A i \in Procs : i # p => OsKept(i)' BY <1>1, <1>2, <1>3, <1>5 DEF OsKept, OsLstar
<1> QED BY <1>6, <1>7

LEMMA OsWritesOs ==
  ASSUME MemoryInv, NEW w \in Written, NEW v \in {"os", "os2"}, OsWrites(w[1], w[2], v),
         \A i \in Procs : OsKept(i)
  PROVE  \A i \in Procs : OsKept(i)'
<1> DEFINE p == w[1]
           r == w[2]
           engine == sys.engine
           options == sys.options
<1>1. w = <<p, r>> /\ p \in Procs /\ r \in Regs \ {"enable", "rip"} /\ w \in Written BY ConstantsAssumption
<1>2. /\ proc \in [Procs -> ProcType] /\ proc[p] \in ProcType /\ os \in [Procs -> [Regs -> Vals]]
      /\ proc[p].real \in [Regs -> Vals] /\ os[p] \in [Regs -> Vals]
  BY <1>1 DEF MemoryInv, HostTypeOK, ProcType
<1> DEFINE q == Write(engine, options, proc[p], r, v)
<1>3. proc' = [proc EXCEPT ![p] = q] /\ os' = [os EXCEPT ![p][r] = v] /\ sys' = sys BY DEF OsWrites
<1> HIDE DEF p, r
<1>4. proc'[p] = q /\ \A i \in Procs : i # p => proc'[i] = proc[i] BY <1>1, <1>2, <1>3
<1>5. /\ \A i \in Procs : i # p => os'[i] = os[i]
      /\ os'[p][r] = v /\ \A x \in Regs : x # r => os'[p][x] = os[p][x]
  BY <1>1, <1>2, <1>3
<1>6. q.mode = proc[p].mode /\ q.host = proc[p].host BY <1>2, WriteKeeps
\* The write goes to the register, but for LSTAR where it is hooked.
<1>7. /\ \A x \in Regs : x # r => q.real[x] = proc[p].real[x]
      /\ r # "lstar" \/ ~Hooked(options) => q.real[r] = v /\ q.vmsr = proc[p].vmsr
      /\ r # "lstar" => q.vmsr = proc[p].vmsr
      /\ r = "lstar" /\ Hooked(options) /\ q.mode = "guest" =>
           IF engine = "vt" THEN q.vmsr = v ELSE q.real[r] = IF v = "os" THEN "hook" ELSE v
  <2> DEFINE real(x) == [proc[p] EXCEPT !.real[r] = x]
             virtual == [proc[p] EXCEPT !.vmsr = v]
  <2>1. \A x : /\ real(x).real[r] = x /\ real(x).vmsr = proc[p].vmsr /\ real(x).mode = proc[p].mode
               /\ \A y \in Regs : y # r => real(x).real[y] = proc[p].real[y]
    BY <1>1, <1>2 DEF ProcType
  <2>2. virtual.real = proc[p].real /\ virtual.vmsr = v /\ virtual.mode = proc[p].mode BY <1>2 DEF ProcType
  <2>3. "lstar" \in VtMsrHook(options) <=> Hooked(options) BY DEF VtMsrHook, Hooked
  <2>4. "lstar" \in SvmMsrHook(options) <=> Hooked(options) BY DEF SvmMsrHook, Hooked
  <2>5. CASE engine = "vt"
    <3>1. q = IF proc[p].mode = "guest" /\ r = "lstar" /\ Hooked(options) THEN virtual ELSE real(v)
      BY <2>3, <2>5 DEF Write, VtWrite
    <3> HIDE DEF q, real, virtual
    <3> QED BY <2>1, <2>2, <2>5, <3>1
  <2>6. CASE engine # "vt"
    <3>1. q = IF proc[p].mode = "guest" /\ r = "lstar" /\ Hooked(options) /\ v = "os" THEN real("hook") ELSE real(v)
      BY <2>4, <2>6 DEF Write, SvmWrite
    <3> HIDE DEF q, real, virtual
    <3> QED BY <2>1, <2>6, <3>1
  <2> QED BY <2>5, <2>6
<1> HIDE DEF q
<1>8. \A i \in Procs : PutBack(i)' = PutBack(i) BY <1>3 DEF PutBack
<1>9. \A i \in {p} : OsKept(i)'
  <2>1. /\ os'[p]["enable"] = "off" /\ os'[p]["rip"] = "os"
        /\ PutBack(p) \subseteq Regs \ {"enable", "lstar"} /\ \A x \in PutBack(p) : proc[p].real[x] = os[p][x]
        /\ "lstar" \in Regs /\ OsKept(p)
    BY <1>1, <1>5, PutBackRegs DEF OsKept, Regs
  <2>2. ASSUME NEW x \in PutBack(p) PROVE q.real[x] = os'[p][x]
    <3>1. x # "lstar" /\ x \in Regs BY <2>1
    <3>2. CASE x = r BY <1>5, <1>7, <3>1, <3>2
    <3>3. CASE x # r BY <1>5, <1>7, <2>1, <3>1, <3>3
    <3> QED BY <3>2, <3>3
  <2>3. ASSUME ~Hooked(options) \/ q.mode = "guest" PROVE OsLstar(engine, options, q) = os'[p]["lstar"]
    <3>1. OsLstar(engine, options, proc[p]) = os[p]["lstar"] BY <1>6, <2>1, <2>3 DEF OsKept
    <3>2. CASE r # "lstar"
      <4>1. os'[p]["lstar"] = os[p]["lstar"] /\ q.real["lstar"] = proc[p].real["lstar"] /\ q.vmsr = proc[p].vmsr
        BY <1>5, <1>7, <2>1, <3>2
      <4> QED BY <3>1, <4>1 DEF OsLstar
    <3>3. CASE r = "lstar" /\ ~Hooked(options) BY <1>5, <1>7, <3>3 DEF OsLstar
    <3>4. CASE r = "lstar" /\ Hooked(options) BY <1>5, <1>7, <2>3, <3>4 DEF OsLstar
    <3> QED BY <3>2, <3>3, <3>4
  <2>4. ASSUME engine = "vt", q.mode = "guest", "tr" \in PutBack(p) PROVE q.host["tr"] = os'[p]["tr"]
    <3>1. r # "tr" BY <1>1, <2>4 DEF PutBack
    <3> QED BY <1>5, <1>6, <2>1, <2>4, <3>1 DEF OsKept
  <2>5. /\ \A x \in PutBack(p) : q.real[x] = os'[p][x]
        /\ ~Hooked(sys.options) \/ q.mode = "guest" => OsLstar(sys.engine, sys.options, q) = os'[p]["lstar"]
        /\ sys.engine = "vt" /\ q.mode = "guest" /\ "tr" \in PutBack(p) => q.host["tr"] = os'[p]["tr"]
    BY <2>2, <2>3, <2>4
  <2>6. os'[p]["enable"] = "off" /\ os'[p]["rip"] = "os" BY <2>1
  <2>7. sys' = sys /\ proc'[p] = q /\ p \in Procs BY <1>1, <1>3, <1>4
  <2> QED BY <1>8, <2>5, <2>6, <2>7 DEF OsKept, OsLstar
<1>10. \A i \in Procs : i # p => OsKept(i)' BY <1>3, <1>4, <1>5, <1>8 DEF OsKept, OsLstar
<1> QED BY <1>9, <1>10

LEMMA NextOsKept ==
  ASSUME MemoryInv, Entered, [HostNext]_hostVars, \A i \in Procs : OsKept(i)
  PROVE  \A i \in Procs : OsKept(i)'
<1>1. ASSUME UNCHANGED <<sys, proc, os>> PROVE \A i \in Procs : OsKept(i)' BY <1>1 DEF OsKept, PutBack
<1>2. CASE \E p \in Procs : SubvertProcessor(p) BY <1>2, SubvertProcessorOs
<1>3. CASE \E p \in Procs : RestoreProcessor(p) BY <1>3, RestoreProcessorOs
<1>4. CASE \E w \in Written, v \in {"os", "os2"} : OsWrites(w[1], w[2], v) BY <1>4, OsWritesOs
<1>5. CASE Prepare
  <2>1. \A n : Iommu(n) => UNCHANGED <<sys, proc, os>> BY DEF Iommu, Undefined
  <2>2. \A n : Allocate(n) => UNCHANGED <<sys, proc, os>> BY DEF Allocate
  <2>3. (Skip \/ Fail \/ Undefined) => UNCHANGED <<sys, proc, os>> BY DEF Skip, Fail, Undefined
  <2> QED BY <1>1, <1>5, <2>1, <2>2, <2>3, PrepareCases
<1>6. ASSUME NEW request, TearDown(request) PROVE UNCHANGED <<sys, proc, os>>
  <2>1. NoArray \/ (~NoArray /\ VirtualCpu \notin held) \/ (~NoArray /\ VirtualCpu \in held) OBVIOUS
  <2> QED BY <1>6, <2>1 DEF TearDown, NoArray, VirtualCpu, Undefined
<1>7. CASE Subvert \/ ResumeFromSleep \/ Launch \/ LaunchDone \/ RestoreDone
  BY <1>1, <1>7 DEF Subvert, ResumeFromSleep, Build, Launch, LaunchDone, RestoreDone, Undefined
<1>8. CASE Restore \/ Suspend \/ Unload BY <1>1, <1>6, <1>8 DEF Restore, Suspend, Unload, NothingToDo
<1>9. CASE (\E p \in Procs : HostLost(p)) \/ UNCHANGED hostVars BY <1>1, <1>9 DEF HostLost, Undefined, hostVars
<1> QED BY <1>2, <1>3, <1>4, <1>5, <1>7, <1>8, <1>9 DEF HostNext, Stopped

HostInv == MemoryInv /\ Entered /\ \A i \in Procs : OsKept(i)

LEMMA HostInvariant ==
  ASSUME ~BroadcastMayFail
  PROVE  HostSpec => []HostInv
<1>1. HostInit => HostInv BY InitMemory, InitEntered, InitOsKept DEF HostInv
<1>2. HostInv /\ [HostNext]_hostVars => HostInv'
  <2> SUFFICES ASSUME HostInv, [HostNext]_hostVars PROVE HostInv' OBVIOUS
  <2>1. MemoryInv' BY NextMemory DEF HostInv
  <2>2. Entered' BY NextEntered DEF HostInv
  <2>3. \A i \in Procs : OsKept(i)' BY NextOsKept DEF HostInv
  <2> QED BY <2>1, <2>2, <2>3 DEF HostInv
<1> QED BY <1>1, <1>2, PTL DEF HostSpec

\* Memory that a processor in VMX operation or in the guest uses is allocated: no
\* clean-up comes before every processor has left (nvc_vt_restore_system,
\* nvc_svm_restore_system, alloc_failure).  Of noir_generic_call the theorem takes
\* that it gets its buffer, without which processors are not brought out.
THEOREM UsedMemoryCorrect ==
  ASSUME ~BroadcastMayFail
  PROVE  HostSpec => []UsedMemoryHeld
<1>1. HostInv => UsedMemoryHeld BY DEF HostInv, Entered, UsedMemoryHeld, Spare
<1> QED BY <1>1, HostInvariant, PTL

\* The operating system reads what it last wrote, in the guest and after having
\* left it (nvc_vt_subvert_processor, nvc_svm_subvert_processor_i, the exit calls
\* and the emulations of LSTAR, CR4 and EFER).
THEOREM OsSeesItsOwnCorrect ==
  ASSUME ~BroadcastMayFail
  PROVE  HostSpec => []OsSeesItsOwn
<1>1. HostInv => OsSeesItsOwn
  <2> SUFFICES ASSUME HostInv, NEW p \in Procs,
                      NEW r \in PutBack(p) \cup (IF proc[p].mode = "guest" THEN {"enable", "lstar"} ELSE {})
               PROVE  View(sys.engine, sys.options, proc[p])[r] = os[p][r]
    BY DEF OsSeesItsOwn
  <2>1. OsKept(p) /\ proc[p] \in ProcType BY DEF HostInv, MemoryInv, HostTypeOK
  <2> QED BY <2>1, OsKeptSeen
<1> QED BY <1>1, HostInvariant, PTL

-----------------------------------------------------------------------------
(* SvmExits: what NoirVisor makes of a nested guest, for any number of     *)
(* VMCBs, nodes and contents, and what it leaves for the host's own        *)
(* processor.                                                              *)
(*                                                                         *)
(* The two halves meet only in the world that runs.  Of a field, NestedInv *)
(* says where its last content is: in L1's VMCB, in vmcb_t unless L1 has   *)
(* written the VMCB since, and in the processor while L2 runs.  That needs *)
(* the hash: no two nodes serve the same VMCB.                             *)

USE NestedAssumption, NestingAssumption

-----------------------------------------------------------------------------
(* Fields and contents.                                                    *)

\* What vmcb_t, the caches and the processor may hold of the field: only an ASID or a
\* page table is changed by the copy.
Contents == IF field \in {"asid", "npt"} THEN Copies ELSE Values
NodeSet == [vmcb_c : Vmcbs \cup {None}, clean : BOOLEAN, vmcb_t : Contents, bit : BOOLEAN]

LEMMA ContentsBounds ==
  /\ Values \subseteq Contents /\ Contents \subseteq Copies /\ 0 \in Contents
  /\ \A v \in Values : Convert(v) \in Contents
BY DEF Contents, Copies, Convert, Primary

\* A field that L2 changes is copied as it is, and copied back.
LEMMA RunningFields ==
  ASSUME field \in Running \cup Hidden
  PROVE  /\ Contents = Values /\ \A v : Convert(v) = v
         /\ field \notin Lost => (field \in Hidden <=> field \notin Saved)
BY DEF Running, Hidden, Contents, Convert, Lost, Saved

\* A field that vmrun copies, by its clean bit, or always.
LEMMA CopiedFields ==
  ASSUME field \in Fields, field \notin Hidden \cup Lost
  PROVE  /\ field \in AlwaysUncached \/ (field \in Uncached /\ field \in Invalidated)
         /\ field \in Running <=> field \in Saved
         /\ field \in AlwaysUncached => field \in Saved
BY DEF Fields, Controls, Running, Hidden, Lost, AlwaysUncached, Uncached, Invalidated, Saved

\* A register of vmload is neither copied by vmrun nor copied back.
LEMMA HiddenFields ==
  ASSUME field \in Hidden
  PROVE  field \notin AlwaysUncached \cup Uncached \cup Saved \cup Running /\ Contents = Values
BY DEF Hidden, AlwaysUncached, Uncached, Saved, Running, Controls, Contents

-----------------------------------------------------------------------------
(* The invariant of the nested guests.                                     *)

Typed ==
  /\ NestedTypeOK
  /\ node \in [Nodes -> NodeSet] /\ cache \in [Nodes -> Contents \cup {None}]
  /\ live \in Contents

Served(n) == node[n].vmcb_c \in Vmcbs
Interrupted(n) == world = "L2" /\ n = nested   \* its L2 runs, or is being served

\* A node serves a VMCB that its hash leads to, and L2 runs from a node.
Placed ==
  /\ \A n \in Nodes : Served(n) => hash[node[n].vmcb_c] = n
  /\ world = "L2" => Served(nested) /\ settled # "L1"

HiddenKept ==
  /\ world = "L1" /\ settled # "nowhere" => vmcb_l1 = hidden
  /\ world = "L1" /\ settled = "everywhere" => \A n \in Nodes : node[n].vmcb_t = hidden
  /\ world = "L2" /\ settled = "everywhere" => live = hidden

\* A clean vmcb_t that L1 has not written since is a copy of L1's VMCB.
Fresh(n) ==
  node[n].clean /\ Served(n) /\ node[n].vmcb_c \notin written /\ ~ Interrupted(n)
    => node[n].vmcb_t = Convert(vmcb_c[node[n].vmcb_c])

\* What the processor may have cached is what is in vmcb_t.
CacheAgrees(n) ==
  field \notin AlwaysUncached /\ node[n].bit /\ cache[n] # None => cache[n] = node[n].vmcb_t

FieldKept ==
  /\ \A x \in Vmcbs : bit[x] => x \notin written
  /\ \A x \in Vmcbs : ~ (world = "L2" /\ x = Current /\ field \in Saved) => vmcb_c[x] = expected[x]
  /\ world = "L2" => live = Convert(expected[Current])
  /\ \A n \in Nodes : Fresh(n) /\ CacheAgrees(n)

NestedInv ==
  /\ Typed /\ Placed
  /\ field \in Hidden => HiddenKept
  /\ field \notin Hidden \cup Lost => FieldKept
-----------------------------------------------------------------------------
(* The steps of L1.                                                        *)

LEMMA InitNested == NestedInit => NestedInv
<1> SUFFICES ASSUME NestedInit PROVE NestedInv
  OBVIOUS
<1> USE DEF NestedInit
<1>1. PICK v \in Values : /\ vmcb_c = [x \in Vmcbs |-> v] /\ vmcb_l1 = v /\ hidden = v
                          /\ node = [n \in Nodes |-> EmptyNode(v)]
  OBVIOUS
<1>2. EmptyNode(v) \in NodeSet BY ContentsBounds DEF EmptyNode, NodeSet
<1>3. NodeSet \subseteq [vmcb_c : Vmcbs \cup {None}, clean : BOOLEAN, vmcb_t : Copies, bit : BOOLEAN]
  BY ContentsBounds DEF NodeSet
<1>4. NestedTypeOK
  <2>1. node \in [Nodes -> NodeSet] /\ vmcb_c \in [Vmcbs -> Values] BY <1>1, <1>2
  <2>2. live \in Copies BY ContentsBounds
  <2> QED BY <1>1, <1>3, <2>1, <2>2 DEF NestedTypeOK
<1>5. Typed BY <1>1, <1>2, <1>4, ContentsBounds DEF Typed
<1>6. \A n \in Nodes : ~ Served(n) BY <1>1 DEF Served, EmptyNode
<1>7. Placed BY <1>6 DEF Placed
<1>8. HiddenKept BY DEF HiddenKept
<1>9. \A n \in Nodes : Fresh(n) /\ CacheAgrees(n) BY <1>6 DEF Fresh, CacheAgrees
<1>10. FieldKept BY <1>9 DEF FieldKept
<1> QED BY <1>5, <1>7, <1>8, <1>10 DEF NestedInv

\* L1 writes or marks its VMCBs, or loads a register.
LEMMA L1Steps ==
  ASSUME NestedInv, world = "L1", NEW x \in Vmcbs,
         L1WritesVmcb(x) \/ L1MarksClean(x) \/ L1ChangesHidden
  PROVE  NestedInv'
<1> USE DEF L1WritesVmcb, L1MarksClean, L1ChangesHidden
<1>1. Typed /\ Placed /\ NestedTypeOK BY DEF NestedInv, Typed
<1>2. /\ UNCHANGED <<field, hash, node, cache, nested, world, live>>
      /\ field \notin Hidden => UNCHANGED <<hidden, vmcb_l1, settled>>
  OBVIOUS
<1>3. Typed'
  <2>1. /\ vmcb_c' \in [Vmcbs -> Values] /\ expected' \in [Vmcbs -> Values] /\ bit' \in [Vmcbs -> BOOLEAN]
        /\ vmcb_l1' \in Values /\ hidden' \in Values /\ written' \subseteq Vmcbs
        /\ settled' \in {"nowhere", "L1", "everywhere"}
    <3>1. CASE L1WritesVmcb(x) BY <1>1, <3>1 DEF NestedTypeOK
    <3>2. CASE L1MarksClean(x) BY <1>1, <3>2 DEF NestedTypeOK
    <3>3. CASE L1ChangesHidden BY <1>1, <3>3 DEF NestedTypeOK
    <3> QED BY <3>1, <3>2, <3>3
  <2>2. NestedTypeOK' BY <1>1, <1>2, <2>1 DEF NestedTypeOK
  <2> QED BY <1>1, <1>2, <2>2 DEF Typed, NodeSet, Contents
<1>4. Placed' BY <1>1, <1>2 DEF Placed, Served
<1>5. ASSUME field \in Hidden PROVE HiddenKept'
  <2>1. HiddenKept BY <1>5 DEF NestedInv
  <2> QED BY <1>1, <2>1 DEF HiddenKept, NestedTypeOK
<1>6. ASSUME field \notin Hidden \cup Lost PROVE FieldKept'
  <2>1. FieldKept BY <1>6 DEF NestedInv
  <2>2. \A y \in Vmcbs : bit'[y] => y \notin written' BY <1>1, <1>6, <2>1 DEF FieldKept, NestedTypeOK
  <2>3. \A y \in Vmcbs : vmcb_c'[y] = expected'[y] BY <1>1, <1>6, <2>1 DEF FieldKept, NestedTypeOK
  <2>4. ASSUME NEW n \in Nodes PROVE Fresh(n)' /\ CacheAgrees(n)'
    <3>1. Fresh(n) /\ CacheAgrees(n) BY <2>1 DEF FieldKept
    <3>2. CacheAgrees(n)' BY <1>2, <3>1 DEF CacheAgrees
    <3>3. \A y \in Vmcbs \ written' : y \notin written /\ vmcb_c'[y] = vmcb_c[y]
      BY <1>1, <1>6 DEF NestedTypeOK
    <3>4. Fresh(n)' BY <1>2, <3>1, <3>3 DEF Fresh, Served, Convert, Interrupted
    <3> QED BY <3>2, <3>4
  <2> QED BY <1>2, <2>2, <2>3, <2>4 DEF FieldKept
<1> QED BY <1>2, <1>3, <1>4, <1>5, <1>6 DEF NestedInv

\* vmload and vmsave.
LEMMA HiddenSteps ==
  ASSUME NestedInv, world = "L1", NEW x \in Vmcbs, LoadHidden(x) \/ SaveHidden(x)
  PROVE  NestedInv'
<1> USE DEF LoadHidden, SaveHidden
<1>1. Typed /\ Placed /\ NestedTypeOK BY DEF NestedInv, Typed
<1>2. UNCHANGED <<field, hash, cache, nested, world, live, expected, written, bit>> OBVIOUS
<1>3. CASE field \notin Hidden
  <2>1. UNCHANGED <<vmcb_c, node, vmcb_l1, hidden>> BY <1>3
  <2>2. Typed' BY <1>1, <1>2, <2>1 DEF Typed, NestedTypeOK, NodeSet, Contents
  <2>3. Placed' BY <1>1, <1>2, <2>1 DEF Placed, Served
  <2>4. FieldKept => FieldKept'
    BY <1>2, <2>1 DEF FieldKept, Fresh, CacheAgrees, Served, Interrupted, Convert, Current
  <2> QED BY <1>2, <1>3, <2>2, <2>3, <2>4 DEF NestedInv
<1>4. CASE field \in Hidden
  <2>1. HiddenKept BY <1>4 DEF NestedInv
  <2>2. Contents = Values BY <1>4, HiddenFields
  <2>3. /\ vmcb_c' \in [Vmcbs -> Values] /\ vmcb_l1' \in Values /\ hidden' \in Values
        /\ settled' \in {"nowhere", "L1", "everywhere"}
    BY <1>1, <1>4 DEF NestedTypeOK
  <2>4. node' \in [Nodes -> NodeSet] /\ \A n \in Nodes : node'[n].vmcb_c = node[n].vmcb_c
    <3>1. node \in [Nodes -> NodeSet] /\ vmcb_c[x] \in Contents BY <1>1, <2>2 DEF Typed, NestedTypeOK
    <3>2. \A n \in Nodes : [node[n] EXCEPT !.vmcb_t = vmcb_c[x]] \in NodeSet BY <3>1 DEF NodeSet
    <3>3. CASE LoadHidden(x)
      <4>1. node' = [n \in Nodes |-> [node[n] EXCEPT !.vmcb_t = vmcb_c[x]]] BY <1>4, <3>3
      <4>2. node' \in [Nodes -> NodeSet] BY <3>2, <4>1
      <4> QED BY <3>1, <4>1, <4>2 DEF NodeSet
    <3>4. CASE SaveHidden(x) BY <3>1, <3>4
    <3> QED BY <3>3, <3>4
  <2>5. NodeSet \subseteq [vmcb_c : Vmcbs \cup {None}, clean : BOOLEAN, vmcb_t : Copies, bit : BOOLEAN]
    BY ContentsBounds DEF NodeSet
  <2>6. Typed'
    <3>1. node' \in [Nodes -> NodeSet'] BY <1>2, <2>4 DEF NodeSet, Contents
    <3>2. cache' \in [Nodes -> Contents' \cup {None}] /\ live' \in Contents'
      BY <1>1, <1>2 DEF Typed, Contents
    <3>3. NestedTypeOK' BY <1>1, <1>2, <2>3, <2>4, <2>5 DEF NestedTypeOK
    <3> QED BY <3>1, <3>2, <3>3 DEF Typed
  <2>7. Placed' BY <1>1, <1>2, <2>4 DEF Placed, Served
  <2>8. HiddenKept'
    <3>1. CASE LoadHidden(x)
      <4>1. /\ node' = [n \in Nodes |-> [node[n] EXCEPT !.vmcb_t = vmcb_c[x]]]
            /\ vmcb_l1' = vmcb_c[x] /\ hidden' = vmcb_c[x] /\ world' = "L1"
        BY <1>4, <3>1
      <4>2. \A n \in Nodes : node'[n].vmcb_t = vmcb_c[x] BY <1>1, <4>1 DEF Typed, NodeSet
      <4> QED BY <4>1, <4>2 DEF HiddenKept
    <3>2. CASE SaveHidden(x) BY <2>1, <3>2 DEF HiddenKept
    <3> QED BY <3>1, <3>2
  <2> QED BY <1>2, <1>4, <2>6, <2>7, <2>8 DEF NestedInv
<1> QED BY <1>3, <1>4
\* The node of x, and what vmrun makes of it.
LEMMA SwitchedNode ==
  ASSUME NestedInv, world = "L1", NEW x \in Vmcbs,
         NEW n, n = SwitchTo(NodeFor(x), x), NEW i, i = hash[x]
  PROVE  /\ i \in Nodes /\ n \in NodeSet /\ n.vmcb_c = x
         /\ field \in Hidden => n.vmcb_t = node[i].vmcb_t /\ Loads(n, i) = {n.vmcb_t}
         /\ field \notin Hidden \cup Lost =>
              n.vmcb_t = Convert(vmcb_c[x]) /\ Loads(n, i) = {n.vmcb_t}
         /\ Loads(n, i) \subseteq Contents
<1> DEFINE m == NodeFor(x)
           copied == field \in AlwaysUncached \/ (field \in Uncached /\ (~ m.clean \/ ~ bit[x]))
<1>1. Typed /\ Placed /\ NestedTypeOK BY DEF NestedInv, Typed
<1>2. i \in Nodes /\ node[i] \in NodeSet /\ bit[x] \in BOOLEAN BY <1>1 DEF Typed, NestedTypeOK
<1>3. /\ m \in NodeSet /\ m.vmcb_c = x /\ m.vmcb_t = node[i].vmcb_t /\ m.bit = node[i].bit
      /\ m.clean => node[i].clean /\ node[i].vmcb_c = x
  BY <1>2 DEF NodeFor, NodeSet
<1>4. Convert(vmcb_c[x]) \in Contents BY <1>1, ContentsBounds DEF NestedTypeOK
<1> HIDE DEF m
<1>5. n = [m EXCEPT !.vmcb_t = IF copied THEN Convert(vmcb_c[x]) ELSE m.vmcb_t,
                    !.bit = m.bit /\ ~ (copied /\ field \in Invalidated), !.clean = TRUE]
  BY DEF SwitchTo, m
<1>6. copied \in BOOLEAN BY <1>2, <1>3 DEF NodeSet
<1> HIDE DEF copied
<1>7. /\ n.vmcb_c = x /\ n.vmcb_t = (IF copied THEN Convert(vmcb_c[x]) ELSE m.vmcb_t)
      /\ n.bit = (m.bit /\ ~ (copied /\ field \in Invalidated))
  BY <1>3, <1>5 DEF NodeSet
<1>8. n \in NodeSet
  <2>1. (IF copied THEN Convert(vmcb_c[x]) ELSE m.vmcb_t) \in Contents BY <1>3, <1>4 DEF NodeSet
  <2>2. (m.bit /\ ~ (copied /\ field \in Invalidated)) \in BOOLEAN BY <1>3 DEF NodeSet
  <2> QED BY <1>3, <1>5, <2>1, <2>2 DEF NodeSet
<1>9. Loads(n, i) \subseteq Contents
  <2>1. n.vmcb_t \in Contents /\ cache[i] \in Contents \cup {None} BY <1>1, <1>2, <1>8 DEF NodeSet, Typed
  <2> QED BY <2>1 DEF Loads
<1>10. ASSUME field \in Hidden
       PROVE  n.vmcb_t = node[i].vmcb_t /\ Loads(n, i) = {n.vmcb_t}
  <2>1. ~ copied BY <1>10, HiddenFields DEF copied
  <2> QED BY <1>3, <1>7, <1>10, <2>1 DEF Loads
<1>11. ASSUME field \notin Hidden \cup Lost
       PROVE  n.vmcb_t = Convert(vmcb_c[x]) /\ Loads(n, i) = {n.vmcb_t}
  <2>1. field \in AlwaysUncached \/ (field \in Uncached /\ field \in Invalidated)
    BY <1>1, <1>11, CopiedFields DEF NestedTypeOK
  <2>2. FieldKept BY <1>11 DEF NestedInv
  <2>3. Fresh(i) /\ CacheAgrees(i) BY <1>2, <2>2 DEF FieldKept
  <2>4. CASE copied
    <3>1. n.vmcb_t = Convert(vmcb_c[x]) BY <1>7, <2>4
    <3>2. field \in AlwaysUncached \/ ~ n.bit BY <1>7, <2>1, <2>4
    <3> QED BY <3>1, <3>2 DEF Loads
  <2>5. CASE ~ copied
    <3>1. field \notin AlwaysUncached /\ m.clean /\ bit[x] BY <1>2, <1>3, <2>1, <2>5 DEF copied, NodeSet
    <3>2. node[i].clean /\ node[i].vmcb_c = x /\ x \notin written BY <1>3, <2>2, <3>1 DEF FieldKept
    <3>3. node[i].vmcb_t = Convert(vmcb_c[x]) BY <2>3, <3>2 DEF Fresh, Served, Interrupted
    <3>4. n.vmcb_t = Convert(vmcb_c[x]) BY <1>3, <1>7, <2>5, <3>3
    <3>5. n.bit => node[i].bit BY <1>3, <1>7
    <3>6. n.bit /\ cache[i] # None => cache[i] = n.vmcb_t BY <2>3, <3>1, <3>3, <3>4, <3>5 DEF CacheAgrees
    <3> QED BY <3>4, <3>6 DEF Loads
  <2> QED BY <2>4, <2>5
<1> QED BY <1>2, <1>7, <1>8, <1>9, <1>10, <1>11

\* vmrun: what L1 wrote is copied, what it did not is still in vmcb_t.
LEMMA EnterStep ==
  ASSUME NestedInv, world = "L1", NEW x \in Vmcbs, EnterNested(x)
  PROVE  NestedInv'
<1> DEFINE n == SwitchTo(NodeFor(x), x)
           i == hash[x]
<1>1. Typed /\ Placed /\ NestedTypeOK BY DEF NestedInv, Typed
<1>2. /\ nested' = i /\ world' = "L2" /\ live' \in Loads(n, i)
      /\ node' = [node EXCEPT ![i] = n] /\ cache' = [cache EXCEPT ![i] = live']
      /\ written' = written \ {x}
      /\ settled' = IF settled = "everywhere" THEN settled ELSE "nowhere"
      /\ UNCHANGED <<field, hash, vmcb_c, bit, vmcb_l1, expected, hidden>>
  BY DEF EnterNested
<1>3. /\ i \in Nodes /\ n \in NodeSet /\ n.vmcb_c = x
      /\ field \in Hidden => n.vmcb_t = node[i].vmcb_t /\ Loads(n, i) = {n.vmcb_t}
      /\ field \notin Hidden \cup Lost =>
           n.vmcb_t = Convert(vmcb_c[x]) /\ Loads(n, i) = {n.vmcb_t}
      /\ Loads(n, i) \subseteq Contents
  BY SwitchedNode
<1> HIDE DEF n
<1>4. node'[i] = n /\ \A j \in Nodes \ {i} : node'[j] = node[j] /\ cache'[j] = cache[j]
  BY <1>1, <1>2, <1>3 DEF Typed
<1>5. live' \in Contents /\ node' \in [Nodes -> NodeSet] /\ cache' \in [Nodes -> Contents \cup {None}]
  BY <1>1, <1>2, <1>3 DEF Typed
<1>6. Typed'
  <2>1. NodeSet' = NodeSet /\ Contents' = Contents BY <1>2 DEF NodeSet, Contents
  <2>2. /\ NodeSet \subseteq [vmcb_c : Vmcbs \cup {None}, clean : BOOLEAN, vmcb_t : Copies, bit : BOOLEAN]
        /\ Contents \subseteq Copies
    BY ContentsBounds DEF NodeSet
  <2>3. NestedTypeOK' BY <1>1, <1>2, <1>3, <1>5, <2>2 DEF NestedTypeOK
  <2> QED BY <1>5, <2>1, <2>3 DEF Typed
<1>7. Placed'
  <2>1. \A j \in Nodes : Served(j)' => hash[node'[j].vmcb_c] = j
    BY <1>1, <1>3, <1>4 DEF Placed, Served
  <2> QED BY <1>2, <1>3, <1>4, <2>1 DEF Placed, Served
<1>8. ASSUME field \in Hidden PROVE HiddenKept'
  <2>1. HiddenKept BY <1>8 DEF NestedInv
  <2> QED BY <1>2, <1>3, <1>8, <2>1 DEF HiddenKept
<1>9. ASSUME field \notin Hidden \cup Lost PROVE FieldKept'
  <2>1. FieldKept BY <1>9 DEF NestedInv
  <2>2. Current' = x BY <1>2, <1>3, <1>4 DEF Current
  <2>3. live' = n.vmcb_t /\ live' = Convert(vmcb_c[x]) /\ vmcb_c = expected
    <3>1. \A y \in Vmcbs : vmcb_c[y] = expected[y] BY <2>1 DEF FieldKept
    <3> QED BY <1>1, <1>2, <1>3, <1>9, <3>1 DEF NestedTypeOK
  <2>4. ASSUME NEW j \in Nodes PROVE Fresh(j)' /\ CacheAgrees(j)'
    <3>1. CASE j = i
      <4>1. Interrupted(j)' BY <1>2, <3>1 DEF Interrupted
      <4>2. cache'[i] = live' BY <1>1, <1>2, <1>3 DEF Typed
      <4> QED BY <1>4, <2>3, <3>1, <4>1, <4>2 DEF Fresh, CacheAgrees
    <3>2. CASE j # i
      <4>1. Fresh(j) /\ CacheAgrees(j) BY <2>1 DEF FieldKept
      <4>2. node'[j] = node[j] /\ cache'[j] = cache[j] BY <1>4, <3>2
      <4>3. node[j].vmcb_c # x BY <1>1, <3>2 DEF Placed, Served
      <4> QED BY <1>2, <4>1, <4>2, <4>3 DEF Fresh, CacheAgrees, Served, Interrupted, Convert
    <3> QED BY <3>1, <3>2
  <2>5. \A y \in Vmcbs : bit'[y] => y \notin written' BY <1>2, <2>1 DEF FieldKept
  <2>6. Convert(vmcb_c[x])' = Convert(vmcb_c[x]) BY <1>2 DEF Convert
  <2>7. live' = Convert(expected[Current])' BY <1>2, <2>2, <2>3, <2>6
  <2> QED BY <1>2, <2>2, <2>3, <2>4, <2>5, <2>7 DEF FieldKept
<1> QED BY <1>2, <1>6, <1>7, <1>8, <1>9 DEF NestedInv
-----------------------------------------------------------------------------
(* L2 and its exits.                                                       *)

\* What holds of L2 as it runs.
LEMMA InL2 ==
  ASSUME NestedInv, world = "L2"
  PROVE  /\ nested \in Nodes /\ Current \in Vmcbs /\ node[nested] \in NodeSet
         /\ settled # "L1" /\ Interrupted(nested)
         /\ \A n \in Nodes : Served(n) /\ node[n].vmcb_c = Current => n = nested
         /\ Exited \in NodeSet /\ Exited.vmcb_c = Current /\ Exited.vmcb_t = live
<1>1. nested \in Nodes /\ node[nested] \in NodeSet /\ live \in Contents
  BY DEF NestedInv, Typed, NestedTypeOK
<1>2. Current \in Vmcbs /\ settled # "L1" BY DEF NestedInv, Placed, Served, Current
<1>3. Interrupted(nested) BY DEF Interrupted
<1>4. \A n \in Nodes : Served(n) /\ node[n].vmcb_c = Current => n = nested
  <2>1. hash[Current] = nested BY <1>1, <1>2 DEF NestedInv, Placed, Served, Current
  <2> QED BY <2>1 DEF NestedInv, Placed
<1>5. Exited \in NodeSet /\ Exited.vmcb_c = Current /\ Exited.vmcb_t = live
  BY <1>1 DEF Exited, NodeSet, Current
<1> QED BY <1>1, <1>2, <1>3, <1>4, <1>5

LEMMA L2Step ==
  ASSUME NestedInv, L2Runs
  PROVE  NestedInv'
<1>1. Typed /\ Placed /\ NestedTypeOK BY DEF NestedInv, Typed
<1>2. /\ world = "L2" /\ field \in Running \cup Hidden /\ live' \in Values
      /\ UNCHANGED <<field, hash, vmcb_c, bit, node, cache, vmcb_l1, nested, world, settled, written>>
  BY DEF L2Runs
<1>3. IF field \in Hidden
        THEN hidden' = live' /\ UNCHANGED expected
        ELSE expected' = [expected EXCEPT ![Current] = live'] /\ UNCHANGED hidden
  BY DEF L2Runs
<1>4. Current \in Vmcbs /\ Contents = Values /\ (\A v : Convert(v) = v)
  BY <1>2, InL2, RunningFields
<1>5. expected' \in [Vmcbs -> Values] /\ hidden' \in Values /\ live' \in Contents
  BY <1>1, <1>2, <1>3, <1>4 DEF NestedTypeOK
<1>6. Typed'
  <2>1. live' \in Copies BY <1>5, ContentsBounds
  <2>2. NestedTypeOK' BY <1>1, <1>2, <1>5, <2>1 DEF NestedTypeOK
  <2> QED BY <1>1, <1>2, <1>5, <2>2 DEF Typed, NodeSet, Contents
<1>7. Placed' BY <1>1, <1>2 DEF Placed, Served
<1>8. ASSUME field \in Hidden PROVE HiddenKept' BY <1>2, <1>3, <1>8 DEF HiddenKept
<1>9. ASSUME field \notin Hidden \cup Lost PROVE FieldKept'
  <2>1. FieldKept BY <1>9 DEF NestedInv
  <2>2. field \in Saved /\ Current' = Current BY <1>2, <1>9, RunningFields DEF Current
  <2>3. expected' = [expected EXCEPT ![Current] = live'] BY <1>3, <1>9
  <2>4. \A x \in Vmcbs : ~ (world' = "L2" /\ x = Current' /\ field' \in Saved) => vmcb_c'[x] = expected'[x]
    BY <1>1, <1>2, <2>1, <2>2, <2>3 DEF FieldKept, NestedTypeOK
  <2>5. live' = Convert(expected[Current])'
    <3>1. expected'[Current] = live' BY <1>1, <1>4, <2>3 DEF NestedTypeOK
    <3>2. Convert(expected[Current])' = expected'[Current'] BY <1>2, RunningFields DEF Convert, Running, Hidden
    <3> QED BY <2>2, <3>1, <3>2
  <2>6. \A n \in Nodes : Fresh(n)' /\ CacheAgrees(n)'
    BY <1>2, <2>1 DEF FieldKept, Fresh, CacheAgrees, Served, Interrupted, Convert
  <2> QED BY <1>2, <2>1, <2>4, <2>5, <2>6 DEF FieldKept
<1> QED BY <1>2, <1>6, <1>7, <1>8, <1>9 DEF NestedInv

LEMMA ForwardStep ==
  ASSUME NestedInv, ForwardExit
  PROVE  NestedInv'
<1>1. Typed /\ Placed /\ NestedTypeOK BY DEF NestedInv, Typed
<1>2. /\ world = "L2" /\ world' = "L1" /\ live' = 0
      /\ node' = [node EXCEPT ![nested] = Exited] /\ cache' = [cache EXCEPT ![nested] = live]
      /\ vmcb_c' = IF field \in Saved THEN [vmcb_c EXCEPT ![Current] = live] ELSE vmcb_c
      /\ vmcb_l1' = IF field \in Hidden THEN live ELSE vmcb_l1
      /\ settled' = IF settled = "everywhere" THEN "L1" ELSE settled
      /\ UNCHANGED <<field, hash, bit, nested, expected, hidden, written>>
  BY DEF ForwardExit
<1>3. /\ nested \in Nodes /\ Current \in Vmcbs /\ settled # "L1" /\ live \in Contents
      /\ \A n \in Nodes : Served(n) /\ node[n].vmcb_c = Current => n = nested
      /\ Exited \in NodeSet /\ Exited.vmcb_c = Current /\ Exited.vmcb_t = live
  BY <1>1, <1>2, InL2 DEF Typed
<1>4. /\ node'[nested] = Exited /\ cache'[nested] = live
      /\ \A n \in Nodes \ {nested} : node'[n] = node[n] /\ cache'[n] = cache[n]
      /\ node' \in [Nodes -> NodeSet] /\ cache' \in [Nodes -> Contents \cup {None}]
  BY <1>1, <1>2, <1>3 DEF Typed
<1>5. field \in Saved \cup Hidden => Contents = Values
  <2>1. field \in Saved => field \in Running BY DEF Saved
  <2> QED BY <2>1, RunningFields
<1>6. vmcb_c' \in [Vmcbs -> Values] /\ vmcb_l1' \in Values
  BY <1>1, <1>2, <1>3, <1>5 DEF NestedTypeOK
<1>7. Typed'
  <2>1. NodeSet' = NodeSet /\ Contents' = Contents BY <1>2 DEF NodeSet, Contents
  <2>2. /\ NodeSet \subseteq [vmcb_c : Vmcbs \cup {None}, clean : BOOLEAN, vmcb_t : Copies, bit : BOOLEAN]
        /\ Contents \subseteq Copies /\ 0 \in Contents
    BY ContentsBounds DEF NodeSet
  <2>3. NestedTypeOK' BY <1>1, <1>2, <1>4, <1>6, <2>2 DEF NestedTypeOK
  <2> QED BY <1>2, <1>4, <2>1, <2>2, <2>3 DEF Typed
<1>8. \A n \in Nodes : node'[n].vmcb_c = node[n].vmcb_c BY <1>3, <1>4 DEF Current
<1>9. Placed' BY <1>1, <1>2, <1>8 DEF Placed, Served
<1>10. ASSUME field \in Hidden PROVE HiddenKept'
  <2>1. HiddenKept BY <1>10 DEF NestedInv
  <2>2. settled \in {"nowhere", "everywhere"} BY <1>1, <1>3 DEF NestedTypeOK
  <2> QED BY <1>2, <1>10, <2>1, <2>2 DEF HiddenKept
<1>11. ASSUME field \notin Hidden \cup Lost PROVE FieldKept'
  <2>1. FieldKept BY <1>11 DEF NestedInv
  <2>2. live = Convert(expected[Current]) BY <1>2, <2>1 DEF FieldKept
  <2>3. field \in Saved => \A v : Convert(v) = v
    <3>1. field \in Saved => field \in Running BY DEF Saved
    <3> QED BY <3>1, RunningFields
  <2>4. \A x \in Vmcbs : vmcb_c'[x] = expected'[x]
    <3>1. CASE field \in Saved
      <4>1. vmcb_c' = [vmcb_c EXCEPT ![Current] = live] /\ live = expected[Current]
        BY <1>2, <2>2, <2>3, <3>1
      <4>2. \A x \in Vmcbs \ {Current} : vmcb_c[x] = expected[x] BY <2>1 DEF FieldKept
      <4> QED BY <1>1, <1>2, <4>1, <4>2 DEF NestedTypeOK
    <3>2. CASE field \notin Saved BY <1>2, <2>1, <3>2 DEF FieldKept
    <3> QED BY <3>1, <3>2
  <2>5. \A v : Convert(v)' = Convert(v') BY <1>2 DEF Convert
  <2>6. ASSUME NEW n \in Nodes PROVE Fresh(n)' /\ CacheAgrees(n)'
    <3>1. Fresh(n) /\ CacheAgrees(n) BY <2>1 DEF FieldKept
    <3>2. CASE n = nested
      <4>1. CacheAgrees(n)' BY <1>3, <1>4, <3>2 DEF CacheAgrees
      <4>2. node'[n].vmcb_t = Convert(vmcb_c'[Current])
        BY <1>2, <1>3, <1>4, <2>2, <2>4, <3>2
      <4>3. Fresh(n)' BY <1>2, <1>3, <1>4, <3>2, <4>2 DEF Fresh, Convert
      <4> QED BY <4>1, <4>3
    <3>3. CASE n # nested
      <4>1. node'[n] = node[n] /\ cache'[n] = cache[n] BY <1>4, <3>3
      <4>2. CacheAgrees(n)' BY <1>2, <3>1, <4>1 DEF CacheAgrees
      <4>3. \A x \in Vmcbs \ {Current} : vmcb_c'[x] = vmcb_c[x] BY <1>1, <1>2 DEF NestedTypeOK
      <4>4. Fresh(n)'
        BY <1>2, <1>3, <3>1, <3>3, <4>1, <4>3 DEF Fresh, Served, Interrupted, Convert
      <4> QED BY <4>2, <4>4
    <3> QED BY <3>2, <3>3
  <2>7. \A x \in Vmcbs : bit'[x] => x \notin written' BY <1>2, <2>1 DEF FieldKept
  <2> QED BY <1>2, <2>4, <2>6, <2>7 DEF FieldKept
<1> QED BY <1>2, <1>7, <1>9, <1>10, <1>11 DEF NestedInv
\* NoirVisor serves a cpuid of L2 itself: of the fields only the general registers change.
LEMMA CpuidStep ==
  ASSUME NestedInv, HandleCpuid
  PROVE  NestedInv'
<1>1. Typed /\ Placed /\ NestedTypeOK BY DEF NestedInv, Typed
<1>2. PICK v \in Values :
        LET e == IF field \in AlwaysUncached THEN [Exited EXCEPT !.vmcb_t = v] ELSE Exited
        IN node' = [node EXCEPT ![nested] = e] /\ live' = e.vmcb_t
  BY DEF HandleCpuid
<1> DEFINE e == IF field \in AlwaysUncached THEN [Exited EXCEPT !.vmcb_t = v] ELSE Exited
<1>3. /\ world = "L2" /\ node' = [node EXCEPT ![nested] = e] /\ live' = e.vmcb_t
      /\ cache' = [cache EXCEPT ![nested] = live']
      /\ expected' = IF field \in AlwaysUncached THEN [expected EXCEPT ![Current] = live'] ELSE expected
      /\ UNCHANGED <<field, hash, vmcb_c, bit, vmcb_l1, nested, world, hidden, settled, written>>
  BY <1>2 DEF HandleCpuid
<1>4. /\ nested \in Nodes /\ Current \in Vmcbs /\ live \in Contents
      /\ \A n \in Nodes : Served(n) /\ node[n].vmcb_c = Current => n = nested
      /\ Exited \in NodeSet /\ Exited.vmcb_c = Current /\ Exited.vmcb_t = live
  BY <1>1, <1>3, InL2 DEF Typed
<1>5. /\ e \in NodeSet /\ e.vmcb_c = Current
      /\ e.vmcb_t = IF field \in AlwaysUncached THEN v ELSE live
  BY <1>4, ContentsBounds DEF NodeSet
<1> HIDE DEF e
<1>6. /\ node'[nested] = e /\ cache'[nested] = live' /\ live' \in Contents
      /\ \A n \in Nodes \ {nested} : node'[n] = node[n] /\ cache'[n] = cache[n]
      /\ node' \in [Nodes -> NodeSet] /\ cache' \in [Nodes -> Contents \cup {None}]
  <2>1. live' \in Contents BY <1>3, <1>5 DEF NodeSet
  <2> QED BY <1>1, <1>3, <1>4, <1>5, <2>1 DEF Typed
<1>7. expected' \in [Vmcbs -> Values] BY <1>1, <1>3, <1>5 DEF NestedTypeOK
<1>8. Typed'
  <2>1. NodeSet' = NodeSet /\ Contents' = Contents BY <1>3 DEF NodeSet, Contents
  <2>2. /\ NodeSet \subseteq [vmcb_c : Vmcbs \cup {None}, clean : BOOLEAN, vmcb_t : Copies, bit : BOOLEAN]
        /\ Contents \subseteq Copies
    BY ContentsBounds DEF NodeSet
  <2>3. NestedTypeOK' BY <1>1, <1>3, <1>6, <1>7, <2>2 DEF NestedTypeOK
  <2> QED BY <1>6, <2>1, <2>3 DEF Typed
<1>9. \A n \in Nodes : node'[n].vmcb_c = node[n].vmcb_c BY <1>4, <1>5, <1>6 DEF Current
<1>10. Placed' BY <1>1, <1>3, <1>4, <1>9 DEF Placed, Served
<1>11. ASSUME field \in Hidden PROVE HiddenKept'
  <2>1. HiddenKept BY <1>11 DEF NestedInv
  <2>2. live' = live BY <1>3, <1>5, <1>11, HiddenFields
  <2> QED BY <1>3, <2>1, <2>2 DEF HiddenKept
<1>12. ASSUME field \notin Hidden \cup Lost PROVE FieldKept'
  <2>1. FieldKept BY <1>12 DEF NestedInv
  <2>2. Current' = Current BY <1>3, <1>4, <1>9 DEF Current
  <2>3. field \in AlwaysUncached => field \in Saved /\ \A u : Convert(u) = u
    <3>1. field \in AlwaysUncached => field \in Running BY DEF AlwaysUncached, Running
    <3> QED BY <1>1, <1>12, <3>1, CopiedFields, RunningFields DEF NestedTypeOK
  <2>4. \A u : Convert(u)' = Convert(u') BY <1>3 DEF Convert
  <2>5. live' = Convert(expected'[Current])
    <3>1. CASE field \in AlwaysUncached
      <4>1. expected'[Current] = live' BY <1>1, <1>3, <1>4, <3>1 DEF NestedTypeOK
      <4> QED BY <2>3, <3>1, <4>1
    <3>2. CASE field \notin AlwaysUncached BY <1>3, <1>5, <2>1, <3>2 DEF FieldKept
    <3> QED BY <3>1, <3>2
  <2>6. \A x \in Vmcbs : ~ (world' = "L2" /\ x = Current' /\ field' \in Saved) => vmcb_c'[x] = expected'[x]
    BY <1>1, <1>3, <2>1, <2>2, <2>3 DEF FieldKept, NestedTypeOK
  <2>7. ASSUME NEW n \in Nodes PROVE Fresh(n)' /\ CacheAgrees(n)'
    <3>1. Fresh(n) /\ CacheAgrees(n) BY <2>1 DEF FieldKept
    <3>2. CASE n = nested
      <4>1. node'[n].vmcb_t = live' BY <1>3, <1>6, <3>2
      <4> QED BY <1>3, <1>6, <3>2, <4>1 DEF Fresh, CacheAgrees, Interrupted
    <3>3. CASE n # nested
      <4>1. node'[n] = node[n] /\ cache'[n] = cache[n] BY <1>6, <3>3
      <4> QED BY <1>3, <3>1, <3>3, <4>1 DEF Fresh, CacheAgrees, Served, Interrupted, Convert
    <3> QED BY <3>2, <3>3
  <2>8. \A x \in Vmcbs : bit'[x] => x \notin written' BY <1>3, <2>1 DEF FieldKept
  <2>9. live' = Convert(expected[Current])' BY <1>3, <2>2, <2>5 DEF Convert
  <2> QED BY <2>6, <2>7, <2>8, <2>9 DEF FieldKept
<1> QED BY <1>3, <1>8, <1>10, <1>11, <1>12 DEF NestedInv

\* What no step about the nested guests touches.
LEMMA NestedUnmoved ==
  ASSUME NestedInv, UNCHANGED nested_vars
  PROVE  NestedInv'
BY DEF NestedInv, Typed, NestedTypeOK, Contents, NodeSet, Placed, Served, HiddenKept, FieldKept,
       Fresh, Interrupted, CacheAgrees, Convert, Current, nested_vars

\* The steps about the nested guests are those of L1, in its world, and those of L2.
LEMMA NestedSteps ==
  ASSUME [Next]_vars
  PROVE  \/ UNCHANGED nested_vars
         \/ L2Runs \/ ForwardExit \/ HandleCpuid
         \/ world = "L1" /\ L1ChangesHidden
         \/ world = "L1" /\ \E x \in Vmcbs :
              \/ L1WritesVmcb(x) \/ L1MarksClean(x)
              \/ LoadHidden(x) \/ SaveHidden(x) \/ EnterNested(x)
<1>1. CASE UNCHANGED vars BY <1>1 DEF vars
<1>2. CASE Nested BY <1>2 DEF Nested, NestedExit
<1>3. CASE SvmInstruction
  BY <1>3 DEF SvmInstruction, SvmInstructionFaults, Stgi, Clgi, Invlpga, Vmrun, Vmload, Vmsave, Plain, Handle
<1>4. CASE Resume \/ Cr4Write \/ StoreTable \/ StoreSelector \/ PageFault \/ NestedPageFault
  BY <1>4 DEF Resume, Cr4Write, StoreTable, StoreSelector, Store, PageFault, NestedPageFault
<1>5. CASE Exception \/ InitSignal \/ SendSipi
  BY <1>5 DEF Exception, DebugException, MachineCheck, Nmi, OtherException, InitSignal, InitPended,
       InitRedirected, InitEmulated, StartUp, SendSipi
<1>6. CASE Cpuid \/ Msr \/ Vmmcall
  BY <1>6 DEF Cpuid, Msr, Rdmsr, WrmsrEfer, WrmsrVmcr, WrmsrNpiep, WrmsrOther,
       Vmmcall, CallExit, VmmcallFlushTlb, VmmcallOther
<1> QED BY <1>1, <1>2, <1>3, <1>4, <1>5, <1>6 DEF Next

LEMMA NestedNext ==
  ASSUME NestedInv, [Next]_vars
  PROVE  NestedInv'
BY NestedSteps, NestedUnmoved, L2Step, ForwardStep, CpuidStep, L1Steps, HiddenSteps, EnterStep
-----------------------------------------------------------------------------
(* The host's own exits.                                                   *)

HostTypes ==
  /\ phase \in {"guest", "handled", "wait_for_sipi", "off"}
  /\ clean \subseteq Groups /\ stale \subseteq Groups
  /\ flush \in Flushes /\ owed \in Flushes
  /\ umip \in BOOLEAN /\ npiep \subseteq Stores /\ list1 \subseteq Stores
  /\ hcr3 \in {"system", "process"} /\ restarted \in BOOLEAN /\ unguarded \in BOOLEAN
  /\ svme \in BOOLEAN /\ gif \in BOOLEAN /\ r_init \in BOOLEAN
  /\ pending \subseteq {"db", "mc", "nmi", "init"} /\ sipi_sent \in BOOLEAN

\* While an exit is handled, or waits for the SIPI that ends it, what it wrote is unmarked
\* and the flush it owes is asked for; the SIPI has CS to write.
Synchronized ==
  /\ phase \in {"handled", "wait_for_sipi"} => stale \cap clean = {} /\ Covers(flush, owed)
  /\ phase = "wait_for_sipi" => "segment_reg" \notin clean

\* What is intercepted for NPIEP was asked for, and is what it asks for until INIT resets
\* CR4; who asked for sldt or str had asked for sgdt.
Guarded ==
  /\ list1 \subseteq npiep
  /\ ~ restarted => list1 = {i \in npiep : ~ umip}
  /\ ~ unguarded => /\ hcr3 = "system"
                    /\ npiep \cap {"sldt", "str"} # {} => "sgdt" \in npiep

HostVmcbInv == HostTypes /\ Synchronized /\ Guarded

\* An exit whose handler unmarks all the groups it writes, and asks for the flush it owes.
LEMMA Handled ==
  ASSUME NEW W \in SUBSET Groups, NEW U \in SUBSET Groups, W \subseteq U,
         NEW f \in Flushes, Handle(W, U, f), owed' \in Flushes, Covers(f, owed')
  PROVE  /\ Synchronized' /\ phase' = "handled"
         /\ clean' \subseteq Groups /\ stale' \subseteq Groups /\ flush' \in Flushes
BY DEF Handle, Synchronized, Covers

LEMMA PlainHandled ==
  ASSUME Plain
  PROVE  /\ Synchronized' /\ phase' = "handled" /\ owed' \in Flushes
         /\ clean' \subseteq Groups /\ stale' \subseteq Groups /\ flush' \in Flushes
BY DEF Plain, Handle, Synchronized, Covers, Flushes

\* What a handler that leaves NPIEP alone has to show.
LEMMA NpiepUnmoved ==
  ASSUME HostVmcbInv, UNCHANGED npiep_vars, Synchronized',
         phase' \in {"guest", "handled", "wait_for_sipi", "off"},
         clean' \subseteq Groups /\ stale' \subseteq Groups, flush' \in Flushes /\ owed' \in Flushes,
         svme' \in BOOLEAN /\ gif' \in BOOLEAN /\ r_init' \in BOOLEAN /\ sipi_sent' \in BOOLEAN,
         pending' \subseteq {"db", "mc", "nmi", "init"}
  PROVE  HostVmcbInv'
BY DEF HostVmcbInv, HostTypes, Guarded, npiep_vars

\* Exits that write nothing of the VMCB.
LEMMA PlainSteps ==
  ASSUME HostVmcbInv, Plain, UNCHANGED <<npiep_vars, sipi_sent>>,
         \/ UNCHANGED nested_hvm
         \/ pending' \subseteq pending \cup {"db", "mc", "nmi", "init"} /\ UNCHANGED <<svme, gif, r_init>>
         \/ gif' \in BOOLEAN /\ UNCHANGED <<svme, r_init, pending>>
         \/ r_init' \in BOOLEAN /\ UNCHANGED <<svme, gif, pending>>
  PROVE  HostVmcbInv'
<1>1. HostTypes BY DEF HostVmcbInv
<1>2. /\ Synchronized' /\ phase' = "handled" /\ owed' \in Flushes
      /\ clean' \subseteq Groups /\ stale' \subseteq Groups /\ flush' \in Flushes
  BY PlainHandled
<1>3. /\ svme' \in BOOLEAN /\ gif' \in BOOLEAN /\ r_init' \in BOOLEAN /\ sipi_sent' \in BOOLEAN
      /\ pending' \subseteq {"db", "mc", "nmi", "init"}
  BY <1>1 DEF HostTypes, nested_hvm
<1> QED BY <1>2, <1>3, NpiepUnmoved

\* Exits that write groups of the VMCB or owe a flush.
LEMMA WritingSteps ==
  ASSUME HostVmcbInv,
         \/ PageFault \/ NestedPageFault \/ WrmsrEfer \/ VmmcallFlushTlb
  PROVE  HostVmcbInv'
<1>1. HostTypes BY DEF HostVmcbInv
<1>2. UNCHANGED <<npiep_vars, sipi_sent, gif, r_init, pending>> /\ svme' \in BOOLEAN
  BY <1>1 DEF PageFault, NestedPageFault, WrmsrEfer, VmmcallFlushTlb, HostTypes, nested_hvm
<1>3. \/ Plain
      \/ \E U \in SUBSET Groups, f \in Flushes : \E W \in {{}, U} :
           Handle(W, U, f) /\ owed' = f
  <2>1. /\ {"control_reg"} \in SUBSET Groups /\ {"cr2"} \in SUBSET Groups /\ {"npt"} \in SUBSET Groups
        /\ "nothing" \in Flushes /\ "non_global" \in Flushes /\ "guest" \in Flushes
    BY DEF Groups, Flushes
  <2>2. CASE PageFault BY <2>1, <2>2 DEF PageFault
  <2>3. CASE NestedPageFault BY <2>1, <2>3 DEF NestedPageFault
  <2>4. CASE WrmsrEfer BY <2>1, <2>4 DEF WrmsrEfer
  <2>5. CASE VmmcallFlushTlb BY <2>1, <2>5 DEF VmmcallFlushTlb
  <2> QED BY <2>2, <2>3, <2>4, <2>5
<1>4. /\ Synchronized' /\ phase' = "handled" /\ owed' \in Flushes
      /\ clean' \subseteq Groups /\ stale' \subseteq Groups /\ flush' \in Flushes
  <2>1. CASE Plain BY <2>1, PlainHandled
  <2>2. CASE ~ Plain
    <3>1. PICK U \in SUBSET Groups, f \in Flushes : \E W \in {{}, U} : Handle(W, U, f) /\ owed' = f
      BY <1>3, <2>2
    <3>2. Covers(f, owed') BY <3>1 DEF Covers
    <3> QED BY <3>1, <3>2, Handled
  <2> QED BY <2>1, <2>2
<1>5. svme' \in BOOLEAN /\ gif' \in BOOLEAN /\ r_init' \in BOOLEAN /\ sipi_sent' \in BOOLEAN
      /\ pending' \subseteq {"db", "mc", "nmi", "init"}
  BY <1>1, <1>2 DEF HostTypes
<1> QED BY <1>2, <1>4, <1>5, NpiepUnmoved

\* A write of CR4 reconfigures the interceptions of NPIEP.
LEMMA Cr4Step ==
  ASSUME HostVmcbInv, Cr4Write
  PROVE  HostVmcbInv'
<1>1. HostTypes /\ Guarded BY DEF HostVmcbInv
<1>2. PICK toggled \in SUBSET ({"umip", "other"} \cup FlushingBits) :
        LET f == IF toggled \cap FlushingBits # {} THEN "guest" ELSE "nothing"
            wrote == IF toggled = {} THEN {}
                     ELSE {"control_reg"} \cup IF "umip" \in toggled THEN {"interception"} ELSE {}
        IN /\ Handle(wrote, wrote, f) /\ owed' = f
           /\ IF "umip" \in toggled
                THEN umip' = ~ umip /\ list1' = Reconfigure(~ umip, npiep) /\ restarted' = FALSE
                ELSE UNCHANGED <<umip, list1, restarted>>
           /\ UNCHANGED <<npiep, hcr3, unguarded, nested_hvm, sipi_sent>>
  BY DEF Cr4Write
<1> DEFINE f == IF toggled \cap FlushingBits # {} THEN "guest" ELSE "nothing"
           wrote == IF toggled = {} THEN {}
                    ELSE {"control_reg"} \cup IF "umip" \in toggled THEN {"interception"} ELSE {}
<1>3. wrote \in SUBSET Groups /\ f \in Flushes BY DEF Groups, Flushes
<1>4. Handle(wrote, wrote, f) /\ owed' = f /\ UNCHANGED <<npiep, hcr3, unguarded, nested_hvm, sipi_sent>>
  BY <1>2
<1>5. IF "umip" \in toggled
        THEN umip' = ~ umip /\ list1' = Reconfigure(~ umip, npiep) /\ restarted' = FALSE
        ELSE UNCHANGED <<umip, list1, restarted>>
  BY <1>2
<1> HIDE DEF wrote, f
<1>6. Covers(f, owed') BY <1>4 DEF Covers
<1>7. /\ Synchronized' /\ phase' = "handled"
      /\ clean' \subseteq Groups /\ stale' \subseteq Groups /\ flush' \in Flushes
  BY <1>3, <1>4, <1>6, Handled
<1>8. Guarded' /\ umip' \in BOOLEAN /\ list1' \subseteq Stores /\ restarted' \in BOOLEAN
  <2>1. CASE "umip" \in toggled
    <3>1. umip' = ~ umip /\ restarted' = FALSE /\ list1' = (IF umip' THEN {} ELSE npiep')
      BY <1>4, <1>5, <2>1 DEF Reconfigure
    <3>2. list1' = {i \in npiep' : ~ umip'} BY <3>1
    <3> QED BY <1>1, <1>4, <3>1, <3>2 DEF Guarded, HostTypes
  <2>2. CASE "umip" \notin toggled BY <1>1, <1>4, <1>5, <2>2 DEF Guarded, HostTypes
  <2> QED BY <2>1, <2>2
<1> QED BY <1>1, <1>3, <1>4, <1>7, <1>8 DEF HostVmcbInv, HostTypes, nested_hvm

\* The NPIEP MSR.
LEMMA NpiepStep ==
  ASSUME HostVmcbInv, WrmsrNpiep
  PROVE  HostVmcbInv'
<1>1. HostTypes /\ Guarded BY DEF HostVmcbInv
<1>2. /\ Handle({"interception"}, {"interception"}, "nothing") /\ owed' = "nothing"
      /\ npiep' \subseteq Stores /\ list1' = Reconfigure(umip, npiep') /\ restarted' = FALSE
      /\ unguarded' = (unguarded \/ (npiep' \cap {"sldt", "str"} # {} /\ "sgdt" \notin npiep'))
      /\ UNCHANGED <<umip, hcr3, nested_hvm, sipi_sent>>
  BY DEF WrmsrNpiep
<1>3. {"interception"} \in SUBSET Groups /\ "nothing" \in Flushes /\ Covers("nothing", "nothing")
  BY DEF Groups, Flushes, Covers
<1>4. /\ Synchronized' /\ phase' = "handled"
      /\ clean' \subseteq Groups /\ stale' \subseteq Groups /\ flush' \in Flushes
  BY <1>2, <1>3, Handled
<1>5. unguarded' \in BOOLEAN BY <1>1, <1>2 DEF HostTypes
<1>6. Guarded'
  <2>1. list1' = {i \in npiep' : ~ umip'} BY <1>1, <1>2 DEF Reconfigure, HostTypes
  <2>2. ~ unguarded' => ~ unguarded /\ (npiep' \cap {"sldt", "str"} # {} => "sgdt" \in npiep')
    BY <1>1, <1>2 DEF HostTypes
  <2> QED BY <1>1, <1>2, <2>1, <2>2 DEF Guarded
<1>7. list1' \subseteq Stores BY <1>2 DEF Reconfigure
<1> QED BY <1>1, <1>2, <1>3, <1>4, <1>5, <1>6, <1>7 DEF HostVmcbInv, HostTypes, nested_hvm
\* The handlers of the stores look at NPIEP after they have used the process's page table.
LEMMA StoreStep ==
  ASSUME HostVmcbInv, StoreTable \/ StoreSelector
  PROVE  HostVmcbInv'
<1>1. HostTypes /\ Guarded BY DEF HostVmcbInv
<1>2. PICK i \in Stores, g \in Stores :
        Store(i, g) /\ (g = i \/ (i \in {"sldt", "str"} /\ g = "sgdt"))
  BY DEF StoreTable, StoreSelector, Stores
<1>3. /\ i \in list1 /\ Plain
      /\ hcr3' = hcr3 \/ hcr3' = IF g \in npiep THEN "system" ELSE "process"
      /\ UNCHANGED <<umip, npiep, list1, restarted, unguarded, nested_hvm, sipi_sent>>
  BY <1>2 DEF Store
<1>4. ~ unguarded => g \in npiep BY <1>1, <1>2, <1>3 DEF Guarded
<1>5. Guarded' BY <1>1, <1>3, <1>4 DEF Guarded
<1>6. hcr3' \in {"system", "process"} BY <1>1, <1>3 DEF HostTypes
<1>7. /\ Synchronized' /\ phase' = "handled" /\ owed' \in Flushes
      /\ clean' \subseteq Groups /\ stale' \subseteq Groups /\ flush' \in Flushes
  BY <1>3, PlainHandled
<1> QED BY <1>1, <1>3, <1>5, <1>6, <1>7 DEF HostVmcbInv, HostTypes, nested_hvm

\* INIT, its end, and what another processor sends.
LEMMA InitSteps ==
  ASSUME HostVmcbInv, InitEmulated \/ StartUp \/ SendSipi
  PROVE  HostVmcbInv'
<1>1. HostTypes /\ Synchronized /\ Guarded BY DEF HostVmcbInv
<1>2. CASE InitEmulated
  <2>1. /\ stale' = Reset /\ clean' = Groups \ Unmarked /\ flush' = "guest" /\ owed' = "guest"
        /\ umip' = FALSE /\ restarted' = TRUE /\ phase' = "wait_for_sipi"
        /\ UNCHANGED <<npiep, list1, hcr3, unguarded, nested_hvm, sipi_sent>>
    BY <1>2 DEF InitEmulated
  <2>2. Synchronized' BY <2>1 DEF Synchronized, Covers, Reset, Unmarked
  <2>3. clean' \subseteq Groups /\ stale' \subseteq Groups /\ flush' \in Flushes /\ owed' \in Flushes
    BY <2>1 DEF Reset, Groups, Flushes
  <2>4. Guarded' BY <1>1, <2>1 DEF Guarded
  <2> QED BY <1>1, <2>1, <2>2, <2>3, <2>4 DEF HostVmcbInv, HostTypes, nested_hvm
<1>3. CASE StartUp
  <2>1. /\ phase = "wait_for_sipi" /\ phase' = "handled"
        /\ stale' = stale \cup {"segment_reg"} /\ sipi_sent' = FALSE
        /\ UNCHANGED <<clean, flush, owed, npiep_vars, nested_hvm>>
    BY <1>3 DEF StartUp
  <2>2. Synchronized' BY <1>1, <2>1 DEF Synchronized, Covers
  <2>3. stale' \subseteq Groups BY <1>1, <2>1 DEF HostTypes, Groups
  <2> QED BY <1>1, <2>1, <2>2, <2>3 DEF HostVmcbInv, HostTypes, Guarded, nested_hvm, npiep_vars
<1>4. CASE SendSipi
  BY <1>1, <1>4 DEF SendSipi, HostVmcbInv, HostTypes, Synchronized, Covers, Guarded, nested_hvm, npiep_vars, host_vmcb
<1> QED BY <1>2, <1>3, <1>4

\* What leaves the exit handler: a resumption, the undoing of subversion, a nested guest.
LEMMA LeavingSteps ==
  ASSUME HostVmcbInv, Resume \/ CallExit \/ \E x \in Vmcbs : Vmrun(x)
  PROVE  HostVmcbInv'
<1>1. HostTypes /\ Guarded BY DEF HostVmcbInv
<1>2. /\ phase' \in {"guest", "off"}
      /\ clean' \subseteq Groups /\ stale' \subseteq Groups /\ flush' \in Flushes /\ owed' \in Flushes
      /\ UNCHANGED <<npiep_vars, nested_hvm, sipi_sent>>
  BY <1>1 DEF Resume, CallExit, Vmrun, HostTypes, host_vmcb, Flushes
<1>3. Synchronized' BY <1>2 DEF Synchronized
<1> QED BY <1>1, <1>2, <1>3, NpiepUnmoved DEF HostTypes, nested_hvm

LEMMA HostVmcbNext ==
  ASSUME HostVmcbInv, [Next]_vars
  PROVE  HostVmcbInv'
<1>1. HostTypes BY DEF HostVmcbInv
<1>2. CASE UNCHANGED vars \/ Nested
  <2>1. UNCHANGED <<host_vmcb, npiep_vars, nested_hvm, phase, sipi_sent>>
    BY <1>2 DEF Nested, vars, host_vars
  <2>2. Synchronized' BY <2>1 DEF HostVmcbInv, Synchronized, Covers, host_vmcb
  <2> QED BY <1>1, <2>1, <2>2, NpiepUnmoved DEF HostTypes, host_vmcb, nested_hvm
<1>3. CASE Cr4Write \/ WrmsrNpiep BY <1>3, Cr4Step, NpiepStep
<1>4. CASE StoreTable \/ StoreSelector BY <1>4, StoreStep
<1>5. CASE PageFault \/ NestedPageFault \/ WrmsrEfer \/ VmmcallFlushTlb BY <1>5, WritingSteps
<1>6. CASE InitEmulated \/ StartUp \/ SendSipi BY <1>6, InitSteps
<1>7. CASE Resume \/ CallExit \/ \E x \in Vmcbs : Vmrun(x) BY <1>7, LeavingSteps
<1>8. CASE Exception \/ InitPended \/ InitRedirected
  <2>1. /\ Plain /\ UNCHANGED <<npiep_vars, sipi_sent>>
        /\ \/ UNCHANGED nested_hvm
           \/ pending' \subseteq pending \cup {"db", "mc", "nmi", "init"} /\ UNCHANGED <<svme, gif, r_init>>
    BY <1>8 DEF Exception, DebugException, MachineCheck, Nmi, OtherException, InitPended, InitRedirected, nested_hvm
  <2> QED BY <2>1, PlainSteps
<1>9. CASE Cpuid \/ Rdmsr \/ WrmsrVmcr \/ WrmsrOther \/ VmmcallOther
  <2>1. /\ Plain /\ UNCHANGED <<npiep_vars, sipi_sent>>
        /\ UNCHANGED nested_hvm \/ (r_init' \in BOOLEAN /\ UNCHANGED <<svme, gif, pending>>)
    BY <1>9 DEF Cpuid, Rdmsr, WrmsrVmcr, WrmsrOther, VmmcallOther
  <2> QED BY <2>1, PlainSteps
<1>10. CASE SvmInstructionFaults \/ Stgi \/ Clgi \/ Invlpga \/ \E x \in Vmcbs : Vmload(x) \/ Vmsave(x)
  <2>1. /\ Plain /\ UNCHANGED <<npiep_vars, sipi_sent>>
        /\ UNCHANGED nested_hvm \/ (gif' \in BOOLEAN /\ UNCHANGED <<svme, r_init, pending>>)
    BY <1>10 DEF SvmInstructionFaults, Stgi, Clgi, Invlpga, Vmload, Vmsave
  <2> QED BY <2>1, PlainSteps
<1> QED
  BY <1>2, <1>3, <1>4, <1>5, <1>6, <1>7, <1>8, <1>9, <1>10
  DEF Next, InitSignal, Msr, Vmmcall, SvmInstruction

-----------------------------------------------------------------------------
(* The theorems.                                                           *)

IInv == NestedInv /\ HostVmcbInv

\* NestedInv and HostVmcbInv hold throughout.
THEOREM InvariantHolds == Spec => []IInv
<1>1. Init => IInv
  <2> SUFFICES ASSUME Init PROVE IInv
    OBVIOUS
  <2>1. NestedInv BY InitNested DEF Init
  <2>2. HostVmcbInv
    BY DEF Init, HostVmcbInv, HostTypes, Synchronized, Covers, Guarded, Flushes
  <2> QED BY <2>1, <2>2 DEF IInv
<1>2. IInv /\ [Next]_vars => IInv' BY NestedNext, HostVmcbNext DEF IInv
<1> QED BY <1>1, <1>2, PTL DEF Spec

\* Every variable keeps its type.
THEOREM TypeCorrect == Spec => []TypeOK
<1>1. IInv => TypeOK BY DEF IInv, NestedInv, Typed, HostVmcbInv, HostTypes, TypeOK
<1> QED BY <1>1, InvariantHolds, PTL

\* The host resumes with every group that a handler wrote loaded, no obsolete translation,
\* and the interceptions of NPIEP that it asked for (nvc_svm_exit_handler).
THEOREM ResumeCorrect == Spec => []HostResumesAsWritten
<1>1. IInv => HostResumesAsWritten
  BY DEF IInv, HostVmcbInv, Synchronized, Guarded, HostResumesAsWritten
<1> QED BY <1>1, InvariantHolds, PTL

\* A nested guest runs on what the host and it made of its state, however many VMCBs share
\* a node, whatever the clean bits allow not to be copied, and whichever exits NoirVisor
\* serves itself (nvc_svm_switch_to_nested_vcpu, nvc_svm_switch_from_nested_vcpu).
THEOREM NestedStateCorrect == Spec => []NestedStateKept
<1>1. ASSUME IInv PROVE NestedStateKept
  <2>1. NestedInv /\ NestedTypeOK BY <1>1 DEF IInv, NestedInv, Typed
  <2>2. CASE field \in Hidden BY <2>1, <2>2 DEF NestedInv, HiddenKept, NestedStateKept
  <2>3. CASE field \notin Hidden /\ field \in Lost BY <2>3 DEF NestedStateKept
  <2>4. CASE field \notin Hidden \cup Lost
    <3>1. FieldKept BY <2>1, <2>4 DEF NestedInv
    <3>2. world = "L2" => live = Convert(expected[Current]) BY <3>1 DEF FieldKept
    <3>3. world = "L1" => vmcb_c = expected
      <4>1. world = "L1" => \A x \in Vmcbs : vmcb_c[x] = expected[x] BY <3>1 DEF FieldKept
      <4> QED BY <2>1, <4>1 DEF NestedTypeOK
    <3>4. ASSUME field = "asid", world = "L2" PROVE live # 1 /\ live < Start
      <4>1. expected[Current] \in Values BY <2>1, <3>4, InL2 DEF NestedTypeOK
      <4>2. live = IF expected[Current] = 0 THEN 0 ELSE expected[Current] + 1
        BY <3>2, <3>4 DEF Convert
      <4>3. \A v \in Values : v \in Nat /\ 0 < Start /\ v + 1 < Start OBVIOUS
      <4>4. expected[Current] \in Nat /\ 0 < Start /\ expected[Current] + 1 < Start BY <4>1, <4>3
      <4> HIDE NestedAssumption
      <4> QED BY <4>2, <4>4
    <3> QED BY <2>4, <3>2, <3>3, <3>4 DEF NestedStateKept
  <2> QED BY <2>2, <2>3, <2>4
<1> QED BY <1>1, InvariantHolds, PTL
=============================================================================
