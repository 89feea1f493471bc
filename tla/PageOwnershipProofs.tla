------------------------ MODULE PageOwnershipProofs ------------------------
(***************************************************************************)
(* Proofs about PageOwnership, for any threads, CVMs, pages and regions:   *)
(* however reassignments nest, fail and follow each other, the host's      *)
(* nested page table follows the reverse-mapping table.                    *)
(***************************************************************************)
EXTENDS PageOwnership, SequenceTheorems, TLAPS

-----------------------------------------------------------------------------
(* The invariant.                                                          *)

Active(t) == pc[t] \notin {"idle", "crashed"}
Sharing == {"map", "unmap"}
WithVm == Sharing \cup {"claim", "deactivate", "nsv"}
WithVcpu == {"create", "vmcb"}

WellTyped(r) ==
  /\ r = Request(r.op, r.vm, r.map, r.pages, r.asid, r.owner)
  /\ r.pages \subseteq Pages /\ r.asid \in Asids /\ r.owner \in Owners
  /\ DOMAIN r.map \subseteq Gpas /\ \A g \in DOMAIN r.map : r.map[g] \in Data

\* A request for CVM v names pages of data or the page c of its VMCB; v is in
\* the set A of CVMs alive, but for creation and release.
Fits(r, v, c, A) ==
  /\ r.vm = v
  /\ r.pages \subseteq Data \cup {c}
  /\ r.asid \in VMs => r.pages \subseteq Data
  /\ r.op \in WithVm \cup WithVcpu \cup {"release_all"}
  /\ r.op \in WithVm <=> v \in A
  /\ r.op \in WithVcpu => c \in Pool

\* Whoever creates, releases or makes secure a CVM has it for itself.
Requested(t) ==
  /\ req[t].vm \in VMs
  /\ Fits(req[t], req[t].vm, vmcb[req[t].vm], alive)
  /\ \A u \in Threads \ {t} :
       Active(u) /\ req[u].vm = req[t].vm => {req[t].op, req[u].op} \subseteq Sharing

RequestDiscipline ==
  /\ req = [t \in Threads |-> req[t]]
  /\ \A t \in Threads : WellTyped(req[t])
  /\ \A t \in Threads : Active(t) => Requested(t)
  /\ \A v \in alive : vmcb[v] \in Pool

LockDiscipline ==
  /\ \A t \in Threads : pc[t] \in {"work", "unlock"} => rmd_lock = t
  /\ stack # <<>> => rmd_lock \in Threads /\ pc[rmd_lock] \in {"work", "crashed"}

\* The outermost call is the request's; the others reassign one table each.
\* Only the innermost may have written the RMT.
Disciplined(i) ==
  /\ stack[i].written =>
       /\ i = Len(stack) /\ stack[i].todo = {} /\ stack[i].cur = None
       /\ \A p \in stack[i].pages : owner[p] = stack[i].owner /\ asid[p] = stack[i].asid
  /\ i = 1 => /\ stack[i].pages = req[rmd_lock].pages
              /\ stack[i].owner = req[rmd_lock].owner /\ stack[i].asid = req[rmd_lock].asid
  /\ i # 1 => /\ stack[i].owner = "noirvisor" /\ stack[i].asid = Nobody
              /\ \E r \in Regions : stack[i].pages = {table[r]}
  /\ stack[i].pte_missing /\ stack[i].cur # None => table[Mega[stack[i].cur]] # Boot

CallDiscipline == \A i \in 1 .. Len(stack) : Disciplined(i)

\* Pages written to the RMT and not yet to the host's nested page table.
Pending == IF stack # <<>> /\ Top.written THEN Top.pages ELSE {}

ViewDiscipline ==
  \A p \in Pages \ Pending :
    pte[p] = AccessOf(owner[p]) /\ HostAccess(p) = AccessOf(owner[p])

\* Tables are apart from data and VMCBs, and each is NoirVisor's, or about to
\* be, or exposed.
TableDiscipline ==
  /\ \A p \in Pages : asid[p] \in VMs => p \in Data
  /\ \A v \in VMs, r \in Regions : table[r] \in Pool => table[r] # vmcb[v]
  /\ \A r \in Regions : table[r] \in Pool \ exposed =>
       owner[table[r]] = "noirvisor" \/ \E i \in 2 .. Len(stack) : stack[i].pages = {table[r]}

IInv ==
  /\ TypeOK /\ RequestDiscipline /\ LockDiscipline /\ CallDiscipline
  /\ ViewDiscipline /\ TableDiscipline /\ SuccessMeansReassigned

-----------------------------------------------------------------------------
(* What is handed back.                                                    *)

Guests == {"insecure_guest", "secure_guest"}

\* What a request asks for: pages get the ASID of a CVM that lives and become
\* pages of a guest; a release returns the VMCB, or all pages, to the host.
Purposeful(r) ==
  /\ r.owner # "noirvisor"
  /\ r.asid \in VMs => r.asid = r.vm /\ r.op \in WithVm /\ r.owner \in Guests
  /\ r.op \in {"vmcb", "release_all"} => r.owner = "subverted_host" /\ r.asid = HostAsid
  /\ r.op = "vmcb" => r.pages = {vmcb[r.vm]}

PurposeDiscipline == \A t \in Threads : Active(t) => Purposeful(req[t])

\* A page that was reassigned lies in regions that are split, so that handing it
\* back needs no memory.  The outermost call looks for memory only if it has a
\* page that never was reassigned.
Split(p) == table[Giga[p]] # None /\ table[Mega[p]] # None
Reassigned(p) == owner[p] # "subverted_host" \/ asid[p] \in VMs

SplitSoFar(call) ==
  /\ call.todo \subseteq call.pages /\ call.cur \in call.pages \cup {None}
  /\ \A p \in call.pages \ call.todo : Split(p)
  /\ call.cur # None /\ ~call.pte_missing => table[Mega[call.cur]] # None

SplitDiscipline ==
  /\ \A p \in Pages : Reassigned(p) => Split(p)
  /\ \A i \in 1 .. Len(stack) : SplitSoFar(stack[i])
  /\ stack # <<>> /\ stack[1].cur # None => ~Reassigned(stack[1].cur)
  /\ Len(stack) >= 2 => \E p \in stack[1].pages : ~Reassigned(p)

\* Pages of guests and VMCBs are not NoirVisor's; those that may be allocated are
\* the host's.
OwnerDiscipline ==
  /\ \A p \in Pages : asid[p] \in VMs => owner[p] # "noirvisor"
  /\ \A v \in VMs : vmcb[v] \in Pool => owner[vmcb[v]] # "noirvisor"
  /\ \A v, w \in VMs : vmcb[v] \in Pool /\ vmcb[v] = vmcb[w] => v = w
  /\ \A v \in VMs : vmcb[v] \in Pool =>
       v \in alive \/ \E t \in Threads : Using(t, v) /\ req[t].op \in WithVcpu
  /\ \A p \in Free : owner[p] = "subverted_host"

\* Until the pages of a CVM are handed back its thread is on the way to it, or it
\* is being made anew.
Releasing(t) ==
  \/ pc[t] = "crashed" \/ req[t].op \in {"create", "vmcb"}
  \/ req[t].op = "release_all" /\ pc[t] \in {"nptm", "rmd", "work"}

ReleaseDiscipline ==
  /\ \A t \in Threads : req[t].op = "vmcb" /\ pc[t] \in {"unlock", "done"} =>
       owner[vmcb[req[t].vm]] = "subverted_host"
  /\ \A t \in Threads : req[t].op = "release_all" /\ pc[t] = "work" =>
       /\ \A p \in Pages : asid[p] = req[t].vm => p \in req[t].pages
       /\ stack # <<>> /\ (~stack[1].written => \A p \in req[t].pages : asid[p] = req[t].vm)
  /\ \A v \in VMs \ (alive \cup dirty), p \in Pages : asid[p] = v =>
       \E t \in Threads : Using(t, v) /\ Releasing(t)

ReturnInv == PurposeDiscipline /\ SplitDiscipline /\ OwnerDiscipline /\ ReleaseDiscipline

-----------------------------------------------------------------------------
(* The stack.                                                              *)

LEMMA StackFacts ==
  ASSUME stack \in Seq(Calls), stack # <<>>
  PROVE  /\ Len(stack) \in Nat \ {0} /\ Top \in Calls
         /\ Callers \in Seq(Calls) /\ Len(Callers) = Len(stack) - 1
         /\ \A i \in 1 .. Len(stack) - 1 : Callers[i] = stack[i]
<1> DEFINE n == Len(stack) - 1
<1>1. Len(stack) \in Nat \ {0} BY EmptySeq
<1>2. \A i \in 1 .. Len(stack) : stack[i] \in Calls BY ElementOfSeq
<1>3. \A i \in 1 .. Len(stack) - 1 : stack[i] \in Calls BY <1>1, <1>2
<1>4. /\ Callers \in Seq(Calls) /\ Len(Callers) = IF 1 <= n THEN n - 1 + 1 ELSE 0
      /\ \A i \in 1 .. n - 1 + 1 : Callers[i] = stack[1 + i - 1]
  <2>1. n \in Int /\ \A i \in 1 .. n : stack[i] \in Calls BY <1>1, <1>3
  <2> HIDE DEF n
  <2>2. /\ SubSeq(stack, 1, n) \in Seq(Calls)
        /\ Len(SubSeq(stack, 1, n)) = IF 1 <= n THEN n - 1 + 1 ELSE 0
        /\ \A i \in 1 .. n - 1 + 1 : SubSeq(stack, 1, n)[i] = stack[1 + i - 1]
    BY <2>1, SubSeqProperties
  <2> QED BY <2>2 DEF Callers, n
<1>5. \A i \in 1 .. n : i \in 1 .. n - 1 + 1 /\ 1 + i - 1 = i BY <1>1
<1>6. Top \in Calls BY <1>1, <1>2 DEF Top
<1>7. n \in Nat /\ Len(Callers) = n
  <2>1. n \in Nat BY <1>1
  <2>2. Len(Callers) = IF 1 <= n THEN n - 1 + 1 ELSE 0 BY <1>4
  <2> HIDE DEF n
  <2> QED BY <2>1, <2>2
<1>8. \A i \in 1 .. n : Callers[i] = stack[i]
  <2> TAKE i \in 1 .. n
  <2>1. Callers[i] = stack[1 + i - 1] BY <1>4, <1>5
  <2> QED BY <1>5, <2>1
<1> HIDE DEF n
<1> QED BY <1>1, <1>4, <1>6, <1>7, <1>8 DEF n

\* The innermost call goes on.
LEMMA SetTopFacts ==
  ASSUME stack \in Seq(Calls), stack # <<>>, NEW c \in Calls
  PROVE  /\ SetTop(c) \in Seq(Calls) /\ SetTop(c) # <<>> /\ Len(SetTop(c)) = Len(stack)
         /\ \A i \in 1 .. Len(stack) : SetTop(c)[i] = IF i = Len(stack) THEN c ELSE stack[i]
<1>1. Len(stack) \in Nat \ {0} /\ Callers \in Seq(Calls) /\ Len(Callers) = Len(stack) - 1
      /\ \A i \in 1 .. Len(stack) - 1 : Callers[i] = stack[i]
  BY StackFacts
<1>2. Len(Append(Callers, c)) = Len(stack) /\ Append(Callers, c) \in Seq(Calls)
  BY <1>1, AppendProperties
<1>3. \A i \in 1 .. Len(stack) : Append(Callers, c)[i] = IF i = Len(stack) THEN c ELSE stack[i]
  BY <1>1, AppendProperties
<1>4. Append(Callers, c) # <<>> BY <1>1, <1>2, EmptySeq
<1> QED BY <1>2, <1>3, <1>4 DEF SetTop

\* The innermost call makes another one.
LEMMA PushFacts ==
  ASSUME stack \in Seq(Calls), stack # <<>>, NEW c \in Calls, NEW d \in Calls
  PROVE  LET s == Append(SetTop(c), d) IN
         /\ s \in Seq(Calls) /\ s # <<>> /\ Len(s) = Len(stack) + 1
         /\ s[Len(stack) + 1] = d
         /\ \A i \in 1 .. Len(stack) : s[i] = IF i = Len(stack) THEN c ELSE stack[i]
<1>1. Len(stack) \in Nat \ {0} BY StackFacts
<1>2. SetTop(c) \in Seq(Calls) /\ Len(SetTop(c)) = Len(stack)
      /\ \A i \in 1 .. Len(stack) : SetTop(c)[i] = IF i = Len(stack) THEN c ELSE stack[i]
  BY SetTopFacts
<1>3. Append(SetTop(c), d) # <<>> BY <1>1, <1>2, AppendProperties, EmptySeq
<1> QED BY <1>1, <1>2, <1>3, AppendProperties

\* The innermost call returns.
LEMMA PopFacts ==
  ASSUME stack \in Seq(Calls), stack # <<>>, Len(stack) # 1
  PROVE  LET s == [Callers EXCEPT ![Len(stack) - 1].result = TRUE] IN
         /\ s \in Seq(Calls) /\ s # <<>> /\ Len(s) = Len(stack) - 1
         /\ \A i \in 1 .. Len(stack) - 1 :
              s[i] = IF i = Len(stack) - 1 THEN [stack[i] EXCEPT !.result = TRUE] ELSE stack[i]
<1> DEFINE n == Len(stack) - 1
           e == [Callers[n] EXCEPT !.result = TRUE]
<1>1. Len(stack) \in Nat \ {0} /\ Callers \in Seq(Calls) /\ Len(Callers) = n
      /\ \A i \in 1 .. n : Callers[i] = stack[i]
  BY StackFacts
<1>2. n \in 1 .. Len(Callers) BY <1>1
<1>3. Callers[n] \in Calls BY <1>1, <1>2, ElementOfSeq
<1>4. e \in Calls BY <1>3 DEF Calls
<1>5. /\ [Callers EXCEPT ![n] = e] \in Seq(Calls)
      /\ Len([Callers EXCEPT ![n] = e]) = n
      /\ \A j \in 1 .. n : [Callers EXCEPT ![n] = e][j] = IF j = n THEN e ELSE Callers[j]
  BY <1>1, <1>2, <1>4, ExceptSeq
<1>6. [Callers EXCEPT ![n] = e] # <<>> BY <1>2, <1>5, EmptySeq
<1>7. [Callers EXCEPT ![n].result = TRUE] = [Callers EXCEPT ![n] = e] OBVIOUS
<1> QED BY <1>1, <1>2, <1>5, <1>6, <1>7

-----------------------------------------------------------------------------
(* Types.                                                                  *)

\* Facts that every step of a reassignment starts from.
LEMMA WorkFacts ==
  ASSUME IInv, NEW t \in Threads, Working(t)
  PROVE  /\ stack \in Seq(Calls) /\ stack # <<>> /\ Top \in Calls
         /\ Len(stack) \in Nat \ {0} /\ Top = stack[Len(stack)]
         /\ pc[t] = "work" /\ rmd_lock = t
<1> QED BY StackFacts DEF Working, IInv, TypeOK, LockDiscipline, Top

LEMMA ItemDoneType ==
  ASSUME NEW call \in Calls
  PROVE  ItemDone(call) \in Calls
BY DEF ItemDone, Calls

LEMMA TableCall ==
  ASSUME NEW f \in Pages
  PROVE  Call({f}, Nobody, "noirvisor") \in Calls
BY DEF Call, Calls, Asids, Owners

\* What is handed to the driver's function as a new table is a page.
LEMMA NewTable ==
  ASSUME IInv, NEW t \in Threads, Working(t), Top.cur # None,
         Top.pte_missing, table[Mega[Top.cur]] # None
  PROVE  table[Mega[Top.cur]] \in Pool /\ Mega[Top.cur] \in Regions
<1>1. Top \in Calls /\ Len(stack) \in Nat \ {0} /\ Top = stack[Len(stack)] BY WorkFacts
<1>2. table[Mega[Top.cur]] # Boot BY <1>1 DEF IInv, CallDiscipline, Disciplined
<1>3. Top.cur \in Pages BY <1>1 DEF Calls
<1>4. Mega[Top.cur] \in Regions BY <1>3, PagesAssumption DEF Regions
<1> QED BY <1>2, <1>4 DEF IInv, TypeOK

\* The stack after the innermost call has returned TRUE.
LEMMA ReturnTrueFacts ==
  ASSUME IInv, NEW t \in Threads, Working(t), ReturnTrue(t)
  PROVE  /\ stack' \in Seq(Calls) /\ Len(stack') = Len(stack) - 1
         /\ stack' = <<>> <=> Len(stack) = 1
         /\ \A i \in 1 .. Len(stack') :
              stack'[i] = IF i = Len(stack') THEN [stack[i] EXCEPT !.result = TRUE] ELSE stack[i]
         /\ pc' = IF stack' = <<>> THEN [pc EXCEPT ![t] = "unlock"] ELSE pc
         /\ result' \in [Threads -> BOOLEAN]
<1>1. stack \in Seq(Calls) /\ stack # <<>> /\ Len(stack) \in Nat \ {0} BY WorkFacts
<1>2. result \in [Threads -> BOOLEAN] BY DEF IInv, TypeOK
<1>3. CASE Len(stack) = 1
  <2>1. stack' = <<>> /\ pc' = [pc EXCEPT ![t] = "unlock"] /\ result' \in [Threads -> BOOLEAN]
    BY <1>2, <1>3 DEF ReturnTrue
  <2>2. <<>> \in Seq(Calls) /\ Len(<<>>) = 0 BY EmptySeq
  <2> QED BY <1>3, <2>1, <2>2
<1>4. CASE Len(stack) # 1
  <2>1. /\ stack' = [Callers EXCEPT ![Len(stack) - 1].result = TRUE]
        /\ pc' = pc /\ result' = result
    BY <1>4 DEF ReturnTrue
  <2>2. /\ stack' \in Seq(Calls) /\ stack' # <<>> /\ Len(stack') = Len(stack) - 1
        /\ \A i \in 1 .. Len(stack) - 1 :
             stack'[i] = IF i = Len(stack) - 1 THEN [stack[i] EXCEPT !.result = TRUE] ELSE stack[i]
    BY <1>1, <1>4, <2>1, PopFacts
  <2>3. \A i \in 1 .. Len(stack') :
          stack'[i] = IF i = Len(stack') THEN [stack[i] EXCEPT !.result = TRUE] ELSE stack[i]
    BY <2>2
  <2> QED BY <1>2, <1>4, <2>1, <2>2, <2>3
<1> QED BY <1>3, <1>4

LEMMA UnprotectedType ==
  ASSUME IInv, NEW s \in Seq(Calls)
  PROVE  Unprotected(s) \subseteq Pool
<1> SUFFICES ASSUME NEW p \in Unprotected(s) PROVE p \in Pool
  OBVIOUS
<1>1. PICK i \in 1 .. Len(s) : p \in s[i].pages BY DEF Unprotected
<1>2. s[i] \in Calls BY ElementOfSeq
<1>3. p \in Pages BY <1>1, <1>2 DEF Calls
<1>4. PICK r \in Regions : table[r] = p BY DEF Unprotected
<1> QED BY <1>3, <1>4, PagesAssumption DEF IInv, TypeOK

LEMMA AccessType ==
  ASSUME NEW o \in Owners
  PROVE  AccessOf(o) \in {"full", "read", "none"}
BY DEF AccessOf, Owners

LEMMA WorkTypes ==
  ASSUME IInv, NEW t \in Threads, Work(t)
  PROVE  TypeOK'
<1>0. Working(t)
  BY DEF Work, LookUp, SplitPdpte, SplitPde, SplitFails, ReassignRmt, Refuse, Remap
<1>1. /\ stack \in Seq(Calls) /\ stack # <<>> /\ Top \in Calls
      /\ Len(stack) \in Nat \ {0}
  BY <1>0, WorkFacts
<1>2. TypeOK BY DEF IInv
<1>3. UNCHANGED <<nptm_lock, rmd_lock, alive, nsv, vmcb, mapped, dirty, req>>
  BY DEF Work, LookUp, SplitPdpte, SplitPde, SplitFails, ReassignRmt, Refuse, Remap,
         locks, guests, history
<1>4. CASE LookUp(t)
  <2>1. PICK p \in Top.todo :
          LET call == [Top EXCEPT !.cur = p, !.pte_missing = table[Mega[p]] = None]
          IN stack' = SetTop(IF table[Giga[p]] = None \/ call.pte_missing THEN call ELSE ItemDone(call))
    BY <1>4 DEF LookUp
  <2>2. [Top EXCEPT !.cur = p, !.pte_missing = table[Mega[p]] = None] \in Calls
    BY <1>1 DEF Calls
  <2>3. stack' \in Seq(Calls) BY <1>1, <2>1, <2>2, ItemDoneType, SetTopFacts
  <2> QED BY <1>2, <1>3, <1>4, <2>3 DEF LookUp, TypeOK, rmt, host_npt, history
<1>5. CASE SplitPdpte(t)
  <2>1. PICK f \in Free : Describe(Giga[Top.cur], f, IF Top.pte_missing THEN Top ELSE ItemDone(Top))
    BY <1>5 DEF SplitPdpte
  <2>2. f \in Pool /\ f \in Pages BY DEF Free, Pages
  <2>3. stack' \in Seq(Calls)
    BY <1>1, <2>1, <2>2, ItemDoneType, TableCall, PushFacts DEF Describe
  <2>4. table' \in [Regions -> Pool \cup {Boot, None}]
    BY <1>2, <2>1, <2>2 DEF Describe, TypeOK
  <2> QED BY <1>2, <1>3, <1>5, <2>3, <2>4 DEF SplitPdpte, TypeOK, rmt, history
<1>6. CASE SplitPde(t)
  <2>1. PICK f \in IF table[Mega[Top.cur]] = None THEN Free ELSE {table[Mega[Top.cur]]} :
          Describe(Mega[Top.cur], f, ItemDone(Top))
    BY <1>6 DEF SplitPde
  <2>2. f \in Pool BY <1>0, <1>6, NewTable DEF Free, SplitPde
  <2>3. stack' \in Seq(Calls)
    BY <1>1, <2>1, <2>2, ItemDoneType, TableCall, PushFacts DEF Describe, Pages
  <2>4. table' \in [Regions -> Pool \cup {Boot, None}]
    BY <1>2, <2>1, <2>2 DEF Describe, TypeOK
  <2> QED BY <1>2, <1>3, <1>6, <2>3, <2>4 DEF SplitPde, TypeOK, rmt, history
<1>7. CASE SplitFails(t)
  <2>0. <<Top>> \in Seq(Calls) BY <1>1
  <2>1. exposed' \subseteq Pool
    BY <1>1, <1>2, <1>7, <2>0, UnprotectedType DEF SplitFails, TypeOK
  <2>2. /\ stack' \in Seq(Calls) /\ result' \in [Threads -> BOOLEAN]
        /\ pc' \in {pc, [pc EXCEPT ![t] = "unlock"]}
    <3>1. CASE Top.result BY <1>0, <1>7, <3>1, ReturnTrueFacts DEF SplitFails
    <3>2. CASE ~Top.result
      BY <1>2, <1>7, <3>2, EmptySeq DEF SplitFails, ReturnFalse, TypeOK
    <3> QED BY <3>1, <3>2
  <2> QED BY <1>2, <1>3, <1>7, <2>1, <2>2 DEF SplitFails, TypeOK, rmt, host_npt
<1>8. CASE ReassignRmt(t)
  <2>1. [Top EXCEPT !.result = TRUE, !.written = TRUE] \in Calls BY <1>1 DEF Calls
  <2>2. stack' \in Seq(Calls) BY <1>1, <1>8, <2>1, SetTopFacts DEF ReassignRmt
  <2>3. Top.owner \in Owners /\ Top.asid \in Asids BY <1>1 DEF Calls
  <2>4. owner' \in [Pages -> Owners] /\ asid' \in [Pages -> Asids]
    BY <1>2, <1>8, <2>3 DEF ReassignRmt, TypeOK
  <2> QED BY <1>2, <1>3, <1>8, <2>2, <2>4 DEF ReassignRmt, TypeOK, host_npt, history
<1>9. CASE Refuse(t)
  <2>1. Callers \in Seq(Calls) BY <1>1, StackFacts
  <2>2. exposed' \subseteq Pool BY <1>2, <1>9, <2>1, UnprotectedType DEF Refuse, TypeOK
  <2>3. /\ stack' \in Seq(Calls) /\ result' \in [Threads -> BOOLEAN]
        /\ pc' = [pc EXCEPT ![t] = "unlock"]
    BY <1>2, <1>9, EmptySeq DEF Refuse, ReturnFalse, TypeOK
  <2> QED BY <1>2, <1>3, <1>9, <2>2, <2>3 DEF Refuse, TypeOK, rmt, host_npt
<1>10. CASE Remap(t)
  <2>1. /\ stack' \in Seq(Calls) /\ result' \in [Threads -> BOOLEAN]
        /\ pc' \in {pc, [pc EXCEPT ![t] = "unlock"]}
    BY <1>0, <1>10, ReturnTrueFacts DEF Remap
  <2>2. linked' \subseteq Regions
    <3>1. Top.pages \subseteq Pages BY <1>1 DEF Calls
    <3>2. \A p \in Top.pages : Giga[p] \in Regions /\ Mega[p] \in Regions
      BY <3>1, PagesAssumption DEF Regions
    <3> QED BY <1>2, <1>10, <3>2 DEF Remap, TypeOK
  <2>3. pte' \in [Pages -> {"full", "read", "none"}]
    BY <1>2, <1>10, AccessType DEF Remap, TypeOK
  <2> QED BY <1>2, <1>3, <1>10, <2>1, <2>2, <2>3 DEF Remap, TypeOK, rmt, history
<1> QED BY <1>4, <1>5, <1>6, <1>7, <1>8, <1>9, <1>10 DEF Work

LEMMA LockTypes ==
  ASSUME IInv, NEW t \in Threads, LockNptm(t) \/ LockRmd(t) \/ ListFails(t) \/ Unlock(t)
  PROVE  TypeOK'
<1>1. TypeOK BY DEF IInv
<1>2. CASE LockNptm(t)
  BY <1>1, <1>2 DEF LockNptm, TypeOK, rmt, host_npt, guests, history
<1>3. CASE LockRmd(t)
  <2>1. /\ nptm_lock' = nptm_lock /\ rmd_lock' = t
        /\ UNCHANGED <<rmt, host_npt, guests, history>>
    BY <1>3 DEF LockRmd
  <2>2. CASE Listed(req[t]) = {}
    <3>1. /\ stack' = <<>> /\ result' = [result EXCEPT ![t] = FALSE]
          /\ pc' = [pc EXCEPT ![t] = "unlock"]
      BY <1>3, <2>2 DEF LockRmd, ReturnFalse
    <3>2. stack' \in Seq(Calls) BY <3>1, EmptySeq
    <3> QED BY <1>1, <2>1, <3>1, <3>2 DEF TypeOK, rmt, host_npt, guests, history
  <2>3. CASE Listed(req[t]) # {}
    <3>1. /\ stack' = <<Call(Listed(req[t]), req[t].asid, req[t].owner)>>
          /\ pc' = [pc EXCEPT ![t] = "work"] /\ result' = result
      BY <1>3, <2>3 DEF LockRmd
    <3>2. Listed(req[t]) \subseteq Pages /\ req[t].asid \in Asids /\ req[t].owner \in Owners
      BY DEF IInv, RequestDiscipline, WellTyped, Listed
    <3>3. Call(Listed(req[t]), req[t].asid, req[t].owner) \in Calls
      BY <3>2 DEF Call, Calls
    <3>4. stack' \in Seq(Calls) BY <3>1, <3>3
    <3> QED BY <1>1, <2>1, <3>1, <3>4 DEF TypeOK, rmt, host_npt, guests, history
  <2> QED BY <2>2, <2>3
<1>4. CASE ListFails(t)
  <2>1. /\ stack' = <<>> /\ result' = [result EXCEPT ![t] = FALSE]
        /\ pc' = [pc EXCEPT ![t] = "unlock"]
    BY <1>4 DEF ListFails, ReturnFalse
  <2>2. stack' \in Seq(Calls) BY <2>1, EmptySeq
  <2>3. dirty' \subseteq VMs
    <3>1. Active(t) BY <1>4 DEF ListFails, Active
    <3>2. req[t].vm \in VMs BY <3>1 DEF IInv, RequestDiscipline, Requested
    <3> QED BY <1>1, <1>4, <3>2 DEF ListFails, TypeOK
  <2> QED BY <1>1, <1>4, <2>1, <2>2, <2>3 DEF ListFails, TypeOK, rmt, host_npt, guests
<1>5. CASE Unlock(t)
  BY <1>1, <1>5 DEF Unlock, TypeOK, rmt, host_npt, guests, history
<1> QED BY <1>2, <1>3, <1>4, <1>5

\* Operations on CVMs leave the table and the host's view to the driver.
LEMMA FrontFrame ==
  ASSUME NEW t \in Threads, Start(t) \/ Finish(t)
  PROVE  UNCHANGED <<owner, asid, table, linked, pte, nptm_lock, rmd_lock, stack, exposed>>
BY DEF Start, Finish, CreateVm, ReleaseVm, SetMapping, SetUnmapping, Claim, NsvActivate,
       NsvDeactivate, CreateDone, CreateFails, VcpuReleased, VmReleased, MapDone, MapFails,
       UnmapDone, Deactivated, NsvDone, rmt, host_npt, locks, history

\* What an operation on CVMs does to the variables of the threads.
LEMMA FrontThreads ==
  ASSUME TypeOK, NEW t \in Threads, Start(t) \/ Finish(t)
  PROVE  /\ pc' \in {pc, [pc EXCEPT ![t] = "nptm"], [pc EXCEPT ![t] = "idle"],
                     [u \in Threads |-> "crashed"]}
         /\ result' \in {result, [result EXCEPT ![t] = FALSE]}
         /\ starved' \in {starved, starved \ {t}}
         /\ dirty' \subseteq dirty
         /\ pc[t] \in {"idle", "done"}
<1> USE DEF Reassign, Return, Done, Mapping, history, TypeOK
<1>1. CASE Start(t)
  BY <1>1 DEF Start, CreateVm, ReleaseVm, SetMapping, SetUnmapping, Claim, NsvActivate,
       NsvDeactivate
<1>2. CASE Finish(t)
  BY <1>2 DEF Finish, CreateDone, CreateFails, VcpuReleased, VmReleased, MapDone, MapFails,
       UnmapDone, Deactivated, NsvDone
<1> QED BY <1>1, <1>2

LEMMA WriteType ==
  ASSUME TypeOK, NEW v, NEW m, NEW G, Write(v, m, G),
         \A g \in G \cap Gpas : m[g] \in Data \cup {None}
  PROVE  mapped' \in [VMs -> [Gpas -> Data \cup {None}]]
<1>1. mapped \in [VMs -> [Gpas -> Data \cup {None}]] BY DEF TypeOK
<1>2. CASE v \in VMs
  <2>1. [g \in Gpas |-> IF g \in G THEN m[g] ELSE mapped[v][g]] \in [Gpas -> Data \cup {None}]
    BY <1>1, <1>2
  <2> QED BY <1>1, <2>1 DEF Write
<1>3. CASE v \notin VMs
  BY <1>1, <1>3 DEF Write
<1> QED BY <1>2, <1>3

LEMMA FrontTypes ==
  ASSUME IInv, NEW t \in Threads, Start(t) \/ Finish(t)
  PROVE  TypeOK'
<1>1. TypeOK BY DEF IInv
<1>2. Active(t) => req[t].vm \in VMs BY DEF IInv, RequestDiscipline, Requested
<1>3. /\ DOMAIN req[t].map \subseteq Gpas
      /\ \A g \in DOMAIN req[t].map : req[t].map[g] \in Data
  BY DEF IInv, RequestDiscipline, WellTyped
<1>4. /\ alive' \subseteq VMs /\ nsv' \subseteq VMs
      /\ vmcb' \in [VMs -> Pool \cup {None}]
      /\ mapped' \in [VMs -> [Gpas -> Data \cup {None}]]
  <2>1. CASE Start(t)
    <3> USE <1>1 DEF TypeOK, guests
    <3>1. \A v \in VMs : CreateVm(t, v) =>
            alive' = alive /\ nsv' = nsv /\ mapped' = mapped /\ vmcb' \in [VMs -> Pool \cup {None}]
      BY DEF CreateVm, Free
    <3>2. \A v \in VMs : ReleaseVm(t, v) =>
            alive' = alive \ {v} /\ UNCHANGED <<nsv, vmcb, mapped>>
      BY DEF ReleaseVm
    <3>3. \A v \in VMs : SetMapping(t, v) \/ SetUnmapping(t, v) \/ Claim(t, v) =>
            UNCHANGED <<alive, nsv, vmcb, mapped>>
      BY DEF SetMapping, SetUnmapping, Claim
    <3>4. \A v \in VMs : NsvActivate(t, v) \/ NsvDeactivate(t, v) =>
            nsv' \subseteq VMs /\ UNCHANGED <<alive, vmcb, mapped>>
      BY DEF NsvActivate, NsvDeactivate
    <3> QED BY <2>1, <3>1, <3>2, <3>3, <3>4 DEF Start
  <2>2. CASE CreateDone(t)
    BY <1>1, <1>2, <2>2 DEF CreateDone, Done, Active, TypeOK
  <2>3. CASE CreateFails(t) \/ VmReleased(t) \/ Deactivated(t) \/ NsvDone(t)
    BY <1>1, <2>3 DEF CreateFails, VmReleased, Deactivated, NsvDone, guests, TypeOK
  <2>4. CASE VcpuReleased(t)
    BY <1>1, <2>4 DEF VcpuReleased, TypeOK
  <2>5. CASE MapDone(t)
    <3>1. Write(req[t].vm, req[t].map, DOMAIN req[t].map) \/ UNCHANGED mapped
      BY <2>5 DEF MapDone
    <3>2. mapped' \in [VMs -> [Gpas -> Data \cup {None}]]
      BY <1>1, <1>3, <3>1, WriteType DEF TypeOK
    <3> QED BY <1>1, <2>5, <3>2 DEF MapDone, TypeOK
  <2>6. CASE MapFails(t)
    <3>1. PICK n \in DOMAIN req[t].map :
            Write(req[t].vm, req[t].map, {g \in DOMAIN req[t].map : g < n})
      BY <2>6 DEF MapFails
    <3>2. mapped' \in [VMs -> [Gpas -> Data \cup {None}]]
      BY <1>1, <1>3, <3>1, WriteType
    <3> QED BY <1>1, <2>6, <3>2 DEF MapFails, TypeOK
  <2>7. CASE UnmapDone(t)
    <3>1. \/ Write(req[t].vm, [g \in Gpas |-> None],
                   {g \in DOMAIN req[t].map : \A h \in DOMAIN req[t].map : g <= h})
          \/ UNCHANGED mapped
      BY <2>7 DEF UnmapDone
    <3>2. mapped' \in [VMs -> [Gpas -> Data \cup {None}]]
      BY <1>1, <3>1, WriteType DEF TypeOK
    <3> QED BY <1>1, <2>7, <3>2 DEF UnmapDone, TypeOK
  <2> QED BY <2>1, <2>2, <2>3, <2>4, <2>5, <2>6, <2>7 DEF Finish
<1> QED BY <1>1, <1>4, FrontFrame, FrontThreads DEF TypeOK

-----------------------------------------------------------------------------
(* Requests.                                                               *)

\* A step of t that changes its own request, and at most what belongs to the
\* CVM v, keeps the discipline of all threads if it keeps that of t.
Requests(t, v, r) ==
  /\ req' = [req EXCEPT ![t] = r] /\ WellTyped(r)
  /\ \A u \in Threads \ {t} : pc'[u] = pc[u]
  /\ alive' \subseteq VMs
  /\ \A w \in VMs \ {v} : vmcb'[w] = vmcb[w] /\ (w \in alive' <=> w \in alive)
  /\ v \in alive' => vmcb'[v] \in Pool
  /\ pc'[t] \notin {"idle", "crashed"} => Fits(r, v, vmcb'[v], alive')
  /\ \A u \in Threads \ {t} : Active(u) /\ req[u].vm = v =>
       /\ vmcb'[v] = vmcb[v] /\ (v \in alive' <=> v \in alive)
       /\ pc'[t] \notin {"idle", "crashed"} => {r.op, req[u].op} \subseteq Sharing

LEMMA RequestStep ==
  ASSUME IInv, NEW t \in Threads, NEW v \in VMs, NEW r, Requests(t, v, r)
  PROVE  RequestDiscipline'
<1> USE DEF Requests
<1>1. RequestDiscipline BY DEF IInv
<1>2. /\ req'[t] = r /\ \A u \in Threads \ {t} : req'[u] = req[u]
      /\ req' = [u \in Threads |-> req'[u]]
  BY <1>1 DEF RequestDiscipline
<1>3. \A u \in Threads : WellTyped(req'[u]) BY <1>1, <1>2 DEF RequestDiscipline
<1>4. \A w \in alive' : vmcb'[w] \in Pool BY <1>1 DEF RequestDiscipline
<1>5. ASSUME Active(t)' PROVE Requested(t)'
  <2>1. \A u \in Threads \ {t} : Active(u)' => Active(u) BY DEF Active
  <2>2. pc'[t] \notin {"idle", "crashed"} BY <1>5 DEF Active
  <2>3. r.vm = v BY <2>2 DEF Fits
  <2> QED BY <1>2, <2>1, <2>2, <2>3 DEF Requested
<1>6. ASSUME NEW u \in Threads \ {t}, Active(u)' PROVE Requested(u)'
  <2>1. Active(u) /\ Requested(u) BY <1>1, <1>6 DEF RequestDiscipline, Active
  <2>2. /\ vmcb'[req[u].vm] = vmcb[req[u].vm]
        /\ req[u].vm \in alive' <=> req[u].vm \in alive
    BY <2>1 DEF Requested
  <2>3. \A w \in Threads \ {u} : Active(w)' /\ req'[w].vm = req[u].vm =>
          {req[u].op, req'[w].op} \subseteq Sharing
    <3> SUFFICES ASSUME NEW w \in Threads \ {u}, Active(w)', req'[w].vm = req[u].vm
                 PROVE  {req[u].op, req'[w].op} \subseteq Sharing
      OBVIOUS
    <3>1. CASE w = t BY <1>2, <2>1, <3>1 DEF Fits, Active
    <3>2. CASE w # t BY <1>2, <2>1, <3>2 DEF Requested, Active
    <3> QED BY <3>1, <3>2
  <2> QED BY <1>2, <1>6, <2>1, <2>2, <2>3 DEF Requested, Fits
<1> QED BY <1>2, <1>3, <1>4, <1>5, <1>6 DEF RequestDiscipline

\* An operation that only makes a request, alone or with other mappings.
LEMMA OnlyRequest ==
  ASSUME IInv, NEW t \in Threads, NEW v \in alive, NEW r, Reassign(t, r),
         UNCHANGED <<alive, vmcb>>, WellTyped(r), Fits(r, v, vmcb[v], alive),
         \A u \in Threads \ {t} : Active(u) /\ req[u].vm = v => {r.op, req[u].op} \subseteq Sharing
  PROVE  RequestDiscipline'
<1>1. TypeOK /\ RequestDiscipline BY DEF IInv
<1>2. v \in VMs /\ vmcb[v] \in Pool BY <1>1 DEF TypeOK, RequestDiscipline
<1>3. req' = [req EXCEPT ![t] = r] /\ \A u \in Threads \ {t} : pc'[u] = pc[u]
  BY <1>1 DEF Reassign, TypeOK
<1>4. alive' \subseteq VMs /\ alive' = alive /\ vmcb' = vmcb BY <1>1 DEF TypeOK
<1>5. \A w \in VMs \ {v} : vmcb'[w] = vmcb[w] /\ (w \in alive' <=> w \in alive) BY <1>4
<1>6. v \in alive' /\ vmcb'[v] \in Pool /\ Fits(r, v, vmcb'[v], alive') BY <1>2, <1>4
<1>7. \A u \in Threads \ {t} : Active(u) /\ req[u].vm = v =>
        /\ vmcb'[v] = vmcb[v] /\ (v \in alive' <=> v \in alive)
        /\ pc'[t] \notin {"idle", "crashed"} => {r.op, req[u].op} \subseteq Sharing
  BY <1>4
<1>8. Requests(t, v, r) BY <1>2, <1>3, <1>4, <1>5, <1>6, <1>7 DEF Requests
<1> QED BY <1>2, <1>8, RequestStep

\* The page at an address that is not mapped is page 0.
LEMMA BackingType ==
  ASSUME TypeOK, NEW v \in VMs, NEW G \in SUBSET Gpas
  PROVE  Backing(v, G) \subseteq Data
BY PagesAssumption DEF TypeOK, Backing

LEMMA AloneFacts ==
  ASSUME NEW t \in Threads, NEW v, Alone(t, v), NEW u \in Threads \ {t}, Active(u)
  PROVE  req[u].vm # v
BY DEF Alone, Using, Active

LEMMA StartRequests ==
  ASSUME IInv, NEW t \in Threads, Start(t)
  PROVE  RequestDiscipline'
<1> USE ActorsAssumption, PagesAssumption DEF Nobody, HostAsid
<1>1. TypeOK /\ RequestDiscipline BY DEF IInv
<1>2. alive' \subseteq VMs BY FrontTypes DEF TypeOK
<1>3. pc \in [Threads -> {"idle", "nptm", "rmd", "work", "unlock", "done", "crashed"}]
  BY <1>1 DEF TypeOK
<1>4. \A v \in alive : v \in VMs /\ vmcb[v] \in Pool BY <1>1 DEF TypeOK, RequestDiscipline
<1>5. DOMAIN NoMap = {} BY DEF NoMap
<1>6. ASSUME NEW v \in VMs, CreateVm(t, v) PROVE RequestDiscipline'
  <2>1. PICK f \in Free :
          /\ vmcb' = [vmcb EXCEPT ![v] = f]
          /\ Reassign(t, Request("create", v, NoMap, {f}, Nobody, "insecure_guest"))
    BY <1>6 DEF CreateVm
  <2> DEFINE r == Request("create", v, NoMap, {f}, Nobody, "insecure_guest")
  <2>2. req' = [req EXCEPT ![t] = r] /\ \A u \in Threads \ {t} : pc'[u] = pc[u]
    BY <1>3, <2>1 DEF Reassign
  <2>3. f \in Pool BY DEF Free
  <2>4. vmcb'[v] = f /\ \A w \in VMs \ {v} : vmcb'[w] = vmcb[w] BY <1>1, <2>1 DEF TypeOK
  <2>5. v \notin alive' /\ alive' = alive /\ Alone(t, v) BY <1>6 DEF CreateVm
  <2>6. WellTyped(r) BY <1>5, <2>3 DEF Request, WellTyped, Pages, Asids, Owners
  <2>7. Fits(r, v, vmcb'[v], alive')
    BY <2>3, <2>4, <2>5 DEF Request, Fits, WithVm, WithVcpu, Sharing
  <2>8. \A u \in Threads \ {t} : Active(u) => req[u].vm # v BY <2>5, AloneFacts
  <2>9. \A w \in VMs \ {v} : vmcb'[w] = vmcb[w] /\ (w \in alive' <=> w \in alive) BY <2>4, <2>5
  <2>10. v \in alive' => vmcb'[v] \in Pool BY <2>5
  <2>11. \A u \in Threads \ {t} : Active(u) /\ req[u].vm = v =>
           /\ vmcb'[v] = vmcb[v] /\ (v \in alive' <=> v \in alive)
           /\ pc'[t] \notin {"idle", "crashed"} => {r.op, req[u].op} \subseteq Sharing
    BY <2>8
  <2> HIDE DEF r
  <2>12. Requests(t, v, r) BY <1>2, <2>2, <2>6, <2>7, <2>9, <2>10, <2>11 DEF Requests
  <2> QED BY <2>12, RequestStep
<1>7. ASSUME NEW v \in VMs, ReleaseVm(t, v) PROVE RequestDiscipline'
  <2> DEFINE r == ReleaseVcpu(v)
  <2>1. v \in alive /\ alive' = alive \ {v} /\ Alone(t, v) /\ vmcb' = vmcb
    BY <1>7 DEF ReleaseVm
  <2>2. req' = [req EXCEPT ![t] = r] /\ \A u \in Threads \ {t} : pc'[u] = pc[u]
    BY <1>3, <1>7 DEF Reassign, ReleaseVm
  <2>3. WellTyped(r)
    BY <1>4, <1>5, <2>1 DEF Request, ReleaseVcpu, WellTyped, Pages, Asids, Owners
  <2>4. Fits(r, v, vmcb'[v], alive')
    BY <1>4, <2>1 DEF Request, ReleaseVcpu, Fits, WithVm, WithVcpu, Sharing
  <2>5. v \notin alive' /\ \A w \in VMs \ {v} : w \in alive' <=> w \in alive BY <2>1
  <2>6. \A u \in Threads \ {t} : Active(u) => req[u].vm # v BY <2>1, AloneFacts
  <2>7. \A w \in VMs \ {v} : vmcb'[w] = vmcb[w] /\ (w \in alive' <=> w \in alive) BY <2>1, <2>5
  <2>8. v \in alive' => vmcb'[v] \in Pool BY <2>5
  <2>9. \A u \in Threads \ {t} : Active(u) /\ req[u].vm = v =>
           /\ vmcb'[v] = vmcb[v] /\ (v \in alive' <=> v \in alive)
           /\ pc'[t] \notin {"idle", "crashed"} => {r.op, req[u].op} \subseteq Sharing
    BY <2>6
  <2> HIDE DEF r
  <2>10. Requests(t, v, r) BY <1>2, <2>2, <2>3, <2>4, <2>7, <2>8, <2>9 DEF Requests
  <2> QED BY <2>10, RequestStep
<1>8. ASSUME NEW v \in VMs, SetMapping(t, v) PROVE RequestDiscipline'
  <2>1. PICK G \in (SUBSET Gpas) \ {{}}, o \in {"insecure_guest", "secure_guest"} :
          \E m \in [G -> Data \ {Zero}] :
            Reassign(t, Request("map", v, m, {m[g] : g \in G}, v, o))
    BY <1>8 DEF SetMapping
  <2>2. PICK m \in [G -> Data \ {Zero}] :
          Reassign(t, Request("map", v, m, {m[g] : g \in G}, v, o))
    BY <2>1
  <2> DEFINE r == Request("map", v, m, {m[g] : g \in G}, v, o)
  <2>3. WellTyped(r) BY DEF Request, WellTyped, Pages, Asids, Owners
  <2>4. v \in alive /\ UNCHANGED <<alive, vmcb>> BY <1>8 DEF SetMapping, Mapping, guests
  <2>5. Fits(r, v, vmcb[v], alive) BY <2>4 DEF Request, Fits, WithVm, WithVcpu, Sharing
  <2>6. \A u \in Threads \ {t} : Active(u) /\ req[u].vm = v => {r.op, req[u].op} \subseteq Sharing
    BY <1>8 DEF SetMapping, Mapping, Using, Active, Sharing, Request
  <2>7. Reassign(t, r) BY <2>2
  <2> HIDE DEF r
  <2> QED BY <2>3, <2>4, <2>5, <2>6, <2>7, OnlyRequest
<1>9. ASSUME NEW v \in VMs, SetUnmapping(t, v) PROVE RequestDiscipline'
  <2>1. PICK G \in (SUBSET Gpas) \ {{}} : Reassign(t, Unmap(v, G))
    BY <1>9 DEF SetUnmapping
  <2>2. Backing(v, G) \subseteq Data BY <1>1, BackingType
  <2>3. WellTyped(Unmap(v, G))
    BY <2>2 DEF Request, Unmap, WellTyped, Pages, Asids, Owners
  <2>4. v \in alive /\ UNCHANGED <<alive, vmcb>> BY <1>9 DEF SetUnmapping, Mapping, guests
  <2>5. Fits(Unmap(v, G), v, vmcb[v], alive)
    BY <2>2, <2>4 DEF Request, Unmap, Fits, WithVm, WithVcpu, Sharing
  <2>6. \A u \in Threads \ {t} :
          Active(u) /\ req[u].vm = v => {Unmap(v, G).op, req[u].op} \subseteq Sharing
    BY <1>9 DEF SetUnmapping, Mapping, Using, Active, Sharing, Unmap, Request
  <2> QED BY <2>1, <2>3, <2>4, <2>5, <2>6, OnlyRequest
<1>10. ASSUME NEW v \in VMs, Claim(t, v) PROVE RequestDiscipline'
  <2>1. PICK G \in (SUBSET Gpas) \ {{}}, o \in {"insecure_guest", "secure_guest"} :
          Reassign(t, Request("claim", v, NoMap, Backing(v, G), v, o))
    BY <1>10 DEF Claim
  <2> DEFINE r == Request("claim", v, NoMap, Backing(v, G), v, o)
  <2>2. Backing(v, G) \subseteq Data BY <1>1, BackingType
  <2>3. WellTyped(r) BY <1>5, <2>2 DEF Request, WellTyped, Pages, Asids, Owners
  <2>4. v \in alive /\ UNCHANGED <<alive, vmcb>> /\ Alone(t, v) BY <1>10 DEF Claim, guests
  <2>5. Fits(r, v, vmcb[v], alive) BY <2>2, <2>4 DEF Request, Fits, WithVm, WithVcpu, Sharing
  <2>6. \A u \in Threads \ {t} : Active(u) => req[u].vm # v BY <2>4, AloneFacts
  <2>7. Reassign(t, r) BY <2>1
  <2> HIDE DEF r
  <2> QED BY <2>3, <2>4, <2>5, <2>6, <2>7, OnlyRequest
<1>11. ASSUME NEW v \in VMs, NsvActivate(t, v) \/ NsvDeactivate(t, v) PROVE RequestDiscipline'
  <2>1. v \in alive /\ UNCHANGED <<alive, vmcb>> /\ Alone(t, v)
    BY <1>11 DEF NsvActivate, NsvDeactivate
  <2>2. CASE pc' = pc /\ req' = req BY <1>1, <2>1, <2>2 DEF RequestDiscipline, Requested, Active
  <2>3. CASE Reassign(t, ProtectVmcb(v, "secure_guest"))
    <3> DEFINE r == ProtectVmcb(v, "secure_guest")
    <3>1. WellTyped(r)
      BY <1>4, <1>5, <2>1 DEF Request, ProtectVmcb, WellTyped, Pages, Asids, Owners
    <3>2. Fits(r, v, vmcb[v], alive)
      BY <2>1 DEF Request, ProtectVmcb, Fits, WithVm, WithVcpu, Sharing
    <3>3. \A u \in Threads \ {t} : Active(u) => req[u].vm # v BY <2>1, AloneFacts
    <3>4. Reassign(t, r) BY <2>3
    <3> HIDE DEF r
    <3> QED BY <2>1, <3>1, <3>2, <3>3, <3>4, OnlyRequest
  <2>4. CASE Reassign(t, Request("deactivate", v, NoMap, {}, v, "insecure_guest"))
    <3> DEFINE r == Request("deactivate", v, NoMap, {}, v, "insecure_guest")
    <3>1. WellTyped(r) BY <1>5 DEF Request, WellTyped, Pages, Asids, Owners
    <3>2. Fits(r, v, vmcb[v], alive) BY <2>1 DEF Request, Fits, WithVm, WithVcpu, Sharing
    <3>3. \A u \in Threads \ {t} : Active(u) => req[u].vm # v BY <2>1, AloneFacts
    <3>4. Reassign(t, r) BY <2>4
    <3> HIDE DEF r
    <3> QED BY <2>1, <3>1, <3>2, <3>3, <3>4, OnlyRequest
  <2> QED BY <1>11, <2>2, <2>3, <2>4 DEF NsvActivate, NsvDeactivate
<1> QED BY <1>6, <1>7, <1>8, <1>9, <1>10, <1>11 DEF Start

\* Steps that change no request keep the discipline.
LEMMA KeptRequests ==
  ASSUME IInv, UNCHANGED <<req, alive, vmcb>>,
         \A u \in Threads : pc'[u] \notin {"idle", "crashed"} => Active(u)
  PROVE  RequestDiscipline'
<1>1. RequestDiscipline BY DEF IInv
<1>2. \A u \in Threads : Active(u)' => Active(u) BY DEF Active
<1> QED BY <1>1, <1>2 DEF RequestDiscipline, Requested

\* A thread whose operation excludes others is alone with its CVM.
LEMMA ExclusiveFacts ==
  ASSUME IInv, NEW t \in Threads, Active(t), req[t].op \notin Sharing,
         NEW u \in Threads \ {t}, Active(u)
  PROVE  req[u].vm # req[t].vm
BY DEF IInv, RequestDiscipline, Requested

\* An operation that ends, and leaves the CVM as it is.
LEMMA ReturnRequests ==
  ASSUME IInv, NEW t \in Threads, Return(t), UNCHANGED <<alive, vmcb>>, Active(t)
  PROVE  RequestDiscipline'
<1>1. TypeOK /\ RequestDiscipline BY DEF IInv
<1>2. req[t].vm \in VMs BY <1>1 DEF RequestDiscipline, Requested
<1>3. req' = [req EXCEPT ![t] = NoRequest] BY DEF Return
<1>4. pc'[t] = "idle" /\ \A u \in Threads \ {t} : pc'[u] = pc[u] BY <1>1 DEF Return, TypeOK
<1>5. WellTyped(NoRequest)
  BY DEF NoRequest, Request, NoMap, WellTyped, Asids, Owners
<1>6. req[t].vm \in alive' => vmcb'[req[t].vm] \in Pool BY <1>1 DEF RequestDiscipline
<1>7. alive' \subseteq VMs BY <1>1 DEF TypeOK
<1>8. Requests(t, req[t].vm, NoRequest) BY <1>3, <1>4, <1>5, <1>6, <1>7 DEF Requests
<1> QED BY <1>2, <1>8, RequestStep

LEMMA FinishRequests ==
  ASSUME IInv, NEW t \in Threads, Finish(t)
  PROVE  RequestDiscipline'
<1> USE ActorsAssumption, PagesAssumption DEF Nobody, HostAsid
<1>1. TypeOK /\ RequestDiscipline BY DEF IInv
<1>2. alive' \subseteq VMs BY FrontTypes DEF TypeOK
<1>3. pc[t] = "done" /\ Active(t)
  BY DEF Finish, CreateDone, CreateFails, VcpuReleased, VmReleased, MapDone, MapFails,
     UnmapDone, Deactivated, NsvDone, Done, Active
<1>4. pc \in [Threads -> {"idle", "nptm", "rmd", "work", "unlock", "done", "crashed"}]
  BY <1>1 DEF TypeOK
<1> DEFINE v == req[t].vm
<1>5. /\ v \in VMs /\ Fits(req[t], v, vmcb[v], alive)
      /\ \A u \in Threads \ {t} :
           Active(u) /\ req[u].vm = v => {req[t].op, req[u].op} \subseteq Sharing
  BY <1>1, <1>3 DEF RequestDiscipline, Requested
<1>6. DOMAIN NoMap = {} BY DEF NoMap
<1>7. CASE CreateDone(t)
  <2>1. /\ alive' = alive \cup {v} /\ vmcb' = vmcb /\ req' = [req EXCEPT ![t] = NoRequest]
        /\ pc' = [pc EXCEPT ![t] = "idle"] /\ req[t].op = "create"
    BY <1>7 DEF CreateDone, Return, Done
  <2>2. pc'[t] = "idle" /\ \A u \in Threads \ {t} : pc'[u] = pc[u] BY <1>4, <2>1
  <2>3. WellTyped(NoRequest) BY <1>6 DEF NoRequest, Request, WellTyped, Asids, Owners
  <2>4. vmcb'[v] \in Pool BY <1>5, <2>1 DEF Fits, WithVcpu
  <2>5. \A u \in Threads \ {t} : Active(u) => req[u].vm # v
    BY <1>3, <2>1, ExclusiveFacts DEF Sharing
  <2>6. \A w \in VMs \ {v} : w \in alive' <=> w \in alive BY <2>1
  <2> HIDE DEF v
  <2>7. Requests(t, v, NoRequest) BY <1>2, <2>1, <2>2, <2>3, <2>4, <2>5, <2>6 DEF Requests
  <2> QED BY <1>5, <2>7, RequestStep
<1>8. CASE CreateFails(t)
  <2>1. \A u \in Threads : pc'[u] = "crashed" BY <1>8 DEF CreateFails
  <2> QED BY <1>8, <2>1, KeptRequests DEF CreateFails, guests
<1>9. CASE VcpuReleased(t)
  <2> DEFINE r == Request("release_all", v, NoMap, {}, HostAsid, "subverted_host")
  <2>1. /\ vmcb' = [vmcb EXCEPT ![v] = None] /\ alive' = alive
        /\ req' = [req EXCEPT ![t] = r] /\ pc' = [pc EXCEPT ![t] = "nptm"] /\ req[t].op = "vmcb"
    BY <1>9 DEF VcpuReleased, Reassign, Done
  <2>2. \A u \in Threads \ {t} : pc'[u] = pc[u] BY <1>4, <2>1
  <2>3. v \notin alive BY <1>5, <2>1 DEF Fits, WithVm, WithVcpu, Sharing
  <2>4. WellTyped(r) BY <1>6 DEF Request, WellTyped, Asids, Owners
  <2>5. Fits(r, v, vmcb'[v], alive')
    BY <2>1, <2>3 DEF Request, Fits, WithVm, WithVcpu, Sharing
  <2>6. \A u \in Threads \ {t} : Active(u) => req[u].vm # v
    BY <1>3, <2>1, ExclusiveFacts DEF Sharing
  <2>7. \A w \in VMs \ {v} : vmcb'[w] = vmcb[w] BY <1>1, <2>1 DEF TypeOK
  <2> HIDE DEF v, r
  <2>8. Requests(t, v, r)
    BY <1>2, <2>1, <2>2, <2>3, <2>4, <2>5, <2>6, <2>7 DEF Requests
  <2> QED BY <1>5, <2>8, RequestStep
<1>10. CASE VmReleased(t) \/ MapDone(t) \/ UnmapDone(t) \/ NsvDone(t)
  <2>1. Return(t) /\ UNCHANGED <<alive, vmcb>>
    BY <1>10 DEF VmReleased, MapDone, UnmapDone, NsvDone, guests
  <2> QED BY <1>3, <2>1, ReturnRequests
<1>11. CASE MapFails(t)
  <2> DEFINE G == DOMAIN req[t].map
             P == {IF mapped'[v][g] = None THEN Zero ELSE mapped'[v][g] : g \in G}
             r == [Unmap(v, G) EXCEPT !.pages = P]
  <2>1. Reassign(t, r) /\ UNCHANGED <<alive, vmcb>> /\ req[t].op = "map"
    BY <1>11 DEF MapFails, Done
  <2>2. mapped' \in [VMs -> [Gpas -> Data \cup {None}]] BY FrontTypes DEF TypeOK
  <2>3. G \subseteq Gpas BY <1>1 DEF RequestDiscipline, WellTyped
  <2>4. P \subseteq Data BY <1>5, <2>2, <2>3
  <2>5. /\ r.op = "unmap" /\ r.vm = v /\ r.map = [g \in G |-> Zero] /\ r.pages = P
        /\ r.asid = HostAsid /\ r.owner = "subverted_host"
        /\ r = Request(r.op, r.vm, r.map, r.pages, r.asid, r.owner)
    <3>1. Unmap(v, G) = Request("unmap", v, [g \in G |-> Zero], Backing(v, G), HostAsid,
                                "subverted_host")
      BY DEF Unmap
    <3>2. r = Request("unmap", v, [g \in G |-> Zero], P, HostAsid, "subverted_host")
      <4> HIDE DEF v, G, P
      <4> QED BY <3>1 DEF Request
    <3> QED BY <3>2 DEF Request
  <2>6. WellTyped(r) BY <2>3, <2>4, <2>5 DEF WellTyped, Pages, Asids, Owners
  <2>7. v \in alive BY <1>5, <2>1 DEF Fits, WithVm, Sharing
  <2>8. Fits(r, v, vmcb[v], alive)
    BY <2>4, <2>5, <2>7 DEF Fits, WithVm, WithVcpu, Sharing
  <2>9. \A u \in Threads \ {t} : Active(u) /\ req[u].vm = v => {r.op, req[u].op} \subseteq Sharing
    BY <1>5, <2>5 DEF Sharing
  <2> HIDE DEF r, v
  <2> QED BY <2>1, <2>6, <2>7, <2>8, <2>9, OnlyRequest
<1>12. CASE Deactivated(t)
  <2> DEFINE r == ProtectVmcb(v, "insecure_guest")
  <2>1. Reassign(t, r) /\ UNCHANGED <<alive, vmcb>> /\ req[t].op = "deactivate"
    BY <1>12 DEF Deactivated, Done, guests
  <2>2. v \in alive BY <1>5, <2>1 DEF Fits, WithVm, Sharing
  <2>3. vmcb[v] \in Pool BY <1>1, <2>2 DEF RequestDiscipline
  <2>4. WellTyped(r)
    BY <1>6, <2>3 DEF Request, ProtectVmcb, WellTyped, Pages, Asids, Owners
  <2>5. Fits(r, v, vmcb[v], alive)
    BY <2>2 DEF Request, ProtectVmcb, Fits, WithVm, WithVcpu, Sharing
  <2>6. \A u \in Threads \ {t} : Active(u) => req[u].vm # v
    BY <1>3, <2>1, ExclusiveFacts DEF Sharing
  <2> HIDE DEF r, v
  <2> QED BY <2>1, <2>2, <2>4, <2>5, <2>6, OnlyRequest
<1> QED BY <1>7, <1>8, <1>9, <1>10, <1>11, <1>12 DEF Finish

LEMMA LockRequests ==
  ASSUME IInv, NEW t \in Threads, LockNptm(t) \/ LockRmd(t) \/ ListFails(t) \/ Unlock(t)
  PROVE  RequestDiscipline'
<1>1. TypeOK /\ RequestDiscipline /\ TableDiscipline BY DEF IInv
<1>2. Active(t) BY DEF LockNptm, LockRmd, ListFails, Unlock, Active
<1>3. CASE LockNptm(t) \/ ListFails(t) \/ Unlock(t)
  <2>1. UNCHANGED <<req, alive, vmcb>>
    BY <1>3 DEF LockNptm, ListFails, Unlock, guests
  <2>2. \A u \in Threads \ {t} : pc'[u] = pc[u]
    BY <1>1, <1>3 DEF LockNptm, ListFails, Unlock, ReturnFalse, TypeOK
  <2>3. \A u \in Threads : pc'[u] \notin {"idle", "crashed"} => Active(u)
    BY <1>2, <2>2 DEF Active
  <2> QED BY <2>1, <2>3, KeptRequests
<1>4. CASE LockRmd(t)
  <2> DEFINE v == req[t].vm
             r == [req[t] EXCEPT !.pages = Listed(req[t])]
  <2>1. v \in VMs /\ Fits(req[t], v, vmcb[v], alive) /\ WellTyped(req[t])
        /\ \A u \in Threads \ {t} :
             Active(u) /\ req[u].vm = v => {req[t].op, req[u].op} \subseteq Sharing
    BY <1>1, <1>2 DEF RequestDiscipline, Requested
  <2>2. req' = [req EXCEPT ![t] = r] BY <1>4 DEF LockRmd
  <2>3. UNCHANGED <<alive, vmcb>> BY <1>4 DEF LockRmd, guests
  <2>4. \A u \in Threads \ {t} : pc'[u] = pc[u] BY <1>1, <1>4 DEF LockRmd, ReturnFalse, TypeOK
  <2>5. OfWholeVm(req[t]) => Listed(req[t]) \subseteq Data
    BY <1>1, <2>1 DEF Listed, TableDiscipline
  <2>6. ~OfWholeVm(req[t]) => Listed(req[t]) = req[t].pages BY DEF Listed
  <2>7. /\ r.op = req[t].op /\ r.vm = v /\ r.map = req[t].map /\ r.asid = req[t].asid
        /\ r.owner = req[t].owner /\ r.pages = Listed(req[t])
    BY <2>1 DEF WellTyped, Request
  <2>8. WellTyped(r) BY <2>1, <2>5, <2>6, <2>7 DEF WellTyped, Pages, Request
  <2>9. Fits(r, v, vmcb[v], alive) BY <2>1, <2>5, <2>6, <2>7 DEF Fits
  <2>10. v \in alive => vmcb[v] \in Pool BY <1>1 DEF RequestDiscipline
  <2>11. alive \subseteq VMs BY <1>1 DEF TypeOK
  <2> HIDE DEF r, v
  <2>12. Requests(t, v, r)
    BY <2>1, <2>2, <2>3, <2>4, <2>7, <2>8, <2>9, <2>10, <2>11 DEF Requests
  <2> QED BY <2>1, <2>12, RequestStep
<1> QED BY <1>3, <1>4

LEMMA WorkRequests ==
  ASSUME IInv, NEW t \in Threads, Work(t)
  PROVE  RequestDiscipline'
<1>0. Working(t) /\ UNCHANGED <<req, alive, vmcb>>
  BY DEF Work, LookUp, SplitPdpte, SplitPde, SplitFails, ReassignRmt, Refuse, Remap, guests
<1>1. pc' = pc \/ pc' = [pc EXCEPT ![t] = "unlock"]
  BY DEF Work, LookUp, SplitPdpte, SplitPde, SplitFails, ReassignRmt, Refuse, Remap,
         ReturnTrue, ReturnFalse
<1>2. pc \in [Threads -> {"idle", "nptm", "rmd", "work", "unlock", "done", "crashed"}]
  BY DEF IInv, TypeOK
<1>3. \A u \in Threads : pc'[u] \notin {"idle", "crashed"} => Active(u)
  BY <1>0, <1>1, <1>2 DEF Active, Working
<1> QED BY <1>0, <1>3, KeptRequests

-----------------------------------------------------------------------------
(* Calls, the host's view and the tables.                                  *)

\* Between calls nothing is pending.
LEMMA NothingPending ==
  ASSUME IInv, stack # <<>>, ~Top.written \/ Top.cur # None
  PROVE  Pending = {} /\ ~Top.written /\ \A i \in 1 .. Len(stack) : ~stack[i].written
<1>1. stack \in Seq(Calls) /\ CallDiscipline BY DEF IInv, TypeOK
<1>2. Len(stack) \in Nat \ {0} /\ Top = stack[Len(stack)] /\ Top \in Calls
  BY <1>1, StackFacts DEF Top
<1>3. Top.written => Top.cur = None BY <1>1, <1>2 DEF CallDiscipline, Disciplined
<1>4. ~Top.written BY <1>3
<1>5. \A i \in 1 .. Len(stack) : ~stack[i].written BY <1>1, <1>2, <1>4 DEF CallDiscipline, Disciplined
<1> QED BY <1>4, <1>5 DEF Pending

\* The tables of calls other than the outermost are pages.
LEMMA InnerTable ==
  ASSUME IInv, stack # <<>>, NEW i \in 1 .. Len(stack), i # 1
  PROVE  \E r \in Regions : stack[i].pages = {table[r]} /\ table[r] \in Pool
<1>1. stack \in Seq(Calls) /\ CallDiscipline /\ table \in [Regions -> Pool \cup {Boot, None}]
  BY DEF IInv, TypeOK
<1>2. stack[i] \in Calls BY <1>1, ElementOfSeq
<1>3. PICK r \in Regions : stack[i].pages = {table[r]} BY <1>1 DEF CallDiscipline, Disciplined
<1>4. table[r] \in Pages BY <1>2, <1>3 DEF Calls
<1> QED BY <1>1, <1>3, <1>4, PagesAssumption

LEMMA LookUpStep ==
  ASSUME IInv, NEW t \in Threads, LookUp(t)
  PROVE  CallDiscipline' /\ ViewDiscipline' /\ TableDiscipline'
<1>1. Working(t) /\ UNCHANGED <<owner, asid, table, linked, pte, rmd_lock, req, vmcb, exposed>>
  BY DEF LookUp, rmt, host_npt, locks, guests, history
<1>2. /\ stack \in Seq(Calls) /\ stack # <<>> /\ Top \in Calls
      /\ Len(stack) \in Nat \ {0} /\ Top = stack[Len(stack)]
  BY <1>1, WorkFacts
<1>3. PICK p \in Top.todo :
        LET call == [Top EXCEPT !.cur = p, !.pte_missing = table[Mega[p]] = None]
        IN stack' = SetTop(IF table[Giga[p]] = None \/ call.pte_missing THEN call ELSE ItemDone(call))
  BY DEF LookUp
<1> DEFINE call == [Top EXCEPT !.cur = p, !.pte_missing = table[Mega[p]] = None]
           c == IF table[Giga[p]] = None \/ call.pte_missing THEN call ELSE ItemDone(call)
<1>4. call \in Calls BY <1>2 DEF Calls
<1>5. c \in Calls BY <1>4, ItemDoneType
<1>6. CallDiscipline /\ ViewDiscipline /\ TableDiscipline BY DEF IInv
<1>7. ~Top.written /\ Pending = {} /\ \A i \in 1 .. Len(stack) : ~stack[i].written
  <2>1. ~Top.written BY <1>2, <1>6 DEF CallDiscipline, Disciplined
  <2> QED BY <1>2, <2>1, NothingPending
<1>8. /\ call.pages = Top.pages /\ call.owner = Top.owner /\ call.asid = Top.asid
      /\ call.written = Top.written /\ call.cur = p /\ call.pte_missing = (table[Mega[p]] = None)
  BY <1>2 DEF Calls
<1>9. /\ c.pages = Top.pages /\ c.owner = Top.owner /\ c.asid = Top.asid
      /\ ~c.written
      /\ c.pte_missing /\ c.cur # None => table[Mega[c.cur]] # Boot
  <2> HIDE DEF call, c
  <2>1. CASE c = call BY <1>7, <1>8, <2>1, PagesAssumption
  <2>2. CASE c = ItemDone(call)
    <3>1. /\ c.pages = call.pages /\ c.owner = call.owner /\ c.asid = call.asid
          /\ c.written = call.written /\ c.cur = None
      BY <1>4, <2>2 DEF ItemDone, Calls
    <3> QED BY <1>7, <1>8, <3>1
  <2> QED BY <2>1, <2>2 DEF c
<1>10. stack' = SetTop(c) BY <1>3
<1> HIDE DEF c, call
<1>11. /\ stack' # <<>> /\ Len(stack') = Len(stack)
       /\ \A i \in 1 .. Len(stack) : stack'[i] = IF i = Len(stack) THEN c ELSE stack[i]
  BY <1>2, <1>5, <1>10, SetTopFacts
<1>12. CallDiscipline'
  <2> SUFFICES ASSUME NEW i \in 1 .. Len(stack)
               PROVE  Disciplined(i)'
    BY <1>11 DEF CallDiscipline
  <2>1. stack'[i].pages = stack[i].pages /\ stack'[i].owner = stack[i].owner
        /\ stack'[i].asid = stack[i].asid /\ ~stack'[i].written
    BY <1>2, <1>7, <1>9, <1>11
  <2>2. stack'[i].pte_missing /\ stack'[i].cur # None => table[Mega[stack'[i].cur]] # Boot
    BY <1>2, <1>6, <1>9, <1>11 DEF CallDiscipline, Disciplined
  <2> QED BY <1>1, <1>6, <2>1, <2>2 DEF CallDiscipline, Disciplined
<1>13. Pending' = {}
  <2>1. Len(stack') \in 1 .. Len(stack) /\ Len(stack') = Len(stack) BY <1>2, <1>11
  <2>2. stack'[Len(stack')] = c BY <1>11, <2>1
  <2> QED BY <1>9, <2>2 DEF Pending, Top
<1>14. ViewDiscipline' BY <1>1, <1>6, <1>7, <1>13 DEF ViewDiscipline, HostAccess
<1>15. \A i \in 2 .. Len(stack) : stack'[i].pages = stack[i].pages BY <1>2, <1>9, <1>11
<1>16. TableDiscipline' BY <1>1, <1>6, <1>11, <1>15 DEF TableDiscipline
<1> QED BY <1>12, <1>14, <1>16

\* A new table is described, and its own reassignment begins.
LEMMA DescribeStep ==
  ASSUME IInv, NEW t \in Threads, Working(t), Top.cur # None,
         NEW r \in Regions, NEW f \in Pool, NEW c \in Calls, Describe(r, f, c),
         (table[r] = None /\ f \in Free) \/ table[r] = f,
         c.pages = Top.pages, c.owner = Top.owner, c.asid = Top.asid, c.written = Top.written,
         c.pte_missing /\ c.cur # None => Top.pte_missing /\ c.cur = Top.cur,
         UNCHANGED <<owner, asid, linked, pte, rmd_lock, req, vmcb, exposed>>
  PROVE  CallDiscipline' /\ ViewDiscipline' /\ TableDiscipline'
<1>1. /\ stack \in Seq(Calls) /\ stack # <<>> /\ Top \in Calls
      /\ Len(stack) \in Nat \ {0} /\ Top = stack[Len(stack)]
  BY WorkFacts
<1>2. CallDiscipline /\ ViewDiscipline /\ TableDiscipline BY DEF IInv
<1>3. ~Top.written /\ Pending = {} /\ \A i \in 1 .. Len(stack) : ~stack[i].written
  BY <1>1, NothingPending
<1> DEFINE d == Call({f}, Nobody, "noirvisor")
           n == Len(stack)
<1>4. f \in Pages /\ f # Boot BY PagesAssumption DEF Pages
<1>5. d \in Calls BY <1>4, TableCall
<1>6. /\ d.pages = {f} /\ d.owner = "noirvisor" /\ d.asid = Nobody /\ ~d.written
      /\ ~d.pte_missing
  BY DEF Call
<1>7. stack' = Append(SetTop(c), d) BY DEF Describe
<1> HIDE DEF d
<1>8. /\ stack' # <<>> /\ Len(stack') = n + 1 /\ stack'[n + 1] = d
      /\ \A i \in 1 .. n : stack'[i] = IF i = n THEN c ELSE stack[i]
  <2>1. LET s == Append(SetTop(c), d) IN
        /\ s # <<>> /\ Len(s) = n + 1 /\ s[n + 1] = d
        /\ \A i \in 1 .. n : s[i] = IF i = n THEN c ELSE stack[i]
    BY <1>1, <1>5, PushFacts
  <2> QED BY <1>7, <2>1
<1>9. table' = [table EXCEPT ![r] = f] /\ table \in [Regions -> Pool \cup {Boot, None}]
  BY DEF Describe, IInv, TypeOK
<1>10. /\ table'[r] = f /\ \A q \in Regions : table'[q] = table[q] \/ (q = r /\ table[q] = None)
  BY <1>9
<1>11. \A q \in Regions : table[q] # Boot => table'[q] # Boot BY <1>4, <1>10
<1>12. \A i \in 1 .. n : stack'[i].pages = stack[i].pages /\ stack'[i].owner = stack[i].owner
          /\ stack'[i].asid = stack[i].asid /\ ~stack'[i].written
  BY <1>1, <1>3, <1>8
<1>13. ASSUME NEW i \in 1 .. n, i # 1
       PROVE  /\ stack'[i].owner = "noirvisor" /\ stack'[i].asid = Nobody
              /\ \E q \in Regions : stack'[i].pages = {table'[q]}
  <2>1. PICK q \in Regions : stack[i].pages = {table[q]} /\ table[q] \in Pool
    BY <1>1, <1>13, InnerTable
  <2>2. table'[q] = table[q] BY <1>10, <2>1, PagesAssumption DEF Pages
  <2> QED BY <1>2, <1>12, <1>13, <2>1, <2>2 DEF CallDiscipline, Disciplined
<1>14. ASSUME NEW i \in 1 .. n, stack'[i].pte_missing, stack'[i].cur # None
       PROVE  table'[Mega[stack'[i].cur]] # Boot
  <2>1. stack[i].pte_missing /\ stack[i].cur # None /\ stack'[i].cur = stack[i].cur
    BY <1>1, <1>8, <1>14
  <2>2. stack[i] \in Calls BY <1>1, ElementOfSeq
  <2>3. stack[i].cur \in Pages BY <2>1, <2>2 DEF Calls
  <2>4. Mega[stack[i].cur] \in Regions BY <2>3, PagesAssumption DEF Regions
  <2> QED BY <1>2, <1>11, <2>1, <2>4 DEF CallDiscipline, Disciplined
<1>15. CallDiscipline'
  <2> SUFFICES ASSUME NEW i \in 1 .. Len(stack')
               PROVE  Disciplined(i)'
    BY DEF CallDiscipline
  <2>1. CASE i = n + 1 BY <1>1, <1>6, <1>8, <1>10, <2>1 DEF Disciplined
  <2>2. CASE i \in 1 .. n
    <3>1. i = 1 => /\ stack'[i].pages = req'[rmd_lock'].pages
                   /\ stack'[i].owner = req'[rmd_lock'].owner
                   /\ stack'[i].asid = req'[rmd_lock'].asid
      BY <1>2, <1>12, <2>2 DEF CallDiscipline, Disciplined
    <3> QED BY <1>12, <1>13, <1>14, <2>2, <3>1 DEF Disciplined
  <2> QED BY <1>1, <1>8, <2>1, <2>2
<1>16. Pending' = {} BY <1>6, <1>8 DEF Pending, Top
<1>17. ViewDiscipline' BY <1>2, <1>3, <1>16 DEF ViewDiscipline, HostAccess
<1>18. \A v \in VMs, q \in Regions : table'[q] \in Pool => table'[q] # vmcb[v]
  <2>1. \A v \in VMs : f # vmcb[v]
    BY <1>2, <1>9 DEF TableDiscipline, Free
  <2>2. \A q \in Regions : table'[q] = f \/ table'[q] = table[q] BY <1>9
  <2> QED BY <1>2, <2>1, <2>2 DEF TableDiscipline
<1>19. ASSUME NEW q \in Regions, table'[q] \in Pool \ exposed
       PROVE  owner[table'[q]] = "noirvisor" \/ \E i \in 2 .. n + 1 : stack'[i].pages = {table'[q]}
  <2>1. CASE q = r BY <1>1, <1>6, <1>8, <1>10, <2>1
  <2>2. CASE q # r
    <3>1. table'[q] = table[q] BY <1>9, <2>2
    <3>2. owner[table[q]] = "noirvisor" \/ \E i \in 2 .. n : stack[i].pages = {table[q]}
      BY <1>2, <1>19, <3>1 DEF TableDiscipline
    <3> QED BY <1>1, <1>12, <3>1, <3>2
  <2> QED BY <2>1, <2>2
<1>20. TableDiscipline' BY <1>2, <1>8, <1>18, <1>19 DEF TableDiscipline
<1> QED BY <1>15, <1>17, <1>20

LEMMA SplitStep ==
  ASSUME IInv, NEW t \in Threads, SplitPdpte(t) \/ SplitPde(t)
  PROVE  CallDiscipline' /\ ViewDiscipline' /\ TableDiscipline'
<1>1. /\ Working(t) /\ Top.cur # None
      /\ UNCHANGED <<owner, asid, linked, pte, rmd_lock, req, vmcb, exposed>>
  BY DEF SplitPdpte, SplitPde, rmt, locks, guests, history
<1>2. Top \in Calls BY <1>1, WorkFacts
<1>3. Giga[Top.cur] \in Regions /\ Mega[Top.cur] \in Regions
  BY <1>1, <1>2, PagesAssumption DEF Calls, Regions
<1>4. /\ ItemDone(Top) \in Calls /\ ItemDone(Top).pages = Top.pages
      /\ ItemDone(Top).owner = Top.owner /\ ItemDone(Top).asid = Top.asid
      /\ ItemDone(Top).written = Top.written /\ ItemDone(Top).cur = None
  BY <1>2, ItemDoneType DEF ItemDone, Calls
<1>5. CASE SplitPdpte(t)
  <2> DEFINE c == IF Top.pte_missing THEN Top ELSE ItemDone(Top)
  <2>1. table[Giga[Top.cur]] = None BY <1>5 DEF SplitPdpte
  <2>2. PICK f \in Free : Describe(Giga[Top.cur], f, c) BY <1>5 DEF SplitPdpte
  <2>3. f \in Pool BY DEF Free
  <2>4. /\ c \in Calls /\ c.pages = Top.pages /\ c.owner = Top.owner /\ c.asid = Top.asid
        /\ c.written = Top.written
        /\ (c.pte_missing /\ c.cur # None => Top.pte_missing /\ c.cur = Top.cur)
    BY <1>2, <1>4
  <2> HIDE DEF c
  <2> QED BY <1>1, <1>3, <2>1, <2>2, <2>3, <2>4, DescribeStep
<1>6. CASE SplitPde(t)
  <2> DEFINE r == Mega[Top.cur]
             c == ItemDone(Top)
  <2>1. PICK f \in IF table[r] = None THEN Free ELSE {table[r]} : Describe(r, f, c)
    BY <1>6 DEF SplitPde
  <2>2. Top.pte_missing BY <1>6 DEF SplitPde
  <2>3. f \in Pool BY <1>1, <2>1, <2>2, NewTable DEF Free
  <2>4. (table[r] = None /\ f \in Free) \/ table[r] = f BY <2>1
  <2>5. c.pte_missing /\ c.cur # None => Top.pte_missing /\ c.cur = Top.cur BY <1>4
  <2> HIDE DEF r, c
  <2> QED BY <1>1, <1>3, <1>4, <2>1, <2>3, <2>4, <2>5, DescribeStep DEF r, c
<1> QED BY <1>5, <1>6

\* A call returns TRUE to its caller, after it was written or given up; what
\* it leaves undone is exposed.
LEMMA ReturnTrueStep ==
  ASSUME IInv, NEW t \in Threads, Working(t), ReturnTrue(t),
         UNCHANGED <<owner, asid, table, rmd_lock, req, vmcb>>, exposed \subseteq exposed',
         \A r \in Regions : table[r] \in Top.pages \ exposed' => owner[table[r]] = "noirvisor"
  PROVE  CallDiscipline' /\ Pending' = {} /\ TableDiscipline'
<1>1. /\ stack \in Seq(Calls) /\ stack # <<>> /\ Top \in Calls
      /\ Len(stack) \in Nat \ {0} /\ Top = stack[Len(stack)]
  BY WorkFacts
<1>2. CallDiscipline /\ TableDiscipline BY DEF IInv
<1>3. /\ stack' \in Seq(Calls) /\ Len(stack') = Len(stack) - 1
      /\ stack' = <<>> <=> Len(stack) = 1
      /\ \A i \in 1 .. Len(stack') :
           stack'[i] = IF i = Len(stack') THEN [stack[i] EXCEPT !.result = TRUE] ELSE stack[i]
  BY ReturnTrueFacts
<1>4. ASSUME NEW i \in 1 .. Len(stack')
      PROVE  /\ i \in 1 .. Len(stack) /\ i # Len(stack)
             /\ stack'[i].pages = stack[i].pages /\ stack'[i].owner = stack[i].owner
             /\ stack'[i].asid = stack[i].asid /\ stack'[i].written = stack[i].written
             /\ stack'[i].cur = stack[i].cur /\ stack'[i].pte_missing = stack[i].pte_missing
  <2>1. i \in 1 .. Len(stack) /\ i # Len(stack) BY <1>1, <1>3
  <2>2. stack[i] \in Calls BY <1>1, <2>1, ElementOfSeq
  <2>3. stack'[i] = [stack[i] EXCEPT !.result = TRUE] \/ stack'[i] = stack[i] BY <1>3
  <2> QED BY <2>1, <2>2, <2>3 DEF Calls
<1>5. \A i \in 1 .. Len(stack') : ~stack'[i].written
  BY <1>2, <1>4 DEF CallDiscipline, Disciplined
<1>6. CallDiscipline'
  <2> SUFFICES ASSUME NEW i \in 1 .. Len(stack') PROVE Disciplined(i)'
    BY DEF CallDiscipline
  <2>1. Disciplined(i) BY <1>2, <1>4 DEF CallDiscipline
  <2> QED BY <1>4, <1>5, <2>1 DEF Disciplined
<1>7. Pending' = {}
  <2>1. CASE stack' = <<>> BY <2>1 DEF Pending
  <2>2. CASE stack' # <<>>
    <3>1. Len(stack') \in 1 .. Len(stack') BY <1>1, <1>3, <2>2
    <3> QED BY <1>5, <3>1 DEF Pending, Top
  <2> QED BY <2>1, <2>2
<1>8. ASSUME NEW r \in Regions, table[r] \in Pool \ exposed'
      PROVE  owner[table[r]] = "noirvisor" \/ \E i \in 2 .. Len(stack') : stack'[i].pages = {table[r]}
  <2>1. owner[table[r]] = "noirvisor" \/ \E i \in 2 .. Len(stack) : stack[i].pages = {table[r]}
    BY <1>2, <1>8 DEF TableDiscipline
  <2>2. ASSUME NEW i \in 2 .. Len(stack), stack[i].pages = {table[r]}
        PROVE  owner[table[r]] = "noirvisor" \/ \E j \in 2 .. Len(stack') : stack'[j].pages = {table[r]}
    <3>1. CASE i = Len(stack) BY <1>1, <1>8, <2>2, <3>1
    <3>2. CASE i # Len(stack)
      <4>1. i \in 2 .. Len(stack') /\ i \in 1 .. Len(stack') BY <1>1, <1>3, <3>2
      <4> QED BY <1>4, <2>2, <4>1
    <3> QED BY <3>1, <3>2
  <2> QED BY <2>1, <2>2
<1>9. TableDiscipline' BY <1>2, <1>8 DEF TableDiscipline
<1> QED BY <1>6, <1>7, <1>9

\* All calls return FALSE.
LEMMA ReturnFalseStep ==
  ASSUME IInv, NEW t \in Threads, Working(t), stack' = <<>>, ~Top.written,
         UNCHANGED <<owner, asid, table, linked, pte, rmd_lock, req, vmcb>>,
         exposed \subseteq exposed',
         \A r \in Regions, i \in 2 .. Len(stack) :
           stack[i].pages = {table[r]} /\ table[r] \in Pool \ exposed' => owner[table[r]] = "noirvisor"
  PROVE  CallDiscipline' /\ ViewDiscipline' /\ TableDiscipline'
<1>1. stack # <<>> BY WorkFacts
<1>2. ViewDiscipline /\ TableDiscipline /\ Pending = {} BY <1>1, NothingPending DEF IInv
<1>3. Len(stack') = 0 /\ Pending' = {} BY DEF Pending
<1>4. CallDiscipline' BY <1>3 DEF CallDiscipline
<1>5. ViewDiscipline' BY <1>2, <1>3 DEF ViewDiscipline, HostAccess
<1>6. \A r \in Regions : table[r] \in Pool \ exposed' => owner[table[r]] = "noirvisor"
  BY <1>2 DEF TableDiscipline
<1>7. TableDiscipline' BY <1>2, <1>6 DEF TableDiscipline
<1> QED BY <1>4, <1>5, <1>7

LEMMA FailStep ==
  ASSUME IInv, NEW t \in Threads, SplitFails(t) \/ Refuse(t)
  PROVE  CallDiscipline' /\ ViewDiscipline' /\ TableDiscipline'
<1>1. /\ Working(t)
      /\ UNCHANGED <<owner, asid, table, linked, pte, rmd_lock, req, vmcb>>
  BY DEF SplitFails, Refuse, rmt, host_npt, locks, guests
<1>2. /\ stack \in Seq(Calls) /\ stack # <<>> /\ Top \in Calls
      /\ Len(stack) \in Nat \ {0} /\ Top = stack[Len(stack)]
  BY <1>1, WorkFacts
<1>3. CallDiscipline /\ ViewDiscipline BY DEF IInv
<1>4. \A r \in Regions : table[r] \in Pool => table[r] \in Pages BY DEF Pages
<1>5. CASE SplitFails(t)
  <2>1. ~Top.written /\ Pending = {} BY <1>2, <1>5, NothingPending DEF SplitFails
  <2>2. CASE Top.result
    <3>1. ReturnTrue(t) /\ exposed' = exposed \cup Unprotected(<<Top>>)
      BY <1>5, <2>2 DEF SplitFails
    <3>2. \A r \in Regions : table[r] \in Top.pages \ exposed' => owner[table[r]] = "noirvisor"
      BY <3>1 DEF Unprotected
    <3>3. CallDiscipline' /\ Pending' = {} /\ TableDiscipline'
      BY <1>1, <3>1, <3>2, ReturnTrueStep
    <3>4. ViewDiscipline' BY <1>1, <1>3, <2>1, <3>3 DEF ViewDiscipline, HostAccess
    <3> QED BY <3>3, <3>4
  <2>3. CASE ~Top.result
    <3>1. stack' = <<>> /\ exposed' = exposed \cup Unprotected(stack)
      BY <1>5, <2>3 DEF SplitFails, ReturnFalse
    <3>2. \A r \in Regions, i \in 2 .. Len(stack) :
            stack[i].pages = {table[r]} /\ table[r] \in Pool \ exposed' => owner[table[r]] = "noirvisor"
      BY <1>2, <3>1 DEF Unprotected
    <3> QED BY <1>1, <2>1, <3>1, <3>2, ReturnFalseStep
  <2> QED BY <2>2, <2>3
<1>6. CASE Refuse(t)
  <2>1. /\ stack' = <<>> /\ ~Top.written /\ exposed' = exposed \cup Unprotected(Callers)
        /\ \E p \in Top.pages : ~Valid(p, Top.owner)
    BY <1>6 DEF Refuse, ReturnFalse
  <2>2. ASSUME NEW r \in Regions, NEW i \in 2 .. Len(stack), stack[i].pages = {table[r]},
               table[r] \in Pool \ exposed'
        PROVE  owner[table[r]] = "noirvisor"
    <3>1. CASE i = Len(stack)
      <4>1. Top.owner = "noirvisor" BY <1>2, <1>3, <3>1 DEF CallDiscipline, Disciplined
      <4>2. ~Valid(table[r], "noirvisor") BY <1>2, <2>1, <2>2, <3>1, <4>1
      <4> QED BY <4>2 DEF Valid
    <3>2. CASE i # Len(stack)
      <4>1. i \in 1 .. Len(stack) - 1 BY <1>2, <3>2
      <4>2. Callers[i] = stack[i] /\ i \in 1 .. Len(Callers) BY <1>2, <4>1, StackFacts
      <4>3. table[r] \in UNION {Callers[j].pages : j \in 1 .. Len(Callers)} BY <2>2, <4>2
      <4> QED BY <2>1, <2>2, <4>3 DEF Unprotected
    <3> QED BY <3>1, <3>2
  <2> QED BY <1>1, <2>1, <2>2, ReturnFalseStep
<1> QED BY <1>5, <1>6

\* Pages of the outermost call are no tables, and are data if they go to a CVM.
LEMMA OutermostPages ==
  ASSUME IInv, NEW t \in Threads, Working(t), Len(stack) = 1
  PROVE  /\ Top.pages = req[t].pages /\ Top.owner = req[t].owner /\ Top.asid = req[t].asid
         /\ \A r \in Regions : table[r] \in Pool => table[r] \notin Top.pages
         /\ Top.asid \in VMs => Top.pages \subseteq Data
<1>1. /\ stack # <<>> /\ Top = stack[Len(stack)] /\ pc[t] = "work" /\ rmd_lock = t
  BY WorkFacts
<1>2. Top.pages = req[t].pages /\ Top.owner = req[t].owner /\ Top.asid = req[t].asid
  BY <1>1 DEF IInv, CallDiscipline, Disciplined
<1>3. Requested(t) BY <1>1 DEF IInv, RequestDiscipline, Active
<1>4. /\ req[t].vm \in VMs /\ req[t].pages \subseteq Data \cup {vmcb[req[t].vm]}
      /\ req[t].asid \in VMs => req[t].pages \subseteq Data
  BY <1>3 DEF Requested, Fits
<1>5. \A r \in Regions : table[r] \in Pool => table[r] \notin Data /\ table[r] # vmcb[req[t].vm]
  BY <1>4, PagesAssumption DEF IInv, TableDiscipline
<1> QED BY <1>2, <1>4, <1>5

\* Any other call reassigns a table to NoirVisor.
LEMMA InnerPages ==
  ASSUME IInv, NEW t \in Threads, Working(t), Len(stack) # 1
  PROVE  /\ Top.owner = "noirvisor" /\ Top.asid = Nobody
         /\ Top.written => \A p \in Top.pages : owner[p] = "noirvisor"
<1>1. Len(stack) \in Nat \ {0} /\ Top = stack[Len(stack)] BY WorkFacts
<1>2. Disciplined(Len(stack)) BY <1>1 DEF IInv, CallDiscipline
<1> QED BY <1>1, <1>2 DEF Disciplined

LEMMA ReassignStep ==
  ASSUME IInv, NEW t \in Threads, ReassignRmt(t)
  PROVE  CallDiscipline' /\ ViewDiscipline' /\ TableDiscipline'
<1>1. /\ Working(t) /\ UNCHANGED <<table, linked, pte, rmd_lock, req, vmcb, exposed>>
      /\ ~Top.written /\ Top.todo = {} /\ Top.cur = None
      /\ owner' = [p \in Pages |-> IF p \in Top.pages THEN Top.owner ELSE owner[p]]
      /\ asid' = [p \in Pages |-> IF p \in Top.pages THEN Top.asid ELSE asid[p]]
      /\ stack' = SetTop([Top EXCEPT !.result = TRUE, !.written = TRUE])
  BY DEF ReassignRmt, host_npt, locks, guests, history
<1>2. /\ stack \in Seq(Calls) /\ stack # <<>> /\ Top \in Calls
      /\ Len(stack) \in Nat \ {0} /\ Top = stack[Len(stack)]
  BY <1>1, WorkFacts
<1>3. CallDiscipline /\ ViewDiscipline /\ TableDiscipline BY DEF IInv
<1>4. Pending = {} /\ \A i \in 1 .. Len(stack) : ~stack[i].written
  BY <1>1, <1>2, NothingPending
<1> DEFINE c == [Top EXCEPT !.result = TRUE, !.written = TRUE]
<1>5. /\ c \in Calls /\ c.pages = Top.pages /\ c.owner = Top.owner /\ c.asid = Top.asid
      /\ c.written /\ c.todo = {} /\ c.cur = None
  BY <1>1, <1>2 DEF Calls
<1>6. stack' = SetTop(c) BY <1>1
<1> HIDE DEF c
<1>7. /\ stack' # <<>> /\ Len(stack') = Len(stack)
      /\ \A i \in 1 .. Len(stack) : stack'[i] = IF i = Len(stack) THEN c ELSE stack[i]
  BY <1>2, <1>5, <1>6, SetTopFacts
<1>8. Top.pages \subseteq Pages BY <1>2 DEF Calls
<1>9. CallDiscipline'
  <2> SUFFICES ASSUME NEW i \in 1 .. Len(stack) PROVE Disciplined(i)'
    BY <1>7 DEF CallDiscipline
  <2>1. Disciplined(i) BY <1>3 DEF CallDiscipline
  <2>2. CASE i = Len(stack)
    <3>1. stack'[i] = c /\ stack[i] = Top BY <1>2, <1>7, <2>2
    <3>2. \A p \in c.pages : owner'[p] = c.owner /\ asid'[p] = c.asid BY <1>1, <1>5, <1>8
    <3> QED BY <1>1, <1>5, <1>7, <2>1, <2>2, <3>1, <3>2 DEF Disciplined
  <2>3. CASE i # Len(stack)
    <3>1. stack'[i] = stack[i] /\ ~stack[i].written BY <1>4, <1>7, <2>3
    <3> QED BY <1>1, <2>1, <3>1 DEF Disciplined
  <2> QED BY <2>2, <2>3
<1>10. Pending' = Top.pages
  <2>1. Len(stack') \in 1 .. Len(stack) /\ Len(stack') = Len(stack) BY <1>2, <1>7
  <2>2. stack'[Len(stack')] = c BY <1>7, <2>1
  <2> QED BY <1>5, <1>7, <2>2 DEF Pending, Top
<1>11. ViewDiscipline' BY <1>1, <1>3, <1>4, <1>10 DEF ViewDiscipline, HostAccess
<1>12. \A p \in Pages : asid'[p] \in VMs => p \in Data
  <2>1. Top.asid \in VMs => Top.pages \subseteq Data
    <3>1. CASE Len(stack) = 1 BY <1>1, <3>1, OutermostPages
    <3>2. CASE Len(stack) # 1 BY <1>1, <3>2, InnerPages, ActorsAssumption
    <3> QED BY <3>1, <3>2
  <2> QED BY <1>1, <1>3, <2>1 DEF TableDiscipline
<1>13. ASSUME NEW r \in Regions, table[r] \in Pool \ exposed
       PROVE  owner'[table[r]] = "noirvisor" \/ \E i \in 2 .. Len(stack') : stack'[i].pages = {table[r]}
  <2>1. owner[table[r]] = "noirvisor" \/ \E i \in 2 .. Len(stack) : stack[i].pages = {table[r]}
    BY <1>3, <1>13 DEF TableDiscipline
  <2>2. \A i \in 2 .. Len(stack) : stack'[i].pages = stack[i].pages BY <1>2, <1>5, <1>7
  <2>3. table[r] \in Top.pages => owner'[table[r]] = "noirvisor"
    <3>1. CASE Len(stack) = 1 BY <1>1, <1>13, <3>1, OutermostPages
    <3>2. CASE Len(stack) # 1
      <4>1. Top.owner = "noirvisor" BY <1>1, <3>2, InnerPages
      <4> QED BY <1>1, <1>8, <4>1
    <3> QED BY <3>1, <3>2
  <2>4. table[r] \notin Top.pages => owner'[table[r]] = owner[table[r]]
    BY <1>1, <1>13 DEF Pages
  <2> QED BY <1>7, <2>1, <2>2, <2>3, <2>4
<1>14. TableDiscipline' BY <1>1, <1>3, <1>12, <1>13 DEF TableDiscipline
<1> QED BY <1>9, <1>11, <1>14

LEMMA RemapStep ==
  ASSUME IInv, NEW t \in Threads, Remap(t)
  PROVE  CallDiscipline' /\ ViewDiscipline' /\ TableDiscipline'
<1>1. /\ Working(t) /\ Top.written /\ ReturnTrue(t)
      /\ UNCHANGED <<owner, asid, table, rmd_lock, req, vmcb, exposed>>
      /\ linked' = linked \cup UNION {{Giga[p], Mega[p]} : p \in Top.pages}
      /\ pte' = [p \in Pages |-> IF p \in Top.pages THEN AccessOf(owner[p]) ELSE pte[p]]
  BY DEF Remap, rmt, locks, guests, history
<1>2. /\ stack \in Seq(Calls) /\ stack # <<>> /\ Top \in Calls
      /\ Len(stack) \in Nat \ {0} /\ Top = stack[Len(stack)]
  BY <1>1, WorkFacts
<1>3. CallDiscipline /\ ViewDiscipline BY DEF IInv
<1>4. \A r \in Regions : table[r] \in Top.pages \ exposed' => owner[table[r]] = "noirvisor"
  <2> SUFFICES ASSUME NEW r \in Regions, table[r] \in Top.pages
               PROVE  owner[table[r]] = "noirvisor"
    OBVIOUS
  <2>1. CASE Len(stack) = 1
    <3>1. table[r] \in Pool
      <4>1. table[r] \in Pages BY <1>2 DEF Calls
      <4> QED BY <4>1, PagesAssumption DEF IInv, TypeOK
    <3> QED BY <1>1, <2>1, <3>1, OutermostPages
  <2>2. CASE Len(stack) # 1 BY <1>1, <2>2, InnerPages
  <2> QED BY <2>1, <2>2
<1>5. CallDiscipline' /\ Pending' = {} /\ TableDiscipline'
  BY <1>1, <1>4, ReturnTrueStep
<1>6. Pending = Top.pages BY <1>1, <1>2 DEF Pending
<1>7. ASSUME NEW p \in Pages
      PROVE  pte'[p] = AccessOf(owner[p]) /\ HostAccess(p)' = AccessOf(owner[p])
  <2>1. CASE p \in Top.pages BY <1>1, <2>1 DEF HostAccess
  <2>2. CASE p \notin Top.pages
    <3>1. pte[p] = AccessOf(owner[p]) /\ HostAccess(p) = AccessOf(owner[p])
      BY <1>3, <1>6, <2>2 DEF ViewDiscipline
    <3>2. pte'[p] = pte[p] BY <1>1, <2>2
    <3>3. {Giga[p], Mega[p]} \subseteq linked => {Giga[p], Mega[p]} \subseteq linked' BY <1>1
    <3> QED BY <3>1, <3>2, <3>3 DEF HostAccess
  <2> QED BY <2>1, <2>2
<1>8. ViewDiscipline' BY <1>1, <1>5, <1>7 DEF ViewDiscipline
<1> QED BY <1>5, <1>8

-----------------------------------------------------------------------------
(* Locks and answers.                                                      *)

\* A reassignment ends when its stack is empty, and holds the lock until then.
LEMMA WorkEnds ==
  ASSUME IInv, NEW t \in Threads, Work(t)
  PROVE  /\ rmd_lock' = t /\ rmd_lock = t /\ pc[t] = "work" /\ req' = req
         /\ \/ stack' # <<>> /\ pc' = pc
            \/ stack' = <<>> /\ pc' = [pc EXCEPT ![t] = "unlock"]
<1>1. Working(t) /\ rmd_lock' = rmd_lock /\ req' = req
  BY DEF Work, LookUp, SplitPdpte, SplitPde, SplitFails, ReassignRmt, Refuse, Remap, locks
<1>2. /\ stack \in Seq(Calls) /\ stack # <<>> /\ Top \in Calls /\ pc[t] = "work" /\ rmd_lock = t
  BY <1>1, WorkFacts
<1>3. ReturnTrue(t) => \/ stack' # <<>> /\ pc' = pc
                       \/ stack' = <<>> /\ pc' = [pc EXCEPT ![t] = "unlock"]
  BY <1>1, ReturnTrueFacts
<1>4. CASE LookUp(t) \/ SplitPdpte(t) \/ SplitPde(t) \/ ReassignRmt(t)
  <2>1. pc' = pc BY <1>4 DEF LookUp, SplitPdpte, SplitPde, ReassignRmt
  <2>2. stack' # <<>>
    <3>1. CASE LookUp(t)
      <4>1. PICK p \in Top.todo :
              LET call == [Top EXCEPT !.cur = p, !.pte_missing = table[Mega[p]] = None]
              IN stack' = SetTop(IF table[Giga[p]] = None \/ call.pte_missing THEN call ELSE ItemDone(call))
        BY <3>1 DEF LookUp
      <4>2. [Top EXCEPT !.cur = p, !.pte_missing = table[Mega[p]] = None] \in Calls
        BY <1>2 DEF Calls
      <4> QED BY <1>2, <4>1, <4>2, ItemDoneType, SetTopFacts
    <3>2. CASE SplitPdpte(t)
      <4>1. PICK f \in Free : Describe(Giga[Top.cur], f, IF Top.pte_missing THEN Top ELSE ItemDone(Top))
        BY <3>2 DEF SplitPdpte
      <4>2. f \in Pages BY DEF Free, Pages
      <4> QED BY <1>2, <4>1, <4>2, ItemDoneType, TableCall, PushFacts DEF Describe
    <3>3. CASE SplitPde(t)
      <4>1. PICK f \in IF table[Mega[Top.cur]] = None THEN Free ELSE {table[Mega[Top.cur]]} :
              Describe(Mega[Top.cur], f, ItemDone(Top))
        BY <3>3 DEF SplitPde
      <4>2. f \in Pages BY <1>1, <3>3, NewTable DEF Free, SplitPde, Pages
      <4> QED BY <1>2, <4>1, <4>2, ItemDoneType, TableCall, PushFacts DEF Describe
    <3>4. CASE ReassignRmt(t)
      <4>1. [Top EXCEPT !.result = TRUE, !.written = TRUE] \in Calls BY <1>2 DEF Calls
      <4> QED BY <1>2, <3>4, <4>1, SetTopFacts DEF ReassignRmt
    <3> QED BY <1>4, <3>1, <3>2, <3>3, <3>4
  <2> QED BY <1>1, <1>2, <2>1, <2>2
<1>5. CASE SplitFails(t) \/ Refuse(t) \/ Remap(t)
  <2>1. ReturnTrue(t) \/ ReturnFalse(t) BY <1>5 DEF SplitFails, Refuse, Remap
  <2> QED BY <1>1, <1>2, <1>3, <2>1 DEF ReturnFalse
<1> QED BY <1>4, <1>5 DEF Work

LEMMA WorkLocks ==
  ASSUME IInv, NEW t \in Threads, Work(t)
  PROVE  LockDiscipline'
<1>1. TypeOK /\ LockDiscipline BY DEF IInv
<1>2. /\ rmd_lock' = t /\ rmd_lock = t /\ pc[t] = "work"
      /\ \/ stack' # <<>> /\ pc' = pc
         \/ stack' = <<>> /\ pc' = [pc EXCEPT ![t] = "unlock"]
  BY WorkEnds
<1>3. \A u \in Threads \ {t} : pc'[u] = pc[u] BY <1>1, <1>2 DEF TypeOK
<1> QED BY <1>1, <1>2, <1>3 DEF LockDiscipline

\* Only the outermost call answers its thread, and it says TRUE for pages it
\* has written, or when an allocation failed.
LEMMA WorkSuccess ==
  ASSUME IInv, NEW t \in Threads, Work(t)
  PROVE  SuccessMeansReassigned'
<1>1. TypeOK /\ LockDiscipline /\ CallDiscipline BY DEF IInv
<1>2. /\ rmd_lock' = t /\ rmd_lock = t /\ pc[t] = "work" /\ req' = req
      /\ \/ stack' # <<>> /\ pc' = pc
         \/ stack' = <<>> /\ pc' = [pc EXCEPT ![t] = "unlock"]
  BY WorkEnds
<1>3. \A u \in Threads \ {t} : pc'[u] # "unlock"
  BY <1>1, <1>2 DEF TypeOK, LockDiscipline
<1>4. ASSUME pc'[t] = "unlock", result'[t], t \notin starved'
      PROVE  \A p \in req[t].pages : owner'[p] = req[t].owner /\ asid'[p] = req[t].asid
  <2>1. stack' = <<>> /\ pc' # pc BY <1>2, <1>4
  <2>2. Remap(t)
    <3>1. ~(LookUp(t) \/ SplitPdpte(t) \/ SplitPde(t) \/ ReassignRmt(t))
      BY <2>1 DEF LookUp, SplitPdpte, SplitPde, ReassignRmt
    <3>2. ~SplitFails(t) BY <1>4 DEF SplitFails
    <3>3. ~Refuse(t) BY <1>1, <1>4 DEF Refuse, ReturnFalse, TypeOK
    <3> QED BY <3>1, <3>2, <3>3 DEF Work
  <2>3. Working(t) /\ Top.written /\ ReturnTrue(t) /\ owner' = owner /\ asid' = asid
    BY <2>2 DEF Remap, rmt
  <2>4. /\ stack # <<>> /\ Len(stack) \in Nat \ {0} /\ Top = stack[Len(stack)]
    BY <2>3, WorkFacts
  <2>5. Len(stack) = 1 BY <2>1, <2>3, ReturnTrueFacts
  <2>6. Top.pages = req[t].pages /\ Top.owner = req[t].owner /\ Top.asid = req[t].asid
    BY <2>3, <2>5, OutermostPages
  <2>7. Disciplined(Len(stack)) BY <1>1, <2>4 DEF CallDiscipline
  <2>8. \A p \in Top.pages : owner[p] = Top.owner /\ asid[p] = Top.asid
    BY <2>3, <2>4, <2>7 DEF Disciplined
  <2> QED BY <2>3, <2>6, <2>8
<1> QED BY <1>2, <1>3, <1>4 DEF SuccessMeansReassigned

\* A call of the driver takes the locks, lists the pages, and gives them back.
LEMMA LockStep ==
  ASSUME IInv, NEW t \in Threads, LockNptm(t) \/ LockRmd(t) \/ ListFails(t) \/ Unlock(t)
  PROVE  /\ LockDiscipline' /\ CallDiscipline' /\ ViewDiscipline' /\ TableDiscipline'
         /\ SuccessMeansReassigned'
<1>1. /\ TypeOK /\ RequestDiscipline /\ LockDiscipline /\ CallDiscipline
      /\ ViewDiscipline /\ TableDiscipline /\ SuccessMeansReassigned
  BY DEF IInv
<1>2. UNCHANGED <<owner, asid, table, linked, pte, vmcb, exposed, starved>>
  BY DEF LockNptm, LockRmd, ListFails, Unlock, rmt, host_npt, guests, history
<1>3. CASE LockNptm(t)
  <2>1. UNCHANGED <<rmd_lock, stack, req, result>> /\ pc[t] = "nptm" /\ pc' = [pc EXCEPT ![t] = "rmd"]
    BY <1>3 DEF LockNptm
  <2>2. pc'[t] = "rmd" /\ \A u \in Threads \ {t} : pc'[u] = pc[u] BY <1>1, <2>1 DEF TypeOK
  <2>3. LockDiscipline' BY <1>1, <2>1, <2>2 DEF LockDiscipline
  <2>4. CallDiscipline' BY <1>1, <1>2, <2>1 DEF CallDiscipline, Disciplined
  <2>5. ViewDiscipline' /\ TableDiscipline'
    BY <1>1, <1>2, <2>1 DEF ViewDiscipline, TableDiscipline, HostAccess, Pending, Top
  <2>6. SuccessMeansReassigned' BY <1>1, <1>2, <2>1, <2>2 DEF SuccessMeansReassigned
  <2> QED BY <2>3, <2>4, <2>5, <2>6
<1>4. CASE LockRmd(t) \/ ListFails(t)
  <2>1. rmd_lock = None /\ rmd_lock' = t BY <1>4 DEF LockRmd, ListFails
  <2>2. stack = <<>> BY <1>1, <2>1, ActorsAssumption DEF LockDiscipline
  <2>3. \A u \in Threads : pc[u] \notin {"work", "unlock"}
    BY <1>1, <2>1, ActorsAssumption DEF LockDiscipline
  <2>4. \/ /\ stack' = <<>> /\ pc' = [pc EXCEPT ![t] = "unlock"]
           /\ result' = [result EXCEPT ![t] = FALSE]
        \/ /\ stack' = <<Call(Listed(req[t]), req[t].asid, req[t].owner)>>
           /\ pc' = [pc EXCEPT ![t] = "work"] /\ req' = [req EXCEPT ![t].pages = Listed(req[t])]
    BY <1>4 DEF LockRmd, ListFails, ReturnFalse
  <2>5. \A u \in Threads \ {t} : pc'[u] = pc[u] BY <1>1, <2>4 DEF TypeOK
  <2>6. pc'[t] = "unlock" => ~result'[t] BY <1>1, <2>4 DEF TypeOK
  <2>7. pc'[t] \in {"work", "unlock"} /\ (stack' # <<>> => pc'[t] = "work")
    BY <1>1, <2>4 DEF TypeOK
  <2>8. LockDiscipline' BY <2>1, <2>3, <2>5, <2>7 DEF LockDiscipline
  <2>9. Pending = {} /\ Pending' = {} /\ CallDiscipline' /\ Len(stack') \in {0, 1}
    <3>1. Pending = {} BY <2>2 DEF Pending
    <3>2. CASE stack' = <<>>
      <4>1. Len(stack') = 0 BY <3>2
      <4> QED BY <3>1, <3>2, <4>1 DEF Pending, CallDiscipline
    <3>3. CASE stack' # <<>>
      <4> DEFINE c == Call(Listed(req[t]), req[t].asid, req[t].owner)
      <4>1. stack' = <<c>> /\ req' = [req EXCEPT ![t].pages = Listed(req[t])]
        BY <2>4, <3>3
      <4>2. /\ c.pages = Listed(req[t]) /\ c.asid = req[t].asid /\ c.owner = req[t].owner
            /\ ~c.written /\ ~c.pte_missing
        BY DEF Call
      <4>3. /\ req'[t].pages = Listed(req[t]) /\ req'[t].asid = req[t].asid
            /\ req'[t].owner = req[t].owner
        BY <1>1, <4>1 DEF RequestDiscipline, WellTyped, Request
      <4> HIDE DEF c
      <4>4. Len(stack') = 1 /\ stack'[1] = c BY <4>1
      <4>5. Pending' = {} BY <4>2, <4>4 DEF Pending, Top
      <4>6. Disciplined(1)' BY <2>1, <4>2, <4>3, <4>4 DEF Disciplined
      <4>7. CallDiscipline' BY <4>4, <4>6 DEF CallDiscipline
      <4> QED BY <3>1, <4>4, <4>5, <4>7
    <3> QED BY <3>2, <3>3
  <2>10. ViewDiscipline' BY <1>1, <1>2, <2>9 DEF ViewDiscipline, HostAccess
  <2>11. TableDiscipline'
    <3>1. \A i \in 2 .. Len(stack) : FALSE BY <2>2
    <3>2. \A r \in Regions : table[r] \in Pool \ exposed => owner[table[r]] = "noirvisor"
      BY <1>1, <3>1 DEF TableDiscipline
    <3> QED BY <1>1, <1>2, <3>2 DEF TableDiscipline
  <2>12. SuccessMeansReassigned' BY <2>3, <2>5, <2>6 DEF SuccessMeansReassigned
  <2> QED BY <2>8, <2>9, <2>10, <2>11, <2>12
<1>5. CASE Unlock(t)
  <2>1. /\ pc[t] = "unlock" /\ rmd_lock' = None /\ UNCHANGED <<stack, req, result>>
        /\ pc' = [pc EXCEPT ![t] = "done"]
    BY <1>5 DEF Unlock
  <2>2. pc'[t] = "done" /\ \A u \in Threads \ {t} : pc'[u] = pc[u] BY <1>1, <2>1 DEF TypeOK
  <2>3. rmd_lock = t /\ stack = <<>> BY <1>1, <2>1 DEF LockDiscipline
  <2>4. LockDiscipline' BY <1>1, <2>1, <2>2, <2>3 DEF LockDiscipline
  <2>5. CallDiscipline' BY <2>1, <2>3 DEF CallDiscipline
  <2>6. ViewDiscipline' /\ TableDiscipline'
    BY <1>1, <1>2, <2>1 DEF ViewDiscipline, TableDiscipline, HostAccess, Pending, Top
  <2>7. SuccessMeansReassigned' BY <1>1, <1>2, <2>1, <2>2 DEF SuccessMeansReassigned
  <2> QED BY <2>4, <2>5, <2>6, <2>7
<1> QED BY <1>3, <1>4, <1>5

\* Operations on CVMs change the request of their thread only, and give a CVM
\* no table for its VMCB.
LEMMA FrontRequests ==
  ASSUME IInv, NEW t \in Threads, Start(t) \/ Finish(t)
  PROVE  /\ \A u \in Threads \ {t} : req'[u] = req[u]
         /\ \A v \in VMs : vmcb'[v] \in {vmcb[v], None} \cup Free
<1>1. TypeOK /\ req = [u \in Threads |-> req[u]] BY DEF IInv, RequestDiscipline
<1>2. req' = req \/ \E r : req' = [req EXCEPT ![t] = r]
  <2> USE DEF Reassign, Return, guests
  <2>1. CASE Start(t)
    BY <2>1 DEF Start, CreateVm, ReleaseVm, SetMapping, SetUnmapping, Claim, NsvActivate,
         NsvDeactivate
  <2>2. CASE Finish(t)
    BY <2>2 DEF Finish, CreateDone, CreateFails, VcpuReleased, VmReleased, MapDone, MapFails,
         UnmapDone, Deactivated, NsvDone
  <2> QED BY <2>1, <2>2
<1>3. \E v : \E f \in Free \cup {None} : vmcb' \in {vmcb, [vmcb EXCEPT ![v] = f]}
  <2> USE DEF guests
  <2>1. CASE Start(t)
    <3>1. PICK v \in VMs : \/ CreateVm(t, v) \/ ReleaseVm(t, v) \/ SetMapping(t, v)
                           \/ SetUnmapping(t, v) \/ Claim(t, v) \/ NsvActivate(t, v)
                           \/ NsvDeactivate(t, v)
      BY <2>1 DEF Start
    <3>2. CreateVm(t, v) => \E f \in Free : vmcb' = [vmcb EXCEPT ![v] = f] BY DEF CreateVm
    <3>3. ~CreateVm(t, v) => vmcb' = vmcb
      BY <3>1 DEF ReleaseVm, SetMapping, SetUnmapping, Claim, NsvActivate, NsvDeactivate
    <3> QED BY <3>2, <3>3
  <2>2. CASE VcpuReleased(t)
    <3>1. vmcb' = [vmcb EXCEPT ![req[t].vm] = None] BY <2>2 DEF VcpuReleased
    <3> QED BY <3>1
  <2>3. CASE Finish(t) /\ ~VcpuReleased(t)
    <3>1. vmcb' = vmcb
      BY <2>3 DEF Finish, CreateDone, CreateFails, VmReleased, MapDone, MapFails,
         UnmapDone, Deactivated, NsvDone
    <3> QED BY <3>1
  <2> QED BY <2>1, <2>2, <2>3
<1>4. \A v \in VMs : vmcb'[v] \in {vmcb[v], None} \cup Free BY <1>1, <1>3 DEF TypeOK
<1> QED BY <1>1, <1>2, <1>4

LEMMA FrontStep ==
  ASSUME IInv, NEW t \in Threads, Start(t) \/ Finish(t)
  PROVE  /\ LockDiscipline' /\ CallDiscipline' /\ ViewDiscipline' /\ TableDiscipline'
         /\ SuccessMeansReassigned'
<1>1. /\ TypeOK /\ LockDiscipline /\ CallDiscipline
      /\ ViewDiscipline /\ TableDiscipline /\ SuccessMeansReassigned
  BY DEF IInv
<1>2. UNCHANGED <<owner, asid, table, linked, pte, rmd_lock, stack, exposed>>
  BY FrontFrame
<1>3. /\ pc' \in {pc, [pc EXCEPT ![t] = "nptm"], [pc EXCEPT ![t] = "idle"],
                  [u \in Threads |-> "crashed"]}
      /\ result' \in {result, [result EXCEPT ![t] = FALSE]}
      /\ starved' \in {starved, starved \ {t}}
      /\ pc[t] \in {"idle", "done"}
  BY <1>1, FrontThreads
<1>4. \A u \in Threads \ {t} : req'[u] = req[u] /\ result'[u] = result[u]
  BY <1>1, <1>3, FrontRequests DEF TypeOK
<1>5. \A u \in Threads : pc'[u] \in {"work", "unlock"} => u # t /\ pc[u] = pc'[u]
  BY <1>1, <1>3 DEF TypeOK
<1>6. \A u \in Threads \ {t} : pc'[u] \in {pc[u], "crashed"} BY <1>1, <1>3 DEF TypeOK
<1>7. stack # <<>> => rmd_lock \in Threads \ {t} BY <1>1, <1>3 DEF LockDiscipline
<1>8. LockDiscipline' BY <1>1, <1>2, <1>5, <1>6, <1>7 DEF LockDiscipline
<1>9. CallDiscipline'
  <2>1. CASE stack = <<>>
    <3>1. Len(stack') = 0 BY <1>2, <2>1
    <3> QED BY <3>1 DEF CallDiscipline
  <2>2. CASE stack # <<>>
    <3>1. req'[rmd_lock] = req[rmd_lock] BY <1>4, <1>7, <2>2
    <3> QED BY <1>1, <1>2, <3>1 DEF CallDiscipline, Disciplined
  <2> QED BY <2>1, <2>2
<1>10. ViewDiscipline' BY <1>1, <1>2 DEF ViewDiscipline, HostAccess, Pending, Top
<1>11. \A v \in VMs, r \in Regions : table[r] \in Pool => table[r] # vmcb'[v]
  <2> SUFFICES ASSUME NEW v \in VMs, NEW r \in Regions, table[r] \in Pool
               PROVE  table[r] # vmcb'[v]
    OBVIOUS
  <2>1. vmcb'[v] \in {vmcb[v], None} \cup Free BY FrontRequests
  <2>2. table[r] # None BY PagesAssumption DEF Pages
  <2>3. table[r] \notin Free BY DEF Free
  <2> QED BY <1>1, <2>1, <2>2, <2>3 DEF TableDiscipline
<1>12. TableDiscipline' BY <1>1, <1>2, <1>11 DEF TableDiscipline
<1>13. SuccessMeansReassigned'
  <2> SUFFICES ASSUME NEW u \in Threads, pc'[u] = "unlock", result'[u], u \notin starved'
               PROVE  \A p \in req'[u].pages : owner'[p] = req'[u].owner /\ asid'[p] = req'[u].asid
    BY DEF SuccessMeansReassigned
  <2>1. u # t /\ pc[u] = "unlock" /\ result[u] /\ u \notin starved /\ req'[u] = req[u]
    BY <1>3, <1>4, <1>5
  <2> QED BY <1>1, <1>2, <2>1 DEF SuccessMeansReassigned
<1> QED BY <1>8, <1>9, <1>10, <1>12, <1>13

-----------------------------------------------------------------------------
(* What is handed back: operations on CVMs.                                *)

\* An operation on CVMs gives the VMCB of its own CVM a page or none, and
\* whoever else works on that CVM sees no change.
LEMMA FrontVmcbs ==
  ASSUME IInv, NEW t \in Threads, Start(t) \/ Finish(t)
  PROVE  /\ \A u \in Threads \ {t} : Active(u) => vmcb'[req[u].vm] = vmcb[req[u].vm]
         /\ \/ vmcb' = vmcb
            \/ \E v \in VMs, f \in Free : CreateVm(t, v) /\ vmcb' = [vmcb EXCEPT ![v] = f]
            \/ VcpuReleased(t) /\ req[t].vm \in VMs /\ vmcb' = [vmcb EXCEPT ![req[t].vm] = None]
<1>1. TypeOK BY DEF IInv
<1>2. \A u \in Threads : Active(u) => req[u].vm \in VMs
  BY DEF IInv, RequestDiscipline, Requested
<1>3. CASE \E v \in VMs : CreateVm(t, v)
  <2>1. PICK v \in VMs : CreateVm(t, v) BY <1>3
  <2>2. PICK f \in Free : vmcb' = [vmcb EXCEPT ![v] = f] BY <2>1 DEF CreateVm
  <2>3. \A u \in Threads \ {t} : Active(u) => req[u].vm # v
    BY <2>1, AloneFacts DEF CreateVm
  <2> QED BY <1>1, <1>2, <2>1, <2>2, <2>3 DEF TypeOK
<1>4. CASE VcpuReleased(t)
  <2>1. Active(t) /\ req[t].op = "vmcb" /\ vmcb' = [vmcb EXCEPT ![req[t].vm] = None]
    BY <1>4 DEF VcpuReleased, Done, Active
  <2>2. \A u \in Threads \ {t} : Active(u) => req[u].vm # req[t].vm
    BY <2>1, ExclusiveFacts DEF Sharing
  <2> QED BY <1>1, <1>2, <1>4, <2>1, <2>2 DEF TypeOK
<1>5. CASE ~VcpuReleased(t) /\ ~\E v \in VMs : CreateVm(t, v)
  <2>1. CASE Start(t)
    BY <1>5, <2>1 DEF Start, ReleaseVm, SetMapping, SetUnmapping, Claim, NsvActivate,
         NsvDeactivate, guests
  <2>2. CASE Finish(t)
    BY <1>5, <2>2 DEF Finish, CreateDone, CreateFails, VmReleased, MapDone, MapFails,
         UnmapDone, Deactivated, NsvDone, guests
  <2> QED BY <2>1, <2>2
<1> QED BY <1>3, <1>4, <1>5

\* What an operation on CVMs asks of the driver.
LEMMA StartPurpose ==
  ASSUME IInv, NEW t \in Threads, Start(t), Active(t)'
  PROVE  Purposeful(req[t])'
<1> USE ActorsAssumption DEF Purposeful, Request, Guests, WithVm, Sharing, Nobody, HostAsid
<1>1. TypeOK /\ req = [u \in Threads |-> req[u]] BY DEF IInv, RequestDiscipline
<1>2. pc[t] = "idle"
  BY DEF Start, CreateVm, ReleaseVm, SetMapping, SetUnmapping, Claim, NsvActivate,
       NsvDeactivate, Mapping
<1>3. \A r : Reassign(t, r) => req'[t] = r BY <1>1 DEF Reassign
<1>4. ASSUME NEW v \in VMs, CreateVm(t, v) PROVE Purposeful(req[t])'
  BY <1>3, <1>4 DEF CreateVm
<1>5. ASSUME NEW v \in VMs, ReleaseVm(t, v) PROVE Purposeful(req[t])'
  <2>1. req'[t] = ReleaseVcpu(v) /\ vmcb' = vmcb BY <1>3, <1>5 DEF ReleaseVm
  <2> QED BY <2>1 DEF ReleaseVcpu
<1>6. ASSUME NEW v \in VMs, SetMapping(t, v) PROVE Purposeful(req[t])'
  <2>1. PICK G \in (SUBSET Gpas) \ {{}}, o \in {"insecure_guest", "secure_guest"} :
          \E m \in [G -> Data \ {Zero}] :
            Reassign(t, Request("map", v, m, {m[g] : g \in G}, v, o))
    BY <1>6 DEF SetMapping
  <2>2. PICK m : Reassign(t, Request("map", v, m, {m[g] : g \in G}, v, o)) BY <2>1
  <2>3. req'[t] = Request("map", v, m, {m[g] : g \in G}, v, o) BY <1>3, <2>2
  <2> QED BY <2>3
<1>7. ASSUME NEW v \in VMs, SetUnmapping(t, v) PROVE Purposeful(req[t])'
  <2>1. PICK G : req'[t] = Unmap(v, G) BY <1>3, <1>7 DEF SetUnmapping
  <2> QED BY <2>1 DEF Unmap
<1>8. ASSUME NEW v \in VMs, Claim(t, v) PROVE Purposeful(req[t])'
  <2>1. PICK G \in (SUBSET Gpas) \ {{}}, o \in {"insecure_guest", "secure_guest"} :
          req'[t] = Request("claim", v, NoMap, Backing(v, G), v, o)
    BY <1>3, <1>8 DEF Claim
  <2> QED BY <2>1
<1>9. ASSUME NEW v \in VMs, NsvActivate(t, v) \/ NsvDeactivate(t, v) PROVE Purposeful(req[t])'
  <2>1. \/ req'[t] = ProtectVmcb(v, "secure_guest")
        \/ req'[t] = Request("deactivate", v, NoMap, {}, v, "insecure_guest")
        \/ pc' = pc
    BY <1>3, <1>9 DEF NsvActivate, NsvDeactivate
  <2>2. pc' # pc
    <3>1. pc'[t] # "idle" BY DEF Active
    <3> QED BY <1>2, <3>1
  <2> QED BY <2>1, <2>2 DEF ProtectVmcb
<1> QED BY <1>4, <1>5, <1>6, <1>7, <1>8, <1>9 DEF Start

LEMMA FinishPurpose ==
  ASSUME IInv, NEW t \in Threads, Finish(t), Active(t)'
  PROVE  Purposeful(req[t])'
<1> USE ActorsAssumption DEF Purposeful, Request, Guests, WithVm, Sharing, Nobody, HostAsid
<1>1. TypeOK /\ req = [u \in Threads |-> req[u]] BY DEF IInv, RequestDiscipline
<1>2. \A r : Reassign(t, r) => req'[t] = r BY <1>1 DEF Reassign
<1>3. pc'[t] \notin {"idle", "crashed"} BY DEF Active
<1>4. ~Return(t) BY <1>1, <1>3 DEF Return, TypeOK
<1>5. CASE CreateFails(t) BY <1>3, <1>5 DEF CreateFails
<1>6. CASE VcpuReleased(t)
  <2>1. req'[t] = Request("release_all", req[t].vm, NoMap, {}, HostAsid, "subverted_host")
    BY <1>2, <1>6 DEF VcpuReleased
  <2> QED BY <2>1
<1>7. CASE MapFails(t)
  <2>1. PICK P : req'[t] = [Unmap(req[t].vm, DOMAIN req[t].map) EXCEPT !.pages = P]
    BY <1>2, <1>7 DEF MapFails
  <2>2. /\ req'[t].op = "unmap" /\ req'[t].asid = HostAsid /\ req'[t].owner = "subverted_host"
    BY <2>1 DEF Unmap
  <2> QED BY <2>2
<1>8. CASE Deactivated(t)
  <2>1. req'[t] = ProtectVmcb(req[t].vm, "insecure_guest") BY <1>2, <1>8 DEF Deactivated
  <2> QED BY <2>1 DEF ProtectVmcb
<1> QED BY <1>4, <1>5, <1>6, <1>7, <1>8
     DEF Finish, CreateDone, VmReleased, MapDone, UnmapDone, NsvDone

LEMMA FrontPurpose ==
  ASSUME IInv, PurposeDiscipline, NEW t \in Threads, Start(t) \/ Finish(t)
  PROVE  PurposeDiscipline'
<1> SUFFICES ASSUME NEW u \in Threads, Active(u)' PROVE Purposeful(req[u])'
  BY DEF PurposeDiscipline
<1>1. CASE u = t BY <1>1, StartPurpose, FinishPurpose
<1>2. CASE u # t
  <2>1. TypeOK BY DEF IInv
  <2>2. Active(u) BY <1>2, <2>1, FrontThreads DEF Active, TypeOK
  <2>3. req'[u] = req[u] /\ vmcb'[req[u].vm] = vmcb[req[u].vm]
    BY <1>2, <2>2, FrontRequests, FrontVmcbs
  <2> QED BY <2>2, <2>3 DEF PurposeDiscipline, Purposeful
<1> QED BY <1>1, <1>2

LEMMA FrontOwners ==
  ASSUME IInv, ReturnInv, NEW t \in Threads, Start(t) \/ Finish(t)
  PROVE  OwnerDiscipline'
<1> USE PagesAssumption DEF Pages
<1>1. TypeOK /\ OwnerDiscipline /\ RequestDiscipline BY DEF IInv, ReturnInv
<1>2. owner' = owner /\ asid' = asid /\ table' = table BY FrontFrame
<1>3. \A u \in Threads \ {t} : req'[u] = req[u] /\ pc'[u] \in {pc[u], "crashed"}
  BY <1>1, FrontRequests, FrontThreads DEF TypeOK
<1>4. CASE \E v \in VMs, f \in Free : CreateVm(t, v) /\ vmcb' = [vmcb EXCEPT ![v] = f]
  <2>1. PICK v \in VMs, f \in Free : CreateVm(t, v) /\ vmcb' = [vmcb EXCEPT ![v] = f] BY <1>4
  <2>2. vmcb'[v] = f /\ \A w \in VMs \ {v} : vmcb'[w] = vmcb[w] BY <1>1, <2>1 DEF TypeOK
  <2>3. vmcb[v] \notin Pool
    <3>1. pc[t] = "idle" /\ v \notin alive /\ \A u \in Threads \ {t} : ~Using(u, v)
      BY <2>1 DEF CreateVm, Alone
    <3> QED BY <1>1, <3>1 DEF OwnerDiscipline, Using
  <2>4. \A w \in VMs : vmcb[w] # f BY DEF Free
  <2>5. f \in Pool /\ owner[f] # "noirvisor" BY <1>1 DEF OwnerDiscipline, Free
  <2>6. Free' \subseteq Free BY <1>2, <2>2, <2>3 DEF Free
  <2>7. /\ \E r : req' = [req EXCEPT ![t] = r] /\ r.vm = v /\ r.op = "create"
        /\ pc' = [pc EXCEPT ![t] = "nptm"] /\ alive' = alive
    <3>1. PICK g \in Free :
            Reassign(t, Request("create", v, NoMap, {g}, Nobody, "insecure_guest"))
      BY <2>1 DEF CreateVm
    <3> DEFINE r == Request("create", v, NoMap, {g}, Nobody, "insecure_guest")
    <3>2. r.vm = v /\ r.op = "create" BY DEF Request
    <3>3. req' = [req EXCEPT ![t] = r] BY <3>1 DEF Reassign
    <3> HIDE DEF r
    <3> QED BY <2>1, <3>1, <3>2, <3>3 DEF CreateVm, Reassign
  <2>8. req'[t].vm = v /\ req'[t].op = "create" /\ pc'[t] = "nptm" /\ pc[t] = "idle"
    BY <1>1, <2>1, <2>7 DEF RequestDiscipline, TypeOK, CreateVm
  <2>9. \A u \in Threads \ {t} : pc'[u] = pc[u] BY <1>1, <2>7 DEF TypeOK
  <2>10. \A w \in VMs : vmcb'[w] \in Pool =>
           w \in alive' \/ \E u \in Threads : Using(u, w)' /\ req'[u].op \in WithVcpu
    <3> SUFFICES ASSUME NEW w \in VMs, vmcb'[w] \in Pool, w \notin alive'
                 PROVE  \E u \in Threads : Using(u, w)' /\ req'[u].op \in WithVcpu
      OBVIOUS
    <3>1. CASE w = v BY <2>8, <3>1 DEF Using, WithVcpu
    <3>2. CASE w # v
      <4>1. PICK u \in Threads : Using(u, w) /\ req[u].op \in WithVcpu
        BY <1>1, <2>2, <2>7, <3>2 DEF OwnerDiscipline
      <4>2. u # t BY <2>8, <4>1 DEF Using
      <4> QED BY <1>3, <2>9, <4>1, <4>2 DEF Using
    <3> QED BY <3>1, <3>2
  <2>11. \A w, x \in VMs : vmcb'[w] \in Pool /\ vmcb'[w] = vmcb'[x] => w = x
    BY <1>1, <2>2, <2>4 DEF OwnerDiscipline
  <2>12. \A w \in VMs : vmcb'[w] \in Pool => owner[vmcb'[w]] # "noirvisor"
    BY <1>1, <2>2, <2>5 DEF OwnerDiscipline
  <2> QED BY <1>1, <1>2, <2>6, <2>10, <2>11, <2>12 DEF OwnerDiscipline
<1>5. CASE VcpuReleased(t) /\ req[t].vm \in VMs /\ vmcb' = [vmcb EXCEPT ![req[t].vm] = None]
  <2> DEFINE v == req[t].vm
  <2>1. vmcb'[v] = None /\ \A w \in VMs \ {v} : vmcb'[w] = vmcb[w] BY <1>1, <1>5 DEF TypeOK
  <2>2. owner[vmcb[v]] = "subverted_host"
    BY <1>5 DEF ReturnInv, ReleaseDiscipline, VcpuReleased, Done
  <2>3. Free' \subseteq Free \cup {vmcb[v]} BY <1>2, <2>1 DEF Free
  <2>4. None \notin Pool OBVIOUS
  <2>5. alive' = alive BY <1>5 DEF VcpuReleased
  <2>6. \A w \in VMs : vmcb'[w] \in Pool => w # v /\ vmcb'[w] = vmcb[w] BY <2>1, <2>4
  <2>7. \A w \in VMs : vmcb'[w] \in Pool =>
           w \in alive' \/ \E u \in Threads : Using(u, w)' /\ req'[u].op \in WithVcpu
    <3> SUFFICES ASSUME NEW w \in VMs, vmcb'[w] \in Pool, w \notin alive'
                 PROVE  \E u \in Threads : Using(u, w)' /\ req'[u].op \in WithVcpu
      OBVIOUS
    <3>1. PICK u \in Threads : Using(u, w) /\ req[u].op \in WithVcpu
      BY <1>1, <2>5, <2>6 DEF OwnerDiscipline
    <3>2. u # t BY <2>6, <3>1 DEF Using
    <3> QED BY <1>3, <3>1, <3>2 DEF Using
  <2>8. \A w \in VMs : vmcb'[w] \in Pool => owner[vmcb'[w]] # "noirvisor"
    BY <1>1, <2>6 DEF OwnerDiscipline
  <2>9. \A w, x \in VMs : vmcb'[w] \in Pool /\ vmcb'[w] = vmcb'[x] => w = x
    BY <1>1, <2>6 DEF OwnerDiscipline
  <2>10. \A p \in Free' : owner[p] = "subverted_host" BY <1>1, <2>2, <2>3 DEF OwnerDiscipline
  <2> HIDE DEF v
  <2> QED BY <1>1, <1>2, <2>7, <2>8, <2>9, <2>10 DEF OwnerDiscipline
<1>6. CASE vmcb' = vmcb
  <2>1. Free' = Free BY <1>2, <1>6 DEF Free
  <2>2. \A w \in VMs : vmcb[w] \in Pool =>
           w \in alive' \/ \E u \in Threads : Using(u, w)' /\ req'[u].op \in WithVcpu
    <3> SUFFICES ASSUME NEW w \in VMs, vmcb[w] \in Pool, w \notin alive'
                 PROVE  \E u \in Threads : Using(u, w)' /\ req'[u].op \in WithVcpu
      OBVIOUS
    <3>1. CASE w \in alive
      <4>1. ReleaseVm(t, w)
        <5>1. \A v \in VMs : ~ReleaseVm(t, v) => ~Start(t) \/ alive' = alive \/ \E x \in VMs \ {v} : ReleaseVm(t, x)
          BY DEF Start, CreateVm, SetMapping, SetUnmapping, Claim, NsvActivate, NsvDeactivate, guests
        <5>2. Finish(t) => alive \subseteq alive'
          BY DEF Finish, CreateDone, CreateFails, VcpuReleased, VmReleased, MapDone, MapFails,
               UnmapDone, Deactivated, NsvDone, guests
        <5>3. \A x \in VMs : ReleaseVm(t, x) => alive' = alive \ {x} BY DEF ReleaseVm
        <5> QED BY <3>1, <5>1, <5>2, <5>3
      <4>2. /\ pc' = [pc EXCEPT ![t] = "nptm"] /\ req' = [req EXCEPT ![t] = ReleaseVcpu(w)]
        BY <4>1 DEF ReleaseVm, Reassign
      <4>3. pc'[t] = "nptm" /\ req'[t] = ReleaseVcpu(w)
        BY <1>1, <4>2 DEF TypeOK, RequestDiscipline
      <4> QED BY <4>3 DEF Using, WithVcpu, ReleaseVcpu, Request
    <3>2. CASE w \notin alive
      <4>1. PICK u \in Threads : Using(u, w) /\ req[u].op \in WithVcpu
        BY <1>1, <3>2 DEF OwnerDiscipline
      <4>2. CASE u # t BY <1>3, <4>1, <4>2 DEF Using
      <4>3. CASE u = t
        <5>1. Finish(t) /\ req[t].vm = w /\ req[t].op \in WithVcpu
          BY <4>1, <4>3 DEF Using, Start, CreateVm, ReleaseVm, SetMapping, SetUnmapping,
               Claim, NsvActivate, NsvDeactivate, Mapping
        <5>2. ~VcpuReleased(t)
          <6>1. VcpuReleased(t) => vmcb'[w] = None BY <1>1, <5>1 DEF VcpuReleased, TypeOK
          <6> QED BY <1>6, <6>1
        <5>3. CreateDone(t) \/ CreateFails(t)
          BY <5>1, <5>2 DEF Finish, VmReleased, MapDone, MapFails, UnmapDone, Deactivated,
               NsvDone, Done, WithVcpu
        <5>4. CreateDone(t) => w \in alive' BY <5>1 DEF CreateDone
        <5>5. CreateFails(t) => req' = req /\ pc'[t] = "crashed" BY DEF CreateFails
        <5> QED BY <3>2, <5>1, <5>3, <5>4, <5>5 DEF Using
      <4> QED BY <4>2, <4>3
    <3> QED BY <3>1, <3>2
  <2> QED BY <1>1, <1>2, <1>6, <2>1, <2>2 DEF OwnerDiscipline
<1> QED BY <1>4, <1>5, <1>6, FrontVmcbs

LEMMA FrontReleases ==
  ASSUME IInv, ReturnInv, NEW t \in Threads, Start(t) \/ Finish(t)
  PROVE  ReleaseDiscipline'
<1>1. TypeOK /\ RequestDiscipline /\ ReleaseDiscipline BY DEF IInv, ReturnInv
<1>2. UNCHANGED <<owner, asid, stack>> BY FrontFrame
<1>3. \A u \in Threads \ {t} : req'[u] = req[u] /\ pc'[u] \in {pc[u], "crashed"}
  BY <1>1, FrontRequests, FrontThreads DEF TypeOK
<1>4. pc'[t] \in {"idle", "nptm", "crashed"} /\ pc[t] \in {"idle", "done"}
  <2>1. pc[t] \in {"idle", "done"} BY <1>1, FrontThreads
  <2>2. CASE pc'[t] # pc[t] BY <1>1, <2>2, FrontThreads DEF TypeOK
  <2>3. CASE pc'[t] = pc[t]
    <3>1. Finish(t) => pc'[t] \in {"idle", "nptm", "crashed"}
      BY <1>1 DEF TypeOK, Finish, CreateDone, CreateFails, VcpuReleased, VmReleased, MapDone,
           MapFails, UnmapDone, Deactivated, NsvDone, Return, Reassign
    <3>2. Start(t) => pc[t] = "idle"
      BY DEF Start, CreateVm, ReleaseVm, SetMapping, SetUnmapping, Claim, NsvActivate,
           NsvDeactivate, Mapping
    <3> QED BY <2>1, <2>3, <3>1, <3>2
  <2> QED BY <2>1, <2>2, <2>3
<1>5. ASSUME NEW u \in Threads, req'[u].op = "vmcb", pc'[u] \in {"unlock", "done"}
      PROVE  owner'[vmcb'[req'[u].vm]] = "subverted_host"
  <2>1. u # t /\ pc'[u] = pc[u] /\ req'[u] = req[u] BY <1>3, <1>4, <1>5
  <2>2. vmcb'[req[u].vm] = vmcb[req[u].vm] BY <1>5, <2>1, FrontVmcbs DEF Active
  <2> QED BY <1>1, <1>2, <1>5, <2>1, <2>2 DEF ReleaseDiscipline
<1>6. ASSUME NEW u \in Threads, req'[u].op = "release_all", pc'[u] = "work"
      PROVE  /\ \A p \in Pages : asid'[p] = req'[u].vm => p \in req'[u].pages
             /\ stack' # <<>>
             /\ ~stack'[1].written => \A p \in req'[u].pages : asid'[p] = req'[u].vm
  <2>1. pc'[u] = pc[u] /\ req'[u] = req[u] BY <1>3, <1>4, <1>6
  <2> QED BY <1>1, <1>2, <1>6, <2>1 DEF ReleaseDiscipline
\* The thread that hands back the pages of v goes on, or v is made or gone.
<1>7. ASSUME NEW v \in VMs \ (alive' \cup dirty'), NEW p \in Pages, asid'[p] = v
      PROVE  \E u \in Threads : Using(u, v)' /\ Releasing(u)'
  <2>1. CASE \E u \in Threads \ {t} : Using(u, v) /\ Releasing(u)
    BY <1>3, <2>1 DEF Using, Releasing
  <2>2. CASE v \in alive
    <3>1. v \notin alive' OBVIOUS
    <3>2. ReleaseVm(t, v)
      <4>1. Start(t) /\ ~ReleaseVm(t, v) => \E x \in VMs \ {v} : ReleaseVm(t, x) \/ alive' = alive
        BY <2>2, <3>1 DEF Start, CreateVm, SetMapping, SetUnmapping, Claim, NsvActivate, NsvDeactivate, guests
      <4>2. Finish(t) => alive \subseteq alive'
        BY DEF Finish, CreateDone, CreateFails, VcpuReleased, VmReleased, MapDone, MapFails,
             UnmapDone, Deactivated, NsvDone, guests
      <4>3. \A x \in VMs : ReleaseVm(t, x) => alive' = alive \ {x} BY DEF ReleaseVm
      <4> QED BY <2>2, <3>1, <4>1, <4>2, <4>3
    <3>3. pc' = [pc EXCEPT ![t] = "nptm"] /\ req' = [req EXCEPT ![t] = ReleaseVcpu(v)]
      BY <3>2 DEF ReleaseVm, Reassign
    <3>4. pc'[t] = "nptm" /\ req'[t] = ReleaseVcpu(v)
      BY <1>1, <3>3 DEF TypeOK, RequestDiscipline
    <3> QED BY <3>4 DEF Using, Releasing, ReleaseVcpu, Request
  <2>3. CASE v \in dirty
    <3>1. CreateVm(t, v)
      <4>1. Start(t) => \E x \in VMs : CreateVm(t, x) \/ dirty' = dirty
        BY DEF Start, ReleaseVm, SetMapping, SetUnmapping, Claim, NsvActivate, NsvDeactivate
      <4>2. Finish(t) => dirty' = dirty
        BY DEF Finish, CreateDone, CreateFails, VcpuReleased, VmReleased, MapDone, MapFails,
             UnmapDone, Deactivated, NsvDone, history
      <4>3. \A x \in VMs : CreateVm(t, x) => dirty' = dirty \ {x} BY DEF CreateVm
      <4> QED BY <2>3, <4>1, <4>2, <4>3
    <3>2. PICK f \in Free :
            Reassign(t, Request("create", v, NoMap, {f}, Nobody, "insecure_guest"))
      BY <3>1 DEF CreateVm
    <3>3. /\ pc'[t] = "nptm"
          /\ req'[t] = Request("create", v, NoMap, {f}, Nobody, "insecure_guest")
      BY <1>1, <3>2 DEF Reassign, TypeOK, RequestDiscipline
    <3> QED BY <3>3 DEF Using, Releasing, Request
  <2>4. CASE v \notin alive \cup dirty /\ ~\E u \in Threads \ {t} : Using(u, v) /\ Releasing(u)
    <3>1. Using(t, v) /\ Releasing(t) BY <1>1, <1>2, <1>7, <2>4 DEF ReleaseDiscipline
    <3>2. req[t].op \in {"create", "vmcb"} /\ pc[t] = "done" /\ req[t].vm = v
      BY <1>4, <3>1 DEF Releasing, Using
    <3>3. CreateDone(t) \/ CreateFails(t) \/ VcpuReleased(t)
      BY <3>2 DEF Start, CreateVm, ReleaseVm, SetMapping, SetUnmapping, Claim, NsvActivate,
           NsvDeactivate, Mapping, Finish, VmReleased, MapDone, MapFails, UnmapDone,
           Deactivated, NsvDone, Done
    <3>4. CASE CreateDone(t) BY <1>7, <3>2, <3>4 DEF CreateDone
    <3>5. CASE CreateFails(t)
      <4>1. pc'[t] = "crashed" /\ req' = req BY <3>5 DEF CreateFails
      <4> QED BY <3>2, <4>1 DEF Using, Releasing
    <3>6. CASE VcpuReleased(t)
      <4>1. /\ pc' = [pc EXCEPT ![t] = "nptm"]
            /\ req' = [req EXCEPT ![t] = Request("release_all", v, NoMap, {}, HostAsid, "subverted_host")]
        BY <3>2, <3>6 DEF VcpuReleased, Reassign
      <4>2. pc'[t] = "nptm" /\ req'[t] = Request("release_all", v, NoMap, {}, HostAsid, "subverted_host")
        BY <1>1, <4>1 DEF TypeOK, RequestDiscipline
      <4> QED BY <4>2 DEF Using, Releasing, Request
    <3> QED BY <3>3, <3>4, <3>5, <3>6
  <2> QED BY <2>1, <2>2, <2>3, <2>4
<1> QED BY <1>5, <1>6, <1>7 DEF ReleaseDiscipline

LEMMA FrontReturns ==
  ASSUME IInv, ReturnInv, NEW t \in Threads, Start(t) \/ Finish(t)
  PROVE  ReturnInv'
<1>1. UNCHANGED <<owner, asid, table, stack>> BY FrontFrame
<1>2. SplitDiscipline' BY <1>1 DEF ReturnInv, SplitDiscipline, SplitSoFar, Split, Reassigned
<1> QED BY <1>2, FrontPurpose, FrontOwners, FrontReleases DEF ReturnInv

-----------------------------------------------------------------------------
(* What is handed back: reassignments.                                     *)

\* Steps of the driver that change the pages of no request but a list's keep
\* the purpose of all requests and the VMCBs.
LEMMA DriverFrame ==
  ASSUME IInv, ReturnInv, NEW t \in Threads, pc[t] \notin {"idle", "crashed"},
         UNCHANGED <<alive, vmcb>>, pc' \in {pc} \cup {[pc EXCEPT ![t] = l] : l \in {"rmd", "work", "unlock", "done"}},
         \/ req' = req
         \/ \E P : req' = [req EXCEPT ![t].pages = P] /\ (OfWholeVm(req[t]) \/ P = req[t].pages)
  PROVE  /\ PurposeDiscipline'
         /\ \A v \in VMs : vmcb'[v] \in Pool =>
              v \in alive' \/ \E u \in Threads : Using(u, v)' /\ req'[u].op \in WithVcpu
<1>1. /\ TypeOK /\ RequestDiscipline /\ PurposeDiscipline /\ OwnerDiscipline
  BY DEF IInv, ReturnInv
<1>2. req = [u \in Threads |-> req[u]] /\ \A u \in Threads : WellTyped(req[u])
  BY <1>1 DEF RequestDiscipline
<1> DEFINE Same(u) == /\ req'[u].op = req[u].op /\ req'[u].vm = req[u].vm
                      /\ req'[u].asid = req[u].asid /\ req'[u].owner = req[u].owner
                      /\ req[u].op = "vmcb" => req'[u].pages = req[u].pages
<1>3. \A u \in Threads : Same(u)
  <2>1. CASE req' = req BY <2>1
  <2>2. ASSUME NEW P, req' = [req EXCEPT ![t].pages = P], OfWholeVm(req[t]) \/ P = req[t].pages
        PROVE  \A u \in Threads : Same(u)
    <3>1. \A u \in Threads \ {t} : req'[u] = req[u] BY <1>2, <2>2
    <3>2. req'[t] = [req[t] EXCEPT !.pages = P] BY <1>2, <2>2
    <3>3. /\ req'[t].op = req[t].op /\ req'[t].vm = req[t].vm /\ req'[t].pages = P
          /\ req'[t].asid = req[t].asid /\ req'[t].owner = req[t].owner
      BY <1>2, <3>2 DEF WellTyped, Request
    <3>4. req[t].op = "vmcb" => P = req[t].pages BY <2>2 DEF OfWholeVm
    <3> QED BY <3>1, <3>3, <3>4
  <2> QED BY <2>1, <2>2
<1>4. \A u \in Threads : Active(u)' => Active(u) BY <1>1 DEF TypeOK, Active
<1>5. \A u \in Threads : pc[u] # "idle" => pc'[u] # "idle" BY <1>1 DEF TypeOK
<1>6. PurposeDiscipline' BY <1>1, <1>3, <1>4 DEF PurposeDiscipline, Purposeful
<1> QED BY <1>1, <1>3, <1>5, <1>6 DEF OwnerDiscipline, Using

LEMMA LockReturns ==
  ASSUME IInv, ReturnInv, NEW t \in Threads, LockNptm(t) \/ LockRmd(t) \/ ListFails(t) \/ Unlock(t)
  PROVE  ReturnInv'
<1>1. /\ TypeOK /\ RequestDiscipline /\ LockDiscipline /\ PurposeDiscipline
      /\ SplitDiscipline /\ OwnerDiscipline /\ ReleaseDiscipline
  BY DEF IInv, ReturnInv
<1>2. UNCHANGED <<owner, asid, table, alive, vmcb>>
  BY DEF LockNptm, LockRmd, ListFails, Unlock, rmt, host_npt, guests
<1>3. pc[t] \in {"nptm", "rmd", "unlock"} BY DEF LockNptm, LockRmd, ListFails, Unlock
<1>4. PurposeDiscipline' /\ OwnerDiscipline'
  <2>1. pc' \in {[pc EXCEPT ![t] = l] : l \in {"rmd", "work", "unlock", "done"}}
    BY DEF LockNptm, LockRmd, ListFails, Unlock, ReturnFalse
  <2>2. req' = req \/ \E P : /\ req' = [req EXCEPT ![t].pages = P]
                             /\ OfWholeVm(req[t]) \/ P = req[t].pages
    BY DEF LockNptm, LockRmd, ListFails, Unlock, Listed
  <2>3. /\ PurposeDiscipline'
        /\ \A v \in VMs : vmcb'[v] \in Pool =>
             v \in alive' \/ \E u \in Threads : Using(u, v)' /\ req'[u].op \in WithVcpu
    BY <1>2, <1>3, <2>1, <2>2, DriverFrame
  <2>4. Free' = Free BY <1>2 DEF Free
  <2> QED BY <1>1, <1>2, <2>3, <2>4 DEF OwnerDiscipline
<1>5. CASE LockNptm(t) \/ Unlock(t)
  <2>1. UNCHANGED <<stack, req, dirty>> /\ pc[t] \in {"nptm", "unlock"}
        /\ pc' = [pc EXCEPT ![t] = IF pc[t] = "nptm" THEN "rmd" ELSE "done"]
    BY <1>5 DEF LockNptm, Unlock, history
  <2>2. /\ pc'[t] = IF pc[t] = "nptm" THEN "rmd" ELSE "done"
        /\ \A u \in Threads \ {t} : pc'[u] = pc[u]
    BY <1>1, <2>1 DEF TypeOK
  <2>3. SplitDiscipline'
    BY <1>1, <1>2, <2>1 DEF SplitDiscipline, SplitSoFar, Split, Reassigned
  <2>4. \A u \in Threads : Releasing(u) => Releasing(u)' BY <2>1, <2>2 DEF Releasing
  <2>5. \A u \in Threads, v \in VMs : Using(u, v) => Using(u, v)' BY <2>1, <2>2 DEF Using
  <2>6. \A u \in Threads : /\ pc'[u] = "work" => pc[u] = "work"
                           /\ pc'[u] \in {"unlock", "done"} => pc[u] \in {"unlock", "done"}
    BY <2>1, <2>2
  <2>7. ReleaseDiscipline' BY <1>1, <1>2, <2>1, <2>4, <2>5, <2>6 DEF ReleaseDiscipline
  <2> QED BY <1>4, <2>3, <2>7 DEF ReturnInv
<1>6. CASE LockRmd(t) \/ ListFails(t)
  <2>1. pc[t] = "rmd" /\ rmd_lock = None BY <1>6 DEF LockRmd, ListFails
  <2>2. \A u \in Threads : pc[u] \notin {"work", "unlock"}
    BY <1>1, <2>1, ActorsAssumption DEF LockDiscipline
  <2> DEFINE P == Listed(req[t])
  <2>3. Active(t) /\ req[t].vm \in VMs /\ WellTyped(req[t]) /\ Purposeful(req[t])
    BY <1>1, <2>1 DEF RequestDiscipline, Requested, PurposeDiscipline, Active
  <2>4. \A u \in Threads \ {t} : pc'[u] = pc[u] /\ req'[u] = req[u]
    BY <1>1, <1>6 DEF LockRmd, ListFails, ReturnFalse, TypeOK, RequestDiscipline
  <2>5. req'[t].op = req[t].op /\ req'[t].vm = req[t].vm
    BY <1>1, <1>6, <2>3 DEF LockRmd, ListFails, RequestDiscipline, WellTyped, Request
  <2>6. dirty \subseteq dirty'
    BY <1>6 DEF LockRmd, ListFails, history
  <2>7. \A p \in Pages : asid[p] = req[t].vm /\ OfWholeVm(req[t]) => p \in P BY DEF Listed
  <2>8. CASE stack' = <<>> /\ pc' = [pc EXCEPT ![t] = "unlock"]
    <3>1. pc'[t] = "unlock" BY <1>1, <2>8 DEF TypeOK
    <3>2. SplitDiscipline'
      <4>1. Len(stack') = 0 BY <2>8
      <4> QED BY <1>1, <1>2, <2>8, <4>1 DEF SplitDiscipline, Split, Reassigned
    <3>3. req[t].op # "vmcb"
      <4>1. CASE ListFails(t) BY <4>1 DEF ListFails, OfWholeVm
      <4>2. CASE LockRmd(t)
        <5>1. P = {} BY <1>1, <2>8, <4>2, <3>1 DEF LockRmd, TypeOK
        <5> QED BY <2>3, <5>1 DEF Listed, OfWholeVm, Purposeful
      <4> QED BY <1>6, <4>1, <4>2
    \* The list of a release is empty, or the CVM becomes dirty.
    <3>4. req[t].op = "release_all" =>
            req[t].vm \in dirty' \/ \A p \in Pages : asid[p] # req[t].vm
      <4>1. CASE ListFails(t) BY <4>1 DEF ListFails
      <4>2. CASE LockRmd(t)
        <5>1. P = {} BY <1>1, <2>8, <4>2, <3>1 DEF LockRmd, TypeOK
        <5> QED BY <2>7, <5>1 DEF OfWholeVm
      <4> QED BY <1>6, <4>1, <4>2
    <3>5. ASSUME NEW v \in VMs \ (alive \cup dirty'), NEW p \in Pages, asid[p] = v
          PROVE  \E u \in Threads : Using(u, v)' /\ Releasing(u)'
      <4>1. PICK u \in Threads : Using(u, v) /\ Releasing(u)
        BY <1>1, <2>6, <3>5 DEF ReleaseDiscipline
      <4>2. CASE u # t BY <2>4, <4>1, <4>2 DEF Using, Releasing
      <4>3. CASE u = t BY <2>1, <2>5, <3>1, <3>4, <3>5, <4>1, <4>3 DEF Using, Releasing
      <4> QED BY <4>2, <4>3
    <3>6. \A u \in Threads : pc'[u] # "work" BY <2>2, <2>4, <3>1
    <3>7. ASSUME NEW u \in Threads, req'[u].op = "vmcb", pc'[u] \in {"unlock", "done"}
          PROVE  owner[vmcb[req'[u].vm]] = "subverted_host"
      <4>1. u # t BY <2>5, <3>3, <3>7
      <4> QED BY <1>1, <2>4, <3>7, <4>1 DEF ReleaseDiscipline
    <3>8. ReleaseDiscipline' BY <1>2, <3>5, <3>6, <3>7 DEF ReleaseDiscipline
    <3> QED BY <1>4, <3>2, <3>8 DEF ReturnInv
  <2>9. CASE /\ LockRmd(t) /\ pc' = [pc EXCEPT ![t] = "work"]
             /\ stack' = <<Call(P, req[t].asid, req[t].owner)>>
    <3> DEFINE c == Call(P, req[t].asid, req[t].owner)
    <3>1. c.todo = P /\ c.pages = P /\ c.cur = None /\ ~c.written BY DEF Call
    <3>2. stack' = <<c>> /\ pc'[t] = "work" BY <1>1, <2>9 DEF TypeOK
    <3> HIDE DEF c
    <3>3. Len(stack') = 1 /\ stack'[1] = c BY <3>2
    <3>4. SplitSoFar(stack[1])' BY <3>1, <3>3 DEF SplitSoFar
    <3>5. SplitDiscipline'
      BY <1>1, <1>2, <3>1, <3>3, <3>4 DEF SplitDiscipline, Split, Reassigned
    <3>6. req'[t].pages = P /\ dirty' = dirty
      BY <1>1, <2>9, <2>3 DEF LockRmd, history, RequestDiscipline, WellTyped, Request
    <3>7. req[t].op = "release_all" => \A p \in Pages : asid[p] = req[t].vm <=> p \in P
      BY DEF Listed, OfWholeVm
    <3>8. \A u \in Threads : Releasing(u) => Releasing(u)' BY <2>1, <2>4, <2>5, <3>2 DEF Releasing
    <3>9. \A u \in Threads, v \in VMs : Using(u, v) => Using(u, v)'
      BY <2>4, <2>5, <3>2 DEF Using
    <3>10. ASSUME NEW u \in Threads, req'[u].op = "release_all", pc'[u] = "work"
           PROVE  /\ \A p \in Pages : asid[p] = req'[u].vm => p \in req'[u].pages
                  /\ stack' # <<>> /\ \A p \in req'[u].pages : asid[p] = req'[u].vm
      <4>1. u = t BY <2>2, <2>4, <3>10
      <4>2. P \subseteq Pages BY <2>3 DEF WellTyped, Listed
      <4> QED BY <2>5, <3>2, <3>6, <3>7, <3>10, <4>1, <4>2
    <3>11. \A u \in Threads : pc'[u] \in {"unlock", "done"} => u # t BY <3>2
    <3>12. ASSUME NEW u \in Threads, req'[u].op = "vmcb", pc'[u] \in {"unlock", "done"}
           PROVE  owner[vmcb[req'[u].vm]] = "subverted_host"
      BY <1>1, <2>4, <3>11, <3>12 DEF ReleaseDiscipline
    <3>13. \A v \in VMs \ (alive \cup dirty), p \in Pages : asid[p] = v =>
             \E u \in Threads : Using(u, v)' /\ Releasing(u)'
      BY <1>1, <3>8, <3>9 DEF ReleaseDiscipline
    <3>14. ReleaseDiscipline'
      BY <1>2, <3>6, <3>10, <3>12, <3>13 DEF ReleaseDiscipline
    <3> QED BY <1>4, <3>5, <3>14 DEF ReturnInv
  <2> QED BY <1>6, <2>8, <2>9 DEF LockRmd, ListFails, ReturnFalse
<1> QED BY <1>5, <1>6

\* While the outermost call still looks for memory, it has a page that never
\* was reassigned.
LEMMA StillToSplit ==
  ASSUME IInv, ReturnInv, NEW t \in Threads, Working(t), Len(stack) # 1 \/ Top.cur # None
  PROVE  /\ stack[1].pages = req[t].pages /\ ~stack[1].written
         /\ \E p \in req[t].pages : ~Reassigned(p)
<1>1. /\ stack # <<>> /\ Len(stack) \in Nat \ {0} /\ Top = stack[Len(stack)]
      /\ Top \in Calls /\ rmd_lock = t
  BY WorkFacts
<1>2. CallDiscipline /\ SplitDiscipline BY DEF IInv, ReturnInv
<1>3. Disciplined(1) /\ SplitSoFar(stack[1]) BY <1>1, <1>2 DEF CallDiscipline, SplitDiscipline
<1>4. stack[1].pages = req[t].pages BY <1>1, <1>3 DEF Disciplined
<1>5. CASE Len(stack) # 1
  <2>1. Len(stack) >= 2
    <3>1. \A n \in Nat \ {0} : n # 1 => n >= 2 OBVIOUS
    <3> QED BY <1>1, <1>5, <3>1
  <2>2. \E p \in stack[1].pages : ~Reassigned(p) BY <1>2, <2>1 DEF SplitDiscipline
  <2>3. ~stack[1].written BY <1>3, <1>5 DEF Disciplined
  <2> QED BY <1>4, <2>2, <2>3
<1>6. CASE Len(stack) = 1 /\ Top.cur # None
  <2>1. stack[1].cur \in stack[1].pages BY <1>1, <1>3, <1>6 DEF SplitSoFar
  <2> QED BY <1>1, <1>2, <1>3, <1>4, <1>6, <2>1 DEF Disciplined, SplitDiscipline
<1> QED BY <1>5, <1>6

\* The pages of a request are apart from tables and from what may be allocated,
\* and those of the calls for tables are tables.
LEMMA PagesApart ==
  ASSUME IInv, NEW t \in Threads, Working(t)
  PROVE  /\ req[t].pages \subseteq Data \cup {vmcb[req[t].vm]} /\ req[t].vm \in VMs
         /\ req[t].pages \subseteq Pages
         /\ req[t].pages \cap Free = {}
         /\ Len(stack) # 1 =>
              /\ \E r \in Regions : Top.pages = {table[r]} /\ table[r] \in Pool
              /\ Top.pages \cap (req[t].pages \cup Free \cup {vmcb[v] : v \in VMs}) = {}
<1> USE PagesAssumption
<1>1. stack # <<>> /\ Len(stack) \in Nat \ {0} /\ Top = stack[Len(stack)] /\ pc[t] = "work"
  BY WorkFacts
<1>2. Requested(t) /\ WellTyped(req[t]) /\ TableDiscipline
  BY <1>1 DEF IInv, RequestDiscipline, Active
<1>3. /\ req[t].vm \in VMs /\ req[t].pages \subseteq Data \cup {vmcb[req[t].vm]}
      /\ req[t].pages \subseteq Pages
  BY <1>2 DEF Requested, Fits, WellTyped
<1>4. req[t].pages \cap Free = {} BY <1>3 DEF Free
<1>5. ASSUME Len(stack) # 1
      PROVE  /\ \E r \in Regions : Top.pages = {table[r]} /\ table[r] \in Pool
             /\ Top.pages \cap (req[t].pages \cup Free \cup {vmcb[v] : v \in VMs}) = {}
  <2>0. Len(stack) \in 1 .. Len(stack) BY <1>1
  <2>1. PICK r \in Regions : Top.pages = {table[r]} /\ table[r] \in Pool
    BY <1>1, <1>5, <2>0, InnerTable
  <2>2. \A v \in VMs : table[r] # vmcb[v] BY <1>2, <2>1 DEF TableDiscipline
  <2>3. table[r] \notin Free BY DEF Free
  <2>4. table[r] \notin req[t].pages BY <1>3, <2>1, <2>2
  <2> QED BY <2>1, <2>2, <2>3, <2>4
<1> QED BY <1>3, <1>4, <1>5

\* Steps of a reassignment that leave the RMT alone: what a release has handed
\* back is known when its call ends.
LEMMA KeptReleases ==
  ASSUME IInv, ReturnInv, NEW t \in Threads, Work(t), UNCHANGED <<owner, asid>>,
         stack' # <<>> => stack'[1].written = stack[1].written,
         stack' = <<>> /\ req[t].op = "vmcb" => owner[vmcb[req[t].vm]] = "subverted_host",
         stack' = <<>> /\ req[t].op = "release_all" => \A p \in Pages : asid[p] # req[t].vm
  PROVE  ReleaseDiscipline'
<1>1. /\ rmd_lock = t /\ pc[t] = "work" /\ req' = req
      /\ \/ stack' # <<>> /\ pc' = pc
         \/ stack' = <<>> /\ pc' = [pc EXCEPT ![t] = "unlock"]
  BY WorkEnds
<1>2. /\ TypeOK /\ LockDiscipline /\ ReleaseDiscipline BY DEF IInv, ReturnInv
<1>3. UNCHANGED <<alive, vmcb, dirty>>
  BY DEF Work, LookUp, SplitPdpte, SplitPde, SplitFails, ReassignRmt, Refuse, Remap, guests, history
<1>4. \A u \in Threads \ {t} : pc'[u] = pc[u] /\ pc[u] # "work" BY <1>1, <1>2 DEF TypeOK, LockDiscipline
<1>5. CASE stack' # <<>> /\ pc' = pc
  <2>1. ASSUME NEW u \in Threads, req[u].op = "release_all", pc[u] = "work"
        PROVE  /\ \A p \in Pages : asid[p] = req[u].vm => p \in req[u].pages
               /\ ~stack'[1].written => \A p \in req[u].pages : asid[p] = req[u].vm
    BY <1>2, <1>5, <2>1 DEF ReleaseDiscipline
  <2>2. \A u \in Threads, v \in VMs : Using(u, v) /\ Releasing(u) => Using(u, v)' /\ Releasing(u)'
    BY <1>1, <1>5 DEF Using, Releasing
  <2>3. \A v \in VMs \ (alive \cup dirty), p \in Pages : asid[p] = v =>
          \E u \in Threads : Using(u, v)' /\ Releasing(u)'
    BY <1>2, <2>2 DEF ReleaseDiscipline
  <2>4. \A u \in Threads : req[u].op = "vmcb" /\ pc[u] \in {"unlock", "done"} =>
          owner[vmcb[req[u].vm]] = "subverted_host"
    BY <1>2 DEF ReleaseDiscipline
  <2> QED BY <1>1, <1>3, <1>5, <2>1, <2>3, <2>4 DEF ReleaseDiscipline
<1>6. CASE stack' = <<>> /\ pc' = [pc EXCEPT ![t] = "unlock"]
  <2>1. pc'[t] = "unlock" BY <1>2, <1>6 DEF TypeOK
  <2>2. \A u \in Threads : pc'[u] # "work" BY <1>4, <2>1
  <2>3. \A u \in Threads : req[u].op = "vmcb" /\ pc'[u] \in {"unlock", "done"} =>
          owner[vmcb[req[u].vm]] = "subverted_host"
    BY <1>2, <1>4, <1>6 DEF ReleaseDiscipline
  <2>4. ASSUME NEW v \in VMs \ (alive \cup dirty), NEW p \in Pages, asid[p] = v
        PROVE  \E u \in Threads : Using(u, v)' /\ Releasing(u)'
    <3>1. PICK u \in Threads : Using(u, v) /\ Releasing(u)
      BY <1>2, <2>4 DEF ReleaseDiscipline
    <3>2. CASE u # t BY <1>1, <1>4, <3>1, <3>2 DEF Using, Releasing
    <3>3. CASE u = t
      <4>1. req[t].op # "release_all" BY <1>6, <2>4, <3>1, <3>3 DEF Using
      <4> QED BY <1>1, <2>1, <3>1, <3>3, <4>1 DEF Using, Releasing
    <3> QED BY <3>2, <3>3
  <2> QED BY <1>1, <1>3, <2>2, <2>3, <2>4 DEF ReleaseDiscipline
<1> QED BY <1>1, <1>5, <1>6

\* The stage that looks for memory, and its end for want of memory, write no
\* owner; tables are only added.
LEMMA LookUpReturns ==
  ASSUME IInv, ReturnInv, NEW t \in Threads, LookUp(t)
  PROVE  SplitDiscipline' /\ ReleaseDiscipline'
<1>1. Working(t) /\ UNCHANGED <<owner, asid, table>> BY DEF LookUp, rmt, host_npt
<1>2. /\ stack \in Seq(Calls) /\ stack # <<>> /\ Top \in Calls
      /\ Len(stack) \in Nat \ {0} /\ Top = stack[Len(stack)]
  BY <1>1, WorkFacts
<1>3. PICK p \in Top.todo :
        LET call == [Top EXCEPT !.cur = p, !.pte_missing = table[Mega[p]] = None]
        IN stack' = SetTop(IF table[Giga[p]] = None \/ call.pte_missing THEN call ELSE ItemDone(call))
  BY DEF LookUp
<1> DEFINE call == [Top EXCEPT !.cur = p, !.pte_missing = table[Mega[p]] = None]
           c == IF table[Giga[p]] = None \/ call.pte_missing THEN call ELSE ItemDone(call)
<1>4. call \in Calls BY <1>2 DEF Calls
<1>5. c \in Calls BY <1>4, ItemDoneType
<1>6. SplitDiscipline /\ SplitSoFar(Top) BY <1>2 DEF ReturnInv, SplitDiscipline
<1>7. /\ call.pages = Top.pages /\ call.todo = Top.todo /\ call.written = Top.written
      /\ call.cur = p /\ call.pte_missing = (table[Mega[p]] = None)
  BY <1>2 DEF Calls
<1>8. p \in Pages /\ p # None /\ p \in Top.pages
  BY <1>2, <1>6, PagesAssumption DEF Calls, SplitSoFar
<1>9. /\ SplitSoFar(c) /\ c.pages = Top.pages /\ c.written = Top.written
      /\ c.cur # None => c.cur = p /\ ~Split(p)
  <2> HIDE DEF call, c
  <2>1. CASE (table[Giga[p]] = None \/ call.pte_missing) /\ c = call
    <3>1. ~Split(p) BY <1>7, <2>1 DEF Split
    <3> QED BY <1>6, <1>7, <1>8, <2>1, <3>1 DEF SplitSoFar
  <2>2. CASE ~(table[Giga[p]] = None \/ call.pte_missing) /\ c = ItemDone(call)
    <3>1. /\ c.pages = call.pages /\ c.todo = call.todo \ {p}
          /\ c.written = call.written /\ c.cur = None
      BY <1>4, <1>7, <2>2 DEF ItemDone, Calls
    <3>2. Split(p) BY <1>7, <2>2 DEF Split
    <3> QED BY <1>6, <1>7, <3>1, <3>2 DEF SplitSoFar
  <2> QED BY <2>1, <2>2 DEF c
<1>10. stack' = SetTop(c) BY <1>3
<1> HIDE DEF c, call
<1>11. /\ stack' # <<>> /\ Len(stack') = Len(stack)
       /\ \A i \in 1 .. Len(stack) : stack'[i] = IF i = Len(stack) THEN c ELSE stack[i]
  BY <1>2, <1>5, <1>10, SetTopFacts
<1>12. \A i \in 1 .. Len(stack') : SplitSoFar(stack[i])'
  <2> SUFFICES ASSUME NEW i \in 1 .. Len(stack) PROVE SplitSoFar(stack[i])'
    BY <1>11
  <2>1. SplitSoFar(stack[i]) /\ (stack'[i] = stack[i] \/ stack'[i] = c)
    BY <1>6, <1>11 DEF SplitDiscipline
  <2> QED BY <1>1, <1>9, <2>1 DEF SplitSoFar, Split
<1>13. stack'[1].cur # None => ~Reassigned(stack'[1].cur)
  BY <1>2, <1>6, <1>8, <1>9, <1>11 DEF SplitDiscipline
<1>14. stack'[1].pages = stack[1].pages /\ stack'[1].written = stack[1].written
  BY <1>2, <1>9, <1>11
<1>15. SplitDiscipline'
  BY <1>1, <1>6, <1>11, <1>12, <1>13, <1>14 DEF SplitDiscipline, Split, Reassigned
<1> QED BY <1>1, <1>11, <1>14, <1>15, KeptReleases DEF Work

LEMMA DescribeReturns ==
  ASSUME IInv, ReturnInv, NEW t \in Threads, Working(t), Top.cur # None,
         SplitPdpte(t) \/ SplitPde(t),
         NEW r \in {Giga[Top.cur], Mega[Top.cur]}, NEW f \in Pool, NEW c \in Calls, Describe(r, f, c),
         c = Top \/ (c = ItemDone(Top) /\ table'[Giga[Top.cur]] # None /\ table'[Mega[Top.cur]] # None)
  PROVE  SplitDiscipline' /\ ReleaseDiscipline'
<1>1. /\ stack \in Seq(Calls) /\ stack # <<>> /\ Top \in Calls
      /\ Len(stack) \in Nat \ {0} /\ Top = stack[Len(stack)]
  BY WorkFacts
<1>2. SplitDiscipline /\ SplitSoFar(Top) /\ TypeOK BY <1>1 DEF IInv, ReturnInv, SplitDiscipline
<1>3. owner' = owner /\ asid' = asid BY DEF SplitPdpte, SplitPde, rmt
<1> DEFINE d == Call({f}, Nobody, "noirvisor")
           n == Len(stack)
<1>4. f \in Pages /\ f # None BY PagesAssumption DEF Pages
<1>5. d \in Calls BY <1>4, TableCall
<1>6. d.pages = {f} /\ d.todo = {f} /\ d.cur = None /\ ~d.pte_missing BY DEF Call
<1>7. stack' = Append(SetTop(c), d) BY DEF Describe
<1> HIDE DEF d
<1>8. /\ stack' # <<>> /\ Len(stack') = n + 1 /\ stack'[n + 1] = d
      /\ \A i \in 1 .. n : stack'[i] = IF i = n THEN c ELSE stack[i]
  <2>1. LET s == Append(SetTop(c), d) IN
        /\ s # <<>> /\ Len(s) = n + 1 /\ s[n + 1] = d
        /\ \A i \in 1 .. n : s[i] = IF i = n THEN c ELSE stack[i]
    BY <1>1, <1>5, PushFacts
  <2> QED BY <1>7, <2>1
<1>9. \A q \in Regions : table[q] # None => table'[q] # None
  BY <1>2, <1>4 DEF Describe, TypeOK
<1>10. \A p \in Pages : Giga[p] \in Regions /\ Mega[p] \in Regions
  BY PagesAssumption DEF Regions
<1>11. \A p \in Pages : Split(p) => Split(p)' BY <1>9, <1>10 DEF Split
<1>12. Top.cur \in Pages /\ Top.pages \subseteq Pages BY <1>1 DEF Calls
<1>13. /\ c.pages = Top.pages /\ c.written = Top.written /\ c.cur \in {None, Top.cur}
       /\ c.todo \subseteq Top.todo
       /\ c.cur = Top.cur => c.todo = Top.todo /\ c.pte_missing = Top.pte_missing
       /\ \A p \in Top.todo \ c.todo : Split(p)'
  <2>1. CASE c = Top BY <2>1
  <2>2. CASE c = ItemDone(Top) /\ table'[Giga[Top.cur]] # None /\ table'[Mega[Top.cur]] # None
    <3>1. /\ c.pages = Top.pages /\ c.todo = Top.todo \ {Top.cur}
          /\ c.written = Top.written /\ c.cur = None
      BY <1>1, <2>2 DEF ItemDone, Calls
    <3>2. \A p \in {Top.cur} : Split(p)' BY <2>2 DEF Split
    <3> QED BY <3>1, <3>2
  <2> QED BY <2>1, <2>2
<1>14. ASSUME NEW i \in 1 .. n PROVE SplitSoFar(stack[i])'
  <2>1. SplitSoFar(stack[i]) /\ stack[i] \in Calls BY <1>1, <1>2, ElementOfSeq DEF SplitDiscipline
  <2>2. stack[i].pages \subseteq Pages /\ stack[i].cur \in Pages \cup {None} BY <2>1 DEF Calls
  <2>3. CASE i # n
    <3>1. stack'[i] = stack[i] BY <1>8, <2>3
    <3>2. \A p \in stack[i].pages \ stack[i].todo : Split(p)' BY <1>11, <2>1, <2>2 DEF SplitSoFar
    <3>3. stack[i].cur # None /\ ~stack[i].pte_missing => table'[Mega[stack[i].cur]] # None
      BY <1>9, <1>10, <2>1, <2>2 DEF SplitSoFar
    <3> QED BY <2>1, <3>1, <3>2, <3>3 DEF SplitSoFar
  <2>4. CASE i = n
    <3>1. stack'[i] = c /\ stack[i] = Top BY <1>1, <1>8, <2>4
    <3>2. \A p \in c.pages \ c.todo : Split(p)' BY <1>2, <1>11, <1>12, <1>13 DEF SplitSoFar
    <3>3. c.cur # None /\ ~c.pte_missing => table'[Mega[c.cur]] # None
      BY <1>2, <1>9, <1>10, <1>12, <1>13 DEF SplitSoFar
    <3>4. c.todo \subseteq c.pages /\ c.cur \in c.pages \cup {None}
      BY <1>2, <1>13 DEF SplitSoFar
    <3> QED BY <3>1, <3>2, <3>3, <3>4 DEF SplitSoFar
  <2> QED BY <2>3, <2>4
<1>15. \A i \in {n + 1} : SplitSoFar(stack[i])' BY <1>6, <1>8 DEF SplitSoFar
<1>16. \A i \in 1 .. Len(stack') : SplitSoFar(stack[i])'
  <2> SUFFICES ASSUME NEW i \in 1 .. n + 1 PROVE SplitSoFar(stack[i])'
    BY <1>8
  <2>1. CASE i \in 1 .. n BY <1>14, <2>1
  <2>2. CASE i = n + 1 BY <1>15, <2>2
  <2> QED BY <1>1, <2>1, <2>2
<1>17. stack'[1].pages = stack[1].pages /\ stack'[1].written = stack[1].written
       /\ stack'[1].cur \in {None, stack[1].cur}
  BY <1>1, <1>8, <1>13
<1>18. \E p \in stack[1].pages : ~Reassigned(p)
  <2>1. stack[1].pages = req[t].pages /\ \E p \in req[t].pages : ~Reassigned(p)
    BY StillToSplit
  <2> QED BY <2>1
<1>19. SplitDiscipline'
  <2>1. \A p \in Pages : Reassigned(p)' => Split(p)'
    BY <1>2, <1>3, <1>11 DEF SplitDiscipline, Reassigned
  <2>2. stack'[1].cur # None => ~Reassigned(stack[1].cur)'
    BY <1>1, <1>2, <1>3, <1>17 DEF SplitDiscipline, Reassigned
  <2>3. \E p \in stack'[1].pages : ~Reassigned(p)'
    BY <1>3, <1>17, <1>18 DEF Reassigned
  <2> QED BY <1>16, <2>1, <2>2, <2>3 DEF SplitDiscipline
<1> QED BY <1>3, <1>8, <1>17, <1>19, KeptReleases DEF Work

LEMMA SplitReturns ==
  ASSUME IInv, ReturnInv, NEW t \in Threads, SplitPdpte(t) \/ SplitPde(t)
  PROVE  SplitDiscipline' /\ ReleaseDiscipline'
<1>1. Working(t) /\ Top.cur # None BY DEF SplitPdpte, SplitPde
<1>2. /\ Top \in Calls /\ stack # <<>> /\ Len(stack) \in Nat \ {0} /\ Top = stack[Len(stack)]
  BY <1>1, WorkFacts
<1>3. /\ Giga[Top.cur] \in Regions /\ Mega[Top.cur] \in Regions /\ Giga[Top.cur] # Mega[Top.cur]
  BY <1>1, <1>2, PagesAssumption DEF Calls, Regions
<1>4. SplitSoFar(Top) /\ table \in [Regions -> Pool \cup {Boot, None}]
  BY <1>2 DEF IInv, TypeOK, ReturnInv, SplitDiscipline
<1>5. ItemDone(Top) \in Calls BY <1>2, ItemDoneType
<1>6. None \notin Pool BY PagesAssumption DEF Pages
<1>7. CASE SplitPdpte(t)
  <2> DEFINE c == IF Top.pte_missing THEN Top ELSE ItemDone(Top)
  <2>1. PICK f \in Free : Describe(Giga[Top.cur], f, c) BY <1>7 DEF SplitPdpte
  <2>2. f \in Pool BY DEF Free
  <2>3. table'[Giga[Top.cur]] # None /\ table'[Mega[Top.cur]] = table[Mega[Top.cur]]
    BY <1>3, <1>4, <1>6, <2>1, <2>2 DEF Describe
  <2>4. \/ c = Top
        \/ c = ItemDone(Top) /\ table'[Giga[Top.cur]] # None /\ table'[Mega[Top.cur]] # None
    BY <1>1, <1>4, <2>3 DEF SplitSoFar
  <2>5. c \in Calls BY <1>2, <1>5
  <2> HIDE DEF c
  <2> QED BY <1>1, <1>7, <2>1, <2>2, <2>4, <2>5, DescribeReturns
<1>8. CASE SplitPde(t)
  <2> DEFINE r == Mega[Top.cur]
  <2>1. PICK f \in IF table[r] = None THEN Free ELSE {table[r]} : Describe(r, f, ItemDone(Top))
    BY <1>8 DEF SplitPde
  <2>2. f \in Pool BY <1>1, <1>8, <2>1, NewTable DEF Free, SplitPde
  <2>3. table'[Mega[Top.cur]] # None /\ table'[Giga[Top.cur]] # None
    BY <1>3, <1>4, <1>6, <1>8, <2>1, <2>2 DEF Describe, SplitPde
  <2>4. \/ ItemDone(Top) = Top
        \/ ItemDone(Top) = ItemDone(Top) /\ table'[Giga[Top.cur]] # None /\ table'[Mega[Top.cur]] # None
    BY <2>3
  <2> HIDE DEF r
  <2> QED BY <1>1, <1>5, <1>8, <2>1, <2>2, <2>4, DescribeReturns DEF r
<1> QED BY <1>7, <1>8

\* When a call ends the others are where they were.
LEMMA EndSplits ==
  ASSUME IInv, ReturnInv, NEW t \in Threads, Working(t), UNCHANGED <<owner, asid, table>>,
         ReturnTrue(t) \/ ReturnFalse(t)
  PROVE  /\ SplitDiscipline'
         /\ stack' # <<>> => Len(stack) # 1 /\ stack'[1].written = stack[1].written
<1>1. stack \in Seq(Calls) /\ stack # <<>> /\ Len(stack) \in Nat \ {0} BY WorkFacts
<1>2. SplitDiscipline BY DEF ReturnInv
<1>3. CASE stack' = <<>>
  <2>1. Len(stack') = 0 BY <1>3
  <2> QED BY <1>2, <1>3, <2>1 DEF SplitDiscipline, Split, Reassigned
<1>4. CASE stack' # <<>>
  <2>1. ReturnTrue(t) BY <1>4 DEF ReturnFalse
  <2>2. /\ Len(stack') = Len(stack) - 1 /\ Len(stack) # 1
        /\ \A i \in 1 .. Len(stack') :
             stack'[i] = IF i = Len(stack') THEN [stack[i] EXCEPT !.result = TRUE] ELSE stack[i]
    BY <1>4, <2>1, ReturnTrueFacts
  <2>3. ASSUME NEW i \in 1 .. Len(stack')
        PROVE  /\ stack'[i].pages = stack[i].pages /\ stack'[i].todo = stack[i].todo
               /\ stack'[i].cur = stack[i].cur /\ stack'[i].pte_missing = stack[i].pte_missing
               /\ stack'[i].written = stack[i].written
    <3>1. i \in 1 .. Len(stack) BY <1>1, <2>2
    <3>2. stack[i] \in Calls BY <1>1, <3>1, ElementOfSeq
    <3> QED BY <2>2, <3>2 DEF Calls
  <2>4. \A i \in 1 .. Len(stack') : SplitSoFar(stack[i])
    BY <1>1, <1>2, <2>2 DEF SplitDiscipline
  <2>5. \A i \in 1 .. Len(stack') : SplitSoFar(stack[i])' BY <2>3, <2>4 DEF SplitSoFar, Split
  <2>6. 1 \in 1 .. Len(stack') /\ Len(stack') \in Nat BY <1>1, <2>2
  <2>7. Len(stack') >= 2 => Len(stack) >= 2 BY <1>1, <2>2
  <2>8. SplitDiscipline'
    BY <1>1, <1>2, <2>3, <2>5, <2>6, <2>7 DEF SplitDiscipline, Split, Reassigned
  <2> QED BY <2>2, <2>3, <2>6, <2>8
<1> QED BY <1>3, <1>4

LEMMA FailReturns ==
  ASSUME IInv, ReturnInv, NEW t \in Threads, SplitFails(t) \/ Refuse(t)
  PROVE  SplitDiscipline' /\ ReleaseDiscipline'
<1>1. Working(t) /\ UNCHANGED <<owner, asid, table>> /\ (ReturnTrue(t) \/ ReturnFalse(t))
  BY DEF SplitFails, Refuse, rmt, host_npt
<1>2. /\ stack # <<>> /\ Len(stack) \in Nat \ {0} /\ Top = stack[Len(stack)]
      /\ pc[t] = "work" /\ rmd_lock = t
  BY <1>1, WorkFacts
<1>3. /\ Purposeful(req[t]) /\ OwnerDiscipline /\ ReleaseDiscipline /\ SplitDiscipline
  BY <1>2 DEF ReturnInv, PurposeDiscipline, Active
<1>4. req[t].vm \in VMs /\ req[t].pages \subseteq Pages BY <1>1, PagesApart
<1>5. CASE Len(stack) # 1 \/ Top.cur # None
  <2>1. PICK p \in req[t].pages : ~Reassigned(p) BY <1>1, <1>5, StillToSplit
  <2>2. ~stack[1].written BY <1>1, <1>5, StillToSplit
  <2>3. req[t].op = "vmcb" => owner[vmcb[req[t].vm]] = "subverted_host"
    BY <1>3, <2>1 DEF Purposeful, Reassigned
  <2>4. req[t].op # "release_all"
    BY <1>2, <1>3, <1>4, <2>1, <2>2 DEF ReleaseDiscipline, Reassigned
  <2> QED BY <1>1, <2>3, <2>4, EndSplits, KeptReleases DEF Work
\* Nothing stands against handing back the pages of a CVM.
<1>6. CASE Len(stack) = 1 /\ Top.cur = None
  <2>1. Refuse(t) BY <1>6 DEF SplitFails
  <2>2. Top.pages = req[t].pages /\ Top.owner = req[t].owner /\ ~Top.written
    BY <1>1, <1>6, <2>1, OutermostPages DEF Refuse
  <2>3. PICK p \in req[t].pages : ~Valid(p, req[t].owner) BY <2>1, <2>2 DEF Refuse
  <2>4. req[t].owner = "subverted_host" => owner[p] = "noirvisor" BY <2>3 DEF Valid
  <2>5. req[t].op # "vmcb"
    <3> SUFFICES ASSUME req[t].op = "vmcb" PROVE FALSE
      OBVIOUS
    <3>1. p = vmcb[req[t].vm] /\ owner[p] = "noirvisor" BY <1>3, <2>3, <2>4 DEF Purposeful
    <3>2. p \in Pool
      <4>1. Requested(t) BY <1>2 DEF IInv, RequestDiscipline, Active
      <4> QED BY <3>1, <4>1 DEF Requested, Fits, WithVcpu
    <3> QED BY <1>3, <1>4, <3>1, <3>2 DEF OwnerDiscipline
  <2>6. req[t].op # "release_all"
    <3> SUFFICES ASSUME req[t].op = "release_all" PROVE FALSE
      OBVIOUS
    <3>1. owner[p] = "noirvisor" BY <1>3, <2>4 DEF Purposeful
    <3>2. ~stack[1].written BY <1>2, <1>6, <2>2
    <3>3. asid[p] = req[t].vm BY <1>2, <1>3, <2>3, <3>2 DEF ReleaseDiscipline
    <3> QED BY <1>3, <1>4, <2>3, <3>1, <3>3 DEF OwnerDiscipline
  <2> QED BY <1>1, <2>5, <2>6, EndSplits, KeptReleases DEF Work
<1> QED BY <1>5, <1>6

LEMMA RemapReturns ==
  ASSUME IInv, ReturnInv, NEW t \in Threads, Remap(t)
  PROVE  SplitDiscipline' /\ ReleaseDiscipline'
<1> USE ActorsAssumption DEF HostAsid
<1>1. Working(t) /\ UNCHANGED <<owner, asid, table>> /\ ReturnTrue(t) /\ Top.written
  BY DEF Remap, rmt
<1>2. /\ stack # <<>> /\ Len(stack) \in Nat \ {0} /\ Top = stack[Len(stack)]
      /\ pc[t] = "work" /\ rmd_lock = t
  BY <1>1, WorkFacts
<1>3. Purposeful(req[t]) /\ ReleaseDiscipline
  BY <1>2 DEF ReturnInv, PurposeDiscipline, Active
<1>4. req[t].vm \in VMs BY <1>1, PagesApart
<1>5. ASSUME stack' = <<>>
      PROVE  /\ req[t].op = "vmcb" => owner[vmcb[req[t].vm]] = "subverted_host"
             /\ req[t].op = "release_all" => \A p \in Pages : asid[p] # req[t].vm
  <2>1. Len(stack) = 1 BY <1>1, <1>5, ReturnTrueFacts
  <2>2. Top.pages = req[t].pages /\ Top.owner = req[t].owner /\ Top.asid = req[t].asid
    BY <1>1, <2>1, OutermostPages
  <2>3. Disciplined(Len(stack)) BY <1>2 DEF IInv, CallDiscipline
  <2>4. \A p \in req[t].pages : owner[p] = req[t].owner /\ asid[p] = req[t].asid
    BY <1>1, <1>2, <2>2, <2>3 DEF Disciplined
  <2>5. req[t].op = "vmcb" => owner[vmcb[req[t].vm]] = "subverted_host"
    BY <1>3, <2>4 DEF Purposeful
  <2>6. ASSUME req[t].op = "release_all", NEW p \in Pages PROVE asid[p] # req[t].vm
    BY <1>2, <1>3, <1>4, <2>4, <2>6 DEF ReleaseDiscipline, Purposeful
  <2> QED BY <2>5, <2>6
<1> QED BY <1>1, <1>5, EndSplits, KeptReleases DEF Work

\* The RMT is written: to the pages of a request, by the outermost call, or to
\* one table, by the others.
LEMMA ReassignReturns ==
  ASSUME IInv, ReturnInv, NEW t \in Threads, ReassignRmt(t)
  PROVE  SplitDiscipline' /\ OwnerDiscipline' /\ ReleaseDiscipline'
<1> USE ActorsAssumption DEF HostAsid, Nobody
<1>1. /\ Working(t) /\ UNCHANGED <<table, vmcb, alive, dirty, req, pc>>
      /\ Top.cur = None /\ Top.todo = {}
      /\ owner' = [p \in Pages |-> IF p \in Top.pages THEN Top.owner ELSE owner[p]]
      /\ asid' = [p \in Pages |-> IF p \in Top.pages THEN Top.asid ELSE asid[p]]
  BY DEF ReassignRmt, host_npt, guests, history
<1>2. /\ stack \in Seq(Calls) /\ stack # <<>> /\ Top \in Calls
      /\ Len(stack) \in Nat \ {0} /\ Top = stack[Len(stack)] /\ pc[t] = "work" /\ rmd_lock = t
  BY <1>1, WorkFacts
<1>3. /\ TypeOK /\ RequestDiscipline /\ LockDiscipline
      /\ SplitDiscipline /\ OwnerDiscipline /\ ReleaseDiscipline
      /\ Purposeful(req[t]) /\ Requested(t)
  BY <1>2 DEF IInv, ReturnInv, PurposeDiscipline, RequestDiscipline, Active
<1>4. /\ req[t].vm \in VMs /\ req[t].pages \subseteq Pages
      /\ req[t].pages \subseteq Data \cup {vmcb[req[t].vm]} /\ req[t].pages \cap Free = {}
  BY <1>1, PagesApart
<1>5. Len(stack) = 1 =>
        /\ Top.pages = req[t].pages /\ Top.owner = req[t].owner /\ Top.asid = req[t].asid
        /\ Top.asid \in VMs => Top.pages \subseteq Data
  BY <1>1, OutermostPages
<1>6. Len(stack) # 1 =>
        /\ Top.owner = "noirvisor" /\ Top.asid = Nobody
        /\ Top.pages \cap (req[t].pages \cup Free \cup {vmcb[v] : v \in VMs}) = {}
  BY <1>1, InnerPages, PagesApart
<1> DEFINE c == [Top EXCEPT !.result = TRUE, !.written = TRUE]
<1>7. c \in Calls /\ stack' = SetTop(c) BY <1>2 DEF Calls, ReassignRmt
<1>8. /\ c.pages = Top.pages /\ c.todo = Top.todo /\ c.cur = Top.cur
      /\ c.pte_missing = Top.pte_missing /\ c.written
  BY <1>2 DEF Calls
<1> HIDE DEF c
<1>9. /\ stack' # <<>> /\ Len(stack') = Len(stack)
      /\ \A i \in 1 .. Len(stack) : stack'[i] = IF i = Len(stack) THEN c ELSE stack[i]
  BY <1>2, <1>7, SetTopFacts
<1>10. \A i \in 1 .. Len(stack) :
         /\ stack'[i].pages = stack[i].pages /\ stack'[i].todo = stack[i].todo
         /\ stack'[i].cur = stack[i].cur /\ stack'[i].pte_missing = stack[i].pte_missing
  BY <1>2, <1>8, <1>9
<1>11. 1 \in 1 .. Len(stack) /\ Len(stack) \in 1 .. Len(stack) BY <1>2
<1>12. Top.pages \subseteq Pages BY <1>2 DEF Calls
<1>13. Disciplined(1) /\ SplitSoFar(stack[1]) /\ SplitSoFar(Top)
  BY <1>2, <1>3, <1>11 DEF IInv, CallDiscipline, SplitDiscipline
<1>14. stack[1].pages = req[t].pages BY <1>2, <1>13 DEF Disciplined
<1>15. Len(stack) # 1 => \A p \in req[t].pages : owner'[p] = owner[p] /\ asid'[p] = asid[p]
  BY <1>1, <1>4, <1>6
<1>16. SplitDiscipline'
  <2>1. ASSUME NEW p \in Pages, Reassigned(p)' PROVE Split(p)'
    <3>1. CASE p \in Top.pages BY <1>1, <1>13, <3>1 DEF SplitSoFar, Split
    <3>2. CASE p \notin Top.pages
      BY <1>1, <1>3, <2>1, <3>2 DEF SplitDiscipline, Split, Reassigned
    <3> QED BY <3>1, <3>2
  <2>2. ASSUME NEW i \in 1 .. Len(stack') PROVE SplitSoFar(stack[i])'
    <3>1. SplitSoFar(stack[i]) BY <1>3, <1>9, <2>2 DEF SplitDiscipline
    <3> QED BY <1>1, <1>9, <1>10, <2>2, <3>1 DEF SplitSoFar, Split
  <2>3. ASSUME stack'[1].cur # None PROVE ~Reassigned(stack[1].cur)'
    <3>1. Len(stack) # 1 BY <1>1, <1>2, <1>10, <1>11, <2>3
    <3>2. stack'[1].cur = stack[1].cur /\ ~Reassigned(stack[1].cur)
      BY <1>2, <1>3, <1>10, <1>11, <2>3 DEF SplitDiscipline
    <3>3. stack[1].cur \in req[t].pages BY <1>13, <1>14, <2>3, <3>2 DEF SplitSoFar
    <3> QED BY <1>15, <3>1, <3>2, <3>3 DEF Reassigned
  <2>4. ASSUME Len(stack') >= 2 PROVE (\E p \in stack[1].pages : ~Reassigned(p))'
    <3>1. Len(stack) # 1 BY <1>2, <1>9, <2>4
    <3>2. PICK p \in req[t].pages : ~Reassigned(p) BY <1>1, <3>1, StillToSplit
    <3>3. ~Reassigned(p)' BY <1>15, <3>1, <3>2 DEF Reassigned
    <3> QED BY <1>10, <1>11, <1>14, <3>3
  <2> QED BY <2>1, <2>2, <2>3, <2>4 DEF SplitDiscipline
<1>17. Free' = Free /\ Free \subseteq Pages BY <1>1 DEF Free, Pages
\* What belongs to VMCBs stays away from NoirVisor.
<1>18. ASSUME NEW v \in VMs, vmcb[v] \in Top.pages
       PROVE  Len(stack) = 1 /\ Top.owner # "noirvisor"
  BY <1>3, <1>5, <1>6, <1>18 DEF Purposeful
<1>19. OwnerDiscipline'
  <2>1. ASSUME NEW p \in Pages, asid'[p] \in VMs PROVE owner'[p] # "noirvisor"
    <3>1. CASE p \in Top.pages
      <4>1. Top.asid \in VMs /\ owner'[p] = Top.owner BY <1>1, <2>1, <3>1
      <4>2. Len(stack) = 1 BY <1>6, <4>1
      <4> QED BY <1>3, <1>5, <4>1, <4>2 DEF Purposeful
    <3>2. CASE p \notin Top.pages BY <1>1, <1>3, <2>1, <3>2 DEF OwnerDiscipline
    <3> QED BY <3>1, <3>2
  <2>2. ASSUME NEW v \in VMs, vmcb[v] \in Pool PROVE owner'[vmcb[v]] # "noirvisor"
    <3>1. vmcb[v] \in Pages BY <2>2 DEF Pages
    <3>2. CASE vmcb[v] \in Top.pages BY <1>1, <1>18, <3>1, <3>2
    <3>3. CASE vmcb[v] \notin Top.pages BY <1>1, <1>3, <2>2, <3>1, <3>3 DEF OwnerDiscipline
    <3> QED BY <3>2, <3>3
  <2>3. ASSUME NEW p \in Free PROVE owner'[p] = "subverted_host"
    <3>1. p \notin Top.pages BY <1>4, <1>5, <1>6
    <3> QED BY <1>1, <1>3, <1>17, <3>1 DEF OwnerDiscipline
  <2>4. /\ \A v, w \in VMs : vmcb[v] \in Pool /\ vmcb[v] = vmcb[w] => v = w
        /\ \A v \in VMs : vmcb[v] \in Pool =>
             v \in alive' \/ \E u \in Threads : Using(u, v)' /\ req'[u].op \in WithVcpu
    BY <1>1, <1>3 DEF OwnerDiscipline, Using
  <2> QED BY <1>1, <1>17, <2>1, <2>2, <2>3, <2>4 DEF OwnerDiscipline
<1>20. \A u \in Threads \ {t} : pc[u] \notin {"work", "unlock"} BY <1>2, <1>3 DEF LockDiscipline
<1>21. ASSUME NEW u \in Threads, req[u].op = "vmcb", pc[u] \in {"unlock", "done"}
       PROVE  owner'[vmcb[req[u].vm]] = "subverted_host"
  <2>1. u # t /\ Active(u) /\ Active(t) BY <1>2, <1>21 DEF Active
  <2>2. Requested(u) BY <1>3, <2>1 DEF RequestDiscipline
  <2>3. req[u].vm \in VMs /\ vmcb[req[u].vm] \in Pool
    BY <1>21, <2>2 DEF Requested, Fits, WithVcpu
  <2>4. req[t].vm # req[u].vm BY <1>21, <2>1, ExclusiveFacts DEF Sharing
  <2>5. vmcb[req[u].vm] # vmcb[req[t].vm] BY <1>3, <1>4, <2>3, <2>4 DEF OwnerDiscipline
  <2>6. vmcb[req[u].vm] \notin Data /\ vmcb[req[u].vm] \in Pages
    BY <2>3, PagesAssumption DEF Pages
  <2>7. vmcb[req[u].vm] \notin Top.pages BY <1>4, <1>5, <1>6, <2>3, <2>5, <2>6
  <2>8. owner[vmcb[req[u].vm]] = "subverted_host" BY <1>3, <1>21 DEF ReleaseDiscipline
  <2> QED BY <1>1, <2>6, <2>7, <2>8
\* Only for a CVM that lives are pages given its ASID.
<1>22. ASSUME NEW v \in VMs, NEW p \in Pages, asid'[p] = v
       PROVE  asid[p] = v \/ (v \in alive /\ v = req[t].vm /\ req[t].op \in WithVm)
  <2>1. CASE p \in Top.pages
    <3>1. Top.asid = v BY <1>1, <1>22, <2>1
    <3>2. Len(stack) = 1 BY <1>6, <3>1
    <3>3. v = req[t].vm /\ req[t].op \in WithVm BY <1>3, <1>5, <3>1, <3>2 DEF Purposeful
    <3> QED BY <1>3, <3>3 DEF Requested, Fits
  <2>2. CASE p \notin Top.pages BY <1>1, <1>22, <2>2
  <2> QED BY <2>1, <2>2
<1>23. ASSUME NEW u \in Threads, req[u].op = "release_all", pc[u] = "work"
       PROVE  /\ \A p \in Pages : asid'[p] = req[u].vm => p \in req[u].pages
              /\ ~stack'[1].written => \A p \in req[u].pages : asid'[p] = req[u].vm
  <2>1. u = t BY <1>20, <1>23
  <2>2. \A p \in Pages : asid'[p] = req[t].vm => asid[p] = req[t].vm
    BY <1>4, <1>22, <1>23, <2>1 DEF WithVm, Sharing
  <2>3. ASSUME ~stack'[1].written PROVE \A p \in req[t].pages : asid'[p] = req[t].vm
    <3>1. Len(stack) # 1 BY <1>8, <1>9, <1>11, <2>3
    <3>2. stack'[1] = stack[1] BY <1>9, <1>11, <3>1
    <3> QED BY <1>3, <1>15, <1>23, <2>1, <2>3, <3>1, <3>2 DEF ReleaseDiscipline
  <2> QED BY <1>3, <1>23, <2>1, <2>2, <2>3 DEF ReleaseDiscipline
<1>24. ReleaseDiscipline'
  <2>1. ASSUME NEW v \in VMs \ (alive \cup dirty), NEW p \in Pages, asid'[p] = v
        PROVE  \E u \in Threads : Using(u, v) /\ Releasing(u)
    BY <1>3, <1>22, <2>1 DEF ReleaseDiscipline
  <2> QED BY <1>1, <1>9, <1>21, <1>23, <2>1 DEF ReleaseDiscipline, Using, Releasing
<1> QED BY <1>16, <1>19, <1>24

LEMMA WorkReturns ==
  ASSUME IInv, ReturnInv, NEW t \in Threads, Work(t)
  PROVE  ReturnInv'
<1>1. Working(t) /\ UNCHANGED <<alive, vmcb>>
  BY DEF Work, LookUp, SplitPdpte, SplitPde, SplitFails, ReassignRmt, Refuse, Remap, guests
<1>2. /\ pc[t] = "work" /\ req' = req
      /\ pc' \in {pc} \cup {[pc EXCEPT ![t] = l] : l \in {"rmd", "work", "unlock", "done"}}
  BY WorkEnds
<1>3. /\ PurposeDiscipline'
      /\ \A v \in VMs : vmcb'[v] \in Pool =>
           v \in alive' \/ \E u \in Threads : Using(u, v)' /\ req'[u].op \in WithVcpu
  BY <1>1, <1>2, DriverFrame
<1>4. CASE ReassignRmt(t) BY <1>3, <1>4, ReassignReturns DEF ReturnInv
<1>5. CASE ~ReassignRmt(t)
  <2>1. owner' = owner /\ asid' = asid
    BY <1>5 DEF Work, LookUp, SplitPdpte, SplitPde, SplitFails, Refuse, Remap, rmt
  <2>2. Free' \subseteq Free
    <3>1. CASE table' = table BY <1>1, <3>1 DEF Free
    <3>2. CASE table' # table
      <4>1. SplitPdpte(t) \/ SplitPde(t)
        BY <1>5, <3>2 DEF Work, LookUp, SplitFails, Refuse, Remap, host_npt
      <4>2. \E r : \E f : /\ table' = [table EXCEPT ![r] = f] /\ r \in Regions
                          /\ table[r] = None \/ table[r] = f
        <5>1. Top.cur # None /\ Top \in Calls
          BY <1>1, <4>1, WorkFacts DEF SplitPdpte, SplitPde
        <5>2. Giga[Top.cur] \in Regions /\ Mega[Top.cur] \in Regions
          BY <5>1, PagesAssumption DEF Calls, Regions
        <5> QED BY <4>1, <5>2 DEF SplitPdpte, SplitPde, Describe
      <4>3. \A r \in Regions : table[r] \in Pool => \E q \in Regions : table'[q] = table[r]
        <5>1. table \in [Regions -> Pool \cup {Boot, None}] BY DEF IInv, TypeOK
        <5>2. None \notin Pool BY PagesAssumption DEF Pages
        <5> QED BY <4>2, <5>1, <5>2
      <4> QED BY <1>1, <4>3 DEF Free
    <3> QED BY <3>1, <3>2
  <2>3. OwnerDiscipline' BY <1>1, <1>3, <2>1, <2>2 DEF ReturnInv, OwnerDiscipline
  <2>4. SplitDiscipline' /\ ReleaseDiscipline'
    BY <1>5, LookUpReturns, SplitReturns, FailReturns, RemapReturns DEF Work
  <2> QED BY <1>3, <2>3, <2>4 DEF ReturnInv
<1> QED BY <1>4, <1>5

-----------------------------------------------------------------------------
(* The theorems.                                                           *)

LEMMA InitInv ==
  ASSUME Init
  PROVE  IInv
<1> USE PagesAssumption, ActorsAssumption DEF Init, Pages, Regions
<1>1. TypeOK
  <2>1. stack \in Seq(Calls) BY EmptySeq
  <2>2. table \in [Regions -> Pool \cup {Boot, None}] /\ linked \subseteq Regions OBVIOUS
  <2> QED BY <2>1, <2>2 DEF TypeOK, Owners, Asids
<1>2. RequestDiscipline
  <2>1. DOMAIN NoMap = {} BY DEF NoMap
  <2>2. WellTyped(NoRequest) BY <2>1 DEF NoRequest, Request, WellTyped, Asids, Owners
  <2>3. \A t \in Threads : req[t] = NoRequest /\ ~Active(t) BY DEF Active
  <2> QED BY <2>2, <2>3 DEF RequestDiscipline
<1>3. LockDiscipline BY DEF LockDiscipline
<1>4. Len(stack) = 0 /\ Pending = {} BY DEF Pending
<1>5. CallDiscipline BY <1>4 DEF CallDiscipline
<1>6. ViewDiscipline BY <1>4 DEF ViewDiscipline, HostAccess, AccessOf
<1>7. TableDiscipline BY DEF TableDiscipline, HostAsid
<1>8. SuccessMeansReassigned BY DEF SuccessMeansReassigned
<1> QED BY <1>1, <1>2, <1>3, <1>5, <1>6, <1>7, <1>8 DEF IInv

LEMMA NextInv ==
  ASSUME IInv, [Next]_vars
  PROVE  IInv'
<1>1. ASSUME NEW t \in Threads, Start(t) \/ Finish(t) PROVE IInv'
  BY <1>1, FrontTypes, StartRequests, FinishRequests, FrontStep DEF IInv
<1>2. ASSUME NEW t \in Threads, LockNptm(t) \/ LockRmd(t) \/ ListFails(t) \/ Unlock(t) PROVE IInv'
  BY <1>2, LockTypes, LockRequests, LockStep DEF IInv
<1>3. ASSUME NEW t \in Threads, Work(t) PROVE IInv'
  <2>1. CallDiscipline' /\ ViewDiscipline' /\ TableDiscipline'
    BY <1>3, LookUpStep, SplitStep, FailStep, ReassignStep, RemapStep DEF Work
  <2> QED BY <1>3, <2>1, WorkTypes, WorkRequests, WorkLocks, WorkSuccess DEF IInv
<1>4. CASE UNCHANGED vars
  <2> USE <1>4 DEF vars, rmt, host_npt, locks, guests, history, IInv
  <2>1. TypeOK' /\ LockDiscipline' BY DEF TypeOK, LockDiscipline
  <2>2. RequestDiscipline' BY DEF RequestDiscipline, Requested, Active
  <2>3. CallDiscipline' BY DEF CallDiscipline, Disciplined
  <2>4. ViewDiscipline' /\ TableDiscipline'
    BY DEF ViewDiscipline, TableDiscipline, HostAccess, Pending, Top
  <2>5. SuccessMeansReassigned' BY DEF SuccessMeansReassigned
  <2> QED BY <2>1, <2>2, <2>3, <2>4, <2>5
<1> QED BY <1>1, <1>2, <1>3, <1>4 DEF Next

\* The invariant holds in every state that can be reached.
THEOREM InvariantHolds == Spec => []IInv
<1> QED BY InitInv, NextInv, PTL DEF Spec

\* Every variable keeps its type, however many threads reassign and split.
THEOREM TypeCorrect == Spec => []TypeOK
<1>1. IInv => TypeOK BY DEF IInv
<1> QED BY <1>1, InvariantHolds, PTL

\* Between two reassignments the host's nested page table allows for each page
\* what the reverse-mapping table says of its owner: stage III rewrites every
\* page that stage II has written before the call returns, and no other step
\* touches either (svm_npt.c, nvc_npt_reassign_page_ownership_unsafe).
THEOREM HostViewCorrect == Spec => []HostViewFollowsRmt
<1>1. IInv => HostViewFollowsRmt BY DEF IInv, ViewDiscipline, HostViewFollowsRmt, Pending
<1> QED BY <1>1, InvariantHolds, PTL

\* A table linked into the host's nested page table belongs to NoirVisor, and
\* the host cannot write it, unless its own reassignment did not happen.
THEOREM TablesCorrect == Spec => []TablesProtected
<1>1. ASSUME IInv, stack = <<>>, NEW r \in linked, table[r] \in Pool \ exposed
      PROVE  owner[table[r]] = "noirvisor" /\ HostAccess(table[r]) = "read"
  <2>1. r \in Regions /\ table[r] \in Pages BY <1>1 DEF IInv, TypeOK, Pages
  <2>2. \A i \in 2 .. Len(stack) : FALSE BY <1>1
  <2>3. owner[table[r]] = "noirvisor" BY <1>1, <2>1, <2>2 DEF IInv, TableDiscipline
  <2>4. HostAccess(table[r]) = AccessOf(owner[table[r]])
    BY <1>1, <2>1 DEF IInv, ViewDiscipline, Pending
  <2> QED BY <2>3, <2>4 DEF AccessOf
<1>2. IInv => TablesProtected BY <1>1 DEF TablesProtected
<1> QED BY <1>2, InvariantHolds, PTL

\* A caller that is told TRUE has its pages reassigned, though its answer passes
\* through the same local variable as those of the calls for the tables.
THEOREM ReassignmentCorrect == Spec => []SuccessMeansReassigned
<1>1. IInv => SuccessMeansReassigned BY DEF IInv
<1> QED BY <1>1, InvariantHolds, PTL

LEMMA InitReturns ==
  ASSUME Init
  PROVE  ReturnInv
<1> USE PagesAssumption, ActorsAssumption DEF Init, HostAsid, Nobody
<1>1. \A t \in Threads : req[t] = NoRequest /\ pc[t] = "idle" OBVIOUS
<1>2. PurposeDiscipline BY <1>1 DEF PurposeDiscipline, Active
<1>3. Len(stack) = 0 BY DEF Pages
<1>4. SplitDiscipline BY <1>3 DEF SplitDiscipline, Reassigned
<1>5. OwnerDiscipline BY DEF OwnerDiscipline, Free, Pages
<1>6. ReleaseDiscipline BY <1>1 DEF ReleaseDiscipline
<1> QED BY <1>2, <1>4, <1>5, <1>6 DEF ReturnInv

LEMMA NextReturns ==
  ASSUME IInv, ReturnInv, [Next]_vars
  PROVE  ReturnInv'
<1>1. ASSUME NEW t \in Threads, Start(t) \/ Finish(t) PROVE ReturnInv'
  BY <1>1, FrontReturns
<1>2. ASSUME NEW t \in Threads, LockNptm(t) \/ LockRmd(t) \/ ListFails(t) \/ Unlock(t)
      PROVE ReturnInv'
  BY <1>2, LockReturns
<1>3. ASSUME NEW t \in Threads, Work(t) PROVE ReturnInv'
  BY <1>3, WorkReturns
<1>4. CASE UNCHANGED vars
  <2> USE <1>4 DEF vars, rmt, host_npt, locks, guests, history, ReturnInv
  <2>1. PurposeDiscipline' BY DEF PurposeDiscipline, Purposeful, Active
  <2>2. SplitDiscipline' BY DEF SplitDiscipline, SplitSoFar, Split, Reassigned
  <2>3. OwnerDiscipline' BY DEF OwnerDiscipline, Free, Using
  <2>4. ReleaseDiscipline' BY DEF ReleaseDiscipline, Releasing, Using
  <2> QED BY <2>1, <2>2, <2>3, <2>4
<1> QED BY <1>1, <1>2, <1>3, <1>4 DEF Next

\* A page that is free can be used by the host, whatever it was used for; and a
\* CVM that is gone has left no page with its ASID to the CVM that gets it
\* next, unless the list of its pages found no memory: handing pages back needs
\* no memory and meets no refusal (svm_custom.c, nvc_svmc_release_vm, and
\* svm_npt.c, nvc_npt_reassign_cvm_all_pages_ownership).
THEOREM ReturnCorrect == Spec => []ReleasedPagesReturned
<1>1. ASSUME IInv, ReturnInv, stack = <<>>, NEW p \in Free
      PROVE  HostAccess(p) = "full" /\ owner[p] = "subverted_host"
  <2>1. owner[p] = "subverted_host" BY <1>1 DEF ReturnInv, OwnerDiscipline
  <2>2. p \in Pages \ Pending BY <1>1 DEF Free, Pages, Pending
  <2>3. HostAccess(p) = AccessOf(owner[p]) BY <1>1, <2>2 DEF IInv, ViewDiscipline
  <2> QED BY <2>1, <2>3 DEF AccessOf
<1>2. ASSUME ReturnInv, NEW v \in VMs \ (alive \cup dirty), \A t \in Threads : ~Using(t, v)
      PROVE  \A p \in Pages : asid[p] # v
  BY <1>2 DEF ReturnInv, ReleaseDiscipline
<1>3. IInv /\ ReturnInv => ReleasedPagesReturned BY <1>1, <1>2 DEF ReleasedPagesReturned
<1>4. Init => ReturnInv BY InitReturns
<1>5. IInv /\ ReturnInv /\ [Next]_vars => ReturnInv' BY NextReturns
<1>6. Spec => []ReturnInv BY <1>4, <1>5, InvariantHolds, PTL DEF Spec
<1> QED BY <1>3, <1>6, InvariantHolds, PTL
=============================================================================
