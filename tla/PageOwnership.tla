--------------------------- MODULE PageOwnership ---------------------------
(***************************************************************************)
(* The reverse-mapping table (RMT) of NoirVisor Secure Virtualization.     *)
(*                                                                         *)
(* For each page of RAM the RMT says who owns it: NoirVisor, the host, or  *)
(* a CVM, of which it may be a secure page.  The host's nested page table  *)
(* is to follow: a secure page is absent, a page of NoirVisor read-only.   *)
(* A reassignment goes in three stages.  The driver splits the large pages *)
(* of the host's table down to 4KiB, and each page it takes for a table is *)
(* itself reassigned to NoirVisor, by the same function, which may have to *)
(* split in its turn.  One hypercall validates and writes the RMT, another *)
(* links the new tables and writes their entries.                          *)
(*                                                                         *)
(* `stack' holds the calls under way, innermost last: each is one call of  *)
(* nvc_npt_reassign_page_ownership_unsafe with its local variables.        *)
(***************************************************************************)
EXTENDS Integers, Sequences, FiniteSets

CONSTANTS
  Threads,  \* threads of the host that call the driver
  VMs,      \* CVMs, which stand for their ASIDs
  Gpas,     \* pages of guest memory
  Data,     \* pages of RAM that the host gives to CVMs
  Pool,     \* pages of RAM that the driver allocates
  Zero,     \* the page at address 0, which stands for a mapping that is absent
  Gigas,    \* regions of 1GiB
  Megas,    \* regions of 2MiB
  Giga,     \* Giga[p]: the region of 1GiB of page p
  Mega,     \* Mega[p]: the region of 2MiB of page p
  Boot,     \* a table made at subversion, outside of Pages
  None      \* no page, no thread

Pages == Data \cup Pool
Regions == Gigas \cup Megas
Owners == {"noirvisor", "subverted_host", "insecure_guest", "secure_guest"}
Nobody == "asid0"
HostAsid == "asid1"
Asids == VMs \cup {Nobody, HostAsid}

ASSUME PagesAssumption ==
  /\ Zero \in Data /\ Data \cap Pool = {} /\ {Boot, None} \cap Pages = {} /\ Boot # None
  /\ Giga \in [Pages -> Gigas] /\ Mega \in [Pages -> Megas] /\ Gigas \cap Megas = {}
ASSUME GpasAssumption == Gpas \subseteq Int
ASSUME ActorsAssumption == None \notin Threads /\ {Nobody, HostAsid} \cap VMs = {}

VARIABLES
  owner, asid,  \* the RMT: owner and ASID of each page
  table,        \* table[r]: the page that describes region r, if r was split
  linked,       \* regions whose entry in the host's nested page table points to table[r]
  pte,          \* pte[p]: what the entry for p in its table of 4KiB pages allows
  nptm_lock, rmd_lock,
  stack,
  pc, req, result,  \* where each thread is, what it has asked for, and the answer
  alive, nsv,       \* CVMs that exist; properties.nsv_guest
  vmcb,             \* vmcb[v]: page of the VMCB of v's vCPU
  mapped,           \* mapped[v][g]: page that v's nested page table maps g to
  exposed,          \* history: tables whose own reassignment did not happen
  starved,          \* history: threads for whom an allocation has failed in this call
  dirty             \* history: CVMs whose pages could not be listed when they were released

rmt == <<owner, asid>>
host_npt == <<table, linked, pte>>
locks == <<nptm_lock, rmd_lock>>
guests == <<alive, nsv, vmcb, mapped>>
history == <<exposed, starved, dirty>>
vars == <<rmt, host_npt, locks, stack, pc, req, result, guests, history>>

NoMap == [g \in {} |-> Zero]
Request(op, v, map, P, a, o) ==
  [op |-> op, vm |-> v, map |-> map, pages |-> P, asid |-> a, owner |-> o]
NoRequest == Request("none", None, NoMap, {}, Nobody, "noirvisor")


\* nvc_build_reverse_mapping_table: RAM belongs to the host, and the host's
\* nested page table is an identity map of large pages, of which subversion
\* has split some.
Init ==
  /\ owner = [p \in Pages |-> "subverted_host"]
  /\ asid = [p \in Pages |-> HostAsid]
  /\ \E S \in SUBSET Regions :
       /\ \A p \in Pages : Mega[p] \in S => Giga[p] \in S
       /\ linked = S
       /\ table = [r \in Regions |-> IF r \in S THEN Boot ELSE None]
  /\ pte = [p \in Pages |-> "full"]
  /\ nptm_lock = None /\ rmd_lock = None
  /\ stack = <<>>
  /\ pc = [t \in Threads |-> "idle"]
  /\ req = [t \in Threads |-> NoRequest]
  /\ result = [t \in Threads |-> FALSE]
  /\ alive = {} /\ nsv = {}
  /\ vmcb = [v \in VMs |-> None]
  /\ mapped = [v \in VMs |-> [g \in Gpas |-> None]]
  /\ exposed = {} /\ starved = {} /\ dirty = {}

\* What the host can do with page p.
HostAccess(p) == IF {Giga[p], Mega[p]} \subseteq linked THEN pte[p] ELSE "full"

\* Pages that an allocation may return.
Free == Pool \ ({table[r] : r \in Regions} \cup {vmcb[v] : v \in VMs})

-----------------------------------------------------------------------------
(* One reassignment.                                                       *)

Call(P, a, o) ==
  [pages |-> P, todo |-> P, cur |-> None, pte_missing |-> FALSE, result |-> FALSE,
   written |-> FALSE, asid |-> a, owner |-> o]

Working(t) == pc[t] = "work" /\ stack # <<>>
Top == stack[Len(stack)]
Callers == SubSeq(stack, 1, Len(stack) - 1)
SetTop(call) == Append(Callers, call)

\* The call handles another page once it is done with this one.
ItemDone(call) == [call EXCEPT !.todo = @ \ {call.cur}, !.cur = None, !.pte_missing = FALSE]

\* Tables that fall short of NoirVisor's protection when these calls end.
Unprotected(calls) ==
  {p \in UNION {calls[i].pages : i \in 1 .. Len(calls)} :
     owner[p] # "noirvisor" /\ \E r \in Regions : table[r] = p}

\* The innermost call returns TRUE: its caller goes on, with result = TRUE.
ReturnTrue(t) ==
  IF Len(stack) = 1
    THEN /\ stack' = <<>>
         /\ result' = [result EXCEPT ![t] = TRUE]
         /\ pc' = [pc EXCEPT ![t] = "unlock"]
    ELSE /\ stack' = [Callers EXCEPT ![Len(stack) - 1].result = TRUE]
         /\ UNCHANGED <<result, pc>>

\* It returns FALSE, and so does every caller.
ReturnFalse(t) ==
  /\ stack' = <<>>
  /\ result' = [result EXCEPT ![t] = FALSE]
  /\ pc' = [pc EXCEPT ![t] = "unlock"]

\* Stage I looks for the descriptors of both levels before it makes either.
LookUp(t) ==
  /\ Working(t) /\ Top.cur = None
  /\ \E p \in Top.todo :
       LET call == [Top EXCEPT !.cur = p, !.pte_missing = table[Mega[p]] = None]
       IN stack' = SetTop(IF table[Giga[p]] = None \/ call.pte_missing THEN call ELSE ItemDone(call))
  /\ UNCHANGED <<rmt, host_npt, locks, pc, req, result, guests, history>>

\* Mutant: the table is left with the host.
DescribeOnly(r, f, call) ==
  /\ table' = [table EXCEPT ![r] = f]
  /\ stack' = SetTop(call)

\* The new table of region r is reassigned to NoirVisor.
Describe(r, f, call) ==
  /\ table' = [table EXCEPT ![r] = f]
  /\ stack' = Append(SetTop(call), Call({f}, Nobody, "noirvisor"))

SplitPdpte(t) ==
  /\ Working(t) /\ Top.cur # None /\ table[Giga[Top.cur]] = None
  /\ \E f \in Free : Describe(Giga[Top.cur], f, IF Top.pte_missing THEN Top ELSE ItemDone(Top))
  /\ UNCHANGED <<rmt, linked, pte, locks, pc, req, result, guests, history>>

\* A call in between may have split the same region: nvc_npt_split_pde then
\* returns its descriptor, whose page is reassigned a second time.
SplitPde(t) ==
  /\ Working(t) /\ Top.cur # None /\ table[Giga[Top.cur]] # None /\ Top.pte_missing
  /\ LET r == Mega[Top.cur]
     IN \E f \in IF table[r] = None THEN Free ELSE {table[r]} : Describe(r, f, ItemDone(Top))
  /\ UNCHANGED <<rmt, linked, pte, locks, pc, req, result, guests, history>>

\* The return value is that of the last call in between, if there was one.
SplitFails(t) ==
  /\ Working(t) /\ Top.cur # None
  /\ table[Giga[Top.cur]] = None \/ table[Mega[Top.cur]] = None
  /\ IF Top.result
       THEN ReturnTrue(t) /\ exposed' = exposed \cup Unprotected(<<Top>>)
       ELSE ReturnFalse(t) /\ exposed' = exposed \cup Unprotected(stack)
  /\ starved' = starved \cup {t}
  /\ UNCHANGED <<rmt, host_npt, locks, req, guests, dirty>>

\* nvc_validate_single_rmt_reassignment, for a page of RAM.
Valid(p, o) == owner[p] # "noirvisor" /\ ~(owner[p] = "secure_guest" /\ o = "secure_guest")

\* Stage II, noir_svm_nsv_reassign_rmt: all the pages or none.
ReassignRmt(t) ==
  /\ Working(t) /\ Top.cur = None /\ Top.todo = {} /\ ~Top.written
  /\ \A p \in Top.pages : Valid(p, Top.owner)
  /\ owner' = [p \in Pages |-> IF p \in Top.pages THEN Top.owner ELSE owner[p]]
  /\ asid' = [p \in Pages |-> IF p \in Top.pages THEN Top.asid ELSE asid[p]]
  /\ stack' = SetTop([Top EXCEPT !.result = TRUE, !.written = TRUE])
  /\ UNCHANGED <<host_npt, locks, pc, req, result, guests, history>>

\* Mutant: the answer of the hypercall is not looked at.
RefuseSilently(t) ==
  /\ Working(t) /\ Top.cur = None /\ Top.todo = {} /\ ~Top.written
  /\ \E p \in Top.pages : ~Valid(p, Top.owner)
  /\ ReturnTrue(t)
  /\ UNCHANGED <<rmt, host_npt, locks, req, guests, history>>

Refuse(t) ==
  /\ Working(t) /\ Top.cur = None /\ Top.todo = {} /\ ~Top.written
  /\ \E p \in Top.pages : ~Valid(p, Top.owner)
  /\ ReturnFalse(t)
  /\ exposed' = exposed \cup Unprotected(Callers)
  /\ UNCHANGED <<rmt, host_npt, locks, req, guests, starved, dirty>>

\* Mutant: pages of guests are left without the right to write.
AccessOfReader(o) ==
  CASE o = "noirvisor" -> "read" [] o = "secure_guest" -> "none" [] OTHER -> "execute"

AccessOf(o) ==
  CASE o = "noirvisor" -> "read" [] o = "secure_guest" -> "none" [] OTHER -> "full"

\* Mutant: the tables of 4KiB pages are written and not linked.
RemapUnlinked(t) ==
  /\ Working(t) /\ Top.written
  /\ pte' = [p \in Pages |-> IF p \in Top.pages THEN AccessOf(owner[p]) ELSE pte[p]]
  /\ ReturnTrue(t)
  /\ UNCHANGED <<rmt, table, linked, locks, req, guests, history>>

\* Stage III, noir_svm_nsv_remap_by_rmt.
Remap(t) ==
  /\ Working(t) /\ Top.written
  /\ linked' = linked \cup UNION {{Giga[p], Mega[p]} : p \in Top.pages}
  /\ pte' = [p \in Pages |-> IF p \in Top.pages THEN AccessOf(owner[p]) ELSE pte[p]]
  /\ ReturnTrue(t)
  /\ UNCHANGED <<rmt, table, locks, req, guests, history>>

-----------------------------------------------------------------------------
(* A call of the driver for a reassignment, under both locks.              *)

Reassign(t, r) ==
  /\ pc' = [pc EXCEPT ![t] = "nptm"]
  /\ req' = [req EXCEPT ![t] = r]
  /\ starved' = starved \ {t}

LockNptm(t) ==
  /\ pc[t] = "nptm" /\ nptm_lock = None
  /\ nptm_lock' = t
  /\ pc' = [pc EXCEPT ![t] = "rmd"]
  /\ UNCHANGED <<rmt, host_npt, rmd_lock, stack, req, result, guests, history>>

\* nvc_npt_reassign_page_ownership; nvc_npt_reassign_cvm_all_pages_ownership
\* lists the pages of the CVM first.
OfWholeVm(r) == r.op \in {"deactivate", "release_all"}
\* Mutant: the list holds secure pages only.
ListedSecure(r) ==
  IF OfWholeVm(r) THEN {p \in Pages : asid[p] = r.vm /\ owner[p] = "secure_guest"} ELSE r.pages
Listed(r) == IF OfWholeVm(r) THEN {p \in Pages : asid[p] = r.vm} ELSE r.pages

LockRmd(t) ==
  /\ pc[t] = "rmd" /\ rmd_lock = None
  /\ rmd_lock' = t
  /\ LET P == Listed(req[t]) IN
       /\ req' = [req EXCEPT ![t].pages = P]
       /\ IF P = {}
            THEN ReturnFalse(t)
            ELSE /\ stack' = <<Call(P, req[t].asid, req[t].owner)>>
                 /\ pc' = [pc EXCEPT ![t] = "work"]
                 /\ UNCHANGED result
  /\ UNCHANGED <<rmt, host_npt, nptm_lock, guests, history>>

ListFails(t) ==
  /\ pc[t] = "rmd" /\ rmd_lock = None
  /\ OfWholeVm(req[t]) /\ Listed(req[t]) # {}
  /\ rmd_lock' = t
  /\ ReturnFalse(t)
  /\ dirty' = IF req[t].op = "release_all" THEN dirty \cup {req[t].vm} ELSE dirty
  /\ UNCHANGED <<rmt, host_npt, nptm_lock, req, guests, exposed, starved>>

Unlock(t) ==
  /\ pc[t] = "unlock"
  /\ nptm_lock' = None /\ rmd_lock' = None
  /\ pc' = [pc EXCEPT ![t] = "done"]
  /\ UNCHANGED <<rmt, host_npt, stack, req, result, guests, history>>

-----------------------------------------------------------------------------
(* Operations on CVMs that reassign pages.                                 *)

Using(t, v) == pc[t] # "idle" /\ req[t].vm = v
Alone(t, v) == \A u \in Threads \ {t} : ~Using(u, v)
Done(t, op) == pc[t] = "done" /\ req[t].op = op
Return(t) ==
  /\ pc' = [pc EXCEPT ![t] = "idle"]
  /\ req' = [req EXCEPT ![t] = NoRequest]
  /\ result' = [result EXCEPT ![t] = FALSE]
  /\ starved' = starved \ {t}

\* nvc_svmc_create_vcpu: a VMCB is insecure memory of no guest.
CreateVm(t, v) ==
  /\ pc[t] = "idle" /\ v \notin alive /\ Alone(t, v)
  /\ \E f \in Free :
       /\ vmcb' = [vmcb EXCEPT ![v] = f]
       /\ Reassign(t, Request("create", v, NoMap, {f}, Nobody, "insecure_guest"))
  /\ dirty' = dirty \ {v}
  /\ UNCHANGED <<rmt, host_npt, locks, stack, result, alive, nsv, mapped, exposed>>

CreateDone(t) ==
  /\ Done(t, "create") /\ result[t]
  /\ alive' = alive \cup {req[t].vm}
  /\ Return(t)
  /\ UNCHANGED <<rmt, host_npt, locks, stack, nsv, vmcb, mapped, exposed, dirty>>

\* The half-made vCPU is released before it knows its VM: nvc_svmc_release_vcpu
\* follows a null pointer, and the host stops.
CreateFails(t) ==
  /\ Done(t, "create") /\ ~result[t]
  /\ pc' = [u \in Threads |-> "crashed"]
  /\ UNCHANGED <<rmt, host_npt, locks, stack, req, result, guests, history>>

ReleaseVcpu(v) == Request("vmcb", v, NoMap, {vmcb[v]}, HostAsid, "subverted_host")

\* nvc_svmc_release_vm: the VMCB is handed back and freed, the nested page
\* table is freed, then all pages and the ASID are handed back.
ReleaseVm(t, v) ==
  /\ pc[t] = "idle" /\ v \in alive /\ Alone(t, v)
  /\ alive' = alive \ {v}
  /\ Reassign(t, ReleaseVcpu(v))
  /\ UNCHANGED <<rmt, host_npt, locks, stack, result, nsv, vmcb, mapped, exposed, dirty>>

VcpuReleased(t) ==
  /\ Done(t, "vmcb")
  /\ LET v == req[t].vm IN
       /\ vmcb' = [vmcb EXCEPT ![v] = None]
       /\ mapped' = [mapped EXCEPT ![v] = [g \in Gpas |-> None]]
       /\ Reassign(t, Request("release_all", v, NoMap, {}, HostAsid, "subverted_host"))
  /\ UNCHANGED <<rmt, host_npt, locks, stack, result, alive, nsv, exposed, dirty>>

VmReleased(t) ==
  /\ Done(t, "release_all")
  /\ nsv' = nsv \ {req[t].vm}
  /\ Return(t)
  /\ UNCHANGED <<rmt, host_npt, locks, stack, alive, vmcb, mapped, exposed, dirty>>

\* nvc_svmc_get_physical_mapping yields address 0 for a page that is absent.
Backing(v, G) == {IF mapped[v][g] = None THEN Zero ELSE mapped[v][g] : g \in G}

\* Mapping operations share the CVM; NSV services have it for themselves.
Mapping(t, v) ==
  /\ pc[t] = "idle" /\ v \in alive
  /\ \A u \in Threads : Using(u, v) => req[u].op \in {"map", "unmap"}

SetMapping(t, v) ==
  /\ Mapping(t, v)
  /\ \E G \in (SUBSET Gpas) \ {{}}, o \in {"insecure_guest", "secure_guest"} :
       \E m \in [G -> Data \ {Zero}] :
         Reassign(t, Request("map", v, m, {m[g] : g \in G}, v, o))
  /\ UNCHANGED <<rmt, host_npt, locks, stack, result, guests, exposed, dirty>>

Unmap(v, G) ==
  Request("unmap", v, [g \in G |-> Zero], Backing(v, G), HostAsid, "subverted_host")

SetUnmapping(t, v) ==
  /\ Mapping(t, v)
  /\ \E G \in (SUBSET Gpas) \ {{}} : Reassign(t, Unmap(v, G))
  /\ UNCHANGED <<rmt, host_npt, locks, stack, result, guests, exposed, dirty>>

Write(v, m, G) ==
  mapped' = [mapped EXCEPT ![v] = [g \in Gpas |-> IF g \in G THEN m[g] ELSE @[g]]]

\* Without the reassignment, and for large pages, nothing is mapped.
MapDone(t) ==
  /\ Done(t, "map")
  /\ \/ result[t] /\ Write(req[t].vm, req[t].map, DOMAIN req[t].map)
     \/ UNCHANGED mapped
  /\ Return(t)
  /\ UNCHANGED <<rmt, host_npt, locks, stack, alive, nsv, vmcb, exposed, dirty>>

\* nvc_svmc_set_page_map fails for one page, and the request is undone.
MapFails(t) ==
  /\ Done(t, "map") /\ result[t]
  /\ LET v == req[t].vm
         G == DOMAIN req[t].map
     IN \E n \in G :
          /\ Write(v, req[t].map, {g \in G : g < n})
          /\ Reassign(t, [Unmap(v, G) EXCEPT !.pages =
                {IF mapped'[v][g] = None THEN Zero ELSE mapped'[v][g] : g \in G}])
  /\ UNCHANGED <<rmt, host_npt, locks, stack, result, alive, nsv, vmcb, exposed, dirty>>

\* The loop unmaps the first page again and again.
UnmapDone(t) ==
  /\ Done(t, "unmap")
  /\ IF result[t]
       THEN Write(req[t].vm, [g \in Gpas |-> None],
                  {g \in DOMAIN req[t].map : \A h \in DOMAIN req[t].map : g <= h})
       ELSE UNCHANGED mapped
  /\ Return(t)
  /\ UNCHANGED <<rmt, host_npt, locks, stack, alive, nsv, vmcb, exposed, dirty>>

\* cv_scheduler_nsv_claim_security; the guest must have activated NSV.
Claim(t, v) ==
  /\ pc[t] = "idle" /\ v \in alive \cap nsv /\ Alone(t, v)
  /\ \E G \in (SUBSET Gpas) \ {{}}, o \in {"insecure_guest", "secure_guest"} :
       Reassign(t, Request("claim", v, NoMap, Backing(v, G), v, o))
  /\ UNCHANGED <<rmt, host_npt, locks, stack, result, guests, exposed, dirty>>

\* cv_scheduler_nsv_activate: the VMCB is made secure, or, after all pages of
\* the guest, insecure.  Without memory for the list neither happens.
ProtectVmcb(v, o) == Request("nsv", v, NoMap, {vmcb[v]}, Nobody, o)

NsvActivate(t, v) ==
  /\ pc[t] = "idle" /\ v \in alive /\ Alone(t, v)
  /\ nsv' = nsv \cup {v}
  /\ \/ Reassign(t, ProtectVmcb(v, "secure_guest"))
     \/ UNCHANGED <<pc, req, starved>>
  /\ UNCHANGED <<rmt, host_npt, locks, stack, result, alive, vmcb, mapped, exposed, dirty>>

NsvDeactivate(t, v) ==
  /\ pc[t] = "idle" /\ v \in alive /\ Alone(t, v)
  /\ nsv' = nsv \ {v}
  /\ \/ Reassign(t, Request("deactivate", v, NoMap, {}, v, "insecure_guest"))
     \/ UNCHANGED <<pc, req, starved>>
  /\ UNCHANGED <<rmt, host_npt, locks, stack, result, alive, vmcb, mapped, exposed, dirty>>

Deactivated(t) ==
  /\ Done(t, "deactivate")
  /\ Reassign(t, ProtectVmcb(req[t].vm, "insecure_guest"))
  /\ UNCHANGED <<rmt, host_npt, locks, stack, result, guests, exposed, dirty>>

NsvDone(t) ==
  /\ pc[t] = "done" /\ req[t].op \in {"claim", "nsv"}
  /\ Return(t)
  /\ UNCHANGED <<rmt, host_npt, locks, stack, guests, exposed, dirty>>

Start(t) ==
  \E v \in VMs :
    \/ CreateVm(t, v) \/ ReleaseVm(t, v) \/ SetMapping(t, v) \/ SetUnmapping(t, v)
    \/ Claim(t, v) \/ NsvActivate(t, v) \/ NsvDeactivate(t, v)

Finish(t) ==
  \/ CreateDone(t) \/ CreateFails(t) \/ VcpuReleased(t) \/ VmReleased(t)
  \/ MapDone(t) \/ MapFails(t) \/ UnmapDone(t) \/ Deactivated(t) \/ NsvDone(t)

Work(t) ==
  \/ LookUp(t) \/ SplitPdpte(t) \/ SplitPde(t) \/ SplitFails(t)
  \/ ReassignRmt(t) \/ Refuse(t) \/ Remap(t)

Next ==
  \E t \in Threads :
    Start(t) \/ LockNptm(t) \/ LockRmd(t) \/ ListFails(t) \/ Work(t) \/ Unlock(t) \/ Finish(t)

Spec == Init /\ [][Next]_vars

-----------------------------------------------------------------------------
(* Properties.                                                             *)

Calls == [pages : SUBSET Pages, todo : SUBSET Pages, cur : Pages \cup {None},
          written : BOOLEAN, pte_missing : BOOLEAN, result : BOOLEAN, asid : Asids, owner : Owners]

\* Every variable holds what the code's type allows, and only the thread that
\* holds both locks works on the RMT.
TypeOK ==
  /\ owner \in [Pages -> Owners] /\ asid \in [Pages -> Asids]
  /\ table \in [Regions -> Pool \cup {Boot, None}]
  /\ linked \subseteq Regions
  /\ pte \in [Pages -> {"full", "read", "none"}]
  /\ nptm_lock \in Threads \cup {None} /\ rmd_lock \in Threads \cup {None}
  /\ stack \in Seq(Calls)
  /\ pc \in [Threads -> {"idle", "nptm", "rmd", "work", "unlock", "done", "crashed"}]
  /\ result \in [Threads -> BOOLEAN]
  /\ alive \subseteq VMs /\ nsv \subseteq VMs
  /\ vmcb \in [VMs -> Pool \cup {None}]
  /\ mapped \in [VMs -> [Gpas -> Data \cup {None}]]
  /\ exposed \subseteq Pool /\ starved \subseteq Threads /\ dirty \subseteq VMs

\* Whenever no reassignment is under way, the host's nested page table allows
\* for each page exactly what the RMT says of its owner, whichever splits,
\* nested reassignments and failures led there (svm_npt.c, stages I to III).
HostViewFollowsRmt ==
  stack = <<>> => \A p \in Pages : HostAccess(p) = AccessOf(owner[p])

\* "PDEs should be assigned to NoirVisor", "PTEs should be assigned to NoirVisor":
\* a table that the processor uses belongs to NoirVisor and cannot be
\* written by the host, unless its own reassignment did not happen.
TablesProtected ==
  stack = <<>> =>
    \A r \in linked : table[r] \in Pool \ exposed =>
      owner[table[r]] = "noirvisor" /\ HostAccess(table[r]) = "read"

\* What the driver gives back to the host's allocator can be used by the host,
\* and no page keeps the ASID of a CVM that is gone, which the next CVM will
\* get: release runs while other CVMs are mapped and created.
ReleasedPagesReturned ==
  stack = <<>> =>
    /\ \A p \in Free : HostAccess(p) = "full" /\ owner[p] = "subverted_host"
    /\ \A v \in VMs \ (alive \cup dirty) :
         (\A t \in Threads : ~Using(t, v)) => \A p \in Pages : asid[p] # v

\* A reassignment that reports success to its caller has taken place, unless
\* an allocation failed on the way.
SuccessMeansReassigned ==
  \A t \in Threads : pc[t] = "unlock" /\ result[t] /\ t \notin starved =>
    \A p \in req[t].pages : owner[p] = req[t].owner /\ asid[p] = req[t].asid
============================================================================
