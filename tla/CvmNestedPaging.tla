-------------------------- MODULE CvmNestedPaging --------------------------
(* The nested page tables of one CVM in the SVM core.  A guest page is       *)
(* described by an entry of a page table; the page table of a 2MiB region is *)
(* pointed to by a PDE, the page directory of a 1GiB region by a PDPTE and   *)
(* the table of a 512GiB region by a PML4E.  Besides the tables, which the   *)
(* processor walks, the driver keeps a list of descriptors per level, which  *)
(* it searches by region.  Tables are created from the bottom up, when a     *)
(* page is first mapped or unmapped, and each allocation may fail.           *)
(* One step is one write to a table that a running guest could see.          *)
EXTENDS Integers

CONSTANTS PageCount,    \* guest physical pages, 0 .. PageCount - 1
          Regions,      \* names of regions, at every level
          Base,         \* Base[l][p]: the region of level l that page p is in
          Backings,     \* host memory a request maps its pages to
          Absent,       \* an entry that is not present
          MaxMap,       \* bound: pages of one mapping request
          MaxUnmap,     \* bound: pages of one unmapping request
          AllocFails,   \* allocations may fail
          NoRegion

Pages == 0 .. PageCount - 1
Levels == 1 .. 3

ASSUME PagesAssumption == PageCount \in Nat \ {0}
ASSUME BoundAssumption == MaxMap \in Nat \ {0} /\ MaxUnmap \in Nat \ {0}
ASSUME BaseAssumption == Base \in [Levels -> [Pages -> Regions]]
\* A region lies in one region of the next level.
ASSUME NestingAssumption ==
  \A l \in 1 .. 2 : \A p, q \in Pages : Base[l][p] = Base[l][q] => Base[l + 1][p] = Base[l + 1][q]
ASSUME AbsentAssumption == Absent \notin Backings
ASSUME AllocAssumption == AllocFails \in BOOLEAN
ASSUME RegionAssumption == NoRegion \notin Regions

VARIABLES listed,   \* listed[l]: regions whose table has a descriptor
          pde_head, \* the region of the first descriptor of a page directory
          link,     \* link[l][r]: the entry that points to r's table of level l
          pte,      \* pte[p]: the entry of page p in its page table
          marked,   \* pages whose entry has its accessed or dirty bit set
          pc,       \* where the operation is
          level,    \* the level of the table being created or linked
          op,       \* the operation: kind, first page, pages, page at work, backing
          locked,   \* the vCPUs are locked: no guest runs
          failed    \* an allocation has failed

vars == <<listed, pde_head, link, pte, marked, pc, level, op, locked, failed>>

\* An entry is absent, points to a table, or is present and points to host
\* frame 0 (zero): the latter is what the null mapping writes to a PDE or PDPTE.
Links == {"absent", "zero", "table"}
Writers == {"map", "unmap", "undo"}
Kinds == Writers \cup {"none", "query", "clear"}
Pcs == {"idle", "find", "create", "link", "write", "free", "query", "clear"}
NoOp == [kind |-> "none", first |-> 0, pages |-> 1, i |-> 0, backing |-> Absent]

Init ==
  /\ listed = [l \in Levels |-> {}]
  /\ pde_head = NoRegion
  /\ link = [l \in Levels |-> [r \in Regions |-> "absent"]]
  /\ pte = [p \in Pages |-> Absent]
  /\ marked = {}
  /\ pc = "idle"
  /\ level = 1
  /\ op = NoOp
  /\ locked = FALSE
  /\ failed = FALSE

-----------------------------------------------------------------------------
(* Walks and searches.                                                     *)

\* The processor's walk reaches the entry of page p, or is led to frame 0.
Reached(p) == \A l \in Levels : link[l][Base[l][p]] = "table"
Visible(p) == IF Reached(p) THEN pte[p] ELSE Absent
Astray(p) == \E l \in Levels : /\ link[l][Base[l][p]] = "zero"
                               /\ \A k \in Levels : k > l => link[k][Base[k][p]] = "table"

\* The driver's searches by region: the PDPTE of page p, and the entry itself.
SearchFinds512(p) == /\ link[3][Base[3][p]] # "absent"
                     /\ Base[3][p] \in listed[3]
                     /\ link[2][Base[2][p]] # "absent"
SearchFinds2(p) == /\ link[1][Base[1][p]] # "absent"
                   /\ Base[1][p] \in listed[1]
                   /\ pte[p] # Absent
SearchFindsUnlinked(p) == \* mutant: the presence of the PDPTE is not checked
  /\ link[3][Base[3][p]] # "absent" /\ Base[3][p] \in listed[3]
  /\ Base[2][p] \in listed[2] /\ SearchFinds2(p)
SearchFinds(p) == SearchFinds512(p) /\ Base[2][p] \in listed[2] /\ SearchFinds2(p)

-----------------------------------------------------------------------------
(* set_page_map, for one page after the other.                             *)

\* set_unmapping passes the first address of the range in every iteration.
Target == IF op.kind \in {"unmap", "undo"} THEN op.first ELSE op.first + op.i
DescribedBroadly(l) == \* mutant: every level is searched with 512GiB regions
  \E p \in Pages : Base[3][p] = Base[3][Target] /\ Base[l][p] \in listed[l]
Described(l) == Base[l][Target] \in listed[l]

Find ==
  /\ pc = "find"
  /\ pc' = IF Described(1) THEN "write" ELSE "create"
  /\ level' = 1
  /\ UNCHANGED <<listed, pde_head, link, pte, marked, op, locked, failed>>

\* The entries a new table of level l brings: the null mapping makes the entry
\* of the next lower level present, and the table of a PML4E is linked at once.
LinksOfNew(l) ==
  [k \in Levels |-> [r \in Regions |->
     CASE r = Base[k][Target] /\ k = l - 1 -> "zero"
       [] r = Base[k][Target] /\ k = 3 /\ l = 3 -> "table"
       [] OTHER -> link[k][r]]]

\* The table is listed before the next upper one is searched for or created.
Create ==
  /\ pc = "create"
  /\ listed' = [listed EXCEPT ![level] = @ \cup {Base[level][Target]}]
  /\ pde_head' = IF level = 2 /\ listed[2] = {} THEN Base[2][Target] ELSE pde_head
  /\ link' = LinksOfNew(level)
  /\ IF level = 3
       THEN pc' = "link" /\ level' = 2
       ELSE IF Described(level + 1)
         THEN pc' = "link" /\ UNCHANGED level
         ELSE pc' = "create" /\ level' = level + 1
  /\ UNCHANGED <<pte, marked, op, locked, failed>>

\* Tables of lower levels stay listed, but no entry will ever point to them.
CreateFails ==
  /\ pc = "create" /\ AllocFails
  /\ failed' = TRUE
  /\ pc' = "free"
  /\ op' = IF op.kind = "map" THEN [op EXCEPT !.kind = "undo", !.i = 0] ELSE op
  /\ UNCHANGED <<listed, pde_head, link, pte, marked, level, locked>>

LinkOneLevel == \* mutant: only the new table's own entry is set
  /\ pc = "link"
  /\ link' = [link EXCEPT ![level][Base[level][Target]] = "table"]
  /\ pc' = "write"
  /\ UNCHANGED <<listed, pde_head, pte, marked, level, op, locked, failed>>
Link ==
  /\ pc = "link"
  /\ link' = [link EXCEPT ![level][Base[level][Target]] = "table"]
  /\ IF level = 1 THEN pc' = "write" /\ UNCHANGED level ELSE level' = level - 1 /\ UNCHANGED pc
  /\ UNCHANGED <<listed, pde_head, pte, marked, op, locked, failed>>

RangeDone == op.i + 1 = op.pages
NextPage(where, end) ==
  IF RangeDone THEN pc' = end /\ UNCHANGED op
               ELSE pc' = where /\ op' = [op EXCEPT !.i = @ + 1]

\* The entry is overwritten, its accessed and dirty bits included.
Write ==
  /\ pc = "write"
  /\ pte' = [pte EXCEPT ![Target] = IF op.kind = "undo" THEN Absent ELSE op.backing]
  /\ marked' = marked \ {Target}
  /\ NextPage("find", "free")
  /\ UNCHANGED <<listed, pde_head, link, level, locked, failed>>

-----------------------------------------------------------------------------
(* The operations.  Calls refused before they touch the tables (a page size  *)
(* other than 4KiB, a failed allocation of a list) change nothing.           *)

Start(kind, max, backings, where) ==
  /\ pc = "idle"
  /\ \E first \in Pages, n \in 1 .. max, h \in backings :
       /\ first + n <= PageCount
       /\ op' = [kind |-> kind, first |-> first, pages |-> n, i |-> 0, backing |-> h]
  /\ pc' = where

\* set_mapping locks the vCPUs, set_unmapping and the others do not.
SetMapping ==
  /\ Start("map", MaxMap, Backings, "find")
  /\ locked' = TRUE
  /\ UNCHANGED <<listed, pde_head, link, pte, marked, level, failed>>

SetUnmapping ==
  /\ Start("unmap", MaxUnmap, {Absent}, "find")
  /\ UNCHANGED <<listed, pde_head, link, pte, marked, level, locked, failed>>

QueryAccessingBitmap ==
  /\ Start("query", MaxMap, {Absent}, "query")
  /\ UNCHANGED <<listed, pde_head, link, pte, marked, level, locked, failed>>

ClearAccessingBits ==
  /\ Start("clear", MaxMap, {Absent}, "clear")
  /\ UNCHANGED <<listed, pde_head, link, pte, marked, level, locked, failed>>

\* A mapping that failed is unmapped once the vCPUs are unlocked.
Undo ==
  /\ pc = "free" /\ op.kind = "undo" /\ locked
  /\ locked' = FALSE
  /\ \/ pc' = "find"
     \/ AllocFails /\ UNCHANGED pc
  /\ UNCHANGED <<listed, pde_head, link, pte, marked, level, op, failed>>

Return ==
  /\ pc = "free" /\ ~(op.kind = "undo" /\ locked)
  /\ pc' = "idle"
  /\ op' = NoOp
  /\ locked' = FALSE
  /\ UNCHANGED <<listed, pde_head, link, pte, marked, level, failed>>

\* The clearing loop stops at the first page that is absent.
ClearPage ==
  /\ pc = "clear"
  /\ IF SearchFinds(Target)
       THEN marked' = marked \ {Target} /\ NextPage("clear", "free")
       ELSE pc' = "free" /\ UNCHANGED <<marked, op>>
  /\ UNCHANGED <<listed, pde_head, link, pte, level, locked, failed>>

\* The query looks for a page directory in a loop that never advances: it
\* returns for a present page of the first one listed, and for a page without a
\* PDPTE.
QueryAbsent ==
  /\ pc = "query" /\ ~SearchFinds512(Target)
  /\ pc' = "free"
  /\ UNCHANGED <<listed, pde_head, link, pte, marked, level, op, locked, failed>>

QueryPage ==
  /\ pc = "query" /\ SearchFinds512(Target)
  /\ pde_head = Base[2][Target] /\ SearchFinds2(Target)
  /\ NextPage("query", "free")
  /\ UNCHANGED <<listed, pde_head, link, pte, marked, level, locked, failed>>

QuerySpin ==
  /\ pc = "query" /\ SearchFinds512(Target)
  /\ ~(pde_head = Base[2][Target] /\ SearchFinds2(Target))
  /\ UNCHANGED vars

\* A guest that runs accesses a page that is present.
GuestAccess ==
  /\ ~locked
  /\ \E p \in Pages : Visible(p) # Absent /\ marked' = marked \cup {p}
  /\ UNCHANGED <<listed, pde_head, link, pte, pc, level, op, locked, failed>>

Next ==
  \/ Find \/ Create \/ CreateFails \/ Link \/ Write
  \/ SetMapping \/ SetUnmapping \/ QueryAccessingBitmap \/ ClearAccessingBits
  \/ Undo \/ Return \/ ClearPage \/ QueryAbsent \/ QueryPage \/ QuerySpin
  \/ GuestAccess

Spec == Init /\ [][Next]_vars
-----------------------------------------------------------------------------
(* Properties.                                                             *)

\* Types; an operation that is under way has a page at work in its range.
TypeOK ==
  /\ listed \in [Levels -> SUBSET Regions]
  /\ pde_head \in Regions \cup {NoRegion}
  /\ link \in [Levels -> [Regions -> Links]]
  /\ pte \in [Pages -> Backings \cup {Absent}]
  /\ marked \subseteq Pages
  /\ pc \in Pcs
  /\ level \in Levels
  /\ op \in [kind : Kinds, first : Pages, pages : 1 .. PageCount, i : Nat,
             backing : Backings \cup {Absent}]
  /\ op.i < op.pages /\ op.first + op.pages <= PageCount
  /\ locked \in BOOLEAN /\ failed \in BOOLEAN

\* Outside of the creation of tables, no walk is led to host frame 0, whatever
\* allocations failed before: entries that the null mapping made present are
\* either overwritten or in tables that nothing points to (set_page_map).
WalksInTables == pc \notin {"create", "link"} => \A p \in Pages : ~Astray(p)

\* The driver's search for accessing bits finds the entries that the processor
\* uses, and no others (clear_gpa_accessing_bit, query_gpa_accessing_bit).
SearchesMatchWalks ==
  pc \notin {"create", "link"} => \A p \in Pages : SearchFinds(p) <=> Visible(p) # Absent

\* When a mapping call returns a failure, none of its pages is mapped:
\* "Failure of mapping will result in unmapping." (nvc_svmc_set_mapping)
FailedMappingUnmapped ==
  pc = "free" /\ op.kind = "undo" /\ ~locked =>
    \A k \in 0 .. op.pages - 1 : Visible(op.first + k) = Absent

\* What the guest sees is what the requests ask for: no page appears, changes
\* or loses its marks because of another page's request, and until an
\* allocation fails every request is carried out in full (nvc_set_mapping,
\* nvc_clear_gpa_accessing_bits).
RequestPages == IF op.kind \in Writers THEN op.first .. op.first + op.pages - 1 ELSE {}
PageMap == INSTANCE CvmPageMap WITH
  map <- [p \in Pages |-> Visible(p)],
  request <- [p \in RequestPages |-> op.backing],
  degraded <- failed
PageMapImplemented == PageMap!Spec
==============================================================================
