---------------------------- MODULE VtGuestPaging ----------------------------
(***************************************************************************)
(* The extended page tables of a CVM in the VT core.  They are built from  *)
(* the bottom: a page that no PTE table covers gets one, for which a PDE   *)
(* table is looked for and made, and for that the PDPTE table.             *)
(*                                                                         *)
(* An address is <<g, r, p>>, its offsets in the PDPTE, PDE and PTE table. *)
(* One PDPTE table covers the addresses considered.                        *)
(***************************************************************************)
EXTENDS Integers, Sequences

CONSTANTS
  Offsets,   \* offsets in a table
  Frames,    \* host pages
  Absent     \* an entry without access

Addresses == Offsets \X Offsets \X Offsets

\* An entry made with host page zero for the want of a table.
Stray == 0

ASSUME GuestPagingAssumption == Offsets \subseteq Nat /\ Absent \notin Frames \cup Nat

VARIABLES
  pdpte,     \* the PDPTE table: numbers of PDE tables; <<>> before it is made
  pde,       \* the list of PDE tables: numbers of PTE tables
  pte,       \* the list of PTE tables
  told,      \* history: the mapping that the last successful call asked for
  refused,   \* history: a table could not be allocated
  crossed    \* history: a gigabyte was first used off the diagonal

guest_paging == <<pdpte, pde, pte, told, refused, crossed>>

Empty == [o \in Offsets |-> Absent]

GuestPagingInit ==
  /\ pdpte = <<>> /\ pde = <<>> /\ pte = <<>>
  /\ told = [a \in Addresses |-> Absent]
  /\ refused = FALSE /\ crossed = FALSE

\* Mutant: the search compares the offsets of the PDE only.
CoveringSameOffset(a) == {i \in DOMAIN pte : pte[i].at[2] = a[2]}

CoveringPte(a) == {i \in DOMAIN pte : pte[i].at = <<a[1], a[2]>>}

CoveringPde(a) == {i \in DOMAIN pde : pde[i].at = a[1]}

\* nvc_vtc_create_1gb_page_map, for an address and no page.
NewPdpte(a) == [Empty EXCEPT ![a[1]] = Stray]

\* nvc_vtc_set_pdpte_entry in nvc_vtc_create_2mb_page_map: by the offset for PDEs.
Linked(table, a, i) == [table EXCEPT ![a[2]] = i]

\* nvc_vtc_create_2mb_page_map, for an address and no page.
NewPde(a) == [at |-> a[1], entry |-> [Empty EXCEPT ![a[3]] = Stray]]

\* nvc_vtc_set_page_map of a page; `made' is what there is memory for.  A table that
\* is not linked stays in its list.
SetPageMap(a, frame, made) ==
  LET new == Len(pte) + 1
      NewPte == [at |-> <<a[1], a[2]>>, entry |-> Empty]
      Set(tables, i) == [tables EXCEPT ![i].entry[a[3]] = frame]
      Done == told' = [told EXCEPT ![a] = frame] /\ UNCHANGED <<refused, crossed>>
      Refuse == refused' = TRUE /\ UNCHANGED <<told, crossed>>
  IN \/ \E i \in CoveringPte(a) : pte' = Set(pte, i) /\ Done /\ UNCHANGED <<pdpte, pde>>
     \/ CoveringPte(a) = {} /\ "pte" \notin made /\ Refuse /\ UNCHANGED <<pdpte, pde, pte>>
     \/ /\ CoveringPte(a) = {} /\ "pte" \in made
        /\ \/ \E i \in CoveringPde(a) :
                /\ pde' = [pde EXCEPT ![i].entry[a[2]] = new]
                /\ pte' = Set(Append(pte, NewPte), new)
                /\ Done /\ UNCHANGED pdpte
           \/ /\ CoveringPde(a) = {} /\ "pde" \notin made
              /\ pte' = Append(pte, NewPte)
              /\ Refuse /\ UNCHANGED <<pdpte, pde>>
           \/ /\ CoveringPde(a) = {} /\ "pde" \in made /\ pdpte = <<>> /\ "pdpte" \notin made
              /\ pte' = Append(pte, NewPte)
              /\ pde' = Append(pde, NewPde(a))
              /\ Refuse /\ UNCHANGED pdpte
           \/ /\ CoveringPde(a) = {} /\ "pde" \in made /\ (pdpte # <<>> \/ "pdpte" \in made)
              /\ pdpte' = Linked(IF pdpte = <<>> THEN NewPdpte(a) ELSE pdpte, a, Len(pde) + 1)
              /\ pde' = Append(pde, [NewPde(a) EXCEPT !.entry[a[2]] = new])
              /\ pte' = Set(Append(pte, NewPte), new)
              /\ told' = [told EXCEPT ![a] = frame]
              /\ crossed' = (crossed \/ a[1] # a[2] \/ a[2] # a[3])
              /\ UNCHANGED refused

\* A step of nvc_vtc_set_mapping, which stops at the first page that fails.  Absent
\* asks for a mapping that is not present.
SetMapping ==
  \E a \in Addresses, frame \in Frames \cup {Absent}, made \in {{}, {"pte"}, {"pte", "pde"}, {"pte", "pde", "pdpte"}} :
    SetPageMap(a, frame, made)

\* What the processor finds.  Page zero of the host is read as a table of the stray
\* entries.
Walk(a) ==
  IF pdpte = <<>> THEN Absent
  ELSE LET d == pdpte[a[1]] IN
    IF d \in {Absent, Stray} THEN d
    ELSE LET t == pde[d].entry[a[2]] IN
      IF t \in {Absent, Stray} THEN t ELSE pte[t].entry[a[3]]

\* The guest finds the pages that the user hypervisor has mapped, where it has mapped
\* them, and none that it has not: provided that there was memory for every table
\* (what is left in the lists is taken for linked tables later), and that the first
\* page mapped in each gigabyte has equal offsets in the three tables (the PDE table
\* is linked, and its first entry made, with an offset of the wrong level).
MappedAsTold == ~ refused /\ ~ crossed => \A a \in Addresses : Walk(a) = told[a]
=============================================================================
