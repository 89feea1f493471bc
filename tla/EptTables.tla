------------------------------ MODULE EptTables ------------------------------
(***************************************************************************)
(* The extended page tables that a processor under Intel VT-x gives to the *)
(* subverted host: an identity map whose memory types follow the MTRRs,    *)
(* with pages that are hooked, write-protected or trapped for MMIO.        *)
(*                                                                         *)
(* One gigabyte is modelled.  It is one huge entry until something smaller *)
(* is asked for; then page directories and page tables are described, and  *)
(* never merged again.  Allocations are taken to succeed: in an exit       *)
(* handler a failure is a null pointer, when subverting it ends the build. *)
(***************************************************************************)
EXTENDS Naturals, FiniteSets, Sequences, FiniteSetsExt

CONSTANTS
  Regions,    \* regions of 2MB in the gigabyte
  Size,       \* pages in a region
  Hooked,     \* pages with a stealth inline hook
  Ci,         \* pages under code integrity
  Mmio,       \* pages with an MMIO hook
  Essential,  \* a page with a structure of the hypervisor
  Blank,      \* the blank page
  OwnRegion   \* the region with the page-directory-pointer tables

Pages == 0 .. Regions * Size - 1
RegionSet == 0 .. Regions - 1
RegionOf(p) == p \div Size
PagesOf(r) == {p \in Pages : RegionOf(p) = r}
HookOf(p) == Regions * Size + p  \* the page with the hooked code

\* Hooks are made in the system; the pages under code integrity and the blank page are the
\* hypervisor's.
ASSUME EptAssumption ==
  /\ Regions \in Nat \ {0} /\ Size \in Nat \ {0}
  /\ Hooked \subseteq Pages /\ Hooked # {} /\ Ci \subseteq Pages /\ Mmio \subseteq Pages
  /\ Essential \in Pages /\ Blank \in Pages /\ OwnRegion \in RegionSet
  /\ Hooked \cap Ci = {} /\ Blank \notin Hooked

\* The codes of the memory types, in the order of their precedence.
UC == 0
WT == 4
WB == 6
Types == {UC, WT, WB}

Full == {"r", "w", "x"}

\* An entry: memory type, permissions, host page, and whether a variable MTRR has
\* covered it during this update.
Entry(type, covered, perms, to) == [type |-> type, covered |-> covered, perms |-> perms, to |-> to]

\* The tables: one huge entry, or page-directory entries, of which those of `large'
\* map, and the others lead to entries for pages.  `def' is IA32_MTRR_DEF_TYPE as it
\* was when the tables were built.
HugeMap(def) ==
  [def |-> def, huge |-> TRUE,
   gib |-> Entry(IF def.enabled THEN def.type ELSE UC, FALSE, Full, 0),
   pd |-> <<>>, large |-> RegionSet, pt |-> <<>>]

\* nvc_ept_split_pdpte and nvc_ept_split_pde: described before, they are linked again.
SplitPdpte(e) ==
  [e EXCEPT !.huge = FALSE,
            !.pd = IF RegionSet \subseteq DOMAIN @ THEN @
                   ELSE [r \in RegionSet |-> Entry(e.gib.type, e.gib.covered, Full, r * Size)]]

\* The second for each region of R.
SplitPdes(e, R) ==
  LET s == IF R = {} THEN e ELSE SplitPdpte(e)
  IN [s EXCEPT !.large = @ \ R,
               !.pt = [p \in DOMAIN @ \cup {q \in Pages : RegionOf(q) \in R} |->
                         IF p \in DOMAIN @ THEN @[p]
                         ELSE Entry(s.pd[RegionOf(p)].type, s.pd[RegionOf(p)].covered, Full, p)]]

SplitPde(e, r) == SplitPdes(e, {r})

\* What a page of the guest is translated to.
Translate(e, p) ==
  LET r == RegionOf(p)
  IN IF e.huge THEN [type |-> e.gib.type, perms |-> Full, to |-> p]
     ELSE IF r \in e.large
       THEN [type |-> e.pd[r].type, perms |-> e.pd[r].perms, to |-> p]
       ELSE [type |-> e.pt[p].type, perms |-> e.pt[p].perms \cap e.pd[r].perms, to |-> e.pt[p].to]

-----------------------------------------------------------------------------
(* Memory types.                                                           *)

\* The first MTRR to cover an entry decides, the others lower it.
Merge(entry, t) ==
  [entry EXCEPT !.type = IF entry.covered /\ @ < t THEN @ ELSE t, !.covered = TRUE]

MergePages(e, S, t) ==
  [e EXCEPT !.pt = [p \in DOMAIN @ |-> IF p \in S THEN Merge(@[p], t) ELSE @[p]]]

UpdatePteType(e, p, t) == MergePages(SplitPde(e, RegionOf(p)), {p}, t)

\* A region that is split gets the type, and the caller FALSE.
UpdatePdeType(e, r, t) ==
  LET s == SplitPdpte(e)
  IN IF r \in s.large THEN [s EXCEPT !.pd[r] = Merge(@, t)]
     ELSE MergePages(s, PagesOf(r), t)

\* So the loop over the regions ends after the first split one.
Reached(e) == {r \in RegionSet : \A q \in RegionSet : q < r => q \in e.large}

UpdatePdpteType(e, t) ==
  IF e.huge THEN [e EXCEPT !.gib = Merge(@, t)]
  ELSE MergePages([e EXCEPT !.pd = [r \in DOMAIN @ |->
                                      IF r \in Reached(e) \cap e.large THEN Merge(@[r], t) ELSE @[r]]],
                  UNION {PagesOf(r) : r \in Reached(e) \ e.large}, t)

\* A variable MTRR: not valid, or a type for a page, a region or the gigabyte.
Off == [type |-> WB, unit |-> "off", at |-> 0]
Covers(m, p) ==
  CASE m.unit = "off" -> FALSE
    [] m.unit = "page" -> p = m.at
    [] m.unit = "region" -> RegionOf(p) = m.at
    [] m.unit = "gigabyte" -> TRUE

UpdatePerVarMtrr(e, m) ==
  IF m.type = e.def.type THEN e
  ELSE CASE m.unit = "off" -> e
         [] m.unit = "page" -> UpdatePteType(e, m.at, m.type)
         [] m.unit = "region" -> UpdatePdeType(e, m.at, m.type)
         [] m.unit = "gigabyte" -> UpdatePdpteType(e, m.type)

\* The fixed-range MTRRs cover the start of the first region.
FixedPages == {0}

UpdateFixed(e, t) ==
  LET s == SplitPde(e, 0)
  IN [s EXCEPT !.pt = [p \in DOMAIN @ |-> IF p \in FixedPages THEN [@[p] EXCEPT !.type = t] ELSE @[p]]]

Uncover(e) ==
  [e EXCEPT !.gib.covered = FALSE,
            !.pd = [r \in DOMAIN @ |-> [@[r] EXCEPT !.covered = FALSE]],
            !.pt = [p \in DOMAIN @ |-> [@[p] EXCEPT !.covered = FALSE]]]

\* The loop over the variable MTRRs.
UpdateByVarMtrrs(e, var) ==
  LET after[i \in 0 .. Len(var)] == IF i = 0 THEN e ELSE UpdatePerVarMtrr(after[i - 1], var[i])
  IN after[Len(var)]

\* Mutant: the entries stay marked as covered by a variable MTRR.
StayCovered(e, m) ==
  LET v == IF e.def.enabled THEN UpdateByVarMtrrs(e, m.var) ELSE e
  IN IF e.def.enabled /\ e.def.fixed THEN UpdateFixed(v, m.fixed) ELSE v

\* nvc_ept_update_by_mtrr.
UpdateByMtrr(e, m) ==
  LET v == IF e.def.enabled THEN UpdateByVarMtrrs(e, m.var) ELSE e
  IN Uncover(IF e.def.enabled /\ e.def.fixed THEN UpdateFixed(v, m.fixed) ELSE v)

-----------------------------------------------------------------------------
(* Mappings.                                                               *)

\* nvc_ept_update_pte, of each page of S: its host page is to[p].
UpdatePtes(e, S, to, perms) ==
  [SplitPdes(e, {RegionOf(p) : p \in S}) EXCEPT
     !.pt = [p \in DOMAIN @ |-> IF p \in S THEN [@[p] EXCEPT !.perms = perms, !.to = to[p]] ELSE @[p]]]

Identity == [p \in Pages |-> p]

\* ignore_mt is tested the wrong way round: the type becomes 0.
UpdatePdeLarge(e, r, perms) ==
  [SplitPdpte(e) EXCEPT !.pd[r] = Entry(UC, @.covered, perms, r * Size), !.large = @ \cup {r}]

InsertHooks(e) == UpdatePtes(e, Hooked, [p \in Hooked |-> HookOf(p)], {"x"})
InitializeCi(e) == UpdatePtes(e, Ci, Identity, {"r", "x"})
InstallMmioHooks(e) == UpdatePtes(e, Mmio, Identity, {})

\* nvc_ept_protect_hypervisor hands over the structure as the host page and the blank
\* page as the guest's: it is the blank page that is redirected.
ProtectHypervisor(e) ==
  UpdatePdeLarge(UpdatePtes(e, {Blank}, [p \in {Blank} |-> Essential], Full), OwnRegion, {"r"})

BuildTables(def, m) ==
  InstallMmioHooks(ProtectHypervisor(InitializeCi(InsertHooks(UpdateByMtrr(HugeMap(def), m)))))
=============================================================================
