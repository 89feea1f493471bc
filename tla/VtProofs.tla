---------------------------- MODULE VtProofs ----------------------------
(***************************************************************************)
(* Proofs about the two modules of Intel VT-x, for any values of their     *)
(* constants.                                                              *)
(*                                                                         *)
(* VtCvm: type correctness and the guest's mappings for every use, and,    *)
(* when a vCPU runs where it was created (Pinned), that no register is     *)
(* lost and no interrupt taken too early.                                  *)
(*                                                                         *)
(* VtExits: its type, the nested VMX instructions, that hooks stay hidden, *)
(* and that the types of the host's tables and its modes are as configured.*)
(* The loop over the MTRRs is a recursive function: what it computes is    *)
(* proved by induction, for a set of natural numbers (SetInduction).       *)
(***************************************************************************)
EXTENDS VtCvm, VtExits, WellFoundedInduction, TLAPS

-----------------------------------------------------------------------------
(* The extended page tables.                                               *)

PteTables == [at : Offsets \X Offsets, entry : [Offsets -> Frames \cup {Absent}]]
PdeTables == [at : Offsets, entry : [Offsets -> Nat \cup {Absent}]]

TablesOK ==
  /\ pte \in Seq(PteTables) /\ pde \in Seq(PdeTables)
  /\ pdpte = <<>> \/ pdpte \in [Offsets -> Nat \cup {Absent}]
  /\ told \in [Addresses -> Frames \cup {Absent}]
  /\ refused \in BOOLEAN /\ crossed \in BOOLEAN

\* No two PDE tables cover the same gigabyte, and no two PTE tables the same two
\* megabytes.
CoveredOnce ==
  /\ \A i \in DOMAIN pte : \A j \in DOMAIN pte : pte[i].at = pte[j].at => i = j
  /\ \A i \in DOMAIN pde : \A j \in DOMAIN pde : pde[i].at = pde[j].at => i = j

\* A PDE table is linked in the PDPTE table, where it should be, and nothing else is.
GigabytesLinked ==
  /\ pdpte = <<>> => pde = <<>>
  /\ pdpte # <<>> =>
       \A g \in Offsets :
         \/ pdpte[g] \in DOMAIN pde /\ pde[pdpte[g]].at = g
         \/ pdpte[g] = Absent /\ \A i \in DOMAIN pde : pde[i].at # g

\* A PTE table is linked in the PDE table of its gigabyte, and nothing else is.
MegabytesLinked ==
  /\ \A i \in DOMAIN pde : \A m \in Offsets :
       \/ pde[i].entry[m] \in DOMAIN pte /\ pte[pde[i].entry[m]].at = <<pde[i].at, m>>
       \/ pde[i].entry[m] = Absent /\ \A j \in DOMAIN pte : pte[j].at # <<pde[i].at, m>>
  /\ \A j \in DOMAIN pte : \E i \in DOMAIN pde : pde[i].at = pte[j].at[1]

\* The PTE tables have what was asked for, and nothing was asked for elsewhere.
Remembered ==
  /\ \A j \in DOMAIN pte : \A a \in Addresses :
       pte[j].at = <<a[1], a[2]>> => told[a] = pte[j].entry[a[3]]
  /\ \A a \in Addresses : CoveringPte(a) = {} => told[a] = Absent

TablesInv ==
  /\ TablesOK
  /\ ~ refused /\ ~ crossed => CoveredOnce /\ GigabytesLinked /\ MegabytesLinked /\ Remembered

\* An entry of a table of a list.
With(s, i, o, x) == [s EXCEPT ![i].entry[o] = x]

LEMMA PteSet ==
  ASSUME NEW s \in Seq(PteTables), NEW i \in DOMAIN s, NEW o \in Offsets,
         NEW f \in Frames \cup {Absent}, NEW r, r = With(s, i, o, f)
  PROVE  /\ r \in Seq(PteTables) /\ DOMAIN r = DOMAIN s
         /\ \A j \in DOMAIN s : r[j].at = s[j].at
         /\ \A j \in DOMAIN s : \A x \in Offsets :
              r[j].entry[x] = IF j = i /\ x = o THEN f ELSE s[j].entry[x]
<1>0. s[i] \in PteTables OBVIOUS
<1>1. [s[i].entry EXCEPT ![o] = f] \in [Offsets -> Frames \cup {Absent}] /\ s[i].at \in Offsets \X Offsets
  BY <1>0 DEF PteTables
<1>2. [s[i] EXCEPT !.entry[o] = f] \in PteTables
  BY <1>0, <1>1 DEF PteTables
<1>3. r = [s EXCEPT ![i] = [s[i] EXCEPT !.entry[o] = f]]
  BY DEF With
<1>4. r \in Seq(PteTables) /\ DOMAIN r = DOMAIN s /\ r[i] = [s[i] EXCEPT !.entry[o] = f]
      /\ \A j \in DOMAIN s : j # i => r[j] = s[j]
  BY <1>2, <1>3
<1>5. r[i].at = s[i].at /\ \A x \in Offsets : r[i].entry[x] = IF x = o THEN f ELSE s[i].entry[x]
  BY <1>0, <1>4 DEF PteTables
<1> QED BY <1>4, <1>5

\* r is s with an entry for a PTE table.
LinkedIn(r, s, i, o, n) ==
  /\ r \in Seq(PdeTables) /\ DOMAIN r = DOMAIN s
  /\ \A j \in DOMAIN s : r[j].at = s[j].at
  /\ \A j \in DOMAIN s : \A x \in Offsets :
       r[j].entry[x] = IF j = i /\ x = o THEN n ELSE s[j].entry[x]

LEMMA PdeSet ==
  ASSUME NEW s \in Seq(PdeTables), NEW i \in DOMAIN s, NEW o \in Offsets, NEW n \in Nat
  PROVE  LinkedIn(With(s, i, o, n), s, i, o, n)
<1> DEFINE r == With(s, i, o, n)
<1>1. s[i] \in PdeTables OBVIOUS
<1>2. [s[i].entry EXCEPT ![o] = n] \in [Offsets -> Nat \cup {Absent}] /\ s[i].at \in Offsets
  BY <1>1 DEF PdeTables
<1>3. [s[i] EXCEPT !.entry[o] = n] \in PdeTables
  BY <1>1, <1>2 DEF PdeTables
<1>4. r = [s EXCEPT ![i] = [s[i] EXCEPT !.entry[o] = n]]
  BY DEF With
<1> HIDE DEF r
<1>5. r \in Seq(PdeTables) /\ DOMAIN r = DOMAIN s /\ r[i] = [s[i] EXCEPT !.entry[o] = n]
      /\ \A j \in DOMAIN s : j # i => r[j] = s[j]
  BY <1>3, <1>4
<1>6. r[i].at = s[i].at /\ \A x \in Offsets : r[i].entry[x] = IF x = o THEN n ELSE s[i].entry[x]
  BY <1>1, <1>5 DEF PdeTables
<1>7. LinkedIn(r, s, i, o, n) BY <1>5, <1>6 DEF LinkedIn
<1> QED BY <1>7 DEF r

\* A table is added to a list.
LEMMA TableAdded ==
  ASSUME NEW S, NEW s \in Seq(S), NEW t \in S
  PROVE  /\ Append(s, t) \in Seq(S) /\ DOMAIN s \subseteq Nat \ {0}
         /\ Len(s) + 1 \notin DOMAIN s /\ Len(s) + 1 \in Nat \ {0}
         /\ DOMAIN Append(s, t) = DOMAIN s \cup {Len(s) + 1}
         /\ Append(s, t)[Len(s) + 1] = t
         /\ \A j \in DOMAIN s : Append(s, t)[j] = s[j]
OBVIOUS

\* r is the list of PTE tables with a new one, which has one page.
PageAdded(r, n, a, f) ==
  /\ r \in Seq(PteTables) /\ DOMAIN r = DOMAIN pte \cup {n} /\ n \notin DOMAIN pte
  /\ n \in Nat \ {0}
  /\ \A j \in DOMAIN pte : r[j].at = pte[j].at
  /\ r[n].at = <<a[1], a[2]>>
  /\ \A j \in DOMAIN pte : \A x \in Offsets : r[j].entry[x] = pte[j].entry[x]
  /\ \A x \in Offsets : r[n].entry[x] = IF x = a[3] THEN f ELSE Absent

LEMMA PteAdded ==
  ASSUME TablesOK, NEW a \in Addresses, NEW f \in Frames \cup {Absent}, NEW n, n = Len(pte) + 1,
         NEW t \in PteTables, t.at = <<a[1], a[2]>>, t.entry = Empty
  PROVE  PageAdded(With(Append(pte, t), n, a[3], f), n, a, f)
<1> DEFINE s == Append(pte, t)
           r == With(s, n, a[3], f)
<1>1. \A x \in Offsets : t.entry[x] = Absent
  BY DEF Empty
<1>2. pte \in Seq(PteTables) BY DEF TablesOK
<1>3. /\ s \in Seq(PteTables) /\ n \notin DOMAIN pte /\ n \in Nat \ {0}
      /\ DOMAIN s = DOMAIN pte \cup {n} /\ s[n] = t
      /\ \A j \in DOMAIN pte : s[j] = pte[j]
  BY <1>2, TableAdded
<1>4. a[3] \in Offsets BY DEF Addresses
<1> HIDE DEF s
<1>5. r = With(s, n, a[3], f) /\ n \in DOMAIN s BY <1>3
<1> HIDE DEF r
<1>6. /\ r \in Seq(PteTables) /\ DOMAIN r = DOMAIN s
      /\ \A j \in DOMAIN s : r[j].at = s[j].at
      /\ \A j \in DOMAIN s : \A x \in Offsets :
           r[j].entry[x] = IF j = n /\ x = a[3] THEN f ELSE s[j].entry[x]
  <2>1. s \in Seq(PteTables) /\ n \in DOMAIN s BY <1>3
  <2> QED BY <1>4, <1>5, <2>1, PteSet
<1>7. \A j \in DOMAIN pte : j \in DOMAIN s /\ j # n /\ s[j] = pte[j]
  BY <1>3
<1>8. r[n].at = <<a[1], a[2]>> /\ \A x \in Offsets : r[n].entry[x] = IF x = a[3] THEN f ELSE Absent
  BY <1>1, <1>3, <1>5, <1>6
<1>9. \A j \in DOMAIN pte : r[j].at = pte[j].at /\ \A x \in Offsets : r[j].entry[x] = pte[j].entry[x]
  BY <1>6, <1>7
<1>10. PageAdded(r, n, a, f)
  BY <1>3, <1>6, <1>8, <1>9 DEF PageAdded
<1> QED BY <1>10 DEF r, s

\* What was asked for, and now a page.
Told(a, f) == [told EXCEPT ![a] = f]

LEMMA AddressParts ==
  /\ \A a \in Addresses : a[1] \in Offsets /\ a[2] \in Offsets /\ a[3] \in Offsets
  /\ \A a \in Addresses : \A b \in Addresses :
       <<a[1], a[2]>> = <<b[1], b[2]>> /\ a[3] = b[3] => a = b
BY DEF Addresses

\* nvc_vtc_set_page_map, of a page that a PTE table covers.
LEMMA CoveredStep ==
  ASSUME TablesInv, NEW a \in Addresses, NEW f \in Frames \cup {Absent}, NEW i \in CoveringPte(a),
         pte' = With(pte, i, a[3], f), told' = Told(a, f),
         pdpte' = pdpte, pde' = pde, refused' = refused, crossed' = crossed
  PROVE  TablesInv'
<1>1. i \in DOMAIN pte /\ pte[i].at = <<a[1], a[2]>>
  BY DEF CoveringPte
<1>2. /\ pte' \in Seq(PteTables) /\ DOMAIN pte' = DOMAIN pte
      /\ \A j \in DOMAIN pte : pte'[j].at = pte[j].at
      /\ \A j \in DOMAIN pte : \A x \in Offsets :
           pte'[j].entry[x] = IF j = i /\ x = a[3] THEN f ELSE pte[j].entry[x]
  <2>1. pte \in Seq(PteTables) BY DEF TablesInv, TablesOK
  <2>2. a[3] \in Offsets BY AddressParts
  <2> QED BY <1>1, <2>1, <2>2, PteSet
<1>3. told \in [Addresses -> Frames \cup {Absent}] BY DEF TablesInv, TablesOK
<1>4. told' \in [Addresses -> Frames \cup {Absent}]
      /\ \A b \in Addresses : told'[b] = IF b = a THEN f ELSE told[b]
  BY <1>3 DEF Told
<1>5. TablesOK' BY <1>2, <1>4 DEF TablesInv, TablesOK
<1>6. ASSUME ~ refused, ~ crossed
      PROVE  CoveredOnce' /\ GigabytesLinked' /\ MegabytesLinked' /\ Remembered'
  <2>1. CoveredOnce /\ GigabytesLinked /\ MegabytesLinked /\ Remembered
    BY <1>6 DEF TablesInv
  <2>2. CoveredOnce' BY <2>1, <1>2 DEF CoveredOnce
  <2>3. GigabytesLinked' BY <2>1 DEF GigabytesLinked
  <2>4. MegabytesLinked' BY <2>1, <1>2 DEF MegabytesLinked
  <2>5. ASSUME NEW j \in DOMAIN pte, NEW b \in Addresses, pte[j].at = <<b[1], b[2]>>
        PROVE  told'[b] = pte'[j].entry[b[3]]
    <3>1. told[b] = pte[j].entry[b[3]] BY <2>1, <2>5 DEF Remembered
    <3>2. CASE b = a
      <4>1. j = i BY <1>1, <2>1, <2>5, <3>2 DEF CoveredOnce
      <4> QED BY <4>1, <1>2, <1>4, <3>2, AddressParts
    <3>3. CASE b # a
      <4>1. ~ (j = i /\ b[3] = a[3]) BY <1>1, <2>5, <3>3, AddressParts
      <4> QED BY <4>1, <1>2, <1>4, <3>1, <3>3, AddressParts
    <3> QED BY <3>2, <3>3
  <2>6. ASSUME NEW b \in Addresses, \A j \in DOMAIN pte : pte[j].at # <<b[1], b[2]>>
        PROVE  told'[b] = Absent
    <3>1. b # a BY <1>1, <2>6
    <3>2. told[b] = Absent BY <2>1, <2>6 DEF Remembered, CoveringPte
    <3> QED BY <1>4, <3>1, <3>2
  <2>7. Remembered'
    <3>1. \A j \in DOMAIN pte' : \A b \in Addresses :
            pte'[j].at = <<b[1], b[2]>> => told'[b] = pte'[j].entry[b[3]]
      BY <1>2, <2>5
    <3>2. \A b \in Addresses :
            {j \in DOMAIN pte' : pte'[j].at = <<b[1], b[2]>>} = {} => told'[b] = Absent
      BY <1>2, <2>6
    <3> QED BY <3>1, <3>2 DEF Remembered, CoveringPte
  <2> QED BY <2>2, <2>3, <2>4, <2>7
<1> QED BY <1>5, <1>6 DEF TablesInv

\* What a new PTE table with the page keeps, wherever it is linked.
LEMMA PageStep ==
  ASSUME TablesInv, NEW a \in Addresses, NEW f \in Frames \cup {Absent}, CoveringPte(a) = {},
         NEW n, n = Len(pte) + 1, NEW t \in PteTables, t.at = <<a[1], a[2]>>, t.entry = Empty,
         pte' = With(Append(pte, t), n, a[3], f), told' = Told(a, f)
  PROVE  /\ pte' \in Seq(PteTables) /\ told' \in [Addresses -> Frames \cup {Absent}]
         /\ n \in Nat \ {0} /\ n \notin DOMAIN pte /\ DOMAIN pte' = DOMAIN pte \cup {n}
         /\ pte'[n].at = <<a[1], a[2]>> /\ \A j \in DOMAIN pte : pte'[j].at = pte[j].at
         /\ \A j \in DOMAIN pte : pte[j].at # <<a[1], a[2]>>
         /\ ~ refused /\ ~ crossed =>
              /\ \A i \in DOMAIN pte' : \A j \in DOMAIN pte' : pte'[i].at = pte'[j].at => i = j
              /\ Remembered'
<1>1. /\ pte' \in Seq(PteTables) /\ DOMAIN pte' = DOMAIN pte \cup {n} /\ n \notin DOMAIN pte
      /\ n \in Nat \ {0}
      /\ \A j \in DOMAIN pte : pte'[j].at = pte[j].at
      /\ pte'[n].at = <<a[1], a[2]>>
      /\ \A j \in DOMAIN pte : \A x \in Offsets : pte'[j].entry[x] = pte[j].entry[x]
      /\ \A x \in Offsets : pte'[n].entry[x] = IF x = a[3] THEN f ELSE Absent
  <2>1. TablesOK BY DEF TablesInv
  <2>2. PageAdded(With(Append(pte, t), n, a[3], f), n, a, f) BY <2>1, PteAdded
  <2>3. PageAdded(pte', n, a, f) BY <2>2
  <2> QED BY <2>3 DEF PageAdded
<1>2. told \in [Addresses -> Frames \cup {Absent}] BY DEF TablesInv, TablesOK
<1>3. told' \in [Addresses -> Frames \cup {Absent}]
      /\ \A b \in Addresses : told'[b] = IF b = a THEN f ELSE told[b]
  BY <1>2 DEF Told
<1>4. \A j \in DOMAIN pte : pte[j].at # <<a[1], a[2]>>
  BY DEF CoveringPte
<1>5. ASSUME ~ refused, ~ crossed
      PROVE  /\ \A i \in DOMAIN pte' : \A j \in DOMAIN pte' : pte'[i].at = pte'[j].at => i = j
             /\ Remembered'
  <2>1. CoveredOnce /\ Remembered BY <1>5 DEF TablesInv
  <2>2. ASSUME NEW i \in DOMAIN pte', NEW j \in DOMAIN pte', pte'[i].at = pte'[j].at
        PROVE  i = j
    BY <1>1, <1>4, <2>1, <2>2 DEF CoveredOnce
  <2>3. ASSUME NEW j \in DOMAIN pte', NEW b \in Addresses, pte'[j].at = <<b[1], b[2]>>
        PROVE  told'[b] = pte'[j].entry[b[3]]
    <3>1. CASE j = n
      <4>1. b[1] = a[1] /\ b[2] = a[2] BY <1>1, <2>3, <3>1
      <4>2. CASE b = a BY <4>2, <3>1, <1>1, <1>3, AddressParts
      <4>3. CASE b # a
        <5>1. b[3] # a[3] /\ b[3] \in Offsets BY <4>1, <4>3, AddressParts
        <5>2. \A i \in DOMAIN pte : pte[i].at # <<b[1], b[2]>> BY <1>4, <4>1
        <5>3. told[b] = Absent BY <2>1, <5>2 DEF Remembered, CoveringPte
        <5> QED BY <1>1, <1>3, <3>1, <4>3, <5>1, <5>3
      <4> QED BY <4>2, <4>3
    <3>2. CASE j # n
      <4>1. j \in DOMAIN pte /\ pte[j].at = <<b[1], b[2]>> BY <1>1, <2>3, <3>2
      <4>2. told[b] = pte[j].entry[b[3]] BY <2>1, <4>1 DEF Remembered
      <4>3. b # a BY <1>4, <4>1
      <4> QED BY <1>1, <1>3, <4>1, <4>2, <4>3, AddressParts
    <3> QED BY <3>1, <3>2
  <2>4. ASSUME NEW b \in Addresses, {j \in DOMAIN pte' : pte'[j].at = <<b[1], b[2]>>} = {}
        PROVE  told'[b] = Absent
    <3>1. \A j \in DOMAIN pte' : pte'[j].at # <<b[1], b[2]>> BY <2>4
    <3>2. b # a BY <1>1, <3>1
    <3>3. \A j \in DOMAIN pte : pte[j].at # <<b[1], b[2]>> BY <1>1, <3>1
    <3>4. told[b] = Absent BY <2>1, <3>3 DEF Remembered, CoveringPte
    <3> QED BY <1>3, <3>2, <3>4
  <2>5. Remembered' BY <2>3, <2>4 DEF Remembered, CoveringPte
  <2> QED BY <2>2, <2>5
<1> QED BY <1>1, <1>3, <1>4, <1>5

\* nvc_vtc_set_page_map, of a page in a gigabyte that has a PDE table.
LEMMA MegabyteStep ==
  ASSUME TablesInv, NEW a \in Addresses, NEW f \in Frames \cup {Absent}, CoveringPte(a) = {},
         NEW n, n = Len(pte) + 1, NEW t \in PteTables, t.at = <<a[1], a[2]>>, t.entry = Empty,
         pte' = With(Append(pte, t), n, a[3], f), told' = Told(a, f),
         NEW d \in CoveringPde(a), pde' = With(pde, d, a[2], n),
         pdpte' = pdpte, refused' = refused, crossed' = crossed
  PROVE  TablesInv'
<1>1. /\ pte' \in Seq(PteTables) /\ told' \in [Addresses -> Frames \cup {Absent}]
      /\ n \in Nat \ {0} /\ n \notin DOMAIN pte /\ DOMAIN pte' = DOMAIN pte \cup {n}
      /\ pte'[n].at = <<a[1], a[2]>> /\ \A j \in DOMAIN pte : pte'[j].at = pte[j].at
      /\ \A j \in DOMAIN pte : pte[j].at # <<a[1], a[2]>>
      /\ ~ refused /\ ~ crossed =>
           /\ \A i \in DOMAIN pte' : \A j \in DOMAIN pte' : pte'[i].at = pte'[j].at => i = j
           /\ Remembered'
  BY PageStep
<1>2. d \in DOMAIN pde /\ pde[d].at = a[1] BY DEF CoveringPde
<1>3. /\ pde' \in Seq(PdeTables) /\ DOMAIN pde' = DOMAIN pde
      /\ \A j \in DOMAIN pde : pde'[j].at = pde[j].at
      /\ \A j \in DOMAIN pde : \A x \in Offsets :
           pde'[j].entry[x] = IF j = d /\ x = a[2] THEN n ELSE pde[j].entry[x]
  <2>1. pde \in Seq(PdeTables) BY DEF TablesInv, TablesOK
  <2>2. a[2] \in Offsets BY AddressParts
  <2>3. n \in Nat BY <1>1
  <2>4. LinkedIn(With(pde, d, a[2], n), pde, d, a[2], n) BY <1>2, <2>1, <2>2, <2>3, PdeSet
  <2>5. LinkedIn(pde', pde, d, a[2], n) BY <2>4
  <2> QED BY <2>5 DEF LinkedIn
<1>4. TablesOK' BY <1>1, <1>3 DEF TablesInv, TablesOK
<1>5. ASSUME ~ refused, ~ crossed
      PROVE  CoveredOnce' /\ GigabytesLinked' /\ MegabytesLinked' /\ Remembered'
  <2>1. CoveredOnce /\ GigabytesLinked /\ MegabytesLinked
    BY <1>5 DEF TablesInv
  <2>2. CoveredOnce' BY <2>1, <1>1, <1>3, <1>5 DEF CoveredOnce
  <2>3. GigabytesLinked'
    <3>1. pde = <<>> => pde' = <<>>
      BY <1>2
    <3> QED BY <2>1, <1>3, <3>1 DEF GigabytesLinked
  <2>4. ASSUME NEW i \in DOMAIN pde, NEW m \in Offsets
        PROVE  \/ /\ pde'[i].entry[m] \in DOMAIN pte'
                  /\ pte'[pde'[i].entry[m]].at = <<pde'[i].at, m>>
               \/ /\ pde'[i].entry[m] = Absent
                  /\ \A j \in DOMAIN pte' : pte'[j].at # <<pde'[i].at, m>>
    <3>1. CASE i = d /\ m = a[2]
      BY <1>1, <1>2, <1>3, <3>1
    <3>2. CASE ~ (i = d /\ m = a[2])
      <4>1. pde'[i].entry[m] = pde[i].entry[m] /\ pde'[i].at = pde[i].at BY <1>3, <3>2
      <4>2. <<pde[i].at, m>> # <<a[1], a[2]>> BY <1>2, <2>1, <3>2 DEF CoveredOnce
      <4> QED BY <1>1, <2>1, <4>1, <4>2 DEF MegabytesLinked
    <3> QED BY <3>1, <3>2
  <2>5. ASSUME NEW j \in DOMAIN pte'
        PROVE  \E i \in DOMAIN pde : pde'[i].at = pte'[j].at[1]
    <3>1. CASE j = n BY <1>1, <1>2, <1>3, <3>1
    <3>2. CASE j # n
      <4>1. j \in DOMAIN pte /\ pte'[j].at = pte[j].at BY <1>1, <3>2
      <4>2. PICK i \in DOMAIN pde : pde[i].at = pte[j].at[1] BY <2>1, <4>1 DEF MegabytesLinked
      <4> QED BY <1>3, <4>1, <4>2
    <3> QED BY <3>1, <3>2
  <2>6. MegabytesLinked' BY <1>3, <2>4, <2>5 DEF MegabytesLinked
  <2> QED BY <1>1, <1>5, <2>2, <2>3, <2>6
<1>6. QED BY <1>4, <1>5 DEF TablesInv

\* The PDE table of a new gigabyte, and its entry in the PDPTE table, which may be new.
PdeOf(a, n) == [NewPde(a) EXCEPT !.entry[a[2]] = n]
PdpteWith(a, m) == Linked(IF pdpte = <<>> THEN NewPdpte(a) ELSE pdpte, a, m)

LEMMA PdeNew ==
  ASSUME NEW a \in Addresses, NEW n \in Nat
  PROVE  /\ PdeOf(a, n) \in PdeTables /\ PdeOf(a, n).at = a[1]
         /\ a[2] = a[3] => \A x \in Offsets : PdeOf(a, n).entry[x] = IF x = a[2] THEN n ELSE Absent
<1>1. a[1] \in Offsets /\ a[2] \in Offsets /\ a[3] \in Offsets BY AddressParts
<1>2. [Empty EXCEPT ![a[3]] = Stray] \in [Offsets -> Nat \cup {Absent}]
      /\ \A x \in Offsets : [Empty EXCEPT ![a[3]] = Stray][x] = IF x = a[3] THEN Stray ELSE Absent
  BY DEF Empty, Stray
<1> DEFINE e == [Empty EXCEPT ![a[3]] = Stray]
           f == [e EXCEPT ![a[2]] = n]
<1>3. PdeOf(a, n) = [at |-> a[1], entry |-> f]
  BY DEF PdeOf, NewPde
<1>4. e \in [Offsets -> Nat \cup {Absent}] /\ \A x \in Offsets : e[x] = IF x = a[3] THEN Stray ELSE Absent
  BY <1>2
<1> HIDE DEF e
<1>5. f \in [Offsets -> Nat \cup {Absent}] /\ \A x \in Offsets : f[x] = IF x = a[2] THEN n ELSE e[x]
  BY <1>1, <1>4
<1> HIDE DEF f
<1>6. PdeOf(a, n) \in PdeTables BY <1>1, <1>3, <1>5 DEF PdeTables
<1>7. PdeOf(a, n).at = a[1] /\ PdeOf(a, n).entry = f BY <1>3
<1>8. a[2] = a[3] => \A x \in Offsets : f[x] = IF x = a[2] THEN n ELSE Absent
  BY <1>4, <1>5
<1> QED BY <1>6, <1>7, <1>8

LEMMA PdpteNew ==
  ASSUME TablesOK, NEW a \in Addresses, NEW m \in Nat
  PROVE  /\ PdpteWith(a, m) \in [Offsets -> Nat \cup {Absent}] /\ PdpteWith(a, m) # <<>>
         /\ a[1] = a[2] => \A x \in Offsets :
              PdpteWith(a, m)[x] = IF x = a[1] THEN m ELSE IF pdpte = <<>> THEN Absent ELSE pdpte[x]
<1>1. a[1] \in Offsets /\ a[2] \in Offsets BY AddressParts
<1>2. NewPdpte(a) \in [Offsets -> Nat \cup {Absent}]
      /\ \A x \in Offsets : NewPdpte(a)[x] = IF x = a[1] THEN Stray ELSE Absent
  BY DEF NewPdpte, Empty, Stray
<1>3. pdpte = <<>> \/ pdpte \in [Offsets -> Nat \cup {Absent}] BY DEF TablesOK
<1> DEFINE e == IF pdpte = <<>> THEN NewPdpte(a) ELSE pdpte
           f == [e EXCEPT ![a[2]] = m]
<1>4. e \in [Offsets -> Nat \cup {Absent}] BY <1>2, <1>3
<1>5. \A x \in Offsets : x # a[1] => e[x] = IF pdpte = <<>> THEN Absent ELSE pdpte[x] BY <1>2
<1>6. PdpteWith(a, m) = f BY DEF PdpteWith, Linked
<1> HIDE DEF e
<1>7. f \in [Offsets -> Nat \cup {Absent}] /\ \A x \in Offsets : f[x] = IF x = a[2] THEN m ELSE e[x]
  BY <1>1, <1>4
<1> HIDE DEF f
<1>8. f # <<>>
  <2>1. DOMAIN f = Offsets BY <1>7
  <2> QED BY <1>1, <2>1
<1> QED BY <1>5, <1>6, <1>7, <1>8

\* nvc_vtc_set_page_map, of the first page of a gigabyte.
LEMMA GigabyteStep ==
  ASSUME TablesInv, NEW a \in Addresses, NEW f \in Frames \cup {Absent},
         CoveringPte(a) = {}, CoveringPde(a) = {},
         NEW n, n = Len(pte) + 1, NEW t \in PteTables, t.at = <<a[1], a[2]>>, t.entry = Empty,
         pte' = With(Append(pte, t), n, a[3], f), told' = Told(a, f),
         pde' = Append(pde, PdeOf(a, n)), pdpte' = PdpteWith(a, Len(pde) + 1),
         refused' = refused, crossed' = (crossed \/ a[1] # a[2] \/ a[2] # a[3])
  PROVE  TablesInv'
<1> DEFINE m == Len(pde) + 1
           u == PdeOf(a, n)
<1>1. /\ pte' \in Seq(PteTables) /\ told' \in [Addresses -> Frames \cup {Absent}]
      /\ n \in Nat \ {0} /\ n \notin DOMAIN pte /\ DOMAIN pte' = DOMAIN pte \cup {n}
      /\ pte'[n].at = <<a[1], a[2]>> /\ \A j \in DOMAIN pte : pte'[j].at = pte[j].at
      /\ \A j \in DOMAIN pte : pte[j].at # <<a[1], a[2]>>
      /\ ~ refused /\ ~ crossed =>
           /\ \A i \in DOMAIN pte' : \A j \in DOMAIN pte' : pte'[i].at = pte'[j].at => i = j
           /\ Remembered'
  BY PageStep
<1>2. TablesOK /\ pde \in Seq(PdeTables) BY DEF TablesInv, TablesOK
<1>3. /\ u \in PdeTables /\ u.at = a[1]
      /\ a[2] = a[3] => \A x \in Offsets : u.entry[x] = IF x = a[2] THEN n ELSE Absent
  BY <1>1, PdeNew
<1>4. pde' = Append(pde, u) OBVIOUS
<1>5. \A i \in DOMAIN pde : pde[i].at # a[1] BY DEF CoveringPde
<1> HIDE DEF u
<1>6. /\ pde' \in Seq(PdeTables) /\ DOMAIN pde' = DOMAIN pde \cup {m} /\ m \notin DOMAIN pde
      /\ m \in Nat \ {0} /\ pde'[m] = u /\ \A i \in DOMAIN pde : pde'[i] = pde[i]
  <2>1. /\ Append(pde, u) \in Seq(PdeTables) /\ DOMAIN Append(pde, u) = DOMAIN pde \cup {m}
        /\ m \notin DOMAIN pde /\ m \in Nat \ {0} /\ Append(pde, u)[m] = u
        /\ \A i \in DOMAIN pde : Append(pde, u)[i] = pde[i]
    BY <1>2, <1>3, TableAdded
  <2> QED BY <1>4, <2>1
<1>7. /\ pdpte' \in [Offsets -> Nat \cup {Absent}] /\ pdpte' # <<>>
      /\ a[1] = a[2] => \A x \in Offsets :
           pdpte'[x] = IF x = a[1] THEN m ELSE IF pdpte = <<>> THEN Absent ELSE pdpte[x]
  <2>1. m \in Nat BY <1>6
  <2>2. pdpte' = PdpteWith(a, m) OBVIOUS
  <2> HIDE DEF m
  <2> QED BY <1>2, <2>1, <2>2, PdpteNew
<1> HIDE DEF m
<1>8. TablesOK' BY <1>1, <1>2, <1>6, <1>7 DEF TablesOK
<1>9. ASSUME ~ refused, ~ crossed, a[1] = a[2], a[2] = a[3]
      PROVE  CoveredOnce' /\ GigabytesLinked' /\ MegabytesLinked' /\ Remembered'
  <2>1. CoveredOnce /\ GigabytesLinked /\ MegabytesLinked
    BY <1>9 DEF TablesInv
  <2>2. ASSUME NEW i \in DOMAIN pde', NEW j \in DOMAIN pde', pde'[i].at = pde'[j].at
        PROVE  i = j
    BY <1>3, <1>5, <1>6, <2>1, <2>2 DEF CoveredOnce
  <2>3. CoveredOnce' BY <1>1, <1>9, <2>2 DEF CoveredOnce
  <2>4. ASSUME NEW g \in Offsets
        PROVE  \/ pdpte'[g] \in DOMAIN pde' /\ pde'[pdpte'[g]].at = g
               \/ pdpte'[g] = Absent /\ \A i \in DOMAIN pde' : pde'[i].at # g
    <3>1. CASE g = a[1] BY <1>3, <1>6, <1>7, <1>9, <3>1
    <3>2. CASE g # a[1]
      <4>1. pdpte'[g] = IF pdpte = <<>> THEN Absent ELSE pdpte[g] BY <1>7, <1>9, <3>2
      <4>2. CASE pdpte = <<>>
        <5>1. DOMAIN pde = {} BY <2>1, <4>2 DEF GigabytesLinked
        <5> QED BY <1>3, <1>6, <3>2, <4>1, <4>2, <5>1
      <4>3. CASE pdpte # <<>>
        <5>1. \/ pdpte[g] \in DOMAIN pde /\ pde[pdpte[g]].at = g
              \/ pdpte[g] = Absent /\ \A i \in DOMAIN pde : pde[i].at # g
          BY <2>1, <4>3 DEF GigabytesLinked
        <5> QED BY <1>3, <1>6, <3>2, <4>1, <4>3, <5>1
      <4> QED BY <4>2, <4>3
    <3> QED BY <3>1, <3>2
  <2>5. GigabytesLinked' BY <1>7, <2>4 DEF GigabytesLinked
  <2>6. ASSUME NEW i \in DOMAIN pde', NEW x \in Offsets
        PROVE  \/ /\ pde'[i].entry[x] \in DOMAIN pte'
                  /\ pte'[pde'[i].entry[x]].at = <<pde'[i].at, x>>
               \/ /\ pde'[i].entry[x] = Absent
                  /\ \A j \in DOMAIN pte' : pte'[j].at # <<pde'[i].at, x>>
    <3>1. CASE i = m
      <4>1. pde'[i].at = a[1] /\ pde'[i].entry[x] = IF x = a[2] THEN n ELSE Absent
        BY <1>3, <1>6, <1>9, <3>1
      <4>2. CASE x = a[2] BY <1>1, <4>1, <4>2
      <4>3. CASE x # a[2]
        <5>1. ASSUME NEW j \in DOMAIN pte PROVE pte[j].at # <<a[1], x>>
          <6>1. PICK k \in DOMAIN pde : pde[k].at = pte[j].at[1] BY <2>1 DEF MegabytesLinked
          <6> QED BY <1>5, <6>1
        <5>2. ASSUME NEW j \in DOMAIN pte' PROVE pte'[j].at # <<a[1], x>>
          <6>1. CASE j = n BY <1>1, <4>3, <6>1
          <6>2. CASE j # n
            <7>1. j \in DOMAIN pte /\ pte'[j].at = pte[j].at BY <1>1, <6>2
            <7> QED BY <5>1, <7>1
          <6> QED BY <6>1, <6>2
        <5> QED BY <4>1, <4>3, <5>2
      <4> QED BY <4>2, <4>3
    <3>2. CASE i # m
      <4>1. i \in DOMAIN pde /\ pde'[i] = pde[i] BY <1>6, <3>2
      <4>2. <<pde[i].at, x>> # <<a[1], a[2]>> BY <1>5, <4>1
      <4>3. \/ pde[i].entry[x] \in DOMAIN pte /\ pte[pde[i].entry[x]].at = <<pde[i].at, x>>
            \/ pde[i].entry[x] = Absent /\ \A j \in DOMAIN pte : pte[j].at # <<pde[i].at, x>>
        BY <2>1, <4>1 DEF MegabytesLinked
      <4>4. \A j \in DOMAIN pte : j \in DOMAIN pte' /\ pte'[j].at = pte[j].at BY <1>1
      <4>5. \A j \in DOMAIN pte' : j = n \/ j \in DOMAIN pte BY <1>1
      <4>6. pte'[n].at = <<a[1], a[2]>> BY <1>1
      <4> QED BY <4>1, <4>2, <4>3, <4>4, <4>5, <4>6
    <3> QED BY <3>1, <3>2
  <2>7. ASSUME NEW j \in DOMAIN pte'
        PROVE  \E i \in DOMAIN pde' : pde'[i].at = pte'[j].at[1]
    <3>1. CASE j = n BY <1>1, <1>3, <1>6, <3>1
    <3>2. CASE j # n
      <4>1. j \in DOMAIN pte /\ pte'[j].at = pte[j].at BY <1>1, <3>2
      <4>2. PICK i \in DOMAIN pde : pde[i].at = pte[j].at[1] BY <2>1, <4>1 DEF MegabytesLinked
      <4> QED BY <1>6, <4>1, <4>2
    <3> QED BY <3>1, <3>2
  <2>8. MegabytesLinked' BY <2>6, <2>7 DEF MegabytesLinked
  <2> QED BY <1>1, <1>9, <2>3, <2>5, <2>8
<1> QED BY <1>8, <1>9 DEF TablesInv

LEMMA SetPageMapStep ==
  ASSUME TablesInv, NEW a \in Addresses, NEW f \in Frames \cup {Absent}, NEW made, SetPageMap(a, f, made)
  PROVE  TablesInv'
<1> DEFINE n == Len(pte) + 1
           t == [at |-> <<a[1], a[2]>>, entry |-> Empty]
<1>1. t \in PteTables /\ t.at = <<a[1], a[2]>> /\ t.entry = Empty
  BY AddressParts DEF PteTables, Empty
<1>2. NewPde(a) \in PdeTables
  <2>1. a[1] \in Offsets /\ a[2] \in Offsets /\ a[3] \in Offsets BY AddressParts
  <2>2. [Empty EXCEPT ![a[3]] = Stray] \in [Offsets -> Nat \cup {Absent}] BY DEF Empty, Stray
  <2> QED BY <2>1, <2>2 DEF NewPde, PdeTables
<1>3. /\ pte \in Seq(PteTables) /\ pde \in Seq(PdeTables) /\ TablesOK
  BY DEF TablesInv, TablesOK
<1>4. \/ \E i \in CoveringPte(a) :
           /\ pte' = With(pte, i, a[3], f)
           /\ told' = Told(a, f) /\ UNCHANGED <<refused, crossed, pdpte, pde>>
      \/ /\ refused' = TRUE /\ UNCHANGED <<told, crossed, pdpte>>
         /\ pte' = pte \/ pte' = Append(pte, t)
         /\ pde' = pde \/ pde' = Append(pde, NewPde(a))
      \/ /\ CoveringPte(a) = {}
         /\ pte' = With(Append(pte, t), n, a[3], f) /\ told' = Told(a, f)
         /\ \/ \E i \in CoveringPde(a) :
                 pde' = With(pde, i, a[2], n) /\ UNCHANGED <<pdpte, refused, crossed>>
            \/ /\ CoveringPde(a) = {}
               /\ pdpte' = PdpteWith(a, Len(pde) + 1) /\ pde' = Append(pde, PdeOf(a, n))
               /\ refused' = refused /\ crossed' = (crossed \/ a[1] # a[2] \/ a[2] # a[3])
  BY DEF SetPageMap, With, Told, PdpteWith, PdeOf
<1>5. n = Len(pte) + 1 OBVIOUS
<1> HIDE DEF n, t
<1>6. ASSUME NEW i \in CoveringPte(a), pte' = With(pte, i, a[3], f),
             told' = Told(a, f), UNCHANGED <<refused, crossed, pdpte, pde>>
      PROVE  TablesInv'
  BY <1>6, CoveredStep
<1>7. ASSUME refused' = TRUE, UNCHANGED <<told, crossed, pdpte>>,
             pte' = pte \/ pte' = Append(pte, t), pde' = pde \/ pde' = Append(pde, NewPde(a))
      PROVE  TablesInv'
  <2>1. pte' \in Seq(PteTables)
    <3>1. Append(pte, t) \in Seq(PteTables) BY <1>1, <1>3, TableAdded
    <3> QED BY <1>3, <1>7, <3>1
  <2>2. pde' \in Seq(PdeTables)
    <3>1. Append(pde, NewPde(a)) \in Seq(PdeTables) BY <1>2, <1>3, TableAdded
    <3> QED BY <1>3, <1>7, <3>1
  <2> QED BY <1>3, <1>7, <2>1, <2>2 DEF TablesInv, TablesOK
<1>8. ASSUME CoveringPte(a) = {}, pte' = With(Append(pte, t), n, a[3], f), told' = Told(a, f),
             NEW i \in CoveringPde(a),
             pde' = With(pde, i, a[2], n), UNCHANGED <<pdpte, refused, crossed>>
      PROVE  TablesInv'
  BY <1>1, <1>5, <1>8, MegabyteStep
<1>9. ASSUME CoveringPte(a) = {}, pte' = With(Append(pte, t), n, a[3], f), told' = Told(a, f),
             CoveringPde(a) = {},
             pdpte' = PdpteWith(a, Len(pde) + 1), pde' = Append(pde, PdeOf(a, n)),
             refused' = refused, crossed' = (crossed \/ a[1] # a[2] \/ a[2] # a[3])
      PROVE  TablesInv'
  BY <1>1, <1>5, <1>9, GigabyteStep
<1> QED BY <1>4, <1>6, <1>7, <1>8, <1>9

LEMMA TablesStep ==
  ASSUME TablesInv, [Next]_vars
  PROVE  TablesInv'
<1>1. SetMapping => TablesInv' BY SetPageMapStep DEF SetMapping
<1>2. ASSUME UNCHANGED guest_paging PROVE TablesInv'
  <2>1. pdpte' = pdpte /\ pde' = pde /\ pte' = pte /\ told' = told /\ refused' = refused /\ crossed' = crossed
    BY <1>2 DEF guest_paging
  <2>2. TablesOK => TablesOK' BY <2>1 DEF TablesOK
  <2>3. CoveredOnce => CoveredOnce' BY <2>1 DEF CoveredOnce
  <2>4. GigabytesLinked => GigabytesLinked' BY <2>1 DEF GigabytesLinked
  <2>5. MegabytesLinked => MegabytesLinked' BY <2>1 DEF MegabytesLinked
  <2>6. Remembered => Remembered' BY <2>1 DEF Remembered, CoveringPte
  <2> QED BY <2>1, <2>2, <2>3, <2>4, <2>5, <2>6 DEF TablesInv
<1>3. SetMapping \/ UNCHANGED guest_paging
  <2>1. ASSUME NEW v \in Vcpus, NEW p \in Procs, GuestExit(p, v) PROVE UNCHANGED guest_paging
    BY <2>1 DEF GuestExit
  <2> QED BY <2>1 DEF Next, vars, Edit, SetEvent, EditCr8, CreateVcpu, Dump, SwitchToGuest, Enter,
       EntryFails, InvalidStateExit, InterruptWindow, NmiWindow, ExitElsewhere, GuestWrites, WriteCr8
<1> QED BY <1>1, <1>2, <1>3

LEMMA TablesStart ==
  ASSUME GuestPagingInit
  PROVE  TablesInv
<1>1. TablesOK
  <2>1. pte \in Seq(PteTables) /\ pde \in Seq(PdeTables) BY DEF GuestPagingInit
  <2>2. told \in [Addresses -> Frames \cup {Absent}] BY DEF GuestPagingInit
  <2> QED BY <2>1, <2>2 DEF GuestPagingInit, TablesOK
<1>2. DOMAIN pte = {} /\ DOMAIN pde = {} /\ pdpte = <<>> /\ pde = <<>>
      /\ \A a \in Addresses : told[a] = Absent
  BY DEF GuestPagingInit
<1> QED BY <1>1, <1>2 DEF TablesInv, CoveredOnce, GigabytesLinked, MegabytesLinked, Remembered

\* The walk finds an entry of the PTE table that covers the address, if one does.
LEMMA WalkFinds ==
  ASSUME TablesInv
  PROVE  MappedAsTold
<1> SUFFICES ASSUME ~ refused, ~ crossed, NEW a \in Addresses
             PROVE  Walk(a) = told[a]
  BY DEF MappedAsTold
<1>1. GigabytesLinked /\ MegabytesLinked /\ Remembered /\ TablesOK BY DEF TablesInv
<1>2. a[1] \in Offsets /\ a[2] \in Offsets /\ a[3] \in Offsets BY AddressParts
<1>3. ASSUME \A i \in DOMAIN pde : pde[i].at # a[1] PROVE told[a] = Absent
  <2>1. ASSUME NEW j \in DOMAIN pte PROVE pte[j].at # <<a[1], a[2]>>
    <3>1. PICK k \in DOMAIN pde : pde[k].at = pte[j].at[1] BY <1>1 DEF MegabytesLinked
    <3> QED BY <1>3, <3>1
  <2> QED BY <1>1, <2>1 DEF Remembered, CoveringPte
<1>4. CASE pdpte = <<>>
  <2>1. pde = <<>> BY <1>1, <1>4 DEF GigabytesLinked
  <2>2. DOMAIN pde = {} BY <2>1
  <2> QED BY <1>3, <1>4, <2>2 DEF Walk
<1>5. CASE pdpte # <<>>
  <2> DEFINE d == pdpte[a[1]]
             t == pde[d].entry[a[2]]
  <2>0. Walk(a) = IF d \in {Absent, Stray} THEN d
                  ELSE IF t \in {Absent, Stray} THEN t ELSE pte[t].entry[a[3]]
    BY <1>5 DEF Walk
  <2>1. \/ d \in DOMAIN pde /\ pde[d].at = a[1]
        \/ d = Absent /\ \A i \in DOMAIN pde : pde[i].at # a[1]
    BY <1>1, <1>2, <1>5 DEF GigabytesLinked
  <2>2. d \in DOMAIN pde =>
          \/ t \in DOMAIN pte /\ pte[t].at = <<pde[d].at, a[2]>>
          \/ t = Absent /\ \A j \in DOMAIN pte : pte[j].at # <<pde[d].at, a[2]>>
    BY <1>1, <1>2 DEF MegabytesLinked
  <2>3. DOMAIN pde \subseteq Nat \ {0} /\ DOMAIN pte \subseteq Nat \ {0}
    <3>1. pde \in Seq(PdeTables) /\ pte \in Seq(PteTables) BY <1>1 DEF TablesOK
    <3> QED BY <3>1
  <2>4. \A i \in Nat \ {0} : i \notin {Absent, Stray}
    BY GuestPagingAssumption DEF Stray
  <2> HIDE DEF d, t
  <2>5. CASE d = Absent BY <1>3, <2>0, <2>1, <2>3, <2>4, <2>5
  <2>6. CASE d \in DOMAIN pde /\ t = Absent
    <3>1. \A j \in DOMAIN pte : pte[j].at # <<a[1], a[2]>> BY <2>1, <2>2, <2>3, <2>4, <2>6
    <3>2. told[a] = Absent BY <1>1, <3>1 DEF Remembered, CoveringPte
    <3> QED BY <2>0, <2>3, <2>4, <2>6, <3>2
  <2>7. CASE d \in DOMAIN pde /\ t \in DOMAIN pte
    <3>1. pte[t].at = <<a[1], a[2]>> BY <2>1, <2>2, <2>3, <2>4, <2>7
    <3>2. told[a] = pte[t].entry[a[3]] BY <1>1, <2>7, <3>1 DEF Remembered
    <3> QED BY <2>0, <2>3, <2>4, <2>7, <3>2
  <2> QED BY <2>1, <2>2, <2>5, <2>6, <2>7
<1> QED BY <1>4, <1>5

\* The guest finds the pages that the user hypervisor has mapped, where it has mapped
\* them, and no others, as long as no table was refused (nvc_vtc_set_page_map, which
\* leaves what it has allocated in the lists) and every gigabyte was first used on the
\* diagonal (nvc_vtc_create_2mb_page_map, which links by the offset of the wrong level).
THEOREM MappedCorrect == Spec => []MappedAsTold
<1>1. Init => TablesInv BY TablesStart DEF Init
<1>2. TablesInv /\ [Next]_vars => TablesInv' BY TablesStep
<1>3. TablesInv => MappedAsTold BY WalkFinds
<1> QED BY <1>1, <1>2, <1>3, PTL DEF Spec

-----------------------------------------------------------------------------
(* Types.                                                                  *)

USE VtCvmAssumption

Injections == [type : {"none", "ext", "nmi", "exc"}, ec : BOOLEAN]

LEMMA GroupType ==
  \A r \in Regs : Group(r) \in Groups \cup {"none"} /\ "none" \notin Groups
BY DEF Group, Groups, Registers

LEMMA EventType ==
  \A e \in Events : e.ec_valid \in BOOLEAN /\ e.priority \in Nat
<1> SUFFICES ASSUME NEW e \in Events PROVE e.ec_valid \in BOOLEAN /\ e.priority \in Nat
  OBVIOUS
<1>1. CASE e = NoEvent BY <1>1 DEF NoEvent
<1>2. ASSUME e \in [valid : {TRUE}, type : {"ext"}, priority : 1 .. Top, ec_valid : BOOLEAN]
      PROVE  e.ec_valid \in BOOLEAN /\ e.priority \in Nat
  BY <1>2
<1>3. ASSUME NEW b, NEW x, NEW n \in Nat,
             e \in [valid : {b}, type : {x}, priority : {n}, ec_valid : {FALSE}]
      PROVE  e.ec_valid \in BOOLEAN /\ e.priority \in Nat
  BY <1>3
<1> QED BY <1>1, <1>2, <1>3 DEF Events

\* What an injection can be.
LEMMA InjectTypes ==
  ASSUME TypeOK, NEW v \in Vcpus, NEW i \in Injections
  PROVE  /\ Inject(v, i) => /\ injection' \in [Vcpus -> Injections] /\ windows' = windows
         /\ \A w \in {"interrupt", "nmi"} : OpenWindow(v, w) =>
              /\ injection' = injection
              /\ windows' \in [Vcpus -> SUBSET {"interrupt", "nmi"}]
BY DEF TypeOK, Inject, OpenWindow, Injections

LEMMA SwitchInjects ==
  ASSUME TypeOK, NEW v \in Vcpus, InjectAtSwitch(v)
  PROVE  /\ injection' \in [Vcpus -> Injections]
         /\ windows' \in [Vcpus -> SUBSET {"interrupt", "nmi"}]
<1>1. NoInjection \in Injections /\ [type |-> "exc", ec |-> FALSE] \in Injections
      /\ External(TRUE) \in Injections /\ Nmi \in Injections
  BY DEF NoInjection, External, Nmi, Injections
<1>2. injection \in [Vcpus -> Injections] /\ windows \in [Vcpus -> SUBSET {"interrupt", "nmi"}]
  BY DEF TypeOK, Injections
<1> QED BY <1>1, <1>2, InjectTypes DEF InjectAtSwitch

\* The return to the host.
LEMMA SwitchToHostTypes ==
  ASSUME TypeOK, NEW p \in Procs, NEW v \in Vcpus, NEW saved, SwitchToHost(p, v, saved)
  PROVE  /\ current' \in [Procs -> Vcpus \cup {Host}] /\ custom_vcpu' = current'
         /\ entered' \subseteq Procs /\ fresh_header' \in [Vcpus -> SUBSET Regs]
         /\ UNCHANGED <<lost, home, proc_id, valid, fresh_vmcs>>
BY DEF TypeOK, SwitchToHost, Replacement

\* An exit ends in the host, or in the guest's next entry, with more of its registers
\* fresh, and perhaps an exception to deliver.
ToHost(p, v) ==
  /\ \E saved : SwitchToHost(p, v, saved)
  /\ UNCHANGED <<initial_vmcs, launched, event_vars>>

ToGuest(p, v) ==
  /\ Stay /\ Reenter(p)
  /\ \E F \in SUBSET Regs : fresh_vmcs' = [fresh_vmcs EXCEPT ![v] = @ \cup F]
  /\ \E F : fresh_header' = [fresh_header EXCEPT ![v] = @ \ F]
  /\ injection' \in {injection, [injection EXCEPT ![v] = [type |-> "exc", ec |-> FALSE]]}

LEMMA ExitEnds ==
  ASSUME TypeOK, NEW p \in Procs, NEW v \in Vcpus, GuestExit(p, v)
  PROVE  /\ GuestRuns(p, v) /\ UNCHANGED <<took, guest_paging>>
         /\ ToHost(p, v) \/ ToGuest(p, v)
<1>1. Return(p, v) \/ Deliver(p, v) => ToHost(p, v)
  BY DEF Return, Deliver, ToHost
<1>2. fresh_vmcs = [fresh_vmcs EXCEPT ![v] = @ \cup {}]
      /\ fresh_header = [fresh_header EXCEPT ![v] = @ \ {}]
  BY DEF TypeOK
<1>3. Pass(p) => ToGuest(p, v) BY <1>2 DEF Pass, ToGuest
<1>4. Fault(p, v) => ToGuest(p, v) BY <1>2 DEF Fault, ToGuest
<1>5. \A r : Emulate(p, v, r) => ToGuest(p, v)
  <2> SUFFICES ASSUME NEW r, Emulate(p, v, r) PROVE ToGuest(p, v)
    OBVIOUS
  <2>1. {"rip", r} \cap Regs \in SUBSET Regs OBVIOUS
  <2> QED BY <2>1 DEF Emulate, ToGuest
<1>6. ASSUME Stay, Reenter(p), "cr0" \in Regs, Written(v, "cr0"), UNCHANGED injection
      PROVE  ToGuest(p, v)
  <2>1. {"cr0"} \in SUBSET Regs BY <1>6
  <2> QED BY <1>6, <2>1 DEF Written, ToGuest
<1>7. ToHost(p, v) \/ ToGuest(p, v)
  <2> HIDE DEF ToHost, ToGuest
  <2> QED BY <1>1, <1>3, <1>4, <1>5, <1>6
       DEF GuestExit, ExceptionExit, InterruptExit, InstructionExit, VmxInstructionExit,
           CrAccess, IoExit, MsrExit, MemoryExit, XsetbvExit
<1> QED BY <1>7 DEF GuestExit

LEMMA TypeStep ==
  ASSUME TypeOK, [Next]_vars
  PROVE  TypeOK'
<1>1. CASE UNCHANGED vars \/ (SetMapping /\ UNCHANGED <<proc_vars, place_vars, reg_vars, event_vars, took>>)
  BY <1>1 DEF TypeOK, vars, proc_vars, place_vars, reg_vars, event_vars
<1>2. ASSUME NEW v \in Vcpus, NEW R \in Units, Edit(v, R) PROVE TypeOK'
  BY <1>2 DEF TypeOK, Edit, proc_vars, place_vars
<1>3. ASSUME NEW v \in Vcpus, NEW e \in Events, SetEvent(v, e) PROVE TypeOK'
  BY <1>3 DEF TypeOK, SetEvent, proc_vars, place_vars, reg_vars
<1>4. ASSUME NEW v \in Vcpus, NEW n \in 0 .. Top, EditCr8(v, n) PROVE TypeOK'
  BY <1>4 DEF TypeOK, EditCr8, proc_vars, place_vars, reg_vars
<1>5. ASSUME NEW v \in Vcpus, NEW p \in Procs, CreateVcpu(p, v) PROVE TypeOK'
  BY <1>5 DEF TypeOK, CreateVcpu, proc_vars, reg_vars, event_vars
<1>6. ASSUME NEW v \in Vcpus, NEW p \in Procs, Dump(p, v) PROVE TypeOK'
  BY <1>6 DEF TypeOK, Dump, proc_vars, place_vars, event_vars
<1>7. ASSUME NEW v \in Vcpus, NEW p \in Procs, SwitchToGuest(p, v) PROVE TypeOK'
  <2>1. /\ injection' \in [Vcpus -> Injections]
        /\ windows' \in [Vcpus -> SUBSET {"interrupt", "nmi"}]
    BY <1>7, SwitchInjects DEF SwitchToGuest
  <2>2. /\ current' \in [Procs -> Vcpus \cup {Host}] /\ custom_vcpu' = current'
        /\ entered' \subseteq Procs /\ valid' \in [Vcpus -> SUBSET Groups]
        /\ fresh_vmcs' \in [Vcpus -> SUBSET Regs]
        /\ UNCHANGED <<lost, home, fresh_header, event, cr8, if, nmi_blocked, took>>
    BY <1>7 DEF TypeOK, SwitchToGuest, Loaded
  <2>3. /\ proc_id' \in [Vcpus -> Procs \cup {NoProc}] /\ launched' \subseteq Vcpus
        /\ initial_vmcs' \in [Procs -> BOOLEAN]
    <3>1. \/ /\ proc_id' = [proc_id EXCEPT ![v] = p] /\ launched' = launched \ {v}
             /\ initial_vmcs' = [initial_vmcs EXCEPT ![p] = TRUE]
          \/ UNCHANGED <<proc_id, launched, initial_vmcs>>
      BY <1>7 DEF SwitchToGuest
    <3> QED BY <3>1 DEF TypeOK
  <2> QED BY <2>1, <2>2, <2>3 DEF TypeOK, Injections
<1>8. ASSUME NEW v \in Vcpus, NEW p \in Procs, Enter(p, v) PROVE TypeOK'
  <2>1. injection' \in [Vcpus -> [type : {"none", "ext", "nmi", "exc"}, ec : BOOLEAN]]
    BY <1>8 DEF TypeOK, Enter, NoInjection
  <2>2. took' \subseteq {"masked", "low", "stale", "nested"}
    BY <1>8 DEF TypeOK, Enter, Wrongs
  <2>3. if' \in [Vcpus -> BOOLEAN] /\ nmi_blocked' \in [Vcpus -> BOOLEAN]
    BY <1>8 DEF TypeOK, Enter
  <2> QED BY <1>8, <2>1, <2>2, <2>3 DEF TypeOK, Enter, reg_vars
<1>9. ASSUME NEW v \in Vcpus, NEW p \in Procs, EntryFails(p, v) \/ InvalidStateExit(p, v)
      PROVE  TypeOK'
  <2>1. SwitchToHost(p, v, {}) /\ UNCHANGED <<launched, event_vars, took>>
        /\ initial_vmcs' = [initial_vmcs EXCEPT ![p] = FALSE]
    BY <1>9 DEF EntryFails, InvalidStateExit
  <2> QED BY <2>1, SwitchToHostTypes DEF TypeOK, event_vars
<1>10. ASSUME NEW v \in Vcpus, NEW p \in Procs, GuestExit(p, v) PROVE TypeOK'
  <2>1. UNCHANGED took /\ (ToHost(p, v) \/ ToGuest(p, v)) BY <1>10, ExitEnds
  <2>2. CASE ToHost(p, v)
    BY <2>1, <2>2, SwitchToHostTypes DEF TypeOK, ToHost, event_vars
  <2>3. CASE ToGuest(p, v)
    <3>1. /\ fresh_vmcs' \in [Vcpus -> SUBSET Regs] /\ fresh_header' \in [Vcpus -> SUBSET Regs]
          /\ entered' \subseteq Procs
      BY <2>3 DEF TypeOK, ToGuest, Reenter
    <3>2. injection' \in [Vcpus -> Injections]
      <4>1. injection' \in {injection, [injection EXCEPT ![v] = [type |-> "exc", ec |-> FALSE]]}
        BY <2>3 DEF ToGuest
      <4>2. [type |-> "exc", ec |-> FALSE] \in Injections /\ injection \in [Vcpus -> Injections]
        BY DEF TypeOK, Injections
      <4> QED BY <4>1, <4>2
    <3> QED BY <2>1, <2>3, <3>1, <3>2 DEF TypeOK, ToGuest, Stay, Injections, place_vars
  <2> QED BY <2>1, <2>2, <2>3
<1>11. ASSUME NEW v \in Vcpus, NEW p \in Procs, InterruptWindow(p, v) PROVE TypeOK'
  <2>1. /\ injection' \in [Vcpus -> Injections]
        /\ windows' \in [Vcpus -> SUBSET {"interrupt", "nmi"}]
        /\ UNCHANGED <<initial_vmcs, launched, event, cr8, if, nmi_blocked, took>>
    <3>1. External(event[v].ec_valid) \in Injections
      BY EventType DEF TypeOK, External, Injections
    <3> QED BY <1>11, <3>1, InjectTypes DEF InterruptWindow, TypeOK, Injections
  <2>2. \/ Reenter(p) /\ UNCHANGED <<current, custom_vcpu, lost, home, proc_id, reg_vars>>
        \/ SwitchToHost(p, v, {"rip", "cs"})
    BY <1>11 DEF InterruptWindow
  <2>3. CASE Reenter(p) /\ UNCHANGED <<current, custom_vcpu, lost, home, proc_id, reg_vars>>
    BY <2>1, <2>3 DEF TypeOK, Reenter, Injections, reg_vars
  <2>4. CASE SwitchToHost(p, v, {"rip", "cs"})
    BY <2>1, <2>4, SwitchToHostTypes DEF TypeOK, Injections
  <2> QED BY <2>2, <2>3, <2>4
<1>12. ASSUME NEW v \in Vcpus, NEW p \in Procs, NmiWindow(p, v) PROVE TypeOK'
  <2>1. /\ injection' \in [Vcpus -> Injections]
        /\ windows' \in [Vcpus -> SUBSET {"interrupt", "nmi"}]
        /\ UNCHANGED <<initial_vmcs, launched, event, cr8, if, nmi_blocked, took>>
    <3>1. Nmi \in Injections BY DEF Nmi, Injections
    <3> QED BY <1>12, <3>1, InjectTypes DEF NmiWindow, TypeOK, Injections
  <2>2. \/ Reenter(p) /\ UNCHANGED <<current, custom_vcpu, lost, home, proc_id, reg_vars>>
        \/ SwitchToHost(p, v, {"rip", "cs"})
    BY <1>12 DEF NmiWindow
  <2>3. CASE Reenter(p) /\ UNCHANGED <<current, custom_vcpu, lost, home, proc_id, reg_vars>>
    BY <2>1, <2>3 DEF TypeOK, Reenter, Injections, reg_vars
  <2>4. CASE SwitchToHost(p, v, {"rip", "cs"})
    BY <2>1, <2>4, SwitchToHostTypes DEF TypeOK, Injections
  <2> QED BY <2>2, <2>3, <2>4
<1>13. ASSUME NEW v \in Vcpus, NEW p \in Procs, ExitElsewhere(p, v) PROVE TypeOK'
  BY <1>13 DEF TypeOK, ExitElsewhere, place_vars, reg_vars, event_vars
<1>14. ASSUME NEW v \in Vcpus, NEW p \in Procs, NEW r \in Registers, GuestWrites(p, v, r)
       PROVE  TypeOK'
  <2>1. if' \in [Vcpus -> BOOLEAN] /\ nmi_blocked' \in [Vcpus -> BOOLEAN]
    <3>1. /\ if' = if \/ \E b \in BOOLEAN : if' = [if EXCEPT ![v] = b]
          /\ nmi_blocked' \in {nmi_blocked, [nmi_blocked EXCEPT ![v] = FALSE]}
      BY <1>14 DEF GuestWrites
    <3> QED BY <3>1 DEF TypeOK
  <2>2. fresh_vmcs' \in [Vcpus -> SUBSET Regs] /\ fresh_header' \in [Vcpus -> SUBSET Regs]
    BY <1>14 DEF TypeOK, GuestWrites, Written
  <2> QED BY <1>14, <2>1, <2>2 DEF TypeOK, GuestWrites, proc_vars, place_vars
<1>15. ASSUME NEW v \in Vcpus, NEW p \in Procs, NEW n \in 0 .. Top, WriteCr8(p, v, n)
       PROVE  TypeOK'
  <2>1. /\ injection' \in [Vcpus -> Injections]
        /\ windows' \in [Vcpus -> SUBSET {"interrupt", "nmi"}]
    <3>1. External(event[v].ec_valid) \in Injections
      BY EventType DEF TypeOK, External, Injections
    <3> QED BY <1>15, <3>1, InjectTypes DEF WriteCr8, TypeOK, Injections
  <2> QED BY <1>15, <2>1 DEF TypeOK, WriteCr8, Reenter, Injections, place_vars, reg_vars
<1> QED
  BY <1>1, <1>2, <1>3, <1>4, <1>5, <1>6, <1>7, <1>8, <1>9, <1>10, <1>11, <1>12, <1>13, <1>14, <1>15
  DEF Next

LEMMA InitTypes == Init => TypeOK
<1>1. NoEvent \in Events BY DEF Events
<1> QED BY <1>1 DEF Init, TypeOK, NoInjection

-----------------------------------------------------------------------------
(* The invariant.                                                          *)

Kept == Regs \ {"kgs"}

\* While a vCPU is on a processor, it is at home, its VMCS is as it should be, and once
\* entered it is launched.
Placed(v) ==
  \A p \in Procs : current[p] = v =>
    /\ home[v] = p /\ valid[v] = Groups /\ Kept \subseteq fresh_vmcs[v]
    /\ p \in entered => v \in launched /\ ~ initial_vmcs[p]

\* Otherwise a valid group is in the VMCS, and what may have to be loaded in the header.
Cached(v) ==
  ~ Running(v) => \A r \in Kept :
    /\ Group(r) \in valid[v] => r \in fresh_vmcs[v]
    /\ Group(r) \notin valid[v] \ {"gpr"} => r \in fresh_header[v]

\* An injection that an entry can deliver is one that the guest may take; that of an
\* interrupt is delivered by the next entry.
Deliverable(v) ==
  /\ injection[v].type = "nmi" => ~ nmi_blocked[v]
  /\ injection[v].type = "ext" /\ ~ injection[v].ec =>
       /\ if[v] /\ event[v].priority > cr8[v]
       /\ \E p \in Procs : current[p] = v /\ p \notin entered /\ LaunchMatches(p, v)

Sound(v) == Placed(v) /\ Cached(v) /\ Deliverable(v)

IInv == TypeOK /\ InterruptsRespected /\ \A v \in Vcpus : Sound(v)

\* The step is about v alone.
Concerns(v) ==
  /\ \A u \in Vcpus \ {v} :
       /\ home'[u] = home[u] /\ valid'[u] = valid[u] /\ (u \in launched' <=> u \in launched)
       /\ fresh_header'[u] = fresh_header[u] /\ fresh_vmcs'[u] = fresh_vmcs[u]
       /\ injection'[u] = injection[u] /\ nmi_blocked'[u] = nmi_blocked[u]
       /\ if'[u] = if[u] /\ event'[u] = event[u] /\ cr8'[u] = cr8[u]
  /\ \A q \in Procs :
       \/ /\ current'[q] = current[q] /\ initial_vmcs'[q] = initial_vmcs[q]
          /\ q \in entered' <=> q \in entered
       \/ {current[q], current'[q]} \subseteq {Host, v}

LEMMA OthersSound ==
  ASSUME NEW v \in Vcpus, Concerns(v), NEW u \in Vcpus \ {v}, Sound(u)
  PROVE  Sound(u)'
<1>1. u # Host /\ u # v OBVIOUS
<1>2. \A q \in Procs : current'[q] = u <=> current[q] = u BY <1>1 DEF Concerns
<1>3. \A q \in Procs : current[q] = u =>
        initial_vmcs'[q] = initial_vmcs[q] /\ (q \in entered' <=> q \in entered)
  BY <1>1 DEF Concerns
<1>4. Placed(u)' BY <1>2, <1>3 DEF Concerns, Sound, Placed
<1>5. Cached(u)' BY <1>2 DEF Concerns, Sound, Cached, Running
<1>6. \A q \in Procs : current[q] = u /\ LaunchMatches(q, u) => LaunchMatches(q, u)'
  BY <1>3 DEF LaunchMatches, Concerns
<1>7. Deliverable(u)' BY <1>2, <1>3, <1>6 DEF Concerns, Sound, Deliverable
<1> QED BY <1>4, <1>5, <1>7 DEF Sound

LEMMA OneProcessor ==
  ASSUME NEW v \in Vcpus, Sound(v), NEW p \in Procs, current[p] = v
  PROVE  \A q \in Procs : current[q] = v <=> q = p
BY DEF Sound, Placed

-----------------------------------------------------------------------------
(* Steps.                                                                  *)

\* The host deals with a vCPU that is on no processor: its registers stay covered, and
\* nothing deliverable is in its way.
LEMMA HostStep ==
  ASSUME NEW v \in Vcpus, Sound(v), ~ Running(v),
         UNCHANGED <<current, initial_vmcs, entered, injection, nmi_blocked>>,
         Cached(v)'
  PROVE  Sound(v)'
<1>1. Placed(v)' BY DEF Placed, Running
<1>2. Deliverable(v)' BY DEF Sound, Deliverable, Running
<1> QED BY <1>1, <1>2 DEF Sound

LEMMA EditStep ==
  ASSUME TypeOK, NEW v \in Vcpus, Sound(v), NEW R \in Units, Edit(v, R)
  PROVE  Sound(v)' /\ Concerns(v)
<1>1. /\ ~ Running(v) /\ R \subseteq Regs
      /\ fresh_header' = [fresh_header EXCEPT ![v] = @ \cup R]
      /\ fresh_vmcs' = [fresh_vmcs EXCEPT ![v] = @ \ R]
      /\ valid' = [valid EXCEPT ![v] = @ \ {Group(r) : r \in R}]
      /\ UNCHANGED <<proc_vars, home, launched, injection, nmi_blocked, event, cr8>>
      /\ if' = if \/ \E b \in BOOLEAN : if' = [if EXCEPT ![v] = b]
  BY DEF Edit, place_vars
<1>2. \A r \in Kept \ R : Group(r) # "gpr" => Group(r) \notin {Group(s) : s \in R}
  <2>1. CASE R \in {{"rip"}, {"rsp"}}
    <3>1. Group("rip") = "gpr" /\ Group("rsp") = "gpr" BY DEF Group
    <3>2. \A s \in R : Group(s) = "gpr" BY <2>1, <3>1
    <3> QED BY <3>2
  <2>2. CASE R \notin {{"rip"}, {"rsp"}}
    <3>1. PICK g \in (Groups \ {"gpr"}) \cup {"none"} : R = {r \in Regs : Group(r) = g}
      BY <2>2 DEF Units
    <3> QED BY <3>1 DEF Kept
  <2> QED BY <2>1, <2>2
<1>3. /\ fresh_header'[v] = fresh_header[v] \cup R /\ fresh_vmcs'[v] = fresh_vmcs[v] \ R
      /\ valid'[v] = valid[v] \ {Group(r) : r \in R}
  BY <1>1 DEF TypeOK
<1>4. Cached(v)'
  <2>1. ASSUME NEW r \in Kept
        PROVE  /\ Group(r) \in valid'[v] => r \in fresh_vmcs'[v]
               /\ Group(r) \notin valid'[v] \ {"gpr"} => r \in fresh_header'[v]
    <3>1. CASE r \in R BY <1>3, <3>1
    <3>2. CASE r \notin R
      <4>1. /\ Group(r) \in valid[v] => r \in fresh_vmcs[v]
            /\ Group(r) \notin valid[v] \ {"gpr"} => r \in fresh_header[v]
        BY <1>1 DEF Sound, Cached
      <4> QED BY <1>2, <1>3, <3>2, <4>1
    <3> QED BY <3>1, <3>2
  <2> QED BY <2>1 DEF Cached, Kept
<1>5. Sound(v)' BY <1>1, <1>4, HostStep DEF proc_vars
<1>6. Concerns(v) BY <1>1 DEF TypeOK, Concerns, proc_vars
<1> QED BY <1>5, <1>6

LEMMA HostSteps ==
  ASSUME TypeOK, NEW v \in Vcpus, Sound(v), NEW p \in Procs,
         \/ CreateVcpu(p, v) \/ Dump(p, v)
         \/ \E e \in Events : SetEvent(v, e)
         \/ \E n \in 0 .. Top : EditCr8(v, n)
  PROVE  Sound(v)' /\ Concerns(v)
<1>1. ~ Running(v)
  <2>1. CASE CreateVcpu(p, v) BY <2>1 DEF CreateVcpu, Sound, Placed, Running
  <2>2. CASE ~ CreateVcpu(p, v) BY <2>2 DEF Dump, SetEvent, EditCr8
  <2> QED BY <2>1, <2>2
<1>2. UNCHANGED <<current, initial_vmcs, entered, launched, injection, nmi_blocked, if, valid, fresh_vmcs>>
  BY DEF CreateVcpu, Dump, SetEvent, EditCr8, proc_vars, place_vars, reg_vars, event_vars
<1>3. Cached(v)'
  <2>1. CASE Dump(p, v)
    <3>1. \A r \in fresh_header[v] \ fresh_header'[v] : Group(r) \in valid[v] \ {"gpr"}
      BY <2>1 DEF TypeOK, Dump
    <3> QED BY <1>1, <1>2, <3>1 DEF Sound, Cached
  <2>2. CASE ~ Dump(p, v)
    <3>1. fresh_header' = fresh_header
      BY <2>2 DEF CreateVcpu, SetEvent, EditCr8, reg_vars
    <3> QED BY <1>1, <1>2, <3>1 DEF Sound, Cached
  <2> QED BY <2>1, <2>2
<1>4. Sound(v)' BY <1>1, <1>2, <1>3, HostStep
<1>5. Concerns(v)
  <2>1. \A u \in Vcpus \ {v} : /\ home'[u] = home[u] /\ fresh_header'[u] = fresh_header[u]
                               /\ event'[u] = event[u] /\ cr8'[u] = cr8[u]
    BY DEF TypeOK, CreateVcpu, Dump, SetEvent, EditCr8, place_vars, reg_vars, event_vars
  <2> QED BY <1>2, <2>1 DEF Concerns
<1> QED BY <1>4, <1>5

\* A vCPU is switched to: it was on no processor, since this one is its home.
LEMMA SwitchStep ==
  ASSUME TypeOK, Pinned, NEW p \in Procs, NEW v \in Vcpus, Sound(v), SwitchToGuest(p, v)
  PROVE  Sound(v)' /\ Concerns(v)
<1>1. /\ current[p] = Host /\ p \in entered /\ home[v] = p
      /\ current' = [current EXCEPT ![p] = v] /\ entered' = entered \ {p}
      /\ fresh_vmcs' = [fresh_vmcs EXCEPT ![v] = (@ \ Loaded(v)) \cup (Loaded(v) \cap fresh_header[v])]
      /\ valid' = [valid EXCEPT ![v] = Groups]
      /\ InjectAtSwitch(v)
      /\ UNCHANGED <<home, fresh_header, event, cr8, if, nmi_blocked>>
  BY DEF SwitchToGuest, HostRuns
<1>2. \/ /\ proc_id' = [proc_id EXCEPT ![v] = p] /\ launched' = launched \ {v}
         /\ initial_vmcs' = [initial_vmcs EXCEPT ![p] = TRUE]
      \/ UNCHANGED <<proc_id, launched, initial_vmcs>>
  BY DEF SwitchToGuest
<1>3. ~ Running(v) BY <1>1 DEF Sound, Placed, Running
<1>4. \A q \in Procs : current'[q] = v <=> q = p
  BY <1>1, <1>3 DEF TypeOK, Running
<1>5. Kept \subseteq fresh_vmcs'[v]
  <2>1. fresh_vmcs'[v] = (fresh_vmcs[v] \ Loaded(v)) \cup (Loaded(v) \cap fresh_header[v])
    BY <1>1 DEF TypeOK
  <2>2. \A r \in Kept : /\ r \in Loaded(v) => r \in fresh_header[v]
                        /\ r \notin Loaded(v) => r \in fresh_vmcs[v]
    BY <1>3 DEF Loaded, Sound, Cached, Kept
  <2> QED BY <2>1, <2>2
<1>6. Placed(v)' BY <1>1, <1>4, <1>5 DEF TypeOK, Placed
<1>7. Cached(v)' BY <1>4 DEF Cached, Running
<1>8. injection'[v].type = "ext" => injection'[v].ec
  <2>1. injection[v].type = "ext" => injection[v].ec BY <1>3 DEF Sound, Deliverable, Running
  <2>2. \/ injection' = injection
        \/ \E i \in {NoInjection, [type |-> "exc", ec |-> FALSE], External(TRUE), Nmi} :
             injection' = [injection EXCEPT ![v] = i]
    BY <1>1 DEF InjectAtSwitch, Inject, OpenWindow
  <2> QED BY <2>1, <2>2 DEF TypeOK, NoInjection, External, Nmi
<1>9. injection'[v].type = "nmi" => ~ nmi_blocked[v]
  <2>1. injection[v].type = "nmi" => ~ nmi_blocked[v] BY DEF Sound, Deliverable
  <2>2. \/ injection' = injection
        \/ \E i \in {NoInjection, [type |-> "exc", ec |-> FALSE], External(TRUE)} :
             injection' = [injection EXCEPT ![v] = i]
        \/ ~ nmi_blocked[v]
    BY <1>1 DEF InjectAtSwitch, Inject, OpenWindow
  <2> QED BY <2>1, <2>2 DEF TypeOK, NoInjection, External
<1>10. Deliverable(v)' BY <1>1, <1>8, <1>9 DEF Deliverable
<1>11. Concerns(v)
  <2>1. injection' = injection \/ \E i : injection' = [injection EXCEPT ![v] = i]
    BY <1>1 DEF InjectAtSwitch, Inject, OpenWindow
  <2>2. \A u \in Vcpus \ {v} : injection'[u] = injection[u] BY <2>1 DEF TypeOK
  <2>3. \A u \in Vcpus \ {v} : /\ home'[u] = home[u] /\ valid'[u] = valid[u]
                               /\ (u \in launched' <=> u \in launched)
                               /\ fresh_vmcs'[u] = fresh_vmcs[u]
    BY <1>1, <1>2 DEF TypeOK
  <2>4. \A q \in Procs \ {p} : /\ current'[q] = current[q] /\ initial_vmcs'[q] = initial_vmcs[q]
                               /\ q \in entered' <=> q \in entered
    BY <1>1, <1>2 DEF TypeOK
  <2>5. {current[p], current'[p]} \subseteq {Host, v} BY <1>1, <1>4
  <2> QED BY <1>1, <2>2, <2>3, <2>4, <2>5 DEF Concerns
<1> QED BY <1>6, <1>7, <1>10, <1>11 DEF Sound

\* A vCPU goes back to the host, with its registers saved; an interrupt that could
\* have been delivered is not among what is left over.
LEMMA ReturnStep ==
  ASSUME TypeOK, NEW p \in Procs, NEW v \in Vcpus, Sound(v), current[p] = v,
         NEW saved, SwitchToHost(p, v, saved),
         initial_vmcs' = initial_vmcs \/ initial_vmcs' = [initial_vmcs EXCEPT ![p] = FALSE],
         injection[v].type = "ext" => injection[v].ec,
         UNCHANGED <<launched, event, cr8, if, nmi_blocked, injection>>
  PROVE  Sound(v)' /\ Concerns(v)
<1> DEFINE S == (Saved \cup saved) \cap Regs
<1>1. /\ fresh_header' = [fresh_header EXCEPT ![v] = (@ \ S) \cup (S \cap fresh_vmcs[v])]
      /\ current' = [current EXCEPT ![p] = Host] /\ entered' = entered \cup {p}
      /\ UNCHANGED <<home, valid, fresh_vmcs>>
  BY DEF SwitchToHost
<1>2. valid[v] = Groups /\ Kept \subseteq fresh_vmcs[v] BY DEF Sound, Placed
<1>3. \A q \in Procs : current'[q] # v BY <1>1, OneProcessor DEF TypeOK
<1>4. Placed(v)' BY <1>3 DEF Placed
<1>5. Cached(v)'
  <2>1. ASSUME NEW r \in Kept, Group(r) \notin Groups \ {"gpr"} PROVE r \in fresh_header'[v]
    <3>1. r \in Saved BY <2>1 DEF Kept, Registers, Group, Groups, Saved
    <3>2. r \in S \cap fresh_vmcs[v] BY <1>2, <3>1 DEF Kept
    <3> HIDE DEF S
    <3> QED BY <1>1, <3>2 DEF TypeOK
  <2> QED BY <1>1, <1>2, <2>1 DEF Cached, Kept
<1>6. Deliverable(v)' BY DEF Sound, Deliverable
<1>7. Concerns(v)
  <2> HIDE DEF S
  <2>1. \A u \in Vcpus \ {v} : fresh_header'[u] = fresh_header[u] BY <1>1 DEF TypeOK
  <2>2. \A q \in Procs \ {p} : /\ current'[q] = current[q] /\ initial_vmcs'[q] = initial_vmcs[q]
                               /\ q \in entered' <=> q \in entered
    BY <1>1 DEF TypeOK
  <2>3. {current[p], current'[p]} \subseteq {Host, v} BY <1>1 DEF TypeOK
  <2> QED BY <1>1, <2>1, <2>2, <2>3 DEF Concerns
<1> QED BY <1>4, <1>5, <1>6, <1>7 DEF Sound

\* An exit resumes the guest: its next entry is a vmresume of a launched VMCS.
LEMMA ResumeStep ==
  ASSUME TypeOK, NEW p \in Procs, NEW v \in Vcpus, Sound(v), GuestRuns(p, v), Reenter(p),
         UNCHANGED <<current, initial_vmcs, home, launched, valid, event, if, nmi_blocked>>,
         fresh_vmcs' = fresh_vmcs \/ \E F \in SUBSET Regs : fresh_vmcs' = [fresh_vmcs EXCEPT ![v] = @ \cup F],
         fresh_header' = fresh_header \/ \E F : fresh_header' = [fresh_header EXCEPT ![v] = @ \ F],
         injection' = injection \/ \E i : injection' = [injection EXCEPT ![v] = i],
         cr8' = cr8 \/ \E n : cr8' = [cr8 EXCEPT ![v] = n],
         injection'[v].type = "nmi" => ~ nmi_blocked[v],
         injection'[v].type = "ext" /\ ~ injection'[v].ec => if[v] /\ event[v].priority > cr8'[v]
  PROVE  Sound(v)' /\ Concerns(v)
<1>1. current[p] = v /\ p \in entered /\ entered' = entered \ {p} BY DEF GuestRuns, Reenter
<1>2. \A q \in Procs : current[q] = v <=> q = p BY <1>1, OneProcessor
<1>3. fresh_vmcs[v] \subseteq fresh_vmcs'[v] BY DEF TypeOK
<1>4. Placed(v)' BY <1>1, <1>2, <1>3 DEF Sound, Placed
<1>5. Cached(v)' BY <1>1 DEF Cached, Running
<1>6. LaunchMatches(p, v)'
  <2>1. v \in launched /\ ~ initial_vmcs[p] BY <1>1 DEF Sound, Placed
  <2>2. v \in launched' /\ ~ initial_vmcs'[p] BY <2>1
  <2>3. (initial_vmcs[p])' \in BOOLEAN BY DEF TypeOK
  <2> QED BY <2>2, <2>3 DEF LaunchMatches
<1>7. p \notin entered' BY <1>1
<1>8. Deliverable(v)' BY <1>1, <1>6, <1>7 DEF Deliverable
<1>9. \A u \in Vcpus \ {v} : /\ fresh_vmcs'[u] = fresh_vmcs[u] /\ fresh_header'[u] = fresh_header[u]
                             /\ injection'[u] = injection[u] /\ cr8'[u] = cr8[u]
  BY DEF TypeOK
<1>10. \A q \in Procs \ {p} : q \in entered' <=> q \in entered BY <1>1
<1>11. Concerns(v) BY <1>1, <1>9, <1>10 DEF Concerns
<1> QED BY <1>4, <1>5, <1>8, <1>11 DEF Sound

\* Once entered, nothing is left of an interrupt that could be delivered.
LEMMA NothingToDeliver ==
  ASSUME NEW p \in Procs, NEW v \in Vcpus, Sound(v), GuestRuns(p, v)
  PROVE  injection[v].type = "ext" => injection[v].ec
<1>1. current[p] = v /\ p \in entered BY DEF GuestRuns
<1> QED BY <1>1, OneProcessor DEF Sound, Deliverable

LEMMA ExitStep ==
  ASSUME TypeOK, NEW p \in Procs, NEW v \in Vcpus, Sound(v), GuestExit(p, v)
  PROVE  Sound(v)' /\ Concerns(v)
<1>1. GuestRuns(p, v) /\ (ToHost(p, v) \/ ToGuest(p, v)) BY ExitEnds
<1>2. injection[v].type = "ext" => injection[v].ec BY <1>1, NothingToDeliver
<1>3. CASE ToHost(p, v)
  <2>1. PICK saved : SwitchToHost(p, v, saved) BY <1>3 DEF ToHost
  <2>2. UNCHANGED <<initial_vmcs, launched, event, cr8, if, nmi_blocked, injection>>
    BY <1>3 DEF ToHost, event_vars
  <2>3. current[p] = v BY <1>1 DEF GuestRuns
  <2> QED BY <1>2, <2>1, <2>2, <2>3, ReturnStep
<1>4. CASE ToGuest(p, v)
  <2>1. /\ Reenter(p)
        /\ UNCHANGED <<current, initial_vmcs, home, launched, valid, event, cr8, if, nmi_blocked>>
    BY <1>4 DEF ToGuest, Stay, place_vars
  <2>2. /\ \E F \in SUBSET Regs : fresh_vmcs' = [fresh_vmcs EXCEPT ![v] = @ \cup F]
        /\ \E F : fresh_header' = [fresh_header EXCEPT ![v] = @ \ F]
        /\ injection' \in {injection, [injection EXCEPT ![v] = [type |-> "exc", ec |-> FALSE]]}
    BY <1>4 DEF ToGuest
  <2>3. injection'[v] = injection[v] \/ injection'[v].type = "exc" BY <2>2 DEF TypeOK
  <2>4. injection'[v].type = "nmi" => ~ nmi_blocked[v] BY <2>3 DEF Sound, Deliverable
  <2>5. ~ (injection'[v].type = "ext" /\ ~ injection'[v].ec) BY <1>2, <2>3
  <2> QED BY <1>1, <2>1, <2>2, <2>4, <2>5, ResumeStep
<1> QED BY <1>1, <1>3, <1>4

\* Both windows inject only what the guest may take now.
LEMMA WindowStep ==
  ASSUME TypeOK, NEW p \in Procs, NEW v \in Vcpus, Sound(v),
         InterruptWindow(p, v) \/ NmiWindow(p, v)
  PROVE  Sound(v)' /\ Concerns(v)
<1>1. GuestRuns(p, v) /\ UNCHANGED <<initial_vmcs, launched, event, cr8, if, nmi_blocked>>
  BY DEF InterruptWindow, NmiWindow
<1>2. injection[v].type = "ext" => injection[v].ec BY <1>1, NothingToDeliver
<1>3. \/ injection' = injection
      \/ Reenter(p) /\ if[v] /\ Above(v) /\ injection' = [injection EXCEPT ![v] = External(event[v].ec_valid)]
      \/ Reenter(p) /\ ~ nmi_blocked[v] /\ injection' = [injection EXCEPT ![v] = Nmi]
  BY DEF InterruptWindow, NmiWindow, Inject
<1>4. \/ Reenter(p) /\ UNCHANGED <<current, custom_vcpu, lost, home, proc_id, reg_vars>>
      \/ SwitchToHost(p, v, {"rip", "cs"}) /\ injection' = injection
  BY DEF InterruptWindow, NmiWindow
<1>5. CASE SwitchToHost(p, v, {"rip", "cs"}) /\ injection' = injection
  <2>1. current[p] = v BY <1>1 DEF GuestRuns
  <2> QED BY <1>1, <1>2, <1>5, <2>1, ReturnStep
<1>6. CASE Reenter(p) /\ UNCHANGED <<current, custom_vcpu, lost, home, proc_id, reg_vars>>
  <2>1. injection' = injection \/ \E i : injection' = [injection EXCEPT ![v] = i] BY <1>3
  <2>2. injection'[v].type = "nmi" => ~ nmi_blocked[v]
    BY <1>3 DEF TypeOK, Sound, Deliverable, External
  <2>3. injection'[v].type = "ext" /\ ~ injection'[v].ec => if[v] /\ event[v].priority > cr8'[v]
    BY <1>1, <1>2, <1>3 DEF TypeOK, Above, Nmi
  <2> QED BY <1>1, <1>6, <2>1, <2>2, <2>3, ResumeStep DEF reg_vars
<1> QED BY <1>4, <1>5, <1>6

\* The write of CR8 compares with the priority that it writes.
LEMMA Cr8Step ==
  ASSUME TypeOK, NEW p \in Procs, NEW v \in Vcpus, Sound(v), NEW n \in 0 .. Top, WriteCr8(p, v, n)
  PROVE  Sound(v)' /\ Concerns(v)
<1>1. /\ GuestRuns(p, v) /\ Reenter(p) /\ cr8' = [cr8 EXCEPT ![v] = n]
      /\ UNCHANGED <<current, initial_vmcs, home, launched, valid, event, if, nmi_blocked, fresh_vmcs, fresh_header>>
  BY DEF WriteCr8, place_vars, reg_vars
<1>2. injection[v].type = "ext" => injection[v].ec BY <1>1, NothingToDeliver
<1>3. cr8'[v] = n BY <1>1 DEF TypeOK
<1>4. \/ injection' = injection
      \/ /\ n < event[v].priority /\ if[v]
         /\ injection' = [injection EXCEPT ![v] = External(event[v].ec_valid)]
  BY DEF WriteCr8, Inject, OpenWindow
<1>5. injection'[v].type = "nmi" => ~ nmi_blocked[v]
  BY <1>4 DEF TypeOK, Sound, Deliverable, External
<1>6. injection'[v].type = "ext" /\ ~ injection'[v].ec => if[v] /\ event[v].priority > cr8'[v]
  <2>1. CASE injection' = injection BY <1>2, <2>1
  <2>2. CASE n < event[v].priority /\ if[v]
    <3>1. event[v].priority \in Nat BY EventType DEF TypeOK
    <3> QED BY <1>3, <2>2, <3>1
  <2> QED BY <1>4, <2>1, <2>2
<1>7. injection' = injection \/ \E i : injection' = [injection EXCEPT ![v] = i] BY <1>4
<1> QED BY <1>1, <1>5, <1>6, <1>7, ResumeStep

\* The guest is entered; what it takes is what it may take.
LEMMA EnterStep ==
  ASSUME TypeOK, NEW p \in Procs, NEW v \in Vcpus, Sound(v), Enter(p, v), InterruptsRespected
  PROVE  Sound(v)' /\ Concerns(v) /\ InterruptsRespected'
<1>1. /\ current[p] = v /\ ~ injection[v].ec
      /\ initial_vmcs' = [initial_vmcs EXCEPT ![p] = FALSE] /\ launched' = launched \cup {v}
      /\ entered' = entered \cup {p} /\ took' = took \cup Wrongs(v)
      /\ if' = [if EXCEPT ![v] = @ /\ injection[v].type = "none"]
      /\ nmi_blocked' = [nmi_blocked EXCEPT ![v] = @ \/ injection[v].type = "nmi"]
      /\ injection' = [injection EXCEPT ![v] = NoInjection]
      /\ UNCHANGED <<current, home, valid, fresh_header, fresh_vmcs, event, cr8>>
  BY DEF Enter, reg_vars
<1>2. \A q \in Procs : current[q] = v <=> q = p BY <1>1, OneProcessor
<1>3. Placed(v)'
  <2>1. v \in launched' /\ ~ initial_vmcs'[p] BY <1>1 DEF TypeOK
  <2> QED BY <1>1, <1>2, <2>1 DEF Sound, Placed
<1>4. Cached(v)' BY <1>1 DEF Cached, Running
<1>5. Deliverable(v)'
  <2>1. injection'[v] = NoInjection BY <1>1 DEF TypeOK
  <2> QED BY <2>1 DEF Deliverable, NoInjection
<1>6. Wrongs(v) \cap {"masked", "low", "nested"} = {}
  <2>1. CASE injection[v].type = "ext"
    <3>1. if[v] /\ event[v].priority > cr8[v] BY <1>1, <2>1 DEF Sound, Deliverable
    <3>2. event[v].priority \in Nat /\ cr8[v] \in Nat BY EventType DEF TypeOK
    <3>3. ~ (event[v].priority <= cr8[v]) BY <3>1, <3>2
    <3>4. "masked" \notin Wrongs(v) /\ "low" \notin Wrongs(v) /\ "nested" \notin Wrongs(v)
      BY <2>1, <3>1, <3>3 DEF Wrongs
    <3> QED BY <3>4
  <2>2. CASE injection[v].type # "ext"
    <3>1. injection[v].type = "nmi" => ~ nmi_blocked[v] BY DEF Sound, Deliverable
    <3> QED BY <2>2, <3>1 DEF Wrongs
  <2> QED BY <2>1, <2>2
<1>7. InterruptsRespected' BY <1>1, <1>6 DEF InterruptsRespected
<1>8. Concerns(v)
  <2>1. \A u \in Vcpus \ {v} : /\ injection'[u] = injection[u] /\ nmi_blocked'[u] = nmi_blocked[u]
                               /\ if'[u] = if[u] /\ (u \in launched' <=> u \in launched)
    BY <1>1 DEF TypeOK
  <2>2. \A q \in Procs \ {p} : initial_vmcs'[q] = initial_vmcs[q] /\ (q \in entered' <=> q \in entered)
    BY <1>1 DEF TypeOK
  <2> QED BY <1>1, <2>1, <2>2 DEF Concerns
<1> QED BY <1>3, <1>4, <1>5, <1>7, <1>8 DEF Sound

LEMMA FailStep ==
  ASSUME TypeOK, NEW p \in Procs, NEW v \in Vcpus, Sound(v),
         EntryFails(p, v) \/ InvalidStateExit(p, v)
  PROVE  Sound(v)' /\ Concerns(v)
<1>1. /\ current[p] = v /\ p \notin entered /\ SwitchToHost(p, v, {})
      /\ initial_vmcs' = [initial_vmcs EXCEPT ![p] = FALSE]
      /\ UNCHANGED <<launched, event, cr8, if, nmi_blocked, injection>>
  BY DEF EntryFails, InvalidStateExit, event_vars
<1>2. injection[v].type = "ext" => injection[v].ec
  <2>1. CASE EntryFails(p, v)
    <3>1. ~ LaunchMatches(p, v) \/ injection[v].ec BY <2>1 DEF EntryFails
    <3>2. injection[v].type = "ext" /\ ~ injection[v].ec =>
            \E q \in Procs : current[q] = v /\ LaunchMatches(q, v)
      BY DEF Sound, Deliverable
    <3> QED BY <1>1, <3>1, <3>2, OneProcessor DEF TypeOK
  <2>2. CASE InvalidStateExit(p, v) BY <2>2 DEF InvalidStateExit
  <2> QED BY <2>1, <2>2
<1> QED BY <1>1, <1>2, ReturnStep

LEMMA GuestStep ==
  ASSUME TypeOK, NEW p \in Procs, NEW v \in Vcpus, Sound(v), NEW r \in Registers,
         GuestWrites(p, v, r)
  PROVE  Sound(v)' /\ Concerns(v)
<1>1. /\ GuestRuns(p, v) /\ current[p] = v /\ r \in Regs
      /\ fresh_vmcs' = [fresh_vmcs EXCEPT ![v] = @ \cup {r}]
      /\ fresh_header' = [fresh_header EXCEPT ![v] = @ \ {r}]
      /\ if' = if \/ \E b \in BOOLEAN : if' = [if EXCEPT ![v] = b]
      /\ nmi_blocked' \in {nmi_blocked, [nmi_blocked EXCEPT ![v] = FALSE]}
      /\ UNCHANGED <<current, initial_vmcs, entered, home, launched, valid, event, cr8, injection>>
  BY DEF GuestWrites, Written, GuestRuns, proc_vars, place_vars
<1>2. fresh_vmcs[v] \subseteq fresh_vmcs'[v] BY <1>1 DEF TypeOK
<1>3. Placed(v)' BY <1>1, <1>2 DEF Sound, Placed
<1>4. Cached(v)' BY <1>1 DEF Cached, Running
<1>5. injection[v].type = "ext" => injection[v].ec BY <1>1, NothingToDeliver
<1>6. nmi_blocked'[v] => nmi_blocked[v] BY <1>1 DEF TypeOK
<1>7. Deliverable(v)' BY <1>1, <1>5, <1>6 DEF Sound, Deliverable
<1>8. \A u \in Vcpus \ {v} : /\ fresh_vmcs'[u] = fresh_vmcs[u] /\ fresh_header'[u] = fresh_header[u]
                             /\ if'[u] = if[u] /\ nmi_blocked'[u] = nmi_blocked[u]
  BY <1>1 DEF TypeOK
<1>9. Concerns(v) BY <1>1, <1>8 DEF Concerns
<1> QED BY <1>3, <1>4, <1>7, <1>9 DEF Sound

-----------------------------------------------------------------------------
(* The theorems.                                                           *)

LEMMA InitInv == Init => IInv
<1> SUFFICES ASSUME Init PROVE IInv
  OBVIOUS
<1>1. TypeOK BY InitTypes
<1>2. InterruptsRespected BY DEF Init, InterruptsRespected
<1>3. ASSUME NEW v \in Vcpus PROVE Sound(v)
  BY DEF Init, Sound, Placed, Cached, Deliverable, NoInjection, Kept
<1> QED BY <1>1, <1>2, <1>3 DEF IInv

LEMMA NextInv ==
  ASSUME Pinned, IInv, [Next]_vars
  PROVE  IInv'
<1>1. TypeOK /\ InterruptsRespected /\ \A v \in Vcpus : Sound(v) BY DEF IInv
<1>2. TypeOK' BY <1>1, TypeStep
<1>3. ASSUME NEW v \in Vcpus, Sound(v)' /\ Concerns(v) PROVE \A u \in Vcpus : Sound(u)'
  BY <1>1, <1>3, OthersSound
<1>4. CASE UNCHANGED vars \/ (SetMapping /\ UNCHANGED <<proc_vars, place_vars, reg_vars, event_vars, took>>)
  <2>1. UNCHANGED <<proc_vars, place_vars, reg_vars, event_vars, took>> BY <1>4 DEF vars
  <2>2. \A v \in Vcpus : Sound(v)'
    BY <1>1, <2>1 DEF Sound, Placed, Cached, Deliverable, Running, LaunchMatches,
         proc_vars, place_vars, reg_vars, event_vars
  <2> QED BY <1>1, <1>2, <2>1, <2>2 DEF IInv, InterruptsRespected
<1>5. ASSUME NEW v \in Vcpus, NEW p \in Procs, Enter(p, v) PROVE IInv'
  BY <1>1, <1>2, <1>3, <1>5, EnterStep DEF IInv
<1>6. ASSUME NEW v \in Vcpus, NEW R \in Units, Edit(v, R) PROVE IInv'
  <2>1. Sound(v)' /\ Concerns(v) BY <1>1, <1>6, EditStep
  <2>2. InterruptsRespected' BY <1>1, <1>6 DEF Edit, InterruptsRespected
  <2> QED BY <1>2, <1>3, <2>1, <2>2 DEF IInv
<1>7. ASSUME NEW v \in Vcpus, (\E e \in Events : SetEvent(v, e)) \/ \E n \in 0 .. Top : EditCr8(v, n)
      PROVE  IInv'
  <2>1. Sound(v)' /\ Concerns(v)
    <3>1. home[v] \in Procs BY <1>1, <1>7 DEF SetEvent, EditCr8, TypeOK
    <3> QED BY <1>1, <1>7, <3>1, HostSteps
  <2>2. InterruptsRespected' BY <1>1, <1>7 DEF SetEvent, EditCr8, InterruptsRespected
  <2> QED BY <1>2, <1>3, <2>1, <2>2 DEF IInv
<1>8. ASSUME NEW v \in Vcpus, NEW p \in Procs,
             \/ CreateVcpu(p, v) \/ Dump(p, v) \/ SwitchToGuest(p, v)
             \/ EntryFails(p, v) \/ InvalidStateExit(p, v) \/ GuestExit(p, v)
             \/ InterruptWindow(p, v) \/ NmiWindow(p, v)
             \/ \E r \in Registers : GuestWrites(p, v, r)
             \/ \E n \in 0 .. Top : WriteCr8(p, v, n)
      PROVE  IInv'
  <2>1. Sound(v)' /\ Concerns(v)
    BY <1>1, <1>8, HostSteps, SwitchStep, FailStep, ExitStep, WindowStep, GuestStep, Cr8Step
  <2>2. took' = took
    BY <1>8 DEF CreateVcpu, Dump, SwitchToGuest, EntryFails, InvalidStateExit, GuestExit,
         InterruptWindow, NmiWindow, GuestWrites, WriteCr8
  <2> QED BY <1>1, <1>2, <1>3, <2>1, <2>2 DEF IInv, InterruptsRespected
<1>9. ASSUME NEW v \in Vcpus, NEW p \in Procs, ExitElsewhere(p, v) PROVE IInv'
  BY <1>1, <1>9 DEF ExitElsewhere, Sound, Placed
<1> QED BY <1>4, <1>5, <1>6, <1>7, <1>8, <1>9 DEF Next

\* Every variable keeps its type, for every use of the interface.
THEOREM TypeCorrect == Spec => []TypeOK
<1>1. Init => TypeOK BY InitTypes
<1>2. TypeOK /\ [Next]_vars => TypeOK' BY TypeStep
<1> QED BY <1>1, <1>2, PTL DEF Spec

\* When vCPUs run where they were created, Sound holds of each of them.
THEOREM InvariantHolds ==
  ASSUME Pinned
  PROVE  Spec => []IInv
<1>1. Init => IInv BY InitInv
<1>2. IInv /\ [Next]_vars => IInv' BY NextInv
<1> QED BY <1>1, <1>2, PTL DEF Spec

\* A guest runs with what the host or it has written last in every register but
\* Kernel-GS-Base, however edits of parts of a group, dumps of the wrong VMCS, failed
\* entries and exits follow each other (nvc_vt_switch_to_guest_vcpu and
\* nvc_vt_switch_to_host_vcpu).
THEOREM GuestStateCorrect ==
  ASSUME Pinned
  PROVE  Spec => []GuestStateKept
<1>1. IInv => GuestStateKept
  BY DEF IInv, Sound, Placed, Kept, GuestStateKept, GuestRuns
<1> QED BY <1>1, InvariantHolds, PTL

\* A guest takes an interrupt only with RFLAGS.IF set and above its CR8, and an NMI only
\* when it handles none: the switch injects no interrupt that an entry delivers, and what
\* a window or a write of CR8 injects is delivered before anything changes.
THEOREM InterruptsCorrect ==
  ASSUME Pinned
  PROVE  Spec => []InterruptsRespected
<1>1. IInv => InterruptsRespected BY DEF IInv
<1> QED BY <1>1, InvariantHolds, PTL

-----------------------------------------------------------------------------
(* Induction over the natural numbers, for a set instead of a predicate.   *)

LEMMA SetInduction ==
  ASSUME NEW S \in SUBSET Nat, 0 \in S, \A n \in S : n + 1 \in S
  PROVE  S = Nat
<1>1. ASSUME Nat \ S # {} PROVE FALSE
  <2> DEFINE T == Nat \ S
             R == OpToRel(<, Nat)
  <2>1. IsWellFoundedOn(R, Nat) BY NatLessThanWellFounded
  <2>2. R = {ss \in Nat \X Nat : ss[1] < ss[2]} BY DEF OpToRel
  <2>3. T \subseteq Nat /\ T # {} BY <1>1
  <2> HIDE DEF R, T
  <2>4. PICK n \in T : \A k \in T : ~ (<<k, n>> \in R)
    BY <2>1, <2>3, WFMin
  <2>5. n \in Nat /\ n \notin S /\ n # 0 BY DEF T
  <2>6. n - 1 \in Nat /\ n - 1 < n BY <2>5
  <2>7. <<n - 1, n>> \in R BY <2>2, <2>5, <2>6
  <2>8. n - 1 \notin T BY <2>4, <2>7
  <2>9. n - 1 \in S BY <2>6, <2>8 DEF T
  <2>10. n - 1 + 1 = n BY <2>5
  <2> QED BY <2>5, <2>9, <2>10
<1> QED BY <1>1

\* So a set of natural numbers that is not empty has a least element.
LEMMA LeastElement ==
  ASSUME NEW S \in SUBSET Nat, S # {}
  PROVE  Min(S) \in S /\ \A n \in S : Min(S) <= n
<1> DEFINE T == {n \in Nat : \A k \in S : n <= k}
<1>1. ASSUME \A n \in S : n \notin T PROVE FALSE
  <2>1. 0 \in T OBVIOUS
  <2>2. ASSUME NEW n \in T PROVE n + 1 \in T
    <3>1. n \notin S BY <1>1
    <3>2. \A k \in S : n < k
      <4> SUFFICES ASSUME NEW k \in S PROVE n < k
        OBVIOUS
      <4>1. n <= k /\ n # k /\ n \in Nat /\ k \in Nat BY <3>1
      <4> QED BY <4>1
    <3>3. \A k \in S : n + 1 <= k BY <3>2
    <3> QED BY <3>3
  <2>3. T \in SUBSET Nat OBVIOUS
  <2> HIDE DEF T
  <2>4. T = Nat BY <2>1, <2>2, <2>3, SetInduction
  <2>5. PICK k : k \in S OBVIOUS
  <2>6. k + 1 \in T BY <2>4, <2>5
  <2> QED BY <2>5, <2>6 DEF T
<1>2. PICK n \in S : n \in T BY <1>1
<1>3. \E x \in S : \A y \in S : x <= y BY <1>2
<1> QED BY <1>3 DEF Min

-----------------------------------------------------------------------------
(* The extended page tables of the host: their shape.                      *)

LEMMA TimesMonotonic ==
  \A a, b, c \in Nat : a <= b => a * c <= b * c
OBVIOUS

LEMMA RegionType ==
  /\ Pages \subseteq Nat /\ RegionSet \subseteq Nat /\ 0 \in RegionSet
  /\ \A p \in Pages : RegionOf(p) \in RegionSet
  /\ \A p \in Pages : HookOf(p) \in Nat
  /\ \A r \in RegionSet : r * Size \in Nat
<1>1. Regions \in Nat \ {0} /\ Size \in Nat \ {0} BY EptAssumption
<1>2. Regions * Size \in Nat BY <1>1
<1>3. Pages \subseteq Nat /\ RegionSet \subseteq Nat /\ 0 \in RegionSet
  BY <1>1, <1>2 DEF Pages, RegionSet
<1>4. ASSUME NEW p \in Pages PROVE RegionOf(p) \in RegionSet
  <2> DEFINE q == p \div Size
  <2>1. p \in Nat /\ p < Regions * Size BY <1>1, <1>2 DEF Pages
  <2>2. q \in Nat /\ q * Size <= p BY <1>1, <2>1
  <2> HIDE DEF q
  <2>3. ~ (Regions <= q)
    <3>1. ASSUME Regions <= q PROVE FALSE
      <4>1. Regions * Size <= q * Size BY <1>1, <2>2, <3>1, TimesMonotonic
      <4>2. q * Size \in Nat BY <1>1, <2>2
      <4> QED BY <1>2, <2>1, <2>2, <4>1, <4>2
    <3> QED BY <3>1
  <2>4. q \in RegionSet BY <1>1, <2>2, <2>3 DEF RegionSet
  <2> QED BY <2>4 DEF q, RegionOf
<1>5. \A p \in Pages : HookOf(p) \in Nat BY <1>2, <1>3 DEF HookOf
<1>6. \A r \in RegionSet : r * Size \in Nat BY <1>1, <1>3
<1> QED BY <1>3, <1>4, <1>5, <1>6

Entries == [type : Types, covered : BOOLEAN, perms : SUBSET Full, to : Nat]
PtMaps == UNION {[D -> Entries] : D \in SUBSET Pages}
PdMaps == [RegionSet -> Entries] \cup {<<>>}
Maps ==
  [def : [enabled : BOOLEAN, fixed : BOOLEAN, type : {WB}], huge : BOOLEAN, gib : Entries,
   pd : PdMaps, large : SUBSET RegionSet, pt : PtMaps]

\* One huge entry or page directory and page tables; a region that is not mapped large has
\* page tables; and one that has is not mapped large, but for the tables' own region.
Shape(e) ==
  /\ e \in Maps
  /\ e.huge => e.large = RegionSet /\ DOMAIN e.pt = {}
  /\ e.huge = (e.pd = <<>>)
  /\ \A p \in Pages : RegionOf(p) \notin e.large => p \in DOMAIN e.pt
  /\ \A p \in DOMAIN e.pt : RegionOf(p) # OwnRegion => RegionOf(p) \notin e.large

LEMMA MapParts ==
  ASSUME NEW e \in Maps
  PROVE  /\ e.def.enabled \in BOOLEAN /\ e.def.fixed \in BOOLEAN /\ e.huge \in BOOLEAN
         /\ e.gib \in Entries /\ e.large \subseteq RegionSet
         /\ e.pd \in PdMaps /\ e.pt \in PtMaps
         /\ DOMAIN e.pt \subseteq Pages /\ \A p \in DOMAIN e.pt : e.pt[p] \in Entries
         /\ e.pd # <<>> => e.pd \in [RegionSet -> Entries]
<1>1. /\ e.def \in [enabled : BOOLEAN, fixed : BOOLEAN, type : {WB}] /\ e.huge \in BOOLEAN
      /\ e.gib \in Entries /\ e.large \subseteq RegionSet
      /\ e.pd \in PdMaps /\ e.pt \in PtMaps
  BY DEF Maps
<1>2. DOMAIN e.pt \subseteq Pages /\ \A p \in DOMAIN e.pt : e.pt[p] \in Entries
  BY <1>1 DEF PtMaps
<1>3. e.pd # <<>> => e.pd \in [RegionSet -> Entries] BY <1>1 DEF PdMaps
<1> QED BY <1>1, <1>2, <1>3

LEMMA PtMapIntro ==
  ASSUME NEW D \in SUBSET Pages, NEW f, f \in [D -> Entries]
  PROVE  f \in PtMaps
BY DEF PtMaps

LEMMA EntryParts ==
  /\ \A x \in Entries : x.type \in Types /\ x.covered \in BOOLEAN /\ x.perms \subseteq Full /\ x.to \in Nat
  /\ \A t \in Types, c \in BOOLEAN, s \in SUBSET Full, n \in Nat :
       /\ Entry(t, c, s, n) \in Entries
       /\ Entry(t, c, s, n).type = t /\ Entry(t, c, s, n).covered = c
       /\ Entry(t, c, s, n).perms = s /\ Entry(t, c, s, n).to = n
BY DEF Entries, Entry

LEMMA TypeOrder == Types \subseteq Nat
BY DEF Types, UC, WT, WB

-----------------------------------------------------------------------------
(* The VMX instructions that the host emulates.                            *)

NestedInv == NestedVmxTypeOK /\ NestedVmxSound

LEMMA NestedVmxStarts == NestedVmxInit => NestedInv
BY NestedVmxAssumption DEF NestedVmxInit, NestedInv, NestedVmxTypeOK, NestedVmxSound

LEMMA NestedVmxStays == NestedInv /\ UNCHANGED nested_vmx => NestedInv'
BY DEF NestedInv, NestedVmxTypeOK, NestedVmxSound, nested_vmx

\* A failure is reported: only the flags and an error change.
LEMMA VmfailReports ==
  ASSUME NestedInv, NEW message \in Errors, Vmfail(message),
         UNCHANGED <<vmxon, vmxon_phys, vmcs_c, active, cr4_vmx>>
  PROVE  NestedInv'
<1>1. error' \in [Areas -> Errors \cup {"none"}]
  <2>1. error \in [Areas -> Errors \cup {"none"}] BY DEF NestedInv, NestedVmxTypeOK
  <2>2. CASE vmcs_c = None BY <2>1, <2>2 DEF Vmfail
  <2>3. CASE vmcs_c # None
    <3>1. error' = [error EXCEPT ![vmcs_c] = message] BY <2>3 DEF Vmfail
    <3> QED BY <2>1, <3>1
  <2> QED BY <2>2, <2>3
<1>2. flags' \in {"success", "invalid", "valid"} BY DEF Vmfail
<1> QED BY <1>1, <1>2 DEF NestedInv, NestedVmxTypeOK, NestedVmxSound, cr4_vmx

LEMMA VmclearSound ==
  ASSUME NestedInv, NEW a \in Areas, Vmclear(a)
  PROVE  NestedInv'
<1>1. CASE a = vmxon_phys
  <2>1. /\ Vmfail("vmclear_with_vmxon_region") /\ "vmclear_with_vmxon_region" \in Errors
        /\ UNCHANGED <<vmxon, vmxon_phys, vmcs_c, active, cr4_vmx>>
    BY <1>1 DEF Vmclear, Errors
  <2> QED BY <2>1, VmfailReports
<1>2. CASE a # vmxon_phys
  BY <1>2, NestedVmxAssumption
  DEF Vmclear, Clear, Vmsuccess, NestedInv, NestedVmxTypeOK, NestedVmxSound, cr4_vmx
<1> QED BY <1>1, <1>2

LEMMA VmptrldSound ==
  ASSUME NestedInv, NEW a \in Areas, Vmptrld(a)
  PROVE  NestedInv'
<1>1. CASE a = vmxon_phys
  <2>1. /\ Vmfail("vmptrld_with_vmxon_region") /\ "vmptrld_with_vmxon_region" \in Errors
        /\ UNCHANGED <<vmxon, vmxon_phys, vmcs_c, active, cr4_vmx>>
    BY <1>1 DEF Vmptrld, Errors
  <2> QED BY <2>1, VmfailReports
<1>2. CASE a # vmxon_phys /\ a \notin Revised
  <2>1. /\ Vmfail("vmptrld_with_incorrect_revid") /\ "vmptrld_with_incorrect_revid" \in Errors
        /\ UNCHANGED <<vmxon, vmxon_phys, vmcs_c, active, cr4_vmx>>
    BY <1>2 DEF Vmptrld, Errors
  <2> QED BY <2>1, VmfailReports
<1>3. CASE a # vmxon_phys /\ a \in Revised
  <2>1. /\ active' = active \cup {a} /\ vmcs_c' = a /\ flags' = "success"
        /\ UNCHANGED <<error, vmxon, vmxon_phys, vmxe, shadow_vmxe, reset>>
    BY <1>3 DEF Vmptrld, Vmsuccess, cr4_vmx
  <2>2. NestedVmxTypeOK' BY <2>1 DEF NestedInv, NestedVmxTypeOK
  <2>3. NestedVmxSound' BY <1>3, <2>1 DEF NestedInv, NestedVmxSound
  <2> QED BY <2>2, <2>3 DEF NestedInv
<1> QED BY <1>1, <1>2, <1>3

LEMMA VmxonSound ==
  ASSUME NestedInv, NEW a \in Areas, Vmxon(a)
  PROVE  NestedInv'
<1>1. CASE vmxon
  <2>1. /\ Vmfail("vmxon_in_vmx_root") /\ "vmxon_in_vmx_root" \in Errors
        /\ UNCHANGED <<vmxon, vmxon_phys, vmcs_c, active, cr4_vmx>>
    BY <1>1 DEF Vmxon, Errors
  <2> QED BY <2>1, VmfailReports
<1>2. CASE ~ vmxon
  BY <1>2, NestedVmxAssumption
  DEF Vmxon, Vmsuccess, NestedInv, NestedVmxTypeOK, NestedVmxSound, cr4_vmx
<1> QED BY <1>1, <1>2

LEMMA NestedVmxSteps == NestedInv /\ NestedVmxNext => NestedInv'
<1> SUFFICES ASSUME NestedInv, NestedVmxNext PROVE NestedInv'
  OBVIOUS
<1>1. CASE VmxInstructionFaults \/ VmxonFaults \/ Vmptrst
  BY <1>1, NestedVmxStays DEF VmxInstructionFaults, VmxonFaults, Vmptrst
<1>2. CASE Vmxoff
  BY <1>2 DEF Vmxoff, Vmsuccess, NestedInv, NestedVmxTypeOK, NestedVmxSound, cr4_vmx
<1>3. CASE Cr4Write
  BY <1>3 DEF Cr4Write, NestedInv, NestedVmxTypeOK, NestedVmxSound
<1>4. ASSUME NEW message \in Errors, Misaligned(message) PROVE NestedInv'
  BY <1>4, VmfailReports DEF Misaligned
<1>5. ASSUME NEW a \in Areas, Vmclear(a) \/ Vmptrld(a) \/ Vmxon(a) PROVE NestedInv'
  BY <1>5, VmclearSound, VmptrldSound, VmxonSound
<1>6. {"vmclear_with_invalid_pa", "vmptrld_with_invalid_pa"} \subseteq Errors BY DEF Errors
<1> QED BY <1>1, <1>2, <1>3, <1>4, <1>5, <1>6 DEF NestedVmxNext

\* INIT resets CR4 behind the status.
LEMMA InitCr4Sound == NestedInv /\ InitCr4 => NestedInv'
<1> SUFFICES ASSUME NestedInv, InitCr4 PROVE NestedInv'
  OBVIOUS
<1>1. /\ shadow_vmxe' = FALSE /\ reset' = vmxe
      /\ UNCHANGED <<vmxe, vmxon, vmxon_phys, vmcs_c, active, error, flags>>
  BY DEF InitCr4
<1>2. NestedVmxTypeOK' BY <1>1 DEF NestedInv, NestedVmxTypeOK
<1>3. CASE vmxe BY <1>1, <1>2, <1>3 DEF NestedInv, NestedVmxTypeOK, NestedVmxSound
<1>4. CASE ~ vmxe
  <2>1. ~ vmxon BY <1>4 DEF NestedInv, NestedVmxSound
  <2>2. vmxe' = FALSE /\ vmxon' = FALSE BY <1>1, <1>4, <2>1 DEF NestedInv, NestedVmxTypeOK
  <2>3. NestedVmxSound' BY <1>1, <2>2 DEF NestedVmxSound
  <2> QED BY <1>2, <2>3 DEF NestedInv
<1> QED BY <1>3, <1>4

\* The other exits leave the nested virtualisation alone.
LEMMA ExitsAndNestedVmx ==
  ExitNext => UNCHANGED nested_vmx \/ InitCr4 \/ NestedVmxNext
<1> SUFFICES ASSUME ExitNext PROVE UNCHANGED nested_vmx \/ InitCr4 \/ NestedVmxNext
  OBVIOUS
<1>1. CASE HookStep
  BY <1>1 DEF HookStep, Interrupted, FetchViolation, DataViolation, Retire
<1>2. CASE WrmsrMtrr BY <1>2 DEF WrmsrMtrr, WriteMtrr
<1>3. CASE Cr0Write BY <1>3 DEF Cr0Write
<1>4. CASE SystemWrites \/ PageFault \/ StartUp \/ CallExit
  BY <1>4 DEF SystemWrites, PageFault, StartUp, CallExit
<1>5. CASE InitSignal \/ VmxInstruction BY <1>5 DEF InitSignal, VmxInstruction
<1>6. CASE \/ Cpuid \/ PlainInstruction \/ Rdmsr \/ WrmsrOther \/ DescriptorTableAccess
           \/ Unhandled
  BY <1>6
  DEF Cpuid, PlainInstruction, Rdmsr, WrmsrOther, DescriptorTableAccess, Unhandled, Unmoved, exit_vars
<1> QED BY <1>1, <1>2, <1>3, <1>4, <1>5, <1>6 DEF ExitNext

LEMMA NestedVmxInvariant == ExitSpec => []NestedInv
<1>1. ExitInit => NestedInv BY NestedVmxStarts DEF ExitInit
<1>2. NestedInv /\ [ExitNext]_exit_vars => NestedInv'
  BY NestedVmxStays, InitCr4Sound, NestedVmxSteps, ExitsAndNestedVmx DEF exit_vars
<1> QED BY <1>1, <1>2, PTL DEF ExitSpec

\* In VMX operation the current VMCS is one that vmptrld accepted and vmclear has not
\* cleared since, never the VMXON region, and CR4.VMXE reads as the status says unless INIT
\* or a refused write came between: for every set of regions that the system uses.
THEOREM NestedVmxCorrect == ExitSpec => []NestedVmxSound
<1>1. NestedInv => NestedVmxSound BY DEF NestedInv
<1> QED BY <1>1, NestedVmxInvariant, PTL

-----------------------------------------------------------------------------
(* The extended page tables of the host: what their operations keep.       *)

\* Nothing is marked as covered by an MTRR.
Fresh(e) ==
  /\ ~ e.gib.covered
  /\ \A r \in DOMAIN e.pd : ~ e.pd[r].covered
  /\ \A p \in DOMAIN e.pt : ~ e.pt[p].covered

\* What an update of the memory types keeps.
Carried(e, f) ==
  /\ Shape(f) /\ f.def = e.def /\ f.large \subseteq e.large
  /\ ~ e.huge => ~ f.huge /\ \A r \in RegionSet : f.pd[r].perms = e.pd[r].perms
  /\ \A p \in DOMAIN e.pt :
       p \in DOMAIN f.pt /\ f.pt[p].perms = e.pt[p].perms /\ f.pt[p].to = e.pt[p].to

LEMMA CarriedOn ==
  ASSUME NEW e, NEW f, NEW g, Carried(e, f), Carried(f, g)
  PROVE  Carried(e, g)
BY DEF Carried

LEMMA CarriedSelf ==
  ASSUME NEW e, Shape(e)
  PROVE  Carried(e, e)
BY DEF Carried

\* The pages whose types the properties are about, and the type and mark of such a page.
Plain == Pages \ PagesOf(OwnRegion)
TypeAt(e, p) == IF RegionOf(p) \in e.large THEN e.pd[RegionOf(p)].type ELSE e.pt[p].type
CoveredAt(e, p) == IF RegionOf(p) \in e.large THEN e.pd[RegionOf(p)].covered ELSE e.pt[p].covered

LEMMA PlainRegion == \A p \in Plain : p \in Pages /\ RegionOf(p) \in RegionSet /\ RegionOf(p) # OwnRegion
BY RegionType DEF Plain, PagesOf

LEMMA SplitPdpteParts ==
  ASSUME NEW e, Shape(e), NEW f, f = SplitPdpte(e)
  PROVE  /\ Shape(f) /\ f.def = e.def /\ f.huge = FALSE /\ f.gib = e.gib
         /\ f.large = e.large /\ f.pt = e.pt
         /\ f.pd \in [RegionSet -> Entries]
         /\ ~ e.huge => f.pd = e.pd
         /\ Fresh(e) => Fresh(f)
<1> DEFINE D == [r \in RegionSet |-> Entry(e.gib.type, e.gib.covered, Full, r * Size)]
           d == IF RegionSet \subseteq DOMAIN e.pd THEN e.pd ELSE D
<1>1. e \in Maps /\ e.huge = (e.pd = <<>>) BY DEF Shape
<1>2. 0 \in RegionSet /\ \A r \in RegionSet : r * Size \in Nat BY RegionType
<1>3. D \in [RegionSet -> Entries]
  BY <1>1, <1>2, MapParts, EntryParts DEF Full
<1>4. ~ e.huge => e.pd \in [RegionSet -> Entries] /\ d = e.pd BY <1>1, MapParts
<1>5. e.huge => d = D
  <2>1. DOMAIN <<>> = {} OBVIOUS
  <2> QED BY <1>1, <1>2, <2>1
<1>6. d \in [RegionSet -> Entries] BY <1>3, <1>4, <1>5, <1>1, MapParts
<1>7. d # <<>>
  <2>1. DOMAIN d = RegionSet BY <1>6
  <2>2. DOMAIN <<>> = {} OBVIOUS
  <2> QED BY <1>2, <2>1, <2>2
<1>8. f = [e EXCEPT !.huge = FALSE, !.pd = d] BY DEF SplitPdpte
<1>9. Fresh(e) => \A r \in DOMAIN d : ~ d[r].covered
  <2>1. ASSUME Fresh(e), e.huge, NEW r \in RegionSet PROVE D[r].covered = FALSE
    BY <1>1, <1>2, <2>1, MapParts, EntryParts DEF Full, Fresh, Entry
  <2> QED BY <2>1, <1>4, <1>5, <1>1, <1>6, MapParts DEF Fresh
<1> HIDE DEF d, D
<1>10. f \in Maps
  <2>1. d \in PdMaps BY <1>6 DEF PdMaps
  <2> QED BY <1>1, <1>8, <2>1 DEF Maps
<1>11. /\ f.def = e.def /\ f.huge = FALSE /\ f.gib = e.gib
       /\ f.large = e.large /\ f.pt = e.pt /\ f.pd = d
  BY <1>1, <1>8 DEF Maps
<1>12. Shape(f) BY <1>10, <1>11, <1>7 DEF Shape
<1>13. Fresh(e) => Fresh(f) BY <1>9, <1>11 DEF Fresh
<1> QED BY <1>4, <1>6, <1>11, <1>12, <1>13

LEMMA SplitPdesParts ==
  ASSUME NEW e, Shape(e), NEW R \in SUBSET RegionSet, NEW f, f = SplitPdes(e, R)
  PROVE  /\ Shape(f) /\ f.def = e.def /\ f.gib = e.gib /\ f.large = e.large \ R
         /\ (R # {} \/ ~ e.huge) => ~ f.huge /\ f.pd \in [RegionSet -> Entries]
         /\ ~ e.huge => f.pd = e.pd
         /\ DOMAIN f.pt = DOMAIN e.pt \cup {q \in Pages : RegionOf(q) \in R}
         /\ \A p \in DOMAIN e.pt : f.pt[p] = e.pt[p]
         /\ \A p \in DOMAIN f.pt \ DOMAIN e.pt :
              /\ f.pt[p].type = f.pd[RegionOf(p)].type
              /\ f.pt[p].covered = f.pd[RegionOf(p)].covered
         /\ Fresh(e) => Fresh(f)
<1> DEFINE s == IF R = {} THEN e ELSE SplitPdpte(e)
           D == DOMAIN s.pt \cup {q \in Pages : RegionOf(q) \in R}
           New(p) == Entry(s.pd[RegionOf(p)].type, s.pd[RegionOf(p)].covered, Full, p)
           t == [p \in D |-> IF p \in DOMAIN s.pt THEN s.pt[p] ELSE New(p)]
<1>1. /\ Shape(s) /\ s.def = e.def /\ s.gib = e.gib /\ s.large = e.large /\ s.pt = e.pt
      /\ (R # {} \/ ~ e.huge) => ~ s.huge /\ s.pd \in [RegionSet -> Entries]
      /\ ~ e.huge => s.pd = e.pd
      /\ Fresh(e) => Fresh(s)
  <2>1. CASE R = {}
    <3>1. e \in Maps /\ e.huge = (e.pd = <<>>) BY DEF Shape
    <3> QED BY <2>1, <3>1, MapParts
  <2>2. CASE R # {} BY <2>2, SplitPdpteParts
  <2> QED BY <2>1, <2>2
<1>2. f = [s EXCEPT !.large = s.large \ R, !.pt = t] BY DEF SplitPdes
<1> HIDE DEF s
<1>3. s \in Maps BY <1>1 DEF Shape
<1>4. D \in SUBSET Pages BY <1>3, MapParts
<1>5. ASSUME NEW p \in D, p \notin DOMAIN s.pt
      PROVE  /\ New(p) \in Entries /\ New(p).type = s.pd[RegionOf(p)].type
             /\ New(p).covered = s.pd[RegionOf(p)].covered /\ RegionOf(p) \in RegionSet
             /\ s.pd \in [RegionSet -> Entries]
  <2>1. p \in Pages /\ RegionOf(p) \in R /\ R # {} BY <1>5
  <2>2. s.pd \in [RegionSet -> Entries] BY <1>1, <2>1
  <2>3. s.pd[RegionOf(p)] \in Entries /\ RegionOf(p) \in RegionSet BY <2>1, <2>2
  <2>4. p \in Nat /\ Full \in SUBSET Full BY <2>1, RegionType
  <2> QED BY <2>2, <2>3, <2>4, EntryParts
<1>6. \A p \in DOMAIN s.pt : s.pt[p] \in Entries BY <1>3, MapParts
<1>7. t \in [D -> Entries] BY <1>5, <1>6
<1>8. t \in PtMaps BY <1>4, <1>7, PtMapIntro
<1>9. \A p \in DOMAIN s.pt : t[p] = s.pt[p] OBVIOUS
<1>10. \A p \in D \ DOMAIN s.pt : /\ t[p].type = s.pd[RegionOf(p)].type
                                  /\ t[p].covered = s.pd[RegionOf(p)].covered
                                  /\ RegionOf(p) \in RegionSet /\ s.pd \in [RegionSet -> Entries]
  BY <1>5
<1>11. DOMAIN t = D OBVIOUS
<1> HIDE DEF t, New
<1>12. s.large \ R \in SUBSET RegionSet BY <1>3, MapParts
<1>13. f \in Maps BY <1>2, <1>3, <1>8, <1>12 DEF Maps
<1>14. /\ f.def = s.def /\ f.huge = s.huge /\ f.gib = s.gib /\ f.pd = s.pd
       /\ f.large = s.large \ R /\ f.pt = t
  BY <1>2, <1>3 DEF Maps
<1>15. Shape(f)
  <2>1. f.huge => f.large = RegionSet /\ DOMAIN f.pt = {}
    <3>1. CASE f.huge
      <4>1. s.huge /\ s.large = RegionSet /\ DOMAIN s.pt = {} BY <3>1, <1>1, <1>14 DEF Shape
      <4>2. R = {} BY <4>1, <1>1
      <4> QED BY <4>1, <4>2, <1>14, <1>11
    <3> QED BY <3>1
  <2>2. f.huge = (f.pd = <<>>) BY <1>1, <1>14 DEF Shape
  <2>3. \A p \in Pages : RegionOf(p) \notin f.large => p \in DOMAIN f.pt
    BY <1>1, <1>14, <1>11, RegionType DEF Shape
  <2>4. \A p \in DOMAIN f.pt : RegionOf(p) # OwnRegion => RegionOf(p) \notin f.large
    BY <1>1, <1>14, <1>11 DEF Shape
  <2> QED BY <1>13, <2>1, <2>2, <2>3, <2>4 DEF Shape
<1>16. Fresh(e) => Fresh(f)
  <2> SUFFICES ASSUME Fresh(e) PROVE Fresh(f)
    OBVIOUS
  <2>1. Fresh(s) BY <1>1
  <2>2. \A p \in DOMAIN f.pt : ~ f.pt[p].covered
    BY <2>1, <1>9, <1>10, <1>11, <1>14 DEF Fresh
  <2> QED BY <2>1, <2>2, <1>14 DEF Fresh
<1> QED BY <1>1, <1>9, <1>10, <1>11, <1>14, <1>15, <1>16

\* A page of which an entry is described keeps the type, and the mark, of its region.
SameAt(e, f, p) == TypeAt(f, p) = TypeAt(e, p) /\ CoveredAt(f, p) = CoveredAt(e, p)

LEMMA SplitPdesKeeps ==
  ASSUME NEW e, Shape(e), NEW R \in SUBSET RegionSet, NEW f, f = SplitPdes(e, R)
  PROVE  /\ Carried(e, f)
         /\ ~ e.huge => \A p \in Plain : SameAt(e, f, p)
<1>1. Carried(e, f) BY SplitPdesParts DEF Carried
<1>2. ASSUME ~ e.huge, NEW p \in Plain PROVE SameAt(e, f, p)
  <2>1. p \in Pages /\ RegionOf(p) # OwnRegion BY PlainRegion
  <2>2. /\ f.large = e.large \ R /\ f.pd = e.pd
        /\ DOMAIN f.pt = DOMAIN e.pt \cup {q \in Pages : RegionOf(q) \in R}
        /\ \A q \in DOMAIN e.pt : f.pt[q] = e.pt[q]
        /\ \A q \in DOMAIN f.pt \ DOMAIN e.pt :
             /\ f.pt[q].type = f.pd[RegionOf(q)].type
             /\ f.pt[q].covered = f.pd[RegionOf(q)].covered
    BY <1>2, SplitPdesParts
  <2>3. RegionOf(p) \notin e.large => p \in DOMAIN e.pt BY <2>1 DEF Shape
  <2>4. RegionOf(p) \in e.large => p \notin DOMAIN e.pt BY <2>1 DEF Shape
  <2>5. CASE RegionOf(p) \in f.large
    BY <2>5, <2>2 DEF SameAt, TypeAt, CoveredAt
  <2>6. CASE RegionOf(p) \notin e.large
    BY <2>6, <2>2, <2>3 DEF SameAt, TypeAt, CoveredAt
  <2>7. CASE RegionOf(p) \in e.large /\ RegionOf(p) \notin f.large
    <3>1. p \in DOMAIN f.pt \ DOMAIN e.pt BY <2>1, <2>2, <2>4, <2>7
    <3> QED BY <3>1, <2>7, <2>2 DEF SameAt, TypeAt, CoveredAt
  <2> QED BY <2>5, <2>6, <2>7
<1> QED BY <1>1, <1>2

\* An entry that an MTRR of type t covers.
LEMMA MergeParts ==
  ASSUME NEW x \in Entries, NEW t \in Types
  PROVE  /\ Merge(x, t) \in Entries
         /\ Merge(x, t).perms = x.perms /\ Merge(x, t).to = x.to
         /\ Merge(x, t).covered = TRUE
         /\ Merge(x, t).type = IF x.covered /\ x.type < t THEN x.type ELSE t
BY DEF Merge, Entries

MergedAt(e, f, p, t) ==
  /\ CoveredAt(f, p) = TRUE
  /\ TypeAt(f, p) = IF CoveredAt(e, p) /\ TypeAt(e, p) < t THEN TypeAt(e, p) ELSE t

LEMMA MergePagesParts ==
  ASSUME NEW e, Shape(e), NEW S, NEW t \in Types, NEW f, f = MergePages(e, S, t)
  PROVE  /\ Carried(e, f) /\ f.large = e.large /\ f.pd = e.pd /\ f.huge = e.huge
         /\ DOMAIN f.pt = DOMAIN e.pt
         /\ \A p \in DOMAIN e.pt : f.pt[p] = IF p \in S THEN Merge(e.pt[p], t) ELSE e.pt[p]
<1> DEFINE u == [p \in DOMAIN e.pt |-> IF p \in S THEN Merge(e.pt[p], t) ELSE e.pt[p]]
<1>1. e \in Maps BY DEF Shape
<1>2. DOMAIN e.pt \in SUBSET Pages /\ \A p \in DOMAIN e.pt : e.pt[p] \in Entries
  BY <1>1, MapParts
<1>3. u \in [DOMAIN e.pt -> Entries] BY <1>2, MergeParts
<1>4. u \in PtMaps BY <1>2, <1>3, PtMapIntro
<1>5. f = [e EXCEPT !.pt = u] BY DEF MergePages
<1>6. /\ DOMAIN u = DOMAIN e.pt
      /\ \A p \in DOMAIN e.pt : u[p] = IF p \in S THEN Merge(e.pt[p], t) ELSE e.pt[p]
  OBVIOUS
<1> HIDE DEF u
<1>7. f \in Maps BY <1>1, <1>4, <1>5 DEF Maps
<1>8. /\ f.def = e.def /\ f.huge = e.huge /\ f.gib = e.gib /\ f.pd = e.pd
      /\ f.large = e.large /\ f.pt = u
  BY <1>1, <1>5 DEF Maps
<1>9. Shape(f) BY <1>6, <1>7, <1>8 DEF Shape
<1>10. ASSUME NEW p \in DOMAIN e.pt
       PROVE  f.pt[p].perms = e.pt[p].perms /\ f.pt[p].to = e.pt[p].to
  <2>1. Merge(e.pt[p], t).perms = e.pt[p].perms /\ Merge(e.pt[p], t).to = e.pt[p].to
    BY <1>2, MergeParts
  <2> QED BY <2>1, <1>6, <1>8
<1>11. Carried(e, f) BY <1>6, <1>8, <1>9, <1>10 DEF Carried
<1> QED BY <1>6, <1>8, <1>11

\* What the pages are given of which the tables describe entries.
LEMMA MergePagesTypes ==
  ASSUME NEW e, Shape(e), ~ e.huge, NEW S, NEW t \in Types, NEW f, f = MergePages(e, S, t),
         NEW p \in Plain
  PROVE  /\ RegionOf(p) \in e.large \/ p \notin S => SameAt(e, f, p)
         /\ RegionOf(p) \notin e.large /\ p \in S => MergedAt(e, f, p, t)
<1>1. p \in Pages BY PlainRegion
<1>2. /\ f.large = e.large /\ f.pd = e.pd
      /\ \A q \in DOMAIN e.pt : f.pt[q] = IF q \in S THEN Merge(e.pt[q], t) ELSE e.pt[q]
  BY MergePagesParts
<1>3. RegionOf(p) \notin e.large => p \in DOMAIN e.pt /\ e.pt[p] \in Entries
  BY <1>1, MapParts DEF Shape
<1>4. CASE RegionOf(p) \in e.large BY <1>2, <1>4 DEF SameAt, TypeAt, CoveredAt
<1>5. CASE RegionOf(p) \notin e.large /\ p \notin S
  BY <1>2, <1>3, <1>5 DEF SameAt, TypeAt, CoveredAt
<1>6. CASE RegionOf(p) \notin e.large /\ p \in S
  <2>1. f.pt[p] = Merge(e.pt[p], t) BY <1>2, <1>3, <1>6
  <2> DEFINE x == e.pt[p]
  <2>2. TypeAt(e, p) = x.type /\ CoveredAt(e, p) = x.covered
    BY <1>6 DEF TypeAt, CoveredAt
  <2>3. TypeAt(f, p) = Merge(x, t).type /\ CoveredAt(f, p) = Merge(x, t).covered
    BY <1>2, <1>6, <2>1 DEF TypeAt, CoveredAt
  <2>4. x \in Entries BY <1>3, <1>6
  <2> HIDE DEF x
  <2>5. /\ Merge(x, t).covered = TRUE
        /\ Merge(x, t).type = IF x.covered /\ x.type < t THEN x.type ELSE t
    BY <2>4, MergeParts
  <2>6. MergedAt(e, f, p, t) BY <2>2, <2>3, <2>5, Zenon DEF MergedAt
  <2> QED BY <1>6, <2>6
<1> QED BY <1>4, <1>5, <1>6

\* What one MTRR does to the types.
Typed(e, f, S, t) ==
  \A p \in Plain : IF p \in S THEN MergedAt(e, f, p, t) ELSE SameAt(e, f, p)

LEMMA UpdatePteTypeParts ==
  ASSUME NEW e, Shape(e), NEW at \in Pages, NEW t \in Types
  PROVE  /\ Carried(e, UpdatePteType(e, at, t))
         /\ ~ e.huge => Typed(e, UpdatePteType(e, at, t), {at}, t)
<1> DEFINE s == SplitPdes(e, {RegionOf(at)})
           f == MergePages(s, {at}, t)
<1>1. UpdatePteType(e, at, t) = f BY DEF UpdatePteType, SplitPde
<1>2. {RegionOf(at)} \in SUBSET RegionSet BY RegionType
<1> HIDE DEF s
<1>3. /\ Shape(s) /\ ~ s.huge /\ s.large = e.large \ {RegionOf(at)}
      /\ Carried(e, s)
      /\ ~ e.huge => \A p \in Plain : SameAt(e, s, p)
  BY <1>2, SplitPdesParts, SplitPdesKeeps DEF s
<1> HIDE DEF f
<1>4. Carried(s, f) BY <1>3, MergePagesParts DEF f
<1>5. Carried(e, f) BY <1>3, <1>4, CarriedOn
<1>6. ASSUME ~ e.huge, NEW p \in Plain
      PROVE  IF p \in {at} THEN MergedAt(e, f, p, t) ELSE SameAt(e, f, p)
  <2>1. SameAt(e, s, p) BY <1>3, <1>6
  <2>2. /\ p \notin {at} => SameAt(s, f, p)
        /\ RegionOf(p) \notin s.large /\ p \in {at} => MergedAt(s, f, p, t)
    BY <1>3, MergePagesTypes DEF f
  <2>3. p \in {at} => RegionOf(p) \notin s.large BY <1>3
  <2> QED BY <2>1, <2>2, <2>3 DEF SameAt, MergedAt
<1>7. ~ e.huge => Typed(e, f, {at}, t) BY <1>6 DEF Typed
<1> QED BY <1>1, <1>5, <1>7

\* The entries of some regions, each with one of the type.
MergeRegions(e, R, t) ==
  [e EXCEPT !.pd = [r \in DOMAIN @ |-> IF r \in R THEN Merge(@[r], t) ELSE @[r]]]

LEMMA MergeRegionsParts ==
  ASSUME NEW e, Shape(e), ~ e.huge, NEW R \in SUBSET e.large, NEW t \in Types,
         NEW f, f = MergeRegions(e, R, t)
  PROVE  /\ Carried(e, f) /\ f.large = e.large /\ f.huge = e.huge /\ f.pt = e.pt
         /\ \A p \in Plain : IF RegionOf(p) \in R THEN MergedAt(e, f, p, t) ELSE SameAt(e, f, p)
<1> DEFINE d == [r \in DOMAIN e.pd |-> IF r \in R THEN Merge(e.pd[r], t) ELSE e.pd[r]]
<1>1. e \in Maps /\ e.huge = (e.pd = <<>>) BY DEF Shape
<1>2. e.pd \in [RegionSet -> Entries] /\ e.large \subseteq RegionSet BY <1>1, MapParts
<1>3. d \in [RegionSet -> Entries]
      /\ \A r \in RegionSet : d[r] = IF r \in R THEN Merge(e.pd[r], t) ELSE e.pd[r]
  BY <1>2, MergeParts
<1>4. d # <<>>
  <2>1. DOMAIN d = RegionSet BY <1>3
  <2>2. DOMAIN <<>> = {} OBVIOUS
  <2> QED BY <2>1, <2>2, RegionType
<1>5. f = [e EXCEPT !.pd = d] BY DEF MergeRegions
<1> HIDE DEF d
<1>6. d \in PdMaps BY <1>3 DEF PdMaps
<1>7. f \in Maps BY <1>1, <1>5, <1>6 DEF Maps
<1>8. /\ f.def = e.def /\ f.huge = e.huge /\ f.gib = e.gib /\ f.pd = d
      /\ f.large = e.large /\ f.pt = e.pt
  BY <1>1, <1>5 DEF Maps
<1>9. Shape(f) BY <1>4, <1>7, <1>8 DEF Shape
<1>10. ASSUME NEW r \in RegionSet PROVE d[r].perms = e.pd[r].perms
  <2>1. Merge(e.pd[r], t).perms = e.pd[r].perms BY <1>2, MergeParts
  <2> QED BY <2>1, <1>3
<1>11. Carried(e, f) BY <1>8, <1>9, <1>10 DEF Carried
<1>12. ASSUME NEW p \in Plain
       PROVE  IF RegionOf(p) \in R THEN MergedAt(e, f, p, t) ELSE SameAt(e, f, p)
  <2>1. RegionOf(p) \in RegionSet /\ e.pd[RegionOf(p)] \in Entries BY <1>2, PlainRegion
  <2>2. CASE RegionOf(p) \in R
    <3>1. d[RegionOf(p)] = Merge(e.pd[RegionOf(p)], t) BY <1>3, <2>1, <2>2
    <3>2. RegionOf(p) \in e.large BY <2>2
    <3> DEFINE x == e.pd[RegionOf(p)]
    <3>3. TypeAt(e, p) = x.type /\ CoveredAt(e, p) = x.covered
      BY <3>2 DEF TypeAt, CoveredAt
    <3>4. TypeAt(f, p) = Merge(x, t).type /\ CoveredAt(f, p) = Merge(x, t).covered
      BY <1>8, <3>1, <3>2 DEF TypeAt, CoveredAt
    <3>5. x \in Entries BY <2>1
    <3> HIDE DEF x
    <3>6. /\ Merge(x, t).covered = TRUE
          /\ Merge(x, t).type = IF x.covered /\ x.type < t THEN x.type ELSE t
      BY <3>5, MergeParts
    <3>7. MergedAt(e, f, p, t) BY <3>3, <3>4, <3>6, Zenon DEF MergedAt
    <3> QED BY <2>2, <3>7
  <2>3. CASE RegionOf(p) \notin R
    <3>1. d[RegionOf(p)] = e.pd[RegionOf(p)] BY <1>3, <2>1, <2>3
    <3> QED BY <1>8, <2>3, <3>1 DEF SameAt, TypeAt, CoveredAt
  <2> QED BY <2>2, <2>3
<1> QED BY <1>8, <1>11, <1>12

LEMMA UpdatePdeTypeParts ==
  ASSUME NEW e, Shape(e), NEW at \in RegionSet, NEW t \in Types
  PROVE  /\ Carried(e, UpdatePdeType(e, at, t))
         /\ ~ e.huge => Typed(e, UpdatePdeType(e, at, t), PagesOf(at), t)
<1> DEFINE s == SplitPdpte(e)
           g == MergeRegions(s, {at}, t)
           h == MergePages(s, PagesOf(at), t)
<1>1. /\ Shape(s) /\ s.def = e.def /\ s.huge = FALSE
      /\ s.large = e.large /\ s.pt = e.pt
      /\ s.pd \in [RegionSet -> Entries]
      /\ ~ e.huge => s.pd = e.pd
  BY SplitPdpteParts
<1>2. UpdatePdeType(e, at, t) = IF at \in s.large THEN g ELSE h
  <2>1. [s EXCEPT !.pd[at] = Merge(@, t)] = g
    <3>1. [s.pd EXCEPT ![at] = Merge(@, t)]
            = [r \in DOMAIN s.pd |-> IF r \in {at} THEN Merge(s.pd[r], t) ELSE s.pd[r]]
      BY <1>1
    <3> QED BY <3>1 DEF MergeRegions
  <2> QED BY <2>1 DEF UpdatePdeType
<1> HIDE DEF s
<1>3. Carried(e, s) BY <1>1 DEF Carried
<1>4. ASSUME ~ e.huge, NEW p \in Plain PROVE SameAt(e, s, p)
  BY <1>1, <1>4 DEF SameAt, TypeAt, CoveredAt
<1>5. \A p \in Plain : p \in PagesOf(at) <=> RegionOf(p) \in {at}
  BY PlainRegion DEF PagesOf
<1>6. CASE at \in s.large
  <2>1. {at} \in SUBSET s.large BY <1>6
  <2> HIDE DEF g
  <2>2. /\ Carried(s, g)
        /\ \A p \in Plain : IF RegionOf(p) \in {at} THEN MergedAt(s, g, p, t) ELSE SameAt(s, g, p)
    BY <2>1, <1>1, MergeRegionsParts DEF g
  <2>3. Carried(e, g) BY <1>3, <2>2, CarriedOn
  <2>4. ASSUME ~ e.huge, NEW p \in Plain
        PROVE  IF p \in PagesOf(at) THEN MergedAt(e, g, p, t) ELSE SameAt(e, g, p)
    <3>1. SameAt(e, s, p) BY <1>4, <2>4
    <3>2. IF RegionOf(p) \in {at} THEN MergedAt(s, g, p, t) ELSE SameAt(s, g, p) BY <2>2
    <3>3. p \in PagesOf(at) <=> RegionOf(p) \in {at} BY <1>5
    <3> QED BY <3>1, <3>2, <3>3 DEF SameAt, MergedAt
  <2>5. ~ e.huge => Typed(e, g, PagesOf(at), t) BY <2>4 DEF Typed
  <2> QED BY <1>2, <1>6, <2>3, <2>5
<1>7. CASE at \notin s.large
  <2> HIDE DEF h
  <2>1. Carried(s, h) BY <1>1, MergePagesParts DEF h
  <2>2. Carried(e, h) BY <1>3, <2>1, CarriedOn
  <2>3. ASSUME ~ e.huge, NEW p \in Plain
        PROVE  IF p \in PagesOf(at) THEN MergedAt(e, h, p, t) ELSE SameAt(e, h, p)
    <3>1. SameAt(e, s, p) BY <1>4, <2>3
    <3>2. /\ p \notin PagesOf(at) => SameAt(s, h, p)
          /\ RegionOf(p) \notin s.large /\ p \in PagesOf(at) => MergedAt(s, h, p, t)
      BY <1>1, MergePagesTypes DEF h
    <3>3. p \in PagesOf(at) => RegionOf(p) \notin s.large BY <1>5, <1>7
    <3> QED BY <3>1, <3>2, <3>3 DEF SameAt, MergedAt
  <2>4. ~ e.huge => Typed(e, h, PagesOf(at), t) BY <2>3 DEF Typed
  <2> QED BY <1>2, <1>7, <2>2, <2>4
<1> QED BY <1>6, <1>7

\* One for the whole gigabyte may stop at a region that is split: of the types nothing is said.
LEMMA UpdatePdpteTypeParts ==
  ASSUME NEW e, Shape(e), NEW t \in Types
  PROVE  Carried(e, UpdatePdpteType(e, t))
<1>1. CASE e.huge
  <2> DEFINE f == [e EXCEPT !.gib = Merge(e.gib, t)]
  <2>1. UpdatePdpteType(e, t) = f BY <1>1 DEF UpdatePdpteType
  <2>2. e \in Maps BY DEF Shape
  <2>3. Merge(e.gib, t) \in Entries BY <2>2, MapParts, MergeParts
  <2>4. f \in Maps BY <2>2, <2>3 DEF Maps
  <2>5. /\ f.def = e.def /\ f.huge = e.huge /\ f.pd = e.pd /\ f.large = e.large /\ f.pt = e.pt
    BY <2>2 DEF Maps
  <2> HIDE DEF f
  <2>6. Shape(f) BY <2>4, <2>5 DEF Shape
  <2>7. Carried(e, f) BY <2>5, <2>6, <1>1 DEF Carried
  <2> QED BY <2>1, <2>7
<1>2. CASE ~ e.huge
  <2> DEFINE R == Reached(e) \cap e.large
             S == UNION {PagesOf(r) : r \in Reached(e) \ e.large}
             g == MergeRegions(e, R, t)
             f == MergePages(g, S, t)
  <2>1. UpdatePdpteType(e, t) = f BY <1>2 DEF UpdatePdpteType, MergeRegions
  <2>2. R \in SUBSET e.large OBVIOUS
  <2> HIDE DEF R, S, f, g
  <2>3. Carried(e, g) BY <1>2, <2>2, MergeRegionsParts DEF g
  <2>4. Shape(g) BY <2>3 DEF Carried
  <2>5. Carried(g, f) BY <2>4, MergePagesParts DEF f
  <2> QED BY <2>1, <2>3, <2>5, CarriedOn
<1> QED BY <1>1, <1>2

\* A variable MTRR, as the processor may hold it.
LEMMA MtrrParts ==
  ASSUME NEW m \in Mtrrs \cup {Off}
  PROVE  /\ m.type \in Types /\ m.unit \in {"off", "page", "region", "gigabyte"}
         /\ m.unit = "page" => m.at \in Pages
         /\ m.unit = "region" => m.at \in RegionSet
<1>1. CASE m \in Mtrrs BY <1>1, VtExitsAssumption
<1>2. CASE m = Off BY <1>2 DEF Off, Types
<1> QED BY <1>1, <1>2

Counts(e, m, p) == m.type # e.def.type /\ Covers(m, p)

LEMMA UpdatePerVarMtrrParts ==
  ASSUME NEW e, Shape(e), NEW m \in Mtrrs \cup {Off}
  PROVE  /\ Carried(e, UpdatePerVarMtrr(e, m))
         /\ ~ e.huge /\ m.unit # "gigabyte" =>
              \A p \in Plain : IF Counts(e, m, p) THEN MergedAt(e, UpdatePerVarMtrr(e, m), p, m.type)
                                                  ELSE SameAt(e, UpdatePerVarMtrr(e, m), p)
<1> DEFINE f == UpdatePerVarMtrr(e, m)
<1>1. /\ m.type \in Types /\ m.unit \in {"off", "page", "region", "gigabyte"}
      /\ m.unit = "page" => m.at \in Pages
      /\ m.unit = "region" => m.at \in RegionSet
  BY MtrrParts
<1>2. CASE m.type = e.def.type \/ m.unit = "off"
  <2>1. f = e BY <1>2 DEF UpdatePerVarMtrr
  <2>2. \A p \in Plain : ~ Counts(e, m, p) /\ SameAt(e, e, p)
    BY <1>2 DEF Counts, Covers, SameAt
  <2> QED BY <2>1, <2>2, CarriedSelf
<1>3. CASE m.type # e.def.type /\ m.unit = "page"
  <2>1. f = UpdatePteType(e, m.at, m.type) BY <1>3 DEF UpdatePerVarMtrr
  <2>2. /\ Carried(e, f)
        /\ ~ e.huge => Typed(e, f, {m.at}, m.type)
    BY <2>1, <1>1, <1>3, UpdatePteTypeParts
  <2>3. \A p \in Plain : Counts(e, m, p) <=> p \in {m.at}
    BY <1>3 DEF Counts, Covers
  <2> HIDE DEF f
  <2>4. ~ e.huge => \A p \in Plain : IF Counts(e, m, p) THEN MergedAt(e, f, p, m.type) ELSE SameAt(e, f, p)
    BY <2>2, <2>3 DEF Typed
  <2> QED BY <2>2, <2>4 DEF f
<1>4. CASE m.type # e.def.type /\ m.unit = "region"
  <2>1. f = UpdatePdeType(e, m.at, m.type) BY <1>4 DEF UpdatePerVarMtrr
  <2>2. /\ Carried(e, f)
        /\ ~ e.huge => Typed(e, f, PagesOf(m.at), m.type)
    BY <2>1, <1>1, <1>4, UpdatePdeTypeParts
  <2>3. \A p \in Plain : Counts(e, m, p) <=> p \in PagesOf(m.at)
    BY <1>4, PlainRegion DEF Counts, Covers, PagesOf
  <2> HIDE DEF f
  <2>4. ~ e.huge => \A p \in Plain : IF Counts(e, m, p) THEN MergedAt(e, f, p, m.type) ELSE SameAt(e, f, p)
    BY <2>2, <2>3 DEF Typed
  <2> QED BY <2>2, <2>4 DEF f
<1>5. CASE m.type # e.def.type /\ m.unit = "gigabyte"
  <2>1. f = UpdatePdpteType(e, m.type) BY <1>5 DEF UpdatePerVarMtrr
  <2>2. Carried(e, f) BY <2>1, <1>1, UpdatePdpteTypeParts
  <2> QED BY <1>5, <2>2
<1> QED BY <1>1, <1>2, <1>3, <1>4, <1>5

\* The loop over the variable MTRRs defines a function.
Unrolls(e, var, k, f) ==
  f = [i \in 0 .. k |-> IF i = 0 THEN e ELSE UpdatePerVarMtrr(f[i - 1], var[i])]

LEMMA LoopExists ==
  ASSUME NEW e, NEW var, NEW k \in Nat
  PROVE  \E f : Unrolls(e, var, k, f)
<1> DEFINE S == {n \in Nat :
                   \E f : f = [i \in 0 .. n |-> IF i = 0 THEN e ELSE UpdatePerVarMtrr(f[i - 1], var[i])]}
<1>1. 0 \in S
  <2> DEFINE f == [i \in 0 .. 0 |-> e]
  <2>1. f = [i \in 0 .. 0 |-> IF i = 0 THEN e ELSE UpdatePerVarMtrr(f[i - 1], var[i])]
    OBVIOUS
  <2> QED BY <2>1
<1>2. ASSUME NEW n \in S PROVE n + 1 \in S
  <2>1. PICK f : f = [i \in 0 .. n |-> IF i = 0 THEN e ELSE UpdatePerVarMtrr(f[i - 1], var[i])]
    OBVIOUS
  <2> DEFINE g == [i \in 0 .. n + 1 |->
                     IF i = n + 1 THEN UpdatePerVarMtrr(f[n], var[i]) ELSE f[i]]
  <2>2. \A i \in 0 .. n + 1 : g[i] = IF i = 0 THEN e ELSE UpdatePerVarMtrr(g[i - 1], var[i])
    BY <2>1
  <2>3. g = [i \in 0 .. n + 1 |-> g[i]] OBVIOUS
  <2> HIDE DEF g
  <2>4. g = [i \in 0 .. n + 1 |-> IF i = 0 THEN e ELSE UpdatePerVarMtrr(g[i - 1], var[i])]
    BY <2>2, <2>3
  <2>5. n + 1 \in Nat OBVIOUS
  <2> QED BY <2>4, <2>5
<1>3. S \in SUBSET Nat OBVIOUS
<1> HIDE DEF S
<1>4. S = Nat BY <1>1, <1>2, <1>3, SetInduction
<1>5. k \in S BY <1>4
<1> QED BY <1>5 DEF S, Unrolls

MtrrValues == [var : [1 .. Count -> Mtrrs \cup {Off}], fixed : Types]

Iterates(e, var, f) ==
  /\ UpdateByVarMtrrs(e, var) = f[Count] /\ f[0] = e
  /\ \A i \in 1 .. Count : f[i] = UpdatePerVarMtrr(f[i - 1], var[i])

LEMMA LoopSteps ==
  ASSUME NEW e, NEW var \in [1 .. Count -> Mtrrs \cup {Off}]
  PROVE  \E f : Iterates(e, var, f)
<1>1. Count \in Nat BY VtExitsAssumption
<1>2. Len(var) = Count BY <1>1
<1> DEFINE after == CHOOSE f : f = [i \in 0 .. Len(var) |->
                                      IF i = 0 THEN e ELSE UpdatePerVarMtrr(f[i - 1], var[i])]
<1>3. UpdateByVarMtrrs(e, var) = after[Len(var)] BY DEF UpdateByVarMtrrs
<1>4. after = [i \in 0 .. Len(var) |->
                 IF i = 0 THEN e ELSE UpdatePerVarMtrr(after[i - 1], var[i])]
  <2>1. \E f : f = [i \in 0 .. Len(var) |->
                      IF i = 0 THEN e ELSE UpdatePerVarMtrr(f[i - 1], var[i])]
    <3>1. \E f : Unrolls(e, var, Len(var), f) BY <1>1, <1>2, LoopExists
    <3> QED BY <3>1, Zenon DEF Unrolls
  <2> QED BY <2>1, Zenon
<1> HIDE DEF after
<1>5. \A i \in 0 .. Count : after[i] = IF i = 0 THEN e ELSE UpdatePerVarMtrr(after[i - 1], var[i])
  BY <1>2, <1>4
<1>6. after[0] = e BY <1>1, <1>5
<1>7. \A i \in 1 .. Count : after[i] = UpdatePerVarMtrr(after[i - 1], var[i])
  BY <1>1, <1>5
<1>8. UpdateByVarMtrrs(e, var) = after[Count] BY <1>2, <1>3
<1>9. Iterates(e, var, after) BY <1>6, <1>7, <1>8 DEF Iterates
<1> QED BY <1>9

\* The type of a page after i variable MTRRs: the strongest of those that count.
After(e, var, p, i) == {j \in 1 .. i : Counts(e, var[j], p)}

Follows(e, g, var, p, i) ==
  /\ CoveredAt(g, p) <=> After(e, var, p, i) # {}
  /\ After(e, var, p, i) # {} =>
       /\ \E j \in After(e, var, p, i) : TypeAt(g, p) = var[j].type
       /\ \A j \in After(e, var, p, i) : TypeAt(g, p) <= var[j].type

LEMMA FollowsStep ==
  ASSUME NEW e, NEW g, NEW h, NEW var, NEW p, NEW i \in Nat,
         \A j \in 1 .. i + 1 : var[j].type \in Nat,
         Follows(e, g, var, p, i),
         IF Counts(e, var[i + 1], p) THEN MergedAt(g, h, p, var[i + 1].type) ELSE SameAt(g, h, p)
  PROVE  Follows(e, h, var, p, i + 1)
<1> DEFINE C == After(e, var, p, i)
           D == After(e, var, p, i + 1)
           t == var[i + 1].type
<1>1. /\ CoveredAt(g, p) <=> C # {}
      /\ C # {} => /\ \E j \in C : TypeAt(g, p) = var[j].type
                   /\ \A j \in C : TypeAt(g, p) <= var[j].type
  BY DEF Follows
<1>2. /\ \A j \in C : j \in 1 .. i + 1 /\ var[j].type \in Nat
      /\ i + 1 \in 1 .. i + 1 /\ t \in Nat
  BY DEF After
<1>3. CASE ~ Counts(e, var[i + 1], p)
  <2>1. D = C BY <1>3 DEF After
  <2>2. TypeAt(h, p) = TypeAt(g, p) /\ CoveredAt(h, p) = CoveredAt(g, p)
    BY <1>3 DEF SameAt
  <2> HIDE DEF C, D
  <2>3. /\ CoveredAt(h, p) <=> D # {}
        /\ D # {} => /\ \E j \in D : TypeAt(h, p) = var[j].type
                     /\ \A j \in D : TypeAt(h, p) <= var[j].type
    BY <1>1, <2>1, <2>2
  <2> QED BY <2>3 DEF Follows, D
<1>4. CASE Counts(e, var[i + 1], p)
  <2>1. D = C \cup {i + 1} BY <1>4 DEF After
  <2>2. /\ CoveredAt(h, p) = TRUE
        /\ TypeAt(h, p) = IF CoveredAt(g, p) /\ TypeAt(g, p) < t THEN TypeAt(g, p) ELSE t
    BY <1>4 DEF MergedAt
  <2> HIDE DEF C, D
  <2>3. CASE C = {}
    <3>1. TypeAt(h, p) = t BY <1>1, <2>2, <2>3
    <3>2. D = {i + 1} BY <2>1, <2>3
    <3>3. /\ CoveredAt(h, p) <=> D # {}
          /\ \E j \in D : TypeAt(h, p) = var[j].type
          /\ \A j \in D : TypeAt(h, p) <= var[j].type
      BY <1>2, <2>2, <3>1, <3>2
    <3> QED BY <3>3 DEF Follows, D
  <2>4. CASE C # {}
    <3>1. PICK k \in C : TypeAt(g, p) = var[k].type BY <1>1, <2>4
    <3>2. TypeAt(g, p) \in Nat /\ k \in D BY <1>2, <2>1, <3>1
    <3>3. TypeAt(h, p) = IF TypeAt(g, p) < t THEN TypeAt(g, p) ELSE t BY <1>1, <2>2, <2>4
    <3>4. \A j \in C : TypeAt(g, p) <= var[j].type BY <1>1, <2>4
    <3>5. \A j \in D : TypeAt(h, p) <= var[j].type
      <4> SUFFICES ASSUME NEW j \in D PROVE TypeAt(h, p) <= var[j].type
        OBVIOUS
      <4>1. CASE j = i + 1 BY <1>2, <3>2, <3>3, <4>1
      <4>2. CASE j \in C
        <5>1. TypeAt(g, p) <= var[j].type /\ var[j].type \in Nat BY <1>2, <3>4, <4>2
        <5> QED BY <1>2, <3>2, <3>3, <5>1
      <4> QED BY <2>1, <4>1, <4>2
    <3>6. \E j \in D : TypeAt(h, p) = var[j].type
      <4>1. CASE TypeAt(g, p) < t BY <3>1, <3>2, <3>3, <4>1
      <4>2. CASE ~ (TypeAt(g, p) < t) BY <2>1, <3>3, <4>2
      <4> QED BY <4>1, <4>2
    <3>7. CoveredAt(h, p) <=> D # {} BY <2>1, <2>2
    <3> QED BY <3>5, <3>6, <3>7 DEF Follows, D
  <2> QED BY <2>3, <2>4
<1> QED BY <1>3, <1>4

\* Nothing was covered when the loop began, and no MTRR is for the whole gigabyte.
Begun(e, var) == ~ e.huge /\ Fresh(e) /\ \A i \in 1 .. Count : var[i].unit # "gigabyte"

LEMMA FollowsStart ==
  ASSUME NEW e, Shape(e), NEW var, ~ e.huge, Fresh(e), NEW p \in Plain
  PROVE  Follows(e, e, var, p, 0)
<1>1. After(e, var, p, 0) = {} BY DEF After
<1>2. p \in Pages /\ RegionOf(p) \in RegionSet BY PlainRegion
<1>3. e \in Maps /\ e.pd \in [RegionSet -> Entries] BY MapParts DEF Shape
<1>4. RegionOf(p) \notin e.large => p \in DOMAIN e.pt BY <1>2 DEF Shape
<1>5. ~ CoveredAt(e, p) BY <1>2, <1>3, <1>4 DEF CoveredAt, Fresh
<1> QED BY <1>1, <1>5 DEF Follows

LEMMA LoopParts ==
  ASSUME NEW e, Shape(e), NEW var \in [1 .. Count -> Mtrrs \cup {Off}]
  PROVE  /\ Carried(e, UpdateByVarMtrrs(e, var))
         /\ Begun(e, var) => \A p \in Plain : Follows(e, UpdateByVarMtrrs(e, var), var, p, Count)
<1>1. Count \in Nat BY VtExitsAssumption
<1>2. PICK f : /\ UpdateByVarMtrrs(e, var) = f[Count] /\ f[0] = e
               /\ \A i \in 1 .. Count : f[i] = UpdatePerVarMtrr(f[i - 1], var[i])
  <2>1. PICK f : Iterates(e, var, f) BY LoopSteps
  <2> QED BY <2>1 DEF Iterates
<1> DEFINE Inv(i) == /\ Carried(e, f[i])
                     /\ Begun(e, var) => \A p \in Plain : Follows(e, f[i], var, p, i)
           S == {i \in Nat : i <= Count => Inv(i)}
<1>3. 0 \in S
  <2>1. Carried(e, f[0]) BY <1>2, CarriedSelf
  <2>2. Begun(e, var) => \A p \in Plain : Follows(e, f[0], var, p, 0)
    BY <1>2, FollowsStart DEF Begun
  <2> QED BY <2>1, <2>2
<1>4. ASSUME NEW i \in S PROVE i + 1 \in S
  <2> SUFFICES ASSUME i + 1 <= Count PROVE Inv(i + 1)
    OBVIOUS
  <2>1. i \in Nat /\ i <= Count /\ i + 1 \in 1 .. Count /\ (i + 1) - 1 = i BY <1>1
  <2>2. Inv(i) BY <2>1
  <2>3. Carried(e, f[i]) BY <2>2
  <2>4. Shape(f[i]) BY <2>3 DEF Carried
  <2>5. f[i + 1] = UpdatePerVarMtrr(f[i], var[i + 1]) BY <1>2, <2>1
  <2>6. var[i + 1] \in Mtrrs \cup {Off} BY <2>1
  <2> DEFINE m == var[i + 1]
  <2>7. /\ Carried(f[i], f[i + 1])
        /\ ~ f[i].huge /\ m.unit # "gigabyte" =>
             \A p \in Plain : IF Counts(f[i], m, p) THEN MergedAt(f[i], f[i + 1], p, m.type)
                                                    ELSE SameAt(f[i], f[i + 1], p)
    BY <2>4, <2>5, <2>6, UpdatePerVarMtrrParts
  <2>8. Carried(e, f[i + 1]) BY <2>3, <2>7, CarriedOn
  <2>9. ASSUME Begun(e, var), NEW p \in Plain PROVE Follows(e, f[i + 1], var, p, i + 1)
    <3>1. Follows(e, f[i], var, p, i) BY <2>2, <2>9
    <3>2. ~ f[i].huge /\ m.unit # "gigabyte" BY <2>1, <2>3, <2>9 DEF Begun, Carried
    <3>3. Counts(f[i], m, p) <=> Counts(e, m, p) BY <2>3 DEF Counts, Carried
    <3>4. IF Counts(e, m, p) THEN MergedAt(f[i], f[i + 1], p, m.type) ELSE SameAt(f[i], f[i + 1], p)
      BY <2>7, <3>2, <3>3
    <3>5. \A j \in 1 .. i + 1 : var[j].type \in Nat
      <4> SUFFICES ASSUME NEW j \in 1 .. i + 1 PROVE var[j].type \in Nat
        OBVIOUS
      <4>1. j \in 1 .. Count BY <1>1, <2>1
      <4>2. var[j] \in Mtrrs \cup {Off} BY <4>1
      <4> QED BY <4>2, MtrrParts, TypeOrder
    <3> QED BY <2>1, <3>1, <3>4, <3>5, FollowsStep
  <2> QED BY <2>8, <2>9
<1>5. S \in SUBSET Nat OBVIOUS
<1> HIDE DEF S, Inv
<1>6. S = Nat BY <1>3, <1>4, <1>5, SetInduction
<1>7. Count \in S BY <1>1, <1>6
<1>8. Inv(Count) BY <1>1, <1>7 DEF S
<1> QED BY <1>2, <1>8 DEF Inv

LEMMA UpdateFixedParts ==
  ASSUME NEW e, Shape(e), NEW t \in Types
  PROVE  /\ Carried(e, UpdateFixed(e, t))
         /\ ~ e.huge => \A p \in Plain \ FixedPages : TypeAt(UpdateFixed(e, t), p) = TypeAt(e, p)
<1> DEFINE s == SplitPdes(e, {0})
           u == [p \in DOMAIN s.pt |-> IF p \in FixedPages THEN [s.pt[p] EXCEPT !.type = t] ELSE s.pt[p]]
           f == [s EXCEPT !.pt = u]
<1>1. UpdateFixed(e, t) = f BY DEF UpdateFixed, SplitPde
<1>2. {0} \in SUBSET RegionSet BY RegionType
<1> HIDE DEF s
<1>3. /\ Shape(s) /\ Carried(e, s)
      /\ ~ e.huge => \A p \in Plain : SameAt(e, s, p)
  BY <1>2, SplitPdesParts, SplitPdesKeeps DEF s
<1>4. s \in Maps BY <1>3 DEF Shape
<1>5. DOMAIN s.pt \in SUBSET Pages /\ \A p \in DOMAIN s.pt : s.pt[p] \in Entries
  BY <1>4, MapParts
<1>6. \A x \in Entries : /\ [x EXCEPT !.type = t] \in Entries
                         /\ [x EXCEPT !.type = t].perms = x.perms /\ [x EXCEPT !.type = t].to = x.to
  BY DEF Entries
<1>7. u \in [DOMAIN s.pt -> Entries] BY <1>5, <1>6
<1>8. u \in PtMaps BY <1>5, <1>7, PtMapIntro
<1>9. /\ DOMAIN u = DOMAIN s.pt
      /\ \A p \in DOMAIN s.pt : u[p].perms = s.pt[p].perms /\ u[p].to = s.pt[p].to
      /\ \A p \in DOMAIN s.pt \ FixedPages : u[p] = s.pt[p]
  BY <1>5, <1>6
<1> HIDE DEF u
<1>10. f \in Maps BY <1>4, <1>8 DEF Maps
<1>11. /\ f.def = s.def /\ f.huge = s.huge /\ f.gib = s.gib /\ f.pd = s.pd
       /\ f.large = s.large /\ f.pt = u
  BY <1>4 DEF Maps
<1> HIDE DEF f
<1>12. Shape(f) BY <1>3, <1>9, <1>10, <1>11 DEF Shape
<1>13. Carried(s, f) BY <1>9, <1>11, <1>12 DEF Carried
<1>14. Carried(e, f) BY <1>3, <1>13, CarriedOn
<1>15. ASSUME ~ e.huge, NEW p \in Plain \ FixedPages PROVE TypeAt(f, p) = TypeAt(e, p)
  <2>1. p \in Plain /\ p \in Pages BY PlainRegion
  <2>2. TypeAt(s, p) = TypeAt(e, p) BY <1>3, <1>15, <2>1 DEF SameAt
  <2>3. RegionOf(p) \notin s.large => p \in DOMAIN s.pt BY <1>3, <2>1 DEF Shape
  <2>4. TypeAt(f, p) = TypeAt(s, p) BY <1>9, <1>11, <2>3 DEF TypeAt
  <2> QED BY <2>2, <2>4
<1> QED BY <1>1, <1>14, <1>15

LEMMA UncoverParts ==
  ASSUME NEW e, Shape(e)
  PROVE  /\ Carried(e, Uncover(e)) /\ Fresh(Uncover(e))
         /\ ~ e.huge => \A p \in Plain : TypeAt(Uncover(e), p) = TypeAt(e, p)
<1> DEFINE clear(x) == [x EXCEPT !.covered = FALSE]
           g == clear(e.gib)
           d == [r \in DOMAIN e.pd |-> clear(e.pd[r])]
           u == [p \in DOMAIN e.pt |-> clear(e.pt[p])]
           f == [e EXCEPT !.gib = g, !.pd = d, !.pt = u]
<1>1. Uncover(e) = f BY DEF Uncover
<1>2. \A x \in Entries : /\ clear(x) \in Entries /\ clear(x).perms = x.perms
                         /\ clear(x).to = x.to /\ clear(x).type = x.type /\ ~ clear(x).covered
  BY DEF Entries
<1>3. /\ e \in Maps /\ e.huge = (e.pd = <<>>) /\ e.gib \in Entries
      /\ DOMAIN e.pt \in SUBSET Pages /\ \A p \in DOMAIN e.pt : e.pt[p] \in Entries
  BY MapParts DEF Shape
<1>4. ~ e.huge => e.pd \in [RegionSet -> Entries] BY <1>3, MapParts
<1>5. g \in Entries /\ ~ g.covered BY <1>2, <1>3
<1>6. /\ DOMAIN u = DOMAIN e.pt
      /\ \A p \in DOMAIN e.pt : u[p] = clear(e.pt[p])
      /\ DOMAIN d = DOMAIN e.pd
      /\ \A r \in DOMAIN e.pd : d[r] = clear(e.pd[r])
  OBVIOUS
<1>7. ASSUME NEW p \in DOMAIN e.pt
      PROVE  /\ u[p] \in Entries /\ u[p].perms = e.pt[p].perms /\ u[p].to = e.pt[p].to
             /\ u[p].type = e.pt[p].type /\ ~ u[p].covered
  <2>1. e.pt[p] \in Entries BY <1>3
  <2> QED BY <1>2, <1>6, <2>1, Zenon
<1>8. ASSUME ~ e.huge, NEW r \in RegionSet
      PROVE  /\ d[r] \in Entries /\ d[r].perms = e.pd[r].perms
             /\ d[r].type = e.pd[r].type /\ ~ d[r].covered
  <2>1. e.pd[r] \in Entries /\ r \in DOMAIN e.pd BY <1>4, <1>8
  <2> QED BY <1>2, <1>6, <2>1, Zenon
<1>9. u \in PtMaps
  <2>1. u \in [DOMAIN e.pt -> Entries] BY <1>7
  <2> QED BY <1>3, <2>1, PtMapIntro
<1>10. d \in PdMaps /\ (d = <<>> <=> e.pd = <<>>)
  <2>1. DOMAIN <<>> = {} OBVIOUS
  <2>2. CASE e.huge
    <3>1. DOMAIN d = {} BY <1>3, <2>1, <2>2
    <3>2. d = <<>> BY <3>1
    <3> QED BY <3>2, <1>3, <2>2 DEF PdMaps
  <2>3. CASE ~ e.huge
    <3>1. DOMAIN d = RegionSet BY <1>4, <2>3
    <3>2. d \in [RegionSet -> Entries] BY <1>8, <2>3, <3>1
    <3>3. d # <<>> BY <2>1, <3>1, RegionType
    <3> QED BY <3>2, <3>3, <1>3, <2>3 DEF PdMaps
  <2> QED BY <2>2, <2>3
<1> HIDE DEF u, d, g, clear
<1>11. f \in Maps BY <1>3, <1>5, <1>9, <1>10 DEF Maps
<1>12. /\ f.def = e.def /\ f.huge = e.huge /\ f.gib = g /\ f.pd = d
       /\ f.large = e.large /\ f.pt = u
  BY <1>3 DEF Maps
<1> HIDE DEF f
<1>13. Shape(f) BY <1>3, <1>6, <1>10, <1>11, <1>12 DEF Shape
<1>14. Carried(e, f) BY <1>6, <1>7, <1>8, <1>12, <1>13 DEF Carried
<1>15. Fresh(f)
  <2>1. \A r \in DOMAIN d : ~ d[r].covered
    <3>1. CASE e.huge
      <4>1. DOMAIN <<>> = {} OBVIOUS
      <4> QED BY <3>1, <4>1, <1>3, <1>6
    <3>2. CASE ~ e.huge BY <3>2, <1>4, <1>6, <1>8
    <3> QED BY <3>1, <3>2
  <2>2. \A p \in DOMAIN u : ~ u[p].covered BY <1>6, <1>7
  <2> QED BY <2>1, <2>2, <1>5, <1>12 DEF Fresh
<1>16. ASSUME ~ e.huge, NEW p \in Plain PROVE TypeAt(f, p) = TypeAt(e, p)
  <2>1. p \in Pages /\ RegionOf(p) \in RegionSet BY PlainRegion
  <2>2. RegionOf(p) \notin e.large => p \in DOMAIN e.pt BY <2>1 DEF Shape
  <2> QED BY <2>1, <2>2, <1>7, <1>8, <1>12, <1>16 DEF TypeAt
<1> QED BY <1>1, <1>14, <1>15, <1>16

\* The type of a page is that of the strongest MTRR that counts.
Strongest(e, f, var, p) ==
  After(e, var, p, Count) # {} =>
    /\ \E j \in After(e, var, p, Count) : TypeAt(f, p) = var[j].type
    /\ \A j \in After(e, var, p, Count) : TypeAt(f, p) <= var[j].type

LEMMA UpdateByMtrrParts ==
  ASSUME NEW e, Shape(e), NEW m \in MtrrValues
  PROVE  /\ Carried(e, UpdateByMtrr(e, m)) /\ Fresh(UpdateByMtrr(e, m))
         /\ Begun(e, m.var) /\ e.def.enabled =>
              \A p \in Plain \ FixedPages : Strongest(e, UpdateByMtrr(e, m), m.var, p)
<1>1. m.var \in [1 .. Count -> Mtrrs \cup {Off}] /\ m.fixed \in Types BY DEF MtrrValues
<1> DEFINE v == IF e.def.enabled THEN UpdateByVarMtrrs(e, m.var) ELSE e
           w == IF e.def.enabled /\ e.def.fixed THEN UpdateFixed(v, m.fixed) ELSE v
           f == Uncover(w)
<1>2. UpdateByMtrr(e, m) = f BY DEF UpdateByMtrr
<1>3. Carried(e, v) BY <1>1, LoopParts, CarriedSelf
<1>4. Begun(e, m.var) /\ e.def.enabled => \A p \in Plain : Follows(e, v, m.var, p, Count)
  BY <1>1, LoopParts
<1>5. Shape(v) BY <1>3 DEF Carried
<1>6. Begun(e, m.var) => ~ v.huge BY <1>3 DEF Carried, Begun
<1> HIDE DEF v
<1>7. /\ Carried(v, w)
      /\ ~ v.huge => \A p \in Plain \ FixedPages : TypeAt(w, p) = TypeAt(v, p)
  BY <1>1, <1>5, UpdateFixedParts, CarriedSelf
<1>8. Shape(w) /\ (~ v.huge => ~ w.huge) BY <1>7 DEF Carried
<1> HIDE DEF w
<1>9. /\ Carried(w, f) /\ Fresh(f)
      /\ ~ w.huge => \A p \in Plain : TypeAt(f, p) = TypeAt(w, p)
  BY <1>8, UncoverParts
<1> HIDE DEF f
<1>10. Carried(e, f) BY <1>3, <1>7, <1>9, CarriedOn
<1>11. ASSUME Begun(e, m.var), e.def.enabled, NEW p \in Plain \ FixedPages
       PROVE  Strongest(e, f, m.var, p)
  <2>1. Follows(e, v, m.var, p, Count) BY <1>4, <1>11
  <2>2. TypeAt(f, p) = TypeAt(v, p) BY <1>6, <1>7, <1>8, <1>9, <1>11
  <2> QED BY <2>1, <2>2 DEF Follows, Strongest
<1> QED BY <1>2, <1>9, <1>10, <1>11

\* Pages that are mapped anew, with the others as they were.
Remapped(e, f, S, to, perms) ==
  /\ Shape(f) /\ f.def = e.def
  /\ Fresh(e) => Fresh(f)
  /\ S # {} \/ ~ e.huge => ~ f.huge
  /\ ~ e.huge => f.pd = e.pd
  /\ DOMAIN e.pt \cup S \subseteq DOMAIN f.pt
  /\ \A p \in S : f.pt[p].perms = perms /\ f.pt[p].to = to[p]
  /\ \A p \in DOMAIN e.pt \ S : f.pt[p] = e.pt[p]

LEMMA UpdatePtesParts ==
  ASSUME NEW e, Shape(e), NEW S \in SUBSET Pages, NEW to, \A p \in S : to[p] \in Nat,
         NEW perms \in SUBSET Full
  PROVE  Remapped(e, UpdatePtes(e, S, to, perms), S, to, perms)
<1> DEFINE R == {RegionOf(p) : p \in S}
           s == SplitPdes(e, R)
           new(p) == [s.pt[p] EXCEPT !.perms = perms, !.to = to[p]]
           u == [p \in DOMAIN s.pt |-> IF p \in S THEN new(p) ELSE s.pt[p]]
           f == [s EXCEPT !.pt = u]
<1>1. UpdatePtes(e, S, to, perms) = f BY DEF UpdatePtes
<1>2. R \in SUBSET RegionSet BY RegionType
<1>3. R = {} <=> S = {} OBVIOUS
<1>4. \A p \in S : p \in Pages /\ RegionOf(p) \in R OBVIOUS
<1> HIDE DEF R, s
<1>5. /\ Shape(s) /\ s.def = e.def
      /\ (R # {} \/ ~ e.huge) => ~ s.huge
      /\ ~ e.huge => s.pd = e.pd
      /\ DOMAIN s.pt = DOMAIN e.pt \cup {q \in Pages : RegionOf(q) \in R}
      /\ \A p \in DOMAIN e.pt : s.pt[p] = e.pt[p]
      /\ Fresh(e) => Fresh(s)
  BY <1>2, SplitPdesParts DEF s
<1>6. s \in Maps BY <1>5 DEF Shape
<1>7. DOMAIN s.pt \in SUBSET Pages /\ \A p \in DOMAIN s.pt : s.pt[p] \in Entries
  BY <1>6, MapParts
<1>8. S \subseteq DOMAIN s.pt BY <1>4, <1>5
<1>9. ASSUME NEW p \in S
      PROVE  /\ new(p) \in Entries /\ new(p).perms = perms /\ new(p).to = to[p]
             /\ new(p).covered = s.pt[p].covered
  <2>1. s.pt[p] \in Entries /\ to[p] \in Nat BY <1>7, <1>8
  <2> QED BY <2>1 DEF Entries
<1>10. u \in [DOMAIN s.pt -> Entries] BY <1>7, <1>9
<1>11. u \in PtMaps BY <1>7, <1>10, PtMapIntro
<1>12. /\ DOMAIN u = DOMAIN s.pt
       /\ \A p \in S : /\ u[p].perms = perms /\ u[p].to = to[p]
                       /\ u[p].covered = s.pt[p].covered
       /\ \A p \in DOMAIN s.pt \ S : u[p] = s.pt[p]
  BY <1>8, <1>9
<1> HIDE DEF u, new
<1>13. f \in Maps BY <1>6, <1>11 DEF Maps
<1>14. /\ f.def = s.def /\ f.huge = s.huge /\ f.gib = s.gib /\ f.pd = s.pd
       /\ f.large = s.large /\ f.pt = u
  BY <1>6 DEF Maps
<1> HIDE DEF f
<1>15. Shape(f) BY <1>5, <1>12, <1>13, <1>14 DEF Shape
<1>16. Fresh(e) => Fresh(f)
  <2> SUFFICES ASSUME Fresh(e) PROVE Fresh(f)
    OBVIOUS
  <2>1. Fresh(s) BY <1>5
  <2>2. \A p \in DOMAIN u : ~ u[p].covered
    <3> SUFFICES ASSUME NEW p \in DOMAIN u PROVE ~ u[p].covered
      OBVIOUS
    <3>1. p \in DOMAIN s.pt /\ ~ s.pt[p].covered BY <2>1, <1>12 DEF Fresh
    <3> QED BY <3>1, <1>12
  <2> QED BY <2>1, <2>2, <1>14 DEF Fresh
<1>17. DOMAIN e.pt \cup S \subseteq DOMAIN f.pt BY <1>5, <1>8, <1>12, <1>14
<1>18. \A p \in DOMAIN e.pt \ S : f.pt[p] = e.pt[p] BY <1>5, <1>12, <1>14
<1>19. Remapped(e, f, S, to, perms)
  BY <1>3, <1>5, <1>12, <1>14, <1>15, <1>16, <1>17, <1>18 DEF Remapped
<1> QED BY <1>1, <1>19

\* The tables' own region is mapped large, over the entries of its pages.
LEMMA UpdatePdeLargeParts ==
  ASSUME NEW e, Shape(e), Fresh(e), NEW f, f = UpdatePdeLarge(e, OwnRegion, {"r"})
  PROVE  /\ Shape(f) /\ Fresh(f) /\ f.def = e.def /\ ~ f.huge /\ f.pt = e.pt
         /\ f.pd[OwnRegion].perms = {"r"}
<1> DEFINE s == SplitPdpte(e)
           x == Entry(UC, s.pd[OwnRegion].covered, {"r"}, OwnRegion * Size)
           d == [s.pd EXCEPT ![OwnRegion] = x]
           l == s.large \cup {OwnRegion}
<1>1. OwnRegion \in RegionSet /\ OwnRegion * Size \in Nat BY EptAssumption, RegionType
<1> HIDE DEF s
<1>2. /\ Shape(s) /\ Fresh(s) /\ s.def = e.def /\ s.huge = FALSE /\ s.pt = e.pt
      /\ s.pd \in [RegionSet -> Entries]
  BY SplitPdpteParts DEF s
<1>3. s \in Maps /\ s.large \subseteq RegionSet /\ s.pd[OwnRegion] \in Entries
  BY <1>1, <1>2, MapParts DEF Shape
<1>4. /\ x \in Entries /\ x.covered = s.pd[OwnRegion].covered /\ x.perms = {"r"}
  <2>1. s.pd[OwnRegion].covered \in BOOLEAN /\ UC \in Types /\ {"r"} \in SUBSET Full
    BY <1>3, EntryParts DEF Types, Full
  <2> QED BY <1>1, <2>1, EntryParts
<1>5. f = [s EXCEPT !.pd = d, !.large = l] BY DEF UpdatePdeLarge, s
<1> HIDE DEF x
<1>6. /\ d \in [RegionSet -> Entries] /\ d[OwnRegion] = x
      /\ \A r \in RegionSet \ {OwnRegion} : d[r] = s.pd[r]
  BY <1>1, <1>2, <1>4
<1>7. d # <<>>
  <2>1. DOMAIN <<>> = {} OBVIOUS
  <2>2. DOMAIN d = RegionSet BY <1>6
  <2> QED BY <1>1, <2>1, <2>2
<1>8. d \in PdMaps /\ l \in SUBSET RegionSet BY <1>1, <1>3, <1>6 DEF PdMaps
<1> HIDE DEF d
<1>9. f \in Maps BY <1>3, <1>5, <1>8 DEF Maps
<1>10. /\ f.def = s.def /\ f.huge = s.huge /\ f.gib = s.gib /\ f.pd = d
       /\ f.large = l /\ f.pt = s.pt
  BY <1>3, <1>5 DEF Maps
<1>11. Shape(f) BY <1>2, <1>7, <1>9, <1>10 DEF Shape
<1>12. Fresh(f)
  <2>1. ~ s.pd[OwnRegion].covered BY <1>1, <1>2 DEF Fresh
  <2>2. \A r \in RegionSet : ~ d[r].covered
    <3> SUFFICES ASSUME NEW r \in RegionSet PROVE ~ d[r].covered
      OBVIOUS
    <3>1. ~ s.pd[r].covered BY <1>2 DEF Fresh
    <3> QED BY <3>1, <2>1, <1>4, <1>6
  <2>3. DOMAIN d = RegionSet BY <1>6
  <2> QED BY <1>2, <1>10, <2>2, <2>3 DEF Fresh
<1> QED BY <1>2, <1>4, <1>6, <1>10, <1>11, <1>12

\* An entry of a hooked page that hides the hook, but for a page that is stepped over.
Hides(x, p, stepped) ==
  /\ x.perms \cap {"r", "w"} # {} => x.to = p
  /\ "x" \in x.perms /\ ~ stepped => x.to = HookOf(p)

HooksIn(e) == \A p \in Hooked : p \in DOMAIN e.pt /\ Hides(e.pt[p], p, FALSE)

\* The tables as they are given to the processor.
LEMMA BuildTablesParts ==
  ASSUME NEW def \in Defs, NEW m \in MtrrValues, NEW f, f = BuildTables(def, m)
  PROVE  /\ Shape(f) /\ Fresh(f) /\ f.def = def /\ ~ f.huge
         /\ f.pd[OwnRegion].perms = {"r"} /\ HooksIn(f)
<1> DEFINE e0 == HugeMap(def)
           e1 == UpdateByMtrr(e0, m)
           hooks == [p \in Hooked |-> HookOf(p)]
           e2 == UpdatePtes(e1, Hooked, hooks, {"x"})
           e3 == UpdatePtes(e2, Ci, Identity, {"r", "x"})
           one == [p \in {Blank} |-> Essential]
           e4 == UpdatePtes(e3, {Blank}, one, Full)
           e5 == UpdatePdeLarge(e4, OwnRegion, {"r"})
           e6 == UpdatePtes(e5, Mmio, Identity, {})
<1>1. f = e6
  BY DEF BuildTables, InstallMmioHooks, ProtectHypervisor, InitializeCi, InsertHooks
<1> HIDE DEF e0, e1, e2, e3, e4, e5, e6
<1>2. /\ Hooked \subseteq Pages /\ Hooked # {} /\ Ci \subseteq Pages /\ Mmio \subseteq Pages
      /\ Essential \in Pages /\ Blank \in Pages
      /\ Hooked \cap Ci = {} /\ Blank \notin Hooked
  BY EptAssumption
<1>3. Shape(e0) /\ Fresh(e0) /\ e0.def = def
  <2> DEFINE g == Entry(IF def.enabled THEN def.type ELSE UC, FALSE, Full, 0)
  <2>1. def \in [enabled : BOOLEAN, fixed : BOOLEAN, type : {WB}]
    <3>1. CASE def = [enabled |-> TRUE, fixed |-> TRUE, type |-> WB] BY <3>1
    <3>2. CASE def = [enabled |-> FALSE, fixed |-> FALSE, type |-> WB] BY <3>2
    <3> QED BY <3>1, <3>2 DEF Defs
  <2>2. (IF def.enabled THEN def.type ELSE UC) \in Types BY <2>1 DEF Types
  <2>3. g \in Entries /\ g.covered = FALSE BY <2>2, EntryParts DEF Full
  <2>4. DOMAIN <<>> = {} OBVIOUS
  <2>5. <<>> \in PtMaps
    <3>1. <<>> \in [{} -> Entries] BY <2>4
    <3> QED BY <3>1, PtMapIntro
  <2>6. <<>> \in PdMaps BY DEF PdMaps
  <2> HIDE DEF g
  <2>7. e0 = [def |-> def, huge |-> TRUE, gib |-> g, pd |-> <<>>, large |-> RegionSet, pt |-> <<>>]
    BY DEF e0, HugeMap, g
  <2>8. e0 \in Maps BY <2>1, <2>3, <2>5, <2>6, <2>7 DEF Maps
  <2>9. /\ e0.def = def /\ e0.huge = TRUE /\ e0.gib = g /\ e0.pd = <<>>
        /\ e0.large = RegionSet /\ e0.pt = <<>>
    BY <2>7
  <2>10. Shape(e0) BY <2>4, <2>8, <2>9, RegionType DEF Shape
  <2>11. Fresh(e0) BY <2>3, <2>4, <2>9 DEF Fresh
  <2> QED BY <2>9, <2>10, <2>11
<1>4. Shape(e1) /\ Fresh(e1) /\ e1.def = def
  BY <1>3, UpdateByMtrrParts DEF e1, Carried
<1>5. Remapped(e1, e2, Hooked, hooks, {"x"})
  <2>1. \A p \in Hooked : hooks[p] \in Nat BY <1>2, RegionType
  <2>2. {"x"} \in SUBSET Full BY DEF Full
  <2> QED BY <1>2, <1>4, <2>1, <2>2, UpdatePtesParts DEF e2
<1>6. Shape(e2) /\ Fresh(e2) /\ e2.def = def /\ ~ e2.huge BY <1>2, <1>4, <1>5 DEF Remapped
<1>7. HooksIn(e2)
  <2> SUFFICES ASSUME NEW p \in Hooked PROVE p \in DOMAIN e2.pt /\ Hides(e2.pt[p], p, FALSE)
    BY DEF HooksIn
  <2>1. e2.pt[p].perms = {"x"} /\ e2.pt[p].to = HookOf(p) /\ p \in DOMAIN e2.pt
    BY <1>5 DEF Remapped
  <2> QED BY <2>1 DEF Hides
<1>8. \A p \in Pages : Identity[p] \in Nat BY RegionType DEF Identity
<1>9. Remapped(e2, e3, Ci, Identity, {"r", "x"})
  <2>1. {"r", "x"} \in SUBSET Full BY DEF Full
  <2> QED BY <1>2, <1>6, <1>8, <2>1, UpdatePtesParts DEF e3
<1>10. Shape(e3) /\ Fresh(e3) /\ e3.def = def /\ ~ e3.huge BY <1>6, <1>9 DEF Remapped
<1>11. HooksIn(e3) BY <1>2, <1>7, <1>9 DEF HooksIn, Remapped
<1>12. Remapped(e3, e4, {Blank}, one, Full)
  <2>1. \A p \in {Blank} : one[p] \in Nat BY <1>2, RegionType
  <2>2. {Blank} \in SUBSET Pages BY <1>2
  <2> QED BY <1>10, <2>1, <2>2, UpdatePtesParts DEF e4
<1>13. Shape(e4) /\ Fresh(e4) /\ e4.def = def /\ ~ e4.huge BY <1>10, <1>12 DEF Remapped
<1>14. HooksIn(e4) BY <1>2, <1>11, <1>12 DEF HooksIn, Remapped
<1>15. /\ Shape(e5) /\ Fresh(e5) /\ e5.def = def /\ ~ e5.huge /\ e5.pt = e4.pt
       /\ e5.pd[OwnRegion].perms = {"r"}
  BY <1>13, UpdatePdeLargeParts DEF e5
<1>16. HooksIn(e5) BY <1>14, <1>15 DEF HooksIn
<1>17. Remapped(e5, e6, Mmio, Identity, {})
  BY <1>2, <1>8, <1>15, UpdatePtesParts DEF e6
<1>18. HooksIn(e6)
  <2> SUFFICES ASSUME NEW p \in Hooked PROVE p \in DOMAIN e6.pt /\ Hides(e6.pt[p], p, FALSE)
    BY DEF HooksIn
  <2>1. p \in DOMAIN e5.pt /\ Hides(e5.pt[p], p, FALSE) BY <1>16 DEF HooksIn
  <2>2. p \in DOMAIN e6.pt BY <2>1, <1>17 DEF Remapped
  <2>3. CASE p \in Mmio
    <3>1. e6.pt[p].perms = {} BY <1>17, <2>3 DEF Remapped
    <3> QED BY <2>2, <3>1 DEF Hides
  <2>4. CASE p \notin Mmio BY <1>17, <2>1, <2>2, <2>4 DEF Remapped
  <2> QED BY <2>3, <2>4
<1>19. /\ Shape(e6) /\ Fresh(e6) /\ e6.def = def /\ ~ e6.huge
       /\ e6.pd[OwnRegion].perms = {"r"}
  BY <1>15, <1>17 DEF Remapped
<1> QED BY <1>1, <1>18, <1>19

\* An entry of a page is given other permissions and another host page.
PageSet(e, p, perms, to) == [e EXCEPT !.pt[p].perms = perms, !.pt[p].to = to]

Reset(e, f, p, perms, to) ==
  /\ Shape(f) /\ f.def = e.def /\ f.huge = e.huge /\ f.gib = e.gib /\ f.pd = e.pd
  /\ f.large = e.large /\ DOMAIN f.pt = DOMAIN e.pt
  /\ f.pt[p].perms = perms /\ f.pt[p].to = to /\ f.pt[p].type = e.pt[p].type
  /\ f.pt[p].covered = e.pt[p].covered
  /\ \A q \in DOMAIN e.pt \ {p} : f.pt[q] = e.pt[q]

LEMMA PageSetParts ==
  ASSUME NEW e, Shape(e), NEW p \in DOMAIN e.pt, NEW perms \in SUBSET Full, NEW to \in Nat
  PROVE  Reset(e, PageSet(e, p, perms, to), p, perms, to)
<1> DEFINE x == [e.pt[p] EXCEPT !.perms = perms, !.to = to]
           u == [e.pt EXCEPT ![p] = x]
           f == [e EXCEPT !.pt = u]
<1>1. e \in Maps BY DEF Shape
<1>2. DOMAIN e.pt \in SUBSET Pages /\ \A q \in DOMAIN e.pt : e.pt[q] \in Entries
  BY <1>1, MapParts
<1>3. /\ x \in Entries /\ x.perms = perms /\ x.to = to /\ x.type = e.pt[p].type
      /\ x.covered = e.pt[p].covered
  BY <1>2 DEF Entries
<1>4. e.pt \in [DOMAIN e.pt -> Entries]
  <2>1. PICK D \in SUBSET Pages : e.pt \in [D -> Entries] BY <1>1, MapParts DEF PtMaps
  <2> QED BY <2>1
<1>5. PageSet(e, p, perms, to) = f
  <2>1. [[e EXCEPT !.pt[p].perms = perms] EXCEPT !.pt[p].to = to] = f
    <3>1. [[e.pt EXCEPT ![p].perms = perms] EXCEPT ![p].to = to] = u
      BY <1>2, <1>4 DEF Entries
    <3>2. [e EXCEPT !.pt[p].perms = perms].pt = [e.pt EXCEPT ![p].perms = perms]
      BY <1>1 DEF Maps
    <3> QED BY <1>1, <3>1, <3>2 DEF Maps
  <2> QED BY <2>1 DEF PageSet
<1> HIDE DEF x
<1>6. /\ u \in [DOMAIN e.pt -> Entries] /\ DOMAIN u = DOMAIN e.pt /\ u[p] = x
      /\ \A q \in DOMAIN e.pt \ {p} : u[q] = e.pt[q]
  BY <1>3, <1>4
<1>7. u \in PtMaps BY <1>2, <1>6, PtMapIntro
<1> HIDE DEF u
<1>8. f \in Maps BY <1>1, <1>7 DEF Maps
<1>9. /\ f.def = e.def /\ f.huge = e.huge /\ f.gib = e.gib /\ f.pd = e.pd
      /\ f.large = e.large /\ f.pt = u
  BY <1>1 DEF Maps
<1> HIDE DEF f
<1>10. Shape(f) BY <1>6, <1>8, <1>9 DEF Shape
<1>11. Reset(e, f, p, perms, to) BY <1>3, <1>6, <1>9, <1>10 DEF Reset
<1> QED BY <1>5, <1>11

LEMMA ResetKeeps ==
  ASSUME NEW e, Shape(e), Fresh(e), ~ e.huge, NEW f, NEW p \in DOMAIN e.pt, NEW perms, NEW to,
         Reset(e, f, p, perms, to)
  PROVE  /\ Fresh(f)
         /\ \A q \in Pages : Translate(f, q).type = Translate(e, q).type
         /\ \A q \in Pages \ {p} : Translate(f, q) = Translate(e, q)
<1>1. Fresh(f)
  <2>1. ASSUME NEW q \in DOMAIN f.pt PROVE ~ f.pt[q].covered
    <3>1. q \in DOMAIN e.pt /\ ~ e.pt[q].covered BY <2>1 DEF Reset, Fresh
    <3> QED BY <3>1 DEF Reset
  <2> QED BY <2>1 DEF Reset, Fresh
<1>2. ASSUME NEW q \in Pages, RegionOf(q) \notin e.large
      PROVE  /\ q \in DOMAIN e.pt /\ f.pt[q].type = e.pt[q].type
             /\ q # p => f.pt[q] = e.pt[q]
  BY <1>2 DEF Shape, Reset
<1>3. ASSUME NEW q \in Pages PROVE Translate(f, q).type = Translate(e, q).type
  <2>1. ~ f.huge /\ f.large = e.large /\ f.pd = e.pd BY DEF Reset
  <2>2. CASE RegionOf(q) \in e.large BY <2>1, <2>2 DEF Translate
  <2>3. CASE RegionOf(q) \notin e.large BY <2>1, <2>3, <1>2 DEF Translate
  <2> QED BY <2>2, <2>3
<1>4. ASSUME NEW q \in Pages \ {p} PROVE Translate(f, q) = Translate(e, q)
  <2>1. ~ f.huge /\ f.large = e.large /\ f.pd = e.pd BY DEF Reset
  <2>2. CASE RegionOf(q) \in e.large BY <2>1, <2>2 DEF Translate
  <2>3. CASE RegionOf(q) \notin e.large BY <2>1, <2>3, <1>2 DEF Translate
  <2> QED BY <2>2, <2>3
<1> QED BY <1>1, <1>3, <1>4

\* A translation.
LEMMA TranslateType ==
  ASSUME NEW e, Shape(e), ~ e.huge, NEW p \in Pages
  PROVE  /\ Translate(e, p).type \in Types /\ Translate(e, p).perms \subseteq Full
         /\ Translate(e, p).type = TypeAt(e, p)
         /\ RegionOf(p) \in e.large => Translate(e, p).perms = e.pd[RegionOf(p)].perms /\ Translate(e, p).to = p
         /\ RegionOf(p) \notin e.large =>
              Translate(e, p).perms \subseteq e.pt[p].perms /\ Translate(e, p).to = e.pt[p].to
<1>1. e \in Maps /\ e.pd \in [RegionSet -> Entries] BY MapParts DEF Shape
<1>2. RegionOf(p) \in RegionSet BY RegionType
<1>3. e.pd[RegionOf(p)] \in Entries BY <1>1, <1>2
<1>4. RegionOf(p) \notin e.large => p \in DOMAIN e.pt /\ e.pt[p] \in Entries
  BY <1>1, MapParts DEF Shape
<1>5. CASE RegionOf(p) \in e.large
  BY <1>3, <1>5, EntryParts DEF Translate, TypeAt
<1>6. CASE RegionOf(p) \notin e.large
  <2>1. /\ Translate(e, p).type = e.pt[p].type /\ Translate(e, p).to = e.pt[p].to
        /\ Translate(e, p).perms = e.pt[p].perms \cap e.pd[RegionOf(p)].perms
        /\ TypeAt(e, p) = e.pt[p].type
    BY <1>6 DEF Translate, TypeAt
  <2>2. e.pt[p].type \in Types /\ e.pt[p].perms \subseteq Full BY <1>4, <1>6, EntryParts
  <2> QED BY <1>6, <2>1, <2>2
<1> QED BY <1>5, <1>6

\* The types of the tables are those of the variable MTRRs.
TypesIn(e, var) ==
  \A p \in Plain \ FixedPages : After(e, var, p, Count) # {} =>
    Translate(e, p).type = Min({var[i].type : i \in After(e, var, p, Count)})

LEMMA TypesByUpdate ==
  ASSUME NEW e, Shape(e), NEW m \in MtrrValues, Begun(e, m.var), e.def.enabled
  PROVE  TypesIn(UpdateByMtrr(e, m), m.var)
<1> DEFINE f == UpdateByMtrr(e, m)
<1>1. Carried(e, f) /\ \A p \in Plain \ FixedPages : Strongest(e, f, m.var, p)
  BY UpdateByMtrrParts
<1> HIDE DEF f
<1>2. ~ f.huge /\ Shape(f) /\ f.def = e.def BY <1>1 DEF Carried, Begun
<1>3. ASSUME NEW p \in Plain \ FixedPages, After(f, m.var, p, Count) # {}
      PROVE  Translate(f, p).type = Min({m.var[i].type : i \in After(f, m.var, p, Count)})
  <2> DEFINE C == After(f, m.var, p, Count)
             S == {m.var[i].type : i \in C}
  <2>1. After(e, m.var, p, Count) = C BY <1>2 DEF After, Counts
  <2>2. C \subseteq 1 .. Count BY DEF After
  <2>3. \A i \in 1 .. Count : m.var[i].type \in Nat
    <3> SUFFICES ASSUME NEW i \in 1 .. Count PROVE m.var[i].type \in Nat
      OBVIOUS
    <3>1. m.var[i] \in Mtrrs \cup {Off} BY DEF MtrrValues
    <3> QED BY <3>1, MtrrParts, TypeOrder
  <2>4. S \in SUBSET Nat /\ S # {} BY <1>3, <2>2, <2>3
  <2>5. Min(S) \in S /\ \A n \in S : Min(S) <= n BY <2>4, LeastElement
  <2>6. Strongest(e, f, m.var, p) BY <1>1, <1>3
  <2>7. (\E i \in C : TypeAt(f, p) = m.var[i].type) /\ \A i \in C : TypeAt(f, p) <= m.var[i].type
    BY <1>3, <2>1, <2>6 DEF Strongest
  <2>8. TypeAt(f, p) \in S /\ \A n \in S : TypeAt(f, p) <= n BY <2>7
  <2> HIDE DEF S, C
  <2>9. TypeAt(f, p) = Min(S)
    <3> DEFINE a == TypeAt(f, p)
               b == Min(S)
    <3>1. a \in Nat /\ b \in Nat BY <2>4, <2>5, <2>8
    <3>2. a <= b /\ b <= a BY <2>5, <2>8
    <3> HIDE DEF a, b
    <3>3. a = b BY <3>1, <3>2
    <3> QED BY <3>3 DEF a, b
  <2>10. Translate(f, p).type = TypeAt(f, p) BY <1>2, <1>3, PlainRegion, TranslateType
  <2> QED BY <2>9, <2>10 DEF S, C
<1>4. TypesIn(f, m.var) BY <1>3 DEF TypesIn
<1> QED BY <1>4 DEF f

LEMMA TypesByReset ==
  ASSUME NEW e, Shape(e), Fresh(e), ~ e.huge, NEW f, NEW p \in DOMAIN e.pt, NEW perms, NEW to,
         Reset(e, f, p, perms, to), NEW var, TypesIn(e, var)
  PROVE  TypesIn(f, var)
<1>1. f.def = e.def BY DEF Reset
<1>2. \A q \in Pages : Translate(f, q).type = Translate(e, q).type BY ResetKeeps
<1>3. ASSUME NEW q \in Plain \ FixedPages, After(f, var, q, Count) # {}
      PROVE  Translate(f, q).type = Min({var[i].type : i \in After(f, var, q, Count)})
  <2>1. After(f, var, q, Count) = After(e, var, q, Count) BY <1>1 DEF After, Counts
  <2>2. Translate(f, q).type = Translate(e, q).type BY <1>2, PlainRegion
  <2>3. Translate(e, q).type = Min({var[i].type : i \in After(e, var, q, Count)})
    BY <1>3, <2>1 DEF TypesIn
  <2> QED BY <2>1, <2>2, <2>3
<1> QED BY <1>3 DEF TypesIn

-----------------------------------------------------------------------------
(* The VM-Exits of the host under Intel VT-x.                              *)

ScalarsOK ==
  /\ phase \in {"active", "wait_for_sipi", "off"}
  /\ mtf \in BOOLEAN /\ pending_hook_index \in Hooked /\ abandoned \in BOOLEAN
  /\ mtrr \in MtrrValues
  /\ cd \in BOOLEAN /\ mtrr_dirty \in BOOLEAN /\ stopped \in BOOLEAN
  /\ pg \in BOOLEAN /\ cr3 \in {"user", "kernel"} /\ efer \subseteq {"lme", "lma"}
  /\ ia32e \in BOOLEAN /\ paged \subseteq {"user", "kernel", "unpaged"}

\* The tables between two exits.
EptHolds ==
  /\ Shape(ept) /\ Fresh(ept)
  /\ ~ ept.huge /\ ept.def \in Defs
  /\ ept.pd[OwnRegion].perms = {"r"}

\* What the processor keeps is what the tables say.
Coherent == \A p \in DOMAIN tlb : p \in Pages /\ tlb[p] = Translate(ept, p)

\* A hooked page has an entry of its own, which hides the hook, but for the one stepped over.
HooksKept ==
  \A p \in Hooked :
    /\ p \in DOMAIN ept.pt
    /\ ~ abandoned => Hides(ept.pt[p], p, mtf /\ pending_hook_index = p)

\* The types of the tables are those of the MTRRs, but for an update that was put off.
TypesFollow == ept.def.enabled /\ ~ mtrr_dirty /\ ~ stopped => TypesIn(ept, mtrr.var)

\* The modes of caching and of the system's own paging.
ModesFollow ==
  /\ ~ cd => ~ mtrr_dirty
  /\ phase # "off" =>
       /\ ia32e = ("lma" \in efer) /\ ("lma" \in efer) = ("lme" \in efer /\ pg)
       /\ paged \subseteq {Mode}

EptInv == EptHolds /\ Coherent /\ HooksKept /\ TypesFollow

LEMMA HookedPages == Hooked \subseteq Pages /\ \A p \in Hooked : Found(p) = p
BY EptAssumption DEF Found

-----------------------------------------------------------------------------
(* The initial state.                                                      *)

LEMMA ScalarsStart == ExitInit => ScalarsOK
<1> SUFFICES ASSUME ExitInit PROVE ScalarsOK
  OBVIOUS
<1>1. mtrr \in MtrrValues
  <2>1. mtrr = [var |-> [i \in 1 .. Count |-> Off], fixed |-> WB] BY DEF ExitInit
  <2>2. [i \in 1 .. Count |-> Off] \in [1 .. Count -> Mtrrs \cup {Off}] OBVIOUS
  <2> QED BY <2>1, <2>2 DEF MtrrValues, Types
<1>2. pending_hook_index \in Hooked
  <2>1. Hooked \in SUBSET Nat /\ Hooked # {} BY EptAssumption, RegionType
  <2>2. Min(Hooked) \in Hooked BY <2>1, LeastElement
  <2> QED BY <2>2 DEF ExitInit
<1> QED BY <1>1, <1>2 DEF ExitInit, ScalarsOK

LEMMA EptStart == ExitInit => EptInv
<1> SUFFICES ASSUME ExitInit PROVE EptInv
  OBVIOUS
<1>1. mtrr \in MtrrValues BY ScalarsStart DEF ScalarsOK
<1>2. PICK def \in Defs : ept = BuildTables(def, mtrr) BY DEF ExitInit
<1>3. /\ Shape(ept) /\ Fresh(ept) /\ ept.def = def /\ ~ ept.huge
      /\ ept.pd[OwnRegion].perms = {"r"} /\ HooksIn(ept)
  BY <1>1, <1>2, BuildTablesParts
<1>4. EptHolds BY <1>3 DEF EptHolds
<1>5. Coherent
  <2>1. DOMAIN tlb = {} BY DEF ExitInit
  <2> QED BY <2>1 DEF Coherent
<1>6. HooksKept
  <2>1. mtf = FALSE BY DEF ExitInit
  <2> QED BY <1>3, <2>1 DEF HooksKept, HooksIn, Hides
<1>7. TypesIn(ept, mtrr.var)
  <2>1. \A i \in 1 .. Count : mtrr.var[i] = Off BY DEF ExitInit
  <2>2. \A p \in Plain : ~ Covers(Off, p) BY DEF Covers, Off
  <2>3. \A p \in Plain : After(ept, mtrr.var, p, Count) = {}
    BY <2>1, <2>2 DEF After, Counts
  <2> QED BY <2>3 DEF TypesIn
<1> QED BY <1>4, <1>5, <1>6, <1>7 DEF EptInv, TypesFollow

LEMMA ModesStart == ExitInit => ModesFollow
BY DEF ExitInit, ModesFollow

-----------------------------------------------------------------------------
(* Steps that leave the tables alone.                                      *)

\* The tables, their hooks and the MTRRs stay.
Still ==
  /\ UNCHANGED <<ept, mtf, pending_hook_index, mtrr, mtrr_dirty, stopped>>
  /\ abandoned' = abandoned \/ abandoned'

LEMMA StillKeeps ==
  ASSUME EptInv, Still, Coherent'
  PROVE  EptInv'
<1>1. EptHolds' BY DEF EptInv, EptHolds, Still
<1>2. HooksKept'
  <2> SUFFICES ASSUME NEW p \in Hooked
               PROVE  /\ p \in DOMAIN ept'.pt
                      /\ ~ abandoned' => Hides(ept'.pt[p], p, mtf' /\ pending_hook_index' = p)
    BY DEF HooksKept
  <2> QED BY DEF EptInv, HooksKept, Still
<1>3. TypesFollow' BY DEF EptInv, TypesFollow, Still
<1> QED BY <1>1, <1>2, <1>3 DEF EptInv

\* The processor keeps nothing; or what it kept; or less.
LEMMA CoherentEmpty == tlb' = <<>> => Coherent'
<1> SUFFICES ASSUME tlb' = <<>> PROVE Coherent'
  OBVIOUS
<1>1. DOMAIN tlb' = {} OBVIOUS
<1> QED BY <1>1 DEF Coherent

LEMMA CoherentSame == Coherent /\ UNCHANGED <<ept, tlb>> => Coherent'
BY DEF Coherent

LEMMA CoherentForget ==
  ASSUME Coherent, UNCHANGED ept, NEW p, Forget(p)
  PROVE  Coherent'
<1>1. DOMAIN tlb' = DOMAIN tlb \ {p} /\ \A q \in DOMAIN tlb \ {p} : tlb'[q] = tlb[q]
  BY DEF Forget
<1> QED BY <1>1 DEF Coherent

\* What it uses is what the tables say.
LEMMA TranslationIs == Coherent => \A p \in Pages : Translation(p) = Translate(ept, p)
BY DEF Coherent, Translation

LEMMA CoherentRetire ==
  ASSUME Coherent, NEW used \in SUBSET Pages,
         tlb' = [p \in used \cup DOMAIN tlb |-> Translation(p)], UNCHANGED ept
  PROVE  Coherent'
<1>1. DOMAIN tlb \subseteq Pages BY DEF Coherent
<1>2. ASSUME NEW p \in DOMAIN tlb' PROVE p \in Pages /\ tlb'[p] = Translate(ept, p)
  <2>1. p \in used \cup DOMAIN tlb /\ tlb'[p] = Translation(p) OBVIOUS
  <2> QED BY <1>1, <2>1, TranslationIs
<1> QED BY <1>2 DEF Coherent

-----------------------------------------------------------------------------
(* Steps that give the entry of a hooked page another form.                *)

LEMMA ResetStep ==
  ASSUME EptInv, NEW p \in Hooked, NEW perms, NEW to, Reset(ept, ept', p, perms, to),
         UNCHANGED <<mtrr, mtrr_dirty, stopped>>
  PROVE  /\ EptHolds' /\ TypesFollow'
         /\ Forget(p) => Coherent'
         /\ \A q \in Hooked : q \in DOMAIN ept'.pt
         /\ \A q \in Hooked \ {p} : ept'.pt[q] = ept.pt[q]
<1>1. /\ Shape(ept) /\ Fresh(ept) /\ ~ ept.huge /\ ept.def \in Defs
      /\ ept.pd[OwnRegion].perms = {"r"}
  BY DEF EptInv, EptHolds
<1>2. p \in DOMAIN ept.pt /\ \A q \in Hooked : q \in DOMAIN ept.pt
  BY DEF EptInv, HooksKept
<1>3. /\ Fresh(ept')
      /\ \A q \in Pages \ {p} : Translate(ept', q) = Translate(ept, q)
  BY <1>1, <1>2, ResetKeeps
<1>4. /\ Shape(ept') /\ ept'.def = ept.def /\ ept'.huge = ept.huge /\ ept'.pd = ept.pd
      /\ DOMAIN ept'.pt = DOMAIN ept.pt
      /\ \A q \in DOMAIN ept.pt \ {p} : ept'.pt[q] = ept.pt[q]
  BY DEF Reset
<1>5. EptHolds' BY <1>1, <1>3, <1>4 DEF EptHolds
<1>6. TypesFollow'
  <2> SUFFICES ASSUME ept'.def.enabled, ~ mtrr_dirty', ~ stopped' PROVE TypesIn(ept', mtrr'.var)
    BY DEF TypesFollow
  <2>1. TypesIn(ept, mtrr.var) BY <1>4 DEF EptInv, TypesFollow
  <2>2. TypesIn(ept', mtrr.var) BY <1>1, <1>2, <2>1, TypesByReset
  <2> QED BY <2>2
<1>7. ASSUME Forget(p) PROVE Coherent'
  <2>1. DOMAIN tlb' = DOMAIN tlb \ {p} /\ \A q \in DOMAIN tlb \ {p} : tlb'[q] = tlb[q]
    BY <1>7 DEF Forget
  <2>2. \A q \in DOMAIN tlb : q \in Pages /\ tlb[q] = Translate(ept, q)
    BY DEF EptInv, Coherent
  <2>3. ASSUME NEW q \in DOMAIN tlb' PROVE q \in Pages /\ tlb'[q] = Translate(ept', q)
    BY <1>3, <2>1, <2>2
  <2> QED BY <2>3 DEF Coherent
<1> QED BY <1>2, <1>4, <1>5, <1>6, <1>7

\* The instruction that was stepped over has passed: the hooked page is mapped again.
LEMMA MonitorTrapKeeps ==
  ASSUME EptInv, ScalarsOK, NEW kept, MonitorTrap(kept),
         UNCHANGED <<pending_hook_index, abandoned, mtrr, mtrr_dirty, stopped>>
  PROVE  EptInv'
<1> DEFINE p == pending_hook_index
           perms == ept.pt[p].perms \ {"r", "w"}
           to == HookOf(p)
<1>1. p \in Hooked BY DEF ScalarsOK
<1>2. p \in DOMAIN ept.pt /\ Shape(ept) BY <1>1 DEF EptInv, HooksKept, EptHolds
<1>3. perms \in SUBSET Full /\ to \in Nat
  <2>1. ept.pt[p] \in Entries BY <1>2, MapParts DEF Shape
  <2> QED BY <2>1, <1>1, EntryParts, HookedPages, RegionType
<1>4. ept' = PageSet(ept, p, perms, to) BY DEF MonitorTrap, PageSet
<1>5. Reset(ept, ept', p, perms, to) BY <1>2, <1>3, <1>4, PageSetParts
<1>6. /\ EptHolds' /\ TypesFollow'
      /\ \A q \in Hooked : q \in DOMAIN ept'.pt
      /\ \A q \in Hooked \ {p} : ept'.pt[q] = ept.pt[q]
  BY <1>1, <1>5, ResetStep
<1>7. ept'.pt[p].perms = perms /\ ept'.pt[p].to = to BY <1>5 DEF Reset
<1>8. Hides(ept'.pt[p], p, FALSE) BY <1>7 DEF Hides
<1>9. ASSUME NEW q \in Hooked, ~ abandoned' PROVE Hides(ept'.pt[q], q, FALSE)
  <2>1. CASE q = p BY <1>8, <2>1
  <2>2. CASE q # p
    <3>1. Hides(ept.pt[q], q, mtf /\ pending_hook_index = q) BY <1>9 DEF EptInv, HooksKept
    <3>2. Hides(ept.pt[q], q, FALSE) BY <2>2, <3>1
    <3> QED BY <1>6, <2>2, <3>2
  <2> QED BY <2>1, <2>2
<1>10. mtf' = FALSE /\ tlb' = <<>> BY DEF MonitorTrap, Invept
<1>11. HooksKept' BY <1>6, <1>9, <1>10 DEF HooksKept, Hides
<1>12. Coherent' BY <1>10, CoherentEmpty
<1> QED BY <1>6, <1>11, <1>12 DEF EptInv

\* A violation has a hooked page substituted: only of a page that is stepped over may both
\* forms be had, and another step is not under way then.
LEMMA SubstituteKeeps ==
  ASSUME EptInv, ScalarsOK, NEW p \in Hooked, NEW perms \in SUBSET Full, NEW to \in Nat,
         Substitute(p, perms, to),
         UNCHANGED <<abandoned, mtrr, mtrr_dirty, stopped>>,
         NEW x, x.perms = perms, x.to = to,
         ~ abandoned => Hides(x, p, mtf' /\ pending_hook_index' = p),
         \A q \in Hooked \ {p} :
           ~ abandoned => (mtf' /\ pending_hook_index' = q <=> mtf /\ pending_hook_index = q)
  PROVE  EptInv'
<1>1. p \in DOMAIN ept.pt /\ Shape(ept) BY DEF EptInv, HooksKept, EptHolds
<1>2. ept' = PageSet(ept, p, perms, to) /\ Forget(p) BY DEF Substitute, PageSet
<1>3. Reset(ept, ept', p, perms, to) BY <1>1, <1>2, PageSetParts
<1>4. /\ EptHolds' /\ TypesFollow' /\ Coherent'
      /\ \A q \in Hooked : q \in DOMAIN ept'.pt
      /\ \A q \in Hooked \ {p} : ept'.pt[q] = ept.pt[q]
  BY <1>2, <1>3, ResetStep
<1>5. ept'.pt[p].perms = perms /\ ept'.pt[p].to = to BY <1>3 DEF Reset
<1>6. ASSUME NEW q \in Hooked, ~ abandoned'
      PROVE  Hides(ept'.pt[q], q, mtf' /\ pending_hook_index' = q)
  <2>1. ~ abandoned BY <1>6
  <2>2. CASE q = p BY <1>5, <2>1, <2>2 DEF Hides
  <2>3. CASE q # p
    <3>1. Hides(ept.pt[q], q, mtf /\ pending_hook_index = q) BY <2>1 DEF EptInv, HooksKept
    <3>2. mtf' /\ pending_hook_index' = q <=> mtf /\ pending_hook_index = q BY <2>1, <2>3
    <3> QED BY <1>4, <2>3, <3>1, <3>2 DEF Hides
  <2> QED BY <2>2, <2>3
<1>7. HooksKept' BY <1>4, <1>6 DEF HooksKept
<1> QED BY <1>4, <1>7 DEF EptInv

LEMMA RetireKeeps ==
  ASSUME EptInv, ScalarsOK, NEW rip \in Touched, NEW operands \in SUBSET Touched, Retire(rip, operands)
  PROVE  EptInv'
<1> DEFINE used == {rip} \cup operands
           kept == [p \in used \cup DOMAIN tlb |-> Translation(p)]
<1>1. used \in SUBSET Pages BY VtExitsAssumption
<1>2. /\ IF mtf THEN MonitorTrap(kept) ELSE tlb' = kept /\ UNCHANGED <<ept, mtf>>
      /\ UNCHANGED <<pending_hook_index, abandoned, mtrr, mtrr_dirty, stopped>>
  BY DEF Retire, mtrr_vars
<1> HIDE DEF used
<1>3. CASE mtf BY <1>2, <1>3, MonitorTrapKeeps
<1>4. CASE ~ mtf
  <2>1. tlb' = kept /\ UNCHANGED <<ept, mtf>> BY <1>2, <1>4
  <2>2. Coherent' BY <1>1, <2>1, CoherentRetire DEF EptInv
  <2>3. Still BY <1>2, <2>1 DEF Still
  <2> QED BY <2>2, <2>3, StillKeeps
<1> QED BY <1>3, <1>4

\* An instruction that is stepped over lies in the page that is pending.
LEMMA FetchViolationKeeps ==
  ASSUME EptInv, ScalarsOK, NEW rip \in Touched, FetchViolation(rip)
  PROVE  EptInv'
<1>1. /\ IF rip \in Hooked THEN Substitute(rip, {"x"}, HookOf(rip))
                           ELSE Forget(rip) /\ UNCHANGED ept
      /\ UNCHANGED <<mtf, pending_hook_index, abandoned, mtrr, mtrr_dirty, stopped>>
  BY DEF FetchViolation, step_vars, mtrr_vars
<1>2. CASE rip \in Hooked
  <2> DEFINE x == [perms |-> {"x"}, to |-> HookOf(rip)]
  <2>1. {"x"} \in SUBSET Full /\ HookOf(rip) \in Nat BY <1>2, HookedPages, RegionType DEF Full
  <2>2. x.perms = {"x"} /\ x.to = HookOf(rip) OBVIOUS
  <2> HIDE DEF x
  <2>3. ~ abandoned => Hides(x, rip, mtf' /\ pending_hook_index' = rip) BY <2>2 DEF Hides
  <2>4. \A q \in Hooked \ {rip} :
          ~ abandoned => (mtf' /\ pending_hook_index' = q <=> mtf /\ pending_hook_index = q)
    BY <1>1
  <2>5. Substitute(rip, {"x"}, HookOf(rip)) /\ UNCHANGED <<abandoned, mtrr, mtrr_dirty, stopped>>
    BY <1>1, <1>2
  <2> QED BY <1>2, <2>1, <2>2, <2>3, <2>4, <2>5, SubstituteKeeps
<1>3. CASE rip \notin Hooked
  <2>1. Forget(rip) /\ UNCHANGED ept BY <1>1, <1>3
  <2>2. Coherent' BY <2>1, CoherentForget DEF EptInv
  <2>3. Still BY <1>1, <2>1 DEF Still
  <2> QED BY <2>2, <2>3, StillKeeps
<1> QED BY <1>2, <1>3

LEMMA DataViolationKeeps ==
  ASSUME EptInv, ScalarsOK, NEW rip \in Touched, NEW p \in Touched, DataViolation(rip, p)
  PROVE  EptInv'
<1>1. /\ mtf /\ ~ abandoned => rip = pending_hook_index
      /\ IF p \in Hooked
           THEN IF rip = p
                  THEN Substitute(p, Full, p) /\ mtf' = TRUE /\ pending_hook_index' = Found(p)
                  ELSE Substitute(p, {"r", "w"}, p) /\ UNCHANGED <<mtf, pending_hook_index>>
           ELSE Forget(p) /\ UNCHANGED <<ept, mtf, pending_hook_index>>
      /\ UNCHANGED <<abandoned, mtrr, mtrr_dirty, stopped>>
  BY DEF DataViolation, Runs, mtrr_vars
<1>2. CASE p \in Hooked /\ rip = p
  <2> DEFINE x == [perms |-> Full, to |-> p]
  <2>1. Full \in SUBSET Full /\ p \in Nat BY <1>2, HookedPages, RegionType
  <2>2. x.perms = Full /\ x.to = p OBVIOUS
  <2> HIDE DEF x
  <2>3. mtf' = TRUE /\ pending_hook_index' = p BY <1>1, <1>2, HookedPages
  <2>4. Hides(x, p, mtf' /\ pending_hook_index' = p) BY <2>2, <2>3 DEF Hides
  <2>5. \A q \in Hooked \ {p} :
          ~ abandoned => (mtf' /\ pending_hook_index' = q <=> mtf /\ pending_hook_index = q)
    BY <1>1, <1>2, <2>3
  <2>6. Substitute(p, Full, p) /\ UNCHANGED <<abandoned, mtrr, mtrr_dirty, stopped>>
    BY <1>1, <1>2
  <2> QED BY <1>2, <2>1, <2>2, <2>4, <2>5, <2>6, SubstituteKeeps
<1>3. CASE p \in Hooked /\ rip # p
  <2> DEFINE x == [perms |-> {"r", "w"}, to |-> p]
  <2>1. {"r", "w"} \in SUBSET Full /\ p \in Nat BY <1>3, HookedPages, RegionType DEF Full
  <2>2. x.perms = {"r", "w"} /\ x.to = p OBVIOUS
  <2> HIDE DEF x
  <2>3. Hides(x, p, mtf' /\ pending_hook_index' = p) BY <2>2 DEF Hides
  <2>4. \A q \in Hooked \ {p} :
          ~ abandoned => (mtf' /\ pending_hook_index' = q <=> mtf /\ pending_hook_index = q)
    BY <1>1, <1>3
  <2>5. Substitute(p, {"r", "w"}, p) /\ UNCHANGED <<abandoned, mtrr, mtrr_dirty, stopped>>
    BY <1>1, <1>3
  <2> QED BY <1>3, <2>1, <2>2, <2>3, <2>4, <2>5, SubstituteKeeps
<1>4. CASE p \notin Hooked
  <2>1. Forget(p) /\ UNCHANGED <<ept, mtf, pending_hook_index>> BY <1>1, <1>4
  <2>2. Coherent' BY <2>1, CoherentForget DEF EptInv
  <2>3. Still BY <1>1, <2>1 DEF Still
  <2> QED BY <2>2, <2>3, StillKeeps
<1> QED BY <1>2, <1>3, <1>4

LEMMA HookStepKeeps ==
  ASSUME EptInv, ScalarsOK, HookStep
  PROVE  EptInv'
<1>1. CASE Interrupted
  BY <1>1, MonitorTrapKeeps DEF Interrupted, mtrr_vars
<1>2. CASE \E rip \in Touched : FetchViolation(rip) BY <1>2, FetchViolationKeeps
<1>3. CASE \E rip, p \in Touched : DataViolation(rip, p) BY <1>3, DataViolationKeeps
<1>4. CASE \E rip \in Touched, operands \in SUBSET Touched : Retire(rip, operands)
  BY <1>4, RetireKeeps
<1> QED BY <1>1, <1>2, <1>3, <1>4 DEF HookStep

-----------------------------------------------------------------------------
(* Updates of the memory types.                                            *)

LEMMA UpdateKeeps ==
  ASSUME EptInv, ScalarsOK, NEW m \in MtrrValues, Update(m), mtrr' = m,
         UNCHANGED <<mtf, pending_hook_index, abandoned>>
  PROVE  EptInv'
<1>1. /\ ept' = UpdateByMtrr(ept, m) /\ tlb' = <<>>
      /\ stopped' = (stopped \/ (\E i \in 1 .. Count : m.var[i].unit = "gigabyte"))
  BY DEF Update, Invept
<1>2. /\ Shape(ept) /\ Fresh(ept) /\ ~ ept.huge /\ ept.def \in Defs
      /\ ept.pd[OwnRegion].perms = {"r"}
  BY DEF EptInv, EptHolds
<1>3. Carried(ept, ept') /\ Fresh(ept') BY <1>1, <1>2, UpdateByMtrrParts
<1>4. /\ Shape(ept') /\ ept'.def = ept.def /\ ~ ept'.huge
      /\ \A r \in RegionSet : ept'.pd[r].perms = ept.pd[r].perms
      /\ \A p \in DOMAIN ept.pt :
           p \in DOMAIN ept'.pt /\ ept'.pt[p].perms = ept.pt[p].perms /\ ept'.pt[p].to = ept.pt[p].to
  BY <1>2, <1>3 DEF Carried
<1>5. EptHolds' BY <1>2, <1>3, <1>4, EptAssumption DEF EptHolds
<1>6. Coherent' BY <1>1, CoherentEmpty
<1>7. HooksKept'
  <2> SUFFICES ASSUME NEW p \in Hooked
               PROVE  /\ p \in DOMAIN ept'.pt
                      /\ ~ abandoned' => Hides(ept'.pt[p], p, mtf' /\ pending_hook_index' = p)
    BY DEF HooksKept
  <2>1. p \in DOMAIN ept.pt /\ (~ abandoned => Hides(ept.pt[p], p, mtf /\ pending_hook_index = p))
    BY DEF EptInv, HooksKept
  <2> QED BY <1>4, <2>1 DEF Hides
<1>8. TypesFollow'
  <2> SUFFICES ASSUME ept'.def.enabled, ~ stopped' PROVE TypesIn(ept', m.var)
    BY DEF TypesFollow
  <2>1. \A i \in 1 .. Count : m.var[i].unit # "gigabyte" BY <1>1
  <2>2. Begun(ept, m.var) BY <1>2, <2>1 DEF Begun
  <2> QED BY <1>1, <1>2, <1>4, <2>2, TypesByUpdate
<1> QED BY <1>5, <1>6, <1>7, <1>8 DEF EptInv

\* An update that is put off.
LEMMA PutOffKeeps ==
  ASSUME EptInv, mtrr_dirty' = TRUE, UNCHANGED <<ept, tlb, mtf, pending_hook_index, abandoned>>
  PROVE  EptInv'
<1>1. EptHolds' BY DEF EptInv, EptHolds
<1>2. Coherent' BY CoherentSame DEF EptInv
<1>3. HooksKept'
  <2> SUFFICES ASSUME NEW p \in Hooked
               PROVE  /\ p \in DOMAIN ept'.pt
                      /\ ~ abandoned' => Hides(ept'.pt[p], p, mtf' /\ pending_hook_index' = p)
    BY DEF HooksKept
  <2> QED BY DEF EptInv, HooksKept
<1>4. TypesFollow' BY DEF TypesFollow
<1> QED BY <1>1, <1>2, <1>3, <1>4 DEF EptInv

\* A write of an MTRR.
LEMMA WrittenMtrr ==
  ASSUME ScalarsOK, WrmsrMtrr
  PROVE  \E m \in MtrrValues : WriteMtrr(m)
<1>1. mtrr \in MtrrValues BY DEF ScalarsOK
<1>2. ASSUME NEW i \in 1 .. Count, NEW v \in Mtrrs
      PROVE  [mtrr EXCEPT !.var[i] = v] \in MtrrValues
  BY <1>1, <1>2 DEF MtrrValues
<1>3. ASSUME NEW t \in Types PROVE [mtrr EXCEPT !.fixed = t] \in MtrrValues
  BY <1>1 DEF MtrrValues
<1> QED BY <1>2, <1>3 DEF WrmsrMtrr

LEMMA WrmsrMtrrKeeps ==
  ASSUME EptInv, ScalarsOK, WrmsrMtrr
  PROVE  EptInv'
<1>1. PICK m \in MtrrValues : WriteMtrr(m) BY WrittenMtrr
<1>2. mtrr' = m /\ UNCHANGED <<mtf, pending_hook_index, abandoned>>
  BY <1>1 DEF WriteMtrr, step_vars
<1>3. CASE cd
  BY <1>1, <1>2, <1>3, PutOffKeeps DEF WriteMtrr
<1>4. CASE ~ cd
  <2>1. Update(m) BY <1>1, <1>4 DEF WriteMtrr
  <2> QED BY <1>2, <2>1, UpdateKeeps
<1> QED BY <1>3, <1>4

LEMMA Cr0WriteKeeps ==
  ASSUME EptInv, ScalarsOK, Cr0Write
  PROVE  EptInv'
<1>1. /\ UNCHANGED <<mtf, pending_hook_index, abandoned, mtrr>>
      /\ Update(mtrr) \/ UNCHANGED <<ept, tlb, mtrr_dirty, stopped>>
  BY DEF Cr0Write, step_vars
<1>2. CASE Update(mtrr)
  <2>1. mtrr \in MtrrValues BY DEF ScalarsOK
  <2> QED BY <1>1, <1>2, <2>1, UpdateKeeps
<1>3. CASE UNCHANGED <<ept, tlb, mtrr_dirty, stopped>>
  <2>1. Still BY <1>1, <1>3 DEF Still
  <2>2. Coherent' BY <1>3, CoherentSame DEF EptInv
  <2> QED BY <2>1, <2>2, StillKeeps
<1> QED BY <1>1, <1>2, <1>3

LEMMA EptSteps ==
  ASSUME EptInv, ScalarsOK, [ExitNext]_exit_vars
  PROVE  EptInv'
<1>1. CASE HookStep BY <1>1, HookStepKeeps
<1>2. CASE WrmsrMtrr BY <1>2, WrmsrMtrrKeeps
<1>3. CASE Cr0Write BY <1>3, Cr0WriteKeeps
<1>4. CASE SystemWrites \/ PageFault \/ StartUp \/ VmxInstruction
  <2>1. UNCHANGED <<ept_vars, mtrr_vars>>
    BY <1>4 DEF SystemWrites, PageFault, StartUp, VmxInstruction
  <2>2. Still /\ UNCHANGED <<ept, tlb>> BY <2>1 DEF Still, ept_vars, step_vars, mtrr_vars
  <2> QED BY <2>2, CoherentSame, StillKeeps DEF EptInv
<1>5. CASE InitSignal
  <2>1. Still /\ UNCHANGED <<ept, tlb>>
    BY <1>5 DEF InitSignal, Still, mtrr_vars, ScalarsOK
  <2> QED BY <2>1, CoherentSame, StillKeeps DEF EptInv
<1>6. CASE CallExit
  <2>1. Still /\ tlb' = <<>>
    BY <1>6 DEF CallExit, Invept, Still, step_vars, mtrr_vars
  <2> QED BY <2>1, CoherentEmpty, StillKeeps
<1>7. CASE UNCHANGED exit_vars
  <2>1. Still /\ UNCHANGED <<ept, tlb>> BY <1>7 DEF Still, exit_vars, ept_vars, step_vars, mtrr_vars
  <2> QED BY <2>1, CoherentSame, StillKeeps DEF EptInv
<1>8. CASE \/ Cpuid \/ PlainInstruction \/ Rdmsr \/ WrmsrOther \/ DescriptorTableAccess
           \/ Unhandled
  BY <1>7, <1>8
  DEF Cpuid, PlainInstruction, Rdmsr, WrmsrOther, DescriptorTableAccess, Unhandled, Unmoved
<1> QED BY <1>1, <1>2, <1>3, <1>4, <1>5, <1>6, <1>7, <1>8 DEF ExitNext

-----------------------------------------------------------------------------
(* The other variables, and the modes.                                     *)

LEMMA PagedStays ==
  ASSUME ScalarsOK, NEW S \in SUBSET {"user", "kernel"}
  PROVE  paged \cup {Mode} \subseteq {"user", "kernel", "unpaged"} /\ paged \ S \subseteq paged
BY DEF ScalarsOK, Mode

LEMMA HookStepScalars ==
  ASSUME ScalarsOK, ModesFollow, HookStep
  PROVE  ScalarsOK' /\ ModesFollow'
<1>1. /\ UNCHANGED <<phase, abandoned, mtrr, cd, mtrr_dirty, stopped, pg, cr3, efer, ia32e>>
      /\ mtf' \in BOOLEAN /\ pending_hook_index' \in Hooked
      /\ paged' = paged \/ paged' = paged \cup {Mode} \/ paged' = {}
  <2>1. mtf \in BOOLEAN /\ pending_hook_index \in Hooked BY DEF ScalarsOK
  <2>2. CASE Interrupted
    BY <2>1, <2>2 DEF Interrupted, MonitorTrap, mtrr_vars, paging_vars
  <2>3. ASSUME NEW rip \in Touched, FetchViolation(rip)
        PROVE  UNCHANGED <<phase, mtf, pending_hook_index, abandoned, mtrr_vars, paging_vars>>
    BY <2>3 DEF FetchViolation, step_vars
  <2>4. ASSUME NEW rip \in Touched, NEW p \in Touched, DataViolation(rip, p)
        PROVE  /\ UNCHANGED <<phase, abandoned, mtrr_vars, paging_vars>>
               /\ mtf' \in BOOLEAN /\ pending_hook_index' \in Hooked
    BY <2>1, <2>4, HookedPages DEF DataViolation
  <2>5. ASSUME NEW rip \in Touched, NEW operands \in SUBSET Touched, Retire(rip, operands)
        PROVE  /\ UNCHANGED <<phase, pending_hook_index, abandoned, mtrr_vars, pg, cr3, efer, ia32e>>
               /\ mtf' \in BOOLEAN
               /\ paged' = paged \cup {Mode} \/ paged' = {}
    <3>1. mtf' = FALSE \/ mtf' = mtf BY <2>5 DEF Retire, MonitorTrap
    <3> QED BY <2>1, <2>5, <3>1 DEF Retire
  <2> QED BY <2>1, <2>2, <2>3, <2>4, <2>5 DEF HookStep, mtrr_vars, paging_vars
<1>2. paged' \subseteq {"user", "kernel", "unpaged"} BY <1>1, PagedStays DEF ScalarsOK
<1>3. ScalarsOK' BY <1>1, <1>2 DEF ScalarsOK
<1>4. Mode' = Mode BY <1>1 DEF Mode
<1>5. ModesFollow' BY <1>1, <1>4 DEF ModesFollow
<1> QED BY <1>3, <1>5

LEMMA WrmsrMtrrScalars ==
  ASSUME ScalarsOK, ModesFollow, WrmsrMtrr
  PROVE  ScalarsOK' /\ ModesFollow'
<1>1. PICK m \in MtrrValues : WriteMtrr(m) BY WrittenMtrr
<1>2. /\ mtrr' = m
      /\ UNCHANGED <<phase, mtf, pending_hook_index, abandoned, cd, pg, cr3, efer, ia32e, paged>>
  BY <1>1 DEF WriteMtrr, step_vars, paging_vars
<1>3. /\ mtrr_dirty' \in BOOLEAN /\ stopped' \in BOOLEAN
      /\ ~ cd => mtrr_dirty' = mtrr_dirty
  <2>1. mtrr_dirty \in BOOLEAN /\ stopped \in BOOLEAN BY DEF ScalarsOK
  <2>2. CASE cd BY <1>1, <2>1, <2>2 DEF WriteMtrr
  <2>3. CASE ~ cd BY <1>1, <2>1, <2>3 DEF WriteMtrr, Update
  <2> QED BY <2>2, <2>3
<1>4. ScalarsOK' BY <1>2, <1>3 DEF ScalarsOK
<1>5. Mode' = Mode BY <1>2 DEF Mode
<1>6. ModesFollow' BY <1>2, <1>3, <1>5 DEF ModesFollow
<1> QED BY <1>4, <1>6

LEMMA Cr0WriteScalars ==
  ASSUME ScalarsOK, ModesFollow, Cr0Write
  PROVE  ScalarsOK' /\ ModesFollow'
<1>1. PICK c \in BOOLEAN, p \in BOOLEAN :
        /\ phase = "active"
        /\ cd' = c /\ pg' = p
        /\ IF c # cd /\ ~ c /\ mtrr_dirty
             THEN Update(mtrr) /\ mtrr_dirty' = FALSE
             ELSE UNCHANGED <<ept, tlb, mtrr_dirty, stopped>>
        /\ IF p # pg
             THEN /\ efer' = Lma(efer, p)
                  /\ ia32e' = ("lma" \in efer')
                  /\ paged' = {}
             ELSE UNCHANGED <<efer, ia32e, paged>>
        /\ UNCHANGED <<phase, mtf, pending_hook_index, abandoned, mtrr, cr3>>
  BY DEF Cr0Write, step_vars
<1>2. mtrr_dirty \in BOOLEAN /\ stopped \in BOOLEAN /\ cd \in BOOLEAN /\ pg \in BOOLEAN
  BY DEF ScalarsOK
<1>3. mtrr_dirty' \in BOOLEAN /\ stopped' \in BOOLEAN /\ (~ cd' => ~ mtrr_dirty')
  <2>1. CASE c # cd /\ ~ c /\ mtrr_dirty BY <1>1, <1>2, <2>1 DEF Update
  <2>2. CASE ~ (c # cd /\ ~ c /\ mtrr_dirty)
    <3>1. UNCHANGED <<mtrr_dirty, stopped>> BY <1>1, <2>2
    <3> QED BY <1>1, <1>2, <2>2, <3>1 DEF ModesFollow
  <2> QED BY <2>1, <2>2
<1>4. /\ efer' \subseteq {"lme", "lma"} /\ ia32e' \in BOOLEAN
      /\ paged' \subseteq {"user", "kernel", "unpaged"}
      /\ phase' # "off" =>
           /\ ia32e' = ("lma" \in efer') /\ ("lma" \in efer') = ("lme" \in efer' /\ pg')
           /\ paged' \subseteq {Mode'}
  <2>1. CASE p # pg
    <3>1. efer' = Lma(efer, p) /\ ia32e' = ("lma" \in efer') /\ paged' = {} BY <1>1, <2>1
    <3>2. efer' \subseteq {"lme", "lma"} BY <3>1 DEF Lma
    <3>3. ("lma" \in efer') = ("lme" \in efer' /\ p) BY <3>1 DEF Lma
    <3> QED BY <1>1, <3>1, <3>2, <3>3
  <2>2. CASE p = pg
    <3>1. UNCHANGED <<phase, pg, cr3, efer, ia32e, paged>> BY <1>1, <2>2
    <3>2. Mode' = Mode BY <3>1 DEF Mode
    <3> QED BY <3>1, <3>2 DEF ScalarsOK, ModesFollow
  <2> QED BY <2>1, <2>2
<1>5. ScalarsOK' BY <1>1, <1>3, <1>4 DEF ScalarsOK
<1>6. ModesFollow' BY <1>3, <1>4 DEF ModesFollow
<1> QED BY <1>5, <1>6

LEMMA SystemWritesScalars ==
  ASSUME ScalarsOK, ModesFollow, SystemWrites \/ PageFault
  PROVE  ScalarsOK' /\ ModesFollow'
<1>1. /\ phase = "active"
      /\ UNCHANGED <<phase, mtf, pending_hook_index, abandoned, mtrr, cd, mtrr_dirty, stopped, pg, ia32e>>
      /\ \/ ~ pg /\ efer' \in SUBSET {"lme"} /\ UNCHANGED <<cr3, paged>>
         \/ /\ cr3' \in {"user", "kernel"} /\ paged' = paged \ {"user", "kernel"}
            /\ UNCHANGED efer
         \/ UNCHANGED <<cr3, paged, efer>>
  BY DEF SystemWrites, PageFault, ept_vars, step_vars, mtrr_vars
<1>2. ScalarsOK' BY <1>1 DEF ScalarsOK
<1>3. paged' \subseteq {Mode'}
  <2>1. paged \subseteq {Mode} BY <1>1 DEF ModesFollow
  <2>2. CASE UNCHANGED <<cr3, paged>> BY <1>1, <2>1, <2>2 DEF Mode
  <2>3. CASE paged' = paged \ {"user", "kernel"}
    <3>1. CASE pg
      <4>1. Mode \in {"user", "kernel"} BY <3>1 DEF Mode, ScalarsOK
      <4> QED BY <2>1, <2>3, <4>1
    <3>2. CASE ~ pg BY <1>1, <2>1, <2>3, <3>2 DEF Mode
    <3> QED BY <3>1, <3>2
  <2> QED BY <1>1, <2>2, <2>3
<1>4. ia32e' = ("lma" \in efer') /\ ("lma" \in efer') = ("lme" \in efer' /\ pg')
  <2>1. ia32e = ("lma" \in efer) /\ ("lma" \in efer) = ("lme" \in efer /\ pg)
    BY <1>1 DEF ModesFollow
  <2>2. CASE ~ pg /\ efer' \in SUBSET {"lme"}
    <3>1. "lma" \notin efer' /\ "lma" \notin efer BY <2>1, <2>2
    <3>2. ("lma" \in efer) = FALSE /\ ia32e' = ia32e /\ pg' = pg BY <1>1, <3>1
    <3>3. pg = FALSE BY <2>2 DEF ScalarsOK
    <3>4. ia32e = FALSE BY <2>1, <3>2
    <3>5. ("lma" \in efer') = FALSE /\ ("lme" \in efer' /\ pg') = FALSE BY <3>1, <3>2, <3>3
    <3> QED BY <3>2, <3>4, <3>5
  <2>3. CASE UNCHANGED efer BY <1>1, <2>1, <2>3
  <2> QED BY <1>1, <2>2, <2>3
<1>5. ModesFollow' BY <1>1, <1>3, <1>4 DEF ModesFollow
<1> QED BY <1>2, <1>5

LEMMA InitSignalScalars ==
  ASSUME ScalarsOK, ModesFollow, InitSignal
  PROVE  ScalarsOK' /\ ModesFollow'
<1>1. /\ pg' = FALSE /\ efer' = {} /\ ia32e' = FALSE /\ paged' = {} /\ cr3' = "kernel"
      /\ phase' = "wait_for_sipi" /\ abandoned' = (abandoned \/ mtf)
      /\ UNCHANGED <<mtf, pending_hook_index, mtrr, cd, mtrr_dirty, stopped>>
  BY DEF InitSignal, mtrr_vars
<1>2. abandoned' \in BOOLEAN BY <1>1
<1>3. ScalarsOK' BY <1>1, <1>2 DEF ScalarsOK
<1>4. ~ cd' => ~ mtrr_dirty' BY <1>1 DEF ModesFollow
<1>5. ("lma" \in efer') = FALSE /\ ("lme" \in efer' /\ pg') = FALSE BY <1>1
<1>6. /\ ia32e' = ("lma" \in efer') /\ ("lma" \in efer') = ("lme" \in efer' /\ pg')
      /\ paged' \subseteq {Mode'}
  BY <1>1, <1>5
<1>7. ModesFollow' BY <1>4, <1>6 DEF ModesFollow
<1> QED BY <1>3, <1>7

LEMMA ScalarSteps ==
  ASSUME ScalarsOK, ModesFollow, [ExitNext]_exit_vars
  PROVE  ScalarsOK' /\ ModesFollow'
<1>1. CASE HookStep BY <1>1, HookStepScalars
<1>2. CASE WrmsrMtrr BY <1>2, WrmsrMtrrScalars
<1>3. CASE Cr0Write BY <1>3, Cr0WriteScalars
<1>4. CASE SystemWrites \/ PageFault BY <1>4, SystemWritesScalars
<1>5. CASE InitSignal BY <1>5, InitSignalScalars
<1> DEFINE Rest == UNCHANGED <<mtf, pending_hook_index, abandoned, mtrr, cd, mtrr_dirty, stopped,
                               pg, cr3, efer, ia32e>>
<1>6. ASSUME Rest, phase' = phase, paged' = paged PROVE ScalarsOK' /\ ModesFollow'
  <2>1. ScalarsOK' BY <1>6 DEF ScalarsOK
  <2>2. Mode' = Mode BY <1>6 DEF Mode
  <2>3. ModesFollow' BY <1>6, <2>2 DEF ModesFollow
  <2> QED BY <2>1, <2>3
<1>7. CASE StartUp
  <2>1. Rest /\ phase = "wait_for_sipi" /\ phase' = "active" /\ paged' = paged
    BY <1>7 DEF StartUp, ept_vars, step_vars, mtrr_vars, paging_vars
  <2>2. ScalarsOK' BY <2>1 DEF ScalarsOK
  <2>3. Mode' = Mode BY <2>1 DEF Mode
  <2>4. ModesFollow' BY <2>1, <2>3 DEF ModesFollow
  <2> QED BY <2>2, <2>4
<1>8. CASE CallExit
  <2>1. Rest /\ phase' = "off" /\ paged' = {}
    BY <1>8 DEF CallExit, step_vars, mtrr_vars
  <2>2. ScalarsOK' BY <2>1 DEF ScalarsOK
  <2>3. ModesFollow' BY <2>1 DEF ModesFollow
  <2> QED BY <2>2, <2>3
<1>9. CASE VmxInstruction
  <2>1. Rest /\ phase' = phase /\ paged' = paged
    BY <1>9 DEF VmxInstruction, ept_vars, step_vars, mtrr_vars, paging_vars
  <2> QED BY <1>6, <2>1
<1>10. CASE UNCHANGED exit_vars
  <2>1. Rest /\ phase' = phase /\ paged' = paged
    BY <1>10 DEF exit_vars, ept_vars, step_vars, mtrr_vars, paging_vars
  <2> QED BY <1>6, <2>1
<1>11. CASE \/ Cpuid \/ PlainInstruction \/ Rdmsr \/ WrmsrOther \/ DescriptorTableAccess
            \/ Unhandled
  BY <1>10, <1>11
  DEF Cpuid, PlainInstruction, Rdmsr, WrmsrOther, DescriptorTableAccess, Unhandled, Unmoved
<1> QED BY <1>1, <1>2, <1>3, <1>4, <1>5, <1>7, <1>8, <1>9, <1>10, <1>11 DEF ExitNext

-----------------------------------------------------------------------------
(* The theorems.                                                           *)

ExitInv == ScalarsOK /\ ModesFollow /\ EptInv

LEMMA ExitInvariant == ExitSpec => []ExitInv
<1>1. ExitInit => ExitInv BY ScalarsStart, ModesStart, EptStart DEF ExitInv
<1>2. ExitInv /\ [ExitNext]_exit_vars => ExitInv' BY ScalarSteps, EptSteps DEF ExitInv
<1> QED BY <1>1, <1>2, PTL DEF ExitSpec

LEMMA KeptTranslation ==
  ASSUME EptInv
  PROVE  \A p \in Pages :
           \A v \in {Translate(ept, p)} \cup (IF p \in DOMAIN tlb THEN {tlb[p]} ELSE {}) :
             v = Translate(ept, p)
BY DEF EptInv, Coherent

\* The state of the exits has its type.
THEOREM ExitTypeCorrect == ExitSpec => []ExitTypeOK
<1>1. ExitInv /\ NestedInv => ExitTypeOK
  <2> SUFFICES ASSUME ExitInv, NestedInv PROVE ExitTypeOK
    OBVIOUS
  <2>1. \A p \in DOMAIN tlb : p \in Pages /\ tlb[p] = Translate(ept, p)
    BY DEF ExitInv, EptInv, Coherent
  <2>2. Shape(ept) /\ ~ ept.huge BY DEF ExitInv, EptInv, EptHolds
  <2>3. \A p \in DOMAIN tlb : tlb[p].type \in Types /\ tlb[p].perms \subseteq Full
    BY <2>1, <2>2, TranslateType
  <2>4. mtrr.fixed \in Types /\ \A i \in 1 .. Count : mtrr.var[i] \in Mtrrs \cup {Off}
    BY DEF ExitInv, ScalarsOK, MtrrValues
  <2>5. DOMAIN tlb \subseteq Pages BY <2>1
  <2> QED BY <2>3, <2>4, <2>5 DEF ExitInv, ScalarsOK, NestedInv, ExitTypeOK
<1> QED BY <1>1, ExitInvariant, NestedVmxInvariant, PTL

\* A hooked page is read and written only in its original, and executed only in its hooked
\* form, but for the instruction that is stepped over: by the tables and by what the
\* processor keeps of them, for every set of hooks and of touched pages.
THEOREM HooksHiddenCorrect == ExitSpec => []HooksHidden
<1>1. ExitInv => HooksHidden
  <2> SUFFICES ASSUME ExitInv, ~ abandoned, NEW p \in Hooked,
                      NEW v \in {Translate(ept, p)} \cup (IF p \in DOMAIN tlb THEN {tlb[p]} ELSE {})
               PROVE  /\ v.perms \cap {"r", "w"} # {} => v.to = p
                      /\ "x" \in v.perms /\ ~ (mtf /\ pending_hook_index = p) => v.to = HookOf(p)
    BY DEF HooksHidden
  <2>1. p \in Pages BY HookedPages
  <2>2. v = Translate(ept, p) BY <2>1, KeptTranslation DEF ExitInv
  <2>3. /\ Shape(ept) /\ ~ ept.huge /\ ept.pd[OwnRegion].perms = {"r"}
        /\ p \in DOMAIN ept.pt /\ Hides(ept.pt[p], p, mtf /\ pending_hook_index = p)
    BY DEF ExitInv, EptInv, EptHolds, HooksKept
  <2>4. CASE RegionOf(p) \in ept.large
    <3>1. RegionOf(p) = OwnRegion BY <2>3, <2>4 DEF Shape
    <3>2. v.perms = {"r"} /\ v.to = p BY <2>1, <2>2, <2>3, <2>4, <3>1, TranslateType
    <3> QED BY <3>2
  <2>5. CASE RegionOf(p) \notin ept.large
    <3>1. v.perms \subseteq ept.pt[p].perms /\ v.to = ept.pt[p].to
      BY <2>1, <2>2, <2>3, <2>5, TranslateType
    <3> QED BY <2>3, <3>1 DEF Hides
  <2> QED BY <2>4, <2>5
<1> QED BY <1>1, ExitInvariant, PTL

\* While the system may cache, the types of the tables and of what the processor keeps are
\* those of the MTRRs, whatever MTRRs the system writes and in what order; and the processor
\* is in the mode, and keeps the translations, that EFER, CR0 and CR3 ask for.
THEOREM MemoryAsConfiguredCorrect == ExitSpec => []MemoryAsConfigured
<1>1. ExitInv => MemoryAsConfigured
  <2> SUFFICES ASSUME ExitInv, phase # "off" PROVE MemoryAsConfigured
    BY DEF MemoryAsConfigured
  <2>1. /\ ~ cd => ~ mtrr_dirty
        /\ ia32e = ("lma" \in efer) /\ ("lma" \in efer) = ("lme" \in efer /\ pg)
        /\ paged \subseteq {Mode}
    BY DEF ExitInv, ModesFollow
  <2>2. ASSUME ~ cd, ept.def.enabled, ~ stopped,
               NEW p \in Pages \ (FixedPages \cup PagesOf(OwnRegion)), Covering(p) # {},
               NEW v \in {Translate(ept, p)} \cup (IF p \in DOMAIN tlb THEN {tlb[p]} ELSE {})
        PROVE  v.type = MtrrType(p)
    <3>1. v = Translate(ept, p) BY KeptTranslation DEF ExitInv
    <3>2. TypesIn(ept, mtrr.var) BY <2>1, <2>2 DEF ExitInv, EptInv, TypesFollow
    <3>3. p \in Plain \ FixedPages BY DEF Plain
    <3>4. After(ept, mtrr.var, p, Count) = Covering(p) BY DEF After, Counts, Covering
    <3>5. Translate(ept, p).type = Min({mtrr.var[i].type : i \in Covering(p)})
      BY <2>2, <3>2, <3>3, <3>4 DEF TypesIn
    <3> QED BY <3>1, <3>5 DEF MtrrType
  <2> QED BY <2>1, <2>2 DEF MemoryAsConfigured
<1> QED BY <1>1, ExitInvariant, PTL
=============================================================================
