------------------------ MODULE CvmNestedPagingProofs ------------------------
(* Proofs about CvmNestedPaging, for any number of pages and any layout of   *)
(* regions.  The argument: a table is created together with the entries that *)
(* lead to it or never gets any, so an entry that the null mapping made      *)
(* present is overwritten before a walk can reach it or is never reached.    *)
EXTENDS CvmNestedPaging, TLAPS

\* Entries of every level belong to tables that have descriptors.
Listed ==
  /\ \A l \in Levels : \A p \in Pages :
       link[l][Base[l][p]] # "absent" => Base[l][p] \in listed[l]
  /\ \A l \in 1 .. 2 : \A p \in Pages :
       link[l][Base[l][p]] # "absent" => Base[l + 1][p] \in listed[l + 1]
  /\ \A p \in Pages : pte[p] # Absent => Base[1][p] \in listed[1]

\* An entry that the null mapping left present is in a table nothing points to,
\* unless it is the one that is about to be overwritten.
Nulls ==
  /\ \A p \in Pages : link[3][Base[3][p]] # "zero"
  /\ \A l \in 1 .. 2 : \A p \in Pages :
       link[l][Base[l][p]] = "zero" =>
         \/ link[l + 1][Base[l + 1][p]] # "table"
         \/ pc = "link" /\ level = l /\ Base[l][p] = Base[l][Target]

\* Where the creation of tables stands.
Growth ==
  /\ pc = "create" => /\ ~Described(level)
                      /\ \A k \in Levels : k < level => Described(k)
  /\ pc = "link" => level < 3 /\ \A k \in Levels : k <= level + 1 => Described(k)
  /\ pc = "write" => Described(1)

\* Linking a table that is new makes no page visible.
Fresh ==
  /\ pc = "link" \/ (pc = "create" /\ level > 1) =>
       \A q \in Pages : Base[1][q] = Base[1][Target] => pte[q] = Absent
  /\ (pc = "link" /\ level = 2) \/ (pc = "create" /\ level = 3) =>
       \A q \in Pages : Base[2][q] = Base[2][Target] =>
         link[1][Base[1][q]] = IF Base[1][q] = Base[1][Target] THEN "zero" ELSE "absent"
  /\ pc = "link" => link[level][Base[level][Target]] # "table"

Inv == TypeOK /\ Listed /\ Nulls /\ Growth /\ Fresh

\* The page at work is a page.
LEMMA TargetIsPage == ASSUME TypeOK PROVE Target \in Pages
<1>1. op.first \in Pages /\ op.i \in Nat /\ op.pages \in 1 .. PageCount
      /\ op.i < op.pages /\ op.first + op.pages <= PageCount
  BY DEF TypeOK
<1>2. op.first \in Int /\ op.first >= 0 /\ PageCount \in Nat
  BY <1>1, PagesAssumption DEF Pages
<1>3. op.first + op.i \in 0 .. PageCount - 1 /\ op.first \in 0 .. PageCount - 1
  BY <1>1, <1>2
<1> QED BY <1>3 DEF Target, Pages

\* The types hold initially and are preserved by every step.
LEMMA TypeInit == ASSUME Init PROVE TypeOK
<1>1. NoOp \in [kind : Kinds, first : Pages, pages : 1 .. PageCount, i : Nat,
                backing : Backings \cup {Absent}]
      /\ NoOp.i < NoOp.pages /\ NoOp.first + NoOp.pages <= PageCount
  BY PagesAssumption DEF NoOp, Kinds, Writers, Pages
<1>2. listed \in [Levels -> SUBSET Regions] /\ link \in [Levels -> [Regions -> Links]]
  BY DEF Init, Links
<1>3. op = NoOp /\ pc \in Pcs /\ level \in Levels
  BY DEF Init, Pcs, Levels
<1>4. pte \in [Pages -> Backings \cup {Absent}] /\ marked \subseteq Pages
      /\ pde_head \in Regions \cup {NoRegion} /\ locked \in BOOLEAN /\ failed \in BOOLEAN
  BY DEF Init
<1> QED BY <1>1, <1>2, <1>3, <1>4 DEF TypeOK

LEMMA TypeNext == ASSUME TypeOK, [Next]_vars PROVE TypeOK'
<1> DEFINE Ops == [kind : Kinds, first : Pages, pages : 1 .. PageCount, i : Nat,
                   backing : Backings \cup {Absent}]
<1> DEFINE OpOK == op \in Ops /\ op.i < op.pages /\ op.first + op.pages <= PageCount
<1>0. OpOK /\ Target \in Pages
  BY TargetIsPage DEF TypeOK
<1>a. ASSUME NEW kind \in Kinds, NEW max \in Nat, NEW backings \in SUBSET (Backings \cup {Absent}),
             NEW where, Start(kind, max, backings, where)
      PROVE  OpOK'
  <2>1. PICK first \in Pages, n \in 1 .. max, h \in backings :
          /\ first + n <= PageCount
          /\ op' = [kind |-> kind, first |-> first, pages |-> n, i |-> 0, backing |-> h]
    BY <1>a DEF Start
  <2>2. n \in 1 .. PageCount
    BY <2>1, PagesAssumption DEF Pages
  <2>3. op' \in Ops
    BY <2>1, <2>2
  <2> QED BY <2>1, <2>3
<1>b. ASSUME NEW where, NEW end, NextPage(where, end) PROVE OpOK'
  <2>1. CASE RangeDone BY <1>0, <2>1, <1>b DEF NextPage
  <2>2. CASE ~RangeDone
    <3>1. op' = [op EXCEPT !.i = @ + 1] /\ op.i + 1 # op.pages
      BY <2>2, <1>b DEF NextPage, RangeDone
    <3>2. op.i \in Nat /\ op.pages \in Nat /\ op.i < op.pages
      BY <1>0
    <3>3. op'.i = op.i + 1 /\ op'.pages = op.pages /\ op'.first = op.first /\ op' \in Ops
      BY <3>1, <3>2, <1>0
    <3>4. op.i + 1 < op.pages
      BY <3>1, <3>2
    <3> QED BY <3>3, <3>4, <1>0
  <2> QED BY <2>1, <2>2
<1>c. \A l \in Levels : Base[l][Target] \in Regions
  BY <1>0, BaseAssumption
<1>1. CASE Find BY <1>1 DEF Find, TypeOK, Pcs, Levels
<1>2. CASE Create
  <2>1. listed' \in [Levels -> SUBSET Regions]
    BY <1>2, <1>c DEF Create, TypeOK
  <2>2. pde_head' \in Regions \cup {NoRegion}
    BY <1>2, <1>c DEF Create, TypeOK, Levels
  <2>3. link' \in [Levels -> [Regions -> Links]]
    BY <1>2 DEF Create, TypeOK, LinksOfNew, Links
  <2>4. pc' \in Pcs /\ level' \in Levels
    BY <1>2 DEF Create, TypeOK, Pcs, Levels
  <2> QED BY <2>1, <2>2, <2>3, <2>4, <1>2 DEF Create, TypeOK
<1>3. CASE CreateFails
  <2>1. CASE op.kind = "map"
    <3>1. op' = [op EXCEPT !.kind = "undo", !.i = 0]
      BY <1>3, <2>1 DEF CreateFails
    <3>2. op' \in Ops /\ op'.i = 0 /\ op'.pages = op.pages /\ op'.first = op.first
      BY <3>1, <1>0 DEF Kinds, Writers
    <3>3. op'.i < op'.pages
      BY <3>2, <1>0
    <3> QED BY <3>2, <3>3, <1>0, <1>3 DEF CreateFails, TypeOK, Pcs
  <2>2. CASE op.kind # "map" BY <1>3, <2>2 DEF CreateFails, TypeOK, Pcs
  <2> QED BY <2>1, <2>2
<1>4. CASE Link
  <2>1. link' \in [Levels -> [Regions -> Links]]
    BY <1>4, <1>c DEF Link, TypeOK, Links
  <2>2. pc' \in Pcs /\ level' \in Levels
    BY <1>4 DEF Link, TypeOK, Pcs, Levels
  <2> QED BY <2>1, <2>2, <1>4 DEF Link, TypeOK
<1>5. CASE Write
  <2>1. OpOK'
    BY <1>b, <1>5 DEF Write
  <2>2. pte' \in [Pages -> Backings \cup {Absent}]
    BY <1>5, <1>0 DEF Write, TypeOK
  <2>3. pc' \in Pcs /\ marked' \subseteq Pages
    BY <1>5 DEF Write, NextPage, Pcs, TypeOK
  <2> QED BY <2>1, <2>2, <2>3, <1>5 DEF Write, TypeOK
<1>6. CASE SetMapping
  <2>1. OpOK' BY <1>a, <1>6, BoundAssumption DEF SetMapping, Kinds, Writers
  <2> QED BY <2>1, <1>6 DEF SetMapping, Start, TypeOK, Pcs
<1>7. CASE SetUnmapping
  <2>1. OpOK' BY <1>a, <1>7, BoundAssumption DEF SetUnmapping, Kinds, Writers
  <2> QED BY <2>1, <1>7 DEF SetUnmapping, Start, TypeOK, Pcs
<1>8. CASE QueryAccessingBitmap
  <2>1. OpOK' BY <1>a, <1>8, BoundAssumption DEF QueryAccessingBitmap, Kinds, Writers
  <2> QED BY <2>1, <1>8 DEF QueryAccessingBitmap, Start, TypeOK, Pcs
<1>9. CASE ClearAccessingBits
  <2>1. OpOK' BY <1>a, <1>9, BoundAssumption DEF ClearAccessingBits, Kinds, Writers
  <2> QED BY <2>1, <1>9 DEF ClearAccessingBits, Start, TypeOK, Pcs
<1>10. CASE Undo BY <1>10 DEF Undo, TypeOK, Pcs
<1>11. CASE Return
  <2>1. OpOK'
    BY <1>11, PagesAssumption DEF Return, NoOp, Kinds, Writers, Pages
  <2> QED BY <2>1, <1>11 DEF Return, TypeOK, Pcs
<1>12. CASE ClearPage
  <2>1. OpOK' BY <1>b, <1>0, <1>12 DEF ClearPage
  <2>2. pc' \in Pcs /\ marked' \subseteq Pages
    BY <1>12 DEF ClearPage, NextPage, Pcs, TypeOK
  <2> QED BY <2>1, <2>2, <1>12 DEF ClearPage, TypeOK
<1>13. CASE QueryAbsent BY <1>13 DEF QueryAbsent, TypeOK, Pcs
<1>14. CASE QueryPage
  <2>1. OpOK' BY <1>b, <1>14 DEF QueryPage
  <2>2. pc' \in Pcs
    BY <1>14 DEF QueryPage, NextPage, Pcs, TypeOK
  <2> QED BY <2>1, <2>2, <1>14 DEF QueryPage, TypeOK
<1>15. CASE QuerySpin BY <1>15 DEF QuerySpin, vars, TypeOK
<1>16. CASE GuestAccess BY <1>16 DEF GuestAccess, TypeOK
<1>17. CASE UNCHANGED vars BY <1>17 DEF vars, TypeOK
<1> HIDE DEF OpOK, Ops
<1> QED
  BY <1>1, <1>2, <1>3, <1>4, <1>5, <1>6, <1>7, <1>8, <1>9, <1>10, <1>11, <1>12, <1>13,
     <1>14, <1>15, <1>16, <1>17 DEF Next

\* The state keeps its types (every function of svm_custom.c named by the map).
THEOREM TypeCorrect == Spec => []TypeOK
<1>1. Init => TypeOK BY TypeInit
<1>2. TypeOK /\ [Next]_vars => TypeOK' BY TypeNext
<1> QED BY <1>1, <1>2, PTL DEF Spec
\* The structure of the tables: preserved by every step.
LEMMA StructureInit == ASSUME Init PROVE Listed /\ Nulls /\ Growth /\ Fresh
<1>1. \A l \in Levels : \A p \in Pages : link[l][Base[l][p]] = "absent"
  BY BaseAssumption DEF Init
<1>2. 1 .. 2 \subseteq Levels /\ 3 \in Levels
  BY DEF Levels
<1>3. pc = "idle" /\ \A p \in Pages : pte[p] = Absent
  BY DEF Init
<1> QED BY <1>1, <1>2, <1>3 DEF Listed, Nulls, Growth, Fresh

\* Steps that leave the tables alone and are not part of their creation.
LEMMA StructureUnchanged ==
  ASSUME Inv, UNCHANGED <<listed, link, pte>>, pc # "link",
         pc' \notin {"create", "link", "write"}
  PROVE  (Listed /\ Nulls /\ Growth /\ Fresh)'
<1>1. Listed' BY DEF Inv, Listed
<1>2. Nulls' BY DEF Inv, Nulls
<1> QED BY <1>1, <1>2 DEF Growth, Fresh

LEMMA StructureFind ==
  ASSUME Inv, Find PROVE (Listed /\ Nulls /\ Growth /\ Fresh)'
<1>0. op' = op /\ Target' = Target /\ pc = "find" /\ level' = 1
  BY DEF Find, Target
<1>1. Listed' BY DEF Inv, Listed, Find
<1>2. Nulls' BY <1>0 DEF Inv, Nulls, Find
<1>3. Growth' BY <1>0 DEF Inv, Growth, Find, Described, Levels
<1>4. Fresh' BY <1>0 DEF Inv, Fresh, Find
<1> QED BY <1>1, <1>2, <1>3, <1>4

\* The entries after the creation of a table.
LEMMA NewLinks ==
  ASSUME Inv, Create
  PROVE  /\ Target \in Pages /\ Target' = Target
         /\ level \in Levels /\ ~Described(level)
         /\ \A l \in Levels : Base[l][Target] \in Regions
         /\ \A k \in Levels : \A p \in Pages :
              link'[k][Base[k][p]] =
                IF Base[k][p] = Base[k][Target] /\ k = level - 1 THEN "zero"
                ELSE IF Base[k][p] = Base[k][Target] /\ k = 3 /\ level = 3 THEN "table"
                ELSE link[k][Base[k][p]]
         /\ \A k \in Levels : \A p \in Pages :
              Base[k][p] \in listed'[k] <=>
                Base[k][p] \in listed[k] \/ (k = level /\ Base[k][p] = Base[k][Target])
<1>1. Target \in Pages /\ Target' = Target
  BY TargetIsPage DEF Inv, Create, Target
<1>2. level \in Levels /\ ~Described(level)
  BY DEF Inv, TypeOK, Growth, Create
<1>3. \A l \in Levels : \A p \in Pages : Base[l][p] \in Regions
  BY BaseAssumption
<1>4. \A k \in Levels : \A p \in Pages :
        link'[k][Base[k][p]] =
          IF Base[k][p] = Base[k][Target] /\ k = level - 1 THEN "zero"
          ELSE IF Base[k][p] = Base[k][Target] /\ k = 3 /\ level = 3 THEN "table"
          ELSE link[k][Base[k][p]]
  BY <1>3 DEF Create, LinksOfNew
<1>5. \A k \in Levels : \A p \in Pages :
        Base[k][p] \in listed'[k] <=>
          Base[k][p] \in listed[k] \/ (k = level /\ Base[k][p] = Base[k][Target])
  BY <1>2 DEF Create, Inv, TypeOK
<1> QED BY <1>1, <1>2, <1>3, <1>4, <1>5

LEMMA StructureCreate ==
  ASSUME Inv, Create PROVE (Listed /\ Nulls /\ Growth /\ Fresh)'
<1> USE NewLinks
<1>0. \A l \in 1 .. 2 : \A p, q \in Pages : Base[l][p] = Base[l][q] => Base[l + 1][p] = Base[l + 1][q]
  BY NestingAssumption
<1>a. level = 1 \/ level = 2 \/ level = 3
  BY DEF Levels
<1>b. \A k \in Levels : k < level => Base[k][Target] \in listed[k]
  BY DEF Inv, Growth, Create, Described
<1>c. pte' = pte /\ op' = op /\ pc = "create"
  BY DEF Create
<1>1. Listed'
  <2>1. \A l \in Levels : \A p \in Pages :
          link'[l][Base[l][p]] # "absent" => Base[l][p] \in listed'[l]
    BY <1>a, <1>b DEF Inv, Listed, Levels
  <2>2. \A l \in 1 .. 2 : \A p \in Pages :
          link'[l][Base[l][p]] # "absent" => Base[l + 1][p] \in listed'[l + 1]
    BY <1>0, <1>a DEF Inv, Listed, Levels
  <2>3. \A p \in Pages : pte'[p] # Absent => Base[1][p] \in listed'[1]
    BY <1>c DEF Inv, Listed, Levels
  <2> QED BY <2>1, <2>2, <2>3 DEF Listed
<1>2. Nulls'
  <2>1. \A p \in Pages : link'[3][Base[3][p]] # "zero"
    BY <1>a DEF Inv, Nulls, Levels
  <2>2. ASSUME NEW l \in 1 .. 2, NEW p \in Pages, link'[l][Base[l][p]] = "zero"
        PROVE  \/ link'[l + 1][Base[l + 1][p]] # "table"
               \/ pc' = "link" /\ level' = l /\ Base[l][p] = Base[l][Target]
    <3>1. CASE level = 3
      <4>1. pc' = "link" /\ level' = 2
        BY <3>1 DEF Create
      <4>2. CASE l = 2
        <5>1. \A q \in Pages : Base[3][q] = Base[3][Target] => link[2][Base[2][q]] = "absent"
          BY <3>1 DEF Inv, Listed, Described, Levels
        <5>2. CASE Base[2][p] = Base[2][Target] BY <4>1, <4>2, <5>2
        <5>3. CASE Base[2][p] # Base[2][Target]
          <6>1. link[2][Base[2][p]] = "zero"
            BY <2>2, <3>1, <4>2, <5>3 DEF Levels
          <6>2. Base[3][p] # Base[3][Target]
            BY <5>1, <6>1
          <6>3. link'[3][Base[3][p]] = link[3][Base[3][p]]
            BY <6>2, <3>1 DEF Levels
          <6> QED BY <6>1, <6>3, <4>2 DEF Inv, Nulls, Create
        <5> QED BY <5>2, <5>3
      <4>3. CASE l = 1
        <5>1. link[1][Base[1][p]] = "zero" /\ (link'[2][Base[2][p]] = "zero" \/ link'[2][Base[2][p]] = link[2][Base[2][p]])
          BY <2>2, <3>1, <4>3 DEF Levels
        <5> QED BY <5>1, <4>3 DEF Inv, Nulls, Create
      <4> QED BY <4>2, <4>3
    <3>2. CASE level = 2
      <4>1. link'[l + 1][Base[l + 1][p]] = link[l + 1][Base[l + 1][p]]
        BY <3>2 DEF Levels
      <4>2. CASE l = 1 /\ Base[1][p] = Base[1][Target]
        <5>1. Base[2][p] = Base[2][Target]
          BY <4>2, <1>0
        <5>2. link[2][Base[2][p]] = "absent"
          BY <5>1, <3>2 DEF Inv, Listed, Described, Levels
        <5> QED BY <5>2, <4>1, <4>2
      <4>3. CASE ~(l = 1 /\ Base[1][p] = Base[1][Target])
        <5>1. link[l][Base[l][p]] = "zero"
          BY <2>2, <3>2, <4>3 DEF Levels
        <5> QED BY <5>1, <4>1 DEF Inv, Nulls, Create
      <4> QED BY <4>2, <4>3
    <3>3. CASE level = 1
      <4>1. link'[l + 1][Base[l + 1][p]] = link[l + 1][Base[l + 1][p]] /\ link[l][Base[l][p]] = "zero"
        BY <2>2, <3>3 DEF Levels
      <4> QED BY <4>1 DEF Inv, Nulls, Create
    <3> QED BY <1>a, <3>1, <3>2, <3>3
  <2> QED BY <2>1, <2>2 DEF Nulls
<1>3. Growth'
  <2>1. CASE level = 3
    <3>1. pc' = "link" /\ level' = 2
      BY <2>1 DEF Create
    <3>2. \A k \in Levels : Base[k][Target] \in listed'[k]
      BY <2>1, <1>b DEF Levels
    <3> QED BY <3>1, <3>2 DEF Growth, Described
  <2>2. CASE level < 3 /\ Described(level + 1)
    <3>1. pc' = "link" /\ level' = level
      BY <2>2, <1>a DEF Create
    <3>2. \A k \in Levels : k <= level + 1 => Base[k][Target] \in listed'[k]
      BY <2>2, <1>a, <1>b DEF Levels, Described
    <3> QED BY <2>2, <3>1, <3>2 DEF Growth, Described
  <2>3. CASE level < 3 /\ ~Described(level + 1)
    <3>1. pc' = "create" /\ level' = level + 1
      BY <2>3, <1>a DEF Create
    <3>2. \A k \in Levels : k < level + 1 => Base[k][Target] \in listed'[k]
      BY <1>a, <1>b DEF Levels
    <3>3. Base[level + 1][Target] \notin listed'[level + 1]
      BY <2>3, <1>a DEF Levels, Described
    <3> QED BY <3>1, <3>2, <3>3 DEF Growth, Described
  <2> QED BY <2>1, <2>2, <2>3, <1>a
<1>4. Fresh'
  <2>1. \A q \in Pages : Base[1][q] = Base[1][Target] => pte[q] = Absent
    BY <1>a, <1>c DEF Inv, Fresh, Listed, Described
  <2>2. level > 1 =>
          \A q \in Pages : Base[2][q] = Base[2][Target] =>
            link'[1][Base[1][q]] = IF Base[1][q] = Base[1][Target] THEN "zero" ELSE "absent"
    <3>1. CASE level = 3
      BY <3>1, <1>c DEF Inv, Fresh, Levels
    <3>2. CASE level = 2
      <4>1. \A q \in Pages : Base[2][q] = Base[2][Target] => link[1][Base[1][q]] = "absent"
        BY <3>2 DEF Inv, Listed, Described, Levels
      <4> QED BY <3>2, <4>1 DEF Levels
    <3> QED BY <3>1, <3>2, <1>a
  <2>3. (level' = 2 /\ pc' = "link") \/ (level' = 3 /\ pc' = "create") => level > 1
    BY <1>a DEF Create
  <2>4. pc' = "link" => link'[level'][Base[level'][Target]] # "table"
    <3>1. CASE level = 3
      BY <3>1 DEF Create, Levels
    <3>2. CASE level < 3
      <4>1. link[level][Base[level][Target]] = "absent"
        BY DEF Inv, Listed, Described, Levels
      <4>2. link'[level][Base[level][Target]] = "absent"
        BY <3>2, <4>1 DEF Levels
      <4>3. pc' = "link" => level' = level
        BY <3>2, <1>a DEF Create
      <4> QED BY <4>2, <4>3
    <3> QED BY <3>1, <3>2, <1>a
  <2> QED BY <2>1, <2>2, <2>3, <2>4, <1>c DEF Fresh
<1> QED BY <1>1, <1>2, <1>3, <1>4
LEMMA StructureLink ==
  ASSUME Inv, Link PROVE (Listed /\ Nulls /\ Growth /\ Fresh)'
<1>0. Target \in Pages /\ Target' = Target
  BY TargetIsPage DEF Inv, Link, Target
<1>a. level = 1 \/ level = 2
  BY DEF Inv, TypeOK, Growth, Link, Levels
<1>b. pc = "link" /\ listed' = listed /\ pte' = pte
  BY DEF Link
<1>c. \A k \in Levels : \A p \in Pages :
        link'[k][Base[k][p]] =
          IF k = level /\ Base[k][p] = Base[k][Target] THEN "table" ELSE link[k][Base[k][p]]
  BY <1>0, BaseAssumption DEF Link, Inv, TypeOK
<1>d. \A k \in Levels : k <= level + 1 => Base[k][Target] \in listed[k]
  BY <1>b DEF Inv, Growth, Described
<1>e. \A l \in 1 .. 2 : \A p, q \in Pages : Base[l][p] = Base[l][q] => Base[l + 1][p] = Base[l + 1][q]
  BY NestingAssumption
<1>f. \A p \in Pages : Base[level][p] = Base[level][Target] => Base[level + 1][p] = Base[level + 1][Target]
  BY <1>0, <1>a, <1>e
<1>1. Listed'
  <2>1. \A l \in Levels : \A p \in Pages :
          link'[l][Base[l][p]] # "absent" => Base[l][p] \in listed[l]
    BY <1>c, <1>d, <1>a DEF Inv, Listed, Levels
  <2>2. \A l \in 1 .. 2 : \A p \in Pages :
          link'[l][Base[l][p]] # "absent" => Base[l + 1][p] \in listed[l + 1]
    BY <1>c, <1>d, <1>a, <1>f DEF Inv, Listed, Levels
  <2> QED BY <2>1, <2>2, <1>b DEF Inv, Listed
<1>2. Nulls'
  <2>1. \A p \in Pages : link'[3][Base[3][p]] # "zero"
    BY <1>a, <1>c DEF Inv, Nulls, Levels
  <2>2. ASSUME NEW l \in 1 .. 2, NEW p \in Pages, link'[l][Base[l][p]] = "zero"
        PROVE  \/ link'[l + 1][Base[l + 1][p]] # "table"
               \/ pc' = "link" /\ level' = l /\ Base[l][p] = Base[l][Target]
    <3>1. link[l][Base[l][p]] = "zero" /\ ~(l = level /\ Base[l][p] = Base[l][Target])
      BY <2>2, <1>c DEF Levels
    <3>2. link[l + 1][Base[l + 1][p]] # "table"
      BY <3>1 DEF Inv, Nulls
    <3>3. CASE l + 1 = level /\ Base[l + 1][p] = Base[l + 1][Target]
      <4>1. l = 1 /\ level = 2 /\ pc' = "link" /\ level' = 1
        BY <3>3, <1>a DEF Link
      <4>2. Base[1][p] = Base[1][Target] \/ link[1][Base[1][p]] # "zero"
        BY <1>0, <3>3, <4>1, <1>b DEF Inv, Fresh, Nulls
      <4> QED BY <3>1, <4>1, <4>2
    <3>4. CASE ~(l + 1 = level /\ Base[l + 1][p] = Base[l + 1][Target])
      BY <3>2, <3>4, <1>c DEF Levels
    <3> QED BY <3>3, <3>4
  <2> QED BY <2>1, <2>2, <1>0 DEF Nulls
<1>3. Growth'
  BY <1>0, <1>a, <1>b, <1>d DEF Growth, Described, Link, Levels
<1>4. Fresh'
  <2>1. pc' = "link" => level' = 1 /\ level = 2
    BY <1>a DEF Link
  <2>2. pc' # "create"
    BY <1>b DEF Link
  <2>3. \A q \in Pages : Base[1][q] = Base[1][Target] => pte[q] = Absent
    BY <1>b DEF Inv, Fresh
  <2>4. level = 2 => link'[1][Base[1][Target]] # "table"
    BY <1>0, <1>b, <1>c DEF Inv, Fresh, Levels
  <2> QED BY <2>1, <2>2, <2>3, <2>4, <1>0, <1>b DEF Fresh
<1> QED BY <1>1, <1>2, <1>3, <1>4
LEMMA StructureWrite ==
  ASSUME Inv, Write PROVE (Listed /\ Nulls /\ Growth /\ Fresh)'
<1>0. Target \in Pages /\ Described(1) /\ pc = "write" /\ pc' \in {"find", "free"}
  BY TargetIsPage DEF Inv, Write, Growth, NextPage
<1>1. Listed'
  <2>1. \A p \in Pages : pte'[p] # Absent => Base[1][p] \in listed[1]
    BY <1>0 DEF Write, Inv, TypeOK, Listed, Described
  <2> QED BY <2>1 DEF Write, Inv, Listed
<1>2. Nulls' BY <1>0 DEF Inv, Nulls, Write
<1> QED BY <1>0, <1>1, <1>2 DEF Growth, Fresh

\* Steps that leave the tables and the operation alone.
LEMMA StructureStutter ==
  ASSUME Inv, UNCHANGED <<listed, link, pte, pc, level, op>>
  PROVE  (Listed /\ Nulls /\ Growth /\ Fresh)'
<1>0. Target' = Target BY DEF Target
<1>1. Listed' BY DEF Inv, Listed
<1>2. Nulls' BY <1>0 DEF Inv, Nulls
<1>3. Growth' BY <1>0 DEF Inv, Growth, Described
<1>4. Fresh' BY <1>0 DEF Inv, Fresh
<1> QED BY <1>1, <1>2, <1>3, <1>4

\* The structure of the tables is preserved by every step.
LEMMA InvNext == ASSUME Inv, [Next]_vars PROVE Inv'
<1>0. TypeOK' BY TypeNext DEF Inv
<1> SUFFICES (Listed /\ Nulls /\ Growth /\ Fresh)'
  BY <1>0 DEF Inv
<1>1. CASE Find BY <1>1, StructureFind
<1>2. CASE Create BY <1>2, StructureCreate
<1>3. CASE CreateFails BY <1>3, StructureUnchanged DEF CreateFails
<1>4. CASE Link BY <1>4, StructureLink
<1>5. CASE Write BY <1>5, StructureWrite
<1>6. CASE SetMapping BY <1>6, StructureUnchanged DEF SetMapping, Start
<1>7. CASE SetUnmapping BY <1>7, StructureUnchanged DEF SetUnmapping, Start
<1>8. CASE QueryAccessingBitmap BY <1>8, StructureUnchanged DEF QueryAccessingBitmap, Start
<1>9. CASE ClearAccessingBits BY <1>9, StructureUnchanged DEF ClearAccessingBits, Start
<1>10. CASE Undo BY <1>10, StructureUnchanged DEF Undo
<1>11. CASE Return BY <1>11, StructureUnchanged DEF Return
<1>12. CASE ClearPage BY <1>12, StructureUnchanged DEF ClearPage, NextPage
<1>13. CASE QueryAbsent BY <1>13, StructureUnchanged DEF QueryAbsent
<1>14. CASE QueryPage BY <1>14, StructureUnchanged DEF QueryPage, NextPage
<1>15. CASE QuerySpin BY <1>15, StructureStutter DEF QuerySpin, vars
<1>16. CASE GuestAccess BY <1>16, StructureStutter DEF GuestAccess
<1>17. CASE UNCHANGED vars BY <1>17, StructureStutter DEF vars
<1> QED
  BY <1>1, <1>2, <1>3, <1>4, <1>5, <1>6, <1>7, <1>8, <1>9, <1>10, <1>11, <1>12, <1>13,
     <1>14, <1>15, <1>16, <1>17 DEF Next

LEMMA InvCorrect == Spec => []Inv
<1>1. Init => Inv BY TypeInit, StructureInit DEF Inv
<1>2. Inv /\ [Next]_vars => Inv' BY InvNext
<1> QED BY <1>1, <1>2, PTL DEF Spec

\* Whatever allocations fail, a walk outside the creation of tables never ends
\* in host frame 0 (set_page_map and the functions that create tables).
THEOREM WalksCorrect == Spec => []WalksInTables
<1>1. Inv => WalksInTables
  <2> SUFFICES ASSUME Inv, pc \notin {"create", "link"}, NEW p \in Pages, NEW l \in Levels,
                      link[l][Base[l][p]] = "zero",
                      \A k \in Levels : k > l => link[k][Base[k][p]] = "table"
               PROVE  FALSE
    BY DEF WalksInTables, Astray
  <2>1. CASE l = 3 BY <2>1 DEF Inv, Nulls
  <2>2. CASE l \in 1 .. 2
    <3>1. link[l + 1][Base[l + 1][p]] = "table"
      BY <2>2 DEF Levels
    <3> QED BY <2>2, <3>1 DEF Inv, Nulls
  <2> QED BY <2>1, <2>2 DEF Levels
<1> QED BY <1>1, InvCorrect, PTL

\* Outside the creation of tables, searches and walks agree about a page.
LEMMA SearchMatchesWalk ==
  ASSUME Inv, pc \notin {"create", "link"}, NEW p \in Pages
  PROVE  SearchFinds(p) <=> Visible(p) # Absent
<1>1. \A l \in Levels : link[l][Base[l][p]] \in Links
  BY BaseAssumption DEF Inv, TypeOK
<1>2. link[3][Base[3][p]] # "absent" => link[3][Base[3][p]] = "table"
  BY <1>1 DEF Inv, Nulls, Links, Levels
<1>3. \A l \in 1 .. 2 : link[l + 1][Base[l + 1][p]] = "table" /\ link[l][Base[l][p]] # "absent"
        => link[l][Base[l][p]] = "table"
  BY <1>1 DEF Inv, Nulls, Links, Levels
<1>4. ASSUME SearchFinds(p) PROVE Visible(p) # Absent
  BY <1>2, <1>3, <1>4 DEF SearchFinds, SearchFinds512, SearchFinds2, Visible, Reached, Levels
<1>5. ASSUME Visible(p) # Absent PROVE SearchFinds(p)
  <2>1. \A l \in Levels : link[l][Base[l][p]] = "table" /\ Base[l][p] \in listed[l]
    BY <1>5 DEF Visible, Reached, Inv, Listed
  <2> QED BY <2>1, <1>5 DEF SearchFinds, SearchFinds512, SearchFinds2, Visible, Levels
<1> QED BY <1>4, <1>5

\* The driver's search finds exactly the entries that a walk reaches
\* (clear_gpa_accessing_bit and query_gpa_accessing_bit).
THEOREM SearchesCorrect == Spec => []SearchesMatchWalks
<1>1. Inv => SearchesMatchWalks BY SearchMatchesWalk DEF SearchesMatchWalks
<1> QED BY <1>1, InvCorrect, PTL

-----------------------------------------------------------------------------
(* The tables implement CvmPageMap, for hosts that unmap one page at a time. *)

\* Until an allocation fails, every listed table is linked or about to be.
Complete ==
  ~failed => \A l \in Levels : \A p \in Pages : Base[l][p] \in listed[l] =>
    \/ link[l][Base[l][p]] = "table"
    \/ /\ Base[l][p] = Base[l][Target]
       /\ (pc = "link" /\ l <= level) \/ (pc = "create" /\ l < level)

\* How far the request has come.
Kept ==
  /\ pc \in {"find", "create", "link", "write"} => op.kind \in Writers
  /\ pc \in {"query", "clear"} => op.kind \notin Writers
  /\ pc = "idle" => op = NoOp
  /\ op.kind = "undo" => failed
  /\ op.kind = "unmap" => op.pages = 1
  /\ pc = "free" /\ op.kind = "map" /\ ~failed => op.i + 1 = op.pages

Progress ==
  ~failed /\ op.kind \in {"map", "unmap"} =>
    \A k \in 0 .. op.i : k < op.i \/ pc = "free" => Visible(op.first + k) = op.backing

RefInv == Inv /\ Complete /\ Kept /\ Progress

LEMMA RequestIsPages == ASSUME TypeOK PROVE op.first .. op.first + op.pages - 1 \subseteq Pages
<1>1. op.first \in 0 .. PageCount - 1 /\ op.pages \in 1 .. PageCount
      /\ op.first + op.pages <= PageCount /\ PageCount \in Nat
  BY PagesAssumption DEF TypeOK, Pages
<1> QED BY <1>1 DEF Pages

\* Creating and linking tables changes nothing that a guest sees.
LEMMA CreateInvisible ==
  ASSUME Inv, Create PROVE \A p \in Pages : Visible(p)' = Visible(p)
<1> USE NewLinks
<1>a. level = 1 \/ level = 2 \/ level = 3
  BY DEF Levels
<1>b. pte' = pte BY DEF Create
<1>c. \A l \in 1 .. 2 : \A p, q \in Pages : Base[l][p] = Base[l][q] => Base[l + 1][p] = Base[l + 1][q]
  BY NestingAssumption
<1> SUFFICES ASSUME NEW p \in Pages PROVE Reached(p)' <=> Reached(p)
  BY <1>b DEF Visible
<1>1. CASE level = 1
  BY <1>1 DEF Reached, Levels
<1>2. CASE level = 2
  <2>1. CASE Base[1][p] = Base[1][Target]
    <3>1. link[2][Base[2][p]] = "absent"
      BY <1>2, <2>1, <1>c DEF Inv, Listed, Described, Levels
    <3> QED BY <1>2, <3>1 DEF Reached, Levels
  <2>2. CASE Base[1][p] # Base[1][Target]
    BY <1>2, <2>2 DEF Reached, Levels
  <2> QED BY <2>1, <2>2
<1>3. CASE level = 3
  <2>1. CASE Base[3][p] = Base[3][Target]
    <3>1. link[2][Base[2][p]] = "absent"
      BY <1>3, <2>1 DEF Inv, Listed, Described, Levels
    <3>2. link'[2][Base[2][p]] # "table"
      BY <1>3, <3>1 DEF Levels
    <3> QED BY <3>1, <3>2 DEF Reached, Levels
  <2>2. CASE Base[3][p] # Base[3][Target]
    <3>1. Base[2][p] # Base[2][Target]
      BY <2>2, <1>c
    <3> QED BY <1>3, <2>2, <3>1 DEF Reached, Levels
  <2> QED BY <2>1, <2>2
<1> QED BY <1>a, <1>1, <1>2, <1>3

LEMMA LinkInvisible ==
  ASSUME Inv, Link PROVE \A p \in Pages : Visible(p)' = Visible(p)
<1>0. Target \in Pages
  BY TargetIsPage DEF Inv
<1>a. level = 1 \/ level = 2
  BY DEF Inv, TypeOK, Growth, Link, Levels
<1>b. pc = "link" /\ pte' = pte
  BY DEF Link
<1>c. \A k \in Levels : \A p \in Pages :
        link'[k][Base[k][p]] =
          IF k = level /\ Base[k][p] = Base[k][Target] THEN "table" ELSE link[k][Base[k][p]]
  BY <1>0, BaseAssumption DEF Link, Inv, TypeOK
<1> SUFFICES ASSUME NEW p \in Pages PROVE Visible(p)' = Visible(p)
  OBVIOUS
<1>1. CASE Base[level][p] = Base[level][Target]
  <2>1. CASE level = 1
    <3>1. pte[p] = Absent
      BY <1>1, <2>1, <1>b DEF Inv, Fresh
    <3> QED BY <3>1, <1>b DEF Visible
  <2>2. CASE level = 2
    <3>1. link[1][Base[1][p]] # "table"
      BY <1>1, <2>2, <1>b DEF Inv, Fresh
    <3>2. link'[1][Base[1][p]] # "table"
      BY <2>2, <3>1, <1>c DEF Levels
    <3> QED BY <3>1, <3>2 DEF Visible, Reached, Levels
  <2> QED BY <1>a, <2>1, <2>2
<1>2. CASE Base[level][p] # Base[level][Target]
  <2>1. \A k \in Levels : link'[k][Base[k][p]] = link[k][Base[k][p]]
    BY <1>2, <1>c
  <2> QED BY <2>1, <1>b DEF Visible, Reached
<1> QED BY <1>1, <1>2

\* The page at work is reached when its entry is written.
LEMMA WriteReaches ==
  ASSUME Inv, Complete, pc = "write", ~failed PROVE Reached(Target)
<1>0. Target \in Pages /\ Base[1][Target] \in listed[1]
  BY TargetIsPage DEF Inv, Growth, Described
<1>1. \A l \in Levels : \A p \in Pages : Base[l][p] \in listed[l] => link[l][Base[l][p]] = "table"
  BY DEF Complete
<1>2. \A l \in 1 .. 2 : link[l][Base[l][Target]] = "table" => Base[l + 1][Target] \in listed[l + 1]
  BY <1>0 DEF Inv, Listed
<1> QED BY <1>0, <1>1, <1>2 DEF Reached, Levels

LEMMA WriteVisible ==
  ASSUME Inv, Write
  PROVE  /\ Target \in Pages
         /\ \A p \in Pages : Visible(p)' =
              IF p = Target
                THEN IF Reached(p) THEN (IF op.kind = "undo" THEN Absent ELSE op.backing) ELSE Absent
                ELSE Visible(p)
<1>0. Target \in Pages
  BY TargetIsPage DEF Inv
<1> QED BY <1>0 DEF Write, Visible, Reached, Inv, TypeOK
LEMMA CompleteNext == ASSUME Inv, Complete, [Next]_vars PROVE Complete'
<1>a. ASSUME UNCHANGED <<listed, link, failed>>, pc \notin {"create", "link"}
      PROVE  Complete'
  BY <1>a DEF Complete
<1>b. ASSUME UNCHANGED <<listed, link, failed, pc, level, op>> PROVE Complete'
  BY <1>b DEF Complete, Target
<1>1. CASE Find BY <1>1, <1>a DEF Find
<1>2. CASE Create
  <2> USE <1>2, NewLinks
  <2>1. level = 1 \/ level = 2 \/ level = 3
    BY DEF Levels
  <2> SUFFICES ASSUME ~failed, NEW l \in Levels, NEW p \in Pages, Base[l][p] \in listed'[l],
                      link'[l][Base[l][p]] # "table"
               PROVE  /\ Base[l][p] = Base[l][Target]
                      /\ (pc' = "link" /\ l <= level') \/ (pc' = "create" /\ l < level')
    BY <1>2 DEF Complete, Create
  <2>2. Base[l][p] = Base[l][Target] /\ l <= level
    <3>1. CASE Base[l][p] \in listed[l]
      <4>1. CASE link[l][Base[l][p]] = "table"
        BY <1>2, <4>1, <2>1 DEF Levels
      <4>2. CASE link[l][Base[l][p]] # "table"
        BY <1>2, <3>1, <4>2, <2>1 DEF Complete, Create, Levels
      <4> QED BY <4>1, <4>2
    <3>2. CASE Base[l][p] \notin listed[l]
      BY <1>2, <3>2, <2>1 DEF Levels
    <3> QED BY <3>1, <3>2
  <2>3. level = 3 => l # 3
    BY <1>2, <2>2 DEF Levels
  <2> QED BY <1>2, <2>1, <2>2, <2>3 DEF Create, Levels
<1>3. CASE CreateFails BY <1>3 DEF CreateFails, Complete
<1>4. CASE Link
  <2>0. Target \in Pages /\ Target' = Target
    BY <1>4, TargetIsPage DEF Inv, Link, Target
  <2>1. level = 1 \/ level = 2
    BY <1>4 DEF Inv, TypeOK, Growth, Link, Levels
  <2>2. \A k \in Levels : \A p \in Pages :
          link'[k][Base[k][p]] =
            IF k = level /\ Base[k][p] = Base[k][Target] THEN "table" ELSE link[k][Base[k][p]]
    BY <1>4, <2>0, BaseAssumption DEF Link, Inv, TypeOK
  <2> SUFFICES ASSUME ~failed, NEW l \in Levels, NEW p \in Pages, Base[l][p] \in listed[l],
                      link'[l][Base[l][p]] # "table"
               PROVE  /\ Base[l][p] = Base[l][Target]
                      /\ (pc' = "link" /\ l <= level') \/ (pc' = "create" /\ l < level')
    BY <1>4, <2>0 DEF Complete, Link
  <2>3. link[l][Base[l][p]] # "table"
    BY <2>2
  <2>4. Base[l][p] = Base[l][Target] /\ l <= level
    BY <1>4, <2>3 DEF Complete, Link
  <2>5. l # level
    BY <2>2, <2>4
  <2> QED BY <1>4, <2>1, <2>4, <2>5 DEF Link, Levels
<1>5. CASE Write BY <1>5, <1>a DEF Write
<1>6. CASE SetMapping BY <1>6, <1>a DEF SetMapping, Start
<1>7. CASE SetUnmapping BY <1>7, <1>a DEF SetUnmapping, Start
<1>8. CASE QueryAccessingBitmap BY <1>8, <1>a DEF QueryAccessingBitmap, Start
<1>9. CASE ClearAccessingBits BY <1>9, <1>a DEF ClearAccessingBits, Start
<1>10. CASE Undo BY <1>10, <1>a DEF Undo
<1>11. CASE Return BY <1>11, <1>a DEF Return
<1>12. CASE ClearPage BY <1>12, <1>a DEF ClearPage
<1>13. CASE QueryAbsent BY <1>13, <1>a DEF QueryAbsent
<1>14. CASE QueryPage BY <1>14, <1>a DEF QueryPage
<1>15. CASE QuerySpin BY <1>15, <1>b DEF QuerySpin, vars
<1>16. CASE GuestAccess BY <1>16, <1>b DEF GuestAccess
<1>17. CASE UNCHANGED vars BY <1>17, <1>b DEF vars
<1> QED
  BY <1>1, <1>2, <1>3, <1>4, <1>5, <1>6, <1>7, <1>8, <1>9, <1>10, <1>11, <1>12, <1>13,
     <1>14, <1>15, <1>16, <1>17 DEF Next

LEMMA KeptNext == ASSUME Inv, Kept, MaxUnmap = 1, [Next]_vars PROVE Kept'
<1>0. op.i \in Nat /\ op.pages \in Nat /\ op.kind \in Kinds
      /\ op \in [kind : Kinds, first : Pages, pages : 1 .. PageCount, i : Nat,
                 backing : Backings \cup {Absent}]
  BY DEF Inv, TypeOK
<1>a. ASSUME NEW where, NEW end, NextPage(where, end)
      PROVE  /\ op'.kind = op.kind /\ op'.pages = op.pages
             /\ pc' = where \/ (pc' = end /\ op' = op /\ op.i + 1 = op.pages)
  BY <1>0, <1>a DEF NextPage, RangeDone
<1>1. CASE Find BY <1>1 DEF Find, Kept
<1>2. CASE Create BY <1>2 DEF Create, Kept
<1>3. CASE CreateFails
  <2>1. CASE op.kind = "map"
    <3>1. op' = [op EXCEPT !.kind = "undo", !.i = 0] /\ failed' /\ pc' = "free"
      BY <1>3, <2>1 DEF CreateFails
    <3>2. op'.kind = "undo"
      BY <3>1, <1>0
    <3> QED BY <3>1, <3>2 DEF Kept
  <2>2. CASE op.kind # "map" BY <1>3, <2>2 DEF CreateFails, Kept
  <2> QED BY <2>1, <2>2
<1>4. CASE Link BY <1>4 DEF Link, Kept
<1>5. CASE Write
  <2>1. NextPage("find", "free") /\ pc = "write" /\ failed' = failed
    BY <1>5 DEF Write
  <2>2. /\ op'.kind = op.kind /\ op'.pages = op.pages
        /\ pc' = "find" \/ (pc' = "free" /\ op' = op /\ op.i + 1 = op.pages)
    BY <2>1, <1>a
  <2> QED BY <2>1, <2>2 DEF Kept
<1>6. CASE SetMapping BY <1>6 DEF SetMapping, Start, Kept, Writers
<1>7. CASE SetUnmapping
  <2>1. PICK first \in Pages, n \in 1 .. MaxUnmap, h \in {Absent} :
          op' = [kind |-> "unmap", first |-> first, pages |-> n, i |-> 0, backing |-> h]
    BY <1>7 DEF SetUnmapping, Start
  <2>2. n = 1 /\ pc' = "find"
    BY <1>7 DEF SetUnmapping, Start
  <2> QED BY <2>1, <2>2 DEF Kept, Writers
<1>8. CASE QueryAccessingBitmap
  BY <1>8 DEF QueryAccessingBitmap, Start, Kept, Writers
<1>9. CASE ClearAccessingBits
  BY <1>9 DEF ClearAccessingBits, Start, Kept, Writers
<1>10. CASE Undo BY <1>10 DEF Undo, Kept, Writers
<1>11. CASE Return BY <1>11 DEF Return, Kept, NoOp
<1>12. CASE ClearPage
  <2>1. op.kind \notin Writers /\ failed' = failed /\ pc = "clear"
    BY <1>12 DEF ClearPage, Kept
  <2>2. op'.kind = op.kind /\ pc' \in {"clear", "free"}
    BY <1>12, <1>a DEF ClearPage
  <2> QED BY <2>1, <2>2 DEF Kept, Writers
<1>13. CASE QueryAbsent BY <1>13 DEF QueryAbsent, Kept, Writers
<1>14. CASE QueryPage
  <2>1. op.kind \notin Writers /\ failed' = failed /\ pc = "query"
    BY <1>14 DEF QueryPage, Kept
  <2>2. op'.kind = op.kind /\ pc' \in {"query", "free"}
    BY <1>14, <1>a DEF QueryPage
  <2> QED BY <2>1, <2>2 DEF Kept, Writers
<1>15. CASE QuerySpin BY <1>15 DEF QuerySpin, vars, Kept
<1>16. CASE GuestAccess BY <1>16 DEF GuestAccess, Kept
<1>17. CASE UNCHANGED vars BY <1>17 DEF vars, Kept
<1> QED
  BY <1>1, <1>2, <1>3, <1>4, <1>5, <1>6, <1>7, <1>8, <1>9, <1>10, <1>11, <1>12, <1>13,
     <1>14, <1>15, <1>16, <1>17 DEF Next
LEMMA ProgressNext == ASSUME RefInv, [Next]_vars PROVE Progress'
<1>0. op.i \in Nat /\ op.first \in Int /\ op.pages \in Nat /\ op.i < op.pages
      /\ op \in [kind : Kinds, first : Pages, pages : 1 .. PageCount, i : Nat,
                 backing : Backings \cup {Absent}]
      /\ \A k \in 0 .. op.i : op.first + k \in Pages
  BY RequestIsPages, TargetIsPage DEF RefInv, Inv, TypeOK, Pages
<1>a. ASSUME UNCHANGED <<op, failed>>, pc' = "free" => pc = "free",
             \A p \in Pages : Visible(p)' = Visible(p)
      PROVE  Progress'
  BY <1>a, <1>0 DEF RefInv, Progress
<1>b. UNCHANGED <<link, pte>> => \A p \in Pages : Visible(p)' = Visible(p)
  BY DEF Visible, Reached
<1>c. ASSUME NEW kind \in {"query", "clear", "none", "undo"}, op'.kind = kind PROVE Progress'
  BY <1>c DEF Progress
<1>1. CASE Find BY <1>1, <1>a, <1>b DEF Find
<1>2. CASE Create BY <1>2, <1>a, CreateInvisible DEF Create, RefInv
<1>3. CASE CreateFails BY <1>3 DEF CreateFails, Progress
<1>4. CASE Link BY <1>4, <1>a, LinkInvisible DEF Link, RefInv
<1>5. CASE Write
  <2> SUFFICES ASSUME ~failed, op.kind \in {"map", "unmap"}, NEW q \in Pages,
                      NEW k \in 0 .. op.i, q = op.first + k, k < op'.i \/ pc' = "free"
               PROVE  Visible(q)' = op.backing
    <3>1. op'.kind = op.kind /\ op'.first = op.first /\ op'.backing = op.backing /\ failed' = failed
      BY <1>5, <1>0 DEF Write, NextPage
    <3>2. \A k \in 0 .. op'.i : k < op'.i \/ pc' = "free" => k \in 0 .. op.i
      BY <1>5, <1>0 DEF Write, NextPage
    <3> QED BY <3>1, <3>2, <1>0 DEF Progress
  <2>1. op.kind = "unmap" => op.i = 0
    BY <1>0 DEF RefInv, Kept
  <2>2. Target = op.first + op.i
    BY <2>1, <1>0 DEF Target
  <2>3. Reached(Target)
    BY <1>5, WriteReaches DEF RefInv, Write
  <2>4. CASE k = op.i
    BY <1>5, <2>2, <2>3, <2>4, WriteVisible DEF RefInv
  <2>5. CASE k < op.i
    <3>1. Visible(q) = op.backing
      BY <2>5, <1>0 DEF RefInv, Progress
    <3>2. q # Target
      BY <2>2, <2>5, <1>0
    <3> QED BY <1>5, <3>1, <3>2, WriteVisible DEF RefInv
  <2> QED BY <2>4, <2>5, <1>0
<1>6. CASE SetMapping
  <2>1. op'.i = 0 /\ pc' = "find"
    BY <1>6 DEF SetMapping, Start
  <2> QED BY <2>1 DEF Progress
<1>7. CASE SetUnmapping
  <2>1. op'.i = 0 /\ pc' = "find"
    BY <1>7 DEF SetUnmapping, Start
  <2> QED BY <2>1 DEF Progress
<1>8. CASE QueryAccessingBitmap
  BY <1>8, <1>c DEF QueryAccessingBitmap, Start
<1>9. CASE ClearAccessingBits
  BY <1>9, <1>c DEF ClearAccessingBits, Start
<1>10. CASE Undo BY <1>10 DEF Undo, Progress
<1>11. CASE Return BY <1>11, <1>c DEF Return, NoOp
<1>12. CASE ClearPage
  <2>1. op'.kind = op.kind /\ op.kind \notin {"map", "unmap"}
    BY <1>12, <1>0 DEF ClearPage, NextPage, RefInv, Kept, Writers
  <2> QED BY <2>1 DEF Progress
<1>13. CASE QueryAbsent
  <2>1. op'.kind = op.kind /\ op.kind \notin {"map", "unmap"}
    BY <1>13 DEF QueryAbsent, RefInv, Kept, Writers
  <2> QED BY <2>1 DEF Progress
<1>14. CASE QueryPage
  <2>1. op'.kind = op.kind /\ op.kind \notin {"map", "unmap"}
    BY <1>14, <1>0 DEF QueryPage, NextPage, RefInv, Kept, Writers
  <2> QED BY <2>1 DEF Progress
<1>15. CASE QuerySpin BY <1>15, <1>a, <1>b DEF QuerySpin, vars
<1>16. CASE GuestAccess BY <1>16, <1>a, <1>b DEF GuestAccess
<1>17. CASE UNCHANGED vars BY <1>17, <1>a, <1>b DEF vars
<1> QED
  BY <1>1, <1>2, <1>3, <1>4, <1>5, <1>6, <1>7, <1>8, <1>9, <1>10, <1>11, <1>12, <1>13,
     <1>14, <1>15, <1>16, <1>17 DEF Next

LEMMA RefInvInit == ASSUME Init PROVE RefInv
<1>1. Complete BY DEF Init, Complete
<1>2. op = NoOp /\ pc = "idle"
  BY DEF Init
<1>3. Kept /\ Progress BY <1>2 DEF Kept, Progress, NoOp, Writers
<1> QED BY <1>1, <1>3, TypeInit, StructureInit DEF RefInv, Inv
LEMMA RefInvCorrect == ASSUME MaxUnmap = 1 PROVE Spec => []RefInv
<1>1. Init => RefInv BY RefInvInit
<1>2. RefInv /\ [Next]_vars => RefInv'
  BY InvNext, CompleteNext, KeptNext, ProgressNext DEF RefInv
<1> QED BY <1>1, <1>2, PTL DEF Spec

\* The initial state maps to the initial state of CvmPageMap.
LEMMA MapInit == ASSUME Init PROVE PageMap!Init
<1>1. op = NoOp /\ marked = {} /\ failed = FALSE /\ \A p \in Pages : pte[p] = Absent
  BY DEF Init
<1>2. \A p \in Pages : Visible(p) = Absent
  BY <1>1 DEF Visible
<1>3. RequestPages = {} BY <1>1 DEF RequestPages, NoOp, Writers
<1> QED BY <1>1, <1>2, <1>3 DEF PageMap!Init, PageMap!Idle
\* Every step maps to a step of CvmPageMap or to a stutter.
LEMMA MapNext ==
  ASSUME RefInv, [Next]_vars PROVE [PageMap!Next]_PageMap!vars
<1> DEFINE map == [p \in Pages |-> Visible(p)]
           request == [p \in RequestPages |-> op.backing]
           Still == UNCHANGED <<map, marked, request, failed>>
<1>0. /\ op.i \in Nat /\ op.first \in Int /\ op.pages \in Nat \ {0} /\ op.i < op.pages
      /\ op \in [kind : Kinds, first : Pages, pages : 1 .. PageCount, i : Nat,
                 backing : Backings \cup {Absent}]
      /\ op.first .. op.first + op.pages - 1 \subseteq Pages
      /\ Target \in op.first .. op.first + op.pages - 1
  BY RequestIsPages DEF RefInv, Inv, TypeOK, Target, Pages
<1>a. ASSUME UNCHANGED <<link, pte>> PROVE map' = map
  BY <1>a DEF Visible, Reached
<1>b. ASSUME op' = op PROVE request' = request
  BY <1>b DEF RequestPages
<1>c. ASSUME op.kind \notin Writers, op'.kind \notin Writers, NEW h, op.backing = h
      PROVE  request = PageMap!Idle /\ request' = PageMap!Idle
  BY <1>c DEF RequestPages, PageMap!Idle
<1>d. ASSUME op.kind \in Writers, op'.kind \in Writers,
             op'.first = op.first, op'.pages = op.pages, op'.backing = op.backing
      PROVE  request' = request
  BY <1>d DEF RequestPages
<1>e. ASSUME op.kind \in Writers
      PROVE  /\ DOMAIN request = op.first .. op.first + op.pages - 1
             /\ op.first \in DOMAIN request /\ request # PageMap!Idle
             /\ \A p \in DOMAIN request : request[p] = op.backing
  <2>1. DOMAIN request = op.first .. op.first + op.pages - 1
    BY <1>e DEF RequestPages
  <2>2. op.first \in op.first .. op.first + op.pages - 1
    BY <1>0
  <2>3. request # PageMap!Idle
    <3>1. DOMAIN PageMap!Idle = {}
      BY DEF PageMap!Idle
    <3> QED BY <2>1, <2>2, <3>1
  <2> QED BY <2>1, <2>2, <2>3
<1>f. ASSUME Still PROVE [PageMap!Next]_PageMap!vars
  BY <1>f DEF PageMap!vars
<1>g. ASSUME NEW where, NEW end, NextPage(where, end)
      PROVE  /\ op'.kind = op.kind /\ op'.first = op.first
             /\ op'.pages = op.pages /\ op'.backing = op.backing
  BY <1>0, <1>g DEF NextPage
<1> SUFFICES \/ PageMap!Next \/ Still
  BY <1>f
<1>1. CASE Find BY <1>1, <1>a, <1>b DEF Find
<1>2. CASE Create
  <2>1. map' = map BY <1>2, CreateInvisible DEF RefInv
  <2> QED BY <1>2, <2>1, <1>b DEF Create
<1>3. CASE CreateFails
  <2>1. op.kind \in Writers
    BY <1>3 DEF CreateFails, RefInv, Kept
  <2>2. op'.kind \in Writers /\ op'.first = op.first /\ op'.pages = op.pages /\ op'.backing = op.backing
    BY <1>3, <1>0, <2>1 DEF CreateFails, Writers
  <2>3. request' = request BY <1>d, <2>1, <2>2
  <2>4. map' = map BY <1>3, <1>a DEF CreateFails
  <2>5. PageMap!Degrade
    BY <1>3, <1>e, <2>1, <2>3, <2>4 DEF CreateFails, PageMap!Degrade
  <2> QED BY <2>5 DEF PageMap!Next
<1>4. CASE Link
  <2>1. map' = map BY <1>4, LinkInvisible DEF RefInv
  <2> QED BY <1>4, <2>1, <1>b DEF Link
<1>5. CASE Write
  <2>1. op.kind \in Writers /\ NextPage("find", "free")
    BY <1>5 DEF Write, RefInv, Kept
  <2>2. request' = request BY <1>d, <1>g, <2>1
  <2>3. Target \in DOMAIN request /\ Target \in Pages /\ request[Target] = op.backing
    BY <1>0, <1>e, <2>1
  <2>4. PICK h \in {op.backing} \cup (IF failed THEN {Absent} ELSE {}) :
          map' = [map EXCEPT ![Target] = h]
    <3> DEFINE h == IF Reached(Target) THEN (IF op.kind = "undo" THEN Absent ELSE op.backing) ELSE Absent
    <3>1. map' = [map EXCEPT ![Target] = h]
      BY <1>5, <2>3, WriteVisible DEF RefInv
    <3>2. ~failed => Reached(Target) /\ op.kind # "undo"
      BY <1>5, WriteReaches DEF RefInv, Kept, Write
    <3> QED BY <3>1, <3>2
  <2>5. marked' = marked \ {Target} /\ failed' = failed
    BY <1>5 DEF Write
  <2>6. PageMap!Assign
    BY <2>2, <2>3, <2>4, <2>5 DEF PageMap!Assign
  <2> QED BY <2>6 DEF PageMap!Next
<1>6. CASE SetMapping
  <2>1. PICK first \in Pages, n \in 1 .. MaxMap, h \in Backings :
          /\ first + n <= PageCount
          /\ op' = [kind |-> "map", first |-> first, pages |-> n, i |-> 0, backing |-> h]
    BY <1>6 DEF SetMapping, Start
  <2>2. op'.kind = "map" /\ op'.first = first /\ op'.pages = n /\ op'.backing = h
    BY <2>1
  <2>3. first .. first + n - 1 \subseteq Pages /\ first \in first .. first + n - 1
    BY <2>1, PagesAssumption, BoundAssumption DEF Pages
  <2>4. request = PageMap!Idle
    BY <1>6 DEF SetMapping, Start, RefInv, Kept, NoOp, RequestPages, Writers, PageMap!Idle
  <2>5. request' = [p \in first .. first + n - 1 |-> h]
    BY <2>2 DEF RequestPages, Writers
  <2>6. map' = map /\ marked' = marked /\ failed' = failed
    BY <1>6, <1>a DEF SetMapping
  <2>7. PageMap!Begin
    BY <2>3, <2>4, <2>5, <2>6 DEF PageMap!Begin
  <2> QED BY <2>7 DEF PageMap!Next
<1>7. CASE SetUnmapping
  <2>1. PICK first \in Pages, n \in 1 .. MaxUnmap, h \in {Absent} :
          /\ first + n <= PageCount
          /\ op' = [kind |-> "unmap", first |-> first, pages |-> n, i |-> 0, backing |-> h]
    BY <1>7 DEF SetUnmapping, Start
  <2>2. op'.kind = "unmap" /\ op'.first = first /\ op'.pages = n /\ op'.backing = h
    BY <2>1
  <2>3. first .. first + n - 1 \subseteq Pages /\ first \in first .. first + n - 1
    BY <2>1, PagesAssumption, BoundAssumption DEF Pages
  <2>4. request = PageMap!Idle
    BY <1>7 DEF SetUnmapping, Start, RefInv, Kept, NoOp, RequestPages, Writers, PageMap!Idle
  <2>5. request' = [p \in first .. first + n - 1 |-> h]
    BY <2>2 DEF RequestPages, Writers
  <2>6. map' = map /\ marked' = marked /\ failed' = failed
    BY <1>7, <1>a DEF SetUnmapping
  <2>7. PageMap!Begin
    BY <2>3, <2>4, <2>5, <2>6 DEF PageMap!Begin
  <2> QED BY <2>7 DEF PageMap!Next
<1>8. CASE QueryAccessingBitmap
  <2>1. op.kind \notin Writers /\ op'.kind \notin Writers
    BY <1>8 DEF QueryAccessingBitmap, Start, RefInv, Kept, NoOp, Writers
  <2> QED BY <1>8, <1>a, <1>c, <2>1 DEF QueryAccessingBitmap
<1>9. CASE ClearAccessingBits
  <2>1. op.kind \notin Writers /\ op'.kind \notin Writers
    BY <1>9 DEF ClearAccessingBits, Start, RefInv, Kept, NoOp, Writers
  <2> QED BY <1>9, <1>a, <1>c, <2>1 DEF ClearAccessingBits
<1>10. CASE Undo BY <1>10, <1>a, <1>b DEF Undo
<1>11. CASE Return
  <2>1. op'.kind \notin Writers /\ request' = PageMap!Idle
    BY <1>11 DEF Return, NoOp, Writers, RequestPages, PageMap!Idle
  <2>2. map' = map /\ marked' = marked /\ failed' = failed
    BY <1>11, <1>a DEF Return
  <2>3. CASE op.kind \notin Writers BY <1>c, <2>1, <2>2, <2>3
  <2>4. CASE op.kind \in Writers
    <3>1. failed \/ \A p \in DOMAIN request : map[p] = request[p]
      <4> SUFFICES ASSUME ~failed, NEW p \in op.first .. op.first + op.pages - 1
                   PROVE  Visible(p) = op.backing
        BY <1>0, <1>e, <2>4
      <4>1. op.kind \in {"map", "unmap"} /\ pc = "free"
        BY <1>11, <2>4 DEF Return, RefInv, Kept, Writers
      <4>2. op.i + 1 = op.pages
        BY <4>1, <1>0 DEF RefInv, Kept
      <4>3. \A k \in 0 .. op.i : Visible(op.first + k) = op.backing
        BY <4>1 DEF RefInv, Progress
      <4>4. p - op.first \in 0 .. op.i /\ op.first + (p - op.first) = p
        BY <4>2, <1>0
      <4> QED BY <4>3, <4>4
    <3>2. PageMap!End
      BY <3>1, <2>1, <2>2, <2>4, <1>e DEF PageMap!End
    <3> QED BY <3>2 DEF PageMap!Next
  <2> QED BY <2>3, <2>4
<1>12. CASE ClearPage
  <2>1. op.kind \notin Writers /\ op'.kind \notin Writers
    BY <1>12, <1>g DEF ClearPage, RefInv, Kept
  <2>2. request' = request /\ map' = map /\ failed' = failed
    BY <1>12, <1>a, <1>c, <2>1 DEF ClearPage
  <2>3. CASE SearchFinds(Target)
    <3>1. Visible(Target) # Absent
      BY <1>12, <1>0, <2>3, SearchMatchesWalk DEF ClearPage, RefInv
    <3>2. Target \in Pages /\ marked' = marked \ {Target}
      BY <1>12, <1>0, <2>3 DEF ClearPage
    <3>3. PageMap!Clear
      BY <2>2, <3>1, <3>2 DEF PageMap!Clear
    <3> QED BY <3>3 DEF PageMap!Next
  <2>4. CASE ~SearchFinds(Target) BY <1>12, <2>2, <2>4 DEF ClearPage
  <2> QED BY <2>3, <2>4
<1>13. CASE QueryAbsent BY <1>13, <1>a, <1>b DEF QueryAbsent
<1>14. CASE QueryPage
  <2>1. op.kind \notin Writers /\ op'.kind \notin Writers
    BY <1>14, <1>g DEF QueryPage, RefInv, Kept
  <2> QED BY <1>14, <1>a, <1>c, <2>1 DEF QueryPage
<1>15. CASE QuerySpin BY <1>15, <1>a, <1>b DEF QuerySpin, vars
<1>16. CASE GuestAccess
  <2>1. request' = request /\ map' = map /\ failed' = failed
    BY <1>16, <1>a, <1>b DEF GuestAccess
  <2>2. PageMap!Access
    BY <1>16, <2>1 DEF GuestAccess, PageMap!Access
  <2> QED BY <2>2 DEF PageMap!Next
<1>17. CASE UNCHANGED vars BY <1>17, <1>a, <1>b DEF vars
<1> QED
  BY <1>1, <1>2, <1>3, <1>4, <1>5, <1>6, <1>7, <1>8, <1>9, <1>10, <1>11, <1>12, <1>13,
     <1>14, <1>15, <1>16, <1>17 DEF Next

\* For hosts that unmap pages one by one, the nested page tables implement the
\* page map that the interface promises (nvc_set_mapping and the accessing
\* bits), for any number of pages and with any allocation failing.
THEOREM PageMapCorrect == ASSUME MaxUnmap = 1 PROVE Spec => PageMapImplemented
<1>1. Init => PageMap!Init BY MapInit
<1>2. RefInv /\ [Next]_vars => [PageMap!Next]_PageMap!vars BY MapNext
<1>3. Spec => []RefInv BY RefInvCorrect
<1> QED BY <1>1, <1>2, <1>3, PTL DEF Spec, PageMapImplemented, PageMap!Spec
==============================================================================
