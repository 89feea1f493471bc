------------------------------ MODULE MCVtExits ------------------------------
(* VtExits on a small instance: four regions of two pages, two MTRRs.       *)
EXTENDS VtExits, TLC

CONSTANTS a, b

MCMtrrs ==
  {Off} \cup [type : {UC, WT}, unit : {"page"}, at : {4}]
        \cup [type : {WT}, unit : {"region"}, at : {2}]

\* The parts that do not touch each other depart from their start one at a time.
NestedMoved == vmxe \/ vmcs_c # None \/ vmxon_phys # None
VarMoved == mtrr.var # [i \in 1 .. Count |-> Off]
MtrrMoved == VarMoved \/ mtrr.fixed # WB
PagingMoved == ~ pg \/ cr3 # "kernel"
HooksMoved == mtf \/ \E p \in Hooked : ept.pt[p].perms # {"x"}

AreaSymmetry == Permutations({a, b})

Focus ==
  /\ NestedMoved \/ abandoned \/ ~ ept.def.enabled => ~ MtrrMoved
  /\ NestedMoved \/ ~ ept.def.enabled => ~ HooksMoved /\ tlb = <<>>
  /\ NestedMoved => ~ cd /\ cr3 = "kernel"
  /\ PagingMoved => ~ MtrrMoved /\ ~ HooksMoved
  /\ MtrrMoved \/ PagingMoved => Cardinality(DOMAIN tlb) <= 1
  /\ ~ (VarMoved /\ mtrr.fixed # WB)
=============================================================================
