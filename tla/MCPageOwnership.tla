-------------------------- MODULE MCPageOwnership --------------------------
(* Bounds for PageOwnership: one region of 1GiB with two of 2MiB; pages the  *)
(* driver allocates in both, so that a table may describe the region it is   *)
(* in; a page 0 and a page of data.                                          *)
EXTENDS PageOwnership, TLC

CONSTANTS g1, m1, m2, d0, d1, f1, f2, f3

GigaOfAll == [p \in Pages |-> g1]
MegaOfPages == [p \in Pages |-> IF p \in {d0, d1, f1, f2} THEN m1 ELSE m2]
Symmetry == Permutations(Threads) \cup Permutations(VMs) \cup Permutations({f1, f2})
============================================================================
