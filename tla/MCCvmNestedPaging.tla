-------------------------- MODULE MCCvmNestedPaging --------------------------
(* Instances of CvmNestedPaging for TLC: four pages, two of one 2MiB region, *)
(* one of another 2MiB region and one of another 1GiB region.                *)
EXTENDS CvmNestedPaging, TLC

Regions3 == 0 .. 2
BaseOfFour == <<[p \in 0 .. 3 |-> IF p < 2 THEN 0 ELSE p - 1],
                [p \in 0 .. 3 |-> IF p < 3 THEN 0 ELSE 1],
                [p \in 0 .. 3 |-> 0]>>
==============================================================================
