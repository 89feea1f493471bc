--------------------------- MODULE MCCvmLifetime ---------------------------
(* Bounds for CvmLifetime: two processes, the first with two threads; two    *)
(* CVMs and tables of one handle, so that addresses, handles and slots are   *)
(* reused and a second table of handles is made; two slots of HaxVmList;     *)
(* counts that wrap around at 4.                                             *)
EXTENDS CvmLifetime, TLC

CONSTANTS t1, t2, t3, p1, p2

OwnerOfTwo == t1 :> p1 @@ t3 :> p2
OwnerOfThree == OwnerOfTwo @@ t2 :> p1
Symmetry == Permutations(VMs) \cup Permutations({t1, t2})

\* Once a count has wrapped around the properties promise nothing: such
\* behaviours are followed to the end of the close, which is undisturbed.
Bound ==
  wrapped => \E t \in Threads : /\ pc[t] \in ClosePcs
                                /\ \A u \in Threads \ {t} : pc[u] = "idle"
============================================================================
