----------------------------- MODULE CvmPageMap -----------------------------
(* What the memory interface of a CVM promises: guest pages are mapped to    *)
(* host memory one request at a time, a request changes no other page, and   *)
(* the guest's accesses leave marks (accessed and dirty) that stay until     *)
(* they are cleared or the page is mapped anew.  Once an allocation has      *)
(* failed, a request may end with any of its pages unmapped or unchanged.    *)
CONSTANTS Pages,    \* guest physical pages
          Backings, \* host memory a page can be mapped to
          Absent    \* the value of a page that is not mapped

VARIABLES map,      \* what the guest sees at each page
          marked,   \* pages accessed since their marks were last cleared
          request,  \* new values of the pages of the current request
          degraded  \* an allocation has failed

vars == <<map, marked, request, degraded>>

\* The empty request: no request is being carried out.
Idle == [p \in {} |-> Absent]

Init ==
  /\ map = [p \in Pages |-> Absent]
  /\ marked = {}
  /\ request = Idle
  /\ degraded = FALSE

Begin ==
  /\ request = Idle
  /\ \E D \in SUBSET Pages : \E h \in Backings \cup {Absent} :
       D # {} /\ request' = [p \in D |-> h]
  /\ UNCHANGED <<map, marked, degraded>>

Assign ==
  /\ \E p \in DOMAIN request :
       /\ \E h \in {request[p]} \cup (IF degraded THEN {Absent} ELSE {}) :
            map' = [map EXCEPT ![p] = h]
       /\ marked' = marked \ {p}
  /\ UNCHANGED <<request, degraded>>

Degrade ==
  /\ request # Idle
  /\ degraded' = TRUE
  /\ UNCHANGED <<map, marked, request>>

End ==
  /\ request # Idle
  /\ degraded \/ \A p \in DOMAIN request : map[p] = request[p]
  /\ request' = Idle
  /\ UNCHANGED <<map, marked, degraded>>

Access ==
  /\ \E p \in Pages : map[p] # Absent /\ marked' = marked \cup {p}
  /\ UNCHANGED <<map, request, degraded>>

Clear ==
  /\ \E p \in Pages : map[p] # Absent /\ marked' = marked \ {p}
  /\ UNCHANGED <<map, request, degraded>>

Next == Begin \/ Assign \/ Degrade \/ End \/ Access \/ Clear
Spec == Init /\ [][Next]_vars
==============================================================================
