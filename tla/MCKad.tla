------------------------------- MODULE MCKad -------------------------------
(* Instances of Kad for TLC: identifiers of three bits in bytes of two.     *)
EXTENDS Kad

CONSTANTS a1, a2, a3

Id(p, q, r) == <<p, q, r>>
MCSelf == Id(0, 0, 0)
MCDrawn == Ids \ {Self}
MCTargets == {Id(1, 0, 0)}
\* a1 keeps its identifier, a2 comes with one of a1's bucket
MCContacts == {<<a1, Id(1, 0, 0)>>, <<a2, Id(1, 0, 1)>>}
\* A state file has contacts, one that answered and one that was heard of, or
\* the addresses of seeds.
MCSaved ==
  {[k \in (IF known THEN {a1, a2} ELSE {a1, a2, a3}) \X {1} |->
      [addr |-> k[1], hello |-> known /\ k[1] = a1, pinged |-> known /\ k[1] = a1,
       id |-> CASE ~known -> NoId [] k[1] = a1 -> Id(1, 0, 0) [] OTHER -> Id(0, 1, 0),
       fails |-> 0]] : known \in BOOLEAN}
============================================================================
