------------------------- MODULE MCCentralRequests -------------------------
(* Instances of CentralRequests for TLC. *)
EXTENDS CentralRequests, TLC

MCHomeOf == [e \in Endpoint |-> IF e = "s2:1" THEN "s2" ELSE "s1"]

(* The threads are interchangeable. *)
Symmetry == Permutations(Worker)
=============================================================================
