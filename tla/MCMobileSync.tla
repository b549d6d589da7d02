---------------------------- MODULE MCMobileSync ----------------------------
(* Instances of MobileSync for TLC. *)
EXTENDS MobileSync

MCHomeOf == [e \in Endpoint |-> "s1"]

(* The mobiles are of the first client. *)
MCClientOf == [m \in Mobile |-> 1]
=============================================================================
