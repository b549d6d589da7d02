------------------------- MODULE MCStationRegistry -------------------------
(* Instances of StationRegistry for TLC. *)
EXTENDS StationRegistry

(* Station s1 has two endpoints, so that it can reconnect before the server *)
(* sees the old connection close; s2 has one.                              *)
MCHomeOf == [e \in Endpoint |-> IF e = "s2:1" THEN "s2" ELSE "s1"]
=============================================================================
