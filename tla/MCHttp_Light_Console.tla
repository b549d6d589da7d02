------------------------ MODULE MCHttp_Light_Console ------------------------
(* Instances of Http_Light_Console for TLC. *)
EXTENDS Http_Light_Console
=============================================================================
