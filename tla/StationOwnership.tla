-------------------------- MODULE StationOwnership --------------------------
(***************************************************************************)
(* What the station registry promises its clients, without messages,       *)
(* connections or clocks: every charge station has at most one owner, an   *)
(* owned station must be released before another client gets it, and only  *)
(* the owner gives a station a charging profile.                           *)
(***************************************************************************)
EXTENDS Naturals

CONSTANTS Sern, Client, MaxProf

VARIABLES
    owner,      \* the client of each station, 0 for none
    profile     \* the charging profile of each station, 0 for none

vars == <<owner, profile>>

Init ==
    /\ owner = [s \in Sern |-> 0]
    /\ profile = [s \in Sern |-> 0]

Claim(s, c) ==
    /\ owner[s] = 0
    /\ owner' = [owner EXCEPT ![s] = c]
    /\ UNCHANGED profile

Release(s) ==
    /\ owner' = [owner EXCEPT ![s] = 0]
    /\ UNCHANGED profile

Assign(c, S, p) ==
    /\ S \subseteq {s \in Sern : owner[s] = c}
    /\ profile' = [s \in Sern |-> IF s \in S THEN p ELSE profile[s]]
    /\ UNCHANGED owner

Unassign(s) ==
    /\ profile' = [profile EXCEPT ![s] = 0]
    /\ UNCHANGED owner

Next ==
    \/ \E s \in Sern, c \in Client : Claim(s, c)
    \/ \E s \in Sern : Release(s) \/ Unassign(s)
    \/ \E c \in Client, S \in SUBSET Sern, p \in 1..MaxProf : Assign(c, S, p)

Spec == Init /\ [][Next]_vars
=============================================================================
