-------------------------- MODULE TransactionLedger --------------------------
(***************************************************************************)
(* What the charging history promises of transactions, without messages,   *)
(* statements, history rows or faults.  Transactions are numbered upwards  *)
(* and stay on record.  A number is given at most once, to the station it  *)
(* was recorded for, and a station's charging sessions get theirs in turn. *)
(* Meter values and stops are recorded of given transactions only, and no  *)
(* meter values after a stop.                                              *)
(***************************************************************************)
EXTENDS Naturals

CONSTANTS Sern, MaxSession

VARIABLES
    recorded,   \* the station of each transaction on record
    given,      \* the transactions given to sessions
    sampled,    \* the transactions with meter values
    stopped     \* the transactions with a stop

vars == <<recorded, given, sampled, stopped>>

Init ==
    /\ recorded = [id \in {} |-> 0]
    /\ given = {}
    /\ sampled = {}
    /\ stopped = {}

NewId ==
    {id \in {1} \cup {i + 1 : i \in DOMAIN recorded} : \A i \in DOMAIN recorded : i < id}
Given == {x.id : x \in given}

Record(s) ==
    /\ \E id \in NewId :
          recorded' = [i \in DOMAIN recorded \cup {id} |->
                         IF i = id THEN s ELSE recorded[i]]
    /\ UNCHANGED <<given, sampled, stopped>>

Give(id, n) ==
    /\ \A x \in given : x.id # id /\ (x.sern = recorded[id] => x.n < n)
    /\ given' = given \cup {[id |-> id, sern |-> recorded[id], n |-> n]}
    /\ UNCHANGED <<recorded, sampled, stopped>>

Sample(id) ==
    /\ id \notin stopped
    /\ sampled' = sampled \cup {id}
    /\ UNCHANGED <<recorded, given, stopped>>

Stop(id) ==
    /\ stopped' = stopped \cup {id}
    /\ UNCHANGED <<recorded, given, sampled>>

Next ==
    \/ \E s \in Sern : Record(s)
    \/ \E id \in DOMAIN recorded, n \in 1..MaxSession : Give(id, n)
    \/ \E id \in Given : Sample(id) \/ Stop(id)

Spec == Init /\ [][Next]_vars
=============================================================================
