----------------------------- MODULE MobileSync -----------------------------
(***************************************************************************)
(* The station registry together with the mobiles that show it.  A mobile  *)
(* asks for the whole list of its client's stations (request               *)
(* GetChargeStationsFromDB_Mob of TCPLRequest.cpp), and its heartbeat       *)
(* (process_hb) brings the rows flagged UpdMob since the last one.  The    *)
(* server clears the flags before it writes the answer to the socket, and  *)
(* a mobile that lost its connection never gets that answer.               *)
(*                                                                         *)
(* A client may have several mobiles; they share one flag per row, so the  *)
(* heartbeat of one clears the flags of all.  A mobile has one request open *)
(* at a time.  The mobile itself is external: it replaces its list by a     *)
(* full one and merges the rows of a heartbeat answer into it.             *)
(***************************************************************************)
EXTENDS StationRegistry

CONSTANTS
    Mobile,   \* mobiles
    ClientOf  \* the client that a mobile belongs to

ASSUME ClientOfType == ClientOf \in [Mobile -> Client]

VARIABLES
    mob,      \* what each mobile shows of each station
    net,      \* the answer on its way to each mobile
    missed    \* history: the stations of which the server has dropped news
              \* for a mobile: in a lost answer, in an answer to another
              \* mobile of its client, or by a release

mobVars == <<mob, net, missed>>

(* What an item of the list says of a station, and the part of it whose     *)
(* changes are flagged by the handlers that make them.                     *)
Item(r) == [Status |-> r.Status, ObjB |-> r.ObjB, ProfID |-> r.ProfID,
            TZ |-> r.TZ]
Flagged(i) == <<i.ObjB, i.ProfID, i.TZ>>

Items == [Status : 0..1, ObjB : CpState \cup {NoState}, ProfID : 0..MaxProf,
          TZ : Zone \cup {0}]

Lists == UNION {[S -> Items] : S \in SUBSET Sern}

EmptyList == [s \in {} |-> 0]
NoAnswer == [kind |-> "none", items |-> EmptyList, owed |-> {}]

SyncTypeOK ==
    /\ mob \in [Mobile -> Lists]
    /\ net \in [Mobile -> [kind : {"none", "full", "changes"}, items : Lists,
                           owed : SUBSET Sern]]
    /\ missed \in [Mobile -> SUBSET Sern]

SyncInit ==
    /\ Init
    /\ mob = [m \in Mobile |-> EmptyList]
    /\ net = [m \in Mobile |-> NoAnswer]
    /\ missed = [m \in Mobile |-> {}]

(* Steps of the registry that none of these mobiles takes part in: clients  *)
(* without one have mobiles that are not followed.  A release is recorded:  *)
(* the heartbeats of the old owner's mobiles are not told of it.           *)
Elsewhere ==
    /\ \/ \E s \in Sern : StationMessage(s)
       \/ \E cid \in Client : WebRequest(cid)
       \/ Tick
       \/ ListStations
       \/ \E c \in Client \ {ClientOf[m] : m \in Mobile} : process_hb(c)
    /\ missed' = [m \in Mobile |-> missed[m] \cup
                     (OwnedBy(cs, ClientOf[m]) \ OwnedBy(cs', ClientOf[m]))]
    /\ UNCHANGED <<mob, net>>

(* The answer that is built from rows of the table.                         *)
AnswerOfRows(kind, table, rows, owed) ==                            \* mutant
    [kind |-> kind, items |-> [s \in rows |-> table[s]], owed |-> owed]
Answer(kind, table, rows, owed) ==
    [kind |-> kind, items |-> [s \in rows |-> Item(table[s])], owed |-> owed]

(* With no row read and none updated the answer is "NOT", without a list;   *)
(* it leaves the mobile as it is and is not modelled as a message.         *)
GetChargeStationsFromDB_Mob(m) ==
    LET own == OwnedBy(cs, ClientOf[m]) IN
    /\ net[m].kind = "none"
    /\ ListStations
    /\ own # {} \/ StaleRows(cs, now, 2 * TicksPerMinute) # {}
    /\ net' = [net EXCEPT ![m] = Answer("full", cs', own, missed[m] \cap own)]
    /\ missed' = [missed EXCEPT ![m] = @ \ own]
    /\ UNCHANGED mob

(* The flags are cleared for every mobile of the client, and only this one  *)
(* gets the rows.                                                          *)
MobileHeartbeat(m) ==
    LET news == FlaggedRows(cs, ClientOf[m]) IN
    /\ net[m].kind = "none"
    /\ process_hb(ClientOf[m])
    /\ net' = [net EXCEPT ![m] = Answer("changes", cs, news, news)]
    /\ missed' = [n \in Mobile |->
                    IF n = m THEN missed[n] \ news
                    ELSE IF ClientOf[n] = ClientOf[m] THEN missed[n] \cup news
                    ELSE missed[n]]
    /\ UNCHANGED mob

Merged(new, old) ==
    [s \in DOMAIN new \cup DOMAIN old |-> IF s \in DOMAIN new THEN new[s] ELSE old[s]]

(* The mobile receives the answer (external).                              *)
Deliver(m) ==
    /\ net[m].kind # "none"
    /\ mob' = [mob EXCEPT ![m] = IF net[m].kind = "full"
                                    THEN net[m].items
                                    ELSE Merged(net[m].items, @)]
    /\ net' = [net EXCEPT ![m] = NoAnswer]
    /\ UNCHANGED <<vars, missed>>

(* sendResponse writes to a socket whose other end is gone.                *)
Lose(m) ==
    /\ net[m].kind # "none"
    /\ missed' = [missed EXCEPT ![m] = @ \cup net[m].owed]
    /\ net' = [net EXCEPT ![m] = NoAnswer]
    /\ UNCHANGED <<vars, mob>>

MobileStep(m) ==
    \/ GetChargeStationsFromDB_Mob(m)
    \/ MobileHeartbeat(m)
    \/ Deliver(m)
    \/ Lose(m)

SyncNext == Elsewhere \/ \E m \in Mobile : MobileStep(m)

syncVars == <<vars, mobVars>>

SyncSpec == SyncInit /\ [][SyncNext]_syncVars

(* A mobile sends its heartbeat periodically, and an answer arrives or is   *)
(* lost.                                                                   *)
Fairness ==
    \A m \in Mobile :
        /\ WF_syncVars(MobileHeartbeat(m))
        /\ WF_syncVars(Deliver(m) \/ Lose(m))

FairSyncSpec == SyncSpec /\ Fairness

-----------------------------------------------------------------------------
(* Properties *)

Behind(m, s, View(_)) ==
    /\ s \in DOMAIN mob[m]
    /\ s \in OwnedBy(cs, ClientOf[m])
    /\ View(mob[m][s]) # View(Item(cs[s]))

Coming(m, s) ==
    \/ cs[s].UpdMob
    \/ s \in DOMAIN net[m].items
    \/ s \in missed[m]

(* "UpdMob=1 -> to update CSs list on mobile": when a mobile of the owner   *)
(* shows an old charge point state, profile or time zone of a station, the  *)
(* row is flagged for the next heartbeat, or is on its way, or an answer    *)
(* was lost, or another mobile of the client took the news, or the station  *)
(* changed hands.  In particular no flag that a handler sets between the    *)
(* read of the rows and the clearing of the flags, or while an older answer *)
(* is on its way, is forgotten.                                            *)
StaleOnlyIfMissed ==
    \A m \in Mobile, s \in Sern : Behind(m, s, Flagged) => Coming(m, s)

(* The same for the whole item, the connection status included.            *)
StatusStaleOnlyIfMissed ==
    LET Whole(i) == i IN
    \A m \in Mobile, s \in Sern : Behind(m, s, Whole) => Coming(m, s)

(* Once the stations and the web page are quiet and no more answers are     *)
(* lost, every mobile ends up with the current state of the stations of     *)
(* which no news was lost before, or went to another mobile.               *)
MobileCatchesUp ==
    <>[][\E m \in Mobile : \/ GetChargeStationsFromDB_Mob(m)
                           \/ MobileHeartbeat(m)
                           \/ Deliver(m)]_syncVars =>
        <>[](\A m \in Mobile, s \in Sern :
                Behind(m, s, Flagged) => s \in missed[m])
=============================================================================
