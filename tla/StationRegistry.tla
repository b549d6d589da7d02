-------------------------- MODULE StationRegistry --------------------------
(***************************************************************************)
(* The registry of charge stations: the tables of CentralOcppDB, the web   *)
(* socket connections of telemetry_server, and every handler that changes  *)
(* a table - the OCPP messages of mkr_ocpp.cpp, the connection handlers,   *)
(* and the requests of the web page and of the mobile.                     *)
(*                                                                         *)
(* The server has one thread for the web sockets, a pool for the web page  *)
(* and one thread per mobile request.  Each handler below makes one call   *)
(* to CentralOcppDB, which runs under the database mutex, so a handler is  *)
(* one action and the interleaving of the threads is that of the actions.  *)
(*                                                                         *)
(* The stations are the environment.  HomeOf says which station uses an    *)
(* endpoint: "ip:port" strings are taken not to be reused by another       *)
(* station.  A station sends its own serial number, and unique ids that    *)
(* begin with it or that are too short to hold one.                        *)
(***************************************************************************)
EXTENDS CentralOcppDB, Integers

CONSTANTS
    NoSern,           \* what a short unique id says of the sender
    HomeOf,           \* the station behind each endpoint
    BootHasFw,        \* does a BootNotification carry firmwareVersion?
    WebCert,          \* CertFlag values the web page sends
    TicksPerMinute,   \* granularity of the clock
    MaxTime           \* bound on the clock

ASSUME NoSernAssumption == NoSern \notin Sern
ASSUME HomeOfAssumption == HomeOf \in [Endpoint -> Sern]
ASSUME BootHasFwAssumption == BootHasFw \subseteq BOOLEAN
ASSUME WebCertAssumption == WebCert \subseteq 0..7
ASSUME TicksAssumption == TicksPerMinute \in Nat \ {0}
ASSUME MaxTimeAssumption == MaxTime \in Nat

VARIABLES
    cs,             \* CH_STATIONS
    prof,           \* CSProfTbl: the client that saved each profile, or 0
    m_connections,  \* endpoints with an open web socket
    now,            \* the server's clock
    reply,          \* what each station's last BootNotification was answered
    last            \* history: when a station's boot or heartbeat last took
                    \* effect, and the public-use flag of its last boot

vars == <<cs, prof, m_connections, now, reply, last>>

TypeOK ==
    /\ cs \in [Sern -> Row]
    /\ prof \in [1..MaxProf -> Client \cup {0}]
    /\ m_connections \subseteq Endpoint
    /\ now \in Nat
    /\ reply \in [Sern -> {"none", "Accepted", "Rejected"}]
    /\ last \in [Sern -> [heard : Nat, pub : BOOLEAN]]

Init ==
    /\ cs = CreateChargeStationsTable
    /\ prof = [i \in 1..MaxProf |-> 0]
    /\ m_connections = {}
    /\ now = 0
    /\ reply = [s \in Sern |-> "none"]
    /\ last = [s \in Sern |-> [heard |-> 0, pub |-> FALSE]]

Tick ==
    /\ now < MaxTime
    /\ now' = now + 1
    /\ UNCHANGED <<cs, prof, m_connections, reply, last>>

(* The interval, in the answer to a BootNotification, between heartbeats.   *)
HeartbeatInterval == TicksPerMinute

-----------------------------------------------------------------------------
(* Connections *)

on_open(e) ==
    /\ e \notin m_connections
    /\ cs' = UpdateChargeStationStatus(cs, e, 1)
    /\ m_connections' = m_connections \cup {e}
    /\ UNCHANGED <<prof, now, reply, last>>

on_close(e) ==
    /\ e \in m_connections
    /\ cs' = UpdateChargeStationStatus(cs, e, 0)
    /\ m_connections' = m_connections \ {e}
    /\ UNCHANGED <<prof, now, reply, last>>

-----------------------------------------------------------------------------
(* OCPP messages *)

(* The answer depends on the history row, which is written whenever the     *)
(* update of CH_STATIONS touched a row, whichever row that was.            *)
BootNotification(e, hasFw, pub) ==
    LET s == HomeOf[e] IN
    /\ e \in m_connections
    /\ cs' = updateIPAddrFromOcppMessage2DB(cs, s, e, hasFw, pub, now)
    /\ reply' = [reply EXCEPT ![s] = IF BootRows(cs, s, hasFw) # {}
                                     THEN "Accepted" ELSE "Rejected"]
    /\ last' = IF cs[s].stored
               THEN [last EXCEPT ![s] = [heard |-> now, pub |-> pub]]
               ELSE last
    /\ UNCHANGED <<prof, m_connections, now>>

Heartbeat(e, sern) ==
    /\ e \in m_connections
    /\ cs' = UpdateOcppHBRequestMessage2DB(cs, sern, now)
    /\ last' = IF sern \in Stored(cs)
               THEN [last EXCEPT ![sern].heard = now]
               ELSE last
    /\ UNCHANGED <<prof, m_connections, now, reply>>

StatusNotification(e, sern, st) ==
    /\ e \in m_connections
    /\ cs' = updateCSObjBFromOcppMessage2DB(cs, sern, st, now)
    /\ UNCHANGED <<prof, m_connections, now, reply, last>>

FirmwareStatusNotification(e, sern, st) ==
    /\ e \in m_connections
    /\ cs' = updateCSFWUpdateFromOcppMessage2DB(cs, sern, st)
    /\ UNCHANGED <<prof, m_connections, now, reply, last>>

(* The station confirms the time zone the web page sent it; the serial      *)
(* number comes with the confirmation.                                     *)
DataTransferConf(e, tz) ==
    /\ e \in m_connections
    /\ cs' = UpdateCSTimeZone(cs, HomeOf[e], tz)
    /\ UNCHANGED <<prof, m_connections, now, reply, last>>

StationMessage(s) ==
    \E e \in Endpoint :
        /\ HomeOf[e] = s
        /\ \/ on_open(e)
           \/ on_close(e)
           \/ \E fw \in BootHasFw, pub \in BOOLEAN : BootNotification(e, fw, pub)
           \/ \E sern \in {s, NoSern} :
                 \/ Heartbeat(e, sern)
                 \/ \E st \in CpState : StatusNotification(e, sern, st)
                 \/ \E st \in FwState : FirmwareStatusNotification(e, sern, st)
           \/ \E tz \in Zone : DataTransferConf(e, tz)

-----------------------------------------------------------------------------
(* Requests of the web page and of the mobile *)

InsertChargeStation(s, cid, cert) ==
    /\ cs' = InsertNewChargeStationItem(cs, s, cid, cert)
    /\ UNCHANGED <<prof, m_connections, now, reply, last>>

(* The client that asks is not compared with the owner.                    *)
DeleteStation(s, cid) ==
    /\ cs' = DeleteChargeStation(cs, s)
    /\ UNCHANGED <<prof, m_connections, now, reply, last>>

(* Saving a profile under an id assigns it to the named stations even when *)
(* no profile has that id.                                                 *)
SaveProfile(cid, pid, serns) ==
    /\ prof' = [i \in 1..MaxProf |-> IF i = pid /\ prof[i] # 0
                                     THEN cid ELSE prof[i]]
    /\ cs' = UpdateCSStationsWithProfile(cs, pid, cid, serns)
    /\ UNCHANGED <<m_connections, now, reply, last>>

NewProfile(cid, pid) ==
    \E id \in 0..MaxProf :
        LET rv == IF id = 0 /\ pid = -1 THEN 1 ELSE id IN
        /\ getCSProfileID(prof, id)
        /\ rv > 0
        /\ rv < MaxProf
        /\ prof' = [prof EXCEPT ![rv + 1] = cid]
        /\ UNCHANGED <<cs, m_connections, now, reply, last>>

RemoveProfile(s) ==
    /\ cs' = removeChargingProfilefromCS(cs, s)
    /\ UNCHANGED <<prof, m_connections, now, reply, last>>

(* The request itself is sent in CentralRequests; here, what it records.   *)
createUpdateFWRequestfromWeb(s) ==
    /\ cs' = updateCSFWUpdateFromOcppMessage2DB(cs, s, "Started")
    /\ UNCHANGED <<prof, m_connections, now, reply, last>>

ListStations ==
    /\ cs' = getChargeStations(cs, now, 2 * TicksPerMinute)
    /\ UNCHANGED <<prof, m_connections, now, reply, last>>

(* The heartbeat of a client's mobile takes the flagged rows.              *)
process_hb(cid) ==
    /\ cs' = GetAllChargeStations_UpdMob(cs, cid)
    /\ UNCHANGED <<prof, m_connections, now, reply, last>>

WebRequest(cid) ==
    \/ \E s \in Sern, cert \in WebCert : InsertChargeStation(s, cid, cert)
    \/ \E s \in Sern : DeleteStation(s, cid)
    \/ \E pid \in 1..MaxProf, serns \in {{s} : s \in Sern} \cup {Sern} :
          SaveProfile(cid, pid, serns)
    \/ \E pid \in {-1, 0} : NewProfile(cid, pid)
    \/ \E s \in Sern : RemoveProfile(s)
    \/ \E s \in Sern : createUpdateFWRequestfromWeb(s)

Next ==
    \/ Tick
    \/ \E s \in Sern : StationMessage(s)
    \/ \E cid \in Client : WebRequest(cid)
    \/ ListStations
    \/ \E cid \in Client : process_hb(cid)

Spec == Init /\ [][Next]_vars

-----------------------------------------------------------------------------
(* Properties *)

(* "should return 1 if Charge Station has already been registered": the     *)
(* BootNotification of a station is accepted only if the station has a row  *)
(* of its own in CH_STATIONS.                                              *)
BootAcceptedOnlyRegistered ==
    \A s \in Sern : reply[s] = "Accepted" => cs[s].stored

(* The address under which a station is stored, where requests of the web   *)
(* page and of the mobile are sent and which on_open and on_close use to    *)
(* find the row, is an endpoint of that station, whatever the order of its  *)
(* reconnections, boots and changes of owner.                              *)
AddressLeadsHome ==
    \A s \in Sern : cs[s].IPAddr # NoEndpoint => HomeOf[cs[s].IPAddr] = s

(* No message, connect or disconnect of a station changes the row of        *)
(* another station.                                                        *)
OnlyOwnRow ==
    [][\A s \in Sern : StationMessage(s) =>
          \A t \in Sern \ {s} : cs'[t] = cs[t]]_vars

(* Bit 2 of CertFlag is what the station said in its last accepted boot,    *)
(* through releases of the station, claims by new owners and the CertFlag   *)
(* values the web page sends with them.                                    *)
PublicUseIsTheStations ==
    \A s \in Sern :
        cs[s].stored => (PublicUse(cs[s].CertFlag) <=> last[s].pub)

(* createBootNotificationResponse asks for a heartbeat every minute.  A     *)
(* station whose stored connection is open and that missed no more than     *)
(* one heartbeat is online: neither a listing, nor the late close of an     *)
(* older connection, nor a change of owner takes it offline.               *)
MissedHeartbeatTolerated ==
    \A s \in Sern :
        /\ cs[s].IPAddr \in m_connections
        /\ now <= last[s].heard + 2 * HeartbeatInterval
        => cs[s].Status = 1

(* "if update did not come within last 3 minutes set status to zero": a     *)
(* connected station that was heard in the last three minutes is online.   *)
OfflineAfterThreeMinutes ==
    \A s \in Sern :
        /\ cs[s].IPAddr \in m_connections
        /\ now <= last[s].heard + 3 * TicksPerMinute
        => cs[s].Status = 1

(* The registry implements StationOwnership: a station is claimed only      *)
(* while it has no owner and a profile reaches only stations of the client  *)
(* that saves it.                                                          *)
Ownership == INSTANCE StationOwnership WITH
    owner <- [s \in Sern |-> cs[s].ClientID],
    profile <- [s \in Sern |-> cs[s].ProfID]
ImplementsOwnership == Ownership!Spec
=============================================================================
