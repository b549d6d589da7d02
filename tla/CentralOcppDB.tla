--------------------------- MODULE CentralOcppDB ---------------------------
(***************************************************************************)
(* The CH_STATIONS and CSProfTbl tables of http_light/db/CentralOcppDB.cpp *)
(* and the statements that change them.  A table is a value, a statement a *)
(* function from the table before it to the table after it.  Every public  *)
(* function of the class runs under the mutex of CREATECONNECTION, so the  *)
(* modules that use this one take each of its operators as one step.       *)
(*                                                                         *)
(* CH_STATIONS has CSSerN as its primary key: the table is a function from *)
(* serial numbers to rows, and `stored' tells the rows that exist.  Columns *)
(* that no property reads (Caller, Address, FWVer, CreatedTS...) are left  *)
(* out.                                                                    *)
(*                                                                         *)
(* A definition marked `mutant' is a mistake the code might have made; it   *)
(* is used only to see that a property fails with it.                      *)
(***************************************************************************)
EXTENDS Naturals

CONSTANTS
    Sern,           \* serial numbers of the charge stations in the field
    Client,         \* client ids (users of the web page and the mobile)
    Endpoint,       \* remote "ip:port" strings of web socket connections
    NoEndpoint,     \* the empty IPAddr column
    CpState,        \* what a StatusNotification reports
    FwState,        \* what a FirmwareStatusNotification reports
    NoState,        \* the empty ObjB and Reference columns
    Zone,           \* time zones a station confirms; 0 is the NULL column
    MaxProf         \* bound on the ids of CSProfTbl

ASSUME ClientAssumption == Client \subseteq Nat \ {0}
ASSUME EndpointAssumption == NoEndpoint \notin Endpoint
ASSUME StateAssumption == NoState \notin CpState \cup FwState
ASSUME ZoneAssumption == Zone \subseteq Nat
ASSUME MaxProfAssumption == MaxProf \in Nat

(* Rows of CH_STATIONS.  ClientID 0 is a station that nobody owns.         *)
(* CertFlag holds the two bits a registration writes and, in bit 2, the    *)
(* public-use flag that only the station itself reports.                   *)
Row == [stored      : BOOLEAN,
        ClientID    : Client \cup {0},
        CertFlag    : 0..7,
        Status      : 0..1,
        ProfID      : 0..MaxProf,
        ObjB        : CpState \cup {NoState},
        Reference   : FwState \cup {"Started", NoState},
        IPAddr      : Endpoint \cup {NoEndpoint},
        LastUpdtdTS : Nat,
        TZ          : Zone \cup {0},
        UpdMob      : BOOLEAN]

NoRow == [stored |-> FALSE, ClientID |-> 0, CertFlag |-> 0, Status |-> 0,
          ProfID |-> 0, ObjB |-> NoState, Reference |-> NoState,
          IPAddr |-> NoEndpoint, LastUpdtdTS |-> 0, TZ |-> 0,
          UpdMob |-> FALSE]

CreateChargeStationsTable == [s \in Sern |-> NoRow]

(* The rows a WHERE clause can select, and those of one client.            *)
Stored(cs) == {s \in Sern : cs[s].stored}
OwnedBy(cs, cid) == {s \in Stored(cs) : cs[s].ClientID = cid}

(* CertFlag | 4, CertFlag & ~4, and (old & ~3) | (new & 3), on 0..7.       *)
PublicUse(flags) == flags >= 4
PublicUseAdded(flags, pub) == flags + (IF pub THEN 4 ELSE 0)         \* mutant
WithPublicUse(flags, pub) == (flags % 4) + (IF pub THEN 4 ELSE 0)
CertBitsOverwritten(old, new) == new % 8                            \* mutant
WithCertBits(old, new) == (new % 4) + (IF PublicUse(old) THEN 4 ELSE 0)

-----------------------------------------------------------------------------
(* What the messages of a charge station write.                            *)

(* BootNotification.  The WHERE clause is appended only when the message   *)
(* carries a firmwareVersion: without one every row is updated.            *)
BootRowsOfAll(cs, s, hasFw) == Stored(cs)                           \* mutant
BootRows(cs, s, hasFw) == {t \in Stored(cs) : hasFw => t = s}

updateIPAddrFromOcppMessage2DB(cs, s, e, hasFw, pub, ts) ==
    [t \in Sern |->
        IF t \in BootRows(cs, s, hasFw)
        THEN [cs[t] EXCEPT !.IPAddr = e, !.LastUpdtdTS = ts, !.Status = 1,
                           !.CertFlag = WithPublicUse(cs[t].CertFlag, pub)]
        ELSE cs[t]]

(* The serial number of every other message is taken from its unique id;   *)
(* an id of ten characters or less yields no serial number.                *)
UpdateOcppHBRequestMessage2DB(cs, sern, ts) ==
    [t \in Sern |->
        IF t \in Stored(cs) /\ t = sern
        THEN [cs[t] EXCEPT !.LastUpdtdTS = ts, !.Status = 1, !.UpdMob = TRUE]
        ELSE cs[t]]

updateCSObjBFromOcppMessage2DB(cs, sern, objb, ts) ==
    [t \in Sern |->
        IF t \in Stored(cs) /\ t = sern
        THEN [cs[t] EXCEPT !.ObjB = objb, !.LastUpdtdTS = ts, !.UpdMob = TRUE]
        ELSE cs[t]]

updateCSFWUpdateFromOcppMessage2DB(cs, sern, status) ==
    [t \in Sern |->
        IF t \in Stored(cs) /\ t = sern
        THEN [cs[t] EXCEPT !.Reference = status]
        ELSE cs[t]]

UpdateCSTimeZone(cs, sern, tz) ==
    [t \in Sern |->
        IF t \in Stored(cs) /\ t = sern
        THEN [cs[t] EXCEPT !.TZ = tz, !.UpdMob = TRUE]
        ELSE cs[t]]

(* The connection handlers know an endpoint, not a serial number.          *)
StatusOfAll(cs, e, status) ==                                       \* mutant
    [t \in Sern |-> IF t \in Stored(cs) THEN [cs[t] EXCEPT !.Status = status]
                                        ELSE cs[t]]
UpdateChargeStationStatus(cs, e, status) ==
    [t \in Sern |->
        IF t \in Stored(cs) /\ cs[t].IPAddr = e
        THEN [cs[t] EXCEPT !.Status = status]
        ELSE cs[t]]

-----------------------------------------------------------------------------
(* What the web page and the mobile write.                                 *)

(* A station nobody owns is claimed; otherwise a new row is inserted, which *)
(* the primary key refuses when the row exists (the exception is caught and *)
(* the table stays as it is).  The web page registers stations with the     *)
(* defaults of NoRow in the columns it does not ask for.                   *)
InsertOrReplace(cs, s, cid, cert) ==                                \* mutant
    [cs EXCEPT ![s].stored = TRUE, ![s].ClientID = cid,
               ![s].CertFlag = WithCertBits(cs[s].CertFlag, cert)]
InsertNewChargeStationItem(cs, s, cid, cert) ==
    IF cs[s].stored
    THEN IF cs[s].ClientID = 0
         THEN [cs EXCEPT ![s].ClientID = cid,
                         ![s].CertFlag = WithCertBits(cs[s].CertFlag, cert)]
         ELSE cs
    ELSE [cs EXCEPT ![s] = [NoRow EXCEPT !.stored = TRUE, !.ClientID = cid,
                                         !.CertFlag = WithCertBits(0, cert)]]

DeleteChargeStation(cs, s) ==
    IF cs[s].stored THEN [cs EXCEPT ![s].ClientID = 0] ELSE cs

(* Serial number "*" stands for all the stations of the client.            *)
UpdateCSStationsWithProfile(cs, pid, cid, serns) ==
    [t \in Sern |->
        IF t \in OwnedBy(cs, cid) /\ t \in serns
        THEN [cs[t] EXCEPT !.ProfID = pid, !.UpdMob = TRUE]
        ELSE cs[t]]

removeChargingProfilefromCS(cs, sern) ==
    [t \in Sern |->
        IF t \in Stored(cs) /\ t = sern
        THEN [cs[t] EXCEPT !.ProfID = 0, !.UpdMob = TRUE]
        ELSE cs[t]]

(* CSProfTbl: the client that last saved the profile with an id, 0 for no   *)
(* such row.  A new id is one above the largest; the first one is 2.       *)
getCSProfileID(prof, id) ==
    /\ id \in 0..MaxProf
    /\ id > 0 => prof[id] # 0
    /\ \A j \in 1..MaxProf : prof[j] # 0 => j <= id

(* The listing of one client's stations.  Before it reads, it takes every  *)
(* station offline whose last update is older than two minutes.            *)
StaleRowsInclusive(cs, ts, minutes2) ==                             \* mutant
    {t \in Stored(cs) : cs[t].LastUpdtdTS + minutes2 <= ts /\ cs[t].Status > 0}
StaleRows(cs, ts, minutes2) ==
    {t \in Stored(cs) : cs[t].LastUpdtdTS + minutes2 < ts /\ cs[t].Status > 0}

getChargeStations(cs, ts, minutes2) ==
    [t \in Sern |->
        IF t \in StaleRows(cs, ts, minutes2)
        THEN [cs[t] EXCEPT !.Status = 0, !.UpdMob = TRUE]
        ELSE cs[t]]

(* The listing of what changed since the last one: the flagged rows of a   *)
(* client, whose flags are cleared under the same mutex.  The list of flags *)
(* to clear is that of the ids read: the override of ridit() is left out.  *)
FlaggedRowsOnline(cs, cid) ==                                       \* mutant
    {t \in OwnedBy(cs, cid) : cs[t].UpdMob /\ cs[t].Status = 1}
FlaggedRows(cs, cid) == {t \in OwnedBy(cs, cid) : cs[t].UpdMob}

FlagsOfAllCleared(cs, cid) ==                                       \* mutant
    [t \in Sern |-> [cs[t] EXCEPT !.UpdMob = FALSE]]
GetAllChargeStations_UpdMob(cs, cid) ==
    [t \in Sern |->
        IF t \in FlaggedRows(cs, cid)
        THEN [cs[t] EXCEPT !.UpdMob = FALSE]
        ELSE cs[t]]
=============================================================================
