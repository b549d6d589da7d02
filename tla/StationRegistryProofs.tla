----------------------- MODULE StationRegistryProofs -----------------------
(* Proofs about StationRegistry, for any stations, clients and bounds. *)
EXTENDS StationRegistry, TLAPS

-----------------------------------------------------------------------------
(* The statements of CentralOcppDB keep CH_STATIONS well formed. *)

(* The bit operations on CertFlag stay within its three bits, and the       *)
(* public-use bit is the one they say.                                     *)
LEMMA CertFlagOps ==
    \A f \in 0..7, g \in 0..7, pub \in BOOLEAN :
        /\ WithPublicUse(f, pub) \in 0..7
        /\ PublicUse(WithPublicUse(f, pub)) <=> pub
        /\ WithCertBits(f, g) \in 0..7
        /\ PublicUse(WithCertBits(f, g)) <=> PublicUse(f)
BY DEF WithPublicUse, WithCertBits, PublicUse

(* The row of a station that is not in the table is a row. *)
LEMMA NoRowIsRow == NoRow \in Row
BY MaxProfAssumption DEF Row, NoRow

Tables == [Sern -> Row]

(* Each statement maps tables to tables.                                   *)
LEMMA BootType ==
    ASSUME NEW T \in Tables, NEW s \in Sern, NEW e \in Endpoint,
           NEW fw \in BOOLEAN, NEW pub \in BOOLEAN, NEW ts \in Nat
    PROVE  updateIPAddrFromOcppMessage2DB(T, s, e, fw, pub, ts) \in Tables
<1>1. \A t \in Sern : WithPublicUse(T[t].CertFlag, pub) \in 0..7
  BY CertFlagOps DEF Tables, Row
<1>2. ASSUME NEW t \in Sern, NEW f \in 0..7, NEW one \in 0..1
      PROVE  [T[t] EXCEPT !.IPAddr = e, !.LastUpdtdTS = ts, !.Status = one,
                          !.CertFlag = f] \in Row
  BY DEF Tables, Row
<1>3. 1 \in 0..1
  OBVIOUS
<1>4. \A t \in Sern :
        [T[t] EXCEPT !.IPAddr = e, !.LastUpdtdTS = ts, !.Status = 1,
                     !.CertFlag = WithPublicUse(T[t].CertFlag, pub)] \in Row
  BY <1>1, <1>2, <1>3, Zenon
<1>. QED BY <1>4 DEF updateIPAddrFromOcppMessage2DB, Tables

(* The statements of the messages of a station keep the type of the table. *)
LEMMA MessageTypes ==
    ASSUME NEW T \in Tables, NEW sern, NEW ts \in Nat
    PROVE  /\ UpdateOcppHBRequestMessage2DB(T, sern, ts) \in Tables
           /\ \A st \in CpState :
                 updateCSObjBFromOcppMessage2DB(T, sern, st, ts) \in Tables
           /\ \A st \in FwState \cup {"Started"} :
                 updateCSFWUpdateFromOcppMessage2DB(T, sern, st) \in Tables
           /\ \A tz \in Zone : UpdateCSTimeZone(T, sern, tz) \in Tables
<1>1. UpdateOcppHBRequestMessage2DB(T, sern, ts) \in Tables
  <2>1. ASSUME NEW t \in Sern, NEW one \in 0..1
        PROVE  [T[t] EXCEPT !.LastUpdtdTS = ts, !.Status = one,
                            !.UpdMob = TRUE] \in Row
    BY DEF Tables, Row
  <2>2. 1 \in 0..1
    OBVIOUS
  <2>3. \A t \in Sern : [T[t] EXCEPT !.LastUpdtdTS = ts, !.Status = 1,
                                    !.UpdMob = TRUE] \in Row
    BY <2>1, <2>2, Zenon
  <2>. QED BY <2>3 DEF UpdateOcppHBRequestMessage2DB, Tables
<1>2. ASSUME NEW st \in CpState
      PROVE  updateCSObjBFromOcppMessage2DB(T, sern, st, ts) \in Tables
  BY DEF updateCSObjBFromOcppMessage2DB, Tables, Row
<1>3. ASSUME NEW st \in FwState \cup {"Started"}
      PROVE  updateCSFWUpdateFromOcppMessage2DB(T, sern, st) \in Tables
  BY DEF updateCSFWUpdateFromOcppMessage2DB, Tables, Row
<1>4. ASSUME NEW tz \in Zone
      PROVE  UpdateCSTimeZone(T, sern, tz) \in Tables
  BY DEF UpdateCSTimeZone, Tables, Row
<1>. QED BY <1>1, <1>2, <1>3, <1>4

(* The statement of on_open and on_close keeps the type of the table. *)
LEMMA ConnectionTypes ==
    ASSUME NEW T \in Tables, NEW e \in Endpoint, NEW st \in 0..1
    PROVE  UpdateChargeStationStatus(T, e, st) \in Tables
BY DEF UpdateChargeStationStatus, Tables, Row

(* The statements of the web page and of the mobile keep the type of the table. *)
LEMMA WebTypes ==
    ASSUME NEW T \in Tables
    PROVE  /\ \A s \in Sern, cid \in Client, cert \in 0..7 :
                 InsertNewChargeStationItem(T, s, cid, cert) \in Tables
           /\ \A s \in Sern : DeleteChargeStation(T, s) \in Tables
           /\ \A pid \in 1..MaxProf, cid \in Client, S \in SUBSET Sern :
                 UpdateCSStationsWithProfile(T, pid, cid, S) \in Tables
           /\ \A s \in Sern : removeChargingProfilefromCS(T, s) \in Tables
           /\ \A ts, m \in Nat : getChargeStations(T, ts, m) \in Tables
           /\ \A cid \in Client : GetAllChargeStations_UpdMob(T, cid) \in Tables
<1>1. ASSUME NEW s \in Sern, NEW cid \in Client, NEW cert \in 0..7
      PROVE  InsertNewChargeStationItem(T, s, cid, cert) \in Tables
  <2>1. WithCertBits(T[s].CertFlag, cert) \in 0..7 /\ WithCertBits(0, cert) \in 0..7
    BY CertFlagOps DEF Tables, Row
  <2>2. ASSUME NEW r \in Row, NEW f \in 0..7
        PROVE  /\ [r EXCEPT !.ClientID = cid, !.CertFlag = f] \in Row
               /\ [r EXCEPT !.stored = TRUE, !.ClientID = cid, !.CertFlag = f] \in Row
    BY DEF Row
  <2>3. [T[s] EXCEPT !.ClientID = cid,
                     !.CertFlag = WithCertBits(T[s].CertFlag, cert)] \in Row
    BY <2>1, <2>2 DEF Tables
  <2>4. [NoRow EXCEPT !.stored = TRUE, !.ClientID = cid,
                      !.CertFlag = WithCertBits(0, cert)] \in Row
    BY <2>1, <2>2, NoRowIsRow
  <2>. QED BY <2>3, <2>4 DEF InsertNewChargeStationItem, Tables
<1>2. ASSUME NEW s \in Sern
      PROVE  DeleteChargeStation(T, s) \in Tables
  <2>1. [T[s] EXCEPT !.ClientID = 0] \in Row
    BY DEF Tables, Row
  <2>. QED BY <2>1 DEF DeleteChargeStation, Tables
<1>3. ASSUME NEW pid \in 1..MaxProf, NEW cid \in Client, NEW S \in SUBSET Sern
      PROVE  UpdateCSStationsWithProfile(T, pid, cid, S) \in Tables
  <2>1. pid \in 0..MaxProf
    BY MaxProfAssumption
  <2>2. \A t \in Sern : [T[t] EXCEPT !.ProfID = pid, !.UpdMob = TRUE] \in Row
    BY <2>1 DEF Tables, Row
  <2>. QED BY <2>2 DEF UpdateCSStationsWithProfile, Tables
<1>4. ASSUME NEW s \in Sern
      PROVE  removeChargingProfilefromCS(T, s) \in Tables
  <2>1. ASSUME NEW t \in Sern, NEW z \in 0..MaxProf
        PROVE  [T[t] EXCEPT !.ProfID = z, !.UpdMob = TRUE] \in Row
    BY DEF Tables, Row
  <2>2. 0 \in 0..MaxProf
    BY MaxProfAssumption
  <2>3. \A t \in Sern : [T[t] EXCEPT !.ProfID = 0, !.UpdMob = TRUE] \in Row
    BY <2>1, <2>2, Zenon
  <2>. QED BY <2>3 DEF removeChargingProfilefromCS, Tables
<1>5. ASSUME NEW ts \in Nat, NEW m \in Nat
      PROVE  getChargeStations(T, ts, m) \in Tables
  <2>1. ASSUME NEW t \in Sern, NEW z \in 0..1
        PROVE  [T[t] EXCEPT !.Status = z, !.UpdMob = TRUE] \in Row
    BY DEF Tables, Row
  <2>2. 0 \in 0..1
    OBVIOUS
  <2>3. \A t \in Sern : [T[t] EXCEPT !.Status = 0, !.UpdMob = TRUE] \in Row
    BY <2>1, <2>2, Zenon
  <2>. QED BY <2>3 DEF getChargeStations, Tables
<1>6. ASSUME NEW cid \in Client
      PROVE  GetAllChargeStations_UpdMob(T, cid) \in Tables
  BY DEF GetAllChargeStations_UpdMob, Tables, Row
<1>. QED BY <1>1, <1>2, <1>3, <1>4, <1>5, <1>6

-----------------------------------------------------------------------------
(* Type correctness *)

(* Every action of the registry keeps TypeOK.                              *)
LEMMA TypeStep ==
    ASSUME TypeOK, [Next]_vars
    PROVE  TypeOK'
<1>. USE DEF TypeOK
<1>0. cs \in Tables /\ 2 * TicksPerMinute \in Nat
  BY TicksAssumption DEF Tables
<1>1. CASE Tick
  BY <1>1 DEF Tick
<1>2. ASSUME NEW s \in Sern, StationMessage(s)
      PROVE  TypeOK'
  <2>. PICK e \in Endpoint :
         /\ HomeOf[e] = s
         /\ \/ on_open(e)
            \/ on_close(e)
            \/ \E fw \in BootHasFw, pub \in BOOLEAN : BootNotification(e, fw, pub)
            \/ \E sern \in {s, NoSern} :
                 \/ Heartbeat(e, sern)
                 \/ \E st \in CpState : StatusNotification(e, sern, st)
                 \/ \E st \in FwState : FirmwareStatusNotification(e, sern, st)
            \/ \E tz \in Zone : DataTransferConf(e, tz)
    BY <1>2 DEF StationMessage
  <2>1. CASE on_open(e)
    <3>1. UpdateChargeStationStatus(cs, e, 1) \in Tables
      BY <1>0, ConnectionTypes
    <3>. QED BY <2>1, <3>1 DEF on_open, Tables
  <2>2. CASE on_close(e)
    <3>1. UpdateChargeStationStatus(cs, e, 0) \in Tables
      BY <1>0, ConnectionTypes
    <3>. QED BY <2>2, <3>1 DEF on_close, Tables
  <2>3. ASSUME NEW fw \in BootHasFw, NEW pub \in BOOLEAN,
               BootNotification(e, fw, pub)
        PROVE  TypeOK'
    <3>1. updateIPAddrFromOcppMessage2DB(cs, HomeOf[e], e, fw, pub, now) \in Tables
      BY <1>0, BootType, BootHasFwAssumption, HomeOfAssumption
    <3>. QED BY <2>3, <3>1, HomeOfAssumption DEF BootNotification, Tables
  <2>4. ASSUME NEW sern \in {s, NoSern}, Heartbeat(e, sern)
        PROVE  TypeOK'
    <3>1. UpdateOcppHBRequestMessage2DB(cs, sern, now) \in Tables
      BY <1>0, MessageTypes
    <3>2. last' \in [Sern -> [heard : Nat, pub : BOOLEAN]]
      BY <2>4 DEF Heartbeat, Stored
    <3>. QED BY <2>4, <3>1, <3>2 DEF Heartbeat, Tables
  <2>5. ASSUME NEW sern \in {s, NoSern}, NEW st \in CpState,
               StatusNotification(e, sern, st)
        PROVE  TypeOK'
    <3>1. updateCSObjBFromOcppMessage2DB(cs, sern, st, now) \in Tables
      BY <1>0, MessageTypes
    <3>. QED BY <2>5, <3>1 DEF StatusNotification, Tables
  <2>6. ASSUME NEW sern \in {s, NoSern}, NEW st \in FwState,
               FirmwareStatusNotification(e, sern, st)
        PROVE  TypeOK'
    <3>1. updateCSFWUpdateFromOcppMessage2DB(cs, sern, st) \in Tables
      BY <1>0, MessageTypes
    <3>. QED BY <2>6, <3>1 DEF FirmwareStatusNotification, Tables
  <2>7. ASSUME NEW tz \in Zone, DataTransferConf(e, tz)
        PROVE  TypeOK'
    <3>1. UpdateCSTimeZone(cs, HomeOf[e], tz) \in Tables
      BY <1>0, MessageTypes
    <3>. QED BY <2>7, <3>1 DEF DataTransferConf, Tables
  <2>. QED BY <2>1, <2>2, <2>3, <2>4, <2>5, <2>6, <2>7
<1>3. ASSUME NEW cid \in Client, WebRequest(cid)
      PROVE  TypeOK'
  <2>1. ASSUME NEW s \in Sern, NEW cert \in WebCert,
               InsertChargeStation(s, cid, cert)
        PROVE  TypeOK'
    <3>1. InsertNewChargeStationItem(cs, s, cid, cert) \in Tables
      BY <1>0, WebTypes, WebCertAssumption
    <3>. QED BY <2>1, <3>1 DEF InsertChargeStation, Tables
  <2>2. ASSUME NEW s \in Sern, DeleteStation(s, cid)
        PROVE  TypeOK'
    BY <1>0, <2>2, WebTypes DEF DeleteStation, Tables
  <2>3. ASSUME NEW pid \in 1..MaxProf, NEW S \in SUBSET Sern,
               SaveProfile(cid, pid, S)
        PROVE  TypeOK'
    <3>1. UpdateCSStationsWithProfile(cs, pid, cid, S) \in Tables
      BY <1>0, WebTypes
    <3>. QED BY <2>3, <3>1 DEF SaveProfile, Tables
  <2>4. ASSUME NEW pid \in {-1, 0}, NewProfile(cid, pid)
        PROVE  TypeOK'
    BY <2>4 DEF NewProfile
  <2>5. ASSUME NEW s \in Sern, RemoveProfile(s)
        PROVE  TypeOK'
    BY <1>0, <2>5, WebTypes DEF RemoveProfile, Tables
  <2>6. ASSUME NEW s \in Sern, createUpdateFWRequestfromWeb(s)
        PROVE  TypeOK'
    <3>1. updateCSFWUpdateFromOcppMessage2DB(cs, s, "Started") \in Tables
      BY <1>0, MessageTypes
    <3>. QED BY <2>6, <3>1 DEF createUpdateFWRequestfromWeb, Tables
  <2>. QED BY <1>3, <2>1, <2>2, <2>3, <2>4, <2>5, <2>6 DEF WebRequest
<1>4. CASE ListStations
  <2>1. getChargeStations(cs, now, 2 * TicksPerMinute) \in Tables
    BY <1>0, WebTypes
  <2>. QED BY <1>4, <2>1 DEF ListStations, Tables
<1>5. ASSUME NEW cid \in Client, process_hb(cid)
      PROVE  TypeOK'
  BY <1>0, <1>5, WebTypes DEF process_hb, Tables
<1>6. CASE UNCHANGED vars
  BY <1>6 DEF vars
<1>. QED BY <1>1, <1>2, <1>3, <1>4, <1>5, <1>6 DEF Next

(* The registry's tables, clock and answers always have their types.       *)
THEOREM TypeCorrect == Spec => []TypeOK
<1>1. Init => TypeOK
  BY NoRowIsRow DEF Init, TypeOK, CreateChargeStationsTable
<1>. QED BY <1>1, TypeStep, PTL DEF Spec

-----------------------------------------------------------------------------
(* Addresses, acceptance, the public-use flag and the online status.  They  *)
(* hold when every BootNotification carries a firmwareVersion.             *)

(* What makes the invariants inductive: a station without a row was   *)
(* never heard, and the row of one that was is no older than that.         *)
HeardOnlyStored ==
    \A s \in Sern :
        /\ last[s].heard <= now
        /\ cs[s].stored => last[s].heard <= cs[s].LastUpdtdTS
        /\ ~cs[s].stored => /\ cs[s].IPAddr = NoEndpoint
                            /\ last[s] = [heard |-> 0, pub |-> FALSE]

IInv ==
    /\ TypeOK
    /\ HeardOnlyStored
    /\ BootAcceptedOnlyRegistered
    /\ AddressLeadsHome
    /\ PublicUseIsTheStations
    /\ MissedHeartbeatTolerated

(* Row q says what row r said of everything the invariants read, except     *)
(* that the station may have been heard now.                               *)
SaysTheSame(r, q) ==
    /\ q.stored = r.stored
    /\ q.IPAddr = r.IPAddr
    /\ PublicUse(q.CertFlag) <=> PublicUse(r.CertFlag)
    /\ q.Status = r.Status
    /\ q.LastUpdtdTS = r.LastUpdtdTS \/ q.LastUpdtdTS = now

(* A step after which every row says the same keeps the invariant.         *)
LEMMA SameStep ==
    ASSUME IInv, TypeOK',
           \A t \in Sern : SaysTheSame(cs[t], cs'[t]),
           UNCHANGED <<m_connections, now, reply, last>>
    PROVE  IInv'
<1>. USE DEF SaysTheSame, IInv
<1>1. HeardOnlyStored'
  BY DEF HeardOnlyStored
<1>2. BootAcceptedOnlyRegistered'
  BY DEF BootAcceptedOnlyRegistered
<1>3. AddressLeadsHome'
  BY DEF AddressLeadsHome
<1>4. PublicUseIsTheStations'
  BY DEF PublicUseIsTheStations
<1>5. MissedHeartbeatTolerated'
  BY DEF MissedHeartbeatTolerated
<1>. QED BY <1>1, <1>2, <1>3, <1>4, <1>5

(* The messages and requests that leave alone what the invariants read.    *)
LEMMA QuietMessages ==
    ASSUME IInv, TypeOK', NEW e \in Endpoint, NEW sern \in Sern \cup {NoSern}
    PROVE  /\ \A st \in CpState : StatusNotification(e, sern, st) => IInv'
           /\ \A st \in FwState : FirmwareStatusNotification(e, sern, st) => IInv'
           /\ \A tz \in Zone : DataTransferConf(e, tz) => IInv'
<1>0. \A t \in Sern : cs[t] \in Row
  BY DEF IInv, TypeOK
<1>1. ASSUME NEW st \in CpState, StatusNotification(e, sern, st)
      PROVE  IInv'
  <2>1. \A t \in Sern : SaysTheSame(cs[t], cs'[t])
    BY <1>0, <1>1 DEF StatusNotification, updateCSObjBFromOcppMessage2DB,
                      SaysTheSame, Row
  <2>. QED BY <1>1, <2>1, SameStep DEF StatusNotification
<1>2. ASSUME NEW st \in FwState, FirmwareStatusNotification(e, sern, st)
      PROVE  IInv'
  <2>1. \A t \in Sern : SaysTheSame(cs[t], cs'[t])
    BY <1>0, <1>2 DEF FirmwareStatusNotification,
                      updateCSFWUpdateFromOcppMessage2DB, SaysTheSame, Row
  <2>. QED BY <1>2, <2>1, SameStep DEF FirmwareStatusNotification
<1>3. ASSUME NEW tz \in Zone, DataTransferConf(e, tz)
      PROVE  IInv'
  <2>1. \A t \in Sern : SaysTheSame(cs[t], cs'[t])
    BY <1>0, <1>3 DEF DataTransferConf, UpdateCSTimeZone, SaysTheSame, Row
  <2>. QED BY <1>3, <2>1, SameStep DEF DataTransferConf
<1>. QED BY <1>1, <1>2, <1>3

(* Requests that touch neither addresses, flags nor status keep the invariant. *)
LEMMA QuietRequests ==
    ASSUME IInv, TypeOK', NEW cid \in Client
    PROVE  /\ \A s \in Sern : DeleteStation(s, cid) => IInv'
           /\ \A pid \in 1..MaxProf, S \in SUBSET Sern :
                 SaveProfile(cid, pid, S) => IInv'
           /\ \A pid \in {-1, 0} : NewProfile(cid, pid) => IInv'
           /\ \A s \in Sern : RemoveProfile(s) => IInv'
           /\ \A s \in Sern : createUpdateFWRequestfromWeb(s) => IInv'
           /\ process_hb(cid) => IInv'
<1>0. \A t \in Sern : cs[t] \in Row
  BY DEF IInv, TypeOK
<1>4. ASSUME NEW s \in Sern, DeleteStation(s, cid)
      PROVE  IInv'
  <2>1. \A t \in Sern : SaysTheSame(cs[t], cs'[t])
    BY <1>0, <1>4 DEF DeleteStation, DeleteChargeStation, SaysTheSame, Row,
                      IInv, TypeOK
  <2>. QED BY <1>4, <2>1, SameStep DEF DeleteStation
<1>5. ASSUME NEW pid \in 1..MaxProf, NEW S \in SUBSET Sern,
             SaveProfile(cid, pid, S)
      PROVE  IInv'
  <2>1. \A t \in Sern : SaysTheSame(cs[t], cs'[t])
    BY <1>0, <1>5 DEF SaveProfile, UpdateCSStationsWithProfile, SaysTheSame, Row
  <2>. QED BY <1>5, <2>1, SameStep DEF SaveProfile
<1>6. ASSUME NEW pid \in {-1, 0}, NewProfile(cid, pid)
      PROVE  IInv'
  <2>1. \A t \in Sern : SaysTheSame(cs[t], cs'[t])
    BY <1>6 DEF NewProfile, SaysTheSame
  <2>. QED BY <1>6, <2>1, SameStep DEF NewProfile
<1>7. ASSUME NEW s \in Sern, RemoveProfile(s)
      PROVE  IInv'
  <2>1. \A t \in Sern : SaysTheSame(cs[t], cs'[t])
    BY <1>0, <1>7 DEF RemoveProfile, removeChargingProfilefromCS, SaysTheSame, Row
  <2>. QED BY <1>7, <2>1, SameStep DEF RemoveProfile
<1>8. ASSUME NEW s \in Sern, createUpdateFWRequestfromWeb(s)
      PROVE  IInv'
  <2>1. \A t \in Sern : SaysTheSame(cs[t], cs'[t])
    BY <1>0, <1>8 DEF createUpdateFWRequestfromWeb,
                      updateCSFWUpdateFromOcppMessage2DB, SaysTheSame, Row
  <2>. QED BY <1>8, <2>1, SameStep DEF createUpdateFWRequestfromWeb
<1>9. ASSUME process_hb(cid)
      PROVE  IInv'
  <2>1. \A t \in Sern : SaysTheSame(cs[t], cs'[t])
    BY <1>0, <1>9 DEF process_hb, GetAllChargeStations_UpdMob, SaysTheSame, Row
  <2>. QED BY <1>9, <2>1, SameStep DEF process_hb
<1>. QED BY <1>4, <1>5, <1>6, <1>7, <1>8, <1>9

(* A boot stores the address and the flag of the station that sends it.    *)
LEMMA BootStep ==
    ASSUME IInv, TypeOK', NEW e \in Endpoint, NEW pub \in BOOLEAN,
           BootNotification(e, TRUE, pub)
    PROVE  IInv'
<1>. DEFINE s == HomeOf[e]
<1>0. s \in Sern /\ \A t \in Sern : cs[t] \in Row
  BY HomeOfAssumption DEF IInv, TypeOK
<1>1. \A t \in Sern \ {s} : cs'[t] = cs[t] /\ last'[t] = last[t]
  BY <1>0 DEF BootNotification, updateIPAddrFromOcppMessage2DB, BootRows,
              IInv, TypeOK
<1>2. CASE ~cs[s].stored
  <2>1. cs'[s] = cs[s] /\ last' = last /\ reply' = [reply EXCEPT ![s] = "Rejected"]
    BY <1>0, <1>2 DEF BootNotification, updateIPAddrFromOcppMessage2DB, BootRows,
                      Stored
  <2>2. \A t \in Sern : cs'[t] = cs[t]
    BY <1>1, <2>1
  <2>3. BootAcceptedOnlyRegistered'
    BY <2>1, <2>2, <1>0 DEF BootAcceptedOnlyRegistered, IInv, TypeOK
  <2>. QED BY <2>1, <2>2, <2>3 DEF IInv, BootNotification, HeardOnlyStored,
              AddressLeadsHome, PublicUseIsTheStations, MissedHeartbeatTolerated
<1>3. CASE cs[s].stored
  <2>1. /\ cs'[s] = [cs[s] EXCEPT !.IPAddr = e, !.LastUpdtdTS = now, !.Status = 1,
                          !.CertFlag = WithPublicUse(cs[s].CertFlag, pub)]
        /\ last'[s] = [heard |-> now, pub |-> pub]
    BY <1>0, <1>3 DEF BootNotification, updateIPAddrFromOcppMessage2DB, BootRows,
                      Stored, IInv, TypeOK
  <2>2. /\ cs'[s].stored /\ cs'[s].IPAddr = e /\ cs'[s].Status = 1
        /\ cs'[s].LastUpdtdTS = now
        /\ cs'[s].CertFlag = WithPublicUse(cs[s].CertFlag, pub)
    BY <2>1, <1>0, <1>3 DEF Row
  <2>3. /\ PublicUse(cs'[s].CertFlag) <=> last'[s].pub
        /\ last'[s].heard = now
    BY <2>1, <2>2, <1>0, CertFlagOps DEF Row
  <2>4. now' = now /\ now \in Nat /\ m_connections' = m_connections
    BY DEF BootNotification, IInv, TypeOK
  <2>5. HeardOnlyStored'
    BY <1>0, <1>1, <2>2, <2>3, <2>4 DEF IInv, HeardOnlyStored
  <2>6. BootAcceptedOnlyRegistered'
    BY <1>0, <1>1, <2>2 DEF IInv, TypeOK, BootAcceptedOnlyRegistered, BootNotification
  <2>7. AddressLeadsHome'
    BY <1>0, <1>1, <2>2 DEF IInv, AddressLeadsHome
  <2>8. PublicUseIsTheStations'
    BY <1>1, <2>3 DEF IInv, PublicUseIsTheStations
  <2>9. MissedHeartbeatTolerated'
    BY <1>1, <2>2, <2>4 DEF IInv, MissedHeartbeatTolerated
  <2>. QED BY <2>5, <2>6, <2>7, <2>8, <2>9 DEF IInv
<1>. QED BY <1>2, <1>3

(* Heartbeat keeps the inductive invariant. *)
LEMMA HeartbeatStep ==
    ASSUME IInv, TypeOK', NEW e \in Endpoint, NEW s \in Sern \cup {NoSern},
           Heartbeat(e, s)
    PROVE  IInv'
<1>0. /\ \A t \in Sern : cs[t] \in Row
      /\ now' = now /\ now \in Nat /\ m_connections' = m_connections
      /\ reply' = reply
  BY DEF IInv, TypeOK, Heartbeat
<1>1. \A t \in Sern : t # s \/ ~cs[t].stored => cs'[t] = cs[t] /\ last'[t] = last[t]
  BY <1>0 DEF Heartbeat, UpdateOcppHBRequestMessage2DB, Stored, IInv, TypeOK
<1>2. \A t \in Sern : t = s /\ cs[t].stored =>
        /\ cs'[t].stored /\ cs'[t].IPAddr = cs[t].IPAddr /\ cs'[t].Status = 1
        /\ cs'[t].LastUpdtdTS = now /\ cs'[t].CertFlag = cs[t].CertFlag
        /\ last'[t].heard = now /\ last'[t].pub = last[t].pub
  <2>1. ASSUME NEW t \in Sern, t = s, cs[t].stored
        PROVE  cs'[t] = [cs[t] EXCEPT !.LastUpdtdTS = now, !.Status = 1,
                                      !.UpdMob = TRUE]
    BY <2>1 DEF Heartbeat, UpdateOcppHBRequestMessage2DB, Stored
  <2>2. ASSUME NEW t \in Sern, t = s, cs[t].stored
        PROVE  last'[t] = [last[t] EXCEPT !.heard = now]
    BY <2>2 DEF Heartbeat, Stored, IInv, TypeOK
  <2>3. \A t \in Sern : last[t] \in [heard : Nat, pub : BOOLEAN]
    BY DEF IInv, TypeOK
  <2>4. ASSUME NEW t \in Sern, t = s, cs[t].stored
        PROVE  last'[t].heard = now /\ last'[t].pub = last[t].pub
    BY <2>2, <2>3, <2>4
  <2>5. ASSUME NEW t \in Sern, t = s, cs[t].stored
        PROVE  /\ cs'[t].stored /\ cs'[t].IPAddr = cs[t].IPAddr
               /\ cs'[t].Status = 1 /\ cs'[t].LastUpdtdTS = now
               /\ cs'[t].CertFlag = cs[t].CertFlag
    BY <2>1, <2>5, <1>0 DEF Row
  <2>. QED BY <2>4, <2>5
<1>3. HeardOnlyStored'
  BY <1>0, <1>1, <1>2 DEF IInv, HeardOnlyStored
<1>4. BootAcceptedOnlyRegistered'
  BY <1>0, <1>1, <1>2 DEF IInv, BootAcceptedOnlyRegistered
<1>5. AddressLeadsHome'
  BY <1>1, <1>2 DEF IInv, AddressLeadsHome
<1>6. PublicUseIsTheStations'
  BY <1>1, <1>2 DEF IInv, PublicUseIsTheStations
<1>7. MissedHeartbeatTolerated'
  BY <1>0, <1>1, <1>2 DEF IInv, MissedHeartbeatTolerated
<1>. QED BY <1>3, <1>4, <1>5, <1>6, <1>7 DEF IInv

(* Opening or closing a connection changes the status of the station whose  *)
(* address it is, and the condition of MissedHeartbeatTolerated with it.   *)
LEMMA ConnectionStep ==
    ASSUME IInv, TypeOK', NEW e \in Endpoint, on_open(e) \/ on_close(e)
    PROVE  IInv'
<1>. DEFINE st == IF e \in m_connections THEN 0 ELSE 1
<1>0. /\ \A t \in Sern : cs[t] \in Row
      /\ now' = now /\ last' = last /\ reply' = reply
      /\ m_connections \subseteq Endpoint
  BY DEF IInv, TypeOK, on_open, on_close
<1>1. cs' = UpdateChargeStationStatus(cs, e, st)
  BY DEF on_open, on_close
<1>2. \A t \in Sern : /\ cs'[t].stored = cs[t].stored
                      /\ cs'[t].IPAddr = cs[t].IPAddr
                      /\ cs'[t].LastUpdtdTS = cs[t].LastUpdtdTS
                      /\ cs'[t].CertFlag = cs[t].CertFlag
                      /\ cs[t].IPAddr # e => cs'[t].Status = cs[t].Status
                      /\ cs[t].stored /\ cs[t].IPAddr = e => cs'[t].Status = st
  BY <1>0, <1>1 DEF UpdateChargeStationStatus, Stored, Row
<1>3. HeardOnlyStored'
  BY <1>0, <1>2 DEF IInv, HeardOnlyStored
<1>4. BootAcceptedOnlyRegistered'
  BY <1>0, <1>2 DEF IInv, BootAcceptedOnlyRegistered
<1>5. AddressLeadsHome'
  BY <1>2 DEF IInv, AddressLeadsHome
<1>6. PublicUseIsTheStations'
  BY <1>0, <1>2 DEF IInv, PublicUseIsTheStations
<1>7. MissedHeartbeatTolerated'
  <2>1. \A t \in Sern : cs[t].IPAddr = e => cs[t].stored
    BY EndpointAssumption DEF IInv, HeardOnlyStored
  <2>2. CASE on_open(e)
    <3>1. st = 1 /\ m_connections' = m_connections \cup {e}
      BY <2>2 DEF on_open
    <3>. QED BY <1>0, <1>2, <2>1, <3>1 DEF IInv, MissedHeartbeatTolerated
  <2>3. CASE on_close(e)
    <3>1. m_connections' = m_connections \ {e}
      BY <2>3 DEF on_close
    <3>. QED BY <1>0, <1>2, <3>1 DEF IInv, MissedHeartbeatTolerated
  <2>. QED BY <2>2, <2>3
<1>. QED BY <1>3, <1>4, <1>5, <1>6, <1>7 DEF IInv

(* A claim keeps the public-use flag; a new row starts without address.    *)
LEMMA InsertStep ==
    ASSUME IInv, TypeOK', NEW s \in Sern, NEW cid \in Client, NEW cert \in 0..7,
           InsertChargeStation(s, cid, cert)
    PROVE  IInv'
<1>0. /\ \A t \in Sern : cs[t] \in Row
      /\ now' = now /\ last' = last /\ reply' = reply
      /\ m_connections' = m_connections /\ m_connections \subseteq Endpoint
      /\ DOMAIN cs = Sern
  BY DEF IInv, TypeOK, InsertChargeStation
<1>1. \A t \in Sern \ {s} : cs'[t] = cs[t]
  BY <1>0 DEF InsertChargeStation, InsertNewChargeStationItem
<1>2. CASE cs[s].stored
  <2>1. \/ cs'[s] = cs[s]
        \/ cs'[s] = [cs[s] EXCEPT !.ClientID = cid,
                         !.CertFlag = WithCertBits(cs[s].CertFlag, cert)]
    BY <1>0, <1>2 DEF InsertChargeStation, InsertNewChargeStationItem
  <2>2. PublicUse(WithCertBits(cs[s].CertFlag, cert)) <=> PublicUse(cs[s].CertFlag)
    BY <1>0, CertFlagOps DEF Row
  <2>3. SaysTheSame(cs[s], cs'[s])
    BY <1>0, <2>1, <2>2 DEF SaysTheSame, Row
  <2>4. \A t \in Sern : SaysTheSame(cs[t], cs'[t])
    BY <1>1, <2>3 DEF SaysTheSame
  <2>. QED BY <1>0, <2>4, SameStep
<1>3. CASE ~cs[s].stored
  <2>1. cs'[s] = [NoRow EXCEPT !.stored = TRUE, !.ClientID = cid,
                               !.CertFlag = WithCertBits(0, cert)]
    BY <1>0, <1>3 DEF InsertChargeStation, InsertNewChargeStationItem
  <2>2. /\ cs'[s].stored /\ cs'[s].IPAddr = NoEndpoint
        /\ cs'[s].LastUpdtdTS = 0 /\ cs'[s].CertFlag = WithCertBits(0, cert)
    BY <2>1 DEF NoRow
  <2>3. ~PublicUse(cs'[s].CertFlag)
    BY <2>2 DEF PublicUse, WithCertBits
  <2>4. last[s].heard = 0 /\ last[s].pub = FALSE
    BY <1>3 DEF IInv, HeardOnlyStored
  <2>5. HeardOnlyStored'
    BY <1>0, <1>1, <2>2, <2>4 DEF IInv, HeardOnlyStored
  <2>6. BootAcceptedOnlyRegistered'
    BY <1>0, <1>1, <2>2 DEF IInv, BootAcceptedOnlyRegistered
  <2>7. AddressLeadsHome'
    BY <1>1, <2>2 DEF IInv, AddressLeadsHome
  <2>8. PublicUseIsTheStations'
    BY <1>0, <1>1, <2>3, <2>4 DEF IInv, PublicUseIsTheStations
  <2>9. MissedHeartbeatTolerated'
    BY <1>0, <1>1, <2>2, EndpointAssumption DEF IInv, MissedHeartbeatTolerated
  <2>. QED BY <2>5, <2>6, <2>7, <2>8, <2>9 DEF IInv
<1>. QED BY <1>2, <1>3

(* A listing expires only rows that were not heard for two minutes.        *)
LEMMA ListStep ==
    ASSUME IInv, TypeOK', ListStations
    PROVE  IInv'
<1>0. /\ \A t \in Sern : cs[t] \in Row /\ last[t].heard \in Nat
      /\ now' = now /\ last' = last /\ reply' = reply /\ now \in Nat
      /\ m_connections' = m_connections /\ TicksPerMinute \in Nat
  BY TicksAssumption DEF IInv, TypeOK, ListStations
<1>1. \A t \in Sern : /\ cs'[t].stored = cs[t].stored
                      /\ cs'[t].IPAddr = cs[t].IPAddr
                      /\ cs'[t].LastUpdtdTS = cs[t].LastUpdtdTS
                      /\ cs'[t].CertFlag = cs[t].CertFlag
  BY <1>0 DEF ListStations, getChargeStations, Row
<1>2. \A t \in Sern : cs'[t].Status # cs[t].Status =>
         cs[t].stored /\ cs[t].LastUpdtdTS + 2 * TicksPerMinute < now
  BY <1>0 DEF ListStations, getChargeStations, StaleRows, Stored, Row
<1>3. HeardOnlyStored'
  BY <1>0, <1>1 DEF IInv, HeardOnlyStored
<1>4. BootAcceptedOnlyRegistered'
  BY <1>0, <1>1 DEF IInv, BootAcceptedOnlyRegistered
<1>5. AddressLeadsHome'
  BY <1>1 DEF IInv, AddressLeadsHome
<1>6. PublicUseIsTheStations'
  BY <1>0, <1>1 DEF IInv, PublicUseIsTheStations
<1>7. MissedHeartbeatTolerated'
  <2>1. \A t \in Sern : cs[t].LastUpdtdTS \in Nat
    BY <1>0 DEF Row
  <2>2. \A t \in Sern : cs'[t].Status # cs[t].Status =>
           ~(now <= last[t].heard + 2 * TicksPerMinute)
    BY <1>0, <1>2, <2>1 DEF IInv, HeardOnlyStored
  <2>. QED BY <1>0, <1>1, <2>2 DEF IInv, MissedHeartbeatTolerated, HeartbeatInterval
<1>. QED BY <1>3, <1>4, <1>5, <1>6, <1>7 DEF IInv

(* The clock keeps the inductive invariant. *)
LEMMA TickStep ==
    ASSUME IInv, TypeOK', Tick
    PROVE  IInv'
<1>0. /\ now' = now + 1 /\ now \in Nat /\ TicksPerMinute \in Nat
      /\ \A t \in Sern : last[t].heard \in Nat
      /\ UNCHANGED <<cs, m_connections, reply, last>>
  BY TicksAssumption DEF IInv, TypeOK, Tick
<1>1. HeardOnlyStored'
  BY <1>0 DEF IInv, HeardOnlyStored
<1>2. MissedHeartbeatTolerated'
  BY <1>0 DEF IInv, MissedHeartbeatTolerated, HeartbeatInterval
<1>. QED BY <1>0, <1>1, <1>2 DEF IInv, BootAcceptedOnlyRegistered,
                              AddressLeadsHome, PublicUseIsTheStations

(* Every step keeps the inductive invariant. *)
LEMMA InductiveStep ==
    ASSUME BootHasFw = {TRUE}, IInv, [Next]_vars
    PROVE  IInv'
<1>0. TypeOK'
  BY TypeStep DEF IInv
<1>1. CASE Tick
  BY <1>0, <1>1, TickStep
<1>2. ASSUME NEW s \in Sern, StationMessage(s)
      PROVE  IInv'
  <2>. PICK e \in Endpoint :
         /\ HomeOf[e] = s
         /\ \/ on_open(e)
            \/ on_close(e)
            \/ \E fw \in BootHasFw, pub \in BOOLEAN : BootNotification(e, fw, pub)
            \/ \E sern \in {s, NoSern} :
                 \/ Heartbeat(e, sern)
                 \/ \E st \in CpState : StatusNotification(e, sern, st)
                 \/ \E st \in FwState : FirmwareStatusNotification(e, sern, st)
            \/ \E tz \in Zone : DataTransferConf(e, tz)
    BY <1>2 DEF StationMessage
  <2>1. CASE on_open(e) \/ on_close(e)
    BY <1>0, <2>1, ConnectionStep
  <2>2. ASSUME NEW fw \in BootHasFw, NEW pub \in BOOLEAN,
               BootNotification(e, fw, pub)
        PROVE  IInv'
    BY <1>0, <2>2, BootStep
  <2>3. ASSUME NEW sern \in {s, NoSern}, Heartbeat(e, sern)
        PROVE  IInv'
    BY <1>0, <2>3, HeartbeatStep
  <2>4. ASSUME NEW sern \in {s, NoSern},
               \/ \E st \in CpState : StatusNotification(e, sern, st)
               \/ \E st \in FwState : FirmwareStatusNotification(e, sern, st)
        PROVE  IInv'
    BY <1>0, <2>4, QuietMessages
  <2>5. ASSUME NEW tz \in Zone, DataTransferConf(e, tz)
        PROVE  IInv'
    BY <1>0, <2>5, QuietMessages
  <2>. QED BY <2>1, <2>2, <2>3, <2>4, <2>5
<1>3. ASSUME NEW cid \in Client, WebRequest(cid)
      PROVE  IInv'
  <2>1. ASSUME NEW s \in Sern, NEW cert \in WebCert,
               InsertChargeStation(s, cid, cert)
        PROVE  IInv'
    BY <1>0, <2>1, InsertStep, WebCertAssumption
  <2>2. ASSUME NEW pid \in 1..MaxProf, NEW S \in {{s} : s \in Sern} \cup {Sern},
               SaveProfile(cid, pid, S)
        PROVE  IInv'
    BY <1>0, <2>2, QuietRequests
  <2>. QED BY <1>0, <1>3, <2>1, <2>2, QuietRequests DEF WebRequest
<1>4. CASE ListStations
  BY <1>0, <1>4, ListStep
<1>5. ASSUME NEW cid \in Client, process_hb(cid)
      PROVE  IInv'
  BY <1>0, <1>5, QuietRequests
<1>6. CASE UNCHANGED vars
  BY <1>0, <1>6, SameStep DEF vars, SaysTheSame
<1>. QED BY <1>1, <1>2, <1>3, <1>4, <1>5, <1>6 DEF Next

(* The inductive invariant holds from the start.                           *)
LEMMA InductiveInvariant ==
    ASSUME BootHasFw = {TRUE}
    PROVE  Spec => []IInv
<1>1. Init => IInv
  <2>1. Init => TypeOK
    BY NoRowIsRow DEF Init, TypeOK, CreateChargeStationsTable
  <2>2. Init => \A s \in Sern : /\ cs[s] = NoRow /\ reply[s] = "none"
                                /\ last[s] = [heard |-> 0, pub |-> FALSE]
    BY DEF Init, CreateChargeStationsTable
  <2>. QED BY <2>1, <2>2, EndpointAssumption
           DEF IInv, NoRow, HeardOnlyStored, BootAcceptedOnlyRegistered,
               AddressLeadsHome, PublicUseIsTheStations,
               MissedHeartbeatTolerated, Init
<1>2. IInv /\ [Next]_vars => IInv'
  BY InductiveStep
<1>. QED BY <1>1, <1>2, PTL DEF Spec

(* Provided every BootNotification carries a firmwareVersion, only          *)
(* registered stations are accepted.                                       *)
THEOREM AcceptedAreRegistered ==
    ASSUME BootHasFw = {TRUE}
    PROVE  Spec => []BootAcceptedOnlyRegistered
<1>1. IInv => BootAcceptedOnlyRegistered
  BY DEF IInv
<1>. QED BY <1>1, InductiveInvariant, PTL

(* Provided every BootNotification carries a firmwareVersion, the address   *)
(* stored for a station is always one of its own endpoints.                *)
THEOREM AddressesLeadHome ==
    ASSUME BootHasFw = {TRUE}
    PROVE  Spec => []AddressLeadsHome
<1>1. IInv => AddressLeadsHome
  BY DEF IInv
<1>. QED BY <1>1, InductiveInvariant, PTL

(* Provided every BootNotification carries a firmwareVersion, the public-   *)
(* use bit of CertFlag is what the station said in its last accepted boot.  *)
THEOREM PublicUseKept ==
    ASSUME BootHasFw = {TRUE}
    PROVE  Spec => []PublicUseIsTheStations
<1>1. IInv => PublicUseIsTheStations
  BY DEF IInv
<1>. QED BY <1>1, InductiveInvariant, PTL

(* Provided every BootNotification carries a firmwareVersion, one missed    *)
(* heartbeat takes no connected station offline.                           *)
THEOREM HeartbeatTolerance ==
    ASSUME BootHasFw = {TRUE}
    PROVE  Spec => []MissedHeartbeatTolerated
<1>1. IInv => MissedHeartbeatTolerated
  BY DEF IInv
<1>. QED BY <1>1, InductiveInvariant, PTL

-----------------------------------------------------------------------------
(* Isolation *)

(* No message or connection event of a station changes another row. *)
LEMMA IsolationStep ==
    ASSUME BootHasFw = {TRUE}, IInv,
           NEW s \in Sern, StationMessage(s), NEW t \in Sern \ {s}
    PROVE  cs'[t] = cs[t]
<1>. PICK e \in Endpoint :
       /\ HomeOf[e] = s
       /\ \/ on_open(e)
          \/ on_close(e)
          \/ \E fw \in BootHasFw, pub \in BOOLEAN : BootNotification(e, fw, pub)
          \/ \E sern \in {s, NoSern} :
               \/ Heartbeat(e, sern)
               \/ \E st \in CpState : StatusNotification(e, sern, st)
               \/ \E st \in FwState : FirmwareStatusNotification(e, sern, st)
          \/ \E tz \in Zone : DataTransferConf(e, tz)
  BY DEF StationMessage
<1>1. CASE on_open(e) \/ on_close(e)
  <2>1. cs[t].IPAddr # e
    BY EndpointAssumption DEF IInv, AddressLeadsHome
  <2>. QED BY <1>1, <2>1 DEF on_open, on_close, UpdateChargeStationStatus
<1>2. ASSUME NEW pub \in BOOLEAN, BootNotification(e, TRUE, pub)
      PROVE  cs'[t] = cs[t]
  BY <1>2 DEF BootNotification, updateIPAddrFromOcppMessage2DB, BootRows
<1>3. ASSUME NEW sern \in {s, NoSern},
             \/ Heartbeat(e, sern)
             \/ \E st \in CpState : StatusNotification(e, sern, st)
             \/ \E st \in FwState : FirmwareStatusNotification(e, sern, st)
      PROVE  cs'[t] = cs[t]
  <2>1. t # sern
    BY NoSernAssumption
  <2>. QED BY <1>3, <2>1
           DEF Heartbeat, StatusNotification, FirmwareStatusNotification,
               UpdateOcppHBRequestMessage2DB, updateCSObjBFromOcppMessage2DB,
               updateCSFWUpdateFromOcppMessage2DB
<1>4. ASSUME NEW tz \in Zone, DataTransferConf(e, tz)
      PROVE  cs'[t] = cs[t]
  BY <1>4 DEF DataTransferConf, UpdateCSTimeZone
<1>. QED BY <1>1, <1>2, <1>3, <1>4

(* Provided every BootNotification carries a firmwareVersion, what a        *)
(* station sends, its connects and disconnects change no other row.        *)
THEOREM StationsAreIsolated ==
    ASSUME BootHasFw = {TRUE}
    PROVE  Spec => OnlyOwnRow
<1>1. IInv => \A s \in Sern : StationMessage(s) =>
                 \A t \in Sern \ {s} : cs'[t] = cs[t]
  BY IsolationStep
<1>. QED BY <1>1, InductiveInvariant, PTL DEF OnlyOwnRow

-----------------------------------------------------------------------------
(* The registry implements StationOwnership.  No assumption on boots is     *)
(* needed: a BootNotification touches neither owner nor profile.           *)

(* A serial number without a row has the values of NoRow.                  *)
AbsentRows == \A t \in Sern : ~cs[t].stored => cs[t] = NoRow

(* A step that leaves owners and profiles alone and creates no row.        *)
SameHands ==
    \A t \in Sern :
        /\ cs'[t].ClientID = cs[t].ClientID
        /\ cs'[t].ProfID = cs[t].ProfID
        /\ ~cs'[t].stored => cs'[t] = cs[t]

(* Messages of stations change neither an owner nor a profile. *)
LEMMA MessagesKeepHands ==
    ASSUME TypeOK, NEW s \in Sern, StationMessage(s)
    PROVE  SameHands
<1>0. \A t \in Sern : cs[t] \in Row
  BY DEF TypeOK
<1>. PICK e \in Endpoint :
       /\ HomeOf[e] = s
       /\ \/ on_open(e)
          \/ on_close(e)
          \/ \E fw \in BootHasFw, pub \in BOOLEAN : BootNotification(e, fw, pub)
          \/ \E sern \in {s, NoSern} :
               \/ Heartbeat(e, sern)
               \/ \E st \in CpState : StatusNotification(e, sern, st)
               \/ \E st \in FwState : FirmwareStatusNotification(e, sern, st)
          \/ \E tz \in Zone : DataTransferConf(e, tz)
  BY DEF StationMessage
<1>. USE <1>0 DEF SameHands, Row, Stored
<1>1. CASE on_open(e) \/ on_close(e)
  BY <1>1 DEF on_open, on_close, UpdateChargeStationStatus
<1>2. ASSUME NEW fw \in BootHasFw, NEW pub \in BOOLEAN, BootNotification(e, fw, pub)
      PROVE  SameHands
  BY <1>2 DEF BootNotification, updateIPAddrFromOcppMessage2DB, BootRows
<1>3. ASSUME NEW sern \in {s, NoSern}, Heartbeat(e, sern)
      PROVE  SameHands
  BY <1>3 DEF Heartbeat, UpdateOcppHBRequestMessage2DB
<1>4. ASSUME NEW sern \in {s, NoSern}, NEW st \in CpState,
             StatusNotification(e, sern, st)
      PROVE  SameHands
  BY <1>4 DEF StatusNotification, updateCSObjBFromOcppMessage2DB
<1>5. ASSUME NEW sern \in {s, NoSern}, NEW st \in FwState,
             FirmwareStatusNotification(e, sern, st)
      PROVE  SameHands
  BY <1>5 DEF FirmwareStatusNotification, updateCSFWUpdateFromOcppMessage2DB
<1>6. ASSUME NEW tz \in Zone, DataTransferConf(e, tz)
      PROVE  SameHands
  BY <1>6 DEF DataTransferConf, UpdateCSTimeZone
<1>. QED BY <1>1, <1>2, <1>3, <1>4, <1>5, <1>6

(* Every step of the registry is a step of StationOwnership or a stutter. *)
LEMMA OwnershipStep ==
    ASSUME TypeOK, AbsentRows, [Next]_vars
    PROVE  AbsentRows' /\ [Ownership!Next]_(Ownership!vars)
<1>0. cs \in [Sern -> Row] /\ \A t \in Sern : cs[t] \in Row
  BY DEF TypeOK
<1>. DEFINE Goal == AbsentRows' /\ (Ownership!Next \/ UNCHANGED Ownership!vars)
<1>1. ASSUME SameHands
      PROVE  Goal
  <2>1. AbsentRows'
    BY <1>1 DEF SameHands, AbsentRows
  <2>2. /\ [s \in Sern |-> cs[s].ClientID]' = [s \in Sern |-> cs[s].ClientID]
        /\ [s \in Sern |-> cs[s].ProfID]' = [s \in Sern |-> cs[s].ProfID]
    BY <1>1 DEF SameHands
  <2>3. UNCHANGED Ownership!vars
    BY <2>2 DEF Ownership!vars
  <2>. QED BY <2>1, <2>3
<1>2. ASSUME NEW cid \in Client, NEW s \in Sern, NEW cert \in WebCert,
             InsertChargeStation(s, cid, cert)
      PROVE  Goal
  <2>1. CASE cs[s].stored /\ cs[s].ClientID # 0
    BY <1>1, <1>2, <2>1 DEF SameHands, InsertChargeStation,
                            InsertNewChargeStationItem
  <2>2. CASE cs[s].ClientID = 0 /\ cs[s].stored
    <3>1. /\ cs'[s].ClientID = cid /\ cs'[s].ProfID = cs[s].ProfID
          /\ cs'[s].stored
          /\ \A t \in Sern \ {s} : cs'[t] = cs[t]
      BY <1>0, <1>2, <2>2 DEF InsertChargeStation, InsertNewChargeStationItem, Row
    <3>2. Ownership!Claim(s, cid)
      BY <2>2, <3>1 DEF Ownership!Claim
    <3>. QED BY <3>1, <3>2 DEF Ownership!Next, AbsentRows
  <2>3. CASE ~cs[s].stored
    <3>1. cs[s].ClientID = 0 /\ cs[s].ProfID = 0
      BY <2>3 DEF AbsentRows, NoRow
    <3>2. /\ cs'[s].ClientID = cid /\ cs'[s].ProfID = 0 /\ cs'[s].stored
          /\ \A t \in Sern \ {s} : cs'[t] = cs[t]
      BY <1>0, <1>2, <2>3 DEF InsertChargeStation, InsertNewChargeStationItem, NoRow
    <3>3. Ownership!Claim(s, cid)
      BY <3>1, <3>2 DEF Ownership!Claim
    <3>. QED BY <3>2, <3>3 DEF Ownership!Next, AbsentRows
  <2>. QED BY <2>1, <2>2, <2>3
<1>3. ASSUME NEW cid \in Client, NEW s \in Sern, DeleteStation(s, cid)
      PROVE  Goal
  <2>1. CASE ~cs[s].stored
    BY <1>1, <1>3, <2>1 DEF SameHands, DeleteStation, DeleteChargeStation
  <2>2. CASE cs[s].stored
    <3>1. /\ cs'[s].ClientID = 0 /\ cs'[s].ProfID = cs[s].ProfID /\ cs'[s].stored
          /\ \A t \in Sern \ {s} : cs'[t] = cs[t]
      BY <1>0, <1>3, <2>2 DEF DeleteStation, DeleteChargeStation, Row
    <3>2. Ownership!Release(s)
      BY <3>1 DEF Ownership!Release
    <3>. QED BY <3>1, <3>2 DEF Ownership!Next, AbsentRows
  <2>. QED BY <2>1, <2>2
<1>4. ASSUME NEW cid \in Client, NEW pid \in 1..MaxProf, NEW S \in SUBSET Sern,
             SaveProfile(cid, pid, S)
      PROVE  Goal
  <2>. DEFINE R == OwnedBy(cs, cid) \cap S
  <2>1. \A t \in Sern : /\ cs'[t].ClientID = cs[t].ClientID
                        /\ cs'[t].ProfID = IF t \in R THEN pid ELSE cs[t].ProfID
                        /\ ~cs'[t].stored => cs'[t] = cs[t]
    BY <1>0, <1>4 DEF SaveProfile, UpdateCSStationsWithProfile, OwnedBy, Stored, Row
  <2>2. R \in SUBSET Sern /\ \A t \in R : cs[t].ClientID = cid
    BY DEF OwnedBy, Stored
  <2>3. Ownership!Assign(cid, R, pid)
    BY <2>1, <2>2 DEF Ownership!Assign
  <2>. QED BY <2>1, <2>2, <2>3 DEF Ownership!Next, AbsentRows
<1>5. ASSUME NEW s \in Sern, RemoveProfile(s)
      PROVE  Goal
  <2>1. CASE ~cs[s].stored
    BY <1>1, <1>5, <2>1 DEF SameHands, RemoveProfile, removeChargingProfilefromCS,
                            Stored
  <2>2. CASE cs[s].stored
    <3>1. /\ cs'[s].ClientID = cs[s].ClientID /\ cs'[s].ProfID = 0 /\ cs'[s].stored
          /\ \A t \in Sern \ {s} : cs'[t] = cs[t]
      BY <1>0, <1>5, <2>2 DEF RemoveProfile, removeChargingProfilefromCS, Stored, Row
    <3>2. Ownership!Unassign(s)
      BY <3>1 DEF Ownership!Unassign
    <3>. QED BY <3>1, <3>2 DEF Ownership!Next, AbsentRows
  <2>. QED BY <2>1, <2>2
<1>6. ASSUME NEW cid \in Client, NEW pid \in {-1, 0}, NewProfile(cid, pid)
      PROVE  Goal
  BY <1>1, <1>6 DEF NewProfile, SameHands
<1>7. ASSUME NEW s \in Sern, createUpdateFWRequestfromWeb(s)
      PROVE  Goal
  <2>1. SameHands
    BY <1>0, <1>7 DEF SameHands, createUpdateFWRequestfromWeb, Stored,
                      updateCSFWUpdateFromOcppMessage2DB, Row
  <2>. QED BY <1>1, <2>1
<1>8. ASSUME ListStations \/ \E cid \in Client : process_hb(cid)
      PROVE  Goal
  <2>1. CASE ListStations
    BY <1>0, <1>1, <2>1 DEF SameHands, ListStations, getChargeStations,
                            StaleRows, Stored, Row
  <2>2. ASSUME NEW cid \in Client, process_hb(cid)
        PROVE  Goal
    <3>1. SameHands
      BY <1>0, <2>2 DEF SameHands, process_hb, GetAllChargeStations_UpdMob,
                        FlaggedRows, OwnedBy, Stored, Row
    <3>. QED BY <1>1, <3>1
  <2>. QED BY <1>8, <2>1, <2>2
<1>9. ASSUME Tick \/ UNCHANGED vars
      PROVE  Goal
  BY <1>1, <1>9 DEF SameHands, Tick, vars
<1>10. ASSUME NEW s \in Sern, StationMessage(s)
       PROVE  Goal
  BY <1>1, <1>10, MessagesKeepHands
<1>11. ASSUME NEW cid \in Client, WebRequest(cid)
       PROVE  Goal
  <2>1. ASSUME NEW pid \in 1..MaxProf, NEW S \in {{s} : s \in Sern} \cup {Sern},
               SaveProfile(cid, pid, S)
        PROVE  Goal
    BY <1>4, <2>1
  <2>. QED BY <1>2, <1>3, <1>5, <1>6, <1>7, <1>11, <2>1 DEF WebRequest
<1>. QED BY <1>8, <1>9, <1>10, <1>11 DEF Next

(* The registry implements StationOwnership: no client takes a station      *)
(* that another one owns, and profiles go only to stations of their client. *)
THEOREM RegistryImplementsOwnership == Spec => ImplementsOwnership
<1>1. Init => AbsentRows /\ Ownership!Init
  BY DEF Init, AbsentRows, CreateChargeStationsTable, NoRow, Ownership!Init
<1>2. TypeOK /\ AbsentRows /\ [Next]_vars =>
        AbsentRows' /\ [Ownership!Next]_(Ownership!vars)
  BY OwnershipStep
<1>. QED BY <1>1, <1>2, TypeCorrect, PTL DEF Spec, ImplementsOwnership, Ownership!Spec
=============================================================================
