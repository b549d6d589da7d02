-------------------------- MODULE MobileSyncProofs --------------------------
(* Proofs about MobileSync, for any stations, clients and mobiles. *)
EXTENDS MobileSync, StationRegistryProofs

-----------------------------------------------------------------------------
(* Lists *)

(* A list is one when each of its stations has an item.                     *)
LEMMA ListOfItems ==
    ASSUME NEW S \in SUBSET Sern, NEW f, f \in [S -> Items]
    PROVE  f \in Lists
BY DEF Lists

(* The stations of a list and their items.                                  *)
LEMMA ListFacts ==
    ASSUME NEW f \in Lists
    PROVE  DOMAIN f \subseteq Sern /\ f \in [DOMAIN f -> Items]
BY DEF Lists

(* A mobile merges the rows of an answer into its list.                     *)
LEMMA MergedList ==
    ASSUME NEW f \in Lists, NEW g \in Lists
    PROVE  /\ Merged(f, g) \in Lists
           /\ DOMAIN Merged(f, g) = DOMAIN f \cup DOMAIN g
           /\ \A s \in DOMAIN f : Merged(f, g)[s] = f[s]
           /\ \A s \in DOMAIN g \ DOMAIN f : Merged(f, g)[s] = g[s]
<1>1. /\ DOMAIN f \subseteq Sern /\ f \in [DOMAIN f -> Items]
      /\ DOMAIN g \subseteq Sern /\ g \in [DOMAIN g -> Items]
  BY ListFacts
<1>2. Merged(f, g) = [s \in DOMAIN f \cup DOMAIN g |-> IF s \in DOMAIN f THEN f[s] ELSE g[s]]
  BY DEF Merged
<1>3. Merged(f, g) \in [DOMAIN f \cup DOMAIN g -> Items]
  BY <1>1, <1>2
<1>. QED BY <1>1, <1>2, <1>3, ListOfItems

(* An answer built from rows of the table has an item for each.             *)
LEMMA AnswerType ==
    ASSUME NEW table \in Tables, NEW rows \in SUBSET Sern, NEW owed \in SUBSET Sern,
           NEW kind \in {"none", "full", "changes"}
    PROVE  Answer(kind, table, rows, owed) \in
              [kind : {"none", "full", "changes"}, items : Lists, owed : SUBSET Sern]
<1>1. \A s \in Sern : Item(table[s]) \in Items
  BY DEF Item, Items, Tables, Row
<1>2. [s \in rows |-> Item(table[s])] \in [rows -> Items]
  BY <1>1
<1>3. [s \in rows |-> Item(table[s])] \in Lists
  BY <1>2, ListOfItems
<1>. QED BY <1>3 DEF Answer

-----------------------------------------------------------------------------
(* Types *)

Answers == [kind : {"none", "full", "changes"}, items : Lists, owed : SUBSET Sern]

(* Every step of the registry and the mobiles is one of the registry.       *)
LEMMA RegistryStep ==
    ASSUME [SyncNext]_syncVars
    PROVE  [Next]_vars
<1>1. CASE Elsewhere
  BY <1>1 DEF Elsewhere, Next
<1>2. ASSUME NEW m \in Mobile, MobileStep(m)
      PROVE  [Next]_vars
  BY <1>2, ClientOfType
     DEF MobileStep, GetChargeStationsFromDB_Mob, MobileHeartbeat, Deliver, Lose, Next
<1>3. CASE UNCHANGED syncVars
  BY <1>3 DEF syncVars
<1>. QED BY <1>1, <1>2, <1>3 DEF SyncNext

(* Every step keeps the types of what the mobiles show and are sent.        *)
LEMMA SyncTypeStep ==
    ASSUME TypeOK, TypeOK', SyncTypeOK, [SyncNext]_syncVars
    PROVE  SyncTypeOK'
<1>. USE DEF SyncTypeOK
<1>0. /\ cs \in Tables /\ cs' \in Tables
      /\ \A c : OwnedBy(cs, c) \subseteq Sern /\ FlaggedRows(cs, c) \subseteq Sern
      /\ EmptyList \in Lists /\ NoAnswer \in Answers
  <2>1. EmptyList \in [{} -> Items]
    BY DEF EmptyList
  <2>2. EmptyList \in Lists
    BY <2>1, ListOfItems
  <2>. QED BY <2>2 DEF TypeOK, Tables, OwnedBy, FlaggedRows, Stored, NoAnswer, Answers
<1>1. CASE Elsewhere
  <2>1. missed' \in [Mobile -> SUBSET Sern]
    BY <1>0, <1>1 DEF Elsewhere
  <2>. QED BY <1>1, <2>1 DEF Elsewhere
<1>2. ASSUME NEW m \in Mobile, GetChargeStationsFromDB_Mob(m)
      PROVE  SyncTypeOK'
  <2>. DEFINE own == OwnedBy(cs, ClientOf[m])
              a == Answer("full", cs', own, missed[m] \cap own)
  <2>1. a \in Answers
    BY <1>0, AnswerType DEF Answers
  <2>. HIDE DEF a
  <2>2. net' = [net EXCEPT ![m] = a] /\ missed' = [missed EXCEPT ![m] = missed[m] \ own]
        /\ UNCHANGED mob
    BY <1>2 DEF GetChargeStationsFromDB_Mob, a
  <2>. QED BY <2>1, <2>2 DEF Answers
<1>3. ASSUME NEW m \in Mobile, MobileHeartbeat(m)
      PROVE  SyncTypeOK'
  <2>. DEFINE news == FlaggedRows(cs, ClientOf[m])
              a == Answer("changes", cs, news, news)
  <2>1. a \in Answers
    BY <1>0, AnswerType DEF Answers
  <2>. HIDE DEF a
  <2>2. net' = [net EXCEPT ![m] = a] /\ UNCHANGED mob
    BY <1>3 DEF MobileHeartbeat, a
  <2>3. missed' \in [Mobile -> SUBSET Sern]
    BY <1>0, <1>3 DEF MobileHeartbeat
  <2>. QED BY <2>1, <2>2, <2>3 DEF Answers
<1>4. ASSUME NEW m \in Mobile, Deliver(m)
      PROVE  SyncTypeOK'
  <2>1. Merged(net[m].items, mob[m]) \in Lists /\ net[m].items \in Lists
    BY MergedList
  <2>2. mob' \in [Mobile -> Lists]
    BY <1>4, <2>1 DEF Deliver
  <2>3. net' \in [Mobile -> Answers]
    BY <1>0, <1>4 DEF Deliver, Answers
  <2>. QED BY <1>4, <2>2, <2>3 DEF Deliver, Answers
<1>5. ASSUME NEW m \in Mobile, Lose(m)
      PROVE  SyncTypeOK'
  <2>1. net' \in [Mobile -> Answers]
    BY <1>0, <1>5 DEF Lose, Answers
  <2>2. missed' \in [Mobile -> SUBSET Sern]
    BY <1>5 DEF Lose
  <2>. QED BY <1>5, <2>1, <2>2 DEF Lose, Answers
<1>6. CASE UNCHANGED syncVars
  BY <1>6 DEF syncVars, mobVars
<1>. QED BY <1>1, <1>2, <1>3, <1>4, <1>5, <1>6 DEF SyncNext, MobileStep

(* The types of the registry and of the mobiles hold together.              *)
LEMMA SyncTypes == SyncSpec => [](TypeOK /\ SyncTypeOK)
<1>1. SyncInit => TypeOK /\ SyncTypeOK
  <2>1. SyncInit => TypeOK
    BY NoRowIsRow DEF SyncInit, Init, TypeOK, CreateChargeStationsTable
  <2>2. EmptyList \in Lists
    <3>1. EmptyList \in [{} -> Items]
      BY DEF EmptyList
    <3>. QED BY <3>1, ListOfItems
  <2>. QED BY <2>1, <2>2 DEF SyncInit, SyncTypeOK, NoAnswer
<1>2. TypeOK /\ SyncTypeOK /\ [SyncNext]_syncVars => TypeOK' /\ SyncTypeOK'
  BY RegistryStep, TypeStep, SyncTypeStep
<1>. QED BY <1>1, <1>2, PTL DEF SyncSpec

(* What the mobiles show and are sent has its types.                        *)
THEOREM SyncTypeCorrect == SyncSpec => []SyncTypeOK
BY SyncTypes, PTL

-----------------------------------------------------------------------------
(* Flags *)

(* What the flag says of a row: a change of the state, the profile or the   *)
(* time zone sets it, and nothing but a heartbeat of the client clears it. *)
LEMMA NewsAreFlagged ==
    ASSUME TypeOK, TypeOK',
           \/ \E s \in Sern : StationMessage(s)
           \/ \E cid \in Client : WebRequest(cid)
           \/ Tick
           \/ ListStations
    PROVE  \A s \in Stored(cs) :
              /\ s \in Stored(cs')
              /\ cs[s].UpdMob => cs'[s].UpdMob
              /\ cs'[s].UpdMob \/ Flagged(Item(cs'[s])) = Flagged(Item(cs[s]))
<1>. DEFINE Kept(s) == /\ cs'[s].stored
                       /\ cs[s].UpdMob => cs'[s].UpdMob
                       /\ \/ cs'[s].UpdMob
                          \/ /\ cs'[s].ObjB = cs[s].ObjB
                             /\ cs'[s].ProfID = cs[s].ProfID /\ cs'[s].TZ = cs[s].TZ
<1>. SUFFICES ASSUME NEW s \in Sern, cs[s].stored PROVE Kept(s)
  BY DEF Stored, Flagged, Item
<1>0. cs[s] \in Row /\ cs \in [Sern -> Row]
  BY DEF TypeOK
<1>1. ASSUME NEW t \in Sern, StationMessage(t)
      PROVE  Kept(s)
  <2>1. PICK e \in Endpoint :
         \/ on_open(e)
         \/ on_close(e)
         \/ \E fw \in BootHasFw, pub \in BOOLEAN : BootNotification(e, fw, pub)
         \/ \E sern \in {t, NoSern} :
               \/ Heartbeat(e, sern)
               \/ \E st \in CpState : StatusNotification(e, sern, st)
               \/ \E st \in FwState : FirmwareStatusNotification(e, sern, st)
         \/ \E tz \in Zone : DataTransferConf(e, tz)
    BY <1>1 DEF StationMessage
  <2>2. CASE on_open(e) \/ on_close(e)
    BY <1>0, <2>2 DEF on_open, on_close, UpdateChargeStationStatus, Row
  <2>3. ASSUME NEW fw \in BootHasFw, NEW pub \in BOOLEAN, BootNotification(e, fw, pub)
        PROVE  Kept(s)
    BY <1>0, <2>3 DEF BootNotification, updateIPAddrFromOcppMessage2DB, Row
  <2>4. ASSUME NEW sern, Heartbeat(e, sern)
        PROVE  Kept(s)
    BY <1>0, <2>4 DEF Heartbeat, UpdateOcppHBRequestMessage2DB, Row
  <2>5. ASSUME NEW sern, NEW st, StatusNotification(e, sern, st)
        PROVE  Kept(s)
    BY <1>0, <2>5 DEF StatusNotification, updateCSObjBFromOcppMessage2DB, Row
  <2>6. ASSUME NEW sern, NEW st, FirmwareStatusNotification(e, sern, st)
        PROVE  Kept(s)
    BY <1>0, <2>6 DEF FirmwareStatusNotification, updateCSFWUpdateFromOcppMessage2DB, Row
  <2>7. ASSUME NEW tz, DataTransferConf(e, tz)
        PROVE  Kept(s)
    BY <1>0, <2>7 DEF DataTransferConf, UpdateCSTimeZone, Row
  <2>. HIDE DEF Kept
  <2>. QED BY <2>1, <2>2, <2>3, <2>4, <2>5, <2>6, <2>7
<1>2. ASSUME NEW cid \in Client, WebRequest(cid)
      PROVE  Kept(s)
  <2>1. ASSUME NEW t \in Sern, NEW cert, InsertChargeStation(t, cid, cert)
        PROVE  Kept(s)
    BY <1>0, <2>1 DEF InsertChargeStation, InsertNewChargeStationItem, Row
  <2>2. ASSUME NEW t \in Sern, DeleteStation(t, cid)
        PROVE  Kept(s)
    BY <1>0, <2>2 DEF DeleteStation, DeleteChargeStation, Row
  <2>3. ASSUME NEW pid, NEW serns, SaveProfile(cid, pid, serns)
        PROVE  Kept(s)
    BY <1>0, <2>3 DEF SaveProfile, UpdateCSStationsWithProfile, Row
  <2>4. ASSUME NEW pid, NewProfile(cid, pid)
        PROVE  Kept(s)
    BY <2>4 DEF NewProfile
  <2>5. ASSUME NEW t \in Sern, RemoveProfile(t)
        PROVE  Kept(s)
    BY <1>0, <2>5 DEF RemoveProfile, removeChargingProfilefromCS, Row
  <2>6. ASSUME NEW t \in Sern, createUpdateFWRequestfromWeb(t)
        PROVE  Kept(s)
    BY <1>0, <2>6 DEF createUpdateFWRequestfromWeb, updateCSFWUpdateFromOcppMessage2DB, Row
  <2>. HIDE DEF Kept
  <2>. QED BY <1>2, <2>1, <2>2, <2>3, <2>4, <2>5, <2>6 DEF WebRequest
<1>3. CASE Tick
  BY <1>3 DEF Tick
<1>4. CASE ListStations
  BY <1>0, <1>4 DEF ListStations, getChargeStations, Row
<1>. HIDE DEF Kept
<1>. QED BY <1>1, <1>2, <1>3, <1>4

-----------------------------------------------------------------------------
(* News.  A mobile is behind only where news are flagged, on their way or   *)
(* missed.  For this to last, the same is kept of what is on its way: an    *)
(* answer is behind only where newer news are flagged or missed, and so is  *)
(* a mobile whose answer brings a row without owing it news, as it may be   *)
(* lost.  A list may hold a station of another owner only if its mobile     *)
(* missed the release; it could come back.                                 *)

Owned(m) == OwnedBy(cs, ClientOf[m])

AnswersFit ==
    \A m \in Mobile :
        /\ net[m].kind = "none" => DOMAIN net[m].items = {}
        /\ net[m].kind = "changes" => net[m].owed = DOMAIN net[m].items

AnswersStaleOnlyIfMissed ==
    \A m \in Mobile, s \in Sern :
        /\ s \in DOMAIN net[m].items /\ s \in Owned(m)
        /\ Flagged(net[m].items[s]) # Flagged(Item(cs[s]))
        => cs[s].UpdMob \/ s \in missed[m]

NothingOwed ==
    \A m \in Mobile, s \in Sern :
        /\ net[m].kind = "full" /\ s \in DOMAIN net[m].items \ net[m].owed
        /\ s \in DOMAIN mob[m] /\ s \in Owned(m)
        /\ Flagged(mob[m][s]) # Flagged(Item(cs[s]))
        => cs[s].UpdMob \/ s \in missed[m]

ReleasesMissed ==
    \A m \in Mobile : (DOMAIN mob[m] \cup DOMAIN net[m].items) \ Owned(m) \subseteq missed[m]

NewsInv ==
    /\ AnswersFit
    /\ StaleOnlyIfMissed
    /\ AnswersStaleOnlyIfMissed
    /\ NothingOwed
    /\ ReleasesMissed

(* Steps of the registry in which no mobile takes part.                     *)
LEMMA NewsElsewhere ==
    ASSUME TypeOK, TypeOK', SyncTypeOK, NewsInv, Elsewhere
    PROVE  NewsInv'
<1>0. UNCHANGED <<mob, net>>
  BY DEF Elsewhere
<1>1. ASSUME NEW m \in Mobile, NEW s \in Sern, s \in Owned(m)
      PROVE  /\ cs[s].UpdMob => cs'[s].UpdMob
             /\ cs'[s].UpdMob \/ Flagged(Item(cs'[s])) = Flagged(Item(cs[s]))
  <2>1. s \in Stored(cs) /\ cs[s].ClientID = ClientOf[m]
    BY <1>1 DEF Owned, OwnedBy
  <2>2. ASSUME NEW c \in Client \ {ClientOf[n] : n \in Mobile}, process_hb(c)
        PROVE  cs'[s] = cs[s]
    <3>1. s \notin FlaggedRows(cs, c)
      BY <2>1, <2>2 DEF FlaggedRows, OwnedBy
    <3>. QED BY <2>2, <3>1 DEF process_hb, GetAllChargeStations_UpdMob
  <2>3. CASE \/ \E t \in Sern : StationMessage(t)
             \/ \E cid \in Client : WebRequest(cid)
             \/ Tick
             \/ ListStations
    BY <2>1, <2>3, NewsAreFlagged
  <2>. QED BY <2>2, <2>3 DEF Elsewhere
<1>2. ASSUME NEW m \in Mobile
      PROVE  /\ missed[m] \subseteq missed'[m]
             /\ Owned(m) \ Owned(m)' \subseteq missed'[m]
  BY <1>2 DEF Elsewhere, Owned
<1>3. AnswersFit'
  BY <1>0 DEF NewsInv, AnswersFit
<1>4. ReleasesMissed'
  BY <1>0, <1>2 DEF NewsInv, ReleasesMissed
<1>5. ASSUME NEW m \in Mobile, NEW s \in Sern, s \in Owned(m)', s \notin missed'[m],
             s \in DOMAIN mob[m] \cup DOMAIN net[m].items, ~cs'[s].UpdMob
      PROVE  /\ s \in Owned(m) /\ s \notin missed[m] /\ ~cs[s].UpdMob
             /\ Flagged(Item(cs'[s])) = Flagged(Item(cs[s]))
  <2>1. s \notin missed[m] /\ s \in Owned(m)
    BY <1>2, <1>5 DEF NewsInv, ReleasesMissed
  <2>. QED BY <1>1, <1>5, <2>1
<1>6. StaleOnlyIfMissed'
  <2>. SUFFICES ASSUME NEW m \in Mobile, NEW s \in Sern, s \in DOMAIN mob[m],
                       s \in Owned(m)', ~cs'[s].UpdMob, s \notin missed'[m],
                       s \notin DOMAIN net[m].items,
                       Flagged(mob[m][s]) # Flagged(Item(cs'[s]))
                PROVE  FALSE
    BY <1>0 DEF StaleOnlyIfMissed, Behind, Coming, Owned
  <2>1. /\ s \in Owned(m) /\ s \notin missed[m] /\ ~cs[s].UpdMob
        /\ Flagged(Item(cs'[s])) = Flagged(Item(cs[s]))
    BY <1>5
  <2>. QED BY <2>1 DEF NewsInv, StaleOnlyIfMissed, Behind, Coming, Owned
<1>7. AnswersStaleOnlyIfMissed'
  <2>. SUFFICES ASSUME NEW m \in Mobile, NEW s \in Sern, s \in DOMAIN net[m].items,
                       s \in Owned(m)', ~cs'[s].UpdMob, s \notin missed'[m],
                       Flagged(net[m].items[s]) # Flagged(Item(cs'[s]))
                PROVE  FALSE
    BY <1>0 DEF AnswersStaleOnlyIfMissed
  <2>1. /\ s \in Owned(m) /\ s \notin missed[m] /\ ~cs[s].UpdMob
        /\ Flagged(Item(cs'[s])) = Flagged(Item(cs[s]))
    BY <1>5
  <2>. QED BY <2>1 DEF NewsInv, AnswersStaleOnlyIfMissed
<1>8. NothingOwed'
  <2>. SUFFICES ASSUME NEW m \in Mobile, NEW s \in Sern, s \in DOMAIN mob[m],
                       net[m].kind = "full", s \in DOMAIN net[m].items \ net[m].owed,
                       s \in Owned(m)', ~cs'[s].UpdMob, s \notin missed'[m],
                       Flagged(mob[m][s]) # Flagged(Item(cs'[s]))
                PROVE  FALSE
    BY <1>0 DEF NothingOwed
  <2>1. /\ s \in Owned(m) /\ s \notin missed[m] /\ ~cs[s].UpdMob
        /\ Flagged(Item(cs'[s])) = Flagged(Item(cs[s]))
    BY <1>5
  <2>. QED BY <2>1 DEF NewsInv, NothingOwed
<1>. QED BY <1>3, <1>4, <1>6, <1>7, <1>8 DEF NewsInv

(* An answer that brings the rows as they are.                              *)
LEMMA AnswerFacts ==
    ASSUME NEW kind, NEW table, NEW rows, NEW owed
    PROVE  LET a == Answer(kind, table, rows, owed)
           IN  /\ a.kind = kind /\ a.owed = owed /\ DOMAIN a.items = rows
               /\ \A s \in rows : a.items[s] = Item(table[s])
BY DEF Answer

(* The full list: the listing may set flags, and clears none.               *)
LEMMA NewsList ==
    ASSUME TypeOK, TypeOK', SyncTypeOK, NewsInv, NEW m \in Mobile,
           GetChargeStationsFromDB_Mob(m)
    PROVE  NewsInv'
<1>. DEFINE own == Owned(m)
<1>0. /\ UNCHANGED mob /\ net[m].kind = "none" /\ DOMAIN net[m].items = {}
      /\ \A n \in Mobile : n # m => net'[n] = net[n] /\ missed'[n] = missed[n]
      /\ missed'[m] = missed[m] \ own
  BY DEF GetChargeStationsFromDB_Mob, Owned, NewsInv, AnswersFit, SyncTypeOK
<1>1. /\ net'[m].kind = "full" /\ net'[m].owed = missed[m] \cap own
      /\ DOMAIN net'[m].items = own
      /\ \A s \in own : net'[m].items[s] = Item(cs'[s])
  BY AnswerFacts DEF GetChargeStationsFromDB_Mob, Owned, SyncTypeOK
<1>2. \A s \in Sern :
         /\ cs'[s].stored = cs[s].stored /\ cs'[s].ClientID = cs[s].ClientID
         /\ cs[s].UpdMob => cs'[s].UpdMob
         /\ Flagged(Item(cs'[s])) = Flagged(Item(cs[s]))
  <2>1. \A s \in Sern : cs[s] \in Row
    BY DEF TypeOK
  <2>2. \A s \in Sern : \/ cs'[s] = cs[s]
                        \/ cs'[s] = [cs[s] EXCEPT !.Status = 0, !.UpdMob = TRUE]
    BY DEF GetChargeStationsFromDB_Mob, ListStations, getChargeStations
  <2>. QED BY <2>1, <2>2 DEF Flagged, Item, Row
<1>3. \A n \in Mobile : Owned(n)' = Owned(n)
  BY <1>2 DEF Owned, OwnedBy, Stored
<1>. HIDE DEF own
<1>4. AnswersFit'
  BY <1>0, <1>1 DEF NewsInv, AnswersFit
<1>5. ReleasesMissed'
  BY <1>0, <1>1, <1>3 DEF NewsInv, ReleasesMissed, own
<1>6. StaleOnlyIfMissed'
  <2>. SUFFICES ASSUME NEW n \in Mobile, NEW s \in Sern, s \in DOMAIN mob[n],
                       s \in Owned(n), ~cs'[s].UpdMob, s \notin missed'[n],
                       s \notin DOMAIN net'[n].items,
                       Flagged(mob[n][s]) # Flagged(Item(cs'[s]))
                PROVE  FALSE
    BY <1>0, <1>3 DEF StaleOnlyIfMissed, Behind, Coming, Owned
  <2>1. n # m
    BY <1>1 DEF own
  <2>. QED BY <1>0, <1>2, <2>1 DEF NewsInv, StaleOnlyIfMissed, Behind, Coming, Owned
<1>7. AnswersStaleOnlyIfMissed'
  BY <1>0, <1>1, <1>2, <1>3 DEF NewsInv, AnswersStaleOnlyIfMissed, own
<1>8. NothingOwed'
  <2>. SUFFICES ASSUME NEW n \in Mobile, NEW s \in Sern, s \in DOMAIN mob[n],
                       net'[n].kind = "full", s \in DOMAIN net'[n].items \ net'[n].owed,
                       s \in Owned(n), ~cs'[s].UpdMob, s \notin missed'[n],
                       Flagged(mob[n][s]) # Flagged(Item(cs'[s]))
                PROVE  FALSE
    BY <1>0, <1>3 DEF NothingOwed
  <2>1. CASE n = m
    <3>1. s \notin missed[m] /\ s \in own
      BY <1>1, <2>1
    <3>. QED BY <1>0, <1>2, <2>1, <3>1 DEF NewsInv, StaleOnlyIfMissed, Behind, Coming, Owned
  <2>2. CASE n # m
    BY <1>0, <1>2, <2>2 DEF NewsInv, NothingOwed
  <2>. QED BY <2>1, <2>2
<1>. QED BY <1>4, <1>5, <1>6, <1>7, <1>8 DEF NewsInv

(* A heartbeat clears flags: this mobile gets the rows, the other mobiles   *)
(* of the client miss them.                                                *)
LEMMA NewsHeartbeat ==
    ASSUME TypeOK, TypeOK', SyncTypeOK, NewsInv, NEW m \in Mobile, MobileHeartbeat(m)
    PROVE  NewsInv'
<1>. DEFINE news == FlaggedRows(cs, ClientOf[m])
<1>0. /\ UNCHANGED mob /\ net[m].kind = "none" /\ DOMAIN net[m].items = {}
      /\ \A n \in Mobile : n # m => net'[n] = net[n]
      /\ missed'[m] = missed[m] \ news
      /\ \A n \in Mobile : n # m => missed[n] \subseteq missed'[n]
      /\ \A n \in Mobile : n # m /\ ClientOf[n] = ClientOf[m] => news \subseteq missed'[n]
  BY DEF MobileHeartbeat, NewsInv, AnswersFit, SyncTypeOK
<1>1. /\ net'[m].kind = "changes" /\ net'[m].owed = news
      /\ DOMAIN net'[m].items = news
      /\ \A s \in news : net'[m].items[s] = Item(cs[s])
  BY AnswerFacts DEF MobileHeartbeat, SyncTypeOK
<1>2. \A s \in Sern :
         /\ cs'[s].stored = cs[s].stored /\ cs'[s].ClientID = cs[s].ClientID
         /\ cs[s].UpdMob => cs'[s].UpdMob \/ s \in news
         /\ Flagged(Item(cs'[s])) = Flagged(Item(cs[s]))
  <2>1. \A s \in Sern : cs[s] \in Row
    BY DEF TypeOK
  <2>2. \A s \in Sern : \/ cs'[s] = cs[s]
                        \/ s \in news /\ cs'[s] = [cs[s] EXCEPT !.UpdMob = FALSE]
    BY DEF MobileHeartbeat, process_hb, GetAllChargeStations_UpdMob
  <2>. QED BY <2>1, <2>2 DEF Flagged, Item, Row
<1>3. \A n \in Mobile : Owned(n)' = Owned(n)
  BY <1>2 DEF Owned, OwnedBy, Stored
<1>3a. \A n \in Mobile, s \in news : s \in Owned(n) => ClientOf[n] = ClientOf[m]
  BY DEF FlaggedRows, Owned, OwnedBy
<1>3b. news \subseteq Owned(m)
  BY DEF FlaggedRows, Owned
<1>. HIDE DEF news
<1>3c. ASSUME NEW n \in Mobile, n # m, NEW s \in Sern, s \in Owned(n), ~cs'[s].UpdMob,
              s \notin missed'[n]
       PROVE  ~cs[s].UpdMob /\ s \notin missed[n]
  BY <1>0, <1>2, <1>3a, <1>3c
<1>4. AnswersFit'
  BY <1>0, <1>1 DEF NewsInv, AnswersFit
<1>5. ReleasesMissed'
  BY <1>0, <1>1, <1>3, <1>3b DEF NewsInv, ReleasesMissed
<1>6. StaleOnlyIfMissed'
  <2>. SUFFICES ASSUME NEW n \in Mobile, NEW s \in Sern, s \in DOMAIN mob[n],
                       s \in Owned(n), ~cs'[s].UpdMob, s \notin missed'[n],
                       s \notin DOMAIN net'[n].items,
                       Flagged(mob[n][s]) # Flagged(Item(cs'[s]))
                PROVE  FALSE
    BY <1>0, <1>3 DEF StaleOnlyIfMissed, Behind, Coming, Owned
  <2>1. CASE n = m
    <3>1. s \notin news /\ s \notin missed[m] /\ ~cs[s].UpdMob
      BY <1>0, <1>1, <1>2, <2>1
    <3>. QED BY <1>0, <1>2, <2>1, <3>1 DEF NewsInv, StaleOnlyIfMissed, Behind, Coming, Owned
  <2>2. CASE n # m
    BY <1>0, <1>2, <1>3c, <2>2 DEF NewsInv, StaleOnlyIfMissed, Behind, Coming, Owned
  <2>. QED BY <2>1, <2>2
<1>7. AnswersStaleOnlyIfMissed'
  <2>. SUFFICES ASSUME NEW n \in Mobile, NEW s \in Sern, s \in DOMAIN net'[n].items,
                       s \in Owned(n), ~cs'[s].UpdMob, s \notin missed'[n],
                       Flagged(net'[n].items[s]) # Flagged(Item(cs'[s]))
                PROVE  FALSE
    BY <1>3 DEF AnswersStaleOnlyIfMissed
  <2>1. CASE n = m
    BY <1>1, <1>2, <2>1
  <2>2. CASE n # m
    BY <1>0, <1>2, <1>3c, <2>2 DEF NewsInv, AnswersStaleOnlyIfMissed
  <2>. QED BY <2>1, <2>2
<1>8. NothingOwed'
  <2>. SUFFICES ASSUME NEW n \in Mobile, NEW s \in Sern, s \in DOMAIN mob[n],
                       net'[n].kind = "full", s \in DOMAIN net'[n].items \ net'[n].owed,
                       s \in Owned(n), ~cs'[s].UpdMob, s \notin missed'[n],
                       Flagged(mob[n][s]) # Flagged(Item(cs'[s]))
                PROVE  FALSE
    BY <1>0, <1>3 DEF NothingOwed
  <2>1. n # m
    BY <1>1
  <2>. QED BY <1>0, <1>2, <1>3c, <2>1 DEF NewsInv, NothingOwed
<1>. QED BY <1>4, <1>5, <1>6, <1>7, <1>8 DEF NewsInv

(* The answer arrives.                                                      *)
LEMMA NewsDelivered ==
    ASSUME TypeOK, SyncTypeOK, NewsInv, NEW m \in Mobile, Deliver(m)
    PROVE  NewsInv'
<1>0. /\ UNCHANGED <<cs, missed>>
      /\ \A n \in Mobile : n # m => net'[n] = net[n] /\ mob'[n] = mob[n]
      /\ net'[m].kind = "none" /\ DOMAIN net'[m].items = {}
  BY DEF Deliver, vars, SyncTypeOK, NoAnswer, EmptyList
<1>1. \A n \in Mobile : Owned(n)' = Owned(n)
  BY <1>0 DEF Owned
<1>2. /\ DOMAIN mob'[m] \subseteq DOMAIN mob[m] \cup DOMAIN net[m].items
      /\ \A s \in DOMAIN mob'[m] :
            \/ s \in DOMAIN net[m].items /\ mob'[m][s] = net[m].items[s]
            \/ s \notin DOMAIN net[m].items /\ mob'[m][s] = mob[m][s] /\ s \in DOMAIN mob[m]
  <2>1. mob[m] \in Lists /\ net[m].items \in Lists
    BY DEF SyncTypeOK
  <2>2. mob'[m] = net[m].items \/ mob'[m] = Merged(net[m].items, mob[m])
    BY DEF Deliver, SyncTypeOK
  <2>3. CASE mob'[m] = net[m].items
    BY <2>3
  <2>4. CASE mob'[m] = Merged(net[m].items, mob[m])
    <3>. DEFINE f == net[m].items
                g == mob[m]
    <3>1. /\ DOMAIN Merged(f, g) = DOMAIN f \cup DOMAIN g
          /\ \A s \in DOMAIN f : Merged(f, g)[s] = f[s]
          /\ \A s \in DOMAIN g \ DOMAIN f : Merged(f, g)[s] = g[s]
      BY DEF Merged
    <3>. QED BY <2>4, <3>1
  <2>. QED BY <2>2, <2>3, <2>4
<1>3. AnswersFit'
  BY <1>0 DEF NewsInv, AnswersFit
<1>4. ReleasesMissed'
  BY <1>0, <1>1, <1>2 DEF NewsInv, ReleasesMissed
<1>5. StaleOnlyIfMissed'
  <2>. SUFFICES ASSUME NEW n \in Mobile, NEW s \in Sern, s \in DOMAIN mob'[n],
                       s \in Owned(n), ~cs[s].UpdMob, s \notin missed[n],
                       s \notin DOMAIN net'[n].items,
                       Flagged(mob'[n][s]) # Flagged(Item(cs[s]))
                PROVE  FALSE
    BY <1>0, <1>1 DEF StaleOnlyIfMissed, Behind, Coming, Owned
  <2>1. CASE n = m
    BY <1>2, <2>1
       DEF NewsInv, StaleOnlyIfMissed, AnswersStaleOnlyIfMissed, Behind, Coming, Owned
  <2>2. CASE n # m
    BY <1>0, <2>2 DEF NewsInv, StaleOnlyIfMissed, Behind, Coming, Owned
  <2>. QED BY <2>1, <2>2
<1>6. AnswersStaleOnlyIfMissed'
  BY <1>0, <1>1 DEF NewsInv, AnswersStaleOnlyIfMissed
<1>7. NothingOwed'
  BY <1>0, <1>1 DEF NewsInv, NothingOwed
<1>. QED BY <1>3, <1>4, <1>5, <1>6, <1>7 DEF NewsInv

(* The answer is lost, and with it the news it owed.                        *)
LEMMA NewsLost ==
    ASSUME TypeOK, SyncTypeOK, NewsInv, NEW m \in Mobile, Lose(m)
    PROVE  NewsInv'
<1>0. /\ UNCHANGED <<cs, mob>>
      /\ \A n \in Mobile : n # m => net'[n] = net[n] /\ missed'[n] = missed[n]
      /\ net'[m].kind = "none" /\ DOMAIN net'[m].items = {}
      /\ missed'[m] = missed[m] \cup net[m].owed /\ net[m].kind # "none"
  BY DEF Lose, vars, SyncTypeOK, NoAnswer, EmptyList
<1>1. \A n \in Mobile : Owned(n)' = Owned(n)
  BY <1>0 DEF Owned
<1>2. net[m].kind = "full" \/ net[m].owed = DOMAIN net[m].items
  BY <1>0 DEF NewsInv, AnswersFit, SyncTypeOK
<1>3. AnswersFit'
  BY <1>0 DEF NewsInv, AnswersFit
<1>4. ReleasesMissed'
  BY <1>0, <1>1 DEF NewsInv, ReleasesMissed
<1>5. StaleOnlyIfMissed'
  <2>. SUFFICES ASSUME NEW n \in Mobile, NEW s \in Sern, s \in DOMAIN mob[n],
                       s \in Owned(n), ~cs[s].UpdMob, s \notin missed'[n],
                       s \notin DOMAIN net'[n].items,
                       Flagged(mob[n][s]) # Flagged(Item(cs[s]))
                PROVE  FALSE
    BY <1>0, <1>1 DEF StaleOnlyIfMissed, Behind, Coming, Owned
  <2>1. CASE n = m
    <3>1. s \notin missed[m] /\ s \notin net[m].owed
      BY <1>0, <2>1
    <3>2. s \in DOMAIN net[m].items
      BY <2>1, <3>1 DEF NewsInv, StaleOnlyIfMissed, Behind, Coming, Owned
    <3>. QED BY <1>2, <2>1, <3>1, <3>2 DEF NewsInv, NothingOwed
  <2>2. CASE n # m
    BY <1>0, <2>2 DEF NewsInv, StaleOnlyIfMissed, Behind, Coming, Owned
  <2>. QED BY <2>1, <2>2
<1>6. AnswersStaleOnlyIfMissed'
  BY <1>0, <1>1 DEF NewsInv, AnswersStaleOnlyIfMissed
<1>7. NothingOwed'
  BY <1>0, <1>1 DEF NewsInv, NothingOwed
<1>. QED BY <1>3, <1>4, <1>5, <1>6, <1>7 DEF NewsInv

(* No news is forgotten: a mobile shows an old state, profile or time zone  *)
(* only while news are flagged, on their way or were dropped.              *)
THEOREM NoNewsForgotten == SyncSpec => []StaleOnlyIfMissed
<1>1. SyncInit => NewsInv
  <2>. SUFFICES ASSUME SyncInit PROVE NewsInv
    OBVIOUS
  <2>1. \A m \in Mobile : /\ DOMAIN mob[m] = {} /\ DOMAIN net[m].items = {}
                          /\ net[m].kind = "none"
    BY DEF SyncInit, NoAnswer, EmptyList
  <2>. QED BY <2>1 DEF NewsInv, AnswersFit, StaleOnlyIfMissed, AnswersStaleOnlyIfMissed,
                       NothingOwed, ReleasesMissed, Behind
<1>2. TypeOK /\ TypeOK' /\ SyncTypeOK /\ NewsInv /\ [SyncNext]_syncVars => NewsInv'
  <2>. SUFFICES ASSUME TypeOK, TypeOK', SyncTypeOK, NewsInv, [SyncNext]_syncVars
                PROVE  NewsInv'
    OBVIOUS
  <2>1. CASE UNCHANGED syncVars
    BY <2>1 DEF syncVars, mobVars, vars, NewsInv, AnswersFit, StaleOnlyIfMissed,
                AnswersStaleOnlyIfMissed, NothingOwed, ReleasesMissed, Behind, Coming, Owned
  <2>. QED BY <2>1, NewsElsewhere, NewsList, NewsHeartbeat, NewsDelivered, NewsLost
           DEF SyncNext, MobileStep
<1>3. NewsInv => StaleOnlyIfMissed
  BY DEF NewsInv
<1>. QED BY <1>1, <1>2, <1>3, SyncTypes, PTL DEF SyncSpec
=============================================================================
