-------------------------- MODULE CentralRequests --------------------------
(***************************************************************************)
(* The requests that the central system sends to charge stations: the      *)
(* commands of the web page and of the mobile, and the SetChargingProfile   *)
(* that follows a StartTransaction (mkr_ocpp_central_requests.cpp), their   *)
(* way over the connections of telemetry_server, and the confirmations,     *)
(* which are matched with request_queue by unique id.                       *)
(*                                                                         *)
(* A command is run by a thread of the web server's pool or of the mobile   *)
(* listener, in steps: generate the unique id and queue the request, read   *)
(* the station's address from CH_STATIONS (some commands do this first),    *)
(* find the connection with that address, send.  Connections, boots and     *)
(* confirmations are handled by the web socket thread.                      *)
(*                                                                         *)
(* Two things are undefined behaviour and modelled by their outcomes:       *)
(*  - request_queue has no mutex.  When a queue operation overlaps an       *)
(*    addToQueue, whose push_back may move the entries to a new buffer,     *)
(*    either may lose its effect, entries that were queued before may be    *)
(*    left empty, and a search may miss what it looks for.                  *)
(*  - get_ocpp_client_connection returns a pointer into a copy of           *)
(*    m_connections that is gone when it is used; another thread's copy may *)
(*    have taken its memory.                                                *)
(* (Either can also crash the server, which ends every behaviour.)          *)
(***************************************************************************)
EXTENDS StationRegistry, Sequences, FiniteSets, SequencesExt

CONSTANTS
    Worker,        \* threads that run commands
    Action,        \* what the commands ask for
    Unqueued,      \* the commands that bypass request_queue
    MaxRequest,    \* bound on the requests
    MaxMs          \* bound on the millisecond clock

ASSUME UnqueuedAssumption ==
    /\ Unqueued \subseteq Action
    /\ "SetChargeLimit" \in Action => "SetChargeLimit" \in Unqueued
    /\ "SetChargingProfile" \notin Unqueued
ASSUME RequestBoundsAssumption == MaxRequest \in Nat /\ MaxMs \in Nat

VARIABLES
    worker,    \* the command each thread is at
    queue,     \* request_queue: unique id and action
    wire,      \* requests that reached a station and are not confirmed
    ms,        \* the clock that makes unique ids
    made,      \* history: the requests so far, each with its unique id or 0
    handled,   \* history: the confirmations, each with the action found
    raced      \* history: the requests that had their unique id when two
               \* threads were in request_queue at once

reqVars == <<worker, queue, wire, ms, made, handled, raced>>

(* A request.  id tells requests apart in the model only; reused records    *)
(* that it was sent over another thread's handle.                          *)
Request(id, s, a, uid) ==
    [id |-> id, s |-> s, action |-> a, uid |-> uid, reused |-> FALSE]

NoRequest == Request(0, NoSern, "none", 0)
Resting == [pc |-> "idle", todo |-> {}, req |-> NoRequest,
            addr |-> NoEndpoint, handle |-> NoEndpoint]

(* The server starts on a database with registered stations.               *)
ReqInit ==
    /\ \E c \in Client :
          cs = [s \in Sern |-> [NoRow EXCEPT !.stored = TRUE, !.ClientID = c]]
    /\ prof = [i \in 1..MaxProf |-> 0]
    /\ m_connections = {}
    /\ now = 0
    /\ reply = [s \in Sern |-> "none"]
    /\ last = [s \in Sern |-> [heard |-> 0, pub |-> FALSE]]
    /\ worker = [w \in Worker |-> Resting]
    /\ queue = <<>>
    /\ wire = {}
    /\ ms = 1
    /\ made = <<>>
    /\ handled = {}
    /\ raced = {}

(* Global_GenerateTextUID seeds the generator with the second and appends   *)
(* the millisecond: in one millisecond it gives one id.                    *)
Global_GenerateTextUID == ms

NextMs ==
    /\ ms < MaxMs
    /\ ms' = ms + 1
    /\ UNCHANGED <<vars, worker, queue, wire, made, handled, raced>>

NextId == Len(made) + 1

-----------------------------------------------------------------------------
(* request_queue *)

Adding == {w \in Worker : worker[w].pc = "adding"}

(* What an operation that makes q of the queue leaves of it.  Overlapping   *)
(* another one it may have no effect, and any entry may be left empty.     *)
Emptied == [uid |-> -1, action |-> "none"]
Damaged(q) ==
    {[i \in DOMAIN q |-> IF i \in lost THEN Emptied ELSE q[i]] :
        lost \in SUBSET DOMAIN q}
Leaves(overlaps, q) == IF overlaps THEN Damaged(q) \cup Damaged(queue) ELSE {q}

Races(overlaps, given) ==
    raced' = IF overlaps THEN raced \cup {i \in DOMAIN given : given[i] # 0}
                         ELSE raced

(* create...Request gives a request the action of its message, and          *)
(* create_central_request the unique id.                                   *)
EntryOf(r) == [uid |-> r.uid, action |-> r.action]
addToQueue(r) == Append(queue, EntryOf(r))

Matches(q, uid) == {i \in DOMAIN q : q[i].uid = uid}
Found(q, uid) == {i \in Matches(q, uid) : \A j \in Matches(q, uid) : i <= j}

FrontOfQueue(q, uid, action, left) ==                               \* mutant
    IF q = <<>> THEN action = "none" /\ left = q
                ELSE action = Head(q).action /\ left = Tail(q)
NotErased(q, uid, action, left) ==                                  \* mutant
    /\ left = q
    /\ IF Found(q, uid) = {} THEN action = "none"
                             ELSE \E i \in Found(q, uid) : action = q[i].action
(* The action of the first entry with the id, which is erased.             *)
getActionByUID(q, uid, action, left) ==
    IF Found(q, uid) = {}
    THEN action = "none" /\ left = q
    ELSE \E i \in Found(q, uid) : /\ action = q[i].action
                                  /\ left = RemoveAt(q, i)

-----------------------------------------------------------------------------
(* Commands *)

(* What a command does before it sends, in one order or the other: queue    *)
(* the request, unless it bypasses the queue, and look up the address.     *)
Steps(a) == IF a \in Unqueued THEN {"look"} ELSE {"create", "look"}

(* SetChargeLimit has an id of its own but no entry; the other command      *)
(* without entry has a fixed id.                                           *)
Command(w, s, a) ==
    /\ worker[w].pc = "idle"
    /\ NextId <= MaxRequest
    /\ LET r == Request(NextId, s, a,
                        IF a = "SetChargeLimit" THEN Global_GenerateTextUID ELSE 0)
       IN /\ made' = Append(made, r.uid)
          /\ worker' = [worker EXCEPT ![w] =
                [Resting EXCEPT !.pc = "busy", !.req = r, !.todo = Steps(a)]]
    /\ UNCHANGED <<vars, queue, wire, ms, handled, raced>>

(* The web page may ask for any command, for any station; the mobile's     *)
(* commands go the same way.                                               *)
doOcppCommand(w) == \E s \in Sern, a \in Action : Command(w, s, a)

create_central_request(w) ==
    /\ worker[w].pc = "busy" /\ "create" \in worker[w].todo
    /\ worker' = [worker EXCEPT ![w].pc = "adding",
                                ![w].req.uid = Global_GenerateTextUID]
    /\ made' = [made EXCEPT ![worker[w].req.id] = Global_GenerateTextUID]
    /\ Races(Adding # {}, made')
    /\ UNCHANGED <<vars, queue, wire, ms, handled>>

(* The end of addToQueue.  It was overlapped if the request was raced.     *)
Added(w) ==
    LET overlaps == worker[w].req.id \in raced IN
    /\ worker[w].pc = "adding"
    /\ queue' \in Leaves(overlaps, addToQueue(worker[w].req))
    /\ worker' = [worker EXCEPT ![w].pc = "busy", ![w].todo = @ \ {"create"}]
    /\ Races(overlaps, made)
    /\ UNCHANGED <<vars, wire, ms, made, handled>>

(* UpdateFirmware marks the station's row as it reads it.                  *)
getIPAddrBySerNumber(w) ==
    LET r == worker[w].req IN
    /\ worker[w].pc = "busy" /\ "look" \in worker[w].todo
    /\ worker' = [worker EXCEPT ![w].todo = @ \ {"look"},
                                ![w].addr = cs[r.s].IPAddr]
    /\ IF r.action = "UpdateFirmware"
       THEN createUpdateFWRequestfromWeb(r.s)
       ELSE UNCHANGED vars
    /\ UNCHANGED <<queue, wire, ms, made, handled, raced>>

get_ocpp_client_connection(w) ==
    /\ worker[w].pc = "busy" /\ worker[w].todo = {}
    /\ worker' = [worker EXCEPT ![w] =
                    IF @.addr \in m_connections
                    THEN [@ EXCEPT !.pc = "send", !.handle = worker[w].addr]
                    ELSE Resting]
    /\ UNCHANGED <<vars, queue, wire, ms, made, handled, raced>>

(* The handle is read from memory that was freed.  A handle whose           *)
(* connection is closed throws, and the command fails.                     *)
sendResponse2Client(w) ==
    /\ worker[w].pc = "send"
    /\ \E v \in {u \in Worker : worker[u].pc = "send"} :
          LET e == worker[v].handle
              m == [e |-> e,
                    req |-> [worker[w].req EXCEPT !.reused = (v # w)]]
          IN wire' = IF e \in m_connections THEN wire \cup {m} ELSE wire
    /\ worker' = [worker EXCEPT ![w] = Resting]
    /\ UNCHANGED <<vars, queue, ms, made, handled, raced>>

-----------------------------------------------------------------------------
(* The web socket thread *)

(* A StartTransaction is answered on its own connection, with a             *)
(* SetChargingProfile behind the confirmation.  (TransactionLog has what    *)
(* the message stores.)                                                    *)
StartTransaction(e) ==
    /\ e \in m_connections
    /\ NextId <= MaxRequest
    /\ LET r == Request(NextId, HomeOf[e], "SetChargingProfile",
                        Global_GenerateTextUID)
       IN /\ queue' \in Leaves(Adding # {}, addToQueue(r))
          /\ made' = Append(made, r.uid)
          /\ wire' = wire \cup {[e |-> e, req |-> r]}
    /\ Races(Adding # {}, made')
    /\ UNCHANGED <<vars, worker, ms, handled>>

(* The station confirms a request it received: the queue is searched as it   *)
(* is, or as an overlapping addToQueue shows it.  Only an accepted           *)
(* DataTransfer, taken as one, changes the database.                        *)
processIncomingCPResponseMessage(m) ==
    /\ m \in wire /\ m.e \in m_connections
    /\ \E seen \in IF Adding # {} THEN Damaged(queue) ELSE {queue} :
       \E action \in Action \cup {"SetChargingProfile", "none"} :
       \E left \in {seen} \cup {RemoveAt(seen, i) : i \in DOMAIN seen} :
          /\ getActionByUID(seen, m.req.uid, action, left)
          /\ queue' \in Leaves(Adding # {}, left)
          /\ handled' = handled \cup
                {[req |-> m.req, as |-> action, kept |-> Adding # {}]}
          /\ \/ UNCHANGED vars
             \/ /\ action = "DataTransfer" /\ m.req.action = "DataTransfer"
                /\ \E tz \in Zone : DataTransferConf(m.e, tz)
    /\ wire' = wire \ {m}
    /\ Races(Adding # {}, made)
    /\ UNCHANGED <<worker, ms, made>>

Connection(e) ==
    \/ /\ \/ on_open(e)
          \/ \E fw \in BootHasFw, pub \in BOOLEAN : BootNotification(e, fw, pub)
       /\ UNCHANGED reqVars
    \/ /\ on_close(e)
       /\ wire' = {m \in wire : m.e # e}
       /\ UNCHANGED <<worker, queue, ms, made, handled, raced>>

ReqNext ==
    \/ NextMs
    \/ \E w \in Worker :
          \/ doOcppCommand(w)
          \/ create_central_request(w)
          \/ Added(w)
          \/ getIPAddrBySerNumber(w)
          \/ get_ocpp_client_connection(w)
          \/ sendResponse2Client(w)
    \/ \E e \in Endpoint : StartTransaction(e) \/ Connection(e)
    \/ \E m \in wire : processIncomingCPResponseMessage(m)

ReqSpec == ReqInit /\ [][ReqNext]_<<vars, reqVars>>

-----------------------------------------------------------------------------
(* Properties *)

(* A request for a station arrives at that station, although its address    *)
(* is read, looked up among the connections and used in separate steps      *)
(* between which stations boot, close and reconnect - as long as no other   *)
(* thread took the memory of the handle.                                   *)
RequestsReachTheirStation ==
    \A m \in wire : ~m.req.reused => HomeOf[m.e] = m.req.s

(* Another request was made in the same millisecond.                       *)
Twin(r) == \E i \in DOMAIN made : i # r.id /\ made[i] = r.uid

(* The confirmation of a request is processed as that of the action that    *)
(* was sent: the request is queued before the station can answer it, and    *)
(* no other confirmation takes its entry.  Excepted are requests that got   *)
(* the unique id of another one, and queued requests that had their id when *)
(* two threads were in request_queue at once: their entry may be lost.     *)
ConfirmedAsSent ==
    \A h \in handled :
        \/ Twin(h.req)
        \/ IF h.req.action \in Unqueued
           THEN h.as = "none"
           ELSE h.req.id \in raced \/ h.as = h.req.action

(* What stays in request_queue is requests that no station has confirmed,   *)
(* whichever order confirmations come in: getActionByUID erases what it     *)
(* finds (an erase that raced with an addToQueue may be lost).             *)
QueueHoldsUnconfirmed ==
    (\A h \in handled : ~h.kept) =>
        Len(queue) + Cardinality({h \in handled : h.as # "none"})
            <= Len(made)
=============================================================================
