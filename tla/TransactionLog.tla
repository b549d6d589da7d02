--------------------------- MODULE TransactionLog ---------------------------
(***************************************************************************)
(* The charging history of http_light/db/HistoryDB.cpp: how StartTransaction*)
(* StopTransaction, MeterValues and the messages that are only logged reach *)
(* the tables CSHistTbl, StartTrTbl, StopTrTbl and MeterVTbl, and what the  *)
(* statistics read back from them.                                         *)
(*                                                                         *)
(* A handler runs several SQL statements.  They share the mutex of          *)
(* CREATECONNECTION but no SQL transaction: each one commits by itself, so  *)
(* a statement is a step, the server can stop between two of them, and one  *)
(* that fails ends the handler with whatever it has returned so far.  OCPP  *)
(* messages are handled by one thread; the web page clears a station's      *)
(* history from other threads.                                             *)
(*                                                                         *)
(* The station (external) repeats a StartTransaction or StopTransaction     *)
(* until it gets the confirmation.  Its clock, which dates meter values,    *)
(* may show anything.                                                      *)
(*                                                                         *)
(* Definitions marked `mutant' are mistakes the code might have made.      *)
(***************************************************************************)
EXTENDS Naturals, FiniteSets

CONSTANTS
    Sern,          \* the stations
    UidNamesSern,  \* may a unique id be long enough to hold the serial number?
    MeterTime,     \* seconds the meter values of a message may be dated
    CanClear,      \* does the web page clear histories?
    MaxSession,    \* bound on the charging sessions of a station
    MaxMeter,      \* bound on the MeterValues messages
    MaxLogged,     \* bound on the messages that are only logged
    MaxCrash,      \* bound on stops of the server within a handler
    MaxFail,       \* bound on failing statements
    MaxLostStart,  \* bound on StartTransaction confirmations lost
    MaxLostStop    \* bound on StopTransaction confirmations lost

ASSUME UidAssumption == UidNamesSern \subseteq BOOLEAN
ASSUME MeterTimeAssumption == MeterTime \subseteq Nat
ASSUME CanClearAssumption == CanClear \in BOOLEAN
ASSUME BoundsAssumption ==
    /\ MaxSession \in Nat /\ MaxMeter \in Nat /\ MaxLogged \in Nat
    /\ MaxCrash \in Nat /\ MaxFail \in Nat
    /\ MaxLostStart \in Nat /\ MaxLostStop \in Nat

VARIABLES
    hist,     \* CSHistTbl: its rows, by rowid
    startTr,  \* StartTrTbl: its rows, by rowid, which is the transaction id
    stopTr,   \* StopTrTbl
    meterV,   \* MeterVTbl
    op,       \* the handler of the OCPP thread
    st,       \* the stations: phase, session number, transaction id
    held,     \* history: the transaction ids that stations were given
    count     \* history: how much of each bound is used

vars == <<hist, startTr, stopTr, meterV, op, st, held, count>>

(* Tables grow at the row above the largest one: SQLite's rowid without     *)
(* AUTOINCREMENT.  A deleted row at the end is therefore used again.       *)
NewRowFromZero(table) ==                                            \* mutant
    {r \in {0} \cup {q + 1 : q \in DOMAIN table} :
        \A q \in DOMAIN table : q < r}
NewRow(table) ==
    {r \in {1} \cup {q + 1 : q \in DOMAIN table} :
        \A q \in DOMAIN table : q < r}
WithRow(table, r, row) ==
    [q \in DOMAIN table \cup {r} |-> IF q = r THEN row ELSE table[q]]
IsTable(table, Rows) ==
    /\ DOMAIN table \subseteq Nat \ {0}
    /\ table \in [DOMAIN table -> Rows]
EmptyTable == [r \in {} |-> 0]

Bounded == {"meter", "logged", "crash", "fail", "start", "stop"}

Kinds == {"StartTransaction", "StopTransaction", "MeterValues", "Logged"}
Idle == [pc |-> "idle", kind |-> "Logged", sern |-> "*", row |-> 0,
         rv |-> 0, ts |-> 0]

(* The rows of CSHistTbl that concern us; sts is column CSSts as a number,  *)
(* 0 for the "*" of a row whose transaction is not known (yet).            *)
HistRow == [sern : Sern, action : Kinds, sts : Nat]

TypeOK ==
    /\ IsTable(hist, HistRow)
    /\ IsTable(startTr, [HRowId : Nat, sern : Sern])
    /\ IsTable(stopTr, [HRowId : Nat, transactionId : Nat])
    /\ IsTable(meterV, [CSSerN : Sern, transactionId : Nat, Flag : Nat])
    /\ op \in [pc : {"idle", "hist", "table", "update", "reply"},
               kind : Kinds, sern : Sern \cup {"*"}, row : Nat, rv : Nat,
               ts : Nat]
    /\ op.pc # "idle" => op.sern \in Sern
    /\ st \in [Sern -> [phase : {"idle", "starting", "charging", "stopping"},
                        n : Nat, id : Nat]]
    /\ held \subseteq [id : Nat, sern : Sern, n : Nat]
    /\ count \in [Bounded -> Nat]

Init ==
    /\ hist = EmptyTable
    /\ startTr = EmptyTable
    /\ stopTr = EmptyTable
    /\ meterV = EmptyTable
    /\ op = Idle
    /\ st = [s \in Sern |-> [phase |-> "idle", n |-> 0, id |-> 0]]
    /\ held = {}
    /\ count = [b \in Bounded |-> 0]

tables == <<hist, startTr, stopTr, meterV>>
Use(b, max) == count[b] < max /\ count' = [count EXCEPT ![b] = @ + 1]

-----------------------------------------------------------------------------
(* The stations *)

PlugIn(s) ==
    /\ st[s].phase = "idle"
    /\ st[s].n < MaxSession
    /\ st' = [st EXCEPT ![s] = [phase |-> "starting", n |-> @.n + 1, id |-> 0]]
    /\ UNCHANGED <<tables, op, held, count>>

PlugOut(s) ==
    /\ st[s].phase = "charging"
    /\ st' = [st EXCEPT ![s].phase = "stopping"]
    /\ UNCHANGED <<tables, op, held, count>>

-----------------------------------------------------------------------------
(* The handlers.  preprocessOcppMessage2DB finds the serial number in the   *)
(* unique id, without looking whether CH_STATIONS has it; without a serial  *)
(* number nothing is stored and the message is confirmed all the same.     *)

Receive(s, kind, ts) ==
    /\ op.pc = "idle"
    /\ \E named \in UidNamesSern :
          op' = [pc |-> IF named THEN "hist" ELSE "reply", kind |-> kind,
                 sern |-> s, row |-> 0, rv |-> 0, ts |-> ts]
    /\ UNCHANGED <<tables, st, held>>

StartTransaction(s) ==
    /\ st[s].phase = "starting"
    /\ Receive(s, "StartTransaction", 0)
    /\ UNCHANGED count

StopTransaction(s) ==
    /\ st[s].phase = "stopping"
    /\ Receive(s, "StopTransaction", 0)
    /\ UNCHANGED count

(* Samples of a transaction, with its id.  The code neither requires nor    *)
(* checks the id that a sample names, and stores one without it too: that   *)
(* stations send samples of their own open transaction is an assumption.   *)
MeterValues(s, ts) ==
    /\ st[s].phase = "charging"
    /\ Use("meter", MaxMeter)
    /\ Receive(s, "MeterValues", ts)

(* Authorize, StatusNotification, FirmwareStatusNotification, DataTransfer. *)
Logged(s) ==
    /\ Use("logged", MaxLogged)
    /\ Receive(s, "Logged", 0)

HistoryRowReturned ==                                               \* mutant
    /\ op.pc = "hist"
    /\ \E r \in NewRow(hist) :
          /\ hist' = WithRow(hist, r, [sern |-> op.sern, action |-> op.kind,
                                       sts |-> 0])
          /\ op' = [op EXCEPT !.pc = "table", !.row = r, !.rv = r]
    /\ UNCHANGED <<startTr, stopTr, meterV, st, held, count>>
insertOcppHistory2DB ==
    /\ op.pc = "hist"
    /\ \E r \in NewRow(hist) :
          /\ hist' = WithRow(hist, r,
                       [sern |-> op.sern, action |-> op.kind,
                        sts |-> IF op.kind = "StopTransaction"
                                THEN st[op.sern].id ELSE 0])
          /\ op' = IF op.kind = "Logged"
                   THEN [op EXCEPT !.pc = "reply", !.row = r, !.rv = r]
                   ELSE [op EXCEPT !.pc = "table", !.row = r]
    /\ UNCHANGED <<startTr, stopTr, meterV, st, held, count>>

HistoryRowAsId ==                                                   \* mutant
    /\ op.pc = "table" /\ op.kind = "StartTransaction"
    /\ \E r \in NewRow(startTr) :
          /\ startTr' = WithRow(startTr, r, [HRowId |-> op.row, sern |-> op.sern])
          /\ op' = [op EXCEPT !.pc = "update", !.rv = op.row]
    /\ UNCHANGED <<hist, stopTr, meterV, st, held, count>>
RowOfStationReplaced ==                                             \* mutant
    /\ op.pc = "table" /\ op.kind = "StartTransaction"
    /\ \E r \in NewRow(startTr) :
          /\ startTr' = WithRow([q \in {q \in DOMAIN startTr : startTr[q].sern # op.sern}
                                   |-> startTr[q]],
                               r, [HRowId |-> op.row, sern |-> op.sern])
          /\ op' = [op EXCEPT !.pc = "update", !.rv = r]
    /\ UNCHANGED <<hist, stopTr, meterV, st, held, count>>
insertStartTransactionReqMsg2DB ==
    /\ op.pc = "table" /\ op.kind = "StartTransaction"
    /\ \E r \in NewRow(startTr) :
          /\ startTr' = WithRow(startTr, r, [HRowId |-> op.row, sern |-> op.sern])
          /\ op' = [op EXCEPT !.pc = "update", !.rv = r]
    /\ UNCHANGED <<hist, stopTr, meterV, st, held, count>>

UpdateWhereSerN ==                                                  \* mutant
    /\ op.pc = "update"
    /\ hist' = [r \in DOMAIN hist |->
                  IF hist[r].sern = op.sern THEN [hist[r] EXCEPT !.sts = op.rv]
                                            ELSE hist[r]]
    /\ op' = [op EXCEPT !.pc = "reply"]
    /\ UNCHANGED <<startTr, stopTr, meterV, st, held, count>>
updateHistOnStartTransaction ==
    /\ op.pc = "update"
    /\ hist' = [r \in DOMAIN hist |->
                  IF r = op.row THEN [hist[r] EXCEPT !.sts = op.rv] ELSE hist[r]]
    /\ op' = [op EXCEPT !.pc = "reply"]
    /\ UNCHANGED <<startTr, stopTr, meterV, st, held, count>>

insertStopTransactionReqMsg2DB ==
    /\ op.pc = "table" /\ op.kind = "StopTransaction"
    /\ \E r \in NewRow(stopTr) :
          /\ stopTr' = WithRow(stopTr, r, [HRowId |-> op.row,
                                  transactionId |-> st[op.sern].id])
          /\ op' = [op EXCEPT !.pc = "reply", !.rv = r]
    /\ UNCHANGED <<hist, startTr, meterV, st, held, count>>

(* One sample every two minutes is kept: the last row of the station, by    *)
(* rowid, must be 120 seconds old by the station's own clock.              *)
RowsOf(s) == {r \in DOMAIN meterV : meterV[r].CSSerN = s}
DueAfterFirst(s, ts) ==                                             \* mutant
    \A r \in RowsOf(s) :
        (\A q \in RowsOf(s) : q >= r) => ts >= meterV[r].Flag + 120
IsDue(s, ts) ==
    \A r \in RowsOf(s) :
        (\A q \in RowsOf(s) : q <= r) => ts >= meterV[r].Flag + 120

insertMeterValuesReqMsg2DB ==
    /\ op.pc = "table" /\ op.kind = "MeterValues"
    /\ IF op.ts > 0 /\ IsDue(op.sern, op.ts)
       THEN \E r \in NewRow(meterV) :
              /\ meterV' = WithRow(meterV, r,
                             [CSSerN |-> op.sern, Flag |-> op.ts,
                              transactionId |-> st[op.sern].id])
              /\ op' = [op EXCEPT !.pc = "reply", !.rv = r]
       ELSE meterV' = meterV /\ op' = [op EXCEPT !.pc = "reply"]
    /\ UNCHANGED <<hist, startTr, stopTr, st, held, count>>

(* The confirmation reaches the station.  The transaction id is the value   *)
(* the handler returned, 0 when it stored nothing.                         *)
ConfirmStart ==
    LET s == op.sern IN
    /\ op.pc = "reply" /\ op.kind = "StartTransaction"
    /\ op' = Idle
    /\ st' = [st EXCEPT ![s].phase = "charging", ![s].id = op.rv]
    /\ held' = held \cup {[id |-> op.rv, sern |-> s, n |-> st[s].n]}
    /\ UNCHANGED <<tables, count>>

ConfirmStop ==
    /\ op.pc = "reply" /\ op.kind = "StopTransaction"
    /\ op' = Idle
    /\ st' = [st EXCEPT ![op.sern].phase = "idle"]
    /\ UNCHANGED <<tables, held, count>>

ConfirmOther ==
    /\ op.pc = "reply" /\ op.kind \in {"MeterValues", "Logged"}
    /\ op' = Idle
    /\ UNCHANGED <<tables, st, held, count>>

(* The connection breaks before the confirmation is out; the station will   *)
(* repeat the message.                                                     *)
LoseConfirmation ==
    /\ op.pc = "reply"
    /\ \/ op.kind = "StartTransaction" /\ Use("start", MaxLostStart)
       \/ op.kind = "StopTransaction" /\ Use("stop", MaxLostStop)
    /\ op' = Idle
    /\ UNCHANGED <<tables, st, held>>

(* A statement throws: the exception is caught, the mutex released, and the *)
(* handler answers with what it has.                                       *)
StatementFails ==
    /\ op.pc \in {"hist", "table", "update"}
    /\ Use("fail", MaxFail)
    /\ op' = [op EXCEPT !.pc = "reply"]
    /\ UNCHANGED <<tables, st, held>>

Crash ==
    /\ op.pc # "idle"
    /\ Use("crash", MaxCrash)
    /\ op' = Idle
    /\ UNCHANGED <<tables, st, held>>

-----------------------------------------------------------------------------
(* The web page *)

(* The mutex of HistoryDB is held from the first to the last statement.    *)
Locked == op.pc \in {"table", "update"}

ClearAllChargeStationsHistory(s) ==
    /\ CanClear
    /\ ~Locked
    /\ hist' = [r \in {q \in DOMAIN hist : hist[q].sern # s} |-> hist[r]]
    /\ UNCHANGED <<startTr, stopTr, meterV, op, st, held, count>>

(* GetAllChargeStationsStatistics reads the start rows and the stop rows of *)
(* the station in rowid order, takes as many stop rows as there are start   *)
(* rows at most, and collects the meter values of each one's transaction.   *)
ActionRows(s, action) ==
    {r \in DOMAIN hist : hist[r].sern = s /\ hist[r].action = action}
CountedStopsShort(s) ==                                             \* mutant
    {r \in ActionRows(s, "StopTransaction") :
        Cardinality({q \in ActionRows(s, "StopTransaction") : q <= r})
            < Cardinality(ActionRows(s, "StartTransaction"))}
CountedStops(s) ==
    {r \in ActionRows(s, "StopTransaction") :
        Cardinality({q \in ActionRows(s, "StopTransaction") : q <= r})
            <= Cardinality(ActionRows(s, "StartTransaction"))}
TimesReported(s, id) ==
    Cardinality({r \in CountedStops(s) : hist[r].sts = id})

Next ==
    \/ \E s \in Sern :
          \/ PlugIn(s)
          \/ PlugOut(s)
          \/ StartTransaction(s)
          \/ StopTransaction(s)
          \/ \E ts \in MeterTime : MeterValues(s, ts)
          \/ Logged(s)
          \/ ClearAllChargeStationsHistory(s)
    \/ insertOcppHistory2DB
    \/ insertStartTransactionReqMsg2DB
    \/ updateHistOnStartTransaction
    \/ insertStopTransactionReqMsg2DB
    \/ insertMeterValuesReqMsg2DB
    \/ ConfirmStart
    \/ ConfirmStop
    \/ ConfirmOther
    \/ LoseConfirmation
    \/ StatementFails
    \/ Crash

Spec == Init /\ [][Next]_vars

-----------------------------------------------------------------------------
(* Properties *)

(* No two charging sessions, of one station or of two, are given the same   *)
(* transaction id, whatever is repeated, lost, cleared or interrupted.  (A  *)
(* handler that stored nothing confirms id 0, which is no transaction.)    *)
TransactionIdsUnique ==
    \A x, y \in held : x.id = y.id /\ x.id > 0 => x = y

(* A transaction id a station was given is on record as its own.           *)
GivenIdsAreRecorded ==
    \A x \in held : x.id > 0 =>
        x.id \in DOMAIN startTr /\ startTr[x.id].sern = x.sern

(* A start row of the history that names a transaction is the very row      *)
(* StartTrTbl points back to, and a stop row names a transaction of its own *)
(* station - also after histories were cleared and their rowids used again. *)
HistoryNamesOwnTransaction ==
    \A r \in DOMAIN hist :
        /\ hist[r].action = "StartTransaction" /\ hist[r].sts > 0 =>
              /\ hist[r].sts \in DOMAIN startTr
              /\ startTr[hist[r].sts] = [HRowId |-> r, sern |-> hist[r].sern]
        /\ hist[r].action = "StopTransaction" /\ hist[r].sts > 0 =>
              /\ hist[r].sts \in DOMAIN startTr
              /\ startTr[hist[r].sts].sern = hist[r].sern

(* The samples kept of a station are at least two minutes apart, in the     *)
(* order they were stored, also when the station's clock jumps.            *)
MeterValuesSpaced ==
    \A s \in Sern : \A q, r \in RowsOf(s) :
        q < r => meterV[r].Flag >= meterV[q].Flag + 120

(* As long as no StopTransaction is stored twice and no history is cleared, *)
(* the statistics report every finished transaction exactly once, even when *)
(* StartTransactions were repeated.                                        *)
FinishedReportedOnce ==
    \A r \in DOMAIN stopTr :
        LET id == stopTr[r].transactionId IN
        id > 0 => TimesReported(startTr[id].sern, id) = 1

(* The history implements TransactionLedger: however messages are repeated, *)
(* statements fail, the server stops or histories are cleared, transactions *)
(* stay on record, a number is given once and to its station, one to a      *)
(* session, and no meter values are stored of a transaction after its stop. *)
Ledger == INSTANCE TransactionLedger WITH
    recorded <- [id \in DOMAIN startTr |-> startTr[id].sern],
    given <- {x \in held : x.id > 0},
    sampled <- {meterV[r].transactionId : r \in DOMAIN meterV} \ {0},
    stopped <- {stopTr[r].transactionId : r \in DOMAIN stopTr} \ {0}
ImplementsLedger == Ledger!Spec
=============================================================================
