------------------------ MODULE TransactionLogProofs ------------------------
(* Proofs about the charging history of TransactionLog, for any number of   *)
(* stations, sessions, crashes, failures, lost confirmations and clearings. *)
EXTENDS TransactionLog, FiniteSetTheorems, TLAPS

-----------------------------------------------------------------------------
(* Tables *)

(* The rowid of a new row is above those of all the rows of the table.      *)
LEMMA NewRowFresh ==
    ASSUME NEW table, DOMAIN table \subseteq Nat \ {0}, NEW r \in NewRow(table)
    PROVE  /\ r \in Nat \ {0}
           /\ r \notin DOMAIN table
           /\ \A q \in DOMAIN table : q < r
BY DEF NewRow

(* An insert into a table of Rows is a table of Rows.                       *)
LEMMA WithRowType ==
    ASSUME NEW table, NEW Rows, IsTable(table, Rows),
           NEW r \in Nat \ {0}, NEW row \in Rows
    PROVE  IsTable(WithRow(table, r, row), Rows)
BY DEF IsTable, WithRow

-----------------------------------------------------------------------------
(* Types *)

OpType == [pc : {"idle", "hist", "table", "update", "reply"},
           kind : Kinds, sern : Sern \cup {"*"}, row : Nat, rv : Nat,
           ts : Nat]

(* Receiving a message keeps the types.                                     *)
LEMMA ReceiveType ==
    ASSUME TypeOK, NEW s \in Sern, NEW kind \in Kinds, NEW ts \in Nat,
           Receive(s, kind, ts), count' \in [Bounded -> Nat]
    PROVE  TypeOK'
BY DEF TypeOK, Receive, tables, IsTable

(* Using up some of a bound keeps the type of count.                        *)
LEMMA UseType ==
    ASSUME TypeOK, NEW b \in Bounded, NEW max \in Nat, Use(b, max)
    PROVE  count' \in [Bounded -> Nat]
BY DEF TypeOK, Use

(* The handler that goes idle, or on to its reply, has its type.            *)
LEMMA IdleType == Idle \in OpType
BY DEF Idle, OpType, Kinds

(* Every action keeps TypeOK.                                               *)
LEMMA TypeStep ==
    ASSUME TypeOK, [Next]_vars
    PROVE  TypeOK'
<1>. USE DEF OpType
<1>1. ASSUME NEW s \in Sern, PlugIn(s) \/ PlugOut(s)
      PROVE  TypeOK'
  BY <1>1 DEF TypeOK, PlugIn, PlugOut, tables, IsTable
<1>2. ASSUME NEW s \in Sern, StartTransaction(s) \/ StopTransaction(s)
      PROVE  TypeOK'
  BY <1>2, ReceiveType DEF StartTransaction, StopTransaction, Kinds, TypeOK
<1>3. ASSUME NEW s \in Sern, NEW ts \in MeterTime, MeterValues(s, ts)
      PROVE  TypeOK'
  BY <1>3, ReceiveType, UseType, MeterTimeAssumption, BoundsAssumption
     DEF MeterValues, Kinds, Bounded
<1>4. ASSUME NEW s \in Sern, Logged(s)
      PROVE  TypeOK'
  BY <1>4, ReceiveType, UseType, BoundsAssumption DEF Logged, Kinds, Bounded
<1>5. ASSUME NEW s \in Sern, ClearAllChargeStationsHistory(s)
      PROVE  TypeOK'
  <2>1. IsTable(hist', HistRow)
    BY <1>5 DEF ClearAllChargeStationsHistory, TypeOK, IsTable
  <2>. QED BY <1>5, <2>1 DEF ClearAllChargeStationsHistory, TypeOK, IsTable
<1>6. CASE insertOcppHistory2DB
  <2>. DEFINE Row(r) == [sern |-> op.sern, action |-> op.kind,
                         sts |-> IF op.kind = "StopTransaction"
                                 THEN st[op.sern].id ELSE 0]
  <2>1. PICK r \in NewRow(hist) :
          /\ hist' = WithRow(hist, r, Row(r))
          /\ op' = IF op.kind = "Logged"
                   THEN [op EXCEPT !.pc = "reply", !.row = r, !.rv = r]
                   ELSE [op EXCEPT !.pc = "table", !.row = r]
    BY <1>6 DEF insertOcppHistory2DB
  <2>2. r \in Nat \ {0}
    BY NewRowFresh DEF TypeOK, IsTable
  <2>3. Row(r) \in HistRow
    BY <1>6 DEF insertOcppHistory2DB, TypeOK, HistRow
  <2>4. IsTable(hist', HistRow)
    BY <2>1, <2>2, <2>3, WithRowType DEF TypeOK
  <2>5. op' \in OpType /\ op'.sern = op.sern /\ op.sern \in Sern
    BY <1>6, <2>1, <2>2 DEF insertOcppHistory2DB, TypeOK
  <2>. QED BY <1>6, <2>4, <2>5 DEF insertOcppHistory2DB, TypeOK, IsTable
<1>7. CASE insertStartTransactionReqMsg2DB
  <2>1. PICK r \in NewRow(startTr) :
          /\ startTr' = WithRow(startTr, r, [HRowId |-> op.row, sern |-> op.sern])
          /\ op' = [op EXCEPT !.pc = "update", !.rv = r]
    BY <1>7 DEF insertStartTransactionReqMsg2DB
  <2>2. r \in Nat \ {0}
    BY NewRowFresh DEF TypeOK, IsTable
  <2>3. [HRowId |-> op.row, sern |-> op.sern] \in [HRowId : Nat, sern : Sern]
    BY <1>7 DEF insertStartTransactionReqMsg2DB, TypeOK
  <2>4. IsTable(startTr', [HRowId : Nat, sern : Sern])
    BY <2>1, <2>2, <2>3, WithRowType DEF TypeOK
  <2>5. op' \in OpType /\ op'.sern = op.sern /\ op.sern \in Sern
    BY <1>7, <2>1, <2>2 DEF insertStartTransactionReqMsg2DB, TypeOK
  <2>. QED BY <1>7, <2>4, <2>5 DEF insertStartTransactionReqMsg2DB, TypeOK, IsTable
<1>8. CASE updateHistOnStartTransaction
  <2>1. ASSUME NEW r \in DOMAIN hist
        PROVE  /\ hist[r] \in HistRow
               /\ [hist[r] EXCEPT !.sts = op.rv] \in HistRow
    BY DEF TypeOK, IsTable, HistRow
  <2>2. IsTable(hist', HistRow)
    BY <1>8, <2>1 DEF updateHistOnStartTransaction, TypeOK, IsTable
  <2>. QED BY <1>8, <2>2 DEF updateHistOnStartTransaction, TypeOK, IsTable
<1>9. CASE insertStopTransactionReqMsg2DB
  <2>1. PICK r \in NewRow(stopTr) :
          /\ stopTr' = WithRow(stopTr, r, [HRowId |-> op.row,
                                           transactionId |-> st[op.sern].id])
          /\ op' = [op EXCEPT !.pc = "reply", !.rv = r]
    BY <1>9 DEF insertStopTransactionReqMsg2DB
  <2>2. r \in Nat \ {0}
    BY NewRowFresh DEF TypeOK, IsTable
  <2>3. [HRowId |-> op.row, transactionId |-> st[op.sern].id]
          \in [HRowId : Nat, transactionId : Nat]
    BY <1>9 DEF insertStopTransactionReqMsg2DB, TypeOK
  <2>4. IsTable(stopTr', [HRowId : Nat, transactionId : Nat])
    BY <2>1, <2>2, <2>3, WithRowType DEF TypeOK
  <2>5. op' \in OpType /\ op'.sern = op.sern /\ op.sern \in Sern
    BY <1>9, <2>1, <2>2 DEF insertStopTransactionReqMsg2DB, TypeOK
  <2>. QED BY <1>9, <2>4, <2>5 DEF insertStopTransactionReqMsg2DB, TypeOK, IsTable
<1>10. CASE insertMeterValuesReqMsg2DB
  <2>. DEFINE Rows == [CSSerN : Sern, transactionId : Nat, Flag : Nat]
              row == [CSSerN |-> op.sern, Flag |-> op.ts,
                      transactionId |-> st[op.sern].id]
  <2>1. row \in Rows
    BY <1>10 DEF insertMeterValuesReqMsg2DB, TypeOK
  <2>2. ASSUME NEW r \in NewRow(meterV), meterV' = WithRow(meterV, r, row),
               op' = [op EXCEPT !.pc = "reply", !.rv = r]
        PROVE  TypeOK'
    <3>1. r \in Nat \ {0}
      BY NewRowFresh DEF TypeOK, IsTable
    <3>2. IsTable(meterV', Rows)
      BY <2>1, <2>2, <3>1, WithRowType DEF TypeOK
    <3>3. op' \in OpType /\ op'.sern = op.sern /\ op.sern \in Sern
      BY <1>10, <2>2, <3>1 DEF insertMeterValuesReqMsg2DB, TypeOK
    <3>. QED BY <1>10, <3>2, <3>3 DEF insertMeterValuesReqMsg2DB, TypeOK, IsTable
  <2>3. CASE meterV' = meterV /\ op' = [op EXCEPT !.pc = "reply"]
    BY <1>10, <2>3 DEF insertMeterValuesReqMsg2DB, TypeOK, IsTable
  <2>. QED BY <1>10, <2>2, <2>3 DEF insertMeterValuesReqMsg2DB
<1>11. CASE ConfirmStart
  <2>1. op.sern \in Sern /\ op.rv \in Nat
    BY <1>11 DEF ConfirmStart, TypeOK
  <2>2. op' \in OpType /\ op'.pc = "idle"
    BY <1>11, IdleType DEF ConfirmStart, Idle
  <2>3. held' \subseteq [id : Nat, sern : Sern, n : Nat]
    BY <1>11, <2>1 DEF ConfirmStart, TypeOK
  <2>4. st' \in [Sern -> [phase : {"idle", "starting", "charging", "stopping"},
                          n : Nat, id : Nat]]
    BY <1>11, <2>1 DEF ConfirmStart, TypeOK
  <2>. QED BY <1>11, <2>2, <2>3, <2>4 DEF ConfirmStart, TypeOK, tables, IsTable
<1>12. CASE ConfirmStop
  BY <1>12, IdleType DEF ConfirmStop, TypeOK, tables, IsTable, Idle
<1>13. CASE ConfirmOther
  BY <1>13, IdleType DEF ConfirmOther, TypeOK, tables, IsTable, Idle
<1>14. CASE LoseConfirmation \/ StatementFails \/ Crash
  <2>1. count' \in [Bounded -> Nat]
    BY <1>14, UseType, BoundsAssumption
       DEF LoseConfirmation, StatementFails, Crash, Bounded
  <2>2. op' \in OpType /\ (op'.pc # "idle" => op'.sern \in Sern)
    BY <1>14, IdleType DEF LoseConfirmation, StatementFails, Crash, TypeOK, Idle
  <2>. QED BY <1>14, <2>1, <2>2
           DEF LoseConfirmation, StatementFails, Crash, TypeOK, tables, IsTable
<1>15. CASE UNCHANGED vars
  BY <1>15 DEF vars, TypeOK, IsTable
<1>. QED BY <1>1, <1>2, <1>3, <1>4, <1>5, <1>6, <1>7, <1>8, <1>9, <1>10, <1>11,
           <1>12, <1>13, <1>14, <1>15 DEF Next

(* The tables, the handler and the stations always have their types.        *)
THEOREM TypeCorrect == Spec => []TypeOK
<1>1. Init => TypeOK
  BY DEF Init, TypeOK, IsTable, EmptyTable, Idle, Kinds
<1>. QED BY <1>1, TypeStep, PTL DEF Spec

-----------------------------------------------------------------------------
(* Transactions.  None of the three invariants about transaction ids is      *)
(* inductive by itself: they hold because of what the handler has in hand.   *)

(* The transaction is on record as one of the station.                      *)
Recorded(id, s) == id \in DOMAIN startTr /\ startTr[id].sern = s

(* A station holds no transaction id but one of its own.                    *)
StationsHoldOwnIds ==
    \A s \in Sern : st[s].id > 0 => Recorded(st[s].id, s)

(* Before StartTrTbl has the row, the handler has no id to return.          *)
NoIdYet == op.pc \in {"hist", "table"} => op.rv = 0

(* Between the insert into StartTrTbl and the update of CSHistTbl the two    *)
(* rows belong together.                                                    *)
RowsBelongTogether ==
    op.pc = "update" =>
        /\ op.kind = "StartTransaction"
        /\ op.rv \in DOMAIN startTr
        /\ startTr[op.rv] = [HRowId |-> op.row, sern |-> op.sern]

(* The id about to be confirmed is on record and was never given before.    *)
IdIsNew ==
    op.pc \in {"update", "reply"} /\ op.kind = "StartTransaction" /\ op.rv > 0 =>
        /\ Recorded(op.rv, op.sern)
        /\ \A x \in held : x.id # op.rv

(* The mutex keeps the history row of the handler from being cleared.       *)
OwnHistoryRow ==
    Locked => /\ op.row \in DOMAIN hist
              /\ hist[op.row].sern = op.sern
              /\ hist[op.row].action = op.kind

IInv ==
    /\ TypeOK
    /\ StationsHoldOwnIds
    /\ NoIdYet
    /\ RowsBelongTogether
    /\ IdIsNew
    /\ OwnHistoryRow
    /\ TransactionIdsUnique
    /\ GivenIdsAreRecorded
    /\ HistoryNamesOwnTransaction

(* What the actions that write no table can change without harm: a handler  *)
(* that starts without an id, that keeps its id on the way to the reply,     *)
(* that confirms no start, or that is over, and a station that forgets its   *)
(* id.                                                                      *)
QuietHandler ==
    \/ op' = op
    \/ op'.pc = "idle"
    \/ op'.pc \in {"hist", "reply"} /\ op'.rv = 0
    \/ op'.pc = "reply" /\ op'.kind # "StartTransaction"
    \/ /\ op'.pc = "reply" /\ op'.kind = op.kind /\ op'.sern = op.sern
       /\ op'.rv = op.rv /\ op.pc \in {"hist", "table", "update"}

(* Such an action keeps the invariant.                                      *)
LEMMA QuietStep ==
    ASSUME IInv, TypeOK', QuietHandler,
           UNCHANGED <<hist, startTr, held>>,
           \A s \in Sern : st'[s].id \in {st[s].id, 0}
    PROVE  IInv'
<1>1. StationsHoldOwnIds'
  BY DEF IInv, StationsHoldOwnIds, Recorded
<1>2. NoIdYet'
  BY DEF IInv, NoIdYet, QuietHandler
<1>3. RowsBelongTogether'
  BY DEF IInv, RowsBelongTogether, QuietHandler
<1>4. IdIsNew'
  <2>1. CASE op' = op
    BY <2>1 DEF IInv, IdIsNew, Recorded
  <2>2. CASE op'.pc = "idle" \/ op'.rv = 0 \/ op'.kind # "StartTransaction"
    BY <2>2 DEF IdIsNew
  <2>3. CASE /\ op'.pc = "reply" /\ op'.kind = op.kind /\ op'.sern = op.sern
             /\ op'.rv = op.rv /\ op.pc \in {"hist", "table", "update"}
    BY <2>3 DEF IInv, IdIsNew, Recorded, NoIdYet
  <2>. QED BY <2>1, <2>2, <2>3 DEF QuietHandler
<1>5. OwnHistoryRow'
  BY DEF IInv, OwnHistoryRow, Locked, QuietHandler
<1>6. TransactionIdsUnique' /\ GivenIdsAreRecorded' /\ HistoryNamesOwnTransaction'
  BY DEF IInv, TransactionIdsUnique, GivenIdsAreRecorded, HistoryNamesOwnTransaction
<1>. QED BY <1>1, <1>2, <1>3, <1>4, <1>5, <1>6 DEF IInv

(* The insert into CSHistTbl: the new row names no transaction, or the one   *)
(* the station stops.                                                       *)
LEMMA HistoryStep ==
    ASSUME IInv, TypeOK', insertOcppHistory2DB
    PROVE  IInv'
<1>. DEFINE Row == [sern |-> op.sern, action |-> op.kind,
                    sts |-> IF op.kind = "StopTransaction"
                            THEN st[op.sern].id ELSE 0]
<1>1. PICK r \in NewRow(hist) :
        /\ hist' = WithRow(hist, r, Row)
        /\ op' = IF op.kind = "Logged"
                 THEN [op EXCEPT !.pc = "reply", !.row = r, !.rv = r]
                 ELSE [op EXCEPT !.pc = "table", !.row = r]
  BY DEF insertOcppHistory2DB
<1>2. r \in Nat \ {0} /\ r \notin DOMAIN hist
  BY NewRowFresh DEF IInv, TypeOK, IsTable
<1>3. /\ DOMAIN hist' = DOMAIN hist \cup {r}
      /\ hist'[r] = Row
      /\ \A q \in DOMAIN hist : hist'[q] = hist[q]
  BY <1>1, <1>2 DEF WithRow
<1>4. /\ op.pc = "hist" /\ op.sern \in Sern /\ op.rv = 0
      /\ UNCHANGED <<startTr, st, held>>
  BY DEF insertOcppHistory2DB, IInv, TypeOK, NoIdYet
<1>5. /\ op'.kind = op.kind /\ op'.sern = op.sern /\ op'.row = r
      /\ \/ op'.pc = "table" /\ op'.rv = 0
         \/ op'.pc = "reply" /\ op'.kind = "Logged"
  BY <1>1, <1>4 DEF IInv, TypeOK
<1>6. StationsHoldOwnIds' /\ TransactionIdsUnique' /\ GivenIdsAreRecorded'
  BY <1>4 DEF IInv, StationsHoldOwnIds, Recorded, TransactionIdsUnique,
              GivenIdsAreRecorded
<1>7. NoIdYet' /\ RowsBelongTogether' /\ IdIsNew'
  BY <1>5 DEF NoIdYet, RowsBelongTogether, IdIsNew
<1>8. OwnHistoryRow'
  BY <1>3, <1>5 DEF OwnHistoryRow, Locked
<1>9. HistoryNamesOwnTransaction'
  <2>1. ASSUME NEW q \in DOMAIN hist
        PROVE  HistoryNamesOwnTransaction!(q)'
    BY <1>3, <1>4 DEF IInv, HistoryNamesOwnTransaction
  <2>2. HistoryNamesOwnTransaction!(r)'
    BY <1>3, <1>4 DEF IInv, StationsHoldOwnIds, Recorded
  <2>. QED BY <1>3, <2>1, <2>2 DEF HistoryNamesOwnTransaction
<1>. QED BY <1>6, <1>7, <1>8, <1>9 DEF IInv

(* The insert into StartTrTbl: the id is above every id ever given.         *)
LEMMA StartStep ==
    ASSUME IInv, TypeOK', insertStartTransactionReqMsg2DB
    PROVE  IInv'
<1>. DEFINE Row == [HRowId |-> op.row, sern |-> op.sern]
<1>1. PICK r \in NewRow(startTr) :
        /\ startTr' = WithRow(startTr, r, Row)
        /\ op' = [op EXCEPT !.pc = "update", !.rv = r]
  BY DEF insertStartTransactionReqMsg2DB
<1>2. r \in Nat \ {0} /\ r \notin DOMAIN startTr
  BY NewRowFresh DEF IInv, TypeOK, IsTable
<1>3. /\ DOMAIN startTr' = DOMAIN startTr \cup {r}
      /\ startTr'[r] = Row
      /\ \A q \in DOMAIN startTr : startTr'[q] = startTr[q]
  BY <1>1, <1>2 DEF WithRow
<1>4. /\ op.pc = "table" /\ op.kind = "StartTransaction"
      /\ UNCHANGED <<hist, st, held>>
  BY DEF insertStartTransactionReqMsg2DB
<1>5. /\ op'.pc = "update" /\ op'.kind = op.kind /\ op'.sern = op.sern
      /\ op'.row = op.row /\ op'.rv = r
  BY <1>1 DEF IInv, TypeOK
<1>6. StationsHoldOwnIds'
  BY <1>3, <1>4 DEF IInv, StationsHoldOwnIds, Recorded
<1>7. TransactionIdsUnique' /\ GivenIdsAreRecorded'
  BY <1>3, <1>4 DEF IInv, TransactionIdsUnique, GivenIdsAreRecorded
<1>8. HistoryNamesOwnTransaction'
  BY <1>3, <1>4 DEF IInv, HistoryNamesOwnTransaction
<1>9. NoIdYet' /\ RowsBelongTogether'
  BY <1>3, <1>4, <1>5 DEF NoIdYet, RowsBelongTogether
<1>10. IdIsNew'
  <2>1. Recorded(op.rv, op.sern)'
    BY <1>3, <1>5 DEF Recorded
  <2>2. \A x \in held : x.id # r
    BY <1>2 DEF IInv, GivenIdsAreRecorded
  <2>. QED BY <1>4, <1>5, <2>1, <2>2 DEF IdIsNew, Recorded
<1>11. OwnHistoryRow'
  BY <1>4, <1>5 DEF IInv, OwnHistoryRow, Locked
<1>. QED BY <1>6, <1>7, <1>8, <1>9, <1>10, <1>11 DEF IInv

(* The update of CSHistTbl: the row it names is still the handler's.        *)
LEMMA UpdateStep ==
    ASSUME IInv, TypeOK', updateHistOnStartTransaction
    PROVE  IInv'
<1>1. /\ op.pc = "update" /\ op.kind = "StartTransaction"
      /\ UNCHANGED <<startTr, st, held>>
      /\ DOMAIN hist' = DOMAIN hist
      /\ \A q \in DOMAIN hist \ {op.row} : hist'[q] = hist[q]
      /\ op.row \in DOMAIN hist
      /\ hist'[op.row] = [hist[op.row] EXCEPT !.sts = op.rv]
  BY DEF updateHistOnStartTransaction, IInv, RowsBelongTogether, OwnHistoryRow, Locked
<1>2. /\ op'.pc = "reply" /\ op'.kind = op.kind /\ op'.sern = op.sern
      /\ op'.row = op.row /\ op'.rv = op.rv
  BY DEF updateHistOnStartTransaction, IInv, TypeOK
<1>3. /\ hist[op.row].action = "StartTransaction" /\ hist[op.row].sern = op.sern
      /\ hist[op.row] \in HistRow
  BY <1>1 DEF IInv, OwnHistoryRow, Locked, TypeOK, IsTable
<1>4. /\ hist'[op.row].action = "StartTransaction"
      /\ hist'[op.row].sern = op.sern
      /\ hist'[op.row].sts = op.rv
  BY <1>1, <1>3 DEF HistRow
<1>5. StationsHoldOwnIds' /\ TransactionIdsUnique' /\ GivenIdsAreRecorded'
  BY <1>1 DEF IInv, StationsHoldOwnIds, Recorded, TransactionIdsUnique,
              GivenIdsAreRecorded
<1>6. NoIdYet' /\ RowsBelongTogether' /\ OwnHistoryRow'
  BY <1>2 DEF NoIdYet, RowsBelongTogether, OwnHistoryRow, Locked
<1>7. IdIsNew'
  BY <1>1, <1>2 DEF IInv, IdIsNew, Recorded
<1>8. HistoryNamesOwnTransaction'
  <2>1. ASSUME NEW q \in DOMAIN hist \ {op.row}
        PROVE  HistoryNamesOwnTransaction!(q)'
    BY <1>1 DEF IInv, HistoryNamesOwnTransaction
  <2>2. ASSUME NEW q \in DOMAIN hist, q = op.row
        PROVE  HistoryNamesOwnTransaction!(q)'
    BY <1>1, <1>4, <2>2 DEF IInv, RowsBelongTogether
  <2>. QED BY <1>1, <2>1, <2>2 DEF HistoryNamesOwnTransaction
<1>. QED BY <1>5, <1>6, <1>7, <1>8 DEF IInv

(* The confirmation: the station takes an id that nobody has.               *)
LEMMA ConfirmStep ==
    ASSUME IInv, TypeOK', ConfirmStart
    PROVE  IInv'
<1>. DEFINE s == op.sern
            x == [id |-> op.rv, sern |-> s, n |-> st[s].n]
<1>1. /\ op.pc = "reply" /\ op.kind = "StartTransaction" /\ s \in Sern
      /\ op' = Idle
      /\ held' = held \cup {x}
      /\ UNCHANGED <<hist, startTr>>
      /\ op.rv \in Nat
  BY DEF ConfirmStart, IInv, TypeOK, tables
<1>2. st'[s].id = op.rv /\ \A t \in Sern \ {s} : st'[t].id = st[t].id
  BY <1>1 DEF ConfirmStart, IInv, TypeOK
<1>3. op.rv > 0 => Recorded(op.rv, s) /\ \A y \in held : y.id # op.rv
  BY <1>1 DEF IInv, IdIsNew
<1>4. StationsHoldOwnIds'
  BY <1>1, <1>2, <1>3 DEF IInv, StationsHoldOwnIds, Recorded
<1>5. NoIdYet' /\ RowsBelongTogether' /\ IdIsNew' /\ OwnHistoryRow'
  BY <1>1 DEF Idle, NoIdYet, RowsBelongTogether, IdIsNew, OwnHistoryRow, Locked
<1>6. TransactionIdsUnique'
  BY <1>1, <1>3 DEF IInv, TransactionIdsUnique
<1>7. GivenIdsAreRecorded'
  BY <1>1, <1>3 DEF IInv, GivenIdsAreRecorded, Recorded
<1>8. HistoryNamesOwnTransaction'
  BY <1>1 DEF IInv, HistoryNamesOwnTransaction
<1>. QED BY <1>4, <1>5, <1>6, <1>7, <1>8 DEF IInv

(* Clearing a history removes no row that a handler is about to update.     *)
LEMMA ClearStep ==
    ASSUME IInv, TypeOK', NEW s \in Sern, ClearAllChargeStationsHistory(s)
    PROVE  IInv'
<1>1. /\ ~Locked
      /\ UNCHANGED <<startTr, op, st, held>>
      /\ DOMAIN hist' \subseteq DOMAIN hist
      /\ \A q \in DOMAIN hist' : hist'[q] = hist[q]
  BY DEF ClearAllChargeStationsHistory
<1>2. StationsHoldOwnIds' /\ TransactionIdsUnique' /\ GivenIdsAreRecorded'
  BY <1>1 DEF IInv, StationsHoldOwnIds, Recorded, TransactionIdsUnique,
              GivenIdsAreRecorded
<1>3. NoIdYet' /\ RowsBelongTogether' /\ IdIsNew'
  BY <1>1 DEF IInv, NoIdYet, RowsBelongTogether, IdIsNew, Recorded
<1>4. OwnHistoryRow'
  BY <1>1 DEF OwnHistoryRow, Locked
<1>5. HistoryNamesOwnTransaction'
  BY <1>1 DEF IInv, HistoryNamesOwnTransaction
<1>. QED BY <1>2, <1>3, <1>4, <1>5 DEF IInv

(* Every step keeps the invariant.                                          *)
LEMMA InductiveStep ==
    ASSUME IInv, [Next]_vars
    PROVE  IInv'
<1>0. TypeOK'
  BY TypeStep DEF IInv
<1>1. ASSUME NEW s \in Sern, PlugIn(s) \/ PlugOut(s)
      PROVE  IInv'
  BY <1>0, <1>1, QuietStep DEF PlugIn, PlugOut, tables, QuietHandler, IInv, TypeOK
<1>2. ASSUME NEW s \in Sern, NEW kind, NEW ts, Receive(s, kind, ts)
      PROVE  IInv'
  BY <1>0, <1>2, QuietStep DEF Receive, tables, QuietHandler
<1>3. CASE insertStopTransactionReqMsg2DB \/ insertMeterValuesReqMsg2DB
  <2>1. QuietHandler /\ UNCHANGED <<hist, startTr, held, st>>
    BY <1>3 DEF insertStopTransactionReqMsg2DB, insertMeterValuesReqMsg2DB,
                QuietHandler, IInv, TypeOK
  <2>. QED BY <1>0, <2>1, QuietStep
<1>4. CASE ConfirmStop \/ ConfirmOther \/ LoseConfirmation \/ StatementFails \/ Crash
  <2>1. QuietHandler
    BY <1>4 DEF ConfirmStop, ConfirmOther, LoseConfirmation, StatementFails,
                Crash, QuietHandler, Idle, IInv, TypeOK
  <2>2. UNCHANGED <<hist, startTr, held>>
    BY <1>4 DEF ConfirmStop, ConfirmOther, LoseConfirmation, StatementFails,
                Crash, tables
  <2>3. \A s \in Sern : st'[s].id \in {st[s].id, 0}
    BY <1>4 DEF ConfirmStop, ConfirmOther, LoseConfirmation, StatementFails,
                Crash, IInv, TypeOK
  <2>. QED BY <1>0, <2>1, <2>2, <2>3, QuietStep
<1>5. CASE UNCHANGED vars
  BY <1>0, <1>5, QuietStep DEF vars, QuietHandler
<1>. QED BY <1>0, <1>1, <1>2, <1>3, <1>4, <1>5, HistoryStep, StartStep, UpdateStep,
           ConfirmStep, ClearStep
         DEF Next, StartTransaction, StopTransaction, MeterValues, Logged

(* The inductive invariant of the transactions holds in every state.        *)
LEMMA InductiveInvariant == Spec => []IInv
<1>1. Init => IInv
  <2>1. Init => TypeOK
    BY DEF Init, TypeOK, IsTable, EmptyTable, Idle, Kinds
  <2>. QED BY <2>1
           DEF Init, IInv, EmptyTable, Idle, StationsHoldOwnIds, NoIdYet,
               RowsBelongTogether, IdIsNew, OwnHistoryRow, Locked,
               TransactionIdsUnique, GivenIdsAreRecorded, HistoryNamesOwnTransaction
<1>. QED BY <1>1, InductiveStep, PTL DEF Spec

(* No two charging sessions are given the same transaction id, however      *)
(* messages are repeated, statements fail, the server stops between the      *)
(* statements of OnStartTransactionRequestMessage2DB, or histories are       *)
(* cleared.                                                                 *)
THEOREM IdsAreUnique == Spec => []TransactionIdsUnique
BY InductiveInvariant, PTL DEF IInv

(* A transaction id given to a station is on record in StartTrTbl as that   *)
(* station's.                                                               *)
THEOREM IdsAreRecorded == Spec => []GivenIdsAreRecorded
BY InductiveInvariant, PTL DEF IInv

(* The start rows of CSHistTbl and the rows of StartTrTbl point at each      *)
(* other, and a stop row names a transaction of its own station.            *)
THEOREM HistoryAgreesWithTransactions == Spec => []HistoryNamesOwnTransaction
BY InductiveInvariant, PTL DEF IInv

-----------------------------------------------------------------------------
(* Meter values *)

(* A station with meter values has a last one.  The spacing is inductive     *)
(* only with it: insertMeterValuesReqMsg2DB looks at the last row alone.    *)
HasLastSample ==
    \A s \in Sern : RowsOf(s) # {} =>
        \E m \in RowsOf(s) : \A q \in RowsOf(s) : q <= m

(* A new sample is two minutes after the last one, so after all of them.    *)
LEMMA SampleStep ==
    ASSUME TypeOK, HasLastSample, MeterValuesSpaced, insertMeterValuesReqMsg2DB,
           NEW r \in NewRow(meterV), op.ts > 0, IsDue(op.sern, op.ts),
           meterV' = WithRow(meterV, r, [CSSerN |-> op.sern, Flag |-> op.ts,
                                         transactionId |-> st[op.sern].id])
    PROVE  HasLastSample' /\ MeterValuesSpaced'
<1>. DEFINE s == op.sern
<1>1. r \in Nat /\ r \notin DOMAIN meterV /\ \A q \in DOMAIN meterV : q \in Nat /\ q < r
  BY NewRowFresh DEF TypeOK, IsTable
<1>2. s \in Sern /\ op.ts \in Nat
  BY DEF insertMeterValuesReqMsg2DB, TypeOK
<1>3. /\ DOMAIN meterV' = DOMAIN meterV \cup {r}
      /\ meterV'[r] = [CSSerN |-> op.sern, Flag |-> op.ts,
                       transactionId |-> st[op.sern].id]
      /\ \A q \in DOMAIN meterV : meterV'[q] = meterV[q]
  BY <1>1 DEF WithRow
<1>4. ASSUME NEW t \in Sern
      PROVE  RowsOf(t)' = RowsOf(t) \cup (IF t = s THEN {r} ELSE {})
  BY <1>1, <1>3 DEF RowsOf
<1>5. \A t \in Sern : RowsOf(t) \subseteq DOMAIN meterV
  BY DEF RowsOf
<1>6. ASSUME NEW q \in RowsOf(s)
      PROVE  op.ts >= meterV[q].Flag + 120
  <2>1. PICK m \in RowsOf(s) : \A p \in RowsOf(s) : p <= m
    BY <1>2 DEF HasLastSample
  <2>2. op.ts >= meterV[m].Flag + 120
    BY <2>1 DEF IsDue
  <2>3. meterV[m].Flag \in Nat /\ meterV[q].Flag \in Nat
    BY <1>2, <1>5 DEF TypeOK, IsTable
  <2>4. CASE q = m
    BY <2>2, <2>4
  <2>5. CASE q # m
    <3>1. q < m
      BY <1>1, <1>2, <1>5, <2>1, <2>5
    <3>2. meterV[m].Flag >= meterV[q].Flag + 120
      BY <1>2, <3>1 DEF MeterValuesSpaced
    <3>. QED BY <1>2, <2>2, <2>3, <3>2
  <2>. QED BY <2>4, <2>5
<1>7. ASSUME NEW t \in Sern, RowsOf(t)' # {}
      PROVE  \E m \in RowsOf(t)' : \A q \in RowsOf(t)' : q <= m
  <2>1. CASE t = s
    BY <1>1, <1>4, <1>5, <2>1
  <2>2. CASE t # s
    BY <1>4, <1>7, <2>2 DEF HasLastSample
  <2>. QED BY <2>1, <2>2
<1>8. ASSUME NEW t \in Sern, NEW p \in RowsOf(t)', NEW q \in RowsOf(t)', p < q
      PROVE  meterV'[q].Flag >= meterV'[p].Flag + 120
  <2>1. CASE p \in RowsOf(t) /\ q \in RowsOf(t)
    BY <1>3, <1>5, <1>8, <2>1 DEF MeterValuesSpaced
  <2>2. CASE t = s /\ q = r /\ p \in RowsOf(t)
    <3>1. meterV'[q].Flag = op.ts /\ meterV'[p].Flag = meterV[p].Flag
      BY <1>2, <1>3, <1>5, <2>2
    <3>. QED BY <1>6, <2>2, <3>1
  <2>3. ~(p = r)
    BY <1>1, <1>4, <1>5, <1>8
  <2>. QED BY <1>4, <1>8, <2>1, <2>2, <2>3
<1>9. HasLastSample'
  BY <1>7 DEF HasLastSample
<1>10. MeterValuesSpaced'
  BY <1>8 DEF MeterValuesSpaced
<1>. QED BY <1>9, <1>10

(* The samples of a station are two minutes apart for whatever its clock     *)
(* shows and however many MeterValues arrive.                               *)
THEOREM SamplesAreSpaced == Spec => []MeterValuesSpaced
<1>1. Init => HasLastSample /\ MeterValuesSpaced
  BY DEF Init, HasLastSample, MeterValuesSpaced, RowsOf, EmptyTable
<1>2. ASSUME TypeOK, HasLastSample, MeterValuesSpaced, [Next]_vars
      PROVE  HasLastSample' /\ MeterValuesSpaced'
  <2>1. CASE UNCHANGED meterV
    BY <1>2, <2>1 DEF HasLastSample, MeterValuesSpaced, RowsOf
  <2>2. CASE insertMeterValuesReqMsg2DB
    BY <1>2, <2>1, <2>2, SampleStep DEF insertMeterValuesReqMsg2DB
  <2>3. Next => UNCHANGED meterV \/ insertMeterValuesReqMsg2DB
    BY DEF Next, PlugIn, PlugOut, StartTransaction, StopTransaction, MeterValues,
           Logged, Receive, ClearAllChargeStationsHistory, insertOcppHistory2DB,
           insertStartTransactionReqMsg2DB, updateHistOnStartTransaction,
           insertStopTransactionReqMsg2DB, ConfirmStart, ConfirmStop,
           ConfirmOther, LoseConfirmation, StatementFails, Crash, tables
  <2>. QED BY <1>2, <2>1, <2>2, <2>3 DEF vars
<1>. QED BY <1>1, <1>2, TypeCorrect, PTL DEF Spec

-----------------------------------------------------------------------------
(* The statistics.  They need a server that stores each StopTransaction     *)
(* once and a history that nobody clears.                                   *)

Faultless ==
    /\ UidNamesSern = {TRUE} /\ CanClear = FALSE
    /\ MaxCrash = 0 /\ MaxFail = 0 /\ MaxLostStop = 0

(* The handler has written the history row of this message.                 *)
Storing(kind, s) ==
    op.kind = kind /\ op.sern = s /\ op.pc \in {"table", "update", "reply"}

(* A message is that of the phase its station is in.                        *)
InTurn ==
    op.pc # "idle" =>
        /\ op.kind = "StartTransaction" => st[op.sern].phase = "starting"
        /\ op.kind = "StopTransaction" => st[op.sern].phase = "stopping"

(* The session has its start row and not yet its stop row.                  *)
InSession(s) ==
    \/ st[s].phase = "charging"
    \/ st[s].phase = "stopping" /\ ~Storing("StopTransaction", s)
    \/ Storing("StartTransaction", s)

(* A station has no more stop rows than start rows, and one less during a   *)
(* session.                                                                 *)
StopsHaveStarts(s) ==
    LET starts == ActionRows(s, "StartTransaction")
        stops == ActionRows(s, "StopTransaction")
    IN /\ IsFiniteSet(starts) /\ IsFiniteSet(stops)
       /\ Cardinality(stops) <= Cardinality(starts)
       /\ InSession(s) => Cardinality(stops) + 1 <= Cardinality(starts)

(* A transaction is named by one stop row, which is written when its        *)
(* station stops it and which StopTrTbl follows.                            *)
StopRows == {r \in DOMAIN hist : hist[r].action = "StopTransaction"}
OneStopRow ==
    \A q, r \in StopRows : hist[q].sts = hist[r].sts /\ hist[q].sts > 0 => q = r
OpenNotStopped ==
    \A s \in Sern, r \in StopRows :
        /\ st[s].phase \in {"charging", "stopping"} /\ st[s].id > 0
        /\ ~Storing("StopTransaction", s)
        => hist[r].sts # st[s].id
NewNotStopped ==
    op.kind = "StartTransaction" /\ op.pc \in {"update", "reply"} /\ op.rv > 0 =>
        \A r \in StopRows : hist[r].sts # op.rv
StopRowInHand ==
    op.kind = "StopTransaction" /\ op.pc = "table" =>
        op.row \in StopRows /\ hist[op.row].sts = st[op.sern].id
StopsFollow ==
    \A q \in DOMAIN stopTr : stopTr[q].transactionId > 0 =>
        \E r \in StopRows : hist[r].sts = stopTr[q].transactionId

StatInv ==
    /\ InTurn
    /\ \A s \in Sern : StopsHaveStarts(s)
    /\ OneStopRow /\ OpenNotStopped /\ NewNotStopped /\ StopRowInHand /\ StopsFollow

(* Steps that write neither the history nor StopTrTbl.                      *)
LEMMA StatQuiet ==
    ASSUME StatInv, UNCHANGED <<hist, stopTr>>,
           InTurn', OpenNotStopped', NewNotStopped', StopRowInHand',
           \A s \in Sern : InSession(s)' => InSession(s)
    PROVE  StatInv'
<1>1. ASSUME NEW s \in Sern PROVE StopsHaveStarts(s)'
  <2>1. StopsHaveStarts(s)
    BY DEF StatInv
  <2>. QED BY <2>1 DEF StopsHaveStarts, ActionRows
<1>2. OneStopRow' /\ StopsFollow'
  BY DEF StatInv, OneStopRow, StopsFollow, StopRows
<1>. QED BY <1>1, <1>2 DEF StatInv

(* The stations' own steps and new messages.                                *)
LEMMA StatStations ==
    ASSUME Faultless, TypeOK, StatInv, NEW s \in Sern,
           \/ PlugIn(s) \/ PlugOut(s) \/ StartTransaction(s) \/ StopTransaction(s)
           \/ Logged(s) \/ \E ts \in MeterTime : MeterValues(s, ts)
    PROVE  StatInv'
<1>0. /\ UNCHANGED <<hist, stopTr>>
      /\ st \in [Sern -> [phase : {"idle", "starting", "charging", "stopping"},
                          n : Nat, id : Nat]]
  BY DEF PlugIn, PlugOut, StartTransaction, StopTransaction, Logged, MeterValues,
         Receive, tables, TypeOK
<1>. USE DEF StatInv
<1>1. ASSUME PlugIn(s) PROVE StatInv'
  <2>1. /\ op' = op /\ st[s].phase = "idle"
        /\ st'[s].phase = "starting" /\ st'[s].id = 0
        /\ \A t \in Sern : t # s => st'[t] = st[t]
    BY <1>0, <1>1 DEF PlugIn
  <2>2. op.pc # "idle" /\ op.kind \in {"StartTransaction", "StopTransaction"}
           => op.sern # s
    BY <2>1 DEF InTurn
  <2>3. op.pc # "idle" => op.sern \in Sern
    BY DEF TypeOK
  <2>4. InTurn'
    BY <2>1, <2>2, <2>3 DEF InTurn
  <2>5. OpenNotStopped' /\ NewNotStopped'
    BY <1>0, <2>1 DEF OpenNotStopped, NewNotStopped, StopRows, Storing
  <2>6. StopRowInHand'
    BY <1>0, <2>1, <2>2, <2>3 DEF StopRowInHand, StopRows
  <2>7. \A t \in Sern : InSession(t)' => InSession(t)
    BY <2>1, <2>2 DEF InSession, Storing
  <2>. QED BY <1>0, <2>4, <2>5, <2>6, <2>7, StatQuiet
<1>2. ASSUME PlugOut(s) PROVE StatInv'
  <2>1. /\ op' = op /\ st[s].phase = "charging"
        /\ st'[s].phase = "stopping" /\ st'[s].id = st[s].id
        /\ \A t \in Sern : t # s => st'[t] = st[t]
    BY <1>0, <1>2 DEF PlugOut
  <2>2. op.pc # "idle" /\ op.kind \in {"StartTransaction", "StopTransaction"}
           => op.sern # s
    BY <2>1 DEF InTurn
  <2>3. op.pc # "idle" => op.sern \in Sern
    BY DEF TypeOK
  <2>4. InTurn'
    BY <2>1, <2>2, <2>3 DEF InTurn
  <2>5. OpenNotStopped' /\ NewNotStopped'
    BY <1>0, <2>1, <2>2 DEF OpenNotStopped, NewNotStopped, StopRows, Storing
  <2>6. StopRowInHand'
    BY <1>0, <2>1, <2>2, <2>3 DEF StopRowInHand, StopRows
  <2>7. \A t \in Sern : InSession(t)' => InSession(t)
    BY <2>1, <2>2 DEF InSession, Storing
  <2>. QED BY <1>0, <2>4, <2>5, <2>6, <2>7, StatQuiet
<1>3. ASSUME NEW kind \in Kinds, NEW ts, Receive(s, kind, ts),
             kind = "StartTransaction" => st[s].phase = "starting",
             kind = "StopTransaction" => st[s].phase = "stopping"
      PROVE  StatInv'
  <2>1. /\ op.pc = "idle" /\ op'.pc = "hist" /\ op'.kind = kind /\ op'.sern = s
        /\ st' = st
    BY <1>3 DEF Receive, Faultless
  <2>2. InTurn' /\ NewNotStopped' /\ StopRowInHand'
    BY <1>3, <2>1 DEF InTurn, NewNotStopped, StopRowInHand
  <2>3. OpenNotStopped'
    BY <1>0, <2>1 DEF OpenNotStopped, StopRows, Storing
  <2>4. \A t \in Sern : InSession(t)' => InSession(t)
    BY <2>1 DEF InSession, Storing
  <2>. QED BY <1>0, <2>2, <2>3, <2>4, StatQuiet
<1>4. ASSUME StartTransaction(s) \/ StopTransaction(s) \/ Logged(s)
             \/ \E ts \in MeterTime : MeterValues(s, ts)
      PROVE  StatInv'
  BY <1>3, <1>4 DEF StartTransaction, StopTransaction, Logged, MeterValues, Kinds
<1>. QED BY <1>1, <1>2, <1>4

(* The steps of a handler that write neither, and the confirmations.        *)
LEMMA StatReplies ==
    ASSUME Faultless, IInv, StatInv,
           \/ insertStartTransactionReqMsg2DB \/ insertMeterValuesReqMsg2DB
           \/ ConfirmStart \/ ConfirmStop \/ ConfirmOther \/ LoseConfirmation
    PROVE  StatInv'
<1>0. /\ UNCHANGED <<hist, stopTr>>
      /\ st \in [Sern -> [phase : {"idle", "starting", "charging", "stopping"},
                          n : Nat, id : Nat]]
      /\ op \in OpType /\ (op.pc # "idle" => op.sern \in Sern)
  BY DEF insertStartTransactionReqMsg2DB, insertMeterValuesReqMsg2DB, ConfirmStart,
         ConfirmStop, ConfirmOther, LoseConfirmation, tables, IInv, TypeOK, OpType
<1>. USE DEF StatInv
<1>1. ASSUME insertStartTransactionReqMsg2DB PROVE StatInv'
  <2>1. PICK r \in NewRow(startTr) : op' = [op EXCEPT !.pc = "update", !.rv = r]
    BY <1>1 DEF insertStartTransactionReqMsg2DB
  <2>2. /\ op.pc = "table" /\ op.kind = "StartTransaction" /\ st' = st
        /\ op'.pc = "update" /\ op'.rv = r /\ op'.kind = op.kind /\ op'.sern = op.sern
    BY <1>0, <1>1, <2>1 DEF insertStartTransactionReqMsg2DB, OpType
  <2>3. \A q \in StopRows : hist[q].sts > 0 => hist[q].sts \in DOMAIN startTr
    BY DEF IInv, HistoryNamesOwnTransaction, StopRows
  <2>4. r \notin DOMAIN startTr
    BY NewRowFresh DEF IInv, TypeOK, IsTable
  <2>5. InTurn' /\ StopRowInHand'
    BY <2>2 DEF InTurn, StopRowInHand
  <2>6. NewNotStopped'
    BY <1>0, <2>2, <2>3, <2>4 DEF NewNotStopped, StopRows
  <2>7. OpenNotStopped'
    BY <1>0, <2>2 DEF OpenNotStopped, StopRows, Storing
  <2>8. \A t \in Sern : InSession(t)' => InSession(t)
    BY <2>2 DEF InSession, Storing
  <2>. QED BY <1>0, <2>5, <2>6, <2>7, <2>8, StatQuiet
<1>2. ASSUME insertMeterValuesReqMsg2DB \/ ConfirmOther PROVE StatInv'
  <2>1. /\ op.kind \in {"MeterValues", "Logged"}
        /\ op'.kind \in {"MeterValues", "Logged"} /\ st' = st
    <3>1. CASE insertMeterValuesReqMsg2DB
      <4>1. \/ \E r : op' = [op EXCEPT !.pc = "reply", !.rv = r]
            \/ op' = [op EXCEPT !.pc = "reply"]
        BY <3>1 DEF insertMeterValuesReqMsg2DB
      <4>2. op'.kind = op.kind
        BY <1>0, <4>1 DEF OpType
      <4>. QED BY <3>1, <4>2 DEF insertMeterValuesReqMsg2DB
    <3>2. CASE ConfirmOther
      BY <3>2 DEF ConfirmOther, Idle
    <3>. QED BY <1>2, <3>1, <3>2
  <2>2. InTurn' /\ StopRowInHand' /\ NewNotStopped'
    BY <2>1 DEF InTurn, StopRowInHand, NewNotStopped
  <2>3. OpenNotStopped'
    BY <1>0, <2>1 DEF OpenNotStopped, StopRows, Storing
  <2>4. \A t \in Sern : InSession(t)' => InSession(t)
    BY <2>1 DEF InSession, Storing
  <2>. QED BY <1>0, <2>2, <2>3, <2>4, StatQuiet
<1>3. ASSUME ConfirmStart \/ ConfirmStop \/ LoseConfirmation
      PROVE  InTurn' /\ StopRowInHand' /\ NewNotStopped' /\ op.pc = "reply"
             /\ op'.pc = "idle"
  BY <1>3 DEF ConfirmStart, ConfirmStop, LoseConfirmation, Idle, InTurn,
              StopRowInHand, NewNotStopped
<1>4. ASSUME ConfirmStart PROVE StatInv'
  <2>1. /\ op.kind = "StartTransaction" /\ st'[op.sern].phase = "charging"
        /\ st'[op.sern].id = op.rv /\ op.sern \in Sern
        /\ \A t \in Sern : t # op.sern => st'[t] = st[t]
    BY <1>0, <1>4 DEF ConfirmStart
  <2>2. op.rv > 0 => \A r \in StopRows : hist[r].sts # op.rv
    BY <1>3, <1>4, <2>1 DEF NewNotStopped
  <2>3. OpenNotStopped'
    BY <1>0, <1>3, <1>4, <2>1, <2>2 DEF OpenNotStopped, StopRows, Storing
  <2>4. \A t \in Sern : InSession(t)' => InSession(t)
    BY <1>3, <1>4, <2>1 DEF InSession, Storing
  <2>. QED BY <1>0, <1>3, <1>4, <2>3, <2>4, StatQuiet
<1>5. ASSUME ConfirmStop PROVE StatInv'
  <2>1. /\ op.kind = "StopTransaction" /\ st'[op.sern].phase = "idle"
        /\ op.sern \in Sern
        /\ \A t \in Sern : t # op.sern => st'[t] = st[t]
    BY <1>0, <1>5 DEF ConfirmStop
  <2>2. OpenNotStopped'
    BY <1>0, <1>3, <1>5, <2>1 DEF OpenNotStopped, StopRows, Storing
  <2>3. \A t \in Sern : InSession(t)' => InSession(t)
    BY <1>3, <1>5, <2>1 DEF InSession, Storing
  <2>. QED BY <1>0, <1>3, <1>5, <2>2, <2>3, StatQuiet
<1>6. ASSUME LoseConfirmation PROVE StatInv'
  <2>1. count["stop"] \in Nat
    BY DEF IInv, TypeOK, Bounded
  <2>2. op.kind = "StartTransaction" /\ st' = st
    BY <1>6, <2>1 DEF LoseConfirmation, Use, Faultless
  <2>3. OpenNotStopped'
    BY <1>0, <1>3, <1>6, <2>2 DEF OpenNotStopped, StopRows, Storing
  <2>4. \A t \in Sern : InSession(t)' => InSession(t)
    <3>1. st[op.sern].phase = "starting"
      BY <1>3, <1>6, <2>2 DEF InTurn
    <3>. QED BY <1>3, <1>6, <2>2, <3>1 DEF InSession, Storing
  <2>. QED BY <1>0, <1>3, <1>6, <2>3, <2>4, StatQuiet
<1>. QED BY <1>1, <1>2, <1>4, <1>5, <1>6
(* The insert into CSHistTbl.                                               *)
LEMMA StatHistory ==
    ASSUME Faultless, IInv, StatInv, insertOcppHistory2DB
    PROVE  StatInv'
<1>. USE DEF StatInv
<1>. DEFINE Row == [sern |-> op.sern, action |-> op.kind,
                    sts |-> IF op.kind = "StopTransaction"
                            THEN st[op.sern].id ELSE 0]
<1>1. PICK r \in NewRow(hist) :
        /\ hist' = WithRow(hist, r, Row)
        /\ op' = IF op.kind = "Logged"
                 THEN [op EXCEPT !.pc = "reply", !.row = r, !.rv = r]
                 ELSE [op EXCEPT !.pc = "table", !.row = r]
  BY DEF insertOcppHistory2DB
<1>2. r \in Nat \ {0} /\ r \notin DOMAIN hist
  BY NewRowFresh DEF IInv, TypeOK, IsTable
<1>3. /\ DOMAIN hist' = DOMAIN hist \cup {r}
      /\ \A q \in DOMAIN hist : hist'[q] = hist[q]
      /\ hist'[r].sern = op.sern /\ hist'[r].action = op.kind
      /\ op.kind = "StopTransaction" => hist'[r].sts = st[op.sern].id
  BY <1>1, <1>2 DEF WithRow
<1>4. op.pc = "hist" /\ op.sern \in Sern /\ UNCHANGED <<stopTr, st>>
  BY DEF insertOcppHistory2DB, IInv, TypeOK
<1>5. /\ op'.kind = op.kind /\ op'.sern = op.sern /\ op'.row = r
      /\ IF op.kind = "Logged" THEN op'.pc = "reply" ELSE op'.pc = "table"
  BY <1>1, <1>4 DEF IInv, TypeOK
<1>6. InTurn'
  BY <1>4, <1>5 DEF InTurn
<1>7. StopRows' = IF op.kind = "StopTransaction" THEN StopRows \cup {r} ELSE StopRows
  BY <1>2, <1>3 DEF StopRows
<1>8. \A q \in StopRows : q \in DOMAIN hist /\ q # r /\ hist'[q] = hist[q]
  BY <1>2, <1>3 DEF StopRows
<1>9. ASSUME op.kind = "StopTransaction"
      PROVE  /\ st[op.sern].phase = "stopping"
             /\ st[op.sern].id > 0 => \A q \in StopRows : hist[q].sts # st[op.sern].id
  <2>1. st[op.sern].phase = "stopping"
    BY <1>4, <1>9 DEF InTurn
  <2>2. ~Storing("StopTransaction", op.sern)
    BY <1>4 DEF Storing
  <2>. QED BY <1>4, <2>1, <2>2 DEF OpenNotStopped
<1>10. OneStopRow'
  <2>1. CASE op.kind = "StopTransaction"
    BY <1>3, <1>7, <1>8, <1>9, <2>1 DEF OneStopRow
  <2>2. CASE op.kind # "StopTransaction"
    BY <1>7, <1>8, <2>2 DEF OneStopRow
  <2>. QED BY <2>1, <2>2
<1>11. OpenNotStopped'
  <2>. SUFFICES ASSUME NEW s \in Sern, NEW q \in StopRows',
                       st[s].phase \in {"charging", "stopping"}, st[s].id > 0,
                       ~Storing("StopTransaction", s)', hist'[q].sts = st[s].id
                PROVE  FALSE
    BY <1>4 DEF OpenNotStopped
  <2>1. ~Storing("StopTransaction", s)
    BY <1>4 DEF Storing
  <2>2. q \notin StopRows
    BY <1>8, <2>1 DEF OpenNotStopped
  <2>3. op.kind = "StopTransaction" /\ q = r
    BY <1>7, <2>2
  <2>4. s # op.sern
    BY <1>5, <2>3 DEF Storing
  <2>5. st[op.sern].id = st[s].id
    BY <1>3, <2>3
  <2>. QED BY <1>4, <2>4, <2>5 DEF IInv, StationsHoldOwnIds, Recorded
<1>12. NewNotStopped'
  BY <1>5 DEF NewNotStopped
<1>13. StopRowInHand'
  BY <1>3, <1>4, <1>5, <1>7 DEF StopRowInHand
<1>14. StopsFollow'
  BY <1>4, <1>7, <1>8 DEF StopsFollow
<1>15. ASSUME NEW s \in Sern
       PROVE  StopsHaveStarts(s)'
  <2>. DEFINE A == ActionRows(s, "StartTransaction")
              B == ActionRows(s, "StopTransaction")
  <2>1. /\ IsFiniteSet(A) /\ IsFiniteSet(B)
        /\ Cardinality(B) <= Cardinality(A)
        /\ InSession(s) => Cardinality(B) + 1 <= Cardinality(A)
    BY DEF StopsHaveStarts
  <2>2. Cardinality(A) \in Nat /\ Cardinality(B) \in Nat
    BY <2>1, FS_CardinalityType
  <2>3. /\ A' = IF op.sern = s /\ op.kind = "StartTransaction" THEN A \cup {r} ELSE A
        /\ B' = IF op.sern = s /\ op.kind = "StopTransaction" THEN B \cup {r} ELSE B
        /\ r \notin A /\ r \notin B
    BY <1>2, <1>3 DEF ActionRows
  <2>4. SUFFICES /\ IsFiniteSet(A') /\ IsFiniteSet(B')
                 /\ Cardinality(B') <= Cardinality(A')
                 /\ InSession(s)' => Cardinality(B') + 1 <= Cardinality(A')
    BY DEF StopsHaveStarts
  <2>. HIDE DEF A, B
  <2>5. CASE op.sern = s /\ op.kind = "StartTransaction"
    <3>1. A' = A \cup {r} /\ B' = B
      BY <2>3, <2>5
    <3>2. IsFiniteSet(A') /\ Cardinality(A') = Cardinality(A) + 1
      BY <2>1, <2>3, <3>1, FS_AddElement
    <3>. QED BY <2>1, <2>2, <3>1, <3>2
  <2>6. CASE op.sern = s /\ op.kind = "StopTransaction"
    <3>1. A' = A /\ B' = B \cup {r}
      BY <2>3, <2>6
    <3>2. IsFiniteSet(B') /\ Cardinality(B') = Cardinality(B) + 1
      BY <2>1, <2>3, <3>1, FS_AddElement
    <3>3. InSession(s) /\ ~InSession(s)'
      BY <1>4, <1>5, <1>9, <2>6 DEF InSession, Storing
    <3>. QED BY <2>1, <2>2, <3>1, <3>2, <3>3
  <2>7. CASE op.sern # s \/ op.kind \notin {"StartTransaction", "StopTransaction"}
    <3>1. A' = A /\ B' = B
      BY <2>3, <2>7
    <3>2. InSession(s)' => InSession(s)
      BY <1>4, <1>5, <2>7 DEF InSession, Storing
    <3>. QED BY <2>1, <3>1, <3>2
  <2>. QED BY <2>5, <2>6, <2>7
<1>. QED BY <1>6, <1>10, <1>11, <1>12, <1>13, <1>14, <1>15

(* The update of the start row and the insert into StopTrTbl.               *)
LEMMA StatTables ==
    ASSUME Faultless, IInv, StatInv,
           updateHistOnStartTransaction \/ insertStopTransactionReqMsg2DB
    PROVE  StatInv'
<1>0. op \in OpType /\ op.sern \in Sern
  BY DEF IInv, TypeOK, OpType, updateHistOnStartTransaction,
         insertStopTransactionReqMsg2DB
<1>. USE DEF StatInv
<1>1. ASSUME updateHistOnStartTransaction PROVE StatInv'
  <2>1. /\ op.pc = "update" /\ UNCHANGED <<stopTr, st>>
        /\ op'.pc = "reply" /\ op'.kind = op.kind /\ op'.sern = op.sern
        /\ op'.rv = op.rv
    BY <1>0, <1>1 DEF updateHistOnStartTransaction, OpType
  <2>2. op.kind = "StartTransaction" /\ op.row \in DOMAIN hist
        /\ hist[op.row].action = "StartTransaction"
    BY <2>1 DEF IInv, RowsBelongTogether, OwnHistoryRow, Locked
  <2>3. /\ DOMAIN hist' = DOMAIN hist
        /\ \A q \in DOMAIN hist : q # op.row => hist'[q] = hist[q]
    BY <1>1 DEF updateHistOnStartTransaction
  <2>4. /\ hist'[op.row].action = hist[op.row].action
        /\ hist'[op.row].sern = hist[op.row].sern
    <3>1. hist[op.row] \in HistRow
      BY <2>2 DEF IInv, TypeOK, IsTable
    <3>2. hist'[op.row] = [hist[op.row] EXCEPT !.sts = op.rv]
      BY <1>1, <2>2 DEF updateHistOnStartTransaction
    <3>. QED BY <3>1, <3>2 DEF HistRow
  <2>5. StopRows' = StopRows /\ \A q \in StopRows : hist'[q] = hist[q]
    BY <2>2, <2>3, <2>4 DEF StopRows
  <2>6. \A s \in Sern, a \in Kinds : ActionRows(s, a)' = ActionRows(s, a)
    BY <2>2, <2>3, <2>4 DEF ActionRows
  <2>7. InTurn' /\ StopRowInHand'
    BY <2>1, <2>2 DEF InTurn, StopRowInHand
  <2>8. OneStopRow' /\ StopsFollow'
    BY <2>1, <2>5 DEF OneStopRow, StopsFollow
  <2>9. NewNotStopped'
    BY <2>1, <2>5 DEF NewNotStopped
  <2>10. OpenNotStopped'
    BY <2>1, <2>2, <2>5 DEF OpenNotStopped, Storing
  <2>11. ASSUME NEW s \in Sern PROVE StopsHaveStarts(s)'
    <3>1. InSession(s)' => InSession(s)
      BY <2>1, <2>2 DEF InSession, Storing
    <3>2. /\ ActionRows(s, "StartTransaction")' = ActionRows(s, "StartTransaction")
          /\ ActionRows(s, "StopTransaction")' = ActionRows(s, "StopTransaction")
      BY <2>6 DEF Kinds
    <3>3. StopsHaveStarts(s)
      OBVIOUS
    <3>. QED BY <3>1, <3>2, <3>3 DEF StopsHaveStarts
  <2>. QED BY <2>7, <2>8, <2>9, <2>10, <2>11
<1>2. ASSUME insertStopTransactionReqMsg2DB PROVE StatInv'
  <2>. DEFINE Row == [HRowId |-> op.row, transactionId |-> st[op.sern].id]
  <2>1. PICK r \in NewRow(stopTr) : /\ stopTr' = WithRow(stopTr, r, Row)
                                    /\ op' = [op EXCEPT !.pc = "reply", !.rv = r]
    BY <1>2 DEF insertStopTransactionReqMsg2DB
  <2>2. /\ op.pc = "table" /\ op.kind = "StopTransaction" /\ UNCHANGED <<hist, st>>
        /\ op'.pc = "reply" /\ op'.kind = op.kind /\ op'.sern = op.sern
    BY <1>0, <1>2, <2>1 DEF insertStopTransactionReqMsg2DB, OpType
  <2>3. /\ DOMAIN stopTr' = DOMAIN stopTr \cup {r}
        /\ \A q \in DOMAIN stopTr : q # r => stopTr'[q] = stopTr[q]
        /\ stopTr'[r].transactionId = st[op.sern].id
    BY <2>1 DEF WithRow
  <2>4. StopRows' = StopRows
    BY <2>2 DEF StopRows
  <2>5. InTurn' /\ StopRowInHand' /\ NewNotStopped'
    BY <2>2 DEF InTurn, StopRowInHand, NewNotStopped
  <2>6. StopsFollow'
    BY <2>2, <2>3, <2>4 DEF StopsFollow, StopRowInHand
  <2>7. OneStopRow' /\ OpenNotStopped'
    BY <2>2, <2>4 DEF OneStopRow, OpenNotStopped, Storing
  <2>8. ASSUME NEW s \in Sern PROVE StopsHaveStarts(s)'
    <3>1. InSession(s)' => InSession(s)
      BY <2>2 DEF InSession, Storing
    <3>2. StopsHaveStarts(s)
      OBVIOUS
    <3>. QED BY <2>2, <3>1, <3>2 DEF StopsHaveStarts, ActionRows
  <2>. QED BY <2>5, <2>6, <2>7, <2>8
<1>. QED BY <1>1, <1>2

(* On a faultless server every step keeps the invariant of the statistics.  *)
LEMMA StatStep ==
    ASSUME Faultless, IInv, StatInv, [Next]_vars
    PROVE  StatInv'
<1>1. count["crash"] \in Nat /\ count["fail"] \in Nat
  BY DEF IInv, TypeOK, Bounded
<1>2. ~Crash /\ ~StatementFails
  BY <1>1 DEF Crash, StatementFails, Use, Faultless
<1>3. \A s \in Sern : ~ClearAllChargeStationsHistory(s)
  BY DEF ClearAllChargeStationsHistory, Faultless
<1>4. CASE UNCHANGED vars
  <2>1. \A s \in Sern : StopsHaveStarts(s)'
    BY <1>4 DEF StatInv, vars, StopsHaveStarts, ActionRows, InSession, Storing
  <2>2. /\ InTurn' /\ OneStopRow' /\ OpenNotStopped' /\ NewNotStopped'
        /\ StopRowInHand' /\ StopsFollow'
    BY <1>4 DEF StatInv, vars, InTurn, OneStopRow, OpenNotStopped, NewNotStopped,
                StopRowInHand, StopsFollow, StopRows, Storing
  <2>. QED BY <2>1, <2>2 DEF StatInv
<1>5. TypeOK
  BY DEF IInv
<1>. QED BY <1>2, <1>3, <1>4, <1>5, StatStations, StatReplies, StatHistory,
            StatTables DEF Next

(* What the invariant says of the statistics: every stop row counts, and    *)
(* one of them names the transaction.                                       *)
LEMMA ReportedOnce ==
    ASSUME IInv, StatInv
    PROVE  FinishedReportedOnce
<1>. SUFFICES ASSUME NEW q \in DOMAIN stopTr, stopTr[q].transactionId > 0
              PROVE  TimesReported(startTr[stopTr[q].transactionId].sern,
                                   stopTr[q].transactionId) = 1
  BY DEF FinishedReportedOnce
<1>. DEFINE id == stopTr[q].transactionId
<1>1. PICK r \in StopRows : hist[r].sts = id
  BY DEF StatInv, StopsFollow
<1>2. PICK s \in Sern : s = hist[r].sern
  BY DEF IInv, TypeOK, IsTable, HistRow, StopRows
<1>3. startTr[id].sern = s
  BY <1>1, <1>2 DEF IInv, HistoryNamesOwnTransaction, StopRows
<1>. DEFINE A == ActionRows(s, "StartTransaction")
            B == ActionRows(s, "StopTransaction")
<1>4. r \in B /\ B \subseteq StopRows
  BY <1>2 DEF ActionRows, StopRows
<1>5. IsFiniteSet(A) /\ IsFiniteSet(B) /\ Cardinality(B) <= Cardinality(A)
  BY DEF StatInv, StopsHaveStarts
<1>6. CountedStops(s) = B
  <2>1. ASSUME NEW p \in B
        PROVE  Cardinality({o \in B : o <= p}) <= Cardinality(A)
    <3>1. /\ Cardinality({o \in B : o <= p}) <= Cardinality(B)
          /\ IsFiniteSet({o \in B : o <= p})
      BY <1>5, FS_Subset
    <3>2. /\ Cardinality(A) \in Nat /\ Cardinality(B) \in Nat
          /\ Cardinality({o \in B : o <= p}) \in Nat
      BY <1>5, <3>1, FS_CardinalityType
    <3>. QED BY <1>5, <3>1, <3>2
  <2>. QED BY <2>1 DEF CountedStops
<1>7. {p \in CountedStops(s) : hist[p].sts = id} = {r}
  BY <1>1, <1>4, <1>6 DEF StatInv, OneStopRow
<1>. QED BY <1>3, <1>7, FS_Singleton DEF TimesReported

(* As long as each StopTransaction is stored once and no history is         *)
(* cleared, the statistics report every finished transaction exactly once,  *)
(* however often StartTransactions are repeated.                            *)
THEOREM StatisticsExact ==
    ASSUME Faultless
    PROVE  Spec => []FinishedReportedOnce
<1>1. Init => StatInv
  <2>. SUFFICES ASSUME Init PROVE StatInv
    OBVIOUS
  <2>1. /\ DOMAIN hist = {} /\ DOMAIN stopTr = {} /\ op.pc = "idle"
        /\ op.kind = "Logged" /\ \A s \in Sern : st[s].phase = "idle"
    BY DEF Init, EmptyTable, Idle
  <2>2. \A s \in Sern, a \in Kinds : ActionRows(s, a) = {}
    BY <2>1 DEF ActionRows
  <2>3. ASSUME NEW s \in Sern PROVE StopsHaveStarts(s)
    <3>1. ~InSession(s)
      BY <2>1 DEF InSession, Storing
    <3>2. /\ ActionRows(s, "StartTransaction") = {}
          /\ ActionRows(s, "StopTransaction") = {}
      BY <2>2 DEF Kinds
    <3>. QED BY <3>1, <3>2, FS_EmptySet DEF StopsHaveStarts
  <2>4. /\ InTurn /\ OneStopRow /\ OpenNotStopped /\ NewNotStopped
        /\ StopRowInHand /\ StopsFollow
    BY <2>1 DEF InTurn, OneStopRow, OpenNotStopped, NewNotStopped,
                StopRowInHand, StopsFollow, StopRows
  <2>. QED BY <2>3, <2>4 DEF StatInv
<1>2. IInv /\ StatInv /\ [Next]_vars => StatInv'
  BY StatStep
<1>3. IInv /\ StatInv => FinishedReportedOnce
  BY ReportedOnce
<1>. QED BY <1>1, <1>2, <1>3, InductiveInvariant, PTL DEF Spec

-----------------------------------------------------------------------------
(* The ledger.  The numbers of a station's sessions grow, an id that a      *)
(* station holds or a stop row names was given, and the transaction of a    *)
(* station that charges, or whose meter values are being stored, has no     *)
(* stop yet.                                                                *)

SessionsNumbered ==
    \A s \in Sern : st[s].n <= MaxSession /\ (st[s].phase # "idle" => st[s].n >= 1)
SessionsInOrder ==
    \A x \in held : /\ x.n <= st[x.sern].n
                    /\ st[x.sern].phase = "starting" => x.n < st[x.sern].n
IdsHeld ==
    \A s \in Sern : st[s].id > 0 => \E x \in held : x.id = st[s].id /\ x.sern = s
StopsGiven ==
    \A r \in DOMAIN stopTr : stopTr[r].transactionId > 0 =>
        \E x \in held : x.id = stopTr[r].transactionId
Metered(s) ==
    \/ st[s].phase = "charging"
    \/ op.pc # "idle" /\ op.kind = "MeterValues" /\ op.sern = s
MeteredNotStopped ==
    \A s \in Sern, r \in DOMAIN stopTr :
        st[s].id > 0 /\ Metered(s) => stopTr[r].transactionId # st[s].id

LedgerInv ==
    /\ InTurn /\ SessionsNumbered /\ SessionsInOrder
    /\ IdsHeld /\ StopsGiven /\ MeteredNotStopped

(* Steps in which the stations, what they were given and StopTrTbl stay,    *)
(* and the handler goes on or ends.                                         *)
LEMMA LedgerQuiet ==
    ASSUME LedgerInv, UNCHANGED <<st, held, stopTr>>,
           \/ op' = op \/ op'.pc = "idle"
           \/ op.pc # "idle" /\ op'.kind = op.kind /\ op'.sern = op.sern
    PROVE  LedgerInv'
<1>1. InTurn'
  BY DEF LedgerInv, InTurn
<1>2. SessionsNumbered' /\ SessionsInOrder' /\ IdsHeld' /\ StopsGiven'
  BY DEF LedgerInv, SessionsNumbered, SessionsInOrder, IdsHeld, StopsGiven
<1>3. MeteredNotStopped'
  BY DEF LedgerInv, MeteredNotStopped, Metered
<1>. QED BY <1>1, <1>2, <1>3 DEF LedgerInv

(* A station begins or ends a session by itself, or sends a message.        *)
LEMMA LedgerStations ==
    ASSUME TypeOK, LedgerInv, NEW s \in Sern,
           \/ PlugIn(s) \/ PlugOut(s) \/ StartTransaction(s) \/ StopTransaction(s)
           \/ Logged(s) \/ \E ts \in MeterTime : MeterValues(s, ts)
    PROVE  LedgerInv'
<1>0. /\ UNCHANGED <<held, stopTr>>
      /\ st \in [Sern -> [phase : {"idle", "starting", "charging", "stopping"},
                          n : Nat, id : Nat]]
      /\ held \subseteq [id : Nat, sern : Sern, n : Nat]
      /\ op.pc # "idle" => op.sern \in Sern
  BY DEF PlugIn, PlugOut, StartTransaction, StopTransaction, Logged, MeterValues,
         Receive, tables, TypeOK
<1>. USE DEF LedgerInv
<1>1. ASSUME PlugIn(s) PROVE LedgerInv'
  <2>1. /\ op' = op /\ st[s].phase = "idle" /\ st[s].n < MaxSession
        /\ st'[s].phase = "starting" /\ st'[s].id = 0 /\ st'[s].n = st[s].n + 1
        /\ \A t \in Sern : t # s => st'[t] = st[t]
    BY <1>0, <1>1 DEF PlugIn
  <2>2. InTurn'
    BY <1>0, <2>1 DEF InTurn
  <2>3. SessionsNumbered'
    BY <1>0, <2>1, BoundsAssumption DEF SessionsNumbered
  <2>4. SessionsInOrder'
    BY <1>0, <2>1 DEF SessionsInOrder
  <2>5. IdsHeld' /\ StopsGiven' /\ MeteredNotStopped'
    BY <1>0, <2>1 DEF IdsHeld, StopsGiven, MeteredNotStopped, Metered
  <2>. QED BY <2>2, <2>3, <2>4, <2>5
<1>2. ASSUME PlugOut(s) PROVE LedgerInv'
  <2>1. /\ op' = op /\ st[s].phase = "charging"
        /\ st'[s].phase = "stopping" /\ st'[s].id = st[s].id /\ st'[s].n = st[s].n
        /\ \A t \in Sern : t # s => st'[t] = st[t]
    BY <1>0, <1>2 DEF PlugOut
  <2>2. InTurn'
    BY <1>0, <2>1 DEF InTurn
  <2>3. SessionsNumbered' /\ SessionsInOrder'
    BY <1>0, <2>1 DEF SessionsNumbered, SessionsInOrder
  <2>4. IdsHeld' /\ StopsGiven' /\ MeteredNotStopped'
    BY <1>0, <2>1 DEF IdsHeld, StopsGiven, MeteredNotStopped, Metered
  <2>. QED BY <2>2, <2>3, <2>4
<1>3. ASSUME NEW kind \in Kinds, NEW ts, Receive(s, kind, ts),
             kind = "StartTransaction" => st[s].phase = "starting",
             kind = "StopTransaction" => st[s].phase = "stopping",
             kind = "MeterValues" => st[s].phase = "charging"
      PROVE  LedgerInv'
  <2>1. op.pc = "idle" /\ op'.kind = kind /\ op'.sern = s /\ st' = st
    BY <1>3 DEF Receive
  <2>2. InTurn' /\ MeteredNotStopped'
    BY <1>0, <1>3, <2>1 DEF InTurn, MeteredNotStopped, Metered
  <2>3. SessionsNumbered' /\ SessionsInOrder' /\ IdsHeld' /\ StopsGiven'
    BY <1>0, <2>1 DEF SessionsNumbered, SessionsInOrder, IdsHeld, StopsGiven
  <2>. QED BY <2>2, <2>3
<1>4. ASSUME StartTransaction(s) \/ StopTransaction(s) \/ Logged(s)
             \/ \E ts \in MeterTime : MeterValues(s, ts)
      PROVE  LedgerInv'
  BY <1>3, <1>4 DEF StartTransaction, StopTransaction, Logged, MeterValues, Kinds
<1>. QED BY <1>1, <1>2, <1>4

(* The row of StopTrTbl names the transaction its station holds, which no   *)
(* other station does.                                                      *)
LEMMA LedgerStop ==
    ASSUME IInv, LedgerInv, insertStopTransactionReqMsg2DB
    PROVE  LedgerInv'
<1>1. PICK r \in NewRow(stopTr) :
        /\ stopTr' = WithRow(stopTr, r, [HRowId |-> op.row,
                                transactionId |-> st[op.sern].id])
        /\ op' = [op EXCEPT !.pc = "reply", !.rv = r]
  BY DEF insertStopTransactionReqMsg2DB
<1>2. /\ op.pc = "table" /\ op.kind = "StopTransaction" /\ op.sern \in Sern
      /\ op'.kind = op.kind /\ op'.sern = op.sern /\ UNCHANGED <<st, held>>
      /\ \A s \in Sern : st[s].id \in Nat
  BY <1>1 DEF insertStopTransactionReqMsg2DB, IInv, TypeOK
<1>3. /\ DOMAIN stopTr' = DOMAIN stopTr \cup {r}
      /\ \A q \in DOMAIN stopTr : q # r => stopTr'[q] = stopTr[q]
      /\ stopTr'[r].transactionId = st[op.sern].id
  BY <1>1 DEF WithRow
<1>4. InTurn' /\ SessionsNumbered' /\ SessionsInOrder' /\ IdsHeld'
  BY <1>2 DEF LedgerInv, InTurn, SessionsNumbered, SessionsInOrder, IdsHeld
<1>5. StopsGiven'
  BY <1>2, <1>3 DEF LedgerInv, StopsGiven, IdsHeld
<1>6. \A s \in Sern : st[s].id > 0 /\ st[s].id = st[op.sern].id => s = op.sern
  BY <1>2 DEF LedgerInv, IdsHeld, IInv, TransactionIdsUnique
<1>7. st[op.sern].phase = "stopping"
  BY <1>2 DEF LedgerInv, InTurn
<1>8. MeteredNotStopped'
  BY <1>2, <1>3, <1>6, <1>7 DEF LedgerInv, MeteredNotStopped, Metered
<1>. QED BY <1>4, <1>5, <1>8 DEF LedgerInv

(* The confirmations of a start and of a stop.                              *)
LEMMA LedgerConfirm ==
    ASSUME IInv, LedgerInv, ConfirmStart \/ ConfirmStop
    PROVE  LedgerInv'
<1>0. /\ st \in [Sern -> [phase : {"idle", "starting", "charging", "stopping"},
                          n : Nat, id : Nat]]
      /\ held \subseteq [id : Nat, sern : Sern, n : Nat]
      /\ op.sern \in Sern /\ op.rv \in Nat /\ op.pc = "reply"
      /\ op'.pc = "idle" /\ UNCHANGED stopTr
  BY DEF IInv, TypeOK, ConfirmStart, ConfirmStop, Idle, tables
<1>. DEFINE s == op.sern
<1>1. InTurn'
  BY <1>0 DEF InTurn
<1>2. CASE ConfirmStart
  <2>1. /\ op.kind = "StartTransaction" /\ st[s].phase = "starting"
        /\ st'[s].phase = "charging" /\ st'[s].id = op.rv /\ st'[s].n = st[s].n
        /\ \A t \in Sern : t # s => st'[t] = st[t]
        /\ held' = held \cup {[id |-> op.rv, sern |-> s, n |-> st[s].n]}
    BY <1>0, <1>2 DEF ConfirmStart, LedgerInv, InTurn
  <2>2. SessionsNumbered' /\ SessionsInOrder'
    BY <1>0, <2>1 DEF LedgerInv, SessionsNumbered, SessionsInOrder
  <2>3. IdsHeld'
    <3>. DEFINE x == [id |-> op.rv, sern |-> s, n |-> st[s].n]
    <3>1. x \in held' /\ x.id = st'[s].id /\ x.sern = s
      BY <2>1
    <3>. HIDE DEF x
    <3>. QED BY <1>0, <2>1, <3>1 DEF LedgerInv, IdsHeld
  <2>4. StopsGiven'
    BY <1>0, <2>1 DEF LedgerInv, StopsGiven
  <2>5. op.rv > 0 => \A r \in DOMAIN stopTr : stopTr[r].transactionId # op.rv
    BY <1>0, <2>1 DEF IInv, IdIsNew, LedgerInv, StopsGiven
  <2>6. MeteredNotStopped'
    BY <1>0, <2>1, <2>5 DEF LedgerInv, MeteredNotStopped, Metered
  <2>. QED BY <1>1, <2>2, <2>3, <2>4, <2>6 DEF LedgerInv
<1>3. CASE ConfirmStop
  <2>1. /\ st'[s].phase = "idle" /\ st'[s].id = st[s].id /\ st'[s].n = st[s].n
        /\ \A t \in Sern : t # s => st'[t] = st[t]
        /\ held' = held
    BY <1>0, <1>3 DEF ConfirmStop
  <2>2. SessionsNumbered' /\ SessionsInOrder' /\ IdsHeld' /\ StopsGiven'
    BY <1>0, <2>1 DEF LedgerInv, SessionsNumbered, SessionsInOrder, IdsHeld, StopsGiven
  <2>3. MeteredNotStopped'
    BY <1>0, <2>1 DEF LedgerInv, MeteredNotStopped, Metered
  <2>. QED BY <1>1, <2>2, <2>3 DEF LedgerInv
<1>. QED BY <1>2, <1>3

(* Every step keeps the invariant of the ledger.                            *)
LEMMA LedgerInvStep ==
    ASSUME IInv, LedgerInv, [Next]_vars
    PROVE  LedgerInv'
<1>1. CASE insertOcppHistory2DB \/ insertStartTransactionReqMsg2DB
           \/ updateHistOnStartTransaction \/ insertMeterValuesReqMsg2DB
  <2>1. UNCHANGED <<st, held, stopTr>>
    BY <1>1 DEF insertOcppHistory2DB, insertStartTransactionReqMsg2DB,
                updateHistOnStartTransaction, insertMeterValuesReqMsg2DB
  <2>2. op.pc # "idle" /\ op'.kind = op.kind /\ op'.sern = op.sern
    BY <1>1 DEF insertOcppHistory2DB, insertStartTransactionReqMsg2DB,
                updateHistOnStartTransaction, insertMeterValuesReqMsg2DB, IInv, TypeOK
  <2>. QED BY <2>1, <2>2, LedgerQuiet
<1>2. CASE ConfirmOther \/ LoseConfirmation \/ StatementFails \/ Crash
  <2>1. UNCHANGED <<st, held, stopTr>>
    BY <1>2 DEF ConfirmOther, LoseConfirmation, StatementFails, Crash, tables
  <2>2. \/ op'.pc = "idle"
        \/ op.pc # "idle" /\ op'.kind = op.kind /\ op'.sern = op.sern
    BY <1>2 DEF ConfirmOther, LoseConfirmation, StatementFails, Crash, Idle, IInv, TypeOK
  <2>. QED BY <2>1, <2>2, LedgerQuiet
<1>3. ASSUME NEW s \in Sern, ClearAllChargeStationsHistory(s) PROVE LedgerInv'
  BY <1>3, LedgerQuiet DEF ClearAllChargeStationsHistory
<1>4. CASE UNCHANGED vars
  BY <1>4, LedgerQuiet DEF vars
<1>5. TypeOK
  BY DEF IInv
<1>. QED BY <1>1, <1>2, <1>3, <1>4, <1>5, LedgerStations, LedgerStop, LedgerConfirm
         DEF Next

(* A step that leaves what the ledger shows alone is a stutter.             *)
LEMMA LedgerStutter ==
    ASSUME UNCHANGED <<startTr, held, meterV, stopTr>>
    PROVE  UNCHANGED Ledger!vars
BY DEF Ledger!vars

(* The insert into StartTrTbl records a transaction.                        *)
LEMMA LedgerRecords ==
    ASSUME IInv, insertStartTransactionReqMsg2DB
    PROVE  \E s \in Sern : Ledger!Record(s)
<1>1. PICK r \in NewRow(startTr) :
        startTr' = WithRow(startTr, r, [HRowId |-> op.row, sern |-> op.sern])
  BY DEF insertStartTransactionReqMsg2DB
<1>2. op.sern \in Sern /\ UNCHANGED <<held, meterV, stopTr>>
  BY DEF insertStartTransactionReqMsg2DB, IInv, TypeOK
<1>3. PICK s \in Sern : s = op.sern
  BY <1>2
<1>. DEFINE R == [id \in DOMAIN startTr |-> startTr[id].sern]
<1>4. r \in Ledger!NewId
  BY <1>1 DEF Ledger!NewId, NewRow
<1>5. [id \in DOMAIN startTr' |-> startTr'[id].sern] =
        [i \in DOMAIN R \cup {r} |-> IF i = r THEN s ELSE R[i]]
  BY <1>1, <1>3 DEF WithRow
<1>6. Ledger!Record(s)
  BY <1>2, <1>4, <1>5 DEF Ledger!Record
<1>. QED BY <1>6

(* A confirmed start gives a transaction to a session that has none.        *)
LEMMA LedgerGives ==
    ASSUME IInv, LedgerInv, ConfirmStart, op.rv > 0
    PROVE  \E id \in DOMAIN startTr, n \in 1..MaxSession : Ledger!Give(id, n)
<1>. DEFINE s == op.sern
            G == {x \in held : x.id > 0}
            new == [id |-> op.rv, sern |-> s, n |-> st[s].n]
<1>1. /\ op.pc = "reply" /\ op.kind = "StartTransaction" /\ s \in Sern
      /\ held' = held \cup {new} /\ UNCHANGED <<startTr, meterV, stopTr>>
      /\ op.rv \in Nat /\ st[s].n \in Nat
      /\ held \subseteq [id : Nat, sern : Sern, n : Nat]
  BY DEF ConfirmStart, tables, IInv, TypeOK
<1>2. op.rv \in DOMAIN startTr /\ startTr[op.rv].sern = s /\ \A x \in held : x.id # op.rv
  BY <1>1 DEF IInv, IdIsNew, Recorded
<1>3. st[s].phase = "starting" /\ st[s].n \in 1..MaxSession
  BY <1>1, BoundsAssumption DEF LedgerInv, InTurn, SessionsNumbered
<1>4. \A x \in G : x.id # op.rv /\ (x.sern = s => x.n < st[s].n)
  BY <1>2, <1>3 DEF LedgerInv, SessionsInOrder
<1>5. {x \in held' : x.id > 0} = G \cup {new}
  BY <1>1
<1>6. PICK id \in DOMAIN startTr, n \in 1..MaxSession : id = op.rv /\ n = st[s].n
  BY <1>2, <1>3
<1>7. Ledger!Give(id, n)
  BY <1>1, <1>2, <1>4, <1>5, <1>6 DEF Ledger!Give
<1>. QED BY <1>7

(* Meter values are stored of a transaction that was given and has no stop. *)
LEMMA LedgerSamples ==
    ASSUME IInv, LedgerInv, insertMeterValuesReqMsg2DB
    PROVE  (\E id \in Ledger!Given : Ledger!Sample(id)) \/ UNCHANGED Ledger!vars
<1>1. /\ op.pc = "table" /\ op.kind = "MeterValues" /\ op.sern \in Sern
      /\ UNCHANGED <<startTr, held, stopTr>> /\ st[op.sern].id \in Nat
      /\ DOMAIN meterV \subseteq Nat \ {0}
  BY DEF insertMeterValuesReqMsg2DB, IInv, TypeOK, IsTable
<1>2. CASE meterV' = meterV
  BY <1>1, <1>2, LedgerStutter
<1>3. CASE \E r \in NewRow(meterV) :
              meterV' = WithRow(meterV, r, [CSSerN |-> op.sern, Flag |-> op.ts,
                                            transactionId |-> st[op.sern].id])
  <2>1. PICK r \in NewRow(meterV) :
          meterV' = WithRow(meterV, r, [CSSerN |-> op.sern, Flag |-> op.ts,
                                        transactionId |-> st[op.sern].id])
    BY <1>3
  <2>2. PICK id \in Nat : id = st[op.sern].id
    BY <1>1
  <2>3. {meterV'[q].transactionId : q \in DOMAIN meterV'} =
          {meterV[q].transactionId : q \in DOMAIN meterV} \cup {id}
    <3>1. r \notin DOMAIN meterV
      BY <1>1, NewRowFresh
    <3>2. /\ DOMAIN meterV' = DOMAIN meterV \cup {r} /\ meterV'[r].transactionId = id
           /\ \A q \in DOMAIN meterV : meterV'[q] = meterV[q]
      BY <2>1, <2>2, <3>1 DEF WithRow
    <3>. QED BY <3>2
  <2>4. CASE id = 0
    BY <1>1, <2>3, <2>4 DEF Ledger!vars
  <2>5. CASE id > 0
    <3>1. id \in Ledger!Given
      BY <1>1, <2>2, <2>5 DEF LedgerInv, IdsHeld, Ledger!Given
    <3>2. id \notin {stopTr[q].transactionId : q \in DOMAIN stopTr} \ {0}
      BY <1>1, <2>2, <2>5 DEF LedgerInv, MeteredNotStopped, Metered
    <3>3. Ledger!Sample(id)
      BY <1>1, <2>3, <2>5, <3>2 DEF Ledger!Sample
    <3>. QED BY <3>1, <3>3
  <2>. QED BY <2>4, <2>5
<1>. QED BY <1>2, <1>3 DEF insertMeterValuesReqMsg2DB

(* A stop is stored of a transaction that was given.                        *)
LEMMA LedgerStops ==
    ASSUME IInv, LedgerInv, insertStopTransactionReqMsg2DB
    PROVE  (\E id \in Ledger!Given : Ledger!Stop(id)) \/ UNCHANGED Ledger!vars
<1>1. /\ op.sern \in Sern /\ st[op.sern].id \in Nat
      /\ UNCHANGED <<startTr, held, meterV>> /\ DOMAIN stopTr \subseteq Nat \ {0}
  BY DEF insertStopTransactionReqMsg2DB, IInv, TypeOK, IsTable
<1>2. PICK r \in NewRow(stopTr) :
        stopTr' = WithRow(stopTr, r, [HRowId |-> op.row,
                                      transactionId |-> st[op.sern].id])
  BY DEF insertStopTransactionReqMsg2DB
<1>3. PICK id \in Nat : id = st[op.sern].id
  BY <1>1
<1>4. {stopTr'[q].transactionId : q \in DOMAIN stopTr'} =
        {stopTr[q].transactionId : q \in DOMAIN stopTr} \cup {id}
  <2>1. r \notin DOMAIN stopTr
    BY <1>1, NewRowFresh
  <2>2. /\ DOMAIN stopTr' = DOMAIN stopTr \cup {r} /\ stopTr'[r].transactionId = id
         /\ \A q \in DOMAIN stopTr : stopTr'[q] = stopTr[q]
    BY <1>2, <1>3, <2>1 DEF WithRow
  <2>. QED BY <2>2
<1>5. CASE id = 0
  BY <1>1, <1>4, <1>5 DEF Ledger!vars
<1>6. CASE id > 0
  <2>1. id \in Ledger!Given
    BY <1>1, <1>3, <1>6 DEF LedgerInv, IdsHeld, Ledger!Given
  <2>2. Ledger!Stop(id)
    BY <1>1, <1>4, <1>6 DEF Ledger!Stop
  <2>. QED BY <2>1, <2>2
<1>. QED BY <1>5, <1>6

(* Every step is a step of the ledger or a stutter.                         *)
LEMMA LedgerStep ==
    ASSUME IInv, LedgerInv, [Next]_vars
    PROVE  [Ledger!Next]_(Ledger!vars)
<1>1. CASE insertStartTransactionReqMsg2DB
  BY <1>1, LedgerRecords DEF Ledger!Next
<1>2. CASE ConfirmStart
  <2>1. CASE op.rv > 0
    <3>1. PICK id \in DOMAIN startTr, n \in 1..MaxSession : Ledger!Give(id, n)
      BY <1>2, <2>1, LedgerGives
    <3>. QED BY <3>1 DEF Ledger!Next
  <2>2. CASE ~(op.rv > 0)
    <3>1. {x \in held' : x.id > 0} = {x \in held : x.id > 0}
      BY <1>2, <2>2 DEF ConfirmStart
    <3>2. UNCHANGED <<startTr, meterV, stopTr>>
      BY <1>2 DEF ConfirmStart, tables
    <3>. QED BY <3>1, <3>2 DEF Ledger!vars
  <2>. QED BY <2>1, <2>2
<1>3. CASE insertMeterValuesReqMsg2DB
  BY <1>3, LedgerSamples DEF Ledger!Next
<1>4. CASE insertStopTransactionReqMsg2DB
  BY <1>4, LedgerStops DEF Ledger!Next
<1>5. CASE insertOcppHistory2DB \/ updateHistOnStartTransaction \/ ConfirmStop
           \/ ConfirmOther \/ LoseConfirmation \/ StatementFails \/ Crash
           \/ UNCHANGED vars
  <2>1. UNCHANGED <<startTr, held, meterV, stopTr>>
    BY <1>5 DEF insertOcppHistory2DB, updateHistOnStartTransaction, ConfirmStop,
                ConfirmOther, LoseConfirmation, StatementFails, Crash, tables, vars
  <2>. QED BY <2>1, LedgerStutter
<1>6. ASSUME NEW s \in Sern,
             \/ PlugIn(s) \/ PlugOut(s) \/ StartTransaction(s) \/ StopTransaction(s)
             \/ Logged(s) \/ ClearAllChargeStationsHistory(s)
             \/ \E ts \in MeterTime : MeterValues(s, ts)
      PROVE  UNCHANGED Ledger!vars
  <2>1. UNCHANGED <<startTr, held, meterV, stopTr>>
    BY <1>6 DEF PlugIn, PlugOut, StartTransaction, StopTransaction, Logged,
                MeterValues, Receive, ClearAllChargeStationsHistory, tables
  <2>. QED BY <2>1, LedgerStutter
<1>. QED BY <1>1, <1>2, <1>3, <1>4, <1>5, <1>6 DEF Next

(* The charging history implements TransactionLedger, for any number of     *)
(* stations, sessions, repetitions, failures, stops of the server and       *)
(* clearings.                                                               *)
THEOREM LogImplementsLedger == Spec => ImplementsLedger
<1>1. Init => LedgerInv /\ Ledger!Init
  <2>. SUFFICES ASSUME Init PROVE LedgerInv /\ Ledger!Init
    OBVIOUS
  <2>1. LedgerInv
    BY BoundsAssumption
       DEF Init, EmptyTable, Idle, LedgerInv, InTurn, SessionsNumbered,
           SessionsInOrder, IdsHeld, StopsGiven, MeteredNotStopped
  <2>2. Ledger!Init
    BY DEF Init, EmptyTable, Ledger!Init
  <2>. QED BY <2>1, <2>2
<1>2. IInv /\ LedgerInv /\ [Next]_vars => LedgerInv' /\ [Ledger!Next]_(Ledger!vars)
  BY LedgerInvStep, LedgerStep
<1>. QED BY <1>1, <1>2, InductiveInvariant, PTL DEF Spec, ImplementsLedger, Ledger!Spec
=============================================================================
