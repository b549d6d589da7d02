---------------------------- MODULE ConsoleProofs ---------------------------
(* Proofs about Http_Light_Console with TcpListener and ClsMqtt, for any     *)
(* connections, lengths, buffer sizes and bounds.                          *)
EXTENDS Http_Light_Console, SequenceTheorems, TLAPS

-----------------------------------------------------------------------------
(* A step of the process is one of the listener, the connections and their  *)
(* mobiles, or leaves them alone; the same holds of the MQTT client.       *)

Connections ==
    \E c \in Conn :
        \/ ReceiveLength(c) \/ ReceiveBody(c) \/ ReceiveFails(c)
        \/ Dial(c) \/ HangUp(c) \/ \E k \in 1..(Prefix + conn[c].length) : Transmit(c, k)
        \/ /\ conn[c].pc \in {"handle", "send"}
           /\ Close(c) \/ (conn[c].pc = "handle" /\ conn' = [conn EXCEPT ![c].pc = "send"])
           /\ UNCHANGED listenerVars

TcpStep ==
    \/ Listener
    \/ start_tcp_listener \/ ClearIsRun \/ CancelListener \/ CloseListener
    \/ Connections
    \/ UNCHANGED tcpVars

MqttStep ==
    \/ doInitMqtt \/ stopMqtt
    \/ Connect \/ Loop \/ AfterLoop \/ EndMqtt
    \/ Network
    \/ UNCHANGED mqttVars

(* Which part each action of the process steps.                            *)
LEMMA StepOfParts ==
    ASSUME [Next]_vars
    PROVE  TcpStep /\ MqttStep
<1>1. CASE StartTcp \/ StartMqtt
  BY <1>1 DEF StartTcp, StartMqtt, TcpStep, MqttStep
<1>2. CASE \/ main_ocpp_server_start \/ start_mkr_no_ssl_server \/ start_libevhtp_main
           \/ EventLoop \/ WaitStopped \/ StopSignal \/ UNCHANGED vars
  BY <1>2 DEF main_ocpp_server_start, start_mkr_no_ssl_server, start_libevhtp_main,
              EventLoop, WaitStopped, StopSignal, vars, TcpStep, MqttStep
<1>3. ASSUME NEW w \in Who, Stopping(w)
      PROVE  TcpStep /\ MqttStep
  BY <1>3 DEF Stopping, StopTcp, stop_ocpp_server, stop_mkr_no_ssl_server, CancelsNoThread,
              StopMqtt, stop_libevhtp_main, TcpStep, MqttStep
<1>4. CASE ListenerThread
  BY <1>4 DEF ListenerThread, Alive, TcpStep, MqttStep
<1>5. ASSUME NEW c \in Conn, ConnectionThread(c)
      PROVE  TcpStep /\ MqttStep
  <2>1. Connections /\ UNCHANGED mqttVars
    BY <1>5 DEF ConnectionThread, Alive, Connection, process_tcp_listener_request,
                SendCommand, Connections
  <2>. QED BY <2>1 DEF TcpStep, MqttStep
<1>6. CASE MqttClient
  BY <1>6 DEF MqttClient, Alive, TcpStep, MqttStep
<1>7. CASE Mobiles
  <2>1. Connections /\ UNCHANGED mqttVars
    BY <1>7 DEF Mobiles, Alive, Connections
  <2>. QED BY <2>1 DEF TcpStep, MqttStep
<1>8. CASE Broker
  BY <1>8 DEF Broker, Alive, TcpStep, MqttStep
<1>. QED BY <1>1, <1>2, <1>3, <1>4, <1>5, <1>6, <1>7, <1>8 DEF Next, Main

-----------------------------------------------------------------------------
(* The listener and its connections *)

ConnRecord ==
    [pc : {"away", "queued", "length", "body", "handle", "send", "closed", "left"},
     length : Nat, arrived : Nat, open : BOOLEAN, read : Nat,
     totalLength : Int, inBuffer : Seq(Nat), prefixed : BOOLEAN]

(* The bytes of the stream that follow the length, up to the n-th.          *)
Body(n) == [i \in 1..n |-> Prefix + i]

(* What has been read of the request is in the buffer, in order, and the    *)
(* rest is what totalLength says.                                          *)
ReadInOrder(c) ==
    /\ conn[c].pc \in {"away", "queued", "length"} => conn[c].inBuffer = <<>>
    /\ conn[c].pc = "body" => conn[c].totalLength > 0
    /\ conn[c].pc = "body" /\ conn[c].prefixed =>
          /\ conn[c].read >= Prefix
          /\ conn[c].read + conn[c].totalLength = Prefix + conn[c].length
          /\ conn[c].inBuffer = Body(conn[c].read - Prefix)
    /\ conn[c].pc \in {"handle", "send"} /\ conn[c].prefixed =>
          conn[c].inBuffer = Body(conn[c].length)

ConnInv == TcpTypeOK /\ \A c \in Conn : ReadInOrder(c)

(* The pieces of two calls of recv put together.                            *)
LEMMA BodyGrows ==
    ASSUME NEW m \in Nat, NEW n \in Nat, NEW r \in Nat, r = Prefix + m
    PROVE  /\ Body(m) \in Seq(Nat) /\ [i \in 1..n |-> r + i] \in Seq(Nat)
           /\ Body(m) \o [i \in 1..n |-> r + i] = Body(m + n)
<1>. USE DEF Prefix
<1>1. Body(m) \in Seq(Nat) /\ Len(Body(m)) = m /\ \A i \in 1..m : Body(m)[i] = Prefix + i
  BY DEF Body
<1>2. Body(m + n) \in Seq(Nat) /\ Len(Body(m + n)) = m + n
      /\ \A i \in 1..(m + n) : Body(m + n)[i] = Prefix + i
  BY DEF Body
<1>. DEFINE t == [i \in 1..n |-> r + i]
<1>3. t \in Seq(Nat) /\ Len(t) = n /\ \A i \in 1..n : t[i] = r + i
  OBVIOUS
<1>. HIDE DEF t, Body
<1>4. /\ Body(m) \o t \in Seq(Nat)
      /\ Len(Body(m) \o t) = m + n
      /\ \A i \in 1..(m + n) : (Body(m) \o t)[i] =
            IF i <= m THEN Body(m)[i] ELSE t[i - m]
  <2>1. /\ Body(m) \o t \in Seq(Nat)
        /\ Len(Body(m) \o t) = Len(Body(m)) + Len(t)
        /\ \A i \in 1..(Len(Body(m)) + Len(t)) : (Body(m) \o t)[i] =
              IF i <= Len(Body(m)) THEN Body(m)[i] ELSE t[i - Len(Body(m))]
    BY <1>1, <1>3, ConcatProperties
  <2>. QED BY <1>1, <1>3, <2>1
<1>5. \A i \in 1..(m + n) : (Body(m) \o t)[i] = Prefix + i
  BY <1>1, <1>3, <1>4
<1>6. Body(m) \o t = Body(m + n)
  BY <1>2, <1>4, <1>5, SeqEqual
<1>. QED BY <1>1, <1>3, <1>6 DEF t

(* The length of a request and the pieces that follow are received.         *)
LEMMA ConnReceive ==
    ASSUME ConnInv, NEW c \in Conn, ReceiveLength(c) \/ ReceiveBody(c)
    PROVE  conn'[c] \in ConnRecord /\ ReadInOrder(c)'
<1>0. conn \in [Conn -> ConnRecord] /\ conn[c] \in ConnRecord
  BY DEF ConnInv, TcpTypeOK, ConnRecord
<1>1. CASE ReceiveLength(c)
  <2>. DEFINE got == Smallest(Prefix, conn[c].arrived)
  <2>1. got \in Nat /\ got <= Prefix
    BY <1>0 DEF Smallest, Prefix, ConnRecord
  <2>. HIDE DEF got
  <2>2. PICK n \in IF got = Prefix THEN {conn[c].length} ELSE Uninitialised :
           conn' = [conn EXCEPT ![c] = [conn[c] EXCEPT
                      !.pc = IF n <= 0 THEN "left" ELSE "body",
                      !.totalLength = n, !.read = got, !.prefixed = (got = Prefix)]]
    BY <1>0, <1>1 DEF ReceiveLength, got
  <2>3. n \in Int
    BY <1>0, <2>2, UninitialisedType DEF ConnRecord
  <2>4. conn[c].pc = "length" /\ conn[c].inBuffer = <<>>
    BY <1>1 DEF ReceiveLength, ConnInv, ReadInOrder
  <2>5. conn'[c] = [conn[c] EXCEPT !.pc = IF n <= 0 THEN "left" ELSE "body",
                      !.totalLength = n, !.read = got, !.prefixed = (got = Prefix)]
    BY <1>0, <2>2
  <2>6. /\ conn'[c].pc \in {"left", "body"}
        /\ conn'[c].pc = "body" => n > 0
        /\ conn'[c].totalLength = n /\ conn'[c].read = got
        /\ conn'[c].prefixed = (got = Prefix)
        /\ conn'[c].inBuffer = <<>> /\ conn'[c].length = conn[c].length
    BY <1>0, <2>3, <2>4, <2>5 DEF ConnRecord
  <2>7. Body(0) = <<>>
    BY DEF Body
  <2>8. ReadInOrder(c)'
    <3>1. CASE got = Prefix
      <4>1. n = conn[c].length /\ got - Prefix = 0
        BY <2>2, <3>1 DEF Prefix
      <4>. QED BY <1>0, <2>1, <2>6, <2>7, <3>1, <4>1 DEF ReadInOrder, Prefix, ConnRecord
    <3>2. CASE got # Prefix
      BY <2>6, <3>2 DEF ReadInOrder
    <3>. QED BY <3>1, <3>2
  <2>9. conn'[c] \in ConnRecord
    BY <1>0, <2>1, <2>3, <2>5 DEF ConnRecord
  <2>. QED BY <2>8, <2>9
<1>2. CASE ReceiveBody(c)
  <2>. DEFINE asked == Smallest(conn[c].totalLength, IN_BUFFER_SIZE)
              bytes == Smallest(asked, conn[c].arrived - conn[c].read)
              more == [i \in 1..bytes |-> conn[c].read + i]
  <2>0. conn[c].pc = "body" /\ bytes > 0
    BY <1>2 DEF ReceiveBody
  <2>1. conn' = [conn EXCEPT ![c] = [conn[c] EXCEPT
                   !.pc = IF BytesLeft(c, bytes) > 0 THEN "body" ELSE "handle",
                   !.totalLength = BytesLeft(c, bytes),
                   !.read = conn[c].read + bytes,
                   !.inBuffer = conn[c].inBuffer \o more]]
    BY <1>2, Zenon DEF ReceiveBody
  <2>2. conn[c].totalLength \in Nat /\ conn[c].read \in Nat /\ conn[c].arrived \in Nat
        /\ conn[c].length \in Nat /\ conn[c].inBuffer \in Seq(Nat)
    BY <1>0, <2>0 DEF ConnInv, ReadInOrder, ConnRecord
  <2>3. bytes \in Nat /\ bytes <= conn[c].totalLength
    BY <2>0, <2>2, BufferSizePositive DEF Smallest
  <2>. HIDE DEF asked, bytes
  <2>3a. conn'[c] = [conn[c] EXCEPT
                   !.pc = IF BytesLeft(c, bytes) > 0 THEN "body" ELSE "handle",
                   !.totalLength = BytesLeft(c, bytes),
                   !.read = conn[c].read + bytes,
                   !.inBuffer = conn[c].inBuffer \o more]
    BY <1>0, <2>1, Zenon
  <2>4. more \in Seq(Nat)
    BY <2>2, <2>3
  <2>5. conn[c].inBuffer \o more \in Seq(Nat)
    BY <2>2, <2>4, ConcatProperties
  <2>. DEFINE left == conn[c].totalLength - bytes
  <2>6. left \in Nat /\ left = BytesLeft(c, bytes)
    BY <2>2, <2>3 DEF BytesLeft
  <2>. DEFINE joined == conn[c].inBuffer \o more
  <2>7. conn[c].prefixed =>
           /\ conn[c].read >= Prefix
           /\ conn[c].read + bytes + left = Prefix + conn[c].length
           /\ joined = Body(conn[c].read + bytes - Prefix)
    <3>. SUFFICES ASSUME conn[c].prefixed
                  PROVE  /\ conn[c].read >= Prefix
                         /\ conn[c].read + bytes + left = Prefix + conn[c].length
                         /\ joined = Body(conn[c].read + bytes - Prefix)
      OBVIOUS
    <3>1. /\ conn[c].read >= Prefix
          /\ conn[c].read + conn[c].totalLength = Prefix + conn[c].length
          /\ conn[c].inBuffer = Body(conn[c].read - Prefix)
      BY <2>0 DEF ConnInv, ReadInOrder
    <3>2. PICK m \in Nat : m = conn[c].read - Prefix
      BY <2>2, <3>1 DEF Prefix
    <3>3. conn[c].read = Prefix + m
      BY <2>2, <3>2 DEF Prefix
    <3>4. joined = Body(m + bytes)
      <4>1. Body(m) \o more = Body(m + bytes)
        BY <2>2, <2>3, <3>2, <3>3, BodyGrows
      <4>. QED BY <3>1, <3>2, <4>1
    <3>5. m + bytes = conn[c].read + bytes - Prefix
      BY <2>2, <2>3, <3>2 DEF Prefix
    <3>6. conn[c].read + bytes + left = Prefix + conn[c].length
      BY <2>2, <2>3, <3>1 DEF Prefix
    <3>. QED BY <3>1, <3>4, <3>5, <3>6
  <2>. HIDE DEF joined, left
  <2>8. /\ conn'[c].pc = IF left > 0 THEN "body" ELSE "handle"
        /\ conn'[c].totalLength = left /\ conn'[c].read = conn[c].read + bytes
        /\ conn'[c].inBuffer = joined
        /\ conn'[c].length = conn[c].length /\ conn'[c].prefixed = conn[c].prefixed
    BY <1>0, <2>6, <2>3a DEF ConnRecord, joined
  <2>9. conn'[c] \in ConnRecord
    <3>1. \A p \in {"body", "handle"}, l \in Int, r \in Nat, b \in Seq(Nat) :
             [conn[c] EXCEPT !.pc = p, !.totalLength = l, !.read = r, !.inBuffer = b]
                    \in ConnRecord
      BY <1>0 DEF ConnRecord
    <3>2. conn[c].read + bytes \in Nat /\ left \in Int
      BY <2>2, <2>3, <2>6
    <3>3. conn'[c] = [conn[c] EXCEPT !.pc = IF left > 0 THEN "body" ELSE "handle",
                        !.totalLength = left, !.read = conn[c].read + bytes,
                        !.inBuffer = conn[c].inBuffer \o more]
      BY <2>6, <2>3a
    <3>. HIDE DEF more
    <3>4. (IF left > 0 THEN "body" ELSE "handle") \in {"body", "handle"}
      OBVIOUS
    <3>5. \A r \in Nat, b \in Seq(Nat) :
             [conn[c] EXCEPT !.pc = IF left > 0 THEN "body" ELSE "handle",
                        !.totalLength = left, !.read = r, !.inBuffer = b] \in ConnRecord
      BY <3>1, <3>2, <3>4
    <3>. QED BY <2>5, <3>2, <3>3, <3>5
  <2>10. CASE left > 0
    <3>1. conn'[c].pc = "body"
      BY <2>8, <2>10
    <3>2. ReadInOrder(c)'
      BY <2>2, <2>3, <2>7, <2>8, <2>10, <3>1 DEF ReadInOrder, Prefix
    <3>. QED BY <2>9, <3>2
  <2>11. CASE ~(left > 0)
    <3>1. conn'[c].pc = "handle" /\ left = 0
      BY <2>6, <2>8, <2>11
    <3>2. conn[c].prefixed => conn[c].read + bytes - Prefix = conn[c].length
      <4>. SUFFICES ASSUME conn[c].prefixed
                    PROVE  conn[c].read + bytes - Prefix = conn[c].length
        OBVIOUS
      <4>1. PICK r \in Nat : r = conn[c].read
        BY <2>2
      <4>2. PICK n \in Nat : n = conn[c].length
        BY <2>2
      <4>3. PICK b \in Nat : b = bytes
        BY <2>3
      <4>4. r + b + left = Prefix + n
        BY <2>7, <4>1, <4>2, <4>3
      <4>5. r + b - Prefix = n
        BY <3>1, <4>4 DEF Prefix
      <4>. QED BY <4>1, <4>2, <4>3, <4>5
    <3>3. ReadInOrder(c)'
      BY <2>7, <2>8, <3>1, <3>2 DEF ReadInOrder
    <3>. QED BY <2>9, <3>3
  <2>. QED BY <2>10, <2>11
<1>. QED BY <1>1, <1>2

(* A step that changes one connection, in order, keeps the others.          *)
LEMMA ConnOne ==
    ASSUME ConnInv, NEW c \in Conn, UNCHANGED listenerVars,
           NEW v \in ConnRecord, conn' = [conn EXCEPT ![c] = v], ReadInOrder(c)'
    PROVE  ConnInv'
<1>1. conn \in [Conn -> ConnRecord]
  BY DEF ConnInv, TcpTypeOK, ConnRecord
<1>2. conn' \in [Conn -> ConnRecord]
  BY <1>1
<1>3. TcpTypeOK'
  BY <1>2 DEF ConnInv, TcpTypeOK, listenerVars, ConnRecord
<1>4. ASSUME NEW d \in Conn, d # c PROVE ReadInOrder(d)'
  BY <1>1, <1>4 DEF ConnInv, ReadInOrder
<1>. QED BY <1>3, <1>4 DEF ConnInv

(* Steps of the listener, of main, of the connections and of the mobiles    *)
(* keep what was read in order.                                            *)
LEMMA ConnStep ==
    ASSUME ConnInv, TcpStep
    PROVE  ConnInv'
<1>0. conn \in [Conn -> ConnRecord] /\ \A c \in Conn : conn[c] \in ConnRecord
  BY DEF ConnInv, TcpTypeOK, ConnRecord
<1>1. CASE UNCHANGED conn /\ TcpTypeOK'
  BY <1>1 DEF ConnInv, ReadInOrder
<1>2. CASE OpenSocket \/ TestIsRun \/ Pause \/ LeaveLoop \/ CancelledListener
  <2>1. UNCHANGED conn
    BY <1>2 DEF OpenSocket, TestIsRun, Pause, LeaveLoop, CancelledListener
  <2>2. TcpTypeOK'
    BY <1>2, <2>1 DEF OpenSocket, TestIsRun, Pause, LeaveLoop, CancelledListener,
                      ConnInv, TcpTypeOK
  <2>. QED BY <1>1, <2>1, <2>2
<1>3. CASE start_tcp_listener \/ ClearIsRun \/ CancelListener \/ CloseListener
  <2>1. UNCHANGED conn
    BY <1>3 DEF start_tcp_listener, ClearIsRun, CancelListener, CloseListener
  <2>2. tcp_cancelled' \in BOOLEAN /\ tcp_stopped' \in BOOLEAN
    <3>1. tcp_cancelled' \in BOOLEAN
      BY <1>3 DEF start_tcp_listener, ClearIsRun, CancelListener, CloseListener,
                  ConnInv, TcpTypeOK
    <3>2. tcp_stopped' \in BOOLEAN
      BY <1>3 DEF start_tcp_listener, ClearIsRun, CancelListener, CloseListener,
                  ConnInv, TcpTypeOK
    <3>. QED BY <3>1, <3>2
  <2>3. /\ IsRun' \in 0..2 /\ sockfd' \in 0..1
        /\ listener' \in {"none", "socket", "test", "accept", "pause", "exit", "ended",
                         "cancelled"}
    BY <1>3 DEF start_tcp_listener, ClearIsRun, CancelListener, CloseListener,
                ConnInv, TcpTypeOK
  <2>4. TcpTypeOK'
    BY <2>1, <2>2, <2>3 DEF ConnInv, TcpTypeOK
  <2>. QED BY <1>1, <2>1, <2>4
<1>4. CASE UNCHANGED tcpVars
  <2>1. TcpTypeOK'
    BY <1>4 DEF tcpVars, listenerVars, ConnInv, TcpTypeOK
  <2>. QED BY <1>1, <1>4, <2>1 DEF tcpVars
<1>5. ASSUME NEW c \in Conn, Accept(c)
      PROVE  ConnInv'
  <2>1. /\ conn'[c] = [conn[c] EXCEPT !.pc = "length"] /\ conn[c].pc = "queued"
        /\ conn' \in [Conn -> ConnRecord]
        /\ \A d \in Conn : d # c => conn'[d] = conn[d]
    BY <1>0, <1>5 DEF Accept, ConnRecord
  <2>2. TcpTypeOK'
    BY <1>5, <2>1 DEF Accept, ConnInv, TcpTypeOK, ConnRecord
  <2>3. ASSUME NEW d \in Conn PROVE ReadInOrder(d)'
    <3>1. CASE d = c
      <4>1. conn'[c].pc = "length" /\ conn'[c].inBuffer = <<>>
        BY <1>0, <2>1 DEF ConnRecord, ConnInv, ReadInOrder
      <4>. QED BY <3>1, <4>1 DEF ReadInOrder
    <3>2. CASE d # c
      BY <2>1, <2>3, <3>2 DEF ReadInOrder, ConnInv
    <3>. QED BY <3>1, <3>2
  <2>. QED BY <2>2, <2>3 DEF ConnInv
<1>6. ASSUME NEW c \in Conn, ReceiveLength(c) \/ ReceiveBody(c)
      PROVE  ConnInv'
  <2>1. conn'[c] \in ConnRecord /\ ReadInOrder(c)'
    BY <1>6, ConnReceive
  <2>2. \E v : conn' = [conn EXCEPT ![c] = v]
    BY <1>6 DEF ReceiveLength, ReceiveBody
  <2>3. conn' = [conn EXCEPT ![c] = conn'[c]]
    BY <1>0, <2>2
  <2>4. UNCHANGED listenerVars
    BY <1>6 DEF ReceiveLength, ReceiveBody
  <2>. QED BY <2>1, <2>3, <2>4, ConnOne
<1>7. ASSUME NEW c \in Conn, NEW p \in {"closed", "send"}, UNCHANGED listenerVars,
             conn' = [conn EXCEPT ![c].pc = p], p = "send" => conn[c].pc = "handle"
      PROVE  ConnInv'
  <2>1. [conn[c] EXCEPT !.pc = p] \in ConnRecord
    BY <1>0, <1>7 DEF ConnRecord
  <2>2. /\ conn'[c].pc = p /\ conn'[c].prefixed = conn[c].prefixed
        /\ conn'[c].inBuffer = conn[c].inBuffer /\ conn'[c].length = conn[c].length
    BY <1>0, <1>7 DEF ConnRecord
  <2>3. ReadInOrder(c)'
    BY <1>7, <2>2 DEF ReadInOrder, ConnInv
  <2>. QED BY <1>7, <2>1, <2>3, ConnOne
<1>8. ASSUME NEW c \in Conn, Dial(c)
      PROVE  ConnInv'
  <2>1. PICK n \in Length :
           conn' = [conn EXCEPT ![c] = [NoConnection EXCEPT !.pc = "queued",
                                            !.length = n, !.open = TRUE]]
    BY <1>8 DEF Dial
  <2>2. [NoConnection EXCEPT !.pc = "queued", !.length = n, !.open = TRUE] \in ConnRecord
    <3>1. n \in Nat /\ NoConnection \in ConnRecord
      BY <2>1, LengthType, EmptySeq DEF NoConnection, ConnRecord
    <3>. QED BY <3>1 DEF ConnRecord
  <2>3. conn'[c].pc = "queued" /\ conn'[c].inBuffer = <<>>
    BY <1>0, <2>1 DEF NoConnection
  <2>4. ReadInOrder(c)'
    BY <2>3 DEF ReadInOrder
  <2>. QED BY <1>8, <2>1, <2>2, <2>4, ConnOne DEF Dial
<1>9. ASSUME NEW c \in Conn, NEW v \in ConnRecord, UNCHANGED listenerVars,
             conn' = [conn EXCEPT ![c] = v],
             \/ \E a \in Nat : v = [conn[c] EXCEPT !.arrived = a]
             \/ v = [conn[c] EXCEPT !.open = FALSE]
      PROVE  ConnInv'
  <2>1. /\ conn'[c].pc = conn[c].pc /\ conn'[c].prefixed = conn[c].prefixed
        /\ conn'[c].inBuffer = conn[c].inBuffer /\ conn'[c].length = conn[c].length
        /\ conn'[c].read = conn[c].read /\ conn'[c].totalLength = conn[c].totalLength
    BY <1>0, <1>9 DEF ConnRecord
  <2>2. ReadInOrder(c)'
    BY <2>1 DEF ReadInOrder, ConnInv
  <2>. QED BY <1>9, <2>2, ConnOne
<1>10. ASSUME NEW c \in Conn, NEW k, Transmit(c, k)
       PROVE  ConnInv'
  <2>1. k \in Nat /\ conn' = [conn EXCEPT ![c] = [conn[c] EXCEPT !.arrived = k]]
    BY <1>0, <1>10 DEF Transmit, ConnRecord, Prefix
  <2>2. [conn[c] EXCEPT !.arrived = k] \in ConnRecord
    BY <1>0, <2>1 DEF ConnRecord
  <2>. QED BY <1>9, <1>10, <2>1, <2>2 DEF Transmit
<1>11. ASSUME NEW c \in Conn, HangUp(c)
       PROVE  ConnInv'
  <2>1. [conn[c] EXCEPT !.open = FALSE] \in ConnRecord
    BY <1>0 DEF ConnRecord
  <2>. QED BY <1>9, <1>11, <2>1 DEF HangUp
<1>12. CASE Connections
  <2>1. ASSUME NEW c \in Conn, ReceiveFails(c)
        PROVE  ConnInv'
    BY <1>7, <2>1 DEF ReceiveFails
  <2>. QED BY <1>6, <1>7, <1>8, <1>10, <1>11, <1>12, <2>1 DEF Connections, Close
<1>. QED BY <1>2, <1>3, <1>4, <1>5, <1>12 DEF TcpStep, Listener

-----------------------------------------------------------------------------
(* Types *)

(* Steps of the MQTT client, of main and of the network keep its types.     *)
LEMMA MqttTypeStep ==
    ASSUME MqttTypeOK, MqttStep
    PROVE  MqttTypeOK'
<1>. DEFINE Threads == [pc : {"none", "connect", "loop", "after", "ended"},
                        loop_ret : LoopRets]
<1>0. /\ conn_state \in ConnStates /\ mqtt_thread \in Threads
      /\ initialized \in BOOLEAN /\ terminate_mqtt_service \in BOOLEAN
      /\ mqtt_cancelled \in BOOLEAN
      /\ link \in Links /\ broker \in {"up", "refusing", "down"}
  BY DEF MqttTypeOK
<1>1. mqtt_thread' \in Threads
  <2>1. \A p \in {"connect", "loop", "ended"} : [mqtt_thread EXCEPT !.pc = p] \in Threads
    BY <1>0
  <2>2. \A ret \in LoopRets : [pc |-> "after", loop_ret |-> ret] \in Threads
    OBVIOUS
  <2>3. CASE Loop
    <3>1. \E ret \in LoopRets : mqtt_thread' = [pc |-> "after", loop_ret |-> ret]
      BY <2>3 DEF Loop, Returns, LoopRets, LinkErrors, Success
    <3>. QED BY <2>2, <3>1
  <2>4. CASE Network
    BY <1>0, <2>4 DEF Network, BrokerAnswers, LinkBreaks, BrokerChanges
  <2>5. CASE doInitMqtt \/ stopMqtt \/ Connect \/ AfterLoop \/ EndMqtt \/ UNCHANGED mqttVars
    <3>1. \/ mqtt_thread' = mqtt_thread
          \/ \E p \in {"connect", "loop", "ended"} :
                mqtt_thread' = [mqtt_thread EXCEPT !.pc = p]
      BY <2>5 DEF doInitMqtt, stopMqtt, Connect, AfterLoop, EndMqtt, mqttVars
    <3>. QED BY <1>0, <2>1, <3>1
  <2>. QED BY <2>3, <2>4, <2>5 DEF MqttStep
<1>2. conn_state' \in ConnStates
  <2>1. StateAfterLoop \in ConnStates
    BY <1>0 DEF StateAfterLoop, Reconnected, ConnStates
  <2>. QED BY <1>0, <2>1
       DEF MqttStep, doInitMqtt, stopMqtt, Connect, Loop, OnDisconnect, AfterLoop, EndMqtt,
           Network, BrokerAnswers, LinkBreaks, BrokerChanges, mqttVars, ConnStates
<1>3. link' \in Links
  <2>1. Dialled \in Links
    BY DEF Dialled, Links
  <2>. QED BY <1>0, <2>1
       DEF MqttStep, doInitMqtt, stopMqtt, Connect, Loop, AfterLoop, EndMqtt,
           Network, BrokerAnswers, LinkBreaks, BrokerChanges, mqttVars, Links
<1>4. initialized' \in BOOLEAN /\ terminate_mqtt_service' \in BOOLEAN
      /\ mqtt_cancelled' \in BOOLEAN
  BY <1>0 DEF MqttStep, doInitMqtt, stopMqtt, Connect, Loop, AfterLoop, EndMqtt,
              Network, BrokerAnswers, LinkBreaks, BrokerChanges, mqttVars
<1>5. broker' \in {"up", "refusing", "down"}
  BY <1>0 DEF MqttStep, doInitMqtt, stopMqtt, Connect, Loop, AfterLoop, EndMqtt,
              Network, BrokerAnswers, LinkBreaks, BrokerChanges, mqttVars
<1>. QED BY <1>1, <1>2, <1>3, <1>4, <1>5 DEF MqttTypeOK

MainPcs == {"tcp", "mqtt", "ocpp", "no_ssl", "evhtp", "loop", "stop", "wait"}

MainRecords ==
    [pc : MainPcs, timeout : 0..(MaxWait + 1), held : {"none", "log", "pool"}]

MainTypes ==
    /\ main \in MainRecords
    /\ step \in [Who -> 0..7]
    /\ crashed \in {"no", "main", "thread"}
    /\ t_server \in BOOLEAN /\ no_ssl_server \in BOOLEAN
    /\ ev_server \in {"none", "running", "freed"}
    /\ exited \in BOOLEAN
    /\ signals \in 0..MaxSignal
    /\ world \in Worlds

(* The next of the stops is one of the seven, and main goes on to wait.     *)
LEMMA AdvanceTypes ==
    ASSUME MainTypes, NEW w \in Who, Runs(w), Advance(w)
    PROVE  /\ step' \in [Who -> 0..7]
           /\ main' \in MainRecords
           /\ exited' \in BOOLEAN
<1>1. StopsOf(w) \in 6..7 /\ step[w] \in 0..7
  BY DEF StopsOf, MainTypes
<1>2. step' \in [Who -> 0..7]
  <2>1. CASE step[w] < StopsOf(w)
    BY <1>1, <2>1 DEF Advance, MainTypes
  <2>2. CASE ~(step[w] < StopsOf(w))
    BY <1>1, <2>2 DEF Advance, MainTypes
  <2>. QED BY <2>1, <2>2
<1>3. main' \in MainRecords
  <2>1. CASE step[w] < StopsOf(w)
    BY <2>1 DEF Advance, MainTypes
  <2>2. CASE ~(step[w] < StopsOf(w))
    <3>1. PICK p \in MainPcs, h \in {"none", "log", "pool"} :
             main' = [main EXCEPT !.pc = p, !.held = h]
      BY <2>2 DEF Advance, MainTypes, MainRecords, MainPcs
    <3>. QED BY <3>1 DEF MainTypes, MainRecords
  <2>. QED BY <2>1, <2>2
<1>4. exited' \in BOOLEAN
  BY DEF Advance, MainTypes
<1>. QED BY <1>2, <1>3, <1>4

(* A crash handler that starts begins with the first stop.                  *)
LEMMA CrashTypes ==
    ASSUME MainTypes, NEW where \in {"main", "thread"}, Crash(where)
    PROVE  step' \in [Who -> 0..7] /\ crashed' \in {"no", "main", "thread"}
BY DEF Crash, MainTypes, Who

(* Steps of main, of the handlers and of the threads keep main's types.     *)
LEMMA MainTypeStep ==
    ASSUME MainTypes, [Next]_vars
    PROVE  MainTypes'
<1>0. MaxWait \in Nat /\ MaxSignal \in Nat
  BY ConsoleBounds
<1>1. \A p \in MainPcs : [main EXCEPT !.pc = p] \in MainRecords
  BY DEF MainTypes, MainRecords
<1>2. [step EXCEPT !["main"] = 1] \in [Who -> 0..7]
      /\ [step EXCEPT !["handler"] = 1] \in [Who -> 0..7]
  BY DEF MainTypes, Who
<1>3. CASE StartTcp \/ StartMqtt \/ main_ocpp_server_start \/ start_mkr_no_ssl_server
           \/ start_libevhtp_main
  <2>1. \E p \in MainPcs : To(p)
    BY <1>3 DEF StartTcp, StartMqtt, main_ocpp_server_start, start_mkr_no_ssl_server,
                start_libevhtp_main, MainPcs
  <2>2. main' \in MainRecords
    BY <1>1, <2>1 DEF To
  <2>3. step' \in [Who -> 0..7]
    BY <1>2, <1>3 DEF StartTcp, StartMqtt, main_ocpp_server_start, start_mkr_no_ssl_server,
                start_libevhtp_main, MainTypes
  <2>4. UNCHANGED <<crashed, exited, signals, world>>
    BY <1>3 DEF StartTcp, StartMqtt, main_ocpp_server_start, start_mkr_no_ssl_server,
                start_libevhtp_main
  <2>5. t_server' \in BOOLEAN /\ no_ssl_server' \in BOOLEAN
        /\ ev_server' \in {"none", "running", "freed"}
    BY <1>3 DEF StartTcp, StartMqtt, main_ocpp_server_start, start_mkr_no_ssl_server,
                start_libevhtp_main, servers, MainTypes
  <2>. QED BY <2>2, <2>3, <2>4, <2>5 DEF MainTypes
<1>4. CASE EventLoop
  <2>1. step' \in [Who -> 0..7] /\ crashed' \in {"no", "main", "thread"}
    BY <1>2, <1>4, CrashTypes DEF EventLoop, MainTypes
  <2>2. main' \in MainRecords
    BY <1>1, <1>4 DEF EventLoop, To, MainTypes, MainPcs
  <2>. QED BY <1>4, <2>1, <2>2 DEF EventLoop, MainTypes, servers
<1>5. CASE WaitStopped
  <2>1. main' \in MainRecords
    <3>1. \A n \in 0..(MaxWait + 1) : [main EXCEPT !.timeout = n]
             \in MainRecords
      BY DEF MainTypes, MainRecords
    <3>2. main.timeout \in 0..(MaxWait + 1)
      BY DEF MainTypes, MainRecords
    <3>3. (IF main.timeout > MaxWait THEN main.timeout ELSE main.timeout + 1)
             \in 0..(MaxWait + 1)
      BY <1>0, <3>2
    <3>. QED BY <1>5, <3>1, <3>3 DEF WaitStopped, MainTypes
  <2>2. exited' \in BOOLEAN
    BY <1>5 DEF WaitStopped, MainTypes
  <2>. QED BY <1>5, <2>1, <2>2 DEF WaitStopped, MainTypes, servers
<1>6. ASSUME NEW w \in Who, Stopping(w)
      PROVE  MainTypes'
  <2>1. UNCHANGED <<signals, world>>
    BY <1>6 DEF Stopping, StopTcp, stop_ocpp_server, stop_mkr_no_ssl_server,
                CancelsNoThread, StopMqtt, stop_libevhtp_main
  <2>2. t_server' \in BOOLEAN /\ no_ssl_server' \in BOOLEAN
        /\ ev_server' \in {"none", "running", "freed"}
    BY <1>6 DEF Stopping, StopTcp, stop_ocpp_server, stop_mkr_no_ssl_server,
                CancelsNoThread, StopMqtt, stop_libevhtp_main, servers, MainTypes
  <2>3. CASE Runs(w) /\ Advance(w) /\ UNCHANGED crashed
    BY <2>1, <2>2, <2>3, AdvanceTypes DEF MainTypes
  <2>4. ASSUME NEW server, step[w] \in {4, 5}, Runs(w), Freed(w, server)
        PROVE  MainTypes'
    <3>1. CASE UNCHANGED <<main, exited>> /\ crashed' = "thread"
               /\ step' = [step EXCEPT ![w] = @ + 1, !["crash"] = 1]
      <4>1. step[w] + 1 \in 0..7 /\ 1 \in 0..7
        BY <2>4
      <4>2. step' \in [Who -> 0..7]
        BY <3>1, <4>1 DEF MainTypes
      <4>. QED BY <2>1, <2>2, <3>1, <4>2 DEF MainTypes
    <3>. QED BY <2>3, <2>4, <3>1 DEF Freed
  <2>5. CASE CancelsNoThread(w)
    <3>1. step' \in [Who -> 0..7] /\ crashed' \in {"no", "main", "thread"}
      BY <2>5, CrashTypes DEF CancelsNoThread, MainTypes
    <3>2. exited' \in BOOLEAN /\ UNCHANGED main
      BY <2>5 DEF CancelsNoThread, MainTypes
    <3>. QED BY <2>1, <2>2, <3>1, <3>2 DEF MainTypes
  <2>. QED BY <1>6, <2>3, <2>4, <2>5
       DEF Stopping, StopTcp, stop_ocpp_server, stop_mkr_no_ssl_server, StopMqtt,
           stop_libevhtp_main
<1>7. CASE StopSignal
  <2>1. signals' \in 0..MaxSignal
    BY <1>0, <1>7 DEF StopSignal, MainTypes
  <2>2. main' \in MainRecords
    BY <1>7 DEF StopSignal, LocksOfMain, MainTypes, MainRecords
  <2>. QED BY <1>2, <1>7, <2>1, <2>2 DEF StopSignal, MainTypes, servers
<1>8. CASE UNCHANGED consoleVars
  BY <1>8 DEF consoleVars, servers, MainTypes
<1>9. ASSUME NEW c \in Conn, SendCommand(c)
      PROVE  MainTypes'
  <2>1. step' \in [Who -> 0..7] /\ crashed' \in {"no", "main", "thread"}
    BY <1>9, CrashTypes DEF SendCommand, MainTypes
  <2>. QED BY <1>9, <2>1 DEF SendCommand, MainTypes, servers
<1>10. CASE ListenerThread \/ MqttClient \/ Mobiles \/ Broker \/ UNCHANGED vars
  BY <1>8, <1>10 DEF ListenerThread, MqttClient, Mobiles, Broker, vars
<1>11. ASSUME NEW c \in Conn, ConnectionThread(c)
       PROVE  MainTypes'
  BY <1>8, <1>9, <1>11 DEF ConnectionThread, Alive, Connection, process_tcp_listener_request
<1>. QED BY <1>3, <1>4, <1>5, <1>6, <1>7, <1>10, <1>11 DEF Next, Main

(* The initial state of the process has the types.                          *)
LEMMA ConsoleInit == Init => ConnInv /\ MqttTypeOK /\ MainTypes
<1>. SUFFICES ASSUME Init PROVE ConnInv /\ MqttTypeOK /\ MainTypes
  OBVIOUS
<1>1. NoConnection \in ConnRecord
  BY EmptySeq DEF NoConnection, ConnRecord
<1>2. TcpTypeOK
  <2>1. IsRun \in 0..2 /\ sockfd \in 0..1
    BY DEF Init, TcpInit
  <2>1a. {tcp_cancelled, tcp_stopped} \subseteq BOOLEAN
    BY DEF Init, TcpInit
  <2>2. conn \in [Conn -> ConnRecord]
    BY <1>1 DEF Init, TcpInit
  <2>3. listener = "none"
    BY DEF Init, TcpInit
  <2>. QED BY <2>1, <2>1a, <2>2, <2>3 DEF TcpTypeOK, ConnRecord
<1>3. \A c \in Conn : ReadInOrder(c)
  BY DEF Init, TcpInit, NoConnection, ReadInOrder
<1>4. MqttTypeOK
  BY DEF Init, MqttInit, MqttTypeOK, ConnStates, LoopRets, Success, Links
<1>5. MainTypes
  <2>1. 0 \in 0..(MaxWait + 1) /\ 0 \in 0..MaxSignal /\ 0 \in 0..7
    BY ConsoleBounds
  <2>2. main \in MainRecords /\ step \in [Who -> 0..7]
    BY <2>1 DEF Init, MainPcs, MainRecords
  <2>3. /\ crashed \in {"no", "main", "thread"} /\ t_server \in BOOLEAN
        /\ no_ssl_server \in BOOLEAN /\ ev_server \in {"none", "running", "freed"}
        /\ exited \in BOOLEAN /\ signals \in 0..MaxSignal /\ world \in Worlds
    BY <2>1 DEF Init
  <2>. QED BY <2>2, <2>3 DEF MainTypes
<1>. QED BY <1>2, <1>3, <1>4, <1>5 DEF ConnInv

TypeInv == ConnInv /\ MqttTypeOK /\ MainTypes

(* What has the types keeps them.                                           *)
LEMMA TypeInvariant == Spec => []TypeInv
<1>1. Init => TypeInv
  BY ConsoleInit DEF TypeInv
<1>2. TypeInv /\ [Next]_vars => TypeInv'
  <2>. SUFFICES ASSUME TypeInv, [Next]_vars PROVE TypeInv'
    OBVIOUS
  <2>1. TcpStep /\ MqttStep
    BY StepOfParts
  <2>. QED BY <2>1, ConnStep, MqttTypeStep, MainTypeStep DEF TypeInv
<1>. QED BY <1>1, <1>2, PTL DEF Spec

(* The process is well typed.                                              *)
THEOREM ConsoleTypeCorrect == Spec => []ConsoleTypeOK
<1>1. TypeInv => ConsoleTypeOK
  BY DEF TypeInv, ConnInv, MainTypes, MainPcs, MainRecords, ConsoleTypeOK
<1>. QED BY <1>1, TypeInvariant, PTL

(* A request is handed over whole and in order, however the network cut it  *)
(* into pieces and whatever the size of the buffer is.                     *)
THEOREM RequestsAreWhole == Spec => []RequestHandedWhole
<1>1. TypeInv => RequestHandedWhole
  BY DEF TypeInv, ConnInv, ReadInOrder, RequestHandedWhole, Body
<1>. QED BY <1>1, TypeInvariant, PTL

-----------------------------------------------------------------------------
(* The MQTT client.  CONNECTED would be left over from an ended thread if   *)
(* main could start the client twice; it passes that point only once.      *)

StartedOnce ==
    main.pc \in {"tcp", "mqtt"} => mqtt_thread.pc = "none" /\ conn_state = "OPEN"

MqttInv == StartedOnce /\ SubscribedWhenConnected

(* main does not come back to its start, and starts the client in passing. *)
LEMMA StartIsPassed ==
    ASSUME MainTypes, [Next]_vars
    PROVE  \/ main.pc = "mqtt" /\ main'.pc = "ocpp" /\ doInitMqtt
           \/ /\ main'.pc \in {"tcp", "mqtt"} => main.pc \in {"tcp", "mqtt"}
              /\ \/ stopMqtt \/ Connect \/ Loop \/ AfterLoop \/ EndMqtt \/ Network
                 \/ UNCHANGED mqttVars
<1>0. \A p : To(p) => main'.pc = p
  BY DEF To, MainTypes
<1>1. CASE StartMqtt
  BY <1>0, <1>1 DEF StartMqtt
<1>2. CASE \/ StartTcp \/ main_ocpp_server_start \/ start_mkr_no_ssl_server
           \/ start_libevhtp_main
  BY <1>0, <1>2 DEF StartTcp, main_ocpp_server_start, start_mkr_no_ssl_server,
                    start_libevhtp_main
<1>3. CASE EventLoop \/ StopSignal \/ UNCHANGED vars
  <2>1. main'.pc \in {main.pc, "stop"}
    BY <1>0, <1>3 DEF EventLoop, StopSignal, vars, consoleVars, MainTypes, MainRecords
  <2>. QED BY <1>3, <2>1 DEF EventLoop, StopSignal, vars
<1>4. CASE WaitStopped
  BY <1>4 DEF WaitStopped, MainTypes, MainRecords
<1>5. ASSUME NEW w \in Who, Stopping(w)
      PROVE  /\ main'.pc \in {"tcp", "mqtt"} => main.pc \in {"tcp", "mqtt"}
             /\ stopMqtt \/ UNCHANGED mqttVars
  <2>1. main'.pc \in {main.pc, "wait"}
    <3>1. Advance(w) => main'.pc \in {main.pc, "wait"}
      BY DEF Advance, MainTypes, MainRecords
    <3>2. Advance(w) \/ UNCHANGED main
      BY <1>5 DEF Stopping, StopTcp, stop_ocpp_server, stop_mkr_no_ssl_server,
                CancelsNoThread, StopMqtt, stop_libevhtp_main, Freed
    <3>. QED BY <3>1, <3>2
  <2>2. stopMqtt \/ UNCHANGED mqttVars
    BY <1>5 DEF Stopping, StopTcp, stop_ocpp_server, stop_mkr_no_ssl_server,
                CancelsNoThread, StopMqtt, stop_libevhtp_main
  <2>. QED BY <2>1, <2>2
<1>6. CASE ListenerThread \/ Mobiles
  BY <1>6 DEF ListenerThread, Mobiles, consoleVars
<1>7. CASE MqttClient \/ Broker
  BY <1>7 DEF MqttClient, Broker, Alive, consoleVars
<1>8. ASSUME NEW c \in Conn, ConnectionThread(c)
      PROVE  UNCHANGED <<main, mqttVars>>
  BY <1>8 DEF ConnectionThread, Alive, Connection, process_tcp_listener_request,
              SendCommand, consoleVars
<1>. QED BY <1>1, <1>2, <1>3, <1>4, <1>5, <1>6, <1>7, <1>8 DEF Next, Main

(* Every step keeps the state of the client behind its connection.          *)
LEMMA MqttInvStep ==
    ASSUME TypeInv, MqttInv, [Next]_vars
    PROVE  MqttInv'
<1>0. mqtt_thread \in [pc : {"none", "connect", "loop", "after", "ended"},
                       loop_ret : LoopRets]
  BY DEF TypeInv, MqttTypeOK
<1>1. CASE main.pc = "mqtt" /\ main'.pc = "ocpp" /\ doInitMqtt
  <2>1. conn_state' = "OPEN"
    BY <1>1 DEF doInitMqtt, MqttInv, StartedOnce, mqttVars
  <2>. QED BY <1>1, <2>1 DEF MqttInv, StartedOnce, SubscribedWhenConnected
<1>2. ASSUME main'.pc \in {"tcp", "mqtt"} => main.pc \in {"tcp", "mqtt"},
             UNCHANGED <<mqtt_thread, conn_state>>,
             link' = link \/ link' = "broken"
                \/ link \in {"connect", "subscribe"}
      PROVE  MqttInv'
  BY <1>2 DEF MqttInv, StartedOnce, SubscribedWhenConnected
<1>3. ASSUME main'.pc \in {"tcp", "mqtt"} => main.pc \in {"tcp", "mqtt"},
             Connect \/ Loop \/ AfterLoop \/ EndMqtt
      PROVE  MqttInv'
  <2>1. mqtt_thread.pc # "none"
    BY <1>3 DEF Connect, Loop, AfterLoop, EndMqtt
  <2>2. StartedOnce'
    BY <1>3, <2>1 DEF MqttInv, StartedOnce
  <2>. SUFFICES SubscribedWhenConnected'
    BY <2>2 DEF MqttInv
  <2>3. CASE Connect
    BY <2>3 DEF Connect, SubscribedWhenConnected
  <2>4. CASE Loop
    BY <2>4 DEF Loop, OnDisconnect, MqttInv, SubscribedWhenConnected
  <2>5. CASE AfterLoop
    <3>1. CASE StateAfterLoop = "CONNECTED"
      <4>1. conn_state = "CONNECTED" /\ ~Reconnects
        BY <3>1 DEF StateAfterLoop, Reconnected, Reconnects
      <4>2. mqtt_thread.pc = "after" /\ link' = link
        BY <2>5, <3>1, <4>1 DEF AfterLoop
      <4>. QED BY <4>1, <4>2 DEF MqttInv, SubscribedWhenConnected
    <3>2. CASE StateAfterLoop # "CONNECTED"
      BY <2>5, <3>2 DEF AfterLoop, SubscribedWhenConnected
    <3>. QED BY <3>1, <3>2
  <2>6. CASE EndMqtt
    <3>1. mqtt_thread'.pc = "ended"
      BY <1>0, <2>6 DEF EndMqtt
    <3>. QED BY <3>1 DEF SubscribedWhenConnected
  <2>. QED BY <1>3, <2>3, <2>4, <2>5, <2>6
<1>4. CASE stopMqtt \/ Network \/ UNCHANGED mqttVars
  <2>1. /\ UNCHANGED <<mqtt_thread, conn_state>>
        /\ link' = link \/ link' = "broken" \/ link \in {"connect", "subscribe"}
    BY <1>4 DEF stopMqtt, Network, BrokerAnswers, LinkBreaks, BrokerChanges, mqttVars
  <2>. QED BY <1>1, <1>2, <1>3, <2>1, StartIsPassed DEF TypeInv
<1>. QED BY <1>1, <1>3, <1>4, StartIsPassed DEF TypeInv

(* CONNECTED means that the broker has acknowledged the subscription of     *)
(* this connection, until the library notices that it is gone.             *)
THEOREM ConnectedMeansSubscribed == Spec => []SubscribedWhenConnected
<1>1. Init => MqttInv
  BY DEF Init, MqttInit, MqttInv, StartedOnce, SubscribedWhenConnected
<1>2. MqttInv => SubscribedWhenConnected
  BY DEF MqttInv
<1>. QED BY <1>1, <1>2, MqttInvStep, TypeInvariant, PTL DEF Spec

-----------------------------------------------------------------------------
(* The stop of the listener.  Once IsRun is cleared the listener reaches    *)
(* accept no more, and one that is there already is cancelled; both stay so *)
(* also when the stops of main and of two handlers overlap.                *)

Unreachable == IsRun # 1 /\ (listener = "accept" => tcp_cancelled)

StopInv ==
    /\ tcp_stopped => Unreachable
    /\ \A w \in Who : /\ step[w] = 2 => IsRun # 1
                      /\ step[w] = 3 => Unreachable

(* Every step keeps the listener stopped.                                   *)
LEMMA StopStep ==
    ASSUME TypeInv, StopInv, [Next]_vars
    PROVE  StopInv'
<1>0. TcpStep /\ MainTypes
  BY StepOfParts DEF TypeInv
<1>1. IsRun # 1 => IsRun' # 1
  <2>1. CASE Connections \/ UNCHANGED tcpVars
    BY <2>1 DEF Connections, ReceiveLength, ReceiveBody, ReceiveFails, Dial, HangUp,
                Transmit, listenerVars, tcpVars
  <2>2. CASE Listener
    BY <2>2 DEF Listener, OpenSocket, TestIsRun, Pause, LeaveLoop, CancelledListener, Accept
  <2>3. CASE start_tcp_listener \/ ClearIsRun \/ CancelListener \/ CloseListener
    BY <2>3 DEF start_tcp_listener, ClearIsRun, CancelListener, CloseListener
  <2>. QED BY <1>0, <2>1, <2>2, <2>3 DEF TcpStep
<1>2. Unreachable => Unreachable'
  BY <1>0, <1>1 DEF Unreachable, TcpStep, Listener, OpenSocket, TestIsRun, Pause,
              LeaveLoop, CancelledListener, Accept, start_tcp_listener, ClearIsRun,
              CancelListener, CloseListener, Connections, ReceiveLength, ReceiveBody,
              ReceiveFails, Dial, HangUp, Transmit, listenerVars, tcpVars
<1>3. ASSUME UNCHANGED tcp_stopped,
             \A x \in Who : step'[x] \in {2, 3} => step'[x] = step[x]
      PROVE  StopInv'
  BY <1>1, <1>2, <1>3 DEF StopInv
<1>4. ASSUME NEW w \in Who, StopTcp(w)
      PROVE  StopInv'
  <2>1. step[w] \in 1..3 /\ step' = [step EXCEPT ![w] = step[w] + 1]
    BY <1>4 DEF StopTcp, Advance, StopsOf
  <2>2. \A x \in Who : step'[x] = IF x = w THEN step[w] + 1 ELSE step[x]
    BY <1>0, <2>1 DEF MainTypes
  <2>3. CASE step[w] = 1
    <3>1. IsRun' = 0 /\ UNCHANGED tcp_stopped
      BY <1>4, <2>3 DEF StopTcp, ClearIsRun
    <3>. QED BY <1>2, <2>2, <2>3, <3>1 DEF StopInv
  <2>4. CASE step[w] = 2
    <3>1. IsRun # 1 /\ IsRun' = IsRun /\ UNCHANGED tcp_stopped
      BY <1>4, <2>4 DEF StopTcp, CancelListener, StopInv
    <3>2. listener' = "accept" => tcp_cancelled'
      <4>1. listener' = listener /\ tcp_cancelled' = (tcp_cancelled \/ listener # "none")
        BY <1>4, <2>4 DEF StopTcp, CancelListener
      <4>. QED BY <4>1
    <3>. QED BY <1>2, <2>2, <2>4, <3>1, <3>2 DEF StopInv, Unreachable
  <2>5. CASE step[w] = 3
    <3>1. Unreachable'
      BY <1>2, <2>5 DEF StopInv
    <3>. QED BY <1>1, <2>2, <2>5, <3>1 DEF StopInv, Unreachable
  <2>. QED BY <2>1, <2>3, <2>4, <2>5
<1>5. ASSUME [Next]_vars, \A w \in Who : ~StopTcp(w)
      PROVE  /\ UNCHANGED tcp_stopped
             /\ \A x \in Who : step'[x] \in {2, 3} => step'[x] = step[x]
  <2>0. step \in [Who -> 0..7] /\ Who = {"main", "handler", "crash"}
    BY <1>0 DEF MainTypes, Who
  <2>1. ASSUME NEW w \in Who, step[w] > 3, Advance(w)
        PROVE  \A x \in Who : step'[x] \in {2, 3} => step'[x] = step[x]
    <3>1. \/ step' = [step EXCEPT ![w] = step[w] + 1]
          \/ step' = [step EXCEPT ![w] = 0]
      BY <2>1 DEF Advance
    <3>. QED BY <2>0, <2>1, <3>1
  <2>2. ASSUME NEW where, Crash(where)
        PROVE  \A x \in Who : step'[x] \in {2, 3} => step'[x] = step[x]
    BY <2>0, <2>2 DEF Crash
  <2>3. CASE StartTcp \/ StartMqtt \/ main_ocpp_server_start \/ start_mkr_no_ssl_server
             \/ start_libevhtp_main
    BY <2>0, <2>3 DEF StartTcp, start_tcp_listener, StartMqtt, main_ocpp_server_start,
             start_mkr_no_ssl_server, start_libevhtp_main, tcpVars, listenerVars
  <2>4. CASE EventLoop \/ WaitStopped \/ StopSignal \/ UNCHANGED vars
    BY <2>0, <2>2, <2>4 DEF EventLoop, WaitStopped, StopSignal, vars, consoleVars, tcpVars,
             listenerVars
  <2>5. ASSUME NEW w \in Who, Stopping(w)
        PROVE  /\ UNCHANGED tcp_stopped
               /\ \A x \in Who : step'[x] \in {2, 3} => step'[x] = step[x]
    <3>1. UNCHANGED tcp_stopped
      BY <1>5, <2>5 DEF Stopping, stop_ocpp_server, stop_mkr_no_ssl_server,
               CancelsNoThread, StopMqtt, stop_libevhtp_main, tcpVars, listenerVars
    <3>2. CASE CancelsNoThread(w)
      BY <2>2, <3>1, <3>2 DEF CancelsNoThread
    <3>3. ASSUME NEW server, step[w] \in {4, 5}, Freed(w, server)
          PROVE  \A x \in Who : step'[x] \in {2, 3} => step'[x] = step[x]
      <4>1. CASE Advance(w)
        BY <2>1, <3>3, <4>1
      <4>2. CASE step' = [step EXCEPT ![w] = @ + 1, !["crash"] = 1]
        BY <2>0, <3>3, <4>2
      <4>. QED BY <3>3, <4>1, <4>2 DEF Freed
    <3>4. CASE stop_ocpp_server(w) \/ stop_mkr_no_ssl_server(w)
      BY <3>1, <3>3, <3>4 DEF stop_ocpp_server, stop_mkr_no_ssl_server
    <3>5. CASE StopMqtt(w) \/ stop_libevhtp_main(w)
      BY <2>1, <3>1, <3>5 DEF StopMqtt, stop_libevhtp_main
    <3>. QED BY <1>5, <2>5, <3>2, <3>4, <3>5 DEF Stopping
  <2>6. CASE ListenerThread \/ Mobiles \/ MqttClient \/ Broker
    <3>1. UNCHANGED step
      BY <2>6 DEF ListenerThread, Mobiles, MqttClient, Broker, consoleVars
    <3>2. UNCHANGED tcp_stopped
      BY <2>6 DEF ListenerThread, Mobiles, MqttClient, Broker, Alive, Listener, OpenSocket,
               TestIsRun, Pause, LeaveLoop, CancelledListener, Accept, Dial, Transmit,
               HangUp, tcpVars, listenerVars
    <3>. QED BY <3>1, <3>2
  <2>7. ASSUME NEW c \in Conn, ConnectionThread(c)
        PROVE  /\ UNCHANGED tcp_stopped
               /\ \A x \in Who : step'[x] \in {2, 3} => step'[x] = step[x]
    <3>1. UNCHANGED step \/ Crash("thread")
      BY <2>7 DEF ConnectionThread, Alive, Connection, process_tcp_listener_request,
               SendCommand, consoleVars
    <3>2. UNCHANGED tcp_stopped
      BY <2>7 DEF ConnectionThread, Alive, Connection, process_tcp_listener_request,
               SendCommand, ReceiveLength, ReceiveBody, ReceiveFails, listenerVars
    <3>. QED BY <2>2, <3>1, <3>2
  <2>. QED BY <1>5, <2>3, <2>4, <2>5, <2>6, <2>7 DEF Next, Main
<1>. QED BY <1>3, <1>4, <1>5

(* Nothing is accepted once stop_tcp_listener has returned.                 *)
THEOREM StoppedListenerAcceptsNothing == Spec => NoAcceptAfterStop
<1>1. Init => StopInv
  BY DEF Init, TcpInit, StopInv
<1>2. TypeInv /\ StopInv /\ [Next]_vars =>
         [tcp_stopped => \A c \in Conn :
             conn[c].pc = "queued" => conn'[c].pc = "queued"]_conn
  <2>. SUFFICES ASSUME TypeInv, StopInv, [Next]_vars, tcp_stopped,
                       NEW c \in Conn, conn[c].pc = "queued"
                PROVE  conn'[c].pc = "queued"
    OBVIOUS
  <2>0. TcpStep /\ conn \in [Conn -> ConnRecord]
    BY StepOfParts DEF TypeInv, ConnInv, TcpTypeOK, ConnRecord
  <2>1. ~Accept(c)
    BY DEF StopInv, Unreachable, Accept
  <2>2. ASSUME NEW d \in Conn, Accept(d)
        PROVE  conn'[c].pc = "queued"
    BY <2>0, <2>1, <2>2 DEF Accept
  <2>3. CASE Connections
    <3>1. PICK d \in Conn :
            \/ ReceiveLength(d) \/ ReceiveBody(d) \/ ReceiveFails(d)
            \/ Dial(d) \/ HangUp(d)
            \/ \E k \in 1..(Prefix + conn[d].length) : Transmit(d, k)
            \/ /\ conn[d].pc \in {"handle", "send"}
               /\ Close(d) \/ (conn[d].pc = "handle" /\ conn' = [conn EXCEPT ![d].pc = "send"])
               /\ UNCHANGED listenerVars
      BY <2>3 DEF Connections
    <3>2. CASE d # c
      BY <2>0, <3>1, <3>2 DEF ReceiveLength, ReceiveBody, ReceiveFails, Dial, HangUp,
               Transmit, Close
    <3>3. CASE d = c
      <4>1. HangUp(c) \/ \E k \in 1..(Prefix + conn[c].length) : Transmit(c, k)
        BY <3>1, <3>3 DEF ReceiveLength, ReceiveBody, ReceiveFails, Dial
      <4>. QED BY <2>0, <4>1 DEF HangUp, Transmit, ConnRecord
    <3>. QED BY <3>2, <3>3
  <2>4. CASE UNCHANGED conn
    BY <2>4
  <2>. QED BY <2>0, <2>2, <2>3, <2>4
       DEF TcpStep, Listener, OpenSocket, TestIsRun, Pause, LeaveLoop, CancelledListener,
           start_tcp_listener, ClearIsRun, CancelListener, CloseListener, tcpVars
<1>. QED BY <1>1, <1>2, StopStep, TypeInvariant, PTL DEF Spec, NoAcceptAfterStop
=============================================================================
