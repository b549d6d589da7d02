---------------------------- MODULE TcpListener -----------------------------
(***************************************************************************)
(* The listener for mobiles (TcpListener.cpp): one thread accepts           *)
(* connections, a thread for each of them receives a length of four bytes   *)
(* and that many bytes of a request, hands the request over and closes the  *)
(* socket.  Main starts the listener and stops it by a flag, by             *)
(* cancellation of the thread and by closing its socket.                   *)
(*                                                                         *)
(* A connection is a stream: the bytes of the length are its positions 1    *)
(* to 4, the request is the rest.  How much of it has arrived when recv is  *)
(* called is up to the network.                                            *)
(***************************************************************************)
EXTENDS Integers, Sequences

CONSTANTS
    Conn,             \* connections of mobiles
    Length,           \* lengths of requests
    Uninitialised,    \* what may be in the buffer before recv
    IN_BUFFER_SIZE    \* bytes that one recv asks for

ASSUME LengthType == Length \subseteq Nat
ASSUME UninitialisedType == Uninitialised \subseteq Int
ASSUME BufferSizePositive == IN_BUFFER_SIZE \in Nat \ {0}

VARIABLES
    IsRun,          \* 1 run, 0 stop, 2 stopped
    sockfd,         \* the listening socket, 0 for none
    listener,       \* where the thread of doIt is
    tcp_cancelled,  \* pthread_cancel has been called
    tcp_stopped,    \* history: stop_tcp_listener has returned
    conn            \* the connections

listenerVars == <<IsRun, sockfd, listener, tcp_cancelled, tcp_stopped>>
tcpVars == <<listenerVars, conn>>

Prefix == 4
NoConnection == [pc |-> "away", length |-> 0, arrived |-> 0, open |-> FALSE,
                 read |-> 0, totalLength |-> 0, inBuffer |-> <<>>, prefixed |-> FALSE]

TcpTypeOK ==
    /\ IsRun \in 0..2
    /\ sockfd \in 0..1
    /\ listener \in {"none", "socket", "test", "accept", "pause", "exit", "ended",
                     "cancelled"}
    /\ {tcp_cancelled, tcp_stopped} \subseteq BOOLEAN
    /\ conn \in [Conn ->
          [pc : {"away", "queued", "length", "body", "handle", "send", "closed",
                 "left"},
           length : Nat, arrived : Nat, open : BOOLEAN, read : Nat,
           totalLength : Int, inBuffer : Seq(Nat), prefixed : BOOLEAN]]

TcpInit ==
    /\ IsRun = 1
    /\ sockfd = 0
    /\ listener = "none"
    /\ tcp_cancelled = FALSE
    /\ tcp_stopped = FALSE
    /\ conn = [c \in Conn |-> NoConnection]

-----------------------------------------------------------------------------
(* doIt *)

(* socket, bind and listen; a bind that fails leaves the socket open.  A    *)
(* failure of socket() itself ends the thread in the same way.             *)
OpenSocket ==
    /\ listener = "socket"
    /\ sockfd' = 1
    /\ \/ listener' = "test" /\ UNCHANGED IsRun
       \/ listener' = "ended" /\ IsRun' = 2
    /\ UNCHANGED <<tcp_cancelled, tcp_stopped, conn>>

TestIsRun ==
    /\ listener = "test"
    /\ listener' = IF IsRun = 1 THEN "accept" ELSE "exit"
    /\ UNCHANGED <<IsRun, sockfd, tcp_cancelled, tcp_stopped, conn>>

(* accept, and a detached thread for the connection.                        *)
Accept(c) ==
    /\ listener = "accept"
    /\ ~tcp_cancelled
    /\ conn[c].pc = "queued"
    /\ conn' = [conn EXCEPT ![c].pc = "length"]
    /\ listener' = "pause"
    /\ UNCHANGED <<IsRun, sockfd, tcp_cancelled, tcp_stopped>>

Pause ==
    /\ listener = "pause"
    /\ ~tcp_cancelled
    /\ listener' = "test"
    /\ UNCHANGED <<IsRun, sockfd, tcp_cancelled, tcp_stopped, conn>>

(* The loop is left: the socket is closed, sockfd keeps its value.          *)
LeaveLoop ==
    /\ listener = "exit"
    /\ ~tcp_cancelled
    /\ IsRun' = 2
    /\ listener' = "ended"
    /\ UNCHANGED <<sockfd, tcp_cancelled, tcp_stopped, conn>>

(* accept, usleep and close are cancellation points; IsRun stays.           *)
CancelledListener ==
    /\ listener \in {"accept", "pause", "exit"}
    /\ tcp_cancelled
    /\ listener' = "cancelled"
    /\ UNCHANGED <<IsRun, sockfd, tcp_cancelled, tcp_stopped, conn>>

Listener ==
    \/ OpenSocket \/ TestIsRun \/ Pause \/ LeaveLoop \/ CancelledListener
    \/ \E c \in Conn : Accept(c)

-----------------------------------------------------------------------------
(* Called by main *)

(* The thread starts and its handle is stored, without a signal in between. *)
start_tcp_listener ==
    /\ listener' = "socket"
    /\ UNCHANGED <<IsRun, sockfd, tcp_cancelled, tcp_stopped, conn>>

(* The three steps of stop_tcp_listener.  Before the listener has a thread  *)
(* there is nothing to cancel.                                             *)
DecrementIsRun ==                                                   \* mutant
    /\ IsRun' = IsRun - 1
    /\ UNCHANGED <<sockfd, listener, tcp_cancelled, tcp_stopped, conn>>
ClearIsRun ==
    /\ IsRun' = 0
    /\ UNCHANGED <<sockfd, listener, tcp_cancelled, tcp_stopped, conn>>

LeftRunning == UNCHANGED tcpVars                                    \* mutant
CancelListener ==
    /\ tcp_cancelled' = (tcp_cancelled \/ listener # "none")
    /\ UNCHANGED <<IsRun, sockfd, listener, tcp_stopped, conn>>

CloseListener ==
    /\ sockfd' = 0
    /\ tcp_stopped' = TRUE
    /\ UNCHANGED <<IsRun, listener, tcp_cancelled, conn>>

-----------------------------------------------------------------------------
(* process_connection *)

Smallest(a, b) == IF a <= b THEN a ELSE b

(* The result of recv is not looked at: with less than four bytes the       *)
(* length is what was in the buffer.  Without a positive length the thread  *)
(* returns and leaves the socket open.  Lengths for which new[] throws, and *)
(* with them the process ends, are left out.                               *)
ReceiveLength(c) ==
    LET got == Smallest(Prefix, conn[c].arrived) IN
    /\ conn[c].pc = "length"
    /\ got > 0 \/ ~conn[c].open
    /\ \E n \in IF got = Prefix THEN {conn[c].length} ELSE Uninitialised :
          conn' = [conn EXCEPT ![c] = [@ EXCEPT
                      !.pc = IF n <= 0 THEN "left" ELSE "body",
                      !.totalLength = n,
                      !.read = got,
                      !.prefixed = (got = Prefix)]]
    /\ UNCHANGED listenerVars

NothingLeft(c, bytes) == 0                                          \* mutant
BytesLeft(c, bytes) == conn[c].totalLength - bytes

ReceiveBody(c) ==
    LET asked == Smallest(conn[c].totalLength, IN_BUFFER_SIZE)
        bytes == Smallest(asked, conn[c].arrived - conn[c].read)
    IN
    /\ conn[c].pc = "body"
    /\ bytes > 0
    /\ conn' = [conn EXCEPT ![c] = [@ EXCEPT
                   !.pc = IF BytesLeft(c, bytes) > 0 THEN "body" ELSE "handle",
                   !.totalLength = BytesLeft(c, bytes),
                   !.read = conn[c].read + bytes,
                   !.inBuffer = conn[c].inBuffer \o [i \in 1..bytes |-> conn[c].read + i]]]
    /\ UNCHANGED listenerVars

(* recv returns 0 or less once the mobile is gone.                          *)
OnlyErrors(c) == FALSE                                              \* mutant
PeerGone(c) == ~conn[c].open

ReceiveFails(c) ==
    /\ conn[c].pc = "body"
    /\ PeerGone(c)
    /\ conn' = [conn EXCEPT ![c].pc = "closed"]
    /\ UNCHANGED listenerVars

-----------------------------------------------------------------------------
(* Mobiles (external) *)

Dial(c) ==
    /\ conn[c].pc = "away"
    /\ \E n \in Length :
          conn' = [conn EXCEPT ![c] = [NoConnection EXCEPT !.pc = "queued", !.length = n,
                                                           !.open = TRUE]]
    /\ UNCHANGED listenerVars

(* The bytes of the stream up to the k-th have arrived.                     *)
Transmit(c, k) ==
    /\ conn[c].open
    /\ k \in (conn[c].arrived + 1)..(Prefix + conn[c].length)
    /\ conn' = [conn EXCEPT ![c].arrived = k]
    /\ UNCHANGED listenerVars

HangUp(c) ==
    /\ conn[c].open
    /\ conn' = [conn EXCEPT ![c].open = FALSE]
    /\ UNCHANGED listenerVars

-----------------------------------------------------------------------------
(* Properties *)

(* The request that is handed to process_tcp_listener_request is the one    *)
(* that the mobile sent, whole and in order, however the network cut it     *)
(* into pieces and however it compares with the buffer, as long as the      *)
(* bytes of the length came together.                                      *)
RequestHandedWhole ==
    \A c \in Conn :
        conn[c].pc \in {"handle", "send"} /\ conn[c].prefixed =>
            conn[c].inBuffer = [i \in 1..conn[c].length |-> Prefix + i]

(* Once stop_tcp_listener has returned, no connection is accepted, also     *)
(* when it was called before the thread had opened its socket.             *)
NoAcceptAfterStop ==
    [][tcp_stopped =>
        \A c \in Conn : conn[c].pc = "queued" => conn'[c].pc = "queued"]_conn
=============================================================================
