------------------------- MODULE Http_Light_Console -------------------------
(***************************************************************************)
(* The process: main starts the listener for mobiles, the MQTT client, the  *)
(* web socket server and two web servers, and runs the event loop of the    *)
(* last one.  SIGTERM and SIGINT run stop_http_light_main_run in the main   *)
(* thread, on top of whatever main is doing, start-up included; when the    *)
(* event loop has ended main stops everything once more and waits for the   *)
(* listener.  A SIGSEGV or SIGABRT runs the same stops in the thread that   *)
(* failed, and exits.  The stops take locks that are not recursive and that *)
(* the interrupted main thread may hold: then they never return.           *)
(*                                                                         *)
(* The listener and the MQTT client meet only in main.  A behaviour is      *)
(* therefore of one of three worlds, by the part of the environment that is *)
(* free in it: in "mobiles" requests come in any pieces and mobiles leave,  *)
(* in "broker" the broker and its connection come and go, in "stop" the     *)
(* start-up may fail and the process is stopped, while requests of mobiles  *)
(* come in one piece.  Except in "broker" the broker is out of reach and    *)
(* the passes of the MQTT client, which nothing else sees, are left out.   *)
(***************************************************************************)
EXTENDS TcpListener, ClsMqtt

CONSTANTS
    MaxSignal,    \* bound on the stop signals
    MaxWait       \* passes of the final wait (40 in the code)

ASSUME ConsoleBounds == {MaxSignal, MaxWait} \subseteq Nat

VARIABLES
    main,         \* what main does, the passes of its wait, and the lock that it
                  \* held when the signal handler interrupted it
    step,         \* the next of the stops for main, the signal handler and the
                  \* crash handler; 0 when it is not stopping
    crashed,      \* where a SIGSEGV or SIGABRT was raised
    t_server,     \* the web socket server exists
    no_ssl_server,\* the web server with a thread of its own exists
    ev_server,    \* the web server of the main thread
    exited,       \* the process has ended
    signals,      \* occurrences of the bounded event
    world

servers == <<t_server, no_ssl_server, ev_server>>
consoleVars == <<main, step, crashed, servers, exited, signals, world>>
vars == <<tcpVars, mqttVars, consoleVars>>

Worlds == {"mobiles", "broker", "stop"}
Who == {"main", "handler", "crash"}

ConsoleTypeOK ==
    /\ TcpTypeOK
    /\ MqttTypeOK
    /\ main \in [pc : {"tcp", "mqtt", "ocpp", "no_ssl", "evhtp", "loop", "stop",
                       "wait"},
                 timeout : 0..(MaxWait + 1), held : {"none", "log", "pool"}]
    /\ step \in [Who -> 0..7]
    /\ crashed \in {"no", "main", "thread"}
    /\ {t_server, no_ssl_server} \subseteq BOOLEAN
    /\ ev_server \in {"none", "running", "freed"}
    /\ exited \in BOOLEAN
    /\ signals \in 0..MaxSignal
    /\ world \in Worlds

Init ==
    /\ TcpInit
    /\ MqttInit
    /\ main = [pc |-> "tcp", timeout |-> 0, held |-> "none"]
    /\ step = [w \in Who |-> 0]
    /\ crashed = "no"
    /\ t_server = FALSE
    /\ no_ssl_server = FALSE
    /\ ev_server = "none"
    /\ exited = FALSE
    /\ signals = 0
    /\ world \in Worlds
    /\ world # "broker" => broker = "down"

(* The main thread runs main unless a handler is running on top of it.      *)
MainRuns == ~exited /\ step["handler"] = 0 /\ crashed # "main"

To(pc) == main' = [main EXCEPT !.pc = pc]

(* SIGSEGV or SIGABRT in a thread: the crash handler starts, unless it is   *)
(* under way already.  In the crash handler the signal is blocked and ends  *)
(* the process.                                                            *)
Crash(where) ==
    IF step["crash"] = 0
    THEN /\ crashed' = where
         /\ step' = [step EXCEPT !["crash"] = 1]
    ELSE UNCHANGED <<crashed, step>>

-----------------------------------------------------------------------------
(* main: start-up *)

StartTcp ==
    /\ MainRuns /\ main.pc = "tcp"
    /\ start_tcp_listener
    /\ To("mqtt")
    /\ UNCHANGED <<mqttVars, step, crashed, servers, exited, signals, world>>

StartMqtt ==
    /\ MainRuns /\ main.pc = "mqtt"
    /\ doInitMqtt
    /\ To("ocpp")
    /\ UNCHANGED <<tcpVars, step, crashed, servers, exited, signals, world>>

main_ocpp_server_start ==
    /\ MainRuns /\ main.pc = "ocpp"
    /\ t_server' = TRUE
    /\ To("no_ssl")
    /\ UNCHANGED <<tcpVars, mqttVars, step, crashed, no_ssl_server, ev_server, exited,
                   signals, world>>

start_mkr_no_ssl_server ==
    /\ MainRuns /\ main.pc = "no_ssl"
    /\ no_ssl_server' = TRUE
    /\ To("evhtp")
    /\ UNCHANGED <<tcpVars, mqttVars, step, crashed, t_server, ev_server, exited, signals,
                   world>>

(* With the port taken there is no loop and main goes on to stop.           *)
start_libevhtp_main ==
    /\ MainRuns /\ main.pc = "evhtp"
    /\ ev_server' = "running"
    /\ \/ To("loop") /\ UNCHANGED step
       \/ world = "stop" /\ To("stop") /\ step' = [step EXCEPT !["main"] = 1]
    /\ UNCHANGED <<tcpVars, mqttVars, crashed, t_server, no_ssl_server, exited, signals,
                   world>>

(* stop_libevhtp frees the event base below the running loop: the loop      *)
(* ends, or it touches freed memory.                                       *)
EventLoop ==
    /\ MainRuns /\ main.pc = "loop"
    /\ ev_server = "freed"
    /\ \/ /\ To("stop")
          /\ step' = [step EXCEPT !["main"] = 1]
          /\ UNCHANGED crashed
       \/ Crash("main") /\ UNCHANGED main
    /\ UNCHANGED <<tcpVars, mqttVars, servers, exited, signals, world>>

-----------------------------------------------------------------------------
(* The stops *)

(* m_printf, which ends the stop of the listener and the later ones, locks  *)
(* g_i_mutex; evhtp_free locks rlock in evthr_stop.                        *)
Blocked(w) ==
    \/ main.held = "log" /\ step[w] > 3
    \/ main.held = "pool" /\ step[w] = 7 /\ ev_server = "running"

Runs(w) ==
    /\ ~exited
    /\ step[w] > 0
    /\ ~Blocked(w)
    /\ CASE w = "main" -> MainRuns
         [] w = "handler" -> crashed # "main"
         [] w = "crash" -> TRUE

(* main makes six stops, the handlers also stop the web server.             *)
StopsOf(w) == IF w = "main" THEN 6 ELSE 7

(* After the last stop main waits, the signal handler returns and the crash *)
(* handler exits.                                                          *)
Advance(w) ==
    IF step[w] < StopsOf(w)
    THEN step' = [step EXCEPT ![w] = @ + 1] /\ UNCHANGED <<main, exited>>
    ELSE /\ step' = [step EXCEPT ![w] = 0]
         /\ main' = [main EXCEPT !.pc = IF w = "main" THEN "wait" ELSE @,
                                 !.held = IF w = "handler" THEN "none" ELSE @]
         /\ exited' = (w = "crash")

StopTcp(w) ==
    /\ Runs(w)
    /\ \/ step[w] = 1 /\ ClearIsRun
       \/ step[w] = 2 /\ CancelListener
       \/ step[w] = 3 /\ CloseListener
    /\ Advance(w)
    /\ UNCHANGED <<mqttVars, crashed, servers, signals, world>>

(* A server object is freed below the thread that is running it: the thread *)
(* may touch freed memory.                                                 *)
Freed(w, server) ==
    \/ Advance(w) /\ UNCHANGED crashed
    \/ /\ server
       /\ step["crash"] = 0
       /\ crashed' = "thread"
       /\ step' = [step EXCEPT ![w] = @ + 1, !["crash"] = 1]
       /\ UNCHANGED <<main, exited>>

stop_ocpp_server(w) ==
    /\ Runs(w)
    /\ step[w] = 4
    /\ t_server' = FALSE
    /\ Freed(w, t_server)
    /\ UNCHANGED <<tcpVars, mqttVars, no_ssl_server, ev_server, signals, world>>

(* The handle of the thread was taken after its detach(), when it names no  *)
(* thread; pthread_cancel has no effect or fails (next action).            *)
stop_mkr_no_ssl_server(w) ==
    /\ Runs(w)
    /\ step[w] = 5
    /\ no_ssl_server' = FALSE
    /\ Freed(w, no_ssl_server)
    /\ UNCHANGED <<tcpVars, mqttVars, t_server, ev_server, signals, world>>

(* pthread_cancel with a handle that names no thread: that of the second    *)
(* web server, and that of the listener before it was started.             *)
CancelsNoThread(w) ==
    /\ Runs(w)
    /\ step[w] = 5 \/ (step[w] = 2 /\ listener = "none")
    /\ IF w = "crash"
       THEN exited' = TRUE /\ UNCHANGED <<crashed, step>>
       ELSE Crash("main") /\ UNCHANGED exited
    /\ UNCHANGED <<tcpVars, mqttVars, main, servers, signals, world>>

StopMqtt(w) ==
    /\ Runs(w)
    /\ step[w] = 6
    /\ stopMqtt
    /\ Advance(w)
    /\ UNCHANGED <<tcpVars, crashed, servers, signals, world>>

stop_libevhtp_main(w) ==
    /\ Runs(w)
    /\ step[w] = 7
    /\ ev_server' = IF ev_server = "running" THEN "freed" ELSE ev_server
    /\ Advance(w)
    /\ UNCHANGED <<tcpVars, mqttVars, crashed, t_server, no_ssl_server, signals, world>>

Stopping(w) ==
    \/ StopTcp(w) \/ stop_ocpp_server(w) \/ stop_mkr_no_ssl_server(w)
    \/ CancelsNoThread(w) \/ StopMqtt(w) \/ stop_libevhtp_main(w)

(* main waits for the listener, for four seconds at most.                   *)
WaitForListener == IsRun = 2                                        \* mutant
WaitIsOver == IsRun = 2 \/ main.timeout > MaxWait

WaitStopped ==
    /\ MainRuns /\ main.pc = "wait"
    /\ IF WaitIsOver
       THEN exited' = TRUE /\ UNCHANGED main
       ELSE /\ main' = [main EXCEPT !.timeout = IF @ > MaxWait THEN @ ELSE @ + 1]
            /\ UNCHANGED exited
    /\ UNCHANGED <<tcpVars, mqttVars, step, crashed, servers, signals, world>>

Main ==
    \/ StartTcp \/ StartMqtt \/ main_ocpp_server_start \/ start_mkr_no_ssl_server
    \/ start_libevhtp_main \/ EventLoop \/ WaitStopped
    \/ \E w \in Who : Stopping(w)

(* What main may hold: g_i_mutex wherever it logs, and in its event loop,   *)
(* in the callback of an accepted connection, rlock (evthr_defer).         *)
LocksOfMain ==
    {"log"} \cup (IF main.pc = "loop" /\ ev_server = "running" THEN {"pool"} ELSE {})

(* SIGTERM or SIGINT, taken by the main thread.  The signal is blocked      *)
(* while its handler runs; that the other one comes on top of it, or the    *)
(* same one in another thread, is left out: both would free the same        *)
(* servers.                                                                *)
StopSignal ==
    /\ ~exited
    /\ world = "stop"
    /\ signals < MaxSignal
    /\ step["handler"] = 0
    /\ crashed # "main"
    /\ step' = [step EXCEPT !["handler"] = 1]
    /\ \E l \in {"none"} \cup LocksOfMain : main' = [main EXCEPT !.held = l]
    /\ signals' = signals + 1
    /\ UNCHANGED <<tcpVars, mqttVars, crashed, servers, exited, world>>

-----------------------------------------------------------------------------
(* Requests of mobiles.  Most are answered from the databases; a command    *)
(* goes out through t_server, which is tested first and used afterwards.   *)

Close(c) == conn' = [conn EXCEPT ![c].pc = "closed"]

process_tcp_listener_request(c) ==
    /\ conn[c].pc = "handle"
    /\ \/ Close(c)
       \/ t_server /\ conn' = [conn EXCEPT ![c].pc = "send"]
    /\ UNCHANGED <<listenerVars, mqttVars, consoleVars>>

SendCommand(c) ==
    /\ conn[c].pc = "send"
    /\ Close(c)
    /\ IF t_server THEN UNCHANGED <<crashed, step>> ELSE Crash("thread")
    /\ UNCHANGED <<listenerVars, mqttVars, main, servers, exited, signals,
                   world>>

Connection(c) ==
    \/ /\ ReceiveLength(c) \/ ReceiveBody(c) \/ ReceiveFails(c)
       /\ UNCHANGED <<mqttVars, consoleVars>>
    \/ process_tcp_listener_request(c)
    \/ SendCommand(c)

-----------------------------------------------------------------------------
Alive(A) == ~exited /\ A

ListenerThread == Alive(Listener) /\ UNCHANGED <<mqttVars, consoleVars>>
ConnectionThread(c) == Alive(Connection(c))
MqttClient ==
    /\ Alive(Connect \/ EndMqtt \/ (world = "broker" /\ (Loop \/ AfterLoop)))
    /\ UNCHANGED <<tcpVars, consoleVars>>

Mobiles ==
    /\ Alive(world # "broker")
    /\ \E c \in Conn :
          \/ Dial(c)
          \/ \E k \in 1..(Prefix + conn[c].length) :
                /\ world = "stop" => k = Prefix + conn[c].length
                /\ Transmit(c, k)
          \/ world = "mobiles" /\ HangUp(c)
    /\ UNCHANGED <<mqttVars, consoleVars>>

Broker ==
    /\ Alive(world = "broker")
    /\ Network
    /\ UNCHANGED <<tcpVars, consoleVars>>

Next ==
    \/ Main
    \/ StopSignal
    \/ ListenerThread
    \/ \E c \in Conn : ConnectionThread(c)
    \/ MqttClient
    \/ Mobiles
    \/ Broker

(* Threads run, and the broker answers.  Nothing is assumed of mobiles, of  *)
(* signals, of the network or of the broker's staying up.                  *)
Fairness ==
    /\ WF_vars(Main)
    /\ WF_vars(ListenerThread)
    /\ \A c \in Conn : WF_vars(ConnectionThread(c))
    /\ WF_vars(MqttClient)
    /\ WF_vars(BrokerAnswers /\ UNCHANGED <<tcpVars, consoleVars>>)

Spec == Init /\ [][Next]_vars /\ Fairness

-----------------------------------------------------------------------------
(* Properties *)

(* A stop signal that reaches main in its event loop while main holds none  *)
(* of the locks that the stops take ends the process, even if the listener  *)
(* was cancelled and never reports that it has stopped, the stops run twice *)
(* or a thread fails on a server that is gone; unless a later signal finds  *)
(* main holding one.  (With the lock held the handler waits for ever for    *)
(* the thread that it runs on.)                                            *)
StopsWhenAsked ==
    (main.pc = "loop" /\ step["handler"] > 0 /\ main.held = "none") ~>
        (exited \/ main.held # "none")

(* The socket of an accepted connection is closed once its mobile is gone,  *)
(* whatever the mobile had sent by then, except after a length that is not  *)
(* positive.                                                               *)
ConnectionsAreClosed ==
    \A c \in Conn :
        (conn[c].pc \in {"length", "body", "handle", "send"} /\ ~conn[c].open) ~>
            (conn[c].pc \in {"closed", "left"} \/ exited)

(* Whatever errors, refusals and failed reconnections came before, once the *)
(* broker accepts connections and none breaks any more, the MQTT client is  *)
(* connected and subscribed for good, unless it is stopped: no state of     *)
(* MqttConnStates is one in which it stops trying.                         *)
MqttRecovers ==
    <>[](/\ ~exited /\ initialized
         /\ broker = "up" /\ link # "broken") => <>[](conn_state = "CONNECTED")
=============================================================================
