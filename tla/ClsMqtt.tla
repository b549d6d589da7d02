------------------------------ MODULE ClsMqtt -------------------------------
(***************************************************************************)
(* The MQTT client: the thread of ClsMqtt::doIt, which calls the loop() of  *)
(* the mosquitto library, reconnects and subscribes, the callbacks that     *)
(* loop() makes in the same thread, and the operations by which main starts *)
(* and stops it.                                                           *)
(*                                                                         *)
(* The library and the broker are external: the connection is one variable, *)
(* from the CONNECT packet to the acknowledged subscription.               *)
(***************************************************************************)
EXTENDS Naturals

VARIABLES
    conn_state,               \* MqttConnStates
    mqtt_thread,              \* where the thread is, and the last loop_ret
    initialized,              \* ClsMqtt::initialized
    terminate_mqtt_service,
    mqtt_cancelled,           \* pthread_cancel has been called
    link,                     \* the connection, see Links
    broker                    \* what the broker does with connections

mqttVars == <<conn_state, mqtt_thread, initialized, terminate_mqtt_service,
              mqtt_cancelled, link, broker>>

ConnStates == {"OPEN", "WAITING_CONN_ACK", "ERROR_ON_RECONNECT", "ON_CONNECTED",
               "SUBSCRIBE_1_SENT", "CONNECTED", "DISCONNECTED"}

(* No socket; CONNECT sent; CONNACK or a refusal come back; acknowledged;   *)
(* SUBSCRIBE sent; SUBACK comes back; subscribed; the other end is gone.   *)
Links == {"down", "connect", "connack", "refused", "open", "subscribe", "suback",
          "subscribed", "broken"}

Success == "MOSQ_ERR_SUCCESS"
LinkErrors == {"MOSQ_ERR_NO_CONN", "MOSQ_ERR_CONN_REFUSED", "MOSQ_ERR_CONN_LOST"}
LoopRets == {Success, "MOSQ_ERR_ERRNO"} \cup LinkErrors

MqttTypeOK ==
    /\ conn_state \in ConnStates
    /\ mqtt_thread \in [pc : {"none", "connect", "loop", "after", "ended"},
                        loop_ret : LoopRets]
    /\ {initialized, terminate_mqtt_service, mqtt_cancelled} \subseteq BOOLEAN
    /\ link \in Links
    /\ broker \in {"up", "refusing", "down"}

MqttInit ==
    /\ conn_state = "OPEN"
    /\ mqtt_thread = [pc |-> "none", loop_ret |-> Success]
    /\ initialized = FALSE
    /\ terminate_mqtt_service = FALSE
    /\ mqtt_cancelled = FALSE
    /\ link = "down"
    /\ broker \in {"up", "down"}

-----------------------------------------------------------------------------
(* Called by main *)

doInitMqtt ==
    IF initialized
    THEN UNCHANGED mqttVars
    ELSE /\ mqtt_thread' = [mqtt_thread EXCEPT !.pc = "connect"]
         /\ initialized' = TRUE
         /\ UNCHANGED <<conn_state, terminate_mqtt_service, mqtt_cancelled, link, broker>>

stopMqtt ==
    IF initialized
    THEN /\ terminate_mqtt_service' = TRUE
         /\ mqtt_cancelled' = TRUE
         /\ initialized' = FALSE
         /\ UNCHANGED <<conn_state, mqtt_thread, link, broker>>
    ELSE UNCHANGED mqttVars

-----------------------------------------------------------------------------
(* The thread *)

(* A TCP connection is made and CONNECT is sent, or not.                    *)
Dialled == IF broker = "down" THEN "down" ELSE "connect"

(* The result of mqtt_connect is not looked at: loop() will tell.           *)
Connect ==
    /\ mqtt_thread.pc = "connect"
    /\ conn_state' = "WAITING_CONN_ACK"
    /\ link' = Dialled
    /\ terminate_mqtt_service' = FALSE
    /\ mqtt_thread' = [mqtt_thread EXCEPT !.pc = "loop"]
    /\ UNCHANGED <<initialized, mqtt_cancelled, broker>>

Returns(ret) ==
    mqtt_thread' = [pc |-> "after", loop_ret |-> ret]

(* OnDisconnect.                                                            *)
StateKept == UNCHANGED conn_state                                   \* mutant
OnDisconnect == conn_state' = "DISCONNECTED"

(* loop() with the callbacks it makes.  A refusal is reported to OnConnect  *)
(* first (UNKNOWN) and to OnDisconnect then; a connection that is given up  *)
(* because no PINGRESP came may be reported without an error.              *)
Loop ==
    /\ mqtt_thread.pc = "loop"
    /\ ~terminate_mqtt_service
    /\ \/ /\ link = "down"
          /\ Returns("MOSQ_ERR_NO_CONN")
          /\ UNCHANGED <<link, conn_state>>
       \/ /\ link = "connack"
          /\ link' = "open"
          /\ conn_state' = "ON_CONNECTED"              \* OnConnect(0)
          /\ Returns(Success)
       \/ /\ link = "suback"
          /\ link' = "subscribed"
          /\ conn_state' = "CONNECTED"                 \* OnSubscribe
          /\ Returns(Success)
       \/ /\ link = "refused"
          /\ link' = "down"
          /\ OnDisconnect
          /\ Returns("MOSQ_ERR_CONN_REFUSED")
       \/ /\ link = "broken"
          /\ link' = "down"
          /\ OnDisconnect
          /\ \E ret \in {"MOSQ_ERR_CONN_LOST", "MOSQ_ERR_ERRNO", Success} : Returns(ret)
       \/ /\ link \in {"connect", "open", "subscribe", "subscribed"}
          /\ Returns(Success)
          /\ UNCHANGED <<link, conn_state>>
    /\ UNCHANGED <<initialized, terminate_mqtt_service, mqtt_cancelled, broker>>

Reconnects == mqtt_thread.loop_ret # Success /\ conn_state = "DISCONNECTED"

Reconnected ==
    IF ~Reconnects THEN conn_state
    ELSE IF broker = "down" THEN "ERROR_ON_RECONNECT"
    ELSE "WAITING_CONN_ACK"

(* The error that loop() returned decides, also after a reconnect() that    *)
(* succeeded.                                                              *)
StateOfReconnect == Reconnected                                     \* mutant
StateAfterLoop ==
    IF mqtt_thread.loop_ret \in LinkErrors THEN "DISCONNECTED" ELSE Reconnected

(* The rest of the pass: reconnect() after an error, and subscribe() once   *)
(* connected.  A subscribe() that fails is tried again at the next pass.   *)
AfterLoop ==
    /\ mqtt_thread.pc = "after"
    /\ mqtt_thread' = [mqtt_thread EXCEPT !.pc = "loop"]
    /\ IF StateAfterLoop # "ON_CONNECTED"
       THEN /\ conn_state' = StateAfterLoop
            /\ link' = IF Reconnects THEN Dialled ELSE link
       ELSE \/ /\ link = "open"
               /\ link' = "subscribe"
               /\ conn_state' = "SUBSCRIBE_1_SENT"
            \/ /\ link = "broken"
               /\ conn_state' \in {"SUBSCRIBE_1_SENT", "ON_CONNECTED"}
               /\ UNCHANGED link
    /\ UNCHANGED <<initialized, terminate_mqtt_service, mqtt_cancelled, broker>>

(* The thread sees the flag, or is cancelled where it sleeps or waits.       *)
EndMqtt ==
    \/ /\ mqtt_thread.pc = "loop"
       /\ terminate_mqtt_service
       /\ mqtt_thread' = [mqtt_thread EXCEPT !.pc = "ended"]
       /\ initialized' = FALSE
       /\ link' = "down"
       /\ UNCHANGED <<conn_state, terminate_mqtt_service, mqtt_cancelled, broker>>
    \/ /\ mqtt_cancelled
       /\ mqtt_thread.pc \in {"connect", "loop", "after"}
       /\ mqtt_thread' = [mqtt_thread EXCEPT !.pc = "ended"]
       /\ UNCHANGED <<conn_state, initialized, terminate_mqtt_service, mqtt_cancelled,
                      link, broker>>

-----------------------------------------------------------------------------
(* The broker and the network (external) *)

BrokerAnswers ==
    /\ \/ link = "connect" /\ broker = "up" /\ link' = "connack"
       \/ link = "connect" /\ broker = "refusing" /\ link' = "refused"
       \/ link = "subscribe" /\ broker # "down" /\ link' = "suback"
    /\ UNCHANGED <<conn_state, mqtt_thread, initialized, terminate_mqtt_service,
                   mqtt_cancelled, broker>>

LinkBreaks ==
    /\ link \notin {"down", "broken"}
    /\ link' = "broken"
    /\ UNCHANGED <<conn_state, mqtt_thread, initialized, terminate_mqtt_service,
                   mqtt_cancelled, broker>>

BrokerChanges ==
    /\ broker' \in {"up", "refusing", "down"} \ {broker}
    /\ link' = IF broker' = "down" /\ link # "down" THEN "broken" ELSE link
    /\ UNCHANGED <<conn_state, mqtt_thread, initialized, terminate_mqtt_service,
                   mqtt_cancelled>>

Network == BrokerAnswers \/ LinkBreaks \/ BrokerChanges

-----------------------------------------------------------------------------
(* Properties *)

(* conn_state = CONNECTED means that the subscription of this connection    *)
(* was acknowledged, until the library notices that the connection is gone: *)
(* no reconnection, refusal or late packet leaves the state behind.        *)
SubscribedWhenConnected ==
    mqtt_thread.pc # "ended" /\ conn_state = "CONNECTED" =>
        link \in {"subscribed", "broken"}

=============================================================================
