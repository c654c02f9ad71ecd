----------------------------- MODULE MqttSession -----------------------------
(***************************************************************************)
(* The dongle's session with the cloud (mqtt_app.c): mqtt_task starts an   *)
(* MQTT client, the client's own task runs mqtt_event_handler, and the     *)
(* Unit task subscribes as well, when the link to the unit is up and the   *)
(* topics can be named.  They share the globals client, is_mqtt_ready and  *)
(* s_subscribe_counter.  What an event does to the EEPROM image is in      *)
(* UnitComm, the updates it creates are in UnitFirmware.                   *)
(*                                                                         *)
(* External: Wi-Fi, the MQTT library, whose clients reconnect by           *)
(* themselves, and the broker, which closes an older connection of the     *)
(* same client id: all clients of a dongle have the same.                  *)
(***************************************************************************)
EXTENDS Naturals, FiniteSets

CONSTANTS
  MaxRequests,     \* Wi-Fi requests mqtt_task applies: each may start a client
  MaxDrops,        \* times the connection is lost
  MaxAsks          \* requests of an app

ASSUME SessionAssumption == MaxRequests \in Nat /\ MaxDrops \in Nat /\ MaxAsks \in Nat

Clients == 1 .. MaxRequests
None    == 0
Topics  == {"app/eeprom", "app/request"}

VARIABLES
  client, is_mqtt_ready, s_subscribe_counter,
  named,           \* is SerialString, from which the topics are built, there?
  unit,            \* where the Unit task is
  handler,         \* where each client's task is in mqtt_event_handler
  conn,            \* per client: "none", "away", "up", or "broken" and not yet noticed
  subscribed,      \* per client: the topics the broker sends it
  acks,            \* ... the SUBACKs on their way to it
  inbox,           \* ... the app requests on their way to it
  online,          \* is Wi-Fi up?
  applied, drops, asked, answered

sharedVars == <<client, is_mqtt_ready, s_subscribe_counter>>
brokerVars == <<conn, subscribed, acks, inbox>>
worldVars  == <<online, applied, drops, asked>>
vars == <<sharedVars, named, unit, handler, brokerVars, worldVars, answered>>

Init ==
  /\ client = None /\ is_mqtt_ready = FALSE /\ s_subscribe_counter = 0
  /\ named = FALSE /\ unit = "linking" /\ handler = [c \in Clients |-> "idle"]
  /\ conn = [c \in Clients |-> "none"] /\ subscribed = [c \in Clients |-> {}]
  /\ acks = [c \in Clients |-> 0] /\ inbox = [c \in Clients |-> 0]
  /\ online = FALSE /\ applied = 0 /\ drops = 0 /\ asked = 0 /\ answered = 0

At(c, from, to) == handler[c] = from /\ handler' = [handler EXCEPT ![c] = to]

-----------------------------------------------------------------------------
(* mqtt_task                                                                *)

\* apply_wifi_request has returned ESP_OK: unless the session is ready
\* mqtt_app_start makes a client, whether or not there is one.
Apply ==
  /\ applied < MaxRequests /\ applied' = applied + 1 /\ online' = TRUE
  /\ IF is_mqtt_ready THEN UNCHANGED <<client, conn>>
     ELSE client' = applied' /\ conn' = [conn EXCEPT ![applied'] = "away"]
  /\ UNCHANGED <<is_mqtt_ready, s_subscribe_counter, named, unit, handler, subscribed, acks,
                 inbox, drops, asked, answered>>

-----------------------------------------------------------------------------
(* mqtt_subscribe_app_topics                                                *)

\* esp_mqtt_client_subscribe on the global client: without a connection it
\* does nothing.
Subscribe(topic) ==
  IF client # None /\ conn[client] = "up"
  THEN /\ subscribed' = [subscribed EXCEPT ![client] = @ \cup {topic}]
       /\ acks' = [acks EXCEPT ![client] = @ + 1]
  ELSE UNCHANGED <<subscribed, acks>>

SubscribeFrame == UNCHANGED <<sharedVars, named, conn, inbox, worldVars, answered>>

-----------------------------------------------------------------------------
(* mqtt_event_handler, in the task of client c                              *)

HandlerFrame == UNCHANGED <<named, unit, worldVars>>

\* The connection is made, and the broker closes the other one.
Connects(c) ==
  /\ conn[c] = "away" /\ online /\ At(c, "idle", "connected")
  /\ conn' = [d \in Clients |-> IF d = c THEN "up"
                                ELSE IF conn[d] = "up" THEN "broken" ELSE conn[d]]
  /\ subscribed' = [d \in Clients |-> {}] /\ acks' = [d \in Clients |-> 0]
  /\ inbox' = [d \in Clients |-> 0]
  /\ HandlerFrame /\ UNCHANGED <<sharedVars, answered>>

\* MQTT_EVENT_CONNECTED: client is set, and the topics are subscribed one
\* after the other, if they can be named.
Connected(c) ==
  /\ At(c, "connected", IF named THEN "subscribing" ELSE "idle") /\ client' = c
  /\ HandlerFrame /\ UNCHANGED <<is_mqtt_ready, s_subscribe_counter, brokerVars, answered>>
SubscribesFirst(c) ==
  /\ At(c, "subscribing", "subscribing_more") /\ Subscribe("app/eeprom")
  /\ SubscribeFrame /\ UNCHANGED unit
SubscribesSecond(c) ==
  /\ At(c, "subscribing_more", "idle") /\ Subscribe("app/request")
  /\ SubscribeFrame /\ UNCHANGED unit

\* The client finds its connection lost: MQTT_EVENT_DISCONNECTED.
Drops(c) ==
  /\ conn[c] = "broken" /\ conn' = [conn EXCEPT ![c] = "away"]
  /\ At(c, "idle", "disconnected")
  /\ HandlerFrame /\ UNCHANGED <<sharedVars, subscribed, acks, inbox, answered>>

\* Or it could not connect, which is the same event.
Fails(c) ==
  /\ conn[c] = "away" /\ ~online /\ At(c, "idle", "disconnected")
  /\ HandlerFrame /\ UNCHANGED <<sharedVars, brokerVars, answered>>

\* Faulty variant: the session stays ready.
DisconnectedKeeping(c) ==
  /\ At(c, "disconnected", "idle") /\ client' = c /\ s_subscribe_counter' = 0
  /\ HandlerFrame /\ UNCHANGED <<is_mqtt_ready, brokerVars, answered>>

Disconnected(c) ==
  /\ At(c, "disconnected", "idle") /\ client' = c
  /\ is_mqtt_ready' = FALSE /\ s_subscribe_counter' = 0
  /\ HandlerFrame /\ UNCHANGED <<brokerVars, answered>>

\* A SUBACK comes.
Acked(c, to) ==
  /\ conn[c] = "up" /\ acks[c] > 0 /\ acks' = [acks EXCEPT ![c] = @ - 1]
  /\ At(c, "idle", to) /\ client' = c
  /\ HandlerFrame /\ UNCHANGED <<conn, subscribed, inbox, answered>>

\* Faulty variant: one subscription too many is waited for.
SubscribedLate(c) ==
  IF s_subscribe_counter = 2
  THEN Acked(c, "idle") /\ is_mqtt_ready' = TRUE /\ s_subscribe_counter' = 0
  ELSE Acked(c, "counting") /\ UNCHANGED <<is_mqtt_ready, s_subscribe_counter>>

\* MQTT_EVENT_SUBSCRIBED: the second one makes the session ready, any other
\* is counted.
Subscribed(c) ==
  IF s_subscribe_counter = 1
  THEN Acked(c, "idle") /\ is_mqtt_ready' = TRUE /\ s_subscribe_counter' = 0
  ELSE Acked(c, "counting") /\ UNCHANGED <<is_mqtt_ready, s_subscribe_counter>>
Counts(c) ==
  /\ At(c, "counting", "idle") /\ s_subscribe_counter' = (s_subscribe_counter + 1) % 256
  /\ HandlerFrame /\ UNCHANGED <<client, is_mqtt_ready, brokerVars, answered>>

\* Faulty variant: a request is answered by the Unit task's next poll, if at
\* all.
RequestedUnanswered(c) ==
  /\ conn[c] = "up" /\ inbox[c] > 0 /\ inbox' = [inbox EXCEPT ![c] = @ - 1]
  /\ handler[c] = "idle" /\ client' = c
  /\ HandlerFrame
  /\ UNCHANGED <<is_mqtt_ready, s_subscribe_counter, handler, conn, subscribed, acks, answered>>

\* Faulty variant: the same request is answered again and again.
RequestedAgain(c) ==
  /\ conn[c] = "up" /\ inbox[c] > 0 /\ UNCHANGED inbox
  /\ handler[c] = "idle" /\ client' = c
  /\ answered' = IF is_mqtt_ready THEN answered + 1 ELSE answered
  /\ HandlerFrame
  /\ UNCHANGED <<is_mqtt_ready, s_subscribe_counter, handler, conn, subscribed, acks>>

\* MQTT_EVENT_DATA on app/request: the image is published, if the session is
\* ready.
Requested(c) ==
  /\ conn[c] = "up" /\ inbox[c] > 0 /\ inbox' = [inbox EXCEPT ![c] = @ - 1]
  /\ handler[c] = "idle" /\ client' = c
  /\ answered' = IF is_mqtt_ready THEN answered + 1 ELSE answered
  /\ HandlerFrame
  /\ UNCHANGED <<is_mqtt_ready, s_subscribe_counter, handler, conn, subscribed, acks>>

ClientTask(c) ==
  \/ Connects(c) \/ Connected(c) \/ SubscribesFirst(c) \/ SubscribesSecond(c) \/ Drops(c)
  \/ Disconnected(c) \/ Subscribed(c) \/ Counts(c) \/ Requested(c)

-----------------------------------------------------------------------------
(* The Unit task                                                            *)

UnitMoves(from, to) == unit = from /\ unit' = to

\* The Info section has been read: the serial number is in the image.
ReadsInfo ==
  /\ ~named /\ named' = TRUE
  /\ UNCHANGED <<sharedVars, unit, handler, brokerVars, worldVars, answered>>

\* CLKTSConnectState_Connected: the two subscriptions.
EntersConnected ==
  /\ UnitMoves("linking", "entering") /\ named /\ Subscribe("app/eeprom")
  /\ SubscribeFrame /\ UNCHANGED handler
Enters ==
  /\ UnitMoves("entering", "connected") /\ Subscribe("app/request")
  /\ SubscribeFrame /\ UNCHANGED handler

UnitTask == ReadsInfo \/ EntersConnected \/ Enters

-----------------------------------------------------------------------------
(* Environment                                                              *)

Breaks ==
  /\ conn' = [c \in Clients |-> IF conn[c] = "up" THEN "broken" ELSE conn[c]]
  /\ subscribed' = [c \in Clients |-> {}] /\ acks' = [c \in Clients |-> 0]
  /\ inbox' = [c \in Clients |-> 0]
  /\ UNCHANGED <<sharedVars, named, unit, handler, applied, asked, answered>>

\* The connection is lost, alone or with Wi-Fi.
Lost ==
  /\ drops < MaxDrops /\ drops' = drops + 1 /\ Breaks /\ online' \in {online, FALSE}

\* The station reconnects.
WifiReturns ==
  /\ ~online /\ applied > 0 /\ online' = TRUE
  /\ UNCHANGED <<sharedVars, named, unit, handler, brokerVars, applied, drops, asked, answered>>

\* An app publishes a request: who is subscribed gets it.
Asks ==
  /\ asked < MaxAsks /\ asked' = asked + 1
  /\ inbox' = [c \in Clients |-> IF conn[c] = "up" /\ "app/request" \in subscribed[c]
                                 THEN inbox[c] + 1 ELSE inbox[c]]
  /\ UNCHANGED <<sharedVars, named, unit, handler, conn, subscribed, acks, online, applied,
                 drops, answered>>

Next == \/ Apply \/ UnitTask \/ Lost \/ WifiReturns \/ Asks
        \/ \E c \in Clients : ClientTask(c) \/ Fails(c)

\* The boot's request is applied in the end and the link comes up, as the
\* other modules show; Wi-Fi returns, and every client's task runs.
Spec == /\ Init /\ [][Next]_vars
        /\ WF_vars(applied = 0 /\ Apply) /\ WF_vars(UnitTask) /\ WF_vars(WifiReturns)
        /\ \A c \in Clients : WF_vars(ClientTask(c))

-----------------------------------------------------------------------------
(* Properties                                                               *)

\* Every variable keeps its range; the counter passes 1 when the tasks of two
\* clients count at the same time (mqtt_app.c 184-193).
TypeOK ==
  /\ client \in Clients \cup {None} /\ is_mqtt_ready \in BOOLEAN
  /\ s_subscribe_counter \in 0 .. 255
  /\ named \in BOOLEAN /\ unit \in {"linking", "entering", "connected"}
  /\ handler \in [Clients -> {"idle", "connected", "subscribing", "subscribing_more",
                              "disconnected", "counting"}]
  /\ conn \in [Clients -> {"none", "away", "up", "broken"}]
  /\ subscribed \in [Clients -> SUBSET Topics]
  /\ acks \in [Clients -> 0 .. 2 * (MaxRequests + 1)] /\ inbox \in [Clients -> 0 .. MaxAsks]
  /\ online \in BOOLEAN /\ applied \in 0 .. MaxRequests /\ drops \in 0 .. MaxDrops
  /\ asked \in 0 .. MaxAsks /\ answered \in 0 .. asked

Started == {c \in Clients : conn[c] # "none"}
OneClient == Cardinality(Started) <= 1

Heard(c) == conn[c] = "up" /\ subscribed[c] = Topics
Busy == unit = "entering" \/ \E c \in Clients : handler[c] # "idle"

\* Two SUBACKs stand for the two topics, also when handler and Unit task
\* have both subscribed and a connection broke in between: with one client a
\* ready session gets what the apps send, but for the moment in which a
\* subscription is under way or a lost connection is not yet noticed
\* (mqtt_app.c 178-193, unit_comm.c 590).
ReadyIsHeard ==
  OneClient /\ is_mqtt_ready /\ ~Busy => \E c \in Started : Heard(c) \/ conn[c] = "broken"

\* With one client the session is ready in the end and stays so, in
\* whichever order Wi-Fi, broker and unit come up, and whatever was lost
\* before (mqtt_app.c 163-260, unit_comm.c 590).
CloudComesUp ==
  []OneClient => <>[](is_mqtt_ready /\ \E c \in Started : Heard(c))

\* A request that reaches a ready dongle is answered, unless the connection
\* is lost meanwhile or a second client takes it over (mqtt_app.c 219-227).
RequestIsAnswered ==
  \A n \in 0 .. MaxAsks - 1 :
    (OneClient /\ is_mqtt_ready /\ ~Busy /\ (\E c \in Started : inbox[c] > 0) /\ answered = n)
      ~> (answered > n \/ ~OneClient \/ ~is_mqtt_ready \/ \E c \in Clients : conn[c] = "broken")
=============================================================================
