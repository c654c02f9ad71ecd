------------------------- MODULE MqttSession_proofs -------------------------
(***************************************************************************)
(* Theorems about MqttSession, for every value of its constants.           *)
(***************************************************************************)
EXTENDS MqttSession, FiniteSetTheorems, TLAPS

\* The shapes TypeOK gives the variables that subscribing depends on, without
\* the bounds of the counts.
Shapes ==
  /\ client \in Clients \cup {None} /\ is_mqtt_ready \in BOOLEAN
  /\ s_subscribe_counter \in Nat
  /\ named \in BOOLEAN /\ unit \in {"linking", "entering", "connected"}
  /\ handler \in [Clients -> {"idle", "connected", "subscribing", "subscribing_more",
                              "disconnected", "counting"}]
  /\ conn \in [Clients -> {"none", "away", "up", "broken"}]
  /\ subscribed \in [Clients -> SUBSET Topics]
  /\ acks \in [Clients -> Nat] /\ applied \in Nat

\* Nothing runs for a client that was not started, and what is not named is
\* not subscribed by the Unit task.
Beginning ==
  /\ \A d \in Clients : d > applied => conn[d] = "none"
  /\ \A d \in Clients : conn[d] = "none" => handler[d] = "idle"
  /\ (\A d \in Clients : conn[d] = "none") => ~is_mqtt_ready /\ s_subscribe_counter = 0
  /\ unit # "linking" => named

Alone(c) == conn[c] # "none" /\ \A d \in Clients \ {c} : conn[d] = "none"

\* While a client has no connection nothing counts towards a ready session.
LostIsForgotten(c) ==
  /\ client = c
  /\ conn[c] = "away" => handler[c] \in {"idle", "disconnected"}
  /\ conn[c] = "away" /\ handler[c] = "idle" => ~is_mqtt_ready /\ s_subscribe_counter = 0
  /\ handler[c] = "disconnected" => conn[c] = "away"

\* A SUBACK that came, or is on its way, belongs to this connection; and as
\* long as one topic is missing somebody is about to subscribe it.
AcksAreHonest(c) ==
  conn[c] = "up" =>
    /\ is_mqtt_ready \/ s_subscribe_counter > 0 \/ acks[c] > 0 \/ handler[c] = "counting"
         => subscribed[c] # {}
    /\ subscribed[c] # {} =>
         \/ Heard(c) \/ unit = "entering" \/ (handler[c] = "connected" /\ named)
         \/ handler[c] \in {"subscribing", "subscribing_more"}
    /\ handler[c] = "subscribing_more" => "app/eeprom" \in subscribed[c]
    /\ unit = "entering" =>
         "app/eeprom" \in subscribed[c] \/ handler[c] \in {"connected", "subscribing"}

SessionInv ==
  /\ Shapes /\ Beginning
  /\ \A c \in Clients : Alone(c) => LostIsForgotten(c) /\ AcksAreHonest(c)

-----------------------------------------------------------------------------
(* The invariant holds initially and is kept                                *)

LEMMA SessionInit == Init => SessionInv
<1> SUFFICES ASSUME Init PROVE SessionInv
  OBVIOUS
<1>1. Shapes
  BY DEF Init, Shapes, Topics
<1>2. Beginning
  BY DEF Init, Beginning
<1>3. \A c \in Clients : ~Alone(c)
  BY DEF Init, Alone
<1> QED BY <1>1, <1>2, <1>3 DEF SessionInv

\* Subscribing and the next SUBACK keep the shapes.
LEMMA SubscribeShape ==
  ASSUME Shapes, NEW t \in Topics, Subscribe(t)
  PROVE  subscribed' \in [Clients -> SUBSET Topics] /\ acks' \in [Clients -> Nat]
<1>1. /\ client \in Clients \cup {None} /\ subscribed \in [Clients -> SUBSET Topics]
      /\ acks \in [Clients -> Nat]
  BY DEF Shapes
<1> QED BY <1>1 DEF Subscribe

\* Each client started is one the Wi-Fi requests allow for.
LEMMA AppliedType ==
  ASSUME Shapes, Apply
  PROVE  applied' \in Clients /\ applied' = applied + 1 /\ applied' \in Nat
<1>1. applied \in Nat
  BY DEF Shapes
<1> QED BY <1>1, SessionAssumption DEF Apply, Clients

LEMMA ShapesStep ==
  ASSUME Shapes, Next
  PROVE  Shapes'
<1> USE DEF sharedVars, brokerVars, worldVars, At, HandlerFrame, SubscribeFrame, UnitMoves
<1>1. CASE Apply
  <2>1. applied' \in Clients /\ applied' \in Nat
    BY <1>1, AppliedType
  <2>2. conn' \in [Clients -> {"none", "away", "up", "broken"}]
    BY <1>1, <2>1 DEF Apply, Shapes
  <2> QED BY <1>1, <2>1, <2>2 DEF Apply, Shapes
<1>2. CASE UnitTask
  <2>1. subscribed' \in [Clients -> SUBSET Topics] /\ acks' \in [Clients -> Nat]
    <3>1. {"app/eeprom", "app/request"} \subseteq Topics
      BY DEF Topics
    <3>2. CASE ReadsInfo
      BY <3>2 DEF ReadsInfo, Shapes
    <3>3. CASE EntersConnected
      BY <3>1, <3>3, SubscribeShape DEF EntersConnected
    <3>4. CASE Enters
      BY <3>1, <3>4, SubscribeShape DEF Enters
    <3> QED BY <1>2, <3>2, <3>3, <3>4 DEF UnitTask
  <2> QED BY <1>2, <2>1 DEF UnitTask, ReadsInfo, EntersConnected, Enters, Shapes
<1>3. CASE Lost
  BY <1>3 DEF Lost, Breaks, Shapes
<1>4. CASE WifiReturns
  BY <1>4 DEF WifiReturns, Shapes
<1>5. CASE Asks
  BY <1>5 DEF Asks, Shapes
<1>6. ASSUME NEW c \in Clients, ClientTask(c) \/ Fails(c)
      PROVE  Shapes'
  <2> USE DEF Shapes
  <2>1. CASE Connects(c)
    BY <2>1 DEF Connects
  <2>2. CASE Connected(c)
    BY <2>2 DEF Connected
  <2>3. CASE SubscribesFirst(c)
    <3>1. subscribed' \in [Clients -> SUBSET Topics] /\ acks' \in [Clients -> Nat]
      BY <2>3, SubscribeShape DEF SubscribesFirst, Topics
    <3> QED BY <2>3, <3>1 DEF SubscribesFirst
  <2>4. CASE SubscribesSecond(c)
    <3>1. subscribed' \in [Clients -> SUBSET Topics] /\ acks' \in [Clients -> Nat]
      BY <2>4, SubscribeShape DEF SubscribesSecond, Topics
    <3> QED BY <2>4, <3>1 DEF SubscribesSecond
  <2>5. CASE Drops(c)
    BY <2>5 DEF Drops
  <2>6. CASE Disconnected(c)
    BY <2>6 DEF Disconnected
  <2>7. CASE Subscribed(c)
    <3>1. PICK to \in {"idle", "counting"} : Acked(c, to)
      BY <2>7 DEF Subscribed
    <3>2. acks' = [acks EXCEPT ![c] = acks[c] - 1] /\ acks[c] - 1 \in Nat
      BY <3>1 DEF Acked
    <3>3. acks' \in [Clients -> Nat] /\ handler' \in [Clients -> {"idle", "connected", "subscribing",
             "subscribing_more", "disconnected", "counting"}]
      BY <3>1, <3>2 DEF Acked
    <3>4. is_mqtt_ready' \in BOOLEAN /\ s_subscribe_counter' \in Nat
      <4>1. \/ is_mqtt_ready' = TRUE /\ s_subscribe_counter' = 0
            \/ UNCHANGED <<is_mqtt_ready, s_subscribe_counter>>
        BY <2>7, Zenon DEF Subscribed
      <4>2. is_mqtt_ready' \in BOOLEAN
        BY <4>1, Zenon
      <4>3. s_subscribe_counter' \in Nat
        BY <4>1
      <4> QED BY <4>2, <4>3
    <3>5. client' = c /\ UNCHANGED <<named, unit, conn, subscribed, applied>>
      BY <3>1 DEF Acked
    <3> QED BY <3>3, <3>4, <3>5
  <2>8. CASE Counts(c)
    BY <2>8 DEF Counts
  <2>9. CASE Requested(c)
    BY <2>9 DEF Requested
  <2>10. CASE Fails(c)
    BY <2>10 DEF Fails
  <2> QED BY <1>6, <2>1, <2>2, <2>3, <2>4, <2>5, <2>6, <2>7, <2>8, <2>9, <2>10 DEF ClientTask
<1> QED BY <1>1, <1>2, <1>3, <1>4, <1>5, <1>6 DEF Next

\* A client that was not started takes no step; a started one stays started.
LEMMA OnlyStartedActs ==
  ASSUME Shapes, Beginning, NEW d \in Clients, conn[d] = "none"
  PROVE  ~ClientTask(d) /\ ~Fails(d)
<1>1. handler[d] = "idle"
  BY DEF Beginning
<1> QED
  BY <1>1 DEF ClientTask, Connects, Connected, SubscribesFirst, SubscribesSecond, Drops,
              Disconnected, Subscribed, Acked, Counts, Requested, Fails, At

LEMMA StartedStays ==
  ASSUME Shapes, Beginning, Next
  PROVE  \A d \in Clients : conn'[d] = "none" <=> conn[d] = "none" /\ ~(Apply /\ d = applied' /\ ~is_mqtt_ready)
<1> TAKE d \in Clients
<1> USE DEF Shapes, sharedVars, brokerVars, worldVars, HandlerFrame, SubscribeFrame
<1>1. CASE Apply
  BY <1>1 DEF Apply
<1>2. CASE ~Apply
  <2>1. CASE UnitTask \/ WifiReturns \/ Asks
    BY <1>2, <2>1 DEF UnitTask, ReadsInfo, EntersConnected, Enters, WifiReturns, Asks
  <2>2. CASE Lost
    BY <1>2, <2>2 DEF Lost, Breaks
  <2>3. ASSUME NEW c \in Clients, ClientTask(c) \/ Fails(c)
        PROVE  conn'[d] = "none" <=> conn[d] = "none"
    <3>1. conn[c] # "none"
      BY <2>3, OnlyStartedActs
    <3>2. CASE Connects(c)
      BY <3>1, <3>2 DEF Connects
    <3>3. CASE Drops(c)
      BY <3>1, <3>3 DEF Drops
    <3>4. CASE ~Connects(c) /\ ~Drops(c)
      BY <2>3, <3>4 DEF ClientTask, Connected, SubscribesFirst, SubscribesSecond,
                        Disconnected, Subscribed, Acked, Counts, Requested, Fails
    <3> QED BY <3>2, <3>3, <3>4
  <2> QED BY <1>2, <2>1, <2>2, <2>3 DEF Next
<1> QED BY <1>1, <1>2

LEMMA BeginningStep ==
  ASSUME Shapes, Beginning, Next
  PROVE  Beginning'
<1> USE DEF sharedVars, brokerVars, worldVars, HandlerFrame, SubscribeFrame, UnitMoves
<1>0. Apply => applied' = applied + 1 /\ applied' \in Nat
  BY AppliedType
<1>1. applied \in Nat /\ (~Apply => applied' = applied)
  BY DEF Next, UnitTask, ReadsInfo, EntersConnected, Enters, Lost, Breaks, WifiReturns,
         Asks, ClientTask, Connects, Connected, SubscribesFirst, SubscribesSecond, Drops,
         Disconnected, Subscribed, Acked, Counts, Requested, Fails, Shapes
<1>2. \A d \in Clients : d > applied' => conn'[d] = "none"
  <2> SUFFICES ASSUME NEW d \in Clients, d > applied' PROVE conn'[d] = "none"
    OBVIOUS
  <2>1. d \in Nat
    BY DEF Clients
  <2>2. d > applied /\ (Apply => d # applied')
    BY <1>0, <1>1, <2>1
  <2> QED BY <2>2, StartedStays DEF Beginning
<1>3. \A d \in Clients : conn'[d] = "none" => handler'[d] = "idle"
  <2> SUFFICES ASSUME NEW d \in Clients, conn'[d] = "none" PROVE handler'[d] = "idle"
    OBVIOUS
  <2>1. conn[d] = "none" /\ handler[d] = "idle"
    BY StartedStays DEF Beginning
  <2>2. ASSUME NEW c \in Clients, ClientTask(c) \/ Fails(c) PROVE handler'[d] = handler[d]
    <3>1. c # d
      BY <2>1, <2>2, OnlyStartedActs
    <3> QED
      BY <2>2, <3>1 DEF ClientTask, Connects, Connected, SubscribesFirst, SubscribesSecond,
             Drops, Disconnected, Subscribed, Acked, Counts, Requested, Fails, At, Shapes
  <2>3. CASE Apply \/ UnitTask \/ Lost \/ WifiReturns \/ Asks
    BY <2>1, <2>3 DEF Apply, UnitTask, ReadsInfo, EntersConnected, Enters, Lost, Breaks,
                      WifiReturns, Asks
  <2> QED BY <2>1, <2>2, <2>3 DEF Next
<1>4. ASSUME \A d \in Clients : conn'[d] = "none"
      PROVE  ~is_mqtt_ready' /\ s_subscribe_counter' = 0
  <2>1. \A d \in Clients : conn[d] = "none"
    BY <1>4, StartedStays
  <2>2. ~is_mqtt_ready /\ s_subscribe_counter = 0
    BY <2>1 DEF Beginning
  <2>3. \A d \in Clients : ~ClientTask(d) /\ ~Fails(d)
    BY <2>1, OnlyStartedActs
  <2>4. UNCHANGED <<is_mqtt_ready, s_subscribe_counter>>
    BY <2>3 DEF Next, Apply, UnitTask, ReadsInfo, EntersConnected, Enters, Lost, Breaks,
                WifiReturns, Asks
  <2> QED BY <2>2, <2>4
<1>5. unit' # "linking" => named'
  <2>1. CASE UnitTask
    BY <2>1 DEF UnitTask, ReadsInfo, EntersConnected, Enters, Beginning
  <2>2. CASE ~UnitTask
    BY <2>2 DEF Next, Apply, Lost, Breaks, WifiReturns, Asks, ClientTask, Connects, Connected,
         SubscribesFirst, SubscribesSecond, Drops, Disconnected, Subscribed, Acked, Counts,
         Requested, Fails, Beginning
  <2> QED BY <2>1, <2>2
<1> QED BY <1>2, <1>3, <1>4, <1>5 DEF Beginning

\* The first client finds a session in which nothing counts.
LEMMA FirstClient ==
  ASSUME Shapes, Beginning, Next, NEW c \in Clients, ~Alone(c), Alone(c)'
  PROVE  LostIsForgotten(c)' /\ AcksAreHonest(c)'
<1>1. conn'[c] # "none" /\ \A d \in Clients \ {c} : conn'[d] = "none" /\ conn[d] = "none"
  BY StartedStays DEF Alone
<1>2. conn[c] = "none"
  BY <1>1 DEF Alone
<1>3. Apply /\ applied' = c /\ ~is_mqtt_ready
  BY <1>1, <1>2, StartedStays
<1>4. ~is_mqtt_ready /\ s_subscribe_counter = 0 /\ handler[c] = "idle"
  BY <1>1, <1>2 DEF Beginning
<1>5. /\ client' = c /\ conn'[c] = "away" /\ handler'[c] = "idle"
      /\ ~is_mqtt_ready' /\ s_subscribe_counter' = 0
  BY <1>3, <1>4 DEF Apply, Shapes
<1> QED BY <1>5 DEF LostIsForgotten, AcksAreHonest

\* While one client is alone, its steps, those of the Unit task and the
\* losses keep what makes a ready session one that is heard.
LEMMA AloneStep ==
  ASSUME Shapes, Beginning, Shapes', NEW c \in Clients, Alone(c), Alone(c)', Next,
         LostIsForgotten(c), AcksAreHonest(c)
  PROVE  LostIsForgotten(c)' /\ AcksAreHonest(c)'
<1> USE DEF sharedVars, brokerVars, worldVars, At, HandlerFrame, SubscribeFrame, UnitMoves
<1> DEFINE Kept == LostIsForgotten(c)' /\ AcksAreHonest(c)'
<1>1. client = c /\ c # None /\ conn[c] \in {"away", "up", "broken"}
  BY DEF LostIsForgotten, Alone, Shapes, Clients, None
<1>2. \A d \in Clients : d # c => ~ClientTask(d) /\ ~Fails(d)
  BY OnlyStartedActs DEF Alone
<1>3. subscribed[c] \in SUBSET Topics /\ acks[c] \in Nat /\ s_subscribe_counter \in Nat
  BY DEF Shapes
<1>4. \A t : Subscribe(t) =>
        IF conn[c] = "up"
        THEN subscribed'[c] = subscribed[c] \cup {t} /\ acks'[c] = acks[c] + 1
        ELSE subscribed'[c] = subscribed[c] /\ acks'[c] = acks[c]
  BY <1>1 DEF Subscribe, Shapes
<1>5. Topics = {"app/eeprom", "app/request"}
  BY DEF Topics
<1>10. ASSUME Apply PROVE Kept
  <2>1. is_mqtt_ready
    <3> SUFFICES ASSUME ~is_mqtt_ready PROVE FALSE
      OBVIOUS
    <3>1. applied' \in Clients /\ applied' = applied + 1 /\ applied \in Nat
      BY <1>10, AppliedType DEF Shapes
    <3>2. conn[applied'] = "none" /\ conn'[applied'] = "away"
      BY <1>10, <3>1 DEF Apply, Beginning, Shapes
    <3> QED BY <1>1, <3>1, <3>2 DEF Alone
  <2> QED BY <1>10, <2>1 DEF Apply, LostIsForgotten, AcksAreHonest, Heard
<1>11. ASSUME ReadsInfo PROVE Kept
  BY <1>11 DEF ReadsInfo, LostIsForgotten, AcksAreHonest, Heard
<1>12. ASSUME EntersConnected PROVE Kept
  <2>1. /\ unit = "linking" /\ unit' = "entering"
        /\ UNCHANGED <<client, is_mqtt_ready, s_subscribe_counter, named, handler, conn>>
    BY <1>12 DEF EntersConnected
  <2>2. LostIsForgotten(c)'
    BY <2>1 DEF LostIsForgotten
  <2>3. CASE conn[c] = "up"
    <3>1. subscribed'[c] = subscribed[c] \cup {"app/eeprom"} /\ acks'[c] = acks[c] + 1
      BY <1>4, <1>12, <2>3 DEF EntersConnected
    <3> QED BY <1>3, <2>1, <2>2, <3>1 DEF AcksAreHonest
  <2>4. CASE conn[c] # "up"
    BY <2>1, <2>2, <2>4 DEF AcksAreHonest
  <2> QED BY <2>3, <2>4
<1>13. ASSUME Enters PROVE Kept
  <2>1. /\ unit = "entering" /\ unit' = "connected" /\ named
        /\ UNCHANGED <<client, is_mqtt_ready, s_subscribe_counter, named, handler, conn>>
    BY <1>13 DEF Enters, Beginning
  <2>2. LostIsForgotten(c)'
    BY <2>1 DEF LostIsForgotten
  <2>3. CASE conn[c] = "up"
    <3>1. subscribed'[c] = subscribed[c] \cup {"app/request"} /\ acks'[c] = acks[c] + 1
      BY <1>4, <1>13, <2>3 DEF Enters
    <3>2. \/ subscribed'[c] = Topics
          \/ handler[c] \in {"connected", "subscribing"}
      BY <1>3, <1>5, <2>1, <2>3, <3>1 DEF AcksAreHonest
    <3>3. handler[c] = "subscribing_more" => "app/eeprom" \in subscribed'[c]
      BY <2>3, <3>1 DEF AcksAreHonest
    <3> QED BY <2>1, <2>2, <2>3, <3>1, <3>2, <3>3 DEF AcksAreHonest, Heard
  <2>4. CASE conn[c] # "up"
    BY <2>1, <2>2, <2>4 DEF AcksAreHonest
  <2> QED BY <2>3, <2>4
<1>14. ASSUME Lost PROVE Kept
  <2>1. conn'[c] = IF conn[c] = "up" THEN "broken" ELSE conn[c]
    BY <1>14 DEF Lost, Breaks
  <2>2. conn'[c] # "up"
    BY <2>1
  <2> QED BY <1>14, <2>1, <2>2 DEF Lost, Breaks, LostIsForgotten, AcksAreHonest
<1>15. ASSUME WifiReturns PROVE Kept
  BY <1>15 DEF WifiReturns, LostIsForgotten, AcksAreHonest, Heard
<1>16. ASSUME Asks PROVE Kept
  BY <1>16 DEF Asks, LostIsForgotten, AcksAreHonest, Heard
<1>17. ASSUME Connects(c) PROVE Kept
  <2>1. conn'[c] = "up" /\ handler'[c] = "connected" /\ subscribed'[c] = {} /\ acks'[c] = 0
    BY <1>17 DEF Connects, Shapes
  <2>2. ~is_mqtt_ready /\ s_subscribe_counter = 0
    BY <1>17 DEF Connects, LostIsForgotten
  <2> QED BY <1>17, <2>1, <2>2 DEF Connects, LostIsForgotten, AcksAreHonest
<1>18. ASSUME Connected(c) PROVE Kept
  <2>1. handler'[c] = IF named THEN "subscribing" ELSE "idle"
    BY <1>18 DEF Connected, Shapes
  <2>2. unit = "entering" => named
    BY DEF Beginning
  <2> QED BY <1>18, <2>1, <2>2 DEF Connected, LostIsForgotten, AcksAreHonest, Heard
<1>19. ASSUME SubscribesFirst(c) PROVE Kept
  <2>1. handler'[c] = "subscribing_more"
    BY <1>19 DEF SubscribesFirst, Shapes
  <2> QED BY <1>3, <1>4, <1>5, <1>19, <2>1 DEF SubscribesFirst, LostIsForgotten, AcksAreHonest, Heard
<1>20. ASSUME SubscribesSecond(c) PROVE Kept
  <2>1. handler'[c] = "idle"
    BY <1>20 DEF SubscribesSecond, Shapes
  <2> QED BY <1>3, <1>4, <1>5, <1>20, <2>1 DEF SubscribesSecond, LostIsForgotten, AcksAreHonest, Heard
<1>21. ASSUME Drops(c) PROVE Kept
  <2>1. handler'[c] = "disconnected" /\ conn'[c] = "away"
    BY <1>21 DEF Drops, Shapes
  <2> QED BY <1>21, <2>1 DEF Drops, LostIsForgotten, AcksAreHonest
<1>22. ASSUME Disconnected(c) PROVE Kept
  <2>1. handler'[c] = "idle"
    BY <1>22 DEF Disconnected, Shapes
  <2> QED BY <1>22, <2>1 DEF Disconnected, LostIsForgotten, AcksAreHonest
<1>23. ASSUME Subscribed(c) PROVE Kept
  <2>1. PICK to \in {"idle", "counting"} : Acked(c, to)
    BY <1>23 DEF Subscribed
  <2>2. /\ handler[c] = "idle" /\ handler'[c] = to /\ conn[c] = "up" /\ acks[c] > 0
        /\ client' = c /\ UNCHANGED <<conn, subscribed, unit, named>>
    BY <2>1 DEF Acked, Shapes
  <2>3. subscribed[c] # {}
    BY <2>2 DEF AcksAreHonest
  <2> QED BY <2>2, <2>3 DEF LostIsForgotten, AcksAreHonest, Heard
<1>24. ASSUME Counts(c) PROVE Kept
  <2>1. handler[c] = "counting" /\ handler'[c] = "idle"
    BY <1>24 DEF Counts, Shapes
  <2> QED BY <1>24, <2>1 DEF Counts, LostIsForgotten, AcksAreHonest, Heard
<1>25. ASSUME Requested(c) PROVE Kept
  BY <1>25 DEF Requested, LostIsForgotten, AcksAreHonest, Heard
<1>26. ASSUME Fails(c) PROVE Kept
  <2>1. handler'[c] = "disconnected" /\ conn[c] = "away"
    BY <1>26 DEF Fails, Shapes
  <2> QED BY <1>26, <2>1 DEF Fails, LostIsForgotten, AcksAreHonest
<1> QED
  BY <1>2, <1>10, <1>11, <1>12, <1>13, <1>14, <1>15, <1>16, <1>17, <1>18, <1>19, <1>20, <1>21,
     <1>22, <1>23, <1>24, <1>25, <1>26
  DEF Next, UnitTask, ClientTask

LEMMA SessionStep == SessionInv /\ [Next]_vars => SessionInv'
<1> SUFFICES ASSUME SessionInv, [Next]_vars PROVE SessionInv'
  OBVIOUS
<1>1. CASE UNCHANGED vars
  BY <1>1 DEF vars, sharedVars, brokerVars, worldVars, SessionInv, Shapes, Beginning, Alone,
              LostIsForgotten, AcksAreHonest, Heard
<1>2. CASE Next
  <2>1. Shapes' /\ Beginning'
    BY <1>2, ShapesStep, BeginningStep DEF SessionInv
  <2>2. ASSUME NEW c \in Clients, Alone(c)' PROVE LostIsForgotten(c)' /\ AcksAreHonest(c)'
    BY <1>2, <2>1, <2>2, FirstClient, AloneStep DEF SessionInv
  <2> QED BY <2>1, <2>2 DEF SessionInv
<1> QED BY <1>1, <1>2

-----------------------------------------------------------------------------
(* The theorem                                                              *)

\* One client at most, and a session that is ready: then there is one.
LEMMA ReadyHasClient ==
  ASSUME Beginning, OneClient, is_mqtt_ready
  PROVE  \E c \in Clients : Alone(c)
<1>1. IsFiniteSet(Started)
  <2>1. IsFiniteSet(Clients)
    BY FS_Interval, SessionAssumption DEF Clients
  <2> QED BY <2>1, FS_Subset DEF Started
<1>2. PICK c \in Started : TRUE
  BY DEF Beginning, Started
<1>3. ASSUME NEW d \in Started, d # c PROVE FALSE
  <2>1. {c, d} \subseteq Started
    BY <1>2
  <2>2. Cardinality({c, d}) = 2
    <3>1. IsFiniteSet({c}) /\ Cardinality({c}) = 1
      BY FS_Singleton
    <3>2. {c, d} = {c} \cup {d} /\ d \notin {c}
      BY <1>3
    <3> QED BY <3>1, <3>2, FS_AddElement
  <2>3. Cardinality({c, d}) <= Cardinality(Started) /\ Cardinality(Started) \in Nat
    BY <1>1, <2>1, FS_Subset, FS_CardinalityType
  <2> QED BY <2>2, <2>3 DEF OneClient
<1> QED BY <1>2, <1>3 DEF Started, Alone

\* With one client a ready session gets what the apps send, in whichever
\* order handler and Unit task have subscribed and however often the
\* connection was lost: two SUBACKs are two topics.
THEOREM ReadyMeansHeard == Spec => []ReadyIsHeard
<1>1. SessionInv => ReadyIsHeard
  <2> SUFFICES ASSUME SessionInv, OneClient, is_mqtt_ready, ~Busy
               PROVE  \E c \in Started : Heard(c) \/ conn[c] = "broken"
    BY DEF ReadyIsHeard
  <2>1. PICK c \in Clients : Alone(c)
    BY ReadyHasClient DEF SessionInv
  <2>2. c \in Started /\ handler[c] = "idle" /\ unit # "entering"
    BY <2>1 DEF Started, Alone, Busy
  <2>3. LostIsForgotten(c) /\ AcksAreHonest(c) /\ conn[c] \in {"away", "up", "broken"}
    BY <2>1, <2>2 DEF SessionInv, Shapes, Started
  <2>4. CASE conn[c] = "up"
    BY <2>2, <2>3, <2>4 DEF AcksAreHonest
  <2>5. CASE conn[c] = "away"
    BY <2>2, <2>3, <2>5 DEF LostIsForgotten
  <2> QED BY <2>2, <2>3, <2>4, <2>5
<1> QED BY <1>1, SessionInit, SessionStep, PTL DEF Spec

-----------------------------------------------------------------------------
(* Type correctness                                                         *)

\* The client tasks that have two subscriptions to make, those that have one,
\* and what the Unit task has to make.
HasTwo == {d \in Clients : handler[d] \in {"connected", "subscribing"}}
HasOne == {d \in Clients : handler[d] = "subscribing_more"}
UnitHas == [linking |-> 2, entering |-> 1, connected |-> 0][unit]
Due == 2 * Cardinality(HasTwo) + Cardinality(HasOne) + UnitHas

\* The broker has one connection, and what is on its way is on its way there.
OneConnection ==
  /\ \A c, d \in Clients : conn[c] = "up" /\ conn[d] = "up" => c = d
  /\ \A c \in Clients : conn[c] # "up" => acks[c] = 0 /\ inbox[c] = 0

\* Each subscription is acknowledged once, each request answered once.
Counted ==
  /\ \A c \in Clients : acks[c] + Due <= 2 * (MaxRequests + 1)
  /\ \A c \in Clients : answered + inbox[c] <= asked
  /\ inbox \in [Clients -> Nat] /\ answered \in Nat

Limits ==
  /\ s_subscribe_counter \in 0 .. 255 /\ online \in BOOLEAN
  /\ applied \in 0 .. MaxRequests /\ drops \in 0 .. MaxDrops /\ asked \in 0 .. MaxAsks
  /\ answered \in 0 .. asked

TypeInv == Shapes /\ Beginning /\ OneConnection /\ Counted /\ Limits

LEMMA FinitelyMany == IsFiniteSet(Clients) /\ Cardinality(Clients) = MaxRequests
<1>1. 0 + MaxRequests = MaxRequests /\ MaxRequests \in Nat
  BY SessionAssumption
<1>2. MaxRequests >= 1 \/ MaxRequests = 0
  BY <1>1
<1>3. Cardinality(1 .. MaxRequests) = IF 1 > MaxRequests THEN 0 ELSE MaxRequests - 1 + 1
  BY <1>1, FS_Interval
<1> QED BY <1>1, <1>2, <1>3, FS_Interval DEF Clients

DueFits ==
  /\ Cardinality(HasTwo) \in Nat /\ Cardinality(HasOne) \in Nat
  /\ UnitHas \in 0 .. 2 /\ Due \in Nat /\ Due <= 2 * (MaxRequests + 1)

\* What is due is bounded by what every client task and the Unit task may have.
LEMMA DueBound ==
  Shapes => IsFiniteSet(HasTwo) /\ IsFiniteSet(HasOne) /\ DueFits
<1> SUFFICES ASSUME Shapes PROVE IsFiniteSet(HasTwo) /\ IsFiniteSet(HasOne) /\ DueFits
  OBVIOUS
<1>1. HasTwo \subseteq Clients /\ HasOne \subseteq Clients /\ HasTwo \cap HasOne = {}
  BY DEF HasTwo, HasOne
<1>2. /\ IsFiniteSet(HasTwo) /\ Cardinality(HasTwo) \in Nat
      /\ IsFiniteSet(HasOne) /\ Cardinality(HasOne) \in Nat
  BY <1>1, FinitelyMany, FS_Subset, FS_CardinalityType
<1>3. Cardinality(HasTwo \cup HasOne) = Cardinality(HasTwo) + Cardinality(HasOne)
  <2>1. Cardinality(HasTwo \cap HasOne) = 0
    BY <1>1, FS_EmptySet
  <2>2. Cardinality(HasTwo \cup HasOne)
          = Cardinality(HasTwo) + Cardinality(HasOne) - Cardinality(HasTwo \cap HasOne)
    BY <1>2, FS_Union
  <2> QED BY <1>2, <2>1, <2>2
<1>4. Cardinality(HasTwo) + Cardinality(HasOne) <= MaxRequests
  <2>1. HasTwo \cup HasOne \subseteq Clients
    BY <1>1
  <2>2. Cardinality(HasTwo \cup HasOne) <= Cardinality(Clients)
    BY <2>1, FinitelyMany, FS_Subset
  <2> QED BY <1>3, <2>2, FinitelyMany
<1>5. UnitHas \in 0 .. 2
  BY DEF UnitHas, Shapes
<1> QED BY <1>2, <1>4, <1>5, SessionAssumption DEF Due, DueFits

LEMMA DueBoundNext == Shapes' => DueFits'
BY DueBound, PTL

LEMMA TypeInit == Init => TypeInv
<1> SUFFICES ASSUME Init PROVE TypeInv
  OBVIOUS
<1>1. Shapes /\ Beginning
  BY SessionInit DEF SessionInv
<1>2. OneConnection
  BY DEF Init, OneConnection
<1>3. Limits
  <2>1. online \in BOOLEAN
    BY Zenon DEF Init
  <2>2. s_subscribe_counter = 0 /\ applied = 0 /\ drops = 0 /\ asked = 0
        /\ answered = 0
    BY DEF Init
  <2> QED BY <2>1, <2>2, SessionAssumption DEF Limits
<1>4. Counted
  <2>1. Due <= 2 * (MaxRequests + 1) /\ Due \in Nat
    BY <1>1, DueBound DEF DueFits
  <2>2. /\ acks = [c \in Clients |-> 0] /\ inbox = [c \in Clients |-> 0]
        /\ asked = 0 /\ answered = 0
    BY DEF Init
  <2> QED BY <2>1, <2>2, SessionAssumption DEF Counted
<1> QED BY <1>1, <1>2, <1>3, <1>4 DEF TypeInv

\* A client's task that has nothing more to subscribe has no more than before.
LEMMA NotMoreDue ==
  ASSUME Shapes, Shapes', unit' = unit, HasTwo' \subseteq HasTwo, HasOne' \subseteq HasOne
  PROVE  Due' <= Due
<1>1. Cardinality(HasTwo') <= Cardinality(HasTwo) /\ Cardinality(HasOne') <= Cardinality(HasOne)
  BY DueBound, FS_Subset
<1>2. /\ Cardinality(HasTwo) \in Nat /\ Cardinality(HasOne) \in Nat
      /\ Cardinality(HasTwo') \in Nat /\ Cardinality(HasOne') \in Nat
  BY DueBound, DueBoundNext DEF DueFits
<1>3. UnitHas' = UnitHas /\ UnitHas \in Nat
  BY DueBound DEF UnitHas, DueFits
<1> QED BY <1>1, <1>2, <1>3 DEF Due

\* A subscription that is made is no longer due.
LEMMA OneLessDue ==
  ASSUME Shapes, Shapes',
         (UnitTask /\ ~ReadsInfo) \/ \E c \in Clients : SubscribesFirst(c) \/ SubscribesSecond(c)
  PROVE  Due' + 1 <= Due
<1> USE DEF At, UnitMoves, SubscribeFrame
<1>1. CASE UnitTask /\ ~ReadsInfo
  <2>1. HasTwo' = HasTwo /\ HasOne' = HasOne
    BY <1>1 DEF UnitTask, EntersConnected, Enters, HasTwo, HasOne
  <2>2. UnitHas' = UnitHas - 1 /\ UnitHas \in Nat
    <3>1. \/ unit = "linking" /\ unit' = "entering"
          \/ unit = "entering" /\ unit' = "connected"
      BY <1>1 DEF UnitTask, EntersConnected, Enters
    <3>2. \/ UnitHas = 2 /\ UnitHas' = 1
          \/ UnitHas = 1 /\ UnitHas' = 0
      BY <3>1 DEF UnitHas
    <3> QED BY <3>2
  <2>3. Cardinality(HasTwo') = Cardinality(HasTwo) /\ Cardinality(HasOne') = Cardinality(HasOne)
    BY <2>1
  <2>4. Cardinality(HasTwo) \in Nat /\ Cardinality(HasOne) \in Nat
    BY DueBound DEF DueFits
  <2> QED BY <2>2, <2>3, <2>4 DEF Due
<1>2. ASSUME NEW c \in Clients, SubscribesFirst(c)
      PROVE  Due' + 1 <= Due
  <2>1. /\ handler \in [Clients -> {"idle", "connected", "subscribing", "subscribing_more",
                                    "disconnected", "counting"}]
        /\ handler[c] = "subscribing"
        /\ handler' = [handler EXCEPT ![c] = "subscribing_more"] /\ unit' = unit
    BY <1>2 DEF SubscribesFirst, Shapes
  <2>2. c \in HasTwo /\ HasTwo' = HasTwo \ {c} /\ c \notin HasOne /\ HasOne' = HasOne \cup {c}
    BY <2>1 DEF HasTwo, HasOne
  <2>3. Cardinality(HasTwo') = Cardinality(HasTwo) - 1
    BY <2>2, DueBound, FS_RemoveElement
  <2>4. Cardinality(HasOne') = Cardinality(HasOne) + 1
    BY <2>2, DueBound, FS_AddElement
  <2>5. UnitHas' = UnitHas /\ UnitHas \in Nat
    BY <2>1, DueBound DEF UnitHas, DueFits
  <2> QED BY <2>3, <2>4, <2>5, DueBound DEF Due, DueFits
<1>3. ASSUME NEW c \in Clients, SubscribesSecond(c)
      PROVE  Due' + 1 <= Due
  <2>1. /\ handler \in [Clients -> {"idle", "connected", "subscribing", "subscribing_more",
                                    "disconnected", "counting"}]
        /\ handler[c] = "subscribing_more"
        /\ handler' = [handler EXCEPT ![c] = "idle"] /\ unit' = unit
    BY <1>3 DEF SubscribesSecond, Shapes
  <2>2. c \notin HasTwo /\ HasTwo' = HasTwo /\ c \in HasOne /\ HasOne' = HasOne \ {c}
    BY <2>1 DEF HasTwo, HasOne
  <2>3. Cardinality(HasOne') = Cardinality(HasOne) - 1
    BY <2>2, DueBound, FS_RemoveElement
  <2>4. UnitHas' = UnitHas /\ UnitHas \in Nat
    BY <2>1, DueBound DEF UnitHas, DueFits
  <2> QED BY <2>2, <2>3, <2>4, DueBound DEF Due, DueFits
<1> QED BY <1>1, <1>2, <1>3

\* What a subscription puts on its way goes to the client that is connected.
LEMMA SubscribeCounts ==
  ASSUME TypeInv, Shapes', NEW t \in Topics, Subscribe(t), SubscribeFrame, Due' + 1 <= Due
  PROVE  OneConnection' /\ Counted' /\ Limits'
<1>1. Shapes /\ OneConnection /\ Counted /\ Limits /\ Due \in Nat /\ Due' \in Nat
  BY DueBound, DueBoundNext DEF TypeInv, DueFits
<1>2. UNCHANGED <<client, s_subscribe_counter, conn, inbox, online, applied, drops, asked, answered>>
  BY DEF SubscribeFrame, sharedVars, worldVars
<1>3. \A c \in Clients : /\ acks'[c] <= acks[c] + 1 /\ acks[c] \in Nat /\ acks'[c] \in Nat
                         /\ conn[c] # "up" => acks'[c] = acks[c]
  BY <1>1 DEF Subscribe, Shapes
<1>4. OneConnection'
  BY <1>1, <1>2, <1>3 DEF OneConnection
<1>5. \A c \in Clients : acks'[c] + Due' <= 2 * (MaxRequests + 1)
  BY <1>1, <1>3, SessionAssumption DEF Counted
<1>6. Counted'
  BY <1>1, <1>2, <1>5 DEF Counted
<1>7. Limits'
  BY <1>1, <1>2 DEF Limits
<1> QED BY <1>4, <1>6, <1>7

\* An action that puts nothing on its way and has nothing more to subscribe.
LEMMA NothingAdded ==
  ASSUME TypeInv, Shapes', unit' = unit, HasTwo' \subseteq HasTwo, HasOne' \subseteq HasOne,
         inbox' \in [Clients -> Nat], answered' \in Nat,
         \A c \in Clients : acks'[c] <= acks[c] /\ answered' + inbox'[c] <= asked'
  PROVE  Counted'
<1>1. Shapes /\ Counted
  BY DEF TypeInv
<1>2. Due' <= Due /\ Due \in Nat /\ Due' \in Nat
  BY <1>1, NotMoreDue, DueBound, DueBoundNext DEF DueFits
<1>3. \A c \in Clients : acks[c] \in Nat /\ acks'[c] \in Nat
  BY <1>1 DEF Shapes
<1>4. \A c \in Clients : acks'[c] + Due' <= 2 * (MaxRequests + 1)
  BY <1>1, <1>2, <1>3, SessionAssumption DEF Counted
<1> QED BY <1>4 DEF Counted

LEMMA TypeStep == TypeInv /\ [Next]_vars => TypeInv'
<1> SUFFICES ASSUME TypeInv, [Next]_vars PROVE TypeInv'
  OBVIOUS
<1> DEFINE Kept == OneConnection' /\ Counted' /\ Limits'
<1> USE DEF sharedVars, brokerVars, worldVars, At, HandlerFrame, SubscribeFrame, UnitMoves
<1>1. Shapes /\ Beginning /\ OneConnection /\ Counted /\ Limits
  BY DEF TypeInv
<1>2. CASE UNCHANGED vars
  BY <1>1, <1>2 DEF vars, TypeInv, Shapes, Beginning, OneConnection, Counted, Limits, Due,
                    HasTwo, HasOne, UnitHas
<1> SUFFICES ASSUME Next PROVE TypeInv'
  BY <1>2
<1>3. Shapes' /\ Beginning'
  BY <1>1, ShapesStep, BeginningStep
<1>4. \A d \in Clients : /\ acks[d] \in Nat /\ inbox[d] \in Nat /\ asked \in Nat
                         /\ answered \in Nat /\ answered + inbox[d] <= asked
  BY <1>1, SessionAssumption DEF Shapes, Counted, Limits
<1>5. inbox \in [Clients -> Nat] /\ answered \in Nat
  BY <1>1 DEF Counted
<1>6. \A d \in Clients : conn[d] # "up" => acks[d] = 0 /\ inbox[d] = 0
  BY <1>1 DEF OneConnection
<1>10. ASSUME Apply PROVE Kept
  <2>1. applied' \in Clients /\ applied' = applied + 1 /\ applied \in Nat /\ applied < MaxRequests
    BY <1>1, <1>10, AppliedType DEF Shapes, Apply
  <2>2. HasTwo' = HasTwo /\ HasOne' = HasOne
    BY <1>10 DEF Apply, HasTwo, HasOne
  <2>3. Counted'
    BY <1>3, <1>4, <1>5, <1>10, <2>2, NothingAdded DEF Apply
  <2>4. \A d \in Clients : conn'[d] = "up" <=> conn[d] = "up"
    BY <1>1, <1>10, <2>1 DEF Apply, Beginning, Shapes
  <2>5. OneConnection'
    BY <1>1, <1>10, <2>4 DEF OneConnection, Apply
  <2>6. online' \in BOOLEAN
    BY <1>10, Zenon DEF Apply
  <2>7. Limits'
    BY <1>1, <1>10, <2>1, <2>6, SessionAssumption DEF Limits, Apply
  <2> QED BY <2>3, <2>5, <2>7
<1>11. ASSUME ReadsInfo PROVE Kept
  <2>1. HasTwo' = HasTwo /\ HasOne' = HasOne
    BY <1>11 DEF ReadsInfo, HasTwo, HasOne
  <2>2. Counted'
    BY <1>3, <1>4, <1>5, <1>11, <2>1, NothingAdded DEF ReadsInfo
  <2> QED BY <1>1, <1>11, <2>2 DEF ReadsInfo, OneConnection, Limits
<1>12. ASSUME NEW t \in Topics, Subscribe(t), SubscribeFrame,
              (UnitTask /\ ~ReadsInfo) \/ \E c \in Clients : SubscribesFirst(c) \/ SubscribesSecond(c)
       PROVE  Kept
  BY <1>1, <1>3, <1>12, OneLessDue, SubscribeCounts
<1>13. ASSUME EntersConnected \/ Enters PROVE Kept
  <2>1. ~ReadsInfo
    BY <1>13 DEF EntersConnected, Enters, ReadsInfo
  <2> QED BY <1>12, <1>13, <2>1 DEF EntersConnected, Enters, UnitTask, Topics
<1>14. ASSUME Lost PROVE Kept
  <2>1. HasTwo' = HasTwo /\ HasOne' = HasOne
    BY <1>14 DEF Lost, Breaks, HasTwo, HasOne
  <2>2. /\ acks' = [d \in Clients |-> 0] /\ inbox' = [d \in Clients |-> 0]
        /\ \A d \in Clients : conn'[d] # "up"
        /\ UNCHANGED <<unit, answered, asked, applied, s_subscribe_counter>>
        /\ drops' = drops + 1 /\ drops < MaxDrops
    BY <1>14 DEF Lost, Breaks
  <2>3. \A d \in Clients : answered <= asked
    BY <1>4
  <2>4. Counted'
    BY <1>3, <1>4, <1>5, <2>1, <2>2, <2>3, NothingAdded
  <2>5. OneConnection'
    BY <2>2 DEF OneConnection
  <2>6. online' \in BOOLEAN
    <3>1. online \in BOOLEAN
      BY <1>1 DEF Limits
    <3> QED BY <1>14, <3>1, Zenon DEF Lost
  <2>7. Limits'
    BY <1>1, <2>2, <2>6, SessionAssumption DEF Limits
  <2> QED BY <2>4, <2>5, <2>7
<1>15. ASSUME WifiReturns PROVE Kept
  <2>1. HasTwo' = HasTwo /\ HasOne' = HasOne
    BY <1>15 DEF WifiReturns, HasTwo, HasOne
  <2>2. Counted'
    BY <1>3, <1>4, <1>5, <1>15, <2>1, NothingAdded DEF WifiReturns
  <2>3. online' \in BOOLEAN
    BY <1>15, Zenon DEF WifiReturns
  <2> QED BY <1>1, <1>15, <2>2, <2>3 DEF WifiReturns, OneConnection, Limits
<1>16. ASSUME Asks PROVE Kept
  <2>1. HasTwo' = HasTwo /\ HasOne' = HasOne
    BY <1>16 DEF Asks, HasTwo, HasOne
  <2>2. /\ asked' = asked + 1 /\ asked < MaxAsks /\ inbox' \in [Clients -> Nat]
        /\ \A d \in Clients : inbox'[d] <= inbox[d] + 1 /\ (conn[d] # "up" => inbox'[d] = inbox[d])
    BY <1>5, <1>16 DEF Asks
  <2>3. UNCHANGED <<unit, acks, conn, answered, online, applied, drops, s_subscribe_counter>>
    BY <1>16 DEF Asks
  <2>4. \A d \in Clients : inbox'[d] \in Nat /\ answered + inbox'[d] <= asked'
    BY <1>4, <2>2
  <2>5. Counted'
    BY <1>3, <1>4, <1>5, <2>1, <2>2, <2>3, <2>4, NothingAdded
  <2>6. OneConnection'
    BY <1>1, <2>2, <2>3 DEF OneConnection
  <2>7. Limits'
    BY <1>1, <2>2, <2>3, SessionAssumption DEF Limits
  <2> QED BY <2>5, <2>6, <2>7
<1>17. ASSUME NEW c \in Clients, Connects(c) PROVE Kept
  <2>1. /\ acks' = [d \in Clients |-> 0] /\ inbox' = [d \in Clients |-> 0]
        /\ \A d \in Clients : d # c => conn'[d] # "up"
        /\ UNCHANGED <<unit, answered, asked, applied, drops, online, s_subscribe_counter>>
    BY <1>17 DEF Connects
  <2>2. Due' <= 2 * (MaxRequests + 1) /\ Due' \in Nat
    BY <1>3, DueBoundNext DEF DueFits
  <2>3. \A d \in Clients : acks'[d] + Due' <= 2 * (MaxRequests + 1)
    BY <2>1, <2>2
  <2>4. \A d \in Clients : answered' + inbox'[d] <= asked'
    BY <1>4, <2>1
  <2>5. Counted'
    BY <1>5, <2>1, <2>3, <2>4 DEF Counted
  <2>6. OneConnection'
    BY <2>1 DEF OneConnection
  <2> QED BY <1>1, <2>1, <2>5, <2>6 DEF Limits
<1>18. ASSUME NEW c \in Clients, SubscribesFirst(c) \/ SubscribesSecond(c) PROVE Kept
  BY <1>12, <1>18 DEF SubscribesFirst, SubscribesSecond, Topics
\* The other steps of a client's task.
<1>19. ASSUME NEW c \in Clients, NEW to \in {"subscribing", "idle", "disconnected", "counting"},
              At(c, IF to = "subscribing" THEN "connected" ELSE handler[c], to), unit' = unit
       PROVE  HasTwo' \subseteq HasTwo /\ HasOne' \subseteq HasOne
  BY <1>1, <1>19 DEF HasTwo, HasOne, Shapes
<1>20. ASSUME NEW c \in Clients, Connected(c) PROVE Kept
  <2>1. HasTwo' \subseteq HasTwo /\ HasOne' \subseteq HasOne
    BY <1>19, <1>20 DEF Connected
  <2>2. Counted'
    BY <1>3, <1>4, <1>5, <1>20, <2>1, NothingAdded DEF Connected
  <2> QED BY <1>1, <1>20, <2>2 DEF Connected, OneConnection, Limits
<1>21. ASSUME NEW c \in Clients, Drops(c) \/ Fails(c) PROVE Kept
  <2>1. HasTwo' \subseteq HasTwo /\ HasOne' \subseteq HasOne
    BY <1>19, <1>21 DEF Drops, Fails
  <2>2. UNCHANGED <<unit, acks, inbox, answered, asked, online, applied, drops, s_subscribe_counter>>
    BY <1>21 DEF Drops, Fails
  <2>3. Counted'
    BY <1>3, <1>4, <1>5, <2>1, <2>2, NothingAdded
  <2>4. \A d \in Clients : conn'[d] = "up" <=> conn[d] = "up"
    BY <1>1, <1>21 DEF Drops, Fails, Shapes
  <2> QED BY <1>1, <2>2, <2>3, <2>4 DEF OneConnection, Limits
<1>22. ASSUME NEW c \in Clients, Disconnected(c) PROVE Kept
  <2>1. HasTwo' \subseteq HasTwo /\ HasOne' \subseteq HasOne
    BY <1>19, <1>22 DEF Disconnected
  <2>2. Counted'
    BY <1>3, <1>4, <1>5, <1>22, <2>1, NothingAdded DEF Disconnected
  <2>3. s_subscribe_counter' \in 0 .. 255
    BY <1>22 DEF Disconnected
  <2> QED BY <1>1, <1>22, <2>2, <2>3 DEF Disconnected, OneConnection, Limits
<1>23. ASSUME NEW c \in Clients, Subscribed(c) PROVE Kept
  <2>1. PICK to \in {"idle", "counting"} : Acked(c, to)
    BY <1>23 DEF Subscribed
  <2>2. s_subscribe_counter' \in {0, s_subscribe_counter}
    BY <1>23 DEF Subscribed
  <2>3. /\ handler[c] = "idle" /\ acks' = [acks EXCEPT ![c] = acks[c] - 1] /\ acks[c] > 0
        /\ conn[c] = "up"
        /\ UNCHANGED <<unit, conn, inbox, answered, asked, online, applied, drops>>
    BY <2>1 DEF Acked
  <2>4. HasTwo' \subseteq HasTwo /\ HasOne' \subseteq HasOne
    BY <1>19, <2>1 DEF Acked
  <2>5. \A d \in Clients : acks'[d] <= acks[d] /\ (d # c => acks'[d] = acks[d])
    BY <1>1, <1>4, <2>3 DEF Shapes
  <2>6. Counted'
    BY <1>3, <1>4, <1>5, <2>3, <2>4, <2>5, NothingAdded
  <2>7. OneConnection'
    BY <1>1, <2>3, <2>5 DEF OneConnection
  <2> QED BY <1>1, <2>2, <2>3, <2>6, <2>7 DEF Limits
<1>24. ASSUME NEW c \in Clients, Counts(c) PROVE Kept
  <2>1. HasTwo' \subseteq HasTwo /\ HasOne' \subseteq HasOne
    BY <1>19, <1>24 DEF Counts
  <2>2. Counted'
    BY <1>3, <1>4, <1>5, <1>24, <2>1, NothingAdded DEF Counts
  <2>3. s_subscribe_counter' \in 0 .. 255
    BY <1>1, <1>24 DEF Counts, Limits
  <2> QED BY <1>1, <1>24, <2>2, <2>3 DEF Counts, OneConnection, Limits
<1>25. ASSUME NEW c \in Clients, Requested(c) PROVE Kept
  <2>1. HasTwo' = HasTwo /\ HasOne' = HasOne
    BY <1>25 DEF Requested, HasTwo, HasOne
  <2>2. /\ conn[c] = "up" /\ inbox[c] > 0 /\ inbox' = [inbox EXCEPT ![c] = inbox[c] - 1]
        /\ answered' \in {answered, answered + 1}
        /\ UNCHANGED <<unit, conn, acks, asked, online, applied, drops, s_subscribe_counter>>
    BY <1>25 DEF Requested
  <2>3. \A d \in Clients : d # c => conn[d] # "up" /\ inbox[d] = 0
    BY <1>1, <1>6, <2>2 DEF OneConnection
  <2>4. /\ inbox' \in [Clients -> Nat] /\ answered' \in Nat
        /\ inbox'[c] = inbox[c] - 1 /\ \A d \in Clients : d # c => inbox'[d] = 0
    BY <1>4, <1>5, <2>2, <2>3
  <2>5. \A d \in Clients : answered' + inbox'[d] <= asked'
    BY <1>4, <2>2, <2>4
  <2>6. Counted'
    BY <1>3, <1>4, <2>1, <2>2, <2>4, <2>5, NothingAdded
  <2>7. OneConnection'
    BY <1>1, <2>2, <2>4 DEF OneConnection
  <2>8. answered' \in 0 .. asked'
    <3>1. inbox'[c] \in Nat /\ answered' + inbox'[c] <= asked' /\ asked' \in Nat
      BY <1>4, <2>2, <2>4, <2>5
    <3> QED BY <2>4, <3>1
  <2> QED BY <1>1, <2>2, <2>6, <2>7, <2>8 DEF Limits
<1>30. Kept
  BY <1>10, <1>11, <1>13, <1>14, <1>15, <1>16, <1>17, <1>18, <1>20, <1>21, <1>22, <1>23, <1>24,
     <1>25 DEF Next, UnitTask, ClientTask
<1> QED BY <1>3, <1>30 DEF TypeInv

\* Every variable keeps its range: no more SUBACKs are ever on their way than
\* the client tasks and the Unit task can ask for, and no request is answered
\* that was not asked.
THEOREM TypeCorrect == Spec => []TypeOK
<1>1. TypeInv => TypeOK
  <2> SUFFICES ASSUME TypeInv PROVE TypeOK
    OBVIOUS
  <2>1. Shapes /\ Counted /\ Limits
    BY DEF TypeInv
  <2>2. Due \in Nat /\ Due <= 2 * (MaxRequests + 1)
    BY <2>1, DueBound DEF DueFits
  <2>3. acks \in [Clients -> 0 .. 2 * (MaxRequests + 1)]
    BY <2>1, <2>2, SessionAssumption DEF Counted, Shapes
  <2>4. inbox \in [Clients -> 0 .. MaxAsks]
    BY <2>1, SessionAssumption DEF Counted, Limits
  <2> QED BY <2>1, <2>3, <2>4 DEF TypeOK, Shapes, Limits
<1> QED BY <1>1, TypeInit, TypeStep, PTL DEF Spec
=============================================================================
