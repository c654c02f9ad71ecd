--------------------------- MODULE UnitComm_proofs ---------------------------
(***************************************************************************)
(* Theorems about UnitComm, for every value of its constants.              *)
(***************************************************************************)
EXTENDS UnitComm, SequenceTheorems, TLAPS

-----------------------------------------------------------------------------
(* Lemmas about the data operators                                          *)

\* The messages the dongle and the board build are messages.
LEMMA MessageTypes ==
  /\ NoData \in Content
  /\ \A op \in Ops, r \in Ranges, d \in Content : Request(op, r, d) \in Message
  /\ PollRequest \in Message /\ DebugRequest \in Message
  /\ \A r \in Ranges : ReadRequest(r) \in Message
<1>1. NoData \in Content
  BY DataAssumption DEF NoData, Content, Counters
<1>2. NoCounts \in [Counted -> Counters]
  BY DataAssumption DEF NoCounts, Counters
<1>3. \A o \in Ops, q \in Ranges, c \in Content : Request(o, q, c) \in Message
  BY <1>2 DEF Request, Message
<1>4. {"Poll", "Debug", "Read"} \subseteq Ops /\ "Info" \in Ranges
  BY DEF Ops, Ranges, Counted
<1> QED
  BY <1>1, <1>3, <1>4 DEF PollRequest, DebugRequest, ReadRequest

\* Sending appends a message or drops it (Write_Message).
LEMMA SendType ==
  ASSUME NEW m \in Message, toUnit \in Seq(Message), Send(m)
  PROVE  toUnit' \in Seq(Message)
  BY DEF Send

\* Taking a frame off the wire leaves a well-formed wire, and the frame is a
\* message (Read_Message).
LEMMA ReceiveType ==
  ASSUME fromUnit \in Seq(Message), Received \/ ReceivedBad \/ NothingYet
  PROVE  /\ fromUnit' \in Seq(Message)
         /\ Received \/ ReceivedBad => Frame \in Message
  BY DEF Received, ReceivedBad, NothingYet, Frame

\* Whatever frame the handshake copies, the image keeps its shape.
LEMMA StoredType ==
  ASSUME NEW r \in Ranges, NEW m \in Message, image \in [Ranges -> Content]
  PROVE  Stored(r, m) \subseteq [Ranges -> Content]
<1>1. \A k \in Nat, c \in Counters : Spill(r, k, c) \in [Ranges -> Content]
  BY DEF Spill, Content
<1>2. [image EXCEPT ![r] = m.data] \in [Ranges -> Content]
  BY DEF Message
<1>3. \A k \in (IF m.op = "Read" THEN 1 ELSE 0) .. 6 - Position[r] : k \in Nat
  BY DEF Position, Ranges, Counted
<1> QED BY <1>1, <1>2, <1>3 DEF Stored

\* The bit numbers and their ranges.
LEMMA BitTypes ==
  /\ \A b \in Bits : BitRange[b] \in Ranges
  /\ \A b \in ReadBits : BitRange[b] \in Counted
  /\ ReadBits \subseteq Bits /\ WriteBits \subseteq Bits
  /\ 0 \in Bits
<1>1. \A b \in {0, 1, 2, 3, 11, 12, 13, 14, 15} : BitRange[b] \in Ranges
  BY DEF BitRange, Ranges, Counted
<1>2. \A b \in {0, 1, 2, 3} : BitRange[b] \in Counted
  BY DEF BitRange, Counted
<1> QED BY <1>1, <1>2 DEF Bits, ReadBits, WriteBits

\* The lowest set bit is a set bit.
LEMMA LowestIn ==
  ASSUME NEW S \in SUBSET Bits, S # {}
  PROVE  Lowest(S) \in S
<1>1. SUFFICES ASSUME \A b \in S : \E c \in S : c < b
               PROVE  FALSE
  <2>1. S \subseteq Nat
    BY DEF Bits, ReadBits, WriteBits
  <2>2. \A b, c \in S : ~(c < b) => b <= c
    BY <2>1
  <2> QED BY <2>2 DEF Lowest
<1>2. S \subseteq {0, 1, 2, 3, 11, 12, 13, 14, 15}
  BY DEF Bits, ReadBits, WriteBits
<1>3. S \subseteq {2, 3, 11, 12, 13, 14, 15}
  BY <1>1, <1>2
<1>4. S \subseteq {11, 12, 13, 14, 15}
  BY <1>1, <1>3
<1>5. S \subseteq {13, 14, 15}
  BY <1>1, <1>4
<1>6. S \subseteq {15}
  BY <1>1, <1>5
<1>7. PICK b \in S : \E c \in S : c < b
  BY <1>1
<1> QED BY <1>6, <1>7

\* The stages and the requests they send.
LEMMA StageTypes ==
  ASSUME NEW s \in ReadStages
  PROVE  /\ StageRange[s] \in Ranges /\ StageNext[s] \in Stages
         /\ StageRequest(StageNext[s]) \in Message
<1>1. StageRange[s] \in Ranges
  BY DEF ReadStages, StageRange, Ranges, Counted
<1>2. StageNext[s] \in ReadStages \cup {"PollingBase"}
  BY DEF ReadStages, StageRange, StageNext
<1>3. \A t \in ReadStages : StageRange[t] \in Ranges
  BY DEF ReadStages, StageRange, Ranges, Counted
<1>4. PollRequest \in Message /\ \A r \in Ranges : ReadRequest(r) \in Message
  BY MessageTypes
<1>5. StageRequest(StageNext[s]) \in Message
  BY <1>2, <1>3, <1>4 DEF StageRequest
<1> QED BY <1>1, <1>2, <1>5 DEF Stages

-----------------------------------------------------------------------------
(* Type correctness                                                         *)

LEMMA InitType == Init => TypeOK
<1> SUFFICES ASSUME Init PROVE TypeOK
  OBVIOUS
<1>1. image \in [Ranges -> Content] /\ unit \in [Ranges -> Content]
  BY MessageTypes DEF Init, Content
<1>2. buff \in Message
  BY MessageTypes DEF Init
<1>3. spent \in [Disturbances -> Nat]
  BY DEF Init
<1>4. unitUp \in BOOLEAN
  BY DataAssumption DEF Init
<1>5. /\ appPc \in [Apps -> {"idle", "editing", "copied", "loaded"}]
      /\ appCopy \in [Apps -> [Ranges -> Content]]
      /\ appTmp \in [Apps -> SUBSET Bits]
  BY MessageTypes DEF Init
<1>6. serving \in Bits /\ index \in SUBSET Bits /\ tmp \in SUBSET Bits
  BY BitTypes DEF Init
<1>7. /\ wbm \in {"initialize", "Communicating", "Connected", "Error"}
      /\ currentState \in Stages
      /\ pc \in {"timers", "base", "limit", "read", "or", "serve", "load", "store"}
      /\ retriesCounter \in Nat /\ foundComLink \in BOOLEAN /\ pending \in BOOLEAN
      /\ runningMode \in {"Initializing", "PowerOff", "Running"}
      /\ baud \in Bauds /\ ready \in BOOLEAN
  BY DEF Init, Stages, Bauds
<1>8. /\ tGlobal \in 0 .. Timeout /\ tBase \in 0 .. Timeout /\ tDebug \in 0 .. Timeout
      /\ slack \in 0 .. MaxGap
      /\ toUnit \in Seq(Message) /\ fromUnit \in Seq(Message)
  BY TimeAssumption DEF Init
<1> QED
  BY <1>1, <1>2, <1>3, <1>4, <1>5, <1>6, <1>7, <1>8 DEF TypeOK

\* The steps of the bring-up keep the types.
LEMMA HandshakeType ==
  ASSUME TypeOK, Initialize \/ Handshake \/ ErrorPass
  PROVE  TypeOK'
<1> USE DEF NewPass, InStage, loopVars, timeVars, lineVars, unitVars, appVars
<1>0. 0 \in 0 .. MaxGap /\ 0 \in 0 .. Timeout
  BY TimeAssumption
<1>1. CASE Initialize
  BY <1>0, <1>1 DEF Initialize, TypeOK, Stages
<1>2. CASE LinkInit
  BY <1>0, <1>2 DEF LinkInit, TypeOK, Stages
<1>3. CASE LinkConnecting
  <2>1. toUnit' \in Seq(Message)
    BY <1>3, SendType, MessageTypes DEF LinkConnecting, TypeOK
  <2> QED BY <1>0, <1>3, <2>1 DEF LinkConnecting, TypeOK, Stages
<1>4. CASE TryAgain
  BY <1>0, <1>4 DEF TryAgain, TypeOK, Stages
<1>5. CASE FallBack
  BY <1>0, <1>5 DEF FallBack, TypeOK, Stages, Bauds
<1>6. CASE TryReceive
  <2>1. fromUnit' \in Seq(Message)
    BY <1>6, ReceiveType DEF TryReceive, TypeOK
  <2> QED BY <1>0, <1>6, <2>1 DEF TryReceive, TypeOK, Stages
<1>7. CASE LinkConnected
  <2>1. toUnit' \in Seq(Message)
    BY <1>7, SendType, MessageTypes DEF LinkConnected, TypeOK, Ranges, Counted
  <2> QED BY <1>0, <1>7, <2>1, BitTypes DEF LinkConnected, TypeOK, Stages, ReadStages, StageRange
<1>8. ASSUME NEW s \in ReadStages, ReadSection(s) PROVE TypeOK'
  <2>1. fromUnit' \in Seq(Message) /\ (Received => Frame \in Message)
    BY <1>8, ReceiveType DEF ReadSection, TypeOK
  <2>2. toUnit' \in Seq(Message)
    BY <1>8, SendType, StageTypes DEF ReadSection, TypeOK
  <2>3. image' \in [Ranges -> Content]
    BY <1>8, <2>1, StoredType, StageTypes DEF ReadSection, TypeOK
  <2>4. currentState' \in Stages
    BY <1>8, StageTypes DEF ReadSection, TypeOK
  <2> QED BY <1>0, <1>8, <2>1, <2>2, <2>3, <2>4 DEF ReadSection, TypeOK
<1>9. CASE LastPoll
  <2>1. fromUnit' \in Seq(Message) /\ (Received => Frame \in Message)
    BY <1>9, ReceiveType DEF LastPoll, TypeOK
  <2> QED BY <1>0, <1>9, <2>1 DEF LastPoll, TypeOK, Stages
<1>10. CASE HandshakeFails
  BY <1>0, <1>10 DEF HandshakeFails, TypeOK
<1>11. CASE EnterConnected
  <2>1. index' \in SUBSET Bits
    BY <1>11, BitTypes DEF EnterConnected, TypeOK, Differing
  <2>2. runningMode' \in {"PowerOff", "Running"}
    BY <1>11 DEF EnterConnected, ModesOf
  <2> QED BY <1>0, <1>11, <2>1, <2>2 DEF EnterConnected, TypeOK
<1>12. CASE BootloaderPass
  BY <1>0, <1>12 DEF BootloaderPass, taskVars, TypeOK
<1>13. CASE ErrorPass
  BY <1>0, <1>13 DEF ErrorPass, TypeOK
<1> QED
  BY <1>1, <1>2, <1>3, <1>4, <1>5, <1>6, <1>7, <1>8, <1>9, <1>10, <1>11, <1>12, <1>13
  DEF Handshake

\* The steps of a connected pass keep the types.
LEMMA LoopType ==
  ASSUME TypeOK, Loop
  PROVE  TypeOK'
<1> USE DEF NewPass, taskVars, timeVars, lineVars, unitVars, appVars
<1>0. 0 \in 0 .. MaxGap /\ 0 \in 0 .. Timeout
  BY TimeAssumption
<1>a. ASSUME NEW m \in Message, Ask(m)
      PROVE  /\ toUnit' \in Seq(Message) /\ pending' \in BOOLEAN
             /\ tBase' = 0 /\ tGlobal' = 0
  BY <1>a, SendType DEF Ask, TypeOK
<1>1. CASE LoopDebug
  <2>1. /\ toUnit' \in Seq(Message) /\ pending' \in BOOLEAN
        /\ tBase' \in 0 .. Timeout /\ tGlobal' \in 0 .. Timeout
    BY <1>0, <1>1, <1>a, MessageTypes DEF LoopDebug, TypeOK
  <2>2. tDebug' \in 0 .. Timeout
    BY <1>0, <1>1 DEF LoopDebug, TypeOK
  <2> QED BY <1>0, <1>1, <2>1, <2>2 DEF LoopDebug, TypeOK
<1>7. CASE LoopBase
  <2>1. /\ toUnit' \in Seq(Message) /\ pending' \in BOOLEAN
        /\ tBase' \in 0 .. Timeout /\ tGlobal' \in 0 .. Timeout
    BY <1>0, <1>7, <1>a, MessageTypes DEF LoopBase, TypeOK
  <2> QED BY <1>7, <2>1 DEF LoopBase, TypeOK
<1>8. CASE LoopLimit
  <2>1. CASE wbm' = "Error" /\ retriesCounter' = 0 /\ pending' = FALSE /\ index' = {}
    BY <1>8, <2>1 DEF LoopLimit, TypeOK
  <2>2. CASE UNCHANGED <<wbm, retriesCounter, pending, index>>
    BY <1>8, <2>2 DEF LoopLimit, TypeOK
  <2> QED BY <1>8, <2>1, <2>2 DEF LoopLimit
<1>2. CASE LoopRead
  <2>1. fromUnit' \in Seq(Message) /\ (Received => Frame \in Message)
    BY <1>2, ReceiveType DEF LoopRead, TypeOK
  <2>2. ASSUME NEW m \in Message, Dispatch(m)
        PROVE  /\ tGlobal' \in 0 .. Timeout /\ pending' \in BOOLEAN
               /\ image' \in [Ranges -> Content] /\ tmp' \in SUBSET Bits
               /\ pc' \in {"serve", "or"}
    <3>1. tmp' \in SUBSET Bits
      BY <2>2, BitTypes DEF Dispatch, TypeOK, Differing
    <3>2. [image EXCEPT ![m.range] = m.data] \in [Ranges -> Content]
      BY DEF TypeOK, Message
    <3>3. [r \in Ranges |-> IF r \in Counted THEN [image[r] EXCEPT !.cnt = m.cnts[r]]
                            ELSE image[r]] \in [Ranges -> Content]
      BY DEF TypeOK, Message, Content
    <3>4. image' \in [Ranges -> Content]
      BY <2>2, <3>2, <3>3 DEF Dispatch, TypeOK
    <3> QED BY <1>0, <2>2, <3>1, <3>4 DEF Dispatch, TypeOK
  <2>3. /\ tGlobal' \in 0 .. Timeout /\ pending' \in BOOLEAN
        /\ image' \in [Ranges -> Content] /\ tmp' \in SUBSET Bits
        /\ pc' \in {"serve", "or"}
    BY <1>2, <2>1, <2>2 DEF LoopRead, TypeOK
  <2> QED BY <1>2, <2>1, <2>3 DEF LoopRead, TypeOK
<1>3. CASE LoopOr
  BY <1>3 DEF LoopOr, TypeOK
<1>4. CASE LoopServe
  <2>1. ASSUME index # {}
        PROVE  Lowest(index) \in Bits /\ BitRequest(Lowest(index)) \in Message
    <3>1. Lowest(index) \in Bits
      BY <2>1, LowestIn DEF TypeOK
    <3>2. BitRange[Lowest(index)] \in Ranges
      BY <3>1, BitTypes
    <3>3. image[BitRange[Lowest(index)]] \in Content
      BY <3>2 DEF TypeOK
    <3> QED BY <3>1, <3>2, <3>3, MessageTypes DEF BitRequest, Ops
  <2>2. toUnit' \in Seq(Message) /\ serving' \in Bits /\ pending' \in BOOLEAN
    BY <1>4, <2>1, SendType DEF LoopServe, TypeOK
  <2> QED BY <1>4, <2>2 DEF LoopServe, TypeOK
<1>5. CASE LoopLoad
  BY <1>5 DEF LoopLoad, TypeOK
<1>6. CASE LoopStore
  BY <1>6 DEF LoopStore, TypeOK
<1> QED
  BY <1>1, <1>2, <1>3, <1>4, <1>5, <1>6, <1>7, <1>8 DEF Loop

\* Counting a disturbance keeps the counts' type.
LEMMA BoundedType ==
  ASSUME spent \in [Disturbances -> Nat], NEW kind \in Disturbances, NEW max,
         Bounded(kind, max)
  PROVE  spent' \in [Disturbances -> Nat]
  BY DEF Bounded

\* The steps of a task that writes for an app keep the types.
LEMMA AppType ==
  ASSUME TypeOK, NEW a \in Apps, AppReads(a) \/ AppTask(a)
  PROVE  TypeOK'
<1> USE DEF AppFrame, taskVars, timeVars, lineVars
<1>1. CASE AppReads(a)
  <2>1. spent' \in [Disturbances -> Nat]
    BY <1>1, BoundedType DEF AppReads, TypeOK, Disturbances
  <2> QED BY <1>1, <2>1 DEF AppReads, TypeOK
<1>2. CASE AppCopies(a)
  <2>1. PICK r \in AppRanges, v \in Values :
              image' = [appCopy[a] EXCEPT ![r] = [val |-> v, cnt |-> appCopy[a][r].cnt]]
    BY <1>2 DEF AppCopies
  <2>2. r \in Ranges
    BY DataAssumption
  <2>3. image' \in [Ranges -> Content]
    BY <2>1, <2>2 DEF TypeOK, Content
  <2> QED BY <1>2, <2>3 DEF AppCopies, TypeOK
<1>3. CASE AppLoads(a)
  BY <1>3, BitTypes DEF AppLoads, TypeOK
<1>4. CASE AppStores(a)
  BY <1>4 DEF AppStores, TypeOK
<1> QED BY <1>1, <1>2, <1>3, <1>4 DEF AppTask

\* What the board writes and answers has its type.
LEMMA BoardTypes ==
  ASSUME NEW m \in Message, unit \in [Ranges -> Content]
  PROVE  /\ Written(m) \in [Ranges -> Content]
         /\ \A u \in [Ranges -> Content] : Answer(m, u) \in Message
<1>1. \A c \in Counters : (c + 1) % CntMod \in Counters
  BY DataAssumption DEF Counters
<1>2. m.range \in Ranges /\ m.data \in Content /\ m.op \in Ops
  BY DEF Message
<1>3. unit[m.range].cnt \in Counters /\ m.data.val \in Values \cup {Blank, Junk}
  BY <1>2 DEF Content
<1>4. [val |-> m.data.val,
       cnt |-> IF m.range \in Counted THEN (unit[m.range].cnt + 1) % CntMod
               ELSE unit[m.range].cnt] \in Content
  BY <1>1, <1>3 DEF Content
<1>5. Written(m) \in [Ranges -> Content]
  BY <1>2, <1>4 DEF Written
<1>6. ASSUME NEW u \in [Ranges -> Content]
      PROVE  Answer(m, u) \in Message
  <2>1. (IF m.op = "Read" THEN u[m.range] ELSE NoData) \in Content
    BY <1>2, MessageTypes
  <2>2. NoCounts \in [Counted -> Counters]
    BY DataAssumption DEF NoCounts, Counters
  <2>3. [r \in Counted |-> u[r].cnt] \in [Counted -> Counters]
    BY DEF Content, Ranges
  <2> QED BY <1>2, <2>1, <2>2, <2>3 DEF Answer, Message
<1> QED BY <1>5, <1>6

\* The steps of the clock, the board and the wire keep the types.
LEMMA EnvironmentType ==
  ASSUME TypeOK, Environment
  PROVE  TypeOK'
<1> USE DEF EnvFrame, taskVars, loopVars, appVars, timeVars, lineVars, unitVars
<1>1. CASE Tick
  <2>1. \A t \in 0 .. Timeout : Aged(t) \in 0 .. Timeout
    BY TimeAssumption DEF Aged
  <2>2. slack' \in 0 .. MaxGap
    BY <1>1, TimeAssumption DEF Tick, TypeOK
  <2> QED BY <1>1, <2>1, <2>2, SMTT(20) DEF Tick, TypeOK
<1>2. CASE ClockWrap
  <2>1. Timeout \in 0 .. Timeout
    BY TimeAssumption
  <2>2. spent' \in [Disturbances -> Nat]
    <3>1. (IF Blind THEN "blind" ELSE "wrap") \in Disturbances
      BY DEF Disturbances
    <3> QED BY <1>2, <3>1 DEF ClockWrap, TypeOK
  <2> QED BY <1>2, <2>1, <2>2 DEF ClockWrap, TypeOK
<1>3. CASE UnitAnswers
  <2> DEFINE m == Head(toUnit)
  <2>1. m \in Message /\ Tail(toUnit) \in Seq(Message)
    BY <1>3 DEF UnitAnswers, TypeOK
  <2>2. Written(m) \in [Ranges -> Content] /\ Answer(m, Written(m)) \in Message
    BY <2>1, BoardTypes DEF TypeOK
  <2>3. unit' = Written(m) /\ fromUnit' = Append(fromUnit, Answer(m, Written(m)))
    BY <1>3 DEF UnitAnswers
  <2> HIDE DEF m
  <2>4. unit' \in [Ranges -> Content] /\ fromUnit' \in Seq(Message)
    BY <2>2, <2>3 DEF TypeOK
  <2> QED BY <1>3, <2>1, <2>4 DEF UnitAnswers, TypeOK
<1>4. CASE LineFails
  <2>1. Garbage \in Message
    BY MessageTypes DEF Garbage, Ops, Ranges, Counted
  <2> DEFINE damaged == <<Garbage>> \o Tail(fromUnit)
  <2>2. \A q \in Seq(Message) : q # <<>> => Tail(q) \in Seq(Message)
    OBVIOUS
  <2>3. fromUnit # <<>> => damaged \in Seq(Message)
    BY <2>1, <2>2 DEF TypeOK
  <2>4. toUnit' \in Seq(Message)
    BY <1>4, <2>2 DEF LineFails, TypeOK
  <2>5. \/ fromUnit' = fromUnit
        \/ fromUnit # <<>> /\ (fromUnit' = Tail(fromUnit) \/ fromUnit' = damaged)
    BY <1>4, Zenon DEF LineFails
  <2> HIDE DEF damaged
  <2>6. fromUnit' \in Seq(Message)
    BY <2>2, <2>3, <2>5 DEF TypeOK
  <2>7. spent' \in [Disturbances -> Nat]
    BY <1>4, BoundedType DEF LineFails, TypeOK, Disturbances
  <2> QED BY <1>4, <2>4, <2>6, <2>7 DEF LineFails, TypeOK
<1>5. ASSUME NEW kind \in {"noise", "boot"}, NEW op \in {"Garbage", "Boot"}, NEW max,
             Spontaneous(kind, op, max)
      PROVE  TypeOK'
  <2>1. Request(op, "Info", NoData) \in Message
    BY MessageTypes DEF Ops, Ranges, Counted
  <2>2. fromUnit' \in Seq(Message)
    BY <1>5, <2>1 DEF Spontaneous, TypeOK
  <2>3. spent' \in [Disturbances -> Nat]
    BY <1>5, BoundedType DEF Spontaneous, TypeOK, Disturbances
  <2> QED BY <1>5, <2>2, <2>3 DEF Spontaneous, TypeOK
<1>6. CASE Noise \/ UnitAnnounces
  BY <1>5, <1>6 DEF Noise, UnitAnnounces
<1>7. ASSUME NEW r \in PanelRanges, PanelEdits(r) PROVE TypeOK'
  <2>1. r \in Ranges
    BY DataAssumption
  <2>2. unit[r].cnt \in Counters /\ (unit[r].cnt + 1) % CntMod \in Counters
    BY <2>1, DataAssumption DEF TypeOK, Content, Counters
  <2>3. unit' \in [Ranges -> Content]
    BY <1>7, <2>1, <2>2 DEF PanelEdits, TypeOK, Content
  <2>4. spent' \in [Disturbances -> Nat]
    BY <1>7, BoundedType DEF PanelEdits, TypeOK, Disturbances
  <2> QED BY <1>7, <2>3, <2>4 DEF PanelEdits, TypeOK
<1>8. CASE UnitSwitched
  BY <1>8 DEF UnitSwitched, TypeOK
<1> QED BY <1>1, <1>2, <1>3, <1>4, <1>6, <1>7, <1>8 DEF Environment

\* Every variable of the link keeps its range, whatever the tasks, the board,
\* the wire and the clock do.
THEOREM TypeCorrect == Spec => []TypeOK
<1>1. TypeOK /\ [Next]_vars => TypeOK'
  <2> SUFFICES ASSUME TypeOK, [Next]_vars PROVE TypeOK'
    OBVIOUS
  <2>1. CASE UnitTask
    BY <2>1, HandshakeType, LoopType DEF UnitTask
  <2>2. CASE \E a \in Apps : AppReads(a) \/ AppTask(a)
    BY <2>2, AppType
  <2>3. CASE Environment
    BY <2>3, EnvironmentType
  <2>4. CASE UNCHANGED vars
    BY <2>4 DEF TypeOK, vars, taskVars, loopVars, timeVars, lineVars, unitVars, appVars
  <2> QED BY <2>1, <2>2, <2>3, <2>4 DEF Next
<1> QED BY <1>1, InitType, PTL DEF Spec

-----------------------------------------------------------------------------
(* The link leaves WBM_Connected only after a blind wrap                    *)

\* As long as no wrap of the clock was blind: since globalTimeoutMilliseconds
\* was refreshed no more ticks have passed than since the polling time stamp
\* was, and one pass more (each refresh of the second refreshes the first, and
\* EnterConnected follows the stage that refreshed the first within a pass);
\* and at the test of line 153 no more than a polling period and two passes.
\* A blind wrap breaks that until the next request or the next such test.
InTime == tGlobal <= PollOff - 1 + MaxGap + slack
LinkTimes ==
  /\ InStage("Connected") => tGlobal <= slack \/ (spent["blind"] > 0 /\ TimedOut)
  /\ wbm = "Connected" =>
       \/ tGlobal <= tBase + MaxGap
       \/ spent["blind"] > 0 /\ TimedOut /\ ~pending /\ pc \in {"timers", "base", "limit"}
  /\ wbm = "Connected" /\ pc = "limit" => InTime \/ spent["blind"] > 0
  /\ wbm \in {"initialize", "Communicating"} => pc = "timers" /\ ~pending
  /\ pc \in {"base", "limit"} => wbm = "Connected"

LEMMA LinkTimesInit == Init => LinkTimes
  BY DEF Init, LinkTimes, InStage

\* The test of line 153 finds a stamp that is in time.
LEMMA NotTimedOut ==
  ASSUME TypeOK, InTime
  PROVE  ~TimedOut
  BY TimeAssumption DEF TypeOK, InTime, TimedOut

\* Where a step leaves a count of disturbances alone, or adds to it.
LEMMA SpentSteps ==
  ASSUME spent \in [Disturbances -> Nat]
  PROVE  /\ \A max : \A kind \in Disturbances : Bounded(kind, max) =>
              \A k \in Disturbances : spent'[k] = IF k = kind THEN spent[k] + 1 ELSE spent[k]
         /\ ClockWrap => \A k \in Disturbances :
              spent'[k] = IF k = (IF Blind THEN "blind" ELSE "wrap") THEN spent[k] + 1 ELSE spent[k]
  BY DEF Bounded, ClockWrap, Disturbances

LEMMA LinkTimesStep ==
  ASSUME TypeOK, LinkTimes, [Next]_vars
  PROVE  LinkTimes' /\ (wbm = "Connected" => wbm' = "Connected" \/ spent'["blind"] > 0)
<1> USE TimeAssumption DEF InStage
<1>n. spent["blind"] \in Nat /\ spent \in [Disturbances -> Nat]
  BY DEF TypeOK, Disturbances
<1>k. "blind" \in Disturbances /\ {"loss", "noise", "boot", "panel", "app"} \subseteq Disturbances
  BY DEF Disturbances
<1>s. ASSUME UNCHANGED <<wbm, currentState, pc, pending, tGlobal, tBase, slack>>,
             spent'["blind"] = spent["blind"]
      PROVE  LinkTimes' /\ (wbm = "Connected" => wbm' = "Connected" \/ spent'["blind"] > 0)
  BY <1>s DEF LinkTimes, InTime, TimedOut
<1>1. CASE Initialize \/ ErrorPass
  BY <1>1 DEF Initialize, ErrorPass, LinkTimes, loopVars, timeVars, unitVars
<1>2. CASE Handshake
  <2> USE DEF loopVars, timeVars, unitVars, LinkTimes, NewPass
  <2>1. CASE LinkInit \/ LinkConnecting \/ TryAgain \/ FallBack \/ TryReceive \/ LinkConnected
    BY <2>1 DEF LinkInit, LinkConnecting, TryAgain, FallBack, TryReceive, LinkConnected
  <2>2. ASSUME NEW s \in ReadStages, ReadSection(s) PROVE LinkTimes' /\ wbm # "Connected"
    <3>1. StageNext[s] # "Connected" /\ s # "Connected"
      BY DEF StageNext, ReadStages, StageRange
    <3> QED BY <2>2, <3>1 DEF ReadSection
  <2>3. CASE LastPoll \/ HandshakeFails
    BY <2>3 DEF LastPoll, HandshakeFails, ReadStages, StageRange
  <2>4. CASE EnterConnected
    <3>1. /\ wbm = "Communicating" /\ pc = "timers" /\ ~pending /\ tBase' = 0
          /\ UNCHANGED <<pc, pending, tGlobal, spent>> /\ wbm' = "Connected"
          /\ tGlobal <= slack \/ (spent["blind"] > 0 /\ TimedOut)
      BY <2>4 DEF EnterConnected
    <3>2. tGlobal \in Nat /\ slack \in 0 .. MaxGap
      BY DEF TypeOK
    <3>3. TimedOut' <=> TimedOut
      BY <3>1 DEF TimedOut
    <3> QED BY <3>1, <3>2, <3>3
  <2>5. CASE BootloaderPass
    BY <2>5 DEF BootloaderPass, taskVars
  <2> QED BY <1>2, <2>1, <2>2, <2>3, <2>4, <2>5 DEF Handshake, EnterConnected, BootloaderPass,
          LinkInit, LinkConnecting, TryAgain, FallBack, TryReceive, LinkConnected, LastPoll,
          HandshakeFails
<1>3. CASE LoopDebug
  <2>1. wbm = "Connected" /\ wbm' = wbm /\ pc = "timers" /\ pc' = "base" /\ spent' = spent
    BY <1>3 DEF LoopDebug, taskVars, unitVars
  <2>2. \/ tGlobal' = 0 /\ tBase' = 0
        \/ UNCHANGED <<tGlobal, tBase, pending>>
    BY <1>3 DEF LoopDebug, Ask, timeVars
  <2> QED BY <2>1, <2>2 DEF LinkTimes, TimedOut
<1>4. CASE LoopBase
  <2>1. /\ pc = "base" /\ pc' = "limit" /\ wbm' = wbm /\ UNCHANGED <<spent, currentState, slack>>
        /\ wbm \notin {"initialize", "Communicating"}
    BY <1>4 DEF LoopBase, taskVars, unitVars, LinkTimes
  <2>2. \/ tGlobal' = 0 /\ tBase' = 0
        \/ tBase < PollOff /\ UNCHANGED <<tGlobal, tBase, pending>>
    BY <1>4 DEF LoopBase, Ask, BaseDue, TypeOK
  <2>3. tGlobal \in Nat /\ tBase \in Nat /\ slack \in Nat
    BY DEF TypeOK
  <2>4. wbm = "Connected" => InTime' \/ spent["blind"] > 0
    BY <2>1, <2>2, <2>3 DEF LinkTimes, InTime
  <2> QED BY <2>1, <2>2, <2>4 DEF LinkTimes, TimedOut
<1>5. CASE LoopLimit
  <2>1. /\ pc = "limit" /\ pc' = "read" /\ UNCHANGED <<spent, currentState, slack, tGlobal, tBase>>
        /\ wbm \notin {"initialize", "Communicating"}
    BY <1>5 DEF LoopLimit, timeVars, unitVars, LinkTimes
  <2>2. \/ TimedOut /\ wbm' = "Error"
        \/ ~TimedOut /\ wbm' = wbm
    BY <1>5 DEF LoopLimit
  <2>3. wbm = "Connected" => wbm' = "Connected" \/ spent["blind"] > 0
    BY <2>1, <2>2, NotTimedOut DEF LinkTimes
  <2>4. wbm' = "Connected" => tGlobal' <= tBase' + MaxGap
    BY <2>1, <2>2 DEF LinkTimes
  <2> QED BY <2>1, <2>2, <2>3, <2>4 DEF LinkTimes
<1>6. CASE LoopRead
  <2>1. tGlobal' = 0 \/ tGlobal' = tGlobal
    BY <1>6, Zenon DEF LoopRead, Dispatch
  <2>2. /\ pc = "read" /\ pc' \in {"or", "serve"} /\ UNCHANGED <<tBase, wbm, currentState, spent>>
        /\ wbm \notin {"initialize", "Communicating"}
    BY <1>6, Zenon DEF LoopRead, Dispatch, taskVars, unitVars, LinkTimes
  <2> QED BY <2>1, <2>2 DEF LinkTimes, TypeOK
<1>7. CASE LoopOr \/ LoopServe \/ LoopLoad \/ LoopStore
  <2>1. /\ pc \in {"or", "serve", "load", "store"} /\ pc' \in {"serve", "load", "store", "timers"}
        /\ UNCHANGED <<tGlobal, tBase, wbm, currentState, spent>>
        /\ wbm \notin {"initialize", "Communicating"}
    BY <1>7, Zenon DEF LoopOr, LoopServe, LoopLoad, LoopStore, taskVars, timeVars, unitVars,
                       LinkTimes
  <2> QED BY <2>1 DEF LinkTimes
<1>8. CASE \E a \in Apps : AppReads(a) \/ AppTask(a)
  <2>1. UNCHANGED <<wbm, currentState, pc, pending, tGlobal, tBase, slack>>
    BY <1>8 DEF AppReads, AppTask, AppCopies, AppLoads, AppStores, AppFrame, taskVars, timeVars
  <2>2. spent'["blind"] = spent["blind"]
    BY <1>8, <1>n, <1>k, SpentSteps DEF AppReads, AppTask, AppCopies, AppLoads, AppStores
  <2> QED BY <1>s, <2>1, <2>2
<1>9. CASE Tick
  <2>1. /\ UNCHANGED <<wbm, currentState, pc, pending, spent>> /\ slack' = slack + 1
        /\ tGlobal' = Aged(tGlobal) /\ tBase' = Aged(tBase)
    BY <1>9 DEF Tick, EnvFrame, taskVars, loopVars, unitVars
  <2>2. tGlobal \in 0 .. Timeout /\ tBase \in 0 .. Timeout /\ slack \in 0 .. MaxGap
    BY DEF TypeOK
  <2>3. TimedOut => TimedOut'
    BY <2>1, <2>2 DEF TimedOut, Aged
  <2>4. /\ tGlobal <= tBase + MaxGap => tGlobal' <= tBase' + MaxGap
        /\ tGlobal <= slack => tGlobal' <= slack'
        /\ InTime => InTime'
    BY <2>1, <2>2 DEF Aged, InTime
  <2> QED BY <2>1, <2>3, <2>4 DEF LinkTimes
<1>10. CASE ClockWrap
  <2>1. /\ UNCHANGED <<wbm, currentState, pc, pending>> /\ tGlobal' = Timeout /\ tBase' = Timeout
    BY <1>10 DEF ClockWrap, EnvFrame, taskVars, loopVars
  <2>2. spent'["blind"] = IF Blind THEN spent["blind"] + 1 ELSE spent["blind"]
    BY <1>10, <1>n, <1>k, SpentSteps
  <2>3. InStage("Connected") \/ (wbm = "Connected" /\ pc = "limit") => spent'["blind"] > 0
    BY <1>n, <2>2 DEF Blind
  <2>4. TimedOut' /\ tGlobal' <= tBase' + MaxGap
    BY <2>1 DEF TimedOut
  <2> QED BY <2>1, <2>3, <2>4 DEF LinkTimes
<1>11. CASE UnitAnswers \/ LineFails \/ Noise \/ UnitAnnounces
           \/ (\E r \in PanelRanges : PanelEdits(r)) \/ UnitSwitched
  <2>1. UNCHANGED <<wbm, currentState, pc, pending, tGlobal, tBase, slack>>
    BY <1>11 DEF UnitAnswers, LineFails, Noise, UnitAnnounces, Spontaneous, PanelEdits,
                UnitSwitched, EnvFrame, taskVars, loopVars, timeVars
  <2>2. spent'["blind"] = spent["blind"]
    <3>1. \/ spent' = spent
          \/ \E max : \E kind \in {"loss", "noise", "boot", "panel"} : Bounded(kind, max)
      BY <1>11 DEF UnitAnswers, LineFails, Noise, UnitAnnounces, Spontaneous, PanelEdits,
                  UnitSwitched
    <3> QED BY <1>n, <1>k, <3>1, SpentSteps
  <2> QED BY <1>s, <2>1, <2>2
<1>12. CASE UNCHANGED vars
  BY <1>s, <1>12 DEF vars, taskVars, loopVars, timeVars, unitVars
<1> QED
  BY <1>1, <1>2, <1>3, <1>4, <1>5, <1>6, <1>7, <1>8, <1>9, <1>10, <1>11, <1>12
  DEF Next, UnitTask, Loop, Environment, EnterConnected, Initialize, ErrorPass

\* The branch of lines 154-159 is taken only after a wrap of the clock that
\* fell between two stamps or two tests of them: no interleaving of the task,
\* the board, the wire and the rest of the clock takes the link out of
\* WBM_Connected, however long the board is silent.
THEOREM NeverDisconnects == Spec => ConnectedForever
<1>1. Init => LinkTimes
  BY LinkTimesInit
<1>2. TypeOK /\ LinkTimes /\ [Next]_vars => LinkTimes'
  BY LinkTimesStep
<1>3. TypeOK /\ LinkTimes /\ [Next]_vars
        => (wbm = "Connected" => wbm' = "Connected" \/ spent["blind"] > 0)
  <2> SUFFICES ASSUME TypeOK, LinkTimes, [Next]_vars, wbm = "Connected", wbm' # "Connected"
               PROVE  spent["blind"] > 0
    OBVIOUS
  <2>1. spent'["blind"] > 0
    BY LinkTimesStep
  <2>2. spent' = spent
    BY DEF Next, UnitTask, Initialize, Handshake, LinkInit, LinkConnecting, TryAgain, FallBack,
           TryReceive, LinkConnected, ReadSection, LastPoll, HandshakeFails, EnterConnected,
           BootloaderPass, ErrorPass, Loop, LoopDebug, LoopBase, LoopLimit, LoopRead, LoopOr,
           LoopServe, LoopLoad, LoopStore, AppReads, AppTask, AppCopies, AppLoads, AppStores,
           AppFrame, Environment, Tick, ClockWrap, UnitAnswers, LineFails, Noise, UnitAnnounces,
           Spontaneous, PanelEdits, UnitSwitched, EnvFrame, InStage, taskVars, loopVars, timeVars,
           lineVars, unitVars, appVars, vars
  <2> QED BY <2>1, <2>2
<1> QED BY <1>1, <1>2, <1>3, TypeCorrect, PTL DEF Spec, ConnectedForever

-----------------------------------------------------------------------------
(* The link is half duplex                                                  *)

\* Frames under way beyond those nobody asked for.
UnderWay == Len(toUnit) + Len(fromUnit)
Stray    == spent["noise"] + spent["boot"] + Wraps

\* A request may be under way only where the task believes it: in a stage
\* that waits for an answer and has not timed out, and with
\* Eeprom_Data_received set.  The branch of lines 154-159 clears it, but only
\* after a wrap of the clock that is counted.
Outstanding ==
  /\ UnderWay <= 1 + Stray
  /\ wbm = "initialize" => UnderWay <= Stray
  /\ wbm = "Communicating" =>
       /\ currentState \in {"Init", "LinkConnecting", "LinkConnected", "Connected"}
             => UnderWay <= Stray
       /\ TimedOut => UnderWay <= Stray
  /\ wbm = "Connected" /\ ~pending => UnderWay <= Stray
  /\ wbm = "Connected" /\ pc = "limit" => InTime \/ UnderWay <= Stray
  /\ wbm = "Error" /\ ~pending /\ pc # "timers" => UnderWay <= Stray
  /\ wbm \in {"initialize", "Communicating"} => ~pending

LEMMA OutstandingInit == Init => Outstanding
<1> SUFFICES ASSUME Init PROVE Outstanding
  OBVIOUS
<1>1. Len(toUnit) = 0 /\ Len(fromUnit) = 0 /\ spent["noise"] = 0 /\ spent["boot"] = 0
     /\ spent["wrap"] = 0 /\ spent["blind"] = 0
  BY DEF Init, Disturbances
<1> QED BY <1>1 DEF Init, Outstanding, UnderWay, Stray, Wraps

\* Sending adds one frame at most; taking a frame off the wire removes one.
LEMMA SendLength ==
  ASSUME NEW m, toUnit \in Seq(Message), m \in Message, Send(m)
  PROVE  Len(toUnit') \in Nat /\ Len(toUnit') <= Len(toUnit) + 1
  BY DEF Send

LEMMA ReceiveLength ==
  ASSUME fromUnit \in Seq(Message)
  PROVE  /\ Received \/ ReceivedBad => Len(fromUnit') = Len(fromUnit) - 1
         /\ NothingYet => Len(fromUnit') = Len(fromUnit)
  BY DEF Received, ReceivedBad, NothingYet

\* What TypeOK says of the numbers Outstanding speaks of.
LEMMA WireNumbers ==
  ASSUME TypeOK
  PROVE  /\ Len(toUnit) \in Nat /\ Len(fromUnit) \in Nat
         /\ \A k \in {"noise", "boot", "wrap", "blind"} : spent[k] \in Nat
         /\ Wraps \in Nat /\ Stray \in Nat /\ UnderWay \in Nat
  BY DEF TypeOK, Stray, Wraps, UnderWay, Disturbances

\* A disturbance that may add a frame is counted, another one is not.
LEMMA StrayGrows ==
  ASSUME spent \in [Disturbances -> Nat]
  PROVE  /\ \A max : \A kind \in {"noise", "boot"} : Bounded(kind, max) => Stray' = Stray + 1
         /\ ClockWrap => Stray' = Stray + 1
         /\ \A max : \A kind \in {"loss", "panel", "app"} : Bounded(kind, max) => Stray' = Stray
<1>1. {"noise", "boot", "wrap", "blind", "loss", "panel", "app"} \subseteq Disturbances
  BY DEF Disturbances
<1>2. \A k \in {"noise", "boot", "wrap", "blind"} : spent[k] \in Nat
  BY <1>1
<1>3. \A max : \A kind \in {"noise", "boot", "loss", "panel", "app"} : Bounded(kind, max) =>
        \A k \in {"noise", "boot", "wrap", "blind"} :
          spent'[k] = IF k = kind THEN spent[k] + 1 ELSE spent[k]
  BY <1>1, SpentSteps
<1>4. ClockWrap => \A k \in {"noise", "boot", "wrap", "blind"} :
        spent'[k] = IF k = (IF Blind THEN "blind" ELSE "wrap") THEN spent[k] + 1 ELSE spent[k]
  BY <1>1, SpentSteps
<1>5. \A max : \A kind \in {"noise", "boot"} : Bounded(kind, max) => Stray' = Stray + 1
  BY <1>2, <1>3 DEF Stray, Wraps
<1>6. ClockWrap => Stray' = Stray + 1
  BY <1>2, <1>4 DEF Stray, Wraps
<1>7. \A max : \A kind \in {"loss", "panel", "app"} : Bounded(kind, max) => Stray' = Stray
  BY <1>2, <1>3 DEF Stray, Wraps
<1> QED BY <1>5, <1>6, <1>7

\* The bring-up: a stage that sends has nothing under way.
LEMMA OutstandingHandshake ==
  ASSUME TypeOK, LinkTimes, Outstanding, Initialize \/ Handshake \/ ErrorPass
  PROVE  Outstanding'
<1> USE WireNumbers, TimeAssumption
    DEF Outstanding, UnderWay, InStage, TimedOut, lineVars, unitVars, loopVars, timeVars
<1>0. toUnit \in Seq(Message) /\ fromUnit \in Seq(Message) /\ 0 < Timeout
      /\ (wbm \in {"initialize", "Communicating"} => pc = "timers")
  BY DEF TypeOK, LinkTimes
<1>b. Stray' = Stray
  BY DEF Initialize, Handshake, LinkInit, LinkConnecting, TryAgain, FallBack, TryReceive,
         LinkConnected, ReadSection, LastPoll, HandshakeFails, EnterConnected, BootloaderPass,
         ErrorPass, Stray, Wraps
<1>1. CASE Initialize
  BY <1>0, <1>b, <1>1 DEF Initialize
<1>2. CASE LinkInit
  BY <1>0, <1>b, <1>2 DEF LinkInit
<1>3. CASE LinkConnecting
  BY <1>0, <1>b, <1>3, SendLength, MessageTypes DEF LinkConnecting
<1>4. CASE TryAgain
  BY <1>0, <1>b, <1>4 DEF TryAgain
<1>5. CASE FallBack
  <2>1. Len(toUnit') = 0 /\ Len(fromUnit') = 0
    BY <1>5 DEF FallBack
  <2> QED BY <1>0, <1>b, <1>5, <2>1 DEF FallBack
<1>6. CASE TryReceive
  BY <1>0, <1>b, <1>6, ReceiveLength DEF TryReceive
<1>7. CASE LinkConnected
  <2>1. Len(toUnit') \in Nat /\ Len(toUnit') <= Len(toUnit) + 1
    BY <1>0, <1>b, <1>7, SendLength, MessageTypes DEF LinkConnected, Ranges, Counted
  <2> QED BY <1>0, <1>b, <1>7, <2>1 DEF LinkConnected
<1>8. ASSUME NEW s \in ReadStages, ReadSection(s) PROVE Outstanding'
  <2>1. StageRequest(StageNext[s]) \in Message
    BY StageTypes
  <2>2. StageNext[s] \in ReadStages \cup {"PollingBase"}
    BY DEF ReadStages, StageRange, StageNext
  <2>3. s \notin {"Init", "LinkConnecting", "LinkConnected", "Connected"}
        /\ StageNext[s] \notin {"Init", "LinkConnecting", "LinkConnected", "Connected"}
    BY <2>2 DEF ReadStages, StageRange
  <2>4. wbm' = "Communicating" /\ ~pending' /\ Stray' = Stray /\ UnderWay <= 1 + Stray
    BY <1>8, <1>b DEF ReadSection
  <2>5. ASSUME Received, currentState' = StageNext[s], tGlobal' = 0,
               Send(StageRequest(StageNext[s]))
        PROVE  Outstanding'
    <3>1. Len(fromUnit') = Len(fromUnit) - 1
      BY <1>0, <1>b, <2>5, ReceiveLength
    <3>2. Len(toUnit') \in Nat /\ Len(toUnit') <= Len(toUnit) + 1
      BY <1>0, <1>b, <2>1, <2>5, SendLength
    <3>3. UnderWay' <= 1 + Stray' /\ ~TimedOut'
      BY <1>0, <1>b, <2>4, <2>5, <3>1, <3>2
    <3> QED BY <2>3, <2>4, <2>5, <3>3
  <2>6. ASSUME ReceivedBad \/ NothingYet, UNCHANGED <<currentState, toUnit, tGlobal>>
        PROVE  Outstanding'
    <3>1. UnderWay' <= UnderWay
      BY <1>0, <1>b, <2>6, ReceiveLength
    <3>2. currentState' = s /\ ~TimedOut'
      BY <1>8, <2>6 DEF ReadSection
    <3>3. Len(toUnit') \in Nat /\ Len(fromUnit') \in Nat
      BY <1>0, <1>b, <2>6, ReceiveLength DEF ReceivedBad, NothingYet
    <3> QED BY <2>3, <2>4, <3>1, <3>2, <3>3
  <2>7. \/ /\ Received /\ currentState' = StageNext[s] /\ tGlobal' = 0
           /\ Send(StageRequest(StageNext[s]))
        \/ (ReceivedBad \/ NothingYet) /\ UNCHANGED <<currentState, toUnit, tGlobal>>
    BY <1>8, Zenon DEF ReadSection
  <2> HIDE DEF Outstanding, UnderWay, InStage, TimedOut
  <2> QED BY <2>5, <2>6, <2>7, Zenon
<1>9. CASE LastPoll
  BY <1>0, <1>b, <1>9, ReceiveLength, SMTT(20) DEF LastPoll
<1>10. CASE HandshakeFails
  BY <1>0, <1>b, <1>10 DEF HandshakeFails
<1>11. CASE EnterConnected
  BY <1>0, <1>b, <1>11 DEF EnterConnected
<1>12. CASE BootloaderPass
  BY <1>0, <1>b, <1>12 DEF BootloaderPass, taskVars
<1>13. CASE ErrorPass
  BY <1>0, <1>b, <1>13 DEF ErrorPass
<1> QED
  BY <1>1, <1>2, <1>3, <1>4, <1>5, <1>6, <1>7, <1>8, <1>9, <1>10, <1>11, <1>12, <1>13
  DEF Handshake

\* The connected pass: Ask and LoopServe send when nothing is outstanding,
\* and Eeprom_Data_received is cleared by a frame only.
LEMMA OutstandingLoop ==
  ASSUME TypeOK, LinkTimes, Outstanding, Loop
  PROVE  Outstanding'
<1>n. Stray \in Nat /\ UnderWay \in Nat /\ Len(toUnit) \in Nat /\ Len(fromUnit) \in Nat
  BY WireNumbers
<1>0. toUnit \in Seq(Message) /\ fromUnit \in Seq(Message)
  BY DEF TypeOK
<1>a. /\ UNCHANGED spent /\ Stray' = Stray /\ wbm \in {"Connected", "Error"}
      /\ wbm' \in {wbm, "Error"} /\ UnderWay <= 1 + Stray
  <2>1. wbm = "Connected" \/ pc # "timers"
    BY DEF Loop, LoopDebug, LoopBase, LoopLimit, LoopRead, LoopOr, LoopServe, LoopLoad, LoopStore
  <2>2. UNCHANGED spent /\ wbm' \in {wbm, "Error"}
    BY DEF Loop, LoopDebug, LoopBase, LoopLimit, LoopRead, LoopOr, LoopServe, LoopLoad, LoopStore,
           unitVars, taskVars
  <2>3. wbm \in {"Connected", "Error"}
    BY <2>1 DEF LinkTimes, TypeOK
  <2> QED BY <2>2, <2>3 DEF Stray, Wraps, Outstanding
\* What a request adds, where none was believed outstanding.
<1>b. ASSUME NEW m \in Message, Ask(m), fromUnit' = fromUnit
      PROVE  /\ pending' /\ tGlobal' = 0
             /\ UnderWay' = UnderWay \/ (~pending /\ UnderWay' <= UnderWay + 1)
             /\ UnderWay' \in Nat
  <2>1. pending' /\ tGlobal' = 0 /\ (toUnit' = toUnit \/ (~pending /\ Send(m)))
    BY <1>b DEF Ask
  <2> QED BY <1>b, <1>n, <1>0, <2>1, SendLength DEF UnderWay
<1>1. CASE LoopDebug
  <2>1. wbm = "Connected" /\ wbm' = wbm /\ fromUnit' = fromUnit /\ pc' = "base"
    BY <1>1 DEF LoopDebug, taskVars
  <2>2. CASE Ask(DebugRequest)
    <3>1. /\ pending' /\ UnderWay' \in Nat
          /\ UnderWay' = UnderWay \/ (~pending /\ UnderWay' <= UnderWay + 1)
      BY <1>b, <2>1, <2>2, MessageTypes
    <3> QED BY <1>n, <1>a, <2>1, <3>1 DEF Outstanding
  <2>3. CASE UNCHANGED <<toUnit, pending>>
    BY <1>n, <1>a, <2>1, <2>3 DEF Outstanding, UnderWay
  <2> QED BY <1>1, <2>2, <2>3 DEF LoopDebug
<1>2. CASE LoopBase
  <2>1. /\ pc = "base" /\ pc' = "limit" /\ wbm' = wbm /\ fromUnit' = fromUnit /\ slack' = slack
        /\ tGlobal \in Nat /\ tBase \in Nat /\ slack \in Nat
    BY <1>2 DEF LoopBase, taskVars, TypeOK
  <2>2. CASE Ask(PollRequest)
    <3>1. /\ pending' /\ UnderWay' \in Nat /\ tGlobal' = 0
          /\ UnderWay' = UnderWay \/ (~pending /\ UnderWay' <= UnderWay + 1)
      BY <1>b, <2>1, <2>2, MessageTypes
    <3>2. InTime'
      BY <2>1, <3>1, TimeAssumption DEF InTime
    <3> QED BY <1>n, <1>a, <2>1, <3>1, <3>2 DEF Outstanding
  <2>3. CASE ~BaseDue /\ UNCHANGED <<tGlobal, tBase, toUnit, pending>>
    <3>1. UnderWay' = UnderWay
      BY <2>1, <2>3 DEF UnderWay
    <3>2. tBase < PollOff
      BY <2>1, <2>3, TimeAssumption DEF BaseDue
    <3>3. wbm = "Connected" => InTime' \/ ~pending
      BY <2>1, <2>3, <3>2, TimeAssumption DEF LinkTimes, InTime
    <3> QED BY <1>n, <1>a, <2>1, <2>3, <3>1, <3>3 DEF Outstanding
  <2> QED BY <1>2, <2>2, <2>3 DEF LoopBase
<1>3. CASE LoopLimit
  <2>1. pc = "limit" /\ pc' = "read" /\ UnderWay' = UnderWay
    BY <1>3 DEF LoopLimit, lineVars, UnderWay
  <2>2. CASE TimedOut /\ wbm' = "Error" /\ ~pending'
    <3>1. ~InTime
      BY <2>2, NotTimedOut
    <3>2. wbm = "Connected" => UnderWay <= Stray
      BY <2>1, <3>1 DEF Outstanding
    <3>3. wbm = "Connected"
      BY <2>1 DEF LinkTimes
    <3> QED BY <1>n, <1>a, <2>1, <2>2, <3>2, <3>3 DEF Outstanding
  <2>3. CASE UNCHANGED <<wbm, pending>>
    BY <1>n, <1>a, <2>1, <2>3 DEF Outstanding
  <2> QED BY <1>3, <2>2, <2>3 DEF LoopLimit
<1>4. CASE LoopRead
  <2>1. /\ wbm' = wbm /\ toUnit' = toUnit /\ pc = "read" /\ pc' \in {"or", "serve"}
    BY <1>4, Zenon DEF LoopRead, Dispatch, taskVars
  <2>2. \/ Received \/ ReceivedBad
        \/ NothingYet /\ pending' = pending
    BY <1>4, Zenon DEF LoopRead
  <2>3. CASE Received \/ ReceivedBad
    <3>1. UnderWay' = UnderWay - 1
      BY <1>n, <1>0, <2>1, <2>3, ReceiveLength DEF UnderWay
    <3> QED BY <1>n, <1>a, <2>1, <3>1 DEF Outstanding
  <2>4. CASE NothingYet /\ pending' = pending
    <3>1. UnderWay' = UnderWay
      BY <1>0, <2>1, <2>4, ReceiveLength DEF UnderWay
    <3> QED BY <1>a, <2>1, <2>4, <3>1 DEF Outstanding
  <2> QED BY <2>2, <2>3, <2>4
<1>5. CASE LoopServe
  <2>1. wbm' = wbm /\ fromUnit' = fromUnit /\ pc = "serve" /\ pc' \in {"load", "timers"}
    BY <1>5 DEF LoopServe, taskVars
  <2>2. ASSUME index # {} PROVE BitRequest(Lowest(index)) \in Message
    <3>1. Lowest(index) \in Bits
      BY <2>2, LowestIn DEF TypeOK
    <3>2. BitRange[Lowest(index)] \in Ranges
      BY <3>1, BitTypes
    <3>3. image[BitRange[Lowest(index)]] \in Content
      BY <3>2 DEF TypeOK
    <3> QED BY <3>2, <3>3, MessageTypes DEF BitRequest, Ops
  <2>3. \/ toUnit' = toUnit /\ pending' = pending
        \/ ~pending /\ pending' /\ Len(toUnit') \in Nat /\ Len(toUnit') <= Len(toUnit) + 1
    BY <1>0, <1>5, <2>2, SendLength DEF LoopServe
  <2>4. \/ UnderWay' = UnderWay /\ pending' = pending
        \/ ~pending /\ pending' /\ UnderWay' \in Nat /\ UnderWay' <= UnderWay + 1
    BY <1>n, <2>1, <2>3 DEF UnderWay
  <2> QED BY <1>n, <1>a, <2>1, <2>4 DEF Outstanding
<1>6. CASE LoopOr \/ LoopLoad \/ LoopStore
  <2>1. /\ wbm' = wbm /\ pending' = pending /\ UNCHANGED <<toUnit, fromUnit>>
        /\ pc # "timers" /\ pc' \notin {"limit"}
    BY <1>6 DEF LoopOr, LoopLoad, LoopStore, taskVars, lineVars
  <2> QED BY <1>a, <2>1 DEF Outstanding, UnderWay
<1> QED BY <1>1, <1>2, <1>3, <1>4, <1>5, <1>6 DEF Loop

\* The wire: nothing is added but what is counted, and no answer outlives the
\* time-out of a stage of the bring-up.
LEMMA OutstandingEnvironment ==
  ASSUME TypeOK, Outstanding, Environment, Latency # "any"
  PROVE  Outstanding'
<1> USE WireNumbers, DataAssumption, TimeAssumption
    DEF Outstanding, UnderWay, InTime, lineVars, unitVars, EnvFrame, taskVars, loopVars,
        timeVars, TimedOut
<1>0. toUnit \in Seq(Message) /\ fromUnit \in Seq(Message)
      /\ spent \in [Disturbances -> Nat]
  BY DEF TypeOK
<1>1. CASE Tick
  <2>1. wbm = "Communicating" /\ tGlobal' >= Timeout =>
          tGlobal >= Timeout \/ (toUnit = <<>> /\ fromUnit = <<>>)
    BY <1>1 DEF Tick, WireAllows, Aged, TypeOK
  <2>2. toUnit = <<>> /\ fromUnit = <<>> => Len(toUnit) = 0 /\ Len(fromUnit) = 0
    OBVIOUS
  <2>3. InTime => InTime'
    BY <1>1 DEF Tick, Aged, TypeOK
  <2>4. Stray' = Stray
    BY <1>1 DEF Tick, Stray, Wraps
  <2>5. UNCHANGED <<wbm, currentState, pc, pending, toUnit, fromUnit>>
    BY <1>1 DEF Tick
  <2> HIDE DEF InTime
  <2> QED BY <2>1, <2>2, <2>3, <2>4, <2>5
<1>2. CASE ClockWrap
  <2>1. Stray' = Stray + 1
    BY <1>0, <1>2, StrayGrows DEF ClockWrap
  <2> QED BY <1>2, <2>1 DEF ClockWrap
<1>3. CASE UnitAnswers
  <2>1. Len(toUnit') = Len(toUnit) - 1 /\ Len(fromUnit') = Len(fromUnit) + 1
    BY <1>0, <1>3 DEF UnitAnswers
  <2>2. Stray' = Stray
    BY <1>3 DEF UnitAnswers, Stray, Wraps
  <2> QED BY <1>3, <2>1, <2>2 DEF UnitAnswers
<1>4. CASE LineFails
  <2>1. Garbage \in Message
    BY MessageTypes DEF Garbage, Ops, Ranges, Counted
  <2>2. \A q \in Seq(Message) : q # <<>> => /\ Tail(q) \in Seq(Message)
                                            /\ Len(Tail(q)) = Len(q) - 1
    OBVIOUS
  <2>3. fromUnit # <<>> => Len(<<Garbage>> \o Tail(fromUnit)) = Len(fromUnit)
    BY <1>0, <2>1, <2>2
  <2>4. /\ Len(toUnit') <= Len(toUnit) /\ Len(toUnit') \in Nat
        /\ Len(fromUnit') <= Len(fromUnit) /\ Len(fromUnit') \in Nat
    <3>1. toUnit' = toUnit \/ (toUnit # <<>> /\ toUnit' = Tail(toUnit))
      BY <1>4, Zenon DEF LineFails
    <3>2. \/ fromUnit' = fromUnit
          \/ fromUnit # <<>> /\ fromUnit' = Tail(fromUnit)
          \/ fromUnit # <<>> /\ fromUnit' = <<Garbage>> \o Tail(fromUnit)
      BY <1>4, Zenon DEF LineFails
    <3>3. Len(toUnit') <= Len(toUnit) /\ Len(toUnit') \in Nat
      BY <1>0, <2>2, <3>1
    <3>4. Len(fromUnit') <= Len(fromUnit) /\ Len(fromUnit') \in Nat
      BY <1>0, <2>2, <2>3, <3>2
    <3> QED BY <3>3, <3>4
  <2>5. Stray' = Stray
    BY <1>0, <1>4, StrayGrows DEF LineFails
  <2>6. UNCHANGED <<wbm, currentState, pc, slack, tGlobal, pending>>
    BY <1>4 DEF LineFails
  <2> HIDE DEF TimedOut, InTime
  <2>7. (TimedOut' <=> TimedOut) /\ (InTime' <=> InTime)
    BY <2>6 DEF TimedOut, InTime
  <2> QED BY <2>4, <2>5, <2>6, <2>7
<1>5. CASE Noise \/ UnitAnnounces
  <2>1. Len(fromUnit') = Len(fromUnit) + 1
    BY <1>0, <1>5 DEF Noise, UnitAnnounces, Spontaneous
  <2>2. Stray' = Stray + 1
    BY <1>0, <1>5, StrayGrows DEF Noise, UnitAnnounces, Spontaneous
  <2> QED BY <1>5, <2>1, <2>2 DEF Noise, UnitAnnounces, Spontaneous
<1>6. ASSUME NEW r \in PanelRanges, PanelEdits(r) PROVE Outstanding'
  <2>1. Stray' = Stray
    BY <1>0, <1>6, StrayGrows DEF PanelEdits
  <2> QED BY <1>6, <2>1 DEF PanelEdits
<1>7. CASE UnitSwitched
  <2>1. Len(toUnit') = 0 /\ Stray' = Stray
    BY <1>7 DEF UnitSwitched, Stray, Wraps
  <2> QED BY <1>7, <2>1 DEF UnitSwitched
<1> QED BY <1>1, <1>2, <1>3, <1>4, <1>5, <1>6, <1>7 DEF Environment

\* The protocol is half duplex whatever is lost or damaged, provided answers
\* that come at all come within the time-out while the link comes up; a clock
\* that wraps adds one frame at most each time.
THEOREM LinkIsHalfDuplex ==
  ASSUME Latency # "any"
  PROVE  Spec => []HalfDuplex
<1>1. TypeOK /\ LinkTimes /\ Outstanding /\ [Next]_vars => Outstanding'
  <2> SUFFICES ASSUME TypeOK, LinkTimes, Outstanding, [Next]_vars PROVE Outstanding'
    OBVIOUS
  <2>1. CASE UnitTask
    BY <2>1, OutstandingHandshake, OutstandingLoop DEF UnitTask
  <2>2. CASE \E a \in Apps : AppReads(a) \/ AppTask(a)
    <3> PICK a \in Apps : AppReads(a) \/ AppTask(a)
      BY <2>2
    <3>1. UNCHANGED <<taskVars, pc, pending, timeVars, slack, lineVars>>
      BY DEF AppReads, AppTask, AppCopies, AppLoads, AppStores, AppFrame
    <3>2. Stray' = Stray
      <4>1. spent' = spent \/ Bounded("app", MaxApp)
        BY DEF AppReads, AppTask, AppCopies, AppLoads, AppStores
      <4> QED BY <4>1, StrayGrows DEF TypeOK, Stray, Wraps
    <3> QED BY <3>1, <3>2 DEF Outstanding, UnderWay, InTime, TimedOut, taskVars, timeVars, lineVars
  <2>3. CASE Environment
    BY <2>3, OutstandingEnvironment
  <2>4. CASE UNCHANGED vars
    BY <2>4 DEF vars, taskVars, loopVars, timeVars, lineVars, unitVars,
                Outstanding, UnderWay, Stray, Wraps, InTime, TimedOut
  <2> QED BY <2>1, <2>2, <2>3, <2>4 DEF Next
<1>2. TypeOK /\ Outstanding => HalfDuplex
  BY WireNumbers DEF Outstanding, HalfDuplex, UnderWay, Stray
<1>3. TypeOK /\ LinkTimes /\ [Next]_vars => LinkTimes'
  BY LinkTimesStep
<1> QED BY <1>1, <1>2, <1>3, TypeCorrect, LinkTimesInit, OutstandingInit, PTL DEF Spec

-----------------------------------------------------------------------------
(* The link implements LinkLifecycle                                        *)

\* Where the search stands in each of its stages, and that only a task that
\* is connected, or was, has reported RUNTIME_READY.
Rounds ==
  /\ wbm = "initialize" => currentState = "Init"
  /\ wbm = "Connected" => ready
  /\ wbm \in {"initialize", "Communicating"} => ~ready
  /\ wbm \in {"initialize", "Communicating"} =>
       /\ currentState = "Init" => retriesCounter = 0
       /\ currentState = "LinkConnecting" => retriesCounter \in {0, 1}
       /\ currentState = "TrySerialLink" => retriesCounter \in {1, 2}
       /\ currentState \in SearchStages => ~foundComLink
  /\ wbm = "Error" => retriesCounter = 0

LEMMA RoundsInit == Init => Rounds
  BY DEF Init, Rounds

\* The abstract variables depend on five of the link's and one count.
LEMMA MappedUnchanged ==
  ASSUME UNCHANGED <<wbm, currentState, baud, retriesCounter, ready>>,
         spent'["blind"] = spent["blind"]
  PROVE  UNCHANGED Lifecycle!vars
  BY DEF Lifecycle!vars, Phase, Rate

LEMMA LifecycleInit == Init => Lifecycle!Init
<1> SUFFICES ASSUME Init PROVE Lifecycle!Init
  OBVIOUS
<1>1. Phase = "off" /\ Rate = "fast" /\ StagesDone(currentState) = 0
  BY DEF Init, Phase, Rate, StagesDone
<1>2. ~(spent["blind"] > 0)
  BY DEF Init, Disturbances
<1> QED BY <1>1, <1>2 DEF Init, Lifecycle!Init

\* Each stage of the bring-up is a step of the abstract link, or none.
LEMMA LifecycleHandshake ==
  ASSUME TypeOK, Rounds, Initialize \/ Handshake \/ ErrorPass
  PROVE  Rounds' /\ [Lifecycle!Next]_Lifecycle!vars
<1> USE DEF Rounds, InStage, SearchStages
<1>b. spent' = spent
  BY DEF Initialize, Handshake, LinkInit, LinkConnecting, TryAgain, FallBack, TryReceive,
         LinkConnected, ReadSection, LastPoll, HandshakeFails, EnterConnected, BootloaderPass,
         ErrorPass, unitVars
<1>s. ASSUME UNCHANGED <<wbm, currentState, baud, retriesCounter, ready, foundComLink>>
      PROVE  Rounds' /\ [Lifecycle!Next]_Lifecycle!vars
  BY <1>b, <1>s, MappedUnchanged
<1>1. CASE Initialize
  <2>1. Phase = "off" /\ Phase' = "searching"
    BY <1>1 DEF Initialize, Phase
  <2>2. Lifecycle!Start
    BY <1>b, <1>1, <2>1 DEF Initialize, Lifecycle!Start, Rate, TypeOK
  <2> QED BY <1>1, <2>2 DEF Initialize, Lifecycle!Next
<1>2. CASE LinkInit
  <2>1. UNCHANGED <<Phase, Rate, StagesDone(currentState), retriesCounter, ready>>
    BY <1>2 DEF LinkInit, Phase, Rate, StagesDone
  <2> QED BY <1>b, <1>2, <2>1 DEF LinkInit, Lifecycle!vars
<1>3. CASE LinkConnecting
  <2>1. retriesCounter < 2 /\ ~foundComLink /\ retriesCounter' = retriesCounter + 1
    BY <1>3 DEF LinkConnecting
  <2>2. Phase = "searching" /\ Phase' = "searching"
        /\ UNCHANGED <<Rate, StagesDone(currentState)>>
    BY <1>3 DEF LinkConnecting, Phase, Rate, StagesDone
  <2>3. Lifecycle!Ask
    BY <1>b, <1>3, <2>1, <2>2 DEF LinkConnecting, Lifecycle!Ask
  <2> QED BY <1>3, <2>1, <2>3 DEF LinkConnecting, Lifecycle!Next
<1>4. CASE TryAgain
  <2>1. UNCHANGED <<Phase, Rate, StagesDone(currentState), retriesCounter, ready>>
    BY <1>4 DEF TryAgain, Phase, Rate, StagesDone
  <2> QED BY <1>b, <1>4, <2>1 DEF TryAgain, Lifecycle!vars
<1>5. CASE FallBack
  <2>1. Phase = "searching" /\ Phase' = "searching" /\ Rate' = "slow"
        /\ StagesDone(currentState)' = StagesDone(currentState)
    BY <1>5 DEF FallBack, Phase, Rate, StagesDone
  <2>2. Lifecycle!SlowDown
    BY <1>b, <1>5, <2>1 DEF FallBack, Lifecycle!SlowDown
  <2> QED BY <1>5, <2>2 DEF FallBack, Lifecycle!Next
<1>6. CASE TryReceive
  <2>1. CASE currentState' = currentState
    BY <1>s, <1>6, <2>1 DEF TryReceive
  <2>2. CASE currentState' # currentState
    <3>1. currentState' \in {"Bootloader_State", "LinkConnected"}
      BY <1>6, <2>2 DEF TryReceive
    <3>2. Phase = "searching" /\ Phase' \in {"reading", "bootloader"}
          /\ UNCHANGED <<Rate, StagesDone(currentState)>>
      BY <1>6, <3>1 DEF TryReceive, Phase, Rate, StagesDone
    <3>3. Lifecycle!Found
      BY <1>b, <1>6, <3>2 DEF TryReceive, Lifecycle!Found
    <3> QED BY <1>6, <3>1, <3>3 DEF TryReceive, Lifecycle!Next
  <2> QED BY <2>1, <2>2
<1>7. CASE LinkConnected
  <2>1. UNCHANGED <<Phase, Rate, StagesDone(currentState), retriesCounter, ready>>
    BY <1>7 DEF LinkConnected, Phase, Rate, StagesDone
  <2> QED BY <1>b, <1>7, <2>1 DEF LinkConnected, Lifecycle!vars
<1>8. ASSUME NEW s \in ReadStages, ReadSection(s)
      PROVE  Rounds' /\ [Lifecycle!Next]_Lifecycle!vars
  <2>1. CASE currentState' = currentState
    BY <1>s, <1>8, <2>1 DEF ReadSection
  <2>2. CASE currentState' # currentState
    <3>1. currentState = s /\ currentState' = StageNext[s]
      BY <1>8, <2>2 DEF ReadSection
    <3>2. s \in {"ReadEeprom_Info", "ReadEeprom_Configuration", "ReadEeprom_SettingPar",
                "ReadEeprom_SetTemp", "ReadEeprom_DayProg", "ReadEeprom_HWSetting"}
      BY DEF ReadStages, StageRange
    <3>3. StagesDone(currentState) < 7
          /\ StagesDone(currentState)' = StagesDone(currentState) + 1
      BY <3>1, <3>2 DEF StagesDone, StageNext
    <3>4. Phase = "reading" /\ Phase' = "reading" /\ UNCHANGED Rate
      BY <1>8, <3>1, <3>2 DEF ReadSection, Phase, Rate, StageNext
    <3>5. Lifecycle!Read
      BY <1>b, <1>8, <3>3, <3>4 DEF ReadSection, Lifecycle!Read
    <3> QED BY <1>8, <3>1, <3>2, <3>5 DEF ReadSection, StageNext, Lifecycle!Next
  <2> QED BY <2>1, <2>2
<1>9. CASE LastPoll
  <2>1. CASE currentState' = currentState
    BY <1>s, <1>9, <2>1 DEF LastPoll
  <2>2. CASE currentState' # currentState
    <3>1. currentState' = "Connected"
      BY <1>9, <2>2 DEF LastPoll
    <3>2. StagesDone(currentState) = 6 /\ StagesDone(currentState)' = 7
      BY <1>9, <3>1 DEF LastPoll, StagesDone
    <3>3. Phase = "reading" /\ Phase' = "reading" /\ UNCHANGED Rate
      BY <1>9, <3>1 DEF LastPoll, Phase, Rate
    <3>4. Lifecycle!Read
      BY <1>b, <1>9, <3>2, <3>3 DEF LastPoll, Lifecycle!Read
    <3> QED BY <1>9, <3>1, <3>4 DEF LastPoll, Lifecycle!Next
  <2> QED BY <2>1, <2>2
<1>10. CASE HandshakeFails
  <2>1. currentState \in {"ReadEeprom_Info", "ReadEeprom_Configuration",
           "ReadEeprom_SettingPar", "ReadEeprom_SetTemp", "ReadEeprom_DayProg",
           "ReadEeprom_HWSetting", "PollingBase"}
    BY <1>10 DEF HandshakeFails, ReadStages, StageRange
  <2>2. StagesDone(currentState) < 7 /\ UNCHANGED StagesDone(currentState)
    BY <1>10, <2>1 DEF HandshakeFails, StagesDone
  <2>3. Phase = "reading" /\ Phase' = "failed" /\ UNCHANGED Rate
    BY <1>10, <2>1 DEF HandshakeFails, Phase, Rate
  <2>4. Lifecycle!GiveUp
    BY <1>b, <1>10, <2>2, <2>3 DEF HandshakeFails, Lifecycle!GiveUp
  <2> QED BY <1>10, <2>4 DEF HandshakeFails, Lifecycle!Next
<1>11. CASE EnterConnected
  <2>1. Phase = "reading" /\ Phase' = "up" /\ UNCHANGED Rate
        /\ StagesDone(currentState) = 7 /\ UNCHANGED StagesDone(currentState)
    BY <1>11 DEF EnterConnected, Phase, Rate, StagesDone
  <2>2. Lifecycle!ComesUp
    BY <1>b, <1>11, <2>1 DEF EnterConnected, Lifecycle!ComesUp
  <2> QED BY <1>11, <2>2 DEF EnterConnected, Lifecycle!Next
<1>12. CASE BootloaderPass
  BY <1>s, <1>12 DEF BootloaderPass, taskVars
<1>13. CASE ErrorPass
  <2>1. /\ UNCHANGED <<wbm, currentState, baud, retriesCounter, foundComLink>>
        /\ wbm = "Error" /\ ready' = FALSE
    BY <1>13 DEF ErrorPass
  <2>2. CASE ready
    <3>1. Phase = "failed" /\ UNCHANGED <<Phase, Rate, StagesDone(currentState)>>
      BY <2>1 DEF Phase, Rate
    <3>2. Lifecycle!Withdraw
      BY <1>b, <2>1, <2>2, <3>1 DEF Lifecycle!Withdraw
    <3> QED BY <2>1, <3>2 DEF Lifecycle!Next
  <2>3. CASE ~ready
    <3>1. ready = FALSE
      BY <2>3 DEF TypeOK
    <3> QED BY <1>s, <2>1, <3>1
  <2> QED BY <2>2, <2>3
<1> QED
  BY <1>1, <1>2, <1>3, <1>4, <1>5, <1>6, <1>7, <1>8, <1>9, <1>10, <1>11, <1>12, <1>13
  DEF Handshake

\* The other steps leave the abstract link alone, but for a wrap of the clock
\* and the time-out that may follow a blind one.
LEMMA LifecycleElse ==
  ASSUME TypeOK, LinkTimes, Rounds,
         \/ Loop \/ UNCHANGED vars \/ Environment
         \/ (\E a \in Apps : AppReads(a) \/ AppTask(a))
  PROVE  Rounds' /\ [Lifecycle!Next]_Lifecycle!vars
<1>n. spent \in [Disturbances -> Nat] /\ spent["blind"] \in Nat
  BY DEF TypeOK, Disturbances
<1>k. "blind" \in Disturbances /\ {"loss", "noise", "boot", "panel", "app"} \subseteq Disturbances
  BY DEF Disturbances
<1>s. ASSUME UNCHANGED <<wbm, currentState, baud, retriesCounter, ready, foundComLink>>,
             spent'["blind"] = spent["blind"]
      PROVE  Rounds' /\ [Lifecycle!Next]_Lifecycle!vars
  BY <1>s, MappedUnchanged DEF Rounds
<1>1. CASE LoopLimit
  <2>1. /\ UNCHANGED <<currentState, baud, ready, foundComLink, spent>>
        /\ wbm \notin {"initialize", "Communicating"}
        /\ \/ TimedOut /\ wbm' = "Error" /\ retriesCounter' = 0
           \/ UNCHANGED <<wbm, retriesCounter>>
    BY <1>1 DEF LoopLimit, unitVars, LinkTimes
  <2>2. CASE UNCHANGED <<wbm, retriesCounter>>
    BY <1>s, <2>1, <2>2
  <2>3. CASE wbm = "Connected" /\ TimedOut /\ wbm' = "Error" /\ retriesCounter' = 0
    <3>1. spent["blind"] > 0
      BY <1>1, <2>3, NotTimedOut DEF LinkTimes, LoopLimit
    <3>2. Phase = "up" /\ Phase' = "failed" /\ UNCHANGED <<Rate, StagesDone(currentState)>>
      BY <2>1, <2>3 DEF Phase, Rate
    <3>3. Lifecycle!Lose
      BY <2>1, <2>3, <3>1, <3>2 DEF Lifecycle!Lose
    <3> QED BY <2>1, <2>3, <3>3 DEF Lifecycle!Next, Rounds
  <2>4. CASE wbm = "Error" /\ wbm' = "Error" /\ retriesCounter' = 0
    <3>1. retriesCounter = 0
      BY <2>4 DEF Rounds
    <3> QED BY <1>s, <2>1, <2>4, <3>1
  <2>5. wbm \in {"Connected", "Error"}
    BY <2>1 DEF TypeOK
  <2> QED BY <2>1, <2>2, <2>3, <2>4, <2>5
<1>2. CASE LoopDebug \/ LoopBase \/ LoopRead \/ LoopOr \/ LoopServe \/ LoopLoad \/ LoopStore
  BY <1>2, <1>s, Zenon DEF LoopDebug, LoopBase, LoopRead, LoopOr, LoopServe, LoopLoad, LoopStore,
                         taskVars, unitVars
<1>3. CASE UNCHANGED vars
  BY <1>3, <1>s DEF vars, taskVars, unitVars
<1>4. CASE ClockWrap
  <2>1. UNCHANGED <<wbm, currentState, baud, retriesCounter, ready, foundComLink>>
    BY <1>4 DEF ClockWrap, EnvFrame, taskVars
  <2>2. spent'["blind"] \in {spent["blind"], spent["blind"] + 1}
    BY <1>4, <1>n, <1>k, SpentSteps
  <2>3. CASE spent["blind"] > 0 \/ spent'["blind"] = spent["blind"]
    <3>1. (spent'["blind"] > 0) = (spent["blind"] > 0)
      BY <1>n, <2>2, <2>3
    <3>2. UNCHANGED Lifecycle!vars
      BY <2>1, <3>1 DEF Lifecycle!vars, Phase, Rate
    <3> QED BY <2>1, <3>2 DEF Rounds
  <2>4. CASE ~(spent["blind"] > 0) /\ spent'["blind"] = spent["blind"] + 1
    <3>1. ~(spent["blind"] > 0) /\ spent'["blind"] > 0
      BY <1>n, <2>4
    <3>2. UNCHANGED <<Phase, Rate, StagesDone(currentState)>>
      BY <2>1 DEF Phase, Rate
    <3>3. Lifecycle!ClockSlips
      BY <2>1, <3>1, <3>2 DEF Lifecycle!ClockSlips
    <3> QED BY <2>1, <3>3 DEF Rounds, Lifecycle!Next
  <2> QED BY <2>2, <2>3, <2>4
<1>5. CASE Tick \/ UnitAnswers \/ LineFails \/ Noise \/ UnitAnnounces
           \/ (\E r \in PanelRanges : PanelEdits(r)) \/ UnitSwitched
  <2>1. UNCHANGED <<wbm, currentState, baud, retriesCounter, ready, foundComLink>>
    BY <1>5 DEF Tick, UnitAnswers, LineFails, Noise, UnitAnnounces, Spontaneous, PanelEdits,
                UnitSwitched, EnvFrame, taskVars
  <2>2. \/ spent' = spent
        \/ \E max : \E kind \in {"loss", "noise", "boot", "panel"} : Bounded(kind, max)
    BY <1>5 DEF Tick, UnitAnswers, LineFails, Noise, UnitAnnounces, Spontaneous, PanelEdits,
                UnitSwitched, unitVars
  <2>3. spent'["blind"] = spent["blind"]
    BY <1>n, <1>k, <2>2, SpentSteps
  <2> QED BY <1>s, <2>1, <2>3
<1>6. CASE \E a \in Apps : AppReads(a) \/ AppTask(a)
  <2>1. UNCHANGED <<wbm, currentState, baud, retriesCounter, ready, foundComLink>>
    BY <1>6 DEF AppReads, AppTask, AppCopies, AppLoads, AppStores, AppFrame, taskVars
  <2>2. spent' = spent \/ Bounded("app", MaxApp)
    BY <1>6 DEF AppReads, AppTask, AppCopies, AppLoads, AppStores
  <2>3. spent'["blind"] = spent["blind"]
    BY <1>n, <1>k, <2>2, SpentSteps
  <2> QED BY <1>s, <2>1, <2>3
<1> QED BY <1>1, <1>2, <1>3, <1>4, <1>5, <1>6 DEF Loop, Environment

\* The link as it is coded implements the abstract one: it is up, and the app
\* is promised data, only after a board has answered a poll and every section
\* was read in the stages' order; the slow rate is never left, and neither is
\* a link that has failed or the bootloader's; a link that is up is left only
\* after a blind wrap of the clock.
THEOREM LinkIsALifecycle == Spec => LifecycleKept
<1>1. TypeOK /\ LinkTimes /\ Rounds /\ [Next]_vars => Rounds' /\ [Lifecycle!Next]_Lifecycle!vars
  BY LifecycleHandshake, LifecycleElse DEF Next, UnitTask
<1>2. TypeOK /\ LinkTimes /\ [Next]_vars => LinkTimes'
  BY LinkTimesStep
<1> QED BY <1>1, <1>2, TypeCorrect, LinkTimesInit, RoundsInit, LifecycleInit, PTL
        DEF Spec, LifecycleKept, Lifecycle!Safe

-----------------------------------------------------------------------------
(* A ready image shows the unit                                             *)

\* A frame is anything but noise.
NoFrame(q)  == \A i \in 1 .. Len(q) : q[i].op = "Garbage"
OneFrame(q) == \A i, j \in 1 .. Len(q) :
                 q[i].op # "Garbage" /\ q[j].op # "Garbage" => i = j
Messages(q) == {q[i] : i \in 1 .. Len(q)}

\* Every range holds what the unit may hold.
Sound(f) == \A r \in Ranges : f[r].val \in Values

\* What a stage of the bring-up that waits for an answer may find.
Awaited(m) ==
  /\ wbm = "Communicating" /\ ~TimedOut
  /\ \/ currentState \in {"TrySerialLink", "PollingBase"} /\ m.op = "Poll"
     \/ currentState \in ReadStages /\ m.op = "Read" /\ m.range = StageRange[currentState]

\* The ranges that were read when the link is in a stage of the bring-up.
RangesRead(s) == {StageRange[t] : t \in {u \in ReadStages : StagesDone(u) < StagesDone(s)}}

BringsUp == wbm \in {"initialize", "Communicating"}

\* While the link comes up one frame at most is under way, the one awaited.
AnswersFit ==
  BringsUp =>
    /\ Len(toUnit) <= 1 /\ (toUnit # <<>> => NoFrame(fromUnit)) /\ OneFrame(fromUnit)
    /\ \A m \in Messages(toUnit) \cup Messages(fromUnit) : m.op # "Garbage" => Awaited(m)

\* What is written to the unit, or read from it, is sound.
TrafficSound ==
  /\ Sound(unit)
  /\ \A m \in Messages(toUnit) : /\ m.op \in {"Poll", "Debug", "Read", "Write"}
                                 /\ m.op = "Write" => m.data.val \in Values
  /\ \A m \in Messages(fromUnit) : m.op = "Read" => m.data.val \in Values

\* The image is sound range by range as the bring-up reads it, and whole
\* afterwards.
ImageFits ==
  /\ BringsUp => ~ready /\ pc = "timers"
  /\ wbm = "Communicating" =>
       \A r \in RangesRead(currentState) : image[r].val \in Values
  /\ wbm = "Connected" \/ ready \/ pc # "timers" => Sound(image)
  /\ \A a \in Apps : appPc[a] = "editing" => Sound(appCopy[a])

Undisturbed == spent["boot"] = 0 /\ Wraps = 0
SoundInv == Undisturbed => AnswersFit /\ TrafficSound /\ ImageFits

\* Adding a message and taking the first one.
LEMMA WireAppend ==
  ASSUME NEW q \in Seq(Message), NEW m \in Message
  PROVE  /\ Messages(Append(q, m)) = Messages(q) \cup {m}
         /\ NoFrame(q) => OneFrame(Append(q, m))
         /\ m.op = "Garbage" /\ NoFrame(q) => NoFrame(Append(q, m))
         /\ m.op = "Garbage" /\ OneFrame(q) => OneFrame(Append(q, m))
<1> DEFINE a == Append(q, m)
<1>1. /\ Len(a) = Len(q) + 1 /\ a[Len(q) + 1] = m /\ Len(q) \in Nat
      /\ \A i \in 1 .. Len(q) : a[i] = q[i]
  OBVIOUS
<1> HIDE DEF a
<1>2. Messages(a) = Messages(q) \cup {m}
  BY <1>1 DEF Messages
<1>3. NoFrame(q) => OneFrame(a)
  BY <1>1 DEF NoFrame, OneFrame
<1>4. m.op = "Garbage" /\ NoFrame(q) => NoFrame(a)
  BY <1>1 DEF NoFrame
<1>5. m.op = "Garbage" /\ OneFrame(q) => OneFrame(a)
  BY <1>1 DEF OneFrame
<1> QED BY <1>2, <1>3, <1>4, <1>5 DEF a

LEMMA WireTail ==
  ASSUME NEW q \in Seq(Message), q # <<>>
  PROVE  /\ Head(q) \in Messages(q) /\ Messages(Tail(q)) \subseteq Messages(q)
         /\ Tail(q) \in Seq(Message) /\ Len(Tail(q)) = Len(q) - 1
         /\ NoFrame(q) => NoFrame(Tail(q))
         /\ OneFrame(q) => OneFrame(Tail(q))
         /\ OneFrame(q) /\ Head(q).op # "Garbage" => NoFrame(Tail(q))
<1> DEFINE t == Tail(q)
<1>1. /\ t \in Seq(Message) /\ Len(t) = Len(q) - 1 /\ Head(q) = q[1] /\ Len(q) \in Nat \ {0}
      /\ \A i \in 1 .. Len(t) : t[i] = q[i + 1]
  OBVIOUS
<1> HIDE DEF t
<1>2. Head(q) \in Messages(q) /\ Messages(t) \subseteq Messages(q)
  BY <1>1 DEF Messages
<1>3. NoFrame(q) => NoFrame(t)
  BY <1>1 DEF NoFrame
<1>4. OneFrame(q) => OneFrame(t)
  <2> SUFFICES ASSUME OneFrame(q), NEW i \in 1 .. Len(t), NEW j \in 1 .. Len(t),
                      t[i].op # "Garbage", t[j].op # "Garbage"
               PROVE  i = j
    BY DEF OneFrame
  <2>1. i + 1 \in 1 .. Len(q) /\ j + 1 \in 1 .. Len(q) /\ t[i] = q[i + 1] /\ t[j] = q[j + 1]
    BY <1>1
  <2>2. i + 1 = j + 1
    BY <2>1 DEF OneFrame
  <2> QED BY <2>2
<1>5. OneFrame(q) /\ Head(q).op # "Garbage" => NoFrame(t)
  <2> SUFFICES ASSUME OneFrame(q), q[1].op # "Garbage", NEW i \in 1 .. Len(t),
                      t[i].op # "Garbage"
               PROVE  FALSE
    BY <1>1 DEF NoFrame
  <2>1. i + 1 \in 1 .. Len(q) /\ 1 \in 1 .. Len(q) /\ i + 1 # 1 /\ t[i] = q[i + 1]
    BY <1>1
  <2> QED BY <2>1 DEF OneFrame
<1> QED BY <1>1, <1>2, <1>3, <1>4, <1>5 DEF t

\* The first message arrives damaged.
LEMMA WireDamaged ==
  ASSUME NEW q \in Seq(Message), q # <<>>
  PROVE  /\ Messages(<<Garbage>> \o Tail(q)) \subseteq Messages(q) \cup {Garbage}
         /\ NoFrame(q) => NoFrame(<<Garbage>> \o Tail(q))
         /\ OneFrame(q) => OneFrame(<<Garbage>> \o Tail(q))
<1> DEFINE d == <<Garbage>> \o Tail(q)
<1>1. Garbage \in Message /\ Garbage.op = "Garbage"
  BY MessageTypes DEF Garbage, Request, Ops, Ranges, Counted
<1>2. Tail(q) \in Seq(Message) /\ Len(Tail(q)) = Len(q) - 1 /\ Len(q) \in Nat \ {0}
  OBVIOUS
<1>3. \A i \in 1 .. Len(Tail(q)) : Tail(q)[i] = q[i + 1]
  OBVIOUS
<1>4. /\ Len(d) = Len(q) /\ d[1] = Garbage
      /\ \A i \in 2 .. Len(q) : d[i] = Tail(q)[i - 1]
  BY <1>1, <1>2
<1>5. \A i \in 2 .. Len(q) : d[i] = q[i]
  BY <1>2, <1>3, <1>4
<1> HIDE DEF d
<1>6. \A i \in 1 .. Len(d) : d[i] = Garbage \/ d[i] = q[i]
  BY <1>4, <1>5
<1>7. Messages(d) \subseteq Messages(q) \cup {Garbage}
  BY <1>4, <1>6 DEF Messages
<1>8. NoFrame(q) => NoFrame(d)
  BY <1>1, <1>4, <1>6 DEF NoFrame
<1>9. OneFrame(q) => OneFrame(d)
  BY <1>1, <1>4, <1>6 DEF OneFrame
<1> QED BY <1>7, <1>8, <1>9 DEF d

\* The handshake reads every range before it asks for the last poll.
LEMMA StageOrder ==
  /\ \A s \in ReadStages :
       /\ RangesRead(StageNext[s]) \subseteq RangesRead(s) \cup {StageRange[s]}
       /\ StageNext[s] \in ReadStages \cup {"PollingBase"}
  /\ Ranges \subseteq RangesRead("PollingBase")
  /\ RangesRead("Connected") \subseteq RangesRead("PollingBase")
  /\ RangesRead("PollingBase") \subseteq RangesRead("Connected")
  /\ \A s \in {"Init", "LinkConnecting", "TrySerialLink", "LinkConnected", "Bootloader_State",
               "ReadEeprom_Info"} : RangesRead(s) = {}
<1>1. ReadStages = {"ReadEeprom_Info", "ReadEeprom_Configuration", "ReadEeprom_SettingPar",
                    "ReadEeprom_SetTemp", "ReadEeprom_DayProg", "ReadEeprom_HWSetting"}
  BY DEF ReadStages, StageRange
<1>2. /\ StagesDone("ReadEeprom_Info") = 0 /\ StagesDone("ReadEeprom_Configuration") = 1
      /\ StagesDone("ReadEeprom_SettingPar") = 2 /\ StagesDone("ReadEeprom_SetTemp") = 3
      /\ StagesDone("ReadEeprom_DayProg") = 4 /\ StagesDone("ReadEeprom_HWSetting") = 5
      /\ StagesDone("PollingBase") = 6 /\ StagesDone("Connected") = 7
  BY DEF StagesDone
<1>3. \A s \in {"Init", "LinkConnecting", "TrySerialLink", "LinkConnected", "Bootloader_State"} :
        StagesDone(s) = 0
  BY DEF StagesDone
<1>4. \A s \in ReadStages : /\ StagesDone(s) \in 0 .. 5
                           /\ StagesDone(StageNext[s]) = StagesDone(s) + 1
                           /\ StageNext[s] \in ReadStages \cup {"PollingBase"}
  BY <1>1, <1>2 DEF StageNext
<1>5. \A s, t \in ReadStages : StagesDone(s) = StagesDone(t) => s = t
  BY <1>1, <1>2
<1>6. ASSUME NEW s \in ReadStages
      PROVE  RangesRead(StageNext[s]) \subseteq RangesRead(s) \cup {StageRange[s]}
  <2>1. \A t \in ReadStages : StagesDone(t) < StagesDone(StageNext[s])
                             => t = s \/ StagesDone(t) < StagesDone(s)
    BY <1>4, <1>5
  <2> HIDE DEF StageNext
  <2> QED BY <2>1 DEF RangesRead
<1>7. \A r \in Ranges : \E t \in ReadStages : StageRange[t] = r
  BY <1>1 DEF StageRange, Ranges, Counted
<1>8. \A t \in ReadStages : StagesDone(t) < StagesDone("PollingBase")
                         /\ StagesDone(t) < StagesDone("Connected")
  BY <1>2, <1>4
<1>9. \A s \in {"Init", "LinkConnecting", "TrySerialLink", "LinkConnected", "Bootloader_State",
               "ReadEeprom_Info"}, t \in ReadStages : ~(StagesDone(t) < StagesDone(s))
  BY <1>2, <1>3, <1>4
<1> QED BY <1>4, <1>6, <1>7, <1>8, <1>9 DEF RangesRead

\* Read_Message and Write_Message on the wire.
LEMMA SendSteps ==
  ASSUME TypeOK, NEW m \in Message, Send(m)
  PROVE  /\ Messages(toUnit') \subseteq Messages(toUnit) \cup {m}
         /\ Len(toUnit') <= Len(toUnit) + 1 /\ toUnit' \in Seq(Message)
<1>1. toUnit \in Seq(Message) /\ Len(toUnit) \in Nat
  BY DEF TypeOK
<1>2. toUnit' = toUnit \/ toUnit' = Append(toUnit, m)
  BY DEF Send
<1>3. Append(toUnit, m) \in Seq(Message) /\ Len(Append(toUnit, m)) = Len(toUnit) + 1
  BY <1>1
<1>4. Messages(Append(toUnit, m)) = Messages(toUnit) \cup {m}
  BY <1>1, WireAppend
<1>5. CASE toUnit' = toUnit
  BY <1>1, <1>5
<1>6. CASE toUnit' = Append(toUnit, m)
  BY <1>1, <1>3, <1>4, <1>6
<1> QED BY <1>2, <1>5, <1>6

LEMMA ReceiveSteps ==
  ASSUME TypeOK, Received \/ ReceivedBad \/ NothingYet
  PROVE  /\ Messages(fromUnit') \subseteq Messages(fromUnit)
         /\ NoFrame(fromUnit) => NoFrame(fromUnit')
         /\ OneFrame(fromUnit) => OneFrame(fromUnit')
         /\ Received => /\ Frame \in Messages(fromUnit) /\ Frame.op # "Garbage"
                        /\ OneFrame(fromUnit) => NoFrame(fromUnit')
<1>1. fromUnit \in Seq(Message)
  BY DEF TypeOK
<1>2. CASE NothingYet
  BY <1>2 DEF NothingYet, Received
<1>3. CASE Received \/ ReceivedBad
  <2>1. fromUnit # <<>> /\ fromUnit' = Tail(fromUnit)
    BY <1>3 DEF Received, ReceivedBad
  <2> QED BY <1>1, <2>1, WireTail DEF Received, Frame
<1> QED BY <1>2, <1>3

\* In a stage that awaits nothing, the wire carries noise at most.
LEMMA QuietWire ==
  ASSUME TypeOK, AnswersFit, TrafficSound, BringsUp,
         \A m \in Message : ~Awaited(m)
  PROVE  toUnit = <<>> /\ NoFrame(fromUnit)
<1>1. toUnit \in Seq(Message) /\ fromUnit \in Seq(Message)
  BY DEF TypeOK
<1>2. \A m \in Messages(toUnit) \cup Messages(fromUnit) : m \in Message
  BY <1>1 DEF Messages
<1>3. \A m \in Messages(toUnit) \cup Messages(fromUnit) : m.op = "Garbage"
  BY <1>2 DEF AnswersFit
<1>4. toUnit # <<>> => toUnit[1] \in Messages(toUnit)
  BY <1>1 DEF Messages
<1>5. toUnit = <<>>
  BY <1>3, <1>4 DEF TrafficSound
<1>6. NoFrame(fromUnit)
  BY <1>3 DEF NoFrame, Messages
<1> QED BY <1>5, <1>6

\* A frame that comes is the one awaited, and leaves noise at most.
LEMMA TheAnswer ==
  ASSUME TypeOK, AnswersFit, BringsUp, Received
  PROVE  /\ Awaited(Frame) /\ Frame \in Messages(fromUnit)
         /\ toUnit = <<>> /\ NoFrame(fromUnit')
<1>1. Frame \in Messages(fromUnit) /\ Frame.op # "Garbage"
  BY ReceiveSteps
<1>2. Awaited(Frame)
  BY <1>1 DEF AnswersFit
<1>3. ~NoFrame(fromUnit)
  BY <1>1 DEF NoFrame, Messages
<1>4. toUnit = <<>> /\ OneFrame(fromUnit)
  BY <1>3 DEF AnswersFit
<1> QED BY <1>1, <1>2, <1>4, ReceiveSteps

\* A quiet wire on which at most one request is sent, which is then awaited.
LEMMA AsksOnce ==
  ASSUME TypeOK, toUnit = <<>>, NoFrame(fromUnit'), fromUnit' \in Seq(Message),
         toUnit' = toUnit \/ \E m \in Message : Send(m) /\ Awaited(m)'
  PROVE  AnswersFit'
<1>1. OneFrame(fromUnit')
  BY DEF NoFrame, OneFrame
<1>2. \A m \in Messages(fromUnit') : m.op = "Garbage"
  BY DEF NoFrame, Messages
<1>3. Messages(<<>>) = {} /\ Len(<<>>) = 0
  BY DEF Messages
<1>4. CASE toUnit' = toUnit
  BY <1>1, <1>2, <1>3, <1>4 DEF AnswersFit
<1>5. ASSUME NEW m \in Message, Send(m), Awaited(m)' PROVE AnswersFit'
  <2>1. Messages(toUnit') \subseteq {m} /\ Len(toUnit') <= 1
    BY <1>3, <1>5, SendSteps
  <2> QED BY <1>1, <1>2, <1>5, <2>1 DEF AnswersFit
<1> QED BY <1>4, <1>5

\* Messages leave the wire while the stage stays the same.
LEMMA WireShrinks ==
  ASSUME TypeOK, AnswersFit, UNCHANGED <<wbm, currentState, tGlobal>>,
         toUnit' = toUnit, Received \/ ReceivedBad \/ NothingYet
  PROVE  AnswersFit'
<1>1. \A m : Awaited(m) => Awaited(m)'
  BY DEF Awaited, TimedOut
<1>2. BringsUp' <=> BringsUp
  BY DEF BringsUp
<1> HIDE DEF Awaited, BringsUp
<1>3. \A m \in Messages(toUnit') \cup Messages(fromUnit') :
        m \in Messages(toUnit) \cup Messages(fromUnit)
  BY ReceiveSteps
<1> QED BY <1>1, <1>2, <1>3, ReceiveSteps DEF AnswersFit

\* Polls and reads write nothing to the unit.
LEMMA TrafficKept ==
  ASSUME TypeOK, TrafficSound, unit' = unit,
         Messages(fromUnit') \subseteq Messages(fromUnit),
         \A m \in Messages(toUnit') \ Messages(toUnit) :
            \/ m.op \in {"Poll", "Debug", "Read"}
            \/ m.op = "Write" /\ m.data.val \in Values
  PROVE  TrafficSound'
<1>1. Sound(unit')
  BY DEF TrafficSound
<1>2. \A m \in Messages(toUnit') : /\ m.op \in {"Poll", "Debug", "Read", "Write"}
                                  /\ m.op = "Write" => m.data.val \in Values
  BY DEF TrafficSound
<1>3. \A m \in Messages(fromUnit') : m.op = "Read" => m.data.val \in Values
  BY DEF TrafficSound
<1> QED BY <1>1, <1>2, <1>3 DEF TrafficSound

LEMMA SoundInit == Init => SoundInv
<1> SUFFICES ASSUME Init PROVE AnswersFit /\ TrafficSound /\ ImageFits
  BY DEF SoundInv
<1>1. Messages(<<>>) = {} /\ Len(<<>>) = 0 /\ NoFrame(<<>>) /\ OneFrame(<<>>)
  BY DEF Messages, NoFrame, OneFrame
<1>2. AnswersFit
  BY <1>1 DEF Init, AnswersFit
<1>3. TrafficSound
  BY <1>1 DEF Init, TrafficSound, Sound
<1>4. ImageFits
  BY DEF Init, ImageFits, BringsUp
<1> QED BY <1>2, <1>3, <1>4

\* The bring-up: a stage asks on a quiet wire, and what comes is its range.
LEMMA SoundHandshake ==
  ASSUME TypeOK, SoundInv, Initialize \/ Handshake \/ ErrorPass
  PROVE  SoundInv'
<1> SUFFICES ASSUME AnswersFit, TrafficSound, ImageFits
             PROVE  AnswersFit' /\ TrafficSound' /\ ImageFits'
  <2>1. spent' = spent
    BY DEF Initialize, Handshake, ErrorPass, LinkInit, LinkConnecting, TryAgain, FallBack,
           TryReceive, LinkConnected, ReadSection, LastPoll, HandshakeFails, EnterConnected,
           BootloaderPass, unitVars
  <2> QED BY <2>1 DEF SoundInv, Undisturbed, Wraps
<1>0. /\ toUnit \in Seq(Message) /\ fromUnit \in Seq(Message) /\ 0 < Timeout
      /\ ~(0 >= Timeout)
  BY TimeAssumption DEF TypeOK
<1>a. UNCHANGED <<unit, spent, appPc, appCopy>> /\ fromUnit \in Seq(Message)
  BY <1>0 DEF Initialize, Handshake, ErrorPass, LinkInit, LinkConnecting, TryAgain, FallBack,
         TryReceive, LinkConnected, ReadSection, LastPoll, HandshakeFails, EnterConnected,
         BootloaderPass, unitVars, appVars
<1>b. wbm # "Connected" /\ (BringsUp => ~ready)
  BY DEF Initialize, Handshake, ErrorPass, LinkInit, LinkConnecting, TryAgain, FallBack,
         TryReceive, LinkConnected, ReadSection, LastPoll, HandshakeFails, EnterConnected,
         BootloaderPass, InStage, ImageFits
<1>c. \A a \in Apps : appPc[a] = "editing" => Sound(appCopy[a])
  BY DEF ImageFits
\* A stage that awaited nothing, and is left for one that awaits m.
<1>d. ASSUME BringsUp, \A m \in Message : ~Awaited(m), fromUnit' = fromUnit,
             toUnit' = toUnit \/ \E m \in {PollRequest, ReadRequest("Info")} :
                                   Send(m) /\ Awaited(m)'
      PROVE  AnswersFit' /\ TrafficSound'
  <2>1. toUnit = <<>> /\ NoFrame(fromUnit)
    BY <1>d, QuietWire
  <2>2. {PollRequest, ReadRequest("Info")} \subseteq Message
    BY MessageTypes DEF Ranges, Counted
  <2>3. AnswersFit'
    BY <1>0, <1>d, <2>1, <2>2, AsksOnce
  <2>4. \A m \in Messages(toUnit') \ Messages(toUnit) : m \in {PollRequest, ReadRequest("Info")}
    BY <1>d, <2>2, SendSteps
  <2>5. TrafficSound'
    BY <1>a, <1>d, <2>4, TrafficKept DEF PollRequest, ReadRequest, Request
  <2> QED BY <2>3, <2>5
\* A stage that goes on waiting.
<1>e. ASSUME UNCHANGED <<wbm, currentState, tGlobal, toUnit>>,
             Received \/ ReceivedBad \/ NothingYet
      PROVE  AnswersFit' /\ TrafficSound'
  <2>1. AnswersFit'
    BY <1>e, WireShrinks
  <2>2. TrafficSound'
    BY <1>a, <1>e, ReceiveSteps, TrafficKept
  <2> QED BY <2>1, <2>2
\* The image and the stages before the first range is read.
<1>f. ASSUME image' = image, pc' = pc, BringsUp, wbm' = "Communicating", ~ready',
             \A r \in RangesRead(currentState') : image[r].val \in Values
      PROVE  ImageFits'
  <2>1. pc' = "timers"
    BY <1>f DEF ImageFits
  <2> QED BY <1>a, <1>c, <1>f, <2>1 DEF ImageFits, BringsUp, Sound
<1>1. CASE Initialize
  <2>1. \A m \in Message : ~Awaited(m)
    BY <1>1 DEF Initialize, Awaited
  <2>2. AnswersFit' /\ TrafficSound'
    BY <1>1, <1>d, <2>1 DEF Initialize, BringsUp, lineVars
  <2>3. ImageFits'
    BY <1>1, <1>f, StageOrder DEF Initialize, BringsUp, loopVars
  <2> QED BY <2>2, <2>3
<1>2. CASE LinkInit
  <2>1. \A m \in Message : ~Awaited(m)
    BY <1>2 DEF LinkInit, InStage, Awaited, ReadStages, StageRange
  <2>2. AnswersFit' /\ TrafficSound'
    BY <1>2, <1>d, <2>1 DEF LinkInit, InStage, BringsUp, lineVars
  <2>3. ImageFits'
    BY <1>2, <1>b, <1>f, StageOrder DEF LinkInit, InStage, BringsUp, loopVars
  <2> QED BY <2>2, <2>3
<1>3. CASE LinkConnecting
  <2>1. \A m \in Message : ~Awaited(m)
    BY <1>3 DEF LinkConnecting, InStage, Awaited, ReadStages, StageRange
  <2>2. PollRequest.op = "Poll"
    BY DEF PollRequest, Request
  <2>3. toUnit' = toUnit \/ \E m \in {PollRequest} : Send(m) /\ Awaited(m)'
    <3>1. \/ toUnit' = toUnit
          \/ Send(PollRequest) /\ tGlobal' = 0
      BY <1>3 DEF LinkConnecting
    <3>2. wbm' = "Communicating" /\ currentState' = "TrySerialLink"
      BY <1>3 DEF LinkConnecting, InStage
    <3>3. \A m \in {PollRequest} : tGlobal' = 0 => Awaited(m)'
      BY <1>0, <2>2, <3>2 DEF Awaited, TimedOut
    <3> QED BY <3>1, <3>3
  <2>4. AnswersFit' /\ TrafficSound'
    BY <1>3, <1>d, <2>1, <2>3 DEF LinkConnecting, InStage, BringsUp
  <2>5. ImageFits'
    BY <1>3, <1>b, <1>f, StageOrder DEF LinkConnecting, InStage, BringsUp, loopVars
  <2> QED BY <2>4, <2>5
<1>4. CASE TryAgain
  <2>1. \A m \in Message : ~Awaited(m)
    BY <1>4 DEF TryAgain, Awaited
  <2>2. AnswersFit' /\ TrafficSound'
    BY <1>4, <1>d, <2>1 DEF TryAgain, InStage, BringsUp, lineVars
  <2>3. ImageFits'
    BY <1>4, <1>b, <1>f, StageOrder DEF TryAgain, InStage, BringsUp, loopVars
  <2> QED BY <2>2, <2>3
<1>5. CASE FallBack
  <2>1. /\ Messages(<<>>) = {} /\ Len(<<>>) = 0 /\ NoFrame(<<>>) /\ OneFrame(<<>>)
        /\ toUnit' = <<>> /\ fromUnit' = <<>>
    BY <1>5 DEF Messages, NoFrame, OneFrame, FallBack
  <2>2. AnswersFit'
    BY <2>1 DEF AnswersFit
  <2>3. TrafficSound'
    BY <1>a, <2>1 DEF TrafficSound
  <2>4. ImageFits'
    BY <1>5, <1>b, <1>f, StageOrder DEF FallBack, InStage, BringsUp, loopVars
  <2> QED BY <2>2, <2>3, <2>4
<1>6. CASE TryReceive
  <2>1. BringsUp /\ toUnit' = toUnit /\ wbm' = "Communicating"
    BY <1>6 DEF TryReceive, InStage, BringsUp
  <2>2. CASE Received
    <3>1. toUnit = <<>> /\ NoFrame(fromUnit')
      BY <2>1, <2>2, TheAnswer
    <3>2. fromUnit' \in Seq(Message)
      BY <1>0, <2>2, ReceiveType
    <3>3. AnswersFit'
      BY <2>1, <3>1, <3>2, AsksOnce
    <3>4. TrafficSound'
      BY <1>a, <2>1, <2>2, ReceiveSteps, TrafficKept
    <3>5. currentState' \in {"Bootloader_State", "LinkConnected"}
      BY <1>6, <2>2 DEF TryReceive, Received, ReceivedBad, NothingYet
    <3>6. ImageFits'
      BY <1>6, <1>b, <1>f, <2>1, <3>5, StageOrder DEF TryReceive, loopVars
    <3> QED BY <3>3, <3>4, <3>6
  <2>3. CASE ~Received
    <3>1. (ReceivedBad \/ NothingYet) /\ UNCHANGED <<wbm, currentState, tGlobal, toUnit>>
      BY <1>6, <2>3 DEF TryReceive, timeVars
    <3>2. AnswersFit' /\ TrafficSound'
      BY <1>e, <3>1
    <3>3. ImageFits'
      BY <1>6, <1>b, <1>f, <2>1, <3>1, StageOrder DEF TryReceive, InStage, loopVars
    <3> QED BY <3>2, <3>3
  <2> QED BY <2>2, <2>3
<1>7. CASE LinkConnected
  <2>1. \A m \in Message : ~Awaited(m)
    BY <1>7 DEF LinkConnected, InStage, Awaited, ReadStages, StageRange
  <2>2. ReadRequest("Info").op = "Read" /\ ReadRequest("Info").range = "Info"
    BY DEF ReadRequest, Request
  <2>3. Send(ReadRequest("Info")) /\ Awaited(ReadRequest("Info"))'
    <3>1. "ReadEeprom_Info" \in ReadStages /\ StageRange["ReadEeprom_Info"] = "Info"
      BY DEF ReadStages, StageRange
    <3> QED BY <1>0, <1>7, <2>2, <3>1 DEF LinkConnected, InStage, Awaited, TimedOut
  <2>4. AnswersFit' /\ TrafficSound'
    BY <1>7, <1>d, <2>1, <2>3 DEF LinkConnected, InStage, BringsUp
  <2>5. ImageFits'
    BY <1>7, <1>b, <1>f, StageOrder DEF LinkConnected, InStage, BringsUp, loopVars
  <2> QED BY <2>4, <2>5
<1>8. ASSUME NEW s \in ReadStages, ReadSection(s) PROVE AnswersFit' /\ TrafficSound' /\ ImageFits'
  <2>1. BringsUp /\ wbm' = "Communicating" /\ currentState = s /\ pc' = pc /\ ready' = ready
    BY <1>8 DEF ReadSection, InStage, BringsUp, loopVars
  <2>2. pc = "timers" /\ ~ready /\ \A r \in RangesRead(s) : image[r].val \in Values
    BY <1>8, <2>1 DEF ReadSection, InStage, ImageFits
  <2>3. CASE Received
    <3> DEFINE n == StageNext[s]
               m == StageRequest(StageNext[s])
    <3>1. toUnit = <<>> /\ NoFrame(fromUnit') /\ Awaited(Frame) /\ Frame \in Messages(fromUnit)
      BY <2>1, <2>3, TheAnswer
    <3>2. fromUnit' \in Seq(Message)
      BY <1>0, <2>3, ReceiveType
    <3>3. /\ image' \in Stored(StageRange[s], Frame) /\ currentState' = n
          /\ Send(m) /\ tGlobal' = 0
      BY <1>8, <2>3 DEF ReadSection, Received, ReceivedBad, NothingYet
    <3>4. n \in ReadStages \cup {"PollingBase"} /\ m \in Message
      BY StageTypes, StageOrder
    <3>5. m.op \in {"Poll", "Read"}
      BY DEF StageRequest, PollRequest, ReadRequest, Request
    <3>6. Awaited(m)'
      <4> HIDE DEF n
      <4>1. CASE n = "PollingBase"
        <5>1. m.op = "Poll"
          BY <4>1 DEF n, StageRequest, PollRequest, Request, ReadStages, StageRange
        <5> QED BY <1>0, <2>1, <3>3, <4>1, <5>1 DEF Awaited, TimedOut
      <4>2. CASE n \in ReadStages
        <5>1. m.op = "Read" /\ m.range = StageRange[n]
          BY <4>2 DEF n, StageRequest, ReadRequest, Request
        <5> QED BY <1>0, <2>1, <3>3, <4>2, <5>1 DEF Awaited, TimedOut
      <4> QED BY <3>4, <4>1, <4>2
    <3>7. AnswersFit'
      BY <3>1, <3>2, <3>3, <3>4, <3>6, AsksOnce
    <3>8. TrafficSound'
      BY <1>a, <2>3, <3>3, <3>4, <3>5, ReceiveSteps, SendSteps, TrafficKept
    <3>9. Frame.op = "Read" /\ Frame.range = StageRange[s] /\ Frame.data.val \in Values
      <4>1. Frame.op = "Read" /\ Frame.range = StageRange[s]
        BY <1>8, <2>1, <3>1 DEF Awaited, ReadStages, StageRange
      <4> QED BY <3>1, <4>1 DEF TrafficSound
    <3>10. image' = [image EXCEPT ![StageRange[s]] = Frame.data]
      BY <3>3, <3>9 DEF Stored
    <3>11. \A r \in RangesRead(s) \cup {StageRange[s]} : image'[r].val \in Values
      <4>1. StageRange[s] \in Ranges /\ image \in [Ranges -> Content]
        BY StageTypes DEF TypeOK
      <4>2. RangesRead(s) \subseteq Ranges
        BY StageTypes DEF RangesRead
      <4> QED BY <2>2, <3>9, <3>10, <4>1, <4>2
    <3>12. \A r \in RangesRead(n) : image'[r].val \in Values
      BY <3>11, StageOrder
    <3>13. ImageFits'
      BY <1>a, <1>c, <2>1, <2>2, <3>3, <3>12 DEF ImageFits, BringsUp
    <3> QED BY <3>7, <3>8, <3>13
  <2>4. CASE ~Received
    <3>1. /\ ReceivedBad \/ NothingYet
          /\ UNCHANGED <<wbm, currentState, tGlobal, toUnit, image>>
      BY <1>8, <2>4 DEF ReadSection
    <3>2. AnswersFit' /\ TrafficSound'
      BY <1>e, <3>1
    <3>3. ImageFits'
      BY <1>f, <2>1, <2>2, <3>1
    <3> QED BY <3>2, <3>3
  <2> QED BY <2>3, <2>4
<1>9. CASE LastPoll
  <2>1. BringsUp /\ toUnit' = toUnit /\ wbm' = "Communicating" /\ image' = image /\ pc' = pc
    BY <1>9 DEF LastPoll, InStage, BringsUp, loopVars
  <2>2. ~ready /\ ready' = ready /\ currentState = "PollingBase"
    BY <1>9, <1>b, <2>1 DEF LastPoll, InStage
  <2>3. \A r \in RangesRead("PollingBase") : image[r].val \in Values
    BY <1>9, <2>2 DEF LastPoll, InStage, ImageFits
  <2>4. CASE Received
    <3>1. toUnit = <<>> /\ NoFrame(fromUnit')
      BY <2>1, <2>4, TheAnswer
    <3>2. fromUnit' \in Seq(Message)
      BY <1>0, <2>4, ReceiveType
    <3>3. AnswersFit'
      BY <2>1, <3>1, <3>2, AsksOnce
    <3>4. TrafficSound'
      BY <1>a, <2>1, <2>4, ReceiveSteps, TrafficKept
    <3>5. currentState' = "Connected"
      BY <1>9, <2>4 DEF LastPoll, Received, ReceivedBad, NothingYet
    <3>6. ImageFits'
      BY <1>f, <2>1, <2>2, <2>3, <3>5, StageOrder
    <3> QED BY <3>3, <3>4, <3>6
  <2>5. CASE ~Received
    <3>1. (ReceivedBad \/ NothingYet) /\ UNCHANGED <<wbm, currentState, tGlobal, toUnit>>
      BY <1>9, <2>5 DEF LastPoll
    <3>2. AnswersFit' /\ TrafficSound'
      BY <1>e, <3>1
    <3>3. ImageFits'
      BY <1>f, <2>1, <2>2, <2>3, <3>1
    <3> QED BY <3>2, <3>3
  <2> QED BY <2>4, <2>5
\* The bring-up is over.
<1>10. ASSUME wbm' \in {"Connected", "Error"}, UNCHANGED <<lineVars, pc>>,
              wbm' = "Connected" \/ ready' \/ pc # "timers" => Sound(image')
       PROVE  AnswersFit' /\ TrafficSound' /\ ImageFits'
  <2>1. AnswersFit'
    BY <1>10 DEF AnswersFit, BringsUp
  <2>2. TrafficSound'
    BY <1>a, <1>10 DEF TrafficSound, lineVars
  <2>3. ImageFits'
    BY <1>a, <1>c, <1>10 DEF ImageFits, BringsUp
  <2> QED BY <2>1, <2>2, <2>3
<1>11. CASE HandshakeFails
  BY <1>10, <1>11 DEF HandshakeFails, ImageFits, BringsUp, loopVars
<1>12. CASE EnterConnected
  <2>1. Sound(image)
    BY <1>12, StageOrder DEF EnterConnected, InStage, ImageFits, Sound
  <2> QED BY <1>10, <1>12, <2>1 DEF EnterConnected
<1>13. CASE BootloaderPass
  BY <1>13, <1>a
     DEF BootloaderPass, AnswersFit, Awaited, TimedOut, TrafficSound, ImageFits, BringsUp,
         taskVars, loopVars, timeVars, lineVars
<1>14. CASE ErrorPass
  BY <1>10, <1>14 DEF ErrorPass, loopVars
<1> QED
  BY <1>1, <1>2, <1>3, <1>4, <1>5, <1>6, <1>7, <1>8, <1>9, <1>11, <1>12, <1>13, <1>14
  DEF Handshake

\* The connected task writes what the image holds, and stores what was read.
LEMMA SoundLoop ==
  ASSUME TypeOK, SoundInv, Loop
  PROVE  SoundInv'
<1> SUFFICES ASSUME AnswersFit, TrafficSound, ImageFits
             PROVE  AnswersFit' /\ TrafficSound' /\ ImageFits'
  <2>1. spent' = spent
    BY DEF Loop, LoopDebug, LoopBase, LoopLimit, LoopRead, LoopOr, LoopServe, LoopLoad, LoopStore, unitVars
  <2> QED BY <2>1 DEF SoundInv, Undisturbed, Wraps
<1>1. /\ UNCHANGED <<unit, ready, appPc, appCopy>> /\ Sound(image)
      /\ ~BringsUp /\ wbm' \in {wbm, "Error"}
  <2>1. wbm = "Connected" \/ pc # "timers"
    BY DEF Loop, LoopDebug, LoopBase, LoopLimit, LoopRead, LoopOr, LoopServe, LoopLoad, LoopStore
  <2>2. Sound(image) /\ ~BringsUp
    BY <2>1 DEF ImageFits, BringsUp
  <2> QED BY <2>2 DEF Loop, LoopDebug, LoopBase, LoopLimit, LoopRead, LoopOr, LoopServe, LoopLoad, LoopStore, taskVars,
             unitVars, appVars
<1>2. ~BringsUp' /\ AnswersFit'
  BY <1>1 DEF BringsUp, AnswersFit
<1>3. \A a \in Apps : appPc'[a] = "editing" => Sound(appCopy'[a])
  BY <1>1 DEF ImageFits
<1>4. Sound(image') => ImageFits'
  BY <1>2, <1>3 DEF ImageFits, BringsUp
<1>5. CASE LoopDebug \/ LoopBase
  <2>1. image' = image /\ fromUnit' = fromUnit
    BY <1>5 DEF LoopDebug, LoopBase
  <2>2. toUnit' = toUnit \/ \E m \in {PollRequest, DebugRequest} : Send(m)
    BY <1>5 DEF LoopDebug, LoopBase, Ask
  <2>3. {PollRequest, DebugRequest} \subseteq Message
    BY MessageTypes
  <2>4. \A m \in Messages(toUnit') \ Messages(toUnit) : m \in {PollRequest, DebugRequest}
    BY <2>2, <2>3, SendSteps
  <2>5. TrafficSound'
    BY <1>1, <2>1, <2>4, TrafficKept DEF PollRequest, DebugRequest, Request
  <2> QED BY <1>1, <1>2, <1>4, <2>1, <2>5
<1>6. CASE LoopRead
  <2>1. toUnit' = toUnit /\ (Received \/ ReceivedBad \/ NothingYet)
    BY <1>6 DEF LoopRead
  <2>2. TrafficSound'
    BY <1>1, <2>1, ReceiveSteps, TrafficKept
  <2>3. Sound(image')
    <3>1. CASE image' = image
      BY <1>1, <3>1
    <3>2. CASE image' # image
      <4>1. Received /\ Dispatch(Frame)
        BY <1>6, <3>2 DEF LoopRead
      <4>2. Frame \in Messages(fromUnit) /\ Frame \in Message
        BY <4>1, ReceiveSteps, ReceiveType DEF TypeOK
      <4>3. image \in [Ranges -> Content]
        BY DEF TypeOK
      <4>4. CASE Frame.op = "Read"
        <5>1. Frame.data.val \in Values /\ Frame.range \in Ranges
          BY <4>2, <4>4 DEF TrafficSound, Message
        <5>2. image' = [image EXCEPT ![Frame.range] = Frame.data]
          BY <4>1, <4>4 DEF Dispatch
        <5> QED BY <1>1, <4>3, <5>1, <5>2 DEF Sound
      <4>5. CASE Frame.op = "Write"
        <5> DEFINE g == [r \in Ranges |-> IF r \in Counted
                           THEN [image[r] EXCEPT !.cnt = Frame.cnts[r]] ELSE image[r]]
        <5>1. image' = g
          BY <4>1, <4>5 DEF Dispatch
        <5>2. \A r \in Ranges : image[r] \in Content /\ g[r].val = image[r].val
          BY <4>3 DEF Content
        <5> QED BY <1>1, <5>1, <5>2 DEF Sound
      <4>6. CASE Frame.op \notin {"Read", "Write"}
        BY <1>1, <4>1, <4>6 DEF Dispatch
      <4> QED BY <4>4, <4>5, <4>6
    <3> QED BY <3>1, <3>2
  <2> QED BY <1>2, <1>4, <2>2, <2>3
<1>7. CASE LoopServe
  <2>1. image' = image /\ fromUnit' = fromUnit
    BY <1>7 DEF LoopServe
  <2> DEFINE b == Lowest(index)
  <2>2. toUnit' = toUnit \/ (index # {} /\ Send(BitRequest(b)))
    BY <1>7 DEF LoopServe
  <2>3. CASE toUnit' = toUnit
    BY <1>1, <1>2, <1>4, <2>1, <2>3, TrafficKept
  <2>4. CASE index # {} /\ Send(BitRequest(b))
    <3>1. b \in Bits /\ BitRange[b] \in Ranges
      BY <2>4, LowestIn, BitTypes DEF TypeOK
    <3> HIDE DEF b
    <3>2. image[BitRange[b]] \in Content /\ image[BitRange[b]].val \in Values
      BY <1>1, <3>1 DEF TypeOK, Sound
    <3>3. /\ BitRequest(b).op \in {"Read", "Write"}
          /\ BitRequest(b).op = "Write" => BitRequest(b).data.val \in Values
      BY <3>2 DEF BitRequest, ReadRequest, Request
    <3>4. BitRequest(b) \in Message
      BY <3>1, <3>2, MessageTypes DEF BitRequest, Ops
    <3>5. Messages(toUnit') \subseteq Messages(toUnit) \cup {BitRequest(b)}
      BY <2>4, <3>4, SendSteps
    <3>6. TrafficSound'
      BY <1>1, <2>1, <3>3, <3>5, TrafficKept
    <3> QED BY <1>1, <1>2, <1>4, <2>1, <3>6
  <2> QED BY <2>2, <2>3, <2>4
<1>8. CASE LoopLimit \/ LoopOr \/ LoopLoad \/ LoopStore
  <2>1. UNCHANGED <<image, toUnit, fromUnit>>
    BY <1>8 DEF LoopLimit, LoopOr, LoopLoad, LoopStore, lineVars
  <2> QED BY <1>1, <1>2, <1>4, <2>1, TrafficKept
<1> QED BY <1>5, <1>6, <1>7, <1>8 DEF Loop

\* An app writes back a whole image it read when the status said ready, with
\* one range edited.
LEMMA SoundApps ==
  ASSUME TypeOK, SoundInv, NEW a \in Apps, AppReads(a) \/ AppTask(a)
  PROVE  SoundInv'
<1>1. UNCHANGED <<taskVars, pc, timeVars, lineVars, unit>>
  BY DEF AppReads, AppTask, AppCopies, AppLoads, AppStores, AppFrame
<1>2. Undisturbed' <=> Undisturbed
  <2>1. spent' = spent \/ Bounded("app", MaxApp)
    BY DEF AppReads, AppTask, AppCopies, AppLoads, AppStores
  <2>2. \A k \in {"boot", "wrap", "blind"} : spent'[k] = spent[k]
    BY <2>1, SpentSteps DEF TypeOK, Disturbances
  <2> QED BY <2>2 DEF Undisturbed, Wraps
<1> SUFFICES ASSUME AnswersFit, TrafficSound, ImageFits
             PROVE  AnswersFit' /\ TrafficSound' /\ ImageFits'
  BY <1>2 DEF SoundInv
<1>3. AnswersFit' /\ TrafficSound'
  BY <1>1 DEF AnswersFit, TrafficSound, BringsUp, Awaited, TimedOut, taskVars, timeVars, lineVars
<1>4. /\ image \in [Ranges -> Content] /\ appCopy \in [Apps -> [Ranges -> Content]]
      /\ appPc \in [Apps -> {"idle", "editing", "copied", "loaded"}]
  BY DEF TypeOK
<1>5. CASE AppReads(a)
  <2>1. image' = image /\ Sound(image)
    BY <1>5 DEF AppReads, ImageFits
  <2>2. \A c \in Apps : appPc'[c] = "editing" => Sound(appCopy'[c])
    <3>1. appCopy' = [appCopy EXCEPT ![a] = image] /\ appPc' = [appPc EXCEPT ![a] = "editing"]
      BY <1>5 DEF AppReads
    <3> QED BY <1>4, <2>1, <3>1 DEF ImageFits
  <2>3. ImageFits'
    BY <1>1, <2>1, <2>2 DEF ImageFits, BringsUp, taskVars
  <2> QED BY <1>3, <2>3
<1>6. CASE AppTask(a)
  <2>1. \A c \in Apps : appPc'[c] = "editing" => appPc[c] = "editing"
    BY <1>4, <1>6 DEF AppTask, AppCopies, AppLoads, AppStores
  <2>2. appCopy' = appCopy
    BY <1>6 DEF AppTask, AppCopies, AppLoads, AppStores
  <2>3. \A c \in Apps : appPc'[c] = "editing" => Sound(appCopy'[c])
    BY <2>1, <2>2 DEF ImageFits
  <2>4. \A r \in Ranges : image'[r].val = image[r].val \/ image'[r].val \in Values
    <3>1. CASE image' = image
      BY <3>1
    <3>2. CASE AppCopies(a)
      <4>1. PICK r \in AppRanges, v \in Values :
              image' = [appCopy[a] EXCEPT ![r] = [val |-> v, cnt |-> @.cnt]]
        BY <3>2 DEF AppCopies
      <4>2. Sound(appCopy[a]) /\ appCopy[a] \in [Ranges -> Content] /\ r \in Ranges
        BY <1>4, <3>2, DataAssumption DEF AppCopies, ImageFits
      <4> QED BY <4>1, <4>2 DEF Sound
    <3> QED BY <1>6, <3>1, <3>2 DEF AppTask, AppLoads, AppStores
  <2>5. \A s : RangesRead(s) \subseteq Ranges
    BY StageTypes DEF RangesRead
  <2>6. ImageFits'
    BY <1>1, <2>3, <2>4, <2>5 DEF ImageFits, BringsUp, Sound, taskVars
  <2> QED BY <1>3, <2>6
<1> QED BY <1>5, <1>6

\* The board stores what is written to it and answers with what it holds; the
\* clock times no answer out.
LEMMA SoundEnvironment ==
  ASSUME TypeOK, SoundInv, Environment, Latency # "any"
  PROVE  SoundInv'
<1>0. /\ toUnit \in Seq(Message) /\ fromUnit \in Seq(Message)
      /\ unit \in [Ranges -> Content] /\ spent \in [Disturbances -> Nat]
  BY DEF TypeOK
<1>1. Undisturbed' => Undisturbed /\ ~ClockWrap /\ ~UnitAnnounces
  <2>1. \/ spent' = spent \/ ClockWrap
        \/ \E max : \E kind \in {"loss", "noise", "boot", "panel"} : Bounded(kind, max)
    BY DEF Environment, Tick, UnitAnswers, LineFails, Noise, UnitAnnounces, Spontaneous,
           PanelEdits, UnitSwitched, unitVars
  <2>2. \A k \in {"boot", "wrap", "blind"} : spent[k] \in Nat /\ spent'[k] \in {spent[k], spent[k] + 1}
    BY <1>0, <2>1, SpentSteps DEF Disturbances
  <2>3. ClockWrap => spent'["wrap"] = spent["wrap"] + 1 \/ spent'["blind"] = spent["blind"] + 1
    BY <1>0, SpentSteps DEF Disturbances
  <2>4. UnitAnnounces => spent'["boot"] = spent["boot"] + 1
    BY <1>0, SpentSteps DEF UnitAnnounces, Spontaneous, Disturbances
  <2> QED BY <2>2, <2>3, <2>4 DEF Undisturbed, Wraps
<1> SUFFICES ASSUME AnswersFit, TrafficSound, ImageFits, ~ClockWrap, ~UnitAnnounces
             PROVE  AnswersFit' /\ TrafficSound' /\ ImageFits'
  BY <1>1 DEF SoundInv
<1>2. UNCHANGED <<wbm, currentState, pc, ready, image, appPc, appCopy>>
  BY DEF Environment, Tick, UnitAnswers, LineFails, Noise, Spontaneous, PanelEdits, UnitSwitched,
         EnvFrame, taskVars, loopVars, appVars
<1>3. ImageFits' /\ (BringsUp' <=> BringsUp)
  BY <1>2 DEF ImageFits, BringsUp
\* What was awaited is, unless the clock ran, and then nothing was.
<1>4. ASSUME tGlobal' = tGlobal PROVE \A m : Awaited(m) => Awaited(m)'
  BY <1>2, <1>4 DEF Awaited, TimedOut
<1> HIDE DEF BringsUp, Awaited
<1>5. CASE Tick
  <2>1. UNCHANGED <<toUnit, fromUnit, unit>>
    BY <1>5 DEF Tick, lineVars, unitVars
  <2>2. TrafficSound'
    BY <2>1 DEF TrafficSound
  <2>3. CASE toUnit = <<>> /\ fromUnit = <<>>
    <3>1. Messages(<<>>) = {} /\ Len(<<>>) = 0 /\ NoFrame(<<>>) /\ OneFrame(<<>>)
      BY DEF Messages, NoFrame, OneFrame
    <3> QED BY <1>3, <2>1, <2>2, <2>3, <3>1 DEF AnswersFit
  <2>4. CASE ~(toUnit = <<>> /\ fromUnit = <<>>)
    <3>1. wbm # "Communicating" \/ tGlobal + 1 < Timeout
      BY <1>5, <2>4 DEF Tick, WireAllows
    <3>2. wbm = "Communicating" => ~(tGlobal' >= Timeout)
      BY <1>5, <3>1, TimeAssumption DEF Tick, Aged, TypeOK
    <3>3. \A m : Awaited(m) => Awaited(m)'
      BY <1>2, <3>2 DEF Awaited, TimedOut
    <3> QED BY <1>3, <2>1, <2>2, <3>3 DEF AnswersFit
  <2> QED BY <1>3, <2>2, <2>3, <2>4
<1>6. CASE UnitAnswers
  <2> DEFINE m == Head(toUnit)
             u == Written(m)
             w == Answer(m, u)
  <2>1. /\ toUnit # <<>> /\ toUnit' = Tail(toUnit) /\ fromUnit' = Append(fromUnit, w)
        /\ unit' = u /\ tGlobal' = tGlobal
    BY <1>6 DEF UnitAnswers, timeVars
  <2>2. m \in Messages(toUnit) /\ m \in Message
    BY <1>0, <2>1, WireTail DEF Messages
  <2>3. m.op \in {"Poll", "Debug", "Read", "Write"} /\ (m.op = "Write" => m.data.val \in Values)
    BY <2>2 DEF TrafficSound
  <2>4. w.op = m.op /\ w.range = m.range
    BY DEF Answer
  <2>5. Sound(u) /\ u \in [Ranges -> Content]
    <3>1. u \in [Ranges -> Content]
      BY <1>0, <2>2, BoardTypes
    <3>2. Sound(unit) /\ m.range \in Ranges
      BY <2>2 DEF TrafficSound, Message
    <3>3. CASE m.op = "Write"
      <4> DEFINE x == [val |-> m.data.val,
                       cnt |-> IF m.range \in Counted THEN (unit[m.range].cnt + 1) % CntMod
                               ELSE unit[m.range].cnt]
      <4>1. u = [unit EXCEPT ![m.range] = x]
        BY <3>3 DEF Written
      <4>2. x.val \in Values
        BY <2>3, <3>3
      <4> HIDE DEF x, u, m
      <4> QED BY <1>0, <3>1, <3>2, <4>1, <4>2 DEF Sound
    <3>4. CASE m.op # "Write"
      BY <3>1, <3>2, <3>4 DEF Written
    <3> QED BY <3>1, <3>3, <3>4
  <2>6. w \in Message
    BY <1>0, <2>2, <2>5, BoardTypes
  <2>7. w.op = "Read" => w.data.val \in Values
    BY <2>2, <2>5 DEF Answer, Message, Sound
  <2> HIDE DEF m, u, w
  <2>8. Messages(fromUnit') = Messages(fromUnit) \cup {w} /\ Messages(toUnit') \subseteq Messages(toUnit)
    BY <1>0, <2>1, <2>6, WireAppend, WireTail
  <2>9. TrafficSound'
    BY <2>1, <2>5, <2>7, <2>8 DEF TrafficSound
  <2>10. ASSUME BringsUp
         PROVE  /\ Len(toUnit') <= 1 /\ (toUnit' # <<>> => NoFrame(fromUnit')) /\ OneFrame(fromUnit')
                /\ \A x \in Messages(toUnit') \cup Messages(fromUnit') : x.op # "Garbage" => Awaited(x)'
    <3>1. Len(toUnit) <= 1 /\ NoFrame(fromUnit)
      BY <2>1, <2>10 DEF AnswersFit
    <3>2. Len(toUnit') = Len(toUnit) - 1 /\ toUnit' \in Seq(Message)
      BY <1>0, <2>1, WireTail
    <3>3. toUnit' = <<>> /\ Len(toUnit') <= 1
      BY <1>0, <3>1, <3>2
    <3>4. OneFrame(fromUnit')
      BY <1>0, <2>1, <2>6, <3>1, WireAppend
    <3>5. m.op # "Garbage" /\ Awaited(m)
      BY <2>2, <2>3, <2>10 DEF AnswersFit
    <3>6. Awaited(w)
      BY <2>4, <3>5 DEF Awaited
    <3>7. \A x \in Messages(toUnit') \cup Messages(fromUnit') : x.op # "Garbage" => Awaited(x)
      BY <2>8, <2>10, <3>6 DEF AnswersFit
    <3> QED BY <1>4, <2>1, <3>3, <3>4, <3>7
  <2>11. AnswersFit'
    BY <1>3, <2>10 DEF AnswersFit
  <2> QED BY <1>3, <2>9, <2>11
<1>7. CASE LineFails
  <2>1. unit' = unit /\ tGlobal' = tGlobal
    BY <1>7 DEF LineFails, timeVars
  <2>2. CASE toUnit # <<>> /\ toUnit' = Tail(toUnit) /\ fromUnit' = fromUnit
    <3>1. /\ Messages(toUnit') \subseteq Messages(toUnit) /\ Len(toUnit') = Len(toUnit) - 1
          /\ Len(toUnit) \in Nat
      BY <1>0, <2>2, WireTail
    <3>2. TrafficSound'
      BY <2>1, <2>2, <3>1, TrafficKept
    <3>3. AnswersFit'
      BY <1>3, <1>4, <2>1, <2>2, <3>1 DEF AnswersFit
    <3> QED BY <1>3, <3>2, <3>3
  <2>3. CASE fromUnit # <<>> /\ fromUnit' = Tail(fromUnit) /\ toUnit' = toUnit
    <3>1. /\ Messages(fromUnit') \subseteq Messages(fromUnit)
          /\ NoFrame(fromUnit) => NoFrame(fromUnit')
          /\ OneFrame(fromUnit) => OneFrame(fromUnit')
      BY <1>0, <2>3, WireTail
    <3>2. TrafficSound'
      BY <2>1, <2>3, <3>1, TrafficKept
    <3>3. AnswersFit'
      BY <1>3, <1>4, <2>1, <2>3, <3>1 DEF AnswersFit
    <3> QED BY <1>3, <3>2, <3>3
  <2>4. CASE fromUnit # <<>> /\ fromUnit' = <<Garbage>> \o Tail(fromUnit) /\ toUnit' = toUnit
    <3>1. /\ Messages(fromUnit') \subseteq Messages(fromUnit) \cup {Garbage}
          /\ NoFrame(fromUnit) => NoFrame(fromUnit')
          /\ OneFrame(fromUnit) => OneFrame(fromUnit')
      BY <1>0, <2>4, WireDamaged
    <3>2. Garbage.op = "Garbage"
      BY DEF Garbage, Request
    <3>3. TrafficSound'
      BY <2>1, <2>4, <3>1, <3>2 DEF TrafficSound
    <3>4. AnswersFit'
      BY <1>3, <1>4, <2>1, <2>4, <3>1, <3>2 DEF AnswersFit
    <3> QED BY <1>3, <3>3, <3>4
  <2> QED BY <1>7, <2>2, <2>3, <2>4 DEF LineFails
<1>8. CASE Noise
  <2>1. /\ UNCHANGED <<unit, tGlobal, toUnit>>
        /\ fromUnit' = Append(fromUnit, Garbage)
    BY <1>8 DEF Noise, Spontaneous, Garbage, timeVars
  <2>2. Garbage.op = "Garbage" /\ Garbage \in Message
    BY MessageTypes DEF Garbage, Request, Ops, Ranges, Counted
  <2>3. /\ Messages(fromUnit') \subseteq Messages(fromUnit) \cup {Garbage}
        /\ NoFrame(fromUnit) => NoFrame(fromUnit')
        /\ OneFrame(fromUnit) => OneFrame(fromUnit')
    BY <1>0, <2>1, <2>2, WireAppend
  <2>4. TrafficSound'
    BY <2>1, <2>2, <2>3 DEF TrafficSound
  <2>5. AnswersFit'
    BY <1>3, <1>4, <2>1, <2>2, <2>3 DEF AnswersFit
  <2> QED BY <1>3, <2>4, <2>5
<1>9. ASSUME NEW r \in PanelRanges, PanelEdits(r) PROVE AnswersFit' /\ TrafficSound' /\ ImageFits'
  <2>1. UNCHANGED <<tGlobal, toUnit, fromUnit>>
    BY <1>9 DEF PanelEdits, timeVars, lineVars
  <2>2. AnswersFit'
    BY <1>3, <1>4, <2>1 DEF AnswersFit
  <2>3. Sound(unit')
    <3>1. r \in Ranges /\ Sound(unit)
      BY DataAssumption DEF TrafficSound
    <3>2. PICK v \in Values \ {unit[r].val} :
            unit' = [unit EXCEPT ![r] = [val |-> v,
                       cnt |-> IF r \in Counted THEN (@.cnt + 1) % CntMod ELSE @.cnt]]
      BY <1>9 DEF PanelEdits
    <3>3. \A x \in Ranges : unit'[x].val = IF x = r THEN v ELSE unit[x].val
      BY <1>0, <3>1, <3>2
    <3> QED BY <3>1, <3>3 DEF Sound
  <2>4. TrafficSound'
    BY <2>1, <2>3 DEF TrafficSound
  <2> QED BY <1>3, <2>2, <2>4
<1>10. CASE UnitSwitched
  <2>1. UNCHANGED <<unit, tGlobal, fromUnit>> /\ toUnit' = <<>>
    BY <1>10 DEF UnitSwitched, timeVars
  <2>2. Messages(toUnit') = {} /\ Len(toUnit') = 0
    BY <2>1 DEF Messages
  <2>3. TrafficSound'
    BY <2>1, <2>2 DEF TrafficSound
  <2>4. AnswersFit'
    BY <1>3, <1>4, <2>1, <2>2 DEF AnswersFit
  <2> QED BY <1>3, <2>3, <2>4
<1> QED BY <1>5, <1>6, <1>7, <1>8, <1>9, <1>10 DEF Environment

\* The status RUNTIME_READY promises data: the image holds in every range
\* what the unit holds there or an app wrote, never the placeholder or the
\* bytes of another frame, if answers come within the time-out while the
\* link comes up, and without a bootloader's announcement or a clock that
\* wraps (unit_comm.c 424-555, 577-583).
THEOREM ReadyShowsTheUnit ==
  ASSUME Latency # "any"
  PROVE  Spec => []ReadyImageSound
<1>1. TypeOK /\ SoundInv /\ [Next]_vars => SoundInv'
  <2> SUFFICES ASSUME TypeOK, SoundInv, [Next]_vars PROVE SoundInv'
    OBVIOUS
  <2>1. CASE Next
    BY <2>1, SoundHandshake, SoundLoop, SoundApps, SoundEnvironment DEF Next, UnitTask
  <2>2. CASE UNCHANGED vars
    BY <2>2 DEF vars, taskVars, loopVars, timeVars, lineVars, unitVars, appVars, SoundInv,
           Undisturbed, Wraps, AnswersFit, TrafficSound, ImageFits, Awaited, TimedOut, BringsUp
  <2> QED BY <2>1, <2>2
<1>2. SoundInv => ReadyImageSound
  BY DEF SoundInv, Undisturbed, ImageFits, ReadyImageSound, Sound
<1> QED BY <1>1, <1>2, SoundInit, TypeCorrect, PTL DEF Spec
=============================================================================
