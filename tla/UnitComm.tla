------------------------------ MODULE UnitComm ------------------------------
(***************************************************************************)
(* The dongle's serial link to the ventilation unit: Unit_event_task and   *)
(* Connect_To_Unit of unit_comm.c, the requests of WBM_Serial.c they send, *)
(* and the two writers of the shared EEPROM image (the BLE and the MQTT    *)
(* tasks), which run beside the task on another core.                      *)
(*                                                                         *)
(* The wire, the unit board and the clock are the environment.  The EEPROM *)
(* is abstracted to five address ranges, each with one value and, for four *)
(* of them, the update counter stored as the range's last byte.            *)
(***************************************************************************)
EXTENDS Naturals, Sequences

CONSTANTS
  Values,         \* contents an EEPROM range may hold on the unit
  OffValues,      \* those SettingPar contents whose Set_Power_ON byte is 0
  Blank, Junk,    \* the zeroed placeholder; bytes of some other message
  CntMod,         \* modulus of an update counter (256 in the code)
  PollOn, PollOff, DebugPeriod, Timeout,   \* the periods of lines 15-18
  MaxGap,         \* most ticks one pass of the Unit task takes
  MaxLine,        \* most messages one direction of the wire holds
  UnitBaud,       \* the baud rate the unit board speaks
  Latency,        \* how long an answer may take, see Tick
  MayStop,        \* may the unit board be switched off and on?
  Apps,           \* tasks that write the image for an app (BLE, MQTT)
  AppRanges, PanelRanges,                  \* ranges an app / the panel edits
  MaxLoss, MaxNoise, MaxBoot, MaxWrap, MaxPanel, MaxApp,  \* bounds on the environment ...
  OneOnly         \* ... and on it all: may only one of these happen?

Counted == {"Info", "SettingPar", "SetTemp", "DayProg"}
Ranges  == Counted \cup {"HW"}
Bauds   == {"230400", "9600"}
Disturbances == {"loss", "noise", "boot", "wrap", "blind", "panel", "app"}

ASSUME DataAssumption ==
  /\ Blank \notin Values /\ Junk \notin Values /\ Blank # Junk
  /\ OffValues \subseteq Values /\ Values # {}
  /\ AppRanges \subseteq Ranges /\ PanelRanges \subseteq Ranges
  /\ CntMod \in Nat \ {0} /\ MaxPanel \in Nat /\ MaxApp \in Nat
  /\ MaxLoss \in Nat /\ MaxNoise \in Nat /\ MaxBoot \in Nat
  /\ MaxWrap \in Nat /\ MaxLine \in Nat
  /\ UnitBaud \in Bauds
  /\ MayStop \in BOOLEAN /\ OneOnly \in BOOLEAN
  /\ Latency \in {"tick", "timeout", "any"}

(* 1 s, 5 s, 4 s and 15 s in the code: a pass fits between a poll and the   *)
(* next debug request, and the slowest polling period plus two passes in    *)
(* the link time-out.                                                       *)
ASSUME TimeAssumption ==
  /\ PollOn \in Nat \ {0} /\ PollOff \in Nat \ {0} /\ DebugPeriod \in Nat \ {0}
  /\ Timeout \in Nat /\ MaxGap \in Nat
  /\ PollOn <= PollOff /\ PollOn + MaxGap <= DebugPeriod
  /\ DebugPeriod <= Timeout /\ PollOff + 2 * MaxGap <= Timeout

-----------------------------------------------------------------------------
(* Data                                                                     *)

Counters == 0 .. CntMod - 1
Content  == [val : Values \cup {Blank, Junk}, cnt : Counters]
NoData   == [val |-> Blank, cnt |-> 0]
NoCounts == [r \in Counted |-> 0]

Ops     == {"Poll", "Debug", "Read", "Write", "Boot", "Garbage"}
Message == [op : Ops, range : Ranges, data : Content, cnts : [Counted -> Counters]]

\* A request; the fields its command does not use are constant.
Request(op, r, d) == [op |-> op, range |-> r, data |-> d, cnts |-> NoCounts]
PollRequest    == Request("Poll", "Info", NoData)
DebugRequest   == Request("Debug", "Info", NoData)
Garbage        == Request("Garbage", "Info", NoData)
ReadRequest(r) == Request("Read", r, NoData)

(* Read_Eeprom_Request_Index as the set of the bit numbers that are set.    *)
(* Bits 4-9 (buttons) are tested by the loop and set nowhere.               *)
BitRange  == [b \in {0, 1, 2, 3, 11, 12, 13, 14, 15} |->
                CASE b \in {0, 11} -> "Info"    [] b \in {1, 12} -> "SettingPar"
                  [] b \in {2, 13} -> "SetTemp" [] b \in {3, 14} -> "DayProg"
                  [] OTHER -> "HW"]
ReadBits  == {0, 1, 2, 3}
WriteBits == {11, 12, 13, 14, 15}
Bits      == ReadBits \cup WriteBits

(* The handshake: the range each stage waits for, and the stage after it.   *)
(* Configuration and HWSetting are the same addresses in the image.         *)
StageRange ==
  [ReadEeprom_Info       |-> "Info",       ReadEeprom_Configuration |-> "HW",
   ReadEeprom_SettingPar |-> "SettingPar", ReadEeprom_SetTemp       |-> "SetTemp",
   ReadEeprom_DayProg    |-> "DayProg",    ReadEeprom_HWSetting     |-> "HW"]
\* Faulty variant: the SetTemp stage is left out.
StageNextSkipping ==
  [ReadEeprom_Info          |-> "ReadEeprom_Configuration",
   ReadEeprom_Configuration |-> "ReadEeprom_SettingPar",
   ReadEeprom_SettingPar    |-> "ReadEeprom_DayProg",
   ReadEeprom_SetTemp       |-> "ReadEeprom_DayProg",
   ReadEeprom_DayProg       |-> "ReadEeprom_HWSetting",
   ReadEeprom_HWSetting     |-> "PollingBase"]
StageNext ==
  [ReadEeprom_Info          |-> "ReadEeprom_Configuration",
   ReadEeprom_Configuration |-> "ReadEeprom_SettingPar",
   ReadEeprom_SettingPar    |-> "ReadEeprom_SetTemp",
   ReadEeprom_SetTemp       |-> "ReadEeprom_DayProg",
   ReadEeprom_DayProg       |-> "ReadEeprom_HWSetting",
   ReadEeprom_HWSetting     |-> "PollingBase"]
ReadStages == DOMAIN StageRange
SearchStages == {"Init", "LinkConnecting", "TrySerialLink"}
Stages == ReadStages \cup {"Init", "LinkConnecting", "TrySerialLink",
            "LinkConnected", "PollingBase", "Connected", "Bootloader_State"}

StageRequest(s) == IF s \in ReadStages THEN ReadRequest(StageRange[s]) ELSE PollRequest

\* Answers the handshake has read when the link is in a stage.
StagesDone(s) ==
  LET place == [ReadEeprom_Configuration |-> 1, ReadEeprom_SettingPar |-> 2,
                ReadEeprom_SetTemp |-> 3, ReadEeprom_DayProg |-> 4,
                ReadEeprom_HWSetting |-> 5, PollingBase |-> 6, Connected |-> 7]
  IN IF s \in DOMAIN place THEN place[s] ELSE 0

Position == [Info |-> 1, HW |-> 2, SettingPar |-> 3, SetTemp |-> 4, DayProg |-> 5]

-----------------------------------------------------------------------------
VARIABLES
  wbm,          \* WBM_Com_State
  currentState, \* stage of Connect_To_Unit
  pc,           \* where the task is in its pass through case WBM_Connected
  retriesCounter, foundComLink,
  pending,      \* Eeprom_Data_received: a request is believed outstanding
  index,        \* Read_Eeprom_Request_Index
  tmp, serving, \* index value in a register; the bit being served
  runningMode,  \* gKTSGlobal.RunningMode
  buff,         \* buff_ser1 as the handshake's last stage leaves it
  baud,         \* configuration of UART1
  ready,        \* s_runtime_ready, what the BLE status tells the app
  image,        \* gRDEeprom, shared by three tasks
  tGlobal, tBase, tDebug,  \* ticks since the three time stamps
  slack,        \* ticks since the Unit task's pass began
  toUnit, fromUnit,        \* the wire
  unitUp, unit, \* the unit board and its EEPROM
  spent,        \* what the environment has used of its bounds
  appPc, appCopy, appTmp   \* the tasks that write for an app

taskVars == <<wbm, currentState, retriesCounter, foundComLink, runningMode, buff, baud, ready>>
loopVars == <<pc, pending, index, tmp, serving>>
timeVars == <<tGlobal, tBase, tDebug>>
lineVars == <<toUnit, fromUnit>>
unitVars == <<unitUp, unit, spent>>
appVars  == <<appPc, appCopy, appTmp>>
vars == <<taskVars, loopVars, timeVars, slack, lineVars, unitVars, appVars, image>>

Init ==
  /\ wbm = "initialize" /\ currentState = "Init" /\ pc = "timers"
  /\ retriesCounter = 0 /\ foundComLink = FALSE
  /\ pending = FALSE /\ index = {} /\ tmp = {} /\ serving = 0
  /\ runningMode = "Initializing" /\ buff = PollRequest /\ baud = "230400"
  /\ ready = FALSE /\ image = [r \in Ranges |-> NoData]
  /\ tGlobal = 0 /\ tBase = 0 /\ tDebug = 0 /\ slack = 0
  /\ toUnit = <<>> /\ fromUnit = <<>>
  /\ unitUp \in (IF MayStop THEN BOOLEAN ELSE {TRUE})
  /\ \E v \in Values, c \in Counters : unit = [r \in Ranges |-> [val |-> v, cnt |-> c]]
  /\ spent = [k \in Disturbances |-> 0]
  /\ appPc = [a \in Apps |-> "idle"]
  /\ appCopy = [a \in Apps |-> [r \in Ranges |-> NoData]]
  /\ appTmp = [a \in Apps |-> {}]

-----------------------------------------------------------------------------
(* Sending and receiving                                                    *)

\* Write_Message: bytes reach a board that is on and configured alike.
Send(m) ==
  toUnit' = IF unitUp /\ baud = UnitBaud /\ Len(toUnit) < MaxLine
            THEN Append(toUnit, m) ELSE toUnit

\* Read_Message returned a frame that passed its checks (val_ret > 1) ...
Frame == Head(fromUnit)
Received ==
  fromUnit # <<>> /\ Frame.op # "Garbage" /\ fromUnit' = Tail(fromUnit)
\* ... a frame with a bad head, length or checksum (val_ret < 0) ...
ReceivedBad ==
  fromUnit # <<>> /\ Frame.op = "Garbage" /\ fromUnit' = Tail(fromUnit)
\* ... or nothing yet (0 or RUN_DOWNLOAD).
NothingYet == fromUnit = <<>> /\ UNCHANGED fromUnit

\* Contents of the image after memcpy of a frame's data at range r: the
\* handshake copies whatever came, with the length the frame claims.
Spill(r, k, c) ==
  [x \in Ranges |-> IF Position[x] \in Position[r] .. Position[r] + k - 1
                    THEN [val |-> Junk, cnt |-> c] ELSE image[x]]
Stored(r, m) ==
  IF m.op = "Read" /\ m.range = r
  THEN {[image EXCEPT ![r] = m.data]}
  ELSE {Spill(r, k, c) : k \in (IF m.op = "Read" THEN 1 ELSE 0) .. 6 - Position[r], c \in Counters}

\* Faulty variant: only a larger counter counts as news, which a wrap breaks.
DifferingIfLarger(cnts) ==
  {b \in ReadBits : cnts[BitRange[b]] > image[BitRange[b]].cnt}

\* Sections whose counter in a frame differs from the image's.
Differing(cnts) == {b \in ReadBits : cnts[BitRange[b]] # image[BitRange[b]].cnt}

\* One more disturbance of a kind, within its bound.
MayDisturb == OneOnly => \A k \in Disturbances : spent[k] = 0
Bounded(kind, max) ==
  MayDisturb /\ spent[kind] < max /\ spent' = [spent EXCEPT ![kind] = @ + 1]

\* A pass of the task's for (;;) loop begins.
NewPass == slack' = 0

-----------------------------------------------------------------------------
(* Bring-up: WBM_initialize and the stages of Connect_To_Unit               *)

Initialize ==
  /\ wbm = "initialize"
  /\ ready' = FALSE /\ wbm' = "Communicating" /\ currentState' = "Init"
  /\ NewPass
  /\ UNCHANGED <<retriesCounter, foundComLink, runningMode, buff, baud, loopVars,
                 timeVars, lineVars, unitVars, appVars, image>>

InStage(s) == wbm = "Communicating" /\ currentState = s
TimedOut   == tGlobal >= Timeout

LinkInit ==
  /\ InStage("Init")
  /\ currentState' = "LinkConnecting" /\ retriesCounter' = 0 /\ tGlobal' = 0
  /\ NewPass
  /\ UNCHANGED <<wbm, foundComLink, runningMode, buff, baud, ready, loopVars,
                 tBase, tDebug, lineVars, unitVars, appVars, image>>

LinkConnecting ==
  /\ InStage("LinkConnecting")
  /\ currentState' = "TrySerialLink"
  /\ IF retriesCounter < 2 /\ ~foundComLink
     THEN Send(PollRequest) /\ retriesCounter' = retriesCounter + 1 /\ tGlobal' = 0
     ELSE UNCHANGED <<toUnit, retriesCounter, tGlobal>>
  /\ NewPass
  /\ UNCHANGED <<wbm, foundComLink, runningMode, buff, baud, ready, loopVars,
                 tBase, tDebug, fromUnit, unitVars, appVars, image>>

\* The first poll went unanswered: send it once more.
TryAgain ==
  /\ InStage("TrySerialLink") /\ TimedOut /\ retriesCounter # 2
  /\ currentState' = "LinkConnecting" /\ tGlobal' = 0
  /\ NewPass
  /\ UNCHANGED <<wbm, retriesCounter, foundComLink, runningMode, buff, baud, ready,
                 loopVars, tBase, tDebug, lineVars, unitVars, appVars, image>>

\* Faulty variants: the third time-out is awaited; the rate stays.
FallBackTooLate ==
  /\ InStage("TrySerialLink") /\ TimedOut /\ retriesCounter > 2
  /\ currentState' = "Init" /\ retriesCounter' = 0
  /\ baud' = "9600" /\ toUnit' = <<>> /\ fromUnit' = <<>>
  /\ NewPass
  /\ UNCHANGED <<wbm, foundComLink, runningMode, buff, ready, loopVars,
                 timeVars, unitVars, appVars, image>>
FallBackSameRate ==
  /\ InStage("TrySerialLink") /\ TimedOut /\ retriesCounter = 2
  /\ currentState' = "Init" /\ retriesCounter' = 0
  /\ toUnit' = <<>> /\ fromUnit' = <<>>
  /\ NewPass
  /\ UNCHANGED <<wbm, foundComLink, runningMode, buff, baud, ready, loopVars,
                 timeVars, unitVars, appVars, image>>

\* So did the second: restart at 9600 baud.  WBM_Error is assigned and
\* overwritten within the pass; bytes on their way at the old rate are lost.
FallBack ==
  /\ InStage("TrySerialLink") /\ TimedOut /\ retriesCounter = 2
  /\ currentState' = "Init" /\ retriesCounter' = 0
  /\ baud' = "9600" /\ toUnit' = <<>> /\ fromUnit' = <<>>
  /\ NewPass
  /\ UNCHANGED <<wbm, foundComLink, runningMode, buff, ready, loopVars,
                 timeVars, unitVars, appVars, image>>

TryReceive ==
  /\ InStage("TrySerialLink") /\ ~TimedOut
  /\ \/ /\ Received
        /\ currentState' = IF Frame.op = "Boot" THEN "Bootloader_State" ELSE "LinkConnected"
     \/ (ReceivedBad \/ NothingYet) /\ UNCHANGED currentState
  /\ NewPass
  /\ UNCHANGED <<wbm, retriesCounter, foundComLink, runningMode, buff, baud, ready,
                 loopVars, timeVars, toUnit, unitVars, appVars, image>>

LinkConnected ==
  /\ InStage("LinkConnected")
  /\ foundComLink' = TRUE /\ Send(ReadRequest("Info"))
  /\ currentState' = "ReadEeprom_Info" /\ tGlobal' = 0
  /\ NewPass
  /\ UNCHANGED <<wbm, retriesCounter, runningMode, buff, baud, ready, loopVars,
                 tBase, tDebug, fromUnit, unitVars, appVars, image>>

\* The reply to a section read, or whatever valid frame comes first.
ReadSection(s) ==
  /\ InStage(s) /\ ~TimedOut
  /\ \/ /\ Received
        /\ image' \in Stored(StageRange[s], Frame)
        /\ currentState' = StageNext[s]
        /\ Send(StageRequest(StageNext[s])) /\ tGlobal' = 0
     \/ (ReceivedBad \/ NothingYet) /\ UNCHANGED <<image, currentState, toUnit, tGlobal>>
  /\ NewPass
  /\ UNCHANGED <<wbm, retriesCounter, foundComLink, runningMode, buff, baud, ready,
                 loopVars, tBase, tDebug, unitVars, appVars>>

LastPoll ==
  /\ InStage("PollingBase") /\ ~TimedOut
  /\ \/ Received /\ buff' = Frame /\ currentState' = "Connected" /\ tGlobal' = 0
     \/ (ReceivedBad \/ NothingYet) /\ UNCHANGED <<buff, currentState, tGlobal>>
  /\ NewPass
  /\ UNCHANGED <<wbm, retriesCounter, foundComLink, runningMode, baud, ready, loopVars,
                 tBase, tDebug, toUnit, unitVars, appVars, image>>

\* One stage that reads the image or the last poll was not answered in time.
HandshakeFails ==
  /\ wbm = "Communicating" /\ currentState \in ReadStages \cup {"PollingBase"} /\ TimedOut
  /\ wbm' = "Error" /\ retriesCounter' = 0
  /\ NewPass
  /\ UNCHANGED <<currentState, foundComLink, runningMode, buff, baud, ready, loopVars,
                 timeVars, lineVars, unitVars, appVars, image>>

\* RunningMode by the Set_Power_ON byte of an image content.
ModesOf(v) == IF v = Junk THEN {"PowerOff", "Running"}
              ELSE IF v \in OffValues \cup {Blank} THEN {"PowerOff"} ELSE {"Running"}

EnterConnected ==
  /\ InStage("Connected")
  /\ runningMode' \in ModesOf(image["SettingPar"].val)
  /\ tBase' = 0 /\ tDebug' = 0
  /\ wbm' = "Connected" /\ ready' = TRUE
  /\ IF buff.op = "Poll" THEN index' = index \cup Differing(buff.cnts)
     ELSE \E S \in SUBSET ReadBits : index' = index \cup S
  /\ NewPass
  /\ UNCHANGED <<currentState, retriesCounter, foundComLink, buff, baud, pc, pending, tmp,
                 serving, tGlobal, lineVars, unitVars, appVars, image>>

\* The transfer itself belongs to the bootloader component.
BootloaderPass ==
  /\ InStage("Bootloader_State") /\ NewPass
  /\ UNCHANGED <<taskVars, loopVars, timeVars, lineVars, unitVars, appVars, image>>

\* Faulty variant: a link that has failed is brought up again.
ErrorPassRestarts ==
  /\ wbm = "Error" /\ pc = "timers"
  /\ ready' = FALSE /\ wbm' = "initialize" /\ NewPass
  /\ UNCHANGED <<currentState, retriesCounter, foundComLink, runningMode, buff, baud,
                 loopVars, timeVars, lineVars, unitVars, appVars, image>>

ErrorPass ==
  /\ wbm = "Error" /\ pc = "timers"
  /\ ready' = FALSE /\ NewPass
  /\ UNCHANGED <<wbm, currentState, retriesCounter, foundComLink, runningMode, buff, baud,
                 loopVars, timeVars, lineVars, unitVars, appVars, image>>

-----------------------------------------------------------------------------
(* One pass through case WBM_Connected: timers, Read_Message, one request.  *)
(* The pass goes on after a time-out, so its later steps look at pc only.   *)

DebugDue == runningMode = "Running" /\ tDebug >= DebugPeriod
BaseDue  == tBase >= (IF runningMode = "PowerOff" THEN PollOff ELSE PollOn)

\* Faulty variants: sends without looking; refreshes only what it sent.
AskAnyway(m) == Send(m) /\ pending' = TRUE /\ tBase' = 0 /\ tGlobal' = 0
AskAndStampIfSent(m) ==
  /\ IF pending THEN UNCHANGED <<toUnit, pending, tGlobal>>
     ELSE Send(m) /\ pending' = TRUE /\ tGlobal' = 0
  /\ tBase' = 0

\* Sends when nothing is outstanding; the stamps are refreshed either way.
Ask(m) ==
  /\ IF pending THEN UNCHANGED <<toUnit, pending>> ELSE Send(m) /\ pending' = TRUE
  /\ tBase' = 0 /\ tGlobal' = 0

LoopDebug ==
  /\ wbm = "Connected" /\ pc = "timers" /\ pc' = "base"
  /\ \/ DebugDue /\ Ask(DebugRequest) /\ tDebug' = 0
     \/ ~DebugDue /\ UNCHANGED <<timeVars, toUnit, pending>>
  /\ NewPass
  /\ UNCHANGED <<taskVars, index, tmp, serving, fromUnit, unitVars, appVars, image>>

LoopBase ==
  /\ pc = "base" /\ pc' = "limit"
  /\ \/ BaseDue /\ Ask(PollRequest)
     \/ ~BaseDue /\ UNCHANGED <<tGlobal, tBase, toUnit, pending>>
  /\ UNCHANGED <<slack, taskVars, index, tmp, serving, tDebug, fromUnit, unitVars, appVars,
                 image>>

\* The test reads the clock once more.
LoopLimit ==
  /\ pc = "limit" /\ pc' = "read"
  /\ \/ /\ TimedOut
        /\ wbm' = "Error" /\ retriesCounter' = 0 /\ pending' = FALSE /\ index' = {}
     \/ ~TimedOut /\ UNCHANGED <<wbm, retriesCounter, pending, index>>
  /\ UNCHANGED <<slack, currentState, foundComLink, runningMode, buff, baud, ready, tmp,
                 serving, timeVars, lineVars, unitVars, appVars, image>>

\* Dispatch on the reply's command.  tmp holds index |= bits on its way back
\* to memory; a Boot frame changes nothing but the time stamp.
Dispatch(m) ==
  LET bits == IF m.op \in {"Poll", "Write"} THEN Differing(m.cnts) ELSE {} IN
  /\ tGlobal' = 0
  /\ pending' = IF m.op = "Boot" THEN pending ELSE FALSE
  /\ image' = CASE m.op = "Read"  -> [image EXCEPT ![m.range] = m.data]
                [] m.op = "Write" -> [r \in Ranges |-> IF r \in Counted
                                        THEN [image[r] EXCEPT !.cnt = m.cnts[r]] ELSE image[r]]
                [] OTHER -> image
  /\ tmp' = index \cup bits
  /\ pc' = IF bits = {} THEN "serve" ELSE "or"

LoopRead ==
  /\ pc = "read"
  /\ \/ Received /\ Dispatch(Frame)
     \/ ReceivedBad /\ pending' = FALSE /\ pc' = "serve" /\ UNCHANGED <<tGlobal, image, tmp>>
     \/ NothingYet /\ pc' = "serve" /\ UNCHANGED <<tGlobal, image, tmp, pending>>
  /\ UNCHANGED <<slack, taskVars, index, serving, tBase, tDebug, toUnit, unitVars, appVars>>

\* Read_Eeprom_Request_Index |= ...  and, below, &= ~(1 << serving): not
\* atomic, the other core may update the word between load and store.
LoopOr ==
  /\ pc = "or" /\ index' = tmp /\ pc' = "serve"
  /\ UNCHANGED <<slack, taskVars, pending, tmp, serving, timeVars, lineVars, unitVars,
                 appVars, image>>

\* The if-else chain tests the bits from the lowest to the highest.
Lowest(S) == CHOOSE b \in S : \A c \in S : b <= c
BitRequest(b) == IF b \in ReadBits THEN ReadRequest(BitRange[b])
                 ELSE Request("Write", BitRange[b], image[BitRange[b]])

LoopServe ==
  /\ pc = "serve"
  /\ \/ /\ index # {} /\ ~pending
        /\ serving' = Lowest(index) /\ Send(BitRequest(Lowest(index)))
        /\ pending' = TRUE /\ pc' = "load"
     \/ (index = {} \/ pending) /\ pc' = "timers" /\ UNCHANGED <<serving, toUnit, pending>>
  /\ UNCHANGED <<slack, taskVars, index, tmp, timeVars, fromUnit, unitVars, appVars, image>>

\* Faulty variant: the served bit stays set.
LoopLoadKeeping ==
  /\ pc = "load" /\ tmp' = index /\ pc' = "store"
  /\ UNCHANGED <<slack, taskVars, index, pending, serving, timeVars, lineVars, unitVars,
                 appVars, image>>

LoopLoad ==
  /\ pc = "load" /\ tmp' = index \ {serving} /\ pc' = "store"
  /\ UNCHANGED <<slack, taskVars, index, pending, serving, timeVars, lineVars, unitVars,
                 appVars, image>>

LoopStore ==
  /\ pc = "store" /\ index' = tmp /\ pc' = "timers"
  /\ UNCHANGED <<slack, taskVars, tmp, pending, serving, timeVars, lineVars, unitVars, appVars, image>>

-----------------------------------------------------------------------------
(* The tasks that write the image for an app: exec_write_event_env (BLE)    *)
(* and MQTT_EVENT_DATA on app/eeprom.  An app writes back a whole image it  *)
(* has read, with one range edited, once the status said RUNTIME_READY.     *)

AppFrame ==
  UNCHANGED <<taskVars, pc, pending, tmp, serving, timeVars, slack, lineVars, unitUp, unit>>

AppReads(a) ==
  /\ appPc[a] = "idle" /\ ready /\ Bounded("app", MaxApp)
  /\ appCopy' = [appCopy EXCEPT ![a] = image] /\ appPc' = [appPc EXCEPT ![a] = "editing"]
  /\ AppFrame /\ UNCHANGED <<appTmp, image, index>>

\* memcpy(&gRDEeprom, ...)
AppCopies(a) ==
  /\ appPc[a] = "editing"
  /\ \E r \in AppRanges, v \in Values : 
       image' = [appCopy[a] EXCEPT ![r] = [val |-> v, cnt |-> @.cnt]]
  /\ appPc' = [appPc EXCEPT ![a] = "copied"]
  /\ AppFrame /\ UNCHANGED <<appCopy, appTmp, spent, index>>

\* Faulty variant: the bit of one section is forgotten.
AppLoadsFour(a) ==
  /\ appPc[a] = "copied"
  /\ appTmp' = [appTmp EXCEPT ![a] = index \cup (WriteBits \ {12})]
  /\ appPc' = [appPc EXCEPT ![a] = "loaded"]
  /\ AppFrame /\ UNCHANGED <<appCopy, spent, image, index>>

\* The five |= statements on a plain global: one load, one store.
AppLoads(a) ==
  /\ appPc[a] = "copied"
  /\ appTmp' = [appTmp EXCEPT ![a] = index \cup WriteBits]
  /\ appPc' = [appPc EXCEPT ![a] = "loaded"]
  /\ AppFrame /\ UNCHANGED <<appCopy, spent, image, index>>

AppStores(a) ==
  /\ appPc[a] = "loaded" /\ index' = appTmp[a]
  /\ appPc' = [appPc EXCEPT ![a] = "idle"]
  /\ AppFrame /\ UNCHANGED <<appCopy, appTmp, spent, image>>

-----------------------------------------------------------------------------
(* Environment: clock, unit board, wire                                     *)

EnvFrame == UNCHANGED <<taskVars, loopVars, appVars, image>>
Aged(t)  == IF t < Timeout THEN t + 1 ELSE t

\* How far the clock may run while something is on the wire: the answer
\* comes (or is lost) within a tick; within the time-out, which matters
\* while the link comes up; or whenever it likes.
WireAllows ==
  \/ toUnit = <<>> /\ fromUnit = <<>>
  \/ Latency = "timeout" /\ (wbm # "Communicating" \/ tGlobal + 1 < Timeout)
  \/ Latency = "any"

\* Led_TimerCallback advances millis_tick.
Tick ==
  /\ slack < MaxGap /\ slack' = slack + 1
  /\ WireAllows
  /\ tGlobal' = Aged(tGlobal) /\ tBase' = Aged(tBase) /\ tDebug' = Aged(tDebug)
  /\ EnvFrame /\ UNCHANGED <<lineVars, unitVars>>

\* A wrap is blind when the stamps of the timers will be, or were, looked at
\* on the other side of it than globalTimeoutMilliseconds: between lines 568
\* and 580, and between the tests of lines 139 and 153.
Blind == InStage("Connected") \/ (wbm = "Connected" /\ pc = "limit")
Wraps == spent["wrap"] + spent["blind"]

\* millis_tick wraps: Millis() is below every stamp, each test "elapsed"
\* holds.
ClockWrap ==
  /\ MayDisturb /\ Wraps < MaxWrap
  /\ spent' = [spent EXCEPT ![IF Blind THEN "blind" ELSE "wrap"] = @ + 1]
  /\ tGlobal' = Timeout /\ tBase' = Timeout /\ tDebug' = Timeout
  /\ EnvFrame /\ UNCHANGED <<slack, lineVars, unitUp, unit>>

\* Faulty variant: a counter that does not wrap.
WrittenNoWrap(m) ==
  IF m.op = "Write"
  THEN [unit EXCEPT ![m.range] = [val |-> m.data.val,
          cnt |-> IF m.range \in Counted THEN @.cnt + 1 ELSE @.cnt]]
  ELSE unit

\* The board does what a request says; a write advances the range's counter.
Written(m) ==
  IF m.op = "Write"
  THEN [unit EXCEPT ![m.range] = [val |-> m.data.val,
          cnt |-> IF m.range \in Counted THEN (@.cnt + 1) % CntMod ELSE @.cnt]]
  ELSE unit
Answer(m, u) ==
  [op |-> m.op, range |-> m.range, data |-> IF m.op = "Read" THEN u[m.range] ELSE NoData,
   cnts |-> IF m.op \in {"Poll", "Write"} THEN [r \in Counted |-> u[r].cnt] ELSE NoCounts]

UnitAnswers ==
  /\ unitUp /\ toUnit # <<>> /\ Len(fromUnit) < MaxLine
  /\ LET m == Head(toUnit) IN
       /\ unit' = Written(m)
       /\ fromUnit' = Append(fromUnit, Answer(m, Written(m)))
  /\ toUnit' = Tail(toUnit)
  /\ EnvFrame /\ UNCHANGED <<timeVars, slack, unitUp, spent>>

\* A request or a reply is lost, or a reply arrives damaged.
LineFails ==
  /\ Bounded("loss", MaxLoss)
  /\ \/ toUnit # <<>> /\ toUnit' = Tail(toUnit) /\ UNCHANGED fromUnit
     \/ fromUnit # <<>> /\ fromUnit' = Tail(fromUnit) /\ UNCHANGED toUnit
     \/ fromUnit # <<>> /\ fromUnit' = <<Garbage>> \o Tail(fromUnit) /\ UNCHANGED toUnit
  /\ EnvFrame /\ UNCHANGED <<timeVars, slack, unitUp, unit>>

\* Bytes nobody sent, or the announcement of the board's bootloader.
Spontaneous(kind, op, max) ==
  /\ Bounded(kind, max)
  /\ Len(fromUnit) < MaxLine /\ fromUnit' = Append(fromUnit, Request(op, "Info", NoData))
  /\ EnvFrame /\ UNCHANGED <<timeVars, slack, toUnit, unitUp, unit>>
Noise         == Spontaneous("noise", "Garbage", MaxNoise)
UnitAnnounces == unitUp /\ Spontaneous("boot", "Boot", MaxBoot)

\* Somebody edits a range at the unit's own panel.
PanelEdits(r) ==
  /\ unitUp /\ Bounded("panel", MaxPanel)
  /\ \E v \in Values \ {unit[r].val} :
       unit' = [unit EXCEPT ![r] = [val |-> v,
                  cnt |-> IF r \in Counted THEN (@.cnt + 1) % CntMod ELSE @.cnt]]
  /\ EnvFrame /\ UNCHANGED <<timeVars, slack, lineVars, unitUp>>

UnitSwitched ==
  /\ MayStop /\ unitUp' = ~unitUp /\ toUnit' = <<>>
  /\ EnvFrame /\ UNCHANGED <<timeVars, slack, fromUnit, unit, spent>>

-----------------------------------------------------------------------------
Handshake == \/ LinkInit \/ LinkConnecting \/ TryAgain \/ FallBack \/ TryReceive
             \/ LinkConnected \/ (\E s \in ReadStages : ReadSection(s)) \/ LastPoll
             \/ HandshakeFails \/ EnterConnected \/ BootloaderPass
Loop      == LoopDebug \/ LoopBase \/ LoopLimit \/ LoopRead \/ LoopOr \/ LoopServe
             \/ LoopLoad \/ LoopStore
UnitTask  == Initialize \/ Handshake \/ Loop \/ ErrorPass
AppTask(a) == AppCopies(a) \/ AppLoads(a) \/ AppStores(a)
Environment == \/ Tick \/ ClockWrap \/ UnitAnswers \/ LineFails \/ Noise \/ UnitAnnounces
               \/ (\E r \in PanelRanges : PanelEdits(r)) \/ UnitSwitched
Next == UnitTask \/ (\E a \in Apps : AppReads(a) \/ AppTask(a)) \/ Environment

\* The scheduler runs the Unit task and the writers' handlers to their end,
\* the tick interrupt goes on, and a board that is on answers what it gets.
Fairness == /\ WF_vars(UnitTask) /\ WF_vars(Tick) /\ WF_vars(UnitAnswers)
            /\ \A a \in Apps : WF_vars(AppTask(a))
Spec == Init /\ [][Next]_vars /\ Fairness
-----------------------------------------------------------------------------
(* Properties                                                               *)

\* Every variable of the link keeps its range.
TypeOK ==
  /\ wbm \in {"initialize", "Communicating", "Connected", "Error"}
  /\ currentState \in Stages
  /\ pc \in {"timers", "base", "limit", "read", "or", "serve", "load", "store"}
  /\ retriesCounter \in Nat /\ foundComLink \in BOOLEAN
  /\ pending \in BOOLEAN /\ index \in SUBSET Bits /\ tmp \in SUBSET Bits
  /\ serving \in Bits /\ runningMode \in {"Initializing", "PowerOff", "Running"}
  /\ buff \in Message /\ baud \in Bauds /\ ready \in BOOLEAN
  /\ image \in [Ranges -> Content]
  /\ tGlobal \in 0 .. Timeout /\ tBase \in 0 .. Timeout /\ tDebug \in 0 .. Timeout
  /\ slack \in 0 .. MaxGap
  /\ toUnit \in Seq(Message) /\ fromUnit \in Seq(Message)
  /\ unitUp \in BOOLEAN /\ unit \in [Ranges -> Content]
  /\ spent \in [Disturbances -> Nat]
  /\ appPc \in [Apps -> {"idle", "editing", "copied", "loaded"}]
  /\ appCopy \in [Apps -> [Ranges -> Content]]
  /\ appTmp \in [Apps -> SUBSET Bits]

\* The protocol is half duplex: whatever is lost or damaged, at most one
\* request or reply is under way, plus one for each frame that answers no
\* request and for each false time-out of a clock that wraps
\* (Eeprom_Data_received and the handshake stages, lines 123-345).
HalfDuplex ==
  Len(toUnit) + Len(fromUnit) <= 1 + spent["noise"] + spent["boot"] + Wraps

\* The status RUNTIME_READY promises data: the image holds in every range
\* what the unit holds there or an app wrote, never the zeroed placeholder
\* or another frame's bytes, unless the board announced its bootloader or
\* the clock wrapped in the middle of the bring-up (lines 424-555, 577-583).
ReadyImageSound ==
  ready /\ spent["boot"] = 0 /\ Wraps = 0
    => \A r \in Ranges : image[r].val \in Values

\* A connected task leaves WBM_Connected only after a wrap of the clock that
\* was blind: otherwise the polling request refreshes
\* globalTimeoutMilliseconds before the test of line 153 can see it elapsed,
\* whether the board answers or not (lines 134-159 and 579-583).
ConnectedForever ==
  [][wbm = "Connected" => wbm' = "Connected" \/ spent["blind"] > 0]_vars

\* What the comment of line 138 says of the polling request: it is added
\* when its timer has run out and none is under way.
PollingGoesOn ==
  (wbm = "Connected" /\ toUnit = <<>> /\ fromUnit = <<>>) ~> (toUnit # <<>>)

\* The link as the rest of the program may think of it.
Phase == CASE wbm = "initialize" -> "off"
           [] wbm = "Connected"  -> "up"
           [] wbm = "Error"      -> "failed"
           [] OTHER -> CASE currentState \in SearchStages      -> "searching"
                         [] currentState = "Bootloader_State" -> "bootloader"
                         [] OTHER                             -> "reading"
Rate == IF baud = "9600" THEN "slow" ELSE "fast"

Lifecycle == INSTANCE LinkLifecycle WITH
  MaxTries <- 2, Steps <- 7, phase <- Phase, rate <- Rate,
  tries <- retriesCounter, got <- StagesDone(currentState), blind <- spent["blind"] > 0

\* The link keeps that promise: it is up only after a board has answered a
\* poll and every section was read, in the stages' order; a link that is up
\* stays so unless the clock wraps blindly, one that has failed stays so
\* (lines 85-159, 349-352 and 366-597).
LifecycleKept == Lifecycle!Safe

\* Every wait of the bring-up ends, with an answer or by its time-out: the
\* search goes from round to round, no section is waited for for ever
\* (lines 366-597).
LifecycleGoesOn == Lifecycle!Live

\* A board that answers at 9600 baud is found by the fall-back and the
\* bring-up completes (lines 384-392).
LinkComesUp == <>(wbm = "Connected")

\* After the panel's last edit the image catches up with the unit, through
\* the update counters of lines 796-814 and 860-886, if no app writes: a lost
\* update of the request index can leave an app's copy in the image.
ImageFollowsUnit ==
  [](spent["app"] = 0) => <>[](\A r \in Counted : image[r] = unit[r])

\* Every requested read or write is served: the re-reads a write entails
\* (lines 860-886) do not keep the queue of requests from draining.
IndexDrains == (index # {}) ~> (index = {})

\* Nothing that could disturb an app's write: no request bit set or on its
\* way to the word, no section read outstanding, a copy that is up to date.
Quiet(a) ==
  /\ index = {} /\ pc \notin {"or", "load", "store"}
  /\ \A i \in 1 .. Len(toUnit) : toUnit[i].op \in {"Poll", "Debug"}
  /\ \A i \in 1 .. Len(fromUnit) : fromUnit[i].op \in {"Poll", "Debug"}
  /\ appCopy[a] = unit /\ \A o \in Apps \ {a} : appPc[o] \in {"idle"}
\* A write made while the link is quiet reaches the unit, if nobody edits
\* afterwards (lines 231-346, ble.c 633-638, mqtt_app.c 210-215).
QuietWriteDelivered ==
  \A a \in Apps, r \in AppRanges, v \in Values :
    ( /\ appPc[a] = "copied" /\ Quiet(a) /\ image[r].val = v
      /\ spent["app"] = MaxApp /\ spent["panel"] = MaxPanel ) ~> (unit[r].val = v)
=============================================================================
