------------------------ MODULE UnitFirmware_proofs ------------------------
(***************************************************************************)
(* Theorems about UnitFirmware, for every value of its constants.          *)
(***************************************************************************)
EXTENDS UnitFirmware, SequenceTheorems, TLAPS

Kinds == {"release", "restart", "fault", "offer"}

\* What the tasks, the server and a start of the program do to the variables
\* of the updates: each step of Next, and those of the modules that extend it.
FirmwareStep ==
  \/ \E c \in Creators : Check(c) \/ UpdateTask(c) \/ OnError(c)
  \/ UnitTask \/ BoardAcks \/ AckLost \/ Release
  \/ Reboot /\ spent' \in [Kinds -> Nat]
  \/ UNCHANGED <<fileVars, f, Filesize, handlerVars, taskVars, flagVars, sendVars, server>>
     /\ spent' \in [Kinds -> Nat]

\* The conjuncts of TypeOK, the flags apart.
Flags ==
  /\ torn \in BOOLEAN /\ marred \in BOOLEAN /\ clash \in BOOLEAN /\ overlap \in BOOLEAN
  /\ File_opened \in BOOLEAN /\ No_Update \in BOOLEAN /\ Unit_Update_task_Flag \in BOOLEAN
  /\ Bootloader_State_Flag \in BOOLEAN /\ Ack_Received \in BOOLEAN

Shapes ==
  /\ file = NoFile \/ file \in Seq(Chunk)
  /\ f \in {"null", "read", "write"} /\ pos \in Nat /\ Filesize \in Nat
  /\ Firmware_version \in Versions \cup {Zero, Junk}
  /\ Load_Counter \in 0 .. Loaded - 1 /\ Data_Counter \in Nat
  /\ buffer \in [1 .. Loaded -> Chunk] /\ Pointer \in 1 .. Loaded + 1
  /\ task \in [Creators -> {"idle", "created", "connecting", "data", "over"}]
  /\ got \in [Creators -> 0 .. Size] /\ served \in [Creators -> Versions]
  /\ checks \in Nat /\ checked \in Versions \cup {Zero}
  /\ stage \in {"linking", "connected", "Bootloader_State", "claiming", "claimed",
                "Bootloader_State1", "Bootloader_State_end"} /\ owed \in {"none", "due", "lost"}
  /\ Bytes_Transfered \in Nat /\ flashed \in Seq(Chunk) /\ server \in Versions
  /\ spent \in [Kinds -> Nat]

\* While a version is compared, no more of Buffer_Test is filled than chunks
\* were counted, also after a download that broke off.
PointerFits == Firmware_version # Zero => Pointer <= Load_Counter + 1

TypeInv == Flags /\ Shapes /\ PointerFits

-----------------------------------------------------------------------------
(* Lemmas about the data operators                                          *)

LEMMA ChunkTypes ==
  /\ Zero \in Chunk /\ Junk \in Chunk
  /\ \A v \in Versions, i \in 1 .. Size : <<v, i>> \in Chunk
  /\ Blank \in [1 .. Loaded -> Chunk]
  /\ \A v \in Versions : Image(v) \in Seq(Chunk)
<1>1. Zero \in Chunk /\ Junk \in Chunk
  BY DEF Chunk
<1>2. \A v \in Versions, i \in 1 .. Size : <<v, i>> \in Chunk
  BY DEF Chunk
<1>3. Blank \in [1 .. Loaded -> Chunk]
  BY <1>1 DEF Blank
<1>4. ASSUME NEW v \in Versions PROVE Image(v) \in Seq(Chunk)
  BY <1>2, FirmwareAssumption DEF Image
<1> QED BY <1>1, <1>2, <1>3, <1>4

\* Whatever the third chunk holds is read as a version, as 0 or as junk.
LEMMA VersionType ==
  ASSUME NEW b \in [1 .. Loaded -> Chunk]
  PROVE  VersionIn(b) \in Versions \cup {Zero, Junk}
BY DEF VersionIn

\* The chunk that arrives, the buffer with it, and what is written of it.
LEMMA ArrivalTypes ==
  ASSUME Shapes, NEW c \in Creators, got[c] < Size
  PROVE  /\ got[c] + 1 \in 0 .. Size
         /\ Next1(c) \in Chunk /\ WithNext(c) \in [1 .. Loaded -> Chunk]
         /\ \A n \in Nat : Written(c, n) \in Seq(Chunk)
<1>1. got[c] \in 0 .. Size /\ served[c] \in Versions /\ Size \in Nat
  BY FirmwareAssumption DEF Shapes
<1>2. Next1(c) \in Chunk
  BY <1>1, ChunkTypes DEF Next1
<1>3. WithNext(c) \in [1 .. Loaded -> Chunk]
  BY <1>2 DEF WithNext, Shapes, Loaded
<1>4. ASSUME NEW n \in Nat PROVE Written(c, n) \in Seq(Chunk)
  <2>1. Written(c, n) \in [1 .. n -> Chunk]
    BY <1>3, ChunkTypes DEF Written, Loaded
  <2> QED BY <2>1
<1>5. got[c] + 1 \in 0 .. Size
  BY <1>1
<1>6. \A n \in Nat : Written(c, n) \in Seq(Chunk)
  BY <1>4
<1> QED BY <1>2, <1>3, <1>5, <1>6

-----------------------------------------------------------------------------
(* Type correctness                                                         *)

LEMMA TypeInit == Init => TypeInv
<1> SUFFICES ASSUME Init PROVE TypeInv
  OBVIOUS
<1>1. Flags
  BY Zenon DEF Init, Flags
<1>2. file = NoFile \/ file \in Seq(Chunk)
  BY ChunkTypes DEF Init
<1>3. Shapes
  <2>1. /\ task = [c \in Creators |-> "idle"] /\ got = [c \in Creators |-> 0]
        /\ served = [c \in Creators |-> server] /\ server \in Versions
        /\ spent = [k \in Kinds |-> 0] /\ buffer = Blank /\ flashed = <<>>
        /\ stage = "linking" /\ f = "null"
    BY DEF Init, Kinds
  <2>2. /\ pos = 0 /\ Filesize = 0 /\ Firmware_version = Zero /\ Load_Counter = 0
        /\ Data_Counter = 0 /\ Pointer = 1 /\ checks = 0 /\ checked = Zero /\ Bytes_Transfered = 0
    BY DEF Init
  <2>3. /\ Loaded = 3 /\ Size \in Nat /\ Blank \in [1 .. Loaded -> Chunk] /\ Zero \in Chunk
        /\ owed = "none"
    BY ChunkTypes, FirmwareAssumption DEF Loaded, Init
  <2>4. /\ task \in [Creators -> {"idle", "created", "connecting", "data", "over"}]
        /\ got \in [Creators -> 0 .. Size] /\ served \in [Creators -> Versions]
        /\ spent \in [Kinds -> Nat]
    BY <2>1, <2>3
  <2>5. Load_Counter \in 0 .. Loaded - 1 /\ Pointer \in 1 .. Loaded + 1 /\ flashed \in Seq(Chunk)
    BY <2>1, <2>2, <2>3
  <2> QED BY <1>2, <2>1, <2>2, <2>3, <2>4, <2>5 DEF Shapes
<1>4. PointerFits
  BY DEF Init, PointerFits
<1> QED BY <1>1, <1>3, <1>4 DEF TypeInv

LEMMA FlagsStep ==
  ASSUME Flags, FirmwareStep
  PROVE  Flags'
<1> USE DEF fileVars, handlerVars, taskVars, flagVars, sendVars, worldVars, EventFrame, SendFrame
<1>1. ASSUME NEW c \in Creators, Check(c) PROVE Flags'
  BY <1>1 DEF Check, Flags
<1>2. ASSUME NEW c \in Creators, Start(c) PROVE Flags'
  BY <1>2 DEF Start, Flags
<1>3. ASSUME NEW c \in Creators, OnConnectedNew(c) PROVE Flags'
  BY <1>3 DEF OnConnectedNew, Begins, Creates, Flags
<1>4. ASSUME NEW c \in Creators, OnConnectedStored(c) PROVE Flags'
  BY <1>4 DEF OnConnectedStored, Begins, Flags
<1>5. ASSUME NEW c \in Creators, OnDataLoad(c) \/ OnDataSame(c) \/ OnDataStore(c) PROVE Flags'
  <2>1. /\ UNCHANGED <<torn, marred, flagVars, File_opened, Ack_Received>>
        /\ No_Update' \in {No_Update, TRUE}
    BY <1>5 DEF OnDataLoad, OnDataSame, OnDataStore, Load, Arrives
  <2> QED BY <2>1 DEF Flags
<1>6. ASSUME NEW c \in Creators, OnDataDiffers(c) PROVE Flags'
  BY <1>6 DEF OnDataDiffers, Load, Arrives, Creates, Flags
<1>7. ASSUME NEW c \in Creators, OnFinish(c) PROVE Flags'
  BY <1>7 DEF OnFinish, Flags
<1>8. ASSUME NEW c \in Creators, Done(c) PROVE Flags'
  BY <1>8 DEF Done, Flags
<1>9. ASSUME NEW c \in Creators, OnError(c) PROVE Flags'
  BY <1>9 DEF OnError, Flags
<1>10. ASSUME UnitTask PROVE Flags'
  BY <1>10 DEF UnitTask, Connect, Claim, Claimed, Announce, SendBlock, SendTail, SendNothing, Sends, Flags
<1>11. ASSUME BoardAcks \/ AckLost \/ Release PROVE Flags'
  <2>1. /\ UNCHANGED <<torn, marred, flagVars, File_opened, No_Update>>
        /\ Ack_Received' \in {Ack_Received, TRUE}
    BY <1>11 DEF BoardAcks, AckLost, Release
  <2> QED BY <2>1 DEF Flags
<1>12. ASSUME Reboot PROVE Flags'
  BY <1>12 DEF Reboot, Writing, Flags
<1>13. ASSUME UNCHANGED <<fileVars, f, Filesize, handlerVars, taskVars, flagVars, sendVars, server>>
       PROVE  Flags'
  BY <1>13 DEF Flags
<1> QED BY <1>1, <1>2, <1>3, <1>4, <1>5, <1>6, <1>7, <1>8, <1>9, <1>10, <1>11, <1>12, <1>13
        DEF FirmwareStep, UpdateTask, OnData

LEMMA ShapesStep ==
  ASSUME Shapes, PointerFits, FirmwareStep
  PROVE  Shapes' /\ PointerFits'
<1> DEFINE Kept == Shapes' /\ PointerFits'
<1> USE DEF fileVars, handlerVars, taskVars, flagVars, sendVars, worldVars, EventFrame, SendFrame
<1>1. \A kind \in Kinds : \A max : Bounded(kind, max) => spent' \in [Kinds -> Nat]
  BY DEF Bounded, Shapes
<1>2. {"release", "restart", "fault"} \subseteq Kinds
  BY DEF Kinds
<1>3. \A first \in Seq(Chunk) : \A wrong : Creates(first, wrong) =>
        /\ f' \in {"null", "read", "write"} /\ (file' = NoFile \/ file' \in Seq(Chunk))
        /\ spent' \in [Kinds -> Nat]
  BY <1>1, <1>2 DEF Creates, Shapes
<1>4. Size \in Nat /\ Size >= 3 /\ Loaded = 3
  BY FirmwareAssumption DEF Loaded
<1>10. ASSUME NEW c \in Creators, Check(c) PROVE Kept
  <2>1. task' \in [Creators -> {"idle", "created", "connecting", "data", "over"}]
    BY <1>10 DEF Check, Shapes
  <2>3. checks' \in Nat
    BY <1>10 DEF Check, Shapes
  <2>2. UNCHANGED <<fileVars, f, Filesize, handlerVars, got, served, checked, sendVars, worldVars>>
    BY <1>10 DEF Check
  <2> QED BY <2>1, <2>2, <2>3 DEF Shapes, PointerFits
<1>11. ASSUME NEW c \in Creators, Start(c) \/ Done(c) PROVE Kept
  <2>1. \E s \in {"connecting", "idle"} : task' = [task EXCEPT ![c] = s]
    BY <1>11 DEF Start, Done
  <2>2. /\ got' = got \/ got' = [got EXCEPT ![c] = 0]
        /\ served' = served \/ served' = [served EXCEPT ![c] = server]
        /\ UNCHANGED <<fileVars, f, Filesize, handlerVars, checks, checked, sendVars, worldVars>>
    BY <1>11 DEF Start, Done
  <2>3. /\ task' \in [Creators -> {"idle", "created", "connecting", "data", "over"}]
        /\ got' \in [Creators -> 0 .. Size] /\ served' \in [Creators -> Versions]
    <3>1. task' \in [Creators -> {"idle", "created", "connecting", "data", "over"}]
      BY <2>1 DEF Shapes
    <3>2. got \in [Creators -> 0 .. Size] /\ 0 \in 0 .. Size
      BY <1>4 DEF Shapes
    <3>3. served \in [Creators -> Versions] /\ server \in Versions
      BY DEF Shapes
    <3>4. got' \in [Creators -> 0 .. Size]
      BY <2>2, <3>2
    <3>5. served' \in [Creators -> Versions]
      BY <2>2, <3>3
    <3> QED BY <3>1, <3>4, <3>5
  <2> QED BY <2>2, <2>3 DEF Shapes, PointerFits
<1>12. ASSUME NEW c \in Creators, OnConnectedNew(c) PROVE Kept
  <2>1. <<>> \in Seq(Chunk)
    OBVIOUS
  <2>2. /\ f' \in {"null", "read", "write"} /\ (file' = NoFile \/ file' \in Seq(Chunk))
        /\ spent' \in [Kinds -> Nat]
    BY <1>3, <1>12, <2>1 DEF OnConnectedNew
  <2>3. /\ task' = [task EXCEPT ![c] = "data"] /\ got' = [got EXCEPT ![c] = 0]
        /\ served' = [served EXCEPT ![c] = server] /\ checked' = Zero /\ Firmware_version' = Zero
        /\ UNCHANGED <<Load_Counter, Data_Counter, buffer, Pointer, Filesize, checks, server, sendVars>>
    BY <1>12 DEF OnConnectedNew, Begins
  <2>4. /\ task' \in [Creators -> {"idle", "created", "connecting", "data", "over"}]
        /\ got' \in [Creators -> 0 .. Size] /\ served' \in [Creators -> Versions]
    <3>1. task' \in [Creators -> {"idle", "created", "connecting", "data", "over"}]
      BY <2>3 DEF Shapes
    <3>2. got' \in [Creators -> 0 .. Size] /\ served' \in [Creators -> Versions]
      BY <1>4, <2>3 DEF Shapes
    <3> QED BY <3>1, <3>2
  <2> QED BY <2>2, <2>3, <2>4 DEF Shapes, PointerFits
<1>13. ASSUME NEW c \in Creators, OnConnectedStored(c) PROVE Kept
  <2>1. file \in Seq(Chunk) /\ buffer \in [1 .. Loaded -> Chunk]
    BY <1>13 DEF OnConnectedStored, Shapes
  <2>2. [i \in 1 .. Loaded |-> IF i <= Len(file) THEN file[i] ELSE buffer[i]]
          \in [1 .. Loaded -> Chunk]
    BY <1>4, <2>1
  <2>3. Firmware_version' \in Versions \cup {Zero, Junk}
    BY <1>13, <2>2, VersionType DEF OnConnectedStored
  <2> QED BY <1>4, <1>13, <2>3, ChunkTypes DEF OnConnectedStored, Begins, Shapes, PointerFits
<1>14. ASSUME NEW c \in Creators, OnData(c) PROVE Kept
  <2>1. /\ got[c] < Size /\ got' = [got EXCEPT ![c] = got[c] + 1]
        /\ UNCHANGED <<task, served, checked, Filesize, sendVars, checks, server>>
    BY <1>14 DEF OnData, OnDataLoad, OnDataSame, OnDataDiffers, OnDataStore, Load, Arrives
  <2>2. got' \in [Creators -> 0 .. Size]
    BY <2>1, ArrivalTypes DEF Shapes
  <2>3. ASSUME Load(c)
        PROVE  /\ buffer' \in [1 .. Loaded -> Chunk] /\ Pointer <= Load_Counter + 1
               /\ Pointer' = Pointer + 1 /\ Data_Counter' \in Nat
    BY <2>1, <2>3, ArrivalTypes DEF Load, Shapes, PointerFits
  <2>4. CASE OnDataLoad(c)
    BY <1>4, <2>1, <2>2, <2>3, <2>4 DEF OnDataLoad, Shapes, PointerFits
  <2>5. CASE OnDataSame(c)
    BY <1>4, <2>1, <2>2, <2>3, <2>5 DEF OnDataSame, Shapes, PointerFits
  <2>6. CASE OnDataDiffers(c)
    <3>1. Written(c, Data_Counter + 1) \in Seq(Chunk)
      BY <2>1, ArrivalTypes DEF Shapes
    <3> QED BY <1>3, <1>4, <2>1, <2>2, <2>3, <2>6, <3>1 DEF OnDataDiffers, Shapes, PointerFits
  <2>7. CASE OnDataStore(c)
    <3>1. Next1(c) \in Chunk
      BY <2>1, ArrivalTypes
    <3>2. file' = NoFile \/ file' \in Seq(Chunk)
      BY <2>7, <3>1 DEF OnDataStore, Shapes
    <3> QED BY <2>1, <2>2, <2>7, <3>2 DEF OnDataStore, Shapes, PointerFits
  <2> QED BY <1>14, <2>4, <2>5, <2>6, <2>7 DEF OnData
<1>15. ASSUME NEW c \in Creators, OnFinish(c) PROVE Kept
  BY <1>4, <1>15 DEF OnFinish, Shapes, PointerFits
<1>16. ASSUME NEW c \in Creators, OnError(c) PROVE Kept
  <2>1. /\ task' = [task EXCEPT ![c] = "over"] /\ file' \in {file, NoFile}
        /\ UNCHANGED <<f, Filesize, Data_Counter, buffer, Pointer, got, served, checked,
                       sendVars, checks, server>>
    BY <1>16 DEF OnError
  <2>2. \/ UNCHANGED <<Load_Counter, Firmware_version>>
        \/ Load_Counter' = 0 /\ Firmware_version' = Zero
    BY <1>16 DEF OnError
  <2>3. /\ task' \in [Creators -> {"idle", "created", "connecting", "data", "over"}]
        /\ spent' \in [Kinds -> Nat]
    BY <1>1, <1>2, <1>16, <2>1 DEF OnError, Shapes
  <2> QED BY <1>4, <2>1, <2>2, <2>3 DEF Shapes, PointerFits
<1>17. ASSUME UnitTask PROVE Kept
  <2>1. UNCHANGED <<fileVars, handlerVars, taskVars, worldVars>>
    BY <1>17 DEF UnitTask, Connect, Claim, Claimed, Announce, SendBlock, SendTail, SendNothing, Sends
  <2>2. Block \in Chunk /\ InWords(Block) \in Chunk
    BY ChunkTypes DEF Block, InWords, Shapes
  <2>3. file # NoFile => Len(file) \in Nat
    BY DEF Shapes
  <2>4. /\ f' \in {"null", "read", "write"} /\ pos' \in Nat /\ Filesize' \in Nat
        /\ stage' \in {"linking", "connected", "Bootloader_State", "claiming", "claimed",
                       "Bootloader_State1", "Bootloader_State_end"}
        /\ owed' \in {"none", "due", "lost"}
        /\ Bytes_Transfered' \in Nat /\ flashed' \in Seq(Chunk)
    <3>1. CASE Connect \/ Claim \/ Claimed \/ SendNothing
      BY <3>1 DEF Connect, Claim, Claimed, SendNothing, Shapes
    <3>3. CASE Announce
      BY <2>3, <3>3 DEF Announce, Shapes
    <3>2. CASE SendBlock \/ SendTail
      <4>1. flashed \in Seq(Chunk) /\ \E b \in {Block, InWords(Block)} : flashed' = Append(flashed, b)
        BY <3>2 DEF SendBlock, SendTail, Shapes
      <4>2. flashed' \in Seq(Chunk)
        BY <2>2, <4>1
      <4>3. /\ f' \in {f, "null"} /\ pos' = pos + 1 /\ Filesize' = Filesize /\ owed' = "due"
            /\ stage' \in {stage, "Bootloader_State_end"}
            /\ Bytes_Transfered' \in {Bytes_Transfered, Bytes_Transfered + 1}
        BY <3>2 DEF SendBlock, SendTail, Sends
      <4> QED BY <4>2, <4>3 DEF Shapes
    <3> QED BY <1>17, <3>1, <3>2, <3>3 DEF UnitTask
  <2> QED BY <2>1, <2>4 DEF Shapes, PointerFits
<1>18. ASSUME BoardAcks \/ AckLost PROVE Kept
  BY <1>1, <1>2, <1>18 DEF BoardAcks, AckLost, Shapes, PointerFits
<1>19. ASSUME Release PROVE Kept
  BY <1>1, <1>2, <1>19 DEF Release, Shapes, PointerFits
<1>20. ASSUME Reboot, spent' \in [Kinds -> Nat] PROVE Kept
  <2>1. file' = NoFile \/ file' \in Seq(Chunk)
    <3>1. CASE Writing
      <4>1. file \in Seq(Chunk)
        BY <3>1 DEF Writing, Shapes
      <4>2. PICK n \in 0 .. Len(file) : file' = SubSeq(file, 1, n)
        BY <1>20, <3>1 DEF Reboot
      <4> QED BY <4>1, <4>2
    <3>2. CASE ~Writing
      BY <1>20, <3>2 DEF Reboot, Shapes
    <3> QED BY <3>1, <3>2
  <2>2. /\ f' = "null" /\ pos' = 0 /\ Filesize' = 0 /\ Firmware_version' = Zero
        /\ Load_Counter' = 0 /\ Data_Counter' = 0 /\ buffer' = Blank /\ Pointer' = 1
        /\ checks' = 0 /\ checked' = Zero /\ stage' = "linking" /\ Bytes_Transfered' = 0
        /\ flashed' = <<>> /\ owed' = "none"
    BY <1>20 DEF Reboot
  <2>3. /\ task' = [c \in Creators |-> "idle"] /\ got' = [c \in Creators |-> 0]
        /\ served' = [c \in Creators |-> server] /\ server' = server
    BY <1>20 DEF Reboot
  <2>4. task' \in [Creators -> {"idle", "created", "connecting", "data", "over"}]
        /\ got' \in [Creators -> 0 .. Size]
    BY <1>4, <2>3
  <2> QED BY <1>4, <1>20, <2>1, <2>2, <2>3, <2>4, ChunkTypes DEF Shapes, PointerFits
<1>21. ASSUME UNCHANGED <<fileVars, f, Filesize, handlerVars, taskVars, flagVars, sendVars, server>>,
              spent' \in [Kinds -> Nat]
       PROVE  Kept
  BY <1>21 DEF Shapes, PointerFits
<1> QED BY <1>10, <1>11, <1>12, <1>13, <1>14, <1>15, <1>16, <1>17, <1>18, <1>19, <1>20, <1>21
        DEF FirmwareStep, UpdateTask

\* Every variable keeps its range, whatever was broken off before; above all
\* no chunk is stored behind the end of Buffer_Test (main.c 205-229).
LEMMA TypeStep == TypeInv /\ FirmwareStep => TypeInv'
BY FlagsStep, ShapesStep DEF TypeInv

LEMMA TypeInvImplies == TypeInv => TypeOK
BY DEF TypeInv, Flags, Shapes, TypeOK, Kinds

-----------------------------------------------------------------------------
(* What is sent to the board                                                *)

Busy(c) == task[c] \in {"connecting", "data", "over"}

\* Without a clash the flags show who is at work: one update, or the transfer.
Excluded ==
  ~clash => /\ \A c \in Creators : Busy(c) => Unit_Update_task_Flag /\ ~Bootloader_State_Flag
            /\ \A c, d \in Creators : Busy(c) /\ Busy(d) => c = d

\* The file is read from its beginning, as far as the board has got it.
Sending ==
  /\ flashed = SubSeq(file, 1, Len(flashed))
  /\ Len(flashed) < Len(file) \/ Len(flashed) = 0
  /\ f = "read" /\ pos = Len(flashed)
  /\ Filesize = Len(file) /\ Bytes_Transfered = Len(flashed)

Transfer ==
  /\ stage \in {"claimed", "Bootloader_State1", "Bootloader_State_end"} => Bootloader_State_Flag
  /\ stage \in {"linking", "connected", "Bootloader_State", "claiming", "claimed"} =>
       flashed = <<>> /\ Bytes_Transfered = 0
  /\ stage = "Bootloader_State1" /\ ~clash => file # NoFile /\ Sending
  /\ stage = "Bootloader_State_end" /\ ~clash =>
       flashed = IF file = NoFile THEN <<>> ELSE AsSent(file)

SendInv == TypeInv /\ Excluded /\ Transfer

LEMMA SendInit == Init => SendInv
<1> SUFFICES ASSUME Init PROVE SendInv
  OBVIOUS
<1>1. TypeInv
  BY TypeInit
<1>2. Excluded
  BY DEF Init, Excluded, Busy
<1>3. Transfer
  BY DEF Init, Transfer
<1> QED BY <1>1, <1>2, <1>3 DEF SendInv

\* The flags and the task of one creator, as each of its steps leaves them.
LEMMA ExcludedStep ==
  ASSUME TypeInv, Excluded, FirmwareStep
  PROVE  Excluded'
<1> USE DEF fileVars, handlerVars, taskVars, flagVars, sendVars, worldVars, EventFrame, SendFrame,
            Busy
<1>1. /\ task \in [Creators -> {"idle", "created", "connecting", "data", "over"}]
      /\ Flags
  BY DEF TypeInv, Shapes
<1>2. ASSUME NEW c \in Creators, Check(c) PROVE Excluded'
  <2>1. /\ task' = [task EXCEPT ![c] = "created"]
        /\ UNCHANGED <<clash, Unit_Update_task_Flag, Bootloader_State_Flag>>
    BY <1>2 DEF Check
  <2> QED BY <1>1, <2>1 DEF Excluded
<1>3. ASSUME NEW c \in Creators, Start(c) PROVE Excluded'
  <2>1. /\ task' = [task EXCEPT ![c] = "connecting"] /\ Unit_Update_task_Flag'
        /\ Bootloader_State_Flag' = Bootloader_State_Flag
    BY <1>3 DEF Start
  <2>2. ~clash' => ~clash /\ ~Unit_Update_task_Flag /\ ~Bootloader_State_Flag
    BY <1>3, Zenon DEF Start
  <2>3. ~clash' => \A d \in Creators : ~Busy(d)
    BY <2>2 DEF Excluded
  <2> QED BY <1>1, <2>1, <2>2, <2>3 DEF Excluded
<1>4. ASSUME NEW c \in Creators, UpdateTask(c) \/ OnError(c), ~Start(c) PROVE Excluded'
  <2>1. /\ Busy(c) /\ \A d \in Creators : d # c => task'[d] = task[d]
        /\ UNCHANGED <<clash, Bootloader_State_Flag>>
    BY <1>1, <1>4 DEF UpdateTask, OnConnectedNew, OnConnectedStored, Begins, OnData, OnDataLoad,
       OnDataSame, OnDataDiffers, OnDataStore, Load, Arrives, OnFinish, Done, OnError
  <2>2. CASE Done(c)
    <3>1. task'[c] = "idle"
      BY <1>1, <2>2 DEF Done
    <3> QED BY <2>1, <3>1 DEF Excluded
  <2>3. CASE ~Done(c)
    <3>1. Unit_Update_task_Flag' = Unit_Update_task_Flag
      BY <1>4, <2>3 DEF UpdateTask, OnConnectedNew, OnConnectedStored, Begins, OnData, OnDataLoad,
         OnDataSame, OnDataDiffers, OnDataStore, Load, Arrives, OnFinish, OnError
    <3> QED BY <2>1, <3>1 DEF Excluded
  <2> QED BY <2>2, <2>3
<1>5. ASSUME UnitTask PROVE Excluded'
  <2>1. CASE Claimed
    <3>1. UNCHANGED <<task, Unit_Update_task_Flag>> /\ clash' = (clash \/ Unit_Update_task_Flag)
      BY <2>1 DEF Claimed
    <3>2. ~clash' => ~clash /\ ~Unit_Update_task_Flag
      BY <3>1, Zenon
    <3> QED BY <3>1, <3>2 DEF Excluded
  <2>2. CASE ~Claimed
    BY <1>5, <2>2 DEF UnitTask, Connect, Claim, Announce, SendBlock, SendTail, SendNothing, Sends,
       Excluded
  <2> QED BY <2>1, <2>2
<1>6. ASSUME BoardAcks \/ AckLost \/ Release PROVE Excluded'
  BY <1>6 DEF BoardAcks, AckLost, Release, Excluded
<1>7. ASSUME Reboot PROVE Excluded'
  BY <1>7 DEF Reboot, Excluded
<1>8. ASSUME UNCHANGED <<fileVars, f, Filesize, handlerVars, taskVars, flagVars, sendVars, server>>
      PROVE  Excluded'
  BY <1>8 DEF Excluded
<1> QED BY <1>2, <1>3, <1>4, <1>5, <1>6, <1>7, <1>8 DEF FirmwareStep

\* While a transfer runs nobody else touches the file or the handle.
LEMMA TransferUndisturbed ==
  ASSUME TypeInv, Excluded, NEW c \in Creators, Check(c) \/ UpdateTask(c) \/ OnError(c)
  PROVE  /\ Bootloader_State_Flag' = Bootloader_State_Flag
         /\ UNCHANGED <<stage, pos, Bytes_Transfered, flashed>>
         /\ ~clash' => ~clash
         /\ Bootloader_State_Flag /\ ~clash => UNCHANGED <<file, f, Filesize>>
<1> USE DEF fileVars, handlerVars, taskVars, flagVars, sendVars, worldVars, EventFrame
<1>1. CASE Check(c)
  BY <1>1 DEF Check
<1>2. CASE Start(c)
  BY <1>2 DEF Start
<1>3. CASE ~Check(c) /\ ~Start(c)
  <2>1. /\ Busy(c)
        /\ UNCHANGED <<Bootloader_State_Flag, stage, pos, Bytes_Transfered, flashed, clash>>
    BY <1>3 DEF UpdateTask, OnConnectedNew, OnConnectedStored, Begins, OnData, OnDataLoad,
       OnDataSame, OnDataDiffers, OnDataStore, Load, Arrives, OnFinish, Done, OnError, Busy
  <2> QED BY <2>1 DEF Excluded
<1> QED BY <1>1, <1>2, <1>3

\* The next block is the one of the file that follows those sent.
LEMMA NextBlock ==
  ASSUME TypeInv, file # NoFile, Sending, Bytes_Transfered < Filesize
  PROVE  /\ Block = file[Len(flashed) + 1]
         /\ Append(flashed, Block) = SubSeq(file, 1, Len(flashed) + 1)
         /\ Len(Append(flashed, Block)) = Len(flashed) + 1
<1>1. file \in Seq(Chunk) /\ flashed \in Seq(Chunk) /\ Len(flashed) \in Nat /\ Len(file) \in Nat
  BY DEF TypeInv, Shapes
<1>2. /\ flashed = SubSeq(file, 1, Len(flashed)) /\ Len(flashed) < Len(file)
      /\ Block = file[Len(flashed) + 1]
  BY <1>1 DEF Sending, Block
<1> DEFINE n == Len(flashed)
<1>3. Append(SubSeq(file, 1, n), file[n + 1]) = SubSeq(file, 1, n + 1)
  <2>1. n + 1 \in 1 .. Len(file) /\ file[n + 1] \in Chunk
    BY <1>1, <1>2
  <2>2. SubSeq(file, 1, n) \in Seq(Chunk)
    BY <1>1, <1>2
  <2>3. SubSeq(file, 1, n + 1) = SubSeq(file, 1, n + 1 - 1) \o <<file[n + 1]>>
    BY <1>1, <2>1, SubSeqRecursiveSecond
  <2>4. Append(SubSeq(file, 1, n), file[n + 1]) = SubSeq(file, 1, n) \o <<file[n + 1]>>
    BY <2>1, <2>2, AppendIsConcat
  <2>5. n + 1 - 1 = n
    BY <1>1
  <2> QED BY <2>3, <2>4, <2>5
<1>4. Len(Append(flashed, Block)) = n + 1
  BY <1>1, <1>2, AppendProperties
<1> QED BY <1>2, <1>3, <1>4

\* What a whole transfer brings: all blocks but the last as they are.
LEMMA SentFacts ==
  ASSUME NEW s \in Seq(Chunk), NEW n \in Nat, n < Len(s)
  PROVE  /\ AsSent(s) \in Seq(Chunk) /\ Len(AsSent(s)) = Len(s)
         /\ SubSeq(AsSent(s), 1, n) = SubSeq(s, 1, n)
         /\ n + 1 = Len(s) => AsSent(s) = Append(SubSeq(s, 1, n), InWords(s[n + 1]))
<1> DEFINE t == AsSent(s)
           p == SubSeq(s, 1, n)
           q == SubSeq(t, 1, n)
<1>1. /\ Len(s) \in Nat /\ \A i \in 1 .. Len(s) : s[i] \in Chunk
      /\ \A b \in Chunk : InWords(b) \in Chunk
  BY ChunkTypes DEF InWords
<1>2. /\ t \in Seq(Chunk) /\ Len(t) = Len(s)
      /\ \A i \in 1 .. Len(s) : t[i] = IF i = Len(s) THEN InWords(s[i]) ELSE s[i]
  <2>1. t = [i \in 1 .. Len(s) |-> IF i = Len(s) THEN InWords(s[i]) ELSE s[i]]
    BY DEF AsSent
  <2> HIDE DEF t
  <2>2. t \in [1 .. Len(s) -> Chunk]
    BY <1>1, <2>1
  <2> QED BY <1>1, <2>1, <2>2
<1> HIDE DEF t
<1>3. p \in Seq(Chunk) /\ Len(p) = n /\ \A i \in 1 .. n : p[i] = s[i]
  BY <1>1
<1>4. q \in Seq(Chunk) /\ Len(q) = n /\ \A i \in 1 .. n : q[i] = t[i]
  BY <1>1, <1>2
<1> HIDE DEF p, q
<1>5. q = p
  <2>1. \A i \in 1 .. n : q[i] = p[i]
    BY <1>1, <1>2, <1>3, <1>4
  <2> QED BY <1>3, <1>4, <2>1, SeqEqual
<1>6. ASSUME n + 1 = Len(s) PROVE t = Append(p, InWords(s[n + 1]))
  <2> DEFINE e == InWords(s[n + 1])
             a == Append(p, e)
  <2>1. e \in Chunk
    BY <1>1, <1>6
  <2> HIDE DEF e
  <2>2. a \in Seq(Chunk) /\ Len(a) = n + 1 /\ a[n + 1] = e /\ \A i \in 1 .. n : a[i] = p[i]
    BY <1>3, <2>1, AppendProperties
  <2> HIDE DEF a
  <2>3. \A i \in 1 .. n + 1 : t[i] = a[i]
    BY <1>1, <1>2, <1>3, <1>6, <2>2 DEF e
  <2>4. t = a
    BY <1>2, <1>6, <2>2, <2>3, SeqEqual
  <2> QED BY <2>4 DEF a, e
<1> QED BY <1>2, <1>5, <1>6 DEF t, p, q

LEMMA TransferStep ==
  ASSUME TypeInv, Excluded, Transfer, FirmwareStep
  PROVE  Transfer'
<1> USE DEF fileVars, handlerVars, taskVars, flagVars, sendVars, worldVars, SendFrame
<1>1. ASSUME NEW c \in Creators, Check(c) \/ UpdateTask(c) \/ OnError(c) PROVE Transfer'
  <2>1. /\ Bootloader_State_Flag' = Bootloader_State_Flag
        /\ UNCHANGED <<stage, pos, Bytes_Transfered, flashed>>
        /\ ~clash' => ~clash
        /\ Bootloader_State_Flag /\ ~clash => UNCHANGED <<file, f, Filesize>>
    BY <1>1, TransferUndisturbed
  <2>2. stage \in {"Bootloader_State1", "Bootloader_State_end"} /\ ~clash' =>
          UNCHANGED <<file, f, Filesize>> /\ ~clash
    BY <2>1 DEF Transfer
  <2> QED BY <2>1, <2>2 DEF Transfer, Sending
<1>2. ASSUME Connect \/ Claim \/ Claimed PROVE Transfer'
  BY <1>2 DEF Connect, Claim, Claimed, Transfer
<1>3. ASSUME Announce PROVE Transfer'
  <2>1. /\ flashed = <<>> /\ Bytes_Transfered = 0 /\ Bootloader_State_Flag
        /\ UNCHANGED <<file, flagVars, flashed, Bytes_Transfered>> /\ pos' = 0
    BY <1>3 DEF Announce, Transfer
  <2>2. CASE file = NoFile
    BY <1>3, <2>1, <2>2 DEF Announce, Transfer
  <2>3. CASE file # NoFile
    <3>1. f' = "read" /\ Filesize' = Len(file) /\ stage' = "Bootloader_State1"
      BY <1>3, <2>3 DEF Announce
    <3>2. file \in Seq(Chunk) /\ Len(file) \in Nat
      BY <2>3 DEF TypeInv, Shapes
    <3>3. SubSeq(file, 1, 0) = <<>> /\ Len(<<>>) = 0
      BY SubSeqEmpty
    <3> QED BY <2>1, <2>3, <3>1, <3>2, <3>3 DEF Transfer, Sending
  <2> QED BY <2>2, <2>3
<1>4. ASSUME SendBlock \/ SendTail PROVE Transfer'
  <2>1. /\ stage = "Bootloader_State1" /\ UNCHANGED <<file, flagVars, Filesize>>
        /\ pos' = pos + 1 /\ Bootloader_State_Flag
    BY <1>4 DEF SendBlock, SendTail, Sends, Transfer
  <2>2. CASE clash
    <3>1. stage' \in {"Bootloader_State1", "Bootloader_State_end"}
      BY <1>4, <2>1 DEF SendBlock, SendTail
    <3> QED BY <2>1, <2>2, <3>1 DEF Transfer
  <2>3. CASE ~clash
    <3>1. /\ file # NoFile /\ Sending /\ file \in Seq(Chunk) /\ flashed \in Seq(Chunk)
          /\ Len(flashed) \in Nat /\ Len(file) \in Nat
      BY <2>1, <2>3 DEF Transfer, TypeInv, Shapes
    <3>2. Bytes_Transfered = Len(flashed) /\ Filesize = Len(file) /\ f = "read" /\ pos = Len(flashed)
      BY <3>1 DEF Sending
    <3>3. Bytes_Transfered < Filesize
      BY <1>4, <3>1, <3>2 DEF SendBlock, SendTail
    <3>4. /\ Block = file[Len(flashed) + 1]
          /\ Append(flashed, Block) = SubSeq(file, 1, Len(flashed) + 1)
          /\ Len(Append(flashed, Block)) = Len(flashed) + 1
      BY <3>1, <3>3, NextBlock
    <3>5. CASE SendBlock
      <4>1. /\ stage' = "Bootloader_State1" /\ f' = f /\ Bytes_Transfered' = Bytes_Transfered + 1
            /\ Len(flashed) + 1 < Len(file) /\ flashed' = Append(flashed, Block)
        BY <2>1, <3>1, <3>2, <3>5 DEF SendBlock
      <4> QED BY <2>1, <3>1, <3>2, <3>4, <4>1 DEF Transfer, Sending
    <3>6. CASE SendTail
      <4>1. /\ stage' = "Bootloader_State_end" /\ Len(flashed) + 1 = Len(file)
            /\ flashed' = Append(flashed, InWords(Block))
        BY <3>1, <3>2, <3>6 DEF SendTail
      <4>2. flashed' = AsSent(file)
        BY <3>1, <3>2, <3>4, <4>1, SentFacts DEF Sending
      <4> QED BY <2>1, <3>1, <4>1, <4>2 DEF Transfer
    <3> QED BY <1>4, <3>5, <3>6
  <2> QED BY <2>2, <2>3
<1>5. ASSUME SendNothing \/ BoardAcks \/ AckLost \/ Release PROVE Transfer'
  BY <1>5 DEF SendNothing, BoardAcks, AckLost, Release, Transfer, Sending
<1>6. ASSUME Reboot PROVE Transfer'
  BY <1>6 DEF Reboot, Transfer
<1>7. ASSUME UNCHANGED <<fileVars, f, Filesize, handlerVars, taskVars, flagVars, sendVars, server>>
      PROVE  Transfer'
  BY <1>7 DEF Transfer, Sending
<1> QED BY <1>1, <1>2, <1>3, <1>4, <1>5, <1>6, <1>7 DEF FirmwareStep, UnitTask

LEMMA SendStep == SendInv /\ FirmwareStep => SendInv'
BY TypeStep, ExcludedStep, TransferStep DEF SendInv

\* What the invariant says of the board.
LEMMA SendImplies == SendInv => SentIsFile
<1> SUFFICES ASSUME SendInv, flashed # <<>>, ~clash
             PROVE  /\ file # NoFile /\ Len(flashed) <= Len(file)
                    /\ flashed = SubSeq(AsSent(file), 1, Len(flashed))
                    /\ stage = "Bootloader_State_end" => flashed = AsSent(file)
  BY DEF SentIsFile
<1>1. stage \in {"Bootloader_State1", "Bootloader_State_end"}
  BY DEF SendInv, Transfer, TypeInv, Shapes
<1>2. CASE stage = "Bootloader_State1"
  <2>1. file # NoFile /\ Sending /\ file \in Seq(Chunk) /\ flashed \in Seq(Chunk)
    BY <1>2 DEF SendInv, Transfer, TypeInv, Shapes
  <2>2. Len(flashed) \in Nat /\ Len(flashed) < Len(file)
    BY <2>1 DEF Sending
  <2>3. SubSeq(AsSent(file), 1, Len(flashed)) = flashed
    BY <2>1, <2>2, SentFacts DEF Sending
  <2> QED BY <1>2, <2>1, <2>2, <2>3
<1>3. CASE stage = "Bootloader_State_end"
  <2>1. file # NoFile /\ flashed = AsSent(file) /\ file \in Seq(Chunk)
    BY <1>3 DEF SendInv, Transfer, TypeInv, Shapes
  <2>2. 0 < Len(file)
    <3>1. Len(file) \in Nat /\ Len(file) = 0 => AsSent(file) = <<>>
      BY <2>1 DEF AsSent
    <3> QED BY <2>1, <3>1
  <2>3. AsSent(file) \in Seq(Chunk) /\ Len(AsSent(file)) = Len(file)
    BY <2>1, <2>2, SentFacts
  <2> QED BY <2>1, <2>3, SubSeqFull
<1> QED BY <1>1, <1>2, <1>3

-----------------------------------------------------------------------------
(* What is stored: every update of a boot                                   *)

Prefix(v, n) == [i \in 1 .. n |-> <<v, i>>]

\* Buffer_Test with the first n chunks of what c downloads.
Collected(c, n) == [i \in 1 .. Loaded |-> IF i <= n THEN <<served[c], i>> ELSE Zero]

\* A file is stored and the beginning of the image on offer is collected, to
\* compare the versions.  The counters are those of the chunks at least: a
\* download that broke off, or an earlier comparison, has left them higher.
Loading(c) ==
  /\ Firmware_version \in Versions \cup {Junk} /\ ~File_opened /\ ~No_Update
  /\ Load_Counter >= got[c] /\ Data_Counter >= got[c] /\ Pointer = got[c] + 1
  /\ buffer = Collected(c, got[c]) /\ file # NoFile
  /\ ~torn /\ ~marred => Firmware_version \in Versions /\ file = Prefix(Firmware_version, Size)

\* The image is stored, or it need not be, or it cannot be.
Storing(c) ==
  /\ Firmware_version = Zero
  /\ File_opened => /\ file # NoFile /\ ~No_Update /\ f = "write"
                    /\ ~marred => file = Prefix(served[c], got[c])
  /\ ~File_opened /\ ~torn /\ ~marred => file = NoFile \/ file = Prefix(served[c], Size)
  /\ No_Update => file # NoFile

Tasks ==
  /\ \A c \in Creators : task[c] = "data" => checked = Zero /\ (Loading(c) \/ Storing(c))
  /\ (\A c \in Creators : task[c] # "data") => ~File_opened /\ ~No_Update

\* A file that is not being written is whole, unless it was torn.
Files ==
  /\ file # NoFile /\ ~marred => \E v \in Versions, n \in 0 .. Size : file = Prefix(v, n)
  /\ ~torn /\ ~marred /\ ~File_opened =>
       file = NoFile \/ \E v \in Versions : file = Prefix(v, Size)
  /\ checked # Zero /\ file # NoFile /\ ~torn /\ ~marred => file = Prefix(checked, Size)

StoreInv == SendInv /\ Load_Counter <= Data_Counter /\ (~clash => Tasks /\ Files)

\* A prefix is a file; writing the next chunk and tearing the file make others.
LEMMA PrefixFacts ==
  ASSUME NEW v \in Versions, NEW n \in 0 .. Size
  PROVE  /\ Prefix(v, n) \in Seq(Chunk) /\ Len(Prefix(v, n)) = n
         /\ n < Size => Append(Prefix(v, n), <<v, n + 1>>) = Prefix(v, n + 1)
         /\ \A m \in 0 .. n : SubSeq(Prefix(v, n), 1, m) = Prefix(v, m)
<1>1. Size \in Nat /\ n \in Nat
  BY FirmwareAssumption
<1>2. \A i \in 1 .. Size : <<v, i>> \in Chunk
  BY ChunkTypes
<1>3. \A m \in 0 .. Size : /\ Prefix(v, m) \in Seq(Chunk) /\ Len(Prefix(v, m)) = m
                           /\ \A i \in 1 .. m : Prefix(v, m)[i] = <<v, i>>
  BY <1>1, <1>2 DEF Prefix
<1>4. ASSUME n < Size PROVE Append(Prefix(v, n), <<v, n + 1>>) = Prefix(v, n + 1)
  <2> DEFINE s == Append(Prefix(v, n), <<v, n + 1>>)
             t == Prefix(v, n + 1)
  <2>1. n + 1 \in 0 .. Size /\ n + 1 \in 1 .. Size
    BY <1>1, <1>4
  <2>2. t \in Seq(Chunk) /\ Len(t) = n + 1 /\ \A i \in 1 .. n + 1 : t[i] = <<v, i>>
    BY <1>3, <2>1
  <2>3. <<v, n + 1>> \in Chunk
    BY <1>2, <2>1
  <2>4. /\ s \in Seq(Chunk) /\ Len(s) = n + 1 /\ s[n + 1] = <<v, n + 1>>
        /\ \A i \in 1 .. n : s[i] = Prefix(v, n)[i]
    <3>1. Prefix(v, n) \in Seq(Chunk) /\ Len(Prefix(v, n)) = n
      BY <1>1, <1>2 DEF Prefix
    <3>2. \A r \in Seq(Chunk), e \in Chunk :
            /\ Append(r, e) \in Seq(Chunk) /\ Len(Append(r, e)) = Len(r) + 1
            /\ Append(r, e)[Len(r) + 1] = e /\ \A i \in 1 .. Len(r) : Append(r, e)[i] = r[i]
      BY AppendProperties
    <3> HIDE DEF s
    <3>3. s = Append(Prefix(v, n), <<v, n + 1>>)
      BY DEF s
    <3> QED BY <2>3, <3>1, <3>2, <3>3
  <2>5. \A i \in 1 .. n + 1 : s[i] = t[i]
    <3> SUFFICES ASSUME NEW i \in 1 .. n + 1 PROVE s[i] = t[i]
      OBVIOUS
    <3> HIDE DEF s, t
    <3>1. t[i] = <<v, i>>
      BY <2>2
    <3>2. CASE i = n + 1
      BY <2>4, <3>1, <3>2
    <3>3. CASE i # n + 1
      <4>1. i \in 1 .. n
        BY <1>1, <3>3
      <4> QED BY <1>3, <2>4, <3>1, <4>1
    <3> QED BY <3>2, <3>3
  <2> HIDE DEF s, t
  <2>6. s = t
    BY <2>2, <2>4, <2>5, SeqEqual
  <2> QED BY <2>6 DEF s, t
<1>5. ASSUME NEW m \in 0 .. n PROVE SubSeq(Prefix(v, n), 1, m) = Prefix(v, m)
  <2> DEFINE s == SubSeq(Prefix(v, n), 1, m)
             t == Prefix(v, m)
  <2>1. m \in 0 .. Size /\ m \in Nat
    BY <1>1
  <2>2. t \in Seq(Chunk) /\ Len(t) = m /\ \A i \in 1 .. m : t[i] = <<v, i>>
    BY <1>3, <2>1
  <2>3. \A i \in 1 .. m : Prefix(v, n)[i] = <<v, i>> /\ Prefix(v, n)[i] \in Chunk
    <3>1. \A i \in 1 .. m : i \in 1 .. n /\ i \in 1 .. Size
      BY <1>1, <2>1
    <3>2. Prefix(v, n) \in Seq(Chunk) /\ Len(Prefix(v, n)) = n
      BY <1>3
    <3> QED BY <1>2, <1>3, <3>1, <3>2
  <2>4. /\ s \in Seq(Chunk) /\ Len(s) = m /\ \A i \in 1 .. m : s[i] = Prefix(v, n)[i]
    <3>1. /\ s \in Seq(Chunk)
          /\ Len(s) = IF 1 <= m THEN m - 1 + 1 ELSE 0
          /\ \A i \in 1 .. m - 1 + 1 : s[i] = Prefix(v, n)[1 + i - 1]
      BY <2>1, <2>3, SubSeqProperties
    <3> HIDE DEF s
    <3>2. m - 1 + 1 = m /\ \A i \in 1 .. m : 1 + i - 1 = i
      BY <2>1
    <3> QED BY <2>1, <3>1, <3>2
  <2>5. \A i \in 1 .. m : s[i] = t[i]
    BY <2>2, <2>3, <2>4
  <2> HIDE DEF s, t
  <2>6. s = t
    BY <2>2, <2>4, <2>5, SeqEqual
  <2> QED BY <2>6 DEF s, t
<1> QED BY <1>1, <1>3, <1>4, <1>5

\* The first chunks of what the server offers, as the beginning of a file.
LEMMA ImageIsPrefix ==
  ASSUME NEW v \in Versions
  PROVE  /\ Image(v) = Prefix(v, Size)
         /\ \A n \in 0 .. Size : SubSeq(Image(v), 1, n) = Prefix(v, n)
<1>1. Image(v) = Prefix(v, Size) /\ Size \in Nat
  BY FirmwareAssumption DEF Image, Prefix
<1> QED BY <1>1, PrefixFacts

\* The prefixes of two versions that reach the third chunk differ there.
LEMMA PrefixAt ==
  ASSUME NEW v \in Versions, NEW n \in 0 .. Size
  PROVE  \A i \in 1 .. n : Prefix(v, n)[i] = <<v, i>>
BY DEF Prefix

\* The version that is found in a buffer is that of its third chunk.
LEMMA VersionFound ==
  ASSUME NEW b \in [1 .. Loaded -> Chunk], NEW v \in Versions, b[Loaded] = <<v, Loaded>>
  PROVE  VersionIn(b) = v
<1>1. Loaded \in 1 .. Size
  BY FirmwareAssumption DEF Loaded
<1>2. <<v, Loaded>> # Zero
  BY <1>1, FirmwareAssumption
<1> QED BY <1>2 DEF VersionIn

\* The buffer is filled from its beginning, and its version is that of its
\* third chunk: 0 before that is here.
LEMMA CollectedFacts ==
  ASSUME TypeInv, NEW c \in Creators, NEW n \in 0 .. Loaded
  PROVE  /\ Collected(c, n) \in [1 .. Loaded -> Chunk]
         /\ VersionIn(Collected(c, n)) = IF n = Loaded THEN served[c] ELSE Zero
<1>1. served[c] \in Versions /\ Loaded = 3 /\ Size \in Nat /\ Size >= 3
  BY FirmwareAssumption DEF TypeInv, Shapes, Loaded
<1>2. \A i \in 1 .. Loaded : <<served[c], i>> \in Chunk
  BY <1>1, ChunkTypes
<1>3. Collected(c, n) \in [1 .. Loaded -> Chunk]
  BY <1>2, ChunkTypes DEF Collected
<1>4. CASE n = Loaded
  <2>1. Collected(c, n)[Loaded] = <<served[c], Loaded>>
    BY <1>1, <1>4 DEF Collected
  <2> QED BY <1>1, <1>3, <1>4, <2>1, VersionFound
<1>5. CASE n # Loaded
  <2>1. Collected(c, n)[Loaded] = Zero
    BY <1>1, <1>5 DEF Collected
  <2> QED BY <1>3, <1>5, <2>1 DEF VersionIn
<1> QED BY <1>3, <1>4, <1>5

LEMMA StoreInit == Init => StoreInv
<1> SUFFICES ASSUME Init PROVE StoreInv
  OBVIOUS
<1>1. SendInv
  BY SendInit
<1>2. Load_Counter <= Data_Counter
  BY DEF Init
<1>3. Tasks
  BY DEF Init, Tasks
<1>4. file = NoFile \/ \E v \in Versions : file = Prefix(v, Size)
  BY ImageIsPrefix DEF Init
<1>5. Files
  BY <1>4, FirmwareAssumption DEF Init, Files
<1> QED BY <1>1, <1>2, <1>3, <1>5 DEF StoreInv

\* The number of chunks is never behind that of the chunks of a comparison.
LEMMA CountersStep ==
  ASSUME TypeInv, Load_Counter <= Data_Counter, FirmwareStep
  PROVE  (Load_Counter <= Data_Counter)'
<1> USE DEF handlerVars, SendFrame
<1>1. Load_Counter \in Nat /\ Data_Counter \in Nat
  BY DEF TypeInv, Shapes, Loaded
<1>2. ASSUME NEW c \in Creators, Check(c) \/ UpdateTask(c) \/ OnError(c)
      PROVE  (Load_Counter <= Data_Counter)'
  <2>1. \/ UNCHANGED <<Load_Counter, Data_Counter>>
        \/ Load_Counter' = Load_Counter + 1 /\ Data_Counter' = Data_Counter + 1
        \/ Load_Counter' = 0 /\ Data_Counter' \in {Data_Counter, Data_Counter + 1}
    <3>1. CASE Check(c) \/ Start(c) \/ Done(c)
      BY <3>1 DEF Check, Start, Done
    <3>2. CASE OnConnectedNew(c) \/ OnConnectedStored(c)
      BY <3>2 DEF OnConnectedNew, OnConnectedStored, Begins
    <3>3. CASE OnDataLoad(c) \/ OnDataSame(c) \/ OnDataDiffers(c)
      BY <3>3 DEF OnDataLoad, OnDataSame, OnDataDiffers, Load
    <3>4. CASE OnDataStore(c) \/ OnFinish(c) \/ OnError(c)
      BY <3>4 DEF OnDataStore, OnFinish, OnError
    <3> QED BY <1>2, <3>1, <3>2, <3>3, <3>4 DEF UpdateTask, OnData
  <2> QED BY <1>1, <2>1
<1>3. ASSUME UnitTask \/ BoardAcks \/ AckLost \/ Release PROVE (Load_Counter <= Data_Counter)'
  BY <1>3 DEF UnitTask, Connect, Claim, Claimed, Announce, SendBlock, SendTail, SendNothing, Sends,
     BoardAcks, AckLost, Release
<1>4. ASSUME Reboot PROVE (Load_Counter <= Data_Counter)'
  BY <1>4 DEF Reboot
<1> QED BY <1>2, <1>3, <1>4 DEF FirmwareStep

\* What holds without a clash, by name.
LEMMA StoreFacts ==
  ASSUME StoreInv, ~clash
  PROVE  /\ Tasks /\ Files /\ TypeInv /\ Excluded /\ Load_Counter <= Data_Counter
         /\ \A c, d \in Creators : Busy(c) /\ Busy(d) => c = d
         /\ \A c \in Creators : task[c] = "data" => \A d \in Creators \ {c} : task[d] # "data"
BY DEF StoreInv, SendInv, Excluded, Busy

\* What the task that is at work has to leave behind.
LEMMA TasksAfter ==
  ASSUME StoreInv, ~clash, NEW c \in Creators, Busy(c),
         \A d \in Creators \ {c} : task'[d] = task[d],
         task'[c] = "data" => checked' = Zero /\ (Loading(c)' \/ Storing(c)'),
         task'[c] # "data" => ~File_opened' /\ ~No_Update'
  PROVE  Tasks'
<1>1. \A d \in Creators \ {c} : task'[d] # "data"
  BY StoreFacts DEF Busy
<1> QED BY <1>1, Zenon DEF Tasks

\* The steps of others: the transfer takes the handle only when no file is
\* being written.
LEMMA StoreBeside ==
  ASSUME StoreInv, ~clash, UNCHANGED <<fileVars, handlerVars, got, served, checked>>,
         \A c \in Creators : task'[c] = "data" <=> task[c] = "data", File_opened => f' = f
  PROVE  Tasks' /\ Files'
<1> USE DEF fileVars, handlerVars
<1>1. Tasks /\ Files
  BY StoreFacts
<1>2. \A c \in Creators : Loading(c) => Loading(c)'
  BY DEF Loading, Collected
<1>3. \A c \in Creators : Storing(c) => Storing(c)'
  BY DEF Storing
<1>4. Tasks'
  <2>1. \A c \in Creators : task'[c] = "data" => checked' = Zero /\ (Loading(c)' \/ Storing(c)')
    BY <1>1, <1>2, <1>3 DEF Tasks
  <2>2. (\A c \in Creators : task'[c] # "data") => ~File_opened' /\ ~No_Update'
    BY <1>1 DEF Tasks
  <2> QED BY <2>1, <2>2, Zenon DEF Tasks
<1>5. Files'
  BY <1>1 DEF Files
<1> QED BY <1>4, <1>5

LEMMA HandleKept ==
  ASSUME StoreInv, ~clash, UnitTask, File_opened
  PROVE  f' = f
<1>1. PICK c \in Creators : task[c] = "data"
  BY StoreFacts DEF Tasks
<1>2. ~Bootloader_State_Flag
  BY <1>1, StoreFacts DEF Excluded, Busy
<1>3. stage \notin {"claimed", "Bootloader_State1", "Bootloader_State_end"}
  BY <1>2 DEF StoreInv, SendInv, Transfer
<1> QED BY <1>3 DEF UnitTask, Connect, Claim, Claimed, Announce, SendBlock, SendTail, SendNothing, Sends

LEMMA StoreUnitTask ==
  ASSUME StoreInv, ~clash, UnitTask
  PROVE  Tasks' /\ Files'
<1>1. UNCHANGED <<fileVars, handlerVars, task, got, served, checked>>
  BY DEF UnitTask, Connect, Claim, Claimed, Announce, SendBlock, SendTail, SendNothing, Sends,
     SendFrame, taskVars
<1> QED BY <1>1, HandleKept, StoreBeside

\* A task is created, or begins: the updates before it have left the file whole.
LEMMA StoreCheck ==
  ASSUME StoreInv, ~clash, NEW c \in Creators, Check(c) \/ Start(c)
  PROVE  Tasks' /\ Files'
<1>1. UNCHANGED <<fileVars, f, handlerVars, got, served, checked>>
  BY DEF Check, Start
<1>2. \A d \in Creators : task'[d] = "data" <=> task[d] = "data"
  BY StoreFacts DEF Check, Start, TypeInv, Shapes
<1> QED BY <1>1, <1>2, StoreBeside

LEMMA StoreDone ==
  ASSUME StoreInv, ~clash, NEW c \in Creators, Done(c)
  PROVE  Tasks' /\ Files'
<1>1. /\ task[c] = "over" /\ task' = [task EXCEPT ![c] = "idle"]
      /\ UNCHANGED <<file, torn, marred, checked, File_opened, No_Update>>
  BY DEF Done, fileVars, handlerVars
<1>2. task'[c] = "idle" /\ \A d \in Creators \ {c} : task'[d] = task[d]
  BY <1>1, StoreFacts DEF TypeInv, Shapes
<1>3. ~File_opened /\ ~No_Update
  <2>1. \A d \in Creators : task[d] # "data"
    BY <1>1, StoreFacts DEF Busy
  <2> QED BY <2>1, StoreFacts, Zenon DEF Tasks
<1>4. Tasks'
  <2>1. ~File_opened' /\ ~No_Update' /\ Busy(c)
    BY <1>1, <1>3 DEF Busy
  <2> QED BY <1>2, <2>1, TasksAfter
<1>5. Files'
  BY <1>1, StoreFacts DEF Files
<1> QED BY <1>4, <1>5

\* A file that exists is a sequence of chunks, which NoFile is not.
LEMMA FileIsNot == \A s \in Seq(Chunk) : s # NoFile
BY FirmwareAssumption, Zenon DEF Chunk

LEMMA StoreConnectedNew ==
  ASSUME StoreInv, ~clash, NEW c \in Creators, OnConnectedNew(c)
  PROVE  Tasks' /\ Files'
<1>1. TypeInv /\ Tasks
  BY StoreFacts
<1>2. /\ task[c] = "connecting" /\ task' = [task EXCEPT ![c] = "data"]
      /\ served' = [served EXCEPT ![c] = server] /\ got' = [got EXCEPT ![c] = 0]
      /\ checked' = Zero /\ No_Update' = No_Update /\ Firmware_version' = Zero
  BY DEF OnConnectedNew, Begins
<1>3. \/ f' = "write" /\ file' = <<>> /\ File_opened'
      \/ file' = NoFile /\ ~File_opened'
  BY DEF OnConnectedNew, Creates
<1>4. /\ task'[c] = "data" /\ (\A d \in Creators \ {c} : task'[d] = task[d])
      /\ served'[c] = server /\ got'[c] = 0 /\ server \in Versions
  BY <1>1, <1>2 DEF TypeInv, Shapes
<1>5. ~No_Update'
  <2>1. \A d \in Creators : task[d] # "data"
    BY <1>2, StoreFacts DEF Busy
  <2> QED BY <1>1, <1>2, <2>1, Zenon DEF Tasks
<1>6. <<>> = Prefix(server, 0) /\ 0 \in 0 .. Size /\ <<>> # NoFile
  <2>1. <<>> \in Seq(Chunk)
    OBVIOUS
  <2>2. <<>> = Prefix(server, 0)
    BY DEF Prefix
  <2>3. 0 \in 0 .. Size
    BY FirmwareAssumption
  <2> QED BY <2>1, <2>2, <2>3, FileIsNot
<1>7. Storing(c)'
  BY <1>2, <1>3, <1>4, <1>5, <1>6 DEF Storing
<1>8. Tasks'
  <2>1. Busy(c)
    BY <1>2 DEF Busy
  <2> QED BY <1>2, <1>4, <1>7, <2>1, TasksAfter
<1>9. Files'
  <2>1. file' # NoFile => \E v \in Versions, n \in 0 .. Size : file' = Prefix(v, n)
    BY <1>3, <1>4, <1>6
  <2> QED BY <1>2, <1>3, <2>1 DEF Files
<1> QED BY <1>8, <1>9

\* The version of a whole file is read, of a torn or marred one anything.
LEMMA StoreConnectedStored ==
  ASSUME StoreInv, ~clash, NEW c \in Creators, OnConnectedStored(c)
  PROVE  Tasks' /\ Files'
<1> DEFINE b == [i \in 1 .. Loaded |-> IF i <= Len(file) THEN file[i] ELSE buffer[i]]
<1>1. Tasks /\ Files /\ TypeInv
  BY StoreFacts
<1>2. /\ task[c] = "connecting" /\ task' = [task EXCEPT ![c] = "data"]
      /\ served' = [served EXCEPT ![c] = server] /\ got' = [got EXCEPT ![c] = 0]
      /\ checked' = Zero /\ UNCHANGED <<file, torn, marred>>
      /\ file # NoFile /\ ~File_opened' /\ Firmware_version' = VersionIn(b)
      /\ buffer' = Blank /\ Pointer' = 1 /\ UNCHANGED <<No_Update, Load_Counter, Data_Counter>>
  BY DEF OnConnectedStored, Begins, fileVars
<1>3. ~No_Update /\ ~File_opened
  <2>1. \A d \in Creators : task[d] # "data"
    BY <1>2, StoreFacts DEF Busy
  <2> QED BY <1>1, <2>1, Zenon DEF Tasks
<1>4. /\ task'[c] = "data" /\ (\A d \in Creators \ {c} : task'[d] = task[d]) /\ got'[c] = 0
  BY <1>1, <1>2, FirmwareAssumption DEF TypeInv, Shapes
<1>5. file \in Seq(Chunk) /\ Len(file) \in Nat /\ Size \in Nat /\ Size >= 3 /\ Loaded = 3
  BY <1>1, <1>2, FirmwareAssumption DEF TypeInv, Shapes, Loaded
<1>6. b \in [1 .. Loaded -> Chunk]
  BY <1>1, <1>5 DEF TypeInv, Shapes
<1>7. Firmware_version' \in Versions \cup {Zero, Junk}
  <2> HIDE DEF b
  <2> QED BY <1>2, <1>6, VersionType
<1>8. ASSUME ~torn, ~marred
      PROVE  Firmware_version' \in Versions /\ file = Prefix(Firmware_version', Size)
  <2>1. PICK w \in Versions : file = Prefix(w, Size)
    BY <1>1, <1>2, <1>3, <1>8 DEF Files
  <2>2. Len(file) = Size /\ file[Loaded] = <<w, Loaded>>
    BY <1>5, <2>1, PrefixFacts, PrefixAt
  <2>3. b[Loaded] = <<w, Loaded>>
    BY <1>5, <2>2
  <2>4. VersionIn(b) = w
    <3> HIDE DEF b
    <3> QED BY <1>6, <2>3, VersionFound
  <2> QED BY <1>2, <2>1, <2>4
<1>9. Loading(c)' \/ Storing(c)'
  <2>1. CASE Firmware_version' = Zero
    <3>1. torn \/ marred
      BY <1>8, <2>1, FirmwareAssumption
    <3> QED BY <1>2, <1>3, <2>1, <3>1 DEF Storing
  <2>2. CASE Firmware_version' # Zero
    <3>1. Load_Counter' >= 0 /\ Data_Counter' >= 0
      BY <1>1, <1>2 DEF TypeInv, Shapes, Loaded
    <3>2. buffer' = Collected(c, got[c])'
      BY <1>2, <1>4 DEF Blank, Collected
    <3>3. Firmware_version' \in Versions \cup {Junk}
      BY <1>7, <2>2
    <3>4. Pointer' = got'[c] + 1
      BY <1>2, <1>4
    <3>5. ~torn' /\ ~marred' => Firmware_version' \in Versions /\ file' = Prefix(Firmware_version', Size)
      BY <1>2, <1>8
    <3> QED BY <1>2, <1>3, <1>4, <3>1, <3>2, <3>3, <3>4, <3>5 DEF Loading
  <2> QED BY <2>1, <2>2
<1>10. Tasks'
  <2>1. Busy(c)
    BY <1>2 DEF Busy
  <2> QED BY <1>2, <1>4, <1>9, <2>1, TasksAfter
<1>11. Files'
  BY <1>1, <1>2, <1>3 DEF Files
<1> QED BY <1>10, <1>11

\* Another chunk of the image on offer is collected.
LEMMA StoreLoad ==
  ASSUME StoreInv, ~clash, NEW c \in Creators, Load(c)
  PROVE  /\ task[c] = "data" /\ Loading(c) /\ checked = Zero
         /\ got[c] \in 0 .. Load_Counter /\ got'[c] = got[c] + 1 /\ served[c] \in Versions
         /\ WithNext(c) = Collected(c, got[c] + 1) /\ got[c] + 1 \in 0 .. Loaded
         /\ Data_Counter' = Data_Counter + 1 /\ Pointer' = Pointer + 1 /\ buffer' = WithNext(c)
         /\ UNCHANGED <<task, served, checked>>
<1>1. Tasks /\ TypeInv
  BY StoreFacts
<1>2. /\ task[c] = "data" /\ got' = [got EXCEPT ![c] = got[c] + 1] /\ got[c] < Size
      /\ buffer' = WithNext(c) /\ Pointer' = Pointer + 1 /\ Data_Counter' = Data_Counter + 1
      /\ UNCHANGED <<task, served, checked>> /\ Firmware_version # Zero
  BY DEF Load, Arrives
<1>3. Loading(c) /\ checked = Zero
  BY <1>1, <1>2 DEF Tasks, Storing
<1>4. /\ Size \in Nat /\ Loaded = 3 /\ got[c] \in 0 .. Size /\ got'[c] = got[c] + 1
      /\ served[c] \in Versions /\ Load_Counter \in 0 .. 2
  BY <1>1, <1>2, FirmwareAssumption DEF TypeInv, Shapes, Loaded
<1>5. got[c] \in 0 .. Load_Counter /\ got[c] + 1 \in 0 .. Loaded /\ got[c] + 1 \in 1 .. Loaded
  BY <1>3, <1>4 DEF Loading
<1>6. WithNext(c) = Collected(c, got[c] + 1)
  <2>1. Pointer = got[c] + 1 /\ buffer = Collected(c, got[c])
    BY <1>3 DEF Loading
  <2>2. WithNext(c) = [Collected(c, got[c]) EXCEPT ![got[c] + 1] = <<served[c], got[c] + 1>>]
    BY <1>5, <2>1 DEF WithNext, Next1
  <2>3. \A i \in 1 .. Loaded : i <= got[c] + 1 <=> i <= got[c] \/ i = got[c] + 1
    BY <1>4, <1>5
  <2> QED BY <1>5, <2>2, <2>3 DEF Collected
<1> QED BY <1>2, <1>3, <1>4, <1>5, <1>6

LEMMA StoreDataLoad ==
  ASSUME StoreInv, ~clash, NEW c \in Creators, OnDataLoad(c)
  PROVE  Tasks' /\ Files'
<1>1. Tasks /\ Files /\ TypeInv
  BY StoreFacts
<1>2. /\ Load(c) /\ Load_Counter' = Load_Counter + 1
      /\ UNCHANGED <<file, torn, marred, File_opened, Firmware_version, No_Update>>
  BY DEF OnDataLoad, fileVars
<1>3. /\ task[c] = "data" /\ Loading(c) /\ checked = Zero
      /\ got[c] \in 0 .. Load_Counter /\ got'[c] = got[c] + 1
      /\ WithNext(c) = Collected(c, got[c] + 1)
      /\ Data_Counter' = Data_Counter + 1 /\ Pointer' = Pointer + 1 /\ buffer' = WithNext(c)
      /\ UNCHANGED <<task, served, checked>>
  BY <1>2, StoreLoad
<1>4. Loading(c)'
  <2>1. Load_Counter \in Nat /\ Data_Counter \in Nat /\ got[c] \in Nat
    BY <1>1, <1>3 DEF TypeInv, Shapes, Loaded
  <2>2. Load_Counter' >= got'[c] /\ Data_Counter' >= got'[c] /\ Pointer' = got'[c] + 1
    BY <1>2, <1>3, <2>1 DEF Loading
  <2>3. buffer' = Collected(c, got[c])'
    BY <1>3 DEF Collected
  <2> QED BY <1>2, <1>3, <2>2, <2>3 DEF Loading
<1>5. Tasks'
  BY <1>3, <1>4, TasksAfter DEF Busy
<1>6. Files'
  BY <1>1, <1>2, <1>3 DEF Files
<1> QED BY <1>5, <1>6

\* The stored version is the one on offer, of which the third chunk must be
\* here: nothing is stored.
LEMMA StoreDataSame ==
  ASSUME StoreInv, ~clash, NEW c \in Creators, OnDataSame(c)
  PROVE  Tasks' /\ Files'
<1>1. Tasks /\ Files /\ TypeInv
  BY StoreFacts
<1>2. /\ Load(c) /\ VersionIn(WithNext(c)) = Firmware_version
      /\ Firmware_version' = Zero /\ No_Update' /\ UNCHANGED <<file, torn, marred, File_opened>>
  BY DEF OnDataSame, fileVars
<1>3. /\ task[c] = "data" /\ Loading(c) /\ checked = Zero
      /\ WithNext(c) = Collected(c, got[c] + 1) /\ got[c] + 1 \in 0 .. Loaded
      /\ UNCHANGED <<task, served, checked>>
  BY <1>2, StoreLoad
<1>4. Firmware_version = served[c]
  <2>1. Firmware_version # Zero
    BY <1>2 DEF Load
  <2> QED BY <1>1, <1>2, <1>3, <2>1, CollectedFacts
<1>5. ~torn /\ ~marred => file = Prefix(served[c], Size)
  BY <1>3, <1>4 DEF Loading
<1>6. ~File_opened /\ file # NoFile
  BY <1>3 DEF Loading
<1>7. Storing(c)'
  BY <1>2, <1>3, <1>5, <1>6 DEF Storing
<1>8. Tasks'
  BY <1>3, <1>7, TasksAfter DEF Busy
<1>9. Files'
  BY <1>1, <1>2, <1>3 DEF Files
<1> QED BY <1>8, <1>9

\* It is another one: what was collected begins the new file, and if no more
\* bytes were counted than this download has brought, it is right.
LEMMA StoreDataDiffers ==
  ASSUME StoreInv, ~clash, NEW c \in Creators, OnDataDiffers(c)
  PROVE  Tasks' /\ Files'
<1>1. TypeInv /\ Load_Counter <= Data_Counter
  BY StoreFacts
<1>2. /\ Load(c) /\ Load_Counter + 1 = Loaded
      /\ Creates(Written(c, Data_Counter + 1), Data_Counter # got[c])
      /\ Firmware_version' = Zero /\ No_Update' = No_Update
  BY DEF OnDataDiffers
<1>3. /\ task[c] = "data" /\ Loading(c) /\ checked = Zero /\ served[c] \in Versions
      /\ got[c] \in 0 .. Load_Counter /\ got'[c] = got[c] + 1
      /\ WithNext(c) = Collected(c, got[c] + 1)
      /\ UNCHANGED <<task, served, checked>>
  BY <1>2, StoreLoad
<1>4. Written(c, Data_Counter + 1) \in Seq(Chunk)
  <2>1. got[c] < Size /\ Shapes /\ Data_Counter + 1 \in Nat
    BY <1>1, <1>2 DEF Load, Arrives, TypeInv, Shapes
  <2> QED BY <2>1, ArrivalTypes
<1>5. ASSUME ~marred'
      PROVE  Written(c, Data_Counter + 1) = Prefix(served[c], 3) /\ got'[c] = 3
  <2>1. Data_Counter = got[c]
    BY <1>2, <1>5, Zenon DEF Creates
  <2>2. Data_Counter = 2 /\ got[c] = 2 /\ Loaded = 3
    BY <1>1, <1>2, <1>3, <2>1 DEF Loaded, TypeInv, Shapes
  <2>3. WithNext(c) = [i \in 1 .. 3 |-> IF i <= 3 THEN <<served[c], i>> ELSE Zero]
    BY <1>3, <2>2 DEF Collected
  <2>4. Written(c, 3) = [i \in 1 .. 3 |-> WithNext(c)[i]]
    BY <2>2 DEF Written
  <2>5. Written(c, 3) = Prefix(served[c], 3)
    BY <2>3, <2>4 DEF Prefix
  <2> QED BY <1>3, <2>2, <2>5
<1>6. \/ f' = "write" /\ file' = Written(c, Data_Counter + 1) /\ File_opened'
      \/ file' = NoFile /\ ~File_opened'
  BY <1>2 DEF Creates
<1>7. Written(c, Data_Counter + 1) # NoFile /\ 3 \in 0 .. Size
  BY <1>4, FileIsNot, FirmwareAssumption DEF Loaded
<1>8. Storing(c)'
  <2>1. ~No_Update'
    BY <1>2, <1>3 DEF Loading
  <2>2. File_opened' => file' # NoFile /\ f' = "write"
                        /\ (~marred' => file' = Prefix(served'[c], got'[c]))
    BY <1>3, <1>5, <1>6, <1>7
  <2>3. ~File_opened' => file' = NoFile
    BY <1>6
  <2> QED BY <1>2, <2>1, <2>2, <2>3 DEF Storing
<1>9. Tasks'
  BY <1>3, <1>8, TasksAfter DEF Busy
<1>10. Files'
  <2>1. file' # NoFile /\ ~marred' => \E v \in Versions, n \in 0 .. Size : file' = Prefix(v, n)
    BY <1>3, <1>5, <1>6, <1>7
  <2> QED BY <1>3, <1>6, <2>1 DEF Files
<1> QED BY <1>9, <1>10

\* The chunk goes to the file, or there is none to take it.
LEMMA StoreDataStore ==
  ASSUME StoreInv, ~clash, NEW c \in Creators, OnDataStore(c)
  PROVE  Tasks' /\ Files'
<1>1. Tasks /\ Files /\ TypeInv
  BY StoreFacts
<1>2. /\ task[c] = "data" /\ got[c] < Size /\ got' = [got EXCEPT ![c] = got[c] + 1]
      /\ Firmware_version = Zero
      /\ UNCHANGED <<task, served, checked, torn, marred, f, File_opened, Firmware_version,
                     No_Update>>
  BY DEF OnDataStore, Arrives, handlerVars
<1>3. Storing(c) /\ checked = Zero
  BY <1>1, <1>2, FirmwareAssumption DEF Tasks, Loading
<1>4. got[c] \in 0 .. Size /\ got'[c] = got[c] + 1 /\ served[c] \in Versions /\ Size \in Nat
  BY <1>1, <1>2, FirmwareAssumption DEF TypeInv, Shapes
<1>5. CASE File_opened
  <2>1. /\ file # NoFile /\ ~No_Update /\ f = "write" /\ file \in Seq(Chunk)
        /\ ~marred => file = Prefix(served[c], got[c])
    BY <1>1, <1>3, <1>5 DEF Storing, TypeInv, Shapes
  <2>2. file' = Append(file, <<served[c], got[c] + 1>>)
    BY <1>5, <2>1 DEF OnDataStore, Next1
  <2>3. got[c] + 1 \in 0 .. Size /\ got[c] + 1 \in 1 .. Size
    BY <1>2, <1>4
  <2>4. ~marred => file' = Prefix(served[c], got[c] + 1)
    BY <1>2, <1>4, <2>1, <2>2, PrefixFacts
  <2>5. file' # NoFile
    <3>1. <<served[c], got[c] + 1>> \in Chunk
      BY <1>4, <2>3, ChunkTypes
    <3>2. file' \in Seq(Chunk)
      BY <2>1, <2>2, <3>1
    <3> QED BY <3>2, FileIsNot
  <2>6. Storing(c)'
    BY <1>2, <1>4, <1>5, <2>1, <2>4, <2>5 DEF Storing
  <2>7. Tasks'
    BY <1>2, <1>3, <2>6, TasksAfter DEF Busy
  <2>8. Files'
    BY <1>2, <1>3, <1>4, <1>5, <2>3, <2>4 DEF Files
  <2> QED BY <2>7, <2>8
<1>6. CASE ~File_opened
  <2>1. file' = file
    BY <1>6 DEF OnDataStore
  <2>2. Storing(c)'
    BY <1>2, <1>3, <1>6, <2>1 DEF Storing
  <2>3. Tasks'
    BY <1>2, <1>3, <2>2, TasksAfter DEF Busy
  <2>4. Files'
    BY <1>1, <1>2, <2>1 DEF Files
  <2> QED BY <2>3, <2>4
<1> QED BY <1>5, <1>6

LEMMA StoreFinish ==
  ASSUME StoreInv, ~clash, NEW c \in Creators, OnFinish(c)
  PROVE  Tasks' /\ Files'
<1>1. Tasks /\ Files /\ TypeInv
  BY StoreFacts
<1>2. /\ task[c] = "data" /\ got[c] = Size /\ task' = [task EXCEPT ![c] = "over"]
      /\ ~No_Update' /\ checked' = served[c] /\ ~File_opened' /\ UNCHANGED <<file, torn, marred>>
  BY DEF OnFinish, fileVars
<1>3. /\ task'[c] = "over" /\ (\A d \in Creators \ {c} : task'[d] = task[d])
      /\ served[c] \in Versions
  BY <1>1, <1>2 DEF TypeInv, Shapes
<1>4. Storing(c)
  <2>1. Load_Counter \in 0 .. 2 /\ Size \in Nat /\ Size >= 3
    BY <1>1, FirmwareAssumption DEF TypeInv, Shapes, Loaded
  <2>2. ~Loading(c)
    BY <1>2, <2>1 DEF Loading
  <2> QED BY <1>1, <1>2, <2>2 DEF Tasks
<1>5. ~torn /\ ~marred => file = NoFile \/ file = Prefix(served[c], Size)
  BY <1>2, <1>4 DEF Storing
<1>6. Tasks'
  BY <1>2, <1>3, TasksAfter DEF Busy
<1>7. Files'
  BY <1>1, <1>2, <1>3, <1>5 DEF Files
<1> QED BY <1>6, <1>7

LEMMA StoreError ==
  ASSUME StoreInv, ~clash, NEW c \in Creators, OnError(c)
  PROVE  Tasks' /\ Files'
<1>1. Tasks /\ Files /\ TypeInv
  BY StoreFacts
<1>2. /\ task[c] \in {"connecting", "data"} /\ task' = [task EXCEPT ![c] = "over"]
      /\ ~No_Update' /\ ~File_opened' /\ UNCHANGED <<checked, torn, marred>>
      /\ \/ file' = NoFile
         \/ ~File_opened /\ file' = file
  BY DEF OnError, fileVars
<1>3. task'[c] = "over" /\ \A d \in Creators \ {c} : task'[d] = task[d]
  BY <1>1, <1>2 DEF TypeInv, Shapes
<1>4. Tasks'
  BY <1>2, <1>3, TasksAfter DEF Busy
<1>5. Files'
  BY <1>1, <1>2 DEF Files
<1> QED BY <1>4, <1>5

\* A file that was being written is torn, one that a clash may have touched
\* is marred; any other one is as it was.
LEMMA StoreReboot ==
  ASSUME StoreInv, Reboot
  PROVE  Tasks' /\ Files'
<1>1. checked' = Zero /\ ~File_opened' /\ ~No_Update' /\ task' = [c \in Creators |-> "idle"]
  BY DEF Reboot
<1>2. Tasks'
  <2>1. \A c \in Creators : task'[c] # "data"
    BY <1>1
  <2> QED BY <1>1, <2>1, Zenon DEF Tasks
<1>3. ASSUME ~marred' PROVE ~marred /\ ~clash /\ Files /\ Tasks
  <2>1. ~marred /\ ~clash
    BY <1>3, Zenon DEF Reboot
  <2> QED BY <2>1, StoreFacts
<1>4. file' # NoFile /\ ~marred' => \E v \in Versions, n \in 0 .. Size : file' = Prefix(v, n)
  <2> SUFFICES ASSUME file' # NoFile, ~marred'
               PROVE  \E v \in Versions, n \in 0 .. Size : file' = Prefix(v, n)
    OBVIOUS
  <2>1. CASE Writing
    <3>1. PICK v \in Versions, n \in 0 .. Size : file = Prefix(v, n)
      BY <1>3, <2>1 DEF Files, Writing
    <3>2. Len(file) = n
      BY <3>1, PrefixFacts
    <3>3. PICK m \in 0 .. n : file' = SubSeq(file, 1, m)
      BY <2>1, <3>2 DEF Reboot
    <3>4. file' = Prefix(v, m) /\ m \in 0 .. Size
      BY <3>1, <3>3, PrefixFacts, FirmwareAssumption
    <3> QED BY <3>4
  <2>2. CASE ~Writing
    BY <1>3, <2>2 DEF Reboot, Files
  <2> QED BY <2>1, <2>2
<1>5. ~torn' /\ ~marred' => file' = NoFile \/ \E v \in Versions : file' = Prefix(v, Size)
  <2> SUFFICES ASSUME ~torn', ~marred'
               PROVE  file' = NoFile \/ \E v \in Versions : file' = Prefix(v, Size)
    OBVIOUS
  <2>1. ~torn /\ ~Writing
    BY Zenon DEF Reboot
  <2>2. file' = file
    BY <2>1 DEF Reboot
  <2>3. ~File_opened
    <3> SUFFICES ASSUME File_opened PROVE FALSE
      OBVIOUS
    <3>1. PICK c \in Creators : task[c] = "data"
      BY <1>3 DEF Tasks
    <3>2. Storing(c)
      BY <1>3, <3>1 DEF Tasks, Loading
    <3> QED BY <2>1, <3>2 DEF Storing, Writing
  <2> QED BY <1>3, <2>1, <2>2, <2>3 DEF Files
<1>6. Files'
  BY <1>1, <1>4, <1>5 DEF Files
<1> QED BY <1>2, <1>6

LEMMA StoreStep == StoreInv /\ FirmwareStep => StoreInv'
<1> SUFFICES ASSUME StoreInv, FirmwareStep, ~clash' PROVE Tasks' /\ Files'
  BY SendStep, CountersStep DEF StoreInv, SendInv
<1>1. CASE Reboot
  BY <1>1, StoreReboot
<1>2. ASSUME NEW c \in Creators, Check(c) \/ UpdateTask(c) \/ OnError(c) PROVE Tasks' /\ Files'
  <2>1. ~clash
    BY <1>2, TransferUndisturbed DEF StoreInv, SendInv
  <2> QED BY <1>2, <2>1, StoreCheck, StoreDone, StoreConnectedNew, StoreConnectedStored,
     StoreDataLoad, StoreDataSame, StoreDataDiffers, StoreDataStore, StoreFinish, StoreError
  DEF UpdateTask, OnData
<1>3. CASE UnitTask
  <2>1. ~clash
    <3>1. CASE Claimed
      BY <3>1, Zenon DEF Claimed
    <3>2. CASE ~Claimed
      BY <1>3, <3>2 DEF UnitTask, Connect, Claim, Announce, SendBlock, SendTail, SendNothing, Sends,
         flagVars
    <3> QED BY <3>1, <3>2
  <2> QED BY <1>3, <2>1, StoreUnitTask
<1>4. CASE BoardAcks \/ AckLost \/ Release \/
           UNCHANGED <<fileVars, f, Filesize, handlerVars, taskVars, flagVars, sendVars, server>>
  <2>1. UNCHANGED <<fileVars, handlerVars, task, got, served, checked, clash, f>>
    BY <1>4 DEF BoardAcks, AckLost, Release, SendFrame, flagVars, taskVars
  <2> QED BY <2>1, StoreBeside
<1> QED BY <1>1, <1>2, <1>3, <1>4 DEF FirmwareStep

\* What the invariant says of the file: the three properties of a download.
LEMMA StoreImplies == StoreInv => FileIsOneImage /\ StoredIsServed /\ NoUpdateNeeded
<1> SUFFICES ASSUME StoreInv, ~clash, ~marred
             PROVE  FileIsOneImage /\ StoredIsServed /\ NoUpdateNeeded
  BY DEF FileIsOneImage, StoredIsServed, CheckedIsStored, NoUpdateNeeded
<1>1. Tasks /\ Files /\ TypeInv
  BY StoreFacts
<1>2. FileIsOneImage
  <2> SUFFICES ASSUME file # NoFile
               PROVE  \E v \in Versions, n \in 0 .. Size : file = SubSeq(Image(v), 1, n)
    BY DEF FileIsOneImage
  <2>1. PICK v \in Versions, n \in 0 .. Size : file = Prefix(v, n)
    BY <1>1 DEF Files
  <2>2. file = SubSeq(Image(v), 1, n)
    BY <2>1, ImageIsPrefix
  <2> QED BY <2>2
<1>3. StoredIsServed
  <2> SUFFICES ASSUME checked # Zero, file # NoFile, ~torn PROVE file = Image(checked)
    BY DEF StoredIsServed, CheckedIsStored
  <2>1. checked \in Versions /\ file = Prefix(checked, Size)
    BY <1>1 DEF Files, TypeInv, Shapes
  <2> QED BY <2>1, ImageIsPrefix
<1>4. NoUpdateNeeded
  <2> SUFFICES ASSUME No_Update, ~torn PROVE \E c \in Creators : file = Image(served[c])
    BY DEF NoUpdateNeeded
  <2>1. PICK c \in Creators : task[c] = "data"
    BY <1>1 DEF Tasks
  <2>2. Storing(c) /\ served[c] \in Versions
    BY <1>1, <2>1 DEF Tasks, Loading, TypeInv, Shapes
  <2>3. file = Prefix(served[c], Size)
    BY <2>2 DEF Storing
  <2> QED BY <2>2, <2>3, ImageIsPrefix
<1> QED BY <1>2, <1>3, <1>4

-----------------------------------------------------------------------------
(* The theorems                                                             *)

LEMMA SpentType ==
  ASSUME TypeInv, NEW kind \in Kinds, NEW max, Bounded(kind, max)
  PROVE  spent' \in [Kinds -> Nat]
BY DEF TypeInv, Shapes, Bounded

LEMMA NextIsStep == TypeInv /\ [Next]_vars => FirmwareStep
<1> SUFFICES ASSUME TypeInv, [Next]_vars PROVE FirmwareStep
  OBVIOUS
<1>1. CASE UNCHANGED vars
  BY <1>1 DEF vars, worldVars, FirmwareStep, TypeInv, Shapes
<1>2. CASE Restart
  BY <1>2, SpentType DEF Restart, FirmwareStep, Kinds
<1>3. CASE Next /\ ~Restart
  BY <1>3 DEF Next, Create, Breaks, FirmwareStep
<1> QED BY <1>1, <1>2, <1>3

\* Every variable keeps its range; above all no chunk is stored behind the
\* end of Buffer_Test, whatever download was broken off before and however
\* many there are (main.c 205-229).
THEOREM TypeCorrect == Spec => []TypeOK
<1>1. TypeInv /\ [Next]_vars => TypeInv'
  BY TypeStep, NextIsStep
<1> QED BY <1>1, TypeInit, TypeInvImplies, PTL DEF Spec

\* The board gets the blocks of the file in their order and, once the
\* transfer has ended, all of them, unless an update has slipped past the
\* flags (unit_comm.c 663-712).
THEOREM BoardGetsTheFile == Spec => []SentIsFile
<1>1. SendInv /\ [Next]_vars => SendInv'
  BY SendStep, NextIsStep DEF SendInv
<1> QED BY <1>1, SendInit, SendImplies, PTL DEF Spec

-----------------------------------------------------------------------------
(* A transfer does not stand still                                          *)

\* With Transfer, which says of the handle and of what is left to send that
\* they fit the file.
GoesOnInv == SendInv /\ TransferGoesOn

LEMMA GoesOnStep ==
  ASSUME SendInv, TransferGoesOn, FirmwareStep
  PROVE  TransferGoesOn'
<1> USE DEF fileVars, handlerVars, taskVars, flagVars, sendVars, worldVars, SendFrame, EventFrame
<1>1. TypeInv /\ Excluded /\ Transfer
  BY DEF SendInv
<1>2. ASSUME NEW c \in Creators, Check(c) \/ UpdateTask(c) \/ OnError(c)
      PROVE  TransferGoesOn'
  <2>1. /\ UNCHANGED <<stage, Bytes_Transfered>> /\ (~clash' => ~clash)
        /\ Bootloader_State_Flag /\ ~clash => UNCHANGED <<file, f, Filesize>>
    BY <1>1, <1>2, TransferUndisturbed
  <2>2. UNCHANGED <<owed, Ack_Received>>
    BY <1>2 DEF Check, UpdateTask, Start, OnConnectedNew, OnConnectedStored, Begins, OnData,
       OnDataLoad, OnDataSame, OnDataDiffers, OnDataStore, Load, Arrives, OnFinish, Done, OnError
  <2>3. stage = "Bootloader_State1" => Bootloader_State_Flag
    BY <1>1 DEF Transfer
  <2> QED BY <2>1, <2>2, <2>3 DEF TransferGoesOn
<1>3. ASSUME Connect \/ Claim \/ Claimed \/ SendTail PROVE TransferGoesOn'
  BY <1>3 DEF Connect, Claim, Claimed, SendTail, TransferGoesOn
<1>4. ASSUME Announce PROVE TransferGoesOn'
  <2>1. /\ Bytes_Transfered' = 0
        /\ stage' = "Bootloader_State1" =>
             file # NoFile /\ f' = "read" /\ Filesize' = Len(file) /\ owed' = "due"
    BY <1>1, <1>4 DEF Announce, Transfer
  <2>2. file # NoFile => Len(file) \in Nat
    BY <1>1 DEF TypeInv, Shapes
  <2> QED BY <2>1, <2>2 DEF TransferGoesOn
<1>5. ASSUME SendBlock PROVE TransferGoesOn'
  <2>1. /\ Bytes_Transfered' = Bytes_Transfered + 1 /\ UNCHANGED <<f, Filesize>> /\ owed' = "due"
        /\ f # "null" /\ Filesize - Bytes_Transfered > 1
    BY <1>5 DEF SendBlock, Sends
  <2>2. Bytes_Transfered \in Nat /\ Filesize \in Nat
    BY <1>1 DEF TypeInv, Shapes
  <2> QED BY <2>1, <2>2 DEF TransferGoesOn
<1>6. ASSUME SendNothing PROVE TransferGoesOn'
  <2>1. Filesize = Bytes_Transfered /\ stage = "Bootloader_State1"
        /\ UNCHANGED <<Filesize, clash>>
    BY <1>6 DEF SendNothing
  <2>2. Filesize \in Nat
    BY <1>1 DEF TypeInv, Shapes
  <2> QED BY <2>1, <2>2 DEF TransferGoesOn
<1>7. ASSUME BoardAcks \/ AckLost \/ Release PROVE TransferGoesOn'
  BY <1>7 DEF BoardAcks, AckLost, Release, TransferGoesOn
<1>8. ASSUME Reboot PROVE TransferGoesOn'
  BY <1>8 DEF Reboot, TransferGoesOn
<1>9. ASSUME UNCHANGED <<fileVars, f, Filesize, handlerVars, taskVars, flagVars, sendVars, server>>
      PROVE  TransferGoesOn'
  BY <1>9 DEF TransferGoesOn
<1> QED BY <1>2, <1>3, <1>4, <1>5, <1>6, <1>7, <1>8, <1>9 DEF FirmwareStep, UnitTask

LEMMA GoesOnInit == Init => GoesOnInv
BY SendInit DEF Init, GoesOnInv, TransferGoesOn

LEMMA GoesOnInvStep == GoesOnInv /\ FirmwareStep => GoesOnInv'
BY SendStep, GoesOnStep DEF GoesOnInv

\* A transfer under way always has a next step, of the Unit task or of the
\* board: what its end (TransferEnds) rests on beside the fairness of the two.
THEOREM TransferNeverStuck == Spec => []TransferGoesOn
<1>1. GoesOnInv /\ [Next]_vars => GoesOnInv'
  BY GoesOnInvStep, NextIsStep DEF GoesOnInv, SendInv
<1>2. GoesOnInv => TransferGoesOn
  BY DEF GoesOnInv
<1> QED BY <1>1, <1>2, GoesOnInit, PTL DEF Spec

-----------------------------------------------------------------------------
(* Why the flags can fail                                                   *)

\* Between a test of the flags and the setting of one: at most one task is
\* there, no flag is set, and none is at work.  A flag that is set shows
\* somebody at work.
Apart ==
  /\ ~clash
  /\ Unit_Update_task_Flag => \E c \in Creators : Busy(c)
  /\ \A c, d \in Creators : task[c] = "created" /\ task[d] = "created" => c = d
  /\ \A c \in Creators : task[c] = "created" =>
       ~Unit_Update_task_Flag /\ ~Bootloader_State_Flag /\ stage # "claiming"
  /\ stage = "claiming" => ~Unit_Update_task_Flag
  /\ stage \in {"linking", "connected", "Bootloader_State", "claiming"} => ~Bootloader_State_Flag

OverlapInv == SendInv /\ (~overlap => Apart)

LEMMA OverlapInit == Init => OverlapInv
<1> SUFFICES ASSUME Init PROVE OverlapInv
  OBVIOUS
<1>1. Apart
  BY DEF Init, Apart
<1> QED BY <1>1, SendInit DEF OverlapInv

\* A task is created, or begins: nobody else is between his test and his flag.
LEMMA ApartCheck ==
  ASSUME SendInv, Apart, NEW c \in Creators, Check(c) \/ Start(c), ~overlap'
  PROVE  Apart'
<1> USE DEF sendVars, Busy
<1>1. task \in [Creators -> {"idle", "created", "connecting", "data", "over"}] /\ Excluded
  BY DEF SendInv, TypeInv, Shapes
<1>2. CASE Check(c)
  <2>1. /\ ~Unit_Update_task_Flag /\ ~Bootloader_State_Flag /\ task[c] = "idle"
        /\ task' = [task EXCEPT ![c] = "created"]
        /\ UNCHANGED <<clash, Unit_Update_task_Flag, Bootloader_State_Flag, stage>>
    BY <1>2 DEF Check
  <2>2. Waiting = {} /\ stage # "claiming"
    BY <1>2, Zenon DEF Check
  <2>3. /\ task'[c] = "created" /\ \A d \in Creators \ {c} : task'[d] = task[d]
        /\ \A d \in Creators : task[d] # "created"
    BY <1>1, <2>1, <2>2 DEF Waiting
  <2> QED BY <2>1, <2>2, <2>3 DEF Apart
<1>3. CASE Start(c)
  <2>1. /\ task[c] = "created" /\ task' = [task EXCEPT ![c] = "connecting"]
        /\ UNCHANGED <<Bootloader_State_Flag, stage>>
        /\ clash' = (clash \/ Unit_Update_task_Flag \/ Bootloader_State_Flag)
    BY <1>3 DEF Start
  <2>2. /\ ~clash /\ ~Unit_Update_task_Flag /\ ~Bootloader_State_Flag /\ stage # "claiming"
        /\ \A d \in Creators \ {c} : task[d] # "created"
    BY <2>1 DEF Apart
  <2>3. ~clash'
    BY <2>1, <2>2, Zenon
  <2>4. task'[c] = "connecting" /\ \A d \in Creators : task'[d] # "created"
    BY <1>1, <2>1, <2>2
  <2>5. \E d \in Creators : Busy(d)'
    BY <2>4
  <2> QED BY <2>1, <2>2, <2>3, <2>4, <2>5 DEF Apart
<1> QED BY <1>2, <1>3

\* A task at work, and its end.
LEMMA ApartWork ==
  ASSUME SendInv, Apart, NEW c \in Creators, UpdateTask(c) \/ OnError(c), ~Start(c)
  PROVE  Apart'
<1> USE DEF flagVars, sendVars, EventFrame, Busy
<1>1. task \in [Creators -> {"idle", "created", "connecting", "data", "over"}] /\ Excluded
  BY DEF SendInv, TypeInv, Shapes
<1>2. /\ Busy(c) /\ \A d \in Creators : d # c => task'[d] = task[d]
      /\ UNCHANGED <<clash, Bootloader_State_Flag, stage>>
  BY <1>1 DEF UpdateTask, OnConnectedNew, OnConnectedStored, Begins, OnData, OnDataLoad,
     OnDataSame, OnDataDiffers, OnDataStore, Load, Arrives, OnFinish, Done, OnError
<1>3. ~clash /\ Unit_Update_task_Flag /\ stage # "claiming" /\ \A d \in Creators : task[d] # "created"
  BY <1>1, <1>2 DEF Apart, Excluded
<1>4. CASE Done(c)
  <2>1. task'[c] = "idle" /\ ~Unit_Update_task_Flag'
    BY <1>1, <1>4 DEF Done
  <2> QED BY <1>2, <1>3, <2>1 DEF Apart
<1>5. CASE ~Done(c)
  <2>1. Unit_Update_task_Flag' = Unit_Update_task_Flag
    BY <1>5 DEF UpdateTask, OnConnectedNew, OnConnectedStored, Begins, OnData, OnDataLoad,
       OnDataSame, OnDataDiffers, OnDataStore, Load, Arrives, OnFinish, OnError
  <2>2. Busy(c)' /\ task'[c] # "created"
    BY <1>1, <1>5 DEF UpdateTask, OnConnectedNew, OnConnectedStored, Begins, OnData, OnDataLoad,
       OnDataSame, OnDataDiffers, OnDataStore, Load, Arrives, OnFinish, OnError
  <2> QED BY <1>2, <1>3, <2>1, <2>2 DEF Apart
<1> QED BY <1>4, <1>5

LEMMA ApartUnitTask ==
  ASSUME SendInv, Apart, UnitTask, ~overlap'
  PROVE  Apart'
<1> USE DEF taskVars, flagVars, sendVars, SendFrame, Busy
<1>1. task' = task /\ Unit_Update_task_Flag' = Unit_Update_task_Flag
  BY DEF UnitTask, Connect, Claim, Claimed, Announce, SendBlock, SendTail, SendNothing, Sends
<1>2. CASE Claim
  <2>1. /\ stage = "Bootloader_State" /\ ~Unit_Update_task_Flag /\ stage' = "claiming"
        /\ UNCHANGED <<clash, Bootloader_State_Flag>>
    BY <1>2 DEF Claim
  <2>2. Waiting = {}
    BY <1>2, Zenon DEF Claim
  <2>3. \A c \in Creators : task[c] # "created"
    BY <2>2 DEF Waiting
  <2> QED BY <1>1, <2>1, <2>3 DEF Apart
<1>3. CASE Claimed
  <2>1. stage = "claiming" /\ stage' = "claimed" /\ clash' = (clash \/ Unit_Update_task_Flag)
    BY <1>3 DEF Claimed
  <2>2. ~clash /\ ~Unit_Update_task_Flag /\ \A c \in Creators : task[c] # "created"
    BY <2>1 DEF Apart
  <2>3. ~clash'
    BY <2>1, <2>2, Zenon
  <2> QED BY <1>1, <2>1, <2>2, <2>3 DEF Apart
<1>4. CASE ~Claim /\ ~Claimed
  <2>1. /\ UNCHANGED <<clash, Bootloader_State_Flag>>
        /\ \/ stage = "linking" /\ stage' \in {"connected", "Bootloader_State"}
           \/ stage' \in {stage, "Bootloader_State1", "Bootloader_State_end"} /\ stage # "claiming"
    BY <1>4 DEF UnitTask, Connect, Announce, SendBlock, SendTail, SendNothing, Sends
  <2> QED BY <1>1, <2>1 DEF Apart
<1> QED BY <1>2, <1>3, <1>4

\* Once two tests have overlapped in a boot, they have.
LEMMA OverlapStays ==
  ASSUME FirmwareStep, ~Reboot, ~overlap'
  PROVE  ~overlap
<1> USE DEF flagVars, EventFrame, SendFrame
<1>1. ASSUME NEW c \in Creators, Check(c) PROVE ~overlap
  BY <1>1, Zenon DEF Check
<1>2. ASSUME Claim PROVE ~overlap
  BY <1>2, Zenon DEF Claim
<1>3. ASSUME NEW c \in Creators, UpdateTask(c) \/ OnError(c) PROVE ~overlap
  BY <1>3 DEF UpdateTask, Start, OnConnectedNew, OnConnectedStored, Begins, OnData, OnDataLoad,
     OnDataSame, OnDataDiffers, OnDataStore, Load, Arrives, OnFinish, Done, OnError
<1>4. ASSUME UnitTask, ~Claim PROVE ~overlap
  BY <1>4 DEF UnitTask, Connect, Claimed, Announce, SendBlock, SendTail, SendNothing, Sends
<1>5. ASSUME \/ BoardAcks \/ AckLost \/ Release
             \/ UNCHANGED <<fileVars, f, Filesize, handlerVars, taskVars, flagVars, sendVars, server>>
      PROVE  ~overlap
  BY <1>5 DEF BoardAcks, AckLost, Release
<1> QED BY <1>1, <1>2, <1>3, <1>4, <1>5 DEF FirmwareStep

LEMMA OverlapStep == OverlapInv /\ FirmwareStep => OverlapInv'
<1> SUFFICES ASSUME SendInv, ~overlap => Apart, FirmwareStep, ~overlap' PROVE Apart'
  BY SendStep DEF OverlapInv
<1>1. CASE Reboot
  BY <1>1 DEF Reboot, Apart
<1>2. CASE ~Reboot
  <2>1. Apart
    BY <1>2, OverlapStays
  <2>2. ASSUME NEW c \in Creators, Check(c) \/ UpdateTask(c) \/ OnError(c) PROVE Apart'
    BY <2>1, <2>2, ApartCheck, ApartWork
  <2>3. ASSUME \/ BoardAcks \/ AckLost \/ Release
               \/ UNCHANGED <<fileVars, f, Filesize, handlerVars, taskVars, flagVars, sendVars, server>>
        PROVE  Apart'
    BY <2>1, <2>3 DEF BoardAcks, AckLost, Release, SendFrame, taskVars, flagVars, sendVars, Apart, Busy
  <2> QED BY <1>2, <2>1, <2>2, <2>3, ApartUnitTask DEF FirmwareStep
<1> QED BY <1>1, <1>2

LEMMA OverlapImplies == OverlapInv => ApartUnlessOverlap
<1> SUFFICES ASSUME Excluded, Apart PROVE NoUpdateWhileFlashing /\ OneUpdate
  BY DEF OverlapInv, SendInv, Apart, ApartUnlessOverlap
<1>1. OneUpdate
  BY DEF Excluded, OneUpdate, Busy, Apart
<1>2. NoUpdateWhileFlashing
  BY DEF Excluded, Apart, NoUpdateWhileFlashing
<1> QED BY <1>1, <1>2

\* The flags fail in one way only: two tasks have tested them before either
\* has set its own (main.c 161, 432; unit_comm.c 602-604).
THEOREM OnlyOverlapsClash == Spec => []ApartUnlessOverlap
<1>1. OverlapInv /\ [Next]_vars => OverlapInv'
  BY OverlapStep, NextIsStep DEF OverlapInv, SendInv
<1> QED BY <1>1, OverlapInit, OverlapImplies, PTL DEF Spec
=============================================================================
