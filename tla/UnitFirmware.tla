---------------------------- MODULE UnitFirmware ----------------------------
(***************************************************************************)
(* Firmware of the unit board: Unit_Update_task downloads it from the      *)
(* server to a SPIFFS file (the HTTP events of main.c), and the bootloader *)
(* stages of Connect_To_Unit (unit_comm.c) send the file to the board.     *)
(* The two share the global handle f, Filesize and two boolean flags.      *)
(*                                                                         *)
(* A file is a sequence of chunks: the 512 bytes of one data event, which  *)
(* also stand for the 16-byte blocks the bootloader gets.  The version is  *)
(* in the third chunk.  The server, the board and restarts are external.   *)
(***************************************************************************)
EXTENDS Naturals, Sequences

CONSTANTS
  Versions,       \* firmware versions the server may offer
  Zero, Junk,     \* bytes that are 0, as a chunk or a version; other memory
  NoFile,         \* there is no firmware.bin
  Size,           \* chunks of an image
  Ragged,         \* versions whose image is no whole number of 4-byte words
  Creators,       \* where Unit_Update_task is created: "http", "mqtt", "daily"
  MaxChecks,      \* downloads started per boot
  FollowClash,    \* do the tasks go on once two have clashed?
  MaxReleases, MaxRestarts, MaxFaults,    \* bounds on the environment ...
  MaxEvents       \* ... and on all its events together

Loaded == 3       \* chunks Buffer_Test holds, the version is in the last

ASSUME FirmwareAssumption ==
  /\ Zero # Junk /\ Zero \notin Versions /\ Junk \notin Versions /\ Versions # {}
  /\ Zero \notin Versions \X (1 .. Size) /\ Junk \notin Versions \X (1 .. Size)
  /\ Size \in Nat /\ Size >= Loaded
  /\ NoFile \notin Seq((Versions \X (1 .. Size)) \cup {Zero, Junk})
  /\ Ragged \subseteq Versions
  /\ FollowClash \in BOOLEAN /\ MaxChecks \in Nat /\ MaxReleases \in Nat /\ MaxRestarts \in Nat /\ MaxFaults \in Nat
  /\ MaxEvents \in Nat

Chunk    == (Versions \X (1 .. Size)) \cup {Zero, Junk}
Image(v) == [i \in 1 .. Size |-> <<v, i>>]
Blank    == [i \in 1 .. Loaded |-> Zero]

\* The version bytes as they are found in the third chunk of a buffer.
VersionIn(b) == IF b[Loaded] = Zero THEN Zero
                ELSE IF b[Loaded] \in Versions \X {Loaded} THEN b[Loaded][1] ELSE Junk

VARIABLES
  file,                       \* /spiffs/firmware.bin
  torn,                       \* did a restart meet the writing of it?
  marred,                     \* was it begun with the count of another download, or in a clash?
  f, pos,                     \* the global handle, and where it reads
  File_opened, Firmware_version, Load_Counter, Data_Counter, No_Update,
  buffer, Pointer,            \* Buffer_Test in chunks, and the next to fill
  Filesize,
  Unit_Update_task_Flag, Bootloader_State_Flag,
  clash,                      \* did an update run beside another, or beside a transfer?
  overlap,                    \* had two tests of the flags passed before either was set?
  task, got, served,          \* per creator: its task, chunks received, of what
  checks, checked,            \* checks this boot; what the last whole one served
  stage, Bytes_Transfered, Ack_Received,
  owed, flashed,              \* the board: its ACK, "none", "due" or "lost"; what it got
  server, spent

fileVars    == <<file, torn, marred>>
handlerVars == <<File_opened, Firmware_version, Load_Counter, Data_Counter, No_Update,
                 buffer, Pointer>>
taskVars    == <<task, got, served, checks, checked>>
flagVars    == <<Unit_Update_task_Flag, Bootloader_State_Flag, clash, overlap>>
sendVars    == <<stage, pos, Bytes_Transfered, Ack_Received, owed, flashed>>
worldVars   == <<server, spent>>
vars == <<fileVars, f, Filesize, handlerVars, taskVars, flagVars, sendVars, worldVars>>

Init ==
  /\ f = "null" /\ pos = 0 /\ Filesize = 0
  /\ File_opened = FALSE /\ Firmware_version = Zero /\ Load_Counter = 0
  /\ Data_Counter = 0 /\ No_Update = FALSE /\ buffer = Blank /\ Pointer = 1
  /\ Unit_Update_task_Flag = FALSE /\ Bootloader_State_Flag = FALSE
  /\ clash = FALSE /\ overlap = FALSE /\ torn = FALSE /\ marred = FALSE
  /\ task = [c \in Creators |-> "idle"] /\ got = [c \in Creators |-> 0]
  /\ checks = 0 /\ stage = "linking" /\ Bytes_Transfered = 0
  /\ Ack_Received = FALSE /\ owed = "none" /\ flashed = <<>>
  /\ server \in Versions /\ file \in {NoFile} \cup {Image(v) : v \in Versions}
  /\ served = [c \in Creators |-> server] /\ checked = Zero
  /\ spent = [k \in {"release", "restart", "fault", "offer"} |-> 0]

\* What two tasks do to one handle is not followed unless FollowClash says so.
Followed == clash => FollowClash

Bounded(kind, max) ==
  /\ spent[kind] < max /\ spent' = [spent EXCEPT ![kind] = @ + 1]
  /\ spent["release"] + spent["restart"] + spent["fault"] + spent["offer"] < MaxEvents

-----------------------------------------------------------------------------
(* Unit_Update_task and its three creators                                  *)

\* Which creator has tested the flags, but its task has not set one yet.
Waiting == {c \in Creators : task[c] = "created"}

\* The test of both flags, and xTaskCreate.  The "daily" creator is the Unit
\* task in WBM_Connected; the others are the version check and MQTT events.
Check(c) ==
  /\ ~Unit_Update_task_Flag /\ ~Bootloader_State_Flag
  /\ c = "daily" => stage = "connected"
  /\ task[c] = "idle" /\ task' = [task EXCEPT ![c] = "created"]
  /\ checks < MaxChecks /\ checks' = checks + 1
  /\ overlap' = (overlap \/ Waiting # {} \/ stage = "claiming")
  /\ UNCHANGED <<fileVars, f, Filesize, handlerVars, got, served, checked,
                 Unit_Update_task_Flag, Bootloader_State_Flag, clash, sendVars, worldVars>>

\* The task's first statement.
Start(c) ==
  /\ task[c] = "created" /\ task' = [task EXCEPT ![c] = "connecting"]
  /\ Unit_Update_task_Flag' = TRUE
  /\ clash' = (clash \/ Unit_Update_task_Flag \/ Bootloader_State_Flag)
  /\ UNCHANGED <<fileVars, f, Filesize, handlerVars, got, served, checks, checked,
                 Bootloader_State_Flag, overlap, sendVars, worldVars>>

\* esp_http_client_perform has returned: what it got counts no more.
Done(c) ==
  /\ task[c] = "over" /\ task' = [task EXCEPT ![c] = "idle"]
  /\ Unit_Update_task_Flag' = FALSE
  /\ got' = [got EXCEPT ![c] = 0] /\ served' = [served EXCEPT ![c] = server]
  /\ UNCHANGED <<fileVars, f, Filesize, handlerVars, checks, checked,
                 Bootloader_State_Flag, clash, overlap, sendVars, worldVars>>

\* An event changes neither the flags nor what the Unit task keeps.
EventFrame == UNCHANGED <<flagVars, sendVars, checks, server>>

\* fopen(.., "w") and what is written first; or it fails.  Is it more or less
\* than this download has brought?
Creates(first, wrong) ==
  /\ torn' = FALSE /\ marred' = wrong
  /\ \/ f' = "write" /\ file' = first /\ File_opened' = TRUE /\ UNCHANGED spent
     \/ /\ f' = "null" /\ file' = NoFile /\ File_opened' = FALSE
        /\ Bounded("fault", MaxFaults)

\* HTTP_EVENT_ON_CONNECTED: there is no file, a new one is opened ...
Begins(c) ==
  /\ task[c] = "connecting" /\ task' = [task EXCEPT ![c] = "data"]
  /\ served' = [served EXCEPT ![c] = server] /\ got' = [got EXCEPT ![c] = 0]
  /\ checked' = Zero /\ EventFrame /\ UNCHANGED <<Load_Counter, Data_Counter, No_Update>>
OnConnectedNew(c) ==
  /\ Begins(c) /\ file = NoFile /\ Creates(<<>>, FALSE)
  /\ Firmware_version' = Zero /\ UNCHANGED <<buffer, Pointer, Filesize>>

\* ... or its version is read.  fread leaves in Buffer_Test what a short
\* file does not cover.
OnConnectedStored(c) ==
  /\ Begins(c) /\ file # NoFile /\ File_opened' = FALSE /\ f' = "null" /\ Filesize' = 0
  /\ Firmware_version' =
       VersionIn([i \in 1 .. Loaded |-> IF i <= Len(file) THEN file[i] ELSE buffer[i]])
  /\ buffer' = Blank /\ Pointer' = 1 /\ UNCHANGED <<fileVars, spent>>

\* HTTP_EVENT_ON_DATA brings the next chunk.
Arrives(c) ==
  /\ task[c] = "data" /\ got[c] < Size /\ got' = [got EXCEPT ![c] = @ + 1]
  /\ EventFrame /\ UNCHANGED <<task, served, checked, Filesize>>
Next1(c) == <<served[c], got[c] + 1>>
WithNext(c) == IF Pointer <= Loaded THEN [buffer EXCEPT ![Pointer] = Next1(c)] ELSE buffer

\* A file is stored: its version is compared once three chunks are here.
Load(c) == /\ Arrives(c) /\ Firmware_version # Zero
           /\ buffer' = WithNext(c) /\ Pointer' = Pointer + 1
           /\ Data_Counter' = Data_Counter + 1

\* Faulty variant: the comparison comes one chunk too late.
OnDataLoadLate(c) ==
  /\ Load(c) /\ Load_Counter < Loaded /\ Load_Counter' = Load_Counter + 1
  /\ UNCHANGED <<fileVars, f, File_opened, Firmware_version, No_Update, spent>>

OnDataLoad(c) ==
  /\ Load(c) /\ Load_Counter + 1 < Loaded /\ Load_Counter' = Load_Counter + 1
  /\ UNCHANGED <<fileVars, f, File_opened, Firmware_version, No_Update, spent>>

\* Faulty variant: any version that could be read counts as the stored one.
OnDataSameAny(c) ==
  /\ Load(c) /\ Load_Counter + 1 = Loaded /\ VersionIn(WithNext(c)) # Zero
  /\ Load_Counter' = 0 /\ Firmware_version' = Zero /\ No_Update' = TRUE
  /\ UNCHANGED <<fileVars, f, File_opened, spent>>

OnDataSame(c) ==
  /\ Load(c) /\ Load_Counter + 1 = Loaded /\ VersionIn(WithNext(c)) = Firmware_version
  /\ Load_Counter' = 0 /\ Firmware_version' = Zero /\ No_Update' = TRUE
  /\ UNCHANGED <<fileVars, f, File_opened, spent>>

\* fwrite(Buffer_Test, 1, Data_Counter, f)
Written(c, n) == [i \in 1 .. n |-> IF i <= Loaded THEN WithNext(c)[i] ELSE Junk]

\* Faulty variants: Data_Counter is read before it is advanced; the stored
\* file is not removed and the new one appended to it.
OnDataDiffersShort(c) ==
  /\ Load(c) /\ Load_Counter + 1 = Loaded /\ VersionIn(WithNext(c)) # Firmware_version
  /\ Creates(Written(c, Data_Counter), Data_Counter # got[c])
  /\ Load_Counter' = 0 /\ Firmware_version' = Zero /\ UNCHANGED No_Update
OnDataDiffersAppending(c) ==
  /\ Load(c) /\ Load_Counter + 1 = Loaded /\ VersionIn(WithNext(c)) # Firmware_version
  /\ Creates(file \o Written(c, Data_Counter + 1), Data_Counter # got[c])
  /\ Load_Counter' = 0 /\ Firmware_version' = Zero /\ UNCHANGED No_Update

OnDataDiffers(c) ==
  /\ Load(c) /\ Load_Counter + 1 = Loaded /\ VersionIn(WithNext(c)) # Firmware_version
  /\ Creates(Written(c, Data_Counter + 1), Data_Counter # got[c])
  /\ Load_Counter' = 0 /\ Firmware_version' = Zero /\ UNCHANGED No_Update

\* Nothing to compare: the chunk is stored, if there is a file to store it
\* in.  A handle the Unit task has opened for reading takes no bytes.
OnDataStore(c) ==
  /\ Arrives(c) /\ Firmware_version = Zero /\ (File_opened => f # "null")
  /\ file' = IF File_opened /\ f = "write" /\ file # NoFile
             THEN Append(file, Next1(c)) ELSE file
  /\ UNCHANGED <<f, torn, marred, handlerVars, spent>>

\* HTTP_EVENT_ON_FINISH
OnFinish(c) ==
  /\ task[c] = "data" /\ got[c] = Size /\ task' = [task EXCEPT ![c] = "over"]
  /\ No_Update' = FALSE /\ checked' = served[c]
  /\ IF File_opened
     THEN File_opened' = FALSE /\ f' = "null" /\ Firmware_version' = Zero
     ELSE UNCHANGED <<File_opened, f, Firmware_version>>
  /\ EventFrame
  /\ UNCHANGED <<fileVars, Filesize, Load_Counter, Data_Counter, buffer, Pointer, got, served, spent>>

\* HTTP_EVENT_ERROR: no connection, or it broke.  f is not closed.
OnError(c) ==
  /\ task[c] \in {"connecting", "data"} /\ Bounded("fault", MaxFaults)
  /\ task' = [task EXCEPT ![c] = "over"] /\ No_Update' = FALSE
  /\ IF File_opened
     THEN File_opened' = FALSE /\ Load_Counter' = 0 /\ Firmware_version' = Zero
          /\ file' = NoFile /\ UNCHANGED <<torn, marred>>
     ELSE UNCHANGED <<File_opened, Load_Counter, Firmware_version, fileVars>>
  /\ EventFrame /\ UNCHANGED <<f, Filesize, Data_Counter, buffer, Pointer, got, served, checked>>

OnData(c) == OnDataLoad(c) \/ OnDataSame(c) \/ OnDataDiffers(c) \/ OnDataStore(c)
Create(c) == Followed /\ Check(c)
Breaks(c) == Followed /\ OnError(c)
UpdateTask(c) ==
  Followed /\ (Start(c) \/ OnConnectedNew(c) \/ OnConnectedStored(c) \/ OnData(c) \/ OnFinish(c) \/ Done(c))

-----------------------------------------------------------------------------
(* The Unit task's bootloader stages                                        *)

SendFrame == UNCHANGED <<fileVars, handlerVars, taskVars, worldVars>>

\* The link came up; or Bootloader_Mode was seen while it was being tried.
Connect ==
  /\ stage = "linking" /\ stage' \in {"connected", "Bootloader_State"}
  /\ SendFrame /\ UNCHANGED <<f, Filesize, flagVars, pos, Bytes_Transfered, Ack_Received,
                              owed, flashed>>

\* Faulty variant: the flag of the updates is not tested.
ClaimAnyway ==
  /\ stage = "Bootloader_State" /\ stage' = "claiming"
  /\ overlap' = (overlap \/ Waiting # {})
  /\ SendFrame /\ UNCHANGED <<f, Filesize, Unit_Update_task_Flag, Bootloader_State_Flag, clash,
                              pos, Bytes_Transfered, Ack_Received, owed, flashed>>

\* Unless an update runs, ...
Claim ==
  /\ stage = "Bootloader_State" /\ ~Unit_Update_task_Flag /\ stage' = "claiming"
  /\ overlap' = (overlap \/ Waiting # {})
  /\ SendFrame /\ UNCHANGED <<f, Filesize, Unit_Update_task_Flag, Bootloader_State_Flag, clash,
                              pos, Bytes_Transfered, Ack_Received, owed, flashed>>

\* ... the flag is set, and a delay follows.
Claimed ==
  /\ stage = "claiming" /\ stage' = "claimed" /\ Bootloader_State_Flag' = TRUE
  /\ clash' = (clash \/ Unit_Update_task_Flag)
  /\ SendFrame /\ UNCHANGED <<f, Filesize, Unit_Update_task_Flag, overlap,
                              pos, Bytes_Transfered, Ack_Received, owed, flashed>>

\* Faulty variant: after the size was found at its end the file is not
\* rewound.
AnnounceAtEnd ==
  /\ stage = "claimed"
  /\ IF file = NoFile
     THEN f' = "null" /\ Filesize' = 0 /\ stage' = "Bootloader_State_end" /\ UNCHANGED owed
     ELSE f' = "read" /\ Filesize' = Len(file) /\ stage' = "Bootloader_State1" /\ owed' = "due"
  /\ pos' = IF file = NoFile THEN 0 ELSE Len(file)
  /\ SendFrame /\ UNCHANGED <<flagVars, Bytes_Transfered, Ack_Received, flashed>>

\* The size and the first word go to the board.  fseek succeeds on every
\* file that could be opened, an empty one included.
Announce ==
  /\ stage = "claimed"
  /\ IF file = NoFile
     THEN f' = "null" /\ Filesize' = 0 /\ stage' = "Bootloader_State_end" /\ UNCHANGED owed
     ELSE f' = "read" /\ Filesize' = Len(file) /\ stage' = "Bootloader_State1" /\ owed' = "due"
  /\ pos' = 0
  /\ SendFrame /\ UNCHANGED <<flagVars, Bytes_Transfered, Ack_Received, flashed>>

\* fread(Temp_Buffer, ..): zeros where the handle gives no bytes.
Block == IF f = "read" /\ file # NoFile /\ pos < Len(file) THEN file[pos + 1] ELSE Zero

Sends ==
  /\ stage = "Bootloader_State1" /\ Ack_Received /\ f # "null"
  /\ Ack_Received' = FALSE /\ owed' = "due" /\ pos' = pos + 1
  /\ SendFrame /\ UNCHANGED <<Filesize, flagVars>>

\* The tail goes out in whole words: the rest of its bytes is lost.
InWords(b) == IF b \in Ragged \X {Size} THEN Junk ELSE b

\* Faulty variants: two blocks count as the last one; a last block that is
\* full does not count as the last.
SendBlockShort ==
  /\ Sends /\ Filesize - Bytes_Transfered > 2
  /\ flashed' = Append(flashed, Block)
  /\ Bytes_Transfered' = Bytes_Transfered + 1 /\ UNCHANGED <<stage, f>>
SendBlockFull ==
  /\ Sends /\ Filesize - Bytes_Transfered >= 1
  /\ flashed' = Append(flashed, Block)
  /\ Bytes_Transfered' = Bytes_Transfered + 1 /\ UNCHANGED <<stage, f>>

SendBlock ==
  /\ Sends /\ Filesize - Bytes_Transfered > 1
  /\ flashed' = Append(flashed, Block)
  /\ Bytes_Transfered' = Bytes_Transfered + 1 /\ UNCHANGED <<stage, f>>

SendTail ==
  /\ Sends /\ Filesize - Bytes_Transfered = 1 /\ flashed' = Append(flashed, InWords(Block))
  /\ stage' = "Bootloader_State_end" /\ f' = "null" /\ UNCHANGED Bytes_Transfered

\* Nothing is left to send: the ACK is consumed and the stage stays.
SendNothing ==
  /\ stage = "Bootloader_State1" /\ Ack_Received /\ Filesize = Bytes_Transfered
  /\ Ack_Received' = FALSE
  /\ SendFrame /\ UNCHANGED <<f, Filesize, flagVars, stage, pos, Bytes_Transfered, owed, flashed>>

UnitTask == Followed /\ (Connect \/ Claim \/ Claimed \/ Announce \/ SendBlock \/ SendTail \/ SendNothing)

-----------------------------------------------------------------------------
(* Environment                                                              *)

\* The board acknowledges the size and every block; or a byte of it is lost.
BoardAcks ==
  /\ owed = "due" /\ owed' = "none" /\ stage = "Bootloader_State1" /\ Ack_Received' = TRUE
  /\ SendFrame /\ UNCHANGED <<f, Filesize, flagVars, stage, pos, Bytes_Transfered, flashed>>
AckLost ==
  /\ owed = "due" /\ owed' = "lost" /\ Bounded("fault", MaxFaults)
  /\ UNCHANGED <<fileVars, handlerVars, taskVars, server, f, Filesize, flagVars,
                 stage, pos, Bytes_Transfered, Ack_Received, flashed>>

Release ==
  /\ Bounded("release", MaxReleases) /\ server' \in Versions \ {server}
  /\ UNCHANGED <<fileVars, f, Filesize, handlerVars, taskVars, flagVars, sendVars>>

\* The program starts anew: of a file that is being written any beginning
\* may have reached the flash.
Writing == File_opened /\ f = "write" /\ file # NoFile
Reboot ==
  /\ f' = "null" /\ pos' = 0 /\ Filesize' = 0
  /\ File_opened' = FALSE /\ Firmware_version' = Zero /\ Load_Counter' = 0
  /\ Data_Counter' = 0 /\ No_Update' = FALSE /\ buffer' = Blank /\ Pointer' = 1
  /\ Unit_Update_task_Flag' = FALSE /\ Bootloader_State_Flag' = FALSE
  /\ clash' = FALSE /\ overlap' = FALSE
  /\ task' = [c \in Creators |-> "idle"] /\ got' = [c \in Creators |-> 0]
  /\ checks' = 0 /\ stage' = "linking" /\ Bytes_Transfered' = 0
  /\ Ack_Received' = FALSE /\ owed' = "none" /\ flashed' = <<>>
  /\ checked' = Zero /\ UNCHANGED server /\ served' = [c \in Creators |-> server]
  /\ torn' = (torn \/ Writing) /\ marred' = (marred \/ clash)
  /\ file' \in IF Writing THEN {SubSeq(file, 1, n) : n \in 0 .. Len(file)} ELSE {file}

\* A power cycle.
Restart == Bounded("restart", MaxRestarts) /\ Reboot

Next == \/ \E c \in Creators : Create(c) \/ UpdateTask(c) \/ Breaks(c)
        \/ UnitTask \/ BoardAcks \/ AckLost \/ Release \/ Restart

\* Tasks run on, the client delivers what it has begun, the board answers.
Fairness == /\ WF_vars(UnitTask) /\ WF_vars(BoardAcks)
            /\ \A c \in Creators : WF_vars(UpdateTask(c))
Spec == Init /\ [][Next]_vars /\ Fairness
-----------------------------------------------------------------------------
(* Properties                                                               *)

\* Every variable keeps its range; Pointer stays within Buffer_Test or at
\* its end, whatever download was broken off before (lines 205-229).
TypeOK ==
  /\ file = NoFile \/ file \in Seq(Chunk)
  /\ torn \in BOOLEAN /\ marred \in BOOLEAN /\ clash \in BOOLEAN /\ overlap \in BOOLEAN
  /\ f \in {"null", "read", "write"} /\ pos \in Nat /\ Filesize \in Nat
  /\ File_opened \in BOOLEAN /\ Firmware_version \in Versions \cup {Zero, Junk}
  /\ Load_Counter \in 0 .. Loaded - 1 /\ Data_Counter \in Nat /\ No_Update \in BOOLEAN
  /\ buffer \in [1 .. Loaded -> Chunk] /\ Pointer \in 1 .. Loaded + 1
  /\ Unit_Update_task_Flag \in BOOLEAN /\ Bootloader_State_Flag \in BOOLEAN
  /\ task \in [Creators -> {"idle", "created", "connecting", "data", "over"}]
  /\ got \in [Creators -> 0 .. Size] /\ served \in [Creators -> Versions]
  /\ checks \in Nat /\ checked \in Versions \cup {Zero}
  /\ stage \in {"linking", "connected", "Bootloader_State", "claiming", "claimed",
                "Bootloader_State1", "Bootloader_State_end"}
  /\ Bytes_Transfered \in Nat /\ Ack_Received \in BOOLEAN /\ owed \in {"none", "due", "lost"}
  /\ flashed \in Seq(Chunk) /\ server \in Versions
  /\ spent \in [{"release", "restart", "fault", "offer"} -> Nat]

\* What the comment of unit_comm.c:604 says of Bootloader_State_Flag: while
\* it is set no update from the server runs.
NoUpdateWhileFlashing == ~(Bootloader_State_Flag /\ Unit_Update_task_Flag)

\* At most one update uses the handle, the counters and the file at a time.
OneUpdate ==
  \A c, d \in Creators :
    {task[c], task[d]} \subseteq {"connecting", "data", "over"} => c = d

\* It fails in one way only: two tasks have tested the flags before either of
\* them has set its own (main.c 161, 432; unit_comm.c 602-604).  However
\* updates are created, broken off or ended, whenever the tests do not overlap
\* the flags keep a transfer and all updates of a boot apart.
ApartUnlessOverlap == ~overlap => NoUpdateWhileFlashing /\ OneUpdate /\ ~clash

\* The file never mixes two images or holds other bytes: it is an image of
\* the server or the beginning of one (main.c 186-312), whatever number of
\* updates a boot makes, unless two of them ran at once or the new file was
\* begun with the count of bytes of an earlier comparison.
FileIsOneImage ==
  file # NoFile /\ ~marred /\ ~clash =>
    \E v \in Versions, n \in 0 .. Size : file = SubSeq(Image(v), 1, n)

\* What the comments of main.c:231 and 243 promise: once a download has
\* finished, the file, if there is one, is what the server offered.  It need
\* not be one that a restart tore, see NoUpdateNeeded, nor if another task
\* used the handle meanwhile.
CheckedIsStored ==
  checked # Zero /\ file # NoFile /\ ~torn /\ ~clash => file = Image(checked)

\* It fails in one way only, of however many downloads of a boot: one found
\* the count of bytes of an earlier comparison and wrote too many of them.
StoredIsServed == ~marred => CheckedIsStored

\* What the message of main.c:240 says: no update is needed, the stored file
\* is the firmware the server offers, unless it is the torn beginning of one
\* or was begun with too many bytes.
NoUpdateNeeded ==
  No_Update /\ ~torn /\ ~marred /\ ~clash => \E c \in Creators : file = Image(served[c])

\* What the board has of a file when it is sent whole.
AsSent(s) == [i \in 1 .. Len(s) |-> IF i = Len(s) THEN InWords(s[i]) ELSE s[i]]

\* The board gets the blocks of the file in their order, and all of them
\* when the transfer has ended (unit_comm.c 663-712), whatever the creators
\* of updates try meanwhile, unless one runs beside the transfer.  Of the
\* last block it gets the whole words.
SentIsFile ==
  flashed # <<>> /\ ~clash =>
    /\ file # NoFile /\ Len(flashed) <= Len(file)
    /\ flashed = SubSeq(AsSent(file), 1, Len(flashed))
    /\ stage = "Bootloader_State_end" => flashed = AsSent(file)

\* A transfer under way never stands still (unit_comm.c 663-712): a block is
\* left to send, the handle to read it from is open, and the board owes an
\* ACK, it has come or was lost, whatever updates are tried meanwhile.  An
\* empty file and an update that runs beside it do stop it.
TransferGoesOn ==
  stage = "Bootloader_State1" /\ Filesize # 0 /\ ~clash =>
    Bytes_Transfered < Filesize /\ f # "null" /\ (owed # "none" \/ Ack_Received)

\* A transfer that has begun ends (unit_comm.c 663-712), or the program starts
\* anew: the board is not left waiting in Bootloader_State1, unless the file
\* is empty, an ACK was lost, which nothing repeats, or an update runs beside
\* the transfer and uses its handle.
TransferEnds ==
  stage = "Bootloader_State1" /\ Filesize # 0
    ~> stage # "Bootloader_State1" \/ clash \/ owed = "lost"
=============================================================================
