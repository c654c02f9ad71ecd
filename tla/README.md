# TLA+ models of the AELEBDWIF01 dongle

The dongle is an ESP32 that connects a ventilation unit to an app (BLE) and to a
cloud (Wi-Fi, MQTT). The firmware is C on ESP-IDF/FreeRTOS, in `src/src` and
`src/include` of the repository (paths below are relative to it, `unit_comm.c`
standing for `src/src/unit_comm.c`). This directory holds TLA+ models of its
concurrent core, the TLC configurations that check them, and proofs.

    tlc -config UnitComm_link.cfg MCUnitComm.tla       # one run
    tlapm UnitComm_proofs.tla                          # the proofs of one module

`PROJECT.json` lists the runs, the faulty variants (mutants) each property is
tested with, the source lines of every definition, the findings and the hazards.

## The system

| Component | State | Operations | Talks to |
| --- | --- | --- | --- |
| Unit link, `unit_comm.c` | `WBM_Com_State`, `currentState`, `Eeprom_Data_received`, `Read_Eeprom_Request_Index`, three time stamps, EEPROM image `gRDEeprom` | `Unit_event_task`: bring-up stages, polling, one request per pass, bootloader stages | unit board over UART1; BLE and MQTT through the image and the request index; `ble_set_runtime_ready` |
| Serial protocol, `WBM_Serial.c` | receive buffer, `rx_buf_tail`, `Ack_Received`, `Bootloader_Mode` | build a request, receive and check a frame | UART driver, unit link |
| UART driver, `Uart1.c` | receive cache of one event and its length, baud rate | init at 230400 or 9600, event task, claim, write | unit board; `Read_Message` through the cache |
| BLE server, `ble.c`, `ble_app.c` | two packets, session status, session timer, prepared write | writes of SSID, password and commit; write of the image; connect, disconnect, time-out | Wi-Fi manager (queue), the Wi-Fi globals, image and index |
| Wi-Fi manager, `mqtt_app.c` | request queue, request being applied, retries | `mqtt_task`, `apply_wifi_request` | station, NVS, globals |
| Wi-Fi station, `wifi_connect.c` | event group, `Wifi_Connected_Flag`, netif | `wifi_connect`, `wifi_disconnect`, two event handlers | Wi-Fi driver |
| Cloud client, `mqtt_app.c` | `client`, `is_mqtt_ready`, `s_subscribe_counter` | start, events, subscribe, publish | broker; Wi-Fi manager, which starts it; Unit task, which subscribes too; image and index; starts firmware updates |
| Firmware of the unit, `main.c` and `unit_comm.c` | `/spiffs/firmware.bin`, handle `f`, counters, two flags | `Unit_Update_task` with its HTTP events; bootloader stages | firmware server; unit board |
| Update of the dongle, `main.c` | where the boot's check is | `ota_boot_task`, `check_update_task`: ask, install, restart | server; its HTTP events start the unit's update, its restart ends it |
| Start-up, LED, NVS, GPIO, `main.c`, `gpio_api.c` | NVS strings, `millis_tick`, pins | initialisation, timer callback, pin levels | all |

What makes it hard: eight contexts (Unit task, UART event task, BLE stack, MQTT
client, Wi-Fi manager, update tasks, timer task, event task) on two cores share plain globals without a lock; the line
to the unit loses and damages frames; the unit board is switched off and on; every
wait has a time-out that can meet a late answer; power can fail at any moment; and
the flags that are to keep updates and the bootloader apart are tested and set by
different tasks. What must hold: frames are taken whole and in order; the line stays half duplex; the image shows the
unit; an app's edit reaches the unit; the firmware file is one image of the server
and the board receives that file; credentials that were entered are stored, and the
station comes back; the cloud session comes up and stays. `PROJECT.json` lists the hazards, each at its line.

## Modules

| Module | Models | Properties |
| --- | --- | --- |
| `LinkLifecycle` | abstract: search at two rates, reading, link up | |
| `UnitComm` | unit link, requests of the serial protocol, the two image writers, line, clock and unit board; implements `LinkLifecycle` | 10 |
| `UnitComm_proofs` | theorems about `UnitComm` | 5 theorems |
| `FrameChannel` | abstract: frames whole or not at all, in order | |
| `UartRx` | UART event task, its cache, `Read_Message`; implements `FrameChannel` | 5 |
| `UartRx_proofs`, `UartRx_count_proofs` | theorems about `UartRx` | 3 and 1 theorems |
| `UnitFirmware` | download of the unit's firmware and its transfer to the board | 10 |
| `UnitFirmware_proofs` | theorems about `UnitFirmware` | 4 theorems |
| `DongleUpdate` | `UnitFirmware` beside the dongle's own update, which creates it and restarts the program | 1, and those of `UnitFirmware` |
| `DongleUpdate_proofs` | theorems about `DongleUpdate` | 7 theorems |
| `WifiSetup` | provisioning over BLE, Wi-Fi manager, station and its handlers, NVS strings | 11 |
| `WifiSetup_proofs` | theorems about `WifiSetup` | 6 theorems |
| `MqttSession` | the cloud session: manager, clients, Unit task, broker | 4 |
| `MqttSession_proofs` | theorems about `MqttSession` | 2 theorems |
| `MCUnitComm`, `MCUartRx`, `MCUnitFirmware`, `MCDongleUpdate`, `MCWifiSetup`, `MCMqttSession` | constants for TLC | |

How they fit: `UartRx` shows what `UnitComm` assumes of reception, that a frame is
taken whole, once and in order as long as the line is half duplex, and `UnitComm`
shows that it is. `UnitFirmware` takes the acknowledgements of the board from the
same line. `WifiSetup` shows that the boot's request is applied and Wi-Fi comes back,
`UnitComm` that the link comes up: these are the fair steps of `MqttSession`. The events
of the cloud client are split between `MqttSession` (session), `UnitComm` (image and
request index) and `UnitFirmware` (creation of updates).

A definition that begins with a fault ("Faulty variant") is not part of a
specification: it is what a definition of the code becomes with a plausible bug,
and shows that a property notices it.

### UnitComm

`wbm` and `currentState` are the two state variables of the code; each stage of
`Connect_To_Unit` is an action (`LinkInit`, `LinkConnecting`, `TryAgain`,
`FallBack`, `TryReceive`, `ReadSection(s)`, `LastPoll`, `HandshakeFails`, ...).
A pass through `WBM_Connected` is split at every point where another task may come
in between: the debug timer (`LoopDebug`), the polling timer (`LoopBase`) and the link
time-out (`LoopLimit`), each with a reading of the clock of its own, `Read_Message` and its
dispatch (`LoopRead`), the load and store of the request index (`LoopOr`, `LoopLoad`, `LoopStore`), serving the
lowest bit (`LoopServe`). An app's write is the copy of the whole image
(`AppCopies`) and the load and store of the index (`AppLoads`, `AppStores`).

The EEPROM is five ranges, each with a content and, for four of them, the update
counter in its last byte; what a handshake stage copies from a frame that is not
the expected reply is `Stored`. Time stamps are ages, capped at the time-out.
`ClockWrap` may come at any moment and makes every stamp older than its period. It is
counted as "blind" in the two places where the code compares a stamp of before the wrap with
the time after it while no poll is due: between the stamps of the link time-out (568) and of
the timers (580-581) as the task enters `WBM_Connected`, and between the tests of the polling
timer (139) and of the link time-out (153).
Frames are atomic messages (`UartRx` says when that is so). `Lifecycle` is the refinement
mapping to `LinkLifecycle`: the phase is read off `wbm` and `currentState`, the
rate off the baud rate, `retriesCounter` counts the polls of a round and `StagesDone`
the answers. Abstracted: `memcpy` of the image is atomic; the
measurements in polling and debug replies, which only displays read; buttons
(bits 4-9 of the index), which nothing sets.

### UnitFirmware

An image is a sequence of chunks; a chunk stands for the bytes of one data event
and for a block of the transfer. `OnConnected...`, `OnData...`, `OnFinish`, `OnError`
are the branches of `_http1_event_handler`, with its counters (`Load_Counter`,
`Data_Counter`, `Pointer`) as they persist from one download to the next. `Check` is
the test of the two flags by a creator and `xTaskCreate`, `Start` the first statement of the task,
and others run between the two. The creators are the check at boot (`main.c:161`), the events
of the cloud client (`mqtt_app.c:174`, `238`) and the daily one of the Unit task
(`unit_comm.c:110`), which acts only while the link is up. The bootloader stages are
`Claim` (the test of the flag of the updates, 602), `Claimed` (its own flag is set, 604), `Announce`,
`SendBlock`, `SendTail`, `SendNothing`. Of the last block the code sends whole words
(`InWords`); `Ragged` are the images that lose bytes by that. A restart leaves any
beginning of a file that is being written, in whole chunks.

Four history variables say when a property has its excuse. `overlap`: two of the creators'
tests, or one of them and that of `Claim`, passed before either of the two had set its flag. `clash`: an
update runs beside another or beside a transfer, which `ApartUnlessOverlap` shows to follow
from an overlap only. `marred`: the file was begun with the count of bytes that an
earlier comparison left behind (finding 3), or while a clash was on. `torn`: the program
restarted while the file was being written. What two tasks do to one handle and one set of
counters after a clash is followed if `FollowClash` says so; the big run stops there, where
every property of the file and of the transfer has its excuse anyway, and the theorems hold
for both values. The HTTP client (it delivers chunks in
order or reports an error) and the board's acknowledgements, one of which may be lost, are
external.

`DongleUpdate` adds `ota`, the place of the boot's one check: `WifiIsUp` and `SkipCheck`
are `ota_boot_task`, the others `check_update_task`; `OtaSucceeds` is `esp_restart()`, which
does to the variables of `UnitFirmware` what a power cut does (`Reboot`). The http creator
acts when the check's connection is closed. `behind` says whether `version.json` names
another version than the one that runs. `Named` says whether the server names the
`CURRENT_VERSION` of the image it refers to: if it does, the two agree after an installation
(`behind` is FALSE), if not, they differ again.

### UartRx

A byte is a cell that knows its frame and its place in it. The driver's interrupt
turns what came into an event, in a pause of a frame into two. `DataEvent`,
`ClearCache` and `FillCache` are lines 52-60, 61 and 62 of `Uart1.c`; `Claims` and
`Claimed` are the load and the store of `Uart1_RxClaim`, `ReadByte` one round of the
copying loop, so that the event task comes in between. The judgement is
`TakesText` (the first text in the buffer, as `strstr` finds it; the bytes of several
acknowledgements cannot be told apart), `TakesData` or `Rejects`. Abstracted: the
16-bit sum is taken to tell a frame from all other bytes; `memset` and `memcpy` are
steps; `s_rx_ptr` always points into the cache; "Bootloader" is a text like "ACK". A
frame is shorter than the 120 bytes at which the driver would split it: the longest
section has 85 bytes.

### MqttSession

Each client has a task that runs `mqtt_event_handler`, one event at a time: `Connected`
and the two subscriptions, `Disconnected`, `Subscribed` and `Counts` (test and
increment of the counter), `Requested`. `Apply` is the end of a round of `mqtt_task`,
which starts a client unless the session is ready. `EntersConnected` and `Enters` are
the Unit task's two subscriptions. A subscription through a client that is not
connected does nothing; a new connection makes the broker close the older one, since
all clients have the default id. Left out: the library's lock, which would only remove
interleavings.

### WifiSetup

A text is a sequence of the chunks an app wrote. `PartWritten`/`PartHandled` and
`CloudWritten`/`CloudHandled` split `handle_write_event` where it changes the status
and queues a request; the time-out callback is two steps (`Expire`,
`ExpiryReports`). `SetStatus` is `ble_set_prov_status`, one step when the BLE stack calls it;
the timer task and the Unit task may be held up in it before they test the status or between
the test and `xTimerStop` (`HeldUp`, `StopsTimer`), and may then stop the timer of a session that has
started it since: `timer` is "cut" from there to the next status. The history variable `told` is
what the last DONE was about, until the next write. `Manager` has one action per step of `mqtt_task` and
`apply_wifi_request`, so that BLE writes and events come in between; `stop` is
`StopStation` and `Stopped`, because `Wifi_Connected_Flag` is written after the
handlers are gone. The driver posts events (`GetsAddress`, `LosesLink`) that the
event task handles later: `on_got_ip` in three steps, the test of the event group, its bit
(`SetsBits`) and the flag (`SetsFlag`), between which the manager may delete the group, and
`on_wifi_disconnect`, after whose failed `esp_wifi_connect` the station has "given_up".
`StopStation` waits for a handler that runs, as the unregistration of handlers in ESP-IDF does,
which takes the lock of the event loop. Abstracted: a copy of
a string is atomic; delays (cool-down, retry pause) are any delay; an allocation
never fails; `is_mqtt_ready` and the MQTT client are in `MqttSession`.

## Runs

Every cfg names its bounds. `CHECK_DEADLOCK FALSE` stands where the system may
stop: when a transfer is over and the environment has used up its bounds.

| Run | Shows | Bounds |
| --- | --- | --- |
| `UnitComm_link` | `HalfDuplex`, `ReadyImageSound`, `LifecycleKept`, `LifecycleGoesOn` | one lost frame, one burst of noise, one app write, a board that stops; each handshake stage meets a loss; 0.14 million states, some 2 minutes |
| `UnitComm_silent` | `HalfDuplex`, `ConnectedForever`, `LifecycleKept` | board that stops; a clock that wraps at any moment or a bootloader announcement, one of the two (`OneOnly`); 2.8 million states, some 50 s |
| `UnitComm_edits` | `TypeOK`, `QuietWriteDelivered`, `IndexDrains`, `LinkComesUp`, `ImageFollowsUnit` | board at 9600 baud, one app write beside two panel edits, counters that wrap but never return to an old value; 0.4 million states, some 2 minutes |
| `UnitComm_polling_goes_on` | violation of `PollingGoesOn` | one lost frame |
| `UartRx_uart` | `TypeOK`, `CalmIsExact`, `NoneTooMany`, `FramesInOrder`, `CalmIsTaken` | three frames of two kinds, a cache of seven bytes, two events in the queue, two of: a pause, an overflow, an event task that is held up |
| `DongleUpdate_update` | `TypeOK`, `FileIsOneImage`, `StoredIsServed`, `NoUpdateNeeded`, `SentIsFile`, `ApartUnlessOverlap`, `TransferGoesOn`, `TransferEnds`, `ChecksSettle` | all three creators, two updates a boot, one of: a release, a power cut, a fault (a broken download, a full flash, a lost acknowledgement), another offer for the dongle; restarts after an installation besides; one image of two loses bytes of its last word; `FollowClash = FALSE`, `Named = TRUE`; 0.76 million states, some 2 minutes |
| `UnitFirmware_race` | violation of `NoUpdateWhileFlashing` | one creator |
| `UnitFirmware_second_check` | violation of `CheckedIsStored` | two checks in a boot, one release |
| `WifiSetup_setup` | `TypeOK`, `FlagTruth`, `ConnectFindsNoGroup`, `LastRequestTaken`, `CalmIsStored`, `WaitIsTimed`, `StaysOnline`, `SessionEnds`, `StoredWhenCalm` | one session of three writes, one disturbance (drop of the access point, failed store or start, a report of RUNTIME_READY, which no property tells from BOOTING, by a Unit task that may be held up in it, a time-out callback that is held up, power cut, failed `esp_wifi_connect`), queue of one, two attempts; 0.82 million states, some 3 minutes |
| `WifiSetup_done` | violation of `DoneIsStored` | one session that begins when the manager rests |
| `WifiSetup_buffers` | violation of `BuffersTimeOut` | one write |
| `MqttSession_cloud` | `TypeOK`, `ReadyIsHeard`, `CloudComesUp`, `RequestIsAnswered` | two Wi-Fi requests, hence up to two clients, three lost connections, two requests of an app |

The periods in ticks keep the order they have in the code and the smallest time-out that
`TimeAssumption` allows. What an announcement and a wrap in one behaviour do the silent run leaves to
the theorems, which hold for any number of both.
Two updates a boot are enough for what one leaves to the next (the counters are set at its
comparison and at its end), and three creators for any two of them and the Unit task.
Four chunks an image are enough: three are compared, one is stored after. A queue of
one overflows with the second request, as eight do with the ninth, and two attempts
show a retry and its end. One content besides the initial one and one tick more
than a period tell fresh data from stale and early from late. A cache of seven holds a
data frame of four and a text of two, or three texts; two data frames overrun it and are
cut to its size, which is the edge of `% 128`.
Three frames show one that is taken, one that meets it and one that comes to rest; two
clients are enough to throw each other out.

`StoredWhenCalm` and its safety half `CalmIsStored` say when provisioning is reliable: the manager
rests and the station is off. `StaysOnline` covers a station that came up once; after `MaxRetry`
failed attempts the station is stopped and nothing tries again until a request or a
restart, so the "auto-reconnect" of README.md:13 holds only from the first connection
on.

## Fairness

Weak fairness of each task's steps: FreeRTOS schedules every ready task here (all
loops block or delay). The tick interrupt goes on and a board that is on answers what
it gets; the HTTP client delivers a download it has begun or, as a bounded fault,
reports an error; the board acknowledges blocks; the Wi-Fi driver reports. Users,
apps, noise, losses, power cuts, releases and the access point have no fairness and
are bounded. A lost acknowledgement is such a fault: nothing sends it again. In `UartRx` the interrupt comes, the event task runs and the Unit task goes
on calling `Read_Message`, as each of its stages that waits does in every round; between
two rounds lies a delay, so that the event task is held up over one only as a bounded
event. In `MqttSession` the first request is applied and the link comes up in the end,
the station reconnects and the library runs its clients. In `WifiSetup` the timer task and a Unit task that is held up
go on, and the timer expires. In `DongleUpdate` the server
changes its offer a bounded number of times; HTTP requests end, well or badly.
`Latency = "tick"` in `UnitComm_edits` says that a reply comes in the tick of its
request, since a reply that is late each time can starve the polls; the other liveness
run about the link (`link`) allows any loss.

## Findings

Each is a violation run, or a remark where there is no run.

1. `UnitComm_polling_goes_on`: one lost reply leaves `Eeprom_Data_received` set and
   polling stops until a restart (unit_comm.c:138-149). The connected task does not
   notice either: due polls refresh the link's time stamp whether or not they are
   sent, so the branch "no connection with Unit board after Timeout" (153-159) is not
   reached by a silent board. `ConnectedForever` checks that, `NeverDisconnects` proves
   it; the first remark tells the one way into it.
2. `UnitFirmware_race`: the flags are tested by a creator and set by the task it
   creates, so an update can run beside the bootloader (unit_comm.c:604).
   `ApartUnlessOverlap` says that this and its mirror image are the only ways: a task that
   was created before the Unit task's test (602) starts after it, one that is created between
   that test and the setting of the flag (604), or two tasks created before either starts.
3. `UnitFirmware_second_check`: `Data_Counter` is never reset. Whether the first
   comparison of a boot found the same version or stored another one, the second one that
   finds another version stores more bytes than it has (main.c:259). `StoredIsServed` says that this is the only
   way: a download that starts its file with its own count leaves the served image.
4. `WifiSetup_done`: credentials entered while connected are reported DONE and
   ignored (mqtt_app.c:267). With `EarlyClient = TRUE` there are two more ways: the
   manager's copy (293-294) between the two writes mixes old and new credentials,
   and a retry of the boot request, which is not stored, connects with the new ones.
5. `WifiSetup_buffers`: a status other than a session's own stops the inactivity
   timer and leaves the buffers (ble.c:167-169).

Remarks without a run: `millis_tick` wraps after 49.7 days, and if it does so between lines 568 and
580 or between the tests of lines 139 and 153 of `unit_comm.c` while no poll is due, a healthy link goes to `WBM_Error`
and never returns, with RUNTIME_READY withdrawn only in the next pass (`ConnectedForever` and
`LifecycleKept` allow no other way out of `WBM_Connected`); a lost acknowledgement leaves the transfer, its
flag and with it all later updates where they are until a restart (unit_comm.c:663-669; `TransferEnds` without
`owed = "lost"`); of a firmware whose size is no multiple of 4 the last bytes are replaced by zeros
(unit_comm.c:693; `SentIsFile` with the file itself for `AsSent`); while the server names a version that its image does
not carry the dongle installs it and restarts for ever (main.c:359; `ChecksSettle` without
`Named`); after a failed `esp_wifi_connect` in the disconnect handler nobody reconnects until a
request or a restart (wifi_connect.c:149-157; `StaysOnline` without "given_up"); `wifi_disconnect` deletes the event group
before the handlers are unregistered, and a handler that has just found it sets a bit of deleted memory
(wifi_connect.c:62-63, 128-131); a file cut off behind its version bytes passes for the whole
firmware (main.c:231-240; `NoUpdateNeeded` without `~torn`); a file that a power
cut left empty keeps the dongle in `Bootloader_State1` (unit_comm.c:624-652;
`TransferEnds` without `Filesize # 0`); a bootloader announcement during the bring-up is
stored as the section that was asked for (`ReadyImageSound` without `spent["boot"] = 0`);
`ble_set_runtime_ready` runs in the Unit task, and when it has tested its own status and is held up before
`xTimerStop` (ble.c:165-168) while a client's disconnection or write sets a status that waits and starts the
timer, the stop hits that session, which then waits without the time-out that
docs/BLE_WIFI_APP_INTEGRATION.md:61-62 promises (`WaitIsTimed` and `SessionEnds` without the "cut"); after
an early commit (FF07 with one part) the status is ERROR but the part stays, and the
documented restart from the SSID step appends to it (ble.c:514-517); a provisioning
queues two requests, and when the second is applied, "credentials unchanged", before the
broker has answered the first client, `mqtt_app_start` makes a second one
(mqtt_app.c:353): the two throw each other out without end, and when their tasks count
SUBACKs at the same time the counter passes 1 and the session is not ready until the
next drop (`CloudComesUp` without `[]OneClient`); the restart of an over-the-air update
ends a bootloader transfer that is under way (main.c:375); a frame that follows before
the last one was taken replaces it (Uart1.c:60-62), which half-duplex use avoids, as it
does the two ways in which frames are taken out of order (`FramesInOrder` without
`HalfDuplex'`): an event with two texts comes while `Read_Message` copies, which takes the
second under the length of the event before and then the first; or an event holds data and
then a text, the text is taken, and the event task is held up so that the old data is read
under the length of the next event. A second update of one boot may also store a mixture
of two images, for the reason of finding 3 (`FileIsOneImage` without `~marred`).

## Proofs

Every theorem holds for all constants that satisfy the assumptions of its module
(`DataAssumption` and `TimeAssumption`, `ReceiverAssumption`, `FirmwareAssumption`,
`OfferAssumption`, `SetupAssumption`, `SessionAssumption`), which TLC evaluates in every run. Each
strengthening below was first checked by TLC as an invariant of a run.

### Unit link (`UnitComm_proofs`)

- `TypeCorrect`: `Spec => []TypeOK`, one step per action. It is inductive as it
  stands.
- `NeverDisconnects`: `Spec => ConnectedForever`. The branch needs the link's stamp to
  be older than the time-out while neither polling stamp is due. The strengthening,
  `LinkTimes`, bounds the link's age by the younger polling stamp's while connected, or the
  clock has wrapped blindly: every refresh of a polling stamp refreshes the link's, the stamps
  are set together when the task connects, and a pass lasts at most `MaxGap`. Past the test
  of the polling timer that bound is one period and two passes. `TimeAssumption`
  (`PollOn <= PollOff`, `PollOn + MaxGap <= DebugPeriod`, `PollOff + 2 * MaxGap <= Timeout`)
  is 1 s, 4 s, 5 s and 15 s in the code; the result would be false without it, and false
  without the blind wraps.
- `LinkIsHalfDuplex`: `Spec => []HalfDuplex` if an answer comes, or is lost, within the
  time-out (`Latency # "any"`); `HalfDuplex` allows one more message for each wrap of
  the clock, blind or not. The strengthening, `Outstanding`, counts what may be on the wire in every
  stage: none when nothing was asked, one when `pending` or a waiting stage says so, plus
  what came unasked.
- `ReadyShowsTheUnit`: `Spec => []ReadyImageSound`, under the same `Latency # "any"`: an
  answer that comes after the time-out is taken for the answer to the next request, which
  is a hazard of the code and not an artefact. The strengthening, `SoundInv`, holds as long
  as nothing has disturbed the bring-up: what is on the wire is the answer to the request
  of the present stage (`AnswersFit`, `TrafficSound`), and the ranges of the stages that
  are behind hold values (`ImageFits`).
- `LinkIsALifecycle`: `Spec => LifecycleKept`, the safety half of the refinement of
  `LinkLifecycle`: initial states map to initial states and every action to a step or a
  stutter. The abstract link may be lost (`Lose`), and its data withdrawn after that, only once the
  clock has slipped (`ClockSlips`). It needs `LinkTimes`, so that the connected task fails in no
  other way, and `Rounds`: `ready` goes with the link, and `retriesCounter` stays within the two tries, is 0 before the first poll and positive
  where an answer is waited for.

### Reception (`UartRx_proofs`, `UartRx_count_proofs`)

- `TypeCorrect`: `Spec => []TypeOK`, inductive as it stands: no index leaves the cache.
- `HalfDuplexIsExact`: `Spec => []CalmIsExact`. `CalmInv` says where the last frame is:
  taken, or on the line, in an event, in the event task or in the cache, and then its
  length is announced exactly once.
- `HalfDuplexInOrder`: `Spec => FramesInOrder`, the refinement of `FrameChannel`, which
  allows pauses, overflows and an event task that is held up any number of times.
  `FlightInv` follows the last frame: the event task has read nothing of it (`Untouched`),
  all of it (`Passed`), its beginning while the cache is still the old one (`CutOff`), or a
  piece is cached (`InPieces`). In the first three there is at most one length to read
  under (`Single`); in the last nothing can be taken from what is cached, as no piece but
  the first begins a frame and the first does not end it. `Ordered` adds that the cache
  holds bytes of one frame, the buffer of this or earlier ones, and that none is older
  than what was taken last.
- `NeverTooMany`: `Spec => []NoneTooMany`, on any line, half duplex or not, unless the event task was
  held up; on a half-duplex line, where it may be, `FlightInv` contains it. `PromptInv` counts what
  was taken against the line, whose bytes are those of frames in their order (`InOrder`): as long as
  bytes of frame i are on it, fewer than i frames were taken. An event that is replaced in the cache
  while it is read breaks the count for a moment, since its length takes a frame of the next event,
  which the next length takes again; but then it holds no whole frame itself, only the end of one that
  nobody takes any more and that pays for it (`Hopeless`, `Counted`).

### Firmware (`UnitFirmware_proofs`, `DongleUpdate_proofs`)

- `TypeCorrect`, `DongleTypeCorrect`: `TypeOK`. `Pointer` stays within `Buffer_Test` because
  it follows `Load_Counter` (`PointerFits`), whatever download was broken off.
- `BoardGetsTheFile`, `DongleSendsTheFile`: `SentIsFile`. While nothing has clashed, a
  transfer and an update exclude each other (`Excluded`), so that the handle's place is the
  number of blocks sent (`Transfer`).
- `TransferNeverStuck`, `DongleTransferNeverStuck`: `TransferGoesOn`, the safety core of
  `TransferEnds`: with `Transfer`, each step of the board or of the Unit task leaves a block to send,
  the handle open and an acknowledgement in hand or owed, until the last block changes the stage. A lost acknowledgement is one that is owed: `TransferEnds` names it as
  an exception.
- `OnlyOverlapsClash`, `DongleOnlyOverlapsClash`: `ApartUnlessOverlap`, for any number of updates, creators
  and restarts. `Apart` says, while no two tests have overlapped, that at most one task stands
  between its test and its flag, then no flag is set and nobody is at work, and that the flags that are set are
  those of the one that is at work. The hypothesis is a property of the schedule, not of the outcome:
  whoever wants to close finding 2 has to make test and setting one step, and needs nothing else.
- `StoresOneImage`, `StoresWhatIsServed`, `KeepsWhatIsServed`: `FileIsOneImage`,
  `StoredIsServed` and `NoUpdateNeeded`, of the whole (`DongleSpec`), for any number of updates in a
  boot. `StoreInv` says for the one task that runs (`Excluded`) what counters, buffer and file hold
  at each point of its download (`Tasks`, `Files`): `Data_Counter` is at least
  `Load_Counter`, and the file that is begun has the chunks that came unless `marred` records
  that the two counts differed.

`FirmwareAssumption` says of the special values `Zero` and `Junk` that they are no chunks of an
image, `OfferAssumption` that `MaxOffers` is a number.

### Wi-Fi (`WifiSetup_proofs`) and cloud (`MqttSession_proofs`)

- `TypeCorrect`, `FlagIsTrue`, `AttemptsStartClean`, `LastRequestWins`: `TypeOK`, `FlagTruth`,
  `ConnectFindsNoGroup` and `LastRequestTaken`, from one invariant: a manager about
  to connect has no event group, a station that runs has one, but for the moment in which
  `wifi_disconnect` deleted the group and has not stopped the station yet, and a handler runs only
  while the station does (`StationFits`); the
  events posted are those that lead to the station's state (`EventsFit`); only a manager at
  rest has used up its attempts (`AttemptsFit`); and the newest request is the last of the
  queue or, when that is empty, the one taken (`Newest`).
- `CalmEntryIsStored`: `Spec => []CalmIsStored`. Of an entry that nothing disturbs `EntryFits` says
  that the globals hold what was written, and that before it is requested nobody else is at work;
  `Underway`, that from then on every request queued or taken asks for what the globals hold, and
  that it is in NVS wherever the station may run: so the second request is skipped only after the
  first was stored.
- `WaitingIsTimed`: `Spec => []WaitIsTimed`, inductive as it stands: the safety core of
  `SessionEnds`.
- `TypeCorrect`: `TypeOK` of the session. That the broker never owes more SUBACKs than its
  bound needs a count of the subscriptions client tasks and Unit task have still to make
  (`Due`), which every subscription lowers.
- `ReadyMeansHeard`: `Spec => []ReadyIsHeard`. Of a lone client `AcksAreHonest` says that a
  SUBACK counted or on its way belongs to the present connection, and that while a topic is
  missing somebody is about to subscribe it; `LostIsForgotten` says that once the event of a lost
  connection was handled the flag and the counter are set back.

### Checked only by TLC

The liveness properties (`LifecycleGoesOn`, `LinkComesUp`, `ImageFollowsUnit`, `IndexDrains`,
`QuietWriteDelivered`, `TransferEnds`, `ChecksSettle`, `StaysOnline`, `SessionEnds`,
`StoredWhenCalm`, `CloudComesUp`, `RequestIsAnswered`, `CalmIsTaken`): fairness and `ENABLED`
are out of the prover's reach. Of three the safety core is proved (`TransferGoesOn`,
`WaitIsTimed`, `CalmIsStored`), and every invariant of a passing run is a
theorem, with the hypotheses named above. `OneClient` is a hypothesis about the environment, and
the code can leave it; what it does then is told under Findings and
is not the subject of a theorem.

## Plan

1. (done) `UnitComm`, `UnitFirmware`, `WifiSetup` with their runs; first theorems.
2. (done) `UartRx` and `FrameChannel`; `MqttSession`; `LinkLifecycle` and its
   refinement, checked and proved; `DongleUpdate`.
3. (done) Theorems: type correctness of every module, every invariant of a passing run, the
   refinements of `LinkLifecycle` and `FrameChannel`; that finding 2 has no other cause than
   tests that overlap.
4. Prepared writes of the BLE server with the memcpy of the image in pieces; files that are torn
   inside a chunk.

## Not modelled

The assembly of prepared writes (one BLE client, one task: what a complete one leaves is
`AppCopies` of `UnitComm`; one that is cut off is in the hazards); the parsing of
polling and debug measurements, which only displays read; initialisation (one order,
once); LED and GPIO levels; BLE advertising and pairing; the JSON of telemetry; the
generated `build/`; and the libraries below ESP-IDF's interfaces.
