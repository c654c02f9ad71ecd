------------------------------ MODULE WifiSetup ------------------------------
(***************************************************************************)
(* How the dongle gets on a Wi-Fi network: provisioning over BLE (ble.c),  *)
(* the queue of requests and the Wi-Fi manager mqtt_task (mqtt_app.c), the *)
(* station with its two event handlers (wifi_connect.c) and the stored     *)
(* credentials (main.c).  Four contexts run beside each other: the BLE     *)
(* stack's callbacks, the timer task, the manager and the event task.      *)
(*                                                                         *)
(* Credentials are a pair of texts; a text is the sequence of the chunks   *)
(* an app wrote.  The app, the access point and the Wi-Fi driver are the   *)
(* environment.                                                            *)
(***************************************************************************)
EXTENDS Naturals, Sequences

CONSTANTS
  Chunks,         \* texts that one BLE write may bring
  MaxChunks,      \* chunks that fit in MAX_SSID_LENGTH and MAX_PASSWORD_LENGTH
  Default,        \* the compiled-in credentials
  Accepted,       \* credentials the access point accepts
  QueueLen,       \* WIFI_REQ_QUEUE_LEN (8 in the code)
  MaxRetry,       \* WIFI_MAX_RETRY (3 in the code)
  MaxWrites, MaxLinks,   \* bounds on the app: writes, connections
  Reports,        \* what the Unit task reports: one or both of the two statuses
  EarlyClient,    \* may a client connect before the boot request is done with?
  MaxTrouble      \* bound on faults, power cuts and what else disturbs

Fields == {"ssid", "password"}
Other  == [ssid |-> "password", password |-> "ssid"]
Texts  == {<<>>} \cup UNION {[1 .. n -> Chunks] : n \in 1 .. MaxChunks}
Credentials == [Fields -> Texts \cup {Default[k] : k \in Fields}]
NoText == [k \in Fields |-> <<>>]
Nothing == [creds |-> NoText, persist |-> FALSE, id |-> 0]

ASSUME SetupAssumption ==
  /\ Default \in [Fields -> Seq(STRING)] /\ Default["ssid"] # <<>>
  /\ Accepted \subseteq Credentials
  /\ MaxChunks \in Nat \ {0} /\ QueueLen \in Nat \ {0} /\ MaxRetry \in Nat \ {0}
  /\ MaxWrites \in Nat /\ MaxLinks \in Nat /\ MaxTrouble \in Nat
  /\ EarlyClient \in BOOLEAN /\ Reports \subseteq {"RUNTIME_READY", "BOOTING"}

Waiting  == {"WAIT_SSID", "WAIT_PASSWORD", "READY"}
Statuses == Waiting \cup {"APPLYING", "DONE", "ERROR", "RUNTIME_READY", "BOOTING"}

VARIABLES
  linked,       \* a BLE client is connected
  packet,       \* ssid_packet and password_packet
  status,       \* s_prov_state
  timer,        \* s_prov_timer: "on", "off", or "cut", see StopsTimer
  callback,     \* ble_prov_timeout_callback has reset the packets
  stopping,     \* tasks that have set a status and not yet stopped the timer
  handler,      \* the write handle_write_event is in the middle of
  wifi,         \* the globals WIFI_SSID and WIFI_PASSWORD
  nvs,          \* the keys wifi_ssid and wifi_pass, Default when absent
  queue, counter,  \* s_wifi_req_queue, s_wifi_request_counter
  mgr, latest, retry,  \* mqtt_task: next step, request taken, attempts failed
  group, bit,   \* s_connect_event_group exists; its GOT_IPV4_BIT
  flag,         \* Wifi_Connected_Flag
  station, config, events,  \* the driver: state, credentials, events not handled
  handling,     \* the next step of on_got_ip, if the event task is in it
  apUp, spent,  \* the access point is on; what the environment has used up
  told, calm    \* history: see below

(* told: the credentials the last DONE was about, NoText before the first   *)
(* and again from the next write of a part on.                              *)
(* calm: at each write of the session the manager was idle, with nothing    *)
(* queued and the station off, and no store has failed since.               *)

bleVars     == <<linked, packet, status, timer, callback, stopping, handler>>
managerVars == <<mgr, latest, retry>>
stationVars == <<group, bit, flag, station, config, events, handling>>
history     == <<told, calm>>
vars == <<bleVars, wifi, nvs, queue, counter, managerVars, stationVars, apUp, spent, history>>

Init ==
  /\ linked = FALSE /\ packet = NoText /\ status = "BOOTING" /\ timer = "off"
  /\ callback = FALSE /\ stopping = {} /\ handler = "none"
  /\ nvs = Default /\ wifi = Default
  /\ queue = <<>> /\ counter = 0
  /\ mgr = "boot" /\ latest = Nothing /\ retry = 0
  /\ group = FALSE /\ bit = FALSE /\ flag = FALSE
  /\ station = "off" /\ config = NoText /\ events = <<>> /\ handling = "none"
  /\ apUp \in BOOLEAN
  /\ spent = [k \in {"write", "link", "trouble"} |-> 0]
  /\ told = NoText /\ calm = FALSE

Bounded(kind, max) == spent[kind] < max /\ spent' = [spent EXCEPT ![kind] = @ + 1]
Trouble == Bounded("trouble", MaxTrouble)

-----------------------------------------------------------------------------
(* mqtt_enqueue_wifi_credentials                                            *)

\* Faulty variants: a full queue refuses the new request; or grows.
PushRefusing(r)  == queue' = IF Len(queue) < QueueLen THEN Append(queue, r) ELSE queue
PushUnbounded(r) == queue' = Append(queue, r)

\* A full queue drops its oldest request.
Push(r) ==
  queue' = Append(IF Len(queue) < QueueLen THEN queue ELSE Tail(queue), r)

Rejected == wifi["ssid"] = <<>>
Enqueue(persist) ==
  IF Rejected THEN UNCHANGED <<queue, counter>>
  ELSE /\ counter' = counter + 1
       /\ Push([creds |-> wifi, persist |-> persist, id |-> counter + 1])

-----------------------------------------------------------------------------
(* BLE: the client, the writes of FF05, FF06 and FF07, the time-out         *)

TaskFrame == UNCHANGED <<nvs, managerVars, stationVars, apUp>>
BleFrame  == TaskFrame /\ UNCHANGED stopping

\* ble_set_prov_status, where timer operations take effect in their order.
SetStatus(s) == status' = s /\ timer' = IF s \in Waiting THEN "on" ELSE "off"

\* Another task that calls it may be held up before it tests the status, or
\* between test and stop, while the BLE stack sets a status and starts the timer.
HeldUp(t, s) == t \notin stopping /\ status' = s /\ stopping' = stopping \cup {t} /\ UNCHANGED timer
StopsTimer(t) ==
  /\ t \in stopping /\ stopping' = stopping \ {t}
  /\ timer' \in IF status \in Waiting THEN {"on", "cut"} ELSE {"off"}
  /\ TaskFrame
  /\ UNCHANGED <<linked, packet, status, callback, handler, wifi, queue, counter, spent, history>>

ClientConnects ==
  /\ ~linked /\ handler = "none" /\ Bounded("link", MaxLinks)
  /\ EarlyClient \/ (mgr = "idle" /\ queue = <<>>)
  /\ linked' = TRUE /\ timer' = "on"
  /\ BleFrame /\ UNCHANGED <<packet, status, callback, handler, wifi, queue, counter, history>>

\* Faulty variant: the timer is stopped after the reset has started it.
ClientDisconnectsStopping ==
  /\ linked /\ handler = "none"
  /\ linked' = FALSE /\ packet' = NoText /\ status' = "WAIT_SSID" /\ timer' = "off"
  /\ BleFrame /\ UNCHANGED <<callback, handler, wifi, queue, counter, spent, history>>

ClientDisconnects ==
  /\ linked /\ handler = "none"
  /\ linked' = FALSE /\ packet' = NoText /\ SetStatus("WAIT_SSID")
  /\ BleFrame /\ UNCHANGED <<callback, handler, wifi, queue, counter, spent, history>>

Undisturbed == mgr = "idle" /\ queue = <<>> /\ station = "off"

\* A write of FF05 or FF06: ble_packet_append, whose length check begins
\* with the second chunk, and the copy into the global the manager also uses.
PartWritten(k, x) ==
  /\ linked /\ handler = "none" /\ Bounded("write", MaxWrites)
  /\ calm' = ((calm \/ packet = NoText) /\ Undisturbed) /\ told' = NoText
  /\ IF packet[k] # <<>> /\ Len(packet[k]) + 1 > MaxChunks
     THEN /\ packet' = [packet EXCEPT ![k] = <<>>] /\ SetStatus("ERROR")
          /\ UNCHANGED <<handler, wifi>>
     ELSE /\ packet' = [packet EXCEPT ![k] = Append(@, x)]
          /\ wifi' = [wifi EXCEPT ![k] = packet'[k]]
          /\ handler' = k /\ timer' = "on" /\ UNCHANGED status
  /\ BleFrame /\ UNCHANGED <<linked, callback, queue, counter>>

\* Faulty variant: only the request of FF07 is to be stored.
PartHandledUnstored(k) ==
  /\ handler = k /\ handler' = "none"
  /\ IF packet[Other[k]] # <<>>
     THEN SetStatus("READY") /\ Enqueue(FALSE)
     ELSE /\ SetStatus(IF k = "ssid" THEN "WAIT_PASSWORD" ELSE "WAIT_SSID")
          /\ UNCHANGED <<queue, counter>>
  /\ BleFrame /\ UNCHANGED <<linked, packet, callback, wifi, spent, history>>

\* With both parts there a request is queued at once ("ble-auto").
PartHandled(k) ==
  /\ handler = k /\ handler' = "none"
  /\ IF packet[Other[k]] # <<>>
     THEN SetStatus("READY") /\ Enqueue(TRUE)
     ELSE /\ SetStatus(IF k = "ssid" THEN "WAIT_PASSWORD" ELSE "WAIT_SSID")
          /\ UNCHANGED <<queue, counter>>
  /\ BleFrame /\ UNCHANGED <<linked, packet, callback, wifi, spent, history>>

\* A write of FF07 ...
CloudWritten ==
  /\ linked /\ handler = "none" /\ Bounded("write", MaxWrites)
  /\ IF \E k \in Fields : packet[k] = <<>>
     THEN SetStatus("ERROR") /\ UNCHANGED handler
     ELSE SetStatus("APPLYING") /\ handler' = "cloud"
  /\ BleFrame /\ UNCHANGED <<linked, packet, callback, wifi, queue, counter, history>>

\* ... queues the request once more; DONE says that it is queued.
CloudHandled ==
  /\ handler = "cloud" /\ handler' = "none"
  /\ Enqueue(TRUE)
  /\ IF Rejected THEN SetStatus("ERROR") /\ UNCHANGED <<packet, told>>
     ELSE SetStatus("DONE") /\ packet' = NoText /\ told' = packet
  /\ BleFrame /\ UNCHANGED <<linked, callback, wifi, spent, calm>>

\* Ninety seconds without a write: a one-shot timer.  Its callback runs in
\* the timer task and may meet the next write between its two steps.
Expire ==
  /\ timer = "on" /\ handler = "none" /\ ~callback /\ "timer" \notin stopping
  /\ timer' = "off" /\ callback' = TRUE /\ packet' = NoText
  /\ BleFrame /\ UNCHANGED <<linked, status, handler, wifi, queue, counter, spent, history>>
ExpiryReports ==
  /\ callback /\ callback' = FALSE
  /\ \/ SetStatus("ERROR") /\ UNCHANGED <<stopping, spent>>
     \/ HeldUp("timer", "ERROR") /\ Trouble
  /\ TaskFrame /\ UNCHANGED <<linked, packet, handler, wifi, queue, counter, history>>

\* ble_set_runtime_ready, called by the Unit task, takes the same status.
RuntimeReport ==
  /\ Trouble
  /\ \E s \in Reports :
       (SetStatus(s) /\ UNCHANGED stopping) \/ HeldUp("unit", s)
  /\ TaskFrame /\ UNCHANGED <<linked, packet, callback, handler, wifi, queue, counter, history>>

BleStack  == (\E k \in Fields : PartHandled(k)) \/ CloudHandled
TimerTask == Expire \/ ExpiryReports \/ StopsTimer("timer")
UnitTask  == RuntimeReport \/ StopsTimer("unit")
Client    == \/ ClientConnects \/ ClientDisconnects \/ CloudWritten
             \/ \E k \in Fields, x \in Chunks : PartWritten(k, x)

-----------------------------------------------------------------------------
(* The Wi-Fi manager                                                        *)

ManagerFrame == UNCHANGED <<bleVars, apUp, told>>

\* One second after its start mqtt_task queues what was read from NVS.
BootRequest ==
  /\ mgr = "boot" /\ mgr' = "idle" /\ Enqueue(FALSE)
  /\ ManagerFrame /\ UNCHANGED <<wifi, nvs, latest, retry, stationVars, spent, calm>>

\* The newest request is taken, the others are drained.
Take ==
  /\ mgr = "idle" /\ queue # <<>>
  /\ latest' = queue[Len(queue)] /\ queue' = <<>> /\ mgr' = "check" /\ retry' = 0
  /\ ManagerFrame /\ UNCHANGED <<wifi, nvs, counter, stationVars, spent, calm>>

\* Faulty variant: that the globals are what is asked for is enough.
CheckUnconnected ==
  /\ mgr = "check"
  /\ mgr' = IF wifi = latest.creds THEN "idle"
            ELSE IF latest.persist THEN "ssid" ELSE "globals"
  /\ ManagerFrame /\ UNCHANGED <<wifi, nvs, queue, counter, latest, retry, stationVars, spent, calm>>

\* apply_wifi_request: connected, and the globals are what is asked for?
Check ==
  /\ mgr = "check"
  /\ mgr' = IF flag /\ wifi = latest.creds THEN "idle"
            ELSE IF latest.persist THEN "ssid" ELSE "globals"
  /\ ManagerFrame /\ UNCHANGED <<wifi, nvs, queue, counter, latest, retry, stationVars, spent, calm>>

\* nvs_write_string, key by key; a failure ends the request.
Store(k, then) ==
  /\ mgr = k
  /\ \/ nvs' = [nvs EXCEPT ![k] = latest.creds[k]] /\ mgr' = then /\ UNCHANGED <<spent, calm>>
     \/ Trouble /\ mgr' = "idle" /\ calm' = FALSE /\ UNCHANGED nvs
  /\ ManagerFrame /\ UNCHANGED <<wifi, queue, counter, latest, retry, stationVars>>

TakeOver ==
  /\ mgr = "globals" /\ mgr' = "disconnect" /\ wifi' = latest.creds
  /\ ManagerFrame /\ UNCHANGED <<nvs, queue, counter, latest, retry, stationVars, spent, calm>>

\* wifi_disconnect, up to its call of stop.
Disconnect ==
  /\ mgr = "disconnect"
  /\ IF group THEN group' = FALSE /\ bit' = FALSE /\ mgr' = "stop"
     ELSE mgr' = "connect" /\ UNCHANGED <<group, bit>>
  /\ ManagerFrame
  /\ UNCHANGED <<wifi, nvs, queue, counter, latest, retry, flag, station, config, events, handling,
                 spent, calm>>

\* An attempt failed: try again after a pause, or give up.
Retries == retry' = retry + 1 /\ mgr' = IF retry + 1 < MaxRetry THEN "connect" ELSE "idle"

\* wifi_connect and its start: with the globals, as they are by now.
Connect ==
  /\ mgr = "connect"
  /\ IF group THEN Retries /\ UNCHANGED <<stationVars, spent>>
     ELSE \/ /\ group' = TRUE /\ bit' = FALSE
             /\ station' = "trying" /\ config' = wifi /\ mgr' = "wait"
             /\ UNCHANGED <<retry, flag, events, handling, spent>>
          \/ /\ Trouble /\ Retries
             /\ station' = "off" /\ flag' = FALSE /\ events' = <<>>
             /\ UNCHANGED <<group, bit, config, handling>>
  /\ ManagerFrame /\ UNCHANGED <<wifi, nvs, queue, counter, latest, calm>>

Answered ==
  /\ mgr = "wait" /\ bit /\ bit' = FALSE /\ mgr' = "idle"
  /\ ManagerFrame
  /\ UNCHANGED <<wifi, nvs, queue, counter, latest, retry, group, flag, station, config, events,
                 handling, spent, calm>>

\* Thirty seconds without an address.
TimedOut ==
  /\ mgr = "wait" /\ ~bit /\ flag' = FALSE /\ mgr' = "stop"
  /\ ManagerFrame
  /\ UNCHANGED <<wifi, nvs, queue, counter, latest, retry, group, bit, station, config, events,
                 handling, spent, calm>>

\* stop: the handlers are unregistered, which waits for one that runs;
\* events not handled yet find none.
StopStation ==
  /\ mgr = "stop" /\ handling = "none"
  /\ mgr' = "stopped" /\ station' = "off" /\ events' = <<>>
  /\ ManagerFrame
  /\ UNCHANGED <<wifi, nvs, queue, counter, latest, retry, group, bit, flag, config, handling,
                 spent, calm>>

\* Faulty variants: stop leaves the flag to its callers; the group that a
\* time-out leaves is not deleted.
StoppedKeepingFlag ==
  /\ mgr = "stopped"
  /\ IF group THEN group' = FALSE /\ bit' = FALSE /\ Retries /\ UNCHANGED flag
     ELSE mgr' = "connect" /\ flag' = FALSE /\ UNCHANGED <<group, bit, retry>>
  /\ ManagerFrame
  /\ UNCHANGED <<wifi, nvs, queue, counter, latest, station, config, events, handling,
                 spent, calm>>
StoppedKeepingGroup ==
  /\ mgr = "stopped" /\ flag' = FALSE
  /\ IF group THEN Retries ELSE mgr' = "connect" /\ UNCHANGED retry
  /\ ManagerFrame
  /\ UNCHANGED <<wifi, nvs, queue, counter, latest, group, bit, station, config, events,
                 handling, spent, calm>>

\* The end of stop, and of wifi_connect or wifi_disconnect that called it.
Stopped ==
  /\ mgr = "stopped" /\ flag' = FALSE
  /\ IF group THEN group' = FALSE /\ bit' = FALSE /\ Retries
     ELSE mgr' = "connect" /\ UNCHANGED <<group, bit, retry>>
  /\ ManagerFrame
  /\ UNCHANGED <<wifi, nvs, queue, counter, latest, station, config, events, handling,
                 spent, calm>>

Manager == \/ BootRequest \/ Take \/ Check \/ Store("ssid", "password")
           \/ Store("password", "globals") \/ TakeOver \/ Disconnect \/ Connect
           \/ Answered \/ TimedOut \/ StopStation \/ Stopped

-----------------------------------------------------------------------------
(* The driver's events and their handlers                                   *)

StationFrame == UNCHANGED <<bleVars, wifi, nvs, queue, counter, managerVars, config, history>>

GetsAddress ==
  /\ station = "trying" /\ apUp /\ config \in Accepted
  /\ station' = "online" /\ events' = Append(events, "got_ip")
  /\ StationFrame /\ UNCHANGED <<group, bit, flag, handling, apUp, spent>>

LosesLink ==
  /\ \/ station = "trying" /\ (~apUp \/ config \notin Accepted)
     \/ station = "online" /\ ~apUp
  /\ station' = "lost" /\ events' = Append(events, "disconnected")
  /\ StationFrame /\ UNCHANGED <<group, bit, flag, handling, apUp, spent>>

Handles(e) ==
  handling = "none" /\ events # <<>> /\ Head(events) = e /\ events' = Tail(events)

\* on_got_ip looks for the event group, ...
on_got_ip ==
  /\ Handles("got_ip") /\ handling' = IF group THEN "bits" ELSE "flag"
  /\ StationFrame /\ UNCHANGED <<group, bit, flag, station, apUp, spent>>

\* ... sets its bit, which comes to nothing, or to a crash, if the manager
\* has deleted the group meanwhile (a crash is a Restart), ...
SetsBits ==
  /\ handling = "bits" /\ handling' = "flag" /\ bit' = (bit \/ group)
  /\ StationFrame /\ UNCHANGED <<group, flag, station, events, apUp, spent>>

\* ... and sets the flag.
SetsFlag ==
  /\ handling = "flag" /\ handling' = "none" /\ flag' = TRUE
  /\ StationFrame /\ UNCHANGED <<group, bit, station, events, apUp, spent>>

\* Faulty variant: the station does not try again.
OnDisconnectOnly ==
  /\ Handles("disconnected") /\ flag' = FALSE
  /\ StationFrame /\ UNCHANGED <<group, bit, station, handling, apUp, spent>>

\* The station tries again; if esp_wifi_connect fails, nobody does.
on_wifi_disconnect ==
  /\ Handles("disconnected") /\ flag' = FALSE
  /\ \/ station' = "trying" /\ UNCHANGED spent
     \/ station' = "given_up" /\ Trouble
  /\ StationFrame /\ UNCHANGED <<group, bit, handling, apUp>>

Driver    == GetsAddress \/ LosesLink
EventTask == on_got_ip \/ SetsBits \/ SetsFlag \/ on_wifi_disconnect

\* Every drop counts; coming back does not.
AccessPointSwitched ==
  /\ apUp' = ~apUp /\ (IF apUp THEN Trouble ELSE UNCHANGED spent)
  /\ StationFrame /\ UNCHANGED <<group, bit, flag, station, events, handling>>

\* app_main reads the credentials that are stored.
Restart ==
  /\ Trouble
  /\ linked' = FALSE /\ packet' = NoText /\ status' = "BOOTING" /\ timer' = "off"
  /\ callback' = FALSE /\ stopping' = {} /\ handler' = "none"
  /\ wifi' = nvs /\ queue' = <<>> /\ counter' = 0
  /\ mgr' = "boot" /\ latest' = Nothing /\ retry' = 0
  /\ group' = FALSE /\ bit' = FALSE /\ flag' = FALSE
  /\ station' = "off" /\ config' = NoText /\ events' = <<>> /\ handling' = "none"
  /\ told' = NoText /\ calm' = FALSE
  /\ UNCHANGED <<nvs, apUp>>

Next == \/ Client \/ BleStack \/ TimerTask \/ UnitTask \/ Manager
        \/ Driver \/ EventTask \/ AccessPointSwitched \/ Restart

\* Every task runs on, the timer expires, the driver reports.
Fairness == /\ WF_vars(BleStack) /\ WF_vars(TimerTask) /\ WF_vars(StopsTimer("unit"))
            /\ WF_vars(Manager) /\ WF_vars(Driver) /\ WF_vars(EventTask)
Spec == Init /\ [][Next]_vars /\ Fairness
-----------------------------------------------------------------------------
(* Properties                                                               *)

\* Every variable keeps its range; the queue never holds more than it has
\* room for (mqtt_app.c:81).
TypeOK ==
  /\ linked \in BOOLEAN /\ packet \in [Fields -> Texts] /\ status \in Statuses
  /\ timer \in {"on", "off", "cut"} /\ callback \in BOOLEAN
  /\ stopping \subseteq {"timer", "unit"}
  /\ handler \in {"none", "cloud"} \cup Fields
  /\ wifi \in Credentials /\ nvs \in Credentials
  /\ Len(queue) <= QueueLen /\ counter \in Nat
  /\ \A i \in 1 .. Len(queue) : queue[i].creds \in Credentials /\ queue[i].id \in Nat
  /\ mgr \in {"boot", "idle", "check", "ssid", "password", "globals", "disconnect",
              "connect", "wait", "stop", "stopped"}
  /\ latest.creds \in Credentials /\ retry \in 0 .. MaxRetry
  /\ group \in BOOLEAN /\ bit \in BOOLEAN /\ flag \in BOOLEAN
  /\ station \in {"off", "trying", "online", "lost", "given_up"} /\ config \in Credentials
  /\ events \in Seq({"got_ip", "disconnected"}) /\ Len(events) <= 2
  /\ handling \in {"none", "bits", "flag"} /\ apUp \in BOOLEAN /\ told \in Credentials /\ calm \in BOOLEAN

\* Wifi_Connected_Flag is never left set with the station stopped, although
\* the handler may set it while a time-out tears the station down
\* (wifi_connect.c 115-121, 128-132, 256-280).
FlagTruth == flag /\ mgr # "stopped" => station # "off"

\* wifi_connect never finds an event group of an earlier attempt, which
\* would make every retry fail (wifi_connect.c 81-83, 114-121).
ConnectFindsNoGroup == mgr = "connect" => ~group

\* The queue may overflow and is drained, but the last request made is the
\* one the manager comes to rest on (mqtt_app.c 81-89, 343-347).
LastRequestTaken == mgr = "idle" /\ queue = <<>> => latest.id = counter

\* Such credentials are in NVS whenever the manager has come to rest after
\* DONE, although two requests bring them, the globals they are compared
\* with are written by both sides, and the second request may be skipped
\* (mqtt_app.c 262-294).
CalmIsStored == told # NoText /\ calm /\ mgr = "idle" /\ queue = <<>> => nvs = told

\* A started station that nobody reconfigures is online again as long as its
\* access point accepts it, unless its esp_wifi_connect has failed: nothing
\* repeats that call (wifi_connect.c 138-158).
StaysOnline ==
  (mgr = "idle" /\ station # "off" /\ config \in Accepted /\ apUp)
    ~> (flag \/ ~apUp \/ mgr # "idle" \/ station = "given_up")

\* A session that waits is timed: whatever the client, the Unit task's reports
\* and an earlier time-out have done to the status, the timer runs or its
\* callback is about to end the session (ble.c 131-170, 742-750).  One thing
\* takes its time-out away: another task that has found no status to wait in
\* and stops the timer only after the session has started it.
WaitIsTimed == status \in Waiting /\ timer # "cut" => timer = "on" \/ callback

\* No session hangs: one that waits for a part or for the commit ends, at
\* the latest by the time-out, unless that was cut (ble.c 131-170, 742-750).
SessionEnds == (status \in Waiting) ~> (status \notin Waiting \/ timer = "cut")

\* Credentials entered while nothing interferes are stored (ble.c 481-533,
\* mqtt_app.c 262-294).
StoredWhenCalm == (told # NoText /\ calm) ~> (nvs = told \/ ~calm)

\* What README.md says of status 5, "Provisioning complete", and of the two
\* characteristics, "Stored in NVS": credentials reported DONE are stored
\* once the manager has come to rest.
DoneIsStored == told # NoText /\ mgr = "idle" /\ queue = <<>> => nvs = told

\* What docs/BLE_WIFI_APP_INTEGRATION.md says of the time-out: after 90 s of
\* inactivity the temporary buffers are reset.
BuffersTimeOut == \A k \in Fields : (packet[k] # <<>>) ~> (packet[k] = <<>>)
=============================================================================
