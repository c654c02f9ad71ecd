-------------------------- MODULE WifiSetup_proofs --------------------------
(***************************************************************************)
(* Theorems about WifiSetup, for every value of its constants.             *)
(***************************************************************************)
EXTENDS WifiSetup, SequenceTheorems, TLAPS

Requests == [creds : Credentials, persist : BOOLEAN, id : Nat]

\* TypeOK looks into the queue, but does not say that it is a sequence.
Records ==
  /\ queue \in Seq(Requests) /\ latest \in Requests
  /\ spent \in [{"write", "link", "trouble"} -> Nat]

\* What the driver has reported and nobody has handled fits its state; a
\* stopped station has nothing to report.
EventsFit ==
  /\ station \in {"off", "trying", "given_up"} => events = <<>>
  /\ station = "online" => events \in {<<>>, <<"got_ip">>}
  /\ station = "lost" => events \in {<<"disconnected">>, <<"got_ip", "disconnected">>}

\* The station runs in a group of events, but for the moment in which
\* wifi_disconnect has deleted the group and not yet stopped the station; in
\* the one in which stop has not cleared the flag, the station is off.  A
\* station that is off has no handler running.
StationFits ==
  /\ mgr = "connect" => ~group
  /\ station # "off" => group \/ mgr = "stop"
  /\ mgr = "stopped" => station = "off"
  /\ flag /\ mgr # "stopped" => station # "off"
  /\ handling # "none" => station # "off"

\* Only a manager at rest has used up its attempts.
AttemptsFit == mgr # "idle" => retry < MaxRetry

\* The last request made is the last one queued, or with an empty queue the
\* one taken.
Newest ==
  IF queue = <<>> THEN latest.id = counter ELSE queue[Len(queue)].id = counter

IInv == TypeOK /\ Records /\ EventsFit /\ StationFits /\ AttemptsFit /\ Newest

-----------------------------------------------------------------------------
(* Lemmas about the data operators                                          *)

\* Texts and pairs of texts are what the globals and the store may hold.
LEMMA CredentialTypes ==
  /\ <<>> \in Texts
  /\ [Fields -> Texts] \subseteq Credentials
  /\ Default \in Credentials /\ NoText \in [Fields -> Texts]
  /\ Nothing \in Requests
<1>1. <<>> \in Texts
  BY DEF Texts
<1>2. [Fields -> Texts] \subseteq Credentials
  BY DEF Credentials
<1>3. Default \in Credentials
  BY SetupAssumption DEF Credentials
<1>4. NoText \in [Fields -> Texts]
  BY <1>1 DEF NoText
<1>5. Nothing \in Requests
  <2>1. NoText \in Credentials
    BY <1>2, <1>4
  <2> QED BY <2>1 DEF Nothing, Requests
<1> QED BY <1>1, <1>2, <1>3, <1>4, <1>5

\* ble_packet_append: a text that has room for another chunk stays a text.
LEMMA AppendedText ==
  ASSUME NEW t \in Texts, NEW x \in Chunks, t = <<>> \/ Len(t) + 1 <= MaxChunks
  PROVE  Append(t, x) \in Texts
<1>1. CASE t = <<>>
  <2>1. Append(t, x) = [i \in 1 .. 1 |-> x]
    BY <1>1
  <2>2. 1 \in 1 .. MaxChunks
    BY SetupAssumption
  <2> QED BY <2>1, <2>2 DEF Texts
<1>2. CASE t # <<>>
  <2>1. PICK n \in 1 .. MaxChunks : t \in [1 .. n -> Chunks]
    BY <1>2 DEF Texts
  <2>2. Len(t) = n /\ t \in Seq(Chunks)
    BY <2>1, SetupAssumption
  <2>3. n + 1 \in 1 .. MaxChunks
    BY <1>2, <2>1, <2>2, SetupAssumption
  <2>4. Append(t, x) \in Seq(Chunks) /\ Len(Append(t, x)) = n + 1
    BY <2>2
  <2>5. Append(t, x) \in [1 .. n + 1 -> Chunks]
    BY <2>4, LenProperties
  <2> QED BY <2>3, <2>5 DEF Texts
<1> QED BY <1>1, <1>2

\* The queue holds what was pushed last at its end and never outgrows its
\* room (mqtt_enqueue_wifi_credentials).
LEMMA PushKeepsNewest ==
  ASSUME NEW r \in Requests, queue \in Seq(Requests), Len(queue) <= QueueLen, Push(r)
  PROVE  /\ queue' \in Seq(Requests) /\ Len(queue') <= QueueLen
         /\ queue' # <<>> /\ queue'[Len(queue')] = r
<1> DEFINE kept == IF Len(queue) < QueueLen THEN queue ELSE Tail(queue)
<1>1. kept \in Seq(Requests) /\ Len(kept) < QueueLen
  BY SetupAssumption
<1>2. queue' = Append(kept, r)
  BY DEF Push
<1> HIDE DEF kept
<1> QED BY <1>1, <1>2, SetupAssumption

\* A request, also one that is refused, leaves the queue well-formed and the
\* newest request where the manager will find it.
LEMMA EnqueueKeepsNewest ==
  ASSUME IInv, NEW persist \in BOOLEAN, Enqueue(persist), UNCHANGED latest
  PROVE  /\ queue' \in Seq(Requests) /\ Len(queue') <= QueueLen
         /\ counter' \in Nat /\ Newest'
<1>1. [creds |-> wifi, persist |-> persist, id |-> counter + 1] \in Requests
  BY DEF IInv, TypeOK, Requests
<1>2. CASE Rejected
  BY <1>2 DEF Enqueue, IInv, TypeOK, Records, Newest
<1>3. CASE ~Rejected
  BY <1>1, <1>3, PushKeepsNewest DEF Enqueue, IInv, TypeOK, Records, Newest
<1> QED BY <1>2, <1>3

\* Each entry of a queue of requests is a request.
LEMMA QueueEntries ==
  ASSUME NEW q \in Seq(Requests)
  PROVE  /\ \A i \in 1 .. Len(q) : q[i] \in Requests
         /\ \A i \in 1 .. Len(q) : q[i].creds \in Credentials /\ q[i].id \in Nat
         /\ q # <<>> => Len(q) \in 1 .. Len(q)
<1>1. \A i \in 1 .. Len(q) : q[i] \in Requests
  OBVIOUS
<1> QED BY <1>1 DEF Requests

-----------------------------------------------------------------------------
(* The inductive invariant                                                  *)

LEMMA IInvInit == Init => IInv
<1> SUFFICES ASSUME Init PROVE IInv
  OBVIOUS
<1>1. /\ NoText \in Credentials /\ Default \in Credentials
      /\ packet \in [Fields -> Texts] /\ latest.creds \in Credentials
  BY CredentialTypes DEF Init, Nothing
<1>2. /\ Len(queue) = 0 /\ Len(queue) <= QueueLen /\ retry \in 0 .. MaxRetry
      /\ \A i \in 1 .. Len(queue) : queue[i].creds \in Credentials /\ queue[i].id \in Nat
      /\ events \in Seq({"got_ip", "disconnected"}) /\ Len(events) <= 2
  BY SetupAssumption DEF Init
<1>3. TypeOK
  BY <1>1, <1>2 DEF Init, TypeOK, Statuses
<1>4. Records
  BY CredentialTypes DEF Init, Records
<1> QED BY <1>3, <1>4, SetupAssumption DEF IInv, Init, EventsFit, StationFits, Newest, Nothing, AttemptsFit

\* The app, the BLE stack, the timer task and the Unit task only queue
\* requests: what the manager and the driver keep fits as before.
LEMMA BleStep ==
  ASSUME IInv, Client \/ BleStack \/ TimerTask \/ UnitTask
  PROVE  IInv'
<1> USE DEF BleFrame, TaskFrame, managerVars, stationVars, history
<1>1. UNCHANGED <<managerVars, stationVars, nvs, apUp>>
  BY DEF Client, ClientConnects, ClientDisconnects, CloudWritten, PartWritten, BleStack,
         PartHandled, CloudHandled, TimerTask, Expire, ExpiryReports, UnitTask, RuntimeReport, StopsTimer
<1>2. EventsFit' /\ StationFits' /\ AttemptsFit'
  BY <1>1 DEF IInv, EventsFit, StationFits, AttemptsFit
<1> DEFINE Timers == {"on", "off", "cut"}
           Kept ==
               /\ linked' \in BOOLEAN /\ packet' \in [Fields -> Texts]
               /\ status' \in Statuses /\ timer' \in Timers /\ callback' \in BOOLEAN
               /\ stopping' \subseteq {"timer", "unit"}
               /\ handler' \in {"none", "cloud"} \cup Fields
               /\ wifi' \in Credentials /\ told' \in Credentials /\ calm' \in BOOLEAN
               /\ spent' \in [{"write", "link", "trouble"} -> Nat]
               /\ queue' \in Seq(Requests) /\ Len(queue') <= QueueLen
               /\ counter' \in Nat /\ Newest'
<1>3. Kept => IInv'
  <2> SUFFICES ASSUME Kept PROVE IInv'
    OBVIOUS
  <2>1. \A i \in 1 .. Len(queue') : queue'[i].creds \in Credentials /\ queue'[i].id \in Nat
    BY QueueEntries
  <2> QED BY <1>1, <1>2, <2>1 DEF IInv, TypeOK, Records
<1>4. UNCHANGED <<queue, counter>> => /\ queue' \in Seq(Requests) /\ Len(queue') <= QueueLen
                                     /\ counter' \in Nat /\ Newest'
  BY <1>1 DEF IInv, TypeOK, Records, Newest
<1>5. \A s \in Statuses : SetStatus(s) => status' \in Statuses /\ timer' \in Timers
  BY DEF SetStatus
<1>6. \A kind \in {"write", "link", "trouble"} : \A max :
        Bounded(kind, max) => spent' \in [{"write", "link", "trouble"} -> Nat]
  BY DEF Bounded, IInv, Records
<1>7. {"READY", "WAIT_PASSWORD", "WAIT_SSID", "ERROR", "APPLYING", "DONE", "RUNTIME_READY",
       "BOOTING"} \subseteq Statuses
  BY DEF Statuses, Waiting
<1> USE DEF IInv, TypeOK, Records
<1>10. ASSUME ClientConnects PROVE Kept
  BY <1>4, <1>6, <1>10 DEF ClientConnects
<1>11. ASSUME ClientDisconnects PROVE Kept
  BY <1>4, <1>5, <1>7, <1>11, CredentialTypes DEF ClientDisconnects
<1>12. ASSUME CloudWritten PROVE Kept
  BY <1>4, <1>5, <1>6, <1>7, <1>12 DEF CloudWritten
<1>13. ASSUME NEW k \in Fields, NEW x \in Chunks, PartWritten(k, x)
       PROVE  Kept
  <2>1. packet' \in [Fields -> Texts] /\ wifi' \in Credentials
    <3>1. CASE packet[k] # <<>> /\ Len(packet[k]) + 1 > MaxChunks
      BY <1>13, <3>1, CredentialTypes DEF PartWritten
    <3>2. CASE ~(packet[k] # <<>> /\ Len(packet[k]) + 1 > MaxChunks)
      <4>1. packet[k] = <<>> \/ Len(packet[k]) + 1 <= MaxChunks
        <5>1. packet[k] # <<>> => Len(packet[k]) \in Nat
          BY DEF Texts
        <5> QED BY <3>2, <5>1, SetupAssumption
      <4>2. Append(packet[k], x) \in Texts
        BY <1>13, <4>1, AppendedText
      <4>3. packet' = [packet EXCEPT ![k] = Append(packet[k], x)]
        BY <1>13, <3>2 DEF PartWritten
      <4>4. packet' \in [Fields -> Texts] /\ packet'[k] \in Texts
        BY <4>2, <4>3
      <4>5. wifi' = [wifi EXCEPT ![k] = packet'[k]]
        BY <1>13, <3>2 DEF PartWritten
      <4> QED BY <4>4, <4>5 DEF Credentials
    <3> QED BY <3>1, <3>2
  <2>2. /\ status' \in Statuses /\ timer' \in Timers
        /\ handler' \in {"none", "cloud"} \cup Fields
    BY <1>5, <1>7, <1>13 DEF PartWritten
  <2>3. spent' \in [{"write", "link", "trouble"} -> Nat]
    BY <1>6, <1>13 DEF PartWritten
  <2>4. calm' \in BOOLEAN /\ told' = NoText /\ UNCHANGED <<linked, callback, stopping, queue, counter>>
    BY <1>13 DEF PartWritten
  <2>5. linked' \in BOOLEAN /\ callback' \in BOOLEAN /\ told' \in Credentials
    BY <2>4, CredentialTypes
  <2> QED BY <1>4, <2>1, <2>2, <2>3, <2>4, <2>5
<1>14. ASSUME NEW k \in Fields, PartHandled(k)
       PROVE  Kept
  <2>1. /\ queue' \in Seq(Requests) /\ Len(queue') <= QueueLen
        /\ counter' \in Nat /\ Newest'
    BY <1>1, <1>4, <1>14, EnqueueKeepsNewest DEF PartHandled
  <2>2. status' \in Statuses /\ timer' \in Timers
    BY <1>5, <1>7, <1>14 DEF PartHandled
  <2>3. /\ linked' = linked /\ packet' = packet /\ callback' = callback /\ handler' = "none"
        /\ stopping' = stopping /\ wifi' = wifi /\ told' = told /\ calm' = calm /\ spent' = spent
    BY <1>14 DEF PartHandled
  <2> HIDE DEF Newest
  <2> QED BY <2>1, <2>2, <2>3
<1>15. ASSUME CloudHandled PROVE Kept
  <2>1. /\ queue' \in Seq(Requests) /\ Len(queue') <= QueueLen
        /\ counter' \in Nat /\ Newest'
    BY <1>1, <1>15, EnqueueKeepsNewest DEF CloudHandled
  <2>2. status' \in Statuses /\ timer' \in Timers
    BY <1>5, <1>7, <1>15 DEF CloudHandled
  <2>3. packet' \in [Fields -> Texts] /\ told' \in Credentials
    BY <1>15, CredentialTypes DEF CloudHandled
  <2> QED BY <1>15, <2>1, <2>2, <2>3 DEF CloudHandled
<1>16. ASSUME Expire PROVE Kept
  BY <1>4, <1>16, CredentialTypes DEF Expire
<1>17. ASSUME ExpiryReports PROVE Kept
  <2>1. status' \in Statuses /\ timer' \in Timers /\ stopping' \subseteq {"timer", "unit"}
    BY <1>5, <1>7, <1>17 DEF ExpiryReports, HeldUp
  <2>2. spent' \in [{"write", "link", "trouble"} -> Nat]
    BY <1>6, <1>17 DEF ExpiryReports, Trouble
  <2> QED BY <1>4, <1>17, <2>1, <2>2 DEF ExpiryReports
<1>18. ASSUME RuntimeReport PROVE Kept
  <2>1. status' \in Statuses /\ timer' \in Timers /\ stopping' \subseteq {"timer", "unit"}
    <3>1. Reports \subseteq {"RUNTIME_READY", "BOOTING"}
      BY SetupAssumption
    <3> QED BY <1>5, <1>7, <1>18, <3>1 DEF RuntimeReport, HeldUp
  <2> QED BY <1>4, <1>6, <1>18, <2>1 DEF RuntimeReport, Trouble
<1>19. ASSUME NEW t \in {"timer", "unit"}, StopsTimer(t) PROVE Kept
  BY <1>4, <1>19 DEF StopsTimer
<1> QED
  BY <1>3, <1>10, <1>11, <1>12, <1>13, <1>14, <1>15, <1>16, <1>17, <1>18, <1>19
  DEF Client, BleStack, TimerTask, UnitTask

\* mqtt_task takes the requests one by one and tears down what a time-out has
\* left before it tries again.
LEMMA ManagerStep ==
  ASSUME IInv, Manager
  PROVE  IInv'
<1> USE DEF ManagerFrame, bleVars, stationVars
<1> DEFINE KeptTypes ==
      /\ wifi' \in Credentials /\ nvs' \in Credentials
      /\ mgr' \in {"boot", "idle", "check", "ssid", "password", "globals", "disconnect",
                   "connect", "wait", "stop", "stopped"}
      /\ retry' \in 0 .. MaxRetry
      /\ group' \in BOOLEAN /\ bit' \in BOOLEAN /\ flag' \in BOOLEAN
      /\ station' \in {"off", "trying", "online", "lost", "given_up"} /\ config' \in Credentials
      /\ events' \in Seq({"got_ip", "disconnected"}) /\ Len(events') <= 2
      /\ handling' \in {"none", "bits", "flag"}
      /\ calm' \in BOOLEAN
      /\ spent' \in [{"write", "link", "trouble"} -> Nat]
      /\ queue' \in Seq(Requests) /\ Len(queue') <= QueueLen /\ latest' \in Requests
      /\ counter' \in Nat
<1>1. ASSUME KeptTypes, EventsFit', StationFits', AttemptsFit', Newest', UNCHANGED <<bleVars, apUp, told>>
      PROVE  IInv'
  <2>1. \A i \in 1 .. Len(queue') : queue'[i].creds \in Credentials /\ queue'[i].id \in Nat
    BY <1>1, QueueEntries
  <2>2. latest'.creds \in Credentials
    BY <1>1 DEF Requests
  <2>3. Records'
    BY <1>1 DEF Records
  <2>4. TypeOK'
    BY <1>1, <2>1, <2>2 DEF IInv, TypeOK
  <2> QED BY <1>1, <2>3, <2>4 DEF IInv
<1>2. UNCHANGED <<bleVars, apUp, told>>
  BY DEF Manager, BootRequest, Take, Check, Store, TakeOver, Disconnect, Connect, Answered,
         TimedOut, StopStation, Stopped
<1>3. latest.creds \in Credentials /\ latest.creds \in [Fields -> Texts \cup {Default[k] : k \in Fields}]
  BY DEF IInv, Records, Requests, Credentials
<1>4. Trouble => spent' \in [{"write", "link", "trouble"} -> Nat]
  BY DEF Trouble, Bounded, IInv, Records
<1>5. Retries /\ mgr # "idle" => /\ retry' \in 0 .. MaxRetry /\ mgr' \in {"connect", "idle"}
                                /\ AttemptsFit'
  BY SetupAssumption DEF IInv, TypeOK, Retries, AttemptsFit
<1>6. UNCHANGED <<queue, counter, latest>> => Newest'
  BY DEF IInv, Newest
<1> USE DEF IInv, TypeOK, Records
<1>10. CASE BootRequest
  <2>1. /\ queue' \in Seq(Requests) /\ Len(queue') <= QueueLen
        /\ counter' \in Nat /\ Newest'
    BY <1>10, EnqueueKeepsNewest DEF BootRequest
  <2>2. EventsFit' /\ StationFits' /\ AttemptsFit'
    BY <1>10 DEF BootRequest, EventsFit, StationFits, AttemptsFit
  <2>3. KeptTypes
    BY <1>10, <2>1 DEF BootRequest
  <2> QED BY <1>1, <1>2, <2>1, <2>2, <2>3
<1>11. CASE Take
  <2>1. queue[Len(queue)] \in Requests
    BY <1>11, QueueEntries DEF Take
  <2>2. EventsFit' /\ StationFits' /\ AttemptsFit'
    BY <1>11, SetupAssumption DEF Take, EventsFit, StationFits, AttemptsFit
  <2>3. Newest' /\ Len(queue') = 0 /\ Len(queue') <= QueueLen /\ retry' \in 0 .. MaxRetry
    BY <1>11, SetupAssumption DEF Take, Newest
  <2>4. KeptTypes
    BY <1>11, <2>1, <2>3 DEF Take
  <2> QED BY <1>1, <1>2, <2>2, <2>3, <2>4
<1>12. CASE Check
  <2>1. EventsFit' /\ StationFits' /\ AttemptsFit'
    BY <1>12 DEF Check, EventsFit, StationFits, AttemptsFit
  <2>2. KeptTypes
    BY <1>12 DEF Check
  <2> QED BY <1>1, <1>2, <1>6, <1>12, <2>1, <2>2 DEF Check
<1>13. ASSUME NEW k \in Fields, NEW then \in {"password", "globals"}, Store(k, then)
       PROVE  IInv'
  <2>1. EventsFit' /\ StationFits' /\ AttemptsFit'
    BY <1>13 DEF Store, EventsFit, StationFits, AttemptsFit, Fields
  <2>2. nvs' \in Credentials
    BY <1>3, <1>13 DEF Store, Credentials
  <2>3. KeptTypes
    BY <1>4, <1>13, <2>2 DEF Store
  <2> QED BY <1>1, <1>2, <1>6, <1>13, <2>1, <2>3 DEF Store
<1>14. CASE TakeOver
  <2>1. EventsFit' /\ StationFits' /\ AttemptsFit'
    BY <1>14 DEF TakeOver, EventsFit, StationFits, AttemptsFit
  <2>2. KeptTypes
    BY <1>3, <1>14 DEF TakeOver
  <2> QED BY <1>1, <1>2, <1>6, <1>14, <2>1, <2>2 DEF TakeOver
<1>15. CASE Disconnect
  <2>1. EventsFit' /\ StationFits' /\ AttemptsFit'
    BY <1>15 DEF Disconnect, EventsFit, StationFits, AttemptsFit
  <2>2. KeptTypes
    BY <1>15 DEF Disconnect
  <2> QED BY <1>1, <1>2, <1>6, <1>15, <2>1, <2>2 DEF Disconnect
<1>16. CASE Connect
  <2>1. EventsFit' /\ StationFits'
    BY <1>16 DEF Connect, EventsFit, StationFits
  <2>2. AttemptsFit' /\ retry' \in 0 .. MaxRetry
    BY <1>5, <1>16 DEF Connect, AttemptsFit
  <2>3. /\ mgr' \in {"wait", "connect", "idle"} /\ group' \in BOOLEAN /\ bit' \in BOOLEAN
        /\ flag' \in BOOLEAN /\ station' \in {"off", "trying", "online", "lost", "given_up"}
        /\ config' \in Credentials /\ handling' \in {"none", "bits", "flag"}
    BY <1>5, <1>16 DEF Connect
  <2>4. /\ events' \in Seq({"got_ip", "disconnected"}) /\ Len(events') <= 2
    <3>1. events' = events \/ events' = <<>>
      BY <1>16 DEF Connect
    <3>2. /\ events \in Seq({"got_ip", "disconnected"}) /\ Len(events) <= 2
          /\ <<>> \in Seq({"got_ip", "disconnected"}) /\ Len(<<>>) <= 2
      OBVIOUS
    <3> QED BY <3>1, <3>2, Zenon
  <2>7. spent' \in [{"write", "link", "trouble"} -> Nat]
    BY <1>4, <1>16 DEF Connect
  <2>5. UNCHANGED <<wifi, nvs, queue, counter, latest, calm>>
    BY <1>16 DEF Connect
  <2>6. KeptTypes
    BY <2>2, <2>3, <2>4, <2>5, <2>7
  <2> QED BY <1>1, <1>2, <1>6, <1>16, <2>1, <2>2, <2>6 DEF Connect
<1>17. CASE Answered
  <2>1. EventsFit' /\ StationFits' /\ AttemptsFit'
    BY <1>17 DEF Answered, EventsFit, StationFits, AttemptsFit
  <2>2. KeptTypes
    BY <1>17 DEF Answered
  <2> QED BY <1>1, <1>2, <1>6, <1>17, <2>1, <2>2 DEF Answered
<1>18. CASE TimedOut
  <2>1. EventsFit' /\ StationFits' /\ AttemptsFit'
    BY <1>18 DEF TimedOut, EventsFit, StationFits, AttemptsFit
  <2>2. KeptTypes
    BY <1>18 DEF TimedOut
  <2> QED BY <1>1, <1>2, <1>6, <1>18, <2>1, <2>2 DEF TimedOut
<1>19. CASE StopStation
  <2>1. EventsFit' /\ StationFits' /\ AttemptsFit'
    BY <1>19 DEF StopStation, EventsFit, StationFits, AttemptsFit
  <2>2. KeptTypes
    BY <1>19 DEF StopStation
  <2> QED BY <1>1, <1>2, <1>6, <1>19, <2>1, <2>2 DEF StopStation
<1>20. CASE Stopped
  <2>1. EventsFit' /\ StationFits'
    BY <1>5, <1>20 DEF Stopped, EventsFit, StationFits
  <2>2. AttemptsFit' /\ retry' \in 0 .. MaxRetry
    BY <1>5, <1>20 DEF Stopped, AttemptsFit
  <2>3. KeptTypes
    BY <1>5, <1>20, <2>2 DEF Stopped
  <2> QED BY <1>1, <1>2, <1>6, <1>20, <2>1, <2>2, <2>3 DEF Stopped
<1> QED
  BY <1>10, <1>11, <1>12, <1>13, <1>14, <1>15, <1>16, <1>17, <1>18, <1>19, <1>20
  DEF Manager, Fields

\* The queues of events that occur, and how they grow and shrink.
LEMMA EventQueues ==
  /\ Append(<<>>, "got_ip") = <<"got_ip">>
  /\ Append(<<>>, "disconnected") = <<"disconnected">>
  /\ Append(<<"got_ip">>, "disconnected") = <<"got_ip", "disconnected">>
  /\ Head(<<"got_ip">>) = "got_ip" /\ Tail(<<"got_ip">>) = <<>>
  /\ Head(<<"disconnected">>) = "disconnected" /\ Tail(<<"disconnected">>) = <<>>
  /\ Head(<<"got_ip", "disconnected">>) = "got_ip"
  /\ Tail(<<"got_ip", "disconnected">>) = <<"disconnected">>
<1> DEFINE E == {"got_ip", "disconnected"}
<1> DEFINE s == Append(<<"got_ip">>, "disconnected")
<1> DEFINE t == <<"got_ip", "disconnected">>
<1>1. s \in Seq(E) /\ Len(s) = 2 /\ s[1] = "got_ip" /\ s[2] = "disconnected"
  OBVIOUS
<1>2. t \in Seq(E) /\ Len(t) = 2 /\ t[1] = "got_ip" /\ t[2] = "disconnected"
  OBVIOUS
<1>3. s = t
  <2> HIDE DEF s, t, E
  <2>1. \A i \in 1 .. Len(s) : s[i] = t[i]
    BY <1>1, <1>2
  <2> QED BY <1>1, <1>2, <2>1, SeqEqual
<1>4. /\ Append(<<>>, "got_ip") = <<"got_ip">>
      /\ Append(<<>>, "disconnected") = <<"disconnected">>
      /\ Head(<<"got_ip">>) = "got_ip" /\ Tail(<<"got_ip">>) = <<>>
      /\ Head(<<"disconnected">>) = "disconnected" /\ Tail(<<"disconnected">>) = <<>>
      /\ Head(t) = "got_ip" /\ Tail(t) = <<"disconnected">>
  OBVIOUS
<1> QED BY <1>3, <1>4

\* The driver, the two event handlers and the access point.
LEMMA StationStep ==
  ASSUME IInv, Driver \/ EventTask \/ AccessPointSwitched
  PROVE  IInv'
<1> USE DEF StationFrame, bleVars, managerVars, history
<1>1. UNCHANGED <<bleVars, wifi, nvs, queue, counter, managerVars, config, history, group>>
  BY DEF Driver, GetsAddress, LosesLink, EventTask, on_got_ip, SetsBits, SetsFlag,
         on_wifi_disconnect, AccessPointSwitched
<1> DEFINE Kept ==
      /\ bit' \in BOOLEAN /\ flag' \in BOOLEAN /\ apUp' \in BOOLEAN
      /\ spent' \in [{"write", "link", "trouble"} -> Nat]
      /\ station' \in {"off", "trying", "online", "lost", "given_up"}
      /\ handling' \in {"none", "bits", "flag"}
      /\ EventsFit' /\ (flag' => station' # "off" \/ flag)
      /\ (handling' # "none" => station' # "off")
      /\ (station' = "off" <=> station = "off")
<1>2. Kept
  <2> USE DEF IInv, TypeOK, Records, EventsFit, StationFits
  <2>1. CASE GetsAddress
    BY <2>1, EventQueues DEF GetsAddress
  <2>2. CASE LosesLink
    BY <2>2, EventQueues DEF LosesLink
  <2>3. CASE on_got_ip
    BY <2>3, EventQueues DEF on_got_ip, Handles
  <2>6. CASE SetsBits
    <3>1. bit' \in BOOLEAN
      BY <2>6, Zenon DEF SetsBits
    <3> QED BY <2>6, <3>1 DEF SetsBits
  <2>7. CASE SetsFlag
    BY <2>7 DEF SetsFlag
  <2>4. CASE on_wifi_disconnect
    <3>1. spent' \in [{"write", "link", "trouble"} -> Nat]
      BY <2>4 DEF on_wifi_disconnect, Trouble, Bounded
    <3> QED BY <2>4, <3>1, EventQueues DEF on_wifi_disconnect, Handles
  <2>5. CASE AccessPointSwitched
    <3>1. apUp' \in BOOLEAN
      BY <2>5, Zenon DEF AccessPointSwitched
    <3> QED BY <2>5, <3>1 DEF AccessPointSwitched, Trouble, Bounded
  <2> QED BY <2>1, <2>2, <2>3, <2>4, <2>5, <2>6, <2>7 DEF Driver, EventTask
<1>3. events' \in Seq({"got_ip", "disconnected"}) /\ Len(events') <= 2
  <2> HIDE DEF Kept
  <2>1. /\ <<>> \in Seq({"got_ip", "disconnected"}) /\ Len(<<>>) <= 2
        /\ <<"got_ip">> \in Seq({"got_ip", "disconnected"}) /\ Len(<<"got_ip">>) <= 2
        /\ <<"disconnected">> \in Seq({"got_ip", "disconnected"}) /\ Len(<<"disconnected">>) <= 2
        /\ <<"got_ip", "disconnected">> \in Seq({"got_ip", "disconnected"})
        /\ Len(<<"got_ip", "disconnected">>) <= 2
    OBVIOUS
  <2>2. events' \in {<<>>, <<"got_ip">>, <<"disconnected">>, <<"got_ip", "disconnected">>}
    BY <1>2 DEF Kept, EventsFit
  <2> QED BY <2>1, <2>2, Zenon
<1>4. StationFits' /\ AttemptsFit' /\ Newest'
  BY <1>1, <1>2 DEF IInv, StationFits, AttemptsFit, Newest
<1>5. Records'
  BY <1>1, <1>2 DEF IInv, Records
<1>6. TypeOK'
  BY <1>1, <1>2, <1>3 DEF IInv, TypeOK
<1> QED BY <1>2, <1>4, <1>5, <1>6 DEF IInv

\* A restart keeps the stored credentials only.
LEMMA RestartStep ==
  ASSUME IInv, Restart
  PROVE  IInv'
<1>1. spent' \in [{"write", "link", "trouble"} -> Nat]
  BY DEF Restart, Trouble, Bounded, IInv, Records
<1>2. /\ NoText \in Credentials /\ packet' \in [Fields -> Texts]
      /\ latest' \in Requests /\ latest'.creds \in Credentials
  BY CredentialTypes DEF Restart, Nothing
<1>3. /\ Len(queue') = 0 /\ Len(queue') <= QueueLen /\ retry' \in 0 .. MaxRetry
      /\ \A i \in 1 .. Len(queue') : queue'[i].creds \in Credentials /\ queue'[i].id \in Nat
      /\ events' \in Seq({"got_ip", "disconnected"}) /\ Len(events') <= 2
  BY SetupAssumption DEF Restart
<1>4. TypeOK'
  BY <1>2, <1>3 DEF Restart, IInv, TypeOK, Statuses
<1>5. Records'
  BY <1>1, <1>2 DEF Restart, Records
<1>6. EventsFit' /\ StationFits' /\ AttemptsFit' /\ Newest'
  BY SetupAssumption DEF Restart, EventsFit, StationFits, AttemptsFit, Newest, Nothing
<1> QED BY <1>4, <1>5, <1>6 DEF IInv

\* What the tasks keep between them, whatever the app, the access point, the
\* driver and the power do.
LEMMA Invariance == Spec => []IInv
<1>1. IInv /\ [Next]_vars => IInv'
  <2> SUFFICES ASSUME IInv, [Next]_vars PROVE IInv'
    OBVIOUS
  <2>1. CASE UNCHANGED vars
    BY <2>1 DEF vars, bleVars, managerVars, stationVars, history, IInv, TypeOK, Records,
                EventsFit, StationFits, AttemptsFit, Newest
  <2> QED BY <2>1, BleStep, ManagerStep, StationStep, RestartStep DEF Next
<1> QED BY <1>1, IInvInit, PTL DEF Spec

-----------------------------------------------------------------------------
(* The theorems                                                             *)

\* Every variable keeps its range, and the queue its room.
THEOREM TypeCorrect == Spec => []TypeOK
<1>1. IInv => TypeOK
  BY DEF IInv
<1> QED BY <1>1, Invariance, PTL

\* Wifi_Connected_Flag is not left set with the station stopped: an event
\* that could set it is gone when the station is stopped, and stop clears it.
THEOREM FlagIsTrue == Spec => []FlagTruth
<1>1. IInv => FlagTruth
  BY DEF IInv, StationFits, FlagTruth
<1> QED BY <1>1, Invariance, PTL

\* wifi_connect never finds the event group of an earlier attempt.
THEOREM AttemptsStartClean == Spec => []ConnectFindsNoGroup
<1>1. IInv => ConnectFindsNoGroup
  BY DEF IInv, StationFits, ConnectFindsNoGroup
<1> QED BY <1>1, Invariance, PTL

\* The manager comes to rest on the last request made, whatever the queue
\* has dropped or the manager drained.
THEOREM LastRequestWins == Spec => []LastRequestTaken
<1>1. IInv => LastRequestTaken
  BY DEF IInv, Newest, LastRequestTaken
<1> QED BY <1>1, Invariance, PTL
-----------------------------------------------------------------------------
(* Credentials whose entry nothing disturbs                                 *)

\* Both parts are there; a session has requested what it entered.
Whole     == \A k \in Fields : packet[k] # <<>>
Requested == told # NoText \/ (Whole /\ handler \notin Fields)

HandlerFits ==
  /\ handler = "cloud" => Whole
  /\ handler \in Fields => packet[handler] # <<>>

\* The globals hold what the session has entered; before it requests it,
\* nobody else is at work.
EntryFits ==
  /\ \A k \in Fields : packet[k] # <<>> => wifi[k] = packet[k]
  /\ told # NoText => wifi = told
  /\ packet # NoText /\ ~Requested => Undisturbed

\* Every request queued or being applied asks for what the globals hold, and
\* the station runs only with what is stored.
Asks == [creds : {wifi}, persist : {TRUE}, id : Nat]
StoredAlready ==
  \/ mgr \in {"globals", "disconnect", "connect", "wait", "stop", "stopped"}
  \/ mgr = "idle" /\ queue = <<>>
  \/ station # "off" \/ flag
Underway ==
  /\ mgr # "boot" /\ queue \in Seq(Asks)
  /\ mgr # "idle" => latest \in Asks
  /\ mgr = "password" => nvs["ssid"] = wifi["ssid"]
  /\ StoredAlready => nvs = wifi

CalmInv == HandlerFits /\ (calm => EntryFits /\ (Requested => Underway))

\* The write that follows the first part, or the commit, queues a request for
\* what the globals hold.
LEMMA AskedOnceMore ==
  ASSUME IInv, Enqueue(TRUE), wifi["ssid"] # <<>>, Underway \/ Undisturbed,
         UNCHANGED <<wifi, nvs, mgr, latest, station, flag>>
  PROVE  Underway'
<1>1. Asks' = Asks
  BY DEF Asks
<1>2. queue \in Seq(Asks)
  <2>1. <<>> \in Seq(Asks)
    OBVIOUS
  <2> QED BY <2>1, Zenon DEF Underway, Undisturbed
<1> DEFINE r == [creds |-> wifi, persist |-> TRUE, id |-> counter + 1]
<1>3. r \in Asks /\ Push(r)
  BY DEF Enqueue, Rejected, IInv, TypeOK, Asks
<1>4. queue' \in Seq(Asks) /\ queue' # <<>>
  <2> DEFINE kept == IF Len(queue) < QueueLen THEN queue ELSE Tail(queue)
  <2>1. kept \in Seq(Asks)
    BY <1>2, SetupAssumption
  <2>2. queue' = Append(kept, r)
    BY <1>3 DEF Push
  <2> HIDE DEF kept, r
  <2> QED BY <1>3, <2>1, <2>2
<1>5. CASE Underway
  BY <1>1, <1>4, <1>5 DEF Underway, StoredAlready
<1>6. CASE Undisturbed
  <2>1. ~flag
    BY <1>6 DEF Undisturbed, IInv, StationFits
  <2> QED BY <1>1, <1>4, <1>6, <2>1 DEF Underway, StoredAlready, Undisturbed
<1> QED BY <1>5, <1>6

LEMMA CalmInit == Init => CalmInv
BY DEF Init, CalmInv, HandlerFits, Fields

\* The app, the BLE stack and the timer task.
LEMMA CalmBle ==
  ASSUME IInv, CalmInv, Client \/ BleStack \/ TimerTask \/ UnitTask
  PROVE  CalmInv'
<1> USE DEF BleFrame, TaskFrame, managerVars, stationVars, history
<1>1. UNCHANGED <<mgr, latest, nvs, station, flag>>
  BY DEF Client, ClientConnects, ClientDisconnects, CloudWritten, PartWritten, BleStack,
         PartHandled, CloudHandled, TimerTask, Expire, ExpiryReports, UnitTask, RuntimeReport, StopsTimer
<1>2. \A k \in Fields : NoText[k] = <<>>
  BY DEF NoText
<1>3. packet \in [Fields -> Texts] /\ "ssid" \in Fields
  BY DEF IInv, TypeOK, Fields
<1>4. ASSUME UNCHANGED <<wifi, queue, told, calm>>, HandlerFits',
             packet' = packet \/ packet' = NoText,
             handler = "none", handler' \notin Fields
      PROVE  CalmInv'
  <2>1. Requested' => Requested
    BY <1>2, <1>3, <1>4 DEF Requested, Whole, Fields
  <2>2. EntryFits => EntryFits'
    BY <1>1, <1>2, <1>4, <2>1 DEF EntryFits, Requested, Whole, Undisturbed, Fields
  <2>3. Underway => Underway'
    BY <1>1, <1>4 DEF Underway, StoredAlready, Asks
  <2> QED BY <1>4, <2>1, <2>2, <2>3 DEF CalmInv
<1>5. ASSUME ClientConnects \/ ExpiryReports \/ UnitTask \/ StopsTimer("timer")
      PROVE  CalmInv'
  <2>1. UNCHANGED <<wifi, queue, told, calm, packet, handler>>
    BY <1>5 DEF ClientConnects, ExpiryReports, UnitTask, RuntimeReport, StopsTimer
  <2> QED BY <1>1, <2>1 DEF CalmInv, HandlerFits, EntryFits, Requested, Whole, Undisturbed,
                           Underway, StoredAlready, Asks
<1>6. ASSUME ClientDisconnects \/ Expire \/ CloudWritten PROVE CalmInv'
  <2>1. /\ UNCHANGED <<wifi, queue, told, calm>> /\ handler = "none"
        /\ packet' = packet \/ packet' = NoText
        /\ handler' = "none" \/ (handler' = "cloud" /\ Whole')
    <3>1. CASE ClientDisconnects \/ Expire
      BY <3>1 DEF ClientDisconnects, Expire
    <3>2. CASE CloudWritten
      BY <3>2 DEF CloudWritten, Whole
    <3> QED BY <1>6, <3>1, <3>2
  <2> QED BY <1>4, <2>1 DEF HandlerFits, Fields
<1>7. ASSUME NEW k \in Fields, NEW x \in Chunks, PartWritten(k, x) PROVE CalmInv'
  <2>1. /\ handler = "none" /\ told' = NoText /\ UNCHANGED queue
        /\ calm' => Undisturbed' /\ (calm \/ packet = NoText)
    BY <1>1, <1>7 DEF PartWritten, Undisturbed
  <2>2. CASE packet[k] # <<>> /\ Len(packet[k]) + 1 > MaxChunks
    <3>1. /\ packet' = [packet EXCEPT ![k] = <<>>] /\ UNCHANGED <<handler, wifi>>
      BY <1>7, <2>2 DEF PartWritten
    <3>2. HandlerFits' /\ ~Requested'
      BY <1>3, <2>1, <3>1 DEF HandlerFits, Requested, Whole, Fields
    <3>3. calm' => EntryFits'
      BY <1>2, <1>3, <2>1, <3>1 DEF EntryFits, CalmInv
    <3> QED BY <3>2, <3>3 DEF CalmInv
  <2>3. CASE ~(packet[k] # <<>> /\ Len(packet[k]) + 1 > MaxChunks)
    <3>1. /\ packet' = [packet EXCEPT ![k] = Append(packet[k], x)]
          /\ wifi' = [wifi EXCEPT ![k] = packet'[k]] /\ handler' = k
      BY <1>7, <2>3 DEF PartWritten
    <3>2. packet[k] \in Seq(Chunks)
      <4>1. packet[k] = <<>> \/ \E n \in Nat : packet[k] \in [1 .. n -> Chunks]
        <5>1. packet[k] \in Texts /\ \A n \in 1 .. MaxChunks : n \in Nat
          BY <1>3, SetupAssumption
        <5> QED BY <5>1, Zenon DEF Texts
      <4>2. <<>> \in Seq(Chunks)
        OBVIOUS
      <4>3. ASSUME NEW n \in Nat, packet[k] \in [1 .. n -> Chunks] PROVE packet[k] \in Seq(Chunks)
        BY <4>3
      <4> QED BY <4>1, <4>2, <4>3
    <3>3. Append(packet[k], x) # <<>>
      BY <3>2
    <3>4. HandlerFits' /\ ~Requested'
      BY <1>3, <2>1, <3>1, <3>3 DEF HandlerFits, Requested, Fields
    <3>5. wifi \in [Fields -> Texts \cup {Default[j] : j \in Fields}]
      BY DEF IInv, TypeOK, Credentials
    <3>6. calm' => EntryFits'
      BY <1>2, <1>3, <2>1, <3>1, <3>5 DEF EntryFits, CalmInv
    <3> QED BY <3>4, <3>6 DEF CalmInv
  <2> QED BY <2>2, <2>3
<1>8. ASSUME NEW k \in Fields, PartHandled(k) PROVE CalmInv'
  <2>1. /\ handler = k /\ handler' = "none" /\ UNCHANGED <<packet, wifi, told, calm>>
        /\ packet[k] # <<>>
    BY <1>8 DEF PartHandled, CalmInv, HandlerFits
  <2>2. Fields = {k, Other[k]}
    BY DEF Fields, Other
  <2>3. HandlerFits'
    BY <2>1 DEF HandlerFits, Fields
  <2>4. packet # NoText
    BY <1>2, <2>1
  <2>5. CASE packet[Other[k]] # <<>>
    <3>1. Whole' /\ Requested' /\ Enqueue(TRUE)
      BY <1>8, <2>1, <2>2, <2>5 DEF Whole, Requested, PartHandled, Fields
    <3>2. ASSUME calm PROVE EntryFits' /\ Underway'
      <4>1. EntryFits' /\ wifi["ssid"] # <<>>
        BY <1>3, <2>1, <2>2, <2>5, <3>1, <3>2 DEF CalmInv, EntryFits
      <4>2. Underway \/ Undisturbed
        BY <2>4, <3>2 DEF CalmInv, EntryFits
      <4> QED BY <1>1, <2>1, <3>1, <4>1, <4>2, AskedOnceMore
    <3> QED BY <2>1, <2>3, <3>2 DEF CalmInv
  <2>6. CASE packet[Other[k]] = <<>>
    <3>1. UNCHANGED queue
      BY <1>8, <2>6 DEF PartHandled
    <3>2. ~Whole /\ ~Whole' /\ (Requested' <=> Requested)
      BY <2>1, <2>2, <2>6 DEF Whole, Requested
    <3>3. EntryFits => EntryFits'
      BY <1>1, <2>1, <3>1, <3>2 DEF EntryFits, Undisturbed
    <3>4. Underway => Underway'
      BY <1>1, <2>1, <3>1 DEF Underway, StoredAlready, Asks
    <3> QED BY <2>1, <2>3, <3>2, <3>3, <3>4 DEF CalmInv
  <2> QED BY <2>5, <2>6
<1>9. ASSUME CloudHandled PROVE CalmInv'
  <2>1. /\ handler = "cloud" /\ handler' = "none" /\ UNCHANGED <<wifi, calm>> /\ Enqueue(TRUE)
        /\ \/ UNCHANGED <<packet, told>>
           \/ packet' = NoText /\ told' = packet
    BY <1>9 DEF CloudHandled
  <2>2. Whole /\ Requested /\ packet # NoText
    BY <1>2, <1>3, <2>1 DEF CalmInv, HandlerFits, Requested, Whole, Fields
  <2>3. Requested'
    BY <2>1, <2>2 DEF Requested, Whole, Fields
  <2>4. ASSUME calm PROVE EntryFits' /\ Underway'
    <3>1. \A k \in Fields : wifi[k] = packet[k] /\ packet[k] # <<>>
      BY <2>2, <2>4 DEF CalmInv, EntryFits, Whole
    <3>2. wifi = packet
      BY <1>3, <3>1 DEF IInv, TypeOK, Credentials
    <3>3. EntryFits'
      BY <1>2, <2>1, <2>3, <2>4, <3>2 DEF CalmInv, EntryFits
    <3>4. Underway
      BY <2>2, <2>4 DEF CalmInv
    <3> QED BY <1>1, <1>3, <2>1, <3>1, <3>3, <3>4, AskedOnceMore
  <2> QED BY <2>1, <2>4 DEF CalmInv, HandlerFits, Fields
<1> QED BY <1>5, <1>6, <1>7, <1>8, <1>9 DEF Client, BleStack, TimerTask

\* The manager, once it has a request of the session, stores it before it
\* connects, and skips it only when it was stored before.
LEMMA CalmManager ==
  ASSUME IInv, CalmInv, Manager
  PROVE  CalmInv'
<1> USE DEF ManagerFrame, bleVars, stationVars
<1>1. UNCHANGED <<packet, handler, told>>
  BY DEF Manager, BootRequest, Take, Check, Store, TakeOver, Disconnect, Connect, Answered,
         TimedOut, StopStation, Stopped
<1>2. ~(mgr = "idle" /\ queue = <<>>)
  BY DEF Manager, BootRequest, Take, Check, Store, TakeOver, Disconnect, Connect, Answered,
         TimedOut, StopStation, Stopped
<1>3. calm' => calm
  BY DEF Manager, BootRequest, Take, Check, Store, TakeOver, Disconnect, Connect, Answered,
         TimedOut, StopStation, Stopped
<1>4. HandlerFits' /\ (Requested' <=> Requested)
  BY <1>1 DEF CalmInv, HandlerFits, Requested, Whole
<1>5. ASSUME calm, ~Requested PROVE EntryFits'
  <2>1. packet = NoText /\ told = NoText
    BY <1>2, <1>5 DEF CalmInv, EntryFits, Undisturbed, Requested
  <2> QED BY <1>1, <2>1 DEF EntryFits, NoText
<1>6. ASSUME calm', Requested PROVE EntryFits' /\ Underway'
  <2>1. EntryFits /\ Underway
    BY <1>3, <1>6 DEF CalmInv
  <2>2. mgr # "idle" => latest.creds = wifi /\ latest.persist = TRUE
    BY <2>1 DEF Underway, Asks
  <2>3. wifi' = wifi
    BY <2>2 DEF Manager, BootRequest, Take, Check, Store, TakeOver, Disconnect, Connect,
           Answered, TimedOut, StopStation, Stopped
  <2>4. EntryFits'
    BY <1>1, <1>4, <1>6, <2>1, <2>3 DEF EntryFits
  <2>5. Asks' = Asks
    BY <2>3 DEF Asks
  <2>6. /\ nvs \in [Fields -> Texts \cup {Default[k] : k \in Fields}]
        /\ wifi \in [Fields -> Texts \cup {Default[k] : k \in Fields}]
    BY DEF IInv, TypeOK, Credentials
  <2>7. CASE Take
    <3>1. queue[Len(queue)] \in Asks
      BY <2>1, <2>7 DEF Underway, Take
    <3> QED BY <2>1, <2>3, <2>4, <2>5, <2>7, <3>1 DEF Underway, StoredAlready, Take
  <2>8. CASE Check
    BY <2>1, <2>2, <2>3, <2>4, <2>5, <2>8 DEF Underway, StoredAlready, Check
  <2>9. CASE Store("ssid", "password")
    <3>1. nvs' = [nvs EXCEPT !["ssid"] = wifi["ssid"]] /\ mgr = "ssid" /\ mgr' = "password"
      BY <1>6, <2>2, <2>9 DEF Store
    <3>2. nvs'["ssid"] = wifi["ssid"] /\ (nvs = wifi => nvs' = wifi)
      BY <2>6, <3>1 DEF Fields
    <3> QED BY <2>1, <2>3, <2>4, <2>5, <2>9, <3>1, <3>2 DEF Underway, StoredAlready, Store
  <2>10. CASE Store("password", "globals")
    <3>1. /\ nvs' = [nvs EXCEPT !["password"] = wifi["password"]]
          /\ mgr = "password" /\ mgr' = "globals" /\ nvs["ssid"] = wifi["ssid"]
      BY <1>6, <2>1, <2>2, <2>10 DEF Store, Underway
    <3>2. nvs' = wifi
      BY <2>6, <3>1 DEF Fields
    <3> QED BY <2>1, <2>3, <2>4, <2>5, <2>10, <3>1, <3>2 DEF Underway, StoredAlready, Store
  <2>11. ASSUME Disconnect \/ Connect \/ Answered \/ TimedOut \/ StopStation \/ Stopped \/ TakeOver
         PROVE  Underway'
    <3>1. nvs = wifi /\ mgr # "idle"
      BY <2>1, <2>11 DEF Underway, StoredAlready, Disconnect, Connect, Answered, TimedOut,
                         StopStation, Stopped, TakeOver
    <3>2. UNCHANGED <<nvs, queue, latest>> /\ mgr' # "boot" /\ mgr' # "password"
      BY <2>11 DEF Disconnect, Connect, Answered, TimedOut, StopStation, Stopped, TakeOver, Retries
    <3> QED BY <2>1, <2>3, <2>5, <3>1, <3>2 DEF Underway
  <2>12. CASE BootRequest
    BY <2>1, <2>12 DEF BootRequest, Underway
  <2> QED BY <2>4, <2>7, <2>8, <2>9, <2>10, <2>11, <2>12 DEF Manager
<1> QED BY <1>3, <1>4, <1>5, <1>6 DEF CalmInv

\* The driver, the handlers and the access point wake no station that is off.
LEMMA CalmStation ==
  ASSUME IInv, CalmInv, Driver \/ EventTask \/ AccessPointSwitched
  PROVE  CalmInv'
<1>1. UNCHANGED <<packet, handler, told, calm, wifi, nvs, queue, mgr, latest>>
  BY DEF StationFrame, bleVars, managerVars, history, Driver, GetsAddress, LosesLink, EventTask,
         on_got_ip, SetsBits, SetsFlag, on_wifi_disconnect, AccessPointSwitched
<1>2. station = "off" => UNCHANGED <<station, flag>>
  BY DEF IInv, EventsFit, StationFits, Driver, GetsAddress, LosesLink, EventTask, on_got_ip,
         SetsBits, SetsFlag, on_wifi_disconnect, AccessPointSwitched, Handles
<1>3. HandlerFits' /\ (Requested' <=> Requested)
  BY <1>1 DEF CalmInv, HandlerFits, Requested, Whole
<1>4. EntryFits => EntryFits'
  BY <1>1, <1>2, <1>3 DEF EntryFits, Undisturbed
<1>5. Underway => Underway'
  BY <1>1, <1>2 DEF Underway, StoredAlready, Asks
<1> QED BY <1>1, <1>3, <1>4, <1>5 DEF CalmInv

LEMMA CalmImplies == CalmInv => CalmIsStored
BY DEF CalmInv, EntryFits, Requested, Underway, StoredAlready, CalmIsStored

\* Credentials that were entered while nothing interfered are in NVS once the
\* manager rests after DONE: of the requests for them the first is stored
\* before the station is started, and the second is skipped only after that.
THEOREM CalmEntryIsStored == Spec => []CalmIsStored
<1>1. IInv /\ CalmInv /\ [Next]_vars => CalmInv'
  <2> SUFFICES ASSUME IInv, CalmInv, [Next]_vars PROVE CalmInv'
    OBVIOUS
  <2>1. CASE UNCHANGED vars
    BY <2>1 DEF vars, bleVars, managerVars, stationVars, history, CalmInv, HandlerFits,
                EntryFits, Requested, Whole, Undisturbed, Underway, StoredAlready, Asks
  <2>2. CASE Restart
    BY <2>2 DEF Restart, CalmInv, HandlerFits, Fields
  <2> QED BY <2>1, <2>2, CalmBle, CalmManager, CalmStation DEF Next
<1> QED BY <1>1, CalmInit, CalmImplies, Invariance, PTL DEF Spec

-----------------------------------------------------------------------------
(* The time-out of a session                                                *)

\* A session that waits will be ended by its timer: every status that waits
\* starts it, and neither a connection, a write nor a status of another task
\* takes the time-out away, but for a stop that comes late (ble.c 165-169).
THEOREM WaitingIsTimed == Spec => []WaitIsTimed
<1>1. Init => WaitIsTimed
  BY DEF Init, WaitIsTimed, Waiting
<1>2. WaitIsTimed /\ [Next]_vars => WaitIsTimed'
  <2> SUFFICES ASSUME WaitIsTimed, [Next]_vars PROVE WaitIsTimed'
    OBVIOUS
  <2>1. \A s : SetStatus(s) => WaitIsTimed'
    BY DEF SetStatus, WaitIsTimed
  <2>2. CASE Client \/ BleStack \/ TimerTask \/ UnitTask
    <3>1. CASE ClientConnects
      BY <3>1 DEF ClientConnects, WaitIsTimed
    <3>2. CASE Expire
      BY <3>2 DEF Expire, WaitIsTimed
    <3>3. ASSUME NEW k \in Fields, NEW x \in Chunks, PartWritten(k, x) PROVE WaitIsTimed'
      BY <2>1, <3>3 DEF PartWritten, WaitIsTimed
    <3>4. ASSUME NEW k \in Fields, PartHandled(k) PROVE WaitIsTimed'
      BY <2>1, <3>4 DEF PartHandled
    <3>5. CASE ClientDisconnects \/ CloudWritten \/ CloudHandled
      BY <2>1, <3>5 DEF ClientDisconnects, CloudWritten, CloudHandled
    <3>6. CASE ExpiryReports \/ RuntimeReport
      <4>1. \A t : HeldUp(t, "ERROR") \/ HeldUp(t, "RUNTIME_READY") \/ HeldUp(t, "BOOTING")
                    => WaitIsTimed'
        BY DEF HeldUp, WaitIsTimed, Waiting
      <4>2. Reports \subseteq {"RUNTIME_READY", "BOOTING"}
        BY SetupAssumption
      <4> QED BY <2>1, <3>6, <4>1, <4>2 DEF ExpiryReports, RuntimeReport
    <3>7. ASSUME NEW t \in {"timer", "unit"}, StopsTimer(t) PROVE WaitIsTimed'
      BY <3>7 DEF StopsTimer, WaitIsTimed
    <3> QED BY <2>2, <3>1, <3>2, <3>3, <3>4, <3>5, <3>6, <3>7
        DEF Client, BleStack, TimerTask, UnitTask
  <2>3. CASE Manager \/ Driver \/ EventTask \/ AccessPointSwitched \/ UNCHANGED vars
    <3>1. UNCHANGED <<status, timer, callback>>
      BY <2>3 DEF Manager, BootRequest, Take, Check, Store, TakeOver, Disconnect, Connect, Answered,
         TimedOut, StopStation, Stopped, ManagerFrame, bleVars, Driver, GetsAddress, LosesLink,
         EventTask, on_got_ip, SetsBits, SetsFlag, on_wifi_disconnect, AccessPointSwitched,
         StationFrame, vars
    <3> QED BY <3>1 DEF WaitIsTimed
  <2>4. CASE Restart
    BY <2>4 DEF Restart, WaitIsTimed, Waiting
  <2> QED BY <2>2, <2>3, <2>4 DEF Next
<1> QED BY <1>1, <1>2, PTL DEF Spec
=============================================================================
