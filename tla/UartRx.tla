------------------------------- MODULE UartRx -------------------------------
(***************************************************************************)
(* How a frame of the unit board gets from the line to the Unit task: the  *)
(* UART driver's events, the event task and its cache of one event         *)
(* (Uart1.c), and Read_Message, which takes a frame in two calls           *)
(* (WBM_Serial.c).  The event task and the Unit task share s_rx_available  *)
(* and s_rx_cache without a lock.                                          *)
(*                                                                         *)
(* A byte is a cell <<i, p>>: byte p of the i-th frame sent, or Zero.  The *)
(* checksum tells a frame from every other content; two acknowledgements   *)
(* hold the same bytes.  The driver is external: its interrupt moves what  *)
(* the line brought to its buffer and queues an event of that size.        *)
(***************************************************************************)
EXTENDS Naturals, Sequences

CONSTANTS
  FrameSize,         \* bytes of a frame of each kind: "data", and the text "ACK"
  CacheSize,         \* UART1_RX_CACHE_SIZE, which is RX_BUFFER_SIZE
  QueueSize,         \* events the driver's queue holds
  MaxFrames,         \* bound on what the board sends
  MaxPauses,         \* pauses of the board within a frame,
  MaxOverflows,      \* overflows of the driver's buffers,
  MaxStalls,         \* times the event task is held up for a round of the Unit task,
  MaxEvents          \* ... and of all these together

Kinds == {"data", "ACK"}

ASSUME ReceiverAssumption ==
  /\ FrameSize \in [Kinds -> Nat \ {0}] /\ CacheSize \in Nat \ {0}
  /\ \A k \in Kinds : FrameSize[k] < CacheSize
  /\ QueueSize \in Nat \ {0} /\ MaxFrames \in Nat
  /\ MaxPauses \in Nat /\ MaxOverflows \in Nat /\ MaxStalls \in Nat /\ MaxEvents \in Nat

Zero == <<0, 0>>
Overflow == 0        \* an event that is not the size of received data

VARIABLES
  sent,              \* the board's frames: their kind, and was the receiver at rest?
  fifo, ring,        \* received, before and after the interrupt
  events,            \* Uart1_Queue
  etask, dtmp,       \* where uart_event_task is, and its buffer
  s_rx_available, s_rx_cache,
  reader, claimed,   \* where Read_Message is, and what Uart1_RxClaim loaded
  rx_buf_tail, len, buff_ser1,
  got,               \* the frames Read_Message returned
  spent

driverVars == <<fifo, ring, events>>
cacheVars  == <<s_rx_cache, etask, dtmp>>
readerVars == <<reader, claimed, rx_buf_tail, len, buff_ser1, got>>
vars == <<sent, driverVars, s_rx_available, cacheVars, readerVars, spent>>

Hindrances == {"pause", "overflow", "stall"}

Init ==
  /\ sent = <<>> /\ fifo = <<>> /\ ring = <<>> /\ events = <<>>
  /\ etask = "wait" /\ dtmp = <<>> /\ s_rx_available = 0
  /\ s_rx_cache = [p \in 1 .. CacheSize |-> Zero]
  /\ reader = "away" /\ claimed = 0 /\ rx_buf_tail = 0 /\ len = 0
  /\ buff_ser1 = <<>> /\ got = <<>> /\ spent = [k \in Hindrances |-> 0]

Bounded(kind, max) ==
  /\ spent[kind] < max /\ spent' = [spent EXCEPT ![kind] = @ + 1]
  /\ spent["pause"] + spent["overflow"] + spent["stall"] < MaxEvents

Frame(i) == [p \in 1 .. FrameSize[sent[i].kind] |-> <<i, p>>]

\* Nothing is on the way from the line to the Unit task.
AtRest == /\ fifo = <<>> /\ ring = <<>> /\ events = <<>> /\ etask = "wait"
          /\ s_rx_available = 0 /\ rx_buf_tail = 0 /\ reader = "away"

-----------------------------------------------------------------------------
(* The board and the driver                                                 *)

Send(kind) ==
  /\ Len(sent) < MaxFrames
  /\ sent' = Append(sent, [kind |-> kind, calm |-> AtRest])
  /\ fifo' = fifo \o [p \in 1 .. FrameSize[kind] |-> <<Len(sent) + 1, p>>]
  /\ UNCHANGED <<ring, events, s_rx_available, cacheVars, readerVars, spent>>

\* n bytes become an event; it is lost when the queue is full, its bytes stay.
Announce(n) ==
  /\ ring' = ring \o SubSeq(fifo, 1, n) /\ fifo' = SubSeq(fifo, n + 1, Len(fifo))
  /\ events' = IF Len(events) < QueueSize THEN Append(events, n) ELSE events
  /\ UNCHANGED <<sent, s_rx_available, cacheVars, readerVars>>

\* The line has been silent for a while: all that came is one event.
Interrupt == fifo # <<>> /\ Announce(Len(fifo)) /\ UNCHANGED spent

\* The board has paused in a frame for so long.
Pause == \E n \in 1 .. Len(fifo) - 1 : Announce(n) /\ Bounded("pause", MaxPauses)

\* A buffer of the driver is full: what came is lost, and an event says so.
Overflows ==
  /\ Len(events) < QueueSize /\ Bounded("overflow", MaxOverflows)
  /\ fifo' = <<>> /\ events' = Append(events, Overflow)
  /\ UNCHANGED <<sent, ring, s_rx_available, cacheVars, readerVars>>

-----------------------------------------------------------------------------
(* uart_event_task                                                          *)

Smaller(a, b) == IF a < b THEN a ELSE b

\* UART_DATA: the bytes are read, and their number is published ...
DataEvent ==
  /\ etask = "wait" /\ events # <<>> /\ Head(events) # Overflow
  /\ Len(ring) >= Head(events)
  /\ dtmp' = SubSeq(ring, 1, Smaller(Head(events), CacheSize))
  /\ ring' = SubSeq(ring, Head(events) + 1, Len(ring)) /\ events' = Tail(events)
  /\ s_rx_available' = Smaller(Head(events), CacheSize) /\ etask' = "memset"
  /\ UNCHANGED <<sent, fifo, s_rx_cache, readerVars, spent>>

\* ... before the cache is cleared ...
ClearCache ==
  /\ etask = "memset" /\ etask' = "memcpy"
  /\ s_rx_cache' = [p \in 1 .. CacheSize |-> Zero]
  /\ UNCHANGED <<sent, driverVars, s_rx_available, dtmp, readerVars, spent>>

\* Faulty variant: the cache is filled and then cleared.
FillCacheFirst ==
  /\ etask = "memcpy" /\ etask' = "wait" /\ dtmp' = <<>>
  /\ s_rx_cache' = [p \in 1 .. CacheSize |-> Zero]
  /\ UNCHANGED <<sent, driverVars, s_rx_available, readerVars, spent>>

\* ... and filled.
FillCache ==
  /\ etask = "memcpy" /\ etask' = "wait" /\ dtmp' = <<>>
  /\ s_rx_cache' = [p \in 1 .. CacheSize |-> IF p <= Len(dtmp) THEN dtmp[p] ELSE Zero]
  /\ UNCHANGED <<sent, driverVars, s_rx_available, readerVars, spent>>

\* UART_FIFO_OVF, UART_BUFFER_FULL: the driver is emptied.
OverflowEvent ==
  /\ etask = "wait" /\ events # <<>> /\ Head(events) = Overflow
  /\ fifo' = <<>> /\ ring' = <<>> /\ events' = <<>>
  /\ UNCHANGED <<sent, s_rx_available, cacheVars, readerVars, spent>>

EventTask == DataEvent \/ ClearCache \/ FillCache \/ OverflowEvent

-----------------------------------------------------------------------------
(* Read_Message.  A call that finds nothing and expects nothing is a stutter *)

\* Faulty variant: all 128 bytes of the cache are taken.
TakesWhole ==
  /\ len' = rx_buf_tail /\ rx_buf_tail' = 0
  /\ buff_ser1' = <<>> /\ reader' = "reading"

\* A frame is complete when a call sees no other number of bytes than the
\* last one did.  All 128 bytes of the cache count as none.
Takes ==
  /\ len' = rx_buf_tail % CacheSize /\ rx_buf_tail' = 0
  /\ buff_ser1' = <<>> /\ reader' = "reading"

\* Uart1_RxClaim finds nothing.  That another call went by since the event
\* task published what this one reads, while the cache is not yet filled,
\* needs the event task to be held up for a round of the Unit task.
ClaimsNothing ==
  /\ reader = "away" /\ s_rx_available = 0 /\ rx_buf_tail # 0 /\ Takes
  /\ IF etask = "wait" THEN UNCHANGED spent ELSE Bounded("stall", MaxStalls)
  /\ UNCHANGED <<sent, driverVars, s_rx_available, cacheVars, claimed, got>>

\* Uart1_RxClaim loads the number ...
Claims ==
  /\ reader = "away" /\ s_rx_available # 0
  /\ claimed' = s_rx_available /\ reader' = "claiming"
  /\ UNCHANGED <<sent, driverVars, s_rx_available, cacheVars, rx_buf_tail, len, buff_ser1,
                 got, spent>>

Compares ==
  /\ reader = "claiming" /\ claimed' = 0
  /\ IF claimed # rx_buf_tail
     THEN rx_buf_tail' = claimed /\ reader' = "away" /\ UNCHANGED <<len, buff_ser1>>
     ELSE Takes
  /\ UNCHANGED <<sent, driverVars, cacheVars, got, spent>>

\* Faulty variant: the number is not set back.
ClaimedKept == Compares /\ UNCHANGED s_rx_available

\* ... and sets it back to 0, whatever it is by now.
Claimed == Compares /\ s_rx_available' = 0

ReadByte ==
  /\ reader = "reading" /\ Len(buff_ser1) < len
  /\ buff_ser1' = Append(buff_ser1, s_rx_cache[Len(buff_ser1) + 1])
  /\ UNCHANGED <<sent, driverVars, s_rx_available, cacheVars, reader, claimed, rx_buf_tail,
                 len, got, spent>>

\* strstr finds the text behind the first k bytes, none of which is 0.
TextAt(k) ==
  LET n == FrameSize["ACK"] IN
  /\ k + n <= Len(buff_ser1) /\ \A p \in 1 .. k : buff_ser1[p] # Zero
  /\ \A p \in 1 .. n : \E i \in 1 .. Len(sent) :
        sent[i].kind = "ACK" /\ buff_ser1[k + p] = <<i, p>>

Offsets == {k \in 0 .. Len(buff_ser1) : TextAt(k)}

\* Header, length and checksum fit.
DataAs(i) == sent[i].kind = "data" /\ buff_ser1 = Frame(i)

Judges == /\ reader = "reading" /\ Len(buff_ser1) = len /\ reader' = "away"
          /\ len' = 0 /\ buff_ser1' = <<>>
          /\ UNCHANGED <<sent, driverVars, s_rx_available, cacheVars, claimed, rx_buf_tail, spent>>

\* The first text is taken for the frame.
TakesText ==
  /\ Judges
  /\ \E k \in Offsets : /\ \A m \in Offsets : k <= m
                        /\ got' = Append(got, buff_ser1[k + FrameSize["ACK"]][1])

\* Faulty variant: the length is not compared and the checksum not computed.
TakesDataUnchecked ==
  /\ Judges /\ Offsets \subseteq Nat \ {0}
  /\ \E i \in 1 .. Len(sent) :
        /\ sent[i].kind = "data" /\ buff_ser1 # <<>> /\ buff_ser1[1] = <<i, 1>>
        /\ got' = Append(got, IF buff_ser1[Len(buff_ser1)] = Zero THEN i
                              ELSE buff_ser1[Len(buff_ser1)][1])

TakesData ==
  /\ Judges /\ Offsets = {}
  /\ \E i \in 1 .. Len(sent) : DataAs(i) /\ got' = Append(got, i)

\* ERROR_HEAD_MESSAGE, ERROR_LEN_MESSAGE, ERROR_CKSUM_16.  A byte of the data
\* before a text may be 0 and hide it.
Rejects ==
  /\ Judges /\ 0 \notin Offsets /\ ~\E i \in 1 .. Len(sent) : DataAs(i)
  /\ UNCHANGED got

Read_Message == ClaimsNothing \/ Claims \/ Claimed \/ ReadByte \/ TakesText \/ TakesData \/ Rejects

Next == \/ \E kind \in Kinds : Send(kind)
        \/ Interrupt \/ Pause \/ Overflows \/ EventTask \/ Read_Message

\* The interrupt comes, the event task runs, and the Unit task calls
\* Read_Message in every round.
Spec == Init /\ [][Next]_vars /\ WF_vars(Interrupt) /\ WF_vars(EventTask) /\ WF_vars(Read_Message)

-----------------------------------------------------------------------------
(* Properties                                                               *)

\* Every variable keeps its range: Read_Message never reads or writes past
\* the 128 bytes of s_rx_cache and buff_ser1 (WBM_Serial.c 142-149).
TypeOK ==
  /\ sent \in Seq([kind : Kinds, calm : BOOLEAN]) /\ Len(sent) <= MaxFrames
  /\ LET Cell == {Zero} \cup {<<i, p>> : i \in 1 .. Len(sent), p \in 1 .. CacheSize} IN
     /\ fifo \in Seq(Cell) /\ ring \in Seq(Cell) /\ dtmp \in Seq(Cell)
     /\ s_rx_cache \in [1 .. CacheSize -> Cell] /\ buff_ser1 \in Seq(Cell)
  /\ Len(dtmp) <= CacheSize
  /\ events \in Seq(Nat) /\ Len(events) <= QueueSize
  /\ etask \in {"wait", "memset", "memcpy"} /\ s_rx_available \in 0 .. CacheSize
  /\ reader \in {"away", "claiming", "reading"} /\ claimed \in 0 .. CacheSize
  /\ rx_buf_tail \in 0 .. CacheSize
  /\ len \in 0 .. CacheSize - 1 /\ Len(buff_ser1) <= len
  /\ got \in Seq(1 .. Len(sent)) /\ spent \in [Hindrances -> Nat]

\* The board has sent each frame to a receiver at rest.
HalfDuplex == \A i \in 1 .. Len(sent) : sent[i].calm

\* In half-duplex use the frames taken form a FrameChannel: none is made up
\* of two, none comes out of order (Uart1.c 59-62, WBM_Serial.c 118-197),
\* whatever the board, the driver and the two tasks do meanwhile.  Otherwise
\* Read_Message may take, under the length of one event, the second of two
\* texts the next event holds, and then the first.
Channel == INSTANCE FrameChannel WITH sent <- Len(sent)
FramesInOrder == Channel!Init /\ [][HalfDuplex' => Channel!Next]_<<Len(sent), got>>

\* However the board sends, there are never more frames taken than it sent:
\* a length is claimed once, and a frame taken for another takes its place
\* (Uart1.c 59-62, 155-170).  An event task that is held up while another
\* frame comes lets one be taken twice.
NoneTooMany == HalfDuplex \/ spent["stall"] = 0 => Len(got) <= Len(sent)

\* The line is half duplex, the board makes no pause within a frame, and
\* nothing hinders the driver or the event task.
Calm == HalfDuplex /\ \A k \in Hindrances : spent[k] = 0

\* As long as the line is used half duplex every frame is taken exactly
\* once: only the last one may be missing (Uart1.c 155-170, WBM_Serial.c
\* 118-143).
CalmIsExact ==
  Calm => /\ Len(sent) <= Len(got) + 1
          /\ got = [i \in 1 .. Len(got) |-> i]

\* A frame sent to a receiver at rest is taken in the end, even after others
\* were lost, unless it is hindered or another one follows (Uart1.c 36-72).
CalmIsTaken ==
  \A i \in 1 .. MaxFrames :
    (Len(sent) = i /\ sent[i].calm /\ spent = [k \in Hindrances |-> 0])
      ~> (Len(sent) > i \/ (got # <<>> /\ got[Len(got)] = i) \/ spent # [k \in Hindrances |-> 0])
=============================================================================
