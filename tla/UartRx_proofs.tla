---------------------------- MODULE UartRx_proofs ----------------------------
(***************************************************************************)
(* Theorems about UartRx, for frames, a cache and a queue of any size.     *)
(*                                                                         *)
(* TypeOK is inductive as it stands.  What it rests on: an event is read   *)
(* only when its bytes are there and is cut at the size of the cache, and  *)
(* Read_Message counts modulo that size.  CalmIsExact and FramesInOrder    *)
(* need to say where the last frame is: CalmInv and FlightInv.             *)
(***************************************************************************)
EXTENDS UartRx, TLAPS

Cells(n) == {Zero} \cup {<<i, p>> : i \in 1 .. n, p \in 1 .. CacheSize}

\* The parts of TypeOK: what was sent and taken, the bytes on their way, and
\* the counts of the two tasks.
Frames == /\ sent \in Seq([kind : Kinds, calm : BOOLEAN]) /\ Len(sent) <= MaxFrames
          /\ got \in Seq(1 .. Len(sent)) /\ spent \in [Hindrances -> Nat]
Received == /\ fifo \in Seq(Cells(Len(sent))) /\ ring \in Seq(Cells(Len(sent)))
            /\ events \in Seq(Nat) /\ Len(events) <= QueueSize
Cached == /\ dtmp \in Seq(Cells(Len(sent))) /\ Len(dtmp) <= CacheSize
          /\ s_rx_cache \in [1 .. CacheSize -> Cells(Len(sent))]
          /\ etask \in {"wait", "memset", "memcpy"}
Taken == /\ buff_ser1 \in Seq(Cells(Len(sent))) /\ Len(buff_ser1) <= len
         /\ len \in 0 .. CacheSize - 1 /\ reader \in {"away", "claiming", "reading"}
Counts == /\ s_rx_available \in 0 .. CacheSize /\ claimed \in 0 .. CacheSize
          /\ rx_buf_tail \in 0 .. CacheSize

LEMMA TypeParts ==
  /\ TypeOK <=> Frames /\ Received /\ Cached /\ Taken /\ Counts
  /\ TypeOK' <=> Frames' /\ Received' /\ Cached' /\ Taken' /\ Counts'
<1>1. TypeOK <=> Frames /\ Received /\ Cached /\ Taken /\ Counts
  BY DEF TypeOK, Frames, Received, Cached, Taken, Counts, Cells
<1>2. TypeOK' <=> Frames' /\ Received' /\ Cached' /\ Taken' /\ Counts'
  BY <1>1, PTL
<1> QED BY <1>1, <1>2

-----------------------------------------------------------------------------
(* Sequences                                                                *)

LEMMA CellsGrow ==
  ASSUME NEW n \in Nat PROVE Cells(n) \subseteq Cells(n + 1)
  BY DEF Cells

LEMMA SeqGrows ==
  ASSUME NEW S, NEW T, S \subseteq T, NEW s \in Seq(S) PROVE s \in Seq(T)
  OBVIOUS

LEMMA Tails ==
  ASSUME NEW S, NEW s \in Seq(S), NEW n \in Nat
  PROVE  SubSeq(s, n + 1, Len(s)) \in Seq(S)
  OBVIOUS

LEMMA Heads ==
  ASSUME NEW S, NEW s \in Seq(S), NEW n \in Nat, n <= Len(s)
  PROVE  SubSeq(s, 1, n) \in Seq(S) /\ Len(SubSeq(s, 1, n)) = n
  OBVIOUS

LEMMA FrameBytes ==
  ASSUME NEW m \in Nat, NEW kind \in Kinds
  PROVE  [p \in 1 .. FrameSize[kind] |-> <<m + 1, p>>] \in Seq(Cells(m + 1))
<1>1. FrameSize[kind] \in Nat /\ FrameSize[kind] < CacheSize /\ CacheSize \in Nat
  BY ReceiverAssumption
<1>2. \A p \in 1 .. FrameSize[kind] : <<m + 1, p>> \in Cells(m + 1)
  BY <1>1 DEF Cells
<1> QED BY <1>1, <1>2

LEMMA LastElement ==
  ASSUME NEW S, NEW s \in Seq(S), s # <<>>
  PROVE  Len(s) \in Nat \ {0} /\ s[Len(s)] \in S
  OBVIOUS

LEMMA SameSequence ==
  ASSUME NEW S, NEW s \in Seq(S), NEW t \in Seq(S), Len(s) = Len(t),
         \A p \in 1 .. Len(s) : s[p] = t[p]
  PROVE  s = t
  OBVIOUS

LEMMA Behind ==
  ASSUME NEW S, NEW s \in Seq(S), NEW n \in Nat, n <= Len(s)
  PROVE  /\ Len(SubSeq(s, n + 1, Len(s))) = Len(s) - n
         /\ \A q \in 1 .. Len(s) - n : SubSeq(s, n + 1, Len(s))[q] = s[n + q]
  OBVIOUS

LEMMA Appended ==
  ASSUME NEW S, NEW s \in Seq(S), NEW x \in S
  PROVE  /\ Append(s, x) # <<>> /\ Len(Append(s, x)) = Len(s) + 1
         /\ Append(s, x)[Len(Append(s, x))] = x
  OBVIOUS

LEMMA Joined ==
  ASSUME NEW S, NEW s \in Seq(S), NEW t \in Seq(S)
  PROVE  /\ Len(s \o t) = Len(s) + Len(t)
         /\ \A q \in 1 .. Len(s) : (s \o t)[q] = s[q]
         /\ \A q \in 1 .. Len(t) : (s \o t)[Len(s) + q] = t[q]
  OBVIOUS

LEMMA SmallModulo ==
  ASSUME NEW b \in Nat \ {0}, NEW a \in 0 .. b - 1 PROVE a % b = a
  OBVIOUS

LEMMA Modulo ==
  ASSUME NEW a \in Nat, NEW b \in Nat \ {0} PROVE a % b \in 0 .. b - 1
  OBVIOUS

-----------------------------------------------------------------------------
(* TypeOK holds initially and every action keeps it                         *)

LEMMA TypeInit == Init => TypeOK
<1> SUFFICES ASSUME Init PROVE Frames /\ Received /\ Cached /\ Taken /\ Counts
  BY TypeParts
<1> USE ReceiverAssumption DEF Init
<1>1. Frames
  BY DEF Frames
<1>2. Received
  BY DEF Received
<1>3. Cached
  BY DEF Cached, Cells
<1>4. Taken /\ Counts
  BY DEF Taken, Counts
<1> QED BY <1>1, <1>2, <1>3, <1>4

\* Frames that are added leave everything else a cell of a frame sent.
LEMMA SendKeepsType ==
  ASSUME TypeOK, NEW kind \in Kinds, Send(kind) PROVE TypeOK'
<1> DEFINE n == Len(sent)
<1> USE ReceiverAssumption
<1>1. Frames /\ Received /\ Cached /\ Taken /\ Counts
  BY TypeParts
<1>2. n \in Nat /\ Len(sent') = n + 1 /\ sent' \in Seq([kind : Kinds, calm : BOOLEAN])
  BY <1>1 DEF Frames, Send, AtRest
<1>3. Cells(n) \subseteq Cells(n + 1) /\ 1 .. n \subseteq 1 .. n + 1
  BY <1>2, CellsGrow
<1> HIDE DEF n
<1>4. Frames'
  <2>1. got \in Seq(1 .. n + 1)
    BY <1>1, <1>3, SeqGrows DEF Frames, n
  <2>2. n < MaxFrames /\ n + 1 <= MaxFrames
    BY <1>2 DEF Send, n
  <2> QED BY <1>1, <1>2, <2>1, <2>2 DEF Frames, Send, readerVars
<1>5. Received'
  <2>1. fifo \in Seq(Cells(n + 1)) /\ ring \in Seq(Cells(n + 1))
    BY <1>1, <1>3, SeqGrows DEF Received, n
  <2>2. [p \in 1 .. FrameSize[kind] |-> <<n + 1, p>>] \in Seq(Cells(n + 1))
    BY <1>2, FrameBytes
  <2>3. fifo' \in Seq(Cells(n + 1))
    BY <2>1, <2>2 DEF Send, n
  <2> QED BY <1>1, <1>2, <2>1, <2>3 DEF Received, Send
<1>6. Cached'
  <2>1. dtmp \in Seq(Cells(n + 1)) /\ s_rx_cache \in [1 .. CacheSize -> Cells(n + 1)]
    BY <1>1, <1>3, SeqGrows DEF Cached, n
  <2> QED BY <1>1, <1>2, <2>1 DEF Cached, Send, cacheVars
<1>7. Taken'
  <2>1. buff_ser1 \in Seq(Cells(n + 1))
    BY <1>1, <1>3, SeqGrows DEF Taken, n
  <2> QED BY <1>1, <1>2, <2>1 DEF Taken, Send, readerVars
<1>8. Counts'
  BY <1>1 DEF Counts, Send, readerVars
<1> QED BY <1>4, <1>5, <1>6, <1>7, <1>8, TypeParts

\* What the driver does to the bytes it holds.
LEMMA DriverKeepsType ==
  ASSUME TypeOK, Interrupt \/ Pause \/ Overflows PROVE TypeOK'
<1>1. Frames /\ Received /\ Cached /\ Taken /\ Counts
  BY TypeParts
<1> DEFINE C == Cells(Len(sent))
<1>2. spent' \in [Hindrances -> Nat]
  BY <1>1 DEF Interrupt, Pause, Overflows, Bounded, Frames, Hindrances
<1>3. UNCHANGED <<sent, s_rx_available, cacheVars, readerVars>>
  BY DEF Interrupt, Pause, Overflows, Announce
<1>4. Frames' /\ Cached' /\ Taken' /\ Counts'
  BY <1>1, <1>2, <1>3 DEF Frames, Cached, Taken, Counts, cacheVars, readerVars
<1> HIDE DEF C
<1>5. ASSUME NEW n \in Nat, n <= Len(fifo), Announce(n) PROVE Received'
  <2>1. fifo' \in Seq(C)
    BY <1>1, <1>5, Tails DEF Received, Announce, C
  <2>2. ring' \in Seq(C)
    BY <1>1, <1>5, Heads DEF Received, Announce, C
  <2>3. events' \in Seq(Nat) /\ Len(events') <= QueueSize
    BY <1>1, <1>5, ReceiverAssumption DEF Received, Announce
  <2> QED BY <1>3, <2>1, <2>2, <2>3 DEF Received, C
<1>6. ASSUME Interrupt PROVE Received'
  <2>1. Len(fifo) \in Nat /\ Announce(Len(fifo))
    BY <1>1, <1>6 DEF Interrupt, Received
  <2> QED BY <1>5, <2>1
<1>7. ASSUME Pause PROVE Received'
  <2>1. PICK n \in 1 .. Len(fifo) - 1 : Announce(n)
    BY <1>7 DEF Pause
  <2>2. n \in Nat /\ n <= Len(fifo)
    BY <1>1 DEF Received
  <2> QED BY <1>5, <2>1, <2>2
<1>8. ASSUME Overflows PROVE Received'
  <2>1. fifo' \in Seq(C) /\ ring' \in Seq(C)
    BY <1>1, <1>8 DEF Overflows, Received, C
  <2>2. events' \in Seq(Nat) /\ Len(events') <= QueueSize
    BY <1>1, <1>8, ReceiverAssumption DEF Overflows, Overflow, Received
  <2> QED BY <1>3, <2>1, <2>2 DEF Received, C
<1>9. Received'
  BY <1>6, <1>7, <1>8
<1> QED BY <1>4, <1>9, TypeParts

\* An event's bytes are read whole and cut to what the cache holds.
LEMMA EventTaskKeepsType ==
  ASSUME TypeOK, EventTask PROVE TypeOK'
<1> DEFINE C == Cells(Len(sent))
<1> USE ReceiverAssumption
<1>1. Frames /\ Received /\ Cached /\ Taken /\ Counts
  BY TypeParts
<1>2. UNCHANGED <<sent, readerVars, spent>>
  BY DEF EventTask, DataEvent, ClearCache, FillCache, OverflowEvent
<1>3. Frames' /\ Taken'
  BY <1>1, <1>2 DEF Frames, Taken, readerVars
<1>4. Zero \in C
  BY DEF Cells
<1> HIDE DEF C
<1>5. CASE DataEvent
  <2> DEFINE e == Head(events)
             n == Smaller(e, CacheSize)
  <2>1. e \in Nat /\ n \in 0 .. CacheSize /\ n <= e /\ e <= Len(ring)
    <3>1. events \in Seq(Nat) /\ events # <<>> /\ e <= Len(ring)
      BY <1>1, <1>5 DEF DataEvent, Received
    <3>2. e \in Nat
      BY <3>1
    <3> HIDE DEF e
    <3> QED BY <3>1, <3>2 DEF Smaller
  <2>2. dtmp' = SubSeq(ring, 1, n) /\ ring' = SubSeq(ring, e + 1, Len(ring))
    BY <1>5 DEF DataEvent
  <2>3. ring \in Seq(C)
    BY <1>1 DEF Received, C
  <2>4. s_rx_available' = n /\ events' = Tail(events) /\ etask' = "memset"
    BY <1>5 DEF DataEvent
  <2>5. events' \in Seq(Nat) /\ Len(events') <= QueueSize
    BY <1>1, <1>5, <2>4 DEF DataEvent, Received
  <2> HIDE DEF e, n
  <2>6. n \in Nat /\ n <= Len(ring) /\ n <= CacheSize
    BY <2>1, <2>3
  <2>7. dtmp' \in Seq(C) /\ Len(dtmp') <= CacheSize
    BY <2>2, <2>3, <2>6, Heads
  <2>8. ring' \in Seq(C)
    BY <2>1, <2>2, <2>3, Tails
  <2>9. Received'
    BY <1>1, <1>2, <1>5, <2>5, <2>8 DEF Received, DataEvent, C
  <2>10. Cached'
    BY <1>1, <1>2, <1>5, <2>4, <2>7 DEF Cached, DataEvent, C
  <2>11. Counts'
    BY <1>1, <1>2, <2>1, <2>4 DEF Counts, readerVars
  <2> QED BY <1>3, <2>9, <2>10, <2>11, TypeParts
<1>6. CASE ClearCache
  <2>1. Received' /\ Counts'
    BY <1>1, <1>2, <1>6 DEF ClearCache, Received, Counts, driverVars, readerVars
  <2>2. s_rx_cache' \in [1 .. CacheSize -> C]
    BY <1>4, <1>6 DEF ClearCache
  <2>3. Cached'
    BY <1>1, <1>2, <1>6, <2>2 DEF ClearCache, Cached, C
  <2> QED BY <1>3, <2>1, <2>3, TypeParts
<1>7. CASE FillCache
  <2>1. Received' /\ Counts'
    BY <1>1, <1>2, <1>7 DEF FillCache, Received, Counts, driverVars, readerVars
  <2>2. \A p \in 1 .. CacheSize : (IF p <= Len(dtmp) THEN dtmp[p] ELSE Zero) \in C
    BY <1>1, <1>4 DEF Cached, C
  <2>3. s_rx_cache' \in [1 .. CacheSize -> C]
    BY <1>7, <2>2 DEF FillCache
  <2>4. dtmp' \in Seq(C) /\ Len(dtmp') <= CacheSize
    BY <1>7 DEF FillCache
  <2>5. Cached'
    BY <1>1, <1>2, <1>7, <2>3, <2>4 DEF FillCache, Cached, C
  <2> QED BY <1>3, <2>1, <2>5, TypeParts
<1>8. CASE OverflowEvent
  BY <1>1, <1>2, <1>3, <1>8, TypeParts
     DEF OverflowEvent, Received, Cached, Counts, cacheVars, readerVars
<1> QED BY <1>5, <1>6, <1>7, <1>8 DEF EventTask

LEMMA Texts ==
  ASSUME TypeOK, NEW k \in Offsets
  PROVE  buff_ser1[k + FrameSize["ACK"]][1] \in 1 .. Len(sent)
<1>1. FrameSize["ACK"] \in Nat \ {0}
  BY ReceiverAssumption DEF Kinds
<1>2. PICK i \in 1 .. Len(sent) : buff_ser1[k + FrameSize["ACK"]] = <<i, FrameSize["ACK"]>>
  BY <1>1 DEF Offsets, TextAt
<1> QED BY <1>2

\* A call takes no more than the cache holds, and what it takes was sent.
LEMMA ReaderKeepsType ==
  ASSUME TypeOK, Read_Message PROVE TypeOK'
<1> USE ReceiverAssumption
<1>1. Frames /\ Received /\ Cached /\ Taken /\ Counts
  BY TypeParts
<1>2. UNCHANGED <<sent, driverVars, cacheVars>>
  BY DEF Read_Message, ClaimsNothing, Claims, Claimed, Compares, ReadByte, TakesText, TakesData,
         Rejects, Judges
<1>3. Received' /\ Cached'
  BY <1>1, <1>2 DEF Received, Cached, driverVars, cacheVars
<1>4. ASSUME Takes PROVE Taken' /\ rx_buf_tail' \in 0 .. CacheSize
  <2>1. len' \in 0 .. CacheSize - 1
    <3>1. rx_buf_tail \in Nat /\ CacheSize \in Nat \ {0}
      BY <1>1 DEF Counts
    <3>2. rx_buf_tail % CacheSize \in 0 .. CacheSize - 1
      BY <3>1, Modulo
    <3> QED BY <1>4, <3>2 DEF Takes
  <2>2. buff_ser1' \in Seq(Cells(Len(sent'))) /\ Len(buff_ser1') = 0
    BY <1>4 DEF Takes
  <2> QED BY <1>4, <2>1, <2>2 DEF Takes, Taken
<1>5. CASE ClaimsNothing
  <2>1. spent' \in [Hindrances -> Nat]
    BY <1>1, <1>5 DEF ClaimsNothing, Bounded, Frames, Hindrances
  <2>2. Frames'
    BY <1>1, <1>2, <1>5, <2>1 DEF ClaimsNothing, Frames
  <2>3. Taken' /\ Counts'
    BY <1>1, <1>4, <1>5 DEF ClaimsNothing, Counts
  <2> QED BY <1>3, <2>2, <2>3, TypeParts
<1>6. CASE Claims
  BY <1>1, <1>2, <1>3, <1>6, TypeParts DEF Claims, Frames, Taken, Counts
<1>7. CASE Claimed
  <2>1. Frames'
    BY <1>1, <1>2, <1>7 DEF Claimed, Compares, Frames
  <2>2. CASE claimed # rx_buf_tail
    BY <1>1, <1>2, <1>3, <1>7, <2>1, <2>2, TypeParts DEF Claimed, Compares, Taken, Counts
  <2>3. CASE claimed = rx_buf_tail
    <3>1. Takes
      BY <1>7, <2>3 DEF Claimed, Compares
    <3>2. Taken' /\ Counts'
      BY <1>4, <1>7, <3>1 DEF Claimed, Compares, Counts
    <3> QED BY <1>3, <2>1, <3>2, TypeParts
  <2> QED BY <2>2, <2>3
<1>8. CASE ReadByte
  <2>1. Frames' /\ Counts'
    BY <1>1, <1>2, <1>8 DEF ReadByte, Frames, Counts
  <2>2. Len(buff_ser1) + 1 \in 1 .. CacheSize /\ Len(buff_ser1) + 1 <= len
    BY <1>1, <1>8 DEF ReadByte, Taken
  <2>3. s_rx_cache[Len(buff_ser1) + 1] \in Cells(Len(sent))
    BY <1>1, <2>2 DEF Cached
  <2>4. buff_ser1' \in Seq(Cells(Len(sent))) /\ Len(buff_ser1') = Len(buff_ser1) + 1
    BY <1>1, <1>8, <2>3 DEF ReadByte, Taken
  <2>5. Taken'
    BY <1>1, <1>2, <1>8, <2>2, <2>4 DEF ReadByte, Taken
  <2> QED BY <1>3, <2>1, <2>5, TypeParts
<1>9. CASE TakesText \/ TakesData \/ Rejects
  <2>1. Judges
    BY <1>9 DEF TakesText, TakesData, Rejects
  <2>2. Taken' /\ Counts'
    <3>1. buff_ser1' \in Seq(Cells(Len(sent'))) /\ Len(buff_ser1') = 0
      BY <2>1 DEF Judges
    <3> QED BY <1>1, <2>1, <3>1 DEF Judges, Taken, Counts
  <2>3. got' = got \/ \E i \in 1 .. Len(sent) : got' = Append(got, i)
    <3>1. CASE TakesText
      BY <3>1, Texts DEF TakesText
    <3>2. CASE TakesData
      BY <3>2 DEF TakesData
    <3>3. CASE Rejects
      BY <3>3 DEF Rejects
    <3> QED BY <1>9, <3>1, <3>2, <3>3
  <2>4. got' \in Seq(1 .. Len(sent))
    <3> DEFINE S == 1 .. Len(sent)
    <3>1. got \in Seq(S)
      BY <1>1 DEF Frames
    <3> HIDE DEF S
    <3>2. \A i \in S : Append(got, i) \in Seq(S)
      BY <3>1
    <3> QED BY <2>3, <3>1, <3>2 DEF S
  <2>5. Frames'
    BY <1>1, <1>2, <2>1, <2>4 DEF Judges, Frames
  <2> QED BY <1>3, <2>2, <2>5, TypeParts
<1> QED BY <1>5, <1>6, <1>7, <1>8, <1>9 DEF Read_Message

LEMMA TypeStep == TypeOK /\ [Next]_vars => TypeOK'
<1> SUFFICES ASSUME TypeOK, [Next]_vars PROVE TypeOK'
  OBVIOUS
<1>1. CASE Next
  BY <1>1, SendKeepsType, DriverKeepsType, EventTaskKeepsType, ReaderKeepsType DEF Next
<1>2. CASE UNCHANGED vars
  BY <1>2, TypeParts DEF vars, driverVars, cacheVars, readerVars, Frames, Received, Cached, Taken,
                         Counts
<1> QED BY <1>1, <1>2

-----------------------------------------------------------------------------
(* The theorem                                                              *)

\* Every variable keeps its range: whatever sizes the events of the driver
\* have, uart_event_task writes and Read_Message reads within the 128 bytes
\* of s_rx_cache, and buff_ser1 ends in a zero (Uart1.c 52-62, WBM_Serial.c
\* 142-149).
THEOREM TypeCorrect == Spec => []TypeOK
<1>1. Init => TypeOK
  BY TypeInit
<1>2. TypeOK /\ [Next]_vars => TypeOK'
  BY TypeStep
<1> QED BY <1>1, <1>2, PTL DEF Spec

-----------------------------------------------------------------------------
(* Half duplex, every frame is taken once                                   *)

\* The size of the last frame sent, and where its reception is.
Size == FrameSize[sent[Len(sent)].kind]

Waiting == s_rx_available = 0 /\ rx_buf_tail = 0 /\ reader = "away"
Announced ==
  \/ /\ s_rx_available = Size /\ rx_buf_tail = 0
     /\ reader = "away" \/ (reader = "claiming" /\ claimed = Size)
  \/ s_rx_available = 0 /\ rx_buf_tail = Size /\ reader = "away"
Copying ==
  /\ s_rx_available = 0 /\ rx_buf_tail = 0 /\ reader = "reading" /\ len = Size
  /\ \A p \in 1 .. Len(buff_ser1) : buff_ser1[p] = <<Len(sent), p>>
InCache == \A p \in 1 .. Size : s_rx_cache[p] = <<Len(sent), p>>

LineEmpty == fifo = <<>> /\ ring = <<>> /\ events = <<>>

\* The last frame is on the line, in an event, in the event task, or cached.
OnItsWay ==
  \/ /\ etask = "wait" /\ Waiting
     /\ fifo = Frame(Len(sent)) /\ ring = <<>> /\ events = <<>>
  \/ /\ etask = "wait" /\ Waiting
     /\ fifo = <<>> /\ ring = Frame(Len(sent)) /\ events = <<Size>>
  \/ LineEmpty /\ etask # "wait" /\ dtmp = Frame(Len(sent)) /\ Announced
  \/ LineEmpty /\ etask = "wait" /\ InCache /\ (Announced \/ Copying)

Consecutive == \A i \in 1 .. Len(got) : got[i] = i

CalmInv ==
  Calm => /\ Consecutive
          /\ \/ LineEmpty /\ etask = "wait" /\ Waiting /\ Len(got) = Len(sent)
             \/ sent # <<>> /\ OnItsWay /\ Len(got) + 1 = Len(sent)

LEMMA CalmInit == Init => CalmInv
  BY DEF Init, CalmInv, Consecutive, LineEmpty, Waiting

LEMMA LastFrame ==
  ASSUME TypeOK, sent # <<>>
  PROVE  /\ Size \in 1 .. CacheSize - 1 /\ Len(sent) \in Nat \ {0}
         /\ Frame(Len(sent)) \in Seq(Cells(Len(sent))) /\ Len(Frame(Len(sent))) = Size
         /\ \A p \in 1 .. Size : Frame(Len(sent))[p] = <<Len(sent), p>>
<1>1. Len(sent) \in Nat \ {0} /\ sent[Len(sent)].kind \in Kinds
  <2>1. sent \in Seq([kind : Kinds, calm : BOOLEAN])
    BY TypeParts DEF Frames
  <2>2. Len(sent) \in Nat \ {0} /\ sent[Len(sent)] \in [kind : Kinds, calm : BOOLEAN]
    BY <2>1, LastElement
  <2> QED BY <2>2
<1>2. Size \in 1 .. CacheSize - 1 /\ CacheSize \in Nat
  <2>1. \A k \in Kinds : FrameSize[k] \in 1 .. CacheSize - 1 /\ CacheSize \in Nat
    BY ReceiverAssumption
  <2> QED BY <1>1, <2>1 DEF Size
<1>3. Frame(Len(sent)) = [p \in 1 .. Size |-> <<Len(sent), p>>]
  BY DEF Frame, Size
<1>4. \A p \in 1 .. Size : <<Len(sent), p>> \in Cells(Len(sent))
  BY <1>1, <1>2 DEF Cells
<1> QED BY <1>1, <1>2, <1>3, <1>4

\* A line that is half duplex was so before the last step.
LEMMA HalfDuplexBefore ==
  ASSUME TypeOK, Next, HalfDuplex'
  PROVE  HalfDuplex /\ \A kind \in Kinds : Send(kind) => AtRest
<1>1. sent \in Seq([kind : Kinds, calm : BOOLEAN])
  BY DEF TypeOK
<1>2. ASSUME NEW kind \in Kinds, Send(kind) PROVE HalfDuplex /\ AtRest
  <2> DEFINE x == [kind |-> kind, calm |-> AtRest]
  <2>1. sent' = Append(sent, x)
    BY <1>2 DEF Send
  <2>2. /\ Len(sent') = Len(sent) + 1 /\ Len(sent) \in Nat /\ sent'[Len(sent) + 1] = x
        /\ \A i \in 1 .. Len(sent) : sent'[i] = sent[i]
    BY <1>1, <2>1 DEF AtRest
  <2>3. \A i \in 1 .. Len(sent') : sent'[i].calm
    BY DEF HalfDuplex
  <2>4. x.calm /\ \A i \in 1 .. Len(sent) : sent[i].calm
    BY <2>2, <2>3
  <2> QED BY <2>4 DEF HalfDuplex
<1>3. CASE sent' = sent
  BY <1>2, <1>3 DEF HalfDuplex
<1>4. CASE \E kind \in Kinds : Send(kind)
  BY <1>2, <1>4
<1>5. sent' = sent \/ \E kind \in Kinds : Send(kind)
  BY DEF Next, Interrupt, Pause, Announce, Overflows, EventTask, DataEvent, ClearCache, FillCache,
         OverflowEvent, Read_Message, ClaimsNothing, Claims, Claimed, Compares, ReadByte,
         TakesText, TakesData, Rejects, Judges
<1> QED BY <1>3, <1>4, <1>5

\* A run that is calm was calm, and nothing was spent by its last step.
LEMMA CalmBefore ==
  ASSUME TypeOK, Next, Calm'
  PROVE  /\ Calm /\ spent' = spent
         /\ \A kind \in Kinds : Send(kind) => AtRest
<1> USE DEF Hindrances
<1>1. spent \in [Hindrances -> Nat]
  BY DEF TypeOK
<1>2. \A k \in Hindrances : spent'[k] = 0
  BY DEF Calm
<1>3. ASSUME NEW k \in Hindrances, NEW max, Bounded(k, max) PROVE FALSE
  BY <1>1, <1>2, <1>3 DEF Bounded
<1>4. spent' = spent
  BY <1>3 DEF Next, Send, Interrupt, Pause, Overflows, EventTask, DataEvent, ClearCache, FillCache,
         OverflowEvent, Read_Message, ClaimsNothing, Claims, Claimed, Compares, ReadByte,
         TakesText, TakesData, Rejects, Judges
<1> QED BY <1>2, <1>4, HalfDuplexBefore DEF Calm

\* A frame is sent only to a receiver at rest, and is the last one then.
LEMMA CalmSend ==
  ASSUME TypeOK, CalmInv, Calm, NEW kind \in Kinds, Send(kind), AtRest
  PROVE  Consecutive' /\ sent' # <<>> /\ OnItsWay' /\ Len(got') + 1 = Len(sent')
<1>1. /\ sent \in Seq([kind : Kinds, calm : BOOLEAN]) /\ Len(sent) \in Nat
      /\ FrameSize[kind] \in Nat \ {0}
  BY ReceiverAssumption DEF TypeOK
<1>2. Len(got) = Len(sent) /\ Consecutive
  <2>1. CASE sent # <<>> /\ OnItsWay
    BY <2>1, LastFrame DEF OnItsWay, AtRest, Announced, Copying
  <2> QED BY <2>1 DEF CalmInv
<1> DEFINE n == Len(sent) + 1
           f == [p \in 1 .. FrameSize[kind] |-> <<n, p>>]
<1>3. /\ Len(sent') = n /\ sent'[n].kind = kind /\ sent' # <<>>
  BY <1>1 DEF Send
<1>4. Frame(Len(sent))' = f
  BY <1>3 DEF Frame
<1>5. f \in Seq({<<n, p>> : p \in 1 .. FrameSize[kind]})
  BY <1>1
<1>6. fifo' = <<>> \o f /\ UNCHANGED <<ring, events, etask, s_rx_available, rx_buf_tail, reader, got>>
  BY DEF Send, AtRest, cacheVars, readerVars
<1>7. fifo' = f
  BY <1>5, <1>6
<1>8. OnItsWay'
  BY <1>4, <1>6, <1>7 DEF OnItsWay, Waiting, AtRest
<1> QED BY <1>1, <1>2, <1>3, <1>6, <1>8 DEF Consecutive

\* The driver and the event task pass it on.
LEMMA CalmDelivery ==
  ASSUME TypeOK, sent # <<>>, OnItsWay, Interrupt \/ EventTask
  PROVE  OnItsWay' /\ got' = got
<1>0. /\ UNCHANGED <<sent, reader, claimed, rx_buf_tail, len, buff_ser1, got>>
      /\ Frame(Len(sent))' = Frame(Len(sent)) /\ Size' = Size
  BY DEF Interrupt, Announce, EventTask, DataEvent, ClearCache, FillCache, OverflowEvent,
         readerVars, Frame, Size
<1> DEFINE f == Frame(Len(sent))
<1>1. /\ Size \in 1 .. CacheSize - 1 /\ f \in Seq(Cells(Len(sent))) /\ Len(f) = Size /\ f # <<>>
      /\ \A p \in 1 .. Size : f[p] = <<Len(sent), p>>
  BY LastFrame
<1> HIDE DEF f
<1>2. SubSeq(f, 1, Size) = f /\ SubSeq(f, Size + 1, Size) = <<>> /\ <<>> \o f = f
  BY <1>1
<1>3. CASE Interrupt
  <2>1. etask = "wait" /\ Waiting /\ fifo = f /\ ring = <<>> /\ events = <<>>
    BY <1>3 DEF OnItsWay, Interrupt, LineEmpty, f
  <2>2. ring' = f /\ fifo' = <<>>
    BY <1>1, <1>2, <1>3, <2>1 DEF Interrupt, Announce
  <2>3. events' = <<Size>>
    BY <1>1, <1>3, <2>1, ReceiverAssumption DEF Interrupt, Announce
  <2>4. UNCHANGED <<s_rx_available, etask>>
    BY <1>3 DEF Interrupt, Announce, cacheVars
  <2> QED BY <1>0, <2>1, <2>2, <2>3, <2>4 DEF OnItsWay, Waiting, f
<1>4. CASE DataEvent
  <2>1. Waiting /\ fifo = <<>> /\ ring = f /\ events = <<Size>>
    BY <1>4 DEF OnItsWay, DataEvent, LineEmpty, f
  <2>2. Head(events) = Size /\ Tail(events) = <<>> /\ Smaller(Size, CacheSize) = Size
    BY <1>1, <2>1, ReceiverAssumption DEF Smaller
  <2>3. /\ dtmp' = f /\ ring' = <<>> /\ events' = <<>> /\ fifo' = <<>>
        /\ s_rx_available' = Size /\ etask' = "memset"
    BY <1>1, <1>2, <1>4, <2>1, <2>2 DEF DataEvent
  <2> QED BY <1>0, <2>1, <2>3 DEF OnItsWay, LineEmpty, Waiting, Announced, f
<1>5. CASE ClearCache
  <2>1. LineEmpty /\ dtmp = f /\ Announced
    BY <1>5 DEF OnItsWay, ClearCache, f
  <2>2. UNCHANGED <<fifo, ring, events, dtmp, s_rx_available>> /\ etask' = "memcpy"
    BY <1>5 DEF ClearCache, driverVars
  <2> QED BY <1>0, <2>1, <2>2 DEF OnItsWay, LineEmpty, Announced, f
<1>6. CASE FillCache
  <2>1. LineEmpty /\ dtmp = f /\ Announced
    BY <1>6 DEF OnItsWay, FillCache, f
  <2>2. UNCHANGED <<fifo, ring, events, s_rx_available>> /\ etask' = "wait"
    BY <1>6 DEF FillCache, driverVars
  <2>3. \A p \in 1 .. Size : s_rx_cache'[p] = <<Len(sent), p>>
    BY <1>1, <1>6, <2>1, ReceiverAssumption DEF FillCache
  <2>4. Announced' /\ LineEmpty' /\ InCache'
    BY <1>0, <2>1, <2>2, <2>3 DEF LineEmpty, Announced, InCache
  <2> QED BY <1>0, <2>2, <2>4 DEF OnItsWay
<1>7. CASE OverflowEvent
  <2>1. events = <<Size>>
    BY <1>7 DEF OnItsWay, OverflowEvent, LineEmpty
  <2> QED BY <1>1, <1>7, <2>1 DEF OverflowEvent, Overflow
<1> QED BY <1>0, <1>3, <1>4, <1>5, <1>6, <1>7 DEF EventTask

\* Read_Message claims its length once, copies it and takes it.
LEMMA CalmReading ==
  ASSUME TypeOK, sent # <<>>, OnItsWay, Read_Message, spent' = spent
  PROVE  \/ OnItsWay' /\ got' = got
         \/ LineEmpty' /\ etask' = "wait" /\ Waiting' /\ got' = Append(got, Len(sent))
<1> DEFINE n == Len(sent)
<1>0. /\ UNCHANGED <<sent, fifo, ring, events, s_rx_cache, etask, dtmp>>
      /\ Frame(Len(sent))' = Frame(Len(sent)) /\ Size' = Size
  BY DEF Read_Message, ClaimsNothing, Claims, Claimed, Compares, ReadByte, TakesText, TakesData,
         Rejects, Judges, driverVars, cacheVars, Frame, Size
<1>1. /\ Size \in 1 .. CacheSize - 1 /\ n \in Nat \ {0} /\ CacheSize \in Nat
      /\ Frame(n) \in Seq(Cells(n)) /\ Len(Frame(n)) = Size
      /\ \A p \in 1 .. Size : Frame(n)[p] = <<n, p>>
  BY LastFrame, ReceiverAssumption
<1>3. LineEmpty'  <=> LineEmpty
  BY <1>0 DEF LineEmpty
<1>4. InCache' <=> InCache
  BY <1>0 DEF InCache
\* While the length is announced, the rest of the receiver does not matter.
<1>5. ASSUME Announced, Announced' PROVE OnItsWay'
  <2>1. \/ LineEmpty /\ etask # "wait" /\ dtmp = Frame(n)
        \/ LineEmpty /\ etask = "wait" /\ InCache
    BY <1>1, <1>5 DEF OnItsWay, Announced, Waiting
  <2> QED BY <1>0, <1>3, <1>4, <1>5, <2>1 DEF OnItsWay
<1>6. CASE ClaimsNothing
  <2>1. spent["stall"] \in Nat /\ spent \in [Hindrances -> Nat]
    BY DEF TypeOK, Hindrances
  <2>2. etask = "wait"
    BY <1>6, <2>1 DEF ClaimsNothing, Bounded, Hindrances
  <2>3. LineEmpty /\ InCache /\ rx_buf_tail = Size /\ s_rx_available = 0
    BY <1>1, <1>6, <2>2 DEF ClaimsNothing, OnItsWay, Announced, Waiting, Copying
  <2>4. Size % CacheSize = Size
    BY <1>1, SmallModulo
  <2>5. /\ s_rx_available' = 0 /\ rx_buf_tail' = 0 /\ reader' = "reading" /\ len' = Size
        /\ buff_ser1' = <<>> /\ got' = got
    BY <1>6, <2>3, <2>4 DEF ClaimsNothing, Takes
  <2>6. Copying'
    BY <1>0, <2>5 DEF Copying
  <2> QED BY <1>0, <1>3, <1>4, <2>2, <2>3, <2>5, <2>6 DEF OnItsWay
<1>7. CASE Claims
  <2>1. Announced /\ s_rx_available = Size /\ rx_buf_tail = 0
    BY <1>7 DEF Claims, OnItsWay, Waiting, Copying, Announced
  <2>2. /\ s_rx_available' = Size /\ rx_buf_tail' = 0 /\ reader' = "claiming" /\ claimed' = Size
        /\ got' = got
    BY <1>7, <2>1 DEF Claims
  <2>3. Announced'
    BY <1>0, <2>2 DEF Announced
  <2> QED BY <1>5, <2>1, <2>2, <2>3
<1>8. CASE Claimed
  <2>1. Announced /\ claimed = Size /\ rx_buf_tail = 0
    BY <1>8 DEF Claimed, Compares, OnItsWay, Waiting, Copying, Announced
  <2>2. s_rx_available' = 0 /\ rx_buf_tail' = Size /\ reader' = "away" /\ got' = got
    BY <1>1, <1>8, <2>1 DEF Claimed, Compares
  <2>3. Announced'
    BY <1>0, <2>2 DEF Announced
  <2> QED BY <1>5, <2>1, <2>2, <2>3
<1>9. ASSUME reader = "reading"
      PROVE  LineEmpty /\ etask = "wait" /\ InCache /\ Copying
  BY <1>9 DEF OnItsWay, Waiting, Announced
<1>10. buff_ser1 \in Seq(Cells(n)) /\ Len(buff_ser1) \in Nat
  BY TypeParts DEF Taken
<1>11. CASE ReadByte
  <2> DEFINE k == Len(buff_ser1) + 1
  <2>1. Copying /\ InCache /\ LineEmpty /\ etask = "wait" /\ k \in 1 .. Size
    BY <1>1, <1>9, <1>10, <1>11 DEF ReadByte, Copying
  <2>2. s_rx_cache[k] = <<n, k>> /\ s_rx_cache[k] \in Cells(n)
    BY <1>1, <2>1, TypeParts DEF InCache, Cached
  <2>3. buff_ser1' = Append(buff_ser1, s_rx_cache[k])
    BY <1>11 DEF ReadByte
  <2>4. \A p \in 1 .. Len(buff_ser1') : buff_ser1'[p] = <<n, p>>
    BY <1>10, <2>1, <2>2, <2>3 DEF Copying
  <2>5. UNCHANGED <<s_rx_available, rx_buf_tail, reader, len, got>>
    BY <1>11 DEF ReadByte
  <2>6. Copying'
    BY <1>0, <2>1, <2>4, <2>5 DEF Copying
  <2> QED BY <1>0, <1>3, <1>4, <2>1, <2>5, <2>6 DEF OnItsWay
<1>12. CASE TakesText \/ TakesData \/ Rejects
  <2>1. Judges /\ reader = "reading" /\ Len(buff_ser1) = len /\ reader' = "away"
        /\ UNCHANGED <<s_rx_available, rx_buf_tail>>
    BY <1>12 DEF TakesText, TakesData, Rejects, Judges
  <2>2. LineEmpty /\ etask = "wait" /\ Copying /\ Len(buff_ser1) = Size
    BY <1>9, <2>1 DEF Copying
  <2>3. \A p \in 1 .. Size : buff_ser1[p] = <<n, p>>
    BY <2>2 DEF Copying
  <2>4. buff_ser1 = Frame(n)
    BY <1>1, <1>10, <2>2, <2>3, SameSequence
  <2>5. LineEmpty' /\ etask' = "wait" /\ Waiting'
    BY <1>0, <1>3, <2>1, <2>2 DEF Waiting, Copying
  <2>6. got' = Append(got, n)
    <3> DEFINE a == FrameSize["ACK"]
    <3>1. a \in Nat \ {0} /\ sent[n].kind \in Kinds /\ n \in 1 .. Len(sent)
      <4>1. sent \in Seq([kind : Kinds, calm : BOOLEAN]) /\ n \in 1 .. Len(sent)
        BY <1>1, TypeParts DEF Frames
      <4>2. sent[n] \in [kind : Kinds, calm : BOOLEAN]
        BY <4>1, LastElement
      <4> QED BY <4>1, <4>2, ReceiverAssumption DEF Kinds
    <3>2. \A k \in Offsets : /\ k \in Nat /\ k + a <= Size /\ sent[n].kind = "ACK"
                            /\ buff_ser1[k + a][1] = n
      <4> SUFFICES ASSUME NEW k \in Offsets
                   PROVE  k \in Nat /\ k + a <= Size /\ sent[n].kind = "ACK"
                          /\ buff_ser1[k + a][1] = n
        OBVIOUS
      <4>1. k \in Nat /\ k + a <= Size /\ TextAt(k)
        BY <1>10, <2>2 DEF Offsets, TextAt
      <4>2. PICK i \in 1 .. Len(sent) : sent[i].kind = "ACK" /\ buff_ser1[k + a] = <<i, a>>
        BY <3>1, <4>1 DEF TextAt
      <4>3. buff_ser1[k + a] = <<n, k + a>>
        BY <2>3, <3>1, <4>1
      <4> QED BY <4>1, <4>2, <4>3
    <3>3. CASE TakesText
      BY <3>2, <3>3 DEF TakesText
    <3>4. CASE TakesData
      <4>1. PICK i \in 1 .. Len(sent) : DataAs(i) /\ got' = Append(got, i)
        BY <3>4 DEF TakesData
      <4>2. FrameSize[sent[i].kind] \in Nat \ {0}
        BY <4>1, ReceiverAssumption DEF DataAs, Kinds
      <4>3. buff_ser1[1] = <<i, 1>>
        BY <4>1, <4>2 DEF DataAs, Frame
      <4>4. buff_ser1[1] = <<n, 1>>
        BY <1>1, <2>3
      <4> QED BY <4>1, <4>3, <4>4
    <3>5. CASE Rejects
      <4>1. sent[n].kind # "data" /\ 0 \notin Offsets
        BY <2>4, <3>1, <3>5 DEF Rejects, DataAs
      <4>2. sent[n].kind = "ACK" /\ Size = a
        BY <3>1, <4>1 DEF Kinds, Size
      <4>3. TextAt(0)
        BY <2>2, <2>3, <3>1, <4>2 DEF TextAt
      <4> QED BY <1>10, <4>1, <4>3 DEF Offsets
    <3> QED BY <1>12, <3>3, <3>4, <3>5
  <2> QED BY <2>5, <2>6
<1> QED BY <1>6, <1>7, <1>8, <1>11, <1>12 DEF Read_Message

LEMMA CalmStep == TypeOK /\ CalmInv /\ [Next]_vars => CalmInv'
<1> SUFFICES ASSUME TypeOK, CalmInv, [Next]_vars, Calm'
             PROVE  CalmInv'
  BY DEF CalmInv
<1>1. CASE UNCHANGED vars
  BY <1>1 DEF CalmInv, vars, driverVars, cacheVars, readerVars, Calm, HalfDuplex, Consecutive, LineEmpty,
              Waiting, OnItsWay, Announced, Copying, InCache, Size, Frame
<1>2. CASE Next
  <2>1. Calm /\ spent' = spent /\ \A kind \in Kinds : Send(kind) => AtRest
    BY <1>2, CalmBefore
  <2>2. Consecutive /\ got \in Seq(1 .. Len(sent)) /\ Len(got) \in Nat
    BY <2>1 DEF CalmInv, TypeOK
  <2>3. ~Pause /\ ~Overflows
    <3>1. \A k \in Hindrances : spent[k] \in Nat
      BY DEF TypeOK
    <3>2. ASSUME NEW k \in Hindrances, NEW max, Bounded(k, max) PROVE FALSE
      <4>1. spent \in [Hindrances -> Nat] /\ spent'[k] = spent[k]
        BY <2>1 DEF TypeOK
      <4> QED BY <3>1, <3>2, <4>1 DEF Bounded
    <3> QED BY <3>2 DEF Pause, Overflows, Hindrances
  <2>4. ASSUME NEW kind \in Kinds, Send(kind) PROVE CalmInv'
    BY <2>1, <2>4, CalmSend DEF CalmInv
  <2>5. ASSUME Interrupt \/ EventTask \/ Read_Message PROVE CalmInv'
    <3>1. sent' = sent
      BY <2>5 DEF Interrupt, Announce, EventTask, DataEvent, ClearCache, FillCache, OverflowEvent,
             Read_Message, ClaimsNothing, Claims, Claimed, Compares, ReadByte, TakesText, TakesData,
             Rejects, Judges
    <3>2. CASE LineEmpty /\ etask = "wait" /\ Waiting
      BY <2>5, <3>2 DEF LineEmpty, Waiting, Interrupt, EventTask, DataEvent, ClearCache, FillCache,
             OverflowEvent, Read_Message, ClaimsNothing, Claims, Claimed, Compares, ReadByte,
             TakesText, TakesData, Rejects, Judges
    <3>3. CASE sent # <<>> /\ OnItsWay /\ Len(got) + 1 = Len(sent)
      <4>1. \/ OnItsWay' /\ got' = got
            \/ LineEmpty' /\ etask' = "wait" /\ Waiting' /\ got' = Append(got, Len(sent))
        BY <2>1, <2>5, <3>3, CalmDelivery, CalmReading
      <4>2. CASE OnItsWay' /\ got' = got
        BY <2>2, <3>1, <3>3, <4>2 DEF CalmInv, Consecutive
      <4>3. CASE LineEmpty' /\ etask' = "wait" /\ Waiting' /\ got' = Append(got, Len(sent))
        <5>1. Len(got') = Len(sent') /\ Consecutive'
          BY <2>2, <3>1, <3>3, <4>3 DEF Consecutive
        <5> QED BY <4>3, <5>1 DEF CalmInv
      <4> QED BY <4>1, <4>2, <4>3
    <3> QED BY <2>1, <3>2, <3>3 DEF CalmInv
  <2> QED BY <1>2, <2>3, <2>4, <2>5 DEF Next
<1> QED BY <1>1, <1>2

\* As long as the line is used half duplex and nothing hinders the driver or
\* the event task, every frame is taken exactly once: only the last one may
\* be missing (Uart1.c 155-170, WBM_Serial.c 118-143).
THEOREM HalfDuplexIsExact == Spec => []CalmIsExact
<1>1. TypeOK /\ CalmInv => CalmIsExact
  <2> SUFFICES ASSUME TypeOK, CalmInv, Calm
               PROVE  Len(sent) <= Len(got) + 1 /\ got = [i \in 1 .. Len(got) |-> i]
    BY DEF CalmIsExact
  <2>1. got \in Seq(1 .. Len(sent)) /\ Len(got) \in Nat /\ Len(sent) \in Nat
    BY DEF TypeOK
  <2>2. Consecutive /\ (Len(got) = Len(sent) \/ Len(got) + 1 = Len(sent))
    BY DEF CalmInv
  <2> QED BY <2>1, <2>2 DEF Consecutive
<1> QED BY <1>1, CalmInit, CalmStep, TypeCorrect, PTL DEF Spec

-----------------------------------------------------------------------------
(* FramesInOrder: what holds on a half-duplex line whatever pauses,          *)
(* overflows and delays there are.                                           *)

\* The driver holds a part of the last frame, from behind its first s bytes.
LineFrom(s) ==
  /\ s + Len(ring) + Len(fifo) <= Size
  /\ \A q \in 1 .. Len(ring) : ring[q] = <<Len(sent), s + q>>
  /\ \A q \in 1 .. Len(fifo) : fifo[q] = <<Len(sent), s + Len(ring) + q>>

\* Bytes that no frame can be made of, wherever else the others come from:
\* those of the last frame, without its beginning or without its end.
Pieces(bytes, m) ==
  \A q \in 1 .. m :
     \/ bytes[q] = Zero
     \/ \E p \in Nat : bytes[q] = <<Len(sent), p>> /\ q <= p /\ q < Size

\* A length is published, seen once, or being read under, and no other is.
OneClaim ==
  \/ s_rx_available # 0 /\ rx_buf_tail = 0 /\ reader \in {"away", "claiming"}
  \/ s_rx_available = 0 /\ rx_buf_tail # 0 /\ reader = "away"
  \/ s_rx_available = 0 /\ rx_buf_tail = 0 /\ reader = "reading"
Single == (Waiting /\ Len(got) <= Len(sent)) \/ (OneClaim /\ Len(got) < Len(sent))

\* The event task has read nothing of the last frame; all there is of it;
\* its beginning, while the cache still holds what came before; or a piece
\* that has taken the place of that.
Untouched == sent # <<>> /\ etask = "wait" /\ Waiting /\ Len(got) < Len(sent) /\ LineFrom(0)
Passed == ring = <<>> /\ fifo = <<>> /\ Single
CutOff == /\ sent # <<>> /\ etask = "memset" /\ Single
          /\ \E s \in Nat \ {0} : LineFrom(s)
          /\ Pieces(dtmp, Len(dtmp))
InPieces == /\ sent # <<>> /\ Len(got) <= Len(sent)
            /\ \E s \in Nat \ {0} : LineFrom(s)
            /\ Pieces(dtmp, Len(dtmp)) /\ Pieces(s_rx_cache, CacheSize)
            /\ Len(got) = Len(sent) => Pieces(buff_ser1, Len(buff_ser1))
Reception == Untouched \/ Passed \/ CutOff \/ InPieces

Emptied == (reader # "reading" => buff_ser1 = <<>>) /\ (etask = "wait" => dtmp = <<>>)

\* The bytes in the cache are of one frame, those that were copied of this or
\* an earlier one, and what was taken last is no later than any of them.
Latest == IF got = <<>> THEN 0 ELSE got[Len(got)]
Between(c, i, j) == c = Zero \/ (i <= c[1] /\ c[1] <= j)
UpTo(j) ==
  /\ \A q \in 1 .. CacheSize : Between(s_rx_cache[q], j, j)
  /\ \A q \in 1 .. Len(buff_ser1) : Between(buff_ser1[q], Latest, j)
Ordered == /\ \A q \in 1 .. Len(dtmp) : dtmp[q][1] = Len(sent)
           /\ \E j \in Latest .. Len(sent) : UpTo(j)

FlightInv == HalfDuplex => Emptied /\ Ordered /\ Reception

LEMMA Numbers ==
  ASSUME TypeOK
  PROVE  /\ Len(sent) \in Nat /\ Len(got) \in Nat /\ Latest \in 0 .. Len(sent)
         /\ got \in Seq(1 .. Len(sent))
<1>1. sent \in Seq([kind : Kinds, calm : BOOLEAN]) /\ got \in Seq(1 .. Len(sent))
  BY DEF TypeOK
<1>2. CASE got = <<>>
  BY <1>1, <1>2 DEF Latest
<1>3. CASE got # <<>>
  <2>1. got[Len(got)] \in 1 .. Len(sent)
    BY <1>1, <1>3, LastElement
  <2> QED BY <1>1, <1>3, <2>1 DEF Latest
<1> QED BY <1>2, <1>3

LEMMA FlightInit == Init => FlightInv
<1> SUFFICES ASSUME Init PROVE Emptied /\ Ordered /\ Passed
  BY DEF FlightInv, Reception
<1>1. Len(sent) = 0 /\ Len(got) = 0 /\ Latest = 0
  BY DEF Init, Latest
<1>2. UpTo(0)
  BY DEF Init, UpTo, Between
<1> QED BY <1>1, <1>2 DEF Init, Emptied, Ordered, Passed, Single, Waiting

\* A receiver at rest has taken no more frames than were sent, and has room
\* for the next one.
LEMMA FlightSend ==
  ASSUME TypeOK, Emptied, Ordered, Reception, NEW kind \in Kinds, Send(kind), AtRest
  PROVE  Emptied' /\ Ordered' /\ Reception'
<1> DEFINE n == Len(sent) + 1
           f == [p \in 1 .. FrameSize[kind] |-> <<n, p>>]
<1>1. /\ sent \in Seq([kind : Kinds, calm : BOOLEAN]) /\ Len(sent) \in Nat
      /\ FrameSize[kind] \in Nat \ {0}
  BY ReceiverAssumption DEF TypeOK
<1>2. Len(got) <= Len(sent) /\ Len(got) \in Nat
  BY Numbers DEF Reception, Untouched, Passed, CutOff, InPieces, Single
<1>3. Len(sent') = n /\ sent'[n].kind = kind /\ sent' # <<>>
  BY <1>1 DEF Send
<1>4. f \in Seq(Cells(n)) /\ Len(f) = FrameSize[kind]
  <2>1. f \in Seq(Cells(n))
    BY <1>1, FrameBytes
  <2>2. DOMAIN f = 1 .. FrameSize[kind]
    OBVIOUS
  <2> HIDE DEF f
  <2> QED BY <1>1, <2>1, <2>2
<1>5. fifo' = <<>> \o f /\ ring' = <<>> /\ ring' \in Seq({})
  BY DEF Send, AtRest
<1>6. fifo' = f
  BY <1>4, <1>5
<1>7. UNCHANGED <<etask, dtmp, s_rx_cache, s_rx_available, rx_buf_tail, reader, buff_ser1, got>>
  BY DEF Send, cacheVars, readerVars
<1>8. Size' = FrameSize[kind]
  BY <1>3 DEF Size
<1>9. LineFrom(0)'
  BY <1>1, <1>3, <1>4, <1>5, <1>6, <1>8 DEF LineFrom
<1>10. Untouched'
  BY <1>1, <1>2, <1>3, <1>7, <1>9 DEF Untouched, Waiting, AtRest
<1>11. dtmp' = <<>> /\ buff_ser1' = <<>> /\ Latest' = Latest
  BY <1>7 DEF Emptied, AtRest, Latest
<1>12. Ordered'
  <2>1. PICK j \in Latest .. Len(sent) : UpTo(j)
    BY DEF Ordered
  <2>2. UpTo(j)' /\ j \in Latest' .. Len(sent')
    BY <1>1, <1>3, <1>7, <1>11, <2>1, Numbers DEF UpTo
  <2> QED BY <1>11, <2>2 DEF Ordered
<1> QED BY <1>7, <1>10, <1>11, <1>12 DEF Emptied, Reception

\* The driver passes the line's bytes on or drops them from the end.
LEMMA LineKept ==
  ASSUME TypeOK, sent # <<>>, NEW s \in Nat, LineFrom(s),
         Interrupt \/ Pause \/ Overflows \/ OverflowEvent
  PROVE  LineFrom(s)'
<1>1. /\ fifo \in Seq(Cells(Len(sent))) /\ ring \in Seq(Cells(Len(sent)))
      /\ Size \in Nat /\ Len(fifo) \in Nat /\ Len(ring) \in Nat
  BY TypeParts, LastFrame DEF Received
<1>2. sent' = sent /\ Size' = Size
  BY DEF Interrupt, Pause, Overflows, OverflowEvent, Announce, Size
<1>3. ASSUME NEW n \in 1 .. Len(fifo), Announce(n) PROVE LineFrom(s)'
  <2> DEFINE a == SubSeq(fifo, 1, n)
             b == SubSeq(fifo, n + 1, Len(fifo))
  <2>1. /\ a \in Seq(Cells(Len(sent))) /\ Len(a) = n /\ \A q \in 1 .. n : a[q] = fifo[q]
        /\ b \in Seq(Cells(Len(sent))) /\ Len(b) = Len(fifo) - n
        /\ \A q \in 1 .. Len(fifo) - n : b[q] = fifo[n + q]
    BY <1>1
  <2>2. ring' = ring \o a /\ fifo' = b
    BY <1>3 DEF Announce
  <2> HIDE DEF a, b
  <2>3. /\ Len(ring') = Len(ring) + n /\ Len(fifo') = Len(fifo) - n
        /\ \A q \in 1 .. Len(ring) : ring'[q] = ring[q]
        /\ \A q \in 1 .. n : ring'[Len(ring) + q] = a[q]
    <3> DEFINE C == Cells(Len(sent))
    <3>1. ring \in Seq(C) /\ a \in Seq(C)
      BY <1>1, <2>1
    <3> HIDE DEF C
    <3>2. /\ Len(ring \o a) = Len(ring) + Len(a)
          /\ \A q \in 1 .. Len(ring) : (ring \o a)[q] = ring[q]
          /\ \A q \in 1 .. Len(a) : (ring \o a)[Len(ring) + q] = a[q]
      BY <3>1, Joined
    <3> QED BY <2>1, <2>2, <3>2
  <2>4. \A q \in 1 .. Len(ring') : ring'[q] = <<Len(sent), s + q>>
    <3> SUFFICES ASSUME NEW q \in 1 .. Len(ring') PROVE ring'[q] = <<Len(sent), s + q>>
      OBVIOUS
    <3>1. CASE q \in 1 .. Len(ring)
      BY <2>3, <3>1 DEF LineFrom
    <3>2. CASE q \notin 1 .. Len(ring)
      <4> DEFINE r == q - Len(ring)
      <4>1. r \in 1 .. n /\ r \in 1 .. Len(fifo) /\ q = Len(ring) + r
        BY <1>1, <2>3, <3>2
      <4>2. ring'[q] = fifo[r]
        BY <2>1, <2>3, <4>1
      <4>3. fifo[r] = <<Len(sent), s + Len(ring) + r>>
        BY <4>1 DEF LineFrom
      <4>4. s + Len(ring) + r = s + q
        BY <1>1, <4>1
      <4> QED BY <4>2, <4>3, <4>4
    <3> QED BY <3>1, <3>2
  <2>5. \A q \in 1 .. Len(fifo') : fifo'[q] = <<Len(sent), s + Len(ring') + q>>
    <3> SUFFICES ASSUME NEW q \in 1 .. Len(fifo')
                 PROVE  fifo'[q] = <<Len(sent), s + Len(ring') + q>>
      OBVIOUS
    <3>1. fifo'[q] = fifo[n + q] /\ n + q \in 1 .. Len(fifo)
      BY <1>1, <2>1, <2>2, <2>3
    <3>2. fifo[n + q] = <<Len(sent), s + Len(ring) + (n + q)>>
      BY <3>1 DEF LineFrom
    <3>3. s + Len(ring) + (n + q) = s + Len(ring') + q
      BY <1>1, <2>3
    <3> QED BY <3>1, <3>2, <3>3
  <2>6. s + Len(ring') + Len(fifo') = s + Len(ring) + Len(fifo)
    BY <1>1, <2>3
  <2>7. s + Len(ring) + Len(fifo) <= Size
    BY DEF LineFrom
  <2>8. s + Len(ring') + Len(fifo') <= Size'
    BY <1>2, <2>6, <2>7
  <2>9. \A q \in 1 .. Len(ring') : ring'[q] = <<Len(sent'), s + q>>
    BY <1>2, <2>4
  <2>10. \A q \in 1 .. Len(fifo') : fifo'[q] = <<Len(sent'), s + Len(ring') + q>>
    BY <1>2, <2>5
  <2> HIDE DEF LineFrom
  <2> QED BY <2>8, <2>9, <2>10 DEF LineFrom
<1>4. CASE Interrupt
  <2>1. Len(fifo) \in 1 .. Len(fifo) /\ Announce(Len(fifo))
    BY <1>1, <1>4 DEF Interrupt
  <2> QED BY <1>3, <2>1
<1>5. CASE Pause
  BY <1>1, <1>3, <1>5 DEF Pause
<1>6. CASE Overflows
  BY <1>1, <1>2, <1>6 DEF Overflows, LineFrom
<1>7. CASE OverflowEvent
  BY <1>1, <1>2, <1>7 DEF OverflowEvent, LineFrom
<1> QED BY <1>4, <1>5, <1>6, <1>7

\* An event whose bytes are there is read from the front of the line.
LEMMA LineRead ==
  ASSUME TypeOK, sent # <<>>, NEW s \in Nat, LineFrom(s), DataEvent
  PROVE  \E e \in Nat \ {0} :
           /\ LineFrom(s + e)' /\ s + e <= Size /\ s_rx_available' # 0
           /\ Len(dtmp') = e /\ \A q \in 1 .. e : dtmp'[q] = <<Len(sent), s + q>>
<1>1. /\ ring \in Seq(Cells(Len(sent))) /\ events \in Seq(Nat) /\ fifo \in Seq(Cells(Len(sent)))
      /\ Size \in 1 .. CacheSize - 1 /\ CacheSize \in Nat /\ Len(ring) \in Nat /\ Len(fifo) \in Nat
  BY TypeParts, LastFrame, ReceiverAssumption DEF Received
<1>2. PICK e \in Nat \ {0} : e = Head(events) /\ e <= Len(ring)
  BY <1>1 DEF DataEvent, Overflow
<1>2a. s + Len(ring) + Len(fifo) <= Size
  BY DEF LineFrom
<1>3. Smaller(e, CacheSize) = e
  BY <1>1, <1>2, <1>2a DEF Smaller
<1>4. /\ dtmp' = SubSeq(ring, 1, e) /\ ring' = SubSeq(ring, e + 1, Len(ring))
      /\ s_rx_available' = e /\ fifo' = fifo /\ sent' = sent /\ Size' = Size
  BY <1>2, <1>3 DEF DataEvent, Size
<1>5. Len(dtmp') = e /\ \A q \in 1 .. e : dtmp'[q] = ring[q]
  <2> DEFINE C == Cells(Len(sent))
  <2>1. ring \in Seq(C)
    BY <1>1
  <2> HIDE DEF C
  <2>2. Len(SubSeq(ring, 1, e)) = e /\ \A q \in 1 .. e : SubSeq(ring, 1, e)[q] = ring[q]
    BY <2>1, <1>2, SMTT(30)
  <2> QED BY <1>4, <2>2
<1>6. /\ Len(ring') = Len(ring) - e
      /\ \A q \in 1 .. Len(ring) - e : ring'[q] = ring[e + q]
  BY <1>1, <1>2, <1>4, Behind
<1>7. \A q \in 1 .. Len(ring') : ring'[q] = <<Len(sent), (s + e) + q>>
  <2> SUFFICES ASSUME NEW q \in 1 .. Len(ring')
               PROVE  ring'[q] = <<Len(sent), (s + e) + q>>
    OBVIOUS
  <2>1. q \in 1 .. Len(ring) - e /\ e + q \in 1 .. Len(ring)
    BY <1>1, <1>2, <1>6
  <2>1a. ring'[q] = ring[e + q]
    BY <1>6, <2>1
  <2>2. ring[e + q] = <<Len(sent), s + (e + q)>>
    BY <2>1 DEF LineFrom
  <2>3. s + (e + q) = (s + e) + q
    BY <1>2
  <2> QED BY <2>1a, <2>2, <2>3
<1>8. \A q \in 1 .. Len(fifo') : fifo'[q] = <<Len(sent), (s + e) + Len(ring') + q>>
  <2> SUFFICES ASSUME NEW q \in 1 .. Len(fifo)
               PROVE  fifo[q] = <<Len(sent), (s + e) + Len(ring') + q>>
    BY <1>4
  <2>1. fifo[q] = <<Len(sent), s + Len(ring) + q>>
    BY DEF LineFrom
  <2>2. s + Len(ring) + q = (s + e) + Len(ring') + q
    BY <1>1, <1>2, <1>6
  <2> QED BY <2>1, <2>2
<1>9. LineFrom(s + e)'
  <2>1. (s + e) + Len(ring') + Len(fifo') <= Size'
    <3>1. Len(ring') = Len(ring) - e /\ fifo' = fifo /\ Size' = Size
      BY <1>4, <1>6
    <3>2. (s + e) + (Len(ring) - e) + Len(fifo) <= Size
      BY <1>1, <1>2, <1>2a
    <3> QED BY <3>1, <3>2
  <2> QED BY <1>4, <1>7, <1>8, <2>1 DEF LineFrom
<1>10. \A q \in 1 .. e : dtmp'[q] = <<Len(sent), s + q>>
  <2> SUFFICES ASSUME NEW q \in 1 .. e PROVE dtmp'[q] = <<Len(sent), s + q>>
    OBVIOUS
  <2>1. q \in 1 .. Len(ring) /\ dtmp'[q] = ring[q]
    BY <1>1, <1>2, <1>5
  <2> QED BY <2>1 DEF LineFrom
<1>11. s + e <= Size /\ s_rx_available' # 0 /\ Len(dtmp') = e
  <2>1. s + e <= Size
    BY <1>1, <1>2, <1>2a
  <2> QED BY <1>4, <1>5, <2>1
<1> QED BY <1>2, <1>9, <1>10, <1>11

LEMMA FlightDriver ==
  ASSUME TypeOK, Emptied, Ordered, Reception, Interrupt \/ Pause \/ Overflows \/ OverflowEvent
  PROVE  Emptied' /\ Ordered' /\ Reception'
<1>1. UNCHANGED <<sent, s_rx_available, cacheVars, readerVars>>
  BY DEF Interrupt, Pause, Overflows, OverflowEvent, Announce
<1>2. Emptied' /\ Ordered'
  BY <1>1 DEF Emptied, Ordered, UpTo, Latest, cacheVars, readerVars
<1>3. \A s \in Nat : sent # <<>> /\ LineFrom(s) => LineFrom(s)'
  BY LineKept
<1>4. Single' <=> Single
  BY <1>1 DEF Single, OneClaim, Waiting, readerVars
<1>5. CASE Untouched
  BY <1>1, <1>2, <1>3, <1>5 DEF Untouched, Reception, Waiting, cacheVars, readerVars
<1>6. CASE Passed
  <2>1. ring' = <<>> /\ fifo' = <<>>
    <3>1. ~Interrupt /\ ~Pause
      BY <1>6 DEF Passed, Interrupt, Pause
    <3> QED BY <1>6, <3>1 DEF Passed, Overflows, OverflowEvent
  <2> QED BY <1>2, <1>4, <1>6, <2>1 DEF Passed, Reception
<1>7. CASE CutOff
  <2>1. Pieces(dtmp, Len(dtmp))'
    BY <1>1, <1>7 DEF CutOff, Pieces, Size, cacheVars
  <2> QED BY <1>1, <1>2, <1>3, <1>4, <1>7, <2>1 DEF CutOff, Reception, cacheVars
<1>8. CASE InPieces
  <2>1. /\ Pieces(dtmp, Len(dtmp))' /\ Pieces(s_rx_cache, CacheSize)'
        /\ Len(got') = Len(sent') => Pieces(buff_ser1, Len(buff_ser1))'
    BY <1>1, <1>8 DEF InPieces, Pieces, Size, cacheVars, readerVars
  <2> QED BY <1>1, <1>2, <1>3, <1>8, <2>1 DEF InPieces, Reception, readerVars
<1> QED BY <1>2, <1>5, <1>6, <1>7, <1>8 DEF Reception

\* The event task reads a frame whole, or leaves nothing one can be made of.
LEMMA FlightEvents ==
  ASSUME TypeOK, Emptied, Ordered, Reception, DataEvent
  PROVE  Emptied' /\ Ordered' /\ Reception'
<1>1. /\ UNCHANGED <<sent, fifo, s_rx_cache, readerVars>> /\ Size' = Size
      /\ etask = "wait" /\ etask' = "memset"
  BY DEF DataEvent, Size
<1>2. /\ Len(sent) \in Nat /\ Len(got) \in Nat
      /\ fifo \in Seq(Cells(Len(sent))) /\ ring \in Seq(Cells(Len(sent)))
  BY Numbers, TypeParts DEF Received
<1>3. sent # <<>> /\ \E s \in Nat : LineFrom(s) /\ ((Untouched /\ s = 0) \/ (InPieces /\ s # 0))
  <2>1. CASE Passed
    <3>1. Head(events) \in Nat /\ Head(events) <= 0 /\ Head(events) # 0
      BY <2>1, TypeParts DEF Passed, Received, DataEvent, Overflow
    <3> QED BY <3>1
  <2>2. CASE Untouched
    <3>1. sent # <<>> /\ LineFrom(0)
      BY <2>2 DEF Untouched
    <3> QED BY <2>2, <3>1
  <2>3. CASE InPieces
    <3>1. sent # <<>> /\ \E s \in Nat \ {0} : LineFrom(s)
      BY <2>3 DEF InPieces
    <3> QED BY <2>3, <3>1
  <2> QED BY <1>1, <2>1, <2>2, <2>3 DEF Reception, CutOff
<1>4. PICK s \in Nat : LineFrom(s) /\ ((Untouched /\ s = 0) \/ (InPieces /\ s # 0))
  BY <1>3
<1>5. PICK e \in Nat \ {0} :
        /\ LineFrom(s + e)' /\ s + e <= Size /\ s_rx_available' # 0
        /\ Len(dtmp') = e /\ \A q \in 1 .. e : dtmp'[q] = <<Len(sent), s + q>>
  BY <1>3, <1>4, LineRead
<1>6. Emptied' /\ Ordered'
  <2>1. \A q \in 1 .. Len(dtmp') : dtmp'[q][1] = Len(sent')
    BY <1>1, <1>5
  <2> QED BY <1>1, <2>1 DEF Emptied, Ordered, UpTo, Latest, readerVars
<1>7. Size \in Nat
  BY <1>3, LastFrame
<1>8. ASSUME s + e < Size \/ s # 0 PROVE Pieces(dtmp, Len(dtmp))'
  <2> SUFFICES ASSUME NEW q \in 1 .. e
               PROVE  \E p \in Nat : dtmp'[q] = <<Len(sent), p>> /\ q <= p /\ q < Size
    BY <1>1, <1>5 DEF Pieces
  <2>1. dtmp'[q] = <<Len(sent), s + q>> /\ s + q \in Nat
    BY <1>5
  <2>2. q <= s + q /\ q < Size
    BY <1>5, <1>7, <1>8
  <2> QED BY <2>1, <2>2
<1>9. CASE InPieces /\ s # 0
  <2>1. s + e \in Nat \ {0}
    BY <1>5
  <2>2. /\ Pieces(s_rx_cache, CacheSize)'
        /\ Len(got') = Len(sent') => Pieces(buff_ser1, Len(buff_ser1))'
    BY <1>1, <1>9 DEF InPieces, Pieces, readerVars
  <2> QED BY <1>1, <1>5, <1>6, <1>8, <1>9, <2>1, <2>2 DEF InPieces, Reception, readerVars
<1>10. CASE Untouched /\ s = 0
  <2>1. Single'
    BY <1>1, <1>5, <1>10 DEF Untouched, Single, OneClaim, Waiting, readerVars
  <2>2. CASE e < Size
    <3>1. Pieces(dtmp, Len(dtmp))' /\ s + e \in Nat \ {0}
      BY <1>5, <1>8, <1>10, <2>2
    <3> QED BY <1>1, <1>3, <1>5, <1>6, <2>1, <3>1 DEF CutOff, Reception
  <2>3. CASE e = Size
    <3>1. Len(ring') = 0 /\ Len(fifo') = 0
      <4>1. Len(ring') \in Nat /\ Len(fifo') \in Nat
        BY TypeStep, TypeParts DEF Next, EventTask, Received
      <4>2. e + Len(ring') + Len(fifo') <= Size
        BY <1>1, <1>5, <1>10 DEF LineFrom
      <4> QED BY <1>5, <2>3, <4>1, <4>2
    <3>2. ring' = <<>> /\ fifo' = <<>>
      BY <3>1, TypeStep, TypeParts DEF Next, EventTask, Received
    <3> QED BY <1>6, <2>1, <3>2 DEF Passed, Reception
  <2> QED BY <1>5, <1>7, <1>10, <2>2, <2>3
<1> QED BY <1>4, <1>9, <1>10

LEMMA FlightCache ==
  ASSUME TypeOK, Emptied, Ordered, Reception, ClearCache \/ FillCache
  PROVE  Emptied' /\ Ordered' /\ Reception'
<1>1. /\ UNCHANGED <<sent, driverVars, s_rx_available, readerVars>> /\ Size' = Size
      /\ etask # "wait"
  BY DEF ClearCache, FillCache, Size
<1>2. /\ Len(sent) \in Nat /\ Len(got) \in Nat /\ CacheSize \in Nat
      /\ \A q \in 1 .. CacheSize :
           s_rx_cache'[q] = Zero \/ (q \in 1 .. Len(dtmp) /\ s_rx_cache'[q] = dtmp[q])
  BY Numbers, ReceiverAssumption, TypeParts DEF ClearCache, FillCache, Cached
<1>3. dtmp' = dtmp \/ dtmp' = <<>>
  BY DEF ClearCache, FillCache
<1>4. Emptied'
  BY <1>1 DEF Emptied, ClearCache, FillCache, readerVars
<1>5. Latest' = Latest /\ Latest \in 0 .. Len(sent)
  BY <1>1, Numbers DEF Latest, readerVars
<1>6. Ordered'
  <2>1. \A q \in 1 .. Len(dtmp) : dtmp[q][1] = Len(sent)
    BY DEF Ordered
  <2>2. \A q \in 1 .. Len(dtmp') : dtmp'[q][1] = Len(sent')
    BY <1>1, <1>3, <2>1
  <2>3. \A q \in 1 .. CacheSize : Between(s_rx_cache[q], Len(sent), Len(sent))'
    BY <1>1, <1>2, <2>1 DEF Between
  <2>4. PICK j \in Latest .. Len(sent) : UpTo(j)
    BY DEF Ordered
  <2>5. \A q \in 1 .. Len(buff_ser1) : Between(buff_ser1[q], Latest, Len(sent))
    <3> SUFFICES ASSUME NEW q \in 1 .. Len(buff_ser1), buff_ser1[q] # Zero
                 PROVE  Latest <= buff_ser1[q][1] /\ buff_ser1[q][1] <= Len(sent)
      BY DEF Between
    <3>1. Latest <= buff_ser1[q][1] /\ buff_ser1[q][1] <= j
      BY <2>4 DEF UpTo, Between
    <3>2. buff_ser1[q] \in Cells(Len(sent))
      BY TypeParts DEF Taken
    <3>3. buff_ser1[q][1] \in Nat
      BY <1>2, <3>2 DEF Cells
    <3> QED BY <1>2, <1>5, <3>1, <3>3
  <2>6. UpTo(Len(sent))'
    BY <1>1, <1>5, <2>3, <2>5 DEF UpTo, Between, readerVars
  <2> QED BY <1>1, <1>5, <2>2, <2>6 DEF Ordered
<1>7. \A s \in Nat : LineFrom(s)' <=> LineFrom(s)
  BY <1>1 DEF LineFrom, driverVars
<1>8. Single' <=> Single
  BY <1>1 DEF Single, OneClaim, Waiting, readerVars
<1>9. CASE Passed
  BY <1>1, <1>4, <1>6, <1>8, <1>9 DEF Passed, Reception, driverVars
<1>10. CASE CutOff \/ InPieces
  <2>1. Pieces(dtmp, Len(dtmp)) /\ sent # <<>> /\ \E s \in Nat \ {0} : LineFrom(s)
    BY <1>10 DEF CutOff, InPieces
  <2>2. Pieces(s_rx_cache, CacheSize)' /\ Pieces(dtmp, Len(dtmp))'
    <3>1. Pieces(dtmp, Len(dtmp))'
      BY <1>1, <1>3, <2>1 DEF Pieces
    <3>2. ASSUME NEW q \in 1 .. CacheSize, s_rx_cache'[q] # Zero
          PROVE  \E p \in Nat : s_rx_cache'[q] = <<Len(sent), p>> /\ q <= p /\ q < Size
      <4>1. q \in 1 .. Len(dtmp) /\ s_rx_cache'[q] = dtmp[q]
        BY <1>2, <3>2
      <4> QED BY <2>1, <3>2, <4>1 DEF Pieces
    <3>3. Pieces(s_rx_cache, CacheSize)'
      BY <1>1, <3>2 DEF Pieces
    <3> QED BY <3>1, <3>3
  <2>3. Len(got) <= Len(sent)
    BY <1>2, <1>10 DEF CutOff, InPieces, Single
  <2>4. Len(got) = Len(sent) => Pieces(buff_ser1, Len(buff_ser1))
    <3>1. ASSUME CutOff, Len(got) = Len(sent) PROVE Pieces(buff_ser1, Len(buff_ser1))
      <4>1. buff_ser1 = <<>>
        BY <1>2, <3>1 DEF CutOff, Single, Waiting, Emptied
      <4> QED BY <4>1 DEF Pieces
    <3> QED BY <1>10, <3>1 DEF InPieces
  <2>5. (Len(got) = Len(sent) => Pieces(buff_ser1, Len(buff_ser1)))'
    BY <1>1, <2>4 DEF Pieces, readerVars
  <2> QED BY <1>1, <1>4, <1>6, <1>7, <2>1, <2>2, <2>3, <2>5 DEF InPieces, Reception, readerVars
<1> QED BY <1>1, <1>9, <1>10 DEF Reception, Untouched

LEMMA ReadSingle ==
  ASSUME TypeOK, Single, Read_Message PROVE Single'
<1>1. /\ got' = got \/ (reader = "reading" /\ \E i \in 1 .. Len(sent) : got' = Append(got, i))
      /\ sent' = sent
  BY Texts DEF Read_Message, ClaimsNothing, Claims, Claimed, Compares, ReadByte, TakesText,
               TakesData, Rejects, Judges
<1>2. Len(got) \in Nat /\ Len(sent) \in Nat /\ got \in Seq(1 .. Len(sent))
  BY Numbers
<1>3. OneClaim /\ Len(got) < Len(sent)
  BY DEF Single, Waiting, Read_Message, ClaimsNothing, Claims, Claimed, Compares, ReadByte,
         TakesText, TakesData, Rejects, Judges
<1>4. CASE TakesText \/ TakesData \/ Rejects
  <2>1. Waiting'
    BY <1>3, <1>4 DEF OneClaim, TakesText, TakesData, Rejects, Judges, Waiting
  <2>2. Len(got') <= Len(sent')
    BY <1>1, <1>2, <1>3
  <2> QED BY <2>1, <2>2 DEF Single
<1>5. CASE ClaimsNothing \/ Claims \/ Claimed \/ ReadByte
  <2>1. got' = got
    BY <1>5 DEF ClaimsNothing, Claims, Claimed, Compares, ReadByte
  <2>2. OneClaim'
    BY <1>3, <1>5 DEF OneClaim, ClaimsNothing, Claims, Claimed, Compares, ReadByte, Takes
  <2> QED BY <1>1, <1>3, <2>1, <2>2 DEF Single
<1> QED BY <1>4, <1>5 DEF Read_Message

\* What is taken is the frame of a byte in the buffer.
LEMMA TakenBytes ==
  ASSUME TypeOK, TakesText \/ TakesData
  PROVE  \E q \in 1 .. Len(buff_ser1), i \in 1 .. Len(sent) :
            buff_ser1[q] # Zero /\ buff_ser1[q][1] = i /\ got' = Append(got, i)
<1> DEFINE a == FrameSize["ACK"]
<1>1. Len(buff_ser1) \in Nat /\ Len(sent) \in Nat
  BY Numbers, TypeParts DEF Taken
<1>2. CASE TakesText
  <2>1. PICK k \in Offsets : got' = Append(got, buff_ser1[k + a][1])
    BY <1>2 DEF TakesText
  <2>2. a \in Nat \ {0} /\ k \in Nat /\ k + a <= Len(buff_ser1)
    BY <1>1, ReceiverAssumption DEF Offsets, TextAt, Kinds
  <2>3. PICK i \in 1 .. Len(sent) : buff_ser1[k + a] = <<i, a>>
    BY <2>2 DEF Offsets, TextAt
  <2>4. k + a \in 1 .. Len(buff_ser1) /\ buff_ser1[k + a][1] = i /\ i # 0
    BY <1>1, <2>2, <2>3
  <2>5. <<i, a>> # Zero
    BY <2>4 DEF Zero
  <2> QED BY <2>1, <2>3, <2>4, <2>5
<1>3. CASE TakesData
  <2>1. PICK i \in 1 .. Len(sent) : DataAs(i) /\ got' = Append(got, i)
    BY <1>3 DEF TakesData
  <2>2. FrameSize[sent[i].kind] \in Nat \ {0}
    BY <2>1, ReceiverAssumption DEF DataAs, Kinds
  <2>3. buff_ser1 = [p \in 1 .. FrameSize[sent[i].kind] |-> <<i, p>>]
    BY <2>1 DEF DataAs, Frame
  <2>4. 1 \in DOMAIN buff_ser1 /\ buff_ser1[1] = <<i, 1>> /\ buff_ser1[1][1] = i
    <3>1. DOMAIN buff_ser1 = 1 .. FrameSize[sent[i].kind]
      BY <2>3
    <3>2. 1 \in 1 .. FrameSize[sent[i].kind]
      BY <2>2
    <3>3. buff_ser1[1] = <<i, 1>>
      BY <2>3, <3>2
    <3> QED BY <3>1, <3>2, <3>3
  <2>5. 1 \in 1 .. Len(buff_ser1)
    <3>1. DOMAIN buff_ser1 = 1 .. Len(buff_ser1)
      BY TypeParts DEF Taken
    <3> QED BY <2>4, <3>1
  <2>6. <<i, 1>> # Zero
    BY DEF Zero
  <2> QED BY <2>1, <2>4, <2>5, <2>6
<1> QED BY <1>2, <1>3

\* Nothing is taken from pieces of the last frame.
LEMMA NothingFromPieces ==
  ASSUME TypeOK, sent # <<>>, Pieces(buff_ser1, Len(buff_ser1)), TakesText \/ TakesData
  PROVE  FALSE
<1> DEFINE a == FrameSize["ACK"]
           n == Len(sent)
<1>1. Len(buff_ser1) \in Nat /\ n \in Nat \ {0} /\ Size \in Nat
  BY LastFrame, TypeParts DEF Taken
<1>2. ASSUME NEW q \in 1 .. Len(buff_ser1), NEW i \in 1 .. n, NEW p \in Nat, buff_ser1[q] = <<i, p>>
      PROVE  i = n /\ q <= p /\ q < Size
  <2>1. i # 0 /\ <<i, p>> # Zero
    BY DEF Zero
  <2>2. PICK r \in Nat : <<i, p>> = <<n, r>> /\ q <= r /\ q < Size
    BY <1>2, <2>1 DEF Pieces
  <2>3. i = n /\ p = r
    BY <2>2
  <2> QED BY <2>2, <2>3
<1>3. CASE TakesText
  <2>1. PICK k \in Offsets : TRUE
    BY <1>3 DEF TakesText
  <2>2. a \in Nat \ {0} /\ k \in Nat /\ k + a <= Len(buff_ser1)
    BY <1>1, <2>1, ReceiverAssumption DEF Offsets, TextAt, Kinds
  <2>3. \A p \in 1 .. a : \E i \in 1 .. n : sent[i].kind = "ACK" /\ buff_ser1[k + p] = <<i, p>>
    BY <2>1 DEF Offsets, TextAt
  <2>4. PICK i \in 1 .. n : sent[i].kind = "ACK" /\ buff_ser1[k + 1] = <<i, 1>>
    <3>1. 1 \in 1 .. a
      BY <2>2
    <3> HIDE DEF a
    <3> QED BY <2>3, <3>1
  <2>5. k + 1 \in 1 .. Len(buff_ser1) /\ i = n /\ k + 1 <= 1
    <3>1. k + 1 \in 1 .. Len(buff_ser1)
      BY <1>1, <2>2
    <3> QED BY <1>2, <2>4, <3>1
  <2>6. k = 0 /\ Size = a
    BY <2>2, <2>4, <2>5 DEF Size
  <2>7. PICK j \in 1 .. n : buff_ser1[a] = <<j, a>>
    BY <2>2, <2>3, <2>6
  <2>8. a \in 1 .. Len(buff_ser1) /\ a \in Nat
    BY <1>1, <2>2, <2>6
  <2>9. a < Size
    BY <1>2, <2>7, <2>8
  <2> QED BY <1>1, <2>2, <2>6, <2>9
<1>4. CASE TakesData
  <2>1. PICK i \in 1 .. n : DataAs(i)
    BY <1>4 DEF TakesData
  <2>2. FrameSize[sent[i].kind] \in Nat \ {0}
    BY <2>1, ReceiverAssumption DEF DataAs, Kinds
  <2>3. buff_ser1 = [p \in 1 .. FrameSize[sent[i].kind] |-> <<i, p>>]
    BY <2>1 DEF DataAs, Frame
  <2>4. \A p \in 1 .. FrameSize[sent[i].kind] : p \in 1 .. Len(buff_ser1) /\ buff_ser1[p] = <<i, p>>
    <3>1. DOMAIN buff_ser1 = 1 .. Len(buff_ser1)
      BY TypeParts DEF Taken
    <3>2. DOMAIN buff_ser1 = 1 .. FrameSize[sent[i].kind]
      BY <2>3
    <3> QED BY <2>3, <3>1, <3>2
  <2>5. 1 \in 1 .. Len(buff_ser1) /\ buff_ser1[1] = <<i, 1>>
    BY <2>2, <2>4
  <2>6. i = n
    BY <1>2, <2>5
  <2>7. Size \in 1 .. Len(buff_ser1) /\ buff_ser1[Size] = <<i, Size>>
    BY <2>2, <2>4, <2>6 DEF Size
  <2>8. Size < Size
    BY <1>1, <1>2, <2>7
  <2> QED BY <1>1, <2>8
<1> QED BY <1>3, <1>4

LEMMA FlightRead ==
  ASSUME TypeOK, Emptied, Ordered, Reception, Read_Message
  PROVE  Emptied' /\ Ordered' /\ Reception'
<1>1. UNCHANGED <<sent, driverVars, cacheVars>> /\ Size' = Size
  BY DEF Read_Message, ClaimsNothing, Claims, Claimed, Compares, ReadByte, TakesText, TakesData,
         Rejects, Judges, Size
<1>2. /\ Len(sent) \in Nat /\ Len(got) \in Nat /\ got \in Seq(1 .. Len(sent)) /\ CacheSize \in Nat
      /\ Latest \in 0 .. Len(sent) /\ Len(buff_ser1) \in Nat /\ Len(buff_ser1) <= len
      /\ buff_ser1 \in Seq(Cells(Len(sent))) /\ len \in 0 .. CacheSize - 1
      /\ s_rx_cache \in [1 .. CacheSize -> Cells(Len(sent))]
  BY Numbers, ReceiverAssumption, TypeParts DEF Taken, Cached
<1>3. Emptied'
  BY <1>1 DEF Emptied, Read_Message, ClaimsNothing, Claims, Claimed, Compares, ReadByte, TakesText,
              TakesData, Rejects, Judges, Takes, cacheVars
\* One byte is copied, the buffer is emptied, or neither.
<1>4. \/ /\ Len(buff_ser1) + 1 \in 1 .. CacheSize /\ got' = got
         /\ Len(buff_ser1') = Len(buff_ser1) + 1
         /\ buff_ser1'[Len(buff_ser1) + 1] = s_rx_cache[Len(buff_ser1) + 1]
         /\ \A q \in 1 .. Len(buff_ser1) : buff_ser1'[q] = buff_ser1[q]
      \/ (buff_ser1' = buff_ser1 /\ got' = got)
      \/ buff_ser1' = <<>> /\ (got' = got \/ TakesText \/ TakesData)
  <2>1. CASE ReadByte
    <3>1. Len(buff_ser1) + 1 \in 1 .. CacheSize
      BY <1>2, <2>1 DEF ReadByte
    <3>2. s_rx_cache[Len(buff_ser1) + 1] \in Cells(Len(sent))
      BY <1>2, <3>1
    <3> QED BY <1>2, <2>1, <3>1, <3>2 DEF ReadByte
  <2> QED BY <2>1 DEF Read_Message, ClaimsNothing, Claims, Claimed, Compares, TakesText, TakesData,
                      Rejects, Judges, Takes
<1>5. PICK j \in Latest .. Len(sent) : UpTo(j)
  BY DEF Ordered
<1>6. j \in Nat /\ Latest <= j /\ j <= Len(sent)
  BY <1>2
<1>7. ASSUME TakesText \/ TakesData
      PROVE  Latest' \in Latest .. j /\ Len(got') = Len(got) + 1
  <2>1. PICK q \in 1 .. Len(buff_ser1), i \in 1 .. Len(sent) :
          buff_ser1[q] # Zero /\ buff_ser1[q][1] = i /\ got' = Append(got, i)
    BY <1>7, TakenBytes
  <2>2. Latest <= i /\ i <= j
    BY <1>5, <2>1 DEF UpTo, Between
  <2>3. Latest' = i /\ Len(got') = Len(got) + 1
    <3>1. Len(got') = Len(got) + 1 /\ got'[Len(got')] = i
      BY <1>2, <2>1, Appended
    <3>2. got' # <<>>
      BY <1>2, <2>1, Appended
    <3> QED BY <3>1, <3>2 DEF Latest
  <2> QED BY <1>2, <1>6, <2>1, <2>2, <2>3
<1>8. Latest' \in 0 .. j /\ (got' = got => Latest' = Latest) /\ Len(got') \in {Len(got), Len(got) + 1}
  BY <1>2, <1>4, <1>6, <1>7 DEF Latest
<1>9. Ordered'
  <2>1. \A q \in 1 .. CacheSize : Between(s_rx_cache[q], j, j)'
    BY <1>1, <1>5 DEF UpTo, Between, cacheVars
  <2>2. \A q \in 1 .. Len(buff_ser1') : Between(buff_ser1'[q], Latest', j)
    <3>1. CASE buff_ser1' = <<>>
      BY <3>1
    <3>2. CASE buff_ser1' = buff_ser1 /\ got' = got
      BY <1>5, <1>8, <3>2 DEF UpTo
    <3>3. CASE /\ Len(buff_ser1) + 1 \in 1 .. CacheSize /\ got' = got
               /\ Len(buff_ser1') = Len(buff_ser1) + 1
               /\ buff_ser1'[Len(buff_ser1) + 1] = s_rx_cache[Len(buff_ser1) + 1]
               /\ \A q \in 1 .. Len(buff_ser1) : buff_ser1'[q] = buff_ser1[q]
      <4> SUFFICES ASSUME NEW q \in 1 .. Len(buff_ser1')
                   PROVE  Between(buff_ser1'[q], Latest, j)
        BY <1>8, <3>3
      <4>1. CASE q \in 1 .. Len(buff_ser1)
        BY <1>5, <3>3, <4>1 DEF UpTo
      <4>2. CASE q = Len(buff_ser1) + 1
        <5>1. buff_ser1'[q] = s_rx_cache[q] /\ Between(s_rx_cache[q], j, j)
          BY <1>5, <3>3, <4>2 DEF UpTo
        <5>2. s_rx_cache[q] = Zero \/ s_rx_cache[q][1] \in Nat
          BY <1>2, <3>3, <4>2 DEF Cells
        <5> QED BY <1>2, <1>6, <5>1, <5>2 DEF Between
      <4> QED BY <1>2, <3>3, <4>1, <4>2
    <3> QED BY <1>4, <3>1, <3>2, <3>3
  <2>3. UpTo(j)' /\ j \in Latest' .. Len(sent')
    BY <1>1, <1>2, <1>6, <1>8, <2>1, <2>2 DEF UpTo, Between
  <2> QED BY <1>1, <2>3 DEF Ordered, cacheVars
<1>10. \A s \in Nat : LineFrom(s)' <=> LineFrom(s)
  BY <1>1 DEF LineFrom, driverVars
<1>11. ~Untouched
  BY DEF Untouched, Waiting, Read_Message, ClaimsNothing, Claims, Claimed, Compares, ReadByte,
         TakesText, TakesData, Rejects, Judges
<1>12. CASE Passed \/ CutOff
  <2>1. Single'
    BY <1>12, ReadSingle DEF Passed, CutOff
  <2>2. Pieces(dtmp, Len(dtmp))' <=> Pieces(dtmp, Len(dtmp))
    BY <1>1 DEF Pieces, cacheVars
  <2> QED BY <1>1, <1>3, <1>9, <1>10, <1>12, <2>1, <2>2
          DEF Passed, CutOff, Reception, driverVars, cacheVars
<1>13. CASE InPieces
  <2>1. Pieces(dtmp, Len(dtmp))' /\ Pieces(s_rx_cache, CacheSize)'
    BY <1>1, <1>13 DEF InPieces, Pieces, cacheVars
  <2>2. Len(got) = Len(sent) => got' = got
    <3>1. ASSUME Len(got) = Len(sent), TakesText \/ TakesData PROVE FALSE
      BY <1>13, <3>1, NothingFromPieces DEF InPieces
    <3> QED BY <1>4, <3>1
  <2>3. Len(got') <= Len(sent')
    BY <1>1, <1>2, <1>8, <1>13, <2>2 DEF InPieces
  <2>4. ASSUME Len(got') = Len(sent'), buff_ser1' # <<>>
        PROVE  Pieces(buff_ser1, Len(buff_ser1))'
    <3>1. got' = got /\ Pieces(buff_ser1, Len(buff_ser1)) /\ Pieces(s_rx_cache, CacheSize)
      BY <1>1, <1>4, <1>13, <2>4 DEF InPieces
    <3>2. CASE buff_ser1' = buff_ser1
      BY <1>1, <3>1, <3>2 DEF Pieces
    <3>3. CASE /\ Len(buff_ser1) + 1 \in 1 .. CacheSize
               /\ Len(buff_ser1') = Len(buff_ser1) + 1
               /\ buff_ser1'[Len(buff_ser1) + 1] = s_rx_cache[Len(buff_ser1) + 1]
               /\ \A q \in 1 .. Len(buff_ser1) : buff_ser1'[q] = buff_ser1[q]
      <4>1. \A q \in 1 .. Len(buff_ser1') :
              \/ q \in 1 .. Len(buff_ser1) /\ buff_ser1'[q] = buff_ser1[q]
              \/ q \in 1 .. CacheSize /\ buff_ser1'[q] = s_rx_cache[q]
        BY <1>2, <3>3
      <4> QED BY <1>1, <3>1, <4>1 DEF Pieces
    <3> QED BY <1>4, <2>4, <3>2, <3>3
  <2>5. ASSUME buff_ser1' = <<>> PROVE Pieces(buff_ser1, Len(buff_ser1))'
    BY <2>5 DEF Pieces
  <2> QED BY <1>1, <1>3, <1>9, <1>10, <1>13, <2>1, <2>3, <2>4, <2>5 DEF InPieces, Reception
<1> QED BY <1>11, <1>12, <1>13 DEF Reception

LEMMA FlightStep == TypeOK /\ FlightInv /\ [Next]_vars => FlightInv'
<1> SUFFICES ASSUME TypeOK, FlightInv, [Next]_vars, HalfDuplex'
             PROVE  Emptied' /\ Ordered' /\ Reception'
  BY DEF FlightInv
<1>1. CASE UNCHANGED vars
  <2>1. Emptied /\ Ordered /\ Reception
    BY <1>1 DEF FlightInv, HalfDuplex, vars
  <2> QED BY <1>1, <2>1 DEF vars, driverVars, cacheVars, readerVars, Emptied, Ordered, UpTo, Between,
          Latest, Reception, Untouched, Passed, CutOff, InPieces, Single, OneClaim, Waiting, LineFrom,
          Pieces, Size
<1>2. CASE Next
  <2>1. Emptied /\ Ordered /\ Reception /\ \A kind \in Kinds : Send(kind) => AtRest
    BY <1>2, HalfDuplexBefore DEF FlightInv
  <2> QED BY <1>2, <2>1, FlightSend, FlightDriver, FlightEvents, FlightCache, FlightRead
          DEF Next, EventTask
<1> QED BY <1>1, <1>2

\* On a half-duplex line every step of the receiver is a step of
\* FrameChannel: what Read_Message takes is a frame that was sent, no earlier
\* one than the last it took, and there are never more than were sent,
\* although pauses, overflows and delays may leave it an old cache or pieces
\* of two events (Uart1.c 52-62, 155-170, WBM_Serial.c 118-197).
THEOREM HalfDuplexInOrder == Spec => FramesInOrder
<1>1. Init => Channel!Init
  BY DEF Init, Channel!Init
<1>2. TypeOK /\ FlightInv /\ [Next]_vars => [HalfDuplex' => Channel!Next]_<<Len(sent), got>>
  <2> SUFFICES ASSUME TypeOK, FlightInv, Next, HalfDuplex', ~UNCHANGED <<Len(sent), got>>
               PROVE  Channel!Next
    BY DEF vars, readerVars
  <2>1. Emptied /\ Ordered /\ Reception
    BY HalfDuplexBefore DEF FlightInv
  <2>2. /\ Len(sent) \in Nat /\ Len(got) \in Nat /\ got \in Seq(1 .. Len(sent))
        /\ sent \in Seq([kind : Kinds, calm : BOOLEAN])
    BY Numbers DEF TypeOK
  <2>3. ASSUME NEW kind \in Kinds, Send(kind) PROVE Channel!Next
    <3>1. Len(sent') = Len(sent) + 1 /\ got' = got
      BY <2>2, <2>3 DEF Send, readerVars
    <3> QED BY <3>1 DEF Channel!Next, Channel!Send
  <2>4. ASSUME TakesText \/ TakesData PROVE Channel!Next
    <3>1. PICK q \in 1 .. Len(buff_ser1), i \in 1 .. Len(sent) :
            buff_ser1[q] # Zero /\ buff_ser1[q][1] = i /\ got' = Append(got, i)
      BY <2>4, TakenBytes
    <3>2. Latest <= i
      BY <2>1, <3>1 DEF Ordered, UpTo, Between
    <3>3. reader = "reading" /\ sent' = sent
      BY <2>4 DEF TakesText, TakesData, Judges
    <3>4. Len(got) < Len(sent)
      <4>1. CASE InPieces
        BY <2>2, <2>4, <4>1, NothingFromPieces DEF InPieces
      <4> QED BY <2>1, <3>3, <4>1 DEF Reception, Untouched, Passed, CutOff, Single, Waiting
    <3> QED BY <3>1, <3>2, <3>3, <3>4 DEF Channel!Next, Channel!Take, Latest
  <2>5. (sent' = sent /\ got' = got) \/ TakesText \/ TakesData \/ \E kind \in Kinds : Send(kind)
    BY DEF Next, Interrupt, Pause, Announce, Overflows, EventTask, DataEvent, ClearCache, FillCache,
           OverflowEvent, Read_Message, ClaimsNothing, Claims, Claimed, Compares, ReadByte, Rejects,
           Judges, readerVars
  <2> QED BY <2>3, <2>4, <2>5
<1> QED BY <1>1, <1>2, FlightInit, FlightStep, TypeCorrect, PTL DEF Spec, FramesInOrder
=============================================================================
