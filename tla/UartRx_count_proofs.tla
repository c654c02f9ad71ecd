------------------------- MODULE UartRx_count_proofs -------------------------
(***************************************************************************)
(* Read_Message never returns more frames than the board sent, whether or  *)
(* not the line is used half duplex, as long as the event task is not held *)
(* up for a round of the Unit task.                                        *)
(*                                                                         *)
(* What was taken is counted against the line: as long as bytes of frame i *)
(* are on it, fewer than i frames were taken.  The difficulty is an event  *)
(* that is replaced in the cache while it is read: its length then takes a *)
(* frame of the next event, which the next length takes again.  It can do  *)
(* so only if it holds no whole frame itself, and then the beginning of a  *)
(* frame in it, which nobody takes any more, pays for it.                  *)
(***************************************************************************)
EXTENDS UartRx_proofs, SequenceTheorems

line == ring \o fifo
SizeOf(i) == FrameSize[sent[i].kind]

\* The bytes on the line are those of frames in their order, and only the
\* first of them may have lost its beginning.
InOrder ==
  \A q \in 1 .. Len(line) :
    /\ line[q][1] \in 1 .. Len(sent) /\ line[q][2] \in 1 .. SizeOf(line[q][1])
    /\ \A r \in q + 1 .. Len(line) :
         line[q][1] < line[r][1] \/ (line[q][1] = line[r][1] /\ line[q][2] < line[r][2])
    /\ line[q][2] <= q => line[q - line[q][2] + 1] = <<line[q][1], 1>>

\* No whole frame is in these bytes: each that ends there has begun elsewhere.
NoneWhole(bytes, m) ==
  \A q \in 1 .. m :
    bytes[q] # Zero /\ bytes[q][2] = SizeOf(bytes[q][1]) => q < bytes[q][2]
NoneRead   == NoneWhole(dtmp, Len(dtmp))
NoneCached == NoneWhole(s_rx_cache, CacheSize)
NoneCopied == NoneWhole(buff_ser1, Len(buff_ser1))

\* n frames are behind the line; or one more has left its beginning there.
Behinds(n) == n <= Len(sent) /\ \A q \in 1 .. Len(line) : n < line[q][1]
Begun(n) ==
  /\ Behinds(n) /\ n < Len(sent)
  /\ \A q \in 1 .. Len(line) : line[q][2] = 1 => n + 1 < line[q][1]

\* A length is published, being compared, or seen once.
Asked == s_rx_available # 0 \/ rx_buf_tail # 0 \/ reader = "claiming"

\* What the cache holds is of the event whose length is asked for, or later.
Filled == etask = "wait" \/ (rx_buf_tail # 0 /\ (s_rx_available # 0 \/ reader = "claiming"))

\* When n frames were taken, a length that is asked for finds one more, or
\* nothing; and none may be behind the line when no length is asked for.
Pending(n) == Behinds(n + 1) \/ (Begun(n) /\ NoneRead /\ (Filled => NoneCached))
Room(n) == IF Asked THEN Pending(n) ELSE Behinds(n)

\* What is being read has no whole frame and will not get one.
Hopeless(n) == Begun(n) /\ NoneCopied /\ NoneCached /\ NoneRead

Numbered ==
  /\ reader = "claiming" => claimed # 0
  /\ reader = "reading" => rx_buf_tail = 0
Counted ==
  \A n \in Nat : n = Len(got) =>
    IF reader = "reading" THEN Hopeless(n) \/ Room(n + 1) ELSE Room(n)
PromptInv == InOrder /\ Numbered /\ (spent["stall"] = 0 => Counted)

-----------------------------------------------------------------------------
(* The line                                                                 *)

LEMMA LineTyped ==
  ASSUME TypeOK
  PROVE  /\ line \in Seq(Cells(Len(sent))) /\ Len(line) = Len(ring) + Len(fifo)
         /\ Len(line) \in Nat /\ Len(sent) \in Nat /\ Len(ring) \in Nat /\ Len(fifo) \in Nat
         /\ \A q \in 1 .. Len(ring) : line[q] = ring[q]
         /\ \A q \in 1 .. Len(fifo) : line[Len(ring) + q] = fifo[q]
<1>1. fifo \in Seq(Cells(Len(sent))) /\ ring \in Seq(Cells(Len(sent))) /\ Len(sent) \in Nat
  BY TypeParts, Numbers DEF Received
<1> DEFINE C == Cells(Len(sent))
<1> HIDE DEF C
<1>2. fifo \in Seq(C) /\ ring \in Seq(C)
  BY <1>1 DEF C
<1>3. line \in Seq(C) /\ Len(line) \in Nat /\ Len(ring) \in Nat /\ Len(fifo) \in Nat
  BY <1>2 DEF line
<1> QED BY <1>1, <1>2, <1>3, Joined DEF line, C

\* Bytes that are passed on in two parts.
LEMMA Split ==
  ASSUME NEW S, NEW r \in Seq(S), NEW s \in Seq(S), NEW k \in Nat, k <= Len(s)
  PROVE  (r \o SubSeq(s, 1, k)) \o SubSeq(s, k + 1, Len(s)) = r \o s
<1>1. /\ SubSeq(s, 1, k) \in Seq(S) /\ SubSeq(s, k + 1, Len(s)) \in Seq(S)
  BY Heads, Tails
<1>2. SubSeq(s, 1, k) \o SubSeq(s, k + 1, Len(s)) = s
  <2>1. 1 \in 1 .. Len(s) + 1 /\ k \in 1 - 1 .. Len(s) /\ Len(s) \in k .. Len(s)
    OBVIOUS
  <2> QED BY <2>1, SubSeqFull, ConcatAdjacentSubSeq
<1>3. \A f, g \in Seq(S) : (r \o f) \o g = r \o (f \o g)
  BY ConcatAssociative
<1> DEFINE f == SubSeq(s, 1, k)
           g == SubSeq(s, k + 1, Len(s))
<1>4. f \in Seq(S) /\ g \in Seq(S) /\ f \o g = s
  BY <1>1, <1>2
<1> HIDE DEF f, g
<1>5. (r \o f) \o g = r \o (f \o g)
  BY <1>3, <1>4
<1> QED BY <1>4, <1>5 DEF f, g

LEMMA Sizes ==
  ASSUME TypeOK, NEW i \in 1 .. Len(sent) PROVE SizeOf(i) \in 1 .. CacheSize - 1
<1>1. sent \in Seq([kind : Kinds, calm : BOOLEAN])
  BY DEF TypeOK
<1>2. sent[i] \in [kind : Kinds, calm : BOOLEAN]
  BY <1>1, ElementOfSeq
<1> QED BY <1>2, ReceiverAssumption DEF SizeOf

\* A part of the line without a gap is in order, and is no less behind it.
LEMMA Window ==
  ASSUME TypeOK, InOrder, sent' = sent, NEW h \in Nat, NEW m \in Nat, h + m <= Len(line),
         Len(line') = m, \A q \in 1 .. m : line'[q] = line[h + q]
  PROVE  /\ InOrder'
         /\ \A n \in Nat : (Behinds(n) => Behinds(n)') /\ (Begun(n) => Begun(n)')
<1>1. Len(line) \in Nat
  BY LineTyped
<1>2. \A q \in 1 .. m : h + q \in 1 .. Len(line)
  BY <1>1
<1>3. InOrder'
  <2> SUFFICES ASSUME NEW q \in 1 .. m
               PROVE  /\ line'[q][1] \in 1 .. Len(sent)
                      /\ line'[q][2] \in 1 .. SizeOf(line'[q][1])
                      /\ \A r \in q + 1 .. m :
                           line'[q][1] < line'[r][1] \/
                             (line'[q][1] = line'[r][1] /\ line'[q][2] < line'[r][2])
                      /\ line'[q][2] <= q => line'[q - line'[q][2] + 1] = <<line'[q][1], 1>>
    BY DEF InOrder, SizeOf
  <2>1. line'[q] = line[h + q] /\ h + q \in 1 .. Len(line)
    BY <1>2
  <2>2. line[h + q][1] \in 1 .. Len(sent) /\ line[h + q][2] \in 1 .. SizeOf(line[h + q][1])
    BY <2>1 DEF InOrder
  <2>3. ASSUME NEW r \in q + 1 .. m
        PROVE  line'[q][1] < line'[r][1] \/
                 (line'[q][1] = line'[r][1] /\ line'[q][2] < line'[r][2])
    <3>1. r \in 1 .. m /\ h + r \in (h + q) + 1 .. Len(line)
      BY <1>1
    <3> QED BY <2>1, <3>1 DEF InOrder
  <2>4. ASSUME line'[q][2] <= q PROVE line'[q - line'[q][2] + 1] = <<line'[q][1], 1>>
    <3> DEFINE p == line[h + q][2]
    <3>1. p \in Nat \ {0} /\ p <= q
      <4>1. SizeOf(line[h + q][1]) \in Nat
        BY <2>2, Sizes, ReceiverAssumption
      <4> QED BY <2>1, <2>2, <2>4, <4>1
    <3>2. line[(h + q) - p + 1] = <<line[h + q][1], 1>>
      <4>1. p <= h + q
        BY <3>1
      <4> QED BY <2>1, <4>1 DEF InOrder
    <3> HIDE DEF p
    <3>3. q - p + 1 \in 1 .. m /\ (h + q) - p + 1 = h + (q - p + 1)
      BY <3>1
    <3>4. line'[q - p + 1] = line[h + (q - p + 1)]
      BY <3>3
    <3> QED BY <2>1, <3>2, <3>3, <3>4 DEF p
  <2> QED BY <2>1, <2>2, <2>3, <2>4
<1>4. ASSUME NEW n \in Nat PROVE (Behinds(n) => Behinds(n)') /\ (Begun(n) => Begun(n)')
  BY <1>2 DEF Behinds, Begun
<1> QED BY <1>3, <1>4

\* The driver keeps a beginning of the line.
LEMMA DriverWindow ==
  ASSUME TypeOK, InOrder, Interrupt \/ Pause \/ Overflows \/ OverflowEvent
  PROVE  /\ InOrder'
         /\ \A n \in Nat : (Behinds(n) => Behinds(n)') /\ (Begun(n) => Begun(n)')
<1> DEFINE C == Cells(Len(sent))
<1> HIDE DEF C
<1>1. ring \in Seq(C) /\ fifo \in Seq(C) /\ Len(ring) \in Nat /\ Len(fifo) \in Nat
  BY TypeParts DEF Received, C
<1>2. sent' = sent
  BY DEF Interrupt, Pause, Overflows, OverflowEvent, Announce
<1>3. ASSUME NEW k \in Nat, k <= Len(fifo), Announce(k) PROVE line' = line
  <2>1. ring' = ring \o SubSeq(fifo, 1, k) /\ fifo' = SubSeq(fifo, k + 1, Len(fifo))
    BY <1>3 DEF Announce
  <2>2. (ring \o SubSeq(fifo, 1, k)) \o SubSeq(fifo, k + 1, Len(fifo)) = ring \o fifo
    BY <1>1, <1>3, Split
  <2> QED BY <2>1, <2>2 DEF line
<1>4. ASSUME line' = line
      PROVE  InOrder' /\ \A n \in Nat : (Behinds(n) => Behinds(n)') /\ (Begun(n) => Begun(n)')
  BY <1>2, <1>4 DEF InOrder, SizeOf, Behinds, Begun
<1>5. CASE Interrupt
  <2>1. Announce(Len(fifo))
    BY <1>5 DEF Interrupt
  <2> QED BY <1>1, <1>3, <1>4, <2>1
<1>6. CASE Pause
  <2>1. PICK k \in 1 .. Len(fifo) - 1 : Announce(k)
    BY <1>6 DEF Pause
  <2>2. k \in Nat /\ k <= Len(fifo)
    BY <1>1
  <2> QED BY <1>3, <1>4, <2>1, <2>2
<1>7. CASE Overflows
  <2>1. line' = ring \o <<>> /\ ring \o <<>> = ring
    BY <1>1, <1>7 DEF Overflows, line
  <2>2. Len(line') = Len(ring) /\ 0 + Len(ring) <= Len(line)
    BY <1>1, <2>1, LineTyped
  <2>3. \A q \in 1 .. Len(ring) : line'[q] = line[0 + q]
    BY <1>1, <2>1, LineTyped
  <2> QED BY <1>1, <1>2, <2>2, <2>3, Window
<1>8. CASE OverflowEvent
  <2>1. Len(line') = 0
    BY <1>8 DEF OverflowEvent, line
  <2>2. 0 + 0 <= Len(line) /\ \A q \in 1 .. 0 : line'[q] = line[0 + q]
    BY LineTyped
  <2> QED BY <1>2, <2>1, <2>2, Window
<1> QED BY <1>5, <1>6, <1>7, <1>8
\* A frame that is sent comes last, and leaves every other cell what it was.
LEMMA SendLine ==
  ASSUME TypeOK, InOrder, NEW kind \in Kinds, Send(kind)
  PROVE  /\ InOrder'
         /\ \A n \in Nat : (Behinds(n) => Behinds(n)') /\ (Begun(n) => Begun(n)')
         /\ \A i \in 1 .. Len(sent) : SizeOf(i)' = SizeOf(i)
<1>0. PICK m \in Nat \ {0} : m = Len(sent) + 1
  BY LineTyped
<1> DEFINE f == [p \in 1 .. FrameSize[kind] |-> <<m, p>>]
           l == Len(line)
           size == [i \in 1 .. m |-> FrameSize[sent'[i].kind]]
<1>1. /\ sent \in Seq([kind : Kinds, calm : BOOLEAN]) /\ Len(sent) \in Nat /\ l \in Nat
      /\ FrameSize[kind] \in Nat \ {0}
  BY LineTyped, ReceiverAssumption DEF TypeOK
<1>2. /\ Len(sent') = m /\ sent'[m].kind = kind
      /\ \A i \in 1 .. Len(sent) : sent'[i] = sent[i]
  BY <1>0, <1>1 DEF Send
<1>3. /\ size[m] = FrameSize[kind]
      /\ \A i \in 1 .. Len(sent) : size[i] = SizeOf(i) /\ SizeOf(i)' = SizeOf(i)
  BY <1>0, <1>1, <1>2 DEF SizeOf
<1>4. f \in Seq(Cells(m)) /\ Len(f) = FrameSize[kind] /\ \A p \in 1 .. FrameSize[kind] : f[p] = <<m, p>>
  <2>1. f \in Seq(Cells(m))
    BY <1>0, <1>1, FrameBytes
  <2>2. DOMAIN f = 1 .. FrameSize[kind]
    OBVIOUS
  <2>3. \A p \in 1 .. FrameSize[kind] : f[p] = <<m, p>>
    OBVIOUS
  <2> HIDE DEF f
  <2> QED BY <1>1, <2>1, <2>2, <2>3
<1>5. line' = line \o f /\ line \in Seq(Cells(m))
  <2> DEFINE C == Cells(Len(sent))
             D == Cells(m)
  <2>1. C \subseteq D
    BY <1>0, <1>1, CellsGrow
  <2>2. fifo \in Seq(C) /\ ring \in Seq(C) /\ line \in Seq(C) /\ f \in Seq(D)
    BY <1>4, TypeParts, LineTyped DEF Received
  <2>3. line' = ring \o (fifo \o f)
    BY <1>0 DEF line, Send
  <2> HIDE DEF C, D, f
  <2>4. fifo \in Seq(D) /\ ring \in Seq(D) /\ line \in Seq(D)
    BY <2>1, <2>2, SeqGrows
  <2>5. \A a, b, c \in Seq(D) : (a \o b) \o c = a \o (b \o c)
    BY ConcatAssociative
  <2>6. (ring \o fifo) \o f = ring \o (fifo \o f)
    BY <2>2, <2>4, <2>5
  <2> QED BY <2>3, <2>4, <2>6 DEF line, D
<1> HIDE DEF f
<1>6. /\ Len(line') = l + FrameSize[kind]
      /\ \A q \in 1 .. l : line'[q] = line[q]
      /\ \A q \in 1 .. FrameSize[kind] : line'[l + q] = <<m, q>>
  BY <1>4, <1>5, Joined
<1> HIDE DEF l, size
<1>7. \A q \in 1 .. l : line[q][1] \in 1 .. Len(sent) /\ line[q][2] \in 1 .. SizeOf(line[q][1])
  BY DEF InOrder, l
<1>8. ASSUME NEW q \in 1 .. Len(line')
      PROVE  q \in 1 .. l \/ \E p \in 1 .. FrameSize[kind] : q = l + p /\ line'[q] = <<m, p>>
  <2>1. CASE q > l
    <3>1. q - l \in 1 .. FrameSize[kind] /\ q = l + (q - l)
      BY <1>1, <1>6, <2>1
    <3> QED BY <1>6, <3>1
  <2> QED BY <1>1, <1>6, <2>1
<1>9. InOrder'
  <2> SUFFICES ASSUME NEW q \in 1 .. Len(line')
               PROVE  /\ line'[q][1] \in 1 .. m
                      /\ line'[q][2] \in 1 .. size[line'[q][1]]
                      /\ \A r \in q + 1 .. Len(line') :
                           line'[q][1] < line'[r][1] \/
                             (line'[q][1] = line'[r][1] /\ line'[q][2] < line'[r][2])
                      /\ line'[q][2] <= q => line'[q - line'[q][2] + 1] = <<line'[q][1], 1>>
    BY <1>2 DEF InOrder, SizeOf, size
  <2>1. CASE q \in 1 .. l
    <3>1. line'[q] = line[q] /\ line[q][1] \in 1 .. Len(sent) /\ line[q][2] \in 1 .. SizeOf(line[q][1])
      BY <1>6, <1>7, <2>1
    <3>2. size[line'[q][1]] = SizeOf(line[q][1]) /\ SizeOf(line[q][1]) \in Nat
      BY <1>3, <3>1, Sizes, ReceiverAssumption
    <3>3. ASSUME NEW r \in q + 1 .. Len(line')
          PROVE  line'[q][1] < line'[r][1] \/
                   (line'[q][1] = line'[r][1] /\ line'[q][2] < line'[r][2])
      <4>1. CASE r \in 1 .. l
        <5>1. r \in q + 1 .. l /\ line'[r] = line[r]
          BY <1>6, <4>1
        <5> QED BY <2>1, <3>1, <5>1 DEF InOrder, l
      <4>2. CASE r \notin 1 .. l
        <5>1. r \in 1 .. Len(line')
          BY <1>1, <1>6
        <5>2. line'[r][1] = m
          BY <1>8, <4>2, <5>1
        <5> QED BY <1>0, <1>1, <3>1, <5>2
      <4> QED BY <4>1, <4>2
    <3>4. ASSUME line'[q][2] <= q PROVE line'[q - line'[q][2] + 1] = <<line'[q][1], 1>>
      <4> DEFINE p == line[q][2]
      <4>1. line[q - p + 1] = <<line[q][1], 1>> /\ p <= q
        BY <2>1, <3>1, <3>4 DEF InOrder, l
      <4>2. p \in Nat \ {0}
        BY <3>1, <3>2
      <4> HIDE DEF p
      <4>3. q - p + 1 \in 1 .. l
        BY <1>1, <2>1, <4>1, <4>2
      <4> QED BY <1>6, <3>1, <4>1, <4>3 DEF p
    <3> QED BY <1>0, <1>1, <3>1, <3>2, <3>3, <3>4
  <2>2. ASSUME NEW p \in 1 .. FrameSize[kind], q = l + p, line'[q] = <<m, p>>
        PROVE  /\ line'[q][1] \in 1 .. m
               /\ line'[q][2] \in 1 .. size[line'[q][1]]
               /\ \A r \in q + 1 .. Len(line') :
                    line'[q][1] < line'[r][1] \/
                      (line'[q][1] = line'[r][1] /\ line'[q][2] < line'[r][2])
               /\ line'[q][2] <= q => line'[q - line'[q][2] + 1] = <<line'[q][1], 1>>
    <3>1. line'[q][1] = m /\ line'[q][2] = p /\ size[line'[q][1]] = FrameSize[kind]
      BY <1>3, <2>2
    <3>2. ASSUME NEW r \in q + 1 .. Len(line') PROVE line'[r][1] = m /\ p < line'[r][2]
      <4>1. r \in 1 .. Len(line') /\ r \notin 1 .. l /\ r > q /\ r \in Nat
        BY <1>1, <1>6, <2>2
      <4>2. PICK s \in 1 .. FrameSize[kind] : r = l + s /\ line'[r] = <<m, s>>
        BY <1>8, <4>1
      <4> QED BY <1>1, <2>2, <4>1, <4>2
    <3>3. q - p + 1 = l + 1 /\ 1 \in 1 .. FrameSize[kind]
      BY <1>1, <2>2
    <3>4. line'[q - p + 1] = <<m, 1>>
      BY <1>6, <3>3
    <3> QED BY <1>0, <1>1, <3>1, <3>2, <3>4
  <2> QED BY <1>8, <2>1, <2>2
<1>10. ASSUME NEW n \in Nat PROVE (Behinds(n) => Behinds(n)') /\ (Begun(n) => Begun(n)')
  <2>1. ASSUME n <= Len(sent), \A q \in 1 .. l : n < line[q][1] PROVE Behinds(n)'
    <3>1. ASSUME NEW q \in 1 .. Len(line') PROVE n < line'[q][1]
      <4>1. CASE q \in 1 .. l
        BY <1>6, <2>1, <4>1
      <4>2. CASE q \notin 1 .. l
        <5>1. line'[q][1] = m
          BY <1>8, <4>2
        <5> QED BY <1>0, <1>1, <2>1, <5>1
      <4> QED BY <4>1, <4>2
    <3> QED BY <1>0, <1>1, <1>2, <2>1, <3>1 DEF Behinds
  <2>2. ASSUME Begun(n) PROVE Begun(n)'
    <3>1. Behinds(n)' /\ n < Len(sent)
      BY <2>1, <2>2 DEF Begun, Behinds, l
    <3>2. ASSUME NEW q \in 1 .. Len(line'), line'[q][2] = 1 PROVE n + 1 < line'[q][1]
      <4>1. CASE q \in 1 .. l
        BY <1>6, <2>2, <3>2, <4>1 DEF Begun, l
      <4>2. CASE q \notin 1 .. l
        <5>1. line'[q][1] = m
          BY <1>8, <4>2
        <5> QED BY <1>0, <1>1, <3>1, <5>1
      <4> QED BY <4>1, <4>2
    <3> QED BY <1>0, <1>1, <1>2, <3>1, <3>2 DEF Begun
  <2> QED BY <2>1, <2>2 DEF Behinds, l
<1> QED BY <1>3, <1>9, <1>10
\* An event takes its bytes from the front of the line.  What has a whole
\* frame brings the line one frame further, what leaves only a beginning
\* there does not, until the rest of it is read.
LEMMA EventLine ==
  ASSUME TypeOK, InOrder, DataEvent, NEW n \in Nat, Behinds(n)
  PROVE  /\ InOrder' /\ s_rx_available' # 0
         /\ Begun(n)'
         /\ ~NoneRead' => Behinds(n + 1)'
         /\ ~NoneRead' /\ Begun(n) => Behinds(n + 2)'
<1>1. /\ Len(line) = Len(ring) + Len(fifo) /\ Len(sent) \in Nat
      /\ Len(ring) \in Nat /\ Len(fifo) \in Nat /\ Len(line) \in Nat
  BY LineTyped
<1>2. PICK h \in Nat \ {0} : h = Head(events) /\ h <= Len(ring)
  <2>1. events \in Seq(Nat) /\ events # <<>> /\ Head(events) # 0 /\ Len(ring) >= Head(events)
    BY TypeParts DEF DataEvent, Overflow, Received
  <2> QED BY <2>1, <1>1
<1>3. PICK k \in 1 .. h : k = Smaller(h, CacheSize)
  BY ReceiverAssumption DEF Smaller
<1>4. /\ sent' = sent /\ fifo' = fifo /\ s_rx_available' = k
      /\ dtmp' = SubSeq(ring, 1, k) /\ ring' = SubSeq(ring, h + 1, Len(ring))
  BY <1>2, <1>3 DEF DataEvent
<1>5. /\ Len(dtmp') = k /\ \A q \in 1 .. k : dtmp'[q] = line[q]
      /\ Len(line') = Len(line) - h
      /\ \A q \in 1 .. Len(line) - h : line'[q] = line[h + q]
  <2> DEFINE C == Cells(Len(sent))
             r == SubSeq(ring, h + 1, Len(ring))
  <2>1. ring \in Seq(C) /\ fifo \in Seq(C)
    BY TypeParts DEF Received
  <2> HIDE DEF C
  <2>2. Len(SubSeq(ring, 1, k)) = k /\ \A q \in 1 .. k : SubSeq(ring, 1, k)[q] = ring[q]
    <3>1. k \in Nat /\ k <= Len(ring)
      BY <1>1, <1>2
    <3> QED BY <2>1, <3>1, SMTT(30)
  <2>3. Len(r) = Len(ring) - h /\ r \in Seq(C) /\ \A q \in 1 .. Len(ring) - h : r[q] = ring[h + q]
    BY <1>2, <2>1, Behind, Tails
  <2> HIDE DEF r
  <2>4. /\ Len(r \o fifo) = Len(r) + Len(fifo)
        /\ \A q \in 1 .. Len(r) : (r \o fifo)[q] = r[q]
        /\ \A q \in 1 .. Len(fifo) : (r \o fifo)[Len(r) + q] = fifo[q]
    <3>1. r \in Seq(C) /\ fifo \in Seq(C)
      BY <2>1, <2>3
    <3> QED BY <3>1, Joined
  <2>5. line' = r \o fifo
    BY <1>4 DEF line, r
  <2>6. Len(line') = Len(line) - h
    BY <1>1, <1>2, <2>3, <2>4, <2>5
  <2>7. /\ \A q \in 1 .. Len(ring) : line[q] = ring[q]
        /\ \A q \in 1 .. Len(fifo) : line[Len(ring) + q] = fifo[q]
    BY LineTyped
  <2>8. ASSUME NEW q \in 1 .. Len(line) - h PROVE line'[q] = line[h + q]
    <3>1. CASE q <= Len(r)
      <4>1. Len(r) = Len(ring) - h
        BY <2>3
      <4>2. q \in 1 .. Len(r) /\ q \in 1 .. Len(ring) - h /\ h + q \in 1 .. Len(ring)
        <5>1. q \in Nat \ {0} /\ q <= Len(ring) - h /\ Len(ring) \in Nat /\ h \in Nat
          BY <1>1, <3>1, <4>1
        <5> QED BY <4>1, <5>1
      <4>3. line'[q] = r[q]
        BY <2>4, <2>5, <4>2
      <4> QED BY <2>3, <2>7, <4>2, <4>3
    <3>2. CASE q > Len(r)
      <4>1. Len(r) = Len(ring) - h /\ Len(r) \in Nat /\ q \in Nat
        BY <1>1, <1>2, <2>3
      <4>2. PICK p \in Nat : p = q - Len(r)
        BY <3>2, <4>1
      <4>3. p # 0 /\ q = Len(r) + p
        BY <3>2, <4>1, <4>2
      <4>4. h + q = Len(ring) + p /\ p <= Len(fifo)
        <5>1. Len(line) = Len(ring) + Len(fifo) /\ Len(ring) \in Nat /\ Len(fifo) \in Nat /\ q <= Len(line) - h
          BY <1>1
        <5> QED BY <4>1, <4>3, <5>1
      <4>5. p \in 1 .. Len(fifo)
        BY <1>1, <4>3, <4>4
      <4>6. line'[q] = fifo[p] /\ line[h + q] = fifo[p]
        <5>1. line'[q] = fifo[p]
          BY <2>4, <2>5, <4>3, <4>5
        <5>2. line[h + q] = fifo[p]
          BY <2>7, <4>4, <4>5
        <5> QED BY <5>1, <5>2
      <4> QED BY <4>6
    <3> QED BY <1>1, <2>3, <3>1, <3>2
  <2>9. \A q \in 1 .. k : q \in 1 .. Len(ring)
    BY <1>1, <1>2
  <2> QED BY <1>4, <2>2, <2>6, <2>7, <2>8, <2>9
<1>6. /\ h \in Nat /\ Len(line) - h \in Nat /\ h + (Len(line) - h) <= Len(line)
      /\ 1 \in 1 .. Len(line) /\ \A q \in 1 .. k : q \in 1 .. Len(line)
  BY <1>1, <1>2
<1>7. InOrder' /\ \A i \in Nat : (Behinds(i) => Behinds(i)') /\ (Begun(i) => Begun(i)')
  BY <1>4, <1>5, <1>6, Window
<1>8. \A q \in 1 .. Len(line) : line[q][1] \in 1 .. Len(sent) /\ n < line[q][1] /\ line[q][2] \in Nat \ {0}
  <2> SUFFICES ASSUME NEW q \in 1 .. Len(line)
               PROVE  line[q][1] \in 1 .. Len(sent) /\ n < line[q][1] /\ line[q][2] \in Nat \ {0}
    OBVIOUS
  <2>1. line[q][1] \in 1 .. Len(sent) /\ line[q][2] \in 1 .. SizeOf(line[q][1])
    BY DEF InOrder
  <2>2. SizeOf(line[q][1]) \in Nat
    BY <2>1, Sizes, ReceiverAssumption
  <2> QED BY <2>1, <2>2 DEF Behinds
<1>9. \A q \in 1 .. Len(line'), p \in 1 .. h :
         /\ p \in 1 .. Len(line) /\ h + q \in p + 1 .. Len(line) /\ h + q \in 1 .. Len(line)
         /\ line'[q] = line[h + q]
  <2> SUFFICES ASSUME NEW q \in 1 .. Len(line'), NEW p \in 1 .. h
               PROVE  /\ p \in 1 .. Len(line) /\ h + q \in p + 1 .. Len(line) /\ h + q \in 1 .. Len(line)
                      /\ line'[q] = line[h + q]
    OBVIOUS
  <2>1. Len(line') = Len(line) - h
    BY <1>5
  <2>2. p \in 1 .. Len(line) /\ h + q \in p + 1 .. Len(line) /\ h + q \in 1 .. Len(line)
    <3>1. /\ p \in Nat \ {0} /\ p <= h /\ h <= Len(line)
          /\ q \in Nat \ {0} /\ q <= Len(line) - h /\ Len(line) \in Nat
      BY <1>1, <1>2, <2>1
    <3> QED BY <3>1
  <2> QED BY <1>5, <2>1, <2>2
<1>10. Begun(n)'
  <2>1. n < Len(sent)
    BY <1>1, <1>6, <1>8
  <2>2. ASSUME NEW q \in 1 .. Len(line'), line'[q][2] = 1 PROVE n + 1 < line'[q][1]
    <3>1. /\ line'[q] = line[h + q] /\ h + q \in 1 + 1 .. Len(line) /\ h + q \in 1 .. Len(line)
      BY <1>9
    <3>2. line[1][1] < line[h + q][1] \/ line[1][2] < line[h + q][2]
      BY <1>6, <3>1 DEF InOrder
    <3>3. /\ line[1][1] \in Nat /\ n < line[1][1] /\ line[1][2] \in Nat \ {0}
          /\ line[h + q][1] \in Nat /\ n < line[h + q][1]
      <4>1. 1 \in 1 .. Len(line) /\ h + q \in 1 .. Len(line)
        BY <1>6, <3>1
      <4> QED BY <1>8, <4>1, SMTT(20)
    <3>4. line[1][1] < line[h + q][1]
      BY <2>2, <3>1, <3>2, <3>3
    <3>5. n + 1 < line[h + q][1]
      BY <3>3, <3>4
    <3> QED BY <3>1, <3>5
  <2> QED BY <1>4, <1>7, <2>1, <2>2 DEF Begun
<1>11. ASSUME ~NoneRead' PROVE Behinds(n + 1)' /\ (Begun(n) => Behinds(n + 2)')
  <2>1. PICK p \in 1 .. k : line[p][2] = SizeOf(line[p][1]) /\ ~(p < line[p][2])
    BY <1>4, <1>5, <1>11 DEF NoneRead, NoneWhole, SizeOf
  <2>2. /\ p \in 1 .. Len(line) /\ p \in 1 .. h
        /\ line[p][1] \in 1 .. Len(sent) /\ n < line[p][1] /\ line[p][2] \in Nat \ {0}
    <3>1. p \in 1 .. Len(line) /\ p \in 1 .. h
      BY <1>2, <1>6, <2>1
    <3> QED BY <1>8, <3>1
  <2>3. ASSUME NEW q \in 1 .. Len(line') PROVE line[p][1] < line'[q][1]
    <3>1. /\ line'[q] = line[h + q] /\ h + q \in p + 1 .. Len(line) /\ h + q \in 1 .. Len(line)
      BY <1>9, <2>2
    <3>2. line[p][1] < line[h + q][1] \/
            (line[p][1] = line[h + q][1] /\ line[p][2] < line[h + q][2])
      BY <2>2, <3>1 DEF InOrder
    <3>3. line[h + q][2] \in 1 .. SizeOf(line[h + q][1])
      BY <3>1 DEF InOrder
    <3>4. SizeOf(line[p][1]) \in Nat
      BY <2>2, Sizes, ReceiverAssumption
    <3> QED BY <2>1, <3>1, <3>2, <3>3, <3>4
  <2>4. line[p - line[p][2] + 1] = <<line[p][1], 1>> /\ p - line[p][2] + 1 \in 1 .. Len(line)
    <3>1. line[p][2] <= p
      BY <2>1, <2>2
    <3>2. line[p - line[p][2] + 1] = <<line[p][1], 1>>
      BY <2>2, <3>1 DEF InOrder
    <3> QED BY <1>1, <2>2, <3>1, <3>2
  <2>5. ASSUME NEW i \in Nat, i <= line[p][1] PROVE Behinds(i)'
    <3>1. ASSUME NEW q \in 1 .. Len(line') PROVE i < line'[q][1]
      <4>1. line[p][1] < line'[q][1]
        BY <2>3
      <4>2. line'[q] = line[h + q] /\ h + q \in 1 .. Len(line)
        BY <1>9, <2>2
      <4>3. line[h + q][1] \in Nat
        BY <1>8, <4>2
      <4> QED BY <2>2, <2>5, <4>1, <4>2, <4>3
    <3>2. i <= Len(sent)
      BY <1>1, <2>2, <2>5
    <3> QED BY <1>4, <3>1, <3>2 DEF Behinds
  <2>6. Behinds(n + 1)'
    BY <1>1, <2>2, <2>5
  <2>7. ASSUME Begun(n) PROVE Behinds(n + 2)'
    <3>1. n + 1 < line[p][1]
      BY <2>4, <2>7 DEF Begun
    <3> QED BY <1>1, <2>2, <2>5, <3>1
  <2> QED BY <2>6, <2>7
<1> QED BY <1>3, <1>4, <1>7, <1>10, <1>11

-----------------------------------------------------------------------------
(* Counting                                                                 *)

LEMMA RoomShrinks ==
  ASSUME TypeOK, InOrder, NEW n \in Nat
  PROVE  /\ Behinds(n + 1) => Behinds(n)
         /\ Room(n + 1) => Room(n)
         /\ Hopeless(n) => Room(n)
<1>1. Len(sent) \in Nat /\ \A q \in 1 .. Len(line) : line[q][1] \in Nat
  <2>1. Len(sent) \in Nat
    BY LineTyped
  <2> QED BY <2>1 DEF InOrder
<1>2. ASSUME NEW i \in Nat PROVE Behinds(i + 1) => Behinds(i)
  BY <1>1 DEF Behinds
<1>3. Behinds(n + 1) => Behinds(n)
  BY <1>2
<1>4. Behinds((n + 1) + 1) => Behinds(n + 1)
  BY <1>2
<1>5. Room(n + 1) => Room(n)
  BY <1>3, <1>4 DEF Room, Pending, Begun
<1> QED BY <1>3, <1>5 DEF Hopeless, Room, Pending, Begun

\* A step that asks for no other length, puts nothing in the event task's
\* place and takes nothing.
LEMMA CountKept ==
  ASSUME \A n \in Nat : (Behinds(n) => Behinds(n)') /\ (Begun(n) => Begun(n)'),
         NoneRead => NoneRead', NoneCached => NoneCached', NoneCopied => NoneCopied',
         Asked' <=> Asked, Filled' => Filled, Counted, reader' = reader, got' = got
  PROVE  Counted'
<1>1. ASSUME NEW n \in Nat PROVE Room(n) => Room(n)'
  <2>1. (Behinds(n + 1) => Behinds(n + 1)') /\ (Begun(n) => Begun(n)') /\ (Behinds(n) => Behinds(n)')
    OBVIOUS
  <2>2. Pending(n) => Pending(n)'
    BY <2>1 DEF Pending
  <2> QED BY <2>1, <2>2 DEF Room
<1>2. ASSUME NEW n \in Nat PROVE Hopeless(n) => Hopeless(n)'
  BY DEF Hopeless
<1> QED BY <1>1, <1>2 DEF Counted

\* The size of a frame that was sent does not change.
LEMMA BytesKept ==
  ASSUME TypeOK, \A i \in 1 .. Len(sent) : SizeOf(i)' = SizeOf(i),
         UNCHANGED <<dtmp, s_rx_cache, buff_ser1>>
  PROVE  /\ NoneRead => NoneRead'
         /\ NoneCached => NoneCached'
         /\ NoneCopied => NoneCopied'
<1> DEFINE C == Cells(Len(sent))
<1>1. dtmp \in Seq(C) /\ s_rx_cache \in [1 .. CacheSize -> C] /\ buff_ser1 \in Seq(C)
  BY TypeParts DEF Cached, Taken
<1>2. ASSUME NEW c \in C, c # Zero PROVE c[1] \in 1 .. Len(sent)
  BY <1>2 DEF Cells
<1> HIDE DEF C
<1>3. ASSUME NEW bytes, NEW m, \A q \in 1 .. m : bytes[q] \in C, NoneWhole(bytes, m)
      PROVE  \A q \in 1 .. m :
               bytes[q] # Zero /\ bytes[q][2] = FrameSize[sent'[bytes[q][1]].kind] => q < bytes[q][2]
  BY <1>2, <1>3 DEF NoneWhole, SizeOf
<1>4. /\ \A q \in 1 .. Len(dtmp) : dtmp[q] \in C
      /\ \A q \in 1 .. CacheSize : s_rx_cache[q] \in C
      /\ \A q \in 1 .. Len(buff_ser1) : buff_ser1[q] \in C
  BY <1>1
<1>5. NoneRead => NoneRead'
  BY <1>3, <1>4 DEF NoneRead, NoneWhole, SizeOf
<1>6. NoneCached => NoneCached'
  BY <1>3, <1>4 DEF NoneCached, NoneWhole, SizeOf
<1>7. NoneCopied => NoneCopied'
  BY <1>3, <1>4 DEF NoneCopied, NoneWhole, SizeOf
<1> QED BY <1>5, <1>6, <1>7

\* The board and the driver.
LEMMA PromptLine ==
  ASSUME TypeOK, InOrder, Numbered,
         \/ \E kind \in Kinds : Send(kind)
         \/ Interrupt \/ Pause \/ Overflows \/ OverflowEvent
  PROVE  InOrder' /\ Numbered' /\ (Counted => Counted')
<1>1. UNCHANGED <<s_rx_available, cacheVars, readerVars>>
  BY DEF Send, Interrupt, Pause, Overflows, OverflowEvent, Announce
<1>2. /\ UNCHANGED <<s_rx_available, s_rx_cache, etask, dtmp, reader, rx_buf_tail, buff_ser1, got>>
      /\ Numbered' /\ (Asked' <=> Asked) /\ (Filled' => Filled)
  BY <1>1 DEF cacheVars, readerVars, Numbered, Asked, Filled
<1>3. /\ InOrder'
      /\ \A n \in Nat : (Behinds(n) => Behinds(n)') /\ (Begun(n) => Begun(n)')
      /\ \A i \in 1 .. Len(sent) : SizeOf(i)' = SizeOf(i)
  <2>1. CASE \E kind \in Kinds : Send(kind)
    BY <2>1, SendLine
  <2>2. CASE Interrupt \/ Pause \/ Overflows \/ OverflowEvent
    <3>1. sent' = sent
      BY <2>2 DEF Interrupt, Pause, Overflows, OverflowEvent, Announce
    <3>2. \A i \in 1 .. Len(sent) : SizeOf(i)' = SizeOf(i)
      BY <3>1 DEF SizeOf
    <3> QED BY <2>2, <3>2, DriverWindow
  <2> QED BY <2>1, <2>2
<1>4. (NoneRead => NoneRead') /\ (NoneCached => NoneCached') /\ (NoneCopied => NoneCopied')
  BY <1>2, <1>3, BytesKept
<1> QED BY <1>2, <1>3, <1>4, CountKept

\* An event makes a length asked for, and finds the line no less behind.
LEMMA PromptEvent ==
  ASSUME TypeOK, InOrder, Numbered, DataEvent
  PROVE  InOrder' /\ Numbered' /\ (Counted => Counted')
<1>1. /\ UNCHANGED <<sent, s_rx_cache, reader, claimed, rx_buf_tail, buff_ser1, got>>
      /\ etask = "wait" /\ etask' = "memset"
  BY DEF DataEvent, readerVars
<1>2. Behinds(0)
  BY LineTyped DEF Behinds, InOrder
<1>3. InOrder' /\ Asked' /\ Filled
  BY <1>1, <1>2, EventLine DEF Asked, Filled
<1>4. (NoneCached => NoneCached') /\ (NoneCopied => NoneCopied')
  BY <1>1 DEF NoneCached, NoneCopied, NoneWhole, SizeOf
<1>5. ASSUME NEW n \in Nat, Room(n) PROVE Room(n)'
  <2>1. Behinds(n)
    BY <1>5, RoomShrinks DEF Room, Pending, Begun
  <2>2. CASE ~NoneRead'
    BY <1>3, <2>1, <2>2, EventLine DEF Room, Pending
  <2>3. CASE NoneRead' /\ Behinds(n + 1)
    <3>1. Behinds(n + 1)'
      BY <1>1, <2>3, EventLine DEF Begun
    <3> QED BY <1>3, <3>1 DEF Room, Pending
  <2>4. CASE NoneRead' /\ ~Behinds(n + 1)
    <3>1. Filled' => NoneCached'
      <4>1. CASE Asked
        BY <1>3, <1>4, <1>5, <2>4, <4>1 DEF Room, Pending
      <4>2. CASE ~Asked
        BY <1>1, <4>2 DEF Asked, Filled
      <4> QED BY <4>1, <4>2
    <3>2. Begun(n)'
      BY <2>1, EventLine
    <3> QED BY <1>3, <2>4, <3>1, <3>2 DEF Room, Pending
  <2> QED BY <2>2, <2>3, <2>4
<1>6. ASSUME NEW n \in Nat, Hopeless(n) PROVE Hopeless(n)' \/ Room(n + 1)'
  <2>1. Behinds(n)
    BY <1>6 DEF Hopeless, Begun
  <2>2. CASE NoneRead'
    BY <1>4, <1>6, <2>1, <2>2, EventLine DEF Hopeless
  <2>3. CASE ~NoneRead'
    <3>1. Behinds(n + 2)' /\ n + 2 = (n + 1) + 1
      BY <1>6, <2>1, <2>3, EventLine DEF Hopeless
    <3> QED BY <1>3, <3>1 DEF Room, Pending
  <2> QED BY <2>2, <2>3
<1>7. Numbered'
  BY <1>1 DEF Numbered
<1>8. Counted => Counted'
  BY <1>1, <1>5, <1>6 DEF Counted
<1> QED BY <1>3, <1>7, <1>8

\* The event task copies what it read to the cache.
LEMMA PromptCache ==
  ASSUME TypeOK, InOrder, Numbered, ClearCache \/ FillCache
  PROVE  InOrder' /\ Numbered' /\ (Counted => Counted')
<1>1. /\ UNCHANGED <<sent, fifo, ring, s_rx_available, reader, claimed, rx_buf_tail, buff_ser1, got>>
      /\ etask # "wait"
  BY DEF ClearCache, FillCache, driverVars, readerVars
<1>2. UNCHANGED line
  BY <1>1 DEF line
<1>3. InOrder' /\ \A n \in Nat : (Behinds(n) => Behinds(n)') /\ (Begun(n) => Begun(n)')
  BY <1>1, <1>2 DEF InOrder, SizeOf, Behinds, Begun
<1>4. Numbered' /\ (Asked' <=> Asked) /\ (NoneCopied => NoneCopied')
  BY <1>1 DEF Numbered, Asked, NoneCopied, NoneWhole, SizeOf
<1>5. CASE ClearCache
  <2>1. /\ dtmp' = dtmp /\ \A q \in 1 .. CacheSize : s_rx_cache'[q] = Zero
        /\ etask' # "wait"
    BY <1>5 DEF ClearCache
  <2>2. (NoneRead => NoneRead') /\ NoneCached' /\ (Filled' => Filled)
    BY <1>1, <2>1 DEF NoneRead, NoneCached, NoneWhole, SizeOf, Filled
  <2> QED BY <1>1, <1>3, <1>4, <2>2, CountKept
<1>6. CASE FillCache
  <2>1. /\ dtmp' = <<>> /\ Len(dtmp) \in Nat
        /\ \A q \in 1 .. CacheSize : s_rx_cache'[q] = IF q <= Len(dtmp) THEN dtmp[q] ELSE Zero
    BY <1>6, TypeParts DEF FillCache, Cached
  <2>2. NoneRead'
    BY <2>1 DEF NoneRead, NoneWhole
  <2>3. NoneRead => NoneCached'
    <3>1. \A q \in 1 .. CacheSize :
            s_rx_cache'[q] = Zero \/ (q \in 1 .. Len(dtmp) /\ s_rx_cache'[q] = dtmp[q])
      BY <2>1, ReceiverAssumption
    <3> QED BY <1>1, <3>1 DEF NoneRead, NoneCached, NoneWhole, SizeOf
  <2>4. ASSUME NEW n \in Nat PROVE (Room(n) => Room(n)') /\ (Hopeless(n) => Hopeless(n)')
    <3>1. (Behinds(n + 1) => Behinds(n + 1)') /\ (Begun(n) => Begun(n)') /\ (Behinds(n) => Behinds(n)')
      BY <1>3
    <3>2. Pending(n) => Pending(n)'
      BY <2>2, <2>3, <3>1 DEF Pending
    <3> QED BY <1>4, <2>2, <2>3, <3>1, <3>2 DEF Room, Hopeless
  <2>5. Counted => Counted'
    BY <1>1, <2>4 DEF Counted
  <2> QED BY <1>3, <1>4, <2>5
<1> QED BY <1>5, <1>6

\* A length that is seen twice is read under, and what is read under it is
\* what the event task filled the cache with last.
LEMMA PromptClaim ==
  ASSUME TypeOK, InOrder, Numbered, ClaimsNothing \/ Claims \/ Claimed,
         spent' = spent \/ ~ClaimsNothing
  PROVE  InOrder' /\ Numbered' /\ (Counted => Counted')
<1>1. /\ UNCHANGED <<sent, fifo, ring, s_rx_cache, etask, dtmp, got>>
      /\ reader # "reading"
  BY DEF ClaimsNothing, Claims, Claimed, Compares, driverVars, cacheVars
<1>2. UNCHANGED line
  BY <1>1 DEF line
<1>3. InOrder' /\ \A n \in Nat : (Behinds(n) <=> Behinds(n)') /\ (Begun(n) <=> Begun(n)')
  BY <1>1, <1>2 DEF InOrder, SizeOf, Behinds, Begun
<1>4. (NoneRead' <=> NoneRead) /\ (NoneCached' <=> NoneCached)
  BY <1>1 DEF NoneRead, NoneCached, NoneWhole, SizeOf
<1>5. ASSUME Takes, Asked, Filled, s_rx_available' = 0 PROVE Numbered' /\ (Counted => Counted')
  <2>1. /\ reader' = "reading" /\ buff_ser1' = <<>> /\ rx_buf_tail' = 0 /\ ~Asked'
    BY <1>5 DEF Takes, Asked
  <2>2. NoneCopied'
    BY <2>1 DEF NoneCopied, NoneWhole
  <2>3. ASSUME NEW n \in Nat, Pending(n) PROVE Hopeless(n)' \/ Room(n + 1)'
    <3>1. CASE Behinds(n + 1)
      BY <1>3, <2>1, <3>1 DEF Room
    <3>2. CASE Begun(n) /\ NoneRead /\ NoneCached
      BY <1>3, <1>4, <2>2, <3>2 DEF Hopeless
    <3> QED BY <1>5, <2>3, <3>1, <3>2 DEF Pending
  <2>4. ASSUME Counted PROVE Counted'
    <3>1. \A n \in Nat : n = Len(got) => Pending(n)
      BY <1>1, <1>5, <2>4 DEF Counted, Room
    <3> QED BY <1>1, <2>1, <2>3, <3>1 DEF Counted
  <2> QED BY <2>1, <2>4 DEF Numbered
<1>6. CASE ClaimsNothing
  <2>1. Takes /\ rx_buf_tail # 0 /\ s_rx_available' = 0
    BY <1>6 DEF ClaimsNothing
  <2>2. etask = "wait"
    <3>1. ~(spent' = spent) \/ etask = "wait"
      BY <1>6, TypeParts DEF ClaimsNothing, Bounded, Frames, Hindrances
    <3> QED BY <1>6, <3>1
  <2> QED BY <1>3, <1>5, <2>1, <2>2 DEF Asked, Filled
<1>7. ASSUME reader' # "reading", Asked, Asked', Filled' => Filled PROVE Counted => Counted'
  <2>1. ASSUME NEW n \in Nat, Room(n) PROVE Room(n)'
    BY <1>3, <1>4, <1>7, <2>1 DEF Room, Pending
  <2> QED BY <1>1, <1>7, <2>1 DEF Counted
<1>8. CASE Claims
  <2>1. /\ s_rx_available # 0 /\ UNCHANGED <<s_rx_available, rx_buf_tail>>
        /\ claimed' = s_rx_available /\ reader' = "claiming"
    BY <1>8 DEF Claims
  <2>2. Numbered' /\ Asked /\ Asked' /\ (Filled' => Filled)
    BY <1>1, <2>1 DEF Numbered, Asked, Filled
  <2> QED BY <1>3, <1>7, <2>1, <2>2
<1>9. CASE Claimed
  <2>1. s_rx_available' = 0 /\ reader = "claiming" /\ claimed # 0 /\ Asked
    BY <1>9 DEF Claimed, Compares, Numbered, Asked
  <2>2. CASE claimed # rx_buf_tail
    <3>1. rx_buf_tail' = claimed /\ reader' = "away"
      BY <1>9, <2>2 DEF Claimed, Compares
    <3>2. Numbered' /\ Asked' /\ (Filled' => Filled)
      BY <1>1, <2>1, <3>1 DEF Numbered, Asked, Filled
    <3> QED BY <1>3, <1>7, <2>1, <3>1, <3>2
  <2>3. CASE claimed = rx_buf_tail
    <3>1. Takes /\ Filled
      BY <1>9, <2>1, <2>3 DEF Claimed, Compares, Filled
    <3> QED BY <1>3, <1>5, <2>1, <3>1
  <2> QED BY <2>2, <2>3
<1> QED BY <1>6, <1>8, <1>9

\* Nothing is taken from a copy that no whole frame is in.
LEMMA NothingWhole ==
  ASSUME TypeOK, NoneCopied, TakesText \/ TakesData PROVE FALSE
<1> DEFINE a == FrameSize["ACK"]
<1>1. Len(buff_ser1) \in Nat /\ Len(sent) \in Nat /\ a \in Nat \ {0}
  BY Numbers, TypeParts, ReceiverAssumption DEF Taken, Kinds
<1>2. ASSUME NEW q \in 1 .. Len(buff_ser1), NEW i \in 1 .. Len(sent),
             buff_ser1[q] = <<i, SizeOf(i)>>
      PROVE  q < SizeOf(i)
  <2>1. buff_ser1[q] # Zero /\ buff_ser1[q][1] = i /\ buff_ser1[q][2] = SizeOf(i)
    BY <1>1, <1>2 DEF Zero
  <2> QED BY <2>1 DEF NoneCopied, NoneWhole
<1>3. CASE TakesText
  <2>1. PICK k \in Offsets : TRUE
    BY <1>3 DEF TakesText
  <2>2. k \in Nat /\ k + a \in 1 .. Len(buff_ser1)
    <3>1. k \in Nat /\ k + a <= Len(buff_ser1)
      BY <1>1, <2>1 DEF Offsets, TextAt
    <3> QED BY <1>1, <3>1
  <2>3. \A p \in 1 .. a : \E i \in 1 .. Len(sent) : sent[i].kind = "ACK" /\ buff_ser1[k + p] = <<i, p>>
    BY <2>1 DEF Offsets, TextAt
  <2>4. a \in 1 .. a
    BY <1>1
  <2> HIDE DEF a
  <2>5. PICK i \in 1 .. Len(sent) : sent[i].kind = "ACK" /\ buff_ser1[k + a] = <<i, a>>
    BY <2>3, <2>4
  <2>6. SizeOf(i) = a
    BY <2>5 DEF SizeOf, a
  <2>7. k + a < a
    BY <1>2, <2>2, <2>5, <2>6
  <2> QED BY <1>1, <2>2, <2>7
<1>4. CASE TakesData
  <2>1. PICK i \in 1 .. Len(sent) : DataAs(i)
    BY <1>4 DEF TakesData
  <2>2. SizeOf(i) \in Nat \ {0}
    BY Sizes, ReceiverAssumption
  <2>3. buff_ser1 = [p \in 1 .. SizeOf(i) |-> <<i, p>>]
    BY <2>1 DEF DataAs, Frame, SizeOf
  <2>4. DOMAIN buff_ser1 = 1 .. SizeOf(i) /\ DOMAIN buff_ser1 = 1 .. Len(buff_ser1)
    <3>1. DOMAIN buff_ser1 = 1 .. Len(buff_ser1)
      BY TypeParts DEF Taken
    <3> QED BY <2>3, <3>1
  <2>5. SizeOf(i) \in 1 .. Len(buff_ser1) /\ buff_ser1[SizeOf(i)] = <<i, SizeOf(i)>>
    BY <2>2, <2>3, <2>4
  <2> QED BY <1>2, <2>2, <2>5
<1> QED BY <1>3, <1>4

\* What is taken under a length has room on the line.
LEMMA PromptRead ==
  ASSUME TypeOK, InOrder, Numbered, ReadByte \/ TakesText \/ TakesData \/ Rejects
  PROVE  InOrder' /\ Numbered' /\ (Counted => Counted')
<1>1. /\ UNCHANGED <<sent, fifo, ring, s_rx_available, s_rx_cache, etask, dtmp, claimed, rx_buf_tail>>
      /\ reader = "reading" /\ reader' \in {"reading", "away"}
  BY DEF ReadByte, TakesText, TakesData, Rejects, Judges, driverVars, cacheVars
<1>2. UNCHANGED line
  BY <1>1 DEF line
<1>3. InOrder' /\ \A n \in Nat : (Behinds(n) <=> Behinds(n)') /\ (Begun(n) <=> Begun(n)')
  BY <1>1, <1>2 DEF InOrder, SizeOf, Behinds, Begun
<1>4. /\ NoneRead' <=> NoneRead
      /\ NoneCached' <=> NoneCached
      /\ Asked' <=> Asked
      /\ Filled' <=> Filled
      /\ Numbered'
  BY <1>1 DEF NoneRead, NoneCached, NoneWhole, SizeOf, Asked, Filled, Numbered
<1>5. \A n \in Nat : Room(n) => Room(n)'
  BY <1>3, <1>4 DEF Room, Pending
<1>6. CASE ReadByte
  <2>1. NoneCopied /\ NoneCached => NoneCopied'
    <3>1. /\ buff_ser1' = Append(buff_ser1, s_rx_cache[Len(buff_ser1) + 1])
          /\ buff_ser1 \in Seq(Cells(Len(sent))) /\ Len(buff_ser1) \in Nat
          /\ Len(buff_ser1) + 1 \in 1 .. CacheSize
      BY <1>6, TypeParts, ReceiverAssumption DEF ReadByte, Taken
    <3>2. s_rx_cache[Len(buff_ser1) + 1] \in Cells(Len(sent))
      BY <3>1, TypeParts DEF Cached
    <3>3. /\ Len(buff_ser1') = Len(buff_ser1) + 1
          /\ buff_ser1'[Len(buff_ser1) + 1] = s_rx_cache[Len(buff_ser1) + 1]
          /\ \A q \in 1 .. Len(buff_ser1) : buff_ser1'[q] = buff_ser1[q]
      BY <3>1, <3>2, AppendProperties
    <3>4. \A q \in 1 .. Len(buff_ser1') : q \in 1 .. Len(buff_ser1) \/ q = Len(buff_ser1) + 1
      BY <3>1, <3>3
    <3> QED BY <1>1, <3>1, <3>3, <3>4 DEF NoneCopied, NoneCached, NoneWhole, SizeOf
  <2>2. reader' = reader /\ got' = got
    BY <1>6 DEF ReadByte
  <2>3. \A n \in Nat : Hopeless(n) => Hopeless(n)'
    BY <1>3, <1>4, <2>1 DEF Hopeless
  <2> QED BY <1>3, <1>4, <1>5, <2>2, <2>3 DEF Counted
<1>7. CASE TakesText \/ TakesData
  <2>1. PICK i \in 1 .. Len(sent) : got' = Append(got, i)
    BY <1>7, TakenBytes
  <2>2. Len(got') = Len(got) + 1 /\ Len(got) \in Nat /\ reader' = "away"
    BY <1>7, <2>1, Numbers DEF TakesText, TakesData, Judges
  <2>3. ASSUME Counted PROVE Counted'
    <3>1. \A n \in Nat : ~Hopeless(n)
      BY <1>7, NothingWhole DEF Hopeless
    <3>2. \A n \in Nat : n = Len(got) => Room(n + 1)'
      BY <1>1, <1>5, <2>3, <3>1 DEF Counted
    <3>3. \A n \in Nat : n = Len(got') => Room(n)'
      BY <2>2, <3>2
    <3> QED BY <2>2, <3>3 DEF Counted
  <2> QED BY <1>3, <1>4, <2>3
<1>8. CASE Rejects
  <2>1. got' = got /\ reader' = "away"
    BY <1>8 DEF Rejects, Judges
  <2>2. ASSUME Counted PROVE Counted'
    <3>1. \A n \in Nat : n = Len(got) => Room(n)
      BY <1>1, <2>2, RoomShrinks DEF Counted
    <3> QED BY <1>5, <2>1, <3>1 DEF Counted
  <2> QED BY <1>3, <1>4, <2>2
<1> QED BY <1>6, <1>7, <1>8

-----------------------------------------------------------------------------
(* The invariant                                                            *)

LEMMA PromptInit == Init => PromptInv
<1> SUFFICES ASSUME Init PROVE InOrder /\ Numbered /\ Counted
  BY DEF PromptInv
<1>1. Len(line) = 0 /\ Len(got) = 0 /\ Len(sent) = 0
  BY DEF Init, line
<1>2. InOrder /\ Behinds(0) /\ ~Asked /\ Numbered
  BY <1>1 DEF Init, InOrder, Behinds, Asked, Numbered
<1>3. Counted
  BY <1>1, <1>2 DEF Init, Counted, Room
<1> QED BY <1>2, <1>3

LEMMA PromptStep == TypeOK /\ PromptInv /\ [Next]_vars => PromptInv'
<1> SUFFICES ASSUME TypeOK, PromptInv, [Next]_vars PROVE PromptInv'
  OBVIOUS
<1>1. CASE UNCHANGED vars
  <2>1. UNCHANGED <<sent, fifo, ring, line, s_rx_available, s_rx_cache, etask, dtmp, reader, claimed,
                    rx_buf_tail, buff_ser1, got, spent>>
    BY <1>1 DEF vars, driverVars, cacheVars, readerVars, line
  <2>2. /\ InOrder' <=> InOrder
        /\ Numbered' <=> Numbered
    BY <2>1 DEF InOrder, SizeOf, Numbered
  <2>3. /\ \A n \in Nat : (Behinds(n) => Behinds(n)') /\ (Begun(n) => Begun(n)')
        /\ NoneRead => NoneRead'
        /\ NoneCached => NoneCached'
        /\ NoneCopied => NoneCopied'
        /\ Asked' <=> Asked
        /\ Filled' => Filled
    BY <2>1 DEF Behinds, Begun, NoneRead, NoneCached, NoneCopied, NoneWhole, SizeOf, Asked, Filled
  <2> QED BY <2>1, <2>2, <2>3, CountKept DEF PromptInv
<1>2. CASE Next
  <2>1. InOrder /\ Numbered
    BY DEF PromptInv
  <2>2. /\ spent'["stall"] = 0 => spent["stall"] = 0
        /\ ClaimsNothing /\ spent'["stall"] = 0 => spent' = spent
    <3>1. spent \in [Hindrances -> Nat]
      BY DEF TypeOK
    <3>2. \/ spent' = spent
          \/ \E k \in {"pause", "overflow"} : spent' = [spent EXCEPT ![k] = @ + 1] /\ ~ClaimsNothing
          \/ spent' = [spent EXCEPT !["stall"] = @ + 1]
      <4>1. CASE Pause \/ Overflows
        BY <4>1 DEF Pause, Overflows, Bounded, Announce, ClaimsNothing, Takes, readerVars
      <4>2. CASE ClaimsNothing
        BY <4>2 DEF ClaimsNothing, Bounded
      <4> QED BY <1>2, <4>1, <4>2 DEF Next, Send, Interrupt, EventTask, DataEvent, ClearCache,
             FillCache, OverflowEvent, Read_Message, Claims, Claimed, Compares, ReadByte, TakesText,
             TakesData, Rejects, Judges
    <3>3. ASSUME NEW k \in {"pause", "overflow"}, spent' = [spent EXCEPT ![k] = @ + 1]
          PROVE  spent'["stall"] = spent["stall"]
      BY <3>1, <3>3 DEF Hindrances
    <3>4. ASSUME spent' = [spent EXCEPT !["stall"] = @ + 1] PROVE spent'["stall"] # 0
      <4>1. spent["stall"] \in Nat /\ spent'["stall"] = spent["stall"] + 1
        BY <3>1, <3>4 DEF Hindrances
      <4> QED BY <4>1
    <3> QED BY <3>2, <3>3, <3>4
  <2>3. ASSUME ClaimsNothing, spent'["stall"] # 0 PROVE InOrder' /\ Numbered'
    <3>1. sent' = sent /\ line' = line /\ reader' = "reading" /\ rx_buf_tail' = 0
      BY <2>3 DEF ClaimsNothing, Takes, line, driverVars
    <3> QED BY <2>1, <3>1 DEF InOrder, Numbered, SizeOf
  <2> QED BY <1>2, <2>1, <2>2, <2>3, PromptLine, PromptEvent, PromptCache, PromptClaim, PromptRead
          DEF Next, EventTask, Read_Message, PromptInv
<1> QED BY <1>1, <1>2

\* Read_Message never returns more frames than the board sent: on a line that
\* is used half duplex whatever hinders the receiver, and on any line as long
\* as the event task is not held up for a round of the Unit task (Uart1.c
\* 59-62, 155-170, WBM_Serial.c 118-197).
THEOREM NeverTooMany == Spec => []NoneTooMany
<1>1. TypeOK /\ FlightInv /\ HalfDuplex => Len(got) <= Len(sent)
  BY Numbers DEF FlightInv, Reception, Untouched, Passed, CutOff, InPieces, Single
<1>2. TypeOK /\ PromptInv /\ spent["stall"] = 0 => Len(got) <= Len(sent)
  <2> SUFFICES ASSUME TypeOK, InOrder, Counted PROVE Len(got) <= Len(sent)
    BY DEF PromptInv
  <2>1. Len(got) \in Nat /\ Len(sent) \in Nat
    BY Numbers
  <2>2. Room(Len(got))
    BY <2>1, RoomShrinks DEF Counted
  <2> QED BY <2>1, <2>2, RoomShrinks DEF Room, Pending, Begun, Behinds
<1>3. TypeOK /\ FlightInv /\ PromptInv => NoneTooMany
  BY <1>1, <1>2 DEF NoneTooMany
<1> QED BY <1>3, TypeCorrect, FlightInit, FlightStep, PromptInit, PromptStep, PTL DEF Spec
=============================================================================
