-------------------------- MODULE TransportProofs --------------------------
(***************************************************************************)
(* Theorems about Transport, for every frame size, read size and number of *)
(* frames: types, the bound on the decoder's buffer, the order in which    *)
(* frames are received and the completeness of a clean close.              *)
(***************************************************************************)
EXTENDS Transport, TLAPS

\* Between two reads less than one maximum frame is left in the decoder: the
\* fact about feed's loop that its compaction rule builds on.
LessThanAFrame ==
    rpc \in {"idle", "check", "wait"} => Len(buffer) - offset < Ceiling

IInv == TypeOK /\ LessThanAFrame /\ BufferBounded

\* A cut of a sequence is a sequence of the same elements, and as long as the
\* cut is.
LEMMA SubSeqType ==
    ASSUME NEW S, NEW s \in Seq(S), NEW m \in 1 .. Len(s) + 1, NEW n \in 0 .. Len(s),
           m <= n + 1
    PROVE  /\ SubSeq(s, m, n) \in Seq(S)
           /\ Len(SubSeq(s, m, n)) = n + 1 - m
  OBVIOUS

\* feed drops no more than was consumed, and leaves a buffer short enough that
\* one more read stays within the bound.
LEMMA ConsumedBounds ==
    ASSUME TypeOK, TransportAssumption, Len(buffer) - offset < Ceiling
    PROVE  /\ Consumed \in 0 .. offset
           /\ Len(buffer) - Consumed <= 2 * (Ceiling - 1)
  <1> DEFINE b == Len(buffer)
  <1>1. b \in Nat /\ offset \in Nat /\ offset <= b /\ Ceiling \in Nat
    BY DEF TypeOK, TransportAssumption, Ceiling
  <1>2. b - offset <= Ceiling - 1
    BY <1>1
  <1>3. CASE offset > 0 /\ (offset = b \/ offset > b \div 2)
    <2>1. Consumed = offset
      BY <1>3 DEF Consumed
    <2> QED
      BY <2>1, <1>1, <1>2
  <1>4. CASE ~(offset > 0 /\ (offset = b \/ offset > b \div 2))
    <2>1. Consumed = 0
      BY <1>4 DEF Consumed
    <2>2. offset = 0 \/ offset <= b \div 2
      BY <1>4, <1>1
    <2>3. 2 * offset <= b
      BY <2>2, <1>1
    <2> QED
      BY <2>1, <2>3, <1>1, <1>2
  <1> QED
    BY <1>3, <1>4

\* A new connection satisfies the invariant.
LEMMA InitIInv ==
    ASSUME TransportAssumption, Init
    PROVE  IInv
  <1>0. \A S : <<>> \in Seq(S)
    OBVIOUS
  <1>1. TypeOK
    <2>1. /\ sizes \in Seq(0 .. SendMax) /\ Len(sizes) <= MaxFrames
          /\ writing \in Seq(FrameBytes) /\ wire \in Seq(StreamBytes)
          /\ begun \in Seq(1 .. MaxFrames)
          /\ buffer \in Seq(StreamBytes) /\ offset \in 0 .. Len(buffer)
          /\ ready \in Seq(1 .. MaxFrames) /\ got \in Seq(1 .. MaxFrames)
      BY <1>0 DEF TransportAssumption, Init
    <2>2. closed \in BOOLEAN /\ expired \in BOOLEAN /\ cancelled \in BOOLEAN
      BY DEF Init
    <2>3. damaged \in 0 .. MaxDamage /\ rpc \in ReceiverStates /\ outcome \in Outcomes
      BY DEF TransportAssumption, Init, ReceiverStates, Outcomes
    <2> QED
      BY <2>1, <2>2, <2>3, Zenon DEF TypeOK
  <1>2. Len(buffer) = 0 /\ offset = 0
    BY DEF Init
  <1> QED
    BY <1>1, <1>2 DEF IInv, LessThanAFrame, BufferBounded, Ceiling, TransportAssumption

\* A step of the sender or of the network leaves the receiver alone.
LEMMA SenderTypes ==
    ASSUME IInv, TransportAssumption,
           \/ \E n \in 0 .. SendMax + 1 : Send(n)
           \/ \E n \in 1 .. HeaderBytes + SendMax : Write(n)
           \/ WriteFails \/ Close
           \/ \E i \in 1 .. Len(wire) : Damage(i)
    PROVE  IInv'
  <1> USE DEF IInv
  <1>0. UNCHANGED <<rpc, decoder, got, outcome, expired, cancelled>>
    BY DEF Send, Write, WriteFails, Close, Damage
  <1>1. ASSUME TypeOK'
        PROVE  IInv'
    BY <1>0, <1>1 DEF LessThanAFrame, BufferBounded, Ceiling, decoder
  <1>2. ASSUME NEW n \in 0 .. SendMax + 1, Send(n)
        PROVE  TypeOK'
    <2>1. sizes' \in Seq(0 .. SendMax) /\ Len(sizes') = Len(sizes) + 1
      BY <1>2 DEF Send, TypeOK, TransportAssumption
    <2>2. writing' \in Seq(FrameBytes)
      <3> DEFINE k == Len(sizes) + 1
      <3>1. k \in 1 .. MaxFrames /\ HeaderBytes + n \in Nat
        BY <1>2 DEF Send, TypeOK, TransportAssumption
      <3>2. \A i \in 1 .. HeaderBytes + n : <<k, i>> \in FrameBytes
        BY <1>2, <3>1 DEF Send, FrameBytes, TransportAssumption
      <3>3. writing' = [i \in 1 .. HeaderBytes + n |-> <<k, i>>]
        BY <1>2 DEF Send
      <3> HIDE DEF k
      <3> QED
        BY <3>1, <3>2, <3>3
    <2> QED
      BY <1>0, <1>2, <2>1, <2>2 DEF Send, TypeOK, decoder, TransportAssumption
  <1>3. ASSUME NEW n \in 1 .. HeaderBytes + SendMax, Write(n)
        PROVE  TypeOK'
    <2>1. n \in 1 .. Len(writing) /\ writing \in Seq(FrameBytes)
      BY <1>3 DEF Write, TypeOK
    <2>2. /\ SubSeq(writing, 1, n) \in Seq(FrameBytes)
          /\ SubSeq(writing, n + 1, Len(writing)) \in Seq(FrameBytes)
      BY <2>1, SubSeqType
    <2>3. wire' \in Seq(StreamBytes) /\ writing' \in Seq(FrameBytes)
      <3>1. SubSeq(writing, 1, n) \in Seq(StreamBytes)
        BY <2>2 DEF StreamBytes
      <3>2. wire \in Seq(StreamBytes)
        BY DEF TypeOK
      <3>3. wire \o SubSeq(writing, 1, n) \in Seq(StreamBytes)
        <4> DEFINE w == SubSeq(writing, 1, n)
        <4> HIDE DEF w, IInv
        <4> QED BY <3>1, <3>2 DEF w
      <3>4. /\ wire' = wire \o SubSeq(writing, 1, n)
            /\ writing' = SubSeq(writing, n + 1, Len(writing))
        BY <1>3 DEF Write
      <3> QED
        BY <2>2, <3>3, <3>4
    <2>4. writing[1][1] \in 1 .. MaxFrames
      BY <2>1 DEF FrameBytes
    <2>5. begun' \in Seq(1 .. MaxFrames)
      <3>1. begun \in Seq(1 .. MaxFrames)
        BY DEF TypeOK
      <3>2. Append(begun, writing[1][1]) \in Seq(1 .. MaxFrames)
        BY <2>4, <3>1
      <3> QED
        BY <1>3, <3>1, <3>2 DEF Write
    <2> QED
      BY <1>0, <1>3, <2>3, <2>5 DEF Write, TypeOK, decoder
  <1>4. ASSUME WriteFails
        PROVE  TypeOK'
    BY <1>0, <1>4 DEF WriteFails, TypeOK, decoder
  <1>5. ASSUME Close
        PROVE  TypeOK'
    BY <1>0, <1>5 DEF Close, TypeOK, decoder
  <1>6. ASSUME NEW i \in 1 .. Len(wire), Damage(i)
        PROVE  TypeOK'
    <2>1. Damaged \in StreamBytes
      BY DEF StreamBytes
    <2>2. wire' \in Seq(StreamBytes)
      BY <1>6, <2>1 DEF Damage, TypeOK
    <2>3. damaged' \in 0 .. MaxDamage
      BY <1>6 DEF Damage, TypeOK, TransportAssumption
    <2> QED
      BY <1>0, <1>6, <2>2, <2>3 DEF Damage, TypeOK, decoder, sender
  <1> QED
    BY <1>1, <1>2, <1>3, <1>4, <1>5, <1>6

\* Reading appends what arrived to what is left, within the bound.
LEMMA ReadIInv ==
    ASSUME IInv, TransportAssumption, NEW n \in 1 .. ReadBytes, Read(n)
    PROVE  IInv'
  <1>1. TypeOK /\ Len(buffer) - offset < Ceiling
    BY DEF IInv, Read, LessThanAFrame
  <1>2. Consumed \in 0 .. offset /\ Len(buffer) - Consumed <= 2 * (Ceiling - 1)
    BY <1>1, ConsumedBounds
  <1>3. /\ buffer \in Seq(StreamBytes) /\ wire \in Seq(StreamBytes)
        /\ offset \in 0 .. Len(buffer) /\ Len(buffer) \in Nat
    BY <1>1 DEF TypeOK
  <1> DEFINE kept == SubSeq(buffer, Consumed + 1, Len(buffer))
             new == SubSeq(wire, 1, n)
  <1>4. kept \in Seq(StreamBytes) /\ Len(kept) = Len(buffer) - Consumed
    BY <1>2, <1>3, SubSeqType
  <1>5. n \in 1 .. Len(wire)
    BY DEF Read
  <1>6. new \in Seq(StreamBytes) /\ Len(new) = n
    BY <1>3, <1>5, SubSeqType
  <1>7. wire' \in Seq(StreamBytes)
    BY <1>3, <1>5, SubSeqType DEF Read
  <1>8. buffer' = kept \o new /\ offset' = offset - Consumed
    BY DEF Read
  <1> HIDE DEF kept, new
  <1>9. buffer' \in Seq(StreamBytes) /\ Len(buffer') = Len(buffer) - Consumed + n
    <2>1. \A a, b \in Seq(StreamBytes) :
              a \o b \in Seq(StreamBytes) /\ Len(a \o b) = Len(a) + Len(b)
      OBVIOUS
    <2> QED
      BY <1>4, <1>6, <1>8, <2>1
  <1>10. offset' \in 0 .. Len(buffer')
    BY <1>2, <1>3, <1>8, <1>9
  <1>11. rpc' = "decode" /\ UNCHANGED <<sender, damaged, ready, got, outcome, expired, cancelled>>
    BY DEF Read
  <1>12. TypeOK'
    BY <1>1, <1>7, <1>9, <1>10, <1>11 DEF TypeOK, sender, ReceiverStates
  <1>13. Ceiling \in Nat /\ n <= ReadBytes
    BY DEF TransportAssumption, Ceiling
  <1>14. Len(buffer') <= 2 * (Ceiling - 1) + ReadBytes
    BY <1>2, <1>3, <1>9, <1>13 DEF TransportAssumption
  <1> QED
    BY <1>11, <1>12, <1>14 DEF IInv, LessThanAFrame, BufferBounded, Ceiling

\* The steps that only move the receiving thread, its clock or its flag.
LEMMA ControlIInv ==
    ASSUME IInv, TransportAssumption,
           \/ ReceiveReady \/ Receive \/ CheckCancelled \/ WaitSlice
           \/ EndOfStream \/ FeedFails \/ Elapse \/ Interrupt
    PROVE  IInv'
  <1>1. UNCHANGED <<sizes, writing, wire, closed, begun, damaged, buffer, offset>>
    BY DEF ReceiveReady, Receive, CheckCancelled, WaitSlice, EndOfStream,
           FeedFails, Elapse, Interrupt, sender, decoder
  <1>2. TypeOK /\ LessThanAFrame /\ BufferBounded
    BY DEF IInv
  <1>3. rpc' \in ReceiverStates /\ outcome' \in Outcomes
    BY <1>2 DEF ReceiveReady, Receive, CheckCancelled, WaitSlice, EndOfStream,
           FeedFails, Elapse, Interrupt, Return, Finish, Slice, TypeOK,
           ReceiverStates, Outcomes
  <1>4. expired' \in BOOLEAN /\ cancelled' \in BOOLEAN
    BY <1>2, Zenon DEF ReceiveReady, Receive, CheckCancelled, WaitSlice,
           EndOfStream, FeedFails, Elapse, Interrupt, TypeOK
  <1>5. ready' \in Seq(1 .. MaxFrames) /\ got' \in Seq(1 .. MaxFrames)
    <2>1. CASE ReceiveReady
      <3>1. ready \in Seq(1 .. MaxFrames) /\ got \in Seq(1 .. MaxFrames) /\ ready # <<>>
        BY <2>1, <1>2 DEF ReceiveReady, TypeOK
      <3>2. Head(ready) \in 1 .. MaxFrames /\ Tail(ready) \in Seq(1 .. MaxFrames)
        BY <3>1
      <3> QED
        BY <2>1, <3>1, <3>2 DEF ReceiveReady
    <2>2. CASE ~ReceiveReady
      <3>1. UNCHANGED <<ready, got>>
        BY <2>2 DEF Receive, CheckCancelled, WaitSlice, EndOfStream,
               FeedFails, Elapse, Interrupt, decoder
      <3> QED
        BY <3>1, <1>2 DEF TypeOK
    <2> QED
      BY <2>1, <2>2
  <1>6. TypeOK'
    BY <1>1, <1>2, <1>3, <1>4, <1>5 DEF TypeOK
  <1>7. rpc' \in {"idle", "check", "wait"} => rpc \in {"idle", "check", "wait"}
    BY DEF ReceiveReady, Receive, CheckCancelled, WaitSlice, EndOfStream,
           FeedFails, Elapse, Interrupt, Return, Finish, Slice
  <1> QED
    BY <1>1, <1>2, <1>6, <1>7 DEF IInv, LessThanAFrame, BufferBounded, Ceiling

\* The decode loop ends with less than one frame; each frame it takes was
\* there in full.
LEMMA FeedIInv ==
    ASSUME IInv, TransportAssumption, FeedDone \/ FeedFrame
    PROVE  IInv'
  <1>1. TypeOK /\ LessThanAFrame /\ BufferBounded
    BY DEF IInv
  <1>2. /\ Len(buffer) \in Nat /\ offset \in 0 .. Len(buffer)
        /\ ready \in Seq(1 .. MaxFrames) /\ got \in Seq(1 .. MaxFrames)
        /\ sizes \in Seq(0 .. SendMax)
    BY <1>1 DEF TypeOK
  <1>3. ASSUME HeaderAccepted
        PROVE  /\ Total \in Nat /\ Total <= Ceiling
               /\ Current \in 1 .. MaxFrames
    BY <1>1, <1>2, <1>3, SMTT(30) DEF HeaderAccepted, Total, Ceiling, TransportAssumption, TypeOK
  <1>4. CASE FeedDone
    <2>1. UNCHANGED <<sizes, writing, wire, closed, begun, damaged, buffer, offset,
                      expired, cancelled>>
      BY <1>4 DEF FeedDone, sender
    <2>2. Len(buffer) - offset < Ceiling
      BY <1>2, <1>3, <1>4 DEF FeedDone, NeedsMore, Available, Ceiling, TransportAssumption
    <2>3. rpc' \in ReceiverStates /\ outcome' \in Outcomes
      BY <1>1, <1>4 DEF FeedDone, Return, TypeOK, ReceiverStates, Outcomes
    <2>4. ready' \in Seq(1 .. MaxFrames) /\ got' \in Seq(1 .. MaxFrames)
      <3>1. ready # <<>> => /\ Head(ready) \in 1 .. MaxFrames
                            /\ Tail(ready) \in Seq(1 .. MaxFrames)
        BY <1>2
      <3>2. ready # <<>> => Append(got, Head(ready)) \in Seq(1 .. MaxFrames)
        BY <1>2, <3>1
      <3>3. \/ UNCHANGED <<got, ready>>
            \/ ready # <<>> /\ got' = Append(got, Head(ready)) /\ ready' = Tail(ready)
        BY <1>4 DEF FeedDone
      <3> QED
        BY <1>2, <3>1, <3>2, <3>3
    <2>5. TypeOK'
      BY <1>1, <2>1, <2>3, <2>4 DEF TypeOK
    <2> QED
      BY <1>1, <2>1, <2>2, <2>5 DEF IInv, LessThanAFrame, BufferBounded, Ceiling
  <1>5. CASE FeedFrame
    <2>1. /\ UNCHANGED <<sizes, writing, wire, closed, begun, damaged, buffer, rpc,
                         got, outcome, expired, cancelled>>
          /\ rpc = "decode" /\ HeaderAccepted /\ Available >= Total
          /\ ready' = Append(ready, Current) /\ offset' = offset + Total
      BY <1>5 DEF FeedFrame, sender
    <2>2. ready' \in Seq(1 .. MaxFrames)
      BY <1>2, <1>3, <2>1
    <2>3. offset' \in 0 .. Len(buffer)
      BY <1>2, <1>3, <2>1 DEF Available
    <2>4. TypeOK'
      BY <1>1, <2>1, <2>2, <2>3 DEF TypeOK
    <2> QED
      BY <1>1, <2>1, <2>4 DEF IInv, LessThanAFrame, BufferBounded, Ceiling
  <1> QED
    BY <1>4, <1>5

\* A step that changes nothing keeps it.
LEMMA StutterIInv ==
    ASSUME IInv, UNCHANGED vars
    PROVE  IInv'
  BY DEF IInv, TypeOK, LessThanAFrame, BufferBounded, Ceiling, vars

\* The inductive invariant holds throughout.
THEOREM TransportInvariant == Spec => []IInv
  <1>1. Init => IInv
    BY InitIInv, TransportAssumption
  <1>2. IInv /\ [Next]_vars => IInv'
    BY SenderTypes, ReadIInv, ControlIInv, FeedIInv, StutterIInv,
       TransportAssumption DEF Next, Reader
  <1> QED
    BY <1>1, <1>2, PTL DEF Spec

\* Every variable of a connection keeps its type; in particular the decoder
\* never counts more bytes as consumed than it holds.
THEOREM TransportTypes == Spec => []TypeOK
  <1>1. IInv => TypeOK
    BY DEF IInv
  <1> QED
    BY <1>1, TransportInvariant, PTL

\* However many frames a connection carries and however they are fragmented,
\* the decoder's buffer stays below two maximum frames and one read.
THEOREM BufferStaysBounded == Spec => []BufferBounded
  <1>1. IInv => BufferBounded
    BY DEF IInv
  <1> QED
    BY <1>1, TransportInvariant, PTL

-----------------------------------------------------------------------------
(* The order of the stream.                                                *)

\* The bytes between the sender and the decoder: what the buffer has left and
\* what is in flight.
Held == Len(buffer) - offset + Len(wire)
Byte(p) == IF p <= Len(buffer) - offset THEN buffer[offset + p]
           ELSE wire[p - (Len(buffer) - offset)]

\* Frames taken from the stream, and the length of a frame.
Count == Len(got) + Len(ready)
FrameLen(f) == HeaderBytes + sizes[f]

BegunOrder ==
    /\ \A i, j \in 1 .. Len(begun) : i < j => begun[i] < begun[j]
    /\ \A i \in 1 .. Len(begun) : begun[i] <= Len(sizes)

Delivered ==
    /\ Count <= Len(begun)
    /\ \A i \in 1 .. Len(got) : got[i] = begun[i]
    /\ \A i \in 1 .. Len(ready) : ready[i] = begun[Len(got) + i]

\* Byte c comes right after byte b: in the same frame, or as the first of the
\* frame that began after it, however much of b's frame was written.
Succeeds(b, c) ==
    \/ c[1] = b[1] /\ c[2] = b[2] + 1
    \/ c[2] = 1 /\ \E m \in 1 .. Len(begun) - 1 : begun[m] = b[1] /\ begun[m + 1] = c[1]

InFrames ==
    \A p \in 1 .. Held : Byte(p) # Damaged =>
        Byte(p)[1] \in 1 .. Len(sizes) /\ Byte(p)[2] <= FrameLen(Byte(p)[1])

Adjacent ==
    \A p \in 1 .. Held - 1 : Byte(p) # Damaged /\ Byte(p + 1) # Damaged =>
        Succeeds(Byte(p), Byte(p + 1))

\* The stream starts with the frame that is to be returned next ...
AtFront ==
    IF Held = 0 THEN Count = Len(begun)
    ELSE Byte(1) # Damaged => Count < Len(begun) /\ Byte(1) = <<begun[Count + 1], 1>>

\* ... and ends in the one that began last.
AtEnd ==
    Held > 0 => /\ begun # <<>>
                /\ Byte(Held) # Damaged => Byte(Held)[1] = begun[Len(begun)]

\* What writeAll has left is the rest of the newest frame, and continues the
\* stream.
WritingOrder ==
    writing # <<>> =>
      LET n == Len(sizes)
          i == writing[1][2] IN
      /\ n > 0 /\ Len(writing) = FrameLen(n) + 1 - i
      /\ \A q \in 1 .. Len(writing) : writing[q] = <<n, i + q - 1>>
      /\ i = 1 => \A m \in 1 .. Len(begun) : begun[m] < n
      /\ i > 1 => /\ Held > 0 /\ begun # <<>> /\ begun[Len(begun)] = n
                  /\ Byte(Held) \in {Damaged, <<n, i - 1>>}

StreamOrder == BegunOrder /\ InFrames /\ Adjacent /\ AtFront /\ AtEnd /\ WritingOrder

ReceiverOrder ==
    /\ rpc \in {"check", "wait"} => ready = <<>>
    /\ closed => writing = <<>>
    /\ outcome = "closed" => rpc = "over" /\ (cancelled \/ (closed /\ got = begun))

OrderInv == StreamOrder /\ Delivered /\ ReceiverOrder

\* The elements of a concatenation and of a cut.
LEMMA ConcatLen ==
    ASSUME NEW S, NEW a \in Seq(S), NEW b \in Seq(S)
    PROVE  a \o b \in Seq(S) /\ Len(a \o b) = Len(a) + Len(b)
  OBVIOUS

\* The elements of a concatenation.
LEMMA ConcatAt ==
    ASSUME NEW S, NEW a \in Seq(S), NEW b \in Seq(S), NEW q \in 1 .. Len(a) + Len(b)
    PROVE  (a \o b)[q] = IF q <= Len(a) THEN a[q] ELSE b[q - Len(a)]
  OBVIOUS

\* The elements of a sequence with one more.
LEMMA AppendAt ==
    ASSUME NEW S, NEW s \in Seq(S), NEW x \in S
    PROVE  /\ Append(s, x) \in Seq(S) /\ Len(Append(s, x)) = Len(s) + 1 /\ Len(s) \in Nat
           /\ Append(s, x)[Len(s) + 1] = x
           /\ \A q \in 1 .. Len(s) : Append(s, x)[q] = s[q]
  OBVIOUS

\* The elements of a sequence without its first.
LEMMA TailAt ==
    ASSUME NEW S, NEW s \in Seq(S), s # <<>>
    PROVE  /\ Head(s) = s[1] /\ Head(s) \in S /\ Len(s) >= 1
           /\ Tail(s) \in Seq(S) /\ Len(Tail(s)) = Len(s) - 1
           /\ \A q \in 1 .. Len(s) - 1 : Tail(s)[q] = s[q + 1]
  OBVIOUS

\* Sequences with the same elements are the same.
LEMMA SeqEqual ==
    ASSUME NEW S, NEW s \in Seq(S), NEW r \in Seq(S), Len(s) = Len(r),
           \A q \in 1 .. Len(s) : s[q] = r[q]
    PROVE  s = r
  OBVIOUS

\* The elements of a cut.
LEMMA SubSeqAt ==
    ASSUME NEW S, NEW s \in Seq(S), NEW m \in 1 .. Len(s) + 1, NEW n \in 0 .. Len(s),
           m <= n + 1, NEW q \in 1 .. n + 1 - m
    PROVE  SubSeq(s, m, n)[q] = s[m + q - 1]
  OBVIOUS

\* The bytes held, in the buffer and on the wire, are bytes of the stream.
LEMMA HeldType ==
    ASSUME TypeOK
    PROVE  /\ Held \in Nat /\ Len(buffer) - offset \in Nat /\ Len(wire) \in Nat
           /\ \A p \in 1 .. Held : Byte(p) \in StreamBytes
  <1>1. /\ buffer \in Seq(StreamBytes) /\ wire \in Seq(StreamBytes)
        /\ offset \in 0 .. Len(buffer)
    BY DEF TypeOK
  <1>2. /\ Held \in Nat /\ Len(buffer) - offset \in Nat /\ Len(wire) \in Nat
        /\ Len(buffer) \in Nat /\ offset \in Nat
    BY <1>1 DEF Held
  <1>3. ASSUME NEW p \in 1 .. Held
        PROVE  Byte(p) \in StreamBytes
    <2>1. CASE p <= Len(buffer) - offset
      <3>1. offset + p \in 1 .. Len(buffer)
        BY <1>2, <2>1
      <3> QED BY <1>1, <2>1, <3>1 DEF Byte
    <2>2. CASE ~(p <= Len(buffer) - offset)
      <3>1. p - (Len(buffer) - offset) \in 1 .. Len(wire)
        BY <1>2, <2>2 DEF Held
      <3> QED BY <1>1, <2>2, <3>1 DEF Byte
    <2> QED BY <2>1, <2>2
  <1> QED
    BY <1>2, <1>3

\* Compaction and reading move bytes from the wire to the buffer and change
\* nothing about the stream.
LEMMA StreamRead ==
    ASSUME IInv, TransportAssumption, NEW n \in 1 .. ReadBytes, Read(n)
    PROVE  Held' = Held /\ \A p \in 1 .. Held : Byte(p)' = Byte(p)
  <1>1. /\ buffer \in Seq(StreamBytes) /\ wire \in Seq(StreamBytes)
        /\ offset \in 0 .. Len(buffer) /\ Len(buffer) \in Nat
    BY DEF IInv, TypeOK
  <1>2. Consumed \in 0 .. offset
    BY ConsumedBounds DEF IInv, Read, LessThanAFrame
  <1> DEFINE kept == SubSeq(buffer, Consumed + 1, Len(buffer))
             new == SubSeq(wire, 1, n)
             left == SubSeq(wire, n + 1, Len(wire))
  <1>3. n \in 1 .. Len(wire) /\ Len(wire) \in Nat
    BY <1>1 DEF Read
  <1>4. /\ kept \in Seq(StreamBytes) /\ Len(kept) = Len(buffer) - Consumed
        /\ \A q \in 1 .. Len(buffer) - Consumed : kept[q] = buffer[Consumed + q]
    BY <1>1, <1>2, SubSeqType, SubSeqAt
  <1>5. /\ new \in Seq(StreamBytes) /\ Len(new) = n
        /\ \A q \in 1 .. n : new[q] = wire[q]
    BY <1>1, <1>3, SubSeqType, SubSeqAt
  <1>6. /\ left \in Seq(StreamBytes) /\ Len(left) = Len(wire) - n
        /\ \A q \in 1 .. Len(wire) - n : left[q] = wire[n + q]
    BY <1>1, <1>3, SubSeqType, SubSeqAt
  <1>7. buffer' = kept \o new /\ offset' = offset - Consumed /\ wire' = left
    BY DEF Read
  <1> HIDE DEF kept, new, left
  <1>8. /\ Len(buffer') = Len(buffer) - Consumed + n
        /\ \A q \in 1 .. Len(buffer) - Consumed + n :
             buffer'[q] = IF q <= Len(buffer) - Consumed THEN kept[q]
                          ELSE new[q - (Len(buffer) - Consumed)]
    <2>1. Len(kept \o new) = Len(kept) + Len(new)
      BY <1>4, <1>5
    <2>2. \A q \in 1 .. Len(kept) + Len(new) :
             (kept \o new)[q] = IF q <= Len(kept) THEN kept[q] ELSE new[q - Len(kept)]
      BY <1>4, <1>5, ConcatAt
    <2> QED BY <1>4, <1>5, <1>7, <2>1, <2>2
  <1> DEFINE a == Len(buffer) - offset
             b == Len(buffer)
             c == Consumed
             w == Len(wire)
  <1>9. /\ a \in Nat /\ a = b - offset /\ offset \in Nat /\ b \in Nat /\ w \in Nat
        /\ c \in Nat /\ c <= offset /\ n \in Nat /\ n >= 1 /\ n <= w
        /\ Held = a + w
    BY <1>1, <1>2, <1>3 DEF Held
  <1>10. /\ Len(buffer') = b - c + n /\ offset' = offset - c /\ Len(wire') = w - n
         /\ \A q \in 1 .. b - c : buffer'[q] = buffer[c + q]
         /\ \A q \in 1 .. n : buffer'[b - c + q] = wire[q]
         /\ \A q \in 1 .. w - n : wire'[q] = wire[n + q]
    <2>1. ASSUME NEW q \in 1 .. b - c
          PROVE  buffer'[q] = buffer[c + q]
      <3>1. q \in 1 .. b - c + n /\ q <= b - c
        <4> HIDE DEF b, c
        <4> QED BY <1>9, <2>1
      <3>2. buffer'[q] = kept[q]
        BY <1>8, <3>1
      <3>3. kept[q] = buffer[c + q]
        BY <1>4, <2>1
      <3> QED BY <3>2, <3>3
    <2>2. ASSUME NEW q \in 1 .. n
          PROVE  buffer'[b - c + q] = wire[q]
      <3> DEFINE r == b - c + q
      <3>1. r \in 1 .. b - c + n /\ ~(r <= b - c) /\ r - (b - c) = q
        BY <1>9, <2>2
      <3>2. buffer'[r] = new[r - (b - c)]
        BY <1>8, <3>1
      <3>3. r - (b - c) = q
        BY <3>1
      <3> QED BY <1>5, <2>2, <3>2, <3>3
    <2> QED BY <1>6, <1>7, <1>8, <2>1, <2>2
  <1>11. \A p : Byte(p) = IF p <= a THEN buffer[offset + p] ELSE wire[p - a]
    BY DEF Byte
  <1> HIDE DEF a, b, c, w
  <1>12. /\ Held' = a + w
         /\ \A p : Byte(p)' = IF p <= a + n THEN buffer'[offset' + p] ELSE wire'[p - (a + n)]
    <2>1. Len(buffer') - offset' = a + n /\ (a + n) + (w - n) = a + w
      BY <1>9, <1>10
    <2> QED BY <1>10, <2>1 DEF Held, Byte
  <1>13. ASSUME NEW p \in 1 .. a + w
         PROVE  Byte(p)' = Byte(p)
    <2>1. p \in Nat /\ p >= 1 /\ p <= a + w
      BY <1>9
    <2>2. CASE p <= a
      <3> DEFINE q == (offset - c) + p
      <3>0. offset' = offset - c
        BY <1>10
      <3>1. p <= a + n /\ q \in 1 .. b - c /\ c + q = offset + p /\ offset' + p = q
        BY <1>9, <2>1, <2>2, <3>0
      <3> HIDE DEF q
      <3>2. Byte(p)' = buffer'[q]
        BY <1>12, <3>1
      <3>3. buffer'[q] = buffer[c + q]
        BY <1>10, <3>1
      <3> QED BY <1>11, <2>2, <3>1, <3>2, <3>3
    <2>3. CASE p > a /\ p <= a + n
      <3> DEFINE q == p - a
      <3>1. q \in 1 .. n /\ b - c + q = offset' + p /\ ~(p <= a)
        BY <1>9, <1>10, <2>1, <2>3
      <3>2. Byte(p) = wire[q]
        BY <1>11, <3>1
      <3> HIDE DEF q
      <3>3. Byte(p)' = buffer'[b - c + q]
        BY <1>12, <2>3, <3>1
      <3> QED BY <1>10, <3>1, <3>2, <3>3
    <2>4. CASE p > a + n
      <3> DEFINE q == p - (a + n)
      <3>1. q \in 1 .. w - n /\ n + q = p - a /\ ~(p <= a) /\ ~(p <= a + n)
        BY <1>9, <2>1, <2>4
      <3>2. Byte(p)' = wire'[q]
        BY <1>12, <3>1
      <3> HIDE DEF q
      <3>3. wire'[q] = wire[n + q]
        BY <1>10, <3>1
      <3> QED BY <1>11, <3>1, <3>2, <3>3
    <2> QED BY <1>9, <2>1, <2>2, <2>3, <2>4
  <1> QED
    BY <1>9, <1>12, <1>13

\* A write appends to the stream.
LEMMA StreamWrite ==
    ASSUME TypeOK, NEW n \in Nat, Write(n)
    PROVE  /\ Held' = Held + n /\ n \in 1 .. Len(writing)
           /\ \A p \in 1 .. Held : Byte(p)' = Byte(p)
           /\ \A p \in Held + 1 .. Held + n : Byte(p)' = writing[p - Held]
  <1>1. /\ buffer \in Seq(StreamBytes) /\ wire \in Seq(StreamBytes) /\ writing \in Seq(StreamBytes)
        /\ offset \in 0 .. Len(buffer) /\ Len(buffer) \in Nat /\ Len(wire) \in Nat
    BY DEF TypeOK, StreamBytes
  <1>2. n \in 1 .. Len(writing) /\ UNCHANGED <<buffer, offset>>
    BY DEF Write, decoder
  <1> DEFINE w == SubSeq(writing, 1, n)
             a == Len(buffer) - offset
  <1>3. w \in Seq(StreamBytes) /\ Len(w) = n /\ \A q \in 1 .. n : w[q] = writing[q]
    BY <1>1, <1>2, SubSeqType, SubSeqAt
  <1>4. wire' = wire \o w
    BY DEF Write
  <1> HIDE DEF w
  <1>5. /\ Len(wire') = Len(wire) + n
        /\ \A q \in 1 .. Len(wire) + n : wire'[q] = IF q <= Len(wire) THEN wire[q] ELSE w[q - Len(wire)]
    <2>1. Len(wire \o w) = Len(wire) + Len(w)
      BY <1>1, <1>3, ConcatLen
    <2> QED BY <1>1, <1>3, <1>4, <2>1, ConcatAt
  <1>6. /\ Held = a + Len(wire) /\ Held' = a + Len(wire') /\ a \in Nat
        /\ \A p : Byte(p) = IF p <= a THEN buffer[offset + p] ELSE wire[p - a]
        /\ \A p : Byte(p)' = IF p <= a THEN buffer[offset + p] ELSE wire'[p - a]
    BY <1>1, <1>2 DEF Held, Byte
  <1> HIDE DEF a
  <1>7. ASSUME NEW p \in 1 .. Held
        PROVE  Byte(p)' = Byte(p)
    <2>1. CASE p <= a
      BY <1>6, <2>1
    <2>2. CASE ~(p <= a)
      <3>1. p - a \in 1 .. Len(wire)
        BY <1>1, <1>6, <2>2
      <3>2. p - a \in 1 .. Len(wire) + n
        BY <1>1, <3>1
      <3>3. wire'[p - a] = wire[p - a]
        BY <1>5, <3>1, <3>2
      <3> QED BY <1>6, <2>2, <3>3
    <2> QED BY <2>1, <2>2
  <1>8. ASSUME NEW p \in Held + 1 .. Held + n
        PROVE  Byte(p)' = writing[p - Held]
    <2> DEFINE r == p - a
    <2>1. /\ r \in 1 .. Len(wire) + n /\ ~(r <= Len(wire)) /\ r - Len(wire) = p - Held
          /\ ~(p <= a) /\ p - Held \in 1 .. n
      BY <1>1, <1>6, <1>8
    <2>2. Byte(p)' = wire'[r]
      BY <1>6, <2>1
    <2> HIDE DEF r
    <2>3. wire'[r] = w[p - Held]
      BY <1>5, <2>1
    <2> QED BY <1>3, <2>1, <2>2, <2>3
  <1> QED
    BY <1>2, <1>5, <1>6, <1>7, <1>8

\* Damage alters one byte of the stream.
LEMMA StreamDamage ==
    ASSUME TypeOK, NEW i \in 1 .. Len(wire), Damage(i)
    PROVE  Held' = Held /\ \A p \in 1 .. Held : Byte(p)' \in {Byte(p), Damaged}
  <1>1. /\ wire \in Seq(StreamBytes) /\ offset \in 0 .. Len(buffer) /\ Len(buffer) \in Nat
        /\ Len(wire) \in Nat
    BY DEF TypeOK
  <1>2. UNCHANGED <<buffer, offset>> /\ wire' = [wire EXCEPT ![i] = Damaged]
    BY DEF Damage, decoder
  <1>3. Len(wire') = Len(wire) /\ \A q \in 1 .. Len(wire) : wire'[q] \in {wire[q], Damaged}
    BY <1>1, <1>2
  <1>4. ASSUME NEW p \in 1 .. Held, ~(p <= Len(buffer) - offset)
        PROVE  p - (Len(buffer) - offset) \in 1 .. Len(wire)
    BY <1>1, <1>4 DEF Held
  <1> QED
    BY <1>2, <1>3, <1>4 DEF Held, Byte

\* A decoded frame leaves the front of the stream.
LEMMA StreamFeed ==
    ASSUME TypeOK, NEW k \in Nat, k <= Len(buffer) - offset, offset' = offset + k,
           UNCHANGED <<buffer, wire>>
    PROVE  /\ Held' = Held - k /\ k <= Held
           /\ \A p \in 1 .. Held - k : Byte(p)' = Byte(k + p)
  <1>1. /\ wire \in Seq(StreamBytes) /\ offset \in Nat /\ Len(buffer) \in Nat
        /\ Len(wire) \in Nat
    BY DEF TypeOK
  <1> DEFINE a == Len(buffer) - offset
  <1>2. /\ a \in Int /\ Len(buffer) - offset' = a - k /\ Held = a + Len(wire)
        /\ Held' = (a - k) + Len(wire) /\ k <= a
        /\ \A p : Byte(p) = IF p <= a THEN buffer[offset + p] ELSE wire[p - a]
        /\ \A p : Byte(p)' = IF p <= a - k THEN buffer[(offset + k) + p] ELSE wire[p - (a - k)]
    BY <1>1 DEF Held, Byte
  <1> HIDE DEF a
  <1>3. ASSUME NEW p \in 1 .. Held - k
        PROVE  Byte(p)' = Byte(k + p)
    <2>1. /\ (p <= a - k) <=> (k + p <= a)
          /\ offset + (k + p) = (offset + k) + p /\ p - (a - k) = (k + p) - a
      BY <1>1, <1>2
    <2>2. Byte(k + p) = IF k + p <= a THEN buffer[offset + (k + p)] ELSE wire[(k + p) - a]
      BY <1>2
    <2>3. Byte(p)' = IF p <= a - k THEN buffer[(offset + k) + p] ELSE wire[p - (a - k)]
      BY <1>2
    <2> QED BY <2>1, <2>2, <2>3
  <1> QED
    BY <1>1, <1>2, <1>3

\* A step that leaves the stream as it is, or damages it, keeps its order.
LEMMA OrderKept ==
    ASSUME TypeOK, StreamOrder, Held' = Held,
           \A p \in 1 .. Held : Byte(p)' \in {Byte(p), Damaged},
           UNCHANGED <<begun, sizes>>, Count' = Count, writing' \in {writing, <<>>}
    PROVE  StreamOrder'
  <1>1. Held \in Nat
    BY HeldType
  <1>2. BegunOrder'
    BY DEF StreamOrder, BegunOrder
  <1>3. InFrames'
    BY DEF StreamOrder, InFrames, FrameLen
  <1>4. Adjacent'
    <2> SUFFICES ASSUME NEW p \in 1 .. Held - 1, Byte(p)' # Damaged, Byte(p + 1)' # Damaged
                 PROVE  Succeeds(Byte(p), Byte(p + 1))'
      BY DEF Adjacent
    <2>1. p \in 1 .. Held /\ p + 1 \in 1 .. Held
      BY <1>1
    <2>2. Byte(p)' = Byte(p) /\ Byte(p + 1)' = Byte(p + 1)
      BY <2>1
    <2>3. Succeeds(Byte(p), Byte(p + 1))
      BY <2>2 DEF StreamOrder, Adjacent
    <2> QED BY <2>2, <2>3 DEF Succeeds
  <1>5. Held > 0 => 1 \in 1 .. Held /\ Held \in 1 .. Held
    BY <1>1
  <1>6. AtFront'
    <2>1. CASE Held = 0
      BY <2>1 DEF StreamOrder, AtFront
    <2>2. CASE Held # 0
      <3>1. Byte(1)' \in {Byte(1), Damaged}
        BY <1>1, <1>5, <2>2
      <3> QED BY <2>2, <3>1 DEF StreamOrder, AtFront
    <2> QED BY <2>1, <2>2
  <1>7. Held > 0 => Byte(Held)' \in {Byte(Held), Damaged}
    BY <1>5
  <1>8. AtEnd'
    BY <1>7 DEF StreamOrder, AtEnd
  <1>9. WritingOrder'
    BY <1>7 DEF StreamOrder, WritingOrder, FrameLen
  <1> QED
    BY <1>2, <1>3, <1>4, <1>6, <1>8, <1>9 DEF StreamOrder

\* A new frame is numbered above all that began, and begins at its first byte.
LEMMA SendOrder ==
    ASSUME TypeOK, TransportAssumption, StreamOrder, NEW n \in 0 .. SendMax + 1, Send(n)
    PROVE  StreamOrder'
  <1>1. /\ sizes \in Seq(0 .. SendMax) /\ n \in 0 .. SendMax
        /\ sizes' = Append(sizes, n) /\ Len(sizes) \in Nat
        /\ UNCHANGED <<begun, wire, buffer, offset, ready, got>>
        /\ writing' = [i \in 1 .. HeaderBytes + n |-> <<Len(sizes) + 1, i>>]
    BY DEF Send, TypeOK, decoder, TransportAssumption
  <1>2. /\ Len(sizes') = Len(sizes) + 1 /\ sizes'[Len(sizes) + 1] = n
        /\ \A f \in 1 .. Len(sizes) : sizes'[f] = sizes[f]
    BY <1>1
  <1>3. Held' = Held /\ Count' = Count /\ \A p : Byte(p)' = Byte(p)
    BY <1>1 DEF Held, Byte, Count
  <1>4. begun \in Seq(1 .. MaxFrames) /\ Held \in Nat
    BY HeldType DEF TypeOK
  <1>5. BegunOrder' /\ \A m \in 1 .. Len(begun) : begun[m] < Len(sizes) + 1
    <2>1. \A m \in 1 .. Len(begun) : begun[m] \in Nat /\ begun[m] <= Len(sizes)
      BY <1>4 DEF StreamOrder, BegunOrder
    <2>2. \A m \in 1 .. Len(begun) : begun[m] <= Len(sizes) + 1 /\ begun[m] < Len(sizes) + 1
      BY <1>1, <2>1
    <2> QED BY <1>1, <1>2, <2>2 DEF StreamOrder, BegunOrder
  <1>6. InFrames'
    <2> SUFFICES ASSUME NEW p \in 1 .. Held, Byte(p) # Damaged
                 PROVE  /\ Byte(p)[1] \in 1 .. Len(sizes')
                        /\ Byte(p)[2] <= HeaderBytes + sizes'[Byte(p)[1]]
      BY <1>3 DEF InFrames, FrameLen
    <2>1. Byte(p)[1] \in 1 .. Len(sizes) /\ Byte(p)[2] <= HeaderBytes + sizes[Byte(p)[1]]
      BY DEF StreamOrder, InFrames, FrameLen
    <2> QED BY <1>1, <1>2, <2>1
  <1>7. Adjacent' /\ AtFront' /\ AtEnd'
    BY <1>1, <1>3 DEF StreamOrder, Adjacent, AtFront, AtEnd, Succeeds
  <1>8. WritingOrder'
    <2> DEFINE k == Len(sizes) + 1
               l == HeaderBytes + n
    <2>1. l \in Nat /\ l >= 1 /\ k \in Nat /\ k > 0
      BY <1>1 DEF TransportAssumption
    <2>2. writing' = [i \in 1 .. l |-> <<k, i>>]
      BY <1>1
    <2>3. Len(sizes') = k /\ HeaderBytes + sizes'[k] = l /\ \A m \in 1 .. Len(begun') : begun'[m] < k
      BY <1>1, <1>2, <1>5 DEF FrameLen
    <2> HIDE DEF k, l
    <2>4. Len(writing') = l /\ \A i \in 1 .. l : writing'[i] = <<k, i>>
      BY <2>1, <2>2
    <2>5. writing'[1][2] = 1
      BY <2>1, <2>4
    <2>6. \A q \in 1 .. l : 1 + q - 1 = q
      BY <2>1
    <2>7. FrameLen(Len(sizes))' = l /\ l = l + 1 - 1
      BY <2>1, <2>3 DEF FrameLen
    <2>8. \A q \in 1 .. Len(writing') : writing'[q] = <<Len(sizes'), 1 + q - 1>>
      BY <2>3, <2>4, <2>6
    <2> QED BY <2>1, <2>3, <2>4, <2>5, <2>7, <2>8 DEF WritingOrder
  <1> QED
    BY <1>5, <1>6, <1>7, <1>8 DEF StreamOrder

\* What is written continues the stream: with the next byte of the frame that
\* ended it, or with the first byte of one that begins now.
LEMMA WriteOrder ==
    ASSUME TypeOK, TransportAssumption, StreamOrder, NEW n \in Nat, Write(n)
    PROVE  StreamOrder'
  <1> DEFINE k == Len(sizes)
             i == writing[1][2]
             l == Len(writing)
             e == FrameLen(k)
             h == Held
  <1>1. /\ n \in 1 .. l /\ writing \in Seq(FrameBytes) /\ begun \in Seq(1 .. MaxFrames)
        /\ l \in Nat /\ h \in Nat /\ n \in Nat /\ n >= 1 /\ n <= l
        /\ \A p \in 1 .. h : Byte(p) \in StreamBytes
    BY HeldType DEF Write, TypeOK
  <1>2. writing # <<>> /\ i \in Nat /\ i >= 1
    BY <1>1 DEF FrameBytes
  <1>3. /\ k > 0 /\ k \in Nat /\ l = e + 1 - i /\ e \in Nat
        /\ \A q \in 1 .. l : writing[q] = <<k, i + q - 1>>
        /\ i = 1 => \A m \in 1 .. Len(begun) : begun[m] < k
        /\ i > 1 => h > 0 /\ begun # <<>> /\ begun[Len(begun)] = k /\ Byte(h) \in {Damaged, <<k, i - 1>>}
    <2>1. k > 0 /\ k \in Nat /\ e \in Nat
      <3>1. k > 0 /\ sizes \in Seq(0 .. SendMax)
        BY <1>2 DEF StreamOrder, WritingOrder, TypeOK
      <3> QED BY <3>1 DEF FrameLen, TransportAssumption
    <2> QED BY <1>2, <2>1 DEF StreamOrder, WritingOrder
  <1>4. /\ UNCHANGED <<sizes, got, ready>> /\ Count' = Count
        /\ writing' = SubSeq(writing, n + 1, l)
        /\ begun' = IF i = 1 THEN Append(begun, k) ELSE begun
        /\ k \in 1 .. MaxFrames
    <2>1. 1 \in 1 .. l
      BY <1>1
    <2>2. writing[1] = <<k, i + 1 - 1>>
      BY <1>3, <2>1
    <2>3. writing[1][1] = k /\ writing[1] \in FrameBytes
      BY <1>1, <2>1, <2>2
    <2> QED BY <2>3 DEF Write, decoder, Count, FrameBytes
  <1>5. /\ Held' = h + n
        /\ \A p \in 1 .. h : Byte(p)' = Byte(p)
        /\ \A p \in h + 1 .. h + n : Byte(p)' = writing[p - h]
    BY StreamWrite
  <1>6. FrameLen(Len(sizes))' = e
    BY <1>4 DEF FrameLen
  <1>7. Len(writing') = l - n /\ \A q \in 1 .. l - n : writing'[q] = writing[n + q]
    BY <1>1, <1>4, SubSeqType, SubSeqAt
  <1> HIDE DEF k, i, l, e, h
  <1>8. \A p \in h + 1 .. h + n : Byte(p)' = <<k, i + (p - h) - 1>>
    <2> TAKE p \in h + 1 .. h + n
    <2>1. p - h \in 1 .. l
      BY <1>1
    <2> QED BY <1>3, <1>5, <2>1
  <1>9. /\ Len(begun') \in Nat /\ Len(begun') > 0 /\ begun'[Len(begun')] = k /\ begun' # <<>>
        /\ Len(begun) \in Nat /\ Len(begun) <= Len(begun')
        /\ \A m \in 1 .. Len(begun) : begun'[m] = begun[m]
        /\ i = 1 => Len(begun') = Len(begun) + 1
        /\ i > 1 => Len(begun') = Len(begun)
    <2>1. CASE i = 1
      <3>1. begun' = Append(begun, k)
        BY <1>4, <2>1
      <3>2. /\ Len(begun') = Len(begun) + 1 /\ Len(begun) \in Nat
            /\ begun'[Len(begun) + 1] = k /\ \A m \in 1 .. Len(begun) : begun'[m] = begun[m]
        BY <1>1, <1>4, <3>1, AppendAt
      <3> QED BY <2>1, <3>2
    <2>2. CASE i > 1
      BY <1>1, <1>2, <1>3, <1>4, <2>2
    <2> QED BY <1>2, <2>1, <2>2
  <1>10. BegunOrder'
    <2>1. \A a, b \in 1 .. Len(begun) : a < b => begun[a] < begun[b]
      BY DEF StreamOrder, BegunOrder
    <2>2. \A a \in 1 .. Len(begun) : begun[a] <= k /\ begun[a] \in Nat
      BY <1>1 DEF StreamOrder, BegunOrder, k
    <2>3. CASE i = 1
      <3>1. ASSUME NEW a \in 1 .. Len(begun'), NEW b \in 1 .. Len(begun'), a < b
            PROVE  begun'[a] < begun'[b]
        <4>1. CASE b = Len(begun')
          BY <1>3, <1>9, <2>3, <3>1, <4>1
        <4>2. CASE b # Len(begun')
          BY <1>9, <2>1, <2>3, <3>1, <4>2
        <4> QED BY <4>1, <4>2
      <3>2. ASSUME NEW a \in 1 .. Len(begun')
            PROVE  begun'[a] <= k
        <4>1. CASE a = Len(begun')
          BY <1>3, <1>9, <4>1
        <4>2. CASE a # Len(begun')
          BY <1>9, <2>2, <2>3, <4>2
        <4> QED BY <4>1, <4>2
      <3> QED BY <1>4, <3>1, <3>2 DEF BegunOrder, k
    <2>4. CASE i > 1
      <3>1. begun' = begun
        BY <1>2, <1>4, <2>4
      <3> QED BY <1>4, <3>1 DEF StreamOrder, BegunOrder
    <2> QED BY <1>2, <2>3, <2>4
  <1>11. InFrames'
    <2> SUFFICES ASSUME NEW p \in 1 .. h + n, Byte(p)' # Damaged
                 PROVE  Byte(p)'[1] \in 1 .. k /\ Byte(p)'[2] <= HeaderBytes + sizes[Byte(p)'[1]]
      BY <1>4, <1>5 DEF InFrames, FrameLen, k
    <2>1. CASE p <= h
      BY <1>1, <1>5, <2>1 DEF StreamOrder, InFrames, FrameLen, h, k
    <2>2. CASE p > h
      <3>1. Byte(p)' = <<k, i + (p - h) - 1>> /\ i + (p - h) - 1 <= e /\ k \in 1 .. k
        BY <1>1, <1>2, <1>3, <1>8, <2>2
      <3> QED BY <3>1 DEF e, FrameLen
    <2> QED BY <1>1, <2>1, <2>2
  <1>12. Adjacent'
    <2> SUFFICES ASSUME NEW p \in 1 .. h + n - 1, Byte(p)' # Damaged, Byte(p + 1)' # Damaged
                 PROVE  Succeeds(Byte(p), Byte(p + 1))'
      <3>1. Held' - 1 = h + n - 1
        BY <1>1, <1>5
      <3> QED BY <3>1, Zenon DEF Adjacent
    <2>1. CASE p < h
      <3>1. p \in 1 .. h /\ p + 1 \in 1 .. h /\ p \in 1 .. h - 1
        BY <1>1, <2>1
      <3>2. Byte(p)' = Byte(p) /\ Byte(p + 1)' = Byte(p + 1)
        BY <1>5, <3>1
      <3>3. Succeeds(Byte(p), Byte(p + 1))
        BY <3>1, <3>2 DEF StreamOrder, Adjacent, h
      <3> QED BY <1>9, <3>2, <3>3 DEF Succeeds
    <2>2. CASE p = h
      <3>1. /\ p \in 1 .. h /\ p + 1 \in h + 1 .. h + n /\ (p + 1) - h = 1 /\ i + 1 - 1 = i
        BY <1>1, <1>2, <2>2
      <3>2. Byte(p)' = Byte(p) /\ Byte(p + 1)' = <<k, i>>
        BY <1>5, <1>8, <3>1
      <3>3. CASE i = 1
        <4>1. begun # <<>> /\ Byte(p)[1] = begun[Len(begun)]
          BY <1>1, <2>2, <3>1, <3>2 DEF StreamOrder, AtEnd, h
        <4>2. /\ Len(begun) \in 1 .. Len(begun') - 1 /\ begun'[Len(begun)] = Byte(p)[1]
              /\ begun'[Len(begun) + 1] = k
          BY <1>1, <1>9, <3>3, <4>1
        <4> QED BY <3>2, <3>3, <4>2 DEF Succeeds
      <3>4. CASE i > 1
        <4>1. Byte(p) = <<k, i - 1>> /\ i - 1 + 1 = i
          BY <1>2, <1>3, <2>2, <3>2, <3>4
        <4> QED BY <3>2, <4>1 DEF Succeeds
      <3> QED BY <1>2, <3>3, <3>4
    <2>3. CASE p > h
      <3>1. p \in h + 1 .. h + n /\ p + 1 \in h + 1 .. h + n
        BY <1>1, <2>3
      <3>2. Byte(p)' = <<k, i + (p - h) - 1>> /\ Byte(p + 1)' = <<k, i + ((p + 1) - h) - 1>>
        BY <1>8, <3>1
      <3>3. i + ((p + 1) - h) - 1 = (i + (p - h) - 1) + 1
        BY <1>1, <1>2
      <3> QED BY <3>2, <3>3 DEF Succeeds
    <2> QED BY <1>1, <2>1, <2>2, <2>3
  <1>13. AtFront'
    <2>1. Held' # 0
      BY <1>1, <1>5
    <2> SUFFICES ASSUME Byte(1)' # Damaged
                 PROVE  Count < Len(begun') /\ Byte(1)' = <<begun'[Count + 1], 1>>
      BY <1>4, <2>1 DEF AtFront
    <2>2. CASE h = 0
      <3>1. i = 1 /\ Count = Len(begun)
        BY <1>2, <1>3, <2>2 DEF StreamOrder, AtFront, h
      <3>2. 1 \in h + 1 .. h + n /\ i + (1 - h) - 1 = 1
        BY <1>1, <2>2, <3>1
      <3>3. Byte(1)' = <<k, 1>>
        BY <1>8, <3>2
      <3> QED BY <1>9, <3>1, <3>3
    <2>3. CASE h # 0
      <3>1. 1 \in 1 .. h
        BY <1>1, <2>3
      <3>2. Byte(1)' = Byte(1)
        BY <1>5, <3>1
      <3>3. Count < Len(begun) /\ Byte(1) = <<begun[Count + 1], 1>>
        BY <2>3, <3>2 DEF StreamOrder, AtFront, h
      <3>4. Count \in Nat
        BY DEF TypeOK, Count
      <3> QED BY <1>9, <3>2, <3>3, <3>4
    <2> QED BY <2>2, <2>3
  <1>14. Byte(Held)' = <<k, i + n - 1>>
    <2>1. h + n \in h + 1 .. h + n /\ (h + n) - h = n
      BY <1>1
    <2>2. \A p : p = h + n => Byte(p)' = <<k, i + n - 1>>
      BY <1>8, <2>1
    <2> QED BY <1>5, <2>2
  <1>15. AtEnd'
    BY <1>9, <1>14 DEF AtEnd
  <1>16. WritingOrder'
    <2> SUFFICES ASSUME writing' # <<>>
                 PROVE  WritingOrder'
      BY DEF WritingOrder
    <2> DEFINE j == writing'[1][2]
    <2>1. 1 \in 1 .. l - n
      <3>1. Len(writing') # 0
        BY <1>1, <1>4, SubSeqType DEF l
      <3> QED BY <1>1, <1>7, <3>1
    <2>2. \A q \in 1 .. l - n : writing'[q] = <<k, i + (n + q) - 1>>
      <3> TAKE q \in 1 .. l - n
      <3>1. n + q \in 1 .. l
        BY <1>1
      <3> QED BY <1>3, <1>7, <3>1
    <2>3. j = i + n
      BY <1>1, <1>2, <2>1, <2>2
    <2>4. \A q \in 1 .. l - n : i + (n + q) - 1 = j + q - 1
      BY <1>1, <1>2, <2>3
    <2>5. \A q \in 1 .. Len(writing') : writing'[q] = <<k, j + q - 1>>
      BY <1>7, <2>2, <2>4
    <2>6. Len(writing') = e + 1 - j /\ j # 1 /\ Held' > 0 /\ i + n - 1 = j - 1
      BY <1>1, <1>2, <1>3, <1>5, <1>7, <2>3
    <2>7. Len(sizes') = k
      BY <1>4 DEF k
    <2>8. Byte(Held)' = <<k, j - 1>>
      BY <1>14, <2>6
    <2> HIDE DEF j
    <2> QED BY <1>3, <1>6, <1>9, <2>5, <2>6, <2>7, <2>8 DEF WritingOrder, j
  <1> QED
    BY <1>10, <1>11, <1>12, <1>13, <1>15, <1>16 DEF StreamOrder

\* The decoder takes a frame only if it is, whole and undamaged, at the front
\* of the stream; what follows it there is the frame that began next.
LEMMA FeedOrder ==
    ASSUME TypeOK, TransportAssumption, StreamOrder, Delivered, FeedFrame
    PROVE  StreamOrder' /\ Delivered'
  <1> DEFINE c == Current
             t == Total
             h == Held
  <1>1. /\ h \in Nat /\ \A p \in 1 .. h : Byte(p) \in StreamBytes
        /\ begun \in Seq(1 .. MaxFrames) /\ Len(begun) \in Nat
        /\ ready \in Seq(1 .. MaxFrames) /\ got \in Seq(1 .. MaxFrames)
        /\ Len(ready) \in Nat /\ Len(got) \in Nat
        /\ \A m \in 1 .. Len(begun) : begun[m] \in Nat
        /\ sizes \in Seq(0 .. SendMax) /\ HeaderBytes \in Nat /\ HeaderBytes >= 1
        /\ SendMax \in Nat
    BY HeldType DEF TypeOK, TransportAssumption
  <1>2. /\ UNCHANGED <<sizes, writing, begun, wire, buffer, got>>
        /\ ready' = Append(ready, c) /\ offset' = offset + t
        /\ HeaderAccepted /\ PayloadAccepted /\ Available >= t
    BY DEF FeedFrame, sender
  <1>3. /\ c \in 1 .. Len(sizes) /\ t = HeaderBytes + sizes[c] /\ t \in Nat /\ t >= HeaderBytes
        /\ t >= 1 /\ t <= Len(buffer) - offset
    <2>1. c \in 1 .. Len(sizes) /\ t = HeaderBytes + sizes[c]
      BY <1>2 DEF HeaderAccepted, Total
    <2>2. sizes[c] \in Nat
      BY <1>1, <2>1
    <2>3. Available \in Nat /\ Available = Len(buffer) - offset
      BY DEF Available, TypeOK
    <2>4. HeaderBytes \in Nat /\ HeaderBytes >= 1
      BY <1>1
    <2>5. Available >= t
      BY <1>2
    <2> HIDE DEF c, t
    <2> QED BY <2>1, <2>2, <2>3, <2>4, <2>5
  <1>4. \A i \in 1 .. t : Byte(i) = <<c, i>>
    <2> TAKE i \in 1 .. t
    <2>0. Len(buffer) \in Nat /\ offset \in Nat /\ t \in Nat /\ t <= Len(buffer) - offset
      BY <1>3 DEF TypeOK
    <2>1. i <= Len(buffer) - offset
      <3> HIDE DEF t
      <3> QED BY <2>0
    <2>2. Byte(i) = buffer[offset + i]
      BY <2>1 DEF Byte
    <2>3. CASE i <= HeaderBytes
      <3>1. i \in 1 .. HeaderBytes
        BY <1>1, <1>3, <2>3
      <3> QED BY <1>2, <2>2, <3>1 DEF HeaderAccepted
    <2>4. CASE i > HeaderBytes
      <3>1. i \in HeaderBytes + 1 .. Total
        BY <1>1, <1>3, <2>4
      <3> QED BY <1>2, <2>2, <3>1 DEF PayloadAccepted
    <2> QED BY <1>1, <1>3, <2>3, <2>4
  <1>5. Held' = h - t /\ t <= h /\ \A p \in 1 .. h - t : Byte(p)' = Byte(t + p)
    BY <1>2, <1>3, StreamFeed
  <1>6. c \in Nat /\ c # 0 /\ \A i : <<c, i>> # Damaged
    BY <1>3, <1>1 DEF Damaged
  <1> HIDE DEF c, t, h
  <1>0. h \in Nat /\ t \in Nat /\ t >= 1 /\ t <= h /\ Held' = h - t
    BY <1>1, <1>3, <1>5
  <1>7. Count \in Nat /\ Count < Len(begun) /\ begun[Count + 1] = c /\ Count = Len(got) + Len(ready)
    <2>1. Byte(1) = <<c, 1>> /\ h # 0
      BY <1>1, <1>3, <1>4, <1>5
    <2>2. Count < Len(begun) /\ <<c, 1>> = <<begun[Count + 1], 1>>
      BY <1>6, <2>1 DEF StreamOrder, AtFront, h
    <2> QED BY <1>1, <2>2 DEF Count
  <1>8. Count' = Count + 1 /\ Delivered'
    <2>1. Count + 1 \in 1 .. Len(begun)
      BY <1>1, <1>7
    <2>2. c \in 1 .. MaxFrames
      BY <1>1, <1>7, <2>1
    <2>3. /\ Len(ready') = Len(ready) + 1 /\ ready'[Len(ready) + 1] = c
          /\ \A q \in 1 .. Len(ready) : ready'[q] = ready[q]
      BY <1>1, <1>2, <2>2, AppendAt
    <2>4. Count' = Count + 1
      BY <1>1, <1>2, <1>7, <2>3 DEF Count
    <2>5. ASSUME NEW q \in 1 .. Len(ready')
          PROVE  ready'[q] = begun[Len(got) + q]
      <3>1. CASE q = Len(ready) + 1
        <4>1. Len(got) + q = Count + 1
          BY <1>1, <1>7, <3>1
        <4> QED BY <1>7, <2>3, <3>1, <4>1
      <3>2. CASE q # Len(ready) + 1
        <4>1. q \in 1 .. Len(ready)
          BY <1>1, <2>3, <2>5, <3>2
        <4> QED BY <2>3, <4>1 DEF Delivered
      <3> QED BY <3>1, <3>2
    <2>6. Count' <= Len(begun)
      BY <1>1, <1>7, <2>4
    <2> QED BY <1>2, <2>4, <2>5, <2>6 DEF Delivered
  <1>9. \A m \in 1 .. Len(begun) : begun[m] = c => m = Count + 1
    <2> SUFFICES ASSUME NEW m \in 1 .. Len(begun), begun[m] = c, m # Count + 1
                 PROVE  FALSE
      OBVIOUS
    <2>1. Count + 1 \in 1 .. Len(begun)
      BY <1>1, <1>7
    <2>2. \A a, b \in 1 .. Len(begun) : a < b => begun[a] < begun[b]
      BY DEF StreamOrder, BegunOrder
    <2>3. m < Count + 1 \/ Count + 1 < m
      BY <1>7
    <2> QED BY <1>6, <1>7, <2>1, <2>2, <2>3
  <1>10. BegunOrder'
    BY <1>2 DEF StreamOrder, BegunOrder
  <1>11. \A p \in 1 .. h - t : t + p \in 1 .. h
    BY <1>0
  <1>12. InFrames'
    BY <1>2, <1>5, <1>11 DEF StreamOrder, InFrames, FrameLen, h
  <1>13. Adjacent'
    <2> SUFFICES ASSUME NEW p \in 1 .. h - t - 1, Byte(p)' # Damaged, Byte(p + 1)' # Damaged
                 PROVE  Succeeds(Byte(p), Byte(p + 1))'
      <3>1. Held' - 1 = h - t - 1
        BY <1>1, <1>3, <1>5
      <3> QED BY <3>1, Zenon DEF Adjacent
    <2>1. /\ p \in 1 .. h - t /\ p + 1 \in 1 .. h - t /\ t + p \in 1 .. h - 1
          /\ t + (p + 1) = (t + p) + 1
      BY <1>0
    <2>2. Byte(p)' = Byte(t + p) /\ Byte(p + 1)' = Byte((t + p) + 1)
      BY <1>5, <2>1
    <2>3. Succeeds(Byte(t + p), Byte((t + p) + 1))
      BY <2>1, <2>2 DEF StreamOrder, Adjacent, h
    <2> QED BY <1>2, <2>2, <2>3 DEF Succeeds
  <1>14. Byte(t) = <<c, t>> /\ t \in 1 .. h
    <2>1. t \in 1 .. t /\ t \in 1 .. h
      BY <1>0
    <2> QED BY <1>4, <2>1
  <1>15. AtFront'
    <2>1. CASE h = t
      <3>1. Held' = 0
        BY <1>1, <1>5, <2>1
      <3>2. begun # <<>> /\ c = begun[Len(begun)]
        <4>1. Byte(Held) = <<c, t>> /\ Held > 0
          BY <1>3, <1>14, <2>1 DEF h
        <4> QED BY <1>6, <4>1 DEF StreamOrder, AtEnd
      <3>3. Len(begun) \in 1 .. Len(begun)
        BY <1>1, <3>2
      <3>4. Len(begun) = Count + 1
        BY <1>9, <3>2, <3>3
      <3> QED BY <1>2, <1>8, <3>1, <3>4 DEF AtFront
    <2>2. CASE h # t
      <3>1. /\ Held' # 0 /\ 1 \in 1 .. h - t /\ t \in 1 .. h - 1 /\ t + 1 \in 1 .. h
        BY <1>0, <2>2
      <3> SUFFICES ASSUME Byte(1)' # Damaged
                   PROVE  Count + 1 < Len(begun) /\ Byte(1)' = <<begun[(Count + 1) + 1], 1>>
        BY <1>2, <1>8, <3>1 DEF AtFront
      <3> DEFINE d == Byte(t + 1)
      <3>2. Byte(1)' = d /\ d \in StreamBytes /\ d # Damaged
        BY <1>1, <1>5, <3>1
      <3>3. Byte(t) # Damaged
        BY <1>6, <1>14
      <3>4. Succeeds(Byte(t), d)
        BY <3>1, <3>2, <3>3 DEF StreamOrder, Adjacent, h
      <3>5. d[1] \in 1 .. Len(sizes) /\ d[2] <= HeaderBytes + sizes[d[1]]
        BY <3>1, <3>2 DEF StreamOrder, InFrames, FrameLen, h
      <3> HIDE DEF d
      <3>6. d[2] \in Nat /\ d = <<d[1], d[2]>>
        BY <1>1, <3>2 DEF StreamBytes, FrameBytes
      <3>7. ~(d[1] = c /\ d[2] = t + 1)
        BY <1>3, <3>5, <3>6
      <3>8. /\ d[2] = 1
            /\ \E m \in 1 .. Len(begun) - 1 : begun[m] = c /\ begun[m + 1] = d[1]
        BY <1>14, <3>4, <3>7 DEF Succeeds
      <3>9. PICK m \in 1 .. Len(begun) - 1 : begun[m] = c /\ begun[m + 1] = d[1]
        BY <3>8
      <3>10. m \in 1 .. Len(begun)
        BY <1>1
      <3>11. m = Count + 1
        BY <1>9, <3>9, <3>10
      <3>12. Count + 1 < Len(begun) /\ begun[(Count + 1) + 1] = d[1]
        BY <1>1, <1>7, <3>9, <3>11
      <3> QED BY <3>2, <3>6, <3>8, <3>12
    <2> QED BY <2>1, <2>2
  <1>16. Held' > 0 => Byte(Held)' = Byte(Held)
    <2> SUFFICES ASSUME Held' > 0
                 PROVE  Byte(Held)' = Byte(Held)
      OBVIOUS
    <2>1. h - t \in 1 .. h - t /\ t + (h - t) = h
      BY <1>0
    <2>2. \A p : p = h - t => Byte(p)' = Byte(h)
      BY <1>5, <2>1
    <2> QED BY <1>5, <2>2 DEF h
  <1>17. Held' > 0 => Held > 0
    BY <1>1, <1>3, <1>5 DEF h
  <1>18. AtEnd'
    BY <1>2, <1>16, <1>17 DEF StreamOrder, AtEnd
  <1>19. WritingOrder'
    <2> SUFFICES ASSUME writing # <<>>
                 PROVE  WritingOrder'
      BY <1>2 DEF WritingOrder
    <2> DEFINE i == writing[1][2]
               n == Len(sizes)
    <2>1. /\ n > 0 /\ Len(writing) = FrameLen(n) + 1 - i
          /\ \A q \in 1 .. Len(writing) : writing[q] = <<n, i + q - 1>>
          /\ i = 1 => \A m \in 1 .. Len(begun) : begun[m] < n
          /\ i > 1 => /\ Held > 0 /\ begun # <<>> /\ begun[Len(begun)] = n
                      /\ Byte(Held) \in {Damaged, <<n, i - 1>>}
      BY DEF StreamOrder, WritingOrder
    <2>2. Len(writing) \in Nat /\ Len(writing) # 0 /\ i \in Nat
      BY DEF TypeOK, FrameBytes
    <2>3. UNCHANGED <<sizes, writing, begun>> /\ FrameLen(Len(sizes))' = FrameLen(n)
      BY <1>2 DEF FrameLen
    <2>4. FrameLen(c) = t
      BY <1>3 DEF FrameLen
    <2>5. ASSUME i > 1
          PROVE  Held' > 0
      <3>1. CASE h = t
        <4>1. Byte(Held) = <<c, t>> /\ Byte(Held) # Damaged
          BY <1>6, <1>14, <3>1 DEF h
        <4> HIDE DEF i, n
        <4>2. <<c, t>> = <<n, i - 1>>
          BY <2>1, <2>5, <4>1
        <4>3. c = n /\ t = i - 1
          BY <4>2
        <4> QED BY <1>3, <2>1, <2>2, <2>4, <4>3
      <3>2. CASE h # t
        BY <1>0, <3>2
      <3> QED BY <3>1, <3>2
    <2>6. i > 1 => Byte(Held)' = Byte(Held)
      BY <1>16, <2>5
    <2> QED BY <2>1, <2>3, <2>5, <2>6 DEF WritingOrder
  <1> QED
    BY <1>8, <1>10, <1>12, <1>13, <1>15, <1>18, <1>19 DEF StreamOrder

\* receive returns the first frame that is ready.
LEMMA TakeReady ==
    ASSUME TypeOK, Delivered, ready # <<>>, UNCHANGED begun,
           got' = Append(got, Head(ready)), ready' = Tail(ready)
    PROVE  Count' = Count /\ Delivered'
  <1>1. /\ ready \in Seq(1 .. MaxFrames) /\ got \in Seq(1 .. MaxFrames)
        /\ Len(ready) \in Nat /\ Len(got) \in Nat /\ Len(ready) >= 1
    BY DEF TypeOK
  <1>2. /\ Head(ready) = ready[1] /\ Head(ready) \in 1 .. MaxFrames
        /\ Len(ready') = Len(ready) - 1
        /\ \A q \in 1 .. Len(ready) - 1 : ready'[q] = ready[q + 1]
    BY <1>1, TailAt
  <1>3. /\ Len(got') = Len(got) + 1 /\ got'[Len(got) + 1] = ready[1]
        /\ \A q \in 1 .. Len(got) : got'[q] = got[q]
    BY <1>1, <1>2, AppendAt
  <1>4. Count' = Count
    BY <1>1, <1>2, <1>3 DEF Count
  <1>5. \A q \in 1 .. Len(ready) : ready[q] = begun[Len(got) + q]
    BY DEF Delivered
  <1>6. ASSUME NEW q \in 1 .. Len(got')
        PROVE  got'[q] = begun[q]
    <2>1. CASE q = Len(got) + 1
      <3>1. 1 \in 1 .. Len(ready)
        BY <1>1
      <3> QED BY <1>3, <1>5, <2>1, <3>1
    <2>2. CASE q # Len(got) + 1
      <3>1. q \in 1 .. Len(got)
        BY <1>1, <1>3, <1>6, <2>2
      <3> QED BY <1>3, <3>1 DEF Delivered
    <2> QED BY <2>1, <2>2
  <1>7. ASSUME NEW q \in 1 .. Len(ready')
        PROVE  ready'[q] = begun[Len(got') + q]
    <2>1. q \in 1 .. Len(ready) - 1 /\ q + 1 \in 1 .. Len(ready) /\ Len(got) + (q + 1) = Len(got') + q
      BY <1>1, <1>2, <1>3, <1>7
    <2>2. ready'[q] = ready[q + 1]
      BY <1>2, <2>1
    <2> QED BY <1>5, <2>1, <2>2
  <1> QED
    BY <1>4, <1>6, <1>7 DEF Delivered

\* On a new connection nothing has been begun, held or received.
LEMMA InitOrder ==
    ASSUME Init
    PROVE  OrderInv
  <1>1. Held = 0 /\ Count = 0 /\ Len(begun) = 0
    BY DEF Init, Held, Count
  <1>2. StreamOrder
    BY <1>1 DEF Init, StreamOrder, BegunOrder, InFrames, Adjacent, AtFront, AtEnd, WritingOrder
  <1>3. Delivered
    BY <1>1 DEF Init, Delivered
  <1> QED
    BY <1>2, <1>3 DEF Init, OrderInv, ReceiverOrder

\* The sender and the network.
LEMMA SenderOrder ==
    ASSUME TypeOK, TransportAssumption, OrderInv,
           \/ \E n \in 0 .. SendMax + 1 : Send(n)
           \/ \E n \in 1 .. HeaderBytes + SendMax : Write(n)
           \/ WriteFails \/ Close
           \/ \E i \in 1 .. Len(wire) : Damage(i)
    PROVE  OrderInv'
  <1>1. UNCHANGED <<rpc, ready, got, outcome, cancelled, buffer, offset>> /\ Count' = Count
    BY DEF Send, Write, WriteFails, Close, Damage, decoder, Count
  <1>2. StreamOrder /\ Delivered /\ ReceiverOrder
    BY DEF OrderInv
  <1>3. ASSUME NEW n \in 0 .. SendMax + 1, Send(n)
        PROVE  OrderInv'
    <2>1. StreamOrder'
      BY <1>2, <1>3, SendOrder
    <2> QED BY <1>1, <1>2, <1>3, <2>1 DEF OrderInv, Delivered, ReceiverOrder, Send
  <1>4. ASSUME NEW n \in 1 .. HeaderBytes + SendMax, Write(n)
        PROVE  OrderInv'
    <2>1. StreamOrder'
      BY <1>2, <1>4, WriteOrder
    <2>2. /\ begun \in Seq(1 .. MaxFrames) /\ Len(begun) \in Nat /\ Len(begun') \in Nat
          /\ Len(begun) <= Len(begun') /\ \A m \in 1 .. Len(begun) : begun'[m] = begun[m]
      <3>1. begun \in Seq(1 .. MaxFrames) /\ writing[1][1] \in 1 .. MaxFrames
        <4>1. writing \in Seq(FrameBytes) /\ 1 \in 1 .. Len(writing)
          BY <1>4 DEF TypeOK, Write
        <4>2. writing[1] \in FrameBytes
          BY <4>1
        <4> QED BY <4>2 DEF TypeOK, FrameBytes
      <3>2. begun' = begun \/ begun' = Append(begun, writing[1][1])
        BY <1>4 DEF Write
      <3>3. CASE begun' = begun
        BY <3>1, <3>3
      <3>4. CASE begun' = Append(begun, writing[1][1])
        BY <3>1, <3>4, AppendAt
      <3> QED BY <3>2, <3>3, <3>4
    <2>3. Count \in Nat /\ Len(got) \in Nat /\ Len(ready) \in Nat /\ Count = Len(got) + Len(ready)
      BY DEF TypeOK, Count
    <2>4. Delivered'
      <3>1. Count <= Len(begun)
        BY <1>2 DEF Delivered
      <3>2. \A q \in 1 .. Len(got) : q \in 1 .. Len(begun)
        BY <2>2, <2>3, <3>1
      <3>3. \A q \in 1 .. Len(ready) : Len(got) + q \in 1 .. Len(begun)
        BY <2>2, <2>3, <3>1
      <3>4. Count <= Len(begun')
        BY <2>2, <2>3, <3>1
      <3> QED BY <1>1, <1>2, <2>2, <3>2, <3>3, <3>4 DEF Delivered
    <2>5. writing # <<>> /\ UNCHANGED closed
      BY <1>4 DEF Write, TypeOK
    <2>6. ReceiverOrder'
      BY <1>1, <1>2, <2>5 DEF ReceiverOrder
    <2> QED BY <2>1, <2>4, <2>6 DEF OrderInv
  <1>5. CASE WriteFails \/ Close
    <2>1. /\ Held' = Held /\ \A p : Byte(p)' = Byte(p)
          /\ UNCHANGED <<begun, sizes>> /\ writing' \in {writing, <<>>}
      BY <1>1, <1>5 DEF WriteFails, Close, Held, Byte
    <2>2. StreamOrder'
      BY <1>1, <1>2, <2>1, OrderKept
    <2>3. ReceiverOrder'
      BY <1>1, <1>2, <1>5, <2>1 DEF ReceiverOrder, WriteFails, Close
    <2> QED BY <1>1, <1>2, <2>1, <2>2, <2>3 DEF OrderInv, Delivered
  <1>6. ASSUME NEW i \in 1 .. Len(wire), Damage(i)
        PROVE  OrderInv'
    <2>1. UNCHANGED <<begun, sizes, writing, closed>>
      BY <1>6 DEF Damage, sender
    <2>2. Held' = Held /\ \A p \in 1 .. Held : Byte(p)' \in {Byte(p), Damaged}
      BY <1>6, StreamDamage
    <2>3. StreamOrder'
      BY <1>1, <1>2, <2>1, <2>2, OrderKept
    <2> QED BY <1>1, <1>2, <2>1, <2>3 DEF OrderInv, Delivered, ReceiverOrder
  <1> QED
    BY <1>3, <1>4, <1>5, <1>6

\* The receiver: only FeedFrame takes from the stream, and a clean close is
\* reported only with the stream empty and nothing left to return.
LEMMA ReceiverKeepsOrder ==
    ASSUME IInv, TransportAssumption, OrderInv, Reader \/ Elapse \/ Interrupt \/ UNCHANGED vars
    PROVE  OrderInv'
  <1>1. StreamOrder /\ Delivered /\ ReceiverOrder /\ TypeOK
    BY DEF OrderInv, IInv
  <1>2. UNCHANGED <<sizes, writing, begun, closed>>
    BY DEF Reader, ReceiveReady, Receive, CheckCancelled, WaitSlice, EndOfStream, Read,
           FeedDone, FeedFrame, FeedFails, Elapse, Interrupt, sender, vars
  <1>3. CASE FeedFrame
    <2>1. StreamOrder' /\ Delivered'
      BY <1>1, <1>3, FeedOrder
    <2>2. ReceiverOrder'
      BY <1>1, <1>2, <1>3 DEF ReceiverOrder, FeedFrame
    <2> QED BY <2>1, <2>2 DEF OrderInv
  <1>4. ASSUME NEW n \in 1 .. ReadBytes, Read(n)
        PROVE  OrderInv'
    <2>1. UNCHANGED <<ready, got, outcome, cancelled>> /\ rpc = "wait" /\ rpc' = "decode"
      BY <1>4 DEF Read
    <2>2. StreamOrder'
      BY <1>1, <1>2, <1>4, <2>1, StreamRead, OrderKept DEF Count
    <2>3. Delivered'
      BY <1>1, <1>2, <2>1 DEF Delivered, Count
    <2>4. ReceiverOrder'
      BY <1>1, <1>2, <2>1 DEF ReceiverOrder
    <2> QED BY <2>2, <2>3, <2>4 DEF OrderInv
  <1>5. CASE \/ ReceiveReady \/ Receive \/ CheckCancelled \/ WaitSlice \/ EndOfStream
             \/ FeedDone \/ FeedFails \/ Elapse \/ Interrupt \/ UNCHANGED vars
    <2>1. UNCHANGED <<buffer, offset, wire>>
      BY <1>5 DEF ReceiveReady, Receive, CheckCancelled, WaitSlice, EndOfStream, FeedDone,
                  FeedFails, Elapse, Interrupt, decoder, vars
    <2>2. Held' = Held /\ \A p : Byte(p)' = Byte(p)
      BY <2>1 DEF Held, Byte
    <2>3. Count' = Count /\ Delivered'
      <3>1. \/ UNCHANGED <<got, ready>>
            \/ ready # <<>> /\ got' = Append(got, Head(ready)) /\ ready' = Tail(ready)
        BY <1>5 DEF ReceiveReady, Receive, CheckCancelled, WaitSlice, EndOfStream, FeedDone,
                    FeedFails, Elapse, Interrupt, decoder, vars
      <3>2. CASE UNCHANGED <<got, ready>>
        BY <1>1, <1>2, <3>2 DEF Delivered, Count
      <3>3. CASE ready # <<>> /\ got' = Append(got, Head(ready)) /\ ready' = Tail(ready)
        BY <1>1, <1>2, <3>3, TakeReady
      <3> QED BY <3>1, <3>2, <3>3
    <2>4. StreamOrder'
      BY <1>1, <1>2, <2>2, <2>3, OrderKept
    <2>5. ReceiverOrder'
      <3>1. CASE EndOfStream \/ CheckCancelled
        <4>1. ready = <<>> /\ UNCHANGED <<ready, got, cancelled>>
          BY <1>1, <3>1 DEF EndOfStream, CheckCancelled, ReceiverOrder, decoder
        <4>2. ASSUME outcome' = "closed", outcome # "closed", ~cancelled
              PROVE  got = begun /\ closed
          <5>1. EndOfStream /\ Finish = "closed" /\ closed /\ wire = <<>>
            BY <3>1, <4>2 DEF EndOfStream, CheckCancelled, Return
          <5>2. ~(offset < Len(buffer))
            BY <5>1 DEF Finish
          <5>3. Held = 0
            BY <1>1, <5>1, <5>2 DEF Held, TypeOK
          <5>4. Len(got) = Len(begun)
            BY <1>1, <4>1, <5>3 DEF StreamOrder, AtFront, Count, TypeOK
          <5>5. got = begun
            <6>1. got \in Seq(1 .. MaxFrames) /\ begun \in Seq(1 .. MaxFrames)
              BY <1>1 DEF TypeOK
            <6>2. \A q \in 1 .. Len(got) : got[q] = begun[q]
              BY <1>1 DEF Delivered
            <6> QED BY <5>4, <6>1, <6>2, SeqEqual
          <5> QED BY <5>1, <5>5
        <4>3. outcome' = "closed" => outcome = "closed" \/ rpc' = "over"
          BY <3>1 DEF EndOfStream, CheckCancelled, Return
        <4>4. outcome # "closed"
          BY <1>1, <3>1 DEF ReceiverOrder, EndOfStream, CheckCancelled
        <4> QED BY <1>1, <1>2, <4>1, <4>2, <4>3, <4>4 DEF ReceiverOrder
      <3>2. CASE ReceiveReady \/ Receive \/ WaitSlice \/ FeedDone \/ FeedFails
        <4>1. outcome # "closed"
          BY <1>1, <3>2 DEF ReceiverOrder, ReceiveReady, Receive, WaitSlice, FeedDone, FeedFails
        <4>2. outcome' # "closed"
          BY <3>2, <4>1 DEF ReceiveReady, Receive, WaitSlice, Slice, FeedDone, FeedFails, Return
        <4>3. rpc' \in {"check", "wait"} => ready' = <<>>
          BY <1>1, <3>2 DEF ReceiverOrder, ReceiveReady, Receive, WaitSlice, Slice, FeedDone,
                            FeedFails, Return, decoder
        <4> QED BY <1>1, <1>2, <4>2, <4>3 DEF ReceiverOrder
      <3>3. CASE Elapse \/ Interrupt \/ UNCHANGED vars
        <4>1. /\ UNCHANGED <<rpc, ready, got, outcome>> /\ (cancelled => cancelled')
          BY <3>3 DEF Elapse, Interrupt, vars, decoder
        <4> QED BY <1>1, <1>2, <4>1 DEF ReceiverOrder
      <3> QED BY <1>5, <3>1, <3>2, <3>3
    <2> QED BY <2>3, <2>4, <2>5 DEF OrderInv
  <1> QED
    BY <1>3, <1>4, <1>5 DEF Reader

\* The order of the stream is kept, whatever is fragmented, abandoned,
\* damaged or timed out.
THEOREM TransportOrder == Spec => [](IInv /\ OrderInv)
  <1>1. Init => IInv /\ OrderInv
    BY InitIInv, InitOrder, TransportAssumption
  <1>2. IInv /\ OrderInv /\ [Next]_vars => OrderInv'
    BY SenderOrder, ReceiverKeepsOrder, TransportAssumption DEF Next, IInv
  <1> QED
    BY <1>1, <1>2, TransportInvariant, PTL DEF Spec

\* receive returns, in order and without a gap, the frames that reached the
\* stream, for any sizes, reads, damage and abandoned writes.
THEOREM ReceivesInOrder == Spec => []ReceivedInOrder
  <1>1. IInv /\ OrderInv => ReceivedInOrder
    <2> SUFFICES ASSUME TypeOK, Delivered
                 PROVE  ReceivedInOrder
      BY DEF IInv, OrderInv
    <2> DEFINE s == got \o ready
    <2>1. /\ got \in Seq(1 .. MaxFrames) /\ ready \in Seq(1 .. MaxFrames)
          /\ begun \in Seq(1 .. MaxFrames) /\ Len(got) \in Nat /\ Len(ready) \in Nat
          /\ Len(begun) \in Nat
      BY DEF TypeOK
    <2>2. s \in Seq(1 .. MaxFrames) /\ Len(s) = Len(got) + Len(ready)
      BY <2>1, ConcatLen
    <2>3. Len(s) <= Len(begun)
      BY <2>2 DEF Delivered, Count
    <2>4. ASSUME NEW q \in 1 .. Len(s)
          PROVE  s[q] = begun[q]
      <3>1. s[q] = IF q <= Len(got) THEN got[q] ELSE ready[q - Len(got)]
        BY <2>1, <2>2, ConcatAt
      <3>2. CASE q <= Len(got)
        <4>1. q \in 1 .. Len(got)
          BY <2>1, <2>2, <2>4, <3>2
        <4> QED BY <3>1, <3>2, <4>1 DEF Delivered
      <3>3. CASE ~(q <= Len(got))
        <4>1. q - Len(got) \in 1 .. Len(ready) /\ Len(got) + (q - Len(got)) = q
          BY <2>1, <2>2, <2>4, <3>3
        <4>2. ready[q - Len(got)] = begun[Len(got) + (q - Len(got))]
          BY <4>1 DEF Delivered
        <4> QED BY <3>1, <3>3, <4>1, <4>2
      <3> QED BY <3>2, <3>3
    <2> HIDE DEF s
    <2>5. SubSeq(s, 1, Len(s)) = SubSeq(begun, 1, Len(s))
      <3> DEFINE l == Len(s)
      <3>1. l \in Nat /\ 1 \in 1 .. l + 1 /\ l \in 0 .. l /\ l \in 0 .. Len(begun)
            /\ 1 \in 1 .. Len(begun) + 1 /\ 1 <= l + 1 /\ l + 1 - 1 = l
            /\ \A q \in 1 .. l : 1 + q - 1 = q
        BY <2>1, <2>2, <2>3
      <3>2. SubSeq(s, 1, l) \in Seq(1 .. MaxFrames) /\ Len(SubSeq(s, 1, l)) = l
        BY <2>2, <3>1, SubSeqType
      <3>3. SubSeq(begun, 1, l) \in Seq(1 .. MaxFrames) /\ Len(SubSeq(begun, 1, l)) = l
        BY <2>1, <3>1, SubSeqType
      <3>4. ASSUME NEW q \in 1 .. l
            PROVE  SubSeq(s, 1, l)[q] = SubSeq(begun, 1, l)[q]
        <4>1. SubSeq(s, 1, l)[q] = s[1 + q - 1]
          BY <2>2, <3>1, SubSeqAt
        <4>2. SubSeq(begun, 1, l)[q] = begun[1 + q - 1]
          BY <2>1, <3>1, SubSeqAt
        <4> QED BY <2>4, <3>1, <4>1, <4>2
      <3> QED BY <3>2, <3>3, <3>4, SeqEqual
    <2> QED BY <2>3, <2>5 DEF ReceivedInOrder, IsPrefix, s
  <1> QED
    BY <1>1, TransportOrder, PTL

\* A close is reported as clean only if every frame of which a byte was
\* written has been returned, unless the receive was cancelled.
THEOREM CleanCloseComplete == Spec => []CleanCloseIsComplete
  <1>1. OrderInv => CleanCloseIsComplete
    BY DEF OrderInv, ReceiverOrder, CleanCloseIsComplete
  <1> QED
    BY <1>1, TransportOrder, PTL
=============================================================================
