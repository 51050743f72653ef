----------------------------- MODULE Transport -----------------------------
(***************************************************************************)
(* One direction of a framed TCP connection (src/src/transport.cpp,        *)
(* src/src/frame.cpp): a thread that sends frames with                     *)
(* FramedConnection::send, the byte stream between the sockets, and a      *)
(* thread that calls FramedConnection::receive.                            *)
(*                                                                         *)
(* A byte of the stream is a pair <<k, i>>: position i of the k-th frame   *)
(* the sender encoded, the first HeaderBytes positions being its header.   *)
(* Abstracting the checksums this way states what CRC32C is relied on      *)
(* for: a header or payload that is not exactly the bytes of one frame is  *)
(* rejected, whether bytes were damaged, lost by an abandoned write or     *)
(* taken from two frames.                                                  *)
(*                                                                         *)
(* A frame may be sent after another send failed half way (runSession      *)
(* sends Goodbye on the connection whose last send failed), and receive is *)
(* called again after a timeout (awaitAcknowledgement) but after no other  *)
(* error.                                                                  *)
(***************************************************************************)
EXTENDS Naturals, Sequences, SequencesExt

CONSTANTS
    HeaderBytes,   \* kFrameHeaderBytes
    SendMax,       \* maxPayloadBytes_ of the sending side
    ReceiveMax,    \* maxPayloadBytes_ of the receiving side
    ReadBytes,     \* the size of readBuffer_
    WireBytes,     \* what the socket buffers of both sides hold (bound)
    MaxFrames,     \* sends the sender attempts (bound)
    MaxDamage      \* bytes the network alters (bound)

ASSUME TransportAssumption ==
    /\ HeaderBytes \in Nat \ {0}
    /\ SendMax \in Nat /\ ReceiveMax \in Nat
    /\ ReadBytes \in Nat \ {0}
    /\ WireBytes \in Nat \ {0}
    /\ MaxFrames \in Nat /\ MaxDamage \in Nat

VARIABLES
    sizes,     \* payload size of each frame encoded so far
    writing,   \* bytes of the current frame that writeAll has still to send
    wire,      \* the bytes in flight
    closed,    \* the sender closed its socket
    begun,     \* the frames of which at least one byte was written
    damaged,   \* how many bytes the network altered
    rpc,       \* where the receiving thread is
    buffer,    \* FrameDecoder::buffer_
    offset,    \* FrameDecoder::offset_
    ready,     \* the frames of ready_ that receive has not yet returned
    got,       \* the frames receive returned
    outcome,   \* what the last receive returned
    expired,   \* the deadline of the receive in progress has passed
    cancelled  \* interrupted_ of the receiving socket

sender == <<sizes, writing, begun, closed>>
decoder == <<buffer, offset, ready>>
vars == <<sizes, writing, wire, closed, begun, damaged,
          rpc, buffer, offset, ready, got, outcome, expired, cancelled>>

\* What receive reports.  "rejected" stands for every error of feed.
Outcomes == {"none", "frame", "timeout", "closed", "truncated", "rejected"}

\* check, wait: readSome before its cancellation check, and in select and
\* recv; decode: the loop of feed; over: an error other than a timeout.
ReceiverStates == {"idle", "check", "wait", "decode", "over"}

Ceiling == HeaderBytes + ReceiveMax

\* A byte the network altered is a byte of no frame.
Damaged == <<0, 0>>
FrameBytes == (1 .. MaxFrames) \X (1 .. HeaderBytes + SendMax)
StreamBytes == FrameBytes \cup {Damaged}

Init ==
    /\ sizes = <<>> /\ writing = <<>> /\ begun = <<>> /\ closed = FALSE
    /\ wire = <<>> /\ damaged = 0
    /\ rpc = "idle" /\ outcome = "none" /\ got = <<>>
    /\ buffer = <<>> /\ offset = 0 /\ ready = <<>>
    /\ expired = FALSE /\ cancelled = FALSE

-----------------------------------------------------------------------------
(* FramedConnection::send: encodeFrame, then Socket::writeAll.             *)

\* Mutant: the size is not checked.
SendUnchecked(n) ==
    /\ ~closed /\ writing = <<>> /\ Len(sizes) < MaxFrames
    /\ sizes' = Append(sizes, n)
    /\ writing' = [i \in 1 .. HeaderBytes + n |-> <<Len(sizes) + 1, i>>]
    /\ UNCHANGED <<wire, closed, begun, damaged, rpc, decoder, got, outcome,
                   expired, cancelled>>

\* encodeFrame refuses a payload larger than its own side's maximum.
Send(n) ==
    /\ ~closed /\ writing = <<>> /\ Len(sizes) < MaxFrames
    /\ n <= SendMax
    /\ sizes' = Append(sizes, n)
    /\ writing' = [i \in 1 .. HeaderBytes + n |-> <<Len(sizes) + 1, i>>]
    /\ UNCHANGED <<wire, closed, begun, damaged, rpc, decoder, got, outcome,
                   expired, cancelled>>

\* One ::send: the kernel takes the next n bytes, as many as it has room for.
Write(n) ==
    /\ n \in 1 .. Len(writing)
    /\ Len(wire) + n <= WireBytes
    /\ wire' = wire \o SubSeq(writing, 1, n)
    /\ writing' = SubSeq(writing, n + 1, Len(writing))
    /\ begun' = IF writing[1][2] = 1 THEN Append(begun, writing[1][1]) ELSE begun
    /\ UNCHANGED <<sizes, closed, damaged, rpc, decoder, got, outcome,
                   expired, cancelled>>

\* writeAll gives up: its deadline passed, it was cancelled or ::send failed.
\* What was written stays in the stream.
WriteFails ==
    /\ writing # <<>>
    /\ writing' = <<>>
    /\ UNCHANGED <<sizes, wire, closed, begun, damaged, rpc, decoder, got,
                   outcome, expired, cancelled>>

\* Socket::close.
Close ==
    /\ ~closed /\ writing = <<>>
    /\ closed' = TRUE
    /\ UNCHANGED <<sizes, writing, wire, begun, damaged, rpc, decoder, got,
                   outcome, expired, cancelled>>

\* The network alters a byte in flight.
Damage(i) ==
    /\ damaged < MaxDamage
    /\ wire[i] # Damaged
    /\ wire' = [wire EXCEPT ![i] = Damaged]
    /\ damaged' = damaged + 1
    /\ UNCHANGED <<sender, rpc, decoder, got, outcome, expired, cancelled>>

-----------------------------------------------------------------------------
(* FramedConnection::receive and Socket::readSome.                         *)

\* receive returns with an error and keeps everything it buffered.
Return(result) ==
    /\ outcome' = result
    /\ rpc' = IF result \in {"frame", "timeout"} THEN "idle" ELSE "over"

\* A frame decoded earlier is returned without reading.
ReceiveReady ==
    /\ rpc = "idle" /\ ready # <<>>
    /\ got' = Append(got, Head(ready))
    /\ ready' = Tail(ready)
    /\ Return("frame")
    /\ UNCHANGED <<sender, wire, damaged, buffer, offset, expired, cancelled>>

\* Otherwise receive starts to read, with a deadline of its own.
Receive ==
    /\ rpc = "idle" /\ ready = <<>>
    /\ rpc' = "check"
    /\ expired' = FALSE
    /\ UNCHANGED <<sender, wire, damaged, decoder, got, outcome, cancelled>>

\* Mutant: a partial frame at the end is not reported.
FinishQuietly == "closed"

\* decoder_.finish: a close that leaves buffered bytes is a truncated stream.
Finish == IF offset < Len(buffer) THEN "truncated" ELSE "closed"

\* readSome's loop begins with the cancellation flag.
CheckCancelled ==
    /\ rpc = "check"
    /\ IF cancelled
       THEN Return(Finish)
       ELSE rpc' = "wait" /\ UNCHANGED outcome
    /\ UNCHANGED <<sender, wire, damaged, decoder, got, expired, cancelled>>

\* Mutant: the flag is not looked at again.
SliceUnpolled ==
    IF expired THEN Return("timeout") ELSE rpc' = "wait" /\ UNCHANGED outcome

\* select reports no data for one poll slice: the deadline passed, or the
\* loop goes round again.  waitFor reports a passed deadline without asking
\* select, so readable data do not keep a receive going past its deadline.
Slice ==
    IF expired THEN Return("timeout") ELSE rpc' = "check" /\ UNCHANGED outcome

WaitSlice ==
    /\ rpc = "wait"
    /\ expired \/ wire = <<>>
    /\ Slice
    /\ UNCHANGED <<sender, wire, damaged, decoder, got, expired, cancelled>>

\* recv returns 0: the peer closed and everything was read, or interrupt()
\* shut the socket down.
EndOfStream ==
    /\ rpc = "wait" /\ wire = <<>>
    /\ closed \/ cancelled
    /\ Return(Finish)
    /\ UNCHANGED <<sender, wire, damaged, decoder, got, expired, cancelled>>

\* Mutant: consumed bytes stay.
CompactNever == 0

\* The compaction at the head of feed.
Consumed == IF offset > 0 /\ (offset = Len(buffer) \/ offset > Len(buffer) \div 2)
            THEN offset ELSE 0

\* recv returns the next n bytes, as many as the stream happens to hold, and
\* feed appends them.
Read(n) ==
    /\ rpc = "wait"
    /\ n \in 1 .. Len(wire) /\ n <= ReadBytes
    /\ buffer' = SubSeq(buffer, Consumed + 1, Len(buffer)) \o SubSeq(wire, 1, n)
    /\ offset' = offset - Consumed
    /\ wire' = SubSeq(wire, n + 1, Len(wire))
    /\ rpc' = "decode"
    /\ UNCHANGED <<sender, damaged, ready, got, outcome, expired, cancelled>>

-----------------------------------------------------------------------------
(* FrameDecoder::feed, one action for each way through its loop.           *)

Available == Len(buffer) - offset
Current == buffer[offset + 1][1]  \* the frame the next byte belongs to

\* decodeFrameHeader accepts the next bytes: magic, checksum, version, type
\* and flags are those of one header, and its length is within the maximum.
HeaderAccepted ==
    /\ Current \in 1 .. Len(sizes)
    /\ \A i \in 1 .. HeaderBytes : buffer[offset + i] = <<Current, i>>
    /\ sizes[Current] <= ReceiveMax

Total == HeaderBytes + sizes[Current]

\* The payload's checksum matches.
PayloadAccepted ==
    \A i \in HeaderBytes + 1 .. Total : buffer[offset + i] = <<Current, i>>

NeedsMore ==
    IF Available < HeaderBytes THEN TRUE ELSE HeaderAccepted /\ Available < Total
Refused == IF HeaderAccepted THEN Available >= Total /\ ~PayloadAccepted ELSE TRUE

\* A header that decodes, and a payload that has not all arrived, or not even
\* a header: the loop ends.  receive returns the first frame it has, or reads
\* on; feed fails if more than one maximum frame stays buffered.
FeedDone ==
    /\ rpc = "decode"
    /\ NeedsMore
    /\ IF Available > Ceiling
       THEN Return("rejected") /\ UNCHANGED <<got, ready>>
       ELSE IF ready = <<>>
       THEN rpc' = "check" /\ UNCHANGED <<got, ready, outcome>>
       ELSE /\ got' = Append(got, Head(ready))
            /\ ready' = Tail(ready)
            /\ Return("frame")
    /\ UNCHANGED <<sender, wire, damaged, buffer, offset, expired, cancelled>>

FeedFrame ==
    /\ rpc = "decode"
    /\ Available >= HeaderBytes
    /\ HeaderAccepted /\ Available >= Total /\ PayloadAccepted
    /\ ready' = Append(ready, Current)
    /\ offset' = offset + Total
    /\ UNCHANGED <<sender, wire, damaged, rpc, buffer, got, outcome, expired,
                   cancelled>>

\* Mutant: the decoder looks for the next header.
FeedResynchronises ==
    /\ rpc = "decode"
    /\ Available >= HeaderBytes
    /\ Refused
    /\ offset' = offset + 1
    /\ UNCHANGED <<sender, wire, damaged, rpc, buffer, ready, got, outcome,
                   expired, cancelled>>

\* The header or the payload is refused; receive returns the error, and the
\* frames decoded before it are not returned.
FeedFails ==
    /\ rpc = "decode"
    /\ Available >= HeaderBytes
    /\ Refused
    /\ Return("rejected")
    /\ UNCHANGED <<sender, wire, damaged, decoder, got, expired, cancelled>>

-----------------------------------------------------------------------------
(* The clock, and FramedConnection::interrupt from another thread.         *)

Elapse ==
    /\ rpc \in {"check", "wait"} /\ ~expired
    /\ expired' = TRUE
    /\ UNCHANGED <<sender, wire, damaged, rpc, decoder, got, outcome, cancelled>>

Interrupt ==
    /\ ~cancelled
    /\ cancelled' = TRUE
    /\ UNCHANGED <<sender, wire, damaged, rpc, decoder, got, outcome, expired>>

Reader ==
    \/ ReceiveReady \/ Receive \/ CheckCancelled \/ WaitSlice \/ EndOfStream
    \/ \E n \in 1 .. ReadBytes : Read(n)
    \/ FeedDone \/ FeedFrame \/ FeedFails

Next ==
    \/ \E n \in 0 .. SendMax + 1 : Send(n)
    \/ \E n \in 1 .. HeaderBytes + SendMax : Write(n)
    \/ WriteFails \/ Close
    \/ \E i \in 1 .. Len(wire) : Damage(i)
    \/ Reader \/ Elapse \/ Interrupt

Spec == Init /\ [][Next]_vars

\* A thread inside receive goes on: the code between its blocking calls takes
\* its next step, and a blocked select ends with its slice of the deadline.
\* shutdown() waking a blocked select is not assumed (Socket::interrupt says
\* that not every platform does it), and neither is that the peer writes or
\* closes, nor that the caller's deadline passes.
Fairness ==
    /\ WF_vars(CheckCancelled) /\ WF_vars(WaitSlice)
    /\ WF_vars(FeedDone \/ FeedFrame \/ FeedFails)
    /\ WF_vars(\E n \in 1 .. ReadBytes : Read(n))

FairSpec == Spec /\ Fairness

-----------------------------------------------------------------------------
(* Properties.                                                             *)

\* The types of the state, with the limits the bounds of the model put on it.
TypeOK ==
    /\ sizes \in Seq(0 .. SendMax) /\ Len(sizes) <= MaxFrames
    /\ writing \in Seq(FrameBytes) /\ wire \in Seq(StreamBytes)
    /\ begun \in Seq(1 .. MaxFrames) /\ closed \in BOOLEAN
    /\ damaged \in 0 .. MaxDamage
    /\ rpc \in ReceiverStates /\ outcome \in Outcomes
    /\ buffer \in Seq(StreamBytes) /\ offset \in 0 .. Len(buffer)
    /\ ready \in Seq(1 .. MaxFrames) /\ got \in Seq(1 .. MaxFrames)
    /\ expired \in BOOLEAN /\ cancelled \in BOOLEAN

\* What receive has returned or holds ready is a prefix, without a gap, of the
\* frames that reached the stream: a partial write, the frame sent after it, a
\* timeout in the middle of a frame and damaged bytes never make the decoder
\* take one frame for another, skip one or return one twice.
ReceivedInOrder == IsPrefix(got \o ready, begun)

\* The decoder holds less than two maximum frames and one read, however many
\* frames the connection carried: feed's compaction keeps a long-lived
\* connection from accumulating consumed bytes.
BufferBounded == Len(buffer) <= 2 * (Ceiling - 1) + ReadBytes

\* A stream the peer ended is reported as a clean close only if every frame
\* that began to arrive was returned: a truncated frame at end of stream is
\* never silently dropped.
CleanCloseIsComplete ==
    outcome = "closed" /\ ~cancelled => got = begun

\* A receive that is cancelled returns: the flag is seen at the next poll
\* slice, whatever the peer does and whether or not shutdown wakes the select.
CancelledReceiveReturns ==
    cancelled /\ rpc \in {"check", "wait", "decode"}
        ~> rpc \in {"idle", "over"}
=============================================================================
