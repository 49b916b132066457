------------------------------- MODULE Framing -------------------------------
(***************************************************************************)
(* One control stream, from the bytes that arrive to the envelopes that    *)
(* come out, as each of the four Rust readers and the browser client take  *)
(* it.                                                                     *)
(*                                                                         *)
(* The Rust readers await a size prefix and then the rest of the frame,    *)
(* and keep what they have inside the future.  A server drops that future  *)
(* when another arm of its select runs, recv_timeout when its time is up,  *)
(* and read_exact does not give back what it took.  The browser client     *)
(* keeps its bytes in a field and its abandoned call goes on reading.      *)
(*                                                                         *)
(* A frame is its length in bytes, prefix included; frames are numbered.   *)
(* Bytes that start elsewhere than at a frame are never taken for one:     *)
(* they fail the size, identifier or verifier checks, or wait for more.    *)
(***************************************************************************)
EXTENDS Integers, Sequences, SequencesExt

CONSTANTS
    Lengths,      \* of the frames the peer sends, each longer than PrefixSize
    PrefixSize,   \* bytes of the size prefix, at least one
    Readers       \* those of the five implementations that are explored

VARIABLES
    reader,     \* which of the implementations reads
    sent,       \* frames whose bytes the peer wrote
    arrived,    \* bytes the stream can yield
    consumed,   \* bytes taken from the stream
    held,       \* the last of those not yet part of an envelope or lost
    call,       \* the browser's recv: none, waiting, or abandoned by its caller
    pending,    \* the browser's decoded envelopes
    received,   \* what came out, in order
    swallowed,  \* history: envelopes returned to an abandoned call
    lost,       \* history: a future was dropped with bytes in it
    failed      \* the reader reported a malformed frame and gave up

wire == <<sent, arrived>>
promise == <<call, pending, swallowed>>
vars == <<reader, wire, consumed, held, promise, received, lost, failed>>

EndOf(k) == FoldLeft(+, 0, SubSeq(Lengths, 1, k))
Available == arrived - consumed
Min2(a, b) == IF a <= b THEN a ELSE b

(* The frame that starts where the held bytes start, 0 if none does.       *)
StartsAt(offset) == {k \in DOMAIN Lengths : EndOf(k - 1) = offset}
Current == StartsAt(consumed - held)

-----------------------------------------------------------------------------
(* The size prefix tells the length of what follows it.                    *)
FrameLength(k) == Lengths[k]

(* What read_exact still wants: the prefix, then the rest of the frame; a  *)
(* prefix that is none may ask for anything.                               *)
Wanted ==
    IF held < PrefixSize THEN PrefixSize - held
    ELSE IF Current # {} THEN FrameLength(CHOOSE k \in Current : TRUE) - held
    ELSE Available

Fill(n) ==
    /\ ~failed /\ n \in 1 .. Min2(Available, Wanted)
    /\ consumed' = consumed + n /\ held' = held + n
    /\ UNCHANGED <<reader, wire, promise, received, lost, failed>>

FinishFrame ==
    /\ ~failed
    /\ \E k \in Current :
         /\ held >= PrefixSize /\ held = FrameLength(k)
         /\ received' = Append(received, k)
    /\ held' = 0
    /\ UNCHANGED <<reader, wire, consumed, promise, lost, failed>>

MisreadFrame ==
    /\ ~failed /\ held >= PrefixSize /\ Current = {}
    /\ failed' = TRUE
    /\ UNCHANGED <<reader, wire, consumed, held, promise, received, lost>>

ReadStep == (\E n \in 1 .. arrived : Fill(n)) \/ FinishFrame \/ MisreadFrame

ReadEnvelopeQuic == reader = "quic server" /\ ReadStep
ReadEnvelopeWebTransport == reader = "webtransport server" /\ ReadStep
ReadQuinnEnvelope == reader = "quic client" /\ ReadStep
ReadWtransportEnvelope == reader = "webtransport client" /\ ReadStep

(* The future of the reader is dropped, and starts anew.                   *)
DropFuture ==
    /\ ~failed
    /\ held' = 0 /\ lost' = (lost \/ held > 0)
    /\ UNCHANGED <<reader, wire, consumed, promise, received, failed>>

(* A datagram wins the select of the connection task.                      *)
DatagramWinsQuic == reader = "quic server" /\ held > 0 /\ DropFuture
DatagramWinsWebTransport == reader = "webtransport server" /\ held > 0 /\ DropFuture

(* recv_timeout of the Rust client.                                        *)
RecvTimeout == reader \in {"quic client", "webtransport client"} /\ held > 0 /\ DropFuture

-----------------------------------------------------------------------------
(* The browser client.  A reader of the stream is locked by the call that  *)
(* waits for a chunk, so another call meanwhile is refused by getReader.   *)
Recv ==
    /\ reader = "browser" /\ call = "none"
    /\ IF pending # <<>>
       THEN /\ received' = Append(received, Head(pending)) /\ pending' = Tail(pending)
            /\ UNCHANGED call
       ELSE call' = "waiting" /\ UNCHANGED <<received, pending>>
    /\ UNCHANGED <<reader, wire, consumed, held, swallowed, lost, failed>>

(* The frames that are complete once n more bytes are in the buffer.       *)
Decoded(n) ==
    SelectSeq([k \in DOMAIN Lengths |-> k],
              LAMBDA k : /\ EndOf(k - 1) >= consumed - held
                         /\ EndOf(k - 1) + FrameLength(k) <= consumed + n)

TakeFirst(queue) == [first |-> Head(queue), rest |-> Tail(queue)]

(* A chunk: everything complete is decoded, and the call returns the first *)
(* envelope to its caller, if it still has one.                            *)
ReadChunk(n) ==
    LET decoded == Decoded(n)
        taken == TakeFirst(pending \o decoded)
        bytes == FoldLeft(LAMBDA a, k : a + FrameLength(k), 0, decoded) IN
    /\ reader = "browser" /\ call # "none" /\ n \in 1 .. Available
    /\ consumed' = consumed + n /\ held' = held + n - bytes
    /\ IF pending \o decoded = <<>>
       THEN UNCHANGED <<promise, received>>
       ELSE /\ pending' = taken.rest
            /\ call' = "none"
            /\ IF call = "waiting"
               THEN received' = Append(received, taken.first) /\ UNCHANGED swallowed
               ELSE swallowed' = swallowed \cup {taken.first} /\ UNCHANGED received
    /\ UNCHANGED <<reader, wire, lost, failed>>

RecvTimeoutBrowser ==
    /\ reader = "browser" /\ call = "waiting"
    /\ call' = "abandoned"
    /\ UNCHANGED <<reader, wire, consumed, held, pending, received, swallowed, lost, failed>>

-----------------------------------------------------------------------------
(* The peer and the network: whole frames are written, bytes arrive.       *)
SendFrame ==
    /\ sent < Len(Lengths) /\ sent' = sent + 1
    /\ UNCHANGED <<reader, arrived, consumed, held, promise, received, lost, failed>>

Arrive ==
    /\ \E n \in 1 .. EndOf(sent) - arrived : arrived' = arrived + n
    /\ UNCHANGED <<reader, sent, consumed, held, promise, received, lost, failed>>

Init ==
    /\ reader \in Readers
    /\ sent = 0 /\ arrived = 0 /\ consumed = 0 /\ held = 0
    /\ call = "none" /\ pending = <<>> /\ received = <<>>
    /\ swallowed = {} /\ lost = FALSE /\ failed = FALSE

Next ==
    \/ SendFrame \/ Arrive
    \/ ReadEnvelopeQuic \/ ReadEnvelopeWebTransport
    \/ ReadQuinnEnvelope \/ ReadWtransportEnvelope
    \/ DatagramWinsQuic \/ DatagramWinsWebTransport \/ RecvTimeout
    \/ Recv \/ (\E n \in 1 .. arrived : ReadChunk(n)) \/ RecvTimeoutBrowser

Spec == Init /\ [][Next]_vars

-----------------------------------------------------------------------------
(* However the bytes of a stream are cut on their way, a reader that never *)
(* lost a future or a call has handed over, or holds decoded, exactly the  *)
(* frames it took from the stream, and never calls one malformed.          *)
Accounted ==
    LET done == Len(received) + Len(pending) IN
    ~lost /\ swallowed = {} =>
        /\ ~failed
        /\ received \o pending = [k \in 1 .. done |-> k]
        /\ EndOf(done) = consumed - held

(* Whatever was dropped, envelopes come out in the order they were sent,   *)
(* none twice, and none both to a caller and to an abandoned call.         *)
InOrder ==
    LET out == received \o pending IN
    /\ \A i, j \in DOMAIN out : i < j => out[i] < out[j]
    /\ swallowed \cap {out[i] : i \in DOMAIN out} = {}

(* docs/adr/0002-quic-webtransport-over-raw-udp.md has control messages, *)
(* events and snapshots require reliability: whole frames come out whole.   *)
(* Dropped futures and abandoned calls break it (see the README).          *)
Reliable == ~failed /\ \A i \in DOMAIN received : received[i] = i
=============================================================================
