------------------------------ MODULE PublishOps ------------------------------
(***************************************************************************)
(* publish_at of the core, on the record of SessionOps: what a request     *)
(* must satisfy, what the channel's authority makes of it, and the commit: *)
(* journal, sequences, state, fan-out, and the disconnection of the        *)
(* recipients whose critical capacity is exhausted.                        *)
(*                                                                         *)
(* A message is a record with scope = <<space, epoch>>, space, epoch,      *)
(* entity, channel, component (of its coalesce key; 0 for none), class,    *)
(* key, sequence and size.  A channel fixes class and persistence.         *)
(***************************************************************************)
EXTENDS SessionOps

CONSTANTS Channels,                            \* registered channels, and those
          CriticalChannels, LatestChannels,    \* with a reliable or replaceable delivery
          StatefulChannels, DurableChannels,   \* with a persistence class
          RelayChannels,                       \* under RelayOwned authority
          MaxPayload, MaxStateEntries, MaxStateBytes, MaxSequenceKeys,
          MaxEmissions, JournalCapacity

ASSUME ChannelAssumption ==
    /\ CriticalChannels \cap LatestChannels = {}
    /\ StatefulChannels \cap DurableChannels = {}
    /\ \A limit \in {MaxPayload, MaxStateEntries, MaxStateBytes, MaxSequenceKeys,
                     MaxEmissions} : limit \in Nat \ {0}
    /\ JournalCapacity \in Nat

ClassOf(channel) ==
    CASE channel \in CriticalChannels -> "critical"
      [] channel \in LatestChannels   -> "latest"
      [] OTHER                        -> "best_effort"

Message(x, epoch, entity, channel, component, sequence, size) ==
    [scope |-> <<x, epoch>>, space |-> x, epoch |-> epoch, entity |-> entity,
     channel |-> channel, component |-> component, class |-> ClassOf(channel),
     key |-> IF component = 0 THEN NoKey ELSE <<channel, entity, component>>,
     sequence |-> sequence, size |-> size]

SequenceKey(c, m) ==
    [connection |-> c, space |-> m.space, epoch |-> m.epoch, entity |-> m.entity,
     channel |-> m.channel, component |-> m.component]

StateKey(m) ==
    [space |-> m.space, epoch |-> m.epoch, entity |-> m.entity,
     channel |-> m.channel, component |-> m.component]

-----------------------------------------------------------------------------
(* validate_message, apart from what it compares with planned sequences.   *)
InScope(w, m) ==
    /\ m.space \in DOMAIN w.spaces /\ m.epoch = w.spaces[m.space].epoch
    /\ m.entity # NoEntity =>
          /\ m.entity \in DOMAIN w.entities
          /\ w.entities[m.entity].space = m.space
          /\ w.entities[m.entity].epoch = m.epoch

Fresh(w, c, m) ==
    SequenceKey(c, m) \in DOMAIN w.sequences
        => m.sequence > w.sequences[SequenceKey(c, m)]

ValidMessage(w, c, m) ==
    /\ m.size <= MaxPayload
    /\ m.class = "latest" => m.key # NoKey
    /\ InScope(w, m)
    /\ Fresh(w, c, m)

(* The messages of s are in sequence, each ahead of the earlier ones that  *)
(* share its key.                                                          *)
InSequence(c, s) ==
    \A i, j \in DOMAIN s :
        i < j /\ SequenceKey(c, s[i]) = SequenceKey(c, s[j])
            => s[i].sequence < s[j].sequence

(* What a policy answers to a request it does not reject: accept it, give  *)
(* it another key and payload, or emit other messages in its place.        *)
Accept          == [kind |-> "accept", messages |-> <<>>]
Transform(m)    == [kind |-> "transform", messages |-> <<m>>]
Emit(emissions) == [kind |-> "emit", messages |-> emissions]

(* The messages to commit, and those whose sequences are used up: only     *)
(* emissions use the sequence of the request next to their own.            *)
Committed(request, verdict) ==
    IF verdict = Accept THEN <<request>> ELSE verdict.messages

(* Mutant of Sequenced: emissions leave their own sequences unused.        *)
RequestSequenced(request, verdict) == <<request>>

Sequenced(request, verdict) ==
    IF verdict.kind = "emit" THEN <<request>> \o verdict.messages
    ELSE Committed(request, verdict)

(* RelayOwned accepts the owner's own messages and emits nothing.          *)
Authorizes(w, c, request, verdict) ==
    request.channel \in RelayChannels =>
        verdict = Accept /\ request.entity \in OwnedBy(w, c)

(* Whatever is committed is validated like the request, and after it.      *)
MayPublish(w, c, request, verdict) ==
    /\ MayWrite(w, c, request.space)
    /\ ValidMessage(w, c, request)
    /\ Authorizes(w, c, request, verdict)
    /\ verdict.kind = "emit" => Len(verdict.messages) <= MaxEmissions
    /\ \A i \in DOMAIN verdict.messages : ValidMessage(w, c, verdict.messages[i])
    /\ InSequence(c, Sequenced(request, verdict))

-----------------------------------------------------------------------------
(* Sequences after the messages of s, each key at its last one.            *)
LastSequences(w, c, s) ==
    LET keys    == {SequenceKey(c, s[i]) : i \in DOMAIN s}
        last(k) == Max({s[i].sequence : i \in {j \in DOMAIN s : SequenceKey(c, s[j]) = k}})
    IN  [k \in DOMAIN w.sequences \cup keys |->
            IF k \in keys THEN last(k) ELSE w.sequences[k]]

(* One stateful message put into the state and its running byte count; and *)
(* its mutant, where what a new value replaces is not counted off.         *)
StoreWithoutCredit(acc, m) ==
    IF m.channel \notin StatefulChannels THEN acc
    ELSE [state |-> Insert(acc.state, StateKey(m), [sequence |-> m.sequence, size |-> m.size]),
          bytes |-> acc.bytes + m.size]

Store(acc, m) ==
    IF m.channel \notin StatefulChannels THEN acc
    ELSE LET k     == StateKey(m)
             freed == IF k \in DOMAIN acc.state THEN acc.state[k].size ELSE 0
         IN  [state |-> Insert(acc.state, k, [sequence |-> m.sequence, size |-> m.size]),
              bytes |-> acc.bytes - freed + m.size]

(* The state and its byte count after the messages of s: what              *)
(* validate_state_capacity projects and the commit then does.              *)
Stored(w, s) ==
    LET after[n \in 0..Len(s)] ==
            IF n = 0 THEN [state |-> w.state, bytes |-> w.state_bytes]
            ELSE Store(after[n - 1], s[n])
    IN  after[Len(s)]

Durable(s) == Retained(s, {m \in Range(s) : m.channel \in DurableChannels})

FitsCapacities(w, c, request, verdict) ==
    LET sequences == LastSequences(w, c, Sequenced(request, verdict))
        stored    == Stored(w, Committed(request, verdict))
        durable   == Durable(Committed(request, verdict))
    IN  /\ Cardinality(DOMAIN sequences) <= MaxSequenceKeys
        /\ Cardinality(DOMAIN stored.state) <= MaxStateEntries
        /\ stored.bytes <= MaxStateBytes
        /\ Len(w.journal) + Len(durable) <= JournalCapacity

(* routing_recipients, then can_receive.                                   *)
Recipients(w, m) ==
    IF m.space \in DOMAIN w.spaces
    THEN w.subscribers[m.space] \cap w.authed \cap Listeners
    ELSE {}

(* A recipient's queue takes the messages in turn until one is refused.    *)
Take(acc, m) ==
    IF acc.lost THEN acc
    ELSE [queue |-> Push(acc.queue, m), lost |-> CriticalRefused(acc.queue, m)]

Deliver(q, s) ==
    LET after[n \in 0..Len(s)] ==
            IF n = 0 THEN [queue |-> q, lost |-> FALSE] ELSE Take(after[n - 1], s[n])
    IN  after[Len(s)]

FanOut(w, s) ==
    LET To(c)    == Retained(s, {m \in Range(s) : c \in Recipients(w, m)})
        given    == [c \in DOMAIN w.queue |-> Deliver(w.queue[c], To(c))]
        slow     == {c \in DOMAIN w.queue : given[c].lost}
        pushed   == [w EXCEPT !.queue = [c \in DOMAIN w.queue |-> given[c].queue]]
    IN  Disconnect(pushed, slow)

CanPublish(w, c, request, verdict) ==
    MayPublish(w, c, request, verdict) /\ FitsCapacities(w, c, request, verdict)

Publish(w, c, request, verdict) ==
    LET messages == Committed(request, verdict)
        stored   == Stored(w, messages)
    IN  FanOut([w EXCEPT
                   !.journal     = @ \o Durable(messages),
                   !.sequences   = LastSequences(w, c, Sequenced(request, verdict)),
                   !.state       = stored.state,
                   !.state_bytes = stored.bytes],
               messages)
=============================================================================
