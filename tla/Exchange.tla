------------------------------ MODULE Exchange ------------------------------
(***************************************************************************)
(* One connection's conversation: frames up, the handshake, what the       *)
(* server makes of each envelope, and the frames and datagrams it sends    *)
(* down, until the connection task has ended and its writer is done.       *)
(*                                                                         *)
(* The Rust client validates what it sends, the TypeScript client encodes  *)
(* whatever it is given.  The core accepts a command or refuses it with    *)
(* any error; what it does is modelled by SessionCore.  The connection     *)
(* stands for every one that is told something: a publication or an        *)
(* answer of the coordinator may be somebody else's.  Four tasks write to  *)
(* its channel: its own reader, the worker's fan-out, the drain task and   *)
(* the coordinator.  Room in the channel is the subject of Lifecycle.      *)
(***************************************************************************)
EXTENDS EnvelopeBuilders, FiniteSets

CONSTANTS
    Limit,              \* payload bytes a codec takes
    ClientEnvelopes,    \* what the clients try to send
    MaxRequests,        \* bound on them
    SnapshotSizes,      \* sizes of the core's snapshots
    PolicyMessages,     \* what channel policies emit, or make of a publication
    Places,             \* where the entities of others come and go
    ProviderReplies,    \* what comes back for an inference: kind, numbers, text, data
    MaxNotices,         \* bound on what others have for the connection
    WithCoordinator     \* is an inference sink configured

IsPlace(place) ==
    /\ place.namespace \in Nat \ {0} /\ place.session \in Nat \ {0}
    /\ place.space \in Nat \ {0} /\ place.epoch \in Nat \ {0}

(* What the core lets a message be, whatever the policy of its channel.    *)
IsMessage(m) ==
    /\ IsPlace(m) /\ m.channel \in Nat \ {0} /\ m.sequence \in Nat /\ m.size \in Nat
    /\ m.entity \in Optional /\ NotSomeZero(m.entity)
    /\ m.component \in Optional /\ m.delivery \in Classes
    /\ IsReplaceable(m.delivery) => m.component # None

ASSUME ExchangeAssumption ==
    /\ Limit \in Nat /\ Limit >= 2 /\ {MaxRequests, MaxNotices} \subseteq Nat
    /\ \A e \in ClientEnvelopes : IsEnvelope(e)
    /\ SnapshotSizes \subseteq Nat /\ \A p \in Places : IsPlace(p)
    /\ \A m \in PolicyMessages : IsMessage(m)
    /\ \A r \in ProviderReplies :
         /\ r.kind \in InferenceKinds
         /\ r.numbers \in [NumberFields(r.kind) -> Nat] /\ EnumsKnown(r.kind, r.numbers)
         /\ r.text \in (IF r.kind \in WithText THEN Nat ELSE {0})
         /\ r.data \in (IF r.kind \in WithData THEN Nat ELSE {0})
    /\ WithCoordinator \in BOOLEAN

VARIABLES
    client,     \* which library the client uses
    requests,   \* how many it sent
    uplink,     \* frames on their way to the server
    stage,      \* of the connection task
    unrouted,   \* requests the coordinator has
    notices,    \* how much others had for the connection
    outbound,   \* messages the core queued for it
    batch,      \* those the drain task took from there
    writer,     \* envelopes for the writer task
    downlink,   \* frames it wrote, with
    answers,    \* history: the envelopes they stand for
    datagrams,  \* frames that went as datagrams, with what they stand for
    over        \* the envelope the writer gave up over, if it did

told == <<downlink, answers, datagrams, over>>
vars == <<client, requests, uplink, stage, unrouted, notices, outbound, batch, writer, told>>

Principal == 1
EntityOf(e) == e.space + 1
PlaceOf(e) == [namespace |-> e.namespace, session |-> e.session,
               space |-> e.space, epoch |-> e.epoch]
Destination(e) == [PlaceOf(e) EXCEPT !.space = e.numbers.to, !.epoch = e.numbers.epoch]
EnvelopesFor(ms) == [i \in 1 .. Len(ms) |-> OutboundEnvelope(ms[i])]

(* The connection task serves frames, or it left its loop and, once the    *)
(* core knows the connection, has still to disconnect it.                  *)
Reading == {"connected", "greeted", "authenticated"}
Known == {"authenticated", "ending"}
Ending == IF stage = "authenticated" THEN "ending" ELSE "closed"

-----------------------------------------------------------------------------
Send(e) ==
    /\ requests < MaxRequests /\ requests' = requests + 1
    /\ client = "rust" => Encodable(e, Limit)
    /\ uplink' = Append(uplink, Encode(e))
    /\ UNCHANGED <<client, stage, unrouted, notices, outbound, batch, writer, told>>

(* What the reader has for the writer, and how the connection goes on.     *)
Outcome(es, next) ==
    writer' = writer \o es /\ stage' = next /\ UNCHANGED outbound

(* After a request that was served everything the core queued goes to the  *)
(* writer, ms, what the request added, included.                           *)
Flush(es, ms) ==
    /\ writer' = writer \o es \o EnvelopesFor(outbound \o ms)
    /\ outbound' = <<>> /\ UNCHANGED stage

Fail(related, code) == Outcome(<<ErrorEnvelope(related, code, 1)>>, Ending)

HandleHelloStayingOpen(e) ==
    Outcome(<<IF e.kind = "Hello" THEN CapabilitiesEnvelope(2)
              ELSE ErrorEnvelope(KindNumber(e.kind), 3, 1)>>, "greeted")

HandleHello(e) ==
    IF e.kind = "Hello" THEN Outcome(<<CapabilitiesEnvelope(2)>>, "greeted")
    ELSE Fail(KindNumber(e.kind), 3)

HandleAuthenticate(e) ==
    IF e.kind = "Authenticate"
    THEN \/ Outcome(<<AuthenticatedEnvelope(Principal)>>, "authenticated")
         \/ \E code \in {4, 5} : Fail(KindNumber("Authenticate"), code)
    ELSE Fail(KindNumber(e.kind), 4)

CoreErrors == {4, 5, 7, 8, 9, 10, 11}

HandleSubscribe(e) ==
    Flush(<<SubscriptionAccepted(e), EntityEnteredEnvelope(PlaceOf(e), EntityOf(e))>>, <<>>)

(* The listing goes out whatever its size, and nothing is flushed.         *)
HandleSnapshot(e) ==
    \E size \in SnapshotSizes : Outcome(<<SnapshotReply(e, size)>>, stage)

Commands == {"JoinSession", "LeaveSession", "UnsubscribeSpace", "SpaceTransition"}
Publications == {"ReliableEvent", "EntityState"}

(* A transition is told to the subscribers of either space, of which the   *)
(* connection may be one.                                                  *)
HandleCommand(e) ==
    \/ Flush(<<>>, <<>>)
    \/ /\ e.kind = "SpaceTransition"
       /\ LET left == EntityLeftEnvelope(PlaceOf(e), OrZero(e.entity), 3)
              entered == EntityEnteredEnvelope(Destination(e), OrZero(e.entity)) IN
          \E es \in {<<left>>, <<entered>>, <<left, entered>>} : Flush(es, <<>>)

(* A publication goes to others alone, or also comes back: as it is from a *)
(* channel that relays, as anything the core accepts from one with a       *)
(* policy of its own.                                                      *)
HandlePublication(e) ==
    \/ Flush(<<>>, <<>>)
    \/ \E m \in {Published(e)} \cup PolicyMessages : Flush(<<>>, <<m>>)

Served == {"SubscribeSpace", "SnapshotRequest"} \cup Commands \cup Publications

HandleAuthenticated(e) ==
    IF WithCoordinator /\ e.kind \in {"InferenceRequested", "InferenceCancelled"}
    THEN Outcome(<<>>, stage)
    ELSE \/ e.kind \notin Served /\ Fail(KindNumber(e.kind), 3)
         \/ e.kind \in Served /\ \E code \in CoreErrors : Fail(KindNumber(e.kind), code)
         \/ e.kind = "SubscribeSpace" /\ HandleSubscribe(e)
         \/ e.kind = "SnapshotRequest" /\ HandleSnapshot(e)
         \/ e.kind \in Commands /\ HandleCommand(e)
         \/ e.kind \in Publications /\ HandlePublication(e)

ReadFrame ==
    /\ stage \in Reading /\ uplink # <<>>
    /\ uplink' = Tail(uplink)
    /\ LET e == Decode(Head(uplink)) IN
       IF ~Decodable(Head(uplink), Limit)
       THEN Fail(UnknownNumber, 1) /\ UNCHANGED unrouted
       ELSE /\ \/ stage = "connected" /\ HandleHello(e)
               \/ stage = "greeted" /\ HandleAuthenticate(e)
               \/ stage = "authenticated" /\ HandleAuthenticated(e)
            /\ unrouted' = IF stage = "authenticated" /\ WithCoordinator
                              /\ e.kind = "InferenceRequested"
                           THEN unrouted \cup {e} ELSE unrouted
    /\ UNCHANGED <<client, requests, notices, batch, told>>

(* The loop also ends on a stream that breaks off or one too many, and     *)
(* without a word when it is told to shut down or the peer is gone.        *)
EndLoop ==
    /\ stage \in Reading
    /\ \/ \E code \in {1, 3} : Fail(UnknownNumber, code)
       \/ Outcome(<<>>, Ending)
    /\ UNCHANGED <<client, requests, uplink, unrouted, notices, batch, told>>

(* The drain task is aborted, perhaps with a batch in hand, and from then  *)
(* on worker and coordinator do not know the connection.                   *)
Disconnect ==
    /\ stage = "ending" /\ stage' = "closed"
    /\ outbound' = <<>> /\ batch' \in {batch, <<>>}
    /\ UNCHANGED <<client, requests, uplink, unrouted, notices, writer, told>>

-----------------------------------------------------------------------------
(* What others have for the connection: publications and what policies     *)
(* emit, arrivals and departures, and inferences.                          *)
Notice ==
    /\ stage \in Known /\ notices < MaxNotices /\ notices' = notices + 1
    /\ UNCHANGED <<client, requests, uplink, stage, unrouted, batch, told>>

Relayed ==
    {Published(Decode(Encode(e))) :
        e \in {f \in ClientEnvelopes : f.kind \in Publications /\ Decodable(Encode(f), Limit)}}

CoreQueues ==
    /\ Notice
    /\ \E m \in Relayed \cup PolicyMessages : outbound' = Append(outbound, m)
    /\ UNCHANGED writer

Tell(e) == writer' = Append(writer, e) /\ UNCHANGED outbound

LifecycleTells ==
    /\ Notice
    /\ \E p \in Places :
         \/ Tell(EntityEnteredEnvelope(p, EntityOf(p)))
         \/ \E reason \in 2 .. 4 : Tell(EntityLeftEnvelope(p, EntityOf(p), reason))

(* The coordinator answers in its own time, and more than once.            *)
CoordinatorReplies ==
    /\ Notice
    /\ \E e \in unrouted, r \in ProviderReplies :
         Tell(ReplyEnvelope(e, EntityOf(e), r.kind, r.numbers, r.text, r.data))

-----------------------------------------------------------------------------
(* The drain task takes all the core has and deals with it message by      *)
(* message.  What is unreliable goes as a datagram, dropped if it cannot   *)
(* be encoded or does not fit, and by the network.                         *)
TakeOutbound ==
    /\ stage \in Known /\ batch = <<>> /\ outbound # <<>>
    /\ batch' = outbound /\ outbound' = <<>>
    /\ UNCHANGED <<client, requests, uplink, stage, unrouted, notices, writer, told>>

DrainNext ==
    /\ batch # <<>> /\ batch' = Tail(batch)
    /\ LET e == OutboundEnvelope(Head(batch)) IN
       IF IsUnreliable(e.class)
       THEN /\ \/ UNCHANGED datagrams
               \/ /\ Encodable(e, Limit)
                  /\ datagrams' = datagrams \cup {[frame |-> Encode(e), meant |-> e]}
            /\ UNCHANGED writer
       ELSE writer' = Append(writer, e) /\ UNCHANGED datagrams
    /\ UNCHANGED <<client, requests, uplink, stage, unrouted, notices, outbound,
                   downlink, answers, over>>

(* The writer encodes what it is given, and gives the connection up over   *)
(* an envelope it cannot encode.  What was queued before the end is sent.  *)
WriteNext ==
    /\ writer # <<>>
    /\ IF Encodable(Head(writer), Limit)
       THEN /\ downlink' = Append(downlink, Encode(Head(writer)))
            /\ answers' = Append(answers, Head(writer))
            /\ writer' = Tail(writer)
            /\ UNCHANGED <<stage, outbound, batch, over>>
       ELSE /\ over' = {Head(writer)} /\ stage' = "closed"
            /\ writer' = <<>> /\ outbound' = <<>> /\ batch' = <<>>
            /\ UNCHANGED <<downlink, answers>>
    /\ UNCHANGED <<client, requests, uplink, unrouted, notices, datagrams>>

Init ==
    /\ client \in {"rust", "typescript"}
    /\ requests = 0 /\ uplink = <<>> /\ stage = "connected" /\ unrouted = {}
    /\ notices = 0 /\ outbound = <<>> /\ batch = <<>> /\ writer = <<>>
    /\ downlink = <<>> /\ answers = <<>> /\ datagrams = {} /\ over = {}

Next ==
    \/ \E e \in ClientEnvelopes : Send(e)
    \/ ReadFrame \/ EndLoop \/ Disconnect
    \/ CoreQueues \/ LifecycleTells \/ CoordinatorReplies
    \/ TakeOutbound \/ DrainNext \/ WriteNext

Spec == Init /\ [][Next]_vars

-----------------------------------------------------------------------------
(* A message of the core that the wire has a form for.                     *)
Carried(m, limit) ==
    /\ m.size <= limit
    /\ m.delivery # "BestEffortEvent" /\ m.component # Some(0)
    /\ IsReplaceable(m.delivery) => m.entity # None

(* What the server hands to a writer without holding it to the rules of    *)
(* the wire: a listing of any size, what a policy made, a provider's word. *)
Unchecked(e) ==
    \/ e.kind = "Snapshot" /\ e.data > Limit
    \/ \E m \in PolicyMessages : ~Carried(m, Limit) /\ e = OutboundEnvelope(m)
    \/ e.kind \in InferenceKinds /\ (e.text + e.data > Limit \/ ~InferenceFits(e))

(* A writer never gives its connection up over what a client said, said    *)
(* back to it or passed through the core to another, or over an answer of  *)
(* the server's own, errors included: only over a listing that outgrew a   *)
(* payload, a policy's message the wire has no form for, or a reply of a   *)
(* provider that breaks the protocol.                                      *)
FailsOnlyUnchecked ==
    /\ \A i \in DOMAIN writer : Encodable(writer[i], Limit) \/ Unchecked(writer[i])
    /\ \A e \in over : Unchecked(e)

(* What senders assume of the writer, and the code does not ensure.        *)
WriterNeverFails == over = {}

(* What reaches a client decodes, by the rules of the same codec, to the   *)
(* envelope the server meant.                                              *)
AnswersArriveIntact ==
    /\ \A i \in DOMAIN downlink :
          Decodable(downlink[i], Limit) /\ Decode(downlink[i]) = answers[i]
    /\ \A d \in datagrams : Decodable(d.frame, Limit) /\ Decode(d.frame) = d.meant

(* What may still come after an error: what others had for the connection  *)
(* before the core forgot it.                                              *)
FromOthers == {"EntityEntered", "EntityLeft"} \cup Publications \cup InferenceKinds

(* A client is told nothing of the sessions before it is authenticated:    *)
(* capabilities come first, then who it is, or an error that ends it all.  *)
(* Once it is told of an error no further request of its is answered.      *)
HandshakeFirst ==
    LET all == answers \o writer IN
    /\ \A i \in DOMAIN all :
         /\ i = 1 => all[i].kind \in {"Capabilities", "ProtocolError"}
         /\ i = 2 => all[i].kind \in {"Authenticated", "ProtocolError"}
         /\ all[i].kind = "ProtocolError" =>
              IF i <= 2 THEN Len(all) = i
              ELSE \A j \in i + 1 .. Len(all) : all[j].kind \in FromOthers
    /\ datagrams # {} => Len(all) >= 2 /\ all[2].kind = "Authenticated"
=============================================================================
