-------------------------- MODULE EnvelopeBuilders --------------------------
(***************************************************************************)
(* The envelopes the two clients build, and those the server answers with. *)
(* A place is a namespace, session, space and epoch.                       *)
(***************************************************************************)
EXTENDS Envelopes

NoNumbers == [f \in {} |-> 0]
NoOptions == [f \in {} |-> None]

(* Envelope::new and Envelope::control: no scope at all.                   *)
Control(kind, class, numbers, options, text, data) ==
    [version |-> Version, kind |-> kind, class |-> class,
     namespace |-> 0, session |-> 0, space |-> 0, channel |-> None, entity |-> None,
     epoch |-> 0, tick |-> 0, sequence |-> 0, correlation |-> None, type |-> 0,
     text |-> text, data |-> data, numbers |-> numbers, options |-> options]

At(place, e) ==
    [e EXCEPT !.namespace = place.namespace, !.session = place.session,
              !.space = place.space, !.epoch = place.epoch]

Reliable(kind, numbers, options, text, data) ==
    Control(kind, "ReliableOrdered", numbers, options, text, data)

-----------------------------------------------------------------------------
(* The clients.                                                            *)
Hello(frame, payload) ==
    Reliable("Hello", [min |-> 1, max |-> 1, frame |-> frame, payload |-> payload],
             NoOptions, 1, 1)

Authenticate(token) == Reliable("Authenticate", [scheme |-> 2], NoOptions, 0, token)

JoinSession(namespace, session) ==
    [Reliable("JoinSession", NoNumbers, NoOptions, 0, 0)
        EXCEPT !.namespace = namespace, !.session = session]

SubscribeSpace(place, channel) ==
    [At(place, Reliable("SubscribeSpace", NoNumbers, NoOptions, 0, 0))
        EXCEPT !.channel = channel]

RequestSnapshot(place, channel, after) ==
    [At(place, Reliable("SnapshotRequest", NoNumbers, [after |-> after], 0, 0))
        EXCEPT !.channel = channel]

TransitionEntity(place, to, entity) ==
    [At(place, Reliable("SpaceTransition",
                        [from |-> place.space, to |-> to.space, epoch |-> to.epoch],
                        NoOptions, 0, 0))
        EXCEPT !.entity = entity]

PublishEvent(place, channel, entity, sequence, type, size) ==
    [At(place, Reliable("ReliableEvent", NoNumbers, NoOptions, 0, size))
        EXCEPT !.channel = channel, !.entity = entity, !.sequence = sequence, !.type = type]

PublishState(place, channel, entity, sequence, type, size) ==
    [PublishEvent(place, channel, entity, sequence, type, size)
        EXCEPT !.kind = "EntityState", !.class = "LatestValue"]

RequestInference(place, entity, capability, input) ==
    [At(place, Reliable("InferenceRequested", NoNumbers, NoOptions, capability, input))
        EXCEPT !.entity = entity]

-----------------------------------------------------------------------------
(* The server.  A message kind that is not known is reported as an error   *)
(* about errors, because Unknown may not be sent.                          *)
UnknownNumber == 0

RelatedAsGiven(number) == number

RelatedNumber(number) == IF number = UnknownNumber THEN KindNumber("ProtocolError") ELSE number

ErrorEnvelope(related, code, size) ==
    Reliable("ProtocolError", [code |-> code, related |-> RelatedNumber(related)],
             NoOptions, size, 0)

MaxFrameBytes == 1048576
MaxPayloadBytes == 262144

CapabilitiesEnvelope(names) ==
    Reliable("Capabilities",
             [version |-> Version, frame |-> MaxFrameBytes, payload |-> MaxPayloadBytes],
             NoOptions, names, 0)

AuthenticatedEnvelope(principal) ==
    Reliable("Authenticated", [principal |-> principal], [assigned |-> None], 0, 0)

EntityEnteredEnvelope(place, entity) ==
    [At(place, Reliable("EntityEntered", NoNumbers, [owner |-> Some(entity)], 0, 0))
        EXCEPT !.entity = Some(entity)]

EntityLeftEnvelope(place, entity, reason) ==
    [At(place, Reliable("EntityLeft", [reason |-> reason], NoOptions, 0, 0))
        EXCEPT !.entity = Some(entity)]

(* Two answers are their request with another payload in it.               *)
SubscriptionAccepted(request) ==
    [request EXCEPT !.kind = "SubscriptionAccepted", !.class = "ReliableOrdered",
        !.numbers = [subscription |-> request.space, epoch |-> request.epoch],
        !.options = NoOptions]

SnapshotReply(request, size) ==
    [request EXCEPT !.kind = "Snapshot", !.type = 1, !.data = size, !.options = NoOptions]

(* A publication becomes a request to the core, which relays it under      *)
(* RelayOwned with its fields as they are, and its messages envelopes.     *)
Published(e) ==
    [namespace |-> e.namespace, session |-> e.session, space |-> e.space,
     epoch |-> e.epoch, entity |-> e.entity, channel |-> OrZero(e.channel),
     sequence |-> e.sequence, delivery |-> e.class,
     component |-> IF IsReplaceable(e.class) THEN Some(e.type) ELSE None,
     size |-> e.data]

OutboundEnvelope(m) ==
    [Control(IF IsReplaceable(m.delivery) THEN "EntityState" ELSE "ReliableEvent",
             m.delivery, NoNumbers, NoOptions, 0, m.size)
        EXCEPT !.namespace = m.namespace, !.session = m.session, !.space = m.space,
               !.channel = Some(m.channel), !.entity = m.entity, !.epoch = m.epoch,
               !.sequence = m.sequence,
               !.type = IF m.component = None THEN 1 ELSE OrZero(m.component)]

(* What the coordinator tells a requester, or the space of a tool call.    *)
ReplyClass(kind) ==
    IF kind \in {"InferenceProgress", "InferenceStreamChunk"}
    THEN "BestEffortEvent" ELSE "ReliableOrdered"

ReplyEnvelope(source, entity, kind, numbers, text, data) ==
    [At(source, Control(kind, ReplyClass(kind), numbers, NoOptions, text, data))
        EXCEPT !.entity = Some(entity), !.correlation = source.correlation]
=============================================================================
