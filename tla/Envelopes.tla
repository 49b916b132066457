------------------------------ MODULE Envelopes ------------------------------
(***************************************************************************)
(* Envelopes, the rules they obey, and their form on the wire.             *)
(*                                                                         *)
(* An optional id is the empty set or the set of the id; the wire writes   *)
(* none as zero.  Numbers and enumerations are their values, a string or   *)
(* a vector of bytes is its length: text for a control's string (or the    *)
(* first of two), data for its bytes (or the second string) and for an     *)
(* opaque payload.  Fields no rule looks at travel with data.              *)
(*                                                                         *)
(* FlatBuffers itself is external: a buffer that verifies is a record of   *)
(* the fields of the schema, and the frame limit, a property of the whole  *)
(* buffer, is the same at both ends.                                       *)
(***************************************************************************)
EXTENDS Integers, Sequences

None == {}
Some(n) == {n}
Optional == {option \in SUBSET Nat : \A m, n \in option : m = n}
OrZero(option) == IF option = None THEN 0 ELSE CHOOSE n \in option : TRUE

AlwaysSome(n) == Some(n)

NonZero(n) == IF n = 0 THEN None ELSE Some(n)

Classes == {"ReliableOrdered", "ReliableUnordered", "LatestValue",
            "UnreliableSequenced", "BestEffortEvent"}
IsUnreliable(class) == class \in {"UnreliableSequenced", "BestEffortEvent"}
IsReplaceable(class) == class \in {"LatestValue", "UnreliableSequenced"}

Opaque == {"EntityState", "ReliableEvent", "Snapshot"}
Unscoped == {"Hello", "Capabilities", "Authenticate", "Authenticated", "Ping", "Pong"}
OfSession == {"JoinSession", "LeaveSession"}
OfChannel == {"SubscribeSpace", "UnsubscribeSpace", "SubscriptionAccepted",
              "SubscriptionRejected", "SnapshotRequest", "ReliableEvent", "Snapshot"}
InferenceKinds == {"InferenceRequested", "InferenceAccepted", "InferenceProgress",
                   "InferenceStreamChunk", "InferenceCompleted", "InferenceFailed",
                   "InferenceCancelled", "InferenceExpired", "ToolCallProposed",
                   "ToolCallAccepted", "ToolCallRejected", "ToolCallCompleted"}
OfEntity == {"EntityEntered", "EntityLeft", "SpaceTransition"} \cup InferenceKinds
Kinds == Unscoped \cup OfSession \cup OfChannel \cup OfEntity
            \cup {"EntityState", "ProtocolError"}

(* The numbers and the optional numbers of each control.                   *)
NumberFields(kind) ==
    CASE kind = "Hello" -> {"min", "max", "frame", "payload"}
      [] kind = "Capabilities" -> {"version", "frame", "payload"}
      [] kind = "Authenticate" -> {"scheme"}
      [] kind = "Authenticated" -> {"principal"}
      [] kind = "UnsubscribeSpace" -> {"subscription"}
      [] kind = "SubscriptionAccepted" -> {"subscription", "epoch"}
      [] kind \in {"SubscriptionRejected", "ToolCallRejected"} -> {"code"}
      [] kind = "EntityLeft" -> {"reason"}
      [] kind = "SpaceTransition" -> {"from", "to", "epoch"}
      [] kind \in {"Ping", "Pong"} -> {"nonce"}
      [] kind = "ProtocolError" -> {"code", "related"}
      [] kind = "InferenceProgress" -> {"percent"}
      [] kind = "ToolCallProposed" -> {"version"}
      [] OTHER -> {}

OptionFields(kind) ==
    CASE kind = "Authenticated" -> {"assigned"}
      [] kind = "EntityEntered" -> {"owner"}
      [] kind = "SnapshotRequest" -> {"after"}
      [] OTHER -> {}

(* The kinds with a string, and those with bytes or a second string.       *)
WithText == {"Hello", "Capabilities", "LeaveSession", "SubscriptionRejected",
             "ProtocolError", "InferenceRequested", "InferenceFailed",
             "InferenceCancelled", "InferenceExpired", "ToolCallProposed",
             "ToolCallAccepted", "ToolCallRejected"}
WithData == Opaque \cup
            {"Hello", "Capabilities", "Authenticate", "JoinSession", "InferenceRequested",
             "InferenceStreamChunk", "InferenceCompleted", "ToolCallProposed",
             "ToolCallCompleted"}

(* The largest value of each enumeration; zero is Unknown in all of them.  *)
EnumLimit(kind, field) ==
    CASE kind = "Authenticate" /\ field = "scheme" -> 2
      [] kind \in {"SubscriptionRejected", "ToolCallRejected"} /\ field = "code" -> 4
      [] kind = "EntityLeft" /\ field = "reason" -> 4
      [] kind = "ProtocolError" /\ field = "code" -> 11
      [] kind = "ProtocolError" /\ field = "related" -> 32
      [] OTHER -> -1

EnumsKnown(kind, numbers) ==
    \A f \in NumberFields(kind) :
        EnumLimit(kind, f) >= 0 => numbers[f] <= EnumLimit(kind, f)

Version == 1

KindOrder ==
    <<"Hello", "Capabilities", "Authenticate", "Authenticated", "JoinSession",
      "LeaveSession", "SubscribeSpace", "UnsubscribeSpace", "SubscriptionAccepted",
      "SubscriptionRejected", "EntityEntered", "EntityLeft", "EntityState",
      "ReliableEvent", "SnapshotRequest", "Snapshot", "SpaceTransition", "Ping",
      "Pong", "ProtocolError", "InferenceRequested", "InferenceAccepted",
      "InferenceProgress", "InferenceStreamChunk", "InferenceCompleted",
      "InferenceFailed", "InferenceCancelled", "InferenceExpired",
      "ToolCallProposed", "ToolCallAccepted", "ToolCallRejected", "ToolCallCompleted">>
KindNumber(kind) == CHOOSE n \in 1 .. 32 : KindOrder[n] = kind

EnvelopesOf(kind) ==
    [version : Nat, kind : {kind}, class : Classes \cup {"Unknown"},
     namespace : Nat, session : Nat, space : Nat, channel : Optional,
     entity : Optional, epoch : Nat, tick : Nat, sequence : Nat, correlation : Optional,
     type : IF kind \in Opaque THEN Nat ELSE {0},
     text : IF kind \in WithText THEN Nat ELSE {0},
     data : IF kind \in WithData THEN Nat ELSE {0},
     numbers : [NumberFields(kind) -> Nat], options : [OptionFields(kind) -> Optional]]

IsEnvelope(e) ==
    \E kind \in Kinds : e \in EnvelopesOf(kind) /\ EnumsKnown(kind, e.numbers)

-----------------------------------------------------------------------------
(* semantics.rs.                                                           *)
NotSomeZero(option) == option # Some(0)

DeliveryFits(kind, class) ==
    CASE kind = "EntityState" -> IsReplaceable(class)
      [] kind = "ReliableEvent" -> class \in {"ReliableOrdered", "ReliableUnordered"}
      [] kind \in {"Ping", "Pong"} -> class = "ReliableUnordered"
      [] kind \in {"InferenceProgress", "InferenceStreamChunk"} -> class = "BestEffortEvent"
      [] OTHER -> class = "ReliableOrdered"

NoSpaceScope(e) == e.space = 0 /\ e.channel = None /\ e.entity = None /\ e.epoch = 0

UnscopedFits(e) == e.namespace = 0 /\ e.session = 0 /\ NoSpaceScope(e)

SessionScopeFits(e) == e.namespace # 0 /\ e.session # 0 /\ NoSpaceScope(e)

SpaceScopeFits(e, needsChannel, needsEntity) ==
    /\ e.namespace # 0 /\ e.session # 0 /\ e.space # 0 /\ e.epoch # 0
    /\ IF needsChannel THEN OrZero(e.channel) # 0 ELSE e.channel = None
    /\ needsEntity => OrZero(e.entity) # 0

OptionalScopeFits(e) ==
    /\ e.namespace = 0 => e.session = 0 /\ NoSpaceScope(e)
    /\ e.session = 0 => NoSpaceScope(e)
    /\ e.space = 0 => NoSpaceScope(e)

ScopeFits(e) ==
    /\ e.kind \in Unscoped => UnscopedFits(e)
    /\ e.kind \in OfSession => SessionScopeFits(e)
    /\ e.kind \in OfChannel => SpaceScopeFits(e, TRUE, FALSE)
    /\ e.kind \in OfEntity => SpaceScopeFits(e, FALSE, TRUE)
    /\ e.kind = "EntityState" => SpaceScopeFits(e, TRUE, TRUE)
    /\ e.kind = "ProtocolError" => OptionalScopeFits(e)

LimitsFit(n) == n.frame # 0 /\ n.payload # 0 /\ n.payload <= n.frame

HelloFits(n) == n.min # 0 /\ n.min <= Version /\ Version <= n.max /\ LimitsFit(n)

TransitionFits(e, n) ==
    n.from # 0 /\ n.to # 0 /\ n.epoch # 0 /\ n.from = e.space /\ n.from # n.to

InferenceFits(e) ==
    /\ e.kind \in {"InferenceRequested", "InferenceFailed", "ToolCallAccepted",
                   "ToolCallProposed"} => e.text # 0
    /\ e.kind = "InferenceProgress" => e.numbers.percent <= 100
    /\ e.kind = "ToolCallProposed" => e.numbers.version # 0
    /\ e.kind = "ToolCallRejected" => e.numbers.code # 0

ControlFits(e) ==
    LET n == e.numbers IN
    /\ e.kind = "Hello" => HelloFits(n)
    /\ e.kind = "Capabilities" => n.version = Version /\ LimitsFit(n)
    /\ e.kind = "Authenticate" => n.scheme # 0 /\ e.data # 0
    /\ e.kind = "Authenticated" => n.principal # 0
    /\ e.kind = "UnsubscribeSpace" => n.subscription # 0
    /\ e.kind = "SubscriptionAccepted" =>
         n.subscription # 0 /\ n.epoch # 0 /\ n.epoch = e.epoch
    /\ e.kind = "SubscriptionRejected" => n.code # 0
    /\ e.kind = "EntityLeft" => n.reason # 0
    /\ e.kind = "SpaceTransition" => TransitionFits(e, n)
    /\ e.kind \in {"Ping", "Pong"} => n.nonce # 0
    /\ e.kind = "ProtocolError" => n.code # 0 /\ n.related # 0
    /\ e.kind \in InferenceKinds => InferenceFits(e)
    /\ \A f \in OptionFields(e.kind) : NotSomeZero(e.options[f])

Validated(e) ==
    /\ NotSomeZero(e.channel) /\ NotSomeZero(e.entity) /\ NotSomeZero(e.correlation)
    /\ DeliveryFits(e.kind, e.class)
    /\ ScopeFits(e)
    /\ e.kind \in Opaque => e.type # 0
    /\ e.kind \notin Opaque => ControlFits(e)

-----------------------------------------------------------------------------
(* codec.rs.  A frame is the record of the schema; limit is that on        *)
(* payloads, which encode tests on the sum and decode on each string or    *)
(* vector, the names of the handshake excepted.                            *)
Encodable(e, limit) ==
    /\ e.version = Version /\ e.class # "Unknown"
    /\ Validated(e)
    /\ e.text + e.data <= limit

(* Two controls carry the channel a second time.                           *)
Mirrors == {"SubscribeSpace", "SnapshotRequest"}

EncodeControl(e) ==
    [numbers |-> e.numbers, text |-> e.text, data |-> e.data,
     options |-> [f \in OptionFields(e.kind) |-> OrZero(e.options[f])],
     mirror |-> IF e.kind \in Mirrors THEN OrZero(e.channel) ELSE 0]

Encode(e) ==
    [version |-> e.version, kind |-> e.kind, class |-> e.class,
     namespace |-> e.namespace, session |-> e.session, space |-> e.space,
     entity |-> OrZero(e.entity), epoch |-> e.epoch, tick |-> e.tick,
     sequence |-> e.sequence, correlation |-> OrZero(e.correlation),
     channel |-> OrZero(e.channel), type |-> e.type,
     payload |-> IF e.kind \in Opaque THEN Some(e.data) ELSE None,
     table |-> IF e.kind \in Opaque THEN "NONE" ELSE e.kind,
     control |-> IF e.kind \in Opaque THEN {} ELSE {EncodeControl(e)}]

ControlIn(w) == CHOOSE c \in w.control : TRUE

Decode(w) ==
    LET opaque == w.kind \in Opaque
        c == ControlIn(w) IN
    [version |-> w.version, kind |-> w.kind, class |-> w.class,
     namespace |-> w.namespace, session |-> w.session, space |-> w.space,
     channel |-> NonZero(w.channel), entity |-> NonZero(w.entity),
     epoch |-> w.epoch, tick |-> w.tick, sequence |-> w.sequence,
     correlation |-> NonZero(w.correlation),
     type |-> IF opaque THEN w.type ELSE 0,
     text |-> IF opaque THEN 0 ELSE c.text,
     data |-> IF opaque THEN OrZero(w.payload) ELSE c.data,
     numbers |-> IF opaque THEN [f \in {} |-> 0] ELSE c.numbers,
     options |-> IF opaque THEN [f \in {} |-> None]
                 ELSE [f \in OptionFields(w.kind) |-> NonZero(c.options[f])]]

OpaqueDecodes(w, limit) ==
    /\ w.table = "NONE" /\ w.control = {} /\ w.type # 0
    /\ OrZero(w.payload) <= limit

ControlDecodes(w, limit) ==
    LET c == ControlIn(w) IN
    /\ w.type = 0 /\ w.payload = None
    /\ w.table = w.kind /\ w.control # {}
    /\ EnumsKnown(w.kind, c.numbers)
    /\ w.kind \in Mirrors => c.mirror = w.channel
    /\ c.text <= limit /\ c.data <= limit
    /\ w.kind \in {"Hello", "Capabilities"} => c.text + c.data <= limit

Decodable(w, limit) ==
    /\ w.version = Version /\ w.kind \in Kinds /\ w.class \in Classes
    /\ IF w.kind \in Opaque THEN OpaqueDecodes(w, limit) ELSE ControlDecodes(w, limit)
    /\ Validated(Decode(w))
=============================================================================
