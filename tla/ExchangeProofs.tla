--------------------------- MODULE ExchangeProofs ---------------------------
(***************************************************************************)
(* What the codec promises about every envelope, which of the server's     *)
(* envelopes it always takes and which it may refuse, and from there: a    *)
(* writer fails only over what nobody checked, every answer arrives        *)
(* intact, and the handshake comes first, for every number of requests,    *)
(* every envelope a client may send and whatever core, policies and        *)
(* providers say.                                                          *)
(***************************************************************************)
EXTENDS Exchange, TLAPS

(* An optional id that is not Some(0) survives being written as zero or    *)
(* its value.                                                              *)
LEMMA OptionSurvives ==
    ASSUME NEW option \in Optional, NotSomeZero(option)
    PROVE  OrZero(option) \in Nat /\ NonZero(OrZero(option)) = option
<1>1. CASE option = None
  BY <1>1 DEF None, OrZero, NonZero
<1>2. CASE option # None
  <2>1. PICK n \in Nat : option = {n}
    BY <1>2 DEF Optional, None
  <2>2. n # 0
    BY <2>1 DEF NotSomeZero, Some
  <2>3. OrZero(option) = n
    BY <2>1, <1>2 DEF OrZero
  <2> QED BY <2>1, <2>2, <2>3 DEF NonZero, Some
<1> QED BY <1>1, <1>2

(* A present id other than zero is read back as it was.                    *)
LEMMA SomeSurvives ==
    ASSUME NEW n
    PROVE  OrZero(Some(n)) = n
BY DEF OrZero, Some, None

(* The envelope with the fields of e.                                      *)
Assembled(e) ==
    [version |-> e.version, kind |-> e.kind, class |-> e.class,
     namespace |-> e.namespace, session |-> e.session, space |-> e.space,
     channel |-> e.channel, entity |-> e.entity,
     epoch |-> e.epoch, tick |-> e.tick, sequence |-> e.sequence,
     correlation |-> e.correlation, type |-> e.type, text |-> e.text, data |-> e.data,
     numbers |-> e.numbers, options |-> e.options]

(* An envelope is its fields.                                              *)
LEMMA WholeEnvelope ==
    ASSUME NEW kind, NEW e \in EnvelopesOf(kind)
    PROVE  Assembled(e) = e
BY DEF Assembled, EnvelopesOf

(* codec.rs: what encode accepts, decode accepts, under the same limits,   *)
(* and gives back as it was.                                               *)
THEOREM RoundTrip ==
    ASSUME NEW e, IsEnvelope(e), NEW limit \in Nat, Encodable(e, limit)
    PROVE  Decodable(Encode(e), limit) /\ Decode(Encode(e)) = e
<1> DEFINE w == Encode(e)
<1>1. PICK kind \in Kinds : e \in EnvelopesOf(kind) /\ EnumsKnown(kind, e.numbers)
  BY DEF IsEnvelope
<1>2. e.kind = kind /\ Validated(e) /\ e.version = Version /\ e.text + e.data <= limit
      /\ e.class \in Classes
  BY <1>1 DEF EnvelopesOf, Encodable
<1>3. /\ NonZero(OrZero(e.channel)) = e.channel
      /\ NonZero(OrZero(e.entity)) = e.entity
      /\ NonZero(OrZero(e.correlation)) = e.correlation
  BY <1>1, <1>2, OptionSurvives DEF EnvelopesOf, Validated
<1>4. w.kind = kind /\ w.version = Version /\ w.class = e.class
  BY <1>2 DEF Encode
<1>5. CASE kind \in Opaque
  <2>1. NumberFields(kind) = {} /\ OptionFields(kind) = {}
    BY <1>5 DEF Opaque, NumberFields, OptionFields
  <2>2. e.numbers = [f \in {} |-> 0] /\ e.options = [f \in {} |-> None] /\ e.text = 0
    <3>1. kind \notin WithText
      BY <1>5 DEF Opaque, WithText
    <3>2. e.numbers \in [{} -> Nat] /\ e.options \in [{} -> Optional] /\ e.text \in {0}
      BY <1>1, <2>1, <3>1 DEF EnvelopesOf
    <3> QED BY <3>2
  <2>3. OrZero(w.payload) = e.data
    BY <1>2, <1>5, SomeSurvives DEF Encode
  <2>4. Decode(w) = e
    <3>1. /\ w.version = e.version /\ w.kind = e.kind /\ w.class = e.class
          /\ w.namespace = e.namespace /\ w.session = e.session /\ w.space = e.space
          /\ w.epoch = e.epoch /\ w.tick = e.tick /\ w.sequence = e.sequence
          /\ w.type = e.type
          /\ NonZero(w.channel) = e.channel /\ NonZero(w.entity) = e.entity
          /\ NonZero(w.correlation) = e.correlation
      BY <1>3 DEF Encode
    <3>2. w.kind \in Opaque
      BY <1>4, <1>5
    <3> HIDE DEF w
    <3>3. Decode(w) = Assembled(e)
      BY <2>2, <2>3, <3>1, <3>2 DEF Decode, Assembled
    <3> QED BY <1>1, <3>3, WholeEnvelope
  <2>5. e.data \in Nat /\ e.type # 0
    BY <1>1, <1>2, <1>5 DEF EnvelopesOf, Validated
  <2>6. OpaqueDecodes(w, limit)
    BY <1>2, <1>5, <2>2, <2>3, <2>5 DEF OpaqueDecodes, Encode
  <2> QED BY <1>2, <1>4, <1>5, <2>4, <2>6 DEF Decodable
<1>6. CASE kind \notin Opaque
  <2> DEFINE c == EncodeControl(e)
  <2>1. w.control = {c} /\ ControlIn(w) = c
    BY <1>2, <1>6 DEF Encode, ControlIn
  <2>2. c.numbers = e.numbers /\ c.text = e.text /\ c.data = e.data
    BY DEF EncodeControl
  <2>3. [f \in OptionFields(w.kind) |-> NonZero(c.options[f])] = e.options
    <3>1. e.options \in [OptionFields(kind) -> Optional]
      BY <1>1 DEF EnvelopesOf
    <3>2. \A f \in OptionFields(kind) : NotSomeZero(e.options[f])
      BY <1>2, <1>6 DEF Validated, ControlFits
    <3>3. \A f \in OptionFields(kind) : NonZero(c.options[f]) = e.options[f]
      BY <1>2, <3>1, <3>2, OptionSurvives DEF EncodeControl
    <3> DEFINE F == OptionFields(kind)
    <3>4. [f \in F |-> NonZero(c.options[f])] = [f \in F |-> e.options[f]]
      <4> HIDE DEF F, c
      <4>1. \A f \in F : NonZero(c.options[f]) = e.options[f]
        BY <3>3 DEF F
      <4> QED BY <4>1, Zenon
    <3>5. [f \in F |-> e.options[f]] = e.options
      <4>1. e.options \in [F -> Optional]
        BY <3>1
      <4> HIDE DEF F
      <4> QED BY <4>1
    <3>6. OptionFields(w.kind) = F
      BY <1>4
    <3> HIDE DEF c, F
    <3> QED BY <3>4, <3>5, <3>6, Zenon
  <2>4. e.type = 0
    BY <1>1, <1>6 DEF EnvelopesOf
  <2>5. Decode(w) = e
    <3>1. /\ w.version = e.version /\ w.kind = e.kind /\ w.class = e.class
          /\ w.namespace = e.namespace /\ w.session = e.session /\ w.space = e.space
          /\ w.epoch = e.epoch /\ w.tick = e.tick /\ w.sequence = e.sequence
          /\ NonZero(w.channel) = e.channel /\ NonZero(w.entity) = e.entity
          /\ NonZero(w.correlation) = e.correlation
      BY <1>3 DEF Encode
    <3>2. w.kind \notin Opaque
      BY <1>4, <1>6
    <3> HIDE DEF w, c
    <3>3. Decode(w) = Assembled(e)
      BY <2>1, <2>2, <2>3, <2>4, <3>1, <3>2 DEF Decode, Assembled
    <3> QED BY <1>1, <3>3, WholeEnvelope
  <2>6. e.text \in Nat /\ e.data \in Nat
    BY <1>1 DEF EnvelopesOf
  <2>7. e.text <= limit /\ e.data <= limit
    BY <1>2, <2>6
  <2>8. w.type = 0 /\ w.payload = None /\ w.table = w.kind /\ w.control # {}
    BY <1>2, <1>6, <2>1, <2>4 DEF Encode
  <2>9. w.kind \in Mirrors => c.mirror = w.channel
    BY <1>2 DEF Encode, EncodeControl
  <2>10. ControlDecodes(w, limit)
    BY <1>1, <1>2, <1>4, <2>1, <2>2, <2>7, <2>8, <2>9 DEF ControlDecodes
  <2> QED BY <1>2, <1>4, <1>6, <2>5, <2>10 DEF Decodable
<1> QED BY <1>5, <1>6

-----------------------------------------------------------------------------
(* What a handler may assume of an envelope it was given by decode.        *)
Received(e, limit) ==
    /\ IsEnvelope(e) /\ Validated(e)
    /\ e.version = Version /\ e.class \in Classes
    /\ e.text <= limit /\ e.data <= limit

(* What the writer takes.                                                  *)
Good(e, limit) == IsEnvelope(e) /\ Encodable(e, limit)

(* require_space_scope: a decoded envelope about a channel or an entity    *)
(* names its whole place.                                                  *)
LEMMA ScopeOfReceived ==
    ASSUME NEW e, NEW limit, Received(e, limit)
    PROVE  /\ {e.namespace, e.session, e.space, e.epoch, e.tick, e.sequence} \subseteq Nat
           /\ {e.channel, e.entity, e.correlation} \subseteq Optional
           /\ e.text \in Nat /\ e.data \in Nat /\ e.type \in Nat /\ e.kind \in Kinds
           /\ NotSomeZero(e.channel) /\ NotSomeZero(e.entity) /\ NotSomeZero(e.correlation)
           /\ ScopeFits(e)
<1>1. PICK kind \in Kinds : e \in EnvelopesOf(kind)
  BY DEF Received, IsEnvelope
<1>2. Validated(e)
  BY DEF Received
<1> QED BY <1>1, <1>2 DEF EnvelopesOf, Validated

(* The id of a present option is an option of the type.                    *)
LEMMA SomeIsOptional == ASSUME NEW n \in Nat PROVE Some(n) \in Optional
BY DEF Some, Optional

(* Absence is an option of the type, and one the rules never refuse.       *)
LEMMA NoneIsOptional == None \in Optional /\ NotSomeZero(None)
BY DEF None, Some, Optional, NotSomeZero

(* nonzero: what comes back for an optional id is one, never Some(0).      *)
LEMMA OptionalAgain ==
    ASSUME NEW option \in Optional
    PROVE  OrZero(option) \in Nat /\ NonZero(OrZero(option)) \in Optional
<1>1. CASE option = None
  BY <1>1, NoneIsOptional DEF OrZero, NonZero
<1>2. CASE option # None
  <2>1. PICK n \in Nat : option = {n}
    BY <1>2 DEF Optional, None
  <2>2. OrZero(option) = n
    BY <2>1, <1>2 DEF OrZero
  <2> QED BY <2>2, SomeIsOptional, NoneIsOptional DEF NonZero
<1> QED BY <1>1, <1>2

(* A record with the fields of an envelope, each of its type.              *)
HasFields(a) ==
    a = [version |-> a.version, kind |-> a.kind, class |-> a.class,
         namespace |-> a.namespace, session |-> a.session, space |-> a.space,
         channel |-> a.channel, entity |-> a.entity, epoch |-> a.epoch,
         tick |-> a.tick, sequence |-> a.sequence, correlation |-> a.correlation,
         type |-> a.type, text |-> a.text, data |-> a.data,
         numbers |-> a.numbers, options |-> a.options]

(* An answer made of a received envelope with another payload is an        *)
(* envelope, if its payload is one of its kind.                            *)
LEMMA WellFormed ==
    ASSUME NEW a, HasFields(a), a.version \in Nat, a.class \in Classes,
           a.namespace \in Nat, a.session \in Nat, a.space \in Nat,
           a.channel \in Optional, a.entity \in Optional, a.epoch \in Nat,
           a.tick \in Nat, a.sequence \in Nat, a.correlation \in Optional,
           a.type \in Nat, a.text \in Nat, a.data \in Nat,
           a.kind \notin Opaque => a.type = 0,
           a.kind \notin WithText => a.text = 0,
           a.kind \notin WithData => a.data = 0,
           a.numbers \in [NumberFields(a.kind) -> Nat],
           a.options \in [OptionFields(a.kind) -> Optional]
    PROVE  a \in EnvelopesOf(a.kind)
<1>1. /\ a.type \in (IF a.kind \in Opaque THEN Nat ELSE {0})
      /\ a.text \in (IF a.kind \in WithText THEN Nat ELSE {0})
      /\ a.data \in (IF a.kind \in WithData THEN Nat ELSE {0})
  OBVIOUS
<1> QED BY <1>1 DEF HasFields, EnvelopesOf

(* An answer to SubscribeSpace: its request with another payload.          *)
THEOREM SubscriptionAcceptedGood ==
    ASSUME NEW limit \in Nat, NEW e, Received(e, limit), e.kind = "SubscribeSpace"
    PROVE  Good(SubscriptionAccepted(e), limit)
<1> DEFINE a == SubscriptionAccepted(e)
<1>1. e \in EnvelopesOf("SubscribeSpace") /\ Validated(e) /\ e.version = Version
  BY DEF Received, IsEnvelope, EnvelopesOf
<1>2. SpaceScopeFits(e, TRUE, FALSE)
  BY <1>1 DEF Validated, ScopeFits, OfChannel
<1>3. /\ NumberFields("SubscriptionAccepted") = {"subscription", "epoch"}
      /\ OptionFields("SubscriptionAccepted") = {}
  BY DEF NumberFields, OptionFields
<1>4. e.text = 0 /\ e.data = 0 /\ e.type = 0
  BY <1>1 DEF EnvelopesOf, WithText, WithData, Opaque
<1>5. a.numbers \in [{"subscription", "epoch"} -> Nat] /\ a.options \in [{} -> Optional]
  BY <1>1 DEF SubscriptionAccepted, EnvelopesOf, NoOptions
<1>6. "SubscriptionAccepted" \notin Opaque \cup WithText \cup WithData
  BY DEF Opaque, WithText, WithData
<1>7. a \in EnvelopesOf("SubscriptionAccepted")
  BY <1>1, <1>3, <1>4, <1>5, <1>6 DEF SubscriptionAccepted, EnvelopesOf, Classes, Opaque, WithText, WithData
<1>8. EnumsKnown("SubscriptionAccepted", a.numbers)
  BY <1>3 DEF EnumsKnown, EnumLimit
<1>9. ScopeFits(a)
  BY <1>2 DEF ScopeFits, SpaceScopeFits, SubscriptionAccepted, Unscoped, OfSession, OfEntity, InferenceKinds
<1>10. ControlFits(a)
  BY <1>2, <1>3 DEF ControlFits, SpaceScopeFits, SubscriptionAccepted, InferenceKinds
<1>11. Validated(a)
  BY <1>1, <1>6, <1>9, <1>10 DEF Validated, DeliveryFits, SubscriptionAccepted
<1> QED
  BY <1>1, <1>4, <1>7, <1>8, <1>11 DEF Good, Encodable, IsEnvelope, SubscriptionAccepted, Kinds, OfChannel

(* An answer to SnapshotRequest is an envelope, and one that the codec     *)
(* takes as long as the listing fits.                                      *)
THEOREM SnapshotReplyGood ==
    ASSUME NEW limit \in Nat, NEW e, Received(e, limit), e.kind = "SnapshotRequest",
           NEW size \in Nat
    PROVE  /\ IsEnvelope(SnapshotReply(e, size))
           /\ SnapshotReply(e, size).kind = "Snapshot" /\ SnapshotReply(e, size).data = size
           /\ size <= limit => Good(SnapshotReply(e, size), limit)
<1>0. PICK a : a = SnapshotReply(e, size)
  OBVIOUS
<1>1. e \in EnvelopesOf("SnapshotRequest") /\ Validated(e) /\ e.version = Version
  BY DEF Received, IsEnvelope, EnvelopesOf
<1>2. SpaceScopeFits(e, TRUE, FALSE) /\ e.class = "ReliableOrdered"
  BY <1>1 DEF Validated, ScopeFits, OfChannel, DeliveryFits
<1>3. /\ NumberFields("Snapshot") = {} /\ OptionFields("Snapshot") = {}
      /\ NumberFields("SnapshotRequest") = {}
  BY DEF NumberFields, OptionFields
<1>4. e.text = 0
  BY <1>1 DEF EnvelopesOf, WithText
<1>5. a.numbers \in [{} -> Nat] /\ a.options \in [{} -> Optional]
  BY <1>0, <1>1, <1>3 DEF SnapshotReply, EnvelopesOf, NoOptions
<1>6. "Snapshot" \in Opaque /\ "Snapshot" \notin WithText /\ "Snapshot" \in WithData
  BY DEF Opaque, WithText, WithData
<1>7. a \in EnvelopesOf("Snapshot")
  <2>1. a = [e EXCEPT !.kind = "Snapshot", !.type = 1, !.data = size, !.options = NoOptions]
    BY <1>0 DEF SnapshotReply
  <2>2. a = [version |-> a.version, kind |-> a.kind, class |-> a.class,
             namespace |-> a.namespace, session |-> a.session, space |-> a.space,
             channel |-> a.channel, entity |-> a.entity, epoch |-> a.epoch,
             tick |-> a.tick, sequence |-> a.sequence, correlation |-> a.correlation,
             type |-> a.type, text |-> a.text, data |-> a.data,
             numbers |-> a.numbers, options |-> a.options]
    BY <1>1, <2>1 DEF EnvelopesOf
  <2>3. /\ a.version = Version /\ a.kind = "Snapshot" /\ a.class = e.class
        /\ a.namespace = e.namespace /\ a.session = e.session /\ a.space = e.space
        /\ a.channel = e.channel /\ a.entity = e.entity /\ a.epoch = e.epoch
        /\ a.tick = e.tick /\ a.sequence = e.sequence /\ a.correlation = e.correlation
        /\ a.type = 1 /\ a.text = 0 /\ a.data = size
    BY <1>1, <1>4, <2>1 DEF EnvelopesOf
  <2>4. /\ a.version \in Nat /\ a.namespace \in Nat /\ a.session \in Nat
        /\ a.space \in Nat /\ a.channel \in Optional /\ a.entity \in Optional
        /\ a.epoch \in Nat /\ a.tick \in Nat /\ a.sequence \in Nat
        /\ a.correlation \in Optional /\ a.text \in {0} /\ a.type \in Nat
        /\ a.data \in Nat /\ a.class \in Classes
    BY <1>2, <2>3, ScopeOfReceived DEF Version, Classes
  <2>5. /\ a.numbers \in [NumberFields("Snapshot") -> Nat]
        /\ a.options \in [OptionFields("Snapshot") -> Optional]
    BY <1>3, <1>5
  <2> QED BY <1>6, <2>2, <2>3, <2>4, <2>5 DEF EnvelopesOf
<1>8. EnumsKnown("Snapshot", a.numbers)
  BY <1>3 DEF EnumsKnown
<1>9. ScopeFits(a)
  BY <1>0, <1>2 DEF ScopeFits, SpaceScopeFits, SnapshotReply, Unscoped, OfSession, OfEntity, InferenceKinds
<1>10. Validated(a)
  BY <1>0, <1>1, <1>2, <1>6, <1>9 DEF Validated, DeliveryFits, SnapshotReply
<1>11. IsEnvelope(a) /\ a.kind = "Snapshot" /\ a.data = size
  BY <1>0, <1>1, <1>7, <1>8 DEF IsEnvelope, EnvelopesOf, SnapshotReply, Kinds, OfChannel
<1>12. a.version = Version /\ a.class = "ReliableOrdered" /\ a.text = 0
  BY <1>0, <1>1, <1>2, <1>4 DEF SnapshotReply, EnvelopesOf
<1> QED
  BY <1>0, <1>10, <1>11, <1>12 DEF Good, Encodable

(* outbound_envelope: whatever message the core accepts becomes an         *)
(* envelope, and one that the codec takes if the wire has a form for it.   *)
THEOREM OutboundGood ==
    ASSUME NEW limit \in Nat, NEW m, IsMessage(m)
    PROVE  /\ IsEnvelope(OutboundEnvelope(m))
           /\ Carried(m, limit) => Good(OutboundEnvelope(m), limit)
<1>0. PICK a : a = OutboundEnvelope(m)
  OBVIOUS
<1> DEFINE kind == IF IsReplaceable(m.delivery) THEN "EntityState" ELSE "ReliableEvent"
<1>1. /\ m.namespace \in Nat \ {0} /\ m.session \in Nat \ {0} /\ m.space \in Nat \ {0}
      /\ m.epoch \in Nat \ {0} /\ m.channel \in Nat \ {0} /\ m.sequence \in Nat
      /\ m.size \in Nat /\ m.entity \in Optional /\ NotSomeZero(m.entity)
      /\ m.component \in Optional /\ m.delivery \in Classes
  BY DEF IsMessage, IsPlace
<1>2. /\ a.version = Version /\ a.kind = kind /\ a.class = m.delivery
      /\ a.namespace = m.namespace /\ a.session = m.session /\ a.space = m.space
      /\ a.channel = Some(m.channel) /\ a.entity = m.entity /\ a.epoch = m.epoch
      /\ a.tick = 0 /\ a.sequence = m.sequence /\ a.correlation = None
      /\ a.type = (IF m.component = None THEN 1 ELSE OrZero(m.component))
      /\ a.text = 0 /\ a.data = m.size /\ a.numbers = NoNumbers /\ a.options = NoOptions
      /\ HasFields(a)
  BY <1>0 DEF OutboundEnvelope, Control, HasFields
<1>3. kind \in {"EntityState", "ReliableEvent"}
  OBVIOUS
<1> HIDE DEF kind
<1>4. /\ NumberFields(kind) = {} /\ OptionFields(kind) = {}
      /\ kind \in Opaque /\ kind \notin WithText /\ kind \in WithData /\ kind \in Kinds
  BY <1>3 DEF NumberFields, OptionFields, Opaque, WithText, WithData, Kinds, OfChannel
<1>5. /\ Some(m.channel) \in Optional /\ NotSomeZero(Some(m.channel))
      /\ OrZero(Some(m.channel)) # 0
  BY <1>1, SomeIsOptional, SomeSurvives DEF NotSomeZero, Some
<1>6. a.type \in Nat
  BY <1>1, <1>2, OptionalAgain
<1>7. a \in EnvelopesOf(kind)
  <2>1. a.numbers \in [{} -> Nat] /\ a.options \in [{} -> Optional]
    BY <1>2 DEF NoNumbers, NoOptions
  <2>2. a.numbers \in [NumberFields(a.kind) -> Nat] /\ a.options \in [OptionFields(a.kind) -> Optional]
    BY <1>2, <1>4, <2>1
  <2>3. /\ a.version \in Nat /\ a.class \in Classes /\ a.namespace \in Nat
        /\ a.session \in Nat /\ a.space \in Nat /\ a.channel \in Optional
        /\ a.entity \in Optional /\ a.epoch \in Nat /\ a.tick \in Nat
        /\ a.sequence \in Nat /\ a.correlation \in Optional /\ a.text \in Nat
        /\ a.data \in Nat /\ a.text = 0
    BY <1>1, <1>2, <1>5, NoneIsOptional DEF Version
  <2>4. a.kind \in Opaque /\ a.kind \in WithData /\ a.kind = kind
    BY <1>2, <1>4
  <2> QED BY <1>2, <1>6, <2>2, <2>3, <2>4, WellFormed
<1>8. EnumsKnown(kind, a.numbers)
  BY <1>4 DEF EnumsKnown
<1>9. IsEnvelope(a)
  BY <1>4, <1>7, <1>8 DEF IsEnvelope
<1>10. ASSUME Carried(m, limit) PROVE Encodable(a, limit)
  <2>1. a.type # 0
    <3>1. CASE m.component = None
      BY <1>2, <3>1
    <3>2. CASE m.component # None
      <4>1. NotSomeZero(m.component)
        BY <1>10 DEF Carried, NotSomeZero
      <4>2. OrZero(m.component) # 0
        BY <1>1, <3>2, <4>1, OptionSurvives DEF NonZero
      <4> QED BY <1>2, <3>2, <4>2
    <3> QED BY <3>1, <3>2
  <2>2. DeliveryFits(kind, m.delivery) /\ m.delivery # "Unknown"
    BY <1>1, <1>10 DEF kind, DeliveryFits, IsReplaceable, Carried, Classes
  <2>3. kind = "EntityState" => OrZero(a.entity) # 0
    <3>1. kind = "EntityState" => m.entity # None
      BY <1>10 DEF kind, Carried
    <3> QED BY <1>1, <1>2, <3>1, OptionSurvives DEF NonZero
  <2>4. SpaceScopeFits(a, TRUE, kind = "EntityState")
    BY <1>1, <1>2, <1>5, <2>3 DEF SpaceScopeFits
  <2>5. ScopeFits(a)
    BY <1>2, <1>3, <2>4 DEF ScopeFits, Unscoped, OfSession, OfEntity, OfChannel,
                            InferenceKinds, SpaceScopeFits
  <2>6. Validated(a)
    BY <1>1, <1>2, <1>4, <1>5, <2>1, <2>2, <2>5, NoneIsOptional DEF Validated
  <2>7. a.text + a.data <= limit
    BY <1>1, <1>2, <1>10 DEF Carried
  <2> QED BY <1>2, <2>2, <2>6, <2>7 DEF Encodable
<1> QED BY <1>0, <1>9, <1>10 DEF Good

(* A publication a client may send, relayed as it is: it becomes a message *)
(* the core accepts and the wire carries to every subscriber.              *)
THEOREM RelayedGood ==
    ASSUME NEW limit \in Nat, NEW e, Received(e, limit),
           e.kind \in {"ReliableEvent", "EntityState"}
    PROVE  /\ IsMessage(Published(e)) /\ Carried(Published(e), limit)
           /\ Good(OutboundEnvelope(Published(e)), limit)
<1>0. PICK m : m = Published(e)
  OBVIOUS
<1>1. /\ e \in EnvelopesOf(e.kind) /\ Validated(e) /\ e.data <= limit /\ e.class \in Classes
  BY DEF Received, IsEnvelope, EnvelopesOf
<1>2. /\ SpaceScopeFits(e, TRUE, e.kind = "EntityState") /\ e.type # 0
      /\ NotSomeZero(e.entity) /\ DeliveryFits(e.kind, e.class)
  BY <1>1 DEF Validated, ScopeFits, OfChannel, Opaque, SpaceScopeFits
<1>3. /\ e.namespace \in Nat \ {0} /\ e.session \in Nat \ {0} /\ e.space \in Nat \ {0}
      /\ e.epoch \in Nat \ {0} /\ e.sequence \in Nat /\ e.entity \in Optional
      /\ e.channel \in Optional /\ OrZero(e.channel) # 0
      /\ e.kind = "EntityState" => OrZero(e.entity) # 0
  BY <1>2, ScopeOfReceived DEF SpaceScopeFits
<1>4. OrZero(e.channel) \in Nat \ {0} /\ e.type \in Nat /\ e.data \in Nat
  BY <1>1, <1>3, OptionalAgain DEF EnvelopesOf, Opaque, WithData
<1>5. /\ m.namespace = e.namespace /\ m.session = e.session /\ m.space = e.space
      /\ m.epoch = e.epoch /\ m.entity = e.entity /\ m.channel = OrZero(e.channel)
      /\ m.sequence = e.sequence /\ m.delivery = e.class /\ m.size = e.data
      /\ m.component = IF IsReplaceable(e.class) THEN Some(e.type) ELSE None
  BY <1>0 DEF Published
<1>6. /\ m.component \in Optional /\ m.component # Some(0)
      /\ IsReplaceable(m.delivery) => m.component # None
  BY <1>2, <1>4, <1>5, SomeIsOptional, NoneIsOptional DEF Some, None
<1>7. IsReplaceable(e.class) => e.kind = "EntityState"
  BY <1>2 DEF DeliveryFits, IsReplaceable
<1>8. e.kind = "EntityState" => e.entity # None
  BY <1>3 DEF OrZero
<1>9. IsMessage(m)
  BY <1>1, <1>2, <1>3, <1>4, <1>5, <1>6 DEF IsMessage, IsPlace
<1>10. Carried(m, limit)
  <2>1. e.class # "BestEffortEvent"
    BY <1>2 DEF DeliveryFits, IsReplaceable
  <2> QED BY <1>1, <1>5, <1>6, <1>7, <1>8, <2>1 DEF Carried
<1> QED BY <1>0, <1>9, <1>10, OutboundGood

(* send_error: whatever went wrong, the client can be told, because the    *)
(* error about an unknown kind is reported as one about errors.            *)
THEOREM ErrorGood ==
    ASSUME NEW limit \in Nat, NEW related \in 0 .. 32, NEW code \in 1 .. 11,
           NEW size \in 0 .. limit
    PROVE  Good(ErrorEnvelope(related, code, size), limit)
<1>0. PICK a : a = ErrorEnvelope(related, code, size)
  OBVIOUS
<1>1. RelatedNumber(related) \in 1 .. 32
  <2>1. KindOrder[20] = "ProtocolError"
    BY DEF KindOrder
  <2>2. KindNumber("ProtocolError") \in 1 .. 32
    BY <2>1 DEF KindNumber
  <2> QED BY <2>2 DEF RelatedNumber, UnknownNumber
<1>2. /\ a.version = Version /\ a.kind = "ProtocolError" /\ a.class = "ReliableOrdered"
      /\ a.namespace = 0 /\ a.session = 0 /\ a.space = 0 /\ a.channel = None
      /\ a.entity = None /\ a.epoch = 0 /\ a.tick = 0 /\ a.sequence = 0
      /\ a.correlation = None /\ a.type = 0 /\ a.text = size /\ a.data = 0
      /\ a.numbers = [code |-> code, related |-> RelatedNumber(related)]
      /\ a.options = NoOptions /\ HasFields(a)
  BY <1>0 DEF ErrorEnvelope, Reliable, Control, HasFields
<1>3. NumberFields("ProtocolError") = {"code", "related"} /\ OptionFields("ProtocolError") = {}
  BY DEF NumberFields, OptionFields
<1>4. "ProtocolError" \in WithText /\ "ProtocolError" \notin WithData \cup Opaque
  BY DEF WithText, WithData, Opaque
<1>5. a \in EnvelopesOf("ProtocolError")
  <2>1. a.numbers \in [{"code", "related"} -> Nat]
    BY <1>1, <1>2
  <2>2. a.options \in [{} -> Optional]
    BY <1>2 DEF NoOptions
  <2>8. a.numbers \in [NumberFields(a.kind) -> Nat] /\ a.options \in [OptionFields(a.kind) -> Optional]
    BY <1>2, <1>3, <2>1, <2>2
  <2>9. /\ a.version \in Nat /\ a.class \in Classes /\ a.namespace \in Nat
        /\ a.session \in Nat /\ a.space \in Nat /\ a.channel \in Optional
        /\ a.entity \in Optional /\ a.epoch \in Nat /\ a.tick \in Nat
        /\ a.sequence \in Nat /\ a.correlation \in Optional /\ a.type = 0
        /\ a.text \in Nat /\ a.data = 0 /\ (a.kind \notin WithText => a.text = 0)
    BY <1>2, <1>4, NoneIsOptional DEF Version, Classes
  <2> QED BY <1>2, <2>8, <2>9, WellFormed
<1>6. EnumsKnown("ProtocolError", a.numbers)
  BY <1>1, <1>2, <1>3 DEF EnumsKnown, EnumLimit
<1>7. ScopeFits(a)
  BY <1>2 DEF ScopeFits, OptionalScopeFits, NoSpaceScope, Unscoped, OfSession, OfChannel,
              OfEntity, InferenceKinds
<1>8. ControlFits(a)
  BY <1>1, <1>2, <1>3 DEF ControlFits, InferenceKinds
<1>9. Validated(a)
  BY <1>2, <1>4, <1>7, <1>8, NoneIsOptional DEF Validated, DeliveryFits
<1> QED
  BY <1>0, <1>2, <1>5, <1>6, <1>9 DEF Good, Encodable, IsEnvelope, Kinds

(* The two answers of the handshake.                                       *)
THEOREM CapabilitiesGood ==
    ASSUME NEW limit \in Nat, NEW names \in 0 .. limit
    PROVE  Good(CapabilitiesEnvelope(names), limit)
<1>0. PICK a : a = CapabilitiesEnvelope(names)
  OBVIOUS
<1>2. /\ a.version = Version /\ a.kind = "Capabilities" /\ a.class = "ReliableOrdered"
      /\ a.namespace = 0 /\ a.session = 0 /\ a.space = 0 /\ a.channel = None
      /\ a.entity = None /\ a.epoch = 0 /\ a.tick = 0 /\ a.sequence = 0
      /\ a.correlation = None /\ a.type = 0 /\ a.text = names /\ a.data = 0
      /\ a.numbers = [version |-> Version, frame |-> MaxFrameBytes, payload |-> MaxPayloadBytes]
      /\ a.options = NoOptions /\ HasFields(a)
  BY <1>0 DEF CapabilitiesEnvelope, Reliable, Control, HasFields
<1>3. /\ NumberFields("Capabilities") = {"version", "frame", "payload"}
      /\ OptionFields("Capabilities") = {}
  BY DEF NumberFields, OptionFields
<1>4. "Capabilities" \in WithText /\ "Capabilities" \notin Opaque
  BY DEF WithText, Opaque
<1>5. a \in EnvelopesOf("Capabilities")
  <2>1. a.numbers \in [{"version", "frame", "payload"} -> Nat]
    BY <1>2 DEF Version, MaxFrameBytes, MaxPayloadBytes
  <2>2. a.options \in [{} -> Optional]
    BY <1>2 DEF NoOptions
  <2>8. a.numbers \in [NumberFields(a.kind) -> Nat] /\ a.options \in [OptionFields(a.kind) -> Optional]
    BY <1>2, <1>3, <2>1, <2>2
  <2>9. /\ a.version \in Nat /\ a.class \in Classes /\ a.namespace \in Nat
        /\ a.session \in Nat /\ a.space \in Nat /\ a.channel \in Optional
        /\ a.entity \in Optional /\ a.epoch \in Nat /\ a.tick \in Nat
        /\ a.sequence \in Nat /\ a.correlation \in Optional /\ a.type = 0
        /\ a.text \in Nat /\ a.data = 0 /\ (a.kind \notin WithText => a.text = 0)
    BY <1>2, <1>4, NoneIsOptional DEF Version, Classes
  <2> QED BY <1>2, <2>8, <2>9, WellFormed
<1>6. EnumsKnown("Capabilities", a.numbers)
  BY <1>3 DEF EnumsKnown, EnumLimit
<1>7. ScopeFits(a)
  BY <1>2 DEF ScopeFits, UnscopedFits, NoSpaceScope, Unscoped, OfSession, OfChannel,
              OfEntity, InferenceKinds
<1>8. ControlFits(a)
  BY <1>2, <1>3 DEF ControlFits, LimitsFit, MaxFrameBytes, MaxPayloadBytes, InferenceKinds
<1>9. Validated(a)
  BY <1>2, <1>4, <1>7, <1>8, NoneIsOptional DEF Validated, DeliveryFits
<1> QED
  BY <1>0, <1>2, <1>5, <1>6, <1>9 DEF Good, Encodable, IsEnvelope, Kinds, Unscoped

(* handle_authenticate: the second answer of the handshake can be encoded  *)
(* for every principal that is not zero.                                   *)
THEOREM AuthenticatedGood ==
    ASSUME NEW limit \in Nat, NEW principal \in Nat \ {0}
    PROVE  Good(AuthenticatedEnvelope(principal), limit)
<1>0. PICK a : a = AuthenticatedEnvelope(principal)
  OBVIOUS
<1>2. /\ a.version = Version /\ a.kind = "Authenticated" /\ a.class = "ReliableOrdered"
      /\ a.namespace = 0 /\ a.session = 0 /\ a.space = 0 /\ a.channel = None
      /\ a.entity = None /\ a.epoch = 0 /\ a.tick = 0 /\ a.sequence = 0
      /\ a.correlation = None /\ a.type = 0 /\ a.text = 0 /\ a.data = 0
      /\ a.numbers = [principal |-> principal] /\ a.options = [assigned |-> None]
      /\ HasFields(a)
  BY <1>0 DEF AuthenticatedEnvelope, Reliable, Control, HasFields
<1>3. /\ NumberFields("Authenticated") = {"principal"}
      /\ OptionFields("Authenticated") = {"assigned"}
  BY DEF NumberFields, OptionFields
<1>4. "Authenticated" \notin Opaque
  BY DEF Opaque
<1>5. a \in EnvelopesOf("Authenticated")
  <2>1. a.numbers \in [{"principal"} -> Nat] /\ a.options \in [{"assigned"} -> Optional]
    BY <1>2, NoneIsOptional
  <2>8. a.numbers \in [NumberFields(a.kind) -> Nat] /\ a.options \in [OptionFields(a.kind) -> Optional]
    BY <1>2, <1>3, <2>1
  <2>9. /\ a.version \in Nat /\ a.class \in Classes /\ a.namespace \in Nat
        /\ a.session \in Nat /\ a.space \in Nat /\ a.channel \in Optional
        /\ a.entity \in Optional /\ a.epoch \in Nat /\ a.tick \in Nat
        /\ a.sequence \in Nat /\ a.correlation \in Optional /\ a.type = 0
        /\ a.text \in Nat /\ a.data = 0 /\ (a.kind \notin WithText => a.text = 0)
    BY <1>2, NoneIsOptional DEF Version, Classes
  <2> QED BY <1>2, <2>8, <2>9, WellFormed
<1>6. EnumsKnown("Authenticated", a.numbers)
  BY <1>3 DEF EnumsKnown, EnumLimit
<1>7. ScopeFits(a)
  BY <1>2 DEF ScopeFits, UnscopedFits, NoSpaceScope, Unscoped, OfSession, OfChannel,
              OfEntity, InferenceKinds
<1>8. ControlFits(a)
  BY <1>2, <1>3, NoneIsOptional DEF ControlFits, InferenceKinds
<1>9. Validated(a)
  BY <1>2, <1>4, <1>7, <1>8, NoneIsOptional DEF Validated, DeliveryFits
<1> QED
  BY <1>0, <1>2, <1>5, <1>6, <1>9 DEF Good, Encodable, IsEnvelope, Kinds, Unscoped

(* entity_entered_envelope: an arrival can be encoded for every place and  *)
(* entity that the core numbers.                                           *)
THEOREM EntityEnteredGood ==
    ASSUME NEW limit \in Nat, NEW place, IsPlace(place), NEW entity \in Nat \ {0}
    PROVE  Good(EntityEnteredEnvelope(place, entity), limit)
<1>0. PICK a : a = EntityEnteredEnvelope(place, entity)
  OBVIOUS
<1>2. /\ a.version = Version /\ a.kind = "EntityEntered" /\ a.class = "ReliableOrdered"
      /\ a.namespace = place.namespace /\ a.session = place.session
      /\ a.space = place.space /\ a.channel = None
      /\ a.entity = Some(entity) /\ a.epoch = place.epoch /\ a.tick = 0 /\ a.sequence = 0
      /\ a.correlation = None /\ a.type = 0 /\ a.text = 0 /\ a.data = 0
      /\ a.numbers = NoNumbers /\ a.options = [owner |-> Some(entity)]
      /\ HasFields(a)
  BY <1>0 DEF EntityEnteredEnvelope, At, Reliable, Control, HasFields
<1>3. NumberFields("EntityEntered") = {} /\ OptionFields("EntityEntered") = {"owner"}
  BY DEF NumberFields, OptionFields
<1>4. "EntityEntered" \notin Opaque
  BY DEF Opaque
<1>5. Some(entity) \in Optional /\ NotSomeZero(Some(entity)) /\ OrZero(Some(entity)) # 0
  BY SomeIsOptional, SomeSurvives DEF NotSomeZero, Some
<1>6. a \in EnvelopesOf("EntityEntered")
  <2>1. a.numbers \in [{} -> Nat] /\ a.options \in [{"owner"} -> Optional]
    BY <1>2, <1>5 DEF NoNumbers
  <2>8. a.numbers \in [NumberFields(a.kind) -> Nat] /\ a.options \in [OptionFields(a.kind) -> Optional]
    BY <1>2, <1>3, <2>1
  <2>9. /\ a.version \in Nat /\ a.class \in Classes /\ a.namespace \in Nat
        /\ a.session \in Nat /\ a.space \in Nat /\ a.channel \in Optional
        /\ a.entity \in Optional /\ a.epoch \in Nat /\ a.tick \in Nat
        /\ a.sequence \in Nat /\ a.correlation \in Optional /\ a.type = 0
        /\ a.text \in Nat /\ a.data = 0 /\ (a.kind \notin WithText => a.text = 0)
    BY <1>2, <1>5, NoneIsOptional DEF Version, Classes, IsPlace
  <2> QED BY <1>2, <2>8, <2>9, WellFormed
<1>7. EnumsKnown("EntityEntered", a.numbers)
  BY <1>3 DEF EnumsKnown
<1>8. ScopeFits(a)
  BY <1>2, <1>5 DEF ScopeFits, SpaceScopeFits, IsPlace, Unscoped, OfSession, OfChannel
<1>9. ControlFits(a)
  BY <1>2, <1>3, <1>5 DEF ControlFits, InferenceKinds
<1>10. Validated(a)
  BY <1>2, <1>4, <1>5, <1>8, <1>9, NoneIsOptional DEF Validated, DeliveryFits
<1> QED
  BY <1>0, <1>2, <1>6, <1>7, <1>10 DEF Good, Encodable, IsEnvelope, Kinds, OfEntity

(* entity_left_envelope: a departure can be encoded for every place,       *)
(* entity and known reason.                                                *)
THEOREM EntityLeftGood ==
    ASSUME NEW limit \in Nat, NEW place, IsPlace(place), NEW entity \in Nat \ {0},
           NEW reason \in 1 .. 4
    PROVE  Good(EntityLeftEnvelope(place, entity, reason), limit)
<1>0. PICK a : a = EntityLeftEnvelope(place, entity, reason)
  OBVIOUS
<1>2. /\ a.version = Version /\ a.kind = "EntityLeft" /\ a.class = "ReliableOrdered"
      /\ a.namespace = place.namespace /\ a.session = place.session
      /\ a.space = place.space /\ a.channel = None
      /\ a.entity = Some(entity) /\ a.epoch = place.epoch /\ a.tick = 0 /\ a.sequence = 0
      /\ a.correlation = None /\ a.type = 0 /\ a.text = 0 /\ a.data = 0
      /\ a.numbers = [reason |-> reason] /\ a.options = NoOptions
      /\ HasFields(a)
  BY <1>0 DEF EntityLeftEnvelope, At, Reliable, Control, HasFields
<1>3. NumberFields("EntityLeft") = {"reason"} /\ OptionFields("EntityLeft") = {}
  BY DEF NumberFields, OptionFields
<1>4. "EntityLeft" \notin Opaque
  BY DEF Opaque
<1>5. Some(entity) \in Optional /\ NotSomeZero(Some(entity)) /\ OrZero(Some(entity)) # 0
  BY SomeIsOptional, SomeSurvives DEF NotSomeZero, Some
<1>6. a \in EnvelopesOf("EntityLeft")
  <2>1. a.numbers \in [{"reason"} -> Nat] /\ a.options \in [{} -> Optional]
    BY <1>2 DEF NoOptions
  <2>8. a.numbers \in [NumberFields(a.kind) -> Nat] /\ a.options \in [OptionFields(a.kind) -> Optional]
    BY <1>2, <1>3, <2>1
  <2>9. /\ a.version \in Nat /\ a.class \in Classes /\ a.namespace \in Nat
        /\ a.session \in Nat /\ a.space \in Nat /\ a.channel \in Optional
        /\ a.entity \in Optional /\ a.epoch \in Nat /\ a.tick \in Nat
        /\ a.sequence \in Nat /\ a.correlation \in Optional /\ a.type = 0
        /\ a.text \in Nat /\ a.data = 0 /\ (a.kind \notin WithText => a.text = 0)
    BY <1>2, <1>5, NoneIsOptional DEF Version, Classes, IsPlace
  <2> QED BY <1>2, <2>8, <2>9, WellFormed
<1>7. EnumsKnown("EntityLeft", a.numbers)
  BY <1>2, <1>3 DEF EnumsKnown, EnumLimit
<1>8. ScopeFits(a)
  BY <1>2, <1>5 DEF ScopeFits, SpaceScopeFits, IsPlace, Unscoped, OfSession, OfChannel
<1>9. ControlFits(a)
  BY <1>2, <1>3 DEF ControlFits, InferenceKinds
<1>10. Validated(a)
  BY <1>2, <1>4, <1>5, <1>8, <1>9, NoneIsOptional DEF Validated, DeliveryFits
<1> QED
  BY <1>0, <1>2, <1>6, <1>7, <1>10 DEF Good, Encodable, IsEnvelope, Kinds, OfEntity

(* What a provider may say: the fields of its kind, whatever their values. *)
Typed(r) ==
    /\ r.kind \in InferenceKinds
    /\ r.numbers \in [NumberFields(r.kind) -> Nat] /\ EnumsKnown(r.kind, r.numbers)
    /\ r.text \in (IF r.kind \in WithText THEN Nat ELSE {0})
    /\ r.data \in (IF r.kind \in WithData THEN Nat ELSE {0})

(* reply_envelope: whatever a provider says about a decoded request is an  *)
(* envelope, and the codec takes it if it fits a payload and obeys the     *)
(* rules of its kind.                                                      *)
THEOREM ReplyGood ==
    ASSUME NEW limit \in Nat, NEW e, Received(e, limit), e.kind = "InferenceRequested",
           NEW entity \in Nat \ {0}, NEW r, Typed(r), NEW a,
           a = ReplyEnvelope(e, entity, r.kind, r.numbers, r.text, r.data)
    PROVE  /\ IsEnvelope(a) /\ a.kind = r.kind
           /\ a.text + a.data <= limit /\ InferenceFits(a) => Good(a, limit)
<1>1. /\ e.namespace \in Nat \ {0} /\ e.session \in Nat \ {0}
      /\ e.space \in Nat \ {0} /\ e.epoch \in Nat \ {0}
      /\ e.correlation \in Optional /\ NotSomeZero(e.correlation)
  <2>1. /\ e.namespace \in Nat /\ e.session \in Nat /\ e.space \in Nat /\ e.epoch \in Nat
        /\ e.correlation \in Optional /\ NotSomeZero(e.correlation) /\ ScopeFits(e)
    BY ScopeOfReceived
  <2> QED BY <2>1 DEF ScopeFits, SpaceScopeFits, OfEntity, InferenceKinds
<1>2. /\ a.version = Version /\ a.kind = r.kind /\ a.class = ReplyClass(r.kind)
      /\ a.namespace = e.namespace /\ a.session = e.session /\ a.space = e.space
      /\ a.channel = None /\ a.entity = Some(entity) /\ a.epoch = e.epoch
      /\ a.tick = 0 /\ a.sequence = 0 /\ a.correlation = e.correlation
      /\ a.type = 0 /\ a.text = r.text /\ a.data = r.data
      /\ a.numbers = r.numbers /\ a.options = NoOptions /\ HasFields(a)
  BY DEF ReplyEnvelope, At, Control, HasFields
<1>3. OptionFields(r.kind) = {} /\ r.kind \notin Opaque
  BY DEF Typed, InferenceKinds, OptionFields, Opaque
<1>4. Some(entity) \in Optional /\ NotSomeZero(Some(entity)) /\ OrZero(Some(entity)) # 0
  BY SomeIsOptional, SomeSurvives DEF NotSomeZero, Some
<1>5. r.text \in Nat /\ r.data \in Nat /\ (r.kind \notin WithText => r.text = 0)
      /\ (r.kind \notin WithData => r.data = 0)
  BY DEF Typed
<1>6. a \in EnvelopesOf(r.kind)
  <2>1. a.options \in [{} -> Optional]
    BY <1>2 DEF NoOptions
  <2>2. a.numbers \in [NumberFields(a.kind) -> Nat] /\ a.options \in [OptionFields(a.kind) -> Optional]
    BY <1>2, <1>3, <2>1 DEF Typed
  <2>3. a.version \in Nat /\ a.class \in Classes
    BY <1>2 DEF Version, Classes, ReplyClass
  <2> QED BY <1>1, <1>2, <1>4, <1>5, <2>2, <2>3, WellFormed, NoneIsOptional
<1>7. EnumsKnown(r.kind, a.numbers)
  BY <1>2 DEF Typed
<1>8. ScopeFits(a)
  BY <1>1, <1>2, <1>4 DEF Typed, ScopeFits, SpaceScopeFits, InferenceKinds, Unscoped,
                          OfSession, OfChannel
<1>9. ASSUME InferenceFits(a) PROVE ControlFits(a)
  BY <1>2, <1>3, <1>9 DEF Typed, ControlFits, InferenceKinds
<1>10. DeliveryFits(r.kind, ReplyClass(r.kind))
  BY DEF Typed, InferenceKinds, DeliveryFits, ReplyClass
<1>11. ASSUME InferenceFits(a) PROVE Validated(a)
  BY <1>1, <1>2, <1>3, <1>4, <1>8, <1>9, <1>10, <1>11, NoneIsOptional DEF Validated
<1>12. a.class # "Unknown" /\ r.kind \in Kinds
  BY <1>2 DEF Typed, ReplyClass, Kinds, OfEntity
<1>13. IsEnvelope(a)
  BY <1>6, <1>7, <1>12 DEF IsEnvelope
<1> QED
  BY <1>2, <1>11, <1>12, <1>13 DEF Good, Encodable

-----------------------------------------------------------------------------
(* What the rules never let through: a message with best effort, about     *)
(* component 0, too large, or a state of no entity, although the core has  *)
(* accepted it.                                                            *)
THEOREM OutboundRefused ==
    ASSUME NEW limit \in Nat, NEW m, IsMessage(m), ~Carried(m, limit)
    PROVE  ~Encodable(OutboundEnvelope(m), limit)
<1>0. PICK a : a = OutboundEnvelope(m)
  OBVIOUS
<1>1. /\ a.kind = (IF IsReplaceable(m.delivery) THEN "EntityState" ELSE "ReliableEvent")
      /\ a.class = m.delivery /\ a.entity = m.entity /\ a.text = 0 /\ a.data = m.size
      /\ a.type = (IF m.component = None THEN 1 ELSE OrZero(m.component))
  BY <1>0 DEF OutboundEnvelope, Control
<1>2. CASE ~(m.size <= limit)
  <2>1. m.size \in Nat
    BY DEF IsMessage
  <2> QED BY <1>0, <1>1, <1>2, <2>1 DEF Encodable
<1>3. CASE m.delivery = "BestEffortEvent"
  <2>1. ~DeliveryFits(a.kind, a.class)
    BY <1>1, <1>3 DEF DeliveryFits, IsReplaceable
  <2> QED BY <1>0, <2>1 DEF Encodable, Validated
<1>4. CASE m.component = Some(0)
  <2>1. a.type = 0 /\ a.kind \in Opaque
    BY <1>1, <1>4, SomeSurvives DEF Some, None, Opaque
  <2> QED BY <1>0, <2>1 DEF Encodable, Validated
<1>5. CASE IsReplaceable(m.delivery) /\ m.entity = None
  <2>1. a.kind = "EntityState" /\ OrZero(a.entity) = 0
    BY <1>1, <1>5 DEF OrZero
  <2> QED BY <1>0, <2>1 DEF Encodable, Validated, ScopeFits, SpaceScopeFits
<1> QED BY <1>2, <1>3, <1>4, <1>5 DEF Carried

(* What decode makes of a frame, whoever wrote it and however carelessly,  *)
(* is an envelope that obeys the rules.                                    *)
THEOREM DecodedIsReceived ==
    ASSUME NEW e, IsEnvelope(e), NEW limit \in Nat, Decodable(Encode(e), limit)
    PROVE  Received(Decode(Encode(e)), limit)
<1> DEFINE w == Encode(e)
<1>0. PICK d : d = Decode(w)
  OBVIOUS
<1>1. PICK kind \in Kinds : e \in EnvelopesOf(kind) /\ EnumsKnown(kind, e.numbers)
  BY DEF IsEnvelope
<1>2. e.kind = kind /\ w.kind = kind /\ w.class = e.class /\ w.version = e.version
  BY <1>1 DEF EnvelopesOf, Encode
<1>3. e.version = Version /\ e.class \in Classes /\ Validated(d)
  BY <1>0, <1>2 DEF Decodable
<1>4. /\ d.version = Version /\ d.kind = kind /\ d.class = e.class /\ HasFields(d)
      /\ d.namespace = e.namespace /\ d.session = e.session /\ d.space = e.space
      /\ d.channel = NonZero(OrZero(e.channel)) /\ d.entity = NonZero(OrZero(e.entity))
      /\ d.correlation = NonZero(OrZero(e.correlation))
      /\ d.epoch = e.epoch /\ d.tick = e.tick /\ d.sequence = e.sequence
  BY <1>0, <1>2, <1>3 DEF Decode, Encode, HasFields
<1>5. /\ d.channel \in Optional /\ d.entity \in Optional /\ d.correlation \in Optional
      /\ d.namespace \in Nat /\ d.session \in Nat /\ d.space \in Nat /\ d.epoch \in Nat
      /\ d.tick \in Nat /\ d.sequence \in Nat
  BY <1>1, <1>4, OptionalAgain DEF EnvelopesOf
<1>6. CASE kind \in Opaque
  <2>1. NumberFields(kind) = {} /\ OptionFields(kind) = {} /\ kind \in WithData
    BY <1>6 DEF Opaque, NumberFields, OptionFields, WithData
  <2>2. OrZero(w.payload) = e.data
    BY <1>2, <1>6, SomeSurvives DEF Encode
  <2>3. d.type = e.type /\ d.text = 0 /\ d.data = e.data
    BY <1>0, <1>2, <1>6, <2>2 DEF Decode, Encode
  <2>8. d.numbers = [f \in {} |-> 0] /\ d.options = [f \in {} |-> None]
    BY <1>0, <1>2, <1>6 DEF Decode
  <2>4. e.type \in Nat /\ e.data \in Nat /\ e.data <= limit
    BY <1>1, <1>2, <1>6, <2>1, <2>2 DEF EnvelopesOf, Decodable, OpaqueDecodes
  <2>5. d.numbers \in [NumberFields(d.kind) -> Nat] /\ d.options \in [OptionFields(d.kind) -> Optional]
    BY <1>4, <2>1, <2>8
  <2>6. d \in EnvelopesOf(d.kind)
    <3>1. d.version \in Nat /\ d.class \in Classes /\ d.kind \in Opaque /\ d.kind \in WithData
      BY <1>3, <1>4, <1>6, <2>1 DEF Version
    <3>2. d.type \in Nat /\ d.text \in Nat /\ d.data \in Nat /\ d.text = 0
      BY <2>3, <2>4
    <3> QED BY <1>4, <1>5, <2>5, <3>1, <3>2, WellFormed
  <2>7. EnumsKnown(kind, d.numbers)
    BY <2>1 DEF EnumsKnown
  <2> QED BY <1>0, <1>3, <1>4, <2>3, <2>4, <2>6, <2>7 DEF Received, IsEnvelope
<1>7. CASE kind \notin Opaque
  <2> DEFINE c == EncodeControl(e)
  <2>1. w.control = {c} /\ ControlIn(w) = c
    BY <1>2, <1>7 DEF Encode, ControlIn
  <2>2. c.numbers = e.numbers /\ c.text = e.text /\ c.data = e.data
    BY DEF EncodeControl
  <2>3. /\ d.type = 0 /\ d.text = e.text /\ d.data = e.data /\ d.numbers = e.numbers
        /\ d.options = [f \in OptionFields(kind) |-> NonZero(c.options[f])]
    BY <1>0, <1>2, <1>7, <2>1, <2>2 DEF Decode
  <2>4. d.options \in [OptionFields(d.kind) -> Optional]
    <3>1. e.options \in [OptionFields(kind) -> Optional]
      BY <1>1 DEF EnvelopesOf
    <3>2. \A f \in OptionFields(kind) : NonZero(c.options[f]) \in Optional
      BY <1>2, <3>1, OptionalAgain DEF EncodeControl
    <3> QED BY <1>4, <2>3, <3>2
  <2>5. /\ e.text \in Nat /\ e.data \in Nat /\ e.text <= limit /\ e.data <= limit
        /\ (kind \notin WithText => e.text = 0) /\ (kind \notin WithData => e.data = 0)
    BY <1>1, <1>2, <1>7, <2>1, <2>2 DEF EnvelopesOf, Decodable, ControlDecodes
  <2>6. d.numbers \in [NumberFields(d.kind) -> Nat]
    BY <1>1, <1>4, <2>3 DEF EnvelopesOf
  <2>7. d \in EnvelopesOf(d.kind)
    BY <1>3, <1>4, <1>5, <1>7, <2>3, <2>4, <2>5, <2>6, WellFormed DEF Version
  <2> QED BY <1>0, <1>1, <1>3, <1>4, <2>3, <2>5, <2>7 DEF Received, IsEnvelope
<1> QED BY <1>6, <1>7

(* message_kind: every kind has a number that the enumeration knows.       *)
LEMMA KindNumbers == \A kind \in Kinds : KindNumber(kind) \in 1 .. 32
<1>1. \A kind \in Kinds : \E n \in 1 .. 32 : KindOrder[n] = kind
  BY DEF Kinds, Unscoped, OfSession, OfChannel, OfEntity, InferenceKinds, KindOrder
<1> QED BY <1>1 DEF KindNumber

(* A decoded envelope about a channel or an entity names a place that      *)
(* answers can be about.                                                   *)
LEMMA PlaceOfReceived ==
    ASSUME NEW e, Received(e, Limit), e.kind \in OfChannel \cup OfEntity
    PROVE  IsPlace(PlaceOf(e)) /\ EntityOf(e) \in Nat \ {0}
<1>1. /\ e.namespace \in Nat /\ e.session \in Nat /\ e.space \in Nat /\ e.epoch \in Nat
      /\ ScopeFits(e)
  BY ScopeOfReceived
<1> QED BY <1>1 DEF IsPlace, PlaceOf, EntityOf, ScopeFits, SpaceScopeFits

-----------------------------------------------------------------------------
(* The envelopes a writer may be given, those it takes, the messages the   *)
(* core may have queued, and the frames of the clients.                    *)
Envelope == UNION {EnvelopesOf(kind) : kind \in Kinds}
Sayable == {e \in Envelope : IsEnvelope(e) /\ (Encodable(e, Limit) \/ Unchecked(e))}
GoodEnvelopes == {e \in Envelope : Good(e, Limit)}
Messages == Relayed \cup PolicyMessages
SentFrames == {Encode(e) : e \in ClientEnvelopes}

Inv ==
    /\ uplink \in Seq(SentFrames)
    /\ \A e \in unrouted : Received(e, Limit) /\ e.kind = "InferenceRequested"
    /\ outbound \in Seq(Messages) /\ batch \in Seq(Messages)
    /\ writer \in Seq(Sayable)
    /\ answers \in Seq(GoodEnvelopes) /\ downlink \in Seq({Encode(e) : e \in GoodEnvelopes})
    /\ Len(downlink) = Len(answers)
    /\ \A i \in 1 .. Len(answers) : downlink[i] = Encode(answers[i])
    /\ \A d \in datagrams : d.meant \in GoodEnvelopes /\ d.frame = Encode(d.meant)
    /\ \A e \in over : Unchecked(e)

(* What nobody checked is said in the middle of a session.                 *)
LEMMA UncheckedKinds ==
    ASSUME NEW e, Unchecked(e)
    PROVE  e.kind \notin {"Capabilities", "Authenticated", "ProtocolError"}
<1>1. CASE e.kind = "Snapshot"
  BY <1>1
<1>2. ASSUME NEW m \in PolicyMessages, e = OutboundEnvelope(m)
      PROVE  e.kind \in {"EntityState", "ReliableEvent"}
  BY <1>2 DEF OutboundEnvelope, Control
<1>3. CASE e.kind \in InferenceKinds
  BY <1>3 DEF InferenceKinds
<1> QED BY <1>1, <1>2, <1>3 DEF Unchecked

(* An envelope that can be encoded, or that nobody checked, may be said.   *)
LEMMA SayableIsIn ==
    ASSUME NEW e, IsEnvelope(e), Good(e, Limit) \/ Unchecked(e)
    PROVE  e \in Sayable
<1>1. PICK kind \in Kinds : e \in EnvelopesOf(kind)
  BY DEF IsEnvelope
<1> QED BY <1>1 DEF Sayable, Envelope, Good

(* What the writer can encode may be said, and is one of its envelopes.    *)
LEMMA GoodIsIn ==
    ASSUME NEW e, Good(e, Limit)
    PROVE  e \in GoodEnvelopes /\ e \in Sayable
<1>1. PICK kind \in Kinds : e \in EnvelopesOf(kind)
  BY DEF Good, IsEnvelope
<1> QED BY <1>1, SayableIsIn DEF GoodEnvelopes, Envelope, Good

(* What decode gives a handler, of a frame some client sent.               *)
LEMMA FrameIsReceived ==
    ASSUME NEW f \in ClientEnvelopes, Decodable(Encode(f), Limit)
    PROVE  Received(Decode(Encode(f)), Limit) /\ Decode(Encode(f)).kind = f.kind
<1>1. IsEnvelope(f) /\ Limit \in Nat
  BY ExchangeAssumption
<1>2. Decode(Encode(f)).kind = f.kind
  BY DEF Decode, Encode
<1> QED BY <1>1, <1>2, DecodedIsReceived

(* A message of the core becomes what may be said, of one of two kinds.    *)
LEMMA MessageIsSayable ==
    ASSUME NEW m \in Messages
    PROVE  /\ OutboundEnvelope(m) \in Sayable
           /\ OutboundEnvelope(m).kind \in Publications
<1>0. OutboundEnvelope(m).kind \in Publications
  BY DEF OutboundEnvelope, Control, Publications
<1>1. Limit \in Nat
  BY ExchangeAssumption
<1>2. CASE m \in Relayed
  <2>1. PICK f \in ClientEnvelopes : /\ f.kind \in Publications /\ Decodable(Encode(f), Limit)
                                    /\ m = Published(Decode(Encode(f)))
    BY <1>2 DEF Relayed
  <2>2. PICK e : e = Decode(Encode(f))
    OBVIOUS
  <2>3. Received(e, Limit) /\ e.kind \in {"ReliableEvent", "EntityState"}
    BY <2>1, <2>2, FrameIsReceived DEF Publications
  <2>4. Good(OutboundEnvelope(Published(e)), Limit)
    BY <1>1, <2>3, RelayedGood
  <2> QED BY <1>0, <2>1, <2>2, <2>4, GoodIsIn
<1>3. CASE m \in PolicyMessages
  <2>1. IsMessage(m)
    BY <1>3, ExchangeAssumption
  <2>2. IsEnvelope(OutboundEnvelope(m))
        /\ (Carried(m, Limit) => Good(OutboundEnvelope(m), Limit))
    BY <1>1, <2>1, OutboundGood
  <2>3. ~Carried(m, Limit) => Unchecked(OutboundEnvelope(m))
    BY <1>3 DEF Unchecked
  <2> QED BY <1>0, <2>2, <2>3, SayableIsIn
<1> QED BY <1>2, <1>3 DEF Messages

(* What is flushed are the envelopes of messages.                          *)
LEMMA FlushedIsSayable ==
    ASSUME NEW ms \in Seq(Messages)
    PROVE  /\ EnvelopesFor(ms) \in Seq(Sayable)
           /\ \A i \in 1 .. Len(EnvelopesFor(ms)) : EnvelopesFor(ms)[i].kind \in Publications
<1>1. \A i \in 1 .. Len(ms) : /\ OutboundEnvelope(ms[i]) \in Sayable
                              /\ OutboundEnvelope(ms[i]).kind \in Publications
  BY MessageIsSayable
<1> DEFINE es == EnvelopesFor(ms)
<1>2. es = [i \in 1 .. Len(ms) |-> OutboundEnvelope(ms[i])] /\ Len(ms) \in Nat
  BY DEF EnvelopesFor
<1> HIDE DEF es
<1>3. es \in Seq(Sayable) /\ Len(es) = Len(ms)
  BY <1>1, <1>2
<1>4. \A i \in 1 .. Len(es) : es[i].kind \in Publications
  BY <1>1, <1>2, <1>3
<1> QED BY <1>3, <1>4 DEF es

-----------------------------------------------------------------------------
(* What the reader may add to what is told when a frame or the end of its  *)
(* loop comes, and where that leaves the connection.                       *)
Adds(at, next, s) ==
    \/ /\ next = IF at = "authenticated" THEN "ending" ELSE "closed"
       /\ Len(s) <= 1 /\ \A i \in 1 .. Len(s) : s[i].kind = "ProtocolError"
    \/ /\ at = "connected" /\ next = "greeted"
       /\ Len(s) = 1 /\ s[1].kind = "Capabilities"
    \/ /\ at = "greeted" /\ next = "authenticated"
       /\ Len(s) = 1 /\ s[1].kind = "Authenticated"
    \/ /\ at = "authenticated" /\ next = at
       /\ \A i \in 1 .. Len(s) : s[i].kind # "ProtocolError"

ReaderSays ==
    /\ \E s \in Seq(Sayable) : writer' = writer \o s /\ Adds(stage, stage', s)
    /\ outbound' \in Seq(Messages)

(* send_error: the last thing the reader says.                             *)
LEMMA FailSays ==
    ASSUME NEW related \in 0 .. 32, NEW code \in 1 .. 11, Inv, Fail(related, code)
    PROVE  ReaderSays
<1>1. 1 \in 0 .. Limit /\ Limit \in Nat
  BY ExchangeAssumption
<1> DEFINE x == ErrorEnvelope(related, code, 1)
<1>2. x \in Sayable /\ x.kind = "ProtocolError"
  BY <1>1, ErrorGood, GoodIsIn DEF ErrorEnvelope, Reliable, Control
<1>3. /\ writer' = writer \o <<x>> /\ outbound' = outbound
      /\ stage' = IF stage = "authenticated" THEN "ending" ELSE "closed"
  BY DEF Fail, Outcome, Ending
<1> HIDE DEF x
<1>4. <<x>> \in Seq(Sayable) /\ Len(<<x>>) = 1 /\ <<x>>[1] = x
  BY <1>2
<1>5. Adds(stage, stage', <<x>>)
  BY <1>2, <1>3, <1>4 DEF Adds
<1> QED BY <1>3, <1>4, <1>5 DEF ReaderSays, Inv

(* Nothing at all.                                                         *)
LEMMA SilenceSays ==
    ASSUME Inv, writer' = writer, outbound' = outbound, Adds(stage, stage', <<>>)
    PROVE  ReaderSays
<1>1. <<>> \in Seq(Sayable) /\ writer' = writer \o <<>>
  BY DEF Inv
<1>2. outbound' \in Seq(Messages)
  BY DEF Inv
<1> QED BY <1>1, <1>2 DEF ReaderSays

(* One envelope that is no error, in an authenticated connection.          *)
LEMMA OutcomeSays ==
    ASSUME NEW x \in Sayable, x.kind # "ProtocolError", Inv,
           stage = "authenticated", stage' = stage,
           writer' = writer \o <<x>>, outbound' = outbound
    PROVE  ReaderSays
<1>1. <<x>> \in Seq(Sayable) /\ Len(<<x>>) = 1 /\ <<x>>[1] = x
  OBVIOUS
<1>2. Adds(stage, stage', <<x>>)
  BY <1>1 DEF Adds
<1> QED BY <1>1, <1>2 DEF ReaderSays, Inv

(* flush_outbound: its answers and all the core had.                       *)
LEMMA FlushSays ==
    ASSUME NEW es \in Seq(Sayable), NEW ms \in Seq(Messages), Inv,
           \A i \in 1 .. Len(es) : es[i].kind # "ProtocolError",
           stage = "authenticated", Flush(es, ms)
    PROVE  ReaderSays
<1> DEFINE q == EnvelopesFor(outbound \o ms)
           s == es \o q
<1>1. outbound \o ms \in Seq(Messages)
  BY DEF Inv
<1>2. q \in Seq(Sayable) /\ \A i \in 1 .. Len(q) : q[i].kind \in Publications
  BY <1>1, FlushedIsSayable
<1>3. writer' = writer \o es \o q /\ stage' = stage /\ outbound' = <<>>
  BY DEF Flush
<1> HIDE DEF q
<1>4. s \in Seq(Sayable) /\ writer' = writer \o s
  <2>1. writer \in Seq(Sayable)
    BY DEF Inv
  <2> QED BY <1>2, <1>3, <2>1
<1>5. \A i \in 1 .. Len(s) : s[i].kind # "ProtocolError"
  <2> SUFFICES ASSUME NEW i \in 1 .. Len(s) PROVE s[i].kind # "ProtocolError"
    OBVIOUS
  <2>1. CASE i <= Len(es)
    BY <1>2, <2>1
  <2>2. CASE i > Len(es)
    <3>1. s[i] = q[i - Len(es)] /\ i - Len(es) \in 1 .. Len(q)
      BY <1>2, <2>2
    <3> QED BY <1>2, <3>1 DEF Publications
  <2> QED BY <2>1, <2>2
<1> HIDE DEF s
<1>6. Adds(stage, stage', s)
  BY <1>3, <1>5 DEF Adds
<1>7. outbound' \in Seq(Messages)
  BY <1>3
<1> QED BY <1>4, <1>6, <1>7 DEF ReaderSays

(* handle_hello, handle_authenticate and handle_authenticated: whatever    *)
(* was decoded, all they hand to the writer can be encoded or is what      *)
(* nobody checked, and an error is the last of it.                         *)
LEMMA HandlersSay ==
    ASSUME NEW e, Received(e, Limit), Inv,
           \/ stage = "connected" /\ HandleHello(e)
           \/ stage = "greeted" /\ HandleAuthenticate(e)
           \/ stage = "authenticated" /\ HandleAuthenticated(e)
    PROVE  ReaderSays
<1>1. e.kind \in Kinds /\ KindNumber(e.kind) \in 0 .. 32 /\ KindNumber("Authenticate") \in 0 .. 32
  <2>1. e.kind \in Kinds
    BY ScopeOfReceived
  <2>2. "Authenticate" \in Kinds
    BY DEF Kinds, Unscoped
  <2>3. \A kind \in Kinds : KindNumber(kind) \in 0 .. 32
    BY KindNumbers
  <2> QED BY <2>1, <2>2, <2>3
<1>2. Limit \in Nat /\ 2 \in 0 .. Limit
  BY ExchangeAssumption
<1>3. ASSUME NEW code \in 1 .. 11,
             Fail(KindNumber(e.kind), code) \/ Fail(KindNumber("Authenticate"), code)
      PROVE  ReaderSays
  BY <1>1, <1>3, FailSays
<1>4. ASSUME NEW x \in Sayable, NEW next, Outcome(<<x>>, next),
             \/ stage = "connected" /\ next = "greeted" /\ x.kind = "Capabilities"
             \/ stage = "greeted" /\ next = "authenticated" /\ x.kind = "Authenticated"
      PROVE  ReaderSays
  <2>1. <<x>> \in Seq(Sayable) /\ Len(<<x>>) = 1 /\ <<x>>[1] = x
    OBVIOUS
  <2>2. writer' = writer \o <<x>> /\ stage' = next /\ outbound' = outbound
    BY <1>4 DEF Outcome
  <2>3. Adds(stage, stage', <<x>>)
    BY <1>4, <2>1, <2>2 DEF Adds
  <2> QED BY <2>1, <2>2, <2>3 DEF ReaderSays, Inv
<1>5. CASE stage = "connected" /\ HandleHello(e)
  <2>1. /\ CapabilitiesEnvelope(2) \in Sayable
        /\ CapabilitiesEnvelope(2).kind = "Capabilities"
    BY <1>2, CapabilitiesGood, GoodIsIn DEF CapabilitiesEnvelope, Reliable, Control
  <2>2. CASE Outcome(<<CapabilitiesEnvelope(2)>>, "greeted")
    BY <1>4, <1>5, <2>1, <2>2
  <2>3. CASE Fail(KindNumber(e.kind), 3)
    BY <1>3, <2>3
  <2> QED BY <1>5, <2>2, <2>3 DEF HandleHello
<1>6. CASE stage = "greeted" /\ HandleAuthenticate(e)
  <2>1. /\ AuthenticatedEnvelope(Principal) \in Sayable
        /\ AuthenticatedEnvelope(Principal).kind = "Authenticated"
    <3>1. Principal \in Nat \ {0}
      BY DEF Principal
    <3> QED BY <1>2, <3>1, AuthenticatedGood, GoodIsIn DEF AuthenticatedEnvelope, Reliable, Control
  <2>2. CASE Outcome(<<AuthenticatedEnvelope(Principal)>>, "authenticated")
    BY <1>4, <1>6, <2>1, <2>2
  <2>3. ASSUME NEW code \in {4, 5}, Fail(KindNumber("Authenticate"), code) PROVE ReaderSays
    BY <1>3, <2>3
  <2>4. CASE Fail(KindNumber(e.kind), 4)
    BY <1>3, <2>4
  <2> QED BY <1>6, <2>2, <2>3, <2>4 DEF HandleAuthenticate
<1>7. CASE stage = "authenticated" /\ HandleAuthenticated(e)
  <2>1. CASE Outcome(<<>>, stage)
    <3>1. writer' = writer /\ stage' = stage /\ outbound' = outbound
      BY <2>1 DEF Outcome, Inv
    <3>2. Adds(stage, stage', <<>>)
      BY <1>7, <3>1 DEF Adds
    <3> QED BY <3>1, <3>2, SilenceSays
  <2>2. ASSUME NEW code \in CoreErrors \cup {3}, Fail(KindNumber(e.kind), code)
        PROVE  ReaderSays
    <3>1. code \in 1 .. 11
      BY DEF CoreErrors
    <3> QED BY <1>3, <2>2, <3>1
  <2>0. <<>> \in Seq(Messages) /\ <<>> \in Seq(Sayable) /\ Len(<<>>) = 0
    OBVIOUS
  <2>3. CASE e.kind = "SubscribeSpace" /\ HandleSubscribe(e)
    <3> DEFINE a == SubscriptionAccepted(e)
               b == EntityEnteredEnvelope(PlaceOf(e), EntityOf(e))
    <3>1. IsPlace(PlaceOf(e)) /\ EntityOf(e) \in Nat \ {0}
      BY <2>3, PlaceOfReceived DEF OfChannel
    <3>2. a \in Sayable /\ a.kind = "SubscriptionAccepted"
      <4>1. PICK kind : e \in EnvelopesOf(kind)
        BY DEF Received, IsEnvelope
      <4>2. a.kind = "SubscriptionAccepted"
        BY <4>1 DEF SubscriptionAccepted, EnvelopesOf
      <4> QED BY <1>2, <2>3, <4>2, SubscriptionAcceptedGood, GoodIsIn
    <3>3. b \in Sayable /\ b.kind = "EntityEntered"
      <4>1. b.kind = "EntityEntered"
        BY DEF EntityEnteredEnvelope, Reliable, Control, At
      <4> QED BY <1>2, <3>1, <4>1, EntityEnteredGood, GoodIsIn
    <3>4. Flush(<<a, b>>, <<>>)
      BY <2>3 DEF HandleSubscribe
    <3> HIDE DEF a, b
    <3>5. <<a, b>> \in Seq(Sayable) /\ \A i \in 1 .. Len(<<a, b>>) : <<a, b>>[i].kind # "ProtocolError"
      BY <3>2, <3>3
    <3> QED BY <1>7, <2>0, <3>4, <3>5, FlushSays
  <2>4. CASE e.kind = "SnapshotRequest" /\ HandleSnapshot(e)
    <3>1. PICK size \in SnapshotSizes : Outcome(<<SnapshotReply(e, size)>>, stage)
      BY <2>4 DEF HandleSnapshot
    <3>2. PICK x : x = SnapshotReply(e, size)
      OBVIOUS
    <3>3. size \in Nat
      BY ExchangeAssumption
    <3>4. IsEnvelope(x) /\ x.kind = "Snapshot" /\ x.data = size /\ (size <= Limit => Good(x, Limit))
      BY <1>2, <2>4, <3>2, <3>3, SnapshotReplyGood
    <3>5. ~(size <= Limit) => Unchecked(x)
      BY <1>2, <3>3, <3>4 DEF Unchecked
    <3>6. x \in Sayable /\ x.kind # "ProtocolError"
      BY <3>4, <3>5, SayableIsIn
    <3>7. writer' = writer \o <<x>> /\ stage' = stage /\ outbound' = outbound
      BY <3>1, <3>2 DEF Outcome
    <3> QED BY <1>7, <3>6, <3>7, OutcomeSays
  <2>5. CASE Flush(<<>>, <<>>)
    <3>1. \A i \in 1 .. Len(<<>>) : <<>>[i].kind # "ProtocolError"
      BY <2>0
    <3> QED BY <1>7, <2>0, <2>5, <3>1, FlushSays
  <2>6. CASE e.kind = "SpaceTransition" /\ HandleCommand(e)
    <3> DEFINE l == EntityLeftEnvelope(PlaceOf(e), OrZero(e.entity), 3)
               n == EntityEnteredEnvelope(Destination(e), OrZero(e.entity))
    <3>1. IsPlace(PlaceOf(e))
      BY <2>6, PlaceOfReceived DEF OfEntity
    <3>2. OrZero(e.entity) \in Nat \ {0}
      <4>1. e.entity \in Optional /\ NotSomeZero(e.entity) /\ ScopeFits(e)
        BY ScopeOfReceived
      <4>2. OrZero(e.entity) # 0
        BY <2>6, <4>1 DEF ScopeFits, SpaceScopeFits, OfEntity
      <4> QED BY <4>1, <4>2, OptionSurvives
    <3>3. IsPlace(Destination(e))
      <4>1. e \in EnvelopesOf("SpaceTransition") /\ Validated(e)
        BY <2>6 DEF Received, IsEnvelope, EnvelopesOf
      <4>2. e.numbers.to \in Nat /\ e.numbers.epoch \in Nat
        <5>1. NumberFields("SpaceTransition") = {"from", "to", "epoch"}
          BY DEF NumberFields
        <5>2. e.numbers \in [{"from", "to", "epoch"} -> Nat]
          BY <4>1, <5>1 DEF EnvelopesOf
        <5> QED BY <5>2
      <4>3. e.numbers.to # 0 /\ e.numbers.epoch # 0
        BY <2>6, <4>1 DEF Validated, Opaque, ControlFits, TransitionFits
      <4> QED BY <3>1, <4>2, <4>3 DEF Destination, PlaceOf, IsPlace
    <3>4. l \in Sayable /\ n \in Sayable
      BY <1>2, <3>1, <3>2, <3>3, EntityLeftGood, EntityEnteredGood, GoodIsIn
    <3>5. l.kind = "EntityLeft" /\ n.kind = "EntityEntered"
      BY DEF EntityLeftEnvelope, EntityEnteredEnvelope, Reliable, Control, At
    <3>6. Flush(<<>>, <<>>) \/ \E es \in {<<l>>, <<n>>, <<l, n>>} : Flush(es, <<>>)
      BY <2>6 DEF HandleCommand
    <3> HIDE DEF l, n
    <3>7. \A es \in {<<l>>, <<n>>, <<l, n>>} :
             es \in Seq(Sayable) /\ \A i \in 1 .. Len(es) : es[i].kind # "ProtocolError"
      <4>1. /\ <<l>> \in Seq(Sayable) /\ <<n>> \in Seq(Sayable) /\ <<l, n>> \in Seq(Sayable)
            /\ Len(<<l>>) = 1 /\ Len(<<n>>) = 1 /\ Len(<<l, n>>) = 2
            /\ <<l>>[1] = l /\ <<n>>[1] = n /\ <<l, n>>[1] = l /\ <<l, n>>[2] = n
        BY <3>4
      <4>2. \A i \in 1 .. Len(<<l>>) : <<l>>[i].kind # "ProtocolError"
        BY <3>5, <4>1
      <4>3. \A i \in 1 .. Len(<<n>>) : <<n>>[i].kind # "ProtocolError"
        BY <3>5, <4>1
      <4>4. \A i \in 1 .. Len(<<l, n>>) : <<l, n>>[i].kind # "ProtocolError"
        BY <3>5, <4>1
      <4> QED BY <4>1, <4>2, <4>3, <4>4
    <3> QED BY <1>7, <2>5, <2>0, <3>6, <3>7, FlushSays
  <2>7. CASE e.kind \in Publications /\ HandlePublication(e)
    <3>1. ASSUME NEW m \in PolicyMessages, Flush(<<>>, <<m>>) PROVE ReaderSays
      <4>1. <<m>> \in Seq(Messages)
        BY DEF Messages
      <4>2. \A i \in 1 .. Len(<<>>) : <<>>[i].kind # "ProtocolError"
        BY <2>0
      <4> QED BY <1>7, <2>0, <3>1, <4>1, <4>2, FlushSays
    <3>2. CASE Flush(<<>>, <<Published(e)>>)
      <4> DEFINE x == OutboundEnvelope(Published(e))
      <4>1. Good(x, Limit) /\ x.kind \in Publications
        BY <1>2, <2>7, RelayedGood DEF Publications, OutboundEnvelope, Control
      <4>2. x \in Sayable
        BY <4>1, GoodIsIn
      <4> HIDE DEF x
      <4> DEFINE q == EnvelopesFor(outbound)
                 s == q \o <<x>>
      <4>3. outbound \in Seq(Messages) /\ writer \in Seq(Sayable)
        BY DEF Inv
      <4>4. EnvelopesFor(outbound \o <<Published(e)>>) = s
        BY <4>3 DEF EnvelopesFor, x
      <4>5. q \in Seq(Sayable) /\ \A i \in 1 .. Len(q) : q[i].kind \in Publications
        BY <4>3, FlushedIsSayable
      <4>6. writer' = writer \o <<>> \o s /\ stage' = stage /\ outbound' = <<>>
        BY <3>2, <4>4 DEF Flush
      <4> HIDE DEF q
      <4>7. s \in Seq(Sayable) /\ \A i \in 1 .. Len(s) : s[i].kind \in Publications
        BY <4>1, <4>2, <4>5
      <4> HIDE DEF s
      <4>8. writer' = writer \o s
        BY <4>3, <4>6, <4>7
      <4>9. Adds(stage, stage', s)
        BY <1>7, <4>6, <4>7 DEF Adds, Publications
      <4> QED BY <2>0, <4>6, <4>7, <4>8, <4>9 DEF ReaderSays
    <3> QED BY <2>5, <2>7, <3>1, <3>2 DEF HandlePublication
  <2> QED BY <1>7, <2>1, <2>2, <2>3, <2>4, <2>5, <2>6, <2>7
          DEF HandleAuthenticated, HandleCommand
<1> QED BY <1>5, <1>6, <1>7

-----------------------------------------------------------------------------
(* What a step of the reader does to the writer's channel.                 *)
LEMMA ReaderSteps ==
    ASSUME Inv, ReadFrame \/ EndLoop
    PROVE  ReaderSays /\ stage \in Reading /\ UNCHANGED <<batch, told>>
<1>1. CASE EndLoop
  <2>1. ASSUME NEW code \in {1, 3}, Fail(UnknownNumber, code) PROVE ReaderSays
    BY <2>1, FailSays DEF UnknownNumber
  <2>2. ASSUME Outcome(<<>>, Ending) PROVE ReaderSays
    <3>1. /\ writer' = writer /\ outbound' = outbound
          /\ stage' = IF stage = "authenticated" THEN "ending" ELSE "closed"
      BY <2>2 DEF Outcome, Ending, Inv
    <3>2. Adds(stage, stage', <<>>)
      BY <3>1 DEF Adds
    <3> QED BY <3>1, <3>2, SilenceSays
  <2>3. (\E code \in {1, 3} : Fail(UnknownNumber, code)) \/ Outcome(<<>>, Ending)
    BY <1>1 DEF EndLoop
  <2>4. ReaderSays
    BY <2>1, <2>2, <2>3
  <2> QED BY <1>1, <2>4 DEF EndLoop
<1>2. CASE ReadFrame
  <2>1. PICK f \in ClientEnvelopes : Head(uplink) = Encode(f)
    BY <1>2 DEF ReadFrame, Inv, SentFrames
  <2>2. CASE ~Decodable(Head(uplink), Limit)
    <3>1. Fail(UnknownNumber, 1)
      BY <1>2, <2>2 DEF ReadFrame
    <3> QED BY <1>2, <3>1, FailSays DEF ReadFrame, UnknownNumber
  <2>3. CASE Decodable(Head(uplink), Limit)
    <3>1. PICK e : e = Decode(Head(uplink))
      OBVIOUS
    <3>2. Received(e, Limit)
      BY <2>1, <2>3, <3>1, FrameIsReceived
    <3>3. \/ stage = "connected" /\ HandleHello(e)
          \/ stage = "greeted" /\ HandleAuthenticate(e)
          \/ stage = "authenticated" /\ HandleAuthenticated(e)
      BY <1>2, <2>3, <3>1 DEF ReadFrame
    <3> QED BY <1>2, <3>2, <3>3, HandlersSay DEF ReadFrame
  <2> QED BY <2>2, <2>3
<1> QED BY <1>1, <1>2

(* What others tell a connection.                                          *)
LEMMA OthersTell ==
    ASSUME Inv, LifecycleTells \/ CoordinatorReplies
    PROVE  \E x \in Sayable : x.kind \in FromOthers /\ Tell(x)
<1>0. Limit \in Nat
  BY ExchangeAssumption
<1>1. CASE LifecycleTells
  <2>1. PICK p \in Places :
          \/ Tell(EntityEnteredEnvelope(p, EntityOf(p)))
          \/ \E reason \in 2 .. 4 : Tell(EntityLeftEnvelope(p, EntityOf(p), reason))
    BY <1>1 DEF LifecycleTells
  <2>2. IsPlace(p) /\ EntityOf(p) \in Nat \ {0}
    BY ExchangeAssumption DEF IsPlace, EntityOf
  <2>3. /\ EntityEnteredEnvelope(p, EntityOf(p)) \in Sayable
        /\ EntityEnteredEnvelope(p, EntityOf(p)).kind = "EntityEntered"
    BY <1>0, <2>2, EntityEnteredGood, GoodIsIn DEF EntityEnteredEnvelope, Reliable, Control, At
  <2>4. ASSUME NEW reason \in 2 .. 4
        PROVE  /\ EntityLeftEnvelope(p, EntityOf(p), reason) \in Sayable
               /\ EntityLeftEnvelope(p, EntityOf(p), reason).kind = "EntityLeft"
    <3>1. reason \in 1 .. 4
      OBVIOUS
    <3>2. Good(EntityLeftEnvelope(p, EntityOf(p), reason), Limit)
      BY <1>0, <2>2, <3>1, EntityLeftGood
    <3> QED BY <3>2, GoodIsIn DEF EntityLeftEnvelope, Reliable, Control, At
  <2> QED BY <2>1, <2>3, <2>4 DEF FromOthers
<1>2. CASE CoordinatorReplies
  <2>1. PICK e \in unrouted, r \in ProviderReplies :
           Tell(ReplyEnvelope(e, EntityOf(e), r.kind, r.numbers, r.text, r.data))
    BY <1>2 DEF CoordinatorReplies
  <2>2. Received(e, Limit) /\ e.kind = "InferenceRequested"
    BY DEF Inv
  <2>3. EntityOf(e) \in Nat \ {0}
    BY <2>2, PlaceOfReceived DEF OfEntity, InferenceKinds
  <2>4. Typed(r)
    BY ExchangeAssumption DEF Typed
  <2>5. PICK a : a = ReplyEnvelope(e, EntityOf(e), r.kind, r.numbers, r.text, r.data)
    OBVIOUS
  <2>6. /\ IsEnvelope(a) /\ a.kind \in InferenceKinds
        /\ a.text + a.data <= Limit /\ InferenceFits(a) => Good(a, Limit)
    BY <1>0, <2>2, <2>3, <2>4, <2>5, ReplyGood DEF Typed
  <2>7. a.text \in Nat /\ a.data \in Nat
    BY <2>6 DEF IsEnvelope, EnvelopesOf
  <2>8. ~(a.text + a.data <= Limit /\ InferenceFits(a)) => Unchecked(a)
    BY <1>0, <2>6, <2>7 DEF Unchecked
  <2>9. a \in Sayable
    BY <2>6, <2>8, SayableIsIn
  <2> QED BY <2>1, <2>5, <2>6, <2>9 DEF FromOthers
<1> QED BY <1>1, <1>2

(* A new connection has nothing on its way.                                *)
THEOREM InitInv == Init => Inv
BY DEF Init, Inv

(* Every step of clients, reader, core, worker, coordinator, drain task    *)
(* and writer keeps the inductive invariant.                               *)
THEOREM NextInv == Inv /\ [Next]_vars => Inv'
<1> SUFFICES ASSUME Inv, [Next]_vars PROVE Inv'
  OBVIOUS
<1>0. /\ uplink \in Seq(SentFrames) /\ writer \in Seq(Sayable)
      /\ outbound \in Seq(Messages) /\ batch \in Seq(Messages)
      /\ answers \in Seq(GoodEnvelopes) /\ downlink \in Seq({Encode(e) : e \in GoodEnvelopes})
      /\ \A e \in unrouted : Received(e, Limit) /\ e.kind = "InferenceRequested"
      /\ Limit \in Nat
  BY ExchangeAssumption DEF Inv
<1>1. ASSUME NEW e \in ClientEnvelopes, Send(e)
      PROVE  Inv'
  <2>1. Encode(e) \in SentFrames
    BY DEF SentFrames
  <2> QED BY <1>0, <1>1, <2>1 DEF Send, told, Inv
<1>2. ASSUME ReadFrame \/ EndLoop
      PROVE  Inv'
  <2>1. ReaderSays /\ UNCHANGED <<batch, told>>
    BY <1>2, ReaderSteps
  <2>2. writer' \in Seq(Sayable) /\ outbound' \in Seq(Messages)
    BY <1>0, <2>1 DEF ReaderSays
  <2>3. uplink' \in Seq(SentFrames)
    <3>1. uplink' = uplink \/ (uplink # <<>> /\ uplink' = Tail(uplink))
      BY <1>2 DEF ReadFrame, EndLoop
    <3>2. uplink \in Seq(SentFrames)
      BY <1>0
    <3> QED BY <3>1, <3>2
  <2>4. \A e \in unrouted' : Received(e, Limit) /\ e.kind = "InferenceRequested"
    <3>1. CASE unrouted' = unrouted
      BY <1>0, <3>1
    <3>2. CASE unrouted' # unrouted
      <4>1. /\ uplink # <<>> /\ Decodable(Head(uplink), Limit)
            /\ Decode(Head(uplink)).kind = "InferenceRequested"
            /\ unrouted' = unrouted \cup {Decode(Head(uplink))}
        BY <1>2, <3>2 DEF ReadFrame, EndLoop
      <4>2. PICK f \in ClientEnvelopes : Head(uplink) = Encode(f)
        BY <1>0, <4>1 DEF SentFrames
      <4>3. Received(Decode(Head(uplink)), Limit)
        BY <4>1, <4>2, FrameIsReceived
      <4> QED BY <1>0, <4>1, <4>3
    <3> QED BY <3>1, <3>2
  <2> QED BY <2>1, <2>2, <2>3, <2>4 DEF Inv, told
<1>3. CASE Disconnect
  <2>1. outbound' \in Seq(Messages) /\ batch' \in Seq(Messages)
    <3>1. <<>> \in Seq(Messages)
      OBVIOUS
    <3> QED BY <1>0, <1>3, <3>1 DEF Disconnect
  <2>2. UNCHANGED <<uplink, unrouted, writer, downlink, answers, datagrams, over>>
    BY <1>3 DEF Disconnect, told
  <2> QED BY <2>1, <2>2 DEF Inv
<1>4. CASE CoreQueues
  <2>1. PICK m \in Messages : outbound' = Append(outbound, m)
    BY <1>4 DEF CoreQueues, Messages
  <2>2. UNCHANGED <<uplink, unrouted, batch, writer, downlink, answers, datagrams, over>>
    BY <1>4 DEF CoreQueues, Notice, told
  <2>3. outbound' \in Seq(Messages)
    BY <1>0, <2>1
  <2> QED BY <2>2, <2>3 DEF Inv
<1>5. ASSUME LifecycleTells \/ CoordinatorReplies
      PROVE  Inv'
  <2>1. PICK x \in Sayable : Tell(x)
    BY <1>5, OthersTell
  <2>2. writer' \in Seq(Sayable) /\ outbound' = outbound
    BY <1>0, <2>1 DEF Tell
  <2>3. UNCHANGED <<uplink, unrouted, batch, downlink, answers, datagrams, over>>
    BY <1>5 DEF LifecycleTells, CoordinatorReplies, Notice, told
  <2> QED BY <2>2, <2>3 DEF Inv
<1>6. CASE TakeOutbound
  <2>1. outbound' \in Seq(Messages) /\ batch' \in Seq(Messages)
    <3>1. <<>> \in Seq(Messages)
      OBVIOUS
    <3> QED BY <1>0, <1>6, <3>1 DEF TakeOutbound
  <2>2. UNCHANGED <<uplink, unrouted, writer, downlink, answers, datagrams, over>>
    BY <1>6 DEF TakeOutbound, told
  <2> QED BY <2>1, <2>2 DEF Inv
<1>7. CASE DrainNext
  <2>1. PICK e : e = OutboundEnvelope(Head(batch))
    OBVIOUS
  <2>2. batch' \in Seq(Messages) /\ Head(batch) \in Messages
    BY <1>0, <1>7 DEF DrainNext
  <2>3. e \in Sayable
    BY <2>1, <2>2, MessageIsSayable
  <2>4. UNCHANGED <<uplink, unrouted, outbound, downlink, answers, over>>
    BY <1>7 DEF DrainNext
  <2>5. writer' \in Seq(Sayable)
    <3>1. writer' = writer \/ writer' = Append(writer, e)
      BY <1>7, <2>1 DEF DrainNext
    <3>2. writer \in Seq(Sayable)
      BY <1>0
    <3> QED BY <2>3, <3>1, <3>2
  <2>6. \A d \in datagrams' : d.meant \in GoodEnvelopes /\ d.frame = Encode(d.meant)
    <3>1. Encodable(e, Limit) => e \in GoodEnvelopes
      BY <2>3 DEF Sayable, GoodEnvelopes, Good
    <3>2. \/ datagrams' = datagrams
          \/ Encodable(e, Limit) /\ datagrams' = datagrams \cup {[frame |-> Encode(e), meant |-> e]}
      BY <1>7, <2>1 DEF DrainNext
    <3> QED BY <3>1, <3>2 DEF Inv
  <2> QED BY <2>2, <2>4, <2>5, <2>6 DEF Inv
<1>8. CASE WriteNext
  <2>1. PICK e : e = Head(writer)
    OBVIOUS
  <2>2. /\ e \in Sayable /\ Tail(writer) \in Seq(Sayable)
        /\ UNCHANGED <<uplink, unrouted, datagrams>>
    BY <1>0, <1>8, <2>1 DEF WriteNext
  <2>3. CASE Encodable(e, Limit)
    <3>1. /\ downlink' = Append(downlink, Encode(e)) /\ answers' = Append(answers, e)
          /\ writer' = Tail(writer) /\ UNCHANGED <<outbound, batch, over>>
      BY <1>8, <2>1, <2>3 DEF WriteNext
    <3>2. e \in GoodEnvelopes
      BY <2>2, <2>3 DEF Sayable, GoodEnvelopes, Good
    <3> DEFINE D == {Encode(x) : x \in GoodEnvelopes}
    <3>3. downlink \in Seq(D) /\ Encode(e) \in D
      BY <1>0, <3>2
    <3>4. Len(downlink) = Len(answers) /\ \A i \in 1 .. Len(answers) : downlink[i] = Encode(answers[i])
      BY DEF Inv
    <3> HIDE DEF D
    <3>5. answers \in Seq(GoodEnvelopes)
      BY <1>0
    <3>6. downlink' \in Seq(D) /\ answers' \in Seq(GoodEnvelopes) /\ Len(downlink') = Len(answers')
      BY <3>1, <3>2, <3>3, <3>4, <3>5
    <3>7. \A i \in 1 .. Len(answers') : downlink'[i] = Encode(answers'[i])
      BY <3>1, <3>3, <3>4, <3>5
    <3> QED BY <2>2, <3>1, <3>6, <3>7 DEF D, Inv
  <2>4. CASE ~Encodable(e, Limit)
    <3>1. /\ over' = {e} /\ writer' = <<>> /\ outbound' = <<>> /\ batch' = <<>>
          /\ UNCHANGED <<downlink, answers>>
      BY <1>8, <2>1, <2>4 DEF WriteNext
    <3>2. Unchecked(e)
      BY <2>2, <2>4 DEF Sayable
    <3> QED BY <2>2, <3>1, <3>2 DEF Inv
  <2> QED BY <2>3, <2>4
<1>9. CASE UNCHANGED vars
  BY <1>9 DEF Inv, vars, told
<1> QED BY <1>1, <1>2, <1>3, <1>4, <1>5, <1>6, <1>7, <1>8, <1>9 DEF Next

(* A writer gives a connection up only over what nobody checked: a listing *)
(* beyond the payload limit, a policy's message without a form on the      *)
(* wire, or a reply against the rules, and never over what clients said.   *)
THEOREM FailsOnlyUncheckedTheorem == Spec => []FailsOnlyUnchecked
<1>1. Inv => FailsOnlyUnchecked
  <2> SUFFICES ASSUME Inv PROVE FailsOnlyUnchecked
    OBVIOUS
  <2>1. \A i \in DOMAIN writer : writer[i] \in Sayable
    BY DEF Inv
  <2> QED BY <2>1 DEF Inv, FailsOnlyUnchecked, Sayable
<1> QED BY InitInv, NextInv, <1>1, PTL DEF Spec

(* Every frame and datagram sent decodes, by the same codec, to what was   *)
(* meant, on connections that are cut off over an envelope as well.        *)
THEOREM AnswersArriveIntactTheorem == Spec => []AnswersArriveIntact
<1>0. ASSUME NEW e \in GoodEnvelopes
      PROVE  Decodable(Encode(e), Limit) /\ Decode(Encode(e)) = e
  BY RoundTrip, ExchangeAssumption DEF GoodEnvelopes, Good
<1>1. Inv => AnswersArriveIntact
  <2> SUFFICES ASSUME Inv PROVE AnswersArriveIntact
    OBVIOUS
  <2>1. ASSUME NEW i \in DOMAIN downlink
        PROVE  Decodable(downlink[i], Limit) /\ Decode(downlink[i]) = answers[i]
    <3>1. i \in 1 .. Len(answers)
      BY DEF Inv
    <3>2. downlink[i] = Encode(answers[i]) /\ answers[i] \in GoodEnvelopes
      BY <3>1 DEF Inv
    <3> QED BY <1>0, <3>2
  <2>2. ASSUME NEW d \in datagrams PROVE Decodable(d.frame, Limit) /\ Decode(d.frame) = d.meant
    BY <1>0 DEF Inv
  <2> QED BY <2>1, <2>2 DEF AnswersArriveIntact
<1> QED BY InitInv, NextInv, <1>1, PTL DEF Spec

-----------------------------------------------------------------------------
(* The handshake: what HandshakeFirst says of a list of envelopes.         *)
InOrder(all) ==
    \A i \in 1 .. Len(all) :
        /\ i = 1 => all[i].kind \in {"Capabilities", "ProtocolError"}
        /\ i = 2 => all[i].kind \in {"Authenticated", "ProtocolError"}
        /\ all[i].kind = "ProtocolError" =>
             IF i <= 2 THEN Len(all) = i
             ELSE \A j \in i + 1 .. Len(all) : all[j].kind \in FromOthers

(* While the connection task reads no error was told, and others speak, or *)
(* have spoken, to nobody before the second answer.                        *)
Staged(all, at, taken, sent) ==
    /\ InOrder(all)
    /\ at \in {"connected", "greeted", "authenticated", "ending", "closed"}
    /\ at = "connected" => Len(all) = 0
    /\ at = "greeted" => Len(all) = 1
    /\ at \in {"authenticated", "ending"} \/ taken # <<>> \/ sent # {} =>
         Len(all) >= 2 /\ all[2].kind = "Authenticated"
    /\ at \in Reading => \A i \in 1 .. Len(all) : all[i].kind # "ProtocolError"

(* What the reader adds keeps the order.                                   *)
LEMMA AddedInOrder ==
    ASSUME NEW M, NEW all \in Seq(M), NEW s \in Seq(M), NEW at, NEW next,
           NEW taken, NEW sent, Staged(all, at, taken, sent), at \in Reading, Adds(at, next, s)
    PROVE  Staged(all \o s, next, taken, sent)
<1> DEFINE t == all \o s
           n == Len(all)
<1>1. /\ Len(t) = n + Len(s) /\ Len(t) \in Nat /\ n \in Nat /\ Len(s) \in Nat
      /\ \A i \in 1 .. n : t[i] = all[i]
      /\ \A i \in n + 1 .. Len(t) : t[i] = s[i - n] /\ i - n \in 1 .. Len(s)
  OBVIOUS
<1> HIDE DEF t, n
<1>2. /\ \A i \in 1 .. n : all[i].kind # "ProtocolError"
      /\ \A i \in 1 .. n : /\ i = 1 => all[i].kind \in {"Capabilities", "ProtocolError"}
                           /\ i = 2 => all[i].kind \in {"Authenticated", "ProtocolError"}
  BY DEF Staged, InOrder, n
<1>3. /\ at \in {"connected", "greeted", "authenticated"}
      /\ at = "connected" => n = 0
      /\ at = "greeted" => n = 1
      /\ at = "authenticated" \/ taken # <<>> \/ sent # {} =>
           n >= 2 /\ all[2].kind = "Authenticated"
  BY DEF Staged, Reading, n
<1>4. n >= 2 => t[2] = all[2]
  BY <1>1
<1>5. CASE /\ next = IF at = "authenticated" THEN "ending" ELSE "closed"
           /\ Len(s) <= 1 /\ \A i \in 1 .. Len(s) : s[i].kind = "ProtocolError"
  <2>1. InOrder(t)
    <3> SUFFICES ASSUME NEW i \in 1 .. Len(t)
        PROVE  /\ i = 1 => t[i].kind \in {"Capabilities", "ProtocolError"}
               /\ i = 2 => t[i].kind \in {"Authenticated", "ProtocolError"}
               /\ t[i].kind = "ProtocolError" => Len(t) = i
      BY DEF InOrder
    <3>1. CASE i <= n
      <4>1. i \in 1 .. n /\ t[i] = all[i]
        BY <1>1, <3>1
      <4> QED BY <1>2, <4>1
    <3>2. CASE i > n
      <4>1. t[i].kind = "ProtocolError" /\ Len(t) = i
        BY <1>1, <1>5, <3>2
      <4> QED BY <4>1
    <3> QED BY <1>1, <3>1, <3>2
  <2>2. next \in {"ending", "closed"} /\ (next = "ending" => at = "authenticated")
    BY <1>5
  <2>3. n >= 2 => Len(t) >= 2
    BY <1>1
  <2> QED BY <1>3, <1>4, <2>1, <2>2, <2>3 DEF Staged, Reading, t
<1>6. CASE \A i \in 1 .. Len(s) : s[i].kind # "ProtocolError"
  <2>1. \A i \in 1 .. Len(t) : t[i].kind # "ProtocolError"
    <3> SUFFICES ASSUME NEW i \in 1 .. Len(t) PROVE t[i].kind # "ProtocolError"
      OBVIOUS
    <3>1. CASE i <= n
      BY <1>1, <1>2, <3>1
    <3>2. CASE i > n
      <4>1. t[i] = s[i - n] /\ i - n \in 1 .. Len(s)
        BY <1>1, <3>2
      <4> QED BY <1>6, <4>1
    <3> QED BY <1>1, <3>1, <3>2
  <2>2. CASE at = "connected" /\ next = "greeted" /\ Len(s) = 1 /\ s[1].kind = "Capabilities"
    <3>1. n = 0 /\ Len(t) = 1 /\ t[1] = s[1] /\ taken = <<>> /\ sent = {}
      BY <1>1, <1>3, <2>2
    <3>2. InOrder(t)
      BY <2>1, <2>2, <3>1 DEF InOrder
    <3> QED BY <2>1, <2>2, <3>1, <3>2 DEF Staged, t
  <2>3. CASE at = "greeted" /\ next = "authenticated" /\ Len(s) = 1 /\ s[1].kind = "Authenticated"
    <3>1. n = 1 /\ Len(t) = 2 /\ t[1] = all[1] /\ t[2] = s[1]
      BY <1>1, <1>3, <2>3
    <3>2. InOrder(t)
      BY <1>2, <2>1, <2>3, <3>1 DEF InOrder
    <3> QED BY <2>1, <2>3, <3>1, <3>2 DEF Staged, t
  <2>4. CASE at = "authenticated" /\ next = at
    <3>1. n >= 2 /\ Len(t) >= 2 /\ t[1] = all[1] /\ t[2] = all[2] /\ all[2].kind = "Authenticated"
      BY <1>1, <1>3, <2>4
    <3>2. InOrder(t)
      BY <1>1, <1>2, <2>1, <3>1 DEF InOrder
    <3> QED BY <2>1, <2>4, <3>1, <3>2 DEF Staged, t
  <2> QED BY <1>5, <2>2, <2>3, <2>4 DEF Adds
<1>7. \/ /\ next = IF at = "authenticated" THEN "ending" ELSE "closed"
         /\ Len(s) <= 1 /\ \A i \in 1 .. Len(s) : s[i].kind = "ProtocolError"
      \/ \A i \in 1 .. Len(s) : s[i].kind # "ProtocolError"
  <2>1. CASE Len(s) = 1 /\ s[1].kind \in {"Capabilities", "Authenticated"}
    BY <2>1
  <2> QED BY <2>1 DEF Adds
<1> QED BY <1>5, <1>6, <1>7

(* What others add after the second answer does too.                       *)
LEMMA ToldInOrder ==
    ASSUME NEW M, NEW all \in Seq(M), NEW e \in M, NEW at, NEW taken, NEW sent,
           Staged(all, at, taken, sent),
           at \in {"authenticated", "ending"} \/ taken # <<>>, e.kind \in FromOthers
    PROVE  Staged(Append(all, e), at, taken, sent)
<1> DEFINE t == Append(all, e)
           n == Len(all)
<1>1. /\ Len(t) = n + 1 /\ t[n + 1] = e /\ n \in Nat
      /\ \A i \in 1 .. n : t[i] = all[i]
  OBVIOUS
<1> HIDE DEF t, n
<1>2. n >= 2 /\ all[2].kind = "Authenticated" /\ e.kind # "ProtocolError"
  BY DEF Staged, FromOthers, Publications, InferenceKinds, n
<1>3. \A i \in 1 .. n :
         /\ i = 1 => all[i].kind \in {"Capabilities", "ProtocolError"}
         /\ i = 2 => all[i].kind \in {"Authenticated", "ProtocolError"}
         /\ all[i].kind = "ProtocolError" =>
              IF i <= 2 THEN n = i ELSE \A j \in i + 1 .. n : all[j].kind \in FromOthers
  BY DEF Staged, InOrder, n
<1>4. InOrder(t)
  <2> SUFFICES ASSUME NEW i \in 1 .. Len(t)
      PROVE  /\ i = 1 => t[i].kind \in {"Capabilities", "ProtocolError"}
             /\ i = 2 => t[i].kind \in {"Authenticated", "ProtocolError"}
             /\ t[i].kind = "ProtocolError" =>
                  IF i <= 2 THEN Len(t) = i
                  ELSE \A j \in i + 1 .. Len(t) : t[j].kind \in FromOthers
    BY DEF InOrder
  <2>1. CASE i \in 1 .. n
    <3>1. t[i] = all[i]
      BY <1>1, <2>1
    <3>2. ~(t[i].kind = "ProtocolError" /\ i <= 2)
      BY <1>2, <1>3, <2>1, <3>1
    <3>3. ASSUME t[i].kind = "ProtocolError", NEW j \in i + 1 .. Len(t)
          PROVE  t[j].kind \in FromOthers
      <4>1. CASE j = n + 1
        BY <1>1, <4>1
      <4>2. CASE j # n + 1
        <5>1. j \in i + 1 .. n /\ j \in 1 .. n /\ t[j] = all[j]
          BY <1>1, <2>1, <4>2
        <5> QED BY <1>3, <2>1, <3>1, <3>2, <3>3, <5>1
      <4> QED BY <4>1, <4>2
    <3> QED BY <1>3, <2>1, <3>1, <3>2, <3>3
  <2>2. CASE i = n + 1
    BY <1>1, <1>2, <2>2
  <2> QED BY <1>1, <2>1, <2>2
<1>5. at \in Reading => \A i \in 1 .. Len(t) : t[i].kind # "ProtocolError"
  <2> SUFFICES ASSUME at \in Reading, NEW i \in 1 .. Len(t) PROVE t[i].kind # "ProtocolError"
    OBVIOUS
  <2>1. \A j \in 1 .. n : all[j].kind # "ProtocolError"
    BY DEF Staged, n
  <2>2. i \in 1 .. n \/ i = n + 1
    BY <1>1
  <2> QED BY <1>1, <1>2, <2>1, <2>2
<1>6. Len(t) >= 2 /\ t[2].kind = "Authenticated" /\ Len(t) \notin {0, 1}
  BY <1>1, <1>2
<1>7. at \in {"authenticated", "ending", "closed"}
  BY <1>2 DEF Staged, n
<1> QED BY <1>4, <1>5, <1>6, <1>7 DEF Staged, t

(* A writer that gives up over what is not of the handshake leaves a       *)
(* beginning of what was told, the handshake included.                     *)
LEMMA CutInOrder ==
    ASSUME NEW M, NEW a \in Seq(M), NEW b \in Seq(M), b # <<>>, NEW at, NEW taken, NEW sent,
           Staged(a \o b, at, taken, sent),
           Head(b).kind \notin {"Capabilities", "Authenticated", "ProtocolError"}
    PROVE  Staged(a, "closed", <<>>, sent)
<1> DEFINE t == a \o b
           n == Len(a)
<1>1. /\ Len(t) >= n + 1 /\ n \in Nat /\ Len(t) \in Nat /\ t[n + 1] = Head(b)
      /\ \A i \in 1 .. n : t[i] = a[i]
  <2>1. Len(b) \in Nat /\ Len(b) >= 1 /\ Head(b) = b[1]
    OBVIOUS
  <2> QED BY <2>1
<1> HIDE DEF t, n
<1>2. \A i \in 1 .. Len(t) :
         /\ i = 1 => t[i].kind \in {"Capabilities", "ProtocolError"}
         /\ i = 2 => t[i].kind \in {"Authenticated", "ProtocolError"}
         /\ t[i].kind = "ProtocolError" =>
              IF i <= 2 THEN Len(t) = i ELSE \A j \in i + 1 .. Len(t) : t[j].kind \in FromOthers
  BY DEF Staged, InOrder, t
<1>3. n >= 2
  <2>1. n + 1 \in 1 .. Len(t)
    BY <1>1
  <2>2. n + 1 # 1 /\ n + 1 # 2
    BY <1>1, <1>2, <2>1
  <2> QED BY <1>1, <2>2
<1>4. InOrder(a)
  <2> SUFFICES ASSUME NEW i \in 1 .. n
      PROVE  /\ i = 1 => a[i].kind \in {"Capabilities", "ProtocolError"}
             /\ i = 2 => a[i].kind \in {"Authenticated", "ProtocolError"}
             /\ a[i].kind = "ProtocolError" =>
                  IF i <= 2 THEN n = i
                  ELSE \A j \in i + 1 .. n : a[j].kind \in FromOthers
    BY DEF InOrder, n
  <2>1. i \in 1 .. Len(t) /\ t[i] = a[i]
    BY <1>1
  <2>2. ~(a[i].kind = "ProtocolError" /\ i <= 2)
    BY <1>1, <1>2, <1>3, <2>1
  <2>3. \A j \in i + 1 .. n : j \in i + 1 .. Len(t) /\ t[j] = a[j]
    BY <1>1
  <2> QED BY <1>2, <2>1, <2>2, <2>3
<1>5. sent # {} => a[2].kind = "Authenticated"
  <2>1. sent # {} => t[2].kind = "Authenticated"
    BY DEF Staged, t
  <2>2. t[2] = a[2]
    BY <1>1, <1>3
  <2> QED BY <2>1, <2>2
<1> QED BY <1>3, <1>4, <1>5 DEF Staged, Reading, n

(* The order of what is told, together with Inv, is inductive.             *)
Order == Staged(answers \o writer, stage, batch, datagrams)

THEOREM OrderNext == Inv /\ Order /\ [Next]_vars => Order'
<1> SUFFICES ASSUME Inv, Order, [Next]_vars
    PROVE  Staged(answers' \o writer', stage', batch', datagrams')
  BY DEF Order
<1>0. writer \in Seq(Sayable) /\ answers \in Seq(Sayable) /\ batch \in Seq(Messages)
  BY DEF Inv, GoodEnvelopes, Sayable, Good
<1> DEFINE all == answers \o writer
<1>a. all \in Seq(Sayable) /\ Staged(all, stage, batch, datagrams)
  BY <1>0 DEF Order
<1>b. ASSUME NEW x \in Sayable, x.kind \in FromOthers, stage \in Known \/ batch # <<>>,
             writer' = Append(writer, x), answers' = answers
      PROVE  Staged(answers' \o writer', stage, batch, datagrams)
  <2>1. answers' \o writer' = Append(all, x)
    BY <1>0, <1>b
  <2> HIDE DEF all
  <2> QED BY <1>a, <1>b, <2>1, ToldInOrder DEF Known
<1>1. ASSUME NEW e \in ClientEnvelopes, Send(e)
      PROVE  Staged(answers' \o writer', stage', batch', datagrams')
  BY <1>1, <1>a DEF Send, told
<1>2. ASSUME ReadFrame \/ EndLoop
      PROVE  Staged(answers' \o writer', stage', batch', datagrams')
  <2>1. ReaderSays /\ stage \in Reading /\ UNCHANGED <<batch, told>>
    BY <1>2, ReaderSteps
  <2>2. PICK s \in Seq(Sayable) : writer' = writer \o s /\ Adds(stage, stage', s)
    BY <2>1 DEF ReaderSays
  <2>3. answers' \o writer' = all \o s /\ batch' = batch /\ datagrams' = datagrams
    BY <1>0, <2>1, <2>2 DEF told
  <2> HIDE DEF all
  <2> QED BY <1>a, <2>1, <2>2, <2>3, AddedInOrder
<1>3. CASE Disconnect
  <2>1. /\ stage = "ending" /\ stage' = "closed" /\ batch' \in {batch, <<>>}
        /\ answers' \o writer' = all /\ datagrams' = datagrams
    BY <1>3 DEF Disconnect, told
  <2> HIDE DEF all
  <2> QED BY <1>a, <2>1 DEF Staged, Reading
<1>4. CASE CoreQueues
  BY <1>4, <1>a DEF CoreQueues, Notice, told
<1>5. ASSUME LifecycleTells \/ CoordinatorReplies
      PROVE  Staged(answers' \o writer', stage', batch', datagrams')
  <2>1. PICK x \in Sayable : x.kind \in FromOthers /\ Tell(x)
    BY <1>5, OthersTell
  <2>2. stage \in Known /\ UNCHANGED <<stage, batch, answers, datagrams>>
    BY <1>5 DEF LifecycleTells, CoordinatorReplies, Notice, told
  <2> QED BY <1>b, <2>1, <2>2 DEF Tell
<1>6. CASE TakeOutbound
  <2>1. /\ stage \in Known /\ stage' = stage /\ answers' \o writer' = all
        /\ datagrams' = datagrams
    BY <1>6 DEF TakeOutbound, told
  <2> HIDE DEF all
  <2> QED BY <1>a, <2>1 DEF Staged, Known
<1>7. CASE DrainNext
  <2>1. PICK e : e = OutboundEnvelope(Head(batch))
    OBVIOUS
  <2>2. batch # <<>> /\ Head(batch) \in Messages /\ stage' = stage /\ answers' = answers
    BY <1>0, <1>7 DEF DrainNext
  <2>3. e \in Sayable /\ e.kind \in FromOthers
    BY <2>1, <2>2, MessageIsSayable DEF FromOthers
  <2>4. writer' = writer \/ writer' = Append(writer, e)
    BY <1>7, <2>1 DEF DrainNext
  <2>5. Staged(answers' \o writer', stage, batch, datagrams)
    BY <1>a, <1>b, <2>2, <2>3, <2>4
  <2> QED BY <2>2, <2>5 DEF Staged
<1>8. CASE WriteNext
  <2>1. writer # <<>> /\ datagrams' = datagrams /\ Head(writer) \in Sayable
    BY <1>0, <1>8 DEF WriteNext
  <2>2. CASE Encodable(Head(writer), Limit)
    <3>1. /\ answers' = Append(answers, Head(writer)) /\ writer' = Tail(writer)
          /\ stage' = stage /\ batch' = batch
      BY <1>8, <2>2 DEF WriteNext
    <3>2. answers' \o writer' = all
      BY <1>0, <2>1, <3>1
    <3> QED BY <1>a, <2>1, <3>1, <3>2
  <2>3. CASE ~Encodable(Head(writer), Limit)
    <3>1. /\ answers' = answers /\ writer' = <<>> /\ stage' = "closed" /\ batch' = <<>>
      BY <1>8, <2>3 DEF WriteNext
    <3>2. Head(writer).kind \notin {"Capabilities", "Authenticated", "ProtocolError"}
      BY <2>1, <2>3, UncheckedKinds DEF Sayable
    <3>3. answers' \o writer' = answers
      BY <1>0, <3>1
    <3>4. Staged(answers, "closed", <<>>, datagrams)
      BY <1>0, <1>a, <2>1, <3>2, CutInOrder
    <3> QED BY <2>1, <3>1, <3>3, <3>4
  <2> QED BY <2>2, <2>3
<1>9. CASE UNCHANGED vars
  BY <1>9, <1>a DEF vars, told
<1> QED BY <1>1, <1>2, <1>3, <1>4, <1>5, <1>6, <1>7, <1>8, <1>9 DEF Next

(* handle_hello and handle_authenticate answer before anybody else says a  *)
(* thing, an error of theirs is the last, and after one of a session only  *)
(* fan-out, drain task and coordinator are still heard.                    *)
THEOREM HandshakeFirstTheorem == Spec => []HandshakeFirst
<1>1. Init => Order
  <2> SUFFICES ASSUME Init PROVE Order
    OBVIOUS
  <2>1. answers \o writer = <<>> /\ stage = "connected" /\ batch = <<>> /\ datagrams = {}
    BY DEF Init
  <2>2. Len(<<>>) = 0
    OBVIOUS
  <2> QED BY <2>1, <2>2 DEF Order, Staged, InOrder
<1>2. Inv /\ Order => HandshakeFirst
  <2> SUFFICES ASSUME Inv, Order PROVE HandshakeFirst
    OBVIOUS
  <2> DEFINE all == answers \o writer
  <2>1. writer \in Seq(Sayable) /\ answers \in Seq(Sayable)
    BY DEF Inv, GoodEnvelopes, Sayable, Good
  <2>2. DOMAIN all = 1 .. Len(all)
    BY <2>1
  <2>3. InOrder(all) /\ (datagrams # {} => Len(all) >= 2 /\ all[2].kind = "Authenticated")
    BY DEF Order, Staged
  <2> QED BY <2>2, <2>3 DEF HandshakeFirst, InOrder
<1> QED BY InitInv, NextInv, OrderNext, <1>1, <1>2, PTL DEF Spec
=============================================================================
