----------------------------- MODULE MCExchange -----------------------------
(* A client that goes through the handshake and one that does not, sound   *)
(* requests of every kind, and what only the TypeScript client would send. *)
EXTENDS Exchange

Here == [namespace |-> 1, session |-> 1, space |-> 1, epoch |-> 1]
There == [Here EXCEPT !.space = 2]
Nowhere == [Here EXCEPT !.epoch = 0]
One == Some(1)

Sound ==
    { Hello(4, 4), Authenticate(2), JoinSession(1, 1), SubscribeSpace(Here, One),
      RequestSnapshot(Here, One, None), TransitionEntity(Here, There, One),
      PublishEvent(Here, One, One, 1, 7, 2), PublishState(Here, One, One, 1, 7, 2),
      [PublishState(Here, One, One, 1, 7, 2) EXCEPT !.class = "UnreliableSequenced"],
      RequestInference(Here, One, 1, 1) }

Unsound ==
    { Hello(4, 0), SubscribeSpace(Nowhere, One), RequestSnapshot(Here, One, Some(0)),
      PublishState(Here, None, One, 1, 7, 2), PublishEvent(Here, One, One, 1, 7, 4),
      ReplyEnvelope(Hello(4, 4), 1, "InferenceAccepted", NoNumbers, 0, 0) }

AllEnvelopes == Sound \cup Unsound

(* What a policy may make: a state, and two messages with no wire form.    *)
Moved == Published(PublishState(Here, One, One, 1, 7, 2))
Emitted ==
    { [Moved EXCEPT !.delivery = "UnreliableSequenced"],
      [Moved EXCEPT !.delivery = "BestEffortEvent", !.component = None],
      [Moved EXCEPT !.component = Some(0)] }

Elsewhere == { There }

(* The last is none a provider should send.                                *)
Replies ==
    { [kind |-> "ToolCallProposed", numbers |-> [version |-> 1], text |-> 1, data |-> 2],
      [kind |-> "InferenceProgress", numbers |-> [percent |-> 101], text |-> 0, data |-> 0] }
=============================================================================
