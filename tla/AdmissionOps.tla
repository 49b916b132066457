----------------------------- MODULE AdmissionOps -----------------------------
(***************************************************************************)
(* The admission controller of one provisioned session                     *)
(* (crates/woven-core/src/admission.rs) as operators on a record:          *)
(*    allocated     allocated_ccu                                          *)
(*    pending       pending_target, or NoTarget                            *)
(*    revision      the newest capacity revision applied                   *)
(*    next_lease    the id of the next lease                               *)
(*    active        lease -> principal, the slots in use                   *)
(*    reservations  lease -> principal and time left, the slots kept for a *)
(*                  reconnect                                              *)
(*    tickets       every ticket ever issued, ticket id i at position i    *)
(*    waiting       the ids in line, first come first                      *)
(*    index         idempotency key -> ticket id                           *)
(*                                                                         *)
(* The controller is handed the current Instant and compares it with the   *)
(* ones it stored.  Only differences matter to it, so the record holds the *)
(* differences and Elapse lets them run: age and idle of a waiting ticket, *)
(* left of an offer or a reservation, each stopping where the comparison   *)
(* that reads it no longer changes.                                        *)
(*                                                                         *)
(* The usage counters it reports to are write-only for the controller and  *)
(* are not part of the record.                                             *)
(***************************************************************************)
EXTENDS VecOps

CONSTANTS QueueEnabled, MaxDepth, TicketTtl, OfferTtl,   \* QueuePolicy
          HeartbeatTimeout, ReconnectGrace,
          NoTarget,                                      \* pending_target: None
          NoKey                                          \* idempotency_key: None

ASSUME PolicyAssumption ==
    /\ QueueEnabled \in BOOLEAN
    /\ MaxDepth \in Nat
    /\ TicketTtl \in Nat /\ OfferTtl \in Nat
    /\ HeartbeatTimeout \in Nat /\ ReconnectGrace \in Nat
    /\ NoTarget \notin Nat

(* AdmissionController::new                                                *)
NewController(allocated, revision) ==
    [allocated |-> allocated, pending |-> NoTarget, revision |-> revision,
     next_lease |-> 1, active |-> <<>>, reservations |-> <<>>,
     tickets |-> <<>>, waiting |-> <<>>, index |-> <<>>]

TicketsIn(c, states) == {i \in DOMAIN c.tickets : c.tickets[i].state \in states}

Live(c) == TicketsIn(c, {"Waiting", "Offered"})

Occupied(c) ==
    Cardinality(DOMAIN c.active) + Cardinality(DOMAIN c.reservations)
        + Cardinality(TicketsIn(c, {"Offered"}))

(* Mutant: new clients are admitted up to the old allocation while it      *)
(* drains.                                                                 *)
AllocatedLimit(c) == c.allocated

AdmissionLimit(c) == IF c.pending = NoTarget THEN c.allocated ELSE c.pending

FreeSlots(c) ==
    IF Occupied(c) < AdmissionLimit(c) THEN AdmissionLimit(c) - Occupied(c) ELSE 0

QueueDepth(c) ==
    Cardinality({i \in DOMAIN c.waiting : c.tickets[c.waiting[i]].state = "Waiting"})

HasQueuedPrincipal(c, p) == \E i \in Live(c) : c.tickets[i].principal = p

(* A ticket changes state; its timers are read in the state they are for.  *)
Become(ticket, state, left) ==
    [ticket EXCEPT !.state = state, !.age = 0, !.idle = 0, !.left = left]

SetState(c, ids, state, left) ==
    [c EXCEPT !.tickets = [i \in DOMAIN @ |-> IF i \in ids
                                              THEN Become(@[i], state, left)
                                              ELSE @[i]]]

Unindex(c, keys) ==
    [c EXCEPT !.index = Restrict(@, DOMAIN @ \ keys)]

KeysOf(c, ids) == {c.tickets[i].key : i \in ids}

-----------------------------------------------------------------------------
ApplyPending(c) ==
    IF c.pending # NoTarget /\ Occupied(c) <= c.pending
    THEN [c EXCEPT !.allocated = c.pending, !.pending = NoTarget]
    ELSE c

(* Which of the first n in line are Waiting, and how many promote_at pops:  *)
(* as few as it takes to give every free slot away, or the whole line.     *)
Callable(c, n) == {i \in 1..n : c.tickets[c.waiting[i]].state = "Waiting"}

PopCount(c) ==
    CHOOSE n \in 0..Len(c.waiting) :
        /\ \/ n = Len(c.waiting)
           \/ Cardinality(Callable(c, n)) = FreeSlots(c)
        /\ \A m \in 0..n - 1 : Cardinality(Callable(c, m)) < FreeSlots(c)

Promote(c) ==
    LET n      == PopCount(c)
        called == {c.waiting[i] : i \in Callable(c, n)}
    IN  [SetState(c, called, "Offered", OfferTtl) EXCEPT !.waiting = AfterPops(@, n)]

(* Mutant: an offer or a wait ends one unit early.                         *)
LapsedEarly(ticket) ==
    \/ /\ ticket.state = "Waiting"
       /\ ticket.age >= TicketTtl \/ ticket.idle >= HeartbeatTimeout
    \/ /\ ticket.state = "Offered"
       /\ ticket.left <= 1

(* Mutant: offers never expire.                                            *)
LapsedWaiting(ticket) ==
    /\ ticket.state = "Waiting"
    /\ ticket.age >= TicketTtl \/ ticket.idle >= HeartbeatTimeout

(* What expire_at finds out of time.                                       *)
Lapsed(ticket) ==
    \/ /\ ticket.state = "Waiting"
       /\ ticket.age >= TicketTtl \/ ticket.idle >= HeartbeatTimeout
    \/ /\ ticket.state = "Offered"
       /\ ticket.left = 0

(* Mutant: expired tickets keep their idempotency key.                     *)
DropLapsedIndexed(c) ==
    LET lapsed  == {i \in DOMAIN c.tickets : Lapsed(c.tickets[i])}
        kept    == {l \in DOMAIN c.reservations : c.reservations[l].left > 0}
        expired == SetState(c, lapsed, "Expired", 0)
    IN  [expired EXCEPT !.reservations = Restrict(@, kept),
                        !.waiting = Retained(@, TicketsIn(expired, {"Waiting"}))]

DropLapsed(c) ==
    LET lapsed  == {i \in DOMAIN c.tickets : Lapsed(c.tickets[i])}
        kept    == {l \in DOMAIN c.reservations : c.reservations[l].left > 0}
        expired == Unindex(SetState(c, lapsed, "Expired", 0), KeysOf(c, lapsed))
    IN  [expired EXCEPT !.reservations = Restrict(@, kept),
                        !.waiting = Retained(@, TicketsIn(expired, {"Waiting"}))]

(* Mutant: polling does not apply a pending target.                        *)
ExpireOnly(c) == Promote(DropLapsed(c))

Expire(c) == Promote(ApplyPending(DropLapsed(c)))

(* Time passes by one unit.                                                *)
Elapse(c) ==
    LET Older(age, limit) == IF age < limit THEN age + 1 ELSE age
        Shorter(left)     == IF left > 0 THEN left - 1 ELSE 0
        After(ticket) ==
            CASE ticket.state = "Waiting" ->
                    [ticket EXCEPT !.age  = Older(@, TicketTtl),
                                   !.idle = Older(@, HeartbeatTimeout)]
              [] ticket.state = "Offered" -> [ticket EXCEPT !.left = Shorter(@)]
              [] OTHER -> ticket
        Later(reservation) == [reservation EXCEPT !.left = Shorter(@)]
    IN  [c EXCEPT !.tickets = [i \in DOMAIN @ |-> After(@[i])],
                  !.reservations = [l \in DOMAIN @ |-> Later(@[l])]]

-----------------------------------------------------------------------------
(* Mutant: reservations and offers do not count against the limit.         *)
JoinDecisionActiveOnly(c, p, key) ==
    IF key = NoKey THEN "InvalidIdempotencyKey"
    ELSE IF AdmissionLimit(c) = 0 THEN "Paused"
    ELSE IF key \in DOMAIN c.index /\ c.index[key] \in Live(c) THEN "SameTicket"
    ELSE IF HasQueuedPrincipal(c, p) THEN "AlreadyQueued"
    ELSE IF Cardinality(DOMAIN c.active) < AdmissionLimit(c) THEN "Admitted"
    ELSE IF QueueDepth(c) >= MaxDepth THEN "QueueFull"
    ELSE "Queued"

(* Mutant: only the idempotency key tells a repeated request.              *)
JoinDecisionByKey(c, p, key) ==
    IF key = NoKey THEN "InvalidIdempotencyKey"
    ELSE IF AdmissionLimit(c) = 0 THEN "Paused"
    ELSE IF key \in DOMAIN c.index /\ c.index[key] \in Live(c) THEN "SameTicket"
    ELSE IF Occupied(c) < AdmissionLimit(c) THEN "Admitted"
    ELSE IF ~QueueEnabled THEN "QueueDisabled"
    ELSE IF QueueDepth(c) >= MaxDepth THEN "QueueFull"
    ELSE "Queued"

(* The decision of request_join_at, after expire_at, as its early returns  *)
(* take it.                                                                *)
JoinDecision(c, p, key) ==
    IF key = NoKey THEN "InvalidIdempotencyKey"
    ELSE IF AdmissionLimit(c) = 0 THEN "Paused"
    ELSE IF key \in DOMAIN c.index /\ c.index[key] \in Live(c) THEN "SameTicket"
    ELSE IF HasQueuedPrincipal(c, p) THEN "AlreadyQueued"
    ELSE IF Occupied(c) < AdmissionLimit(c) THEN "Admitted"
    ELSE IF ~QueueEnabled THEN "QueueDisabled"
    ELSE IF QueueDepth(c) >= MaxDepth THEN "QueueFull"
    ELSE "Queued"

(* A function with one more argument, or another value for an old one.     *)
Insert(f, x, v) == [y \in DOMAIN f \cup {x} |-> IF y = x THEN v ELSE f[y]]

Admit(c, p) ==
    [c EXCEPT !.active = Insert(@, c.next_lease, p), !.next_lease = @ + 1]

(* Mutant: newcomers go to the front of the line.                          *)
EnqueueFront(c, key, p) ==
    LET id == Len(c.tickets) + 1
    IN  [c EXCEPT !.tickets = Append(@, [principal |-> p, key |-> key,
                                         state |-> "Waiting", age |-> 0,
                                         idle |-> 0, left |-> 0]),
                  !.index = Insert(@, key, id),
                  !.waiting = <<id>> \o @]

Enqueue(c, key, p) ==
    LET id == Len(c.tickets) + 1
    IN  [c EXCEPT !.tickets = Append(@, [principal |-> p, key |-> key,
                                         state |-> "Waiting", age |-> 0,
                                         idle |-> 0, left |-> 0]),
                  !.index = Insert(@, key, id),
                  !.waiting = Append(@, id)]

AfterJoin(c, p, key) ==
    CASE JoinDecision(c, p, key) = "Admitted" -> Admit(c, p)
      [] JoinDecision(c, p, key) = "Queued"   -> Enqueue(c, key, p)
      [] OTHER                                -> c

(* heartbeat_at refreshes a waiting ticket only.                           *)
AfterHeartbeat(c, id) ==
    IF id \in TicketsIn(c, {"Waiting"})
    THEN [c EXCEPT !.tickets[id].idle = 0]
    ELSE c

(* Mutant: the slot of a cancelled offer is not given to the next in line. *)
CancelWithoutPromotion(c, id) ==
    IF id \in Live(c)
    THEN LET out == Unindex(SetState(c, {id}, "Cancelled", 0), KeysOf(c, {id}))
         IN  [out EXCEPT !.waiting = Without(@, id)]
    ELSE c

AfterCancel(c, id) ==
    IF id \in Live(c)
    THEN LET out == Unindex(SetState(c, {id}, "Cancelled", 0), KeysOf(c, {id}))
         IN  Promote([out EXCEPT !.waiting = Without(@, id)])
    ELSE c

AfterClaim(c, id) ==
    IF id \in TicketsIn(c, {"Offered"})
    THEN Admit(Unindex(SetState(c, {id}, "Admitted", 0), KeysOf(c, {id})),
               c.tickets[id].principal)
    ELSE c

(* release_at, which does not expire anything first.                       *)
AfterRelease(c, lease, p, unexpected) ==
    IF lease \in DOMAIN c.active /\ c.active[lease] = p
    THEN LET gone == [c EXCEPT !.active = Restrict(@, DOMAIN @ \ {lease})]
             held == [gone EXCEPT !.reservations =
                         Insert(@, lease, [principal |-> p, left |-> ReconnectGrace])]
         IN  Promote(ApplyPending(IF unexpected THEN held ELSE gone))
    ELSE c

(* Mutant: the reservation outlives the resume.                            *)
ResumeKeepingReservation(c, lease, p) ==
    IF lease \in DOMAIN c.reservations /\ c.reservations[lease].principal = p
    THEN [c EXCEPT !.active = Insert(@, lease, p)]
    ELSE c

(* Mutant: a token is honoured after its reservation is gone.              *)
ResumeAnyIssued(c, lease, p) ==
    IF lease \in 1..c.next_lease - 1
    THEN [c EXCEPT !.reservations = Restrict(@, DOMAIN @ \ {lease}),
                   !.active = Insert(@, lease, p)]
    ELSE c

AfterResume(c, lease, p) ==
    IF lease \in DOMAIN c.reservations /\ c.reservations[lease].principal = p
    THEN [c EXCEPT !.reservations = Restrict(@, DOMAIN @ \ {lease}),
                   !.active = Insert(@, lease, p)]
    ELSE c

(* apply_capacity_at, which does not expire anything first either.         *)
AfterCapacity(c, allocated, revision) ==
    IF revision <= c.revision THEN c
    ELSE IF allocated < Occupied(c)
         THEN [c EXCEPT !.revision = revision, !.pending = allocated]
    ELSE Promote([c EXCEPT !.revision = revision, !.allocated = allocated,
                           !.pending = NoTarget])
=============================================================================
