--------------------------- MODULE AdmissionProofs ---------------------------
(***************************************************************************)
(* What holds of the admission controller for every queue policy, every    *)
(* set of principals and keys, every sequence of resizes and every length  *)
(* of the run.                                                             *)
(*                                                                         *)
(* Sound is the inductive invariant.  The lemmas follow the controller:    *)
(* first what each piece (SetState, Unindex, Promote, DropLapsed) does to  *)
(* the record, then that each operation leads from a sound controller to a *)
(* sound one that Follows it.  An operation that expires first is composed *)
(* with ExpireFacts; one that promotes last with PromotedFollows.  That    *)
(* promote_at gives away no more slots than are free is PopCountFacts: the *)
(* CHOOSE of PopCount has a witness because a set of naturals has a least  *)
(* element, and one more pop offers at most one more slot.                 *)
(*                                                                         *)
(* Draining follows the same operations once more for a pending target:    *)
(* after expire_at more slots are occupied than it allows (Crowded).       *)
(***************************************************************************)
EXTENDS AdmissionCore, VecOpsProofs, SequenceTheorems

(* What TypeOK says of ctl, of any controller.                             *)
Typed(c) ==
    /\ c \in [allocated : Nat, pending : Nat \cup {NoTarget}, revision : Nat,
              next_lease : Nat \ {0}, active : {c.active},
              reservations : {c.reservations}, tickets : Seq(Tickets),
              waiting : Seq(DOMAIN c.tickets), index : {c.index}]
    /\ DOMAIN c.active \cup DOMAIN c.reservations \subseteq 1..c.next_lease - 1
    /\ c.active \in [DOMAIN c.active -> Principals]
    /\ c.reservations \in [DOMAIN c.reservations -> Reservations]
    /\ DOMAIN c.index \subseteq Keys
    /\ c.index \in [DOMAIN c.index -> DOMAIN c.tickets]

(* The three sets that occupied counts are finite.                         *)
LEMMA SlotsFinite ==
  ASSUME NEW c, Typed(c), NEW states
  PROVE  /\ IsFiniteSet(DOMAIN c.active)
         /\ Cardinality(DOMAIN c.active) \in Nat
         /\ IsFiniteSet(DOMAIN c.reservations)
         /\ Cardinality(DOMAIN c.reservations) \in Nat
         /\ IsFiniteSet(TicketsIn(c, states))
         /\ Cardinality(TicketsIn(c, states)) \in Nat
<1>1. c.next_lease \in Nat /\ c.tickets \in Seq(Tickets)
  BY DEF Typed
<1>2. IsFiniteSet(1..c.next_lease - 1) /\ IsFiniteSet(1..Len(c.tickets))
  <2>1. 1 \in Int /\ c.next_lease - 1 \in Int /\ Len(c.tickets) \in Int
    BY <1>1
  <2> QED
    BY <2>1, FS_Interval, Zenon
<1>3. /\ DOMAIN c.active \in SUBSET (1..c.next_lease - 1)
      /\ DOMAIN c.reservations \in SUBSET (1..c.next_lease - 1)
  BY DEF Typed
<1>4. TicketsIn(c, states) \in SUBSET (1..Len(c.tickets))
  BY <1>1 DEF TicketsIn
<1>5. /\ IsFiniteSet(DOMAIN c.active)
      /\ IsFiniteSet(DOMAIN c.reservations)
      /\ IsFiniteSet(TicketsIn(c, states))
  BY <1>2, <1>3, <1>4, FS_Subset
<1> QED
  BY <1>5, FS_CardinalityType

(* occupied is a number.                                                   *)
LEMMA OccupiedTyped ==
  ASSUME NEW c, Typed(c)
  PROVE  Occupied(c) \in Nat
BY SlotsFinite DEF Occupied

(* The fields of a ticket entry.                                           *)
LEMMA TicketFields ==
  ASSUME NEW t \in Tickets
  PROVE  /\ t.principal \in Principals
         /\ t.key \in Keys
         /\ t.state \in TicketStates
         /\ t.age \in 0..TicketTtl
         /\ t.idle \in 0..HeartbeatTimeout
         /\ t.left \in 0..OfferTtl
BY DEF Tickets

(* Updating four fields of a ticket entry leaves the other two alone.      *)
LEMMA TicketUpdate ==
  ASSUME NEW P, NEW K, NEW S, NEW A, NEW I, NEW L,
         NEW t \in [principal : P, key : K, state : S, age : A, idle : I, left : L],
         NEW s \in S, NEW a \in A, NEW i \in I, NEW l \in L
  PROVE  LET u == [t EXCEPT !.state = s, !.age = a, !.idle = i, !.left = l]
         IN  /\ u \in [principal : P, key : K, state : S, age : A, idle : I, left : L]
             /\ u.state = s /\ u.left = l /\ u.principal = t.principal /\ u.key = t.key
OBVIOUS

(* A ticket that changes state is a ticket of the same principal and key.  *)
LEMMA BecomeFields ==
  ASSUME NEW t \in Tickets, NEW state \in TicketStates, NEW left \in 0..OfferTtl
  PROVE  /\ Become(t, state, left) \in Tickets
         /\ Become(t, state, left).state = state
         /\ Become(t, state, left).left = left
         /\ Become(t, state, left).principal = t.principal
         /\ Become(t, state, left).key = t.key
<1>1. 0 \in 0..TicketTtl /\ 0 \in 0..HeartbeatTimeout
  BY PolicyAssumption
<1> QED
  BY <1>1, TicketUpdate, Zenon DEF Become, Tickets

(* A function on an interval from 1 is a sequence.                         *)
LEMMA SeqOf ==
  ASSUME NEW S, NEW n \in Nat, NEW f \in [1..n -> S]
  PROVE  f \in Seq(S) /\ Len(f) = n
OBVIOUS

(* Replacing the ticket entries leaves the rest of the controller alone.   *)
LEMMA TicketsReplaced ==
  ASSUME NEW c, Typed(c), NEW ts \in Seq(Tickets), Len(ts) = Len(c.tickets),
         NEW d, d = [c EXCEPT !.tickets = ts]
  PROVE  /\ Typed(d)
         /\ d.tickets = ts /\ d.waiting = c.waiting /\ d.index = c.index
         /\ d.active = c.active /\ d.reservations = c.reservations
         /\ d.allocated = c.allocated /\ d.pending = c.pending
         /\ d.next_lease = c.next_lease /\ d.revision = c.revision
<1>1. DOMAIN ts = DOMAIN c.tickets
  BY DEF Typed
<1> QED
  BY <1>1 DEF Typed

(* Allocation, pending target and revision are those of c.                 *)
SameLimits(c, d) ==
    d.allocated = c.allocated /\ d.pending = c.pending /\ d.revision = c.revision

(* The tickets in ids changed to state, and nothing else did.              *)
Marked(c, d, ids, state) ==
    /\ Typed(d)
    /\ DOMAIN d.tickets = DOMAIN c.tickets
    /\ \A i \in DOMAIN c.tickets :
          /\ d.tickets[i].principal = c.tickets[i].principal
          /\ d.tickets[i].key = c.tickets[i].key
          /\ i \in ids => d.tickets[i].state = state
          /\ i \notin ids => d.tickets[i] = c.tickets[i]
    /\ d.waiting = c.waiting /\ d.index = c.index
    /\ d.active = c.active /\ d.reservations = c.reservations
    /\ d.next_lease = c.next_lease /\ SameLimits(c, d)

(* SetState marks the given tickets: principals and keys stay the same.    *)
LEMMA SetStateFacts ==
  ASSUME NEW c, Typed(c), NEW ids, NEW state \in TicketStates, NEW left \in 0..OfferTtl
  PROVE  Marked(c, SetState(c, ids, state, left), ids, state)
<1> DEFINE ts == [i \in DOMAIN c.tickets |-> IF i \in ids
                                              THEN Become(c.tickets[i], state, left)
                                              ELSE c.tickets[i]]
<1>1. c.tickets \in Seq(Tickets)
  BY DEF Typed
<1>2. ts \in [1..Len(c.tickets) -> Tickets]
  BY <1>1, BecomeFields
<1>3. ts \in Seq(Tickets) /\ Len(ts) = Len(c.tickets)
  BY <1>1, <1>2, SeqOf
<1>4. SetState(c, ids, state, left) = [c EXCEPT !.tickets = ts]
  BY DEF SetState, Typed
<1>5. \A i \in DOMAIN c.tickets :
         /\ ts[i].principal = c.tickets[i].principal
         /\ ts[i].key = c.tickets[i].key
         /\ i \in ids => ts[i].state = state
         /\ i \notin ids => ts[i] = c.tickets[i]
  BY <1>1, BecomeFields
<1>6. DOMAIN ts = DOMAIN c.tickets
  OBVIOUS
<1> HIDE DEF ts
<1> QED
  <2> DEFINE d == SetState(c, ids, state, left)
  <2>1. d = [c EXCEPT !.tickets = ts]
    BY <1>4
  <2> HIDE DEF d
  <2>2. /\ Typed(d) /\ d.tickets = ts /\ d.waiting = c.waiting /\ d.index = c.index
        /\ d.active = c.active /\ d.reservations = c.reservations
        /\ d.allocated = c.allocated /\ d.pending = c.pending
        /\ d.next_lease = c.next_lease /\ d.revision = c.revision
    BY <1>3, <2>1, TicketsReplaced
  <2>3. Marked(c, d, ids, state)
    BY <1>5, <1>6, <2>2 DEF Marked, SameLimits
  <2> QED
    BY <2>3 DEF d

(* Dropping idempotency keys touches the index only.                       *)
LEMMA UnindexFacts ==
  ASSUME NEW c, Typed(c), NEW keys, NEW d, d = Unindex(c, keys)
  PROVE  /\ Typed(d)
         /\ d.index = Restrict(c.index, DOMAIN c.index \ keys)
         /\ d.tickets = c.tickets /\ d.waiting = c.waiting
         /\ d.active = c.active /\ d.reservations = c.reservations
         /\ d.allocated = c.allocated /\ d.pending = c.pending
         /\ d.next_lease = c.next_lease /\ d.revision = c.revision
BY DEF Unindex, Typed, Restrict

(* Replacing the line leaves the rest of the controller alone.             *)
LEMMA WaitingReplaced ==
  ASSUME NEW c, Typed(c), NEW w \in Seq(DOMAIN c.tickets),
         NEW d, d = [c EXCEPT !.waiting = w]
  PROVE  /\ Typed(d)
         /\ d.tickets = c.tickets /\ d.waiting = w /\ d.index = c.index
         /\ d.active = c.active /\ d.reservations = c.reservations
         /\ d.allocated = c.allocated /\ d.pending = c.pending
         /\ d.next_lease = c.next_lease /\ d.revision = c.revision
BY DEF Typed

-----------------------------------------------------------------------------
(* One more pop of the line finds at most one more Waiting ticket.         *)
LEMMA CallableFacts ==
  ASSUME NEW c, NEW n \in Nat
  PROVE  /\ IsFiniteSet(Callable(c, n))
         /\ Cardinality(Callable(c, n)) \in Nat
         /\ n = 0 => Cardinality(Callable(c, n)) = 0
         /\ n > 0 => Cardinality(Callable(c, n)) <= Cardinality(Callable(c, n - 1)) + 1
<1>1. ASSUME NEW m \in Nat
      PROVE  IsFiniteSet(Callable(c, m)) /\ Cardinality(Callable(c, m)) \in Nat
  <2>1. IsFiniteSet(1..m)
    BY FS_Interval
  <2>2. Callable(c, m) \in SUBSET (1..m)
    BY DEF Callable
  <2> QED
    BY <2>1, <2>2, FS_Subset, FS_CardinalityType
<1>2. ASSUME n = 0 PROVE Cardinality(Callable(c, n)) = 0
  <2>1. Callable(c, n) = {}
    BY <1>2 DEF Callable
  <2> QED
    BY <2>1, FS_EmptySet
<1>3. ASSUME n > 0
      PROVE  Cardinality(Callable(c, n)) <= Cardinality(Callable(c, n - 1)) + 1
  <2>1. n - 1 \in Nat
    BY <1>3
  <2>2. /\ IsFiniteSet(Callable(c, n - 1) \cup {n})
        /\ Cardinality(Callable(c, n - 1) \cup {n}) <= Cardinality(Callable(c, n - 1)) + 1
    <3> DEFINE B == Callable(c, n - 1)
    <3>1. IsFiniteSet(B) /\ Cardinality(B) \in Nat
      BY <1>1, <2>1
    <3> HIDE DEF B
    <3>2. /\ IsFiniteSet(B \cup {n})
          /\ Cardinality(B \cup {n}) = IF n \in B THEN Cardinality(B) ELSE Cardinality(B) + 1
      BY <3>1, FS_AddElement, Zenon
    <3>3. Cardinality(B \cup {n}) <= Cardinality(B) + 1
      BY <3>1, <3>2
    <3> QED
      BY <3>2, <3>3 DEF B
  <2>3. Callable(c, n) \in SUBSET (Callable(c, n - 1) \cup {n})
    BY <1>3 DEF Callable
  <2>4. Cardinality(Callable(c, n)) <= Cardinality(Callable(c, n - 1) \cup {n})
    BY <2>2, <2>3, FS_Subset
  <2> DEFINE a == Cardinality(Callable(c, n))
             b == Cardinality(Callable(c, n - 1) \cup {n})
             e == Cardinality(Callable(c, n - 1))
  <2>5. a \in Nat /\ b \in Nat /\ e \in Nat
    BY <1>1, <2>1, <2>2, FS_CardinalityType
  <2>6. b <= e + 1 /\ a <= b
    BY <2>2, <2>4
  <2> HIDE DEF a, b, e
  <2>7. a <= e + 1
    BY <2>5, <2>6
  <2> QED
    BY <2>7 DEF a, e
<1> QED
  BY <1>1, <1>2, <1>3

(* promote_at stops inside the line, having found no more Waiting tickets  *)
(* than there are free slots.                                              *)
LEMMA PopCountFacts ==
  ASSUME NEW c, Typed(c), FreeSlots(c) \in Nat
  PROVE  /\ PopCount(c) \in 0..Len(c.waiting)
         /\ \/ PopCount(c) = Len(c.waiting)
            \/ Cardinality(Callable(c, PopCount(c))) = FreeSlots(c)
         /\ Cardinality(Callable(c, PopCount(c))) <= FreeSlots(c)
<1> DEFINE F == FreeSlots(c)
           card(n) == Cardinality(Callable(c, n))
           Stops(n) == /\ \/ n = Len(c.waiting)
                          \/ card(n) = F
                       /\ \A m \in 0..n - 1 : card(m) < F
           T == {n \in 0..Len(c.waiting) : n = Len(c.waiting) \/ card(n) >= F}
<1>1. Len(c.waiting) \in Nat
  BY DEF Typed
<1>2. T \in SUBSET Nat /\ T # {}
  BY <1>1
<1>3. PICK n \in T : \A m \in T : n <= m
  <2> HIDE DEF T
  <2> QED
    BY <1>2, LeastNatural
<1>4. n \in Nat /\ n \in 0..Len(c.waiting)
  BY <1>1, <1>3
<1>5. ASSUME NEW k \in Nat
      PROVE  /\ card(k) \in Nat
             /\ k = 0 => card(k) = 0
             /\ k > 0 => card(k) <= card(k - 1) + 1
  BY CallableFacts
<1> HIDE DEF card, F
<1>6. ASSUME NEW m \in 0..n - 1 PROVE card(m) < F
  <2>1. m \in 0..Len(c.waiting) /\ m # Len(c.waiting) /\ ~ (n <= m) /\ m \in Nat
    BY <1>1, <1>4
  <2>2. m \notin T
    BY <1>3, <2>1
  <2>3. ~ (card(m) >= F) /\ card(m) \in Nat /\ F \in Nat
    BY <2>1, <2>2, <1>5 DEF F
  <2> QED
    BY <2>3
<1>7. card(n) <= F /\ (n = Len(c.waiting) \/ card(n) = F)
  <2>1. n = Len(c.waiting) \/ card(n) >= F
    BY <1>3
  <2>2. card(n) \in Nat /\ F \in Nat
    BY <1>4, <1>5 DEF F
  <2>3. card(n) <= F
    <3>1. CASE n = 0
      BY <3>1, <1>5, <2>2
    <3>2. CASE n > 0
      <4>1. n - 1 \in Nat /\ n - 1 \in 0..n - 1
        BY <3>2, <1>4
      <4>2. card(n - 1) < F /\ card(n - 1) \in Nat /\ card(n) <= card(n - 1) + 1
        BY <4>1, <3>2, <1>4, <1>5, <1>6
      <4> QED
        BY <4>2, <2>2
    <3> QED
      BY <3>1, <3>2, <1>4
  <2> QED
    BY <2>1, <2>2, <2>3
<1>8. Stops(n)
  BY <1>6, <1>7
<1>9. PopCount(c) = CHOOSE k \in 0..Len(c.waiting) : Stops(k)
  BY DEF PopCount, F, card
<1>10. PopCount(c) \in 0..Len(c.waiting) /\ Stops(PopCount(c))
  <2> HIDE DEF Stops
  <2> QED
    BY <1>4, <1>8, <1>9
<1>11. ASSUME NEW k \in 0..Len(c.waiting), Stops(k)
       PROVE  card(k) <= F
  <2>1. k \in Nat /\ card(k) \in Nat /\ F \in Nat
    BY <1>1, <1>5 DEF F
  <2>2. CASE k = 0
    BY <2>1, <2>2, <1>5
  <2>3. CASE k > 0
    <3>1. k - 1 \in Nat /\ k - 1 \in 0..k - 1
      BY <2>1, <2>3
    <3>2. card(k - 1) < F /\ card(k - 1) \in Nat /\ card(k) <= card(k - 1) + 1
      BY <3>1, <2>1, <2>3, <1>5, <1>11
    <3> QED
      BY <3>2, <2>1
  <2> QED
    BY <2>1, <2>2, <2>3
<1>12. card(PopCount(c)) <= F
  BY <1>10, <1>11
<1> QED
  BY <1>10, <1>12 DEF card, F

-----------------------------------------------------------------------------
(* The slots in use or kept for a reconnect.                               *)
Leases(c) == DOMAIN c.active \cup DOMAIN c.reservations

(* What WithinAllocation says of ctl, of any controller.                   *)
Budget(c) ==
    /\ Occupied(c) <= c.allocated
    /\ c.pending # NoTarget => c.pending < c.allocated

(* What SlotCountedOnce says of ctl, of any controller.                    *)
Once(c) == DOMAIN c.active \cap DOMAIN c.reservations = {}

(* What OnePlacePerPrincipal says of ctl, of any controller.               *)
Places(c) ==
    \A i, j \in Live(c) : c.tickets[i].principal = c.tickets[j].principal => i = j

(* The inductive invariant.                                                *)
Sound(c) == Typed(c) /\ Budget(c) /\ Once(c) /\ Places(c)

(* No ticket was issued and none changed its principal or its key.         *)
SameTickets(c, d) ==
    /\ DOMAIN d.tickets = DOMAIN c.tickets
    /\ \A i \in DOMAIN c.tickets : /\ d.tickets[i].principal = c.tickets[i].principal
                                   /\ d.tickets[i].key = c.tickets[i].key

(* The tickets in ids lost their place and their idempotency keys.         *)
Pruned(c, d, ids) ==
    /\ ids \subseteq Live(c)
    /\ Live(d) = Live(c) \ ids
    /\ d.index = Restrict(c.index, DOMAIN c.index \ KeysOf(c, ids))

(* Offers with time left are as they were.                                 *)
OfferKept(c, d) ==
    \A i \in TicketsIn(c, {"Offered"}) : c.tickets[i].left > 0 => d.tickets[i] = c.tickets[i]

(* Reservations with time left are as they were.                           *)
ReservationKept(c, d) ==
    \A l \in DOMAIN c.reservations :
        c.reservations[l].left > 0 =>
            l \in DOMAIN d.reservations /\ d.reservations[l] = c.reservations[l]

(* No lease and no place in the queue was added.                           *)
Eased(c, d) ==
    /\ d.active = c.active /\ d.next_lease = c.next_lease
    /\ DOMAIN d.reservations \subseteq DOMAIN c.reservations
    /\ SameTickets(c, d)
    /\ Live(d) \subseteq Live(c)

(* Where nothing is added, slots stay counted once and places unique.      *)
LEMMA EasedPlaces ==
  ASSUME NEW c, NEW d, Once(c), Places(c), Eased(c, d)
  PROVE  Once(d) /\ Places(d)
BY DEF Once, Places, Eased, SameTickets, Live, TicketsIn

(* With no more leases, reservations or offers, occupied does not grow.    *)
LEMMA OccupiedBounded ==
  ASSUME NEW c, NEW d, Typed(c), Typed(d),
         DOMAIN d.active \subseteq DOMAIN c.active,
         DOMAIN d.reservations \subseteq DOMAIN c.reservations,
         TicketsIn(d, {"Offered"}) \subseteq TicketsIn(c, {"Offered"})
  PROVE  Occupied(d) <= Occupied(c)
<1> DEFINE A == DOMAIN c.active
           B == DOMAIN c.reservations
           O == TicketsIn(c, {"Offered"})
           X == DOMAIN d.active
           Y == DOMAIN d.reservations
           Z == TicketsIn(d, {"Offered"})
<1>1. /\ IsFiniteSet(A) /\ Cardinality(A) \in Nat
      /\ IsFiniteSet(B) /\ Cardinality(B) \in Nat
      /\ IsFiniteSet(O) /\ Cardinality(O) \in Nat
      /\ Cardinality(X) \in Nat /\ Cardinality(Y) \in Nat /\ Cardinality(Z) \in Nat
  BY SlotsFinite
<1>2. X \in SUBSET A /\ Y \in SUBSET B /\ Z \in SUBSET O
  OBVIOUS
<1>3. /\ Occupied(c) = Cardinality(A) + Cardinality(B) + Cardinality(O)
      /\ Occupied(d) = Cardinality(X) + Cardinality(Y) + Cardinality(Z)
  BY DEF Occupied
<1> HIDE DEF A, B, O, X, Y, Z
<1>4. Cardinality(X) <= Cardinality(A) /\ Cardinality(Y) <= Cardinality(B)
         /\ Cardinality(Z) <= Cardinality(O)
  BY <1>1, <1>2, FS_Subset
<1> QED
  BY <1>1, <1>3, <1>4

(* The free slots and the occupied ones fit in the allocation, whether or  *)
(* not a lower target is pending.                                          *)
LEMMA FreeSlotsFacts ==
  ASSUME NEW c, Sound(c)
  PROVE  /\ Occupied(c) \in Nat /\ AdmissionLimit(c) \in Nat /\ FreeSlots(c) \in Nat
         /\ AdmissionLimit(c) <= c.allocated
         /\ Occupied(c) + FreeSlots(c) <= c.allocated
<1>1. Occupied(c) \in Nat
  BY OccupiedTyped DEF Sound
<1>2. /\ c.allocated \in Nat /\ c.pending \in Nat \cup {NoTarget}
      /\ Occupied(c) <= c.allocated
      /\ c.pending # NoTarget => c.pending < c.allocated
  BY DEF Sound, Typed, Budget
<1>3. AdmissionLimit(c) \in Nat /\ AdmissionLimit(c) <= c.allocated
  BY <1>2 DEF AdmissionLimit
<1> QED
  BY <1>1, <1>2, <1>3 DEF FreeSlots

(* What is left after pop_front calls is a sequence of the same elements.  *)
LEMMA AfterPopsTyped ==
  ASSUME NEW S, NEW s \in Seq(S), NEW n \in 0..Len(s)
  PROVE  AfterPops(s, n) \in Seq(S)
<1> DEFINE first == n + 1
           last == Len(s)
<1>1. first \in Int /\ last \in Int /\ \A i \in first..last : s[i] \in S
  OBVIOUS
<1>2. AfterPops(s, n) = SubSeq(s, first, last)
  BY DEF AfterPops
<1> HIDE DEF first, last
<1> QED
  BY <1>1, <1>2, SubSeqProperties, Zenon

(* The tickets promote_at is about to offer a slot.                        *)
Called(c) == {c.waiting[i] : i \in Callable(c, PopCount(c))}

(* promote_at stays within the allocation and changes Waiting tickets      *)
(* only.                                                                   *)
LEMMA PromoteFacts ==
  ASSUME NEW c, Sound(c)
  PROVE  LET d == Promote(c)
         IN  /\ Sound(d) /\ Eased(c, d) /\ SameLimits(c, d)
             /\ d.reservations = c.reservations
             /\ d.index = c.index /\ Live(d) = Live(c)
             /\ Occupied(d) <= Occupied(c) + FreeSlots(c)
             /\ d.waiting = AfterPops(c.waiting, PopCount(c))
             /\ \A i \in DOMAIN c.tickets :
                   /\ i \in Called(c) => d.tickets[i].state = "Offered"
                   /\ i \notin Called(c) => d.tickets[i] = c.tickets[i]
             /\ \A i \in DOMAIN c.tickets :
                   c.tickets[i].state # "Waiting" => d.tickets[i] = c.tickets[i]
<1> DEFINE n == PopCount(c)
           C == Callable(c, n)
           called == {c.waiting[i] : i \in C}
           e == SetState(c, called, "Offered", OfferTtl)
           w == AfterPops(c.waiting, n)
           d == [e EXCEPT !.waiting = w]
<1>1. Typed(c) /\ FreeSlots(c) \in Nat /\ Occupied(c) + FreeSlots(c) <= c.allocated
      /\ Occupied(c) \in Nat
  BY FreeSlotsFacts DEF Sound
<1>2. n \in 0..Len(c.waiting) /\ Cardinality(C) <= FreeSlots(c)
      /\ c.waiting \in Seq(DOMAIN c.tickets)
  BY <1>1, PopCountFacts DEF Typed
<1>3. "Offered" \in TicketStates /\ OfferTtl \in 0..OfferTtl
  BY PolicyAssumption DEF TicketStates
<1>4. AfterPops(c.waiting, n) \in Seq(DOMAIN c.tickets)
  BY <1>2, AfterPopsTyped
<1>5. C \subseteq 1..Len(c.waiting) /\ \A i \in C : c.tickets[c.waiting[i]].state = "Waiting"
  BY <1>2 DEF Callable
<1>6. called \subseteq DOMAIN c.tickets /\ \A i \in called : c.tickets[i].state = "Waiting"
  BY <1>2, <1>5
<1>7. IsFiniteSet(called) /\ Cardinality(called) \in Nat /\ Cardinality(called) <= Cardinality(C)
      /\ Cardinality(C) \in Nat
  <2> DEFINE f == [i \in C |-> c.waiting[i]]
  <2>1. f \in Surjection(C, called)
    BY DEF Surjection
  <2>2. IsFiniteSet(C) /\ Cardinality(C) \in Nat
    BY <1>2, CallableFacts
  <2> HIDE DEF f, called, C
  <2>3. IsFiniteSet(called) /\ Cardinality(called) <= Cardinality(C)
    BY <2>1, <2>2, FS_Surjection
  <2> QED
    BY <2>2, <2>3, FS_CardinalityType
<1> HIDE DEF called, C, n
<1>8. /\ Typed(e) /\ DOMAIN e.tickets = DOMAIN c.tickets
      /\ \A i \in DOMAIN c.tickets :
            /\ e.tickets[i].principal = c.tickets[i].principal
            /\ e.tickets[i].key = c.tickets[i].key
            /\ i \in called => e.tickets[i].state = "Offered"
            /\ i \notin called => e.tickets[i] = c.tickets[i]
      /\ e.active = c.active /\ e.reservations = c.reservations /\ e.index = c.index
      /\ e.next_lease = c.next_lease /\ SameLimits(c, e) /\ e.waiting = c.waiting
  <2>1. Marked(c, e, called, "Offered")
    BY <1>1, <1>3, SetStateFacts
  <2> HIDE DEF e
  <2> QED
    BY <2>1 DEF Marked
<1>9. Promote(c) = d
  BY <1>8 DEF Promote, n, C, called, w
<1> HIDE DEF e, w
<1>10. /\ Typed(d) /\ d.tickets = e.tickets /\ d.active = c.active
       /\ d.reservations = c.reservations /\ d.next_lease = c.next_lease /\ SameLimits(c, d)
       /\ d.waiting = AfterPops(c.waiting, n) /\ d.index = c.index
  <2>1. w \in Seq(DOMAIN e.tickets) /\ Typed(e)
    BY <1>4, <1>8 DEF w
  <2>2. d = [e EXCEPT !.waiting = w]
    OBVIOUS
  <2> HIDE DEF d
  <2>3. /\ Typed(d) /\ d.tickets = e.tickets /\ d.waiting = w /\ d.index = e.index
        /\ d.active = e.active /\ d.reservations = e.reservations
        /\ d.allocated = e.allocated /\ d.pending = e.pending
        /\ d.next_lease = e.next_lease /\ d.revision = e.revision
    BY <2>1, <2>2, WaitingReplaced
  <2> QED
    BY <1>8, <2>3 DEF SameLimits, w
<1> HIDE DEF d
<1>11. TicketsIn(d, {"Offered"}) = TicketsIn(c, {"Offered"}) \cup called
  BY <1>6, <1>8, <1>10 DEF TicketsIn
<1>12. Live(d) = Live(c)
  BY <1>6, <1>8, <1>10 DEF TicketsIn, Live
<1>13. Occupied(d) <= c.allocated /\ Occupied(d) <= Occupied(c) + FreeSlots(c)
  <2> DEFINE O == TicketsIn(c, {"Offered"})
  <2>1. IsFiniteSet(O) /\ Cardinality(O) \in Nat /\ Cardinality(DOMAIN c.active) \in Nat
        /\ Cardinality(DOMAIN c.reservations) \in Nat
    BY <1>1, SlotsFinite
  <2>2. Occupied(c) = Cardinality(DOMAIN c.active) + Cardinality(DOMAIN c.reservations)
                         + Cardinality(O)
    BY DEF Occupied
  <2>3. Occupied(d) = Cardinality(DOMAIN c.active) + Cardinality(DOMAIN c.reservations)
                         + Cardinality(O \cup called)
    BY <1>10, <1>11 DEF Occupied
  <2> HIDE DEF O
  <2>4. Cardinality(O \cup called) = Cardinality(O) + Cardinality(called)
                                        - Cardinality(O \cap called)
        /\ Cardinality(O \cup called) \in Nat
    BY <1>7, <2>1, FS_Union, FS_CardinalityType
  <2>5. Cardinality(O \cap called) \in Nat
    <3>1. O \cap called \in SUBSET O
      OBVIOUS
    <3> QED
      BY <3>1, <2>1, FS_Subset, FS_CardinalityType
  <2>6. Cardinality(called) <= FreeSlots(c)
    BY <1>1, <1>2, <1>7
  <2>7. c.allocated \in Nat
    BY <1>1 DEF Typed
  <2>8. Cardinality(O \cup called) <= Cardinality(O) + FreeSlots(c)
    BY <1>1, <1>7, <2>1, <2>4, <2>5, <2>6
  <2> QED
    BY <1>1, <2>1, <2>2, <2>3, <2>4, <2>7, <2>8
<1>14. Eased(c, d)
  BY <1>8, <1>10, <1>12 DEF Eased, SameTickets
<1>15. Budget(d)
  BY <1>10, <1>13 DEF Budget, SameLimits, Sound
<1>16. \A i \in DOMAIN c.tickets :
          c.tickets[i].state # "Waiting" => d.tickets[i] = c.tickets[i]
  BY <1>6, <1>8, <1>10
<1>17. called = Called(c)
  BY DEF called, C, n, Called
<1> QED
  BY <1>8, <1>9, <1>10, <1>12, <1>13, <1>14, <1>15, <1>16, <1>17, EasedPlaces DEF Sound, n

(* Easing twice is easing.                                                 *)
LEMMA EasedTransitive ==
  ASSUME NEW b, NEW c, NEW d, Eased(b, c), Eased(c, d)
  PROVE  Eased(b, d)
BY DEF Eased, SameTickets

(* d is c with only the reservations in kept and, of the line, only the    *)
(* tickets in keep.                                                        *)
OnlyKept(c, d, kept, keep) ==
    /\ Typed(d)
    /\ d.waiting = Retained(c.waiting, keep)
    /\ DOMAIN d.reservations = kept
    /\ \A l \in kept : d.reservations[l] = c.reservations[l]
    /\ d.tickets = c.tickets /\ d.active = c.active /\ d.index = c.index
    /\ d.next_lease = c.next_lease /\ SameLimits(c, d)

(* retain on the reservations and on the line changes nothing else.        *)
LEMMA ReservationsDropped ==
  ASSUME NEW c, Typed(c), NEW kept, NEW keep, kept \subseteq DOMAIN c.reservations
  PROVE  OnlyKept(c, [c EXCEPT !.reservations = Restrict(@, kept),
                               !.waiting = Retained(@, keep)], kept, keep)
<1> DEFINE w == Retained(c.waiting, keep)
           r == Restrict(c.reservations, kept)
           e == [c EXCEPT !.reservations = r]
           d == [c EXCEPT !.reservations = r, !.waiting = w]
<1>1. w \in Seq(DOMAIN c.tickets)
  <2>1. c.waiting \in Seq(DOMAIN c.tickets)
    BY DEF Typed
  <2> QED
    BY <2>1, RetainedProperties
<1>2. /\ r \in [kept -> Reservations] /\ DOMAIN r = kept
      /\ \A l \in kept : r[l] = c.reservations[l]
  BY DEF Typed, Restrict
<1> HIDE DEF r
<1>3. /\ Typed(e) /\ e.reservations = r
      /\ e.tickets = c.tickets /\ e.active = c.active /\ e.waiting = c.waiting
      /\ e.index = c.index
      /\ e.next_lease = c.next_lease /\ SameLimits(c, e)
  BY <1>2 DEF Typed, SameLimits
<1>4. d = [e EXCEPT !.waiting = w]
  OBVIOUS
<1> HIDE DEF w, e
<1>5. /\ Typed(d) /\ d.tickets = e.tickets /\ d.active = e.active /\ d.waiting = w
      /\ d.reservations = e.reservations /\ d.next_lease = e.next_lease
      /\ d.allocated = e.allocated /\ d.pending = e.pending /\ d.revision = e.revision
      /\ d.index = e.index
  <2>1. w \in Seq(DOMAIN e.tickets) /\ Typed(e)
    BY <1>1, <1>3
  <2> HIDE DEF d
  <2> QED
    BY <1>4, <2>1, WaitingReplaced
<1> HIDE DEF d
<1>6. OnlyKept(c, d, kept, keep)
  BY <1>2, <1>3, <1>5 DEF SameLimits, OnlyKept, w
<1> QED
  BY <1>6 DEF d, r, w

(* The expiry half of expire_at ends no offer and no reservation that has  *)
(* time left, and keeps the controller sound.                              *)
LEMMA DropLapsedFacts ==
  ASSUME NEW c, Sound(c)
  PROVE  LET d == DropLapsed(c)
         IN  /\ Sound(d) /\ Eased(c, d) /\ SameLimits(c, d)
             /\ OfferKept(c, d) /\ ReservationKept(c, d)
             /\ \A i \in DOMAIN c.tickets :
                   d.tickets[i] = c.tickets[i] \/ d.tickets[i].state = "Expired"
             /\ d.waiting = Retained(c.waiting, TicketsIn(d, {"Waiting"}))
             /\ \E ids : Pruned(c, d, ids)
<1> DEFINE lapsed == {i \in DOMAIN c.tickets : Lapsed(c.tickets[i])}
           kept == {l \in DOMAIN c.reservations : c.reservations[l].left > 0}
           b == SetState(c, lapsed, "Expired", 0)
           e == Unindex(b, KeysOf(c, lapsed))
           waits == TicketsIn(e, {"Waiting"})
           d == [e EXCEPT !.reservations = Restrict(@, kept), !.waiting = Retained(@, waits)]
<1>1. Typed(c) /\ Budget(c) /\ Once(c) /\ Places(c)
  BY DEF Sound
<1>2. "Expired" \in TicketStates /\ 0 \in 0..OfferTtl
  BY PolicyAssumption DEF TicketStates
<1>3. DropLapsed(c) = d
  BY DEF DropLapsed
<1>4. \A i \in lapsed : c.tickets[i].state \in {"Waiting", "Offered"}
                        /\ (c.tickets[i].state = "Offered" => c.tickets[i].left = 0)
  BY DEF Lapsed
<1>5. lapsed \subseteq DOMAIN c.tickets
  OBVIOUS
<1> HIDE DEF lapsed
<1>6. Marked(c, b, lapsed, "Expired")
  BY <1>1, <1>2, SetStateFacts
<1> HIDE DEF b
<1>7. /\ Typed(e) /\ e.tickets = b.tickets /\ e.waiting = b.waiting
      /\ e.index = Restrict(b.index, DOMAIN b.index \ KeysOf(c, lapsed))
      /\ e.active = b.active /\ e.reservations = b.reservations
      /\ e.allocated = b.allocated /\ e.pending = b.pending
      /\ e.next_lease = b.next_lease /\ e.revision = b.revision
  <2>1. Typed(b) /\ e = Unindex(b, KeysOf(c, lapsed))
    BY <1>6 DEF Marked
  <2> HIDE DEF e
  <2> QED
    BY <2>1, UnindexFacts
<1> HIDE DEF e
<1>8. kept \subseteq DOMAIN e.reservations
  BY <1>6, <1>7 DEF Marked
<1> HIDE DEF kept, waits
<1>9. /\ Typed(d) /\ DOMAIN d.reservations = kept
      /\ \A l \in kept : d.reservations[l] = e.reservations[l]
      /\ d.tickets = e.tickets /\ d.active = e.active /\ d.index = e.index
      /\ d.next_lease = e.next_lease /\ SameLimits(e, d)
      /\ d.waiting = Retained(e.waiting, waits)
  <2>1. OnlyKept(e, d, kept, waits)
    BY <1>7, <1>8, ReservationsDropped
  <2> HIDE DEF d
  <2> QED
    BY <2>1 DEF OnlyKept
<1> HIDE DEF d
<1>10. /\ Typed(d) /\ d.active = c.active /\ d.next_lease = c.next_lease /\ SameLimits(c, d)
       /\ DOMAIN d.tickets = DOMAIN c.tickets
       /\ \A i \in DOMAIN c.tickets :
             /\ d.tickets[i].principal = c.tickets[i].principal
             /\ d.tickets[i].key = c.tickets[i].key
             /\ i \in lapsed => d.tickets[i].state = "Expired"
             /\ i \notin lapsed => d.tickets[i] = c.tickets[i]
  BY <1>6, <1>7, <1>9 DEF Marked, SameLimits
<1>11. kept \subseteq DOMAIN c.reservations /\ ReservationKept(c, d)
  BY <1>6, <1>7, <1>9 DEF Marked, ReservationKept, kept
<1>12. OfferKept(c, d)
  <2>1. ASSUME NEW i \in TicketsIn(c, {"Offered"}), c.tickets[i].left > 0
        PROVE  d.tickets[i] = c.tickets[i]
    <3>1. i \in DOMAIN c.tickets /\ c.tickets[i].state = "Offered"
      BY DEF TicketsIn
    <3>2. i \notin lapsed
      BY <1>4, <2>1, <3>1
    <3> QED
      BY <1>10, <3>1, <3>2
  <2> QED
    BY <2>1 DEF OfferKept
<1>13. \A states \in SUBSET {"Waiting", "Offered"} :
          TicketsIn(d, states) \subseteq TicketsIn(c, states)
  BY <1>10 DEF TicketsIn
<1>14. Live(d) \subseteq Live(c) /\ TicketsIn(d, {"Offered"}) \subseteq TicketsIn(c, {"Offered"})
  BY <1>13 DEF Live
<1>15. Eased(c, d)
  BY <1>9, <1>10, <1>11, <1>14 DEF Eased, SameTickets
<1>16. Occupied(d) <= Occupied(c)
  BY <1>1, <1>9, <1>10, <1>11, <1>14, OccupiedBounded
<1>17. Budget(d)
  <2>1. Occupied(c) \in Nat /\ Occupied(d) \in Nat /\ c.allocated \in Nat
    BY <1>1, <1>10, OccupiedTyped DEF Typed
  <2> QED
    BY <1>1, <1>10, <1>16, <2>1 DEF Budget, SameLimits
<1>18. d.waiting = Retained(c.waiting, TicketsIn(d, {"Waiting"}))
  BY <1>6, <1>7, <1>9 DEF Marked, waits, TicketsIn
<1>19. Pruned(c, d, lapsed)
  <2>1. lapsed \subseteq Live(c) /\ Live(d) = Live(c) \ lapsed
    BY <1>4, <1>5, <1>10 DEF Live, TicketsIn
  <2>2. d.index = Restrict(c.index, DOMAIN c.index \ KeysOf(c, lapsed))
    BY <1>6, <1>7, <1>9 DEF Marked
  <2> QED
    BY <2>1, <2>2 DEF Pruned
<1> QED
  BY <1>1, <1>3, <1>10, <1>11, <1>12, <1>15, <1>17, <1>18, <1>19, EasedPlaces DEF Sound

(* apply_pending lowers the allocation only once what is occupied fits in  *)
(* it.                                                                     *)
LEMMA ApplyPendingFacts ==
  ASSUME NEW c, Sound(c)
  PROVE  LET d == ApplyPending(c)
         IN  /\ Sound(d)
             /\ d.active = c.active /\ d.reservations = c.reservations
             /\ d.next_lease = c.next_lease /\ d.tickets = c.tickets
             /\ d.waiting = c.waiting /\ d.index = c.index
<1> DEFINE d == [c EXCEPT !.allocated = c.pending, !.pending = NoTarget]
<1>1. CASE c.pending # NoTarget /\ Occupied(c) <= c.pending
  <2>1. ApplyPending(c) = d
    BY <1>1 DEF ApplyPending, Sound, Typed
  <2>2. /\ Typed(d) /\ d.allocated = c.pending /\ d.pending = NoTarget
        /\ d.active = c.active /\ d.reservations = c.reservations
        /\ d.next_lease = c.next_lease /\ d.tickets = c.tickets /\ d.waiting = c.waiting
        /\ d.index = c.index
    BY <1>1 DEF Sound, Typed
  <2> HIDE DEF d
  <2>3. Occupied(d) = Occupied(c)
    BY <2>2 DEF Occupied, TicketsIn
  <2>4. Budget(d)
    BY <1>1, <2>2, <2>3 DEF Budget
  <2>5. Once(d) /\ Places(d)
    BY <2>2 DEF Sound, Once, Places, Live, TicketsIn
  <2> QED
    BY <2>1, <2>2, <2>4, <2>5 DEF Sound
<1>2. CASE ~ (c.pending # NoTarget /\ Occupied(c) <= c.pending)
  BY <1>2 DEF ApplyPending
<1> QED
  BY <1>1, <1>2

(* apply_pending followed by promote_at, as every departure ends.          *)
LEMMA SettleFacts ==
  ASSUME NEW c, Sound(c)
  PROVE  LET d == Promote(ApplyPending(c))
         IN  /\ Sound(d) /\ Eased(c, d)
             /\ d.reservations = c.reservations
             /\ \A i \in DOMAIN c.tickets :
                   c.tickets[i].state # "Waiting" => d.tickets[i] = c.tickets[i]
<1> DEFINE b == ApplyPending(c)
           d == Promote(b)
<1>1. /\ Sound(b) /\ b.active = c.active /\ b.reservations = c.reservations
      /\ b.next_lease = c.next_lease /\ b.tickets = c.tickets
  BY ApplyPendingFacts
<1> HIDE DEF b
<1>2. /\ Sound(d) /\ Eased(b, d) /\ d.reservations = b.reservations
      /\ \A i \in DOMAIN b.tickets :
            b.tickets[i].state # "Waiting" => d.tickets[i] = b.tickets[i]
  BY <1>1, PromoteFacts
<1> HIDE DEF d
<1>3. Eased(c, d)
  BY <1>1, <1>2 DEF Eased, SameTickets, Live, TicketsIn
<1>4. /\ Sound(d) /\ Eased(c, d) /\ d.reservations = c.reservations
      /\ \A i \in DOMAIN c.tickets :
            c.tickets[i].state # "Waiting" => d.tickets[i] = c.tickets[i]
  BY <1>1, <1>2, <1>3
<1> QED
  BY <1>4 DEF b, d

(* expire_at keeps the controller sound and what it promised in place.     *)
LEMMA ExpireFacts ==
  ASSUME NEW c, Sound(c)
  PROVE  LET d == Expire(c)
         IN  Sound(d) /\ Eased(c, d) /\ OfferKept(c, d) /\ ReservationKept(c, d)
<1> DEFINE b == DropLapsed(c)
           d == Promote(ApplyPending(b))
<1>1. Sound(b) /\ Eased(c, b) /\ OfferKept(c, b) /\ ReservationKept(c, b)
  BY DropLapsedFacts
<1> HIDE DEF b
<1>2. /\ Sound(d) /\ Eased(b, d) /\ d.reservations = b.reservations
      /\ \A i \in DOMAIN b.tickets :
            b.tickets[i].state # "Waiting" => d.tickets[i] = b.tickets[i]
  BY <1>1, SettleFacts
<1>3. Expire(c) = d
  BY DEF Expire, b
<1> HIDE DEF d
<1>4. Eased(c, d)
  BY <1>1, <1>2, EasedTransitive
<1>5. ReservationKept(c, d)
  BY <1>1, <1>2 DEF ReservationKept
<1>6. OfferKept(c, d)
  BY <1>1, <1>2 DEF OfferKept, TicketsIn, Eased, SameTickets
<1> QED
  BY <1>2, <1>3, <1>4, <1>5, <1>6

-----------------------------------------------------------------------------
(* d is sound; no released lease is back; every offer is still one or      *)
(* ended by its claim or cancellation; every reservation is still one or   *)
(* was resumed.                                                            *)
Follows(c, d) ==
    /\ Sound(d)
    /\ \A l \in 1..c.next_lease - 1 : l \in Leases(d) => l \in Leases(c)
    /\ \A i \in TicketsIn(c, {"Offered"}) :
          /\ i \in DOMAIN d.tickets
          /\ d.tickets[i].state \in {"Offered", "Admitted", "Cancelled"}
    /\ \A l \in DOMAIN c.reservations :
          \/ l \in DOMAIN d.reservations
          \/ l \in DOMAIN d.active /\ d.active[l] = c.reservations[l].principal

(* A refused call changes nothing.                                         *)
LEMMA FollowsItself ==
  ASSUME NEW c, Sound(c)
  PROVE  Follows(c, c)
BY DEF Follows, TicketsIn

(* What a promotion leaves alone still follows.                            *)
LEMMA SettledFollows ==
  ASSUME NEW c, NEW d, NEW e, Follows(c, d), Sound(e), Eased(d, e),
         e.reservations = d.reservations,
         \A i \in DOMAIN d.tickets :
             d.tickets[i].state # "Waiting" => e.tickets[i] = d.tickets[i]
  PROVE  Follows(c, e)
BY DEF Follows, Eased, SameTickets, Leases

(* An operation may end with promote_at, or with apply_pending before it.  *)
LEMMA PromotedFollows ==
  ASSUME NEW c, NEW d, Follows(c, d)
  PROVE  Follows(c, Promote(d)) /\ Follows(c, Promote(ApplyPending(d)))
<1>1. Sound(d)
  BY DEF Follows
<1>2. Follows(c, Promote(d))
  <2> DEFINE e == Promote(d)
  <2>1. /\ Sound(e) /\ Eased(d, e) /\ e.reservations = d.reservations
        /\ \A i \in DOMAIN d.tickets :
              d.tickets[i].state # "Waiting" => e.tickets[i] = d.tickets[i]
    BY <1>1, PromoteFacts
  <2> HIDE DEF e
  <2>2. Follows(c, e)
    BY <2>1, SettledFollows
  <2> QED
    BY <2>2 DEF e
<1>3. Follows(c, Promote(ApplyPending(d)))
  <2> DEFINE e == Promote(ApplyPending(d))
  <2>1. /\ Sound(e) /\ Eased(d, e) /\ e.reservations = d.reservations
        /\ \A i \in DOMAIN d.tickets :
              d.tickets[i].state # "Waiting" => e.tickets[i] = d.tickets[i]
    BY <1>1, SettleFacts
  <2> HIDE DEF e
  <2>2. Follows(c, e)
    BY <2>1, SettledFollows
  <2> QED
    BY <2>2 DEF e
<1> QED
  BY <1>2, <1>3

(* admit gives a fresh lease id to the principal, and needs one free slot. *)
LEMMA AdmitFacts ==
  ASSUME NEW c, Sound(c), NEW p \in Principals, Occupied(c) < c.allocated
  PROVE  LET d == Admit(c, p)
         IN  /\ Sound(d) /\ d.tickets = c.tickets
             /\ d.reservations = c.reservations
             /\ Leases(d) = Leases(c) \cup {c.next_lease}
             /\ d.next_lease = c.next_lease + 1
             /\ d.waiting = c.waiting /\ d.index = c.index /\ SameLimits(c, d)
             /\ Occupied(d) = Occupied(c) + 1
<1> DEFINE a == Insert(c.active, c.next_lease, p)
           d == [c EXCEPT !.active = a, !.next_lease = c.next_lease + 1]
<1>1. Typed(c) /\ Budget(c) /\ Once(c) /\ Places(c) /\ c.next_lease \in Nat \ {0}
      /\ c.allocated \in Nat
  BY DEF Sound, Typed
<1>2. Admit(c, p) = d
  BY <1>1 DEF Admit, Typed
<1>3. c.next_lease \notin Leases(c) /\ Leases(c) \subseteq 1..c.next_lease - 1
  BY <1>1 DEF Typed, Leases
<1>4. DOMAIN a = DOMAIN c.active \cup {c.next_lease} /\ a \in [DOMAIN a -> Principals]
  BY <1>1 DEF Insert, Typed
<1> HIDE DEF a
<1>5. /\ d.active = a /\ d.next_lease = c.next_lease + 1
      /\ d.tickets = c.tickets /\ d.reservations = c.reservations /\ SameLimits(c, d)
      /\ d.waiting = c.waiting /\ d.index = c.index
  BY <1>1 DEF Typed, SameLimits
<1>6. d \in [allocated : Nat, pending : Nat \cup {NoTarget}, revision : Nat,
              next_lease : Nat \ {0}, active : {a}, reservations : {c.reservations},
              tickets : Seq(Tickets), waiting : Seq(DOMAIN c.tickets), index : {c.index}]
  <2>1. c.next_lease + 1 \in Nat \ {0}
    BY <1>1
  <2> QED
    BY <1>1, <2>1 DEF Typed
<1> HIDE DEF d
<1>7. DOMAIN d.active \cup DOMAIN d.reservations \subseteq 1..d.next_lease - 1
  <2>1. \A l \in 1..c.next_lease - 1 : l \in 1..(c.next_lease + 1) - 1
    BY <1>1
  <2>2. c.next_lease \in 1..(c.next_lease + 1) - 1
    BY <1>1
  <2> QED
    BY <1>3, <1>4, <1>5, <2>1, <2>2 DEF Leases
<1>8. Typed(d)
  BY <1>1, <1>4, <1>5, <1>6, <1>7 DEF Typed
<1>9. Occupied(d) <= c.allocated /\ Occupied(d) = Occupied(c) + 1
  <2> DEFINE A == DOMAIN c.active
             B == Cardinality(DOMAIN c.reservations)
             O == Cardinality(TicketsIn(c, {"Offered"}))
  <2>1. IsFiniteSet(A) /\ Cardinality(A) \in Nat /\ B \in Nat /\ O \in Nat
    BY <1>1, SlotsFinite
  <2>2. Occupied(c) = Cardinality(A) + B + O
    BY DEF Occupied
  <2>3. Occupied(d) = Cardinality(A \cup {c.next_lease}) + B + O
    BY <1>4, <1>5 DEF Occupied, TicketsIn
  <2>4. c.next_lease \notin A
    BY <1>3 DEF Leases
  <2> HIDE DEF A, B, O
  <2>5. Cardinality(A \cup {c.next_lease}) = Cardinality(A) + 1
    BY <2>1, <2>4, FS_AddElement
  <2> QED
    BY <1>1, <2>1, <2>2, <2>3, <2>5
<1>10. Budget(d)
  BY <1>1, <1>5, <1>9 DEF Budget, SameLimits
<1>11. Once(d) /\ Places(d)
  BY <1>1, <1>3, <1>4, <1>5 DEF Once, Places, Live, TicketsIn, Leases
<1>12. Leases(d) = Leases(c) \cup {c.next_lease}
  BY <1>4, <1>5 DEF Leases
<1>13. /\ Sound(d) /\ d.tickets = c.tickets /\ d.reservations = c.reservations
       /\ Leases(d) = Leases(c) \cup {c.next_lease} /\ d.next_lease = c.next_lease + 1
       /\ d.waiting = c.waiting /\ d.index = c.index /\ SameLimits(c, d)
       /\ Occupied(d) = Occupied(c) + 1
  BY <1>5, <1>8, <1>9, <1>10, <1>11, <1>12 DEF Sound
<1> QED
  BY <1>2, <1>13

(* An operation may end with admit when a slot is free.                    *)
LEMMA AdmitFollows ==
  ASSUME NEW c, NEW d, Follows(c, d), d.next_lease = c.next_lease, c.next_lease \in Nat,
         NEW p \in Principals, Occupied(d) < d.allocated
  PROVE  Follows(c, Admit(d, p))
<1> DEFINE e == Admit(d, p)
<1>1. Sound(d)
  BY DEF Follows
<1>2. /\ Sound(e) /\ e.tickets = d.tickets /\ e.reservations = d.reservations
      /\ Leases(e) = Leases(d) \cup {d.next_lease}
  BY <1>1, AdmitFacts
<1>3. \A l \in 1..c.next_lease - 1 : l # d.next_lease
  OBVIOUS
<1>4. \A l \in DOMAIN d.active : l \in DOMAIN e.active /\ e.active[l] = d.active[l]
  <2>1. d.next_lease \notin DOMAIN d.active
    BY <1>1 DEF Sound, Typed
  <2>2. e.active = Insert(d.active, d.next_lease, p)
    BY <1>1 DEF Admit, Sound, Typed
  <2> HIDE DEF e
  <2> QED
    BY <2>1, <2>2 DEF Insert
<1> HIDE DEF e
<1>5. Follows(c, e)
  BY <1>2, <1>3, <1>4 DEF Follows
<1> QED
  BY <1>5 DEF e

-----------------------------------------------------------------------------
(* The entry that enqueue inserts.                                         *)
LEMMA NewTicketTyped ==
  ASSUME NEW p \in Principals, NEW key \in Keys
  PROVE  [principal |-> p, key |-> key, state |-> "Waiting", age |-> 0,
          idle |-> 0, left |-> 0] \in Tickets
<1>1. /\ 0 \in 0..TicketTtl /\ 0 \in 0..HeartbeatTimeout /\ 0 \in 0..OfferTtl
      /\ "Waiting" \in TicketStates
  BY PolicyAssumption DEF TicketStates
<1> QED
  BY <1>1, Zenon DEF Tickets

(* One ticket was added, at the end of the line and under its key; nothing *)
(* else happened to the queue or to the slots.                             *)
Enqueued(c, d, key) ==
    LET id == Len(c.tickets) + 1
    IN  /\ d.waiting = Append(c.waiting, id)
        /\ d.index = Insert(c.index, key, id)
        /\ DOMAIN d.tickets = DOMAIN c.tickets \cup {id}
        /\ d.tickets[id].state = "Waiting" /\ d.tickets[id].key = key
        /\ \A i \in DOMAIN c.tickets : d.tickets[i] = c.tickets[i]
        /\ Occupied(d) = Occupied(c) /\ SameLimits(c, d)

(* enqueue gives a principal without a place one place.                    *)
LEMMA EnqueueFollows ==
  ASSUME NEW c, Sound(c), NEW p \in Principals, NEW key \in Keys,
         ~ HasQueuedPrincipal(c, p)
  PROVE  Follows(c, Enqueue(c, key, p)) /\ Enqueued(c, Enqueue(c, key, p), key)
<1> DEFINE id == Len(c.tickets) + 1
           t == [principal |-> p, key |-> key, state |-> "Waiting", age |-> 0,
                 idle |-> 0, left |-> 0]
           ts == Append(c.tickets, t)
           ix == Insert(c.index, key, id)
           w == Append(c.waiting, id)
           d == [c EXCEPT !.tickets = ts, !.index = ix, !.waiting = w]
<1>1. Typed(c) /\ Budget(c) /\ Once(c) /\ Places(c)
  BY DEF Sound
<1>2. c.tickets \in Seq(Tickets) /\ c.waiting \in Seq(DOMAIN c.tickets)
  BY <1>1 DEF Typed
<1>3. t \in Tickets /\ t.principal = p /\ t.state = "Waiting" /\ t.key = key
  BY NewTicketTyped
<1> HIDE DEF t
<1>4. /\ ts \in Seq(Tickets) /\ DOMAIN ts = DOMAIN c.tickets \cup {id}
      /\ ts[id] = t /\ \A i \in DOMAIN c.tickets : ts[i] = c.tickets[i]
      /\ id \notin DOMAIN c.tickets
  BY <1>2, <1>3
<1> HIDE DEF ts
<1>5. w \in Seq(DOMAIN ts)
  <2>1. c.waiting \in Seq(DOMAIN ts)
    BY <1>2, <1>4, SeqMonotonic
  <2>2. id \in DOMAIN ts
    BY <1>4
  <2> HIDE DEF id
  <2> QED
    BY <2>1, <2>2, AppendProperties
<1> HIDE DEF w
<1>6. DOMAIN ix \subseteq Keys /\ ix \in [DOMAIN ix -> DOMAIN ts]
  BY <1>1, <1>4 DEF Insert, Typed
<1> HIDE DEF id, ix
<1>7. /\ Typed(d) /\ d.tickets = ts /\ d.waiting = w /\ d.index = ix
      /\ d.active = c.active /\ d.reservations = c.reservations
      /\ d.next_lease = c.next_lease /\ SameLimits(c, d)
  BY <1>1, <1>4, <1>5, <1>6 DEF Typed, SameLimits
<1>8. Enqueue(c, key, p) = d
  <2>1. Enqueue(c, key, p) = [c EXCEPT !.tickets = Append(@, t), !.index = Insert(@, key, id),
                                       !.waiting = Append(@, id)]
    BY DEF Enqueue, id, t
  <2> QED
    BY <1>1, <2>1 DEF Typed, ts, ix, w
<1> HIDE DEF d
<1>9. TicketsIn(d, {"Offered"}) = TicketsIn(c, {"Offered"}) /\ Live(d) = Live(c) \cup {id}
  BY <1>3, <1>4, <1>7 DEF TicketsIn, Live
<1>10. Occupied(d) = Occupied(c)
  BY <1>7, <1>9 DEF Occupied
<1>11. Budget(d)
  BY <1>1, <1>7, <1>10 DEF Budget, SameLimits
<1>12. Once(d)
  BY <1>1, <1>7 DEF Once
<1>13. Places(d)
  <2>1. \A i \in Live(c) : i \in DOMAIN c.tickets /\ c.tickets[i].principal # p
    BY DEF HasQueuedPrincipal, Live, TicketsIn
  <2> QED
    BY <1>1, <1>3, <1>4, <1>7, <1>9, <2>1 DEF Places
<1>14. Sound(d)
  BY <1>7, <1>11, <1>12, <1>13 DEF Sound
<1>15. Follows(c, d)
  BY <1>4, <1>7, <1>14 DEF Follows, Leases, TicketsIn
<1>16. Enqueued(c, d, key)
  BY <1>3, <1>4, <1>7, <1>10 DEF Enqueued, id, w, ix
<1> QED
  BY <1>8, <1>15, <1>16

(* request_join_at, after expire_at, in each of its decisions.             *)
LEMMA JoinFollows ==
  ASSUME NEW c, Sound(c), NEW p \in Principals, NEW key \in Keys \cup {NoKey}
  PROVE  Follows(c, AfterJoin(c, p, key))
<1>1. CASE JoinDecision(c, p, key) = "Admitted"
  <2>1. Occupied(c) < AdmissionLimit(c)
    BY <1>1 DEF JoinDecision
  <2>2. Occupied(c) < c.allocated
    <3>1. /\ Occupied(c) \in Nat /\ AdmissionLimit(c) \in Nat
          /\ AdmissionLimit(c) <= c.allocated
      BY FreeSlotsFacts
    <3>2. c.allocated \in Nat
      BY DEF Sound, Typed
    <3> QED
      BY <2>1, <3>1, <3>2
  <2>3. Follows(c, Admit(c, p))
    BY <2>2, FollowsItself, AdmitFollows DEF Sound, Typed
  <2> QED
    BY <1>1, <2>3 DEF AfterJoin
<1>2. CASE JoinDecision(c, p, key) = "Queued"
  <2>1. key \in Keys /\ ~ HasQueuedPrincipal(c, p)
    BY <1>2 DEF JoinDecision
  <2> QED
    BY <1>2, <2>1, EnqueueFollows DEF AfterJoin
<1>3. CASE JoinDecision(c, p, key) \notin {"Admitted", "Queued"}
  BY <1>3, FollowsItself DEF AfterJoin
<1> QED
  BY <1>1, <1>2, <1>3

(* Resetting the heartbeat of a ticket leaves its other fields alone.      *)
LEMMA IdleUpdate ==
  ASSUME NEW P, NEW K, NEW S, NEW A, NEW I, NEW L,
         NEW t \in [principal : P, key : K, state : S, age : A, idle : I, left : L],
         NEW i \in I
  PROVE  LET u == [t EXCEPT !.idle = i]
         IN  /\ u \in [principal : P, key : K, state : S, age : A, idle : I, left : L]
             /\ u.state = t.state /\ u.principal = t.principal /\ u.key = t.key
OBVIOUS

(* Only the timers differ.                                                 *)
Aged(c, d) ==
    /\ Typed(d)
    /\ DOMAIN d.tickets = DOMAIN c.tickets
    /\ \A i \in DOMAIN c.tickets : /\ d.tickets[i].state = c.tickets[i].state
                                   /\ d.tickets[i].principal = c.tickets[i].principal
                                   /\ d.tickets[i].key = c.tickets[i].key
    /\ d.index = c.index
    /\ d.active = c.active /\ DOMAIN d.reservations = DOMAIN c.reservations
    /\ d.next_lease = c.next_lease /\ d.waiting = c.waiting
    /\ d.allocated = c.allocated /\ d.pending = c.pending

(* When only timers change, the controller stays sound.                    *)
LEMMA AgedFollows ==
  ASSUME NEW c, NEW d, Sound(c), Aged(c, d)
  PROVE  Follows(c, d) /\ Occupied(d) = Occupied(c)
<1>1. TicketsIn(d, {"Offered"}) = TicketsIn(c, {"Offered"}) /\ Live(d) = Live(c)
  BY DEF Live, TicketsIn, Aged
<1>2. Occupied(d) = Occupied(c)
  BY <1>1 DEF Occupied, Aged
<1>3. Budget(d) /\ Once(d) /\ Places(d)
  BY <1>1, <1>2 DEF Sound, Budget, Once, Places, Live, TicketsIn, Aged
<1> QED
  BY <1>2, <1>3 DEF Sound, Follows, Leases, TicketsIn, Aged

(* heartbeat_at resets a timer and nothing else.                           *)
LEMMA HeartbeatAges ==
  ASSUME NEW c, Sound(c), NEW id
  PROVE  Aged(c, AfterHeartbeat(c, id))
<1>1. CASE id \in TicketsIn(c, {"Waiting"})
  <2> DEFINE t == [c.tickets[id] EXCEPT !.idle = 0]
             ts == [c.tickets EXCEPT ![id] = t]
             d == [c EXCEPT !.tickets = ts]
  <2>1. Typed(c) /\ Budget(c) /\ Once(c) /\ Places(c)
    BY DEF Sound
  <2>2. c.tickets \in Seq(Tickets) /\ id \in DOMAIN c.tickets /\ c.tickets[id] \in Tickets
    BY <1>1, <2>1 DEF Typed, TicketsIn
  <2>3. /\ t \in Tickets /\ t.state = c.tickets[id].state
        /\ t.principal = c.tickets[id].principal /\ t.key = c.tickets[id].key
    <3>1. 0 \in 0..HeartbeatTimeout
      BY PolicyAssumption
    <3> QED
      BY <2>2, <3>1, IdleUpdate DEF Tickets
  <2>4. AfterHeartbeat(c, id) = d
    BY <1>1, <2>1, <2>2 DEF AfterHeartbeat, Typed
  <2> HIDE DEF t
  <2>5. /\ ts \in Seq(Tickets) /\ Len(ts) = Len(c.tickets)
        /\ \A i \in DOMAIN c.tickets : /\ ts[i].state = c.tickets[i].state
                                       /\ ts[i].principal = c.tickets[i].principal
                                       /\ ts[i].key = c.tickets[i].key
    BY <2>2, <2>3
  <2> HIDE DEF ts
  <2>6. /\ Typed(d) /\ d.tickets = ts /\ d.active = c.active /\ d.index = c.index
        /\ d.reservations = c.reservations /\ d.next_lease = c.next_lease
        /\ d.allocated = c.allocated /\ d.pending = c.pending /\ d.waiting = c.waiting
    <3>1. Typed(c) /\ d = [c EXCEPT !.tickets = ts]
      BY <2>1
    <3> HIDE DEF d
    <3> QED
      BY <2>5, <3>1, TicketsReplaced
  <2> HIDE DEF d
  <2>7. DOMAIN d.tickets = DOMAIN c.tickets
    BY <2>2, <2>5, <2>6
  <2>8. Aged(c, d)
    BY <2>5, <2>6, <2>7 DEF Aged
  <2> QED
    BY <2>4, <2>8
<1>2. CASE id \notin TicketsIn(c, {"Waiting"})
  BY <1>2 DEF AfterHeartbeat, Aged, Sound
<1> QED
  BY <1>1, <1>2

-----------------------------------------------------------------------------
(* One ticket was cancelled or admitted, and no other entry changed.       *)
TakenOut(c, d, id) ==
    /\ Typed(d)
    /\ DOMAIN d.tickets = DOMAIN c.tickets
    /\ \A i \in DOMAIN c.tickets :
          /\ d.tickets[i].principal = c.tickets[i].principal
          /\ d.tickets[i].key = c.tickets[i].key
          /\ i = id => d.tickets[i].state \in {"Cancelled", "Admitted"}
          /\ i # id => d.tickets[i] = c.tickets[i]
    /\ Pruned(c, d, {id})
    /\ d.active = c.active /\ d.reservations = c.reservations
    /\ d.next_lease = c.next_lease /\ SameLimits(c, d)

(* A live ticket that is cancelled or admitted frees its place and its     *)
(* offer.                                                                  *)
LEMMA TakenOutFollows ==
  ASSUME NEW c, NEW d, Sound(c), NEW id \in Live(c), TakenOut(c, d, id)
  PROVE  Follows(c, d) /\ TicketsIn(d, {"Offered"}) = TicketsIn(c, {"Offered"}) \ {id}
<1> USE DEF TakenOut
<1>1. TicketsIn(d, {"Offered"}) = TicketsIn(c, {"Offered"}) \ {id}
  BY DEF TicketsIn
<1>2. Live(d) \subseteq Live(c)
  BY DEF Pruned
<1>3. Eased(c, d)
  BY <1>2 DEF Eased, SameTickets
<1>4. Typed(c) /\ Budget(c) /\ Once(c) /\ Places(c)
  BY DEF Sound
<1>5. Occupied(d) <= Occupied(c)
  BY <1>1, <1>4, OccupiedBounded
<1>6. Budget(d)
  <2>1. Occupied(c) \in Nat /\ Occupied(d) \in Nat /\ c.allocated \in Nat
    BY <1>4, OccupiedTyped DEF Typed
  <2> QED
    BY <1>4, <1>5, <2>1 DEF Budget, SameLimits
<1>7. Sound(d)
  BY <1>3, <1>4, <1>6, EasedPlaces DEF Sound
<1>8. \A i \in TicketsIn(c, {"Offered"}) :
         i \in DOMAIN c.tickets /\ d.tickets[i].state \in {"Offered", "Admitted", "Cancelled"}
  BY DEF TicketsIn
<1> QED
  BY <1>1, <1>7, <1>8 DEF Follows, Leases

(* A ticket that is cancelled or admitted leaves the index under its key.  *)
LEMMA OneTakenOut ==
  ASSUME NEW c, NEW d, NEW id \in Live(c),
         DOMAIN d.tickets = DOMAIN c.tickets,
         d.tickets[id].state \in {"Cancelled", "Admitted"},
         \A i \in DOMAIN c.tickets : i # id => d.tickets[i] = c.tickets[i],
         d.index = Restrict(c.index, DOMAIN c.index \ KeysOf(c, {id}))
  PROVE  Pruned(c, d, {id})
BY DEF Pruned, Live, TicketsIn

(* cancel_at takes the ticket out of the queue and then promotes.          *)
LEMMA CancelTakesOut ==
  ASSUME NEW c, Sound(c), NEW id \in Live(c)
  PROVE  \E d : /\ AfterCancel(c, id) = Promote(d)
                /\ TakenOut(c, d, id) /\ d.waiting = Without(c.waiting, id)
<1> DEFINE b == SetState(c, {id}, "Cancelled", 0)
           e == Unindex(b, KeysOf(c, {id}))
           w == Without(e.waiting, id)
           d == [e EXCEPT !.waiting = w]
<1>1. Typed(c) /\ "Cancelled" \in TicketStates /\ 0 \in 0..OfferTtl
  BY PolicyAssumption DEF Sound, TicketStates
<1>2. Marked(c, b, {id}, "Cancelled")
  BY <1>1, SetStateFacts
<1> HIDE DEF b
<1>3. /\ Typed(e) /\ e.tickets = b.tickets /\ e.waiting = b.waiting
      /\ e.index = Restrict(b.index, DOMAIN b.index \ KeysOf(c, {id}))
      /\ e.active = b.active /\ e.reservations = b.reservations
      /\ e.allocated = b.allocated /\ e.pending = b.pending
      /\ e.next_lease = b.next_lease /\ e.revision = b.revision
  <2> DEFINE ks == KeysOf(c, {id})
  <2>1. Typed(b) /\ e = Unindex(b, ks)
    BY <1>2 DEF Marked
  <2> HIDE DEF e, ks
  <2>2. /\ Typed(e) /\ e.tickets = b.tickets /\ e.waiting = b.waiting
        /\ e.index = Restrict(b.index, DOMAIN b.index \ ks)
        /\ e.active = b.active /\ e.reservations = b.reservations
        /\ e.allocated = b.allocated /\ e.pending = b.pending
        /\ e.next_lease = b.next_lease /\ e.revision = b.revision
    BY <2>1, UnindexFacts
  <2> QED
    BY <2>2 DEF ks
<1> HIDE DEF e
<1>4. w \in Seq(DOMAIN e.tickets)
  <2>1. e.waiting \in Seq(DOMAIN e.tickets)
    BY <1>3 DEF Typed
  <2> QED
    BY <2>1, RetainedProperties DEF Without
<1>5. AfterCancel(c, id) = Promote(d)
  <2>1. AfterCancel(c, id) = Promote([e EXCEPT !.waiting = Without(@, id)])
    BY DEF AfterCancel, e, b
  <2>2. [e EXCEPT !.waiting = Without(@, id)] = d
    BY <1>3 DEF Typed
  <2> QED
    BY <2>1, <2>2
<1> HIDE DEF w
<1>6. /\ Typed(d) /\ d.tickets = e.tickets /\ d.active = e.active /\ d.waiting = w
      /\ d.reservations = e.reservations /\ d.next_lease = e.next_lease
      /\ d.allocated = e.allocated /\ d.pending = e.pending /\ d.revision = e.revision
      /\ d.index = e.index
  <2>1. Typed(e) /\ w \in Seq(DOMAIN e.tickets) /\ d = [e EXCEPT !.waiting = w]
    BY <1>3, <1>4
  <2> HIDE DEF d
  <2> QED
    BY <2>1, WaitingReplaced
<1> HIDE DEF d
<1>7. Pruned(c, d, {id})
  <2>1. id \in DOMAIN c.tickets
    BY DEF Live, TicketsIn
  <2>2. DOMAIN d.tickets = DOMAIN c.tickets /\ d.tickets[id].state = "Cancelled"
    BY <1>2, <1>3, <1>6, <2>1 DEF Marked
  <2>3. \A i \in DOMAIN c.tickets : i # id => d.tickets[i] = c.tickets[i]
    BY <1>2, <1>3, <1>6 DEF Marked
  <2>4. d.index = Restrict(c.index, DOMAIN c.index \ KeysOf(c, {id}))
    BY <1>2, <1>3, <1>6 DEF Marked
  <2> QED
    BY <2>2, <2>3, <2>4, OneTakenOut
<1>8. TakenOut(c, d, id) /\ d.waiting = Without(c.waiting, id)
  BY <1>2, <1>3, <1>6, <1>7 DEF Marked, SameLimits, TakenOut, w
<1> QED
  BY <1>5, <1>8

(* cancel_at, after expire_at.                                             *)
LEMMA CancelFollows ==
  ASSUME NEW c, Sound(c), NEW id
  PROVE  Follows(c, AfterCancel(c, id))
<1>1. CASE id \in Live(c)
  BY <1>1, CancelTakesOut, TakenOutFollows, PromotedFollows
<1>2. CASE id \notin Live(c)
  BY <1>2, FollowsItself DEF AfterCancel
<1> QED
  BY <1>1, <1>2

(* claim_offer_at takes the offer out of the queue and then admits its     *)
(* principal: the lease takes the slot the offer held.                     *)
LEMMA ClaimTakesOut ==
  ASSUME NEW c, Sound(c), NEW id \in TicketsIn(c, {"Offered"})
  PROVE  \E d : /\ AfterClaim(c, id) = Admit(d, c.tickets[id].principal)
                /\ c.tickets[id].principal \in Principals
                /\ TakenOut(c, d, id) /\ d.waiting = c.waiting
                /\ Follows(c, d) /\ Occupied(d) + 1 = Occupied(c)
                /\ Occupied(d) < d.allocated
<1> DEFINE b == SetState(c, {id}, "Admitted", 0)
           d == Unindex(b, KeysOf(c, {id}))
           p == c.tickets[id].principal
<1>1. /\ Typed(c) /\ "Admitted" \in TicketStates /\ 0 \in 0..OfferTtl
      /\ c.next_lease \in Nat
  BY PolicyAssumption DEF Sound, TicketStates, Typed
<1>2. Marked(c, b, {id}, "Admitted")
  BY <1>1, SetStateFacts
<1> HIDE DEF b
<1>3. /\ Typed(d) /\ d.tickets = b.tickets /\ d.waiting = b.waiting
      /\ d.index = Restrict(b.index, DOMAIN b.index \ KeysOf(c, {id}))
      /\ d.active = b.active /\ d.reservations = b.reservations
      /\ d.allocated = b.allocated /\ d.pending = b.pending
      /\ d.next_lease = b.next_lease /\ d.revision = b.revision
  <2> DEFINE ks == KeysOf(c, {id})
  <2>1. Typed(b) /\ d = Unindex(b, ks)
    BY <1>2 DEF Marked
  <2> HIDE DEF d, ks
  <2>2. /\ Typed(d) /\ d.tickets = b.tickets /\ d.waiting = b.waiting
        /\ d.index = Restrict(b.index, DOMAIN b.index \ ks)
        /\ d.active = b.active /\ d.reservations = b.reservations
        /\ d.allocated = b.allocated /\ d.pending = b.pending
        /\ d.next_lease = b.next_lease /\ d.revision = b.revision
    BY <2>1, UnindexFacts
  <2> QED
    BY <2>2 DEF ks
<1>4. AfterClaim(c, id) = Admit(d, p)
  BY DEF AfterClaim, b
<1> HIDE DEF d
<1>5. id \in Live(c)
  BY DEF Live, TicketsIn
<1>6. TakenOut(c, d, id) /\ d.waiting = c.waiting
  <2>1. id \in DOMAIN c.tickets
    BY DEF TicketsIn
  <2>2. Pruned(c, d, {id})
    <3>1. DOMAIN d.tickets = DOMAIN c.tickets /\ d.tickets[id].state = "Admitted"
      BY <1>2, <1>3, <2>1 DEF Marked
    <3>2. \A i \in DOMAIN c.tickets : i # id => d.tickets[i] = c.tickets[i]
      BY <1>2, <1>3 DEF Marked
    <3>3. d.index = Restrict(c.index, DOMAIN c.index \ KeysOf(c, {id}))
      BY <1>2, <1>3 DEF Marked
    <3> QED
      BY <1>5, <3>1, <3>2, <3>3, OneTakenOut
  <2> QED
    BY <1>2, <1>3, <2>2 DEF Marked, SameLimits, TakenOut
<1>7. Follows(c, d) /\ TicketsIn(d, {"Offered"}) = TicketsIn(c, {"Offered"}) \ {id}
  BY <1>5, <1>6, TakenOutFollows
<1>8. p \in Principals
  <2>1. c.tickets[id] \in Tickets
    BY <1>1 DEF Typed, TicketsIn
  <2> QED
    BY <2>1, TicketFields
<1>9. Occupied(d) < d.allocated /\ Occupied(d) + 1 = Occupied(c)
  <2> DEFINE O == TicketsIn(c, {"Offered"})
             A == Cardinality(DOMAIN c.active)
             R == Cardinality(DOMAIN c.reservations)
  <2>1. IsFiniteSet(O) /\ Cardinality(O) \in Nat /\ A \in Nat /\ R \in Nat
    BY <1>1, SlotsFinite
  <2>2. Occupied(c) = A + R + Cardinality(O) /\ Occupied(d) = A + R + Cardinality(O \ {id})
    BY <1>2, <1>3, <1>7 DEF Occupied, Marked
  <2>3. d.allocated = c.allocated /\ c.allocated \in Nat /\ Occupied(c) <= c.allocated
    BY <1>1, <1>2, <1>3 DEF Marked, SameLimits, Sound, Budget, Typed
  <2>4. id \in O
    OBVIOUS
  <2> HIDE DEF O, A, R
  <2>5. Cardinality(O \ {id}) = Cardinality(O) - 1
    BY <2>1, <2>4, FS_RemoveElement
  <2> QED
    BY <2>1, <2>2, <2>3, <2>5
<1> HIDE DEF p
<1>10. /\ AfterClaim(c, id) = Admit(d, p) /\ p \in Principals
      /\ TakenOut(c, d, id) /\ d.waiting = c.waiting
      /\ Follows(c, d) /\ Occupied(d) + 1 = Occupied(c) /\ Occupied(d) < d.allocated
  BY <1>4, <1>7, <1>8, <1>9, <1>6
<1> QED
  BY <1>10 DEF p

(* claim_offer_at, after expire_at.                                        *)
LEMMA ClaimFollows ==
  ASSUME NEW c, Sound(c), NEW id
  PROVE  Follows(c, AfterClaim(c, id))
<1>1. CASE id \in TicketsIn(c, {"Offered"})
  <2>1. PICK d : /\ AfterClaim(c, id) = Admit(d, c.tickets[id].principal)
                 /\ c.tickets[id].principal \in Principals
                 /\ TakenOut(c, d, id) /\ Follows(c, d) /\ Occupied(d) < d.allocated
    BY <1>1, ClaimTakesOut
  <2>2. d.next_lease = c.next_lease /\ c.next_lease \in Nat
    BY <2>1 DEF TakenOut, Sound, Typed
  <2> QED
    BY <2>1, <2>2, AdmitFollows
<1>2. CASE id \notin TicketsIn(c, {"Offered"})
  BY <1>2, FollowsItself DEF AfterClaim
<1> QED
  BY <1>1, <1>2

-----------------------------------------------------------------------------
(* Leases may move between active and reserved: no slot is gained.         *)
LEMMA LeasesRearranged ==
  ASSUME NEW c, NEW d, Sound(c), Typed(d), Once(d),
         Leases(d) \subseteq Leases(c), d.tickets = c.tickets,
         d.next_lease = c.next_lease, SameLimits(c, d)
  PROVE  /\ Sound(d) /\ Occupied(d) <= Occupied(c)
         /\ Leases(d) = Leases(c) => Occupied(d) = Occupied(c)
<1>1. Typed(c) /\ Budget(c) /\ Once(c) /\ Places(c) /\ c.allocated \in Nat
  BY DEF Sound, Typed
<1>2. ASSUME NEW e, Typed(e), Once(e)
      PROVE  /\ IsFiniteSet(Leases(e)) /\ Cardinality(Leases(e)) \in Nat
             /\ Cardinality(TicketsIn(e, {"Offered"})) \in Nat
             /\ Occupied(e) = Cardinality(Leases(e)) + Cardinality(TicketsIn(e, {"Offered"}))
  <2> DEFINE A == DOMAIN e.active
             B == DOMAIN e.reservations
             O == Cardinality(TicketsIn(e, {"Offered"}))
  <2>1. /\ IsFiniteSet(A) /\ IsFiniteSet(B) /\ O \in Nat
        /\ Cardinality(A) \in Nat /\ Cardinality(B) \in Nat
    BY <1>2, SlotsFinite
  <2>2. Occupied(e) = Cardinality(A) + Cardinality(B) + O /\ Leases(e) = A \cup B /\ A \cap B = {}
    BY <1>2 DEF Occupied, Leases, Once
  <2> HIDE DEF A, B, O
  <2>3. /\ IsFiniteSet(A \cup B)
        /\ Cardinality(A \cup B) = Cardinality(A) + Cardinality(B) - Cardinality({})
    <3>1. IsFiniteSet(A) /\ IsFiniteSet(B)
      BY <2>1
    <3>2. /\ IsFiniteSet(A \cup B)
          /\ Cardinality(A \cup B) = Cardinality(A) + Cardinality(B) - Cardinality(A \cap B)
      BY <3>1, FS_Union, Zenon
    <3> QED
      BY <2>2, <3>2, Zenon
  <2>4. Cardinality({}) = 0
    BY FS_EmptySet
  <2>5. Cardinality(A \cup B) = Cardinality(A) + Cardinality(B)
    BY <2>1, <2>3, <2>4
  <2>6. /\ IsFiniteSet(Leases(e)) /\ Cardinality(Leases(e)) \in Nat /\ O \in Nat
        /\ Occupied(e) = Cardinality(Leases(e)) + O
    BY <2>1, <2>2, <2>3, <2>5
  <2> QED
    BY <2>6 DEF O
<1>3. TicketsIn(d, {"Offered"}) = TicketsIn(c, {"Offered"}) /\ Live(d) = Live(c)
  BY DEF TicketsIn, Live
<1>4. Cardinality(Leases(d)) <= Cardinality(Leases(c))
  <2>1. Leases(d) \in SUBSET Leases(c)
    OBVIOUS
  <2> QED
    BY <1>1, <1>2, <2>1, FS_Subset
<1>5. Occupied(d) <= c.allocated /\ Occupied(d) <= Occupied(c)
  <2> DEFINE x == Cardinality(Leases(d))
             y == Cardinality(Leases(c))
             o == Cardinality(TicketsIn(c, {"Offered"}))
  <2>1. Occupied(d) = x + o /\ Occupied(c) = y + o /\ x \in Nat /\ y \in Nat /\ o \in Nat
    BY <1>1, <1>2, <1>3
  <2>2. Occupied(c) <= c.allocated /\ x <= y
    BY <1>1, <1>4 DEF Budget
  <2> HIDE DEF x, y, o
  <2> QED
    BY <1>1, <2>1, <2>2
<1>6. Budget(d) /\ Places(d)
  BY <1>1, <1>3, <1>5 DEF Budget, SameLimits, Places
<1>7. ASSUME Leases(d) = Leases(c) PROVE Occupied(d) = Occupied(c)
  BY <1>1, <1>2, <1>3, <1>7
<1> QED
  BY <1>5, <1>6, <1>7 DEF Sound

(* The lease is no longer in use, at most reserved, and the queue is the   *)
(* same.                                                                   *)
LetGo(c, d, lease) ==
    /\ Follows(c, d) /\ d.tickets = c.tickets /\ d.waiting = c.waiting
    /\ d.index = c.index /\ SameLimits(c, d) /\ Occupied(d) <= Occupied(c)
    /\ d.active = Restrict(c.active, DOMAIN c.active \ {lease})

(* release_at lets the lease go, or turns it into a reservation, and then  *)
(* applies a pending target and promotes.                                  *)
LEMMA ReleaseLetsGo ==
  ASSUME NEW c, Sound(c), NEW lease \in DOMAIN c.active, NEW p, c.active[lease] = p,
         NEW unexpected \in BOOLEAN
  PROVE  \E d : /\ AfterRelease(c, lease, p, unexpected) = Promote(ApplyPending(d))
                /\ LetGo(c, d, lease)
<1> DEFINE a == Restrict(c.active, DOMAIN c.active \ {lease})
           r == Insert(c.reservations, lease, [principal |-> p, left |-> ReconnectGrace])
           gone == [c EXCEPT !.active = a]
           held == [gone EXCEPT !.reservations = r]
           d == IF unexpected THEN held ELSE gone
<1>1. Typed(c) /\ Once(c)
  BY DEF Sound
<1>2. AfterRelease(c, lease, p, unexpected) = Promote(ApplyPending(d))
  <2>1. /\ [c EXCEPT !.active = Restrict(@, DOMAIN @ \ {lease})] = gone
        /\ [gone EXCEPT !.reservations =
               Insert(@, lease, [principal |-> p, left |-> ReconnectGrace])] = held
    BY <1>1 DEF Typed
  <2> HIDE DEF gone, held
  <2> QED
    BY <2>1 DEF AfterRelease
<1>3. DOMAIN a = DOMAIN c.active \ {lease} /\ a \in [DOMAIN a -> Principals]
  BY <1>1 DEF Restrict, Typed
<1>4. DOMAIN r = DOMAIN c.reservations \cup {lease} /\ r \in [DOMAIN r -> Reservations]
      /\ \A l \in DOMAIN c.reservations : l \in DOMAIN r
  <2>1. p \in Principals
    BY <1>1 DEF Typed
  <2>2. ReconnectGrace \in 0..ReconnectGrace
    BY PolicyAssumption
  <2>3. [principal |-> p, left |-> ReconnectGrace] \in Reservations
    BY <2>1, <2>2, Zenon DEF Reservations
  <2> QED
    BY <1>1, <2>3 DEF Insert, Typed
<1>5. lease \in 1..c.next_lease - 1 /\ lease \notin DOMAIN c.reservations
  BY <1>1 DEF Typed, Once
<1> HIDE DEF a, r
<1>6. /\ Typed(gone) /\ gone.active = a /\ gone.reservations = c.reservations
      /\ gone.tickets = c.tickets /\ gone.next_lease = c.next_lease /\ SameLimits(c, gone)
      /\ gone.waiting = c.waiting /\ gone.index = c.index
  BY <1>1, <1>3 DEF Typed, SameLimits
<1> HIDE DEF gone
<1>7. /\ Typed(held) /\ held.active = a /\ held.reservations = r
      /\ held.tickets = c.tickets /\ held.next_lease = c.next_lease /\ SameLimits(c, held)
      /\ held.waiting = c.waiting /\ held.index = c.index
  BY <1>4, <1>5, <1>6 DEF Typed, SameLimits
<1> HIDE DEF held
<1>8. /\ Typed(d) /\ d.active = a /\ d.tickets = c.tickets
      /\ d.next_lease = c.next_lease /\ SameLimits(c, d)
      /\ d.waiting = c.waiting /\ d.index = c.index
      /\ d.reservations = r \/ d.reservations = c.reservations
  BY <1>6, <1>7
<1> HIDE DEF d
<1>9. Once(d) /\ Leases(d) \subseteq Leases(c)
      /\ DOMAIN c.reservations \subseteq DOMAIN d.reservations
  BY <1>1, <1>3, <1>4, <1>5, <1>8 DEF Once, Leases
<1>10. Sound(d) /\ Occupied(d) <= Occupied(c)
  BY <1>8, <1>9, LeasesRearranged
<1>11. Follows(c, d)
  BY <1>8, <1>9, <1>10 DEF Follows, TicketsIn
<1>12. LetGo(c, d, lease)
  BY <1>8, <1>10, <1>11 DEF a, LetGo
<1> QED
  BY <1>2, <1>12

(* release_at, which expires nothing first, for clean and unexpected       *)
(* departures.                                                             *)
LEMMA ReleaseFollows ==
  ASSUME NEW c, Sound(c), NEW lease, NEW p, NEW unexpected \in BOOLEAN
  PROVE  Follows(c, AfterRelease(c, lease, p, unexpected))
<1>1. CASE lease \in DOMAIN c.active /\ c.active[lease] = p
  <2>1. PICK d : /\ AfterRelease(c, lease, p, unexpected) = Promote(ApplyPending(d))
                 /\ LetGo(c, d, lease)
    BY <1>1, ReleaseLetsGo
  <2>2. Follows(c, d)
    BY <2>1 DEF LetGo
  <2> QED
    BY <2>1, <2>2, PromotedFollows
<1>2. CASE ~ (lease \in DOMAIN c.active /\ c.active[lease] = p)
  BY <1>2, FollowsItself DEF AfterRelease
<1> QED
  BY <1>1, <1>2

(* resume_at, after expire_at: the lease takes the slot its reservation    *)
(* held.                                                                   *)
LEMMA ResumeFollows ==
  ASSUME NEW c, Sound(c), NEW lease, NEW p
  PROVE  LET d == AfterResume(c, lease, p)
         IN  /\ Follows(c, d) /\ Occupied(d) = Occupied(c) /\ SameLimits(c, d)
             /\ d.tickets = c.tickets /\ d.waiting = c.waiting /\ d.index = c.index
<1>1. CASE lease \in DOMAIN c.reservations /\ c.reservations[lease].principal = p
  <2> DEFINE r == Restrict(c.reservations, DOMAIN c.reservations \ {lease})
             a == Insert(c.active, lease, p)
             d == [c EXCEPT !.reservations = r, !.active = a]
  <2>1. Typed(c) /\ Once(c)
    BY DEF Sound
  <2>2. AfterResume(c, lease, p) = d
    BY <1>1, <2>1 DEF AfterResume, Typed
  <2>3. p \in Principals
    <3>1. c.reservations[lease] \in Reservations
      BY <1>1, <2>1 DEF Typed
    <3> QED
      BY <1>1, <3>1 DEF Reservations
  <2>4. /\ DOMAIN r = DOMAIN c.reservations \ {lease} /\ r \in [DOMAIN r -> Reservations]
        /\ \A l \in DOMAIN r : r[l] = c.reservations[l]
    BY <2>1 DEF Restrict, Typed
  <2>5. /\ DOMAIN a = DOMAIN c.active \cup {lease} /\ a \in [DOMAIN a -> Principals]
        /\ a[lease] = p
    BY <2>1, <2>3 DEF Insert, Typed
  <2>6. lease \in 1..c.next_lease - 1 /\ lease \notin DOMAIN c.active
    BY <1>1, <2>1 DEF Typed, Once
  <2> HIDE DEF a, r
  <2>7. /\ Typed(d) /\ d.active = a /\ d.reservations = r
        /\ d.tickets = c.tickets /\ d.next_lease = c.next_lease /\ SameLimits(c, d)
        /\ d.waiting = c.waiting /\ d.index = c.index
    BY <2>1, <2>4, <2>5, <2>6 DEF Typed, SameLimits
  <2> HIDE DEF d
  <2>8. Once(d) /\ Leases(d) = Leases(c)
    BY <1>1, <2>1, <2>4, <2>5, <2>6, <2>7 DEF Once, Leases
  <2>9. Sound(d) /\ Occupied(d) = Occupied(c)
    BY <2>7, <2>8, LeasesRearranged
  <2>10. Follows(c, d)
    BY <1>1, <2>4, <2>5, <2>7, <2>8, <2>9 DEF Follows, TicketsIn
  <2> QED
    BY <2>2, <2>7, <2>9, <2>10
<1>2. CASE ~ (lease \in DOMAIN c.reservations /\ c.reservations[lease].principal = p)
  BY <1>2, FollowsItself DEF AfterResume, SameLimits
<1> QED
  BY <1>1, <1>2

(* apply_capacity_at, for stale revisions, decreases and increases.        *)
LEMMA CapacityFollows ==
  ASSUME NEW c, Sound(c), NEW allocated \in Nat, NEW revision \in Nat
  PROVE  Follows(c, AfterCapacity(c, allocated, revision))
<1>1. Typed(c) /\ Budget(c) /\ Once(c) /\ Places(c) /\ Occupied(c) \in Nat
      /\ c.allocated \in Nat /\ NoTarget \notin Nat
  BY OccupiedTyped, PolicyAssumption DEF Sound, Typed
<1>2. CASE revision <= c.revision
  BY <1>2, FollowsItself DEF AfterCapacity
<1>3. CASE ~ (revision <= c.revision) /\ allocated < Occupied(c)
  <2> DEFINE d == [c EXCEPT !.revision = revision, !.pending = allocated]
  <2>1. AfterCapacity(c, allocated, revision) = d
    BY <1>3 DEF AfterCapacity
  <2>2. /\ Typed(d) /\ d.pending = allocated /\ d.allocated = c.allocated
        /\ d.active = c.active /\ d.reservations = c.reservations
        /\ d.tickets = c.tickets /\ d.next_lease = c.next_lease
    BY <1>1 DEF Typed
  <2> HIDE DEF d
  <2>3. Occupied(d) = Occupied(c)
    BY <2>2 DEF Occupied, TicketsIn
  <2>4. allocated < c.allocated
    BY <1>1, <1>3 DEF Budget
  <2>5. Budget(d)
    BY <1>1, <2>2, <2>3, <2>4 DEF Budget
  <2>6. Sound(d)
    BY <1>1, <2>2, <2>5 DEF Sound, Once, Places, Live, TicketsIn
  <2>7. Follows(c, d)
    BY <2>2, <2>6 DEF Follows, Leases, TicketsIn
  <2> QED
    BY <2>1, <2>7
<1>4. CASE ~ (revision <= c.revision) /\ ~ (allocated < Occupied(c))
  <2> DEFINE d == [c EXCEPT !.revision = revision, !.allocated = allocated,
                            !.pending = NoTarget]
  <2>1. AfterCapacity(c, allocated, revision) = Promote(d)
    BY <1>4 DEF AfterCapacity
  <2>2. /\ Typed(d) /\ d.pending = NoTarget /\ d.allocated = allocated
        /\ d.active = c.active /\ d.reservations = c.reservations
        /\ d.tickets = c.tickets /\ d.next_lease = c.next_lease
    BY <1>1 DEF Typed
  <2> HIDE DEF d
  <2>3. Occupied(d) = Occupied(c)
    BY <2>2 DEF Occupied, TicketsIn
  <2>4. Occupied(c) <= allocated
    BY <1>1, <1>4
  <2>5. Budget(d)
    BY <2>2, <2>3, <2>4 DEF Budget
  <2>6. Sound(d)
    BY <1>1, <2>2, <2>5 DEF Sound, Once, Places, Live, TicketsIn
  <2>7. Follows(c, d)
    BY <2>2, <2>6 DEF Follows, Leases, TicketsIn
  <2> QED
    BY <2>1, <2>7, PromotedFollows
<1> QED
  BY <1>2, <1>3, <1>4

-----------------------------------------------------------------------------
(* Letting the timers of a ticket run leaves its state, principal and key  *)
(* alone.                                                                  *)
LEMMA TimerUpdate ==
  ASSUME NEW P, NEW K, NEW S, NEW A, NEW I, NEW L,
         NEW t \in [principal : P, key : K, state : S, age : A, idle : I, left : L],
         NEW a \in A, NEW i \in I, NEW l \in L
  PROVE  LET u == [t EXCEPT !.age = a, !.idle = i]
             v == [t EXCEPT !.left = l]
         IN  /\ u \in [principal : P, key : K, state : S, age : A, idle : I, left : L]
             /\ u.state = t.state /\ u.principal = t.principal /\ u.key = t.key
             /\ v \in [principal : P, key : K, state : S, age : A, idle : I, left : L]
             /\ v.state = t.state /\ v.principal = t.principal /\ v.key = t.key
OBVIOUS

(* Letting the time of a reservation run leaves its principal alone.       *)
LEMMA LeftUpdate ==
  ASSUME NEW P, NEW L, NEW r \in [principal : P, left : L], NEW l \in L
  PROVE  [r EXCEPT !.left = l] \in [principal : P, left : L]
OBVIOUS

(* Time passes: every comparison stays in range, and only timers change.   *)
LEMMA ElapseAges ==
  ASSUME NEW c, Sound(c)
  PROVE  Aged(c, Elapse(c))
<1> DEFINE Older(age, limit) == IF age < limit THEN age + 1 ELSE age
           Shorter(left)     == IF left > 0 THEN left - 1 ELSE 0
           After(ticket) ==
              CASE ticket.state = "Waiting" ->
                      [ticket EXCEPT !.age  = Older(@, TicketTtl),
                                     !.idle = Older(@, HeartbeatTimeout)]
                [] ticket.state = "Offered" -> [ticket EXCEPT !.left = Shorter(@)]
                [] OTHER -> ticket
           ts == [i \in DOMAIN c.tickets |-> After(c.tickets[i])]
           Later(reservation) == [reservation EXCEPT !.left = Shorter(@)]
           r == [l \in DOMAIN c.reservations |-> Later(c.reservations[l])]
           b == [c EXCEPT !.tickets = ts]
           d == [c EXCEPT !.tickets = ts, !.reservations = r]
<1>1. Typed(c) /\ c.tickets \in Seq(Tickets)
  BY DEF Sound, Typed
<1>2. Elapse(c) = d
  <2> DEFINE e == [c EXCEPT !.tickets = [i \in DOMAIN @ |-> After(@[i])],
                            !.reservations = [l \in DOMAIN @ |-> Later(@[l])]]
  <2>1. Elapse(c) = e
    BY Zenon DEF Elapse
  <2> HIDE DEF After, Later
  <2>2. e = d
    BY <1>1 DEF Typed
  <2> QED
    BY <2>1, <2>2
<1>3. ASSUME NEW limit \in Nat, NEW x \in 0..limit
      PROVE  Older(x, limit) \in 0..limit /\ Shorter(x) \in 0..limit
  OBVIOUS
<1>4. ASSUME NEW t \in Tickets
      PROVE  /\ After(t) \in Tickets /\ After(t).state = t.state
             /\ After(t).principal = t.principal /\ After(t).key = t.key
  <2>1. /\ Older(t.age, TicketTtl) \in 0..TicketTtl
        /\ Older(t.idle, HeartbeatTimeout) \in 0..HeartbeatTimeout
        /\ Shorter(t.left) \in 0..OfferTtl
    BY <1>3, TicketFields, PolicyAssumption
  <2> DEFINE a == Older(t.age, TicketTtl)
             i == Older(t.idle, HeartbeatTimeout)
             l == Shorter(t.left)
             u == [t EXCEPT !.age = a, !.idle = i]
             v == [t EXCEPT !.left = l]
  <2>2. After(t) = IF t.state = "Waiting" THEN u ELSE IF t.state = "Offered" THEN v ELSE t
    <3>1. /\ [t EXCEPT !.age = Older(@, TicketTtl), !.idle = Older(@, HeartbeatTimeout)] = u
          /\ [t EXCEPT !.left = Shorter(@)] = v
      BY DEF Tickets
    <3> HIDE DEF u, v, Older, Shorter
    <3> QED
      BY <3>1
  <2> HIDE DEF a, i, l, After
  <2>3. /\ u \in Tickets /\ u.state = t.state /\ u.principal = t.principal
        /\ v \in Tickets /\ v.state = t.state /\ v.principal = t.principal
        /\ u.key = t.key /\ v.key = t.key
    <3>1. a \in 0..TicketTtl /\ i \in 0..HeartbeatTimeout /\ l \in 0..OfferTtl
      BY <2>1 DEF a, i, l
    <3> QED
      BY <3>1, TimerUpdate, Zenon DEF Tickets
  <2> HIDE DEF u, v
  <2> QED
    BY <2>2, <2>3
<1>5. ASSUME NEW x \in Reservations
      PROVE  Later(x) \in Reservations
  <2> DEFINE y == Shorter(x.left)
  <2>1. y \in 0..ReconnectGrace
    <3>1. x.left \in 0..ReconnectGrace
      BY DEF Reservations
    <3> QED
      BY <1>3, <3>1, PolicyAssumption
  <2>2. Later(x) = [x EXCEPT !.left = y]
    BY DEF Reservations
  <2> HIDE DEF y
  <2>3. [x EXCEPT !.left = y] \in Reservations
    BY <2>1, LeftUpdate, Zenon DEF Reservations
  <2> QED
    BY <2>2, <2>3
<1>6. r \in [DOMAIN c.reservations -> Reservations] /\ DOMAIN r = DOMAIN c.reservations
  <2> HIDE DEF Later
  <2>1. \A l \in DOMAIN c.reservations : c.reservations[l] \in Reservations
    BY <1>1 DEF Typed
  <2> QED
    BY <1>5, <2>1
<1> HIDE DEF After
<1>7. /\ ts \in [1..Len(c.tickets) -> Tickets]
      /\ \A i \in DOMAIN c.tickets : /\ ts[i].state = c.tickets[i].state
                                     /\ ts[i].principal = c.tickets[i].principal
                                     /\ ts[i].key = c.tickets[i].key
  BY <1>1, <1>4
<1>8. ts \in Seq(Tickets) /\ Len(ts) = Len(c.tickets)
  BY <1>1, <1>7, SeqOf
<1> HIDE DEF ts, r, Older, Shorter
<1>9. /\ Typed(b) /\ b.tickets = ts /\ b.active = c.active
      /\ b.reservations = c.reservations /\ b.next_lease = c.next_lease
      /\ b.allocated = c.allocated /\ b.pending = c.pending /\ b.waiting = c.waiting
      /\ b.index = c.index
  <2>1. Typed(c) /\ b = [c EXCEPT !.tickets = ts]
    BY <1>1
  <2> HIDE DEF b
  <2> QED
    BY <1>8, <2>1, TicketsReplaced
<1>10. d = [b EXCEPT !.reservations = r]
  OBVIOUS
<1> HIDE DEF b, d
<1>11. /\ Typed(d) /\ d.tickets = ts /\ d.active = c.active
       /\ DOMAIN d.reservations = DOMAIN c.reservations /\ d.next_lease = c.next_lease
       /\ d.allocated = c.allocated /\ d.pending = c.pending /\ d.waiting = c.waiting
       /\ d.index = c.index
  BY <1>6, <1>9, <1>10 DEF Typed
<1>12. DOMAIN d.tickets = DOMAIN c.tickets
  BY <1>1, <1>8, <1>11
<1>13. Aged(c, d)
  BY <1>7, <1>11, <1>12 DEF Aged
<1> QED
  BY <1>2, <1>13

-----------------------------------------------------------------------------
(* d still drains towards a target: so did c, and no slot was given out.   *)
Draining(c, d) ==
    d.pending # NoTarget => c.pending # NoTarget /\ Occupied(d) <= Occupied(c)

(* A target is pending only while more slots are occupied than it allows.  *)
Crowded(c) == c.pending # NoTarget => Occupied(c) > c.pending

(* Draining is transitive.                                                 *)
LEMMA DrainingTransitive ==
  ASSUME NEW b, NEW c, NEW d, Typed(b), Typed(c), Typed(d), Draining(b, c), Draining(c, d)
  PROVE  Draining(b, d)
<1>1. Occupied(b) \in Nat /\ Occupied(c) \in Nat /\ Occupied(d) \in Nat
  BY OccupiedTyped
<1> QED
  BY <1>1 DEF Draining

(* promote_at withdraws no offer and fills no more than the free slots.    *)
LEMMA PromoteOccupies ==
  ASSUME NEW c, Sound(c)
  PROVE  LET d == Promote(c)
         IN  /\ Sound(d) /\ SameLimits(c, d)
             /\ Occupied(c) <= Occupied(d) /\ Occupied(d) <= Occupied(c) + FreeSlots(c)
<1> DEFINE d == Promote(c)
<1>1. /\ Sound(d) /\ Eased(c, d) /\ SameLimits(c, d) /\ d.reservations = c.reservations
      /\ \A i \in DOMAIN c.tickets :
            c.tickets[i].state # "Waiting" => d.tickets[i] = c.tickets[i]
      /\ Occupied(d) <= Occupied(c) + FreeSlots(c)
  BY PromoteFacts
<1> HIDE DEF d
<1>2. TicketsIn(c, {"Offered"}) \subseteq TicketsIn(d, {"Offered"}) /\ d.active = c.active
  BY <1>1 DEF TicketsIn, Eased, SameTickets
<1>3. Occupied(c) <= Occupied(d)
  BY <1>1, <1>2, OccupiedBounded DEF Sound
<1> QED
  BY <1>1, <1>3 DEF d

(* After apply_pending a target that is still pending leaves no slot to    *)
(* promote_at.                                                             *)
LEMMA SettleDrains ==
  ASSUME NEW c, Sound(c)
  PROVE  LET d == Promote(ApplyPending(c))
         IN  Sound(d) /\ Draining(c, d) /\ Crowded(d)
<1> DEFINE b == ApplyPending(c)
           d == Promote(b)
<1>1. /\ Sound(b) /\ c.pending \in Nat \cup {NoTarget} /\ NoTarget \notin Nat
      /\ Occupied(c) \in Nat
  BY ApplyPendingFacts, OccupiedTyped, PolicyAssumption DEF Sound, Typed
<1>2. b.pending # NoTarget => b = c /\ Occupied(c) > c.pending
  <2>1. CASE c.pending # NoTarget /\ Occupied(c) <= c.pending
    BY <2>1 DEF ApplyPending, Sound, Typed
  <2>2. CASE ~ (c.pending # NoTarget /\ Occupied(c) <= c.pending)
    BY <1>1, <2>2 DEF ApplyPending
  <2> QED
    BY <2>1, <2>2
<1> HIDE DEF b
<1>3. /\ Sound(d) /\ SameLimits(b, d)
      /\ Occupied(b) <= Occupied(d) /\ Occupied(d) <= Occupied(b) + FreeSlots(b)
  BY <1>1, PromoteOccupies
<1>4. Occupied(d) \in Nat
  BY <1>3, OccupiedTyped DEF Sound
<1> HIDE DEF d
<1>5. ASSUME d.pending # NoTarget
      PROVE  c.pending # NoTarget /\ Occupied(d) = Occupied(c) /\ Occupied(d) > d.pending
  <2>1. b = c /\ Occupied(c) > c.pending /\ d.pending = c.pending /\ c.pending \in Nat
    BY <1>1, <1>2, <1>3, <1>5 DEF SameLimits
  <2>2. FreeSlots(c) = 0
    BY <1>1, <1>5, <2>1 DEF FreeSlots, AdmissionLimit
  <2> QED
    BY <1>1, <1>3, <1>4, <1>5, <2>1, <2>2
<1>6. Sound(d) /\ Draining(c, d) /\ Crowded(d)
  BY <1>1, <1>3, <1>5 DEF Draining, Crowded
<1> QED
  BY <1>6 DEF b, d

(* expire_at gives out no slot while it drains.                            *)
LEMMA ExpireDrains ==
  ASSUME NEW c, Sound(c)
  PROVE  Sound(Expire(c)) /\ Draining(c, Expire(c)) /\ Crowded(Expire(c))
<1> DEFINE b == DropLapsed(c)
           d == Promote(ApplyPending(b))
<1>1. /\ Sound(b) /\ Eased(c, b) /\ SameLimits(c, b)
      /\ \A i \in DOMAIN c.tickets :
            b.tickets[i] = c.tickets[i] \/ b.tickets[i].state = "Expired"
  BY DropLapsedFacts
<1>2. Expire(c) = d
  BY DEF Expire
<1> HIDE DEF b
<1>3. Sound(d) /\ Draining(b, d) /\ Crowded(d)
  BY <1>1, SettleDrains
<1> HIDE DEF d
<1>4. Draining(c, b)
  <2>1. /\ DOMAIN b.active \subseteq DOMAIN c.active
        /\ DOMAIN b.reservations \subseteq DOMAIN c.reservations
        /\ TicketsIn(b, {"Offered"}) \subseteq TicketsIn(c, {"Offered"})
    BY <1>1 DEF TicketsIn, Eased, SameTickets
  <2>2. Occupied(b) <= Occupied(c)
    BY <1>1, <2>1, OccupiedBounded DEF Sound
  <2> QED
    BY <1>1, <2>2 DEF Draining, SameLimits
<1>5. Draining(c, d)
  BY <1>1, <1>3, <1>4, DrainingTransitive DEF Sound
<1> QED
  BY <1>2, <1>3, <1>5

(* Where limits and occupation stay the same, draining goes on.            *)
LEMMA SameDrains ==
  ASSUME NEW c, NEW d, Sound(c), d.pending = c.pending, Occupied(d) = Occupied(c)
  PROVE  Draining(c, d)
<1>1. Occupied(c) \in Nat
  BY OccupiedTyped DEF Sound
<1> QED
  BY <1>1 DEF Draining

(* request_join_at admits nobody while it drains.                          *)
LEMMA JoinDrains ==
  ASSUME NEW c, Sound(c), Crowded(c), NEW p \in Principals, NEW key \in Keys \cup {NoKey}
  PROVE  Draining(c, AfterJoin(c, p, key))
<1>1. /\ Occupied(c) \in Nat /\ AdmissionLimit(c) \in Nat
      /\ AdmissionLimit(c) <= c.allocated /\ c.allocated \in Nat
      /\ c.pending \in Nat \cup {NoTarget}
  BY FreeSlotsFacts DEF Sound, Typed
<1>2. CASE JoinDecision(c, p, key) = "Admitted"
  <2>1. Occupied(c) < AdmissionLimit(c)
    BY <1>2 DEF JoinDecision
  <2>2. c.pending = NoTarget
    BY <1>1, <2>1 DEF Crowded, AdmissionLimit
  <2>3. Occupied(c) < c.allocated
    BY <1>1, <2>1
  <2>4. SameLimits(c, Admit(c, p))
    BY <2>3, AdmitFacts
  <2> QED
    BY <1>2, <2>2, <2>4 DEF Draining, SameLimits, AfterJoin
<1>3. CASE JoinDecision(c, p, key) = "Queued"
  <2>1. key \in Keys /\ ~ HasQueuedPrincipal(c, p)
    BY <1>3 DEF JoinDecision
  <2> DEFINE d == Enqueue(c, key, p)
  <2>2. Enqueued(c, d, key)
    BY <2>1, EnqueueFollows
  <2>3. AfterJoin(c, p, key) = d
    BY <1>3 DEF AfterJoin
  <2> HIDE DEF d
  <2>4. d.pending = c.pending /\ Occupied(d) = Occupied(c)
    BY <2>2 DEF Enqueued, SameLimits
  <2> QED
    BY <2>3, <2>4, SameDrains
<1>4. CASE JoinDecision(c, p, key) \notin {"Admitted", "Queued"}
  BY <1>4, SameDrains DEF AfterJoin
<1> QED
  BY <1>2, <1>3, <1>4

(* cancel_at gives the slot of a cancelled offer away only if fewer are    *)
(* occupied than the target allows.                                        *)
LEMMA CancelDrains ==
  ASSUME NEW c, Sound(c), Crowded(c), NEW id
  PROVE  Draining(c, AfterCancel(c, id))
<1>1. CASE id \in Live(c)
  <2>1. PICK d : AfterCancel(c, id) = Promote(d) /\ TakenOut(c, d, id)
    BY <1>1, CancelTakesOut
  <2>2. Sound(d) /\ TicketsIn(d, {"Offered"}) = TicketsIn(c, {"Offered"}) \ {id}
    BY <1>1, <2>1, TakenOutFollows DEF Follows
  <2>3. Occupied(d) <= Occupied(c) /\ SameLimits(c, d)
    <3>1. /\ DOMAIN d.active \subseteq DOMAIN c.active
          /\ DOMAIN d.reservations \subseteq DOMAIN c.reservations
          /\ TicketsIn(d, {"Offered"}) \subseteq TicketsIn(c, {"Offered"})
      BY <2>1, <2>2 DEF TakenOut
    <3>2. Typed(c) /\ Typed(d)
      BY <2>2 DEF Sound
    <3>3. Occupied(d) <= Occupied(c)
      BY <3>1, <3>2, OccupiedBounded
    <3> QED
      BY <2>1, <3>3 DEF TakenOut
  <2> DEFINE e == Promote(d)
  <2>4. Sound(e) /\ SameLimits(d, e) /\ Occupied(e) <= Occupied(d) + FreeSlots(d)
    BY <2>2, PromoteOccupies
  <2> HIDE DEF e
  <2>5. /\ Occupied(c) \in Nat /\ Occupied(d) \in Nat /\ Occupied(e) \in Nat
        /\ c.pending \in Nat \cup {NoTarget}
    BY <2>2, <2>4, OccupiedTyped DEF Sound, Typed
  <2>6. ASSUME e.pending # NoTarget PROVE c.pending # NoTarget /\ Occupied(e) <= Occupied(c)
    <3>1. e.pending = c.pending /\ d.pending = c.pending /\ c.pending \in Nat
          /\ Occupied(c) > c.pending
      BY <2>3, <2>4, <2>5, <2>6 DEF SameLimits, Crowded
    <3>2. AdmissionLimit(d) = c.pending
      BY <2>6, <3>1 DEF AdmissionLimit
    <3>3. \/ FreeSlots(d) = 0
          \/ Occupied(d) + FreeSlots(d) = c.pending
      BY <2>5, <3>1, <3>2 DEF FreeSlots
    <3>4. CASE FreeSlots(d) = 0
      BY <2>3, <2>4, <2>5, <2>6, <3>1, <3>4
    <3>5. CASE Occupied(d) + FreeSlots(d) = c.pending
      BY <2>4, <2>5, <2>6, <3>1, <3>5
    <3> QED
      BY <3>3, <3>4, <3>5
  <2> QED
    BY <2>1, <2>6 DEF Draining, e
<1>2. CASE id \notin Live(c)
  BY <1>2, SameDrains DEF AfterCancel
<1> QED
  BY <1>1, <1>2

(* claim_offer_at exchanges an offer for a lease.                          *)
LEMMA ClaimDrains ==
  ASSUME NEW c, Sound(c), NEW id
  PROVE  Draining(c, AfterClaim(c, id))
<1>1. CASE id \in TicketsIn(c, {"Offered"})
  <2>1. PICK d : /\ AfterClaim(c, id) = Admit(d, c.tickets[id].principal)
                 /\ c.tickets[id].principal \in Principals
                 /\ TakenOut(c, d, id) /\ d.waiting = c.waiting
                 /\ Follows(c, d) /\ Occupied(d) + 1 = Occupied(c)
                 /\ Occupied(d) < d.allocated
    BY <1>1, ClaimTakesOut
  <2> DEFINE e == Admit(d, c.tickets[id].principal)
  <2>2. SameLimits(d, e) /\ Occupied(e) = Occupied(d) + 1
    BY <2>1, AdmitFacts DEF Follows
  <2> HIDE DEF e
  <2>3. e.pending = c.pending /\ Occupied(e) = Occupied(c)
    BY <2>1, <2>2 DEF TakenOut, SameLimits
  <2> QED
    BY <2>1, <2>3, SameDrains DEF e
<1>2. CASE id \notin TicketsIn(c, {"Offered"})
  BY <1>2, SameDrains DEF AfterClaim
<1> QED
  BY <1>1, <1>2

(* release_at gives the slot away only once the target is reached.         *)
LEMMA ReleaseDrains ==
  ASSUME NEW c, Sound(c), NEW lease, NEW p, NEW unexpected \in BOOLEAN
  PROVE  Draining(c, AfterRelease(c, lease, p, unexpected))
<1>1. CASE lease \in DOMAIN c.active /\ c.active[lease] = p
  <2>0. PICK d : /\ AfterRelease(c, lease, p, unexpected) = Promote(ApplyPending(d))
                 /\ LetGo(c, d, lease)
    BY <1>1, ReleaseLetsGo
  <2>1. /\ AfterRelease(c, lease, p, unexpected) = Promote(ApplyPending(d))
        /\ Follows(c, d) /\ SameLimits(c, d) /\ Occupied(d) <= Occupied(c)
    BY <2>0 DEF LetGo
  <2> DEFINE e == Promote(ApplyPending(d))
  <2>2. Sound(e) /\ Draining(d, e) /\ Sound(d)
    BY <2>1, SettleDrains DEF Follows
  <2>3. Draining(c, d)
    BY <2>1 DEF Draining, SameLimits
  <2> HIDE DEF e
  <2>4. Draining(c, e)
    BY <2>2, <2>3, DrainingTransitive DEF Sound
  <2> QED
    BY <2>1, <2>4 DEF e
<1>2. CASE ~ (lease \in DOMAIN c.active /\ c.active[lease] = p)
  BY <1>2, SameDrains DEF AfterRelease
<1> QED
  BY <1>1, <1>2

(* apply_capacity_at records a lower target without touching a slot; any   *)
(* other revision leaves none pending.                                     *)
LEMMA CapacityDrains ==
  ASSUME NEW c, Sound(c), NEW allocated \in Nat, NEW revision \in Nat
  PROVE  LET d == AfterCapacity(c, allocated, revision)
         IN  d.pending # NoTarget => Occupied(d) <= Occupied(c)
<1>1. Typed(c) /\ Occupied(c) \in Nat /\ NoTarget \notin Nat
  BY OccupiedTyped, PolicyAssumption DEF Sound
<1>2. CASE revision <= c.revision
  BY <1>1, <1>2 DEF AfterCapacity
<1>3. CASE ~ (revision <= c.revision) /\ allocated < Occupied(c)
  <2> DEFINE d == [c EXCEPT !.revision = revision, !.pending = allocated]
  <2>1. AfterCapacity(c, allocated, revision) = d
    BY <1>3 DEF AfterCapacity
  <2>2. /\ d.active = c.active /\ d.reservations = c.reservations
        /\ d.tickets = c.tickets
    BY <1>1 DEF Typed
  <2> HIDE DEF d
  <2>3. Occupied(d) = Occupied(c)
    BY <2>2 DEF Occupied, TicketsIn
  <2> QED
    BY <1>1, <2>1, <2>3
<1>4. CASE ~ (revision <= c.revision) /\ ~ (allocated < Occupied(c))
  <2> DEFINE b == [c EXCEPT !.revision = revision, !.allocated = allocated,
                            !.pending = NoTarget]
             d == Promote(b)
  <2>1. AfterCapacity(c, allocated, revision) = d
    BY <1>4 DEF AfterCapacity
  <2>2. b.pending = NoTarget
    BY <1>1 DEF Typed
  <2>3. d.pending = b.pending
    <3>1. b \in [allocated : Nat, pending : Nat \cup {NoTarget}, revision : Nat,
                 next_lease : Nat \ {0}, active : {c.active},
                 reservations : {c.reservations}, tickets : Seq(Tickets),
                 waiting : Seq(DOMAIN c.tickets), index : {c.index}]
      BY <1>1 DEF Typed
    <3> HIDE DEF b
    <3> QED
      BY <3>1 DEF Promote, SetState
  <2> HIDE DEF b, d
  <2> QED
    BY <2>1, <2>2, <2>3
<1> QED
  BY <1>2, <1>3, <1>4

-----------------------------------------------------------------------------
(* What ReleasedForGood says of a step.                                    *)
NoneBack(c, d) ==
    \A l \in 1..c.next_lease - 1 : l \in Leases(d) => l \in Leases(c)

(* What PromisesKept says of a step.                                       *)
Honoured(c, d) ==
    /\ \A i \in TicketsIn(c, {"Offered"}) :
          c.tickets[i].left > 0 => d.tickets[i].state \in {"Offered", "Admitted", "Cancelled"}
    /\ \A l \in DOMAIN c.reservations :
          c.reservations[l].left > 0 =>
              \/ l \in DOMAIN d.reservations
              \/ l \in DOMAIN d.active /\ d.active[l] = c.reservations[l].principal

(* The operations that expire nothing first: release_at and                *)
(* apply_capacity_at.                                                      *)
LEMMA FollowsHonours ==
  ASSUME NEW c, NEW d, Follows(c, d)
  PROVE  Sound(d) /\ NoneBack(c, d) /\ Honoured(c, d)
BY DEF Follows, NoneBack, Honoured

(* The operations that run expire_at first.                                *)
LEMMA ExpiredFollowsHonours ==
  ASSUME NEW c, Sound(c), NEW d, Follows(Expire(c), d)
  PROVE  Sound(d) /\ NoneBack(c, d) /\ Honoured(c, d)
<1> DEFINE e == Expire(c)
<1>1. Eased(c, e) /\ OfferKept(c, e) /\ ReservationKept(c, e)
  BY ExpireFacts
<1>2. Follows(e, d)
  OBVIOUS
<1> HIDE DEF e
<1>3. NoneBack(c, d)
  BY <1>1, <1>2 DEF NoneBack, Follows, Eased, Leases
<1>4. Honoured(c, d)
  <2>1. ASSUME NEW i \in TicketsIn(c, {"Offered"}), c.tickets[i].left > 0
        PROVE  d.tickets[i].state \in {"Offered", "Admitted", "Cancelled"}
    <3>1. i \in TicketsIn(e, {"Offered"})
      BY <1>1, <2>1 DEF OfferKept, TicketsIn, Eased, SameTickets
    <3> QED
      BY <1>2, <3>1 DEF Follows
  <2>2. ASSUME NEW l \in DOMAIN c.reservations, c.reservations[l].left > 0
        PROVE  \/ l \in DOMAIN d.reservations
               \/ l \in DOMAIN d.active /\ d.active[l] = c.reservations[l].principal
    <3>1. l \in DOMAIN e.reservations /\ e.reservations[l] = c.reservations[l]
      BY <1>1, <2>2 DEF ReservationKept
    <3> QED
      BY <1>2, <3>1 DEF Follows
  <2> QED
    BY <2>1, <2>2 DEF Honoured
<1> QED
  BY <1>2, <1>3, <1>4 DEF Follows

(* A new controller is sound.                                              *)
LEMMA NewSound ==
  ASSUME NEW allocated \in Allocations
  PROVE  Sound(NewController(allocated, 1))
<1> DEFINE c == NewController(allocated, 1)
<1>1. /\ c.active = <<>> /\ c.reservations = <<>> /\ c.tickets = <<>>
      /\ c.allocated = allocated /\ c.pending = NoTarget
  BY DEF NewController
<1>2. DOMAIN <<>> = {}
  OBVIOUS
<1>3. Typed(c)
  <2>1. allocated \in Nat /\ <<>> \in Seq(Tickets)
    BY AdmissionUseAssumption
  <2>2. /\ c.revision = 1 /\ c.next_lease = 1
        /\ c.waiting = <<>> /\ c.index = <<>>
    BY DEF NewController
  <2>3. c \in [allocated : {allocated}, pending : {NoTarget}, revision : {1},
               next_lease : {1}, active : {c.active}, reservations : {c.reservations},
               tickets : {<<>>}, waiting : {<<>>}, index : {c.index}]
    BY DEF NewController
  <2> HIDE DEF c
  <2>4. c \in [allocated : Nat, pending : Nat \cup {NoTarget}, revision : Nat,
               next_lease : Nat \ {0}, active : {c.active},
               reservations : {c.reservations}, tickets : Seq(Tickets),
               waiting : Seq(DOMAIN c.tickets), index : {c.index}]
    <3> DEFINE T == Seq(Tickets)
               W == Seq(DOMAIN c.tickets)
               A == {c.active}
               R == {c.reservations}
               I == {c.index}
    <3>1. {<<>>} \subseteq T /\ {<<>>} \subseteq W
      OBVIOUS
    <3>2. {allocated} \subseteq Nat /\ {NoTarget} \subseteq Nat \cup {NoTarget}
          /\ {1} \subseteq Nat /\ {1} \subseteq Nat \ {0}
      BY <2>1
    <3>3. c \in [allocated : {allocated}, pending : {NoTarget}, revision : {1},
                 next_lease : {1}, active : A, reservations : R,
                 tickets : {<<>>}, waiting : {<<>>}, index : I]
      BY <2>3
    <3> HIDE DEF T, W, A, R, I
    <3>4. c \in [allocated : Nat, pending : Nat \cup {NoTarget}, revision : Nat,
                 next_lease : Nat \ {0}, active : A, reservations : R,
                 tickets : T, waiting : W, index : I]
      BY <3>1, <3>2, <3>3
    <3> QED
      BY <3>4 DEF T, W, A, R, I
  <2>5. \A S : <<>> \in [{} -> S]
    BY <1>2
  <2>6. DOMAIN c.active = {} /\ DOMAIN c.reservations = {} /\ DOMAIN c.index = {}
    BY <1>1, <1>2, <2>2
  <2> QED
    BY <1>1, <2>2, <2>4, <2>5, <2>6 DEF Typed
<1> HIDE DEF c
<1>4. TicketsIn(c, {"Offered"}) = {} /\ Live(c) = {}
  BY <1>1 DEF TicketsIn, Live
<1>5. Occupied(c) = 0
  BY <1>1, <1>2, <1>4, FS_EmptySet DEF Occupied
<1>6. Budget(c)
  BY <1>1, <1>5, AdmissionUseAssumption DEF Budget
<1>7. Once(c) /\ Places(c)
  BY <1>1, <1>4 DEF Once, Places
<1>8. Sound(c)
  BY <1>3, <1>6, <1>7 DEF Sound
<1> QED
  BY <1>8 DEF c

(* So is the first state.                                                  *)
LEMMA InitSound == Init => Sound(ctl)
BY NewSound DEF Init

(* Every call and every tick keeps the controller sound, brings no         *)
(* released lease back and honours what was promised.                      *)
LEMMA StepSound ==
  Sound(ctl) /\ [Next]_vars => Sound(ctl)' /\ NoneBack(ctl, ctl') /\ Honoured(ctl, ctl')
<1> SUFFICES ASSUME Sound(ctl), [Next]_vars
             PROVE  Sound(ctl') /\ NoneBack(ctl, ctl') /\ Honoured(ctl, ctl')
  OBVIOUS
<1>0. Sound(Expire(ctl))
  BY ExpireFacts
<1>1. ASSUME NEW p \in Principals, NEW key \in Keys \cup {NoKey}, RequestJoin(p, key)
      PROVE  Follows(Expire(ctl), ctl')
  BY <1>0, <1>1, JoinFollows DEF RequestJoin
<1>2. ASSUME QueueStatus PROVE Follows(Expire(ctl), ctl')
  BY <1>0, <1>2, FollowsItself DEF QueueStatus
<1>3. ASSUME NEW id \in TicketIds, Heartbeat(id) PROVE Follows(Expire(ctl), ctl')
  BY <1>0, <1>3, HeartbeatAges, AgedFollows DEF Heartbeat
<1>4. ASSUME NEW id \in TicketIds, Cancel(id) PROVE Follows(Expire(ctl), ctl')
  BY <1>0, <1>4, CancelFollows DEF Cancel
<1>5. ASSUME NEW id \in TicketIds, ClaimOffer(id) PROVE Follows(Expire(ctl), ctl')
  BY <1>0, <1>5, ClaimFollows DEF ClaimOffer
<1>6. ASSUME NEW lease \in LeaseIds, NEW p \in Principals, NEW unexpected \in BOOLEAN,
             Release(lease, p, unexpected)
      PROVE  Follows(ctl, ctl')
  BY <1>6, ReleaseFollows DEF Release
<1>7. ASSUME NEW lease \in LeaseIds, NEW p \in Principals, Resume(lease, p)
      PROVE  Follows(Expire(ctl), ctl')
  BY <1>0, <1>7, ResumeFollows DEF Resume
<1>8. ASSUME NEW allocated \in Allocations, NEW revision \in 1..MaxRevision,
             ApplyCapacity(allocated, revision)
      PROVE  Follows(ctl, ctl')
  <2>1. allocated \in Nat /\ revision \in Nat
    BY AdmissionUseAssumption
  <2> QED
    BY <1>8, <2>1, CapacityFollows DEF ApplyCapacity
<1>9. ASSUME Tick PROVE Follows(ctl, ctl')
  BY <1>9, ElapseAges, AgedFollows DEF Tick
<1>10. ASSUME UNCHANGED vars PROVE Follows(ctl, ctl')
  <2>1. ctl' = ctl
    BY <1>10 DEF vars
  <2> QED
    BY <2>1, FollowsItself
<1>11. Follows(Expire(ctl), ctl') \/ Follows(ctl, ctl')
  BY <1>1, <1>2, <1>3, <1>4, <1>5, <1>6, <1>7, <1>8, <1>9, <1>10 DEF Next
<1> QED
  BY <1>11, FollowsHonours, ExpiredFollowsHonours

(* The controller is sound in every reachable state.                       *)
THEOREM AdmissionInvariant == Spec => []Sound(ctl)
<1>1. Sound(ctl) /\ [Next]_vars => Sound(ctl)'
  BY StepSound
<1> QED
  BY InitSound, <1>1, PTL DEF Spec

(* Types: leases were issued, tickets in line and in the index exist.      *)
THEOREM AdmissionTypeOK == Spec => []TypeOK
<1>1. Sound(ctl) => TypeOK
  BY DEF Sound, Typed, TypeOK
<1> QED
  BY <1>1, AdmissionInvariant, PTL

(* Leases, reservations and offers never exceed the allocation, through    *)
(* every resize, and a pending target is always a decrease.                *)
THEOREM WithinAllocationTheorem == Spec => []WithinAllocation
<1>1. Sound(ctl) => WithinAllocation
  BY DEF Sound, Budget, WithinAllocation
<1> QED
  BY <1>1, AdmissionInvariant, PTL

(* No lease is active and reserved at once: release_at and resume_at move  *)
(* the slot, they never copy it.                                           *)
THEOREM SlotCountedOnceTheorem == Spec => []SlotCountedOnce
<1>1. Sound(ctl) => SlotCountedOnce
  BY DEF Sound, Once, SlotCountedOnce
<1> QED
  BY <1>1, AdmissionInvariant, PTL

(* request_join_at never gives a principal a second place in the queue.    *)
THEOREM OnePlacePerPrincipalTheorem == Spec => []OnePlacePerPrincipal
<1>1. Sound(ctl) => OnePlacePerPrincipal
  BY DEF Sound, Places, OnePlacePerPrincipal
<1> QED
  BY <1>1, AdmissionInvariant, PTL

(* A released or expired lease never comes back, whatever token or ticket  *)
(* is presented to resume_at or claim_offer_at.                            *)
THEOREM ReleasedForGoodTheorem == Spec => ReleasedForGood
<1>1. Sound(ctl) /\ [Next]_vars =>
         [ \A l \in 1..ctl.next_lease - 1 :
             l \in DOMAIN ctl'.active \cup DOMAIN ctl'.reservations
                => l \in DOMAIN ctl.active \cup DOMAIN ctl.reservations ]_vars
  BY StepSound DEF NoneBack, Leases
<1> QED
  BY <1>1, AdmissionInvariant, PTL DEF Spec, ReleasedForGood

(* No resize, expiry or promotion takes away an offer or a reservation     *)
(* that has time left.                                                     *)
THEOREM PromisesKeptTheorem == Spec => PromisesKept
<1>1. Sound(ctl) /\ [Next]_vars =>
         [ /\ \A i \in TicketsIn(ctl, {"Offered"}) :
                 ctl.tickets[i].left > 0 =>
                     ctl'.tickets[i].state \in {"Offered", "Admitted", "Cancelled"}
           /\ \A l \in DOMAIN ctl.reservations :
                 ctl.reservations[l].left > 0 =>
                     \/ l \in DOMAIN ctl'.reservations
                     \/ /\ l \in DOMAIN ctl'.active
                        /\ ctl'.active[l] = ctl.reservations[l].principal
         ]_vars
  BY StepSound DEF Honoured
<1> QED
  BY <1>1, AdmissionInvariant, PTL DEF Spec, PromisesKept

(* "No new client is admitted above the pending target while it drains":   *)
(* no step that leaves a target pending adds to what is occupied.          *)
THEOREM DrainsToTargetTheorem == Spec => DrainsToTarget
<1>1. Sound(ctl) /\ [Next]_vars =>
         [ ctl.pending # NoTarget /\ ctl'.pending # NoTarget =>
              Occupied(ctl') <= Occupied(ctl) ]_vars
  <2> SUFFICES ASSUME Sound(ctl), Next, ctl.pending # NoTarget, ctl'.pending # NoTarget
               PROVE  Occupied(ctl') <= Occupied(ctl)
    OBVIOUS
  <2> DEFINE e == Expire(ctl)
  <2>1. Sound(e) /\ Draining(ctl, e) /\ Crowded(e)
    BY ExpireDrains
  <2>2. Sound(ctl')
    BY StepSound
  <2>3. Typed(ctl) /\ Typed(e) /\ Typed(ctl')
    BY <2>1, <2>2 DEF Sound
  <2> HIDE DEF e
  <2>4. ASSUME Draining(e, ctl') PROVE Occupied(ctl') <= Occupied(ctl)
    BY <2>1, <2>3, <2>4, DrainingTransitive DEF Draining
  <2>5. ASSUME NEW p \in Principals, NEW key \in Keys \cup {NoKey}, RequestJoin(p, key)
        PROVE  Occupied(ctl') <= Occupied(ctl)
    BY <2>1, <2>4, <2>5, JoinDrains DEF RequestJoin, e
  <2>6. ASSUME QueueStatus PROVE Occupied(ctl') <= Occupied(ctl)
    BY <2>1, <2>4, <2>6, SameDrains DEF QueueStatus, e
  <2>7. ASSUME NEW id \in TicketIds, Heartbeat(id) PROVE Occupied(ctl') <= Occupied(ctl)
    <3>1. Aged(e, ctl')
      BY <2>1, <2>7, HeartbeatAges DEF Heartbeat, e
    <3>2. ctl'.pending = e.pending /\ Occupied(ctl') = Occupied(e)
      BY <2>1, <3>1, AgedFollows DEF Aged
    <3> QED
      BY <2>1, <2>4, <3>2, SameDrains
  <2>8. ASSUME NEW id \in TicketIds, Cancel(id) PROVE Occupied(ctl') <= Occupied(ctl)
    BY <2>1, <2>4, <2>8, CancelDrains DEF Cancel, e
  <2>9. ASSUME NEW id \in TicketIds, ClaimOffer(id) PROVE Occupied(ctl') <= Occupied(ctl)
    BY <2>1, <2>4, <2>9, ClaimDrains DEF ClaimOffer, e
  <2>10. ASSUME NEW lease \in LeaseIds, NEW p \in Principals, NEW unexpected \in BOOLEAN,
                Release(lease, p, unexpected)
         PROVE  Occupied(ctl') <= Occupied(ctl)
    BY <2>10, ReleaseDrains DEF Release, Draining
  <2>11. ASSUME NEW lease \in LeaseIds, NEW p \in Principals, Resume(lease, p)
         PROVE  Occupied(ctl') <= Occupied(ctl)
    <3>1. SameLimits(e, ctl') /\ Occupied(ctl') = Occupied(e)
      BY <2>1, <2>11, ResumeFollows DEF Resume, e
    <3> QED
      BY <2>1, <2>4, <3>1, SameDrains DEF SameLimits
  <2>12. ASSUME NEW allocated \in Allocations, NEW revision \in 1..MaxRevision,
                ApplyCapacity(allocated, revision)
         PROVE  Occupied(ctl') <= Occupied(ctl)
    <3>1. allocated \in Nat /\ revision \in Nat
      BY AdmissionUseAssumption
    <3> QED
      BY <2>12, <3>1, CapacityDrains DEF ApplyCapacity
  <2>13. ASSUME Tick PROVE Occupied(ctl') <= Occupied(ctl)
    <3>1. Occupied(ctl') = Occupied(ctl) /\ Occupied(ctl) \in Nat
      BY <2>3, <2>13, ElapseAges, AgedFollows, OccupiedTyped DEF Tick
    <3> QED
      BY <3>1
  <2> QED
    BY <2>5, <2>6, <2>7, <2>8, <2>9, <2>10, <2>11, <2>12, <2>13 DEF Next
<1> QED
  BY <1>1, AdmissionInvariant, PTL DEF Spec, DrainsToTarget

-----------------------------------------------------------------------------
(***************************************************************************)
(* The line in front of the controller: tickets, line and index agree,     *)
(* offers go out in the order the tickets were issued, and no slot idles   *)
(* while somebody is in line.                                              *)
(*                                                                         *)
(* Served strengthens Sound: the line is the Waiting tickets in the order  *)
(* of their ids (InLine), every offer went to an earlier ticket than any   *)
(* that waits (Fair), the index holds the live tickets by key (Indexed),   *)
(* and the free slots have been given away (Busy).  A promotion            *)
(* re-establishes Busy whatever came before it, since on such a line       *)
(* promote_at offers exactly as many slots as are free unless the line     *)
(* ends first (PopCountOfLine); the operations that do not end with a      *)
(* promotion leave the occupied slots as they were.                        *)
(***************************************************************************)
(* Ids rise along the line.                                                *)
Ordered(w) == \A i, j \in DOMAIN w : i < j => w[i] < w[j]

(* The line is the Waiting tickets, first issued first.                    *)
InLine(c) ==
    /\ Range(c.waiting) = TicketsIn(c, {"Waiting"})
    /\ Ordered(c.waiting)

(* What FirstComeFirstServed says of ctl, of any controller.               *)
Fair(c) ==
    \A i \in TicketsIn(c, {"Waiting"}), j \in TicketsIn(c, {"Offered"}) : j < i

(* What WorkConserving says of ctl, of any controller.                     *)
Busy(c) == c.waiting # <<>> => Occupied(c) >= AdmissionLimit(c)

(* The index holds the live tickets, each under its own key.               *)
Indexed(c) ==
    /\ Range(c.index) = Live(c)
    /\ \A key \in DOMAIN c.index : c.tickets[c.index[key]].key = key

(* The part of the invariant that holds in the middle of an operation too. *)
Lined(c) == Sound(c) /\ InLine(c) /\ Fair(c) /\ Indexed(c)

(* An operation that keeps the live tickets and the index keeps them in    *)
(* step.                                                                   *)
LEMMA SameIndexed ==
  ASSUME NEW c, NEW d, Indexed(c), SameTickets(c, d),
         d.index = c.index, Live(d) = Live(c)
  PROVE  Indexed(d)
<1>1. \A key \in DOMAIN c.index : c.index[key] \in DOMAIN c.tickets
  BY DEF Indexed, Range, Live, TicketsIn
<1> QED
  BY <1>1 DEF Indexed, SameTickets

(* A live ticket is the only one under its key: dropping the keys of some  *)
(* tickets drops no other ticket.                                          *)
LEMMA PrunedIndexed ==
  ASSUME NEW c, NEW d, NEW ids, Indexed(c), SameTickets(c, d), Pruned(c, d, ids)
  PROVE  Indexed(d)
<1> DEFINE keys == KeysOf(c, ids)
<1>1. /\ ids \subseteq Live(c) /\ Live(d) = Live(c) \ ids
      /\ Live(c) = {c.index[key] : key \in DOMAIN c.index}
      /\ \A key \in DOMAIN c.index : c.tickets[c.index[key]].key = key
      /\ \A i \in Live(c) : d.tickets[i].key = c.tickets[i].key
  BY DEF Pruned, Indexed, Range, SameTickets, Live, TicketsIn
<1>2. /\ DOMAIN d.index = DOMAIN c.index \ keys
      /\ \A key \in DOMAIN d.index : d.index[key] = c.index[key]
  BY DEF Pruned, Restrict
<1>3. \A key \in DOMAIN c.index : key \in keys <=> c.index[key] \in ids
  <2>1. ASSUME NEW key \in DOMAIN c.index, key \in keys PROVE c.index[key] \in ids
    <3>1. PICK i \in ids : c.tickets[i].key = key
      BY <2>1 DEF KeysOf
    <3>2. PICK k \in DOMAIN c.index : c.index[k] = i
      BY <1>1, <3>1
    <3> QED
      BY <1>1, <3>1, <3>2
  <2>2. ASSUME NEW key \in DOMAIN c.index, c.index[key] \in ids PROVE key \in keys
    BY <1>1, <2>2 DEF KeysOf
  <2> QED
    BY <2>1, <2>2
<1> HIDE DEF keys
<1>4. Live(d) = {d.index[key] : key \in DOMAIN d.index}
  BY <1>1, <1>2, <1>3
<1>5. \A key \in DOMAIN d.index : d.tickets[d.index[key]].key = key
  BY <1>1, <1>2, <1>3
<1> QED
  BY <1>4, <1>5 DEF Indexed, Range

(* retain keeps an ordered line ordered.                                   *)
LEMMA RetainedOrdered ==
  ASSUME NEW S, NEW s \in Seq(S), NEW keep, Ordered(s)
  PROVE  Ordered(Retained(s, keep))
<1> DEFINE R == Retained(s, keep)
<1>1. R \in Seq(S)
  BY RetainedPositions
<1>2. PICK pos \in [1..Len(R) -> KeptPositions(s, keep)] :
          /\ \A n \in 1..Len(R) : R[n] = s[pos[n]]
          /\ \A m, n \in 1..Len(R) : m < n => pos[m] < pos[n]
  BY RetainedPositions
<1>3. \A n \in 1..Len(R) : pos[n] \in DOMAIN s
  BY DEF KeptPositions
<1>4. DOMAIN R = 1..Len(R)
  BY <1>1
<1> HIDE DEF R
<1>5. \A m, n \in DOMAIN R : m < n => R[m] < R[n]
  BY <1>2, <1>3, <1>4 DEF Ordered
<1> QED
  BY <1>5 DEF Ordered, R

(* After n pops the line is what stood behind its n-th element.            *)
LEMMA AfterPopsElements ==
  ASSUME NEW S, NEW s \in Seq(S), NEW n \in 0..Len(s)
  PROVE  LET w == AfterPops(s, n)
         IN  /\ w \in Seq(S) /\ Len(w) = Len(s) - n
             /\ \A i \in 1..Len(w) : w[i] = s[n + i]
<1> DEFINE first == n + 1
           last == Len(s)
           w == SubSeq(s, first, last)
<1>1. first \in Int /\ last \in Int /\ \A i \in first..last : s[i] \in S
  OBVIOUS
<1>2. AfterPops(s, n) = w
  BY DEF AfterPops
<1> HIDE DEF first, last
<1>3. /\ w \in Seq(S)
      /\ Len(w) = IF first <= last THEN last - first + 1 ELSE 0
      /\ \A i \in 1..last - first + 1 : w[i] = s[first + i - 1]
  <2>1. w \in Seq(S)
    BY <1>1, SubSeqProperties, Zenon
  <2>2. Len(w) = IF first <= last THEN last - first + 1 ELSE 0
    BY <1>1, SubSeqProperties, Zenon
  <2>3. \A i \in 1..last - first + 1 : w[i] = s[first + i - 1]
    BY <1>1, SubSeqProperties, SMT
  <2> QED
    BY <2>1, <2>2, <2>3
<1> HIDE DEF w
<1>4. Len(w) = last - n /\ last - first + 1 = last - n
  BY <1>3 DEF first, last
<1>5. \A i \in 1..last - n : first + i - 1 = n + i
  BY DEF first, last
<1>6. \A i \in 1..Len(w) : w[i] = s[n + i]
  BY <1>3, <1>4, <1>5
<1> QED
  BY <1>2, <1>3, <1>4, <1>6 DEF last

(* On an ordered line of Waiting tickets promote_at offers a slot to the   *)
(* first n tickets, and n is the number of free slots unless the line ends *)
(* first.                                                                  *)
LEMMA PopCountOfLine ==
  ASSUME NEW c, Lined(c)
  PROVE  LET n == PopCount(c)
         IN  /\ n \in 0..Len(c.waiting)
             /\ Called(c) = {c.waiting[i] : i \in 1..n}
             /\ Cardinality(Called(c)) = n
             /\ n < Len(c.waiting) => n = FreeSlots(c)
<1> DEFINE n == PopCount(c)
           F == FreeSlots(c)
           L == Len(c.waiting)
<1>1. /\ Typed(c) /\ FreeSlots(c) \in Nat /\ L \in Nat
      /\ c.waiting \in Seq(DOMAIN c.tickets)
  BY FreeSlotsFacts DEF Lined, Sound, Typed
<1>2. n \in 0..L
  BY <1>1, PopCountFacts
<1>3. \A i \in 1..L : c.tickets[c.waiting[i]].state = "Waiting"
  BY <1>1 DEF Lined, InLine, TicketsIn, Range
<1>4. ASSUME NEW k \in 0..L
      PROVE  Callable(c, k) = 1..k /\ Cardinality(Callable(c, k)) = k
  <2>1. Callable(c, k) = 1..k
    BY <1>1, <1>3 DEF Callable
  <2>2. 1 \in Int /\ k \in Int /\ k \in Nat
    BY <1>1
  <2>3. Cardinality(1..k) = IF 1 > k THEN 0 ELSE k - 1 + 1
    BY <2>2, FS_Interval, Zenon
  <2> QED
    BY <2>1, <2>2, <2>3
<1>5. Called(c) = {c.waiting[i] : i \in 1..n}
  BY <1>2, <1>4 DEF Called
<1>6. IsFiniteSet(1..n) /\ Cardinality(1..n) = n
  <2>1. IsFiniteSet(Callable(c, n))
    BY <1>1, <1>2, CallableFacts
  <2> QED
    BY <1>2, <1>4, <2>1
<1>7. Cardinality(Called(c)) = n
  <2> DEFINE T == {c.waiting[i] : i \in 1..n}
             f == [i \in 1..n |-> c.waiting[i]]
  <2>1. f \in Surjection(1..n, T)
    BY DEF Surjection
  <2>2. \A i, j \in 1..n : f[i] = f[j] => i = j
    <3>1. \A i \in DOMAIN c.waiting : c.waiting[i] \in Nat
      BY <1>1 DEF Typed
    <3>2. \A i, j \in DOMAIN c.waiting : i < j => c.waiting[i] < c.waiting[j]
      BY DEF Lined, InLine, Ordered
    <3>3. \A i \in 1..n : i \in DOMAIN c.waiting /\ i \in Nat
      BY <1>1, <1>2
    <3>4. ASSUME NEW i \in 1..n, NEW j \in 1..n, i < j PROVE f[i] # f[j]
      <4>1. f[i] \in Nat /\ f[j] \in Nat /\ f[i] < f[j]
        BY <3>1, <3>2, <3>3, <3>4
      <4> QED
        BY <4>1
    <3>5. \A i, j \in 1..n : i # j => i < j \/ j < i
      BY <3>3
    <3> HIDE DEF f
    <3> QED
      BY <3>4, <3>5
  <2>3. f \in Injection(1..n, T)
    BY <2>2 DEF Injection, IsInjective
  <2> HIDE DEF f, T
  <2>4. Cardinality(T) = Cardinality(1..n)
    BY <1>6, <2>1, <2>3, FS_Surjection
  <2> QED
    BY <1>5, <1>6, <2>4 DEF T
<1>8. n = L \/ n = F
  <2>1. n = L \/ Cardinality(Callable(c, n)) = F
    BY <1>1, PopCountFacts
  <2> QED
    BY <2>1, <1>2, <1>4
<1> QED
  BY <1>1, <1>2, <1>5, <1>7, <1>8

-----------------------------------------------------------------------------
(* The types of the line of a sound controller.                            *)
LEMMA LineTyped ==
  ASSUME NEW c, Sound(c)
  PROVE  /\ Typed(c) /\ c.waiting \in Seq(DOMAIN c.tickets)
         /\ Len(c.waiting) \in Nat /\ DOMAIN c.waiting = 1..Len(c.waiting)
         /\ \A i \in DOMAIN c.tickets : i \in Nat
BY DEF Sound, Typed

(* promote_at keeps the line in order and leaves no slot idle.             *)
LEMMA PromoteLined ==
  ASSUME NEW c, Lined(c)
  PROVE  Lined(Promote(c)) /\ Busy(Promote(c))
<1> DEFINE d == Promote(c)
           n == PopCount(c)
           L == Len(c.waiting)
           C == Called(c)
<1>1. /\ Sound(c) /\ InLine(c) /\ Fair(c) /\ Typed(c) /\ Indexed(c)
      /\ c.waiting \in Seq(DOMAIN c.tickets) /\ L \in Nat
      /\ DOMAIN c.waiting = 1..L /\ \A i \in DOMAIN c.tickets : i \in Nat
  BY LineTyped DEF Lined
<1>2. /\ Sound(d) /\ Eased(c, d) /\ SameLimits(c, d) /\ d.reservations = c.reservations
      /\ d.waiting = AfterPops(c.waiting, n) /\ d.index = c.index /\ Live(d) = Live(c)
      /\ \A i \in DOMAIN c.tickets : /\ i \in C => d.tickets[i].state = "Offered"
                                     /\ i \notin C => d.tickets[i] = c.tickets[i]
  BY <1>1, PromoteFacts
<1>3. /\ n \in 0..L /\ C = {c.waiting[i] : i \in 1..n} /\ Cardinality(C) = n
      /\ n < L => n = FreeSlots(c)
  BY PopCountOfLine
<1> HIDE DEF d, n, C
<1>4. /\ d.waiting \in Seq(DOMAIN c.tickets) /\ Len(d.waiting) = L - n
      /\ \A i \in 1..L - n : d.waiting[i] = c.waiting[n + i]
  <2>1. d.waiting = AfterPops(c.waiting, n)
    BY <1>2
  <2>2. c.waiting \in Seq(DOMAIN c.tickets) /\ n \in 0..Len(c.waiting)
    BY <1>1, <1>3
  <2> QED
    <3> DEFINE w == AfterPops(c.waiting, n)
    <3>1. /\ w \in Seq(DOMAIN c.tickets) /\ Len(w) = Len(c.waiting) - n
          /\ \A i \in 1..Len(w) : w[i] = c.waiting[n + i]
      BY <2>2, AfterPopsElements
    <3> HIDE DEF w
    <3> QED
      BY <2>1, <3>1 DEF w
<1>5. \A i, j \in 1..L : i < j => c.waiting[i] < c.waiting[j]
  BY <1>1 DEF InLine, Ordered
<1>6. TicketsIn(c, {"Waiting"}) = {c.waiting[i] : i \in 1..L}
  BY <1>1 DEF InLine, Range
<1>7. C \subseteq TicketsIn(c, {"Waiting"})
  BY <1>3, <1>6, <1>1
<1>8. /\ TicketsIn(d, {"Waiting"}) = TicketsIn(c, {"Waiting"}) \ C
      /\ TicketsIn(d, {"Offered"}) = TicketsIn(c, {"Offered"}) \cup C
  <2>1. DOMAIN d.tickets = DOMAIN c.tickets
    BY <1>2 DEF Eased, SameTickets
  <2>2. \A i \in C : i \in DOMAIN c.tickets
    BY <1>7 DEF TicketsIn
  <2> QED
    BY <1>2, <1>7, <2>1, <2>2 DEF TicketsIn
<1>9. \A i \in 1..n, j \in n + 1..L : c.waiting[i] < c.waiting[j]
  <2>1. ASSUME NEW i \in 1..n, NEW j \in n + 1..L PROVE i \in 1..L /\ j \in 1..L /\ i < j
    BY <1>1, <1>3
  <2> QED
    BY <1>5, <2>1
<1>10. \A i \in 1..L : c.waiting[i] \in Nat
  BY <1>1
<1>11. TicketsIn(d, {"Waiting"}) = {c.waiting[i] : i \in n + 1..L}
  <2>1. ASSUME NEW i \in n + 1..L PROVE c.waiting[i] \notin C
    <3>1. \A j \in 1..n : c.waiting[j] < c.waiting[i] /\ j \in 1..L /\ i \in 1..L
      BY <1>1, <1>3, <1>9
    <3>2. \A j \in 1..n : c.waiting[j] # c.waiting[i]
      BY <1>10, <3>1
    <3> QED
      BY <1>3, <3>2
  <2>2. \A i \in 1..L : i \in 1..n \/ i \in n + 1..L
    BY <1>1, <1>3
  <2>3. \A i \in n + 1..L : i \in 1..L
    BY <1>1, <1>3
  <2>4. \A i \in 1..n : c.waiting[i] \in C
    BY <1>3
  <2> DEFINE line == {c.waiting[i] : i \in 1..L}
             rest == {c.waiting[i] : i \in n + 1..L}
  <2>5. \A x \in line \ C : x \in rest
    BY <2>2, <2>4
  <2>6. \A x \in rest : x \in line \ C
    BY <2>1, <2>3
  <2>7. line \ C = rest
    BY <2>5, <2>6
  <2> QED
    BY <1>6, <1>8, <2>7
<1>12. InLine(d)
  <2>1. DOMAIN d.waiting = 1..L - n
    BY <1>1, <1>3, <1>4
  <2>2. Ordered(d.waiting)
    <3>1. ASSUME NEW i \in 1..L - n, NEW j \in 1..L - n, i < j
          PROVE  d.waiting[i] < d.waiting[j]
      <4>1. n + i \in 1..L /\ n + j \in 1..L /\ n + i < n + j
        BY <1>1, <1>3, <3>1
      <4>2. c.waiting[n + i] < c.waiting[n + j]
        BY <1>5, <4>1
      <4> QED
        BY <1>4, <4>2
    <3> QED
      BY <2>1, <3>1 DEF Ordered
  <2>3. Range(d.waiting) = {c.waiting[i] : i \in n + 1..L}
    <3>1. \A i \in 1..L - n : n + i \in n + 1..L
      BY <1>1, <1>3
    <3>2. \A j \in n + 1..L : j - n \in 1..L - n /\ n + (j - n) = j
      BY <1>1, <1>3
    <3>3. \A j \in n + 1..L : \E i \in 1..L - n : n + i = j
      BY <3>2
    <3>4. Range(d.waiting) = {d.waiting[i] : i \in 1..L - n}
      BY <2>1 DEF Range
    <3> QED
      BY <1>4, <3>1, <3>3, <3>4
  <2> QED
    BY <1>11, <2>2, <2>3 DEF InLine
<1>13. Fair(d)
  <2>1. ASSUME NEW i \in TicketsIn(d, {"Waiting"}), NEW j \in TicketsIn(d, {"Offered"})
        PROVE  j < i
    <3>1. CASE j \in TicketsIn(c, {"Offered"})
      BY <1>1, <1>8, <3>1 DEF Fair
    <3>2. CASE j \in C
      <4>1. PICK k \in n + 1..L : i = c.waiting[k]
        BY <1>11
      <4>2. PICK m \in 1..n : j = c.waiting[m]
        BY <1>3, <3>2
      <4> QED
        BY <1>9, <4>1, <4>2
    <3> QED
      BY <1>8, <3>1, <3>2
  <2> QED
    BY <2>1 DEF Fair
<1>14. Busy(d)
  <2> SUFFICES ASSUME d.waiting # <<>> PROVE Occupied(d) >= AdmissionLimit(d)
    BY DEF Busy
  <2>1. n = FreeSlots(c)
    <3>1. L - n # 0
      BY <1>4
    <3> QED
      BY <1>1, <1>3, <3>1
  <2> DEFINE O == TicketsIn(c, {"Offered"})
             A == Cardinality(DOMAIN c.active)
             R == Cardinality(DOMAIN c.reservations)
  <2>2. IsFiniteSet(O) /\ Cardinality(O) \in Nat /\ A \in Nat /\ R \in Nat
    BY <1>1, SlotsFinite
  <2>3. IsFiniteSet(C)
    <3>1. IsFiniteSet(TicketsIn(c, {"Waiting"}))
      BY <1>1, SlotsFinite
    <3>2. C \in SUBSET TicketsIn(c, {"Waiting"})
      BY <1>7
    <3> QED
      BY <3>1, <3>2, FS_Subset
  <2>4. O \cap C = {}
    BY <1>7 DEF TicketsIn
  <2>5. Occupied(c) = A + R + Cardinality(O)
    BY DEF Occupied
  <2>6. Occupied(d) = A + R + Cardinality(O \cup C)
    BY <1>2, <1>8 DEF Occupied, Eased
  <2> HIDE DEF O, A, R
  <2>7. Cardinality(O \cup C) = Cardinality(O) + Cardinality(C)
    <3>1. Cardinality(O \cup C) = Cardinality(O) + Cardinality(C) - Cardinality({})
      BY <2>2, <2>3, <2>4, FS_Union
    <3> QED
      BY <1>3, <2>2, <3>1, FS_EmptySet
  <2>8. Occupied(d) = Occupied(c) + FreeSlots(c)
    BY <1>3, <2>1, <2>2, <2>5, <2>6, <2>7
  <2>9. Occupied(c) \in Nat /\ AdmissionLimit(c) \in Nat
    BY <1>1, FreeSlotsFacts
  <2>10. Occupied(c) + FreeSlots(c) >= AdmissionLimit(c)
    BY <2>9 DEF FreeSlots
  <2>11. AdmissionLimit(d) = AdmissionLimit(c)
    BY <1>2 DEF SameLimits, AdmissionLimit
  <2> QED
    BY <2>8, <2>10, <2>11
<1>15. Indexed(d)
  BY <1>1, <1>2, SameIndexed DEF Eased
<1> QED
  BY <1>2, <1>12, <1>13, <1>14, <1>15 DEF Lined, d

(* An operation that leaves tickets and line alone keeps the line in       *)
(* order.                                                                  *)
LEMMA SameQueueLined ==
  ASSUME NEW c, NEW d, Lined(c), Sound(d), d.waiting = c.waiting, d.index = c.index,
         SameTickets(c, d),
         \A i \in DOMAIN c.tickets : d.tickets[i].state = c.tickets[i].state
  PROVE  Lined(d)
<1>1. \A states : TicketsIn(d, states) = TicketsIn(c, states)
  BY DEF TicketsIn, SameTickets
<1>2. Indexed(d)
  BY <1>1, SameIndexed DEF Lined, Live
<1> QED
  BY <1>1, <1>2 DEF Lined, InLine, Fair

(* With the very same tickets, too.                                        *)
LEMMA UntouchedLined ==
  ASSUME NEW c, NEW d, Lined(c), Sound(d), d.waiting = c.waiting, d.index = c.index,
         d.tickets = c.tickets
  PROVE  Lined(d)
BY SameQueueLined DEF SameTickets

(* Tickets may leave the line and the index when they leave the Waiting or *)
(* Offered state.                                                          *)
LEMMA LeftLineLined ==
  ASSUME NEW c, NEW d, Lined(c), Sound(d),
         SameTickets(c, d), NEW ids, Pruned(c, d, ids),
         TicketsIn(d, {"Waiting"}) \subseteq TicketsIn(c, {"Waiting"}),
         TicketsIn(d, {"Offered"}) \subseteq TicketsIn(c, {"Offered"}),
         NEW keep, d.waiting = Retained(c.waiting, keep),
         TicketsIn(c, {"Waiting"}) \cap keep = TicketsIn(d, {"Waiting"})
  PROVE  Lined(d)
<1>1. c.waiting \in Seq(DOMAIN c.tickets)
  BY LineTyped DEF Lined
<1>2. Range(d.waiting) = Range(c.waiting) \cap keep
  BY <1>1, RetainedProperties
<1>3. Ordered(d.waiting)
  BY <1>1, RetainedOrdered DEF Lined, InLine
<1>4. Indexed(d)
  BY PrunedIndexed DEF Lined
<1> QED
  BY <1>2, <1>3, <1>4 DEF Lined, InLine, Fair

(* expire_at keeps the line in order and leaves no slot idle.              *)
LEMMA ExpireLined ==
  ASSUME NEW c, Lined(c)
  PROVE  Lined(Expire(c)) /\ Busy(Expire(c))
<1> DEFINE b == DropLapsed(c)
           e == ApplyPending(b)
<1>1. /\ Sound(b) /\ Eased(c, b)
      /\ \A i \in DOMAIN c.tickets :
            b.tickets[i] = c.tickets[i] \/ b.tickets[i].state = "Expired"
      /\ b.waiting = Retained(c.waiting, TicketsIn(b, {"Waiting"}))
      /\ \E ids : Pruned(c, b, ids)
  BY DropLapsedFacts DEF Lined
<1>2. Expire(c) = Promote(e)
  BY DEF Expire
<1> HIDE DEF b
<1>3. /\ SameTickets(c, b)
      /\ TicketsIn(b, {"Waiting"}) \subseteq TicketsIn(c, {"Waiting"})
      /\ TicketsIn(b, {"Offered"}) \subseteq TicketsIn(c, {"Offered"})
  BY <1>1 DEF TicketsIn, Eased, SameTickets
<1>4. Lined(b)
  <2>1. PICK ids : Pruned(c, b, ids)
    BY <1>1
  <2> QED
    BY <1>1, <1>3, <2>1, LeftLineLined
<1>5. Sound(e) /\ e.tickets = b.tickets /\ e.waiting = b.waiting /\ e.index = b.index
  BY <1>1, ApplyPendingFacts
<1> HIDE DEF e
<1>6. Lined(e)
  BY <1>4, <1>5, UntouchedLined
<1> QED
  BY <1>2, <1>6, PromoteLined

-----------------------------------------------------------------------------
(* The inductive invariant.                                                *)
Served(c) == Lined(c) /\ Busy(c)

(* When only timers change, the line is as it was.                         *)
LEMMA AgedServed ==
  ASSUME NEW c, NEW d, Served(c), Aged(c, d)
  PROVE  Served(d)
<1>1. Sound(d) /\ Occupied(d) = Occupied(c)
  BY AgedFollows DEF Served, Lined, Follows
<1>2. Lined(d)
  BY <1>1, SameQueueLined DEF Served, Aged, SameTickets
<1>3. Busy(d)
  BY <1>1 DEF Served, Busy, Aged, AdmissionLimit
<1> QED
  BY <1>2, <1>3 DEF Served

(* An operation that ends with promote_at leaves no slot idle.             *)
LEMMA SettledServed ==
  ASSUME NEW d, Lined(d)
  PROVE  Served(Promote(d)) /\ Served(Promote(ApplyPending(d)))
<1> DEFINE e == ApplyPending(d)
<1>1. Sound(e) /\ e.tickets = d.tickets /\ e.waiting = d.waiting /\ e.index = d.index
  BY ApplyPendingFacts DEF Lined
<1> HIDE DEF e
<1>2. Lined(e)
  BY <1>1, UntouchedLined
<1>3. Served(Promote(d)) /\ Served(Promote(e))
  BY <1>2, PromoteLined DEF Served
<1> QED
  BY <1>3 DEF e

(* A lease given to a newcomer finds nobody in line; one given for a       *)
(* claimed offer takes the slot the offer held.                            *)
LEMMA AdmitServed ==
  ASSUME NEW c, NEW d, Served(c), Lined(d), NEW p \in Principals,
         Occupied(d) < d.allocated, SameLimits(c, d), d.waiting = c.waiting,
         Occupied(d) + 1 >= Occupied(c) \/ c.waiting = <<>>
  PROVE  Served(Admit(d, p))
<1> DEFINE e == Admit(d, p)
<1>1. /\ Sound(e) /\ e.tickets = d.tickets /\ e.waiting = d.waiting /\ e.index = d.index
      /\ SameLimits(d, e) /\ Occupied(e) = Occupied(d) + 1
  BY AdmitFacts DEF Lined
<1> HIDE DEF e
<1>2. Lined(e)
  BY <1>1, UntouchedLined
<1>3. Busy(e)
  <2>1. CASE c.waiting = <<>>
    BY <1>1, <2>1 DEF Busy
  <2>2. CASE c.waiting # <<>>
    <3>1. /\ Occupied(c) \in Nat /\ Occupied(d) \in Nat /\ AdmissionLimit(c) \in Nat
      BY FreeSlotsFacts DEF Served, Lined
    <3>2. Occupied(c) >= AdmissionLimit(c)
      BY <2>2 DEF Served, Busy
    <3>3. AdmissionLimit(e) = AdmissionLimit(c)
      BY <1>1 DEF SameLimits, AdmissionLimit
    <3>4. Occupied(e) >= AdmissionLimit(e)
      BY <1>1, <2>2, <3>1, <3>2, <3>3
    <3> QED
      BY <3>4 DEF Busy
  <2> QED
    BY <2>1, <2>2
<1> QED
  BY <1>2, <1>3 DEF Served, e

(* enqueue puts the newest ticket behind all others, when no slot is free. *)
LEMMA EnqueueServed ==
  ASSUME NEW c, Served(c), NEW p \in Principals, NEW key \in Keys,
         ~ HasQueuedPrincipal(c, p), Occupied(c) >= AdmissionLimit(c),
         key \notin DOMAIN c.index
  PROVE  Served(Enqueue(c, key, p))
<1> DEFINE d == Enqueue(c, key, p)
           id == Len(c.tickets) + 1
           L == Len(c.waiting)
<1>1. /\ Sound(c) /\ InLine(c) /\ Fair(c) /\ Indexed(c)
      /\ c.waiting \in Seq(DOMAIN c.tickets) /\ L \in Nat /\ DOMAIN c.waiting = 1..L
      /\ c.tickets \in Seq(Tickets)
  BY LineTyped DEF Served, Lined, Typed
<1>2. Sound(d) /\ Enqueued(c, d, key)
  BY <1>1, EnqueueFollows DEF Follows
<1> HIDE DEF d
<1>3. /\ d.waiting = Append(c.waiting, id)
      /\ DOMAIN d.tickets = DOMAIN c.tickets \cup {id}
      /\ d.index = Insert(c.index, key, id)
      /\ d.tickets[id].state = "Waiting" /\ d.tickets[id].key = key
      /\ \A i \in DOMAIN c.tickets : d.tickets[i] = c.tickets[i]
      /\ Occupied(d) = Occupied(c) /\ SameLimits(c, d)
  BY <1>2 DEF Enqueued
<1>4. id \in Nat /\ \A i \in DOMAIN c.tickets : i \in Nat /\ i < id
  BY <1>1
<1> HIDE DEF id
<1>5. /\ DOMAIN d.waiting = 1..L + 1 /\ d.waiting[L + 1] = id
      /\ \A i \in 1..L : d.waiting[i] = c.waiting[i] /\ c.waiting[i] \in DOMAIN c.tickets
  BY <1>1, <1>3, <1>4
<1>6. /\ TicketsIn(d, {"Waiting"}) = TicketsIn(c, {"Waiting"}) \cup {id}
      /\ TicketsIn(d, {"Offered"}) = TicketsIn(c, {"Offered"})
  BY <1>3, <1>4 DEF TicketsIn
<1>7. \A i \in 1..L + 1 : i \in 1..L \/ i = L + 1
  BY <1>1
<1>8. L + 1 \in 1..L + 1 /\ \A i \in 1..L : i \in 1..L + 1
  BY <1>1
<1>9. Range(d.waiting) = TicketsIn(d, {"Waiting"})
  <2>1. Range(c.waiting) = TicketsIn(c, {"Waiting"})
    BY <1>1 DEF InLine
  <2>2. Range(d.waiting) = Range(c.waiting) \cup {id}
    <3>1. Range(d.waiting) = {d.waiting[i] : i \in 1..L + 1}
      BY <1>5 DEF Range
    <3>2. Range(c.waiting) = {c.waiting[i] : i \in 1..L}
      BY <1>1 DEF Range
    <3> QED
      BY <1>5, <1>7, <1>8, <3>1, <3>2
  <2> QED
    BY <1>6, <2>1, <2>2
<1>10. Ordered(d.waiting)
  <2>1. ASSUME NEW i \in 1..L + 1, NEW j \in 1..L + 1, i < j
        PROVE  d.waiting[i] < d.waiting[j]
    <3>1. i \in 1..L
      BY <1>1, <2>1
    <3>2. CASE j \in 1..L
      <4>1. c.waiting[i] < c.waiting[j]
        BY <1>1, <2>1, <3>1, <3>2 DEF InLine, Ordered
      <4> QED
        BY <1>5, <3>1, <3>2, <4>1
    <3>3. CASE j = L + 1
      BY <1>4, <1>5, <3>1, <3>3
    <3> QED
      BY <1>7, <3>2, <3>3
  <2> QED
    BY <1>5, <2>1 DEF Ordered
<1>11. Fair(d)
  <2>1. \A j \in TicketsIn(c, {"Offered"}) : j < id
    BY <1>4 DEF TicketsIn
  <2> QED
    BY <1>1, <1>6, <2>1 DEF Fair
<1>12. Busy(d)
  BY <1>3 DEF Busy, AdmissionLimit, SameLimits
<1>13. Indexed(d)
  <2>1. Live(d) = Live(c) \cup {id}
    BY <1>3 DEF Live, TicketsIn
  <2>2. /\ DOMAIN d.index = DOMAIN c.index \cup {key} /\ d.index[key] = id
        /\ \A k \in DOMAIN c.index : d.index[k] = c.index[k]
    BY <1>3 DEF Insert
  <2>3. /\ Live(c) = {c.index[k] : k \in DOMAIN c.index}
        /\ \A k \in DOMAIN c.index : c.tickets[c.index[k]].key = k
    BY <1>1 DEF Indexed, Range
  <2>4. \A k \in DOMAIN c.index : c.index[k] \in DOMAIN c.tickets
    BY <2>3 DEF Live, TicketsIn
  <2>5. Live(d) = {d.index[k] : k \in DOMAIN d.index}
    BY <2>1, <2>2, <2>3
  <2>6. \A k \in DOMAIN d.index : d.tickets[d.index[k]].key = k
    BY <1>3, <2>2, <2>3, <2>4
  <2> QED
    BY <2>5, <2>6 DEF Indexed, Range
<1> QED
  BY <1>2, <1>9, <1>10, <1>11, <1>12, <1>13 DEF Served, Lined, InLine, d

(* request_join_at, after expire_at, in each of its decisions.             *)
LEMMA JoinServed ==
  ASSUME NEW c, Served(c), NEW p \in Principals, NEW key \in Keys \cup {NoKey}
  PROVE  Served(AfterJoin(c, p, key))
<1>1. /\ Occupied(c) \in Nat /\ AdmissionLimit(c) \in Nat
      /\ AdmissionLimit(c) <= c.allocated /\ c.allocated \in Nat
  BY FreeSlotsFacts DEF Served, Lined, Sound, Typed
<1>2. CASE JoinDecision(c, p, key) = "Admitted"
  <2>1. Occupied(c) < AdmissionLimit(c)
    BY <1>2 DEF JoinDecision
  <2>2. Occupied(c) < c.allocated /\ ~ (Occupied(c) >= AdmissionLimit(c))
    BY <1>1, <2>1
  <2>3. Served(Admit(c, p))
    BY <2>2, AdmitServed DEF Served, Busy, SameLimits
  <2> QED
    BY <1>2, <2>3 DEF AfterJoin
<1>3. CASE JoinDecision(c, p, key) = "Queued"
  <2>1. key \in Keys /\ ~ HasQueuedPrincipal(c, p) /\ ~ (Occupied(c) < AdmissionLimit(c))
    BY <1>3 DEF JoinDecision
  <2>2. Occupied(c) >= AdmissionLimit(c)
    BY <1>1, <2>1
  <2>3. key \notin DOMAIN c.index
    <3>1. ~ (key \in DOMAIN c.index /\ c.index[key] \in Live(c))
      BY <1>3 DEF JoinDecision
    <3> QED
      BY <3>1 DEF Served, Lined, Indexed, Range
  <2>4. Served(Enqueue(c, key, p))
    BY <2>1, <2>2, <2>3, EnqueueServed
  <2> QED
    BY <1>3, <2>4 DEF AfterJoin
<1>4. CASE JoinDecision(c, p, key) \notin {"Admitted", "Queued"}
  BY <1>4 DEF AfterJoin
<1> QED
  BY <1>2, <1>3, <1>4

(* cancel_at, after expire_at: the slot of a cancelled offer goes to the   *)
(* next in line.                                                           *)
LEMMA CancelServed ==
  ASSUME NEW c, Served(c), NEW id
  PROVE  Served(AfterCancel(c, id))
<1>1. CASE id \in Live(c)
  <2>1. Sound(c) /\ Lined(c) /\ Range(c.waiting) = TicketsIn(c, {"Waiting"})
    BY DEF Served, Lined, InLine
  <2>2. PICK d : /\ AfterCancel(c, id) = Promote(d)
                 /\ TakenOut(c, d, id) /\ d.waiting = Without(c.waiting, id)
    BY <1>1, <2>1, CancelTakesOut
  <2> DEFINE keep == TicketsIn(c, {"Waiting"}) \ {id}
  <2>3. d.waiting = Retained(c.waiting, keep)
    BY <2>1, <2>2 DEF Without
  <2>4. /\ TicketsIn(d, {"Waiting"}) = keep
        /\ TicketsIn(d, {"Offered"}) \subseteq TicketsIn(c, {"Offered"})
        /\ SameTickets(c, d) /\ Pruned(c, d, {id})
    BY <2>2 DEF TakenOut, TicketsIn, SameTickets
  <2>5. Sound(d)
    BY <1>1, <2>1, <2>2, TakenOutFollows DEF Follows
  <2>6. Lined(d)
    <3>1. TicketsIn(c, {"Waiting"}) \cap keep = TicketsIn(d, {"Waiting"})
      BY <2>4
    <3>2. TicketsIn(d, {"Waiting"}) \subseteq TicketsIn(c, {"Waiting"})
      BY <2>4
    <3> HIDE DEF keep
    <3> QED
      BY <2>1, <2>3, <2>4, <2>5, <3>1, <3>2, LeftLineLined
  <2> QED
    BY <2>2, <2>6, SettledServed
<1>2. CASE id \notin Live(c)
  BY <1>2 DEF AfterCancel
<1> QED
  BY <1>1, <1>2

(* claim_offer_at, after expire_at.                                        *)
LEMMA ClaimServed ==
  ASSUME NEW c, Served(c), NEW id
  PROVE  Served(AfterClaim(c, id))
<1>1. CASE id \in TicketsIn(c, {"Offered"})
  <2>1. Sound(c) /\ Lined(c)
    BY DEF Served, Lined
  <2>2. PICK d : /\ AfterClaim(c, id) = Admit(d, c.tickets[id].principal)
                 /\ c.tickets[id].principal \in Principals
                 /\ TakenOut(c, d, id) /\ d.waiting = c.waiting
                 /\ Follows(c, d) /\ Occupied(d) + 1 = Occupied(c)
                 /\ Occupied(d) < d.allocated
    BY <1>1, <2>1, ClaimTakesOut
  <2>3. /\ TicketsIn(d, {"Waiting"}) = TicketsIn(c, {"Waiting"})
        /\ TicketsIn(d, {"Offered"}) \subseteq TicketsIn(c, {"Offered"})
        /\ SameLimits(c, d) /\ SameTickets(c, d) /\ Pruned(c, d, {id})
    BY <1>1, <2>2 DEF TakenOut, TicketsIn, SameTickets
  <2>4. Sound(d)
    BY <2>2 DEF Follows
  <2>5. Lined(d)
    <3>1. Indexed(d)
      BY <2>1, <2>3, PrunedIndexed DEF Lined
    <3> QED
      BY <2>1, <2>2, <2>3, <2>4, <3>1 DEF Lined, InLine, Fair
  <2>6. Occupied(d) + 1 >= Occupied(c)
    <3>1. Occupied(c) \in Nat /\ Occupied(d) \in Nat
      BY <2>1, <2>4, FreeSlotsFacts
    <3> QED
      BY <2>2, <3>1
  <2> QED
    BY <2>2, <2>3, <2>5, <2>6, AdmitServed
<1>2. CASE id \notin TicketsIn(c, {"Offered"})
  BY <1>2 DEF AfterClaim
<1> QED
  BY <1>1, <1>2

(* release_at: the slot of a clean departure goes to the next in line.     *)
LEMMA ReleaseServed ==
  ASSUME NEW c, Served(c), NEW lease, NEW p, NEW unexpected \in BOOLEAN
  PROVE  Served(AfterRelease(c, lease, p, unexpected))
<1>1. CASE lease \in DOMAIN c.active /\ c.active[lease] = p
  <2>1. Sound(c) /\ Lined(c)
    BY DEF Served, Lined
  <2>2. PICK d : /\ AfterRelease(c, lease, p, unexpected) = Promote(ApplyPending(d))
                 /\ LetGo(c, d, lease)
    BY <1>1, <2>1, ReleaseLetsGo
  <2>3. Lined(d)
    BY <2>1, <2>2, UntouchedLined DEF Follows, LetGo
  <2> QED
    BY <2>2, <2>3, SettledServed
<1>2. CASE ~ (lease \in DOMAIN c.active /\ c.active[lease] = p)
  BY <1>2 DEF AfterRelease
<1> QED
  BY <1>1, <1>2

(* resume_at, after expire_at: the reservation held the slot.              *)
LEMMA ResumeServed ==
  ASSUME NEW c, Served(c), NEW lease, NEW p
  PROVE  Served(AfterResume(c, lease, p))
<1> DEFINE d == AfterResume(c, lease, p)
<1>1. /\ Follows(c, d) /\ Occupied(d) = Occupied(c) /\ SameLimits(c, d)
      /\ d.tickets = c.tickets /\ d.waiting = c.waiting /\ d.index = c.index
  BY ResumeFollows DEF Served, Lined
<1> HIDE DEF d
<1>2. Lined(d)
  BY <1>1, UntouchedLined DEF Served, Follows
<1>3. Busy(d)
  BY <1>1 DEF Served, Busy, AdmissionLimit, SameLimits
<1> QED
  BY <1>2, <1>3 DEF Served, d

(* apply_capacity_at: new slots go to the line, and a lower target leaves  *)
(* none free.                                                              *)
LEMMA CapacityServed ==
  ASSUME NEW c, Served(c), NEW allocated \in Nat, NEW revision \in Nat
  PROVE  Served(AfterCapacity(c, allocated, revision))
<1>1. /\ Typed(c) /\ Sound(c) /\ Lined(c) /\ Occupied(c) \in Nat /\ NoTarget \notin Nat
  BY OccupiedTyped, PolicyAssumption DEF Served, Lined, Sound
<1>2. CASE revision <= c.revision
  BY <1>2 DEF AfterCapacity
<1>3. CASE ~ (revision <= c.revision) /\ allocated < Occupied(c)
  <2> DEFINE d == [c EXCEPT !.revision = revision, !.pending = allocated]
  <2>1. AfterCapacity(c, allocated, revision) = d
    BY <1>3 DEF AfterCapacity
  <2>2. /\ d.pending = allocated /\ d.active = c.active /\ d.reservations = c.reservations
        /\ d.tickets = c.tickets /\ d.waiting = c.waiting /\ d.index = c.index
    BY <1>1 DEF Typed
  <2>3. Sound(d)
    BY <1>1, <2>1, CapacityFollows DEF Follows
  <2> HIDE DEF d
  <2>4. Lined(d)
    BY <1>1, <2>2, <2>3, UntouchedLined
  <2>5. Occupied(d) = Occupied(c) /\ AdmissionLimit(d) = allocated
    BY <1>1, <2>2 DEF Occupied, TicketsIn, AdmissionLimit
  <2>6. Busy(d)
    BY <1>1, <1>3, <2>5 DEF Busy
  <2> QED
    BY <2>1, <2>4, <2>6 DEF Served
<1>4. CASE ~ (revision <= c.revision) /\ ~ (allocated < Occupied(c))
  <2> DEFINE d == [c EXCEPT !.revision = revision, !.allocated = allocated,
                            !.pending = NoTarget]
  <2>1. AfterCapacity(c, allocated, revision) = Promote(d)
    BY <1>4 DEF AfterCapacity
  <2>2. /\ Typed(d) /\ d.pending = NoTarget /\ d.allocated = allocated
        /\ d.active = c.active /\ d.reservations = c.reservations
        /\ d.tickets = c.tickets /\ d.waiting = c.waiting /\ d.index = c.index
    BY <1>1 DEF Typed
  <2> HIDE DEF d
  <2>3. Occupied(d) = Occupied(c)
    BY <2>2 DEF Occupied, TicketsIn
  <2>4. Budget(d)
    BY <1>1, <1>4, <2>2, <2>3 DEF Budget
  <2>5. Sound(d)
    BY <1>1, <2>2, <2>4 DEF Sound, Once, Places, Live, TicketsIn
  <2>6. Lined(d)
    BY <1>1, <2>2, <2>5, UntouchedLined
  <2> QED
    BY <2>1, <2>6, SettledServed
<1> QED
  BY <1>2, <1>3, <1>4

-----------------------------------------------------------------------------
(* A new controller has nobody in line.                                    *)
LEMMA InitServed == Init => Served(ctl)
<1> SUFFICES ASSUME Init PROVE Served(ctl)
  OBVIOUS
<1>1. ctl.tickets = <<>> /\ ctl.waiting = <<>> /\ ctl.index = <<>>
  BY DEF Init, NewController
<1>2. /\ TicketsIn(ctl, {"Waiting"}) = {} /\ TicketsIn(ctl, {"Offered"}) = {}
      /\ Live(ctl) = {}
  BY <1>1 DEF TicketsIn, Live
<1>3. InLine(ctl) /\ Fair(ctl) /\ Busy(ctl) /\ Indexed(ctl)
  BY <1>1, <1>2 DEF InLine, Ordered, Range, Fair, Busy, Indexed
<1> QED
  BY <1>3, InitSound DEF Served, Lined

(* Every call and every tick keeps the line in order and leaves no slot    *)
(* idle.                                                                   *)
LEMMA StepServed ==
  Served(ctl) /\ [Next]_vars => Served(ctl)'
<1> SUFFICES ASSUME Served(ctl), [Next]_vars
             PROVE  Served(ctl')
  OBVIOUS
<1>0. Served(Expire(ctl)) /\ Sound(Expire(ctl))
  BY ExpireLined DEF Served, Lined
<1>1. ASSUME NEW p \in Principals, NEW key \in Keys \cup {NoKey}, RequestJoin(p, key)
      PROVE  Served(ctl')
  BY <1>0, <1>1, JoinServed DEF RequestJoin
<1>2. ASSUME QueueStatus PROVE Served(ctl')
  BY <1>0, <1>2 DEF QueueStatus
<1>3. ASSUME NEW id \in TicketIds, Heartbeat(id) PROVE Served(ctl')
  BY <1>0, <1>3, HeartbeatAges, AgedServed DEF Heartbeat
<1>4. ASSUME NEW id \in TicketIds, Cancel(id) PROVE Served(ctl')
  BY <1>0, <1>4, CancelServed DEF Cancel
<1>5. ASSUME NEW id \in TicketIds, ClaimOffer(id) PROVE Served(ctl')
  BY <1>0, <1>5, ClaimServed DEF ClaimOffer
<1>6. ASSUME NEW lease \in LeaseIds, NEW p \in Principals, NEW unexpected \in BOOLEAN,
             Release(lease, p, unexpected)
      PROVE  Served(ctl')
  BY <1>6, ReleaseServed DEF Release
<1>7. ASSUME NEW lease \in LeaseIds, NEW p \in Principals, Resume(lease, p)
      PROVE  Served(ctl')
  BY <1>0, <1>7, ResumeServed DEF Resume
<1>8. ASSUME NEW allocated \in Allocations, NEW revision \in 1..MaxRevision,
             ApplyCapacity(allocated, revision)
      PROVE  Served(ctl')
  <2>1. allocated \in Nat /\ revision \in Nat
    BY AdmissionUseAssumption
  <2> QED
    BY <1>8, <2>1, CapacityServed DEF ApplyCapacity
<1>9. ASSUME Tick PROVE Served(ctl')
  BY <1>9, ElapseAges, AgedServed DEF Tick, Served, Lined
<1>10. ASSUME UNCHANGED vars PROVE Served(ctl')
  BY <1>10 DEF vars
<1> QED
  BY <1>1, <1>2, <1>3, <1>4, <1>5, <1>6, <1>7, <1>8, <1>9, <1>10 DEF Next

(* The line is in order and served in every reachable state.               *)
THEOREM LineInvariant == Spec => []Served(ctl)
BY InitServed, StepServed, PTL DEF Spec

(* While somebody is in line every slot is taken, after any call: a        *)
(* newcomer that request_join_at admits has overtaken nobody.              *)
THEOREM WorkConservingTheorem == Spec => []WorkConserving
<1>1. Served(ctl) => WorkConserving
  BY DEF Served, Busy, WorkConserving
<1> QED
  BY <1>1, LineInvariant, PTL

(* Tickets, line and index stay in step through every call: the line is    *)
(* the waiting tickets in order, the index exactly the live ones by key.   *)
THEOREM QueueViewsAgreeTheorem == Spec => []QueueViewsAgree
<1>1. Served(ctl) => QueueViewsAgree
  <2> SUFFICES ASSUME Served(ctl) PROVE QueueViewsAgree
    OBVIOUS
  <2>1. TypeOK
    BY DEF Served, Lined, Sound, Typed, TypeOK
  <2> QED
    BY <2>1 DEF Served, Lined, InLine, Ordered, Indexed, QueueViewsAgree
<1> QED
  BY <1>1, LineInvariant, PTL

(* promote_at never offers a slot to a ticket while an earlier one waits,  *)
(* through expiries, cancellations and resizes.                            *)
THEOREM FirstComeFirstServedTheorem == Spec => []FirstComeFirstServed
<1>1. Served(ctl) => FirstComeFirstServed
  BY DEF Served, Lined, Fair, TicketsIn, FirstComeFirstServed
<1> QED
  BY <1>1, LineInvariant, PTL

-----------------------------------------------------------------------------
(***************************************************************************)
(* The controller inside the core.  The invariant CoreInv joins what the   *)
(* core remembers of its connections to the soundness of the controller;   *)
(* every call of the core is taken apart into what it does to the leases   *)
(* in use (SameLeases, ReleaseLeases, JoinLeases) and what it does to the   *)
(* two maps of leases (Leased, Unleased).                                  *)
(***************************************************************************)

(* d is sound and the same leases are in use.                              *)
SameLeases(c, d) == Sound(d) /\ d.active = c.active /\ d.next_lease = c.next_lease

(* A sound controller is one.                                              *)
LEMMA SoundConfigured ==
  ASSUME NEW c, Sound(c)
  PROVE  c # NoController
<1>1. "tickets" \in DOMAIN c
  BY DEF Sound, Typed
<1>2. DOMAIN NoController = {}
  BY DEF NoController
<1> QED
  BY <1>1, <1>2

(* expire_at ends no lease.                                                *)
LEMMA ExpireSameLeases ==
  ASSUME NEW c, Sound(c)
  PROVE  SameLeases(c, Expire(c))
BY ExpireFacts DEF SameLeases, Eased

(* Nor does time.                                                          *)
LEMMA ElapseSameLeases ==
  ASSUME NEW c, Sound(c)
  PROVE  SameLeases(c, Elapse(c))
<1>1. Aged(c, Elapse(c))
  BY ElapseAges
<1>2. Sound(Elapse(c))
  BY <1>1, AgedFollows DEF Follows
<1> QED
  BY <1>1, <1>2 DEF SameLeases, Aged

(* Nor does a resize.                                                      *)
LEMMA CapacitySameLeases ==
  ASSUME NEW c, Sound(c), NEW allocated \in Nat, NEW revision \in Nat
  PROVE  SameLeases(c, AfterCapacity(c, allocated, revision))
<1> DEFINE d == AfterCapacity(c, allocated, revision)
<1>1. Sound(d)
  BY CapacityFollows DEF Follows
<1>2. d.active = c.active /\ d.next_lease = c.next_lease
  <2> DEFINE e == [c EXCEPT !.revision = revision, !.pending = allocated]
             f == [c EXCEPT !.revision = revision, !.allocated = allocated,
                            !.pending = NoTarget]
  <2>1. e.active = c.active /\ e.next_lease = c.next_lease
        /\ f.active = c.active /\ f.next_lease = c.next_lease
    BY DEF Sound, Typed
  <2>2. \A b : Promote(b).active = b.active /\ Promote(b).next_lease = b.next_lease
    BY DEF Promote, SetState
  <2>3. d = c \/ d = e \/ d = Promote(f)
    BY DEF AfterCapacity
  <2> HIDE DEF d, e, f
  <2> QED
    BY <2>1, <2>2, <2>3
<1> QED
  BY <1>1, <1>2 DEF SameLeases

(* request_join_at, after expire_at, admits under a fresh lease or changes *)
(* no lease.                                                               *)
LEMMA JoinLeases ==
  ASSUME NEW c, Sound(c), NEW p \in Principals, NEW key \in Keys
  PROVE  LET d == AfterJoin(c, p, key)
         IN  /\ Sound(d)
             /\ JoinDecision(c, p, key) = "Admitted" =>
                   /\ d.active = Insert(c.active, c.next_lease, p)
                   /\ d.next_lease = c.next_lease + 1
             /\ JoinDecision(c, p, key) # "Admitted" => d.active = c.active
<1> DEFINE d == AfterJoin(c, p, key)
<1>1. Sound(d) /\ Typed(c)
  BY JoinFollows DEF Follows, Sound
<1>2. CASE JoinDecision(c, p, key) = "Admitted"
  <2> DEFINE a == Insert(c.active, c.next_lease, p)
             n == c.next_lease + 1
             e == [c EXCEPT !.active = a, !.next_lease = n]
  <2>1. e.active = a /\ e.next_lease = n
    BY <1>1 DEF Typed
  <2>2. Admit(c, p) = e
    BY <1>1 DEF Admit, Typed
  <2>3. d = Admit(c, p)
    BY <1>2 DEF AfterJoin
  <2> HIDE DEF d, e
  <2>4. d.active = a /\ d.next_lease = n
    BY <2>1, <2>2, <2>3
  <2> QED
    BY <1>1, <1>2, <2>4 DEF d
<1>3. CASE JoinDecision(c, p, key) # "Admitted"
  <2>1. d = c \/ d = Enqueue(c, key, p)
    BY <1>3 DEF AfterJoin
  <2>2. Enqueue(c, key, p).active = c.active
    BY <1>1 DEF Enqueue, Typed
  <2> HIDE DEF d
  <2>3. d.active = c.active
    BY <2>1, <2>2
  <2> QED
    BY <1>1, <1>3, <2>3 DEF d
<1> QED
  BY <1>2, <1>3

(* release_at takes the lease that its principal holds out of use, and no  *)
(* other.                                                                  *)
LEMMA ReleaseLeases ==
  ASSUME NEW c, Sound(c), NEW lease \in DOMAIN c.active, NEW p, c.active[lease] = p,
         NEW unexpected \in BOOLEAN
  PROVE  LET d == AfterRelease(c, lease, p, unexpected)
         IN  Sound(d) /\ d.active = Restrict(c.active, DOMAIN c.active \ {lease})
<1> DEFINE d == AfterRelease(c, lease, p, unexpected)
<1>1. PICK b : d = Promote(ApplyPending(b)) /\ LetGo(c, b, lease)
  BY ReleaseLetsGo
<1>2. Sound(b) /\ b.active = Restrict(c.active, DOMAIN c.active \ {lease})
  BY <1>1 DEF LetGo, Follows
<1>3. Sound(d) /\ d.active = b.active
  BY <1>1, <1>2, SettleFacts DEF Eased
<1> HIDE DEF d
<1> QED
  BY <1>2, <1>3 DEF d

-----------------------------------------------------------------------------
(* The inductive invariant of the binding.                                 *)
CoreInv == HeldLeasesInUse /\ LeasesAccountedFor /\ (Configured => Sound(ctl))

(* f maps connections to leases.                                           *)
Leasing(f) == f \in [DOMAIN f -> LeaseIds]

(* g is f with a lease for x added, or removed.                            *)
Leased(f, g, x, v) ==
    /\ DOMAIN g = DOMAIN f \cup {x} /\ Leasing(g)
    /\ g[x] = v /\ \A y \in DOMAIN f \ {x} : g[y] = f[y]

(* See Leased.                                                             *)
Unleased(f, g, x) ==
    DOMAIN g = DOMAIN f \ {x} /\ Leasing(g) /\ \A y \in DOMAIN g : g[y] = f[y]

(* What Insert does to such a function.                                    *)
LEMMA InsertFacts ==
  ASSUME NEW f, Leasing(f), NEW x, NEW v \in LeaseIds
  PROVE  Leased(f, Insert(f, x, v), x, v)
BY DEF Insert, Leasing, Leased

(* What Remove does to such a function.                                    *)
LEMMA RemoveFacts ==
  ASSUME NEW f, Leasing(f), NEW x
  PROVE  Unleased(f, Remove(f, x), x)
BY DEF Remove, Restrict, Leasing, Unleased

(* The controller changes and ends no lease.                               *)
LEMMA ControllerStep ==
  ASSUME CoreInv, Configured, SameLeases(ctl, ctl'), UNCHANGED <<who, members, pending, bound, overwritten>>
  PROVE  CoreInv'
<1>1. Configured'
  BY SoundConfigured DEF SameLeases, Configured
<1>2. CoreTypeOK'
  BY <1>1 DEF CoreInv, HeldLeasesInUse, CoreTypeOK, Authenticated
<1>3. HeldLeasesInUse'
  BY <1>2 DEF CoreInv, HeldLeasesInUse, SameLeases
<1>4. LeasesAccountedFor'
  BY DEF CoreInv, LeasesAccountedFor, SameLeases
<1> QED
  BY <1>3, <1>4 DEF CoreInv, SameLeases

(* Configuring the session finds no lease held.                            *)
LEMMA ConfigureStep ==
  ASSUME CoreInv, NEW allocated \in Allocations, ConfigureAdmission(allocated)
  PROVE  CoreInv'
<1>1. Sound(ctl')
  BY NewSound DEF ConfigureAdmission
<1>2. Configured'
  BY <1>1, SoundConfigured DEF Configured
<1>3. CoreTypeOK'
  BY <1>2 DEF CoreInv, HeldLeasesInUse, CoreTypeOK, Authenticated, ConfigureAdmission
<1>4. DOMAIN pending = {} /\ DOMAIN bound = {} /\ overwritten = {}
  BY DEF CoreInv, HeldLeasesInUse, CoreTypeOK, ConfigureAdmission
<1>5. HeldLeasesInUse'
  BY <1>3, <1>4 DEF HeldLeasesInUse, ConfigureAdmission
<1>6. LeasesAccountedFor'
  <2>1. ctl'.active = <<>> /\ UNCHANGED <<pending, bound, overwritten>>
    BY DEF ConfigureAdmission, NewController
  <2>2. DOMAIN ctl'.active = {}
    BY <2>1
  <2> QED
    BY <1>4, <2>1, <2>2 DEF LeasesAccountedFor, Range
<1> QED
  BY <1>1, <1>5, <1>6 DEF CoreInv

(* A connection opens or authenticates.                                    *)
LEMMA ArriveStep ==
  ASSUME CoreInv, NEW c \in Connections,
         \/ Connect(c)
         \/ \E p \in Principals : Authenticate(c, p)
  PROVE  CoreInv'
<1>1. PICK to \in Principals \cup {Anonymous} :
         who[c] \notin Principals /\ who' = [who EXCEPT ![c] = to]
         /\ UNCHANGED <<ctl, members, pending, bound, overwritten>>
  BY AdmissionCoreAssumption DEF Connect, Authenticate
<1>2. who \in [Connections -> Principals \cup {Absent, Anonymous, Gone}]
  BY DEF CoreInv, HeldLeasesInUse, CoreTypeOK
<1>3. Authenticated \subseteq Authenticated' /\ c \notin Authenticated
  BY <1>1, <1>2 DEF Authenticated
<1>4. \A d \in Connections \ {c} : who'[d] = who[d]
  BY <1>1, <1>2
<1>5. CoreTypeOK'
  BY <1>1, <1>2, <1>3 DEF CoreInv, HeldLeasesInUse, CoreTypeOK, Configured
<1>6. DOMAIN pending \subseteq Connections \ {c} /\ DOMAIN bound \subseteq Connections \ {c}
  BY <1>3 DEF CoreInv, HeldLeasesInUse, CoreTypeOK, Authenticated
<1>7. HeldLeasesInUse'
  BY <1>1, <1>4, <1>5, <1>6 DEF CoreInv, HeldLeasesInUse
<1>8. LeasesAccountedFor'
  BY <1>1 DEF CoreInv, LeasesAccountedFor, Configured
<1> QED
  BY <1>1, <1>7, <1>8 DEF CoreInv, Configured

(* A request that is admitted puts a fresh lease on hold.                  *)
LEMMA RequestStep ==
  ASSUME CoreInv, NEW c \in Connections, NEW key \in Keys, RequestAdmission(c, key)
  PROVE  CoreInv'
<1> DEFINE before == Expire(ctl)
           n == ctl.next_lease
<1>1. who[c] \in Principals /\ Sound(ctl) /\ c \in Authenticated
  BY DEF RequestAdmission, Authenticated, CoreInv
<1>2. Sound(before) /\ before.active = ctl.active /\ before.next_lease = n
  BY <1>1, ExpireSameLeases DEF SameLeases
<1>3. ctl' = AfterJoin(before, who[c], key) /\ UNCHANGED <<who, members, bound>>
      /\ WithinRun(ctl')
  BY DEF RequestAdmission
<1>4. n \in Nat \ {0} /\ DOMAIN ctl.active \subseteq 1..n - 1
  BY <1>1 DEF Sound, Typed
<1>5. CASE JoinDecision(before, who[c], key) # "Admitted"
  <2>1. pending' = pending /\ overwritten' = overwritten
    BY <1>5 DEF RequestAdmission
  <2>2. Sound(ctl') /\ ctl'.active = ctl.active
    BY <1>1, <1>2, <1>3, <1>5, JoinLeases
  <2>3. Configured' /\ Configured
    BY <1>1, <2>2, SoundConfigured DEF Configured
  <2>4. CoreTypeOK'
    BY <1>3, <2>1, <2>3 DEF CoreInv, HeldLeasesInUse, CoreTypeOK, Authenticated
  <2>5. HeldLeasesInUse'
    BY <1>3, <2>1, <2>2, <2>4 DEF CoreInv, HeldLeasesInUse
  <2>6. LeasesAccountedFor'
    BY <1>3, <2>1, <2>2, <2>3 DEF CoreInv, LeasesAccountedFor
  <2> QED
    BY <2>2, <2>5, <2>6 DEF CoreInv
<1>6. CASE JoinDecision(before, who[c], key) = "Admitted"
  <2>1. /\ pending' = Insert(pending, c, n)
        /\ overwritten' = overwritten \cup HeldFor(pending, c)
    BY <1>2, <1>6 DEF RequestAdmission
  <2>2. Sound(ctl') /\ ctl'.active = Insert(ctl.active, n, who[c])
        /\ ctl'.next_lease = n + 1
    BY <1>1, <1>2, <1>3, <1>6, JoinLeases
  <2>3. n \in LeaseIds
    BY <1>3, <1>4, <2>2, AdmissionUseAssumption DEF WithinRun, LeaseIds
  <2>4. Configured'
    BY <2>2, SoundConfigured DEF Configured
  <2> HIDE DEF n, before
  <2>5. Leased(pending, pending', c, n)
    <3>1. Leasing(pending)
      BY DEF CoreInv, HeldLeasesInUse, CoreTypeOK, Leasing
    <3> QED
      BY <2>1, <2>3, <3>1, InsertFacts
  <2>6. DOMAIN ctl'.active = DOMAIN ctl.active \cup {n} /\ ctl'.active[n] = who[c]
        /\ \A l \in DOMAIN ctl.active : l # n => ctl'.active[l] = ctl.active[l]
    BY <2>2 DEF Insert
  <2>7. n \notin DOMAIN ctl.active
    BY <1>4
  <2>8. CoreTypeOK'
    <3>1. CoreTypeOK
      BY DEF CoreInv, HeldLeasesInUse
    <3>2. Authenticated' = Authenticated
      BY <1>3 DEF Authenticated
    <3> QED
      BY <1>1, <1>3, <2>1, <2>4, <2>5, <3>1, <3>2 DEF CoreTypeOK, Leasing, Leased, HeldFor
  <2>9. HeldLeasesInUse'
    <3>1. \A d \in DOMAIN bound : /\ bound[d] \in DOMAIN ctl.active /\ bound[d] # n
                                  /\ ctl.active[bound[d]] = who[d]
      BY <2>7 DEF CoreInv, HeldLeasesInUse
    <3>2. \A d \in DOMAIN pending : /\ pending[d] \in DOMAIN ctl.active /\ pending[d] # n
                                    /\ ctl.active[pending[d]] = who[d]
      BY <2>7 DEF CoreInv, HeldLeasesInUse
    <3> QED
      BY <1>3, <2>5, <2>6, <2>8, <3>1, <3>2 DEF CoreInv, HeldLeasesInUse, Leased
  <2>10. LeasesAccountedFor'
    <3>1. /\ DOMAIN ctl.active = Range(pending) \cup Range(bound) \cup overwritten
          /\ overwritten \cap (Range(pending) \cup Range(bound)) = {}
      BY <1>1 DEF CoreInv, LeasesAccountedFor, RequestAdmission
    <3>2. Range(pending') = (Range(pending) \ HeldFor(pending, c)) \cup {n}
      BY <2>5 DEF Range, HeldFor, Leased, CoreInv, HeldLeasesInUse, CoreTypeOK, Authenticated
    <3>3. HeldFor(pending, c) \subseteq Range(pending)
      BY DEF HeldFor, Range
    <3>4. HeldFor(pending, c) \cap Range(bound) = {}
      BY DEF HeldFor, Range, CoreInv, HeldLeasesInUse, CoreTypeOK, Authenticated
    <3>5. bound' = bound
      BY <1>3
    <3> QED
      BY <2>1, <2>6, <2>7, <3>1, <3>2, <3>3, <3>4, <3>5 DEF LeasesAccountedFor
  <2> QED
    BY <2>2, <2>9, <2>10 DEF CoreInv
<1> QED
  BY <1>5, <1>6

(* A session without admission is joined without a lease.                  *)
LEMMA JoinStep ==
  ASSUME CoreInv, NEW c \in Connections, JoinSession(c)
  PROVE  CoreInv'
<1>1. CoreTypeOK'
  BY DEF CoreInv, HeldLeasesInUse, CoreTypeOK, Authenticated, JoinSession, Configured
<1>2. HeldLeasesInUse'
  BY <1>1 DEF CoreInv, HeldLeasesInUse, JoinSession
<1>3. LeasesAccountedFor'
  BY DEF CoreInv, LeasesAccountedFor, JoinSession, Configured
<1> QED
  BY <1>2, <1>3 DEF CoreInv, JoinSession, Configured

(* The lease on hold becomes the lease of the membership.                  *)
LEMMA BindStep ==
  ASSUME CoreInv, NEW c \in Connections, NEW lease \in LeaseIds, JoinWithAdmission(c, lease)
  PROVE  CoreInv'
<1>1. /\ c \in Authenticated /\ c \in DOMAIN pending /\ pending[c] = lease
      /\ c \notin DOMAIN bound /\ lease \in DOMAIN ctl.active /\ ctl.active[lease] = who[c]
      /\ Configured
  BY DEF JoinWithAdmission, Presentable
<1>0. CoreTypeOK /\ Leasing(pending) /\ Leasing(bound)
  BY DEF CoreInv, HeldLeasesInUse, CoreTypeOK, Leasing
<1>2. Unleased(pending, pending', c)
  BY <1>0, RemoveFacts DEF JoinWithAdmission
<1>3. Leased(bound, bound', c, lease)
  BY <1>0, InsertFacts DEF JoinWithAdmission
<1>4. UNCHANGED <<ctl, who, overwritten>> /\ members' = members \cup {c}
  BY DEF JoinWithAdmission
<1>5. CoreTypeOK'
  <2>1. Authenticated' = Authenticated /\ Configured'
    BY <1>1, <1>4 DEF Authenticated, Configured
  <2> QED
    BY <1>0, <1>1, <1>2, <1>3, <1>4, <2>1 DEF CoreTypeOK, Leasing, Leased, Unleased
<1>6. HeldLeasesInUse'
  BY <1>1, <1>2, <1>3, <1>4, <1>5
     DEF CoreInv, HeldLeasesInUse, CoreTypeOK, Authenticated, Leased, Unleased
<1>7. LeasesAccountedFor'
  <2>1. Range(pending) = Range(pending') \cup {lease}
    BY <1>1, <1>2 DEF Unleased, Range
  <2>2. Range(bound') = Range(bound) \cup {lease}
    BY <1>1, <1>3 DEF Leased, Range
  <2> QED
    BY <1>4, <2>1, <2>2 DEF CoreInv, LeasesAccountedFor, Configured
<1> QED
  BY <1>4, <1>6, <1>7 DEF CoreInv, Configured

(* The leases in gone are no longer in use; the others still are.          *)
Spared(k, d, gone) ==
    /\ Sound(d) /\ DOMAIN d.active = DOMAIN k.active \ gone
    /\ \A l \in DOMAIN d.active : d.active[l] = k.active[l]

(* Releasing what f holds for c takes that lease, and no other, out of use. *)
LEMMA ReleasedSpares ==
  ASSUME NEW k, Sound(k), NEW f, NEW c, NEW unexpected \in BOOLEAN,
         c \in DOMAIN f => f[c] \in DOMAIN k.active /\ k.active[f[c]] = who[c]
  PROVE  Spared(k, Released(k, f, c, unexpected), HeldFor(f, c))
<1>1. CASE c \in DOMAIN f
  <2> DEFINE d == AfterRelease(k, f[c], who[c], unexpected)
  <2>1. Sound(d) /\ d.active = Restrict(k.active, DOMAIN k.active \ {f[c]})
    BY <1>1, ReleaseLeases
  <2>2. HeldFor(f, c) = {f[c]}
    BY <1>1 DEF HeldFor
  <2>3. Released(k, f, c, unexpected) = d
    BY <1>1 DEF Released
  <2> HIDE DEF d
  <2> QED
    BY <2>1, <2>2, <2>3 DEF Spared, Restrict
<1>2. CASE c \notin DOMAIN f
  <2>1. HeldFor(f, c) = {}
    BY <1>2 DEF HeldFor
  <2> QED
    BY <1>2, <2>1 DEF Spared, Released
<1> QED
  BY <1>1, <1>2

(* The same where there may be no controller.                              *)
Spares(k, d, gone) == IF k # NoController THEN Spared(k, d, gone) ELSE d = k

(* Nobody but c loses a lease; what c keeps on hold is still in use.       *)
Departs(c, gone) ==
    /\ Spares(ctl, ctl', gone)
    /\ \A d \in Connections \ {c} : /\ d \in DOMAIN pending => pending[d] \notin gone
                                    /\ d \in DOMAIN bound => bound[d] \notin gone
    /\ Unleased(bound, bound', c)
    /\ \/ Unleased(pending, pending', c)
       \/ /\ pending' = pending /\ who' = who
          /\ c \in DOMAIN pending => pending[c] \notin gone
    /\ who' \in {who, [who EXCEPT ![c] = Gone]} /\ members' = members \ {c}
    /\ overwritten' = overwritten
    /\ gone = (HeldFor(bound, c) \cup HeldFor(pending, c))
                  \ (Range(pending') \cup Range(bound'))

(* What is held after a departure is in use.                               *)
LEMMA DepartureKeeps ==
  ASSUME CoreInv, NEW c \in Connections, NEW gone, Departs(c, gone)
  PROVE  CoreInv'
<1>1. CoreTypeOK /\ Leasing(pending) /\ Leasing(bound)
  BY DEF CoreInv, HeldLeasesInUse, CoreTypeOK, Leasing
<1>2. /\ DOMAIN pending' \subseteq DOMAIN pending /\ Leasing(pending')
      /\ \A d \in DOMAIN pending' : pending'[d] = pending[d] /\ pending[d] \notin gone
      /\ c \in DOMAIN pending' => who' = who
  BY <1>1 DEF Departs, Unleased, CoreTypeOK, Authenticated
<1>3. /\ DOMAIN bound' = DOMAIN bound \ {c} /\ Leasing(bound')
      /\ \A d \in DOMAIN bound' : bound'[d] = bound[d] /\ bound[d] \notin gone
  BY <1>1 DEF Departs, Unleased, CoreTypeOK, Authenticated
<1>0. /\ who' \in [Connections -> Principals \cup {Absent, Anonymous, Gone}]
      /\ \A d \in Connections \ {c} : who'[d] = who[d]
  <2>1. who \in [Connections -> Principals \cup {Absent, Anonymous, Gone}]
    BY <1>1 DEF CoreTypeOK
  <2> QED
    BY <2>1 DEF Departs
<1>4. Configured' <=> Configured
  BY SoundConfigured DEF Configured, Departs, Spares, Spared
<1>5. Authenticated \ {c} \subseteq Authenticated' /\ Authenticated \subseteq Connections
  BY <1>0 DEF Authenticated
<1>6. DOMAIN pending' \subseteq Authenticated' /\ members' \subseteq Authenticated'
  BY <1>1, <1>2, <1>5 DEF Departs, CoreTypeOK, Authenticated
<1>7. CoreTypeOK'
  BY <1>0, <1>1, <1>2, <1>3, <1>4, <1>6 DEF CoreTypeOK, Departs, Leasing
<1>8. HeldLeasesInUse'
  <2>1. Configured => Spared(ctl, ctl', gone)
    BY DEF Departs, Spares, Configured
  <2>2. \A d \in DOMAIN pending' : /\ pending'[d] \in DOMAIN ctl'.active
                                   /\ ctl'.active[pending'[d]] = who'[d]
    <3> SUFFICES ASSUME NEW d \in DOMAIN pending'
                 PROVE  /\ pending'[d] \in DOMAIN ctl'.active
                        /\ ctl'.active[pending'[d]] = who'[d]
      OBVIOUS
    <3>1. /\ pending'[d] = pending[d] /\ d \in DOMAIN pending /\ pending[d] \notin gone
          /\ d \in Connections
      BY <1>1, <1>2, <1>5 DEF CoreTypeOK
    <3>2. Spared(ctl, ctl', gone)
      BY <1>1, <2>1, <3>1 DEF CoreTypeOK
    <3>3. pending[d] \in DOMAIN ctl.active /\ ctl.active[pending[d]] = who[d]
      BY <3>1 DEF CoreInv, HeldLeasesInUse
    <3>4. who'[d] = who[d]
      BY <1>0, <1>2, <3>1 DEF Departs
    <3> QED
      BY <3>1, <3>2, <3>3, <3>4 DEF Spared
  <2>3. \A d \in DOMAIN bound' : /\ bound'[d] \in DOMAIN ctl'.active
                                 /\ ctl'.active[bound'[d]] = who'[d]
    <3> SUFFICES ASSUME NEW d \in DOMAIN bound'
                 PROVE  /\ bound'[d] \in DOMAIN ctl'.active
                        /\ ctl'.active[bound'[d]] = who'[d]
      OBVIOUS
    <3>1. /\ bound'[d] = bound[d] /\ d \in DOMAIN bound \ {c} /\ bound[d] \notin gone
          /\ d \in Connections
      BY <1>1, <1>3, <1>5 DEF CoreTypeOK
    <3>2. Spared(ctl, ctl', gone)
      BY <1>1, <2>1, <3>1 DEF CoreTypeOK
    <3>3. bound[d] \in DOMAIN ctl.active /\ ctl.active[bound[d]] = who[d]
      BY <3>1 DEF CoreInv, HeldLeasesInUse
    <3>4. who'[d] = who[d]
      BY <1>0, <3>1
    <3> QED
      BY <3>1, <3>2, <3>3, <3>4 DEF Spared
  <2>4. \A d, e \in Connections :
           /\ {d, e} \subseteq DOMAIN pending' /\ pending'[d] = pending'[e] => d = e
           /\ {d, e} \subseteq DOMAIN bound' /\ bound'[d] = bound'[e] => d = e
           /\ d \in DOMAIN pending' /\ e \in DOMAIN bound' => pending'[d] # bound'[e]
    BY <1>2, <1>3 DEF CoreInv, HeldLeasesInUse
  <2> QED
    BY <1>7, <2>2, <2>3, <2>4 DEF HeldLeasesInUse
<1>9. Configured' => Sound(ctl')
  BY <1>4 DEF Departs, Spares, Spared, Configured
<1>10. LeasesAccountedFor'
  <2> SUFFICES ASSUME Configured'
               PROVE  /\ DOMAIN ctl'.active
                             = Range(pending') \cup Range(bound') \cup overwritten'
                      /\ overwritten' \cap (Range(pending') \cup Range(bound')) = {}
    BY DEF LeasesAccountedFor
  <2>1. /\ DOMAIN ctl.active = Range(pending) \cup Range(bound) \cup overwritten
        /\ overwritten \cap (Range(pending) \cup Range(bound)) = {}
    BY <1>4 DEF CoreInv, LeasesAccountedFor
  <2>2. DOMAIN ctl'.active = DOMAIN ctl.active \ gone
    BY <1>4 DEF Departs, Spares, Spared, Configured
  <2>3. Range(pending) \ HeldFor(pending, c) \subseteq Range(pending')
    BY <1>1 DEF Departs, Unleased, Range, HeldFor
  <2>4. Range(bound) \ HeldFor(bound, c) \subseteq Range(bound')
    BY <1>1, <1>3 DEF Range, HeldFor
  <2>5. Range(pending') \subseteq Range(pending) \ gone
    BY <1>2 DEF Range
  <2>6. Range(bound') \subseteq Range(bound) \ gone
    BY <1>3 DEF Range
  <2>7. HeldFor(pending, c) \subseteq Range(pending) /\ HeldFor(bound, c) \subseteq Range(bound)
    BY DEF Range, HeldFor
  <2>8. /\ overwritten' = overwritten
        /\ gone = (HeldFor(bound, c) \cup HeldFor(pending, c))
                      \ (Range(pending') \cup Range(bound'))
    BY DEF Departs
  <2>9. gone \cap overwritten = {}
    BY <2>1, <2>7, <2>8
  <2>10. Range(pending) \cup Range(bound) \subseteq Range(pending') \cup Range(bound') \cup gone
    BY <2>3, <2>4, <2>8
  <2> QED
    BY <2>1, <2>2, <2>5, <2>6, <2>8, <2>9, <2>10
<1> QED
  BY <1>8, <1>9, <1>10 DEF CoreInv

(* leave_session releases the lease of the membership.                     *)
LEMMA LeaveStep ==
  ASSUME CoreInv, NEW c \in Connections, LeaveSession(c)
  PROVE  CoreInv'
<1> DEFINE gone == HeldFor(bound, c)
<1>1. CoreTypeOK /\ Leasing(pending) /\ Leasing(bound)
  BY DEF CoreInv, HeldLeasesInUse, CoreTypeOK, Leasing
<1>2. Spares(ctl, ctl', gone)
  <2>1. CASE Configured
    <3>1. c \in DOMAIN bound => bound[c] \in DOMAIN ctl.active /\ ctl.active[bound[c]] = who[c]
      BY DEF CoreInv, HeldLeasesInUse
    <3>2. ctl' = Released(ctl, bound, c, FALSE) /\ Sound(ctl)
      BY <2>1 DEF LeaveSession, CoreInv
    <3> QED
      BY <2>1, <3>1, <3>2, ReleasedSpares DEF Spares, Configured
  <2>2. CASE ~ Configured
    <3>1. DOMAIN bound = {}
      BY <1>1, <2>2 DEF CoreTypeOK
    <3> QED
      BY <2>2, <3>1 DEF LeaveSession, Released, Spares, Configured
  <2> QED
    BY <2>1, <2>2
<1>3. \A d \in Connections : /\ d \in DOMAIN pending => pending[d] \notin gone
                             /\ d \in DOMAIN bound /\ d # c => bound[d] \notin gone
  BY DEF HeldFor, CoreInv, HeldLeasesInUse
<1>4. Unleased(bound, bound', c)
  BY <1>1, RemoveFacts DEF LeaveSession
<1>5. Departs(c, gone)
  <2>1. /\ who' = who /\ pending' = pending /\ members' = members \ {c}
        /\ overwritten' = overwritten
    BY DEF LeaveSession
  <2>2. gone = (HeldFor(bound, c) \cup HeldFor(pending, c))
                   \ (Range(pending') \cup Range(bound'))
    <3>1. HeldFor(pending, c) \subseteq Range(pending')
      BY <2>1 DEF HeldFor, Range
    <3>2. gone \cap Range(pending') = {}
      BY <1>3, <2>1, <1>1 DEF CoreTypeOK, Authenticated, Range
    <3>3. gone \cap Range(bound') = {}
      BY <1>1, <1>3, <1>4 DEF Unleased, CoreTypeOK, Authenticated, Range
    <3> HIDE DEF gone
    <3>4. gone = HeldFor(bound, c)
      BY DEF gone
    <3> QED
      BY <3>1, <3>2, <3>3, <3>4
  <2> HIDE DEF gone
  <2> QED
    BY <1>2, <1>3, <1>4, <2>1, <2>2 DEF Departs
<1> QED
  BY <1>5, DepartureKeeps

(* transport_lost releases both leases that the connection may have.       *)
LEMMA LostStep ==
  ASSUME CoreInv, NEW c \in Connections, TransportLost(c)
  PROVE  CoreInv'
<1> DEFINE left == IF c \in members THEN Released(ctl, bound, c, TRUE) ELSE ctl
           gone == HeldFor(bound, c) \cup HeldFor(pending, c)
<1>1. CoreTypeOK /\ Leasing(pending) /\ Leasing(bound)
  BY DEF CoreInv, HeldLeasesInUse, CoreTypeOK, Leasing
<1>2. Spares(ctl, ctl', gone)
  <2>1. CASE Configured
    <3>1. /\ c \in DOMAIN bound => bound[c] \in DOMAIN ctl.active /\ ctl.active[bound[c]] = who[c]
          /\ c \in DOMAIN pending =>
                pending[c] \in DOMAIN ctl.active /\ ctl.active[pending[c]] = who[c]
          /\ c \in DOMAIN pending => pending[c] \notin HeldFor(bound, c)
      BY DEF CoreInv, HeldLeasesInUse, HeldFor
    <3>2. Spared(ctl, left, HeldFor(bound, c))
      <4>1. CASE c \in members
        BY <2>1, <3>1, <4>1, ReleasedSpares DEF CoreInv
      <4>2. CASE c \notin members
        <5>1. HeldFor(bound, c) = {}
          BY <1>1, <4>2 DEF CoreTypeOK, HeldFor
        <5> QED
          BY <2>1, <4>2, <5>1 DEF Spared, CoreInv
      <4> QED
        BY <4>1, <4>2
    <3>3. ctl' = Released(left, pending, c, FALSE)
      BY DEF TransportLost
    <3> HIDE DEF left
    <3>4. c \in DOMAIN pending =>
             pending[c] \in DOMAIN left.active /\ left.active[pending[c]] = who[c]
      BY <3>1, <3>2 DEF Spared
    <3>5. Spared(left, ctl', HeldFor(pending, c))
      <4>1. Sound(left)
        BY <3>2 DEF Spared
      <4> QED
        BY <3>3, <3>4, <4>1, ReleasedSpares
    <3>6. Spared(ctl, ctl', gone)
      BY <3>2, <3>5 DEF Spared
    <3> QED
      BY <2>1, <3>6 DEF Spares, Configured
  <2>2. CASE ~ Configured
    <3>1. DOMAIN bound = {} /\ DOMAIN pending = {}
      BY <1>1, <2>2 DEF CoreTypeOK
    <3> QED
      BY <2>2, <3>1 DEF TransportLost, Released, Spares, Configured
  <2> QED
    BY <2>1, <2>2
<1>3. \A d \in Connections \ {c} : /\ d \in DOMAIN pending => pending[d] \notin gone
                                   /\ d \in DOMAIN bound => bound[d] \notin gone
  BY DEF HeldFor, CoreInv, HeldLeasesInUse
<1>4. Unleased(bound, bound', c) /\ Unleased(pending, pending', c)
  <2>1. Unleased(pending, pending', c) /\ Unleased(bound, Remove(bound, c), c)
    BY <1>1, RemoveFacts DEF TransportLost
  <2>2. c \notin members => Unleased(bound, bound, c)
    BY <1>1 DEF Unleased, CoreTypeOK
  <2> QED
    BY <2>1, <2>2 DEF TransportLost
<1>5. Departs(c, gone)
  <2>1. /\ who' = [who EXCEPT ![c] = Gone] /\ members' = members \ {c}
        /\ overwritten' = overwritten
    BY DEF TransportLost
  <2>2. gone \cap (Range(pending') \cup Range(bound')) = {}
    <3>1. \A d \in DOMAIN pending' : d \in Connections \ {c} /\ pending'[d] \notin gone
      BY <1>1, <1>3, <1>4 DEF Unleased, CoreTypeOK, Authenticated
    <3>2. \A d \in DOMAIN bound' : d \in Connections \ {c} /\ bound'[d] \notin gone
      BY <1>1, <1>3, <1>4 DEF Unleased, CoreTypeOK, Authenticated
    <3> HIDE DEF gone
    <3> QED
      BY <3>1, <3>2 DEF Range
  <2>3. gone = (HeldFor(bound, c) \cup HeldFor(pending, c))
                   \ (Range(pending') \cup Range(bound'))
    BY <2>2
  <2> HIDE DEF gone
  <2> QED
    BY <1>2, <1>3, <1>4, <2>1, <2>3 DEF Departs
<1> QED
  BY <1>5, DepartureKeeps

(* The step of the inductive invariant.                                    *)
LEMMA CoreStep ==
  ASSUME CoreInv, [CoreNext]_core_vars
  PROVE  CoreInv'
<1>1. ASSUME NEW allocated \in Allocations, NEW revision \in 1..MaxRevision,
             ApplySessionCapacity(allocated, revision)
      PROVE  CoreInv'
  <2>1. Sound(ctl) /\ Configured /\ allocated \in Nat /\ revision \in Nat
    BY <1>1, AdmissionUseAssumption DEF CoreInv, ApplySessionCapacity
  <2>2. ctl' = AfterCapacity(ctl, allocated, revision)
    BY <1>1 DEF ApplySessionCapacity, ApplyCapacity
  <2> QED
    BY <1>1, <2>1, <2>2, CapacitySameLeases, ControllerStep DEF ApplySessionCapacity
<1>2. CASE CoreTick
  BY <1>2, ElapseSameLeases, ControllerStep DEF CoreTick, Tick, CoreInv
<1>3. CASE UNCHANGED core_vars
  BY <1>3 DEF CoreInv, HeldLeasesInUse, LeasesAccountedFor, CoreTypeOK, Authenticated,
              Configured, core_vars
<1> QED
  BY <1>1, <1>2, <1>3, ConfigureStep, ArriveStep, RequestStep, JoinStep, BindStep, LeaveStep,
     LostStep DEF CoreNext

(* The invariant that the three theorems below rest on.                    *)
THEOREM CoreInvariant == CoreSpec => []CoreInv
<1>1. CoreInit => CoreInv
  <2> SUFFICES ASSUME CoreInit PROVE CoreInv
    OBVIOUS
  <2>1. /\ DOMAIN pending = {} /\ DOMAIN bound = {} /\ members = {} /\ ~ Configured
        /\ overwritten = {}
    BY DEF CoreInit, Configured
  <2>2. Leasing(pending) /\ Leasing(bound)
    BY DEF CoreInit, Leasing
  <2>3. who \in [Connections -> Principals \cup {Absent, Anonymous, Gone}]
    BY DEF CoreInit
  <2>4. CoreTypeOK
    BY <2>1, <2>2, <2>3 DEF CoreTypeOK, Leasing
  <2> QED
    BY <2>1, <2>4 DEF CoreInv, HeldLeasesInUse, LeasesAccountedFor
<1>2. CoreInv /\ [CoreNext]_core_vars => CoreInv'
  BY CoreStep
<1> QED
  BY <1>1, <1>2, PTL DEF CoreSpec

(* A lease that the core holds for a connection is in use by that          *)
(* connection's principal, and none is held twice (pending_admissions and  *)
(* admission_leases of the core).                                          *)
THEOREM HeldLeasesInUseTheorem == CoreSpec => []HeldLeasesInUse
<1>1. CoreInv => HeldLeasesInUse
  BY DEF CoreInv
<1> QED
  BY <1>1, CoreInvariant, PTL

(* The members admitted by a lease, and the slots kept for those who lost  *)
(* their connection, fit in the allocation.                                *)
THEOREM MembersWithinAllocationTheorem == CoreSpec => []MembersWithinAllocation
<1>1. CoreInv => MembersWithinAllocation
  <2> SUFFICES ASSUME CoreInv, Configured
               PROVE  Cardinality(DOMAIN bound) + Cardinality(DOMAIN ctl.reservations)
                          <= ctl.allocated
    BY DEF MembersWithinAllocation
  <2>1. Sound(ctl) /\ Typed(ctl) /\ ctl.allocated \in Nat
    BY DEF CoreInv, Sound, Typed
  <2>2. /\ IsFiniteSet(DOMAIN ctl.active) /\ Cardinality(DOMAIN ctl.active) \in Nat
        /\ Cardinality(DOMAIN ctl.reservations) \in Nat
        /\ Cardinality(TicketsIn(ctl, {"Offered"})) \in Nat
    BY <2>1, SlotsFinite
  <2>3. bound \in Injection(DOMAIN bound, DOMAIN ctl.active)
    <3>1. bound \in [DOMAIN bound -> DOMAIN ctl.active]
      BY DEF CoreInv, HeldLeasesInUse, CoreTypeOK
    <3>2. \A c, d \in DOMAIN bound : bound[c] = bound[d] => c = d
      BY DEF CoreInv, HeldLeasesInUse, CoreTypeOK, Authenticated
    <3> QED
      BY <3>1, <3>2 DEF Injection, IsInjective
  <2>4. /\ IsFiniteSet(DOMAIN bound)
        /\ Cardinality(DOMAIN bound) <= Cardinality(DOMAIN ctl.active)
    BY <2>2, <2>3, FS_Injection
  <2>5. Cardinality(DOMAIN bound) \in Nat
    BY <2>4, FS_CardinalityType
  <2>6. Occupied(ctl) <= ctl.allocated
    BY <2>1 DEF Sound, Budget
  <2>7. Occupied(ctl) = Cardinality(DOMAIN ctl.active) + Cardinality(DOMAIN ctl.reservations)
                           + Cardinality(TicketsIn(ctl, {"Offered"}))
    BY DEF Occupied
  <2> QED
    BY <2>1, <2>2, <2>4, <2>5, <2>6, <2>7
<1> QED
  BY <1>1, CoreInvariant, PTL

(* A lease is in use exactly as long as a present connection holds it,     *)
(* unless a second request of its connection overwrote it.                 *)
THEOREM LeasesAccountedForTheorem == CoreSpec => []LeasesAccountedFor
<1>1. CoreInv => LeasesAccountedFor
  BY DEF CoreInv
<1> QED
  BY <1>1, CoreInvariant, PTL
=============================================================================
