-------------------------- MODULE OutboundQueueOps --------------------------
(***************************************************************************)
(* The bounded outbound queue of one connection                            *)
(* (crates/woven-core/src/queue.rs) as operators on a queue record:        *)
(*    critical     reliable messages, first in first out                   *)
(*    latest       at most one replaceable message per scoped key          *)
(*    latest_order the keys of latest, oldest first                        *)
(*    best_effort  droppable messages, first in first out                  *)
(*    exhausted    critical_capacity_exhausted                             *)
(*                                                                         *)
(* A message is a record with the fields                                   *)
(*    class  "critical", "latest" or "best_effort", what DeliveryClass     *)
(*           means to the queue                                            *)
(*    scope  the (session, space, epoch) it belongs to                     *)
(*    key    its application coalesce key, or NoKey                        *)
(* and whatever else its user wants to tell messages apart by.             *)
(***************************************************************************)
EXTENDS VecOps

CONSTANTS TotalCapacity,       \* OutboundQueueConfig
          CriticalCapacity,
          LatestCapacity,
          BestEffortCapacity,
          NoKey                \* coalesce_key: None

(* OutboundQueueConfig::validate; OutboundQueue::new refuses anything else. *)
ASSUME QueueConfigAssumption ==
    /\ TotalCapacity \in Nat \ {0}
    /\ CriticalCapacity \in 1..TotalCapacity
    /\ LatestCapacity \in 0..TotalCapacity
    /\ BestEffortCapacity \in 0..TotalCapacity

EmptyQueue ==
    [critical |-> <<>>, latest_order |-> <<>>, latest |-> <<>>,
     best_effort |-> <<>>, exhausted |-> FALSE]

(* OutboundMessage::scoped_coalesce_key                                    *)
ScopedKey(m) == <<m.scope, m.key>>

(* q is a queue that holds messages of M under scoped keys of K.           *)
QueueTyped(q, M, K) ==
    /\ q \in [critical : Seq(M), latest_order : Seq(K), latest : {q.latest},
             best_effort : Seq(M), exhausted : BOOLEAN]
    /\ DOMAIN q.latest \subseteq K
    /\ q.latest \in [DOMAIN q.latest -> M]

QueueLen(q) ==
    Len(q.critical) + Cardinality(DOMAIN q.latest) + Len(q.best_effort)

Full(q) == QueueLen(q) = TotalCapacity

WithinBounds(q) ==
    /\ QueueLen(q) <= TotalCapacity
    /\ Len(q.critical) <= CriticalCapacity
    /\ Cardinality(DOMAIN q.latest) <= LatestCapacity
    /\ Len(q.best_effort) <= BestEffortCapacity

(* Each pending key is in the eviction order exactly once.                 *)
OrderMatchesValues(q) ==
    /\ Distinct(q.latest_order)
    /\ Range(q.latest_order) = DOMAIN q.latest

(* Every message the queue holds.                                          *)
Pending(q) == Range(q.critical) \cup Range(q.latest) \cup Range(q.best_effort)

-----------------------------------------------------------------------------
(* Mutant: pop_back for pop_front, the freshest value is evicted.          *)
EvictFreshestLatest(q) ==
    LET key == q.latest_order[Len(q.latest_order)]
    IN  [q EXCEPT !.latest_order = Without(@, key),
                  !.latest = Restrict(@, DOMAIN @ \ {key})]

EvictOldestLatest(q) ==
    [q EXCEPT !.latest_order = Tail(@),
              !.latest = Restrict(@, DOMAIN @ \ {Head(q.latest_order)})]

EvictBestEffort(q) == [q EXCEPT !.best_effort = Tail(@)]

InsertLatest(q, m) ==
    LET key == ScopedKey(m)
    IN  [q EXCEPT !.latest_order = Append(@, key),
                  !.latest = [k \in DOMAIN @ \cup {key} |->
                                 IF k = key THEN m ELSE @[k]]]

(* Mutant: the key is refreshed, its value is not.                         *)
RefreshOrderOnly(q, m) ==
    [q EXCEPT !.latest_order = Append(Without(@, ScopedKey(m)), ScopedKey(m))]

(* The current value of m's key is overwritten and its key moves to the    *)
(* back of the order.                                                      *)
ReplaceLatest(q, m) ==
    LET key == ScopedKey(m)
    IN  [q EXCEPT !.latest_order = Append(Without(@, key), key),
                  !.latest = [@ EXCEPT ![key] = m]]

(* Mutant: best-effort messages are sacrificed before latest values.       *)
MakeRoomBestEffortFirst(q) ==
    CASE q.best_effort # <<>> -> EvictBestEffort(q)
      [] q.best_effort = <<>> /\ q.latest_order # <<>> -> EvictOldestLatest(q)
      [] OTHER -> q

(* What a push at total capacity makes room with: the oldest latest value, *)
(* else the oldest best-effort message, else nothing.                      *)
MakeRoom(q) ==
    CASE q.latest_order # <<>> -> EvictOldestLatest(q)
      [] q.latest_order = <<>> /\ q.best_effort # <<>> -> EvictBestEffort(q)
      [] OTHER -> q

-----------------------------------------------------------------------------
(* QueuePush::CriticalCapacityExhausted: the one outcome of a push its     *)
(* caller acts on, by disconnecting the recipient.                         *)
CriticalRefused(q, m) ==
    m.class = "critical" /\ Len(q.critical) = CriticalCapacity

(* Mutant: only the class capacity is respected.                           *)
PushCriticalUnevicted(q, m) ==
    IF CriticalRefused(q, m) THEN [q EXCEPT !.exhausted = TRUE]
                             ELSE [q EXCEPT !.critical = Append(@, m)]

PushCritical(q, m) ==
    IF CriticalRefused(q, m)
    THEN [q EXCEPT !.exhausted = TRUE]
    ELSE LET room == IF Full(q) THEN MakeRoom(q) ELSE q
         IN  [room EXCEPT !.critical = Append(@, m)]

(* Mutant: a replaceable message without a coalesce key is filed anyway.   *)
PushLatestUnkeyed(q, m) ==
    IF ScopedKey(m) \in DOMAIN q.latest THEN ReplaceLatest(q, m)
    ELSE IF LatestCapacity = 0 THEN q
    ELSE IF Cardinality(DOMAIN q.latest) = LatestCapacity \/ Full(q)
         THEN InsertLatest(MakeRoom(q), m)
    ELSE InsertLatest(q, m)

PushLatest(q, m) ==
    CASE m.key = NoKey -> q
      [] m.key # NoKey /\ ScopedKey(m) \in DOMAIN q.latest -> ReplaceLatest(q, m)
      [] m.key # NoKey /\ ScopedKey(m) \notin DOMAIN q.latest ->
            IF LatestCapacity = 0 THEN q
            ELSE IF Cardinality(DOMAIN q.latest) = LatestCapacity
                 THEN InsertLatest(EvictOldestLatest(q), m)
            ELSE IF ~Full(q) THEN InsertLatest(q, m)
            ELSE IF MakeRoom(q) = q THEN q
            ELSE InsertLatest(MakeRoom(q), m)

PushBestEffort(q, m) ==
    IF Len(q.best_effort) = BestEffortCapacity \/ Full(q)
    THEN q
    ELSE [q EXCEPT !.best_effort = Append(@, m)]

Push(q, m) ==
    CASE m.class = "critical"    -> PushCritical(q, m)
      [] m.class = "latest"      -> PushLatest(q, m)
      [] m.class = "best_effort" -> PushBestEffort(q, m)

-----------------------------------------------------------------------------
(* pop: critical first, then the oldest latest value, best-effort last.    *)
AfterPop(q) ==
    CASE q.critical # <<>> -> [q EXCEPT !.critical = Tail(@)]
      [] q.critical = <<>> /\ q.latest_order # <<>> -> EvictOldestLatest(q)
      [] OTHER -> EvictBestEffort(q)

(* The keys whose value the next pop hands over.                           *)
PoppedKeys(q) ==
    IF q.critical = <<>> /\ q.latest_order # <<>> THEN {Head(q.latest_order)}
                                                  ELSE {}

(* drain: pop until the queue is empty.                                    *)
AfterDrain(q) == [EmptyQueue EXCEPT !.exhausted = q.exhausted]

(* Mutant: purge forgets the final retain over latest_order.               *)
PurgeKeepingOrder(q, doomed) ==
    LET kept == Pending(q) \ doomed
    IN  [q EXCEPT !.critical = Retained(@, kept),
                  !.best_effort = Retained(@, kept),
                  !.latest = Restrict(@, {k \in DOMAIN @ : @[k] \in kept})]

(* purge, given the messages that should_remove accepts.                    *)
Purge(q, doomed) ==
    LET kept   == Pending(q) \ doomed
        latest == {k \in DOMAIN q.latest : q.latest[k] \in kept}
    IN  [q EXCEPT !.critical = Retained(@, kept),
                  !.best_effort = Retained(@, kept),
                  !.latest = Restrict(@, latest),
                  !.latest_order = Retained(@, latest)]
=============================================================================
