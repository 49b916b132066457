---------------------------- MODULE OutboundQueue ----------------------------
(***************************************************************************)
(* One connection's OutboundQueue under its callers: the core pushes what  *)
(* publish fans out, drains or pops for the transport, and purges what a   *)
(* scope (a session, a space or an entity) that went away still has        *)
(* queued.  The core owns the queue alone, so every call is one step.      *)
(*                                                                         *)
(* Messages carry the number of the push that offered them, and two        *)
(* history variables remember, per scoped key, the newest value offered    *)
(* and the last one handed over; no action reads them.                     *)
(***************************************************************************)
EXTENDS OutboundQueueOps

CONSTANTS Scopes,      \* what purges select messages by
          Keys,        \* application coalesce keys
          MaxPushes    \* bound on the number of pushes explored

ASSUME QueueUseAssumption == NoKey \notin Keys /\ MaxPushes \in Nat

VARIABLES queue,
          pushes,      \* pushes so far, the stamp of the last message
          newest,      \* history: scoped key -> stamp of the newest push
          handed       \* history: scoped key -> stamp of the last one popped

vars == <<queue, pushes, newest, handed>>

Classes    == {"critical", "latest", "best_effort"}
ScopedKeys == Scopes \X Keys
Messages   == [class : Classes, scope : Scopes, key : Keys \cup {NoKey},
               stamp : Nat]

Init ==
    /\ queue = EmptyQueue
    /\ pushes = 0
    /\ newest = [k \in ScopedKeys |-> 0]
    /\ handed = [k \in ScopedKeys |-> 0]

(* What the history remembers of the hand-over of some pending keys.       *)
HandOver(keys) ==
    handed' = [k \in ScopedKeys |->
                  IF k \in keys THEN queue.latest[k].stamp ELSE handed[k]]

(* Queue::push; the coalesce key matters to replaceable messages only.     *)
PushMessage(class, scope, key) ==
    LET m == [class |-> class, scope |-> scope, key |-> key,
              stamp |-> pushes + 1]
    IN  /\ pushes < MaxPushes
        /\ pushes' = pushes + 1
        /\ queue' = Push(queue, m)
        /\ newest' = IF class = "latest" /\ key # NoKey
                     THEN [newest EXCEPT ![ScopedKey(m)] = m.stamp]
                     ELSE newest
        /\ UNCHANGED handed

Pop ==
    /\ QueueLen(queue) > 0
    /\ queue' = AfterPop(queue)
    /\ HandOver(PoppedKeys(queue))
    /\ UNCHANGED <<pushes, newest>>

Drain ==
    /\ QueueLen(queue) > 0
    /\ queue' = AfterDrain(queue)
    /\ HandOver(DOMAIN queue.latest)
    /\ UNCHANGED <<pushes, newest>>

PurgeScope(scope) ==
    /\ queue' = Purge(queue, {m \in Pending(queue) : m.scope = scope})
    /\ UNCHANGED <<pushes, newest, handed>>

Next ==
    \/ \E class \in Classes, scope \in Scopes, key \in Keys \cup {NoKey} :
          PushMessage(class, scope, key)
    \/ Pop
    \/ Drain
    \/ \E scope \in Scopes : PurgeScope(scope)

Spec == Init /\ [][Next]_vars

-----------------------------------------------------------------------------
TypeOK ==
    /\ QueueTyped(queue, Messages, ScopedKeys)
    /\ \A k \in DOMAIN queue.latest : ScopedKey(queue.latest[k]) = k
    /\ pushes \in Nat
    /\ newest \in [ScopedKeys -> Nat]
    /\ handed \in [ScopedKeys -> Nat]

(* The queue never holds more than its configured totals, whatever mix of  *)
(* classes is pushed: push_critical at total capacity always finds         *)
(* something it may evict, and no class outgrows its own bound.            *)
Bounded == WithinBounds(queue)

(* "latest order and values remain synchronized", the expect in            *)
(* push_latest: each pending key is in the eviction order exactly once.    *)
LatestSynchronised == OrderMatchesValues(queue)

(* Coalescing never leaves a stale value behind: what is pending for a key *)
(* is the newest value that was offered for it, and it is newer than       *)
(* anything the connection was already handed for that key.                *)
PendingIsNewest ==
    \A k \in DOMAIN queue.latest :
        /\ queue.latest[k].stamp = newest[k]
        /\ handed[k] < newest[k]

(* What a push sacrifices: a value it evicts was refreshed less recently   *)
(* than every other value pending, whatever was replaced, evicted, popped  *)
(* or purged before; and a reliable message is taken whenever fewer than   *)
(* critical_capacity are pending, so never refused while it could fit.     *)
OldestGivesWayStep ==
    /\ pushes' # pushes =>
          \A k \in DOMAIN queue.latest \ DOMAIN queue'.latest :
             \A j \in DOMAIN queue.latest \ {k} :
                queue.latest[k].stamp < queue.latest[j].stamp
    /\ \A scope \in Scopes, key \in Keys \cup {NoKey} :
          /\ PushMessage("critical", scope, key)
          /\ Len(queue.critical) < CriticalCapacity
          => Len(queue'.critical) = Len(queue.critical) + 1

(* No step ever does otherwise.                                            *)
OldestGivesWay == [][OldestGivesWayStep]_vars

-----------------------------------------------------------------------------
(* The promise the queue implements, seen without its eviction order.      *)
Promise == INSTANCE OutboundPromise
               WITH critical <- queue.critical, latest <- queue.latest,
                    best_effort <- queue.best_effort

PromiseSpec == Promise!Spec
=============================================================================
