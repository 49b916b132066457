--------------------------- MODULE OutboundPromise ---------------------------
(***************************************************************************)
(* What an outbound queue promises to the connection it serves, without    *)
(* saying how it picks its victims:                                        *)
(*   - an accepted critical message leaves at the front, in order, or with *)
(*     the scope it belongs to; nothing ever displaces it;                 *)
(*   - a replaceable value is displaced by a newer one of its own key, or  *)
(*     one at a time and only when the queue or its class is full;         *)
(*   - a best-effort message is displaced last, from the front, and only   *)
(*     when the queue is full and holds no replaceable value.              *)
(***************************************************************************)
EXTENDS VecOps

CONSTANTS TotalCapacity, CriticalCapacity, LatestCapacity, BestEffortCapacity,
          Scopes

VARIABLES critical, latest, best_effort

pvars == <<critical, latest, best_effort>>

Held == Len(critical) + Cardinality(DOMAIN latest) + Len(best_effort)

Init == critical = <<>> /\ latest = <<>> /\ best_effort = <<>>

(* What remains of s once the messages of a scope are gone.                *)
OthersIn(s, scope) == Retained(s, {m \in Range(s) : m.scope # scope})

(* At most one victim, and only a full queue has one.                      *)
Displace ==
    \/ UNCHANGED <<latest, best_effort>>
    \/ /\ Held = TotalCapacity
       /\ \E k \in DOMAIN latest : latest' = Restrict(latest, DOMAIN latest \ {k})
       /\ UNCHANGED best_effort
    \/ /\ Held = TotalCapacity
       /\ DOMAIN latest = {} /\ best_effort # <<>>
       /\ best_effort' = Tail(best_effort)
       /\ UNCHANGED latest

AcceptCritical ==
    /\ Len(critical) < CriticalCapacity
    /\ Len(critical') = Len(critical) + 1
    /\ critical = SubSeq(critical', 1, Len(critical))
    /\ Displace
    /\ Held' <= TotalCapacity

(* A new value for a key: the rest is untouched unless a victim was needed. *)
AcceptLatest ==
    \E k \in DOMAIN latest' :
        LET kept == DOMAIN latest' \ {k}
            gone == DOMAIN latest \ DOMAIN latest'
        IN  /\ \A j \in kept : j \in DOMAIN latest /\ latest'[j] = latest[j]
            /\ k \in DOMAIN latest => latest'[k].stamp > latest[k].stamp
            /\ Cardinality(gone) <= 1
            /\ gone # {} => \/ Held = TotalCapacity
                            \/ Cardinality(DOMAIN latest) = LatestCapacity
            /\ \/ UNCHANGED best_effort
               \/ /\ Held = TotalCapacity /\ DOMAIN latest = {}
                  /\ best_effort' = Tail(best_effort)
            /\ UNCHANGED critical
            /\ Held' <= TotalCapacity

AcceptBestEffort ==
    /\ Held < TotalCapacity
    /\ Len(best_effort') = Len(best_effort) + 1
    /\ best_effort = SubSeq(best_effort', 1, Len(best_effort))
    /\ UNCHANGED <<critical, latest>>

(* Hand over the next message: reliable ones first, droppable ones last.   *)
Deliver ==
    \/ /\ critical # <<>> /\ critical' = Tail(critical)
       /\ UNCHANGED <<latest, best_effort>>
    \/ /\ critical = <<>>
       /\ \E k \in DOMAIN latest : latest' = Restrict(latest, DOMAIN latest \ {k})
       /\ UNCHANGED <<critical, best_effort>>
    \/ /\ critical = <<>> /\ latest = <<>> /\ best_effort # <<>>
       /\ best_effort' = Tail(best_effort)
       /\ UNCHANGED <<critical, latest>>

DeliverAll == critical' = <<>> /\ latest' = <<>> /\ best_effort' = <<>>

(* A scope goes away with everything queued for it, and nothing else.      *)
Forget(scope) ==
    /\ critical' = OthersIn(critical, scope)
    /\ best_effort' = OthersIn(best_effort, scope)
    /\ latest' = Restrict(latest, {k \in DOMAIN latest : latest[k].scope # scope})

Next ==
    \/ AcceptCritical
    \/ AcceptLatest
    \/ AcceptBestEffort
    \/ Deliver
    \/ DeliverAll
    \/ \E scope \in Scopes : Forget(scope)

Spec == Init /\ [][Next]_pvars
=============================================================================
