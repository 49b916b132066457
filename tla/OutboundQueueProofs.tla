------------------------- MODULE OutboundQueueProofs -------------------------
(***************************************************************************)
(* For every configuration the code accepts, an OutboundQueue stays within *)
(* its bounds, keeps its values in step with an order by age, and          *)
(* implements OutboundPromise.                                             *)
(* The lemmas are about single queue operations on any well-formed queue;  *)
(* the theorems about the specification of OutboundQueue follow from them. *)
(***************************************************************************)
EXTENDS OutboundQueue, VecOpsProofs

(* Everything the operations rely on and keep: types, values filed under   *)
(* their own key, the order in step with the values.                       *)
QueuesOf(M, K) ==
    [critical : Seq(M), latest_order : Seq(K),
     latest : UNION {[D -> M] : D \in SUBSET K},
     best_effort : Seq(M), exhausted : BOOLEAN]

WellFormed(q, M, K) ==
    /\ q \in QueuesOf(M, K)
    /\ \A k \in DOMAIN q.latest : ScopedKey(q.latest[k]) = k
    /\ OrderMatchesValues(q)

(* r has lost some of q's latest values and changed none.                  *)
OnlyLoses(q, r) ==
    /\ DOMAIN r.latest \subseteq DOMAIN q.latest
    /\ \A k \in DOMAIN r.latest : r.latest[k] = q.latest[k]

(* A sequence without duplicates has as many elements as it is long.       *)
LEMMA DistinctCardinality ==
  ASSUME NEW S, NEW s \in Seq(S), Distinct(s)
  PROVE  IsFiniteSet(Range(s)) /\ Cardinality(Range(s)) = Len(s)
<1>1. s \in Bijection(1..Len(s), Range(s))
  BY DEF Bijection, Injection, Surjection, Distinct, IsInjective, Range
<1>2. ExistsBijection(1..Len(s), Range(s))
  BY <1>1 DEF ExistsBijection
<1>3. Len(s) \in Nat
  OBVIOUS
<1>4. IsFiniteSet(1..Len(s)) /\ Cardinality(1..Len(s)) = Len(s)
  BY <1>3, FS_Interval
<1>5. QED
  BY <1>2, <1>4, FS_Bijection

(* Popping the head of a sequence without duplicates removes that element. *)
LEMMA TailDistinct ==
  ASSUME NEW S, NEW s \in Seq(S), Distinct(s), s # <<>>
  PROVE  /\ Tail(s) \in Seq(S) /\ Len(Tail(s)) = Len(s) - 1
         /\ Head(s) \in Range(s)
         /\ Distinct(Tail(s))
         /\ Range(Tail(s)) = Range(s) \ {Head(s)}
<1>1. /\ Tail(s) \in Seq(S) /\ Len(Tail(s)) = Len(s) - 1 /\ Len(s) \in Nat \ {0}
      /\ \A i \in 1..Len(s) - 1 : Tail(s)[i] = s[i + 1]
      /\ Head(s) = s[1] /\ DOMAIN s = 1..Len(s)
  OBVIOUS
<1>2. \A i, j \in 1..Len(s) : s[i] = s[j] => i = j
  BY <1>1 DEF Distinct, IsInjective
<1>3. DOMAIN Tail(s) = 1..Len(s) - 1
  BY <1>1
<1>4. Head(s) \in Range(s)
  BY <1>1 DEF Range
<1>5. Distinct(Tail(s))
  BY <1>1, <1>2, <1>3 DEF Distinct, IsInjective
<1>6. Range(Tail(s)) \subseteq Range(s) \ {Head(s)}
  <2>1. ASSUME NEW i \in DOMAIN Tail(s)
        PROVE  Tail(s)[i] \in Range(s) \ {Head(s)}
    <3>1. i + 1 \in 1..Len(s) /\ i + 1 # 1 /\ Tail(s)[i] = s[i + 1]
      BY <1>1, <1>3
    <3>2. QED
      BY <3>1, <1>1, <1>2 DEF Range
  <2>2. QED
    BY <2>1 DEF Range
<1>7. Range(s) \ {Head(s)} \subseteq Range(Tail(s))
  <2>1. ASSUME NEW i \in DOMAIN s, s[i] # Head(s)
        PROVE  s[i] \in Range(Tail(s))
    <3>1. i - 1 \in 1..Len(s) - 1 /\ Tail(s)[i - 1] = s[i]
      BY <1>1, <2>1
    <3>2. QED
      BY <3>1, <1>3 DEF Range
  <2>2. QED
    BY <2>1 DEF Range
<1>8. QED
  BY <1>1, <1>4, <1>5, <1>6, <1>7

(* Appending a new element keeps a sequence free of duplicates.            *)
LEMMA AppendDistinct ==
  ASSUME NEW S, NEW s \in Seq(S), Distinct(s), NEW e \in S, e \notin Range(s)
  PROVE  /\ Append(s, e) \in Seq(S) /\ Len(Append(s, e)) = Len(s) + 1
         /\ Distinct(Append(s, e))
         /\ Range(Append(s, e)) = Range(s) \cup {e}
<1>1. /\ Append(s, e) \in Seq(S) /\ Len(Append(s, e)) = Len(s) + 1
      /\ Len(s) \in Nat /\ DOMAIN s = 1..Len(s)
      /\ DOMAIN Append(s, e) = 1..Len(s) + 1
      /\ \A i \in 1..Len(s) : Append(s, e)[i] = s[i]
      /\ Append(s, e)[Len(s) + 1] = e
  OBVIOUS
<1>2. \A i, j \in 1..Len(s) : s[i] = s[j] => i = j
  BY <1>1 DEF Distinct, IsInjective
<1>3. \A i \in 1..Len(s) : s[i] # e
  BY <1>1 DEF Range
<1>4. Distinct(Append(s, e))
  BY <1>1, <1>2, <1>3 DEF Distinct, IsInjective
<1>5. Range(Append(s, e)) = Range(s) \cup {e}
  <2>1. \A i \in 1..Len(s) + 1 : i \in 1..Len(s) \/ i = Len(s) + 1
    BY <1>1
  <2>2. \A i \in 1..Len(s) : i \in 1..Len(s) + 1
    BY <1>1
  <2>3. Len(s) + 1 \in 1..Len(s) + 1
    BY <1>1
  <2>4. QED
    BY <1>1, <2>1, <2>2, <2>3 DEF Range
<1>6. QED
  BY <1>1, <1>4, <1>5

(* retain(|x| x != e) on a duplicate-free sequence that holds e.           *)
LEMMA WithoutDistinct ==
  ASSUME NEW S, NEW s \in Seq(S), Distinct(s), NEW e \in Range(s)
  PROVE  /\ Without(s, e) \in Seq(S) /\ Len(Without(s, e)) = Len(s) - 1
         /\ Distinct(Without(s, e))
         /\ Range(Without(s, e)) = Range(s) \ {e}
<1> DEFINE W == Without(s, e)
<1>1. /\ W \in Seq(S) /\ Distinct(W)
      /\ Range(W) = Range(s) \ {e}
  BY RetainedProperties DEF Without
<1>2. IsFiniteSet(Range(s)) /\ Cardinality(Range(s)) = Len(s)
  BY DistinctCardinality
<1>3. Cardinality(Range(W)) = Len(W)
  BY <1>1, DistinctCardinality
<1>4. Cardinality(Range(s) \ {e}) = Cardinality(Range(s)) - 1
  BY <1>2, FS_RemoveElement
<1>5. QED
  BY <1>1, <1>2, <1>3, <1>4

(* So its length counts the queue's pending keys.                          *)
LEMMA LenByOrder ==
  ASSUME NEW M, NEW K, NEW q, WellFormed(q, M, K)
  PROVE  /\ IsFiniteSet(DOMAIN q.latest)
         /\ Cardinality(DOMAIN q.latest) = Len(q.latest_order)
         /\ QueueLen(q) = Len(q.critical) + Len(q.latest_order)
                             + Len(q.best_effort)
         /\ Len(q.critical) \in Nat /\ Len(q.latest_order) \in Nat
         /\ Len(q.best_effort) \in Nat
<1>1. /\ q.latest_order \in Seq(K) /\ q.critical \in Seq(M)
      /\ q.best_effort \in Seq(M)
  BY DEF WellFormed, QueuesOf
<1>2. Distinct(q.latest_order) /\ Range(q.latest_order) = DOMAIN q.latest
  BY DEF WellFormed, OrderMatchesValues
<1>3. /\ IsFiniteSet(Range(q.latest_order))
      /\ Cardinality(Range(q.latest_order)) = Len(q.latest_order)
  BY <1>1, <1>2, DistinctCardinality
<1>4. /\ IsFiniteSet(DOMAIN q.latest)
      /\ Cardinality(DOMAIN q.latest) = Len(q.latest_order)
  BY <1>2, <1>3
<1>5. QueueLen(q) = Len(q.critical) + Len(q.latest_order) + Len(q.best_effort)
  BY <1>4 DEF QueueLen
<1>6. /\ Len(q.critical) \in Nat /\ Len(q.latest_order) \in Nat
      /\ Len(q.best_effort) \in Nat
  BY <1>1
<1>7. QED
  BY <1>4, <1>5, <1>6

(* evict_oldest_latest on a queue with a pending latest value.             *)
LEMMA EvictOldestLatestProperties ==
  ASSUME NEW M, NEW K, NEW q, WellFormed(q, M, K), q.latest_order # <<>>
  PROVE  LET r == EvictOldestLatest(q)
         IN  /\ WellFormed(r, M, K)
             /\ r.critical = q.critical /\ r.best_effort = q.best_effort
             /\ r.exhausted = q.exhausted
             /\ Len(r.latest_order) = Len(q.latest_order) - 1
             /\ OnlyLoses(q, r)
<1> DEFINE r == EvictOldestLatest(q)
           oldest == Head(q.latest_order)
<1>1. q \in QueuesOf(M, K) /\ Distinct(q.latest_order)
      /\ Range(q.latest_order) = DOMAIN q.latest
  BY DEF WellFormed, OrderMatchesValues
<1>2. q.latest_order \in Seq(K)
  BY <1>1 DEF QueuesOf
<1>3. /\ Tail(q.latest_order) \in Seq(K)
      /\ Len(Tail(q.latest_order)) = Len(q.latest_order) - 1
      /\ Distinct(Tail(q.latest_order))
      /\ Range(Tail(q.latest_order)) = DOMAIN q.latest \ {oldest}
  BY <1>1, <1>2, TailDistinct
<1>4. PICK D \in SUBSET K : q.latest \in [D -> M]
  BY <1>1 DEF QueuesOf
<1>5. Restrict(q.latest, DOMAIN q.latest \ {oldest}) \in [D \ {oldest} -> M]
  BY <1>4 DEF Restrict
<1>6. /\ r.critical = q.critical /\ r.best_effort = q.best_effort
      /\ r.exhausted = q.exhausted
      /\ r.latest_order = Tail(q.latest_order)
      /\ r.latest = Restrict(q.latest, DOMAIN q.latest \ {oldest})
      /\ r = [q EXCEPT !.latest_order = r.latest_order, !.latest = r.latest]
  BY <1>1 DEF QueuesOf, EvictOldestLatest
<1>7. r \in QueuesOf(M, K)
  <2>1. r.latest \in UNION {[E -> M] : E \in SUBSET K}
    BY <1>4, <1>5, <1>6
  <2>2. QED
    BY <1>1, <1>3, <1>6, <2>1 DEF QueuesOf
<1>8. /\ DOMAIN r.latest = DOMAIN q.latest \ {oldest}
      /\ \A k \in DOMAIN r.latest : r.latest[k] = q.latest[k]
  BY <1>4, <1>6 DEF Restrict
<1>9. WellFormed(r, M, K)
  <2> HIDE DEF r
  <2>1. \A k \in DOMAIN r.latest : ScopedKey(r.latest[k]) = k
    BY <1>8 DEF WellFormed
  <2>2. QED
    BY <1>3, <1>6, <1>7, <1>8, <2>1 DEF WellFormed, OrderMatchesValues
<1>10. QED
  <2> HIDE DEF r
  <2>1. QED
    BY <1>3, <1>6, <1>8, <1>9 DEF r, OnlyLoses

(* insert_latest of a key that is not pending.                             *)
LEMMA InsertLatestProperties ==
  ASSUME NEW M, NEW K, NEW q, WellFormed(q, M, K),
         NEW m \in M, ScopedKey(m) \in K, ScopedKey(m) \notin DOMAIN q.latest
  PROVE  LET r == InsertLatest(q, m)
         IN  /\ WellFormed(r, M, K)
             /\ r.critical = q.critical /\ r.best_effort = q.best_effort
             /\ r.exhausted = q.exhausted
             /\ Len(r.latest_order) = Len(q.latest_order) + 1
             /\ DOMAIN r.latest = DOMAIN q.latest \cup {ScopedKey(m)}
             /\ r.latest[ScopedKey(m)] = m
             /\ \A k \in DOMAIN q.latest : r.latest[k] = q.latest[k]
<1> DEFINE r == InsertLatest(q, m)
           key == ScopedKey(m)
<1>1. q \in QueuesOf(M, K) /\ Distinct(q.latest_order)
      /\ Range(q.latest_order) = DOMAIN q.latest
  BY DEF WellFormed, OrderMatchesValues
<1>2. q.latest_order \in Seq(K)
  BY <1>1 DEF QueuesOf
<1>3. /\ Append(q.latest_order, key) \in Seq(K)
      /\ Len(Append(q.latest_order, key)) = Len(q.latest_order) + 1
      /\ Distinct(Append(q.latest_order, key))
      /\ Range(Append(q.latest_order, key)) = DOMAIN q.latest \cup {key}
  BY <1>1, <1>2, AppendDistinct
<1>4. PICK D \in SUBSET K : q.latest \in [D -> M]
  BY <1>1 DEF QueuesOf
<1> DEFINE values == [k \in DOMAIN q.latest \cup {key} |->
                         IF k = key THEN m ELSE q.latest[k]]
<1>5. values \in [D \cup {key} -> M]
  BY <1>4
<1>6. /\ r.critical = q.critical /\ r.best_effort = q.best_effort
      /\ r.exhausted = q.exhausted
      /\ r.latest_order = Append(q.latest_order, key)
      /\ r.latest = values
      /\ r = [q EXCEPT !.latest_order = r.latest_order, !.latest = r.latest]
  BY <1>1 DEF QueuesOf, InsertLatest
<1>7. r \in QueuesOf(M, K)
  <2> HIDE DEF values, r
  <2>1. r.latest \in UNION {[E -> M] : E \in SUBSET K}
    <3>1. D \cup {key} \in SUBSET K
      BY <1>4
    <3>2. r.latest \in [D \cup {key} -> M]
      BY <1>5, <1>6
    <3> HIDE DEF key
    <3>3. QED
      BY <3>1, <3>2
  <2>2. QED
    BY <1>1, <1>3, <1>6, <2>1 DEF QueuesOf
<1>8. /\ DOMAIN r.latest = DOMAIN q.latest \cup {key}
      /\ r.latest[key] = m
      /\ \A k \in DOMAIN q.latest : r.latest[k] = q.latest[k]
  <2> HIDE DEF r
  <2>1. \A k \in DOMAIN q.latest : k # key
    OBVIOUS
  <2>2. QED
    BY <1>6, <2>1
<1>9. WellFormed(r, M, K)
  <2> HIDE DEF r
  <2>1. \A k \in DOMAIN r.latest : ScopedKey(r.latest[k]) = k
    BY <1>8 DEF WellFormed
  <2>2. QED
    BY <1>3, <1>6, <1>7, <1>8, <2>1 DEF WellFormed, OrderMatchesValues
<1>10. QED
  <2> HIDE DEF r
  <2>1. QED
    BY <1>3, <1>6, <1>8, <1>9 DEF r

(* A replaced value keeps its key pending once, now last in the order.     *)
LEMMA ReplaceLatestProperties ==
  ASSUME NEW M, NEW K, NEW q, WellFormed(q, M, K),
         NEW m \in M, ScopedKey(m) \in DOMAIN q.latest
  PROVE  LET r == ReplaceLatest(q, m)
         IN  /\ WellFormed(r, M, K)
             /\ r.critical = q.critical /\ r.best_effort = q.best_effort
             /\ r.exhausted = q.exhausted
             /\ Len(r.latest_order) = Len(q.latest_order)
             /\ DOMAIN r.latest = DOMAIN q.latest
             /\ r.latest[ScopedKey(m)] = m
             /\ \A k \in DOMAIN q.latest :
                   k # ScopedKey(m) => r.latest[k] = q.latest[k]
<1> DEFINE r == ReplaceLatest(q, m)
           key == ScopedKey(m)
           others == Without(q.latest_order, key)
<1>1. q \in QueuesOf(M, K) /\ Distinct(q.latest_order)
      /\ Range(q.latest_order) = DOMAIN q.latest
  BY DEF WellFormed, OrderMatchesValues
<1>2. q.latest_order \in Seq(K) /\ Len(q.latest_order) \in Nat
  BY <1>1 DEF QueuesOf
<1>3. /\ others \in Seq(K) /\ Len(others) = Len(q.latest_order) - 1
      /\ Distinct(others)
      /\ Range(others) = DOMAIN q.latest \ {key}
  BY <1>1, <1>2, WithoutDistinct
<1>4. PICK D \in SUBSET K : q.latest \in [D -> M]
  BY <1>1 DEF QueuesOf
<1>5. key \in K
  BY <1>4
<1>6. /\ Append(others, key) \in Seq(K)
      /\ Len(Append(others, key)) = Len(q.latest_order)
      /\ Distinct(Append(others, key))
      /\ Range(Append(others, key)) = DOMAIN q.latest
  <2> HIDE DEF others
  <2>1. /\ Append(others, key) \in Seq(K)
        /\ Len(Append(others, key)) = Len(others) + 1
        /\ Distinct(Append(others, key))
        /\ Range(Append(others, key)) = Range(others) \cup {key}
    BY <1>3, <1>5, AppendDistinct
  <2>2. QED
    BY <2>1, <1>2, <1>3
<1>7. /\ r.critical = q.critical /\ r.best_effort = q.best_effort
      /\ r.exhausted = q.exhausted
      /\ r.latest_order = Append(others, key)
      /\ r.latest = [q.latest EXCEPT ![key] = m]
      /\ r = [q EXCEPT !.latest_order = r.latest_order, !.latest = r.latest]
  BY <1>1 DEF QueuesOf, ReplaceLatest
<1>8. r \in QueuesOf(M, K)
  <2> HIDE DEF r, others, key
  <2>1. r.latest \in [D -> M]
    BY <1>4, <1>7
  <2>2. r.latest \in UNION {[E -> M] : E \in SUBSET K}
    BY <2>1, <1>4
  <2>3. QED
    BY <1>1, <1>6, <1>7, <2>2 DEF QueuesOf
<1>9. /\ DOMAIN r.latest = DOMAIN q.latest
      /\ r.latest[key] = m
      /\ \A k \in DOMAIN q.latest : k # key => r.latest[k] = q.latest[k]
  <2> HIDE DEF r, others
  <2>1. QED
    BY <1>7, <1>4
<1>10. WellFormed(r, M, K)
  <2> HIDE DEF r, others
  <2>1. \A k \in DOMAIN r.latest : ScopedKey(r.latest[k]) = k
    BY <1>9 DEF WellFormed
  <2>2. QED
    BY <1>6, <1>7, <1>8, <1>9, <2>1 DEF WellFormed, OrderMatchesValues
<1>11. QED
  <2> HIDE DEF r, others
  <2>1. QED
    BY <1>6, <1>7, <1>9, <1>10 DEF r, others

(* Dropping the oldest best-effort message.                                *)
LEMMA EvictBestEffortProperties ==
  ASSUME NEW M, NEW K, NEW q, WellFormed(q, M, K), q.best_effort # <<>>
  PROVE  LET r == EvictBestEffort(q)
         IN  /\ WellFormed(r, M, K)
             /\ r.critical = q.critical /\ r.exhausted = q.exhausted
             /\ r.latest_order = q.latest_order /\ r.latest = q.latest
             /\ Len(r.best_effort) = Len(q.best_effort) - 1
<1> DEFINE r == EvictBestEffort(q)
<1>1. q \in QueuesOf(M, K)
  BY DEF WellFormed
<1>2. /\ Tail(q.best_effort) \in Seq(M)
      /\ Len(Tail(q.best_effort)) = Len(q.best_effort) - 1
  BY <1>1 DEF QueuesOf
<1>3. /\ r.critical = q.critical /\ r.exhausted = q.exhausted
      /\ r.latest_order = q.latest_order /\ r.latest = q.latest
      /\ r.best_effort = Tail(q.best_effort)
      /\ r \in QueuesOf(M, K)
  BY <1>1, <1>2 DEF QueuesOf, EvictBestEffort
<1>4. QED
  <2> HIDE DEF r
  <2>1. WellFormed(r, M, K)
    BY <1>3 DEF WellFormed, OrderMatchesValues
  <2>2. QED
    BY <2>1, <1>2, <1>3 DEF r

(* The bounds of a well-formed queue, as bounds on its sequences.          *)
LEMMA BoundsByLength ==
  ASSUME NEW M, NEW K, NEW q, WellFormed(q, M, K)
  PROVE  WithinBounds(q) <=>
            /\ Len(q.critical) + Len(q.latest_order) + Len(q.best_effort)
                  <= TotalCapacity
            /\ Len(q.critical) <= CriticalCapacity
            /\ Len(q.latest_order) <= LatestCapacity
            /\ Len(q.best_effort) <= BestEffortCapacity
<1>1. /\ Cardinality(DOMAIN q.latest) = Len(q.latest_order)
      /\ QueueLen(q) = Len(q.critical) + Len(q.latest_order)
                          + Len(q.best_effort)
  BY LenByOrder
<1>2. QED
  BY <1>1 DEF WithinBounds

(* What a push may do to the latest values: file the new one under its     *)
(* key and lose others, never touch what stays.                            *)
LatestAfterPush(q, m, r) ==
    \A k \in DOMAIN r.latest :
        IF m.class = "latest" /\ m.key # NoKey /\ k = ScopedKey(m)
        THEN r.latest[k] = m
        ELSE k \in DOMAIN q.latest /\ r.latest[k] = q.latest[k]

(* The capacities are numbers in the order the code validates.             *)
LEMMA Capacities ==
  /\ TotalCapacity \in Nat /\ CriticalCapacity \in Nat
  /\ LatestCapacity \in Nat /\ BestEffortCapacity \in Nat
  /\ 0 < CriticalCapacity /\ CriticalCapacity <= TotalCapacity
BY QueueConfigAssumption

(* At total capacity with anything evictable, one message makes room.      *)
LEMMA MakeRoomProperties ==
  ASSUME NEW M, NEW K, NEW q, WellFormed(q, M, K),
         q.latest_order # <<>> \/ q.best_effort # <<>>
  PROVE  LET r == MakeRoom(q)
         IN  /\ WellFormed(r, M, K)
             /\ r.critical = q.critical
             /\ OnlyLoses(q, r)
             /\ Len(r.latest_order) <= Len(q.latest_order)
             /\ Len(r.best_effort) <= Len(q.best_effort)
             /\ Len(r.latest_order) + Len(r.best_effort)
                   = Len(q.latest_order) + Len(q.best_effort) - 1
<1>1. Len(q.latest_order) \in Nat /\ Len(q.best_effort) \in Nat
  BY LenByOrder
<1>2. CASE q.latest_order # <<>>
  <2> DEFINE r == EvictOldestLatest(q)
  <2>1. MakeRoom(q) = r
    BY <1>2 DEF MakeRoom
  <2>2. /\ WellFormed(r, M, K)
        /\ r.critical = q.critical /\ r.best_effort = q.best_effort
        /\ Len(r.latest_order) = Len(q.latest_order) - 1
        /\ OnlyLoses(q, r)
    BY <1>2, EvictOldestLatestProperties
  <2> HIDE DEF r
  <2>3. /\ Len(r.latest_order) <= Len(q.latest_order)
        /\ Len(r.best_effort) <= Len(q.best_effort)
        /\ Len(r.latest_order) + Len(r.best_effort)
              = Len(q.latest_order) + Len(q.best_effort) - 1
    <3>1. /\ Len(r.latest_order) = Len(q.latest_order) - 1
          /\ Len(r.best_effort) = Len(q.best_effort)
      BY <2>2
    <3>2. QED
      BY <3>1, <1>1
  <2>4. QED
    BY <2>1, <2>2, <2>3
<1>3. CASE q.latest_order = <<>> /\ q.best_effort # <<>>
  <2> DEFINE r == EvictBestEffort(q)
  <2>1. MakeRoom(q) = r
    BY <1>3 DEF MakeRoom
  <2>2. /\ WellFormed(r, M, K)
        /\ r.critical = q.critical
        /\ r.latest_order = q.latest_order /\ r.latest = q.latest
        /\ Len(r.best_effort) = Len(q.best_effort) - 1
    BY <1>3, EvictBestEffortProperties
  <2> HIDE DEF r
  <2>3. /\ Len(r.latest_order) <= Len(q.latest_order)
        /\ Len(r.best_effort) <= Len(q.best_effort)
        /\ Len(r.latest_order) + Len(r.best_effort)
              = Len(q.latest_order) + Len(q.best_effort) - 1
    <3>1. /\ Len(r.latest_order) = Len(q.latest_order)
          /\ Len(r.best_effort) = Len(q.best_effort) - 1
      BY <2>2
    <3>2. QED
      BY <3>1, <1>1
  <2>4. OnlyLoses(q, r)
    BY <2>2 DEF OnlyLoses
  <2>5. QED
    BY <2>1, <2>2, <2>3, <2>4
<1>4. QED
  BY <1>2, <1>3

(* Appending to critical touches nothing else.                             *)
LEMMA AppendCriticalProperties ==
  ASSUME NEW M, NEW K, NEW q, WellFormed(q, M, K), NEW m \in M
  PROVE  LET r == [q EXCEPT !.critical = Append(@, m)]
         IN  /\ WellFormed(r, M, K)
             /\ Len(r.critical) = Len(q.critical) + 1
             /\ r.latest_order = q.latest_order /\ r.latest = q.latest
             /\ r.best_effort = q.best_effort
<1> DEFINE r == [q EXCEPT !.critical = Append(@, m)]
<1>1. q \in QueuesOf(M, K)
  BY DEF WellFormed
<1>2. /\ Append(q.critical, m) \in Seq(M)
      /\ Len(Append(q.critical, m)) = Len(q.critical) + 1
  BY <1>1 DEF QueuesOf
<1>3. /\ r \in QueuesOf(M, K) /\ r.critical = Append(q.critical, m)
      /\ r.latest_order = q.latest_order /\ r.latest = q.latest
      /\ r.best_effort = q.best_effort
  BY <1>1, <1>2 DEF QueuesOf
<1> HIDE DEF r
<1>4. WellFormed(r, M, K)
  BY <1>3 DEF WellFormed, OrderMatchesValues
<1>5. QED
  BY <1>2, <1>3, <1>4 DEF r

(* push_critical: at total capacity but below its own bound there is       *)
(* always a latest or best-effort message to evict.                        *)
LEMMA PushCriticalProperties ==
  ASSUME NEW M, NEW K, NEW q, WellFormed(q, M, K), WithinBounds(q),
         NEW m \in M, m.class = "critical"
  PROVE  LET r == PushCritical(q, m)
         IN  /\ WellFormed(r, M, K) /\ WithinBounds(r)
             /\ LatestAfterPush(q, m, r)
<1> DEFINE r == PushCritical(q, m)
<1>1. q \in QueuesOf(M, K)
  BY DEF WellFormed
<1>2. CASE CriticalRefused(q, m)
  <2>1. /\ r.critical = q.critical /\ r.best_effort = q.best_effort
        /\ r.latest_order = q.latest_order /\ r.latest = q.latest
        /\ r \in QueuesOf(M, K)
    BY <1>1, <1>2 DEF QueuesOf, PushCritical
  <2> HIDE DEF r
  <2>2. WellFormed(r, M, K)
    BY <2>1 DEF WellFormed, OrderMatchesValues
  <2>3. WithinBounds(r)
    BY <2>1 DEF WithinBounds, QueueLen
  <2>4. LatestAfterPush(q, m, r)
    BY <2>1 DEF LatestAfterPush
  <2>5. QED
    BY <2>2, <2>3, <2>4 DEF r
<1>3. CASE ~CriticalRefused(q, m)
  <2> DEFINE room == IF Full(q) THEN MakeRoom(q) ELSE q
             s == [room EXCEPT !.critical = Append(@, m)]
  <2>1. Len(q.critical) # CriticalCapacity
    BY <1>3 DEF CriticalRefused
  <2>2. /\ Len(q.critical) + Len(q.latest_order) + Len(q.best_effort)
              <= TotalCapacity
        /\ Len(q.critical) <= CriticalCapacity
        /\ Len(q.latest_order) <= LatestCapacity
        /\ Len(q.best_effort) <= BestEffortCapacity
    BY BoundsByLength
  <2>3. /\ Len(q.critical) \in Nat /\ Len(q.latest_order) \in Nat
        /\ Len(q.best_effort) \in Nat
    BY LenByOrder
  <2>4. QueueLen(q) = Len(q.critical) + Len(q.latest_order)
                        + Len(q.best_effort)
    BY LenByOrder
  <2>5. CASE ~Full(q)
    <3>1. s = [q EXCEPT !.critical = Append(@, m)] /\ r = s
      BY <1>3, <2>5 DEF PushCritical
    <3> HIDE DEF s, r, room
    <3>2. /\ WellFormed(s, M, K) /\ Len(s.critical) = Len(q.critical) + 1
          /\ s.latest_order = q.latest_order /\ s.latest = q.latest
          /\ s.best_effort = q.best_effort
      BY <3>1, AppendCriticalProperties
    <3>3. QueueLen(q) # TotalCapacity
      BY <2>5 DEF Full
    <3>4. /\ Len(s.critical) + Len(s.latest_order) + Len(s.best_effort)
                <= TotalCapacity
          /\ Len(s.critical) <= CriticalCapacity
          /\ Len(s.latest_order) <= LatestCapacity
          /\ Len(s.best_effort) <= BestEffortCapacity
      <4>1. /\ Len(s.critical) = Len(q.critical) + 1
            /\ Len(s.latest_order) = Len(q.latest_order)
            /\ Len(s.best_effort) = Len(q.best_effort)
        BY <3>2
      <4> DEFINE c == Len(q.critical)
                 l == Len(q.latest_order)
                 b == Len(q.best_effort)
      <4>2. /\ c \in Nat /\ l \in Nat /\ b \in Nat
            /\ c + l + b <= TotalCapacity /\ c + l + b # TotalCapacity
            /\ c <= CriticalCapacity /\ c # CriticalCapacity
        BY <2>1, <2>2, <2>3, <2>4, <3>3
      <4> HIDE DEF c, l, b
      <4>3. c + 1 + l + b <= TotalCapacity /\ c + 1 <= CriticalCapacity
        BY <4>2, Capacities
      <4>4. QED
        BY <4>1, <4>3, <2>2 DEF c, l, b
    <3>5. WithinBounds(s)
      BY <3>2, <3>4, BoundsByLength
    <3>6. LatestAfterPush(q, m, s)
      BY <3>2 DEF LatestAfterPush
    <3>7. QED
      BY <3>1, <3>2, <3>5, <3>6 DEF r
  <2>6. CASE Full(q)
    <3>1. room = MakeRoom(q) /\ r = s
      BY <1>3, <2>6 DEF PushCritical
    <3>2. QueueLen(q) = TotalCapacity
      BY <2>6 DEF Full
    <3>3. Len(q.latest_order) # 0 \/ Len(q.best_effort) # 0
      <4> DEFINE c == Len(q.critical)
                 l == Len(q.latest_order)
                 b == Len(q.best_effort)
      <4>1. /\ c \in Nat /\ l \in Nat /\ b \in Nat
            /\ c + l + b = TotalCapacity
            /\ c <= CriticalCapacity /\ c # CriticalCapacity
        BY <2>1, <2>2, <2>3, <2>4, <3>2
      <4> HIDE DEF c, l, b
      <4>2. l # 0 \/ b # 0
        BY <4>1, Capacities
      <4>3. QED
        BY <4>2 DEF l, b
    <3>4. q.latest_order # <<>> \/ q.best_effort # <<>>
      BY <3>3
    <3> HIDE DEF r, room
    <3>5. /\ WellFormed(room, M, K)
          /\ room.critical = q.critical
          /\ OnlyLoses(q, room)
          /\ Len(room.latest_order) <= Len(q.latest_order)
          /\ Len(room.best_effort) <= Len(q.best_effort)
          /\ Len(room.latest_order) + Len(room.best_effort)
                = Len(q.latest_order) + Len(q.best_effort) - 1
      BY <3>1, <3>4, MakeRoomProperties
    <3>6. /\ WellFormed(s, M, K) /\ Len(s.critical) = Len(room.critical) + 1
          /\ s.latest_order = room.latest_order /\ s.latest = room.latest
          /\ s.best_effort = room.best_effort
      BY <3>5, AppendCriticalProperties
    <3> HIDE DEF s
    <3>7. /\ Len(s.critical) + Len(s.latest_order) + Len(s.best_effort)
                <= TotalCapacity
          /\ Len(s.critical) <= CriticalCapacity
          /\ Len(s.latest_order) <= LatestCapacity
          /\ Len(s.best_effort) <= BestEffortCapacity
      <4>1. /\ Len(s.critical) = Len(q.critical) + 1
            /\ Len(s.latest_order) <= Len(q.latest_order)
            /\ Len(s.best_effort) <= Len(q.best_effort)
            /\ Len(s.latest_order) + Len(s.best_effort)
                  = Len(q.latest_order) + Len(q.best_effort) - 1
        BY <3>5, <3>6
      <4> DEFINE c == Len(q.critical)
                 l == Len(q.latest_order)
                 b == Len(q.best_effort)
                 x == Len(s.latest_order)
                 y == Len(s.best_effort)
      <4>2. x \in Nat /\ y \in Nat
        BY <3>6, LenByOrder
      <4>3. /\ c \in Nat /\ l \in Nat /\ b \in Nat
            /\ c + l + b <= TotalCapacity /\ x + y = l + b - 1
            /\ x <= l /\ y <= b /\ l <= LatestCapacity
            /\ b <= BestEffortCapacity
            /\ c <= CriticalCapacity /\ c # CriticalCapacity
        BY <4>1, <2>1, <2>2, <2>3
      <4> HIDE DEF c, l, b, x, y
      <4>4. /\ c + 1 + x + y <= TotalCapacity /\ c + 1 <= CriticalCapacity
            /\ x <= LatestCapacity /\ y <= BestEffortCapacity
        BY <4>2, <4>3, Capacities
      <4>5. QED
        BY <4>1, <4>4 DEF c, x, y
    <3>8. WithinBounds(s)
      BY <3>6, <3>7, BoundsByLength
    <3>9. LatestAfterPush(q, m, s)
      <4>1. ASSUME NEW k \in DOMAIN s.latest
            PROVE  k \in DOMAIN q.latest /\ s.latest[k] = q.latest[k]
        BY <3>5, <3>6 DEF OnlyLoses
      <4>2. QED
        BY <4>1 DEF LatestAfterPush
    <3>10. QED
      BY <3>1, <3>6, <3>8, <3>9 DEF r
  <2>7. QED
    BY <2>5, <2>6
<1>4. QED
  BY <1>2, <1>3

(* A queue at most as long as a bounded one, class by class, is bounded.   *)
LEMMA BoundedBySmaller ==
  ASSUME NEW M, NEW K, NEW q, WellFormed(q, M, K), WithinBounds(q),
         NEW r, WellFormed(r, M, K),
         Len(r.critical) <= Len(q.critical),
         Len(r.latest_order) <= Len(q.latest_order),
         Len(r.best_effort) <= Len(q.best_effort)
  PROVE  WithinBounds(r)
<1> DEFINE c == Len(q.critical)
           l == Len(q.latest_order)
           b == Len(q.best_effort)
           x == Len(r.critical)
           y == Len(r.latest_order)
           z == Len(r.best_effort)
<1>1. c \in Nat /\ l \in Nat /\ b \in Nat
  BY LenByOrder
<1>2. x \in Nat /\ y \in Nat /\ z \in Nat
  BY LenByOrder
<1>3. /\ c + l + b <= TotalCapacity /\ c <= CriticalCapacity
      /\ l <= LatestCapacity /\ b <= BestEffortCapacity
  BY BoundsByLength
<1>4. x <= c /\ y <= l /\ z <= b
  OBVIOUS
<1>5. /\ x + y + z <= TotalCapacity /\ x <= CriticalCapacity
      /\ y <= LatestCapacity /\ z <= BestEffortCapacity
  <2> HIDE DEF c, l, b, x, y, z
  <2>1. QED
    BY <1>1, <1>2, <1>3, <1>4, Capacities
<1>6. QED
  BY <1>5, BoundsByLength DEF x, y, z

(* One more latest value fits.                                             *)
FitsOneMore(s) ==
    /\ Len(s.critical) + Len(s.latest_order) + Len(s.best_effort) + 1
          <= TotalCapacity
    /\ Len(s.critical) <= CriticalCapacity
    /\ Len(s.latest_order) + 1 <= LatestCapacity
    /\ Len(s.best_effort) <= BestEffortCapacity

(* A new key inserted into a queue s that q lost something to, or that is  *)
(* q itself with room to spare.                                            *)
LEMMA InsertIntoRoom ==
  ASSUME NEW M, NEW K, NEW q, NEW s, WellFormed(s, M, K), OnlyLoses(q, s),
         NEW m \in M, m.class = "latest", m.key # NoKey,
         ScopedKey(m) \in K, ScopedKey(m) \notin DOMAIN q.latest,
         FitsOneMore(s)
  PROVE  LET r == InsertLatest(s, m)
         IN  /\ WellFormed(r, M, K) /\ WithinBounds(r)
             /\ LatestAfterPush(q, m, r)
<1> DEFINE r == InsertLatest(s, m)
<1>1. ScopedKey(m) \notin DOMAIN s.latest
  BY DEF OnlyLoses
<1>2. /\ WellFormed(r, M, K)
      /\ r.critical = s.critical /\ r.best_effort = s.best_effort
      /\ Len(r.latest_order) = Len(s.latest_order) + 1
      /\ DOMAIN r.latest = DOMAIN s.latest \cup {ScopedKey(m)}
      /\ r.latest[ScopedKey(m)] = m
      /\ \A k \in DOMAIN s.latest : r.latest[k] = s.latest[k]
  BY <1>1, InsertLatestProperties
<1> HIDE DEF r
<1>3. WithinBounds(r)
  <2> DEFINE c == Len(s.critical)
             l == Len(s.latest_order)
             b == Len(s.best_effort)
  <2>1. c \in Nat /\ l \in Nat /\ b \in Nat
    BY LenByOrder
  <2>2. /\ c + l + b + 1 <= TotalCapacity /\ c <= CriticalCapacity
        /\ l + 1 <= LatestCapacity /\ b <= BestEffortCapacity
    BY DEF FitsOneMore
  <2>3. /\ Len(r.critical) = c /\ Len(r.latest_order) = l + 1
        /\ Len(r.best_effort) = b
    BY <1>2
  <2> HIDE DEF c, l, b
  <2>4. c + (l + 1) + b <= TotalCapacity
    BY <2>1, <2>2, Capacities
  <2>5. QED
    BY <2>2, <2>3, <2>4, <1>2, BoundsByLength
<1>4. LatestAfterPush(q, m, r)
  <2>1. ASSUME NEW k \in DOMAIN r.latest, k # ScopedKey(m)
        PROVE  k \in DOMAIN q.latest /\ r.latest[k] = q.latest[k]
    BY <1>2, <2>1 DEF OnlyLoses
  <2>2. QED
    BY <1>2, <2>1 DEF LatestAfterPush
<1>5. QED
  BY <1>2, <1>3, <1>4 DEF r

(* push_latest, whichever of its six outcomes it has.                      *)
LEMMA PushLatestProperties ==
  ASSUME NEW M, NEW K, NEW q, WellFormed(q, M, K), WithinBounds(q),
         NEW m \in M, m.class = "latest", m.key # NoKey => ScopedKey(m) \in K
  PROVE  LET r == PushLatest(q, m)
         IN  /\ WellFormed(r, M, K) /\ WithinBounds(r)
             /\ LatestAfterPush(q, m, r)
<1> DEFINE r == PushLatest(q, m)
           key == ScopedKey(m)
           c == Len(q.critical)
           l == Len(q.latest_order)
           b == Len(q.best_effort)
<1>1. /\ c \in Nat /\ l \in Nat /\ b \in Nat
      /\ Cardinality(DOMAIN q.latest) = l
      /\ QueueLen(q) = c + l + b
  BY LenByOrder
<1>2. /\ c + l + b <= TotalCapacity /\ c <= CriticalCapacity
      /\ l <= LatestCapacity /\ b <= BestEffortCapacity
  BY BoundsByLength
<1>3. CASE m.key = NoKey
  <2>1. r = q
    BY <1>3 DEF PushLatest
  <2>2. LatestAfterPush(q, m, q)
    BY <1>3 DEF LatestAfterPush
  <2>3. QED
    BY <2>1, <2>2
<1>4. CASE m.key # NoKey /\ key \in DOMAIN q.latest
  <2>1. r = ReplaceLatest(q, m)
    BY <1>4 DEF PushLatest
  <2> HIDE DEF r
  <2>2. /\ WellFormed(r, M, K)
        /\ r.critical = q.critical /\ r.best_effort = q.best_effort
        /\ Len(r.latest_order) = Len(q.latest_order)
        /\ DOMAIN r.latest = DOMAIN q.latest
        /\ r.latest[ScopedKey(m)] = m
        /\ \A k \in DOMAIN q.latest :
              k # ScopedKey(m) => r.latest[k] = q.latest[k]
    BY <1>4, <2>1, ReplaceLatestProperties
  <2>3. WithinBounds(r)
    <3>1. /\ Len(r.critical) <= Len(q.critical)
          /\ Len(r.latest_order) <= Len(q.latest_order)
          /\ Len(r.best_effort) <= Len(q.best_effort)
      BY <1>1, <2>2
    <3>2. QED
      BY <3>1, <2>2, BoundedBySmaller
  <2>4. LatestAfterPush(q, m, r)
    BY <2>2, <1>4 DEF LatestAfterPush
  <2>5. QED
    BY <2>2, <2>3, <2>4 DEF r
<1>5. CASE m.key # NoKey /\ key \notin DOMAIN q.latest
  <2>1. LatestAfterPush(q, m, q)
    BY <1>5 DEF LatestAfterPush
  <2>2. r = IF LatestCapacity = 0 THEN q
            ELSE IF Cardinality(DOMAIN q.latest) = LatestCapacity
                 THEN InsertLatest(EvictOldestLatest(q), m)
            ELSE IF ~Full(q) THEN InsertLatest(q, m)
            ELSE IF MakeRoom(q) = q THEN q
            ELSE InsertLatest(MakeRoom(q), m)
    BY <1>5 DEF PushLatest
  <2>3. CASE LatestCapacity # 0 /\ l = LatestCapacity
    <3> DEFINE s == EvictOldestLatest(q)
    <3>1. r = InsertLatest(s, m)
      BY <2>2, <2>3, <1>1
    <3>2. q.latest_order # <<>>
      BY <2>3
    <3>3. /\ WellFormed(s, M, K) /\ OnlyLoses(q, s)
          /\ s.critical = q.critical /\ s.best_effort = q.best_effort
          /\ Len(s.latest_order) = Len(q.latest_order) - 1
      BY <3>2, EvictOldestLatestProperties
    <3> HIDE DEF s, r
    <3>4. /\ Len(s.critical) = c /\ Len(s.best_effort) = b
          /\ Len(s.latest_order) = l - 1
      BY <3>3
    <3>5. /\ c + (l - 1) + b + 1 <= TotalCapacity
          /\ l - 1 + 1 <= LatestCapacity
      <4> HIDE DEF c, l, b
      <4>1. QED
        BY <1>1, <1>2, <2>3, Capacities
    <3>6. FitsOneMore(s)
      BY <3>4, <3>5, <1>2 DEF FitsOneMore
    <3>7. /\ WellFormed(InsertLatest(s, m), M, K)
          /\ WithinBounds(InsertLatest(s, m))
          /\ LatestAfterPush(q, m, InsertLatest(s, m))
      BY <3>3, <3>6, <1>5, InsertIntoRoom
    <3>8. QED
      BY <3>1, <3>7 DEF r
  <2>4. CASE LatestCapacity # 0 /\ l # LatestCapacity /\ ~Full(q)
    <3>1. r = InsertLatest(q, m)
      BY <2>2, <2>4, <1>1
    <3>2. OnlyLoses(q, q)
      BY DEF OnlyLoses
    <3>3. c + l + b # TotalCapacity
      BY <2>4, <1>1 DEF Full
    <3> HIDE DEF r
    <3>4. c + l + b + 1 <= TotalCapacity /\ l + 1 <= LatestCapacity
      <4> HIDE DEF c, l, b
      <4>1. QED
        BY <1>1, <1>2, <2>4, <3>3, Capacities
    <3>5. FitsOneMore(q)
      BY <3>4, <1>2 DEF FitsOneMore
    <3>6. /\ WellFormed(InsertLatest(q, m), M, K)
          /\ WithinBounds(InsertLatest(q, m))
          /\ LatestAfterPush(q, m, InsertLatest(q, m))
      BY <3>2, <3>5, <1>5, InsertIntoRoom
    <3>7. QED
      BY <3>1, <3>6 DEF r
  <2>5. CASE /\ LatestCapacity # 0 /\ l # LatestCapacity /\ Full(q)
             /\ q.latest_order = <<>> /\ q.best_effort = <<>>
    <3>1. MakeRoom(q) = q
      BY <2>5 DEF MakeRoom
    <3>2. r = q
      BY <2>2, <2>5, <3>1, <1>1
    <3>3. QED
      BY <3>2, <2>1
  <2>6. CASE /\ LatestCapacity # 0 /\ l # LatestCapacity /\ Full(q)
             /\ (q.latest_order # <<>> \/ q.best_effort # <<>>)
    <3> DEFINE s == MakeRoom(q)
    <3>1. /\ WellFormed(s, M, K) /\ OnlyLoses(q, s)
          /\ s.critical = q.critical
          /\ Len(s.latest_order) <= Len(q.latest_order)
          /\ Len(s.best_effort) <= Len(q.best_effort)
          /\ Len(s.latest_order) + Len(s.best_effort)
                = Len(q.latest_order) + Len(q.best_effort) - 1
      BY <2>6, MakeRoomProperties
    <3>2. Len(s.latest_order) \in Nat /\ Len(s.best_effort) \in Nat
      BY <3>1, LenByOrder
    <3> DEFINE x == Len(s.latest_order)
               y == Len(s.best_effort)
    <3>3. s # q
      <4>1. x + y = l + b - 1
        BY <3>1
      <4>2. x + y # l + b
        <5> HIDE DEF l, b, x, y
        <5>1. QED
          BY <4>1, <1>1
      <4>3. QED
        BY <4>2
    <3>4. r = InsertLatest(s, m)
      BY <2>2, <2>6, <3>3, <1>1
    <3> HIDE DEF s, r
    <3>5. /\ Len(s.critical) = c /\ x \in Nat /\ y \in Nat
          /\ x <= l /\ y <= b /\ x + y = l + b - 1
      BY <3>1, <3>2
    <3>6. /\ c + x + y + 1 <= TotalCapacity
          /\ x + 1 <= LatestCapacity /\ y <= BestEffortCapacity
      <4> HIDE DEF c, l, b, x, y
      <4>1. QED
        BY <1>1, <1>2, <2>6, <3>5, Capacities
    <3>7. FitsOneMore(s)
      BY <3>5, <3>6, <1>2 DEF FitsOneMore
    <3>8. /\ WellFormed(InsertLatest(s, m), M, K)
          /\ WithinBounds(InsertLatest(s, m))
          /\ LatestAfterPush(q, m, InsertLatest(s, m))
      BY <3>1, <3>7, <1>5, InsertIntoRoom
    <3>9. QED
      BY <3>4, <3>8 DEF r
  <2>7. CASE LatestCapacity = 0
    <3>1. r = q
      BY <2>2, <2>7
    <3>2. QED
      BY <3>1, <2>1
  <2>8. QED
    BY <2>3, <2>4, <2>5, <2>6, <2>7
<1>6. QED
  BY <1>3, <1>4, <1>5

(* push_best_effort only ever appends, and only below both bounds.         *)
LEMMA PushBestEffortProperties ==
  ASSUME NEW M, NEW K, NEW q, WellFormed(q, M, K), WithinBounds(q),
         NEW m \in M, m.class = "best_effort"
  PROVE  LET r == PushBestEffort(q, m)
         IN  /\ WellFormed(r, M, K) /\ WithinBounds(r)
             /\ LatestAfterPush(q, m, r)
<1> DEFINE r == PushBestEffort(q, m)
<1>1. q \in QueuesOf(M, K)
  BY DEF WellFormed
<1>2. CASE Len(q.best_effort) = BestEffortCapacity \/ Full(q)
  <2>1. r = q
    BY <1>2 DEF PushBestEffort
  <2>2. LatestAfterPush(q, m, q)
    BY DEF LatestAfterPush
  <2>3. QED
    BY <2>1, <2>2
<1>3. CASE Len(q.best_effort) # BestEffortCapacity /\ ~Full(q)
  <2>1. /\ Append(q.best_effort, m) \in Seq(M)
        /\ Len(Append(q.best_effort, m)) = Len(q.best_effort) + 1
    BY <1>1 DEF QueuesOf
  <2>2. /\ r \in QueuesOf(M, K)
        /\ r.critical = q.critical /\ r.latest_order = q.latest_order
        /\ r.latest = q.latest
        /\ r.best_effort = Append(q.best_effort, m)
    BY <1>1, <1>3, <2>1 DEF QueuesOf, PushBestEffort
  <2> HIDE DEF r
  <2>3. WellFormed(r, M, K)
    BY <2>2 DEF WellFormed, OrderMatchesValues
  <2>4. WithinBounds(r)
    <3> DEFINE c == Len(q.critical)
               l == Len(q.latest_order)
               b == Len(q.best_effort)
    <3>1. /\ c \in Nat /\ l \in Nat /\ b \in Nat
          /\ QueueLen(q) = c + l + b
      BY LenByOrder
    <3>2. /\ c + l + b <= TotalCapacity /\ c <= CriticalCapacity
          /\ l <= LatestCapacity /\ b <= BestEffortCapacity
      BY BoundsByLength
    <3>3. c + l + b # TotalCapacity /\ b # BestEffortCapacity
      BY <1>3, <3>1 DEF Full
    <3>4. /\ Len(r.critical) = c /\ Len(r.latest_order) = l
          /\ Len(r.best_effort) = b + 1
      BY <2>1, <2>2
    <3> HIDE DEF c, l, b
    <3>5. c + l + (b + 1) <= TotalCapacity /\ b + 1 <= BestEffortCapacity
      BY <3>1, <3>2, <3>3, Capacities
    <3>6. QED
      BY <3>2, <3>4, <3>5, <2>3, BoundsByLength
  <2>5. LatestAfterPush(q, m, r)
    BY <2>2 DEF LatestAfterPush
  <2>6. QED
    BY <2>3, <2>4, <2>5 DEF r
<1>4. QED
  BY <1>2, <1>3

(* Any push.                                                               *)
LEMMA PushProperties ==
  ASSUME NEW M, NEW K, NEW q, WellFormed(q, M, K), WithinBounds(q),
         NEW m \in M, m.key # NoKey => ScopedKey(m) \in K,
         m.class \in {"critical", "latest", "best_effort"}
  PROVE  LET r == Push(q, m)
         IN  /\ WellFormed(r, M, K) /\ WithinBounds(r)
             /\ LatestAfterPush(q, m, r)
<1>1. CASE m.class = "critical"
  <2>1. Push(q, m) = PushCritical(q, m)
    BY <1>1 DEF Push
  <2>2. QED
    BY <1>1, <2>1, PushCriticalProperties
<1>2. CASE m.class = "latest"
  <2>1. Push(q, m) = PushLatest(q, m)
    BY <1>2 DEF Push
  <2>2. QED
    BY <1>2, <2>1, PushLatestProperties
<1>3. CASE m.class = "best_effort"
  <2>1. Push(q, m) = PushBestEffort(q, m)
    BY <1>3 DEF Push
  <2>2. QED
    BY <1>3, <2>1, PushBestEffortProperties
<1>4. QED
  BY <1>1, <1>2, <1>3

(* pop of a non-empty queue.                                               *)
LEMMA AfterPopProperties ==
  ASSUME NEW M, NEW K, NEW q, WellFormed(q, M, K), WithinBounds(q),
         QueueLen(q) > 0
  PROVE  LET r == AfterPop(q)
         IN  /\ WellFormed(r, M, K) /\ WithinBounds(r)
             /\ OnlyLoses(q, r)
<1>1. q \in QueuesOf(M, K)
  BY DEF WellFormed
<1>2. /\ Len(q.critical) \in Nat /\ Len(q.latest_order) \in Nat
      /\ Len(q.best_effort) \in Nat
      /\ QueueLen(q) = Len(q.critical) + Len(q.latest_order)
                          + Len(q.best_effort)
  BY LenByOrder
<1>3. CASE q.critical # <<>>
  <2> DEFINE r == [q EXCEPT !.critical = Tail(@)]
  <2>1. AfterPop(q) = r
    BY <1>3 DEF AfterPop
  <2>2. /\ Tail(q.critical) \in Seq(M)
        /\ Len(Tail(q.critical)) = Len(q.critical) - 1
    BY <1>1, <1>3 DEF QueuesOf
  <2>3. /\ r \in QueuesOf(M, K) /\ r.critical = Tail(q.critical)
        /\ r.latest_order = q.latest_order /\ r.latest = q.latest
        /\ r.best_effort = q.best_effort
    BY <1>1, <2>2 DEF QueuesOf
  <2> HIDE DEF r
  <2>4. WellFormed(r, M, K)
    BY <2>3 DEF WellFormed, OrderMatchesValues
  <2>5. /\ Len(r.critical) <= Len(q.critical)
        /\ Len(r.latest_order) <= Len(q.latest_order)
        /\ Len(r.best_effort) <= Len(q.best_effort)
    BY <1>2, <2>2, <2>3
  <2>6. WithinBounds(r)
    BY <2>4, <2>5, BoundedBySmaller
  <2>7. OnlyLoses(q, r)
    BY <2>3 DEF OnlyLoses
  <2>8. QED
    BY <2>1, <2>4, <2>6, <2>7
<1>4. CASE q.critical = <<>> /\ q.latest_order # <<>>
  <2> DEFINE r == EvictOldestLatest(q)
  <2>1. AfterPop(q) = r
    BY <1>4 DEF AfterPop
  <2>2. /\ WellFormed(r, M, K) /\ OnlyLoses(q, r)
        /\ r.critical = q.critical /\ r.best_effort = q.best_effort
        /\ Len(r.latest_order) = Len(q.latest_order) - 1
    BY <1>4, EvictOldestLatestProperties
  <2> HIDE DEF r
  <2>3. /\ Len(r.critical) <= Len(q.critical)
        /\ Len(r.latest_order) <= Len(q.latest_order)
        /\ Len(r.best_effort) <= Len(q.best_effort)
    BY <1>2, <2>2
  <2>4. WithinBounds(r)
    BY <2>2, <2>3, BoundedBySmaller
  <2>5. QED
    BY <2>1, <2>2, <2>4
<1>5. CASE q.critical = <<>> /\ q.latest_order = <<>>
  <2> DEFINE r == EvictBestEffort(q)
  <2>1. AfterPop(q) = r
    BY <1>5 DEF AfterPop
  <2>2. Len(q.best_effort) > 0
    BY <1>2, <1>5
  <2>3. q.best_effort # <<>>
    BY <2>2
  <2>4. /\ WellFormed(r, M, K)
        /\ r.critical = q.critical
        /\ r.latest_order = q.latest_order /\ r.latest = q.latest
        /\ Len(r.best_effort) = Len(q.best_effort) - 1
    BY <2>3, EvictBestEffortProperties
  <2> HIDE DEF r
  <2>5. /\ Len(r.critical) <= Len(q.critical)
        /\ Len(r.latest_order) <= Len(q.latest_order)
        /\ Len(r.best_effort) <= Len(q.best_effort)
    BY <1>2, <2>4
  <2>6. WithinBounds(r)
    BY <2>4, <2>5, BoundedBySmaller
  <2>7. OnlyLoses(q, r)
    BY <2>4 DEF OnlyLoses
  <2>8. QED
    BY <2>1, <2>4, <2>6, <2>7
<1>6. QED
  BY <1>3, <1>4, <1>5

(* The empty queue, with or without the slow-consumer flag.                *)
LEMMA EmptyQueueProperties ==
  ASSUME NEW M, NEW K, NEW flag \in BOOLEAN
  PROVE  LET r == [critical |-> <<>>, latest_order |-> <<>>, latest |-> <<>>,
                   best_effort |-> <<>>, exhausted |-> flag]
         IN  WellFormed(r, M, K) /\ WithinBounds(r) /\ DOMAIN r.latest = {}
<1> DEFINE r == [critical |-> <<>>, latest_order |-> <<>>, latest |-> <<>>,
                 best_effort |-> <<>>, exhausted |-> flag]
<1>1. /\ r.critical = <<>> /\ r.latest_order = <<>> /\ r.latest = <<>>
      /\ r.best_effort = <<>> /\ r.exhausted = flag
      /\ r = [critical |-> <<>>, latest_order |-> <<>>, latest |-> <<>>,
              best_effort |-> <<>>, exhausted |-> flag]
  OBVIOUS
<1>2. DOMAIN <<>> = {} /\ <<>> \in [{} -> M]
  OBVIOUS
<1>3. <<>> \in UNION {[D -> M] : D \in SUBSET K}
  BY <1>2
<1>4. r \in QueuesOf(M, K)
  <2>1. <<>> \in Seq(M) /\ <<>> \in Seq(K)
    OBVIOUS
  <2> HIDE DEF r
  <2>2. QED
    BY <1>1, <1>3, <2>1 DEF QueuesOf
<1> HIDE DEF r
<1>5. WellFormed(r, M, K)
  BY <1>1, <1>2, <1>4
     DEF WellFormed, OrderMatchesValues, Distinct, IsInjective, Range
<1>6. WithinBounds(r)
  <2>1. Len(r.critical) = 0 /\ Len(r.latest_order) = 0 /\ Len(r.best_effort) = 0
    BY <1>1
  <2>2. /\ Len(r.critical) + Len(r.latest_order) + Len(r.best_effort)
              <= TotalCapacity
        /\ Len(r.critical) <= CriticalCapacity
        /\ Len(r.latest_order) <= LatestCapacity
        /\ Len(r.best_effort) <= BestEffortCapacity
    BY <2>1, Capacities
  <2>3. QED
    BY <2>2, <1>5, BoundsByLength
<1>7. QED
  BY <1>1, <1>2, <1>5, <1>6 DEF r

(* purge of any set of messages.                                           *)
LEMMA PurgeProperties ==
  ASSUME NEW M, NEW K, NEW q, WellFormed(q, M, K), WithinBounds(q), NEW doomed
  PROVE  LET r == Purge(q, doomed)
         IN  /\ WellFormed(r, M, K) /\ WithinBounds(r)
             /\ OnlyLoses(q, r)
<1> DEFINE r == Purge(q, doomed)
           kept == Pending(q) \ doomed
           latest == {k \in DOMAIN q.latest : q.latest[k] \in kept}
<1>1. q \in QueuesOf(M, K) /\ Distinct(q.latest_order)
      /\ Range(q.latest_order) = DOMAIN q.latest
  BY DEF WellFormed, OrderMatchesValues
<1>2. /\ q.critical \in Seq(M) /\ q.best_effort \in Seq(M)
      /\ q.latest_order \in Seq(K)
  BY <1>1 DEF QueuesOf
<1>3. /\ Retained(q.critical, kept) \in Seq(M)
      /\ Len(Retained(q.critical, kept)) <= Len(q.critical)
  <2> HIDE DEF kept
  <2>1. QED
    BY <1>2, RetainedProperties
<1>4. /\ Retained(q.best_effort, kept) \in Seq(M)
      /\ Len(Retained(q.best_effort, kept)) <= Len(q.best_effort)
  <2> HIDE DEF kept
  <2>1. QED
    BY <1>2, RetainedProperties
<1>5. /\ Retained(q.latest_order, latest) \in Seq(K)
      /\ Len(Retained(q.latest_order, latest)) <= Len(q.latest_order)
      /\ Distinct(Retained(q.latest_order, latest))
      /\ Range(Retained(q.latest_order, latest)) = DOMAIN q.latest \cap latest
  <2> HIDE DEF latest
  <2>1. QED
    BY <1>1, <1>2, RetainedProperties
<1>6. PICK D \in SUBSET K : q.latest \in [D -> M]
  BY <1>1 DEF QueuesOf
<1>7. Restrict(q.latest, latest) \in [latest -> M] /\ latest \in SUBSET K
  BY <1>6 DEF Restrict
<1>8. /\ r.critical = Retained(q.critical, kept)
      /\ r.best_effort = Retained(q.best_effort, kept)
      /\ r.latest = Restrict(q.latest, latest)
      /\ r.latest_order = Retained(q.latest_order, latest)
      /\ r = [q EXCEPT !.critical = r.critical, !.best_effort = r.best_effort,
                       !.latest = r.latest, !.latest_order = r.latest_order]
  <2>1. r = [q EXCEPT !.critical = Retained(@, kept),
                      !.best_effort = Retained(@, kept),
                      !.latest = Restrict(@, latest),
                      !.latest_order = Retained(@, latest)]
    BY DEF Purge
  <2> HIDE DEF kept, latest, r
  <2>2. QED
    BY <1>1, <2>1 DEF QueuesOf
<1> HIDE DEF kept, latest, r
<1>9. r \in QueuesOf(M, K)
  <2>1. r.latest \in UNION {[E -> M] : E \in SUBSET K}
    BY <1>7, <1>8
  <2>2. QED
    BY <1>1, <1>3, <1>4, <1>5, <1>8, <2>1 DEF QueuesOf
<1>10. DOMAIN r.latest = latest /\ latest \subseteq DOMAIN q.latest
       /\ \A k \in DOMAIN r.latest : r.latest[k] = q.latest[k]
  BY <1>8 DEF Restrict, latest
<1>11. WellFormed(r, M, K)
  <2>1. \A k \in DOMAIN r.latest : ScopedKey(r.latest[k]) = k
    BY <1>10 DEF WellFormed
  <2>2. Range(r.latest_order) = DOMAIN r.latest
    BY <1>5, <1>8, <1>10
  <2>3. QED
    BY <1>5, <1>8, <1>9, <2>1, <2>2 DEF WellFormed, OrderMatchesValues
<1>12. WithinBounds(r)
  <2>1. /\ Len(r.critical) <= Len(q.critical)
        /\ Len(r.latest_order) <= Len(q.latest_order)
        /\ Len(r.best_effort) <= Len(q.best_effort)
    BY <1>3, <1>4, <1>5, <1>8
  <2>2. QED
    BY <2>1, <1>11, BoundedBySmaller
<1>13. OnlyLoses(q, r)
  BY <1>10 DEF OnlyLoses
<1>14. QED
  BY <1>11, <1>12, <1>13 DEF r

(* A key whose value pop hands over is pending before and not after.       *)
LEMMA PoppedKeysLeave ==
  ASSUME NEW M, NEW K, NEW q, WellFormed(q, M, K), NEW k \in PoppedKeys(q)
  PROVE  k \in DOMAIN q.latest /\ k \notin DOMAIN AfterPop(q).latest
<1>1. q.critical = <<>> /\ q.latest_order # <<>> /\ k = Head(q.latest_order)
  BY DEF PoppedKeys
<1>2. AfterPop(q) = EvictOldestLatest(q)
  BY <1>1 DEF AfterPop
<1>3. /\ q \in QueuesOf(M, K) /\ Distinct(q.latest_order)
      /\ Range(q.latest_order) = DOMAIN q.latest
  BY DEF WellFormed, OrderMatchesValues
<1>4. q.latest_order \in Seq(K)
  BY <1>3 DEF QueuesOf
<1>5. k \in DOMAIN q.latest
  BY <1>1, <1>3, <1>4, TailDistinct
<1>6. EvictOldestLatest(q).latest = Restrict(q.latest, DOMAIN q.latest \ {k})
  BY <1>1, <1>3 DEF EvictOldestLatest, QueuesOf
<1>7. DOMAIN EvictOldestLatest(q).latest = DOMAIN q.latest \ {k}
  BY <1>6 DEF Restrict
<1>8. QED
  BY <1>2, <1>5, <1>7

-----------------------------------------------------------------------------
(* The inductive invariant.  No part of it is inductive alone: the bounds  *)
(* rest on the order matching the values (an eviction pops the             *)
(* order and must find the value), and what is pending can only be told to *)
(* be the newest value because each value is filed under its own key.      *)
StampsIssued == \A k \in ScopedKeys : newest[k] <= pushes /\ handed[k] <= pushes

IInv ==
    TypeOK /\ Bounded /\ LatestSynchronised /\ PendingIsNewest /\ StampsIssued

(* A queue is of the type class by class exactly if it is in the set.      *)
LEMMA QueueTypedMeans ==
  ASSUME NEW M, NEW K, NEW q
  PROVE  QueueTyped(q, M, K) <=> q \in QueuesOf(M, K)
<1>1. ASSUME QueueTyped(q, M, K) PROVE q \in QueuesOf(M, K)
  BY <1>1 DEF QueueTyped, QueuesOf
<1>2. ASSUME q \in QueuesOf(M, K) PROVE QueueTyped(q, M, K)
  <2>1. PICK D \in SUBSET K : q.latest \in [D -> M]
    BY <1>2 DEF QueuesOf
  <2>2. QED
    BY <1>2, <2>1 DEF QueueTyped, QueuesOf
<1>3. QED
  BY <1>1, <1>2

(* The inductive invariant is that of the queue's operations, which their  *)
(* lemmas are about, and what the stamps are.                              *)
LEMMA IInvWellFormed ==
  IInv <=> /\ WellFormed(queue, Messages, ScopedKeys)
           /\ WithinBounds(queue)
           /\ pushes \in Nat
           /\ newest \in [ScopedKeys -> Nat]
           /\ handed \in [ScopedKeys -> Nat]
           /\ PendingIsNewest /\ StampsIssued
BY QueueTypedMeans DEF IInv, TypeOK, Bounded, LatestSynchronised, WellFormed

(* The stamps of pending values are numbers filed under known keys.        *)
LEMMA PendingStamps ==
  ASSUME WellFormed(queue, Messages, ScopedKeys)
  PROVE  \A k \in DOMAIN queue.latest :
            k \in ScopedKeys /\ queue.latest[k].stamp \in Nat
<1>1. PICK D \in SUBSET ScopedKeys : queue.latest \in [D -> Messages]
  BY DEF WellFormed, QueuesOf
<1>2. QED
  BY <1>1 DEF Messages

(* An empty queue satisfies the inductive invariant.                       *)
LEMMA InitIInv == Init => IInv
<1> SUFFICES ASSUME Init PROVE IInv
  OBVIOUS
<1>2. /\ WellFormed(EmptyQueue, Messages, ScopedKeys)
      /\ WithinBounds(EmptyQueue) /\ DOMAIN EmptyQueue.latest = {}
  BY EmptyQueueProperties DEF EmptyQueue
<1>3. PendingIsNewest
  BY <1>2 DEF Init, PendingIsNewest
<1>4. QED
  BY <1>2, <1>3, IInvWellFormed DEF Init, StampsIssued

(* push, whatever the class and whatever it evicts or refuses, keeps the   *)
(* inductive invariant.                                                    *)
LEMMA PushPreservesIInv ==
  ASSUME IInv, NEW class \in Classes, NEW scope \in Scopes,
         NEW key \in Keys \cup {NoKey}, PushMessage(class, scope, key)
  PROVE  IInv'
<1> DEFINE m == [class |-> class, scope |-> scope, key |-> key,
                 stamp |-> pushes + 1]
           r == Push(queue, m)
<1>1. /\ WellFormed(queue, Messages, ScopedKeys) /\ WithinBounds(queue)
      /\ pushes \in Nat /\ newest \in [ScopedKeys -> Nat]
      /\ handed \in [ScopedKeys -> Nat] /\ PendingIsNewest /\ StampsIssued
  BY IInvWellFormed
<1>2. /\ m \in Messages /\ m.class = class /\ m.key = key
      /\ m.stamp = pushes + 1 /\ ScopedKey(m) = <<scope, key>>
  BY <1>1 DEF Messages, ScopedKey
<1>3. m.key # NoKey => ScopedKey(m) \in ScopedKeys
  BY <1>2 DEF ScopedKeys
<1>4. /\ pushes' = pushes + 1 /\ queue' = r
      /\ newest' = IF class = "latest" /\ key # NoKey
                   THEN [newest EXCEPT ![ScopedKey(m)] = m.stamp]
                   ELSE newest
      /\ handed' = handed
  BY DEF PushMessage
<1> HIDE DEF m
<1>5. /\ WellFormed(r, Messages, ScopedKeys) /\ WithinBounds(r)
      /\ LatestAfterPush(queue, m, r)
  BY <1>1, <1>2, <1>3, PushProperties DEF Classes
<1>6. newest' \in [ScopedKeys -> Nat] /\ pushes' \in Nat
  BY <1>1, <1>2, <1>3, <1>4
<1>7. PendingIsNewest'
  <2>1. SUFFICES ASSUME NEW k \in DOMAIN r.latest
                 PROVE  r.latest[k].stamp = newest'[k] /\ handed[k] < newest'[k]
    BY <1>4 DEF PendingIsNewest
  <2>2. k \in ScopedKeys
    BY <1>5 DEF WellFormed, QueuesOf
  <2>3. CASE class = "latest" /\ key # NoKey /\ k = ScopedKey(m)
    <3>1. r.latest[k] = m
      BY <2>3, <1>2, <1>5 DEF LatestAfterPush
    <3>2. newest'[k] = m.stamp
      BY <2>2, <2>3, <1>1, <1>4
    <3>3. handed[k] < pushes + 1
      <4>1. handed[k] <= pushes /\ handed[k] \in Nat
        BY <2>2, <1>1 DEF StampsIssued
      <4>2. QED
        BY <4>1, <1>1
    <3>4. QED
      BY <3>1, <3>2, <3>3, <1>2
  <2>4. CASE ~(class = "latest" /\ key # NoKey /\ k = ScopedKey(m))
    <3>1. k \in DOMAIN queue.latest /\ r.latest[k] = queue.latest[k]
      BY <2>4, <1>2, <1>5 DEF LatestAfterPush
    <3>2. newest'[k] = newest[k]
      BY <2>2, <2>4, <1>1, <1>4
    <3>3. QED
      BY <3>1, <3>2, <1>1 DEF PendingIsNewest
  <2>5. QED
    BY <2>3, <2>4
<1>8. StampsIssued'
  <2>1. SUFFICES ASSUME NEW k \in ScopedKeys
                 PROVE  newest'[k] <= pushes + 1 /\ handed[k] <= pushes + 1
    BY <1>4 DEF StampsIssued
  <2>2. /\ newest[k] <= pushes /\ newest[k] \in Nat
        /\ handed[k] <= pushes /\ handed[k] \in Nat
    BY <1>1 DEF StampsIssued
  <2>3. newest'[k] = newest[k] \/ newest'[k] = pushes + 1
    BY <1>1, <1>2, <1>3, <1>4
  <2>4. QED
    BY <2>2, <2>3, <1>1
<1>9. QED
  BY <1>1, <1>4, <1>5, <1>6, <1>7, <1>8, QueueTypedMeans
     DEF IInv, TypeOK, Bounded, LatestSynchronised, WellFormed

(* Steps that only take messages away: some keys' values are handed over,  *)
(* the others stay as they are.                                            *)
LEMMA RemovalPreservesIInv ==
  ASSUME IInv, NEW keys \in SUBSET DOMAIN queue.latest,
         \A k \in keys : k \notin DOMAIN queue'.latest,
         WellFormed(queue', Messages, ScopedKeys), WithinBounds(queue'),
         OnlyLoses(queue, queue'),
         handed' = [k \in ScopedKeys |->
                       IF k \in keys THEN queue.latest[k].stamp ELSE handed[k]],
         pushes' = pushes, newest' = newest
  PROVE  IInv'
<1>1. /\ WellFormed(queue, Messages, ScopedKeys) /\ WithinBounds(queue)
      /\ pushes \in Nat /\ newest \in [ScopedKeys -> Nat]
      /\ handed \in [ScopedKeys -> Nat] /\ PendingIsNewest /\ StampsIssued
  BY IInvWellFormed
<1>2. \A k \in DOMAIN queue.latest :
         k \in ScopedKeys /\ queue.latest[k].stamp \in Nat
  BY <1>1, PendingStamps
<1>3. handed' \in [ScopedKeys -> Nat]
  BY <1>1, <1>2
<1>4. PendingIsNewest'
  <2>1. SUFFICES ASSUME NEW k \in DOMAIN queue'.latest
                 PROVE  /\ queue'.latest[k].stamp = newest[k]
                        /\ handed'[k] < newest[k]
    BY DEF PendingIsNewest
  <2>2. k \in DOMAIN queue.latest /\ queue'.latest[k] = queue.latest[k]
    BY DEF OnlyLoses
  <2>3. k \in ScopedKeys /\ k \notin keys
    BY <1>2, <2>2
  <2>4. handed'[k] = handed[k]
    BY <2>3
  <2>5. QED
    BY <2>2, <2>4, <1>1 DEF PendingIsNewest
<1>5. StampsIssued'
  <2>1. SUFFICES ASSUME NEW k \in ScopedKeys
                 PROVE  newest[k] <= pushes /\ handed'[k] <= pushes
    BY DEF StampsIssued
  <2>2. CASE k \in keys
    <3>1. handed'[k] = newest[k]
      BY <2>2, <1>1 DEF PendingIsNewest
    <3>2. QED
      BY <3>1, <1>1 DEF StampsIssued
  <2>3. CASE k \notin keys
    BY <2>3, <1>1 DEF StampsIssued
  <2>4. QED
    BY <2>2, <2>3
<1>6. QED
  BY <1>1, <1>3, <1>4, <1>5, QueueTypedMeans
     DEF IInv, TypeOK, Bounded, LatestSynchronised, WellFormed

(* Every step of the queue keeps the inductive invariant.                  *)
LEMMA NextPreservesIInv == IInv /\ [Next]_vars => IInv'
<1> SUFFICES ASSUME IInv, [Next]_vars PROVE IInv'
  OBVIOUS
<1>1. /\ WellFormed(queue, Messages, ScopedKeys) /\ WithinBounds(queue)
      /\ handed \in [ScopedKeys -> Nat]
  BY IInvWellFormed
<1>2. ASSUME NEW class \in Classes, NEW scope \in Scopes,
             NEW key \in Keys \cup {NoKey}, PushMessage(class, scope, key)
      PROVE  IInv'
  BY <1>2, PushPreservesIInv
<1>3. CASE Pop
  <2> DEFINE keys == PoppedKeys(queue)
  <2>1. /\ QueueLen(queue) > 0 /\ queue' = AfterPop(queue)
        /\ handed' = [k \in ScopedKeys |->
                         IF k \in keys THEN queue.latest[k].stamp
                                       ELSE handed[k]]
        /\ pushes' = pushes /\ newest' = newest
    BY <1>3 DEF Pop, HandOver
  <2>2. /\ WellFormed(queue', Messages, ScopedKeys) /\ WithinBounds(queue')
        /\ OnlyLoses(queue, queue')
    BY <1>1, <2>1, AfterPopProperties
  <2>3. /\ keys \in SUBSET DOMAIN queue.latest
        /\ \A k \in keys : k \notin DOMAIN queue'.latest
    BY <1>1, <2>1, PoppedKeysLeave
  <2> HIDE DEF keys
  <2>4. QED
    BY <2>1, <2>2, <2>3, RemovalPreservesIInv
<1>4. CASE Drain
  <2> DEFINE keys == DOMAIN queue.latest
  <2>1. /\ queue' = AfterDrain(queue)
        /\ handed' = [k \in ScopedKeys |->
                         IF k \in keys THEN queue.latest[k].stamp
                                       ELSE handed[k]]
        /\ pushes' = pushes /\ newest' = newest
    BY <1>4 DEF Drain, HandOver
  <2>2. queue.exhausted \in BOOLEAN
    BY <1>1 DEF WellFormed, QueuesOf
  <2>3. /\ WellFormed(queue', Messages, ScopedKeys) /\ WithinBounds(queue')
        /\ DOMAIN queue'.latest = {}
    <3>1. queue' = [critical |-> <<>>, latest_order |-> <<>>, latest |-> <<>>,
                    best_effort |-> <<>>, exhausted |-> queue.exhausted]
      BY <2>1, <2>2 DEF AfterDrain, EmptyQueue
    <3>2. QED
      BY <3>1, <2>2, EmptyQueueProperties
  <2>4. OnlyLoses(queue, queue')
    BY <2>3 DEF OnlyLoses
  <2>5. keys \in SUBSET DOMAIN queue.latest
    OBVIOUS
  <2>6. \A k \in keys : k \notin DOMAIN queue'.latest
    BY <2>3
  <2> HIDE DEF keys
  <2>7. QED
    BY <2>1, <2>3, <2>4, <2>5, <2>6, RemovalPreservesIInv
<1>5. ASSUME NEW scope \in Scopes, PurgeScope(scope)
      PROVE  IInv'
  <2>1. /\ queue' = Purge(queue, {m \in Pending(queue) : m.scope = scope})
        /\ pushes' = pushes /\ newest' = newest /\ handed' = handed
    BY <1>5 DEF PurgeScope
  <2>2. /\ WellFormed(queue', Messages, ScopedKeys) /\ WithinBounds(queue')
        /\ OnlyLoses(queue, queue')
    BY <1>1, <2>1, PurgeProperties
  <2> DEFINE keys == {}
  <2>3. handed' = [k \in ScopedKeys |->
                      IF k \in keys THEN queue.latest[k].stamp ELSE handed[k]]
    BY <1>1, <2>1
  <2>4. /\ keys \in SUBSET DOMAIN queue.latest
        /\ \A k \in keys : k \notin DOMAIN queue'.latest
    OBVIOUS
  <2> HIDE DEF keys
  <2>5. QED
    BY <2>1, <2>2, <2>3, <2>4, RemovalPreservesIInv
<1>6. CASE UNCHANGED vars
  BY <1>6 DEF vars, IInv, TypeOK, Bounded, LatestSynchronised,
              PendingIsNewest, StampsIssued
<1>7. QED
  BY <1>2, <1>3, <1>4, <1>5, <1>6 DEF Next

(* Every reachable state of the queue is typed, within its capacities,     *)
(* keeps latest_order and latest in step, and holds for each key only the  *)
(* newest value offered, one the connection has not been handed yet.       *)
THEOREM QueueInvariant == Spec => []IInv
BY InitIInv, NextPreservesIInv, PTL DEF Spec

(* Type correctness of the queue.                                          *)
THEOREM QueueTypeOK == Spec => []TypeOK
<1>1. IInv => TypeOK
  BY DEF IInv
<1>2. QED
  BY <1>1, QueueInvariant, PTL

(* The queue's memory is bounded by its configuration whatever is pushed.  *)
THEOREM QueueBounded == Spec => []Bounded
<1>1. IInv => Bounded
  BY DEF IInv
<1>2. QED
  BY <1>1, QueueInvariant, PTL

(* The expect in push_latest can never fail.                               *)
THEOREM QueueLatestSynchronised == Spec => []LatestSynchronised
<1>1. IInv => LatestSynchronised
  BY DEF IInv
<1>2. QED
  BY <1>1, QueueInvariant, PTL

(* Coalescing never leaves a stale value pending.                          *)
THEOREM QueuePendingIsNewest == Spec => []PendingIsNewest
<1>1. IInv => PendingIsNewest
  BY DEF IInv
<1>2. QED
  BY <1>1, QueueInvariant, PTL

-----------------------------------------------------------------------------
(* The values filed under the keys of s rise in stamp along s.             *)
Rising(s, f) ==
    \A i, j \in DOMAIN s : i < j => f[s[i]].stamp < f[s[j]].stamp

(* m is newer than every value q holds.                                    *)
Newer(q, m) == \A k \in DOMAIN q.latest : q.latest[k].stamp < m.stamp

(* Popping the front, and values elsewhere, do not disturb the order.      *)
LEMMA TailRising ==
  ASSUME NEW K, NEW s \in Seq(K), s # <<>>, NEW f, Rising(s, f), NEW g,
         \A k \in Range(Tail(s)) : g[k] = f[k]
  PROVE  Rising(Tail(s), g)
<1>1. /\ Tail(s) \in Seq(K) /\ Len(s) \in Nat \ {0} /\ Len(Tail(s)) = Len(s) - 1
      /\ DOMAIN s = 1..Len(s) /\ DOMAIN Tail(s) = 1..Len(s) - 1
      /\ \A i \in 1..Len(s) - 1 : Tail(s)[i] = s[i + 1]
  OBVIOUS
<1>2. SUFFICES ASSUME NEW i \in DOMAIN Tail(s), NEW j \in DOMAIN Tail(s), i < j
      PROVE  g[Tail(s)[i]].stamp < g[Tail(s)[j]].stamp
  BY DEF Rising
<1>3. /\ i + 1 \in DOMAIN s /\ j + 1 \in DOMAIN s /\ i + 1 < j + 1
      /\ Tail(s)[i] = s[i + 1] /\ Tail(s)[j] = s[j + 1]
  BY <1>1, <1>2
<1>4. f[s[i + 1]].stamp < f[s[j + 1]].stamp
  BY <1>3 DEF Rising
<1>5. g[Tail(s)[i]] = f[Tail(s)[i]] /\ g[Tail(s)[j]] = f[Tail(s)[j]]
  BY DEF Range
<1> QED
  BY <1>3, <1>4, <1>5

(* retain keeps the order of what it keeps.                                *)
LEMMA RetainedRising ==
  ASSUME NEW K, NEW s \in Seq(K), NEW keep, NEW f, Rising(s, f), NEW g,
         \A k \in Range(Retained(s, keep)) : g[k] = f[k]
  PROVE  Rising(Retained(s, keep), g)
<1> DEFINE R == Retained(s, keep)
           P == KeptPositions(s, keep)
<1>1. R \in Seq(K)
  BY RetainedPositions
<1>2. PICK pos \in [1..Len(R) -> P] :
          /\ \A n \in 1..Len(R) : R[n] = s[pos[n]]
          /\ \A m, n \in 1..Len(R) : m < n => pos[m] < pos[n]
  BY RetainedPositions
<1>3. P \subseteq DOMAIN s
  BY DEF KeptPositions
<1>4. DOMAIN R = 1..Len(R) /\ Range(R) = {R[n] : n \in DOMAIN R}
  BY <1>1 DEF Range
<1>5. \A k \in Range(R) : g[k] = f[k]
  OBVIOUS
<1> HIDE DEF R, P
<1>6. SUFFICES ASSUME NEW i \in DOMAIN R, NEW j \in DOMAIN R, i < j
      PROVE  g[R[i]].stamp < g[R[j]].stamp
  BY DEF Rising, R
<1>7. pos[i] \in DOMAIN s /\ pos[j] \in DOMAIN s /\ pos[i] < pos[j]
      /\ R[i] = s[pos[i]] /\ R[j] = s[pos[j]]
  BY <1>2, <1>3, <1>4, <1>6
<1>8. f[s[pos[i]]].stamp < f[s[pos[j]]].stamp
  BY <1>7 DEF Rising
<1> QED
  BY <1>4, <1>5, <1>7, <1>8

(* A newer value goes to the back.                                         *)
LEMMA AppendRising ==
  ASSUME NEW K, NEW s \in Seq(K), NEW k, NEW g,
         Rising(s, g), \A x \in Range(s) : g[x].stamp < g[k].stamp
  PROVE  Rising(Append(s, k), g)
<1> DEFINE t == Append(s, k)
<1>1. /\ Len(s) \in Nat /\ DOMAIN s = 1..Len(s) /\ DOMAIN t = 1..Len(s) + 1
      /\ t[Len(s) + 1] = k /\ \A i \in 1..Len(s) : t[i] = s[i]
  <2>1. s \in Seq(K \cup {k}) /\ k \in K \cup {k}
    OBVIOUS
  <2> QED
    BY <2>1
<1> HIDE DEF t
<1>2. SUFFICES ASSUME NEW i \in DOMAIN t, NEW j \in DOMAIN t, i < j
      PROVE  g[t[i]].stamp < g[t[j]].stamp
  BY DEF Rising, t
<1>3. i \in 1..Len(s) /\ (j \in 1..Len(s) \/ j = Len(s) + 1)
  BY <1>1, <1>2
<1>4. CASE j \in 1..Len(s)
  BY <1>1, <1>2, <1>3, <1>4 DEF Rising
<1>5. CASE j = Len(s) + 1
  BY <1>1, <1>3, <1>5 DEF Range
<1> QED
  BY <1>3, <1>4, <1>5

(* r is q without the value at the front of its order.                     *)
Evicted(q, r) ==
    /\ Head(q.latest_order) \in DOMAIN q.latest
    /\ r.critical = q.critical /\ r.best_effort = q.best_effort
    /\ r.latest_order = Tail(q.latest_order)
    /\ r.latest = Restrict(q.latest, DOMAIN q.latest \ {Head(q.latest_order)})
    /\ DOMAIN r.latest = DOMAIN q.latest \ {Head(q.latest_order)}

(* evict_oldest_latest, field by field.                                    *)
LEMMA EvictOldestFields ==
  ASSUME NEW M, NEW K, NEW q, WellFormed(q, M, K), q.latest_order # <<>>,
         NEW r, r = EvictOldestLatest(q)
  PROVE  Evicted(q, r)
<1>1. /\ q \in QueuesOf(M, K) /\ Distinct(q.latest_order)
      /\ Range(q.latest_order) = DOMAIN q.latest /\ q.latest_order \in Seq(K)
  BY DEF WellFormed, OrderMatchesValues, QueuesOf
<1>2. Head(q.latest_order) \in DOMAIN q.latest
  BY <1>1, TailDistinct
<1>3. /\ r.critical = q.critical /\ r.best_effort = q.best_effort
      /\ r.latest_order = Tail(q.latest_order)
      /\ r.latest = Restrict(q.latest, DOMAIN q.latest \ {Head(q.latest_order)})
  BY <1>1 DEF EvictOldestLatest, QueuesOf
<1>4. DOMAIN r.latest = DOMAIN q.latest \ {Head(q.latest_order)}
  BY <1>3 DEF Restrict
<1> QED
  BY <1>2, <1>3, <1>4 DEF Evicted

(* Evicting the oldest value leaves the younger ones in order.             *)
LEMMA EvictOldestRising ==
  ASSUME NEW M, NEW K, NEW q, WellFormed(q, M, K), q.latest_order # <<>>,
         Rising(q.latest_order, q.latest), NEW r, r = EvictOldestLatest(q)
  PROVE  Rising(r.latest_order, r.latest)
<1>1. r.latest_order = Tail(q.latest_order)
  <2>1. Evicted(q, r)
    BY EvictOldestFields
  <2> QED
    BY <2>1 DEF Evicted
<1>2. WellFormed(r, M, K) /\ OnlyLoses(q, r)
  BY EvictOldestLatestProperties
<1>3. q.latest_order \in Seq(K) /\ Range(r.latest_order) = DOMAIN r.latest
  BY <1>2 DEF WellFormed, QueuesOf, OrderMatchesValues
<1>4. \A k \in Range(Tail(q.latest_order)) : r.latest[k] = q.latest[k]
  BY <1>1, <1>2, <1>3 DEF OnlyLoses
<1>5. Rising(Tail(q.latest_order), r.latest)
  <2> DEFINE s == q.latest_order
             f == q.latest
             g == r.latest
  <2>1. s \in Seq(K) /\ s # <<>> /\ Rising(s, f) /\ \A k \in Range(Tail(s)) : g[k] = f[k]
    BY <1>3, <1>4
  <2> HIDE DEF s, f, g
  <2>2. Rising(Tail(s), g)
    BY <2>1, TailRising
  <2> QED
    BY <2>2 DEF s, g
<1> QED
  BY <1>1, <1>5

(* Making room leaves the values in order.                                 *)
LEMMA MakeRoomRising ==
  ASSUME NEW M, NEW K, NEW q, WellFormed(q, M, K),
         Rising(q.latest_order, q.latest), NEW r, r = MakeRoom(q)
  PROVE  Rising(r.latest_order, r.latest)
<1>1. CASE q.latest_order # <<>>
  <2>1. r = EvictOldestLatest(q)
    BY <1>1 DEF MakeRoom
  <2> QED
    BY <1>1, <2>1, EvictOldestRising
<1>2. CASE q.latest_order = <<>> /\ q.best_effort # <<>>
  <2>1. r = EvictBestEffort(q)
    BY <1>2 DEF MakeRoom
  <2>2. r.latest_order = q.latest_order /\ r.latest = q.latest
    BY <1>2, <2>1, EvictBestEffortProperties
  <2> QED
    BY <2>2
<1>3. CASE q.latest_order = <<>> /\ q.best_effort = <<>>
  BY <1>3 DEF MakeRoom
<1> QED
  BY <1>1, <1>2, <1>3

(* insert_latest, field by field.                                          *)
LEMMA InsertLatestFields ==
  ASSUME NEW M, NEW K, NEW q, WellFormed(q, M, K), NEW m, NEW r, r = InsertLatest(q, m)
  PROVE  r.latest_order = Append(q.latest_order, ScopedKey(m))
<1>1. q \in QueuesOf(M, K)
  BY DEF WellFormed
<1> QED
  BY <1>1 DEF InsertLatest, QueuesOf

(* A newer value of a key that is not pending goes last.                   *)
LEMMA InsertLatestRising ==
  ASSUME NEW M, NEW K, NEW q, WellFormed(q, M, K), Rising(q.latest_order, q.latest),
         NEW m \in M, ScopedKey(m) \in K, ScopedKey(m) \notin DOMAIN q.latest, Newer(q, m),
         NEW r, r = InsertLatest(q, m)
  PROVE  Rising(r.latest_order, r.latest)
<1> DEFINE key == ScopedKey(m)
<1>1. /\ r.latest_order = Append(q.latest_order, key)
      /\ r.latest[key] = m /\ \A k \in DOMAIN q.latest : r.latest[k] = q.latest[k]
  BY InsertLatestProperties, InsertLatestFields
<1>2. q.latest_order \in Seq(K) /\ Range(q.latest_order) = DOMAIN q.latest
  BY DEF WellFormed, QueuesOf, OrderMatchesValues
<1> HIDE DEF key
<1>3. Rising(q.latest_order, r.latest)
  BY <1>1, <1>2 DEF Rising, Range
<1>4. \A x \in Range(q.latest_order) : r.latest[x].stamp < r.latest[key].stamp
  BY <1>1, <1>2 DEF Newer
<1> QED
  BY <1>1, <1>2, <1>3, <1>4, AppendRising

(* A value replaced by a newer one moves to the back.                      *)
LEMMA ReplaceLatestRising ==
  ASSUME NEW M, NEW K, NEW q, WellFormed(q, M, K), Rising(q.latest_order, q.latest),
         NEW m \in M, ScopedKey(m) \in DOMAIN q.latest, Newer(q, m),
         NEW r, r = ReplaceLatest(q, m)
  PROVE  Rising(r.latest_order, r.latest)
<1> DEFINE key == ScopedKey(m)
           keep == Range(q.latest_order) \ {key}
           others == Retained(q.latest_order, keep)
<1>1. q \in QueuesOf(M, K) /\ q.latest_order \in Seq(K)
      /\ Range(q.latest_order) = DOMAIN q.latest
  BY DEF WellFormed, QueuesOf, OrderMatchesValues
<1>2. /\ r.latest_order = Append(others, key) /\ r.latest[key] = m
      /\ \A k \in DOMAIN q.latest : k # key => r.latest[k] = q.latest[k]
  <2>1. r.latest_order = Append(Without(q.latest_order, key), key)
    BY <1>1 DEF ReplaceLatest, QueuesOf
  <2> QED
    BY <2>1, ReplaceLatestProperties DEF Without
<1>3. keep = DOMAIN q.latest \ {key}
  BY <1>1
<1> HIDE DEF keep
<1>4. others \in Seq(K) /\ Range(others) = Range(q.latest_order) \cap keep
  BY <1>1, RetainedProperties
<1>5. \A k \in Range(others) : r.latest[k] = q.latest[k] /\ k \in DOMAIN q.latest
  BY <1>1, <1>2, <1>3, <1>4
<1>6. Rising(others, r.latest)
  BY <1>1, <1>5, RetainedRising
<1> HIDE DEF key, others
<1>7. \A x \in Range(others) : r.latest[x].stamp < r.latest[key].stamp
  BY <1>2, <1>5 DEF Newer
<1> QED
  BY <1>2, <1>4, <1>6, <1>7, AppendRising

(* s is q as it may be when a new key is inserted.                         *)
RoomIn(q, s) ==
    \/ s = q
    \/ s = MakeRoom(q)
    \/ q.latest_order # <<>> /\ s = EvictOldestLatest(q)

(* push of a message newer than all that is pending.                       *)
LEMMA PushRising ==
  ASSUME NEW M, NEW K, NEW q, WellFormed(q, M, K), Rising(q.latest_order, q.latest),
         NEW m \in M, m.key # NoKey => ScopedKey(m) \in K, Newer(q, m),
         m.class \in {"critical", "latest", "best_effort"}, NEW r, r = Push(q, m)
  PROVE  Rising(r.latest_order, r.latest)
<1>1. CASE m.class = "critical"
  <2>1. r = PushCritical(q, m)
    BY <1>1 DEF Push
  <2>2. CASE CriticalRefused(q, m)
    <3>1. r = [q EXCEPT !.exhausted = TRUE]
      BY <2>1, <2>2 DEF PushCritical
    <3>2. r.latest_order = q.latest_order /\ r.latest = q.latest
      BY <3>1 DEF WellFormed, QueuesOf
    <3> QED
      BY <3>2
  <2>3. CASE ~CriticalRefused(q, m)
    <3> DEFINE room == IF Full(q) THEN MakeRoom(q) ELSE q
    <3>1. r = [room EXCEPT !.critical = Append(@, m)]
      BY <2>1, <2>3 DEF PushCritical
    <3>2. Rising(room.latest_order, room.latest)
      BY MakeRoomRising
    <3>3. WellFormed(room, M, K)
      <4>1. MakeRoom(q) = q \/ q.latest_order # <<>> \/ q.best_effort # <<>>
        BY DEF MakeRoom
      <4> QED
        BY <4>1, MakeRoomProperties
    <3> HIDE DEF room
    <3>4. r.latest_order = room.latest_order /\ r.latest = room.latest
      BY <3>1, <3>3, AppendCriticalProperties
    <3> QED
      BY <3>2, <3>4
  <2> QED
    BY <2>2, <2>3
<1>2. CASE m.class = "latest"
  <2> DEFINE key == ScopedKey(m)
  <2>1. r = PushLatest(q, m)
    BY <1>2 DEF Push
  <2>2. CASE m.key # NoKey /\ key \in DOMAIN q.latest
    <3>1. r = ReplaceLatest(q, m)
      BY <2>1, <2>2 DEF PushLatest
    <3> QED
      BY <2>2, <3>1, ReplaceLatestRising
  <2>3. ASSUME m.key # NoKey, key \notin DOMAIN q.latest, NEW s,
               RoomIn(q, s), r = InsertLatest(s, m)
        PROVE  Rising(r.latest_order, r.latest)
    <3>1. WellFormed(s, M, K) /\ OnlyLoses(q, s) /\ Rising(s.latest_order, s.latest)
      <4>1. MakeRoom(q) = q \/ q.latest_order # <<>> \/ q.best_effort # <<>>
        BY DEF MakeRoom
      <4>2. CASE s = q
        BY <4>2 DEF OnlyLoses
      <4>3. CASE s = MakeRoom(q) /\ s # q
        <5>1. q.latest_order # <<>> \/ q.best_effort # <<>>
          BY <4>1, <4>3
        <5>2. WellFormed(MakeRoom(q), M, K) /\ OnlyLoses(q, MakeRoom(q))
          BY <5>1, MakeRoomProperties
        <5>3. Rising(s.latest_order, s.latest)
          BY <4>3, MakeRoomRising
        <5> QED
          BY <4>3, <5>2, <5>3
      <4>4. CASE q.latest_order # <<>> /\ s = EvictOldestLatest(q)
        BY <4>4, EvictOldestLatestProperties, EvictOldestRising
      <4> QED
        BY <2>3, <4>2, <4>3, <4>4 DEF RoomIn
    <3>2. key \notin DOMAIN s.latest /\ Newer(s, m) /\ key \in K
      BY <2>3, <3>1 DEF OnlyLoses, Newer
    <3> QED
      BY <2>3, <3>1, <3>2, InsertLatestRising
  <2>4. CASE m.key # NoKey /\ key \notin DOMAIN q.latest
    <3>1. CASE r = q
      BY <3>1
    <3>2. CASE r # q
      <4>1. LatestCapacity # 0
        BY <2>1, <2>4, <3>2 DEF PushLatest
      <4>2. CASE Cardinality(DOMAIN q.latest) = LatestCapacity
        <5>1. r = InsertLatest(EvictOldestLatest(q), m)
          BY <2>1, <2>4, <4>1, <4>2 DEF PushLatest
        <5>2. q.latest_order # <<>>
          <6>1. Cardinality(DOMAIN q.latest) = Len(q.latest_order)
            BY LenByOrder
          <6> QED
            BY <4>1, <4>2, <6>1
        <5> QED
          BY <2>3, <2>4, <5>1, <5>2 DEF RoomIn
      <4>3. CASE Cardinality(DOMAIN q.latest) # LatestCapacity
        <5>1. r = InsertLatest(q, m) \/ r = InsertLatest(MakeRoom(q), m)
          BY <2>1, <2>4, <3>2, <4>1, <4>3 DEF PushLatest
        <5>2. CASE r = InsertLatest(q, m)
          <6>1. RoomIn(q, q)
            BY DEF RoomIn
          <6> QED
            BY <2>3, <2>4, <5>2, <6>1
        <5>3. CASE r = InsertLatest(MakeRoom(q), m)
          <6>1. RoomIn(q, MakeRoom(q))
            BY DEF RoomIn
          <6> QED
            BY <2>3, <2>4, <5>3, <6>1
        <5> QED
          BY <5>1, <5>2, <5>3
      <4> QED
        BY <4>2, <4>3
    <3> QED
      BY <3>1, <3>2
  <2>5. CASE m.key = NoKey
    BY <2>1, <2>5 DEF PushLatest
  <2> QED
    BY <2>2, <2>4, <2>5
<1>3. CASE m.class = "best_effort"
  <2>1. r = PushBestEffort(q, m)
    BY <1>3 DEF Push
  <2>2. r.latest_order = q.latest_order /\ r.latest = q.latest
    BY <2>1 DEF PushBestEffort, WellFormed, QueuesOf
  <2> QED
    BY <2>2
<1> QED
  BY <1>1, <1>2, <1>3

(* pop takes the oldest value or none.                                     *)
LEMMA AfterPopRising ==
  ASSUME NEW M, NEW K, NEW q, WellFormed(q, M, K), Rising(q.latest_order, q.latest),
         QueueLen(q) > 0, NEW r, r = AfterPop(q)
  PROVE  Rising(r.latest_order, r.latest)
<1>1. CASE q.critical # <<>>
  <2>1. r = [q EXCEPT !.critical = Tail(@)]
    BY <1>1 DEF AfterPop
  <2>2. r.latest_order = q.latest_order /\ r.latest = q.latest
    BY <2>1 DEF WellFormed, QueuesOf
  <2> QED
    BY <2>2
<1>2. CASE q.critical = <<>> /\ q.latest_order # <<>>
  <2>1. r = EvictOldestLatest(q)
    BY <1>2 DEF AfterPop
  <2> QED
    BY <1>2, <2>1, EvictOldestRising
<1>3. CASE q.critical = <<>> /\ q.latest_order = <<>>
  <2>1. r = EvictBestEffort(q)
    BY <1>3 DEF AfterPop
  <2>2. r.latest_order = q.latest_order /\ r.latest = q.latest
    BY <2>1 DEF EvictBestEffort, WellFormed, QueuesOf
  <2> QED
    BY <2>2
<1> QED
  BY <1>1, <1>2, <1>3

(* purge, class by class.                                                  *)
Purged(q, r, kept, latest) ==
    /\ r.critical = Retained(q.critical, kept)
    /\ r.best_effort = Retained(q.best_effort, kept)
    /\ r.latest = Restrict(q.latest, latest)
    /\ r.latest_order = Retained(q.latest_order, latest)

(* purge, field by field.                                                  *)
LEMMA PurgeFields ==
  ASSUME NEW M, NEW K, NEW q, WellFormed(q, M, K), NEW doomed, NEW r, r = Purge(q, doomed),
         NEW kept, kept = Pending(q) \ doomed,
         NEW latest, latest = {k \in DOMAIN q.latest : q.latest[k] \in kept}
  PROVE  Purged(q, r, kept, latest)
<1> DEFINE critical == Retained(q.critical, kept)
           best_effort == Retained(q.best_effort, kept)
           order == Retained(q.latest_order, latest)
           values == Restrict(q.latest, latest)
<1>1. r = [q EXCEPT !.critical = critical, !.best_effort = best_effort,
                    !.latest = values, !.latest_order = order]
  BY DEF Purge
<1> HIDE DEF critical, best_effort, order, values
<1>2. /\ r.critical = critical /\ r.best_effort = best_effort
      /\ r.latest = values /\ r.latest_order = order
  BY <1>1 DEF WellFormed, QueuesOf
<1> QED
  BY <1>2 DEF Purged, critical, best_effort, order, values

(* purge keeps the order of what it keeps.                                 *)
LEMMA PurgeRising ==
  ASSUME NEW M, NEW K, NEW q, WellFormed(q, M, K), WithinBounds(q),
         Rising(q.latest_order, q.latest), NEW doomed, NEW r, r = Purge(q, doomed)
  PROVE  Rising(r.latest_order, r.latest)
<1> DEFINE kept == Pending(q) \ doomed
           latest == {k \in DOMAIN q.latest : q.latest[k] \in kept}
<1>1. Purged(q, r, kept, latest)
  BY PurgeFields
<1> HIDE DEF kept, latest
<1>2. WellFormed(r, M, K) /\ OnlyLoses(q, r)
  BY PurgeProperties
<1>3. r.latest_order = Retained(q.latest_order, latest)
  BY <1>1 DEF Purged
<1>4. q.latest_order \in Seq(K)
      /\ \A k \in Range(r.latest_order) : r.latest[k] = q.latest[k]
  BY <1>2 DEF WellFormed, QueuesOf, OrderMatchesValues, OnlyLoses
<1> QED
  <2> DEFINE s == q.latest_order
             f == q.latest
             g == r.latest
  <2>1. /\ s \in Seq(K) /\ Rising(s, f)
        /\ \A k \in Range(Retained(s, latest)) : g[k] = f[k]
    BY <1>3, <1>4
  <2> HIDE DEF s, f, g
  <2>2. Rising(Retained(s, latest), g)
    BY <2>1, RetainedRising
  <2> QED
    BY <1>3, <2>2 DEF s, g
-----------------------------------------------------------------------------
(* Values pending are older than the next message.                         *)
LEMMA NextIsFresh ==
  ASSUME IInv, NEW m, m.stamp = pushes + 1
  PROVE  Newer(queue, m)
<1>1. /\ WellFormed(queue, Messages, ScopedKeys) /\ pushes \in Nat
      /\ newest \in [ScopedKeys -> Nat] /\ PendingIsNewest /\ StampsIssued
  BY IInvWellFormed
<1>2. SUFFICES ASSUME NEW k \in DOMAIN queue.latest PROVE queue.latest[k].stamp < pushes + 1
  BY DEF Newer
<1>3. k \in ScopedKeys /\ queue.latest[k].stamp \in Nat
  BY <1>1, PendingStamps
<1>4. queue.latest[k].stamp <= pushes
  BY <1>1, <1>3 DEF PendingIsNewest, StampsIssued
<1> QED
  BY <1>1, <1>3, <1>4

(* The eviction order is one by age: what is in front was refreshed least  *)
(* recently.  No property says so, evictions being what matters; it is     *)
(* the conjunct the invariant needs for them.                              *)
ByAge == Rising(queue.latest_order, queue.latest)

(* Every step keeps the order of the values by age.                        *)
LEMMA NextKeepsOrder == IInv /\ ByAge /\ [Next]_vars => ByAge'
<1> SUFFICES ASSUME IInv, ByAge, [Next]_vars PROVE ByAge'
  OBVIOUS
<1>1. WellFormed(queue, Messages, ScopedKeys) /\ WithinBounds(queue) /\ pushes \in Nat
  BY IInvWellFormed
<1>2. Rising(queue.latest_order, queue.latest)
  BY DEF ByAge
<1>3. SUFFICES Rising(queue'.latest_order, queue'.latest)
  BY DEF ByAge
<1>4. ASSUME NEW class \in Classes, NEW scope \in Scopes,
             NEW key \in Keys \cup {NoKey}, PushMessage(class, scope, key)
      PROVE  Rising(queue'.latest_order, queue'.latest)
  <2> DEFINE m == [class |-> class, scope |-> scope, key |-> key,
                   stamp |-> pushes + 1]
  <2>1. queue' = Push(queue, m)
    BY <1>4 DEF PushMessage
  <2>2. /\ m \in Messages /\ m.class = class /\ m.stamp = pushes + 1
        /\ m.key # NoKey => ScopedKey(m) \in ScopedKeys
    BY <1>1 DEF Messages, ScopedKey, ScopedKeys
  <2> HIDE DEF m
  <2>3. Newer(queue, m)
    BY <2>2, NextIsFresh
  <2> QED
    BY <1>1, <1>2, <2>1, <2>2, <2>3, PushRising DEF Classes
<1>5. CASE Pop
  BY <1>1, <1>2, <1>5, AfterPopRising DEF Pop
<1>6. CASE Drain
  <2>1. queue'.latest_order = <<>>
    BY <1>6 DEF Drain, AfterDrain, EmptyQueue
  <2> QED
    BY <2>1 DEF Rising
<1>7. ASSUME NEW scope \in Scopes, PurgeScope(scope)
      PROVE  Rising(queue'.latest_order, queue'.latest)
  BY <1>1, <1>2, <1>7, PurgeRising DEF PurgeScope
<1>8. CASE UNCHANGED vars
  BY <1>2, <1>8 DEF vars
<1> QED
  BY <1>4, <1>5, <1>6, <1>7, <1>8 DEF Next

(* Every value that r has lost was older than every other of q's.          *)
GivesWay(q, r) ==
    \A k \in DOMAIN q.latest \ DOMAIN r.latest :
       \A j \in DOMAIN q.latest \ {k} : q.latest[k].stamp < q.latest[j].stamp

(* evict_oldest_latest takes the value in front.                           *)
LEMMA EvictionGivesWay ==
  ASSUME NEW M, NEW K, NEW q, WellFormed(q, M, K), q.latest_order # <<>>,
         Rising(q.latest_order, q.latest), NEW r, r = EvictOldestLatest(q)
  PROVE  GivesWay(q, r)
<1>1. Evicted(q, r)
  BY EvictOldestFields
<1>2. SUFFICES ASSUME NEW k \in DOMAIN q.latest \ DOMAIN r.latest,
                      NEW j \in DOMAIN q.latest \ {k}
               PROVE  q.latest[k].stamp < q.latest[j].stamp
  BY DEF GivesWay
<1>3. q.latest_order \in Seq(K) /\ Range(q.latest_order) = DOMAIN q.latest
  BY DEF WellFormed, QueuesOf, OrderMatchesValues
<1>4. k = q.latest_order[1] /\ 1 \in DOMAIN q.latest_order
  BY <1>1, <1>2, <1>3 DEF Evicted
<1>5. PICK i \in DOMAIN q.latest_order : q.latest_order[i] = j
  BY <1>2, <1>3 DEF Range
<1>6. 1 < i
  BY <1>2, <1>3, <1>4, <1>5
<1> QED
  BY <1>4, <1>5, <1>6 DEF Rising

(* Making room takes the value in front, or none.                          *)
LEMMA RoomGivesWay ==
  ASSUME NEW M, NEW K, NEW q, WellFormed(q, M, K),
         Rising(q.latest_order, q.latest), NEW r, r = MakeRoom(q)
  PROVE  GivesWay(q, r)
<1>1. CASE q.latest_order # <<>>
  <2>1. r = EvictOldestLatest(q)
    BY <1>1 DEF MakeRoom
  <2> QED
    BY <1>1, <2>1, EvictionGivesWay
<1>2. CASE q.latest_order = <<>> /\ q.best_effort # <<>>
  <2>1. r = EvictBestEffort(q)
    BY <1>2 DEF MakeRoom
  <2>2. r.latest = q.latest
    BY <1>2, <2>1, EvictBestEffortProperties
  <2> QED
    BY <2>2 DEF GivesWay
<1>3. CASE q.latest_order = <<>> /\ q.best_effort = <<>>
  BY <1>3 DEF MakeRoom, GivesWay
<1> QED
  BY <1>1, <1>2, <1>3

(* push_critical gives up the value in front, or none, and takes the       *)
(* message whenever its class has room.                                    *)
LEMMA CriticalGivesWay ==
  ASSUME NEW M, NEW K, NEW q, WellFormed(q, M, K), Rising(q.latest_order, q.latest),
         NEW m \in M, m.class = "critical", NEW r, r = PushCritical(q, m)
  PROVE  /\ GivesWay(q, r)
         /\ Len(q.critical) < CriticalCapacity => Len(r.critical) = Len(q.critical) + 1
<1>0. Len(q.critical) \in Nat /\ CriticalCapacity \in Nat
  BY LenByOrder, Capacities
<1>1. CASE CriticalRefused(q, m)
  <2>1. r = [q EXCEPT !.exhausted = TRUE]
    BY <1>1 DEF PushCritical
  <2>2. r.latest = q.latest
    BY <2>1 DEF WellFormed, QueuesOf
  <2>3. Len(q.critical) = CriticalCapacity
    BY <1>1 DEF CriticalRefused
  <2> QED
    BY <1>0, <2>2, <2>3 DEF GivesWay
<1>2. CASE ~CriticalRefused(q, m)
  <2> DEFINE room == IF Full(q) THEN MakeRoom(q) ELSE q
  <2>1. r = [room EXCEPT !.critical = Append(@, m)]
    BY <1>2 DEF PushCritical
  <2>2. GivesWay(q, room)
    BY RoomGivesWay DEF GivesWay
  <2>3. WellFormed(room, M, K) /\ room.critical = q.critical
    <3>1. MakeRoom(q) = q \/ q.latest_order # <<>> \/ q.best_effort # <<>>
      BY DEF MakeRoom
    <3> QED
      BY <3>1, MakeRoomProperties
  <2> HIDE DEF room
  <2>4. r.latest = room.latest /\ Len(r.critical) = Len(room.critical) + 1
    BY <2>1, <2>3, AppendCriticalProperties
  <2> QED
    BY <2>2, <2>3, <2>4 DEF GivesWay
<1> QED
  BY <1>1, <1>2

(* push_latest gives up the value in front, or none.                       *)
LEMMA LatestGivesWay ==
  ASSUME NEW M, NEW K, NEW q, WellFormed(q, M, K), Rising(q.latest_order, q.latest),
         NEW m \in M, m.key # NoKey => ScopedKey(m) \in K, NEW r, r = PushLatest(q, m)
  PROVE  GivesWay(q, r)
<1> DEFINE key == ScopedKey(m)
<1>1. CASE r = q
  BY <1>1 DEF GivesWay
<1>2. CASE m.key # NoKey /\ key \in DOMAIN q.latest
  <2>1. r = ReplaceLatest(q, m)
    BY <1>2 DEF PushLatest
  <2>2. DOMAIN r.latest = DOMAIN q.latest
    BY <1>2, <2>1, ReplaceLatestProperties
  <2> QED
    BY <2>2 DEF GivesWay
<1>3. ASSUME m.key # NoKey, key \notin DOMAIN q.latest, NEW s, WellFormed(s, M, K),
             OnlyLoses(q, s), GivesWay(q, s), r = InsertLatest(s, m)
      PROVE  GivesWay(q, r)
  <2>1. key \notin DOMAIN s.latest /\ key \in K
    BY <1>3 DEF OnlyLoses
  <2>2. DOMAIN r.latest = DOMAIN s.latest \cup {key}
    BY <1>3, <2>1, InsertLatestProperties
  <2> QED
    BY <1>3, <2>2 DEF GivesWay
<1>4. CASE m.key # NoKey /\ key \notin DOMAIN q.latest /\ r # q
  <2>1. LatestCapacity # 0
    BY <1>4 DEF PushLatest
  <2>2. CASE Cardinality(DOMAIN q.latest) = LatestCapacity
    <3>1. r = InsertLatest(EvictOldestLatest(q), m)
      BY <1>4, <2>1, <2>2 DEF PushLatest
    <3>2. q.latest_order # <<>>
      <4>1. Cardinality(DOMAIN q.latest) = Len(q.latest_order)
        BY LenByOrder
      <4> QED
        BY <2>1, <2>2, <4>1
    <3> QED
      BY <1>3, <1>4, <3>1, <3>2, EvictOldestLatestProperties, EvictionGivesWay
  <2>3. CASE Cardinality(DOMAIN q.latest) # LatestCapacity /\ ~Full(q)
    <3>1. r = InsertLatest(q, m)
      BY <1>4, <2>1, <2>3 DEF PushLatest
    <3> QED
      BY <1>3, <1>4, <3>1 DEF OnlyLoses, GivesWay
  <2>4. CASE Cardinality(DOMAIN q.latest) # LatestCapacity /\ Full(q)
    <3>1. MakeRoom(q) # q /\ r = InsertLatest(MakeRoom(q), m)
      BY <1>4, <2>1, <2>4 DEF PushLatest
    <3>2. q.latest_order # <<>> \/ q.best_effort # <<>>
      BY <3>1 DEF MakeRoom
    <3> QED
      BY <1>3, <1>4, <3>1, <3>2, MakeRoomProperties, RoomGivesWay
  <2> QED
    BY <2>2, <2>3, <2>4
<1>5. m.key = NoKey => r = q
  BY DEF PushLatest
<1> QED
  BY <1>1, <1>2, <1>4, <1>5

(* What one step gives up, as the property says it.                        *)
LEMMA StepGivesWay == IInv /\ ByAge /\ [Next]_vars => [OldestGivesWayStep]_vars
<1> SUFFICES ASSUME IInv, ByAge, Next PROVE OldestGivesWayStep
  OBVIOUS
<1>1. /\ WellFormed(queue, Messages, ScopedKeys) /\ pushes \in Nat
      /\ Rising(queue.latest_order, queue.latest)
  BY IInvWellFormed DEF ByAge
<1>2. ASSUME NEW class \in Classes, NEW scope \in Scopes,
             NEW key \in Keys \cup {NoKey}, PushMessage(class, scope, key)
      PROVE  /\ GivesWay(queue, queue')
             /\ class = "critical" /\ Len(queue.critical) < CriticalCapacity
                  => Len(queue'.critical) = Len(queue.critical) + 1
  <2> DEFINE m == [class |-> class, scope |-> scope, key |-> key,
                   stamp |-> pushes + 1]
  <2>1. queue' = Push(queue, m)
    BY <1>2 DEF PushMessage
  <2>2. /\ m \in Messages /\ m.class = class
        /\ m.key # NoKey => ScopedKey(m) \in ScopedKeys
    BY <1>1 DEF Messages, ScopedKey, ScopedKeys
  <2> HIDE DEF m
  <2>3. CASE class = "critical"
    <3>1. queue' = PushCritical(queue, m)
      BY <2>1, <2>2, <2>3 DEF Push
    <3> QED
      BY <1>1, <2>2, <2>3, <3>1, CriticalGivesWay
  <2>4. CASE class = "latest"
    <3>1. queue' = PushLatest(queue, m)
      BY <2>1, <2>2, <2>4 DEF Push
    <3> QED
      BY <1>1, <2>2, <2>4, <3>1, LatestGivesWay
  <2>5. CASE class = "best_effort"
    <3>1. queue' = PushBestEffort(queue, m)
      BY <2>1, <2>2, <2>5 DEF Push
    <3>2. queue'.latest = queue.latest
      BY <1>1, <3>1 DEF PushBestEffort, WellFormed, QueuesOf
    <3> QED
      BY <2>5, <3>2 DEF GivesWay
  <2> QED
    BY <2>3, <2>4, <2>5 DEF Classes
<1>3. pushes' # pushes => GivesWay(queue, queue')
  <2>1. CASE pushes' = pushes
    BY <2>1
  <2>2. CASE pushes' # pushes
    <3>1. PICK class \in Classes, scope \in Scopes, key \in Keys \cup {NoKey} :
             PushMessage(class, scope, key)
      BY <2>2 DEF Next, Pop, Drain, PurgeScope
    <3> QED
      BY <1>2, <3>1
  <2> QED
    BY <2>1, <2>2
<1>4. "critical" \in Classes
  BY DEF Classes
<1> QED
  BY <1>2, <1>3, <1>4 DEF OldestGivesWayStep, GivesWay

(* A push evicts the value refreshed least recently, and takes a reliable  *)
(* message whenever its class has room.                                    *)
THEOREM QueueOldestGivesWay == Spec => OldestGivesWay
<1>1. Init => ByAge
  BY DEF Init, EmptyQueue, ByAge, Rising
<1> QED
  BY <1>1, NextKeepsOrder, StepGivesWay, QueueInvariant, PTL DEF Spec, OldestGivesWay

-----------------------------------------------------------------------------
(* The operators of the promise are those of the queue.                    *)
LEMMA PromiseOperators ==
  /\ \A S : Promise!Cardinality(S) = Cardinality(S)
  /\ \A s, keep : Promise!Retained(s, keep) = Retained(s, keep)
  /\ \A f, D : Promise!Restrict(f, D) = Restrict(f, D)
  /\ \A s : Promise!Range(s) = Range(s)
<1>1. \A S : Promise!Cardinality(S) = Cardinality(S)
  <2>1. ASSUME NEW S PROVE Promise!Cardinality(S) = Cardinality(S)
    BY DEF Promise!Cardinality, Cardinality
  <2> QED
    BY <2>1
<1>2. ASSUME NEW s, NEW keep PROVE Promise!Retained(s, keep) = Retained(s, keep)
  BY DEF Promise!Retained, Promise!KeptPositions, Promise!RankIn, Promise!Cardinality,
         Retained, KeptPositions, RankIn, Cardinality
<1>3. ASSUME NEW f, NEW D PROVE Promise!Restrict(f, D) = Restrict(f, D)
  BY DEF Promise!Restrict, Restrict
<1>4. ASSUME NEW s PROVE Promise!Range(s) = Range(s)
  BY DEF Promise!Range, Range
<1> QED
  BY <1>1, <1>2, <1>3, <1>4

(* A step that leaves the messages alone.                                  *)
SameMessages(q, r) ==
    r.critical = q.critical /\ r.latest = q.latest /\ r.best_effort = q.best_effort

(* Messages of its class, one more at the end.                             *)
LEMMA OneMore ==
  ASSUME NEW M, NEW s \in Seq(M), NEW m \in M, NEW t, t = Append(s, m)
  PROVE  Len(t) = Len(s) + 1 /\ s = SubSeq(t, 1, Len(s))
<1>1. /\ t \in Seq(M) /\ Len(t) = Len(s) + 1 /\ \A i \in 1..Len(s) : t[i] = s[i]
      /\ Len(s) \in Nat
  OBVIOUS
<1> DEFINE u == SubSeq(t, 1, Len(s))
<1>2. /\ u \in Seq(M) /\ Len(u) = Len(s) /\ \A i \in 1..Len(s) : u[i] = t[i]
  BY <1>1
<1> HIDE DEF u
<1>3. s = u
  BY <1>1, <1>2
<1> QED
  BY <1>1, <1>3 DEF u

(* The length the promise counts.                                          *)
LEMMA PromiseHeld == Promise!Held = QueueLen(queue) /\ Promise!Held' = QueueLen(queue')
BY PromiseOperators DEF Promise!Held, QueueLen

(* What the promise allows to happen to the droppable messages of q.       *)
Displaced(q, r) ==
    \/ r.latest = q.latest /\ r.best_effort = q.best_effort
    \/ /\ Full(q)
       /\ \E k \in DOMAIN q.latest : r.latest = Restrict(q.latest, DOMAIN q.latest \ {k})
       /\ r.best_effort = q.best_effort
    \/ /\ Full(q)
       /\ DOMAIN q.latest = {} /\ q.best_effort # <<>>
       /\ r.best_effort = Tail(q.best_effort)
       /\ r.latest = q.latest

(* dropping the oldest best-effort message, field by field.                *)
LEMMA EvictBestEffortFields ==
  ASSUME NEW M, NEW K, NEW q, WellFormed(q, M, K), NEW r, r = EvictBestEffort(q)
  PROVE  /\ r.critical = q.critical /\ r.latest_order = q.latest_order
         /\ r.latest = q.latest /\ r.best_effort = Tail(q.best_effort)
BY DEF EvictBestEffort, WellFormed, QueuesOf

(* An order is empty exactly if there are no values.                       *)
LEMMA EmptyOrder ==
  ASSUME NEW M, NEW K, NEW q, WellFormed(q, M, K)
  PROVE  q.latest_order = <<>> <=> DOMAIN q.latest = {}
<1> DEFINE s == q.latest_order
<1>1. s \in Seq(K) /\ Range(s) = DOMAIN q.latest
  BY DEF WellFormed, QueuesOf, OrderMatchesValues
<1> HIDE DEF s
<1>2. s = <<>> <=> DOMAIN s = {}
  BY <1>1
<1>3. DOMAIN s = {} <=> Range(s) = {}
  BY DEF Range
<1>4. s = <<>> <=> DOMAIN q.latest = {}
  BY <1>1, <1>2, <1>3
<1> QED
  BY <1>4 DEF s

(* A full queue makes room with one message.                               *)
LEMMA MakeRoomDisplaces ==
  ASSUME NEW M, NEW K, NEW q, WellFormed(q, M, K), Full(q),
         NEW r, r = MakeRoom(q)
  PROVE  Displaced(q, r)
<1>1. CASE q.latest_order # <<>>
  <2>1. r = EvictOldestLatest(q)
    BY <1>1 DEF MakeRoom
  <2>2. Evicted(q, r)
    BY <1>1, <2>1, EvictOldestFields
  <2> QED
    BY <2>2 DEF Evicted, Displaced
<1>2. CASE q.latest_order = <<>> /\ q.best_effort # <<>>
  <2>1. r = EvictBestEffort(q)
    BY <1>2 DEF MakeRoom
  <2>2. DOMAIN q.latest = {}
    BY <1>2, EmptyOrder
  <2>3. r.latest = q.latest /\ r.best_effort = Tail(q.best_effort)
    BY <2>1, EvictBestEffortFields
  <2> QED
    BY <1>2, <2>2, <2>3 DEF Displaced
<1>3. CASE q.latest_order = <<>> /\ q.best_effort = <<>>
  BY <1>3 DEF MakeRoom, Displaced
<1> QED
  BY <1>1, <1>2, <1>3

(* push_critical accepts as promised, or refuses.                          *)
LEMMA CriticalAccepted ==
  ASSUME NEW M, NEW K, WellFormed(queue, M, K), WithinBounds(queue),
         WithinBounds(queue'), NEW m \in M, m.class = "critical",
         queue' = PushCritical(queue, m)
  PROVE  Promise!AcceptCritical \/ UNCHANGED Promise!pvars
<1> DEFINE q == queue
           r == queue'
<1>1. q \in QueuesOf(M, K)
  BY DEF WellFormed
<1>2. CASE CriticalRefused(q, m)
  <2>1. r = [q EXCEPT !.exhausted = TRUE]
    BY <1>2 DEF PushCritical
  <2>2. r.critical = q.critical /\ r.latest = q.latest /\ r.best_effort = q.best_effort
    BY <1>1, <2>1 DEF QueuesOf
  <2> QED
    BY <2>2 DEF Promise!pvars
<1>3. CASE ~CriticalRefused(q, m)
  <2> DEFINE room == IF Full(q) THEN MakeRoom(q) ELSE q
  <2>1. r = [room EXCEPT !.critical = Append(@, m)]
    BY <1>3 DEF PushCritical
  <2>2. WellFormed(room, M, K) /\ room.critical = q.critical
    <3>1. MakeRoom(q) = q \/ q.latest_order # <<>> \/ q.best_effort # <<>>
      BY DEF MakeRoom
    <3> QED
      BY <3>1, MakeRoomProperties
  <2>3. Displaced(q, room)
    <3>1. CASE Full(q)
      BY <3>1, MakeRoomDisplaces
    <3>2. CASE ~Full(q)
      BY <3>2 DEF Displaced
    <3> QED
      BY <3>1, <3>2
  <2> HIDE DEF room
  <2>4. r.latest = room.latest /\ r.best_effort = room.best_effort
    BY <2>1, <2>2, AppendCriticalProperties
  <2>5. r.critical = Append(q.critical, m)
    BY <2>1, <2>2 DEF WellFormed, QueuesOf
  <2>6. Promise!Displace
    <3>1. Displaced(q, r)
      BY <2>3, <2>4 DEF Displaced
    <3> QED
      BY <3>1, PromiseOperators, PromiseHeld DEF Promise!Displace, Displaced, Full
  <2>7. Len(r.critical) = Len(q.critical) + 1 /\ q.critical = SubSeq(r.critical, 1, Len(q.critical))
    BY <1>1, <2>5, OneMore DEF QueuesOf
  <2>8. Len(q.critical) < CriticalCapacity
    <3>1. Len(q.critical) <= CriticalCapacity /\ Len(q.critical) # CriticalCapacity
      BY <1>3 DEF WithinBounds, CriticalRefused
    <3>2. Len(q.critical) \in Nat
      BY LenByOrder
    <3> QED
      BY <3>1, <3>2, Capacities
  <2>9. Promise!Held' <= TotalCapacity
    BY PromiseHeld DEF WithinBounds
  <2> QED
    BY <2>6, <2>7, <2>8, <2>9 DEF Promise!AcceptCritical
<1> QED
  BY <1>2, <1>3

(* push_best_effort accepts as promised, or drops the message.             *)
LEMMA BestEffortAccepted ==
  ASSUME NEW M, NEW K, WellFormed(queue, M, K), WithinBounds(queue),
         NEW m \in M, queue' = PushBestEffort(queue, m)
  PROVE  Promise!AcceptBestEffort \/ UNCHANGED Promise!pvars
<1> DEFINE q == queue
           r == queue'
<1>1. q \in QueuesOf(M, K)
  BY DEF WellFormed
<1>2. CASE Len(q.best_effort) = BestEffortCapacity \/ Full(q)
  BY <1>2 DEF PushBestEffort, Promise!pvars
<1>3. CASE ~(Len(q.best_effort) = BestEffortCapacity \/ Full(q))
  <2>1. r = [q EXCEPT !.best_effort = Append(@, m)]
    BY <1>3 DEF PushBestEffort
  <2>2. r.critical = q.critical /\ r.latest = q.latest /\ r.best_effort = Append(q.best_effort, m)
    BY <1>1, <2>1 DEF QueuesOf
  <2>3. /\ Len(r.best_effort) = Len(q.best_effort) + 1
        /\ q.best_effort = SubSeq(r.best_effort, 1, Len(q.best_effort))
    BY <1>1, <2>2, OneMore DEF QueuesOf
  <2>4. Promise!Held < TotalCapacity
    <3>1. QueueLen(q) # TotalCapacity /\ QueueLen(q) <= TotalCapacity
      BY <1>3 DEF Full, WithinBounds
    <3>2. QueueLen(q) \in Nat
      <4> DEFINE c == Len(q.critical)
                 l == Len(q.latest_order)
                 b == Len(q.best_effort)
      <4>1. c \in Nat /\ l \in Nat /\ b \in Nat /\ QueueLen(q) = c + l + b
        BY LenByOrder
      <4> HIDE DEF c, l, b
      <4> QED
        BY <4>1
    <3> QED
      BY <3>1, <3>2, Capacities, PromiseHeld
  <2> QED
    BY <2>2, <2>3, <2>4 DEF Promise!AcceptBestEffort
<1> QED
  BY <1>2, <1>3

(* s is q with the room a new key of its latest values may need.           *)
RoomMade(q, s) ==
    /\ OnlyLoses(q, s) /\ s.critical = q.critical
    /\ \E x : DOMAIN q.latest \ DOMAIN s.latest \subseteq {x}
    /\ DOMAIN q.latest \ DOMAIN s.latest # {}
          => Full(q) \/ Cardinality(DOMAIN q.latest) = LatestCapacity
    /\ \/ s.best_effort = q.best_effort
       \/ Full(q) /\ DOMAIN q.latest = {} /\ s.best_effort = Tail(q.best_effort)

(* What the promise asks of a new value of k.                              *)
ValueAccepted(q, r, k) ==
    /\ k \in DOMAIN r.latest
    /\ \A j \in DOMAIN r.latest \ {k} : j \in DOMAIN q.latest /\ r.latest[j] = q.latest[j]
    /\ k \in DOMAIN q.latest => r.latest[k].stamp > q.latest[k].stamp
    /\ Cardinality(DOMAIN q.latest \ DOMAIN r.latest) <= 1
    /\ DOMAIN q.latest \ DOMAIN r.latest # {}
          => Full(q) \/ Cardinality(DOMAIN q.latest) = LatestCapacity
    /\ \/ r.best_effort = q.best_effort
       \/ Full(q) /\ DOMAIN q.latest = {} /\ r.best_effort = Tail(q.best_effort)
    /\ r.critical = q.critical

(* A set within a singleton has at most one element.                       *)
LEMMA AtMostOne ==
  ASSUME NEW S, NEW x, S \subseteq {x}
  PROVE  Cardinality(S) <= 1
<1>1. S = {} \/ S = {x}
  OBVIOUS
<1>2. Cardinality({}) = 0 /\ Cardinality({x}) = 1
  BY FS_EmptySet, FS_Singleton
<1>3. CASE S = {}
  BY <1>2, <1>3
<1>4. CASE S = {x}
  BY <1>2, <1>4
<1> QED
  BY <1>1, <1>3, <1>4

(* A queue that gives up its oldest value, at a capacity, has room.        *)
LEMMA EvictionMakesRoom ==
  ASSUME NEW M, NEW K, NEW q, WellFormed(q, M, K), q.latest_order # <<>>,
         Full(q) \/ Cardinality(DOMAIN q.latest) = LatestCapacity,
         NEW s, s = EvictOldestLatest(q)
  PROVE  WellFormed(s, M, K) /\ RoomMade(q, s)
<1>1. WellFormed(s, M, K) /\ OnlyLoses(q, s)
  BY EvictOldestLatestProperties
<1>2. Evicted(q, s)
  BY EvictOldestFields
<1>3. DOMAIN q.latest \ DOMAIN s.latest \subseteq {Head(q.latest_order)}
  BY <1>2 DEF Evicted
<1> QED
  BY <1>1, <1>2, <1>3 DEF RoomMade, Evicted

(* So has one that makes room when it is full, and one that has it already. *)
LEMMA RoomWhenFull ==
  ASSUME NEW M, NEW K, NEW q, WellFormed(q, M, K),
         NEW s, s = q \/ (Full(q) /\ s = MakeRoom(q))
  PROVE  WellFormed(s, M, K) /\ RoomMade(q, s)
<1>1. CASE s = q
  BY <1>1 DEF RoomMade, OnlyLoses
<1>2. CASE s # q /\ Full(q) /\ s = MakeRoom(q) /\ q.latest_order # <<>>
  <2>1. s = EvictOldestLatest(q)
    BY <1>2 DEF MakeRoom
  <2> QED
    BY <1>2, <2>1, EvictionMakesRoom
<1>3. CASE s # q /\ Full(q) /\ s = MakeRoom(q) /\ q.latest_order = <<>>
  <2>1. q.best_effort # <<>> /\ s = EvictBestEffort(q)
    BY <1>3 DEF MakeRoom
  <2>2. WellFormed(s, M, K)
    BY <2>1, EvictBestEffortProperties
  <2>3. /\ s.critical = q.critical /\ s.latest = q.latest
        /\ s.best_effort = Tail(q.best_effort)
    BY <2>1, EvictBestEffortFields
  <2>4. DOMAIN q.latest = {}
    BY <1>3, EmptyOrder
  <2> QED
    BY <1>3, <2>2, <2>3, <2>4 DEF RoomMade, OnlyLoses
<1> QED
  BY <1>1, <1>2, <1>3

(* A new key goes where there is room.                                     *)
LEMMA InsertionAccepted ==
  ASSUME NEW M, NEW K, NEW q, NEW s, WellFormed(s, M, K), RoomMade(q, s),
         NEW m \in M, ScopedKey(m) \in K, ScopedKey(m) \notin DOMAIN q.latest,
         NEW r, r = InsertLatest(s, m)
  PROVE  ValueAccepted(q, r, ScopedKey(m))
<1> DEFINE k == ScopedKey(m)
<1>1. k \notin DOMAIN s.latest
  BY DEF RoomMade, OnlyLoses
<1>2. /\ r.critical = s.critical /\ r.best_effort = s.best_effort
      /\ DOMAIN r.latest = DOMAIN s.latest \cup {k}
      /\ \A j \in DOMAIN s.latest : r.latest[j] = s.latest[j]
  BY <1>1, InsertLatestProperties
<1>3. DOMAIN q.latest \ DOMAIN r.latest = DOMAIN q.latest \ DOMAIN s.latest
  BY <1>2
<1>4. Cardinality(DOMAIN q.latest \ DOMAIN s.latest) <= 1
  BY AtMostOne DEF RoomMade
<1> HIDE DEF k
<1>5. \A j \in DOMAIN r.latest \ {k} : j \in DOMAIN q.latest /\ r.latest[j] = q.latest[j]
  BY <1>2 DEF RoomMade, OnlyLoses
<1> QED
  BY <1>2, <1>3, <1>4, <1>5 DEF RoomMade, ValueAccepted, k

(* push_latest accepts as promised, or drops the message.                  *)
LEMMA ValueIsAccepted ==
  ASSUME NEW M, NEW K, NEW q, WellFormed(q, M, K), WithinBounds(q),
         NEW m \in M, m.key # NoKey => ScopedKey(m) \in K, Newer(q, m),
         m.stamp \in Nat, \A k \in DOMAIN q.latest : q.latest[k].stamp \in Nat,
         NEW r, r = PushLatest(q, m)
  PROVE  r = q \/ ValueAccepted(q, r, ScopedKey(m))
<1> DEFINE key == ScopedKey(m)
<1>1. CASE m.key = NoKey
  BY <1>1 DEF PushLatest
<1>2. CASE m.key # NoKey /\ key \in DOMAIN q.latest
  <2>1. r = ReplaceLatest(q, m)
    BY <1>2 DEF PushLatest
  <2>2. /\ r.critical = q.critical /\ r.best_effort = q.best_effort
        /\ DOMAIN r.latest = DOMAIN q.latest /\ r.latest[key] = m
        /\ \A k \in DOMAIN q.latest : k # key => r.latest[k] = q.latest[k]
    BY <1>2, <2>1, ReplaceLatestProperties
  <2>3. DOMAIN q.latest \ DOMAIN r.latest = {} /\ Cardinality({}) = 0
    BY <2>2, FS_EmptySet
  <2>4. m.stamp > q.latest[key].stamp
    BY <1>2 DEF Newer
  <2> HIDE DEF key
  <2>5. Cardinality(DOMAIN q.latest \ DOMAIN r.latest) <= 1
    BY <2>3
  <2>6. /\ key \in DOMAIN r.latest
        /\ \A j \in DOMAIN r.latest \ {key} : j \in DOMAIN q.latest /\ r.latest[j] = q.latest[j]
    BY <1>2, <2>2
  <2>7. r.latest[key].stamp > q.latest[key].stamp
    BY <2>2, <2>4
  <2>8. ValueAccepted(q, r, key)
    BY <2>2, <2>3, <2>5, <2>6, <2>7 DEF ValueAccepted
  <2> QED
    BY <2>8 DEF key
<1>3. CASE m.key # NoKey /\ key \notin DOMAIN q.latest /\ r # q
  <2>1. ASSUME NEW s, WellFormed(s, M, K), RoomMade(q, s), r = InsertLatest(s, m)
        PROVE  ValueAccepted(q, r, ScopedKey(m))
    BY <1>3, <2>1, InsertionAccepted
  <2>2. LatestCapacity # 0
    BY <1>3 DEF PushLatest
  <2>3. CASE Cardinality(DOMAIN q.latest) = LatestCapacity
    <3>1. r = InsertLatest(EvictOldestLatest(q), m)
      BY <1>3, <2>2, <2>3 DEF PushLatest
    <3>2. q.latest_order # <<>>
      <4>1. Cardinality(DOMAIN q.latest) = Len(q.latest_order)
        BY LenByOrder
      <4> QED
        BY <2>2, <2>3, <4>1
    <3>3. /\ WellFormed(EvictOldestLatest(q), M, K)
          /\ RoomMade(q, EvictOldestLatest(q))
      BY <2>3, <3>2, EvictionMakesRoom
    <3> QED
      BY <2>1, <3>1, <3>3
  <2>4. CASE Cardinality(DOMAIN q.latest) # LatestCapacity
    <3>1. CASE ~Full(q)
      <4>1. r = InsertLatest(q, m)
        BY <1>3, <2>2, <2>4, <3>1 DEF PushLatest
      <4>2. RoomMade(q, q)
        BY RoomWhenFull
      <4> QED
        BY <2>1, <4>1, <4>2
    <3>2. CASE Full(q)
      <4>1. r = InsertLatest(MakeRoom(q), m)
        BY <1>3, <2>2, <2>4, <3>2 DEF PushLatest
      <4>2. WellFormed(MakeRoom(q), M, K) /\ RoomMade(q, MakeRoom(q))
        BY <3>2, RoomWhenFull
      <4> QED
        BY <2>1, <4>1, <4>2
    <3> QED
      BY <3>1, <3>2
  <2> QED
    BY <2>3, <2>4
<1> QED
  BY <1>1, <1>2, <1>3

(* What is retained depends on the elements there are.                     *)
LEMMA RetainedSame ==
  ASSUME NEW s, NEW a, NEW b, \A i \in DOMAIN s : s[i] \in a <=> s[i] \in b
  PROVE  Retained(s, a) = Retained(s, b)
<1>1. KeptPositions(s, a) = KeptPositions(s, b)
  BY DEF KeptPositions
<1> QED
  BY <1>1 DEF Retained

(* Nothing is the only function without a domain.                          *)
LEMMA OnlyEmpty ==
  ASSUME NEW D, NEW M, NEW f \in [D -> M], DOMAIN f = {}
  PROVE  f = <<>>
<1>1. f \in [{} -> M] /\ <<>> \in [{} -> M]
  OBVIOUS
<1> QED
  BY <1>1

(* push keeps the promise.                                                 *)
LEMMA PushPromised ==
  ASSUME IInv, IInv', NEW class \in Classes, NEW scope \in Scopes,
         NEW key \in Keys \cup {NoKey}, PushMessage(class, scope, key)
  PROVE  Promise!Next \/ UNCHANGED Promise!pvars
<1> DEFINE m == [class |-> class, scope |-> scope, key |-> key, stamp |-> pushes + 1]
<1>1. /\ WellFormed(queue, Messages, ScopedKeys) /\ WithinBounds(queue)
      /\ WithinBounds(queue') /\ pushes \in Nat
  BY IInvWellFormed DEF IInv, Bounded
<1>2. queue' = Push(queue, m)
  BY DEF PushMessage
<1>3. /\ m \in Messages /\ m.class = class /\ m.stamp = pushes + 1 /\ m.stamp \in Nat
      /\ m.key # NoKey => ScopedKey(m) \in ScopedKeys
  BY <1>1 DEF Messages, ScopedKey, ScopedKeys
<1> HIDE DEF m
<1>4. Newer(queue, m)
  BY <1>3, NextIsFresh
<1>5. CASE class = "critical"
  <2>1. queue' = PushCritical(queue, m)
    BY <1>2, <1>3, <1>5 DEF Push
  <2> QED
    BY <1>1, <1>3, <1>5, <2>1, CriticalAccepted DEF Promise!Next
<1>6. CASE class = "latest"
  <2>1. queue' = PushLatest(queue, m)
    BY <1>2, <1>3, <1>6 DEF Push
  <2>2. \A k \in DOMAIN queue.latest : queue.latest[k].stamp \in Nat
    BY <1>1, PendingStamps
  <2>3. queue' = queue \/ ValueAccepted(queue, queue', ScopedKey(m))
    BY <1>1, <1>3, <1>4, <2>1, <2>2, ValueIsAccepted
  <2>4. CASE queue' = queue
    BY <2>4 DEF Promise!pvars
  <2>5. CASE ValueAccepted(queue, queue', ScopedKey(m))
    <3> DEFINE k == ScopedKey(m)
    <3>1. Promise!Held' <= TotalCapacity
      BY <1>1, PromiseHeld DEF WithinBounds
    <3>2. Promise!Held = TotalCapacity <=> Full(queue)
      BY PromiseHeld DEF Full
    <3>3. ValueAccepted(queue, queue', k)
      BY <2>5
    <3> HIDE DEF k
    <3>4. Promise!AcceptLatest
      BY <3>1, <3>2, <3>3, PromiseOperators DEF Promise!AcceptLatest, ValueAccepted
    <3> QED
      BY <3>4 DEF Promise!Next
  <2> QED
    BY <2>3, <2>4, <2>5
<1>7. CASE class = "best_effort"
  <2>1. queue' = PushBestEffort(queue, m)
    BY <1>2, <1>3, <1>7 DEF Push
  <2> QED
    BY <1>1, <1>3, <2>1, BestEffortAccepted DEF Promise!Next
<1> QED
  BY <1>5, <1>6, <1>7 DEF Classes

(* pop keeps the promise.                                                  *)
LEMMA PopPromised ==
  ASSUME IInv, Pop
  PROVE  Promise!Deliver
<1>1. WellFormed(queue, Messages, ScopedKeys) /\ queue' = AfterPop(queue)
  BY IInvWellFormed DEF Pop
<1>2. CASE queue.critical # <<>>
  <2>1. queue' = [queue EXCEPT !.critical = Tail(@)]
    BY <1>1, <1>2 DEF AfterPop
  <2>2. /\ queue'.critical = Tail(queue.critical) /\ queue'.latest = queue.latest
        /\ queue'.best_effort = queue.best_effort
    BY <1>1, <2>1 DEF WellFormed, QueuesOf
  <2> QED
    BY <1>2, <2>2 DEF Promise!Deliver
<1>3. CASE queue.critical = <<>> /\ queue.latest_order # <<>>
  <2>1. queue' = EvictOldestLatest(queue)
    BY <1>1, <1>3 DEF AfterPop
  <2>2. Evicted(queue, queue')
    BY <1>1, <1>3, <2>1, EvictOldestFields
  <2> QED
    BY <1>3, <2>2, PromiseOperators DEF Promise!Deliver, Evicted
<1>4. CASE queue.critical = <<>> /\ queue.latest_order = <<>>
  <2>1. queue' = EvictBestEffort(queue)
    BY <1>1, <1>4 DEF AfterPop
  <2>2. /\ queue'.critical = queue.critical /\ queue'.latest = queue.latest
        /\ queue'.best_effort = Tail(queue.best_effort)
    BY <1>1, <2>1, EvictBestEffortFields
  <2>3. queue.latest = <<>>
    <3>1. DOMAIN queue.latest = {}
      BY <1>1, <1>4, EmptyOrder
    <3>2. PICK D \in SUBSET ScopedKeys : queue.latest \in [D -> Messages]
      BY <1>1 DEF WellFormed, QueuesOf
    <3> QED
      BY <3>1, <3>2, OnlyEmpty
  <2>4. queue.best_effort # <<>>
    <3>1. QueueLen(queue) = Len(queue.critical) + Len(queue.latest_order) + Len(queue.best_effort)
      BY <1>1, LenByOrder
    <3>2. QueueLen(queue) > 0
      BY DEF Pop
    <3>3. Len(queue.critical) = 0 /\ Len(queue.latest_order) = 0
      BY <1>4
    <3> QED
      BY <3>1, <3>2, <3>3
  <2> QED
    BY <1>4, <2>2, <2>3, <2>4 DEF Promise!Deliver
<1> QED
  BY <1>2, <1>3, <1>4

(* purge keeps the promise.                                                *)
LEMMA PurgePromised ==
  ASSUME IInv, NEW scope \in Scopes, PurgeScope(scope)
  PROVE  Promise!Forget(scope)
<1> DEFINE doomed == {m \in Pending(queue) : m.scope = scope}
           kept == Pending(queue) \ doomed
           latest == {k \in DOMAIN queue.latest : queue.latest[k] \in kept}
<1>1. WellFormed(queue, Messages, ScopedKeys) /\ queue' = Purge(queue, doomed)
  BY IInvWellFormed DEF PurgeScope
<1>2. Purged(queue, queue', kept, latest)
  <2> HIDE DEF doomed
  <2> QED
    BY <1>1, PurgeFields
<1>3. Retained(queue.critical, kept) =
         Retained(queue.critical, {m \in Range(queue.critical) : m.scope # scope})
  <2>1. \A i \in DOMAIN queue.critical :
           queue.critical[i] \in kept <=>
              queue.critical[i] \in {m \in Range(queue.critical) : m.scope # scope}
    BY DEF Pending, Range
  <2> QED
    BY <2>1, RetainedSame
<1>4. Retained(queue.best_effort, kept) =
         Retained(queue.best_effort, {m \in Range(queue.best_effort) : m.scope # scope})
  <2>1. \A i \in DOMAIN queue.best_effort :
           queue.best_effort[i] \in kept <=>
              queue.best_effort[i] \in {m \in Range(queue.best_effort) : m.scope # scope}
    BY DEF Pending, Range
  <2> QED
    BY <2>1, RetainedSame
<1>5. latest = {k \in DOMAIN queue.latest : queue.latest[k].scope # scope}
  BY DEF Pending, Range
<1> HIDE DEF doomed, kept, latest
<1> QED
  BY <1>2, <1>3, <1>4, <1>5, PromiseOperators DEF Purged, Promise!Forget, Promise!OthersIn

(* Every step of the queue is one the promise allows, or none.             *)
LEMMA NextPromised == IInv /\ IInv' /\ [Next]_vars => [Promise!Next]_(Promise!pvars)
<1> SUFFICES ASSUME IInv, IInv', [Next]_vars
             PROVE  Promise!Next \/ UNCHANGED Promise!pvars
  OBVIOUS
<1>1. ASSUME NEW class \in Classes, NEW scope \in Scopes,
             NEW key \in Keys \cup {NoKey}, PushMessage(class, scope, key)
      PROVE  Promise!Next \/ UNCHANGED Promise!pvars
  BY <1>1, PushPromised
<1>2. CASE Pop
  BY <1>2, PopPromised DEF Promise!Next
<1>3. CASE Drain
  <2>1. Promise!DeliverAll
    BY <1>3 DEF Drain, AfterDrain, EmptyQueue, Promise!DeliverAll
  <2> QED
    BY <2>1 DEF Promise!Next
<1>4. ASSUME NEW scope \in Scopes, PurgeScope(scope)
      PROVE  Promise!Next
  BY <1>4, PurgePromised DEF Promise!Next
<1>5. CASE UNCHANGED vars
  BY <1>5 DEF vars, Promise!pvars
<1> QED
  BY <1>1, <1>2, <1>3, <1>4, <1>5 DEF Next

(* The queue implements its promise.                                       *)
THEOREM QueuePromise == Spec => PromiseSpec
<1>1. Init => Promise!Init
  BY DEF Init, EmptyQueue, Promise!Init
<1> QED
  BY <1>1, NextPromised, QueueInvariant, PTL DEF Spec, PromiseSpec, Promise!Spec

-----------------------------------------------------------------------------
(* What a queue holds after a call, for those who hold many queues.        *)
Fewer(q, r) == Pending(r) \subseteq Pending(q) /\ r.exhausted = q.exhausted

(* Making room only takes messages away.                                   *)
LEMMA RoomHolds ==
  ASSUME NEW M, NEW K, NEW q, WellFormed(q, M, K), NEW s, RoomIn(q, s)
  PROVE  WellFormed(s, M, K) /\ Fewer(q, s)
<1>1. CASE q.latest_order # <<>> /\ s = EvictOldestLatest(q)
  <2>1. Evicted(q, s)
    BY <1>1, EvictOldestFields
  <2>2. WellFormed(s, M, K) /\ s.exhausted = q.exhausted
    BY <1>1, EvictOldestLatestProperties
  <2>3. Range(s.latest) \subseteq Range(q.latest)
    BY <2>1 DEF Evicted, Restrict, Range
  <2> QED
    BY <2>1, <2>2, <2>3 DEF Evicted, Fewer, Pending
<1>2. CASE q.best_effort # <<>> /\ s = EvictBestEffort(q)
  <2>1. /\ s.critical = q.critical /\ s.latest = q.latest
        /\ s.best_effort = Tail(q.best_effort)
    BY <1>2, EvictBestEffortFields
  <2>2. WellFormed(s, M, K) /\ s.exhausted = q.exhausted
    BY <1>2, EvictBestEffortProperties
  <2>3. Range(Tail(q.best_effort)) \subseteq Range(q.best_effort)
    <3>1. q.best_effort \in Seq(M)
      BY DEF WellFormed, QueuesOf
    <3>2. /\ DOMAIN Tail(q.best_effort) = 1..Len(q.best_effort) - 1
          /\ DOMAIN q.best_effort = 1..Len(q.best_effort) /\ Len(q.best_effort) \in Nat
          /\ \A i \in 1..Len(q.best_effort) - 1 : Tail(q.best_effort)[i] = q.best_effort[i + 1]
      BY <1>2, <3>1
    <3>3. \A i \in 1..Len(q.best_effort) - 1 : i + 1 \in 1..Len(q.best_effort)
      BY <3>2
    <3> QED
      BY <3>2, <3>3 DEF Range
  <2> QED
    BY <2>1, <2>2, <2>3 DEF Fewer, Pending
<1>3. CASE s = q
  BY <1>3 DEF Fewer
<1> QED
  BY <1>1, <1>2, <1>3 DEF RoomIn, MakeRoom

(* A push that is not refused adds at most its message and loses the rest  *)
(* of what is no longer there to an eviction or a newer value.             *)
LEMMA PushHolds ==
  ASSUME NEW M, NEW K, NEW q, WellFormed(q, M, K), NEW m \in M,
         m.class \in {"critical", "latest", "best_effort"}, ~CriticalRefused(q, m),
         NEW r, r = Push(q, m)
  PROVE  Pending(r) \subseteq Pending(q) \cup {m} /\ r.exhausted = q.exhausted
<1>a. ASSUME NEW e \in Seq(M) PROVE Range(Append(e, m)) = Range(e) \cup {m}
  <2>1. /\ DOMAIN Append(e, m) = 1..Len(e) + 1 /\ DOMAIN e = 1..Len(e) /\ Len(e) \in Nat
        /\ \A i \in 1..Len(e) : Append(e, m)[i] = e[i]
        /\ Append(e, m)[Len(e) + 1] = m
    OBVIOUS
  <2>2. 1..Len(e) + 1 = 1..Len(e) \cup {Len(e) + 1}
    BY <2>1
  <2> QED
    BY <2>1, <2>2 DEF Range
<1>1. CASE m.class = "critical"
  <2> DEFINE room == IF Full(q) THEN MakeRoom(q) ELSE q
  <2>1. r = [room EXCEPT !.critical = Append(@, m)]
    BY <1>1 DEF Push, PushCritical
  <2>2. WellFormed(room, M, K) /\ Fewer(q, room)
    BY RoomHolds DEF RoomIn
  <2> HIDE DEF room
  <2>3. /\ r.critical = Append(room.critical, m) /\ r.exhausted = room.exhausted
        /\ r.latest = room.latest /\ r.best_effort = room.best_effort
        /\ room.critical \in Seq(M)
    BY <2>1, <2>2 DEF WellFormed, QueuesOf
  <2>4. Range(r.critical) = Range(room.critical) \cup {m}
    BY <1>a, <2>3
  <2> QED
    BY <2>2, <2>3, <2>4 DEF Fewer, Pending
<1>2. CASE m.class = "latest"
  <2>1. r = PushLatest(q, m)
    BY <1>2 DEF Push
  <2>2. ASSUME NEW s, RoomIn(q, s), r = InsertLatest(s, m)
        PROVE  Pending(r) \subseteq Pending(q) \cup {m} /\ r.exhausted = q.exhausted
    <3>1. WellFormed(s, M, K) /\ Fewer(q, s)
      BY <2>2, RoomHolds
    <3>2. /\ r.critical = s.critical /\ r.best_effort = s.best_effort
          /\ r.exhausted = s.exhausted
          /\ r.latest = [k \in DOMAIN s.latest \cup {ScopedKey(m)} |->
                            IF k = ScopedKey(m) THEN m ELSE s.latest[k]]
      BY <2>2, <3>1 DEF InsertLatest, WellFormed, QueuesOf
    <3>3. Range(r.latest) \subseteq Range(s.latest) \cup {m}
      BY <3>2 DEF Range
    <3> QED
      BY <3>1, <3>2, <3>3 DEF Fewer, Pending
  <2>3. CASE r = q
    BY <2>3
  <2>4. CASE r = ReplaceLatest(q, m)
    <3>1. /\ r.critical = q.critical /\ r.best_effort = q.best_effort
          /\ r.exhausted = q.exhausted
          /\ r.latest = [q.latest EXCEPT ![ScopedKey(m)] = m]
      BY <2>4 DEF ReplaceLatest, WellFormed, QueuesOf
    <3>2. Range(r.latest) \subseteq Range(q.latest) \cup {m}
      BY <3>1 DEF Range
    <3> QED
      BY <3>1, <3>2 DEF Pending
  <2>5. CASE r # q /\ m.key # NoKey /\ ScopedKey(m) \notin DOMAIN q.latest
    <3>1. LatestCapacity # 0
      BY <2>1, <2>5 DEF PushLatest
    <3>2. CASE Cardinality(DOMAIN q.latest) = LatestCapacity
      <4>1. r = InsertLatest(EvictOldestLatest(q), m)
        BY <2>1, <2>5, <3>1, <3>2 DEF PushLatest
      <4>2. q.latest_order # <<>>
        <5>1. Cardinality(DOMAIN q.latest) = Len(q.latest_order)
          BY LenByOrder
        <5> QED
          BY <3>1, <3>2, <5>1
      <4> QED
        BY <2>2, <4>1, <4>2 DEF RoomIn
    <3>3. CASE Cardinality(DOMAIN q.latest) # LatestCapacity
      <4>1. r = InsertLatest(q, m) \/ r = InsertLatest(MakeRoom(q), m)
        BY <2>1, <2>5, <3>1, <3>3 DEF PushLatest
      <4> QED
        BY <2>2, <4>1 DEF RoomIn
    <3> QED
      BY <3>2, <3>3
  <2>6. \/ r = q \/ r = ReplaceLatest(q, m)
        \/ r # q /\ m.key # NoKey /\ ScopedKey(m) \notin DOMAIN q.latest
    BY <2>1 DEF PushLatest
  <2> QED
    BY <2>3, <2>4, <2>5, <2>6
<1>3. CASE m.class = "best_effort"
  <2>1. r = q \/ r = [q EXCEPT !.best_effort = Append(@, m)]
    BY <1>3 DEF Push, PushBestEffort
  <2>2. CASE r = q
    BY <2>2
  <2>3. CASE r = [q EXCEPT !.best_effort = Append(@, m)]
    <3>1. /\ r.critical = q.critical /\ r.exhausted = q.exhausted
          /\ r.latest = q.latest /\ r.best_effort = Append(q.best_effort, m)
          /\ q.best_effort \in Seq(M)
      BY <2>3 DEF WellFormed, QueuesOf
    <3>2. Range(r.best_effort) = Range(q.best_effort) \cup {m}
      BY <1>a, <3>1
    <3> QED
      BY <3>1, <3>2 DEF Pending
  <2> QED
    BY <2>1, <2>2, <2>3
<1> QED
  BY <1>1, <1>2, <1>3

(* purge leaves nothing that it was told to remove.                        *)
LEMMA PurgeHolds ==
  ASSUME NEW M, NEW K, NEW q, WellFormed(q, M, K), NEW doomed, NEW r, r = Purge(q, doomed)
  PROVE  Pending(r) \subseteq Pending(q) \ doomed /\ r.exhausted = q.exhausted
<1> DEFINE kept == Pending(q) \ doomed
           latest == {k \in DOMAIN q.latest : q.latest[k] \in kept}
<1>1. Purged(q, r, kept, latest)
  BY PurgeFields
<1>2. r.exhausted = q.exhausted
  BY DEF Purge, WellFormed, QueuesOf
<1>3. Range(r.latest) \subseteq kept
  BY <1>1 DEF Purged, Restrict, Range
<1> HIDE DEF kept, latest
<1>4. Range(r.critical) \subseteq kept /\ Range(r.best_effort) \subseteq kept
  BY <1>1, RetainedProperties DEF Purged, WellFormed, QueuesOf
<1> QED
  BY <1>2, <1>3, <1>4 DEF Pending, kept

(* What is well formed is so among more messages and more keys.            *)
LEMMA WellFormedWider ==
  ASSUME NEW M, NEW K, NEW q, WellFormed(q, M, K), NEW N, M \subseteq N, NEW L, K \subseteq L
  PROVE  WellFormed(q, N, L)
<1>1. PICK D \in SUBSET K : q.latest \in [D -> M]
  BY DEF WellFormed, QueuesOf
<1>2. q.latest \in [D -> N] /\ D \in SUBSET L
  BY <1>1
<1>3. q.latest \in UNION {[E -> N] : E \in SUBSET L}
  BY <1>2
<1>4. q.critical \in Seq(N) /\ q.best_effort \in Seq(N) /\ q.latest_order \in Seq(L)
  BY DEF WellFormed, QueuesOf
<1> QED
  BY <1>3, <1>4 DEF WellFormed, QueuesOf
=============================================================================
