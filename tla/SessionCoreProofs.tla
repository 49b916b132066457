-------------------------- MODULE SessionCoreProofs --------------------------
(***************************************************************************)
(* Proofs about the session core, for every number of connections, spaces  *)
(* and entities and every bound: each call keeps a session whole and       *)
(* orderly.                                                                *)
(*                                                                         *)
(* Whole is about the graph and has four parts.  Sane gives every field    *)
(* its domain; Mutual says that what is kept twice agrees; Rooted says     *)
(* that whatever is pointed at exists; Capped keeps journal and sequences  *)
(* within their capacities.  Calls that remove things share one cascade    *)
(* (Removal), calls that lose connections one parting (Parted), and each   *)
(* of the two is proved once, from the fields it writes.                   *)
(*                                                                         *)
(* Orderly is about what is held of the graph and stands on Whole.  Served *)
(* says that every queue is healthy and holds only what its owner          *)
(* subscribes to, Keeping that state and sequences are in scope and the    *)
(* state's bytes are counted.  A call either adds to the graph (Gentle),   *)
(* or removes some of it along with what is held of that (Cleared,         *)
(* Leaving), or publishes (Publishing), which only commits what is in      *)
(* scope and cuts off whoever cannot take it.                              *)
(***************************************************************************)
EXTENDS SessionCore, OutboundQueueProofs

(* v has the fields of a session's record.                                 *)
IsWorld(v) ==
    v \in [next_connection : {v.next_connection}, connected : {v.connected},
           authed : {v.authed}, memberships : {v.memberships},
           subscriptions : {v.subscriptions}, owned : {v.owned}, queue : {v.queue},
           members : {v.members}, spaces : {v.spaces}, tombstones : {v.tombstones},
           subscribers : {v.subscribers}, next_entity : {v.next_entity},
           entities : {v.entities}, sequences : {v.sequences}, state : {v.state},
           state_bytes : {v.state_bytes}, journal : {v.journal}]

(* Connections, spaces and entities are the same in u as in v.             *)
SameGraph(v, u) ==
    /\ IsWorld(u)
    /\ u.next_connection = v.next_connection /\ u.connected = v.connected
    /\ u.authed = v.authed /\ u.memberships = v.memberships
    /\ u.subscriptions = v.subscriptions /\ u.owned = v.owned
    /\ DOMAIN u.queue = DOMAIN v.queue /\ u.members = v.members
    /\ u.spaces = v.spaces /\ u.tombstones = v.tombstones
    /\ u.subscribers = v.subscribers
    /\ u.next_entity = v.next_entity /\ u.entities = v.entities

(* recompute_state_bytes and the retains touch the state and the sequences. *)
LEMMA Forgetting ==
  ASSUME NEW v, IsWorld(v), NEW gone, NEW u, u = Forget(v, gone)
  PROVE  SameGraph(v, u) /\ u.journal = v.journal /\ u.queue = v.queue
         /\ u.sequences = Drop(v.sequences, gone)
<1> DEFINE s == Drop(v.state, gone)
           q == Drop(v.sequences, gone)
           n == StoredBytes(s)
<1>1. u = [v EXCEPT !.state = s, !.state_bytes = n, !.sequences = q]
  BY DEF Forget
<1> HIDE DEF s, q, n
<1>2. IsWorld(u)
  BY <1>1 DEF IsWorld
<1>3. SameGraph(v, u) /\ u.journal = v.journal /\ u.queue = v.queue /\ u.sequences = q
  BY <1>1, <1>2 DEF IsWorld, SameGraph
<1> QED
  BY <1>3 DEF q

(* OutboundQueue::purge touches the queues only.                           *)
LEMMA Purging ==
  ASSUME NEW v, IsWorld(v), NEW gone, NEW u, u = PurgeAll(v, gone)
  PROVE  SameGraph(v, u) /\ u.journal = v.journal /\ u.sequences = v.sequences
<1> DEFINE q == [c \in DOMAIN v.queue |-> Purge(v.queue[c], gone)]
<1>1. u = [v EXCEPT !.queue = q]
  BY DEF PurgeAll
<1>0. DOMAIN q = DOMAIN v.queue
  OBVIOUS
<1> HIDE DEF q
<1>2. IsWorld(u)
  BY <1>1 DEF IsWorld
<1> QED
  BY <1>0, <1>1, <1>2 DEF IsWorld, SameGraph

-----------------------------------------------------------------------------
(* The spaces that fall with the entities of seed, and all that goes.      *)
Fallen(v, seed) == seed \cup EntitiesIn(v, FallingSpaces(v, seed))

(* The least set is one of those it is the least of: whatever hangs on a   *)
(* falling entity or a falling space falls.                                *)
LEMMA FallingClosed ==
  ASSUME NEW v, NEW seed, NEW x \in DOMAIN v.spaces,
         Undermined(v, seed, x, FallingSpaces(v, seed))
  PROVE  x \in FallingSpaces(v, seed)
<1> DEFINE F == FallingSpaces(v, seed)
<1>1. SUFFICES ASSUME NEW xs \in SUBSET DOMAIN v.spaces,
                      \A y \in DOMAIN v.spaces : Undermined(v, seed, y, xs) => y \in xs
      PROVE  x \in xs
  BY DEF FallingSpaces
<1>2. F \subseteq xs
  BY <1>1 DEF FallingSpaces
<1>3. Undermined(v, seed, x, xs)
  <2> HIDE DEF F
  <2>1. Undermined(v, seed, x, F)
    BY DEF F
  <2> QED
    BY <1>2, <2>1 DEF Undermined, EntitiesIn
<1> QED
  BY <1>1, <1>3

(* u is what is left of v when the entities of seed go.                    *)
Removal(v, u, seed) ==
    /\ IsWorld(u)
    /\ u.next_connection = v.next_connection /\ u.connected = v.connected
    /\ u.authed = v.authed /\ u.memberships = v.memberships
    /\ u.subscriptions = [c \in DOMAIN v.subscriptions |->
                             v.subscriptions[c] \ FallingSpaces(v, seed)]
    /\ u.owned = OwnedCounts(v, Fallen(v, seed))
    /\ DOMAIN u.queue = DOMAIN v.queue /\ u.members = v.members
    /\ u.spaces = Drop(v.spaces, FallingSpaces(v, seed))
    /\ u.tombstones = [x \in DOMAIN v.tombstones \cup FallingSpaces(v, seed) |->
                          IF x \in FallingSpaces(v, seed) THEN v.spaces[x].epoch
                                                          ELSE v.tombstones[x]]
    /\ u.subscribers = Drop(v.subscribers, FallingSpaces(v, seed))
    /\ u.next_entity = v.next_entity /\ u.entities = Drop(v.entities, Fallen(v, seed))
    /\ u.journal = v.journal
    /\ \E gone : u.sequences = Drop(v.sequences, gone)

(* remove_entities_and_anchored_spaces, field by field.                    *)
LEMMA Removing ==
  ASSUME NEW v, IsWorld(v), NEW seed, NEW u, u = RemoveEntities(v, seed)
  PROVE  Removal(v, u, seed)
<1> DEFINE S == FallingSpaces(v, seed)
           E == Fallen(v, seed)
           gone == {k \in Held(v) : k.space \in S \/ k.entity \in E}
           subscriptions == [c \in DOMAIN v.subscriptions |-> v.subscriptions[c] \ S]
           owned == OwnedCounts(v, E)
           spaces == Drop(v.spaces, S)
           tombstones == [x \in DOMAIN v.tombstones \cup S |->
                             IF x \in S THEN v.spaces[x].epoch ELSE v.tombstones[x]]
           subscribers == Drop(v.subscribers, S)
           entities == Drop(v.entities, E)
           g == [v EXCEPT !.entities = entities, !.spaces = spaces,
                          !.tombstones = tombstones, !.subscribers = subscribers,
                          !.owned = owned, !.subscriptions = subscriptions]
           f == Forget(g, gone)
<1>1. u = PurgeAll(f, gone)
  BY DEF RemoveEntities, Fallen
<1> HIDE DEF S, E, gone, subscriptions, owned, spaces, tombstones, subscribers, entities
<1>2. IsWorld(g)
  BY DEF IsWorld
<1>3. /\ g.next_connection = v.next_connection /\ g.connected = v.connected
      /\ g.authed = v.authed /\ g.memberships = v.memberships
      /\ g.subscriptions = subscriptions /\ g.owned = owned
      /\ DOMAIN g.queue = DOMAIN v.queue /\ g.members = v.members
      /\ g.spaces = spaces /\ g.tombstones = tombstones
      /\ g.subscribers = subscribers
      /\ g.next_entity = v.next_entity /\ g.entities = entities
      /\ g.journal = v.journal /\ g.sequences = v.sequences
  BY DEF IsWorld
<1> HIDE DEF g
<1>4. SameGraph(g, f) /\ f.journal = g.journal /\ f.sequences = Drop(g.sequences, gone)
  BY <1>2, Forgetting
<1> HIDE DEF f
<1>5. SameGraph(f, u) /\ u.journal = f.journal /\ u.sequences = f.sequences
  BY <1>1, <1>4, Purging DEF SameGraph
<1>6. /\ IsWorld(u)
      /\ u.next_connection = v.next_connection /\ u.connected = v.connected
      /\ u.authed = v.authed /\ u.memberships = v.memberships
      /\ u.subscriptions = subscriptions /\ u.owned = owned
      /\ DOMAIN u.queue = DOMAIN v.queue /\ u.members = v.members
      /\ u.spaces = spaces /\ u.tombstones = tombstones
      /\ u.subscribers = subscribers
      /\ u.next_entity = v.next_entity /\ u.entities = entities
      /\ u.journal = v.journal /\ u.sequences = Drop(v.sequences, gone)
  BY <1>3, <1>4, <1>5 DEF SameGraph
<1> QED
  BY <1>6 DEF Removal, S, E, subscriptions, owned, spaces, tombstones, subscribers, entities

-----------------------------------------------------------------------------
(* What SessionTyped says of connections, spaces and entities, of any       *)
(* record.                                                                  *)
Sane(v) ==
    /\ IsWorld(v)
    /\ v.next_connection \in Nat \ {0} /\ v.next_entity \in Nat \ {0}
    /\ v.authed \cup v.members \subseteq v.connected /\ v.memberships = v.members
    /\ v.connected \subseteq 1..v.next_connection - 1
    /\ v.subscriptions \in [v.connected -> SUBSET SpaceIds]
    /\ v.owned \in [v.connected -> Nat]
    /\ DOMAIN v.queue = v.connected
    /\ DOMAIN v.spaces \cup DOMAIN v.tombstones \subseteq SpaceIds
    /\ \A x \in DOMAIN v.spaces :
          v.spaces[x] \in [epoch : Epochs, parent : {v.spaces[x].parent}]
    /\ v.tombstones \in [DOMAIN v.tombstones -> Epochs]
    /\ v.subscribers \in [DOMAIN v.spaces -> SUBSET v.connected]
    /\ DOMAIN v.entities \subseteq 1..v.next_entity - 1
    /\ v.entities \in [DOMAIN v.entities ->
                           [owner : v.connected, space : SpaceIds, epoch : Epochs]]

(* Both sides of every relation.                                           *)
Mutual(v) ==
    \A c \in v.connected :
        /\ v.subscriptions[c] = {x \in DOMAIN v.spaces : c \in v.subscribers[x]}
        /\ v.subscriptions[c] # {} => c \in v.members
        /\ v.owned[c] = Cardinality(OwnedBy(v, c))

(* NothingDangles, of any record.                                          *)
Rooted(v) ==
    /\ \A e \in DOMAIN v.entities :
          /\ v.entities[e].owner \in v.members
          /\ v.entities[e].space \in DOMAIN v.spaces
          /\ v.entities[e].epoch = v.spaces[v.entities[e].space].epoch
    /\ \A x \in DOMAIN v.spaces :
          v.spaces[x].parent # NoParent =>
              /\ v.spaces[x].parent.space \in DOMAIN v.spaces
              /\ v.spaces[x].parent.anchor \in DOMAIN v.entities

(* The journal and the sequences are within their capacities.              *)
Capped(v) ==
    /\ \E M : v.journal \in Seq(M)
    /\ Len(v.journal) <= JournalCapacity
    /\ IsFiniteSet(DOMAIN v.sequences)
    /\ Cardinality(DOMAIN v.sequences) <= MaxSequenceKeys

(* The inductive invariant.                                                *)
Whole(v) == Sane(v) /\ Mutual(v) /\ Rooted(v) /\ Capped(v)

(* Epochs only advance from v to u.                                        *)
Onward(v, u) ==
    \A x \in SpaceIds :
        /\ LastEpoch(u, x) >= LastEpoch(v, x)
        /\ x \in DOMAIN u.spaces \ DOMAIN v.spaces => LastEpoch(u, x) > LastEpoch(v, x)

(* There are finitely many entities.                                       *)
LEMMA FewEntities ==
  ASSUME NEW v, Sane(v)
  PROVE  /\ IsFiniteSet(DOMAIN v.entities)
         /\ \A c : IsFiniteSet(OwnedBy(v, c)) /\ Cardinality(OwnedBy(v, c)) \in Nat
<1> DEFINE n == v.next_entity - 1
<1>1. IsFiniteSet(1..n)
  <2>1. n \in Int
    BY DEF Sane
  <2> HIDE DEF n
  <2> QED
    BY <2>1, FS_Interval
<1>2. IsFiniteSet(DOMAIN v.entities)
  <2>1. DOMAIN v.entities \in SUBSET (1..n)
    BY DEF Sane
  <2> QED
    BY <1>1, <2>1, FS_Subset
<1>3. ASSUME NEW c PROVE IsFiniteSet(OwnedBy(v, c)) /\ Cardinality(OwnedBy(v, c)) \in Nat
  <2>1. OwnedBy(v, c) \in SUBSET DOMAIN v.entities
    BY DEF OwnedBy
  <2> QED
    BY <1>2, <2>1, FS_Subset, FS_CardinalityType
<1> QED
  BY <1>2, <1>3

(* Retains only shrink what is within bounds.                              *)
LEMMA StillBounded ==
  ASSUME NEW v, NEW u, Capped(v), u.journal = v.journal,
         DOMAIN u.sequences \subseteq DOMAIN v.sequences
  PROVE  Capped(u)
<1>1. DOMAIN u.sequences \in SUBSET DOMAIN v.sequences
  OBVIOUS
<1>2. /\ IsFiniteSet(DOMAIN u.sequences)
      /\ Cardinality(DOMAIN u.sequences) <= Cardinality(DOMAIN v.sequences)
      /\ Cardinality(DOMAIN u.sequences) \in Nat /\ Cardinality(DOMAIN v.sequences) \in Nat
  BY <1>1, FS_Subset, FS_CardinalityType DEF Capped
<1> QED
  BY <1>2, ChannelAssumption DEF Capped

(* What is left of v without the spaces of S and the entities of E.        *)
Reduced(v, u, S, E) ==
    /\ S \subseteq DOMAIN v.spaces
    /\ u.connected = v.connected /\ u.members = v.members
    /\ DOMAIN u.spaces = DOMAIN v.spaces \ S
    /\ \A x \in DOMAIN u.spaces : u.spaces[x] = v.spaces[x]
    /\ DOMAIN u.subscribers = DOMAIN u.spaces
    /\ u.subscribers = [x \in DOMAIN u.spaces |-> v.subscribers[x]]
    /\ DOMAIN u.entities = DOMAIN v.entities \ E
    /\ u.entities = [e \in DOMAIN u.entities |-> v.entities[e]]
    /\ DOMAIN u.tombstones = DOMAIN v.tombstones \cup S
    /\ u.tombstones = [x \in DOMAIN u.tombstones |->
                          IF x \in S THEN v.spaces[x].epoch ELSE v.tombstones[x]]
    /\ u.owned = [c \in v.connected |->
                     v.owned[c] - Cardinality(OwnedBy(v, c) \cap E)]
    /\ u.subscriptions = [c \in v.connected |-> v.subscriptions[c] \ S]
    /\ DOMAIN u.sequences \subseteq DOMAIN v.sequences

(* What is left, point by point.                                           *)
LEMMA RemovalFields ==
  ASSUME NEW v, NEW seed, NEW u, Sane(v), Removal(v, u, seed),
         NEW S, S = FallingSpaces(v, seed), NEW E, E = Fallen(v, seed)
  PROVE  Reduced(v, u, S, E)
<1>1. S \subseteq DOMAIN v.spaces
  BY DEF FallingSpaces
<1>2. DOMAIN v.subscriptions = v.connected /\ DOMAIN v.owned = v.connected
      /\ DOMAIN v.subscribers = DOMAIN v.spaces
  BY DEF Sane
<1>3. u.connected = v.connected /\ u.members = v.members
      /\ u.spaces = Drop(v.spaces, S)
      /\ u.subscribers = Drop(v.subscribers, S)
      /\ u.entities = Drop(v.entities, E)
  BY DEF Removal
<1>4. u.tombstones = [x \in DOMAIN v.tombstones \cup S |->
                        IF x \in S THEN v.spaces[x].epoch ELSE v.tombstones[x]]
  BY DEF Removal
<1>5. u.owned = [c \in v.connected |-> v.owned[c] - Cardinality(OwnedBy(v, c) \cap E)]
  BY <1>2 DEF Removal, OwnedCounts
<1>6. u.subscriptions = [c \in v.connected |-> v.subscriptions[c] \ S]
  BY <1>2 DEF Removal
<1>7. DOMAIN u.sequences \subseteq DOMAIN v.sequences
  BY DEF Removal, Drop, Restrict
<1>8. /\ DOMAIN u.spaces = DOMAIN v.spaces \ S
      /\ \A x \in DOMAIN u.spaces : u.spaces[x] = v.spaces[x]
  BY <1>3 DEF Drop, Restrict
<1>9. /\ DOMAIN u.subscribers = DOMAIN u.spaces
      /\ u.subscribers = [x \in DOMAIN u.spaces |-> v.subscribers[x]]
  BY <1>2, <1>3, <1>8 DEF Drop, Restrict
<1>10. /\ DOMAIN u.entities = DOMAIN v.entities \ E
       /\ u.entities = [e \in DOMAIN u.entities |-> v.entities[e]]
  BY <1>3 DEF Drop, Restrict
<1>11. DOMAIN u.tombstones = DOMAIN v.tombstones \cup S
  BY <1>4
<1> QED
  BY <1>1, <1>3, <1>4, <1>5, <1>6, <1>7, <1>8, <1>9, <1>10, <1>11 DEF Reduced

(* What is counted off is no more than what was counted.                   *)
OwnedFalls(v, seed) ==
    \A c \in v.connected :
        v.owned[c] - Cardinality(OwnedBy(v, c) \cap Fallen(v, seed)) \in Nat

(* remove_entities_and_anchored_spaces keeps the types.                    *)
LEMMA RemovalSane ==
  ASSUME NEW v, NEW seed, NEW u, Sane(v), Removal(v, u, seed), OwnedFalls(v, seed)
  PROVE  Sane(u)
<1> DEFINE S == FallingSpaces(v, seed)
           E == Fallen(v, seed)
<1>a. S = FallingSpaces(v, seed) /\ E = Fallen(v, seed)
  OBVIOUS
<1> HIDE DEF S, E
<1>b. Reduced(v, u, S, E)
  BY <1>a, RemovalFields
<1>1. /\ S \subseteq DOMAIN v.spaces
      /\ u.connected = v.connected /\ u.members = v.members
      /\ DOMAIN u.spaces = DOMAIN v.spaces \ S
      /\ \A x \in DOMAIN u.spaces : u.spaces[x] = v.spaces[x]
      /\ u.subscribers = [x \in DOMAIN u.spaces |-> v.subscribers[x]]
      /\ DOMAIN u.entities = DOMAIN v.entities \ E
      /\ u.entities = [e \in DOMAIN u.entities |-> v.entities[e]]
      /\ DOMAIN u.tombstones = DOMAIN v.tombstones \cup S
      /\ u.tombstones = [x \in DOMAIN u.tombstones |->
                            IF x \in S THEN v.spaces[x].epoch ELSE v.tombstones[x]]
      /\ u.owned = [c \in v.connected |->
                       v.owned[c] - Cardinality(OwnedBy(v, c) \cap E)]
      /\ u.subscriptions = [c \in v.connected |-> v.subscriptions[c] \ S]
  BY <1>b DEF Reduced
<1>2. \A c \in v.connected : v.owned[c] - Cardinality(OwnedBy(v, c) \cap E) \in Nat
  BY <1>a DEF OwnedFalls
<1>3. u.subscriptions \in [u.connected -> SUBSET SpaceIds]
  BY <1>1 DEF Sane
<1>4. u.owned \in [u.connected -> Nat]
  BY <1>1, <1>2
<1>5. \A x \in DOMAIN u.spaces : u.spaces[x] \in [epoch : Epochs, parent : {u.spaces[x].parent}]
  BY <1>1 DEF Sane
<1>6. u.subscribers \in [DOMAIN u.spaces -> SUBSET u.connected]
  BY <1>1 DEF Sane
<1>7. u.entities \in [DOMAIN u.entities ->
                         [owner : u.connected, space : SpaceIds, epoch : Epochs]]
  <2>1. ASSUME NEW e \in DOMAIN u.entities
        PROVE  v.entities[e] \in [owner : u.connected, space : SpaceIds, epoch : Epochs]
    BY <1>1 DEF Sane
  <2> QED
    BY <1>1, <2>1
<1>8. u.tombstones \in [DOMAIN u.tombstones -> Epochs]
  <2>1. ASSUME NEW x \in DOMAIN u.tombstones
        PROVE  (IF x \in S THEN v.spaces[x].epoch ELSE v.tombstones[x]) \in Epochs
    BY <1>1 DEF Sane
  <2> QED
    BY <1>1, <2>1
<1>9. /\ IsWorld(u)
      /\ u.next_connection = v.next_connection /\ u.next_entity = v.next_entity
      /\ u.authed = v.authed /\ u.memberships = v.memberships
      /\ DOMAIN u.queue = DOMAIN v.queue
  BY DEF Removal
<1>10. DOMAIN u.spaces \cup DOMAIN u.tombstones \subseteq SpaceIds
  BY <1>1 DEF Sane
<1> QED
  BY <1>1, <1>3, <1>4, <1>5, <1>6, <1>7, <1>8, <1>9, <1>10 DEF Sane

(* It keeps both sides of the relations in agreement.                      *)
LEMMA RemovalMutual ==
  ASSUME NEW v, NEW seed, NEW u, Sane(v), Mutual(v), Removal(v, u, seed)
  PROVE  Mutual(u) /\ OwnedFalls(v, seed)
<1> DEFINE S == FallingSpaces(v, seed)
           E == Fallen(v, seed)
<1>a. S = FallingSpaces(v, seed) /\ E = Fallen(v, seed)
  OBVIOUS
<1> HIDE DEF S, E
<1>b. Reduced(v, u, S, E)
  BY <1>a, RemovalFields
<1>0. /\ u.connected = v.connected /\ u.members = v.members
      /\ DOMAIN u.spaces = DOMAIN v.spaces \ S
      /\ u.subscribers = [x \in DOMAIN u.spaces |-> v.subscribers[x]]
      /\ DOMAIN u.entities = DOMAIN v.entities \ E
      /\ u.entities = [e \in DOMAIN u.entities |-> v.entities[e]]
      /\ u.owned = [c \in v.connected |->
                       v.owned[c] - Cardinality(OwnedBy(v, c) \cap E)]
      /\ u.subscriptions = [c \in v.connected |-> v.subscriptions[c] \ S]
  BY <1>b DEF Reduced
<1>1. ASSUME NEW c \in v.connected
      PROVE  /\ v.owned[c] - Cardinality(OwnedBy(v, c) \cap E) = Cardinality(OwnedBy(u, c))
             /\ Cardinality(OwnedBy(u, c)) \in Nat
  <2> DEFINE O == OwnedBy(v, c)
  <2>1. OwnedBy(u, c) = O \ E
    BY <1>0 DEF OwnedBy
  <2>2. IsFiniteSet(O) /\ Cardinality(O) \in Nat /\ v.owned[c] = Cardinality(O)
    BY FewEntities DEF Mutual
  <2>0. O = OwnedBy(v, c)
    OBVIOUS
  <2> HIDE DEF O
  <2>3. /\ Cardinality(O \ E) = Cardinality(O) - Cardinality(O \cap E)
        /\ IsFiniteSet(O \ E) /\ Cardinality(O \ E) \in Nat
        /\ Cardinality(O \cap E) \in Nat
    <3>1. O \ E \in SUBSET O /\ O \cap E \in SUBSET O
      OBVIOUS
    <3>2. IsFiniteSet(O \ E) /\ IsFiniteSet(O \cap E)
      BY <2>2, <3>1, FS_Subset
    <3>3. (O \ E) \cup (O \cap E) = O /\ (O \ E) \cap (O \cap E) = {}
      OBVIOUS
    <3>4. Cardinality(O) = Cardinality(O \ E) + Cardinality(O \cap E) - Cardinality({})
      BY <3>2, <3>3, FS_Union
    <3>5. Cardinality({}) = 0 /\ Cardinality(O \ E) \in Nat /\ Cardinality(O \cap E) \in Nat
      BY <3>2, FS_EmptySet, FS_CardinalityType
    <3> QED
      BY <3>2, <3>4, <3>5
  <2> QED
    BY <2>0, <2>1, <2>2, <2>3
<1>2. OwnedFalls(v, seed)
  BY <1>1, <1>a DEF OwnedFalls
<1>4. ASSUME NEW c \in v.connected
      PROVE  /\ u.owned[c] = Cardinality(OwnedBy(u, c))
             /\ u.subscriptions[c] = v.subscriptions[c] \ S
  BY <1>0, <1>1
<1>6. ASSUME NEW c \in v.connected
      PROVE  /\ u.subscriptions[c] = {x \in DOMAIN u.spaces : c \in u.subscribers[x]}
             /\ u.subscriptions[c] # {} => c \in u.members
  <2>1. /\ v.subscriptions[c] = {x \in DOMAIN v.spaces : c \in v.subscribers[x]}
        /\ v.subscriptions[c] # {} => c \in v.members
    BY DEF Mutual
  <2> QED
    BY <1>0, <1>4, <2>1
<1> QED
  BY <1>0, <1>2, <1>4, <1>6 DEF Mutual

(* It leaves nothing dangling: what hangs on something gone is gone.       *)
LEMMA RemovalRooted ==
  ASSUME NEW v, NEW seed, NEW u, Sane(v), Rooted(v), Removal(v, u, seed)
  PROVE  Rooted(u)
<1> DEFINE S == FallingSpaces(v, seed)
           E == Fallen(v, seed)
<1>a. S = FallingSpaces(v, seed) /\ E = Fallen(v, seed)
  OBVIOUS
<1> HIDE DEF S, E
<1>b. Reduced(v, u, S, E)
  BY <1>a, RemovalFields
<1>1. /\ DOMAIN u.spaces = DOMAIN v.spaces \ S /\ DOMAIN u.entities = DOMAIN v.entities \ E
      /\ \A x \in DOMAIN u.spaces : u.spaces[x] = v.spaces[x]
      /\ \A e \in DOMAIN u.entities : u.entities[e] = v.entities[e]
      /\ u.members = v.members
  BY <1>b DEF Reduced
<1>2. \A e \in DOMAIN v.entities \ E : v.entities[e].space \notin S
  BY <1>a DEF Fallen, EntitiesIn
<1>3. ASSUME NEW x \in DOMAIN v.spaces \ S, v.spaces[x].parent # NoParent
      PROVE  v.spaces[x].parent.space \notin S /\ v.spaces[x].parent.anchor \notin E
  <2>1. ~Undermined(v, seed, x, S)
    BY <1>a, <1>3, FallingClosed
  <2> QED
    BY <1>a, <1>3, <2>1 DEF Undermined, Fallen
<1>4. ASSUME NEW e \in DOMAIN u.entities
      PROVE  /\ u.entities[e].owner \in u.members
             /\ u.entities[e].space \in DOMAIN u.spaces
             /\ u.entities[e].epoch = u.spaces[u.entities[e].space].epoch
  BY <1>1, <1>2 DEF Rooted
<1>5. ASSUME NEW x \in DOMAIN u.spaces, u.spaces[x].parent # NoParent
      PROVE  /\ u.spaces[x].parent.space \in DOMAIN u.spaces
             /\ u.spaces[x].parent.anchor \in DOMAIN u.entities
  BY <1>1, <1>3, <1>5 DEF Rooted
<1> QED
  BY <1>4, <1>5 DEF Rooted

(* Removed spaces leave their epochs behind.                               *)
LEMMA RemovalOnward ==
  ASSUME NEW v, NEW seed, NEW u, Sane(v), Removal(v, u, seed)
  PROVE  Onward(v, u) /\ DOMAIN u.spaces \subseteq DOMAIN v.spaces
<1> DEFINE S == FallingSpaces(v, seed)
           E == Fallen(v, seed)
<1>a. S = FallingSpaces(v, seed) /\ E = Fallen(v, seed)
  OBVIOUS
<1> HIDE DEF S, E
<1>b. Reduced(v, u, S, E)
  BY <1>a, RemovalFields
<1>1. S \subseteq DOMAIN v.spaces
  BY <1>b DEF Reduced
<1>2. /\ DOMAIN u.spaces = DOMAIN v.spaces \ S
      /\ \A x \in DOMAIN u.spaces : u.spaces[x] = v.spaces[x]
  BY <1>b DEF Reduced
<1>3. /\ DOMAIN u.tombstones = DOMAIN v.tombstones \cup S
      /\ \A x \in S : u.tombstones[x] = v.spaces[x].epoch
      /\ \A x \in DOMAIN v.tombstones \ S : u.tombstones[x] = v.tombstones[x]
  <2>1. /\ DOMAIN u.tombstones = DOMAIN v.tombstones \cup S
        /\ u.tombstones = [x \in DOMAIN u.tombstones |->
                              IF x \in S THEN v.spaces[x].epoch ELSE v.tombstones[x]]
    BY <1>b DEF Reduced
  <2> QED
    BY <2>1
<1>4. \A x \in DOMAIN v.spaces : v.spaces[x].epoch \in Int
  BY DEF Sane, Epochs
<1>5. \A x \in DOMAIN v.tombstones : v.tombstones[x] \in Int
  BY DEF Sane, Epochs
<1>6. ASSUME NEW x \in SpaceIds PROVE LastEpoch(u, x) >= LastEpoch(v, x)
  <2>1. CASE x \in DOMAIN v.spaces
    BY <1>1, <1>2, <1>3, <1>4, <2>1 DEF LastEpoch
  <2>2. CASE x \notin DOMAIN v.spaces
    BY <1>1, <1>2, <1>3, <1>5, <2>2 DEF LastEpoch
  <2> QED
    BY <2>1, <2>2
<1> QED
  BY <1>2, <1>6 DEF Onward

(* A removal keeps everything the core relies on, and lets epochs advance  *)
(* only.                                                                   *)
LEMMA RemovalWhole ==
  ASSUME NEW v, NEW seed, NEW u, Whole(v), u = RemoveEntities(v, seed)
  PROVE  Whole(u) /\ Onward(v, u) /\ Removal(v, u, seed)
<1>1. Removal(v, u, seed)
  BY Removing DEF Whole, Sane
<1>2. Mutual(u) /\ OwnedFalls(v, seed)
  BY <1>1, RemovalMutual DEF Whole
<1>3. Sane(u) /\ Rooted(u) /\ Onward(v, u)
  BY <1>1, <1>2, RemovalSane, RemovalRooted, RemovalOnward DEF Whole
<1>4. Capped(u)
  <2>1. u.journal = v.journal /\ DOMAIN u.sequences \subseteq DOMAIN v.sequences
    BY <1>1 DEF Removal, Drop, Restrict
  <2> QED
    BY <2>1, StillBounded DEF Whole
<1> QED
  BY <1>1, <1>2, <1>3, <1>4 DEF Whole

(* What the graph's parts say is the same of the same graph.               *)
LEMMA SameWhole ==
  ASSUME NEW v, NEW u, Sane(v), Mutual(v), Rooted(v), SameGraph(v, u)
  PROVE  Sane(u) /\ Mutual(u) /\ Rooted(u) /\ Onward(v, u)
<1>1. Sane(u)
  BY DEF Sane, SameGraph
<1>2. Mutual(u)
  BY DEF Mutual, SameGraph, OwnedBy
<1>3. Rooted(u)
  BY DEF Rooted, SameGraph
<1>4. \A x \in SpaceIds : LastEpoch(u, x) = LastEpoch(v, x) /\ LastEpoch(v, x) \in Int
  BY DEF LastEpoch, SameGraph, Sane, Epochs
<1>5. Onward(v, u)
  BY <1>4 DEF Onward, SameGraph
<1> QED
  BY <1>1, <1>2, <1>3, <1>5

(* The last epoch of a space is a natural number.                          *)
LEMMA EpochTyped ==
  ASSUME NEW v, Sane(v), NEW x
  PROVE  LastEpoch(v, x) \in Nat
BY DEF LastEpoch, Sane, Epochs

(* One advance after another is an advance.                                *)
LEMMA OnwardTransitive ==
  ASSUME NEW a, NEW b, NEW c, Sane(a), Sane(b), Sane(c), Onward(a, b), Onward(b, c)
  PROVE  Onward(a, c)
<1> SUFFICES ASSUME NEW x \in SpaceIds
    PROVE  /\ LastEpoch(c, x) >= LastEpoch(a, x)
           /\ x \in DOMAIN c.spaces \ DOMAIN a.spaces => LastEpoch(c, x) > LastEpoch(a, x)
  BY DEF Onward
<1>1. /\ LastEpoch(a, x) \in Nat /\ LastEpoch(b, x) \in Nat /\ LastEpoch(c, x) \in Nat
  BY EpochTyped
<1>2. /\ LastEpoch(b, x) >= LastEpoch(a, x) /\ LastEpoch(c, x) >= LastEpoch(b, x)
      /\ x \in DOMAIN b.spaces \ DOMAIN a.spaces => LastEpoch(b, x) > LastEpoch(a, x)
      /\ x \in DOMAIN c.spaces \ DOMAIN b.spaces => LastEpoch(c, x) > LastEpoch(b, x)
  BY DEF Onward
<1> QED
  BY <1>1, <1>2

-----------------------------------------------------------------------------
(* u is what is left of l when the connections of cs leave the session.    *)
Parted(l, u, cs) ==
    /\ IsWorld(u)
    /\ u.next_connection = l.next_connection /\ u.connected = l.connected
    /\ u.authed = l.authed /\ u.memberships = l.memberships \ cs
    /\ u.members = l.members \ cs
    /\ u.subscriptions = [c \in DOMAIN l.subscriptions |->
                             IF c \in cs THEN {} ELSE l.subscriptions[c]]
    /\ u.owned = l.owned /\ DOMAIN u.queue = DOMAIN l.queue
    /\ u.spaces = l.spaces /\ u.tombstones = l.tombstones
    /\ u.subscribers = [x \in DOMAIN l.subscribers |-> l.subscribers[x] \ cs]
    /\ u.next_entity = l.next_entity /\ u.entities = l.entities
    /\ u.journal = l.journal /\ DOMAIN u.sequences \subseteq DOMAIN l.sequences

(* Those who leave own nothing any more: nothing is left pointing at them. *)
LEMMA PartedWhole ==
  ASSUME NEW l, NEW u, NEW cs, Whole(l), Parted(l, u, cs),
         \A e \in DOMAIN l.entities : l.entities[e].owner \notin cs
  PROVE  Whole(u) /\ Onward(l, u)
<1>1. Sane(u)
  <2>1. u.subscriptions \in [u.connected -> SUBSET SpaceIds]
    BY DEF Whole, Sane, Parted
  <2>2. u.subscribers \in [DOMAIN u.spaces -> SUBSET u.connected]
    BY DEF Whole, Sane, Parted
  <2>3. u.authed \cup u.members \subseteq u.connected /\ u.memberships = u.members
    BY DEF Whole, Sane, Parted
  <2> QED
    BY <2>1, <2>2, <2>3 DEF Whole, Sane, Parted
<1>2. Mutual(u)
  <2> SUFFICES ASSUME NEW c \in l.connected
      PROVE  /\ u.subscriptions[c] = {x \in DOMAIN u.spaces : c \in u.subscribers[x]}
             /\ u.subscriptions[c] # {} => c \in u.members
             /\ u.owned[c] = Cardinality(OwnedBy(u, c))
    BY DEF Mutual, Parted
  <2>1. /\ l.subscriptions[c] = {x \in DOMAIN l.spaces : c \in l.subscribers[x]}
        /\ l.subscriptions[c] # {} => c \in l.members
        /\ l.owned[c] = Cardinality(OwnedBy(l, c))
    BY DEF Whole, Mutual
  <2>2. u.owned[c] = Cardinality(OwnedBy(u, c))
    BY <2>1 DEF Parted, OwnedBy
  <2>3. u.subscriptions[c] = IF c \in cs THEN {} ELSE l.subscriptions[c]
    BY DEF Whole, Sane, Parted
  <2>4. /\ DOMAIN u.spaces = DOMAIN l.spaces
        /\ \A x \in DOMAIN l.spaces : u.subscribers[x] = l.subscribers[x] \ cs
    BY DEF Whole, Sane, Parted
  <2>5. u.members = l.members \ cs
    BY DEF Parted
  <2> QED
    BY <2>1, <2>2, <2>3, <2>4, <2>5
<1>3. Rooted(u)
  BY DEF Whole, Rooted, Parted
<1>4. Capped(u)
  BY StillBounded DEF Whole, Parted
<1>5. \A x \in SpaceIds : LastEpoch(u, x) = LastEpoch(l, x) /\ LastEpoch(l, x) \in Nat
  BY EpochTyped DEF LastEpoch, Parted, Whole
<1>6. Onward(l, u)
  BY <1>5 DEF Onward, Parted
<1> QED
  BY <1>1, <1>2, <1>3, <1>4, <1>6 DEF Whole

(* detach_connection_from_session keeps everything the core relies on.     *)
LEMMA DetachWhole ==
  ASSUME NEW v, NEW cs, NEW u, Whole(v), u = Detach(v, cs)
  PROVE  /\ Whole(u) /\ Onward(v, u)
         /\ u.connected = v.connected /\ u.members = v.members \ cs
<1> DEFINE seed == UNION {OwnedBy(v, c) : c \in cs}
           l == RemoveEntities(v, seed)
           gone == {k \in DOMAIN l.sequences : k.connection \in cs}
           ms == l.members \ cs
           ns == l.memberships \ cs
           rs == [x \in DOMAIN l.subscribers |-> l.subscribers[x] \ cs]
           ss == [c \in DOMAIN l.subscriptions |->
                    IF c \in cs THEN {} ELSE l.subscriptions[c]]
           sq == Drop(l.sequences, gone)
           q == [c \in DOMAIN l.queue |->
                   IF c \in cs THEN Purge(l.queue[c], Pending(l.queue[c])) ELSE l.queue[c]]
<1>1. \A e \in DOMAIN v.entities : v.entities[e].owner \in cs => e \in seed
  <2>1. ASSUME NEW e \in DOMAIN v.entities, v.entities[e].owner \in cs PROVE e \in seed
    <3>1. e \in OwnedBy(v, v.entities[e].owner)
      BY DEF OwnedBy
    <3> QED
      BY <2>1, <3>1
  <2> QED
    BY <2>1
<1>2. u = [l EXCEPT !.members = ms, !.subscribers = rs, !.sequences = sq,
                    !.memberships = ns, !.subscriptions = ss, !.queue = q]
  BY DEF Detach
<1>3. DOMAIN q = DOMAIN l.queue /\ DOMAIN sq \subseteq DOMAIN l.sequences
  BY DEF Drop, Restrict
<1> HIDE DEF seed, ms, ns, rs, ss, sq, q
<1>4. Whole(l) /\ Onward(v, l) /\ Removal(v, l, seed)
  BY RemovalWhole
<1> HIDE DEF l
<1>5. Parted(l, u, cs)
  <2>1. IsWorld(l)
    BY <1>4 DEF Whole, Sane
  <2>3. IsWorld(u)
    BY <1>2, <2>1 DEF IsWorld
  <2>2. /\ u.next_connection = l.next_connection /\ u.connected = l.connected
        /\ u.authed = l.authed /\ u.memberships = ns /\ u.members = ms
        /\ u.subscriptions = ss /\ u.owned = l.owned /\ u.queue = q
        /\ u.spaces = l.spaces /\ u.tombstones = l.tombstones /\ u.subscribers = rs
        /\ u.next_entity = l.next_entity /\ u.entities = l.entities
        /\ u.journal = l.journal /\ u.sequences = sq
    BY <1>2, <2>1 DEF IsWorld
  <2> QED
    BY <1>3, <2>2, <2>3 DEF Parted, ms, ns, rs, ss
<1>6. \A e \in DOMAIN l.entities : l.entities[e].owner \notin cs
  <2>1. /\ DOMAIN l.entities = DOMAIN v.entities \ Fallen(v, seed)
        /\ \A e \in DOMAIN l.entities : l.entities[e] = v.entities[e]
    BY <1>4 DEF Removal, Drop, Restrict
  <2> QED
    BY <1>1, <2>1 DEF Fallen
<1>7. Whole(u) /\ Onward(l, u)
  BY <1>4, <1>5, <1>6, PartedWhole
<1>8. Onward(v, u)
  BY <1>4, <1>7, OnwardTransitive DEF Whole
<1>9. u.connected = v.connected /\ u.members = v.members \ cs
  BY <1>4, <1>5 DEF Removal, Parted
<1> QED
  BY <1>7, <1>8, <1>9

(* u is what is left of l when the connections of cs are closed.           *)
Vanished(l, u, cs) ==
    /\ IsWorld(u)
    /\ u.next_connection = l.next_connection /\ u.connected = l.connected \ cs
    /\ u.authed = l.authed \ cs /\ u.memberships = l.memberships
    /\ u.members = l.members
    /\ u.subscriptions = Drop(l.subscriptions, cs) /\ u.owned = Drop(l.owned, cs)
    /\ u.queue = Drop(l.queue, cs)
    /\ u.spaces = l.spaces /\ u.tombstones = l.tombstones
    /\ u.subscribers = l.subscribers
    /\ u.next_entity = l.next_entity /\ u.entities = l.entities
    /\ u.journal = l.journal /\ u.sequences = l.sequences

(* The session knows nothing of connections that are not its members.      *)
LEMMA VanishedWhole ==
  ASSUME NEW l, NEW u, NEW cs, Whole(l), Vanished(l, u, cs), l.members \cap cs = {}
  PROVE  Whole(u) /\ Onward(l, u)
<1>0. /\ DOMAIN l.subscriptions = l.connected /\ DOMAIN l.owned = l.connected
      /\ DOMAIN l.queue = l.connected
  BY DEF Whole, Sane
<1>1. /\ u.subscriptions = [c \in u.connected |-> l.subscriptions[c]]
      /\ u.owned = [c \in u.connected |-> l.owned[c]]
      /\ DOMAIN u.queue = u.connected
  BY <1>0 DEF Vanished, Drop, Restrict
<1>2. ASSUME NEW x \in DOMAIN l.spaces PROVE l.subscribers[x] \subseteq u.connected
  <2>1. ASSUME NEW c \in l.subscribers[x] PROVE c \in l.members
    <3>1. c \in l.connected
      BY DEF Whole, Sane
    <3> QED
      BY <3>1 DEF Whole, Mutual
  <2> QED
    BY <2>1 DEF Whole, Sane, Vanished
<1>3. Sane(u)
  <2>1. u.subscriptions \in [u.connected -> SUBSET SpaceIds] /\ u.owned \in [u.connected -> Nat]
    BY <1>1 DEF Whole, Sane, Vanished
  <2>2. u.subscribers \in [DOMAIN u.spaces -> SUBSET u.connected]
    BY <1>2 DEF Whole, Sane, Vanished
  <2>3. /\ u.authed \cup u.members \subseteq u.connected
        /\ u.connected \subseteq 1..u.next_connection - 1
    BY DEF Whole, Sane, Vanished
  <2>4. ASSUME NEW e \in DOMAIN u.entities
        PROVE  u.entities[e] \in [owner : u.connected, space : SpaceIds, epoch : Epochs]
    <3>1. l.entities[e] \in [owner : l.connected, space : SpaceIds, epoch : Epochs]
      BY DEF Whole, Sane, Vanished
    <3>2. l.entities[e].owner \in u.connected
      BY DEF Whole, Sane, Rooted, Vanished
    <3> QED
      BY <3>1, <3>2 DEF Vanished
  <2>5. u.entities \in [DOMAIN u.entities ->
                           [owner : u.connected, space : SpaceIds, epoch : Epochs]]
    <3>1. u.entities = [e \in DOMAIN u.entities |-> u.entities[e]]
      BY DEF Whole, Sane, Vanished
    <3> QED
      BY <2>4, <3>1
  <2> QED
    BY <1>1, <2>1, <2>2, <2>3, <2>5 DEF Whole, Sane, Vanished
<1>4. Mutual(u)
  <2> SUFFICES ASSUME NEW c \in u.connected
      PROVE  /\ u.subscriptions[c] = {x \in DOMAIN u.spaces : c \in u.subscribers[x]}
             /\ u.subscriptions[c] # {} => c \in u.members
             /\ u.owned[c] = Cardinality(OwnedBy(u, c))
    BY DEF Mutual
  <2>1. /\ l.subscriptions[c] = {x \in DOMAIN l.spaces : c \in l.subscribers[x]}
        /\ l.subscriptions[c] # {} => c \in l.members
        /\ l.owned[c] = Cardinality(OwnedBy(l, c))
    BY DEF Whole, Mutual, Vanished
  <2>2. OwnedBy(u, c) = OwnedBy(l, c)
    BY DEF Vanished, OwnedBy
  <2>3. u.subscriptions[c] = l.subscriptions[c] /\ u.owned[c] = l.owned[c]
    BY <1>1
  <2> QED
    BY <2>1, <2>2, <2>3 DEF Vanished
<1>5. Rooted(u)
  BY DEF Whole, Rooted, Vanished
<1>6. Capped(u)
  BY StillBounded DEF Whole, Vanished
<1>7. \A x \in SpaceIds : LastEpoch(u, x) = LastEpoch(l, x) /\ LastEpoch(l, x) \in Nat
  BY EpochTyped DEF LastEpoch, Vanished, Whole
<1>8. Onward(l, u)
  BY <1>7 DEF Onward, Vanished
<1> QED
  BY <1>3, <1>4, <1>5, <1>6, <1>8 DEF Whole

(* transport_lost: the members leave, then all the connections close.      *)
LEMMA DisconnectWhole ==
  ASSUME NEW v, NEW cs, NEW u, Whole(v), u = Disconnect(v, cs)
  PROVE  Whole(u) /\ Onward(v, u)
<1> DEFINE ms == cs \cap v.memberships
           l == IF ms = {} THEN v ELSE Detach(v, ms)
           a == l.connected \ cs
           b == l.authed \ cs
           d == Drop(l.subscriptions, cs)
           o == Drop(l.owned, cs)
           q == Drop(l.queue, cs)
<1>1. u = [l EXCEPT !.connected = a, !.authed = b, !.subscriptions = d, !.owned = o,
                    !.queue = q]
  BY DEF Disconnect
<1> HIDE DEF a, b, d, o, q
<1>2. Whole(l) /\ Onward(v, l) /\ l.members = v.members \ ms
  <2>1. CASE ms = {}
    <3>1. \A x \in SpaceIds : LastEpoch(v, x) \in Nat
      BY EpochTyped DEF Whole
    <3> QED
      BY <2>1, <3>1 DEF Onward
  <2>2. CASE ms # {}
    BY <2>2, DetachWhole
  <2> QED
    BY <2>1, <2>2
<1> HIDE DEF l
<1>3. l.members \cap cs = {}
  BY <1>2 DEF Whole, Sane, ms
<1> HIDE DEF ms
<1>4. Vanished(l, u, cs)
  <2>1. IsWorld(l)
    BY <1>2 DEF Whole, Sane
  <2>2. IsWorld(u)
    BY <1>1, <2>1 DEF IsWorld
  <2>3. /\ u.next_connection = l.next_connection /\ u.connected = a
        /\ u.authed = b /\ u.memberships = l.memberships
        /\ u.members = l.members /\ u.subscriptions = d /\ u.owned = o /\ u.queue = q
        /\ u.spaces = l.spaces /\ u.tombstones = l.tombstones
        /\ u.subscribers = l.subscribers
        /\ u.next_entity = l.next_entity /\ u.entities = l.entities
        /\ u.journal = l.journal /\ u.sequences = l.sequences
    BY <1>1, <2>1 DEF IsWorld
  <2> QED
    BY <2>2, <2>3 DEF Vanished, a, b, d, o, q
<1>5. Whole(u) /\ Onward(l, u)
  BY <1>2, <1>3, <1>4, VanishedWhole
<1> QED
  BY <1>2, <1>5, OnwardTransitive DEF Whole

-----------------------------------------------------------------------------
(* transport_connected brings a connection nobody knows.                   *)
LEMMA ConnectWhole ==
  ASSUME NEW v, NEW u, Whole(v), u = Connect(v)
  PROVE  Whole(u) /\ Onward(v, u)
<1> DEFINE c == v.next_connection
           ss == Insert(v.subscriptions, c, {})
           o == Insert(v.owned, c, 0)
           q == Insert(v.queue, c, EmptyQueue)
           cs == v.connected \cup {c}
           n == c + 1
<1>1. u = [v EXCEPT !.next_connection = n, !.connected = cs, !.subscriptions = ss,
                    !.owned = o, !.queue = q]
  BY DEF Connect
<1>2. /\ c = v.next_connection /\ n = c + 1 /\ cs = v.connected \cup {c}
      /\ ss = [y \in cs |-> IF y = c THEN {} ELSE v.subscriptions[y]]
      /\ o = [y \in cs |-> IF y = c THEN 0 ELSE v.owned[y]]
      /\ DOMAIN q = cs
  BY DEF Insert, Whole, Sane
<1> HIDE DEF c, ss, o, q, cs, n
<1>3. IsWorld(u)
  BY <1>1 DEF IsWorld, Whole, Sane
<1>4. /\ u.next_connection = n /\ u.connected = cs
      /\ u.authed = v.authed /\ u.memberships = v.memberships
      /\ u.members = v.members /\ u.subscriptions = ss /\ u.owned = o /\ u.queue = q
      /\ u.spaces = v.spaces /\ u.tombstones = v.tombstones
      /\ u.subscribers = v.subscribers
      /\ u.next_entity = v.next_entity /\ u.entities = v.entities
      /\ u.journal = v.journal /\ u.sequences = v.sequences
  BY <1>1 DEF IsWorld, Whole, Sane
<1>5. c \notin v.connected
  BY <1>2 DEF Whole, Sane
<1>6. Sane(u)
  <2>1. u.subscriptions \in [u.connected -> SUBSET SpaceIds] /\ u.owned \in [u.connected -> Nat]
    BY <1>2, <1>4 DEF Whole, Sane
  <2>2. u.subscribers \in [DOMAIN u.spaces -> SUBSET u.connected]
    BY <1>2, <1>4 DEF Whole, Sane
  <2>3. /\ u.authed \cup u.members \subseteq u.connected
        /\ u.connected \subseteq 1..u.next_connection - 1
        /\ u.next_connection \in Nat \ {0}
    BY <1>2, <1>4 DEF Whole, Sane
  <2>4. u.entities \in [DOMAIN u.entities ->
                           [owner : u.connected, space : SpaceIds, epoch : Epochs]]
    BY <1>2, <1>4 DEF Whole, Sane
  <2> QED
    BY <1>2, <1>3, <1>4, <2>1, <2>2, <2>3, <2>4 DEF Whole, Sane
<1>7. Mutual(u)
  <2> SUFFICES ASSUME NEW b \in cs
      PROVE  /\ u.subscriptions[b] = {x \in DOMAIN u.spaces : b \in u.subscribers[x]}
             /\ u.subscriptions[b] # {} => b \in u.members
             /\ u.owned[b] = Cardinality(OwnedBy(u, b))
    BY <1>4 DEF Mutual
  <2>1. OwnedBy(u, b) = OwnedBy(v, b)
    BY <1>4 DEF OwnedBy
  <2>2. CASE b = c
    <3>1. \A x \in DOMAIN u.spaces : b \notin u.subscribers[x]
      BY <1>4, <1>5, <2>2 DEF Whole, Sane
    <3>2. OwnedBy(v, b) = {}
      BY <1>5, <2>2 DEF Whole, Sane, OwnedBy
    <3>3. u.subscriptions[b] = {} /\ u.owned[b] = 0
      BY <1>2, <1>4, <2>2
    <3>4. Cardinality(OwnedBy(u, b)) = 0
      BY <2>1, <3>2, FS_EmptySet
    <3>5. u.subscriptions[b] = {x \in DOMAIN u.spaces : b \in u.subscribers[x]}
      BY <3>1, <3>3
    <3> QED
      BY <3>3, <3>4, <3>5
  <2>3. CASE b \in v.connected
    <3>1. u.subscriptions[b] = v.subscriptions[b] /\ u.owned[b] = v.owned[b]
      BY <1>2, <1>4, <1>5, <2>3
    <3> QED
      BY <1>4, <2>1, <2>3, <3>1 DEF Whole, Mutual
  <2> QED
    BY <1>2, <2>2, <2>3
<1>8. Rooted(u) /\ Capped(u)
  BY <1>4 DEF Whole, Rooted, Capped
<1>9. \A x \in SpaceIds : LastEpoch(u, x) = LastEpoch(v, x) /\ LastEpoch(v, x) \in Nat
  BY <1>4, EpochTyped DEF LastEpoch, Whole
<1>10. Onward(v, u)
  BY <1>4, <1>9 DEF Onward
<1> QED
  BY <1>6, <1>7, <1>8, <1>10 DEF Whole

(* A connection's own standing: authentication and membership.             *)
LEMMA StandingWhole ==
  ASSUME NEW v, NEW u, Whole(v), NEW a, NEW ms,
         v.authed \subseteq a, a \subseteq v.connected,
         v.members \subseteq ms, ms \subseteq v.connected,
         u = [v EXCEPT !.authed = a, !.memberships = ms, !.members = ms]
  PROVE  Whole(u) /\ Onward(v, u)
<1>1. IsWorld(u)
  BY DEF IsWorld, Whole, Sane
<1>2. /\ u.next_connection = v.next_connection /\ u.connected = v.connected
      /\ u.authed = a /\ u.memberships = ms
      /\ u.members = ms /\ u.subscriptions = v.subscriptions /\ u.owned = v.owned
      /\ u.queue = v.queue /\ u.spaces = v.spaces /\ u.tombstones = v.tombstones
      /\ u.subscribers = v.subscribers
      /\ u.next_entity = v.next_entity /\ u.entities = v.entities
      /\ u.journal = v.journal /\ u.sequences = v.sequences
  BY DEF IsWorld, Whole, Sane
<1>3. Sane(u)
  BY <1>1, <1>2 DEF Whole, Sane
<1>4. Mutual(u)
  <2>1. ASSUME NEW c \in v.connected
        PROVE  /\ v.subscriptions[c] = {x \in DOMAIN v.spaces : c \in v.subscribers[x]}
               /\ v.subscriptions[c] # {} => c \in v.members
               /\ v.owned[c] = Cardinality(OwnedBy(v, c))
    BY DEF Whole, Mutual
  <2>2. ASSUME NEW c PROVE OwnedBy(u, c) = OwnedBy(v, c)
    BY <1>2 DEF OwnedBy
  <2> QED
    BY <1>2, <2>1, <2>2 DEF Mutual
<1>5. Rooted(u) /\ Capped(u)
  BY <1>2 DEF Whole, Rooted, Capped
<1>6. \A x \in SpaceIds : LastEpoch(u, x) = LastEpoch(v, x) /\ LastEpoch(v, x) \in Nat
  BY <1>2, EpochTyped DEF LastEpoch, Whole
<1>7. Onward(v, u)
  BY <1>2, <1>6 DEF Onward
<1> QED
  BY <1>3, <1>4, <1>5, <1>7 DEF Whole

(* x is noted in, or struck from, what c and the session list.             *)
Noted(v, c, x, ss, rs) ==
    \/ /\ ss = [v.subscriptions EXCEPT ![c] = @ \cup {x}]
       /\ rs = [v.subscribers EXCEPT ![x] = @ \cup {c}]
    \/ /\ ss = [v.subscriptions EXCEPT ![c] = @ \ {x}]
       /\ rs = [v.subscribers EXCEPT ![x] = @ \ {c}]

(* A member's subscription is noted on both sides, or struck from both.    *)
LEMMA SubscriptionWhole ==
  ASSUME NEW v, NEW u, Whole(v), NEW c \in v.members, NEW x \in DOMAIN v.spaces,
         NEW ss, NEW rs, NEW q, DOMAIN q = DOMAIN v.queue,
         Noted(v, c, x, ss, rs),
         u = [v EXCEPT !.subscriptions = ss, !.subscribers = rs, !.queue = q]
  PROVE  Whole(u) /\ Onward(v, u)
<1>1. IsWorld(u)
  BY DEF IsWorld, Whole, Sane
<1>2. /\ u.next_connection = v.next_connection /\ u.connected = v.connected
      /\ u.authed = v.authed /\ u.memberships = v.memberships
      /\ u.members = v.members /\ u.subscriptions = ss /\ u.owned = v.owned
      /\ u.queue = q /\ u.spaces = v.spaces /\ u.tombstones = v.tombstones
      /\ u.subscribers = rs
      /\ u.next_entity = v.next_entity /\ u.entities = v.entities
      /\ u.journal = v.journal /\ u.sequences = v.sequences
  BY DEF IsWorld, Whole, Sane
<1>3. /\ c \in v.connected /\ x \in SpaceIds
      /\ v.subscriptions \in [v.connected -> SUBSET SpaceIds]
      /\ v.subscribers \in [DOMAIN v.spaces -> SUBSET v.connected]
  BY DEF Whole, Sane
<1>4. /\ ss \in [v.connected -> SUBSET SpaceIds]
      /\ rs \in [DOMAIN v.spaces -> SUBSET v.connected]
  BY <1>3 DEF Noted
<1>5. Sane(u)
  BY <1>1, <1>2, <1>4 DEF Whole, Sane
<1>6. Mutual(u)
  <2> SUFFICES ASSUME NEW b \in v.connected
      PROVE  /\ ss[b] = {y \in DOMAIN v.spaces : b \in rs[y]}
             /\ ss[b] # {} => b \in v.members
             /\ u.owned[b] = Cardinality(OwnedBy(u, b))
    BY <1>2 DEF Mutual
  <2>1. /\ v.subscriptions[b] = {y \in DOMAIN v.spaces : b \in v.subscribers[y]}
        /\ v.subscriptions[b] # {} => b \in v.members
        /\ v.owned[b] = Cardinality(OwnedBy(v, b))
    BY DEF Whole, Mutual
  <2>2. u.owned[b] = Cardinality(OwnedBy(u, b))
    BY <1>2, <2>1 DEF OwnedBy
  <2>3. /\ ss[b] = {y \in DOMAIN v.spaces : b \in rs[y]}
        /\ ss[b] # {} => b \in v.members
    <3>1. CASE /\ ss = [v.subscriptions EXCEPT ![c] = @ \cup {x}]
               /\ rs = [v.subscribers EXCEPT ![x] = @ \cup {c}]
      <4>1. /\ ss[b] = IF b = c THEN v.subscriptions[b] \cup {x} ELSE v.subscriptions[b]
            /\ \A y \in DOMAIN v.spaces :
                  rs[y] = IF y = x THEN v.subscribers[y] \cup {c} ELSE v.subscribers[y]
        BY <1>3, <3>1
      <4>2. CASE b = c
        <5>1. ss[b] = v.subscriptions[b] \cup {x}
          BY <4>1, <4>2
        <5>2. \A y \in DOMAIN v.spaces : b \in rs[y] <=> y = x \/ b \in v.subscribers[y]
          BY <4>1, <4>2
        <5> QED
          BY <2>1, <4>2, <5>1, <5>2
      <4>3. CASE b # c
        BY <2>1, <4>1, <4>3
      <4> QED
        BY <4>2, <4>3
    <3>2. CASE /\ ss = [v.subscriptions EXCEPT ![c] = @ \ {x}]
               /\ rs = [v.subscribers EXCEPT ![x] = @ \ {c}]
      <4>1. /\ ss[b] = IF b = c THEN v.subscriptions[b] \ {x} ELSE v.subscriptions[b]
            /\ \A y \in DOMAIN v.spaces :
                  rs[y] = IF y = x THEN v.subscribers[y] \ {c} ELSE v.subscribers[y]
        BY <1>3, <3>2
      <4>2. CASE b = c
        <5>1. ss[b] = v.subscriptions[b] \ {x}
          BY <4>1, <4>2
        <5>2. \A y \in DOMAIN v.spaces : b \in rs[y] <=> y # x /\ b \in v.subscribers[y]
          BY <4>1, <4>2
        <5> QED
          BY <2>1, <4>2, <5>1, <5>2
      <4>3. CASE b # c
        BY <2>1, <4>1, <4>3
      <4> QED
        BY <4>2, <4>3
    <3> QED
      BY <3>1, <3>2 DEF Noted
  <2> QED
    BY <2>1, <2>2, <2>3
<1>7. Rooted(u) /\ Capped(u)
  BY <1>2 DEF Whole, Rooted, Capped
<1>8. \A y \in SpaceIds : LastEpoch(u, y) = LastEpoch(v, y) /\ LastEpoch(v, y) \in Nat
  BY <1>2, EpochTyped DEF LastEpoch, Whole
<1>9. Onward(v, u)
  BY <1>2, <1>8 DEF Onward
<1> QED
  BY <1>5, <1>6, <1>7, <1>9 DEF Whole

(* subscribe and unsubscribe.                                              *)
LEMMA SubscribeWhole ==
  ASSUME NEW v, NEW u, Whole(v), NEW c, NEW x, CanSubscribe(v, c, x),
         u = Subscribe(v, c, x)
  PROVE  Whole(u) /\ Onward(v, u)
<1> DEFINE ss == [v.subscriptions EXCEPT ![c] = @ \cup {x}]
           rs == [v.subscribers EXCEPT ![x] = @ \cup {c}]
           q == v.queue
<1>0. Noted(v, c, x, ss, rs) /\ DOMAIN q = DOMAIN v.queue
  BY DEF Noted
<1>1. c \in v.members /\ x \in DOMAIN v.spaces
  BY DEF CanSubscribe, Whole, Sane
<1>2. u = [v EXCEPT !.subscriptions = ss, !.subscribers = rs, !.queue = q]
  BY DEF Subscribe, Whole, Sane, IsWorld
<1> HIDE DEF ss, rs, q
<1> QED
  BY <1>0, <1>1, <1>2, SubscriptionWhole

(* Leaving a space the connection is subscribed to.                        *)
LEMMA UnsubscribeWhole ==
  ASSUME NEW v, NEW u, Whole(v), NEW c \in v.connected, NEW x \in v.subscriptions[c],
         u = Unsubscribe(v, c, x)
  PROVE  Whole(u) /\ Onward(v, u)
<1> DEFINE ss == [v.subscriptions EXCEPT ![c] = @ \ {x}]
           rs == [v.subscribers EXCEPT ![x] = @ \ {c}]
           q == [v.queue EXCEPT ![c] = Purge(@, {m \in Pending(@) : m.space = x})]
<1>1. c \in v.members /\ x \in DOMAIN v.spaces
  BY DEF Whole, Mutual
<1>2. rs = [y \in DOMAIN v.subscribers |-> IF y = x THEN v.subscribers[y] \ {c}
                                                   ELSE v.subscribers[y]]
  BY <1>1 DEF Whole, Sane
<1>3. u = [v EXCEPT !.subscriptions = ss, !.subscribers = rs, !.queue = q]
  BY <1>2 DEF Unsubscribe
<1>4. Noted(v, c, x, ss, rs) /\ DOMAIN q = DOMAIN v.queue
  BY DEF Noted
<1> HIDE DEF ss, rs, q
<1> QED
  BY <1>1, <1>3, <1>4, SubscriptionWhole

(* spawn_entity counts the new entity with its owner's.                    *)
LEMMA SpawnWhole ==
  ASSUME NEW v, NEW u, Whole(v), NEW c, NEW x, CanSpawn(v, c, x), u = Spawn(v, c, x)
  PROVE  Whole(u) /\ Onward(v, u)
<1> DEFINE e == v.next_entity
           new == [owner |-> c, space |-> x, epoch |-> v.spaces[x].epoch]
           es == Insert(v.entities, e, new)
           o == [v.owned EXCEPT ![c] = @ + 1]
           n == v.next_entity + 1
<1>1. u = [v EXCEPT !.next_entity = n, !.entities = es, !.owned = o]
  BY DEF Spawn
<1>2. /\ c \in v.members /\ c \in v.connected /\ x \in DOMAIN v.spaces /\ x \in SpaceIds
      /\ v.owned \in [v.connected -> Nat]
      /\ v.spaces[x].epoch \in Epochs
  BY DEF CanSpawn, MayWrite, Whole, Sane
<1>3. /\ e = v.next_entity /\ n = e + 1 /\ e \in Nat \ {0}
      /\ DOMAIN v.entities \subseteq 1..e - 1
      /\ new \in [owner : v.connected, space : SpaceIds, epoch : Epochs]
      /\ new.owner = c /\ new.space = x /\ new.epoch = v.spaces[x].epoch
      /\ DOMAIN es = DOMAIN v.entities \cup {e}
      /\ es = [y \in DOMAIN v.entities \cup {e} |-> IF y = e THEN new ELSE v.entities[y]]
      /\ o = [b \in v.connected |-> IF b = c THEN v.owned[b] + 1 ELSE v.owned[b]]
  BY <1>2 DEF Insert, Whole, Sane
<1> HIDE DEF e, new, es, o, n
<1>4. IsWorld(u)
  BY <1>1 DEF IsWorld, Whole, Sane
<1>5. /\ u.next_connection = v.next_connection /\ u.connected = v.connected
      /\ u.authed = v.authed /\ u.memberships = v.memberships
      /\ u.members = v.members /\ u.subscriptions = v.subscriptions /\ u.owned = o
      /\ u.queue = v.queue /\ u.spaces = v.spaces /\ u.tombstones = v.tombstones
      /\ u.subscribers = v.subscribers /\ u.next_entity = n /\ u.entities = es
      /\ u.journal = v.journal /\ u.sequences = v.sequences
  BY <1>1 DEF IsWorld, Whole, Sane
<1>6. e \notin DOMAIN v.entities
  BY <1>3
<1>7. /\ es[e] = new
      /\ \A y \in DOMAIN v.entities : es[y] = v.entities[y]
  BY <1>3, <1>6
<1>8. Sane(u)
  <2>1. u.owned \in [u.connected -> Nat]
    BY <1>2, <1>3, <1>5
  <2>2. /\ u.next_entity \in Nat \ {0}
        /\ DOMAIN u.entities \subseteq 1..u.next_entity - 1
    BY <1>3, <1>5
  <2>3. u.entities \in [DOMAIN u.entities ->
                           [owner : u.connected, space : SpaceIds, epoch : Epochs]]
    <3>1. v.entities \in [DOMAIN v.entities ->
                           [owner : v.connected, space : SpaceIds, epoch : Epochs]]
      BY DEF Whole, Sane
    <3> QED
      BY <1>3, <1>5, <3>1
  <2> QED
    BY <1>4, <1>5, <2>1, <2>2, <2>3 DEF Whole, Sane
<1>9. Mutual(u)
  <2> SUFFICES ASSUME NEW b \in v.connected
      PROVE  u.owned[b] = Cardinality(OwnedBy(u, b))
    BY <1>5 DEF Whole, Mutual
  <2>1. /\ v.owned[b] = Cardinality(OwnedBy(v, b))
        /\ IsFiniteSet(OwnedBy(v, b))
    BY FewEntities DEF Whole, Mutual
  <2>2. e \notin OwnedBy(v, b)
    BY <1>6 DEF OwnedBy
  <2>3. CASE b = c
    <3>1. OwnedBy(u, b) = OwnedBy(v, b) \cup {e}
      BY <1>3, <1>5, <1>6, <1>7, <2>3 DEF OwnedBy
    <3>2. Cardinality(OwnedBy(u, b)) = Cardinality(OwnedBy(v, b)) + 1
      BY <2>1, <2>2, <3>1, FS_AddElement
    <3> QED
      BY <1>3, <1>5, <2>1, <2>3, <3>2
  <2>4. CASE b # c
    <3>1. OwnedBy(u, b) = OwnedBy(v, b)
      BY <1>3, <1>5, <1>6, <1>7, <2>4 DEF OwnedBy
    <3> QED
      BY <1>3, <1>5, <2>1, <2>4, <3>1
  <2> QED
    BY <2>3, <2>4
<1>10. Rooted(u)
  <2>1. ASSUME NEW y \in DOMAIN es
        PROVE  /\ es[y].owner \in v.members /\ es[y].space \in DOMAIN v.spaces
               /\ es[y].epoch = v.spaces[es[y].space].epoch
    <3>1. CASE y = e
      BY <1>2, <1>3, <1>7, <3>1
    <3>2. CASE y \in DOMAIN v.entities
      BY <1>7, <3>2 DEF Whole, Rooted
    <3> QED
      BY <1>3, <3>1, <3>2
  <2>2. DOMAIN v.entities \subseteq DOMAIN es
    BY <1>3
  <2> QED
    BY <1>5, <2>1, <2>2 DEF Whole, Rooted
<1>11. Capped(u)
  BY <1>5 DEF Whole, Capped
<1>12. \A y \in SpaceIds : LastEpoch(u, y) = LastEpoch(v, y) /\ LastEpoch(v, y) \in Nat
  BY <1>5, EpochTyped DEF LastEpoch, Whole
<1>13. Onward(v, u)
  BY <1>5, <1>12 DEF Onward
<1> QED
  BY <1>8, <1>9, <1>10, <1>11, <1>13 DEF Whole

(* The two fields a move sets.                                             *)
LEMMA Moving ==
  ASSUME NEW C, NEW t \in [owner : C, space : SpaceIds, epoch : Epochs], NEW to, NEW n
  PROVE  [[t EXCEPT !.space = to] EXCEPT !.epoch = n]
            = [owner |-> t.owner, space |-> to, epoch |-> n]
<1> DEFINE a == [t EXCEPT !.space = to]
           b == [a EXCEPT !.epoch = n]
<1>1. a \in [owner : {t.owner}, space : {to}, epoch : {t.epoch}]
  OBVIOUS
<1>2. a.owner = t.owner /\ a.space = to
  OBVIOUS
<1> HIDE DEF a
<1>3. b \in [owner : {t.owner}, space : {to}, epoch : {n}]
  BY <1>1
<1> HIDE DEF b
<1>4. b = [owner |-> t.owner, space |-> to, epoch |-> n]
  BY <1>3
<1> QED
  BY <1>4 DEF a, b

(* transition_entity: only the entity's place changes.                     *)
LEMMA MovedWhole ==
  ASSUME NEW v, NEW u, Whole(v), NEW e \in DOMAIN v.entities, NEW to \in DOMAIN v.spaces,
         u = [v EXCEPT !.entities[e].space = to, !.entities[e].epoch = v.spaces[to].epoch]
  PROVE  Whole(u) /\ Onward(v, u)
<1> DEFINE t == v.entities[e]
           new == [owner |-> t.owner, space |-> to, epoch |-> v.spaces[to].epoch]
           es == [v.entities EXCEPT ![e] = new]
<1>0. /\ v.entities \in [DOMAIN v.entities ->
                           [owner : v.connected, space : SpaceIds, epoch : Epochs]]
      /\ to \in SpaceIds /\ v.spaces[to].epoch \in Epochs
  BY DEF Whole, Sane
<1>1. es = [v.entities EXCEPT ![e].space = to, ![e].epoch = v.spaces[to].epoch]
  <2>1. t \in [owner : v.connected, space : SpaceIds, epoch : Epochs]
    BY <1>0
  <2>2. new = [[t EXCEPT !.space = to] EXCEPT !.epoch = v.spaces[to].epoch]
    <3> HIDE DEF t
    <3> QED
      BY <2>1, Moving
  <2> QED
    BY <1>0, <2>2
<1>2. u = [v EXCEPT !.entities = es]
  BY <1>1 DEF IsWorld, Whole, Sane
<1>3. /\ new \in [owner : v.connected, space : SpaceIds, epoch : Epochs]
      /\ new.owner = v.entities[e].owner /\ new.space = to /\ new.epoch = v.spaces[to].epoch
      /\ DOMAIN es = DOMAIN v.entities
      /\ es \in [DOMAIN v.entities -> [owner : v.connected, space : SpaceIds, epoch : Epochs]]
      /\ \A y \in DOMAIN es : es[y] = IF y = e THEN new ELSE v.entities[y]
  BY <1>0
<1> HIDE DEF t, new, es
<1>4. IsWorld(u)
  BY <1>2 DEF IsWorld, Whole, Sane
<1>5. /\ u.next_connection = v.next_connection /\ u.connected = v.connected
      /\ u.authed = v.authed /\ u.memberships = v.memberships
      /\ u.members = v.members /\ u.subscriptions = v.subscriptions /\ u.owned = v.owned
      /\ u.queue = v.queue /\ u.spaces = v.spaces /\ u.tombstones = v.tombstones
      /\ u.subscribers = v.subscribers
      /\ u.next_entity = v.next_entity /\ u.entities = es
      /\ u.journal = v.journal /\ u.sequences = v.sequences
  BY <1>2 DEF IsWorld, Whole, Sane
<1>6. Sane(u)
  BY <1>3, <1>4, <1>5 DEF Whole, Sane
<1>7. Mutual(u)
  <2>1. ASSUME NEW b PROVE OwnedBy(u, b) = OwnedBy(v, b)
    BY <1>3, <1>5 DEF OwnedBy
  <2> QED
    BY <1>5, <2>1 DEF Whole, Mutual
<1>8. Rooted(u)
  <2>1. ASSUME NEW y \in DOMAIN es
        PROVE  /\ es[y].owner \in v.members /\ es[y].space \in DOMAIN v.spaces
               /\ es[y].epoch = v.spaces[es[y].space].epoch
    <3>1. v.entities[y].owner \in v.members /\ v.entities[y].space \in DOMAIN v.spaces
          /\ v.entities[y].epoch = v.spaces[v.entities[y].space].epoch
      BY <1>3 DEF Whole, Rooted
    <3> QED
      BY <1>3, <3>1
  <2>2. \A y \in DOMAIN v.spaces :
           v.spaces[y].parent # NoParent =>
               /\ v.spaces[y].parent.space \in DOMAIN v.spaces
               /\ v.spaces[y].parent.anchor \in DOMAIN es
    BY <1>3 DEF Whole, Rooted
  <2>3. \A y \in DOMAIN u.entities :
           /\ u.entities[y].owner \in u.members /\ u.entities[y].space \in DOMAIN u.spaces
           /\ u.entities[y].epoch = u.spaces[u.entities[y].space].epoch
    BY <1>5, <2>1
  <2>4. \A y \in DOMAIN u.spaces :
           u.spaces[y].parent # NoParent =>
               /\ u.spaces[y].parent.space \in DOMAIN u.spaces
               /\ u.spaces[y].parent.anchor \in DOMAIN u.entities
    BY <1>5, <2>2
  <2> QED
    BY <2>3, <2>4 DEF Rooted
<1>9. Capped(u)
  BY <1>5 DEF Whole, Capped
<1>10. \A y \in SpaceIds : LastEpoch(u, y) = LastEpoch(v, y) /\ LastEpoch(v, y) \in Nat
  BY <1>5, EpochTyped DEF LastEpoch, Whole
<1>11. Onward(v, u)
  BY <1>5, <1>10 DEF Onward
<1> QED
  BY <1>6, <1>7, <1>8, <1>9, <1>11 DEF Whole

(* Retaining and purging change nothing of all this.                       *)
LEMMA CleanedWhole ==
  ASSUME NEW v, NEW gone, NEW u, Whole(v), u = Forget(v, gone) \/ u = PurgeAll(v, gone)
  PROVE  Whole(u) /\ Onward(v, u) /\ SameGraph(v, u)
<1>1. IsWorld(v)
  BY DEF Whole, Sane
<1>2. /\ SameGraph(v, u) /\ u.journal = v.journal
      /\ DOMAIN u.sequences \subseteq DOMAIN v.sequences
  <2>1. CASE u = Forget(v, gone)
    <3>1. SameGraph(v, u) /\ u.journal = v.journal /\ u.sequences = Drop(v.sequences, gone)
      BY <1>1, <2>1, Forgetting
    <3> QED
      BY <3>1 DEF Drop, Restrict
  <2>2. CASE u = PurgeAll(v, gone)
    BY <1>1, <2>2, Purging
  <2> QED
    BY <2>1, <2>2
<1>3. Capped(u)
  BY <1>2, StillBounded DEF Whole
<1> QED
  BY <1>2, <1>3, SameWhole DEF Whole

(* Core::transition_space: the entity moves, its old space forgets it.     *)
LEMMA TransitionWhole ==
  ASSUME NEW v, NEW u, Whole(v), NEW c, NEW e, NEW to, CanTransition(v, c, e, to),
         u = Transition(v, c, e, to)
  PROVE  Whole(u) /\ Onward(v, u)
<1> DEFINE from == v.entities[e]
           gone == {k \in Held(v) : /\ k.space = from.space /\ k.epoch = from.epoch
                                    /\ k.entity = e}
           moved == [v EXCEPT !.entities[e].space = to,
                              !.entities[e].epoch = v.spaces[to].epoch]
           f == Forget(moved, gone)
<1>1. u = IF to = from.space THEN v ELSE PurgeAll(f, gone)
  BY DEF Transition
<1>2. e \in DOMAIN v.entities /\ to \in DOMAIN v.spaces
  BY DEF CanTransition, OwnedBy
<1>3. CASE to = from.space
  <2>1. u = v
    BY <1>1, <1>3
  <2>2. \A y \in SpaceIds : LastEpoch(v, y) \in Nat
    BY EpochTyped DEF Whole
  <2> QED
    BY <2>1, <2>2 DEF Onward
<1>4. CASE to # from.space
  <2>1. u = PurgeAll(f, gone)
    BY <1>1, <1>4
  <2> HIDE DEF from, gone
  <2>2. Whole(moved) /\ Onward(v, moved)
    BY <1>2, MovedWhole
  <2> HIDE DEF moved
  <2>3. Whole(f) /\ Onward(moved, f)
    BY <2>2, CleanedWhole
  <2> HIDE DEF f
  <2>4. Whole(u) /\ Onward(f, u)
    BY <2>1, <2>3, CleanedWhole
  <2> QED
    BY <2>2, <2>3, <2>4, OnwardTransitive DEF Whole
<1> QED
  BY <1>3, <1>4

-----------------------------------------------------------------------------
(* install_space gives a space that comes back a newer epoch.              *)
LEMMA InstallWhole ==
  ASSUME NEW v, NEW u, Whole(v), NEW x \in SpaceIds, NEW epoch \in Epochs, NEW parent,
         CanInstall(v, x, epoch, parent), u = Install(v, x, epoch, parent)
  PROVE  Whole(u) /\ Onward(v, u)
<1> DEFINE new == [epoch |-> epoch, parent |-> parent]
           ts == Drop(v.tombstones, {x})
           rs == Insert(v.subscribers, x, {})
           sp == Insert(v.spaces, x, new)
<1>1. u = [v EXCEPT !.tombstones = ts, !.subscribers = rs, !.spaces = sp]
  BY DEF Install
<1>2. /\ x \notin DOMAIN v.spaces
      /\ parent # NoParent => /\ parent.space \in DOMAIN v.spaces
                              /\ parent.anchor \in DOMAIN v.entities
  BY DEF CanInstall, EntitiesIn
<1>3. /\ new.epoch = epoch /\ new.parent = parent /\ new \in [epoch : Epochs, parent : {new.parent}]
      /\ DOMAIN ts = DOMAIN v.tombstones \ {x}
      /\ \A y \in DOMAIN ts : ts[y] = v.tombstones[y]
      /\ ts \in [DOMAIN ts -> Epochs]
      /\ DOMAIN rs = DOMAIN sp /\ DOMAIN sp = DOMAIN v.spaces \cup {x}
      /\ rs = [y \in DOMAIN sp |-> IF y = x THEN {} ELSE v.subscribers[y]]
      /\ sp = [y \in DOMAIN sp |-> IF y = x THEN new ELSE v.spaces[y]]
  BY DEF Drop, Restrict, Insert, Whole, Sane
<1> HIDE DEF new, ts, rs, sp
<1>4. IsWorld(u)
  BY <1>1 DEF IsWorld, Whole, Sane
<1>5. /\ u.next_connection = v.next_connection /\ u.connected = v.connected
      /\ u.authed = v.authed /\ u.memberships = v.memberships
      /\ u.members = v.members /\ u.subscriptions = v.subscriptions /\ u.owned = v.owned
      /\ u.queue = v.queue /\ u.spaces = sp /\ u.tombstones = ts
      /\ u.subscribers = rs
      /\ u.next_entity = v.next_entity /\ u.entities = v.entities
      /\ u.journal = v.journal /\ u.sequences = v.sequences
  BY <1>1 DEF IsWorld, Whole, Sane
<1>6. /\ sp[x] = new /\ rs[x] = {}
      /\ \A y \in DOMAIN v.spaces : sp[y] = v.spaces[y] /\ rs[y] = v.subscribers[y]
  BY <1>2, <1>3
<1>7. Sane(u)
  <2>1. u.subscribers \in [DOMAIN u.spaces -> SUBSET u.connected]
    BY <1>3, <1>5 DEF Whole, Sane
  <2>2. \A y \in DOMAIN u.spaces : u.spaces[y] \in [epoch : Epochs, parent : {u.spaces[y].parent}]
    BY <1>3, <1>5, <1>6 DEF Whole, Sane
  <2>3. DOMAIN u.spaces \cup DOMAIN u.tombstones \subseteq SpaceIds
    BY <1>3, <1>5 DEF Whole, Sane
  <2> QED
    BY <1>3, <1>4, <1>5, <2>1, <2>2, <2>3 DEF Whole, Sane
<1>8. Mutual(u)
  <2>1. ASSUME NEW b PROVE OwnedBy(u, b) = OwnedBy(v, b)
    BY <1>5 DEF OwnedBy
  <2>2. ASSUME NEW b \in v.connected
        PROVE  {y \in DOMAIN sp : b \in rs[y]} = {y \in DOMAIN v.spaces : b \in v.subscribers[y]}
    BY <1>3, <1>6
  <2> QED
    BY <1>5, <2>1, <2>2 DEF Whole, Mutual
<1>9. Rooted(u)
  <2>1. ASSUME NEW e \in DOMAIN v.entities
        PROVE  /\ v.entities[e].owner \in v.members /\ v.entities[e].space \in DOMAIN sp
               /\ v.entities[e].epoch = sp[v.entities[e].space].epoch
    BY <1>3, <1>6 DEF Whole, Rooted
  <2>2. ASSUME NEW y \in DOMAIN sp, sp[y].parent # NoParent
        PROVE  sp[y].parent.space \in DOMAIN sp /\ sp[y].parent.anchor \in DOMAIN v.entities
    <3>1. CASE y = x
      BY <1>2, <1>3, <1>6, <2>2, <3>1
    <3>2. CASE y \in DOMAIN v.spaces
      BY <1>3, <1>6, <2>2, <3>2 DEF Whole, Rooted
    <3> QED
      BY <1>3, <3>1, <3>2
  <2> QED
    BY <1>5, <2>1, <2>2 DEF Rooted
<1>10. Capped(u)
  BY <1>5 DEF Whole, Capped
<1>11. Onward(v, u)
  <2>1. LastEpoch(v, x) \in Nat /\ LastEpoch(u, x) = epoch /\ epoch > LastEpoch(v, x)
    <3>1. LastEpoch(u, x) = epoch
      BY <1>3, <1>5, <1>6 DEF LastEpoch
    <3>2. LastEpoch(v, x) \in Nat
      BY EpochTyped DEF Whole
    <3>3. epoch > LastEpoch(v, x)
      <4>1. CASE x \in DOMAIN v.tombstones
        BY <1>2, <4>1 DEF LastEpoch, CanInstall, EpochAllowed
      <4>2. CASE x \notin DOMAIN v.tombstones
        BY <1>2, <4>2 DEF LastEpoch, Epochs
      <4> QED
        BY <4>1, <4>2
    <3> QED
      BY <3>1, <3>2, <3>3
  <2>2. ASSUME NEW y \in SpaceIds, y # x
        PROVE  LastEpoch(u, y) = LastEpoch(v, y) /\ LastEpoch(v, y) \in Nat
    BY <1>3, <1>5, <1>6, <2>2, EpochTyped DEF LastEpoch, Whole
  <2>3. epoch \in Nat
    BY DEF Epochs
  <2>4. ASSUME NEW y \in SpaceIds
        PROVE  /\ LastEpoch(u, y) >= LastEpoch(v, y)
               /\ y \in DOMAIN u.spaces \ DOMAIN v.spaces => LastEpoch(u, y) > LastEpoch(v, y)
    BY <1>3, <1>5, <2>1, <2>2, <2>3
  <2> QED
    BY <2>4 DEF Onward
<1> QED
  BY <1>7, <1>8, <1>9, <1>10, <1>11 DEF Whole

(* A space without entities takes a newer epoch.                           *)
LEMMA EpochWhole ==
  ASSUME NEW v, NEW u, Whole(v), NEW x \in DOMAIN v.spaces, NEW epoch \in Epochs,
         epoch >= v.spaces[x].epoch,
         \A e \in DOMAIN v.entities : v.entities[e].space # x,
         u = [v EXCEPT !.spaces[x].epoch = epoch]
  PROVE  Whole(u) /\ Onward(v, u)
<1> DEFINE new == [v.spaces[x] EXCEPT !.epoch = epoch]
           sp == [v.spaces EXCEPT ![x] = new]
<1>1. u = [v EXCEPT !.spaces = sp]
  BY DEF Whole, Sane, IsWorld
<1>2. /\ new.epoch = epoch /\ new.parent = v.spaces[x].parent
      /\ new \in [epoch : Epochs, parent : {new.parent}]
      /\ DOMAIN sp = DOMAIN v.spaces
  BY DEF Whole, Sane
<1>3. sp[x] = new /\ \A y \in DOMAIN v.spaces \ {x} : sp[y] = v.spaces[y]
  OBVIOUS
<1> HIDE DEF new, sp
<1>4. IsWorld(u)
  BY <1>1 DEF IsWorld, Whole, Sane
<1>5. /\ u.next_connection = v.next_connection /\ u.connected = v.connected
      /\ u.authed = v.authed /\ u.memberships = v.memberships
      /\ u.members = v.members /\ u.subscriptions = v.subscriptions /\ u.owned = v.owned
      /\ u.queue = v.queue /\ u.spaces = sp /\ u.tombstones = v.tombstones
      /\ u.subscribers = v.subscribers
      /\ u.next_entity = v.next_entity /\ u.entities = v.entities
      /\ u.journal = v.journal /\ u.sequences = v.sequences
  BY <1>1 DEF IsWorld, Whole, Sane
<1>6. Sane(u)
  <2>1. \A y \in DOMAIN sp : sp[y] \in [epoch : Epochs, parent : {sp[y].parent}]
    BY <1>2, <1>3 DEF Whole, Sane
  <2> QED
    BY <1>2, <1>4, <1>5, <2>1 DEF Whole, Sane
<1>7. Mutual(u)
  <2>1. ASSUME NEW b PROVE OwnedBy(u, b) = OwnedBy(v, b)
    BY <1>5 DEF OwnedBy
  <2> QED
    BY <1>2, <1>5, <2>1 DEF Whole, Mutual
<1>8. Rooted(u)
  <2>1. ASSUME NEW e \in DOMAIN v.entities
        PROVE  /\ v.entities[e].owner \in v.members /\ v.entities[e].space \in DOMAIN sp
               /\ v.entities[e].epoch = sp[v.entities[e].space].epoch
    BY <1>2, <1>3 DEF Whole, Rooted
  <2>2. ASSUME NEW y \in DOMAIN sp, sp[y].parent # NoParent
        PROVE  sp[y].parent.space \in DOMAIN sp /\ sp[y].parent.anchor \in DOMAIN v.entities
    <3>1. sp[y].parent = v.spaces[y].parent
      BY <1>2, <1>3
    <3>2. y \in DOMAIN v.spaces /\ Rooted(v)
      BY <1>2 DEF Whole
    <3> QED
      BY <1>2, <2>2, <3>1, <3>2 DEF Rooted
  <2>3. \A e \in DOMAIN u.entities :
           /\ u.entities[e].owner \in u.members /\ u.entities[e].space \in DOMAIN u.spaces
           /\ u.entities[e].epoch = u.spaces[u.entities[e].space].epoch
    BY <1>5, <2>1
  <2>4. \A y \in DOMAIN u.spaces :
           u.spaces[y].parent # NoParent =>
               /\ u.spaces[y].parent.space \in DOMAIN u.spaces
               /\ u.spaces[y].parent.anchor \in DOMAIN u.entities
    BY <1>5, <2>2
  <2> QED
    BY <2>3, <2>4 DEF Rooted
<1>9. Capped(u)
  BY <1>5 DEF Whole, Capped
<1>10. ASSUME NEW y \in SpaceIds PROVE LastEpoch(u, y) >= LastEpoch(v, y)
  <2>1. LastEpoch(v, y) \in Nat
    BY EpochTyped DEF Whole
  <2>2. CASE y = x
    BY <1>2, <1>3, <1>5, <2>2 DEF LastEpoch
  <2>3. CASE y # x
    <3>1. LastEpoch(u, y) = LastEpoch(v, y)
      BY <1>2, <1>3, <1>5, <2>3 DEF LastEpoch
    <3> QED
      BY <2>1, <3>1
  <2> QED
    BY <2>2, <2>3
<1>11. Onward(v, u)
  BY <1>2, <1>5, <1>10 DEF Onward
<1> QED
  BY <1>6, <1>7, <1>8, <1>9, <1>11 DEF Whole

(* advance_space_epoch empties the space before it takes the epoch.        *)
LEMMA AdvanceWhole ==
  ASSUME NEW v, NEW u, Whole(v), NEW x \in DOMAIN v.spaces, NEW epoch \in Epochs,
         epoch > v.spaces[x].epoch, u = AdvanceEpoch(v, x, epoch)
  PROVE  Whole(u) /\ Onward(v, u)
<1> DEFINE gone == {k \in Held(v) : k.space = x}
           seed == EntitiesIn(v, {x})
           l == RemoveEntities(v, seed)
           p == PurgeAll(l, gone)
           a == [p EXCEPT !.spaces[x].epoch = epoch]
<1>1. u = IF x \in DOMAIN p.spaces THEN Forget(a, gone) ELSE p
  BY DEF AdvanceEpoch
<1>2. \A e \in DOMAIN v.entities : v.entities[e].space = x => e \in seed
  BY DEF EntitiesIn
<1> HIDE DEF gone, seed
<1>3. Whole(l) /\ Onward(v, l) /\ Removal(v, l, seed)
  BY RemovalWhole
<1> HIDE DEF l
<1>4. Whole(p) /\ Onward(l, p) /\ SameGraph(l, p)
  BY <1>3, CleanedWhole
<1>5. p.entities = Drop(v.entities, Fallen(v, seed))
      /\ p.spaces = Drop(v.spaces, FallingSpaces(v, seed))
  BY <1>3, <1>4 DEF SameGraph, Removal
<1> HIDE DEF p
<1>6. Onward(v, p)
  BY <1>3, <1>4, OnwardTransitive DEF Whole
<1>7. CASE x \in DOMAIN p.spaces
  <2>1. \A e \in DOMAIN p.entities : p.entities[e].space # x
    BY <1>2, <1>5 DEF Drop, Restrict, Fallen
  <2>2. p.spaces[x] = v.spaces[x]
    BY <1>5, <1>7 DEF Drop, Restrict
  <2>3. epoch >= p.spaces[x].epoch
    BY <2>2 DEF Whole, Sane, Epochs
  <2>4. Whole(a) /\ Onward(p, a)
    BY <1>4, <1>7, <2>1, <2>3, EpochWhole
  <2>5. u = Forget(a, gone)
    BY <1>1, <1>7
  <2> HIDE DEF a
  <2>6. Whole(u) /\ Onward(a, u)
    BY <2>4, <2>5, CleanedWhole
  <2>7. Onward(v, a)
    BY <1>4, <1>6, <2>4, OnwardTransitive DEF Whole
  <2> QED
    BY <2>4, <2>6, <2>7, OnwardTransitive DEF Whole
<1>8. CASE x \notin DOMAIN p.spaces
  BY <1>1, <1>4, <1>6, <1>8
<1> QED
  BY <1>7, <1>8

-----------------------------------------------------------------------------
(* What every message of a client is.                                      *)
Formed(m) ==
    /\ m.class \in {"critical", "latest", "best_effort"}
    /\ m.sequence \in 1..MaxSequence
    /\ m.size \in Nat

(* A request is formed, and so is a message built like one.                *)
LEMMA MessageFormed ==
  ASSUME NEW x, NEW epoch, NEW e, NEW ch, NEW k, NEW n \in 1..MaxSequence, NEW size \in Sizes
  PROVE  Formed(Message(x, epoch, e, ch, k, n, size))
<1>1. size \in Nat
  BY SessionUseAssumption
<1>2. ClassOf(ch) \in {"critical", "latest", "best_effort"}
  BY DEF ClassOf
<1> QED
  BY <1>1, <1>2 DEF Formed, Message

(* The messages to commit and to sequence are lists of formed messages.    *)
Planned(M, request, verdict) ==
    /\ \A m \in M : Formed(m)
    /\ request \in M /\ verdict.messages \in Seq(M)
    /\ Committed(request, verdict) \in Seq(M) /\ Sequenced(request, verdict) \in Seq(M)

(* So they are for any verdict on a request of a client.                   *)
LEMMA VerdictFormed ==
  ASSUME NEW c, NEW request \in Requests, NEW verdict \in Verdicts(c, request)
  PROVE  \E M : Planned(M, request, verdict)
<1>0. \A m \in Requests : Formed(m) /\ m.sequence \in 1..MaxSequence
  <2> SUFFICES ASSUME NEW m \in Requests PROVE Formed(m)
    BY DEF Formed
  <2>1. PICK x \in DOMAIN w.spaces, epoch \in 1..MaxEpoch,
             e \in {NoEntity} \cup DOMAIN w.entities, ch \in Channels,
             k \in Components \cup {0}, n \in 1..MaxSequence, size \in Sizes :
             m = Message(x, epoch, e, ch, k, n, size)
    BY DEF Requests
  <2> QED
    BY <2>1, MessageFormed
<1>1. \E M : verdict.messages \in Seq(M) /\ \A m \in M : Formed(m)
  <2>1. CASE verdict = Accept
    <3>1. verdict.messages = <<>>
      BY <2>1 DEF Accept
    <3>2. <<>> \in Seq({request})
      OBVIOUS
    <3> QED
      BY <1>0, <3>1, <3>2
  <2>2. CASE verdict \in Transforms(request)
    <3>1. PICK k \in Components \cup {0}, size \in Sizes :
               verdict = Transform(Message(request.space, request.epoch, request.entity,
                                           request.channel, k, request.sequence, size))
      BY <2>2 DEF Transforms
    <3> DEFINE m == Message(request.space, request.epoch, request.entity,
                            request.channel, k, request.sequence, size)
    <3>2. Formed(m)
      BY <1>0, MessageFormed
    <3>3. verdict = Transform(m)
      BY <3>1
    <3> HIDE DEF m
    <3>4. verdict.messages = <<m>> /\ <<m>> \in Seq({m})
      BY <3>3 DEF Transform
    <3>5. verdict.messages \in Seq({m}) /\ \A y \in {m} : Formed(y)
      BY <3>2, <3>4
    <3> QED
      BY <3>5
  <2>3. ASSUME NEW s \in Emissions(c), verdict = Emit(s)
        PROVE  \E M : verdict.messages \in Seq(M) /\ \A m \in M : Formed(m)
    <3>1. verdict.messages = s
      BY <2>3 DEF Emit
    <3> DEFINE M == {m \in Requests : ValidMessage(w, c, m)}
    <3>2. PICK n \in 0..MaxEmitted : s \in [1..n -> M]
      BY <2>3 DEF Emissions
    <3>3. \A m \in M : Formed(m)
      BY <1>0
    <3> HIDE DEF M
    <3>4. n \in Nat
      BY SessionUseAssumption
    <3>5. s \in Seq(M)
      BY <3>2, <3>4
    <3> QED
      BY <3>1, <3>3, <3>5
  <2> QED
    BY <2>1, <2>2, <2>3 DEF Verdicts
<1>2. PICK M : verdict.messages \in Seq(M) /\ \A m \in M : Formed(m)
  BY <1>1
<1> DEFINE N == M \cup {request}
<1>3. verdict.messages \in Seq(N) /\ <<request>> \in Seq(N) /\ request \in N
  BY <1>2
<1>4. \A m \in N : Formed(m)
  BY <1>0, <1>2
<1> HIDE DEF N
<1>5. Committed(request, verdict) \in Seq(N)
  BY <1>3 DEF Committed
<1>6. Sequenced(request, verdict) \in Seq(N)
  BY <1>3, <1>5 DEF Sequenced
<1> QED
  BY <1>3, <1>4, <1>5, <1>6 DEF Planned

(* The sequences kept are finitely many, whatever a commit adds to them.   *)
LEMMA LastSequencesFinite ==
  ASSUME NEW v, IsFiniteSet(DOMAIN v.sequences), NEW c, NEW M, NEW s \in Seq(M)
  PROVE  IsFiniteSet(DOMAIN LastSequences(v, c, s))
<1> DEFINE keys == {SequenceKey(c, s[i]) : i \in DOMAIN s}
           f == [i \in DOMAIN s |-> SequenceKey(c, s[i])]
<1>1. IsFiniteSet(DOMAIN s)
  <2>1. DOMAIN s = 1..Len(s)
    OBVIOUS
  <2> DEFINE n == Len(s)
  <2>2. n \in Int
    OBVIOUS
  <2> HIDE DEF n
  <2>3. IsFiniteSet(1..n)
    BY <2>2, FS_Interval
  <2> QED
    BY <2>1, <2>3 DEF n
<1>2. f \in Surjection(DOMAIN s, keys)
  BY DEF Surjection
<1>3. IsFiniteSet(keys)
  <2> HIDE DEF f, keys
  <2> QED
    BY <1>1, <1>2, FS_Surjection
<1>4. DOMAIN LastSequences(v, c, s) = DOMAIN v.sequences \cup keys
  BY DEF LastSequences
<1> HIDE DEF keys
<1> QED
  BY <1>3, <1>4, FS_Union

(* The session once a publication is committed.                            *)
AfterCommit(v, c, request, verdict) ==
    [v EXCEPT !.journal     = @ \o Durable(Committed(request, verdict)),
              !.sequences   = LastSequences(v, c, Sequenced(request, verdict)),
              !.state       = Stored(v, Committed(request, verdict)).state,
              !.state_bytes = Stored(v, Committed(request, verdict)).bytes]

(* What connection a is given of the messages of s.                        *)
Share(v, s, a) == Retained(s, {m \in Range(s) : a \in Recipients(v, m)})

(* The session once the recipients' queues have taken what they could, and *)
(* the recipients that could not take all.                                 *)
AfterFanOut(v, s) ==
    [v EXCEPT !.queue = [a \in DOMAIN v.queue |-> Deliver(v.queue[a], Share(v, s, a)).queue]]

Overrun(v, s) == {a \in DOMAIN v.queue : Deliver(v.queue[a], Share(v, s, a)).lost}

(* publish_at, step by step: b is committed, p has been fanned out.        *)
Publishing(v, b, p, u, c, request, verdict) ==
    /\ SameGraph(v, b) /\ b.queue = v.queue
    /\ b.journal = v.journal \o Durable(Committed(request, verdict))
    /\ b.sequences = LastSequences(v, c, Sequenced(request, verdict))
    /\ b.state = Stored(v, Committed(request, verdict)).state
    /\ b.state_bytes = Stored(v, Committed(request, verdict)).bytes
    /\ SameGraph(b, p) /\ p.journal = b.journal /\ p.sequences = b.sequences
    /\ p.state = b.state /\ p.state_bytes = b.state_bytes
    /\ p.queue = [a \in DOMAIN v.queue |->
                     Deliver(v.queue[a], Share(b, Committed(request, verdict), a)).queue]
    /\ u = Disconnect(p, Overrun(b, Committed(request, verdict)))

(* publish_at goes through these steps.                                    *)
LEMMA PublishSteps ==
  ASSUME NEW v, NEW u, IsWorld(v), NEW c, NEW request, NEW verdict,
         u = Publish(v, c, request, verdict),
         NEW b, b = AfterCommit(v, c, request, verdict),
         NEW p, p = AfterFanOut(b, Committed(request, verdict))
  PROVE  Publishing(v, b, p, u, c, request, verdict)
<1> DEFINE s == Committed(request, verdict)
           j == v.journal \o Durable(s)
           sq == LastSequences(v, c, Sequenced(request, verdict))
           st == Stored(v, s).state
           n == Stored(v, s).bytes
           q == [a \in DOMAIN b.queue |-> Deliver(b.queue[a], Share(b, s, a)).queue]
<1>1. b = [v EXCEPT !.journal = j, !.sequences = sq, !.state = st, !.state_bytes = n]
  BY DEF AfterCommit
<1>2. u = FanOut(b, s)
  BY DEF Publish, AfterCommit
<1>3. u = Disconnect(p, Overrun(b, s))
  <2> HIDE DEF s
  <2> QED
    BY <1>2 DEF FanOut, AfterFanOut, Overrun, Share, s
<1>4. p = [b EXCEPT !.queue = q]
  BY DEF AfterFanOut
<1>5. DOMAIN q = DOMAIN b.queue
  OBVIOUS
<1>6. /\ s = Committed(request, verdict) /\ j = v.journal \o Durable(s)
      /\ sq = LastSequences(v, c, Sequenced(request, verdict))
      /\ st = Stored(v, s).state /\ n = Stored(v, s).bytes
      /\ q = [a \in DOMAIN b.queue |-> Deliver(b.queue[a], Share(b, s, a)).queue]
  OBVIOUS
<1> HIDE DEF s, j, sq, st, n, q
<1>7. IsWorld(b)
  BY <1>1 DEF IsWorld
<1>8. /\ SameGraph(v, b) /\ b.queue = v.queue /\ b.journal = j /\ b.sequences = sq
      /\ b.state = st /\ b.state_bytes = n
  BY <1>1, <1>7 DEF IsWorld, SameGraph
<1>9. IsWorld(p)
  BY <1>4, <1>7 DEF IsWorld
<1>10. /\ SameGraph(b, p) /\ p.journal = b.journal /\ p.sequences = b.sequences
       /\ p.state = b.state /\ p.state_bytes = b.state_bytes /\ p.queue = q
  BY <1>4, <1>5, <1>7, <1>9 DEF IsWorld, SameGraph
<1> QED
  BY <1>3, <1>6, <1>8, <1>10 DEF Publishing

(* The commit fits, and leaves the graph alone.                            *)
LEMMA PublishingWhole ==
  ASSUME NEW v, NEW b, NEW p, NEW u, NEW c, NEW request, NEW verdict, Whole(v),
         Publishing(v, b, p, u, c, request, verdict), NEW M,
         Committed(request, verdict) \in Seq(M), Sequenced(request, verdict) \in Seq(M),
         FitsCapacities(v, c, request, verdict)
  PROVE  Whole(p) /\ Onward(v, p) /\ SameGraph(v, p)
<1> DEFINE s == Committed(request, verdict)
           d == Durable(s)
           j == v.journal \o d
           sq == LastSequences(v, c, Sequenced(request, verdict))
<1>1. SameGraph(v, p) /\ p.journal = j /\ p.sequences = sq
  BY DEF Publishing, SameGraph
<1>2. /\ Cardinality(DOMAIN sq) <= MaxSequenceKeys
      /\ Len(v.journal) + Len(d) <= JournalCapacity
  BY DEF FitsCapacities
<1>3. IsFiniteSet(DOMAIN sq)
  BY LastSequencesFinite DEF Whole, Capped
<1>4. d \in Seq(M)
  BY RetainedProperties DEF Durable
<1> HIDE DEF sq, d
<1>5. (\E N : j \in Seq(N)) /\ Len(j) <= JournalCapacity
  <2>1. PICK N : v.journal \in Seq(N)
    BY DEF Whole, Capped
  <2>2. v.journal \in Seq(N \cup M) /\ d \in Seq(N \cup M)
    BY <1>4, <2>1
  <2>3. j \in Seq(N \cup M) /\ Len(j) = Len(v.journal) + Len(d)
    BY <2>2
  <2> QED
    BY <1>2, <2>3
<1> HIDE DEF s, j
<1>6. Capped(p)
  BY <1>1, <1>2, <1>3, <1>5 DEF Capped
<1> QED
  BY <1>1, <1>6, SameWhole DEF Whole

(* publish_at, once the policy has spoken: the commit fits, and the        *)
(* recipients that cannot keep up are disconnected.                        *)
LEMMA PublishWhole ==
  ASSUME NEW v, NEW u, Whole(v), NEW c, NEW request, NEW verdict, NEW M,
         Committed(request, verdict) \in Seq(M), Sequenced(request, verdict) \in Seq(M),
         FitsCapacities(v, c, request, verdict), u = Publish(v, c, request, verdict)
  PROVE  Whole(u) /\ Onward(v, u)
<1> DEFINE b == AfterCommit(v, c, request, verdict)
           p == AfterFanOut(b, Committed(request, verdict))
<1>1. Publishing(v, b, p, u, c, request, verdict)
  BY PublishSteps DEF Whole, Sane
<1> HIDE DEF b, p
<1>2. Whole(p) /\ Onward(v, p)
  BY <1>1, PublishingWhole
<1>3. Whole(u) /\ Onward(p, u)
  BY <1>1, <1>2, DisconnectWhole DEF Publishing
<1> QED
  BY <1>2, <1>3, OnwardTransitive DEF Whole

(* The embedder takes what is queued, or the first record of the journal.  *)
LEMMA TakenWhole ==
  ASSUME NEW v, NEW u, Whole(v),
         \/ \E c : u = [v EXCEPT !.queue[c] = AfterDrain(@)]
         \/ v.journal # <<>> /\ u = [v EXCEPT !.journal = Tail(@)]
  PROVE  Whole(u) /\ Onward(v, u)
<1>1. ASSUME NEW c, u = [v EXCEPT !.queue[c] = AfterDrain(@)]
      PROVE  SameGraph(v, u) /\ Capped(u)
  <2> DEFINE q == [v.queue EXCEPT ![c] = AfterDrain(@)]
  <2>1. u = [v EXCEPT !.queue = q] /\ DOMAIN q = DOMAIN v.queue
    BY <1>1
  <2> HIDE DEF q
  <2>2. IsWorld(u)
    BY <2>1 DEF Whole, Sane, IsWorld
  <2>3. SameGraph(v, u) /\ u.journal = v.journal /\ u.sequences = v.sequences
    BY <2>1, <2>2 DEF Whole, Sane, IsWorld, SameGraph
  <2> QED
    BY <2>3 DEF Whole, Capped
<1>2. ASSUME v.journal # <<>>, u = [v EXCEPT !.journal = Tail(@)]
      PROVE  SameGraph(v, u) /\ Capped(u)
  <2>1. PICK M : v.journal \in Seq(M)
    BY DEF Whole, Capped
  <2>2. Tail(v.journal) \in Seq(M) /\ Len(Tail(v.journal)) <= JournalCapacity
    <3>1. /\ Tail(v.journal) \in Seq(M) /\ Len(v.journal) \in Nat
          /\ Len(Tail(v.journal)) = Len(v.journal) - 1
      BY <1>2, <2>1
    <3>2. Len(v.journal) <= JournalCapacity /\ JournalCapacity \in Nat
      BY ChannelAssumption DEF Whole, Capped
    <3> QED
      BY <3>1, <3>2
  <2>3. IsWorld(u)
    BY <1>2 DEF Whole, Sane, IsWorld
  <2>4. SameGraph(v, u) /\ u.journal = Tail(v.journal) /\ u.sequences = v.sequences
    BY <1>2, <2>3 DEF Whole, Sane, IsWorld, SameGraph
  <2> QED
    BY <2>2, <2>4 DEF Whole, Capped
<1> QED
  BY <1>1, <1>2, SameWhole DEF Whole

-----------------------------------------------------------------------------
(* The session starts empty.                                               *)
LEMMA WholeInit == SessionInit => Whole(w)
<1> SUFFICES ASSUME SessionInit PROVE Whole(w)
  OBVIOUS
<1>1. w = EmptyWorld
  BY DEF SessionInit
<1>2. /\ w.next_connection = 1 /\ w.connected = {} /\ w.authed = {} /\ w.memberships = {}
      /\ w.subscriptions = <<>> /\ w.owned = <<>> /\ w.queue = <<>>
      /\ w.members = {} /\ w.spaces = <<>> /\ w.tombstones = <<>> /\ w.subscribers = <<>>
      /\ w.next_entity = 1 /\ w.entities = <<>> /\ w.sequences = <<>>
      /\ w.journal = <<>>
  BY <1>1 DEF EmptyWorld
<1>3. IsWorld(w)
  BY <1>1 DEF EmptyWorld, IsWorld
<1>4. DOMAIN <<>> = {} /\ \A S : <<>> \in [{} -> S]
  OBVIOUS
<1>5. Sane(w)
  BY <1>2, <1>3, <1>4 DEF Sane
<1>6. Mutual(w) /\ Rooted(w)
  BY <1>2, <1>4 DEF Mutual, Rooted
<1>7. Capped(w)
  <2>1. /\ w.journal \in Seq({}) /\ Len(w.journal) = 0 /\ DOMAIN w.sequences = {}
    BY <1>2, <1>4
  <2>2. IsFiniteSet({}) /\ Cardinality({}) = 0
    BY FS_EmptySet
  <2>3. JournalCapacity \in Nat /\ MaxSequenceKeys \in Nat
    BY ChannelAssumption
  <2> QED
    BY <2>1, <2>2, <2>3 DEF Capped
<1> QED
  BY <1>5, <1>6, <1>7 DEF Whole

(* Every call keeps the session whole and lets epochs advance only.        *)
LEMMA WholeNext == Whole(w) /\ [SessionNext]_session_vars => Whole(w') /\ Onward(w, w')
<1> SUFFICES ASSUME Whole(w), [SessionNext]_session_vars PROVE Whole(w') /\ Onward(w, w')
  OBVIOUS
<1>1. CASE ConnectStep
  BY <1>1, ConnectWhole DEF ConnectStep
<1>2. ASSUME NEW c \in w.connected, Authenticate(c) \/ JoinSession(c)
      PROVE  Whole(w') /\ Onward(w, w')
  <2>1. IsWorld(w) /\ w.memberships = w.members /\ w.authed \subseteq w.connected
        /\ w.members \subseteq w.connected
    BY DEF Whole, Sane
  <2>2. CASE Authenticate(c)
    <3> DEFINE a == w.authed \cup {c}
               ms == w.members
    <3>1. w' = [w EXCEPT !.authed = a, !.memberships = ms, !.members = ms]
      BY <2>1, <2>2 DEF Authenticate, IsWorld
    <3>2. w.authed \subseteq a /\ a \subseteq w.connected
          /\ w.members \subseteq ms /\ ms \subseteq w.connected
      BY <2>1
    <3> HIDE DEF a, ms
    <3> QED
      BY <3>1, <3>2, StandingWhole
  <2>3. CASE JoinSession(c)
    <3> DEFINE a == w.authed
               ms == w.members \cup {c}
    <3>1. w' = [w EXCEPT !.authed = a, !.memberships = ms, !.members = ms]
      BY <2>1, <2>3 DEF JoinSession, IsWorld
    <3>2. w.authed \subseteq a /\ a \subseteq w.connected
          /\ w.members \subseteq ms /\ ms \subseteq w.connected
      BY <2>1
    <3> HIDE DEF a, ms
    <3> QED
      BY <3>1, <3>2, StandingWhole
  <2> QED
    BY <1>2, <2>2, <2>3
<1>3. ASSUME NEW c \in w.connected, LeaveSession(c) PROVE Whole(w') /\ Onward(w, w')
  BY <1>3, DetachWhole DEF LeaveSession
<1>4. ASSUME NEW c \in w.connected, TransportLost(c) PROVE Whole(w') /\ Onward(w, w')
  BY <1>4, DisconnectWhole DEF TransportLost
<1>5. ASSUME NEW c \in w.connected, DrainOutbound(c) PROVE Whole(w') /\ Onward(w, w')
  BY <1>5, TakenWhole DEF DrainOutbound
<1>6. ASSUME NEW c \in w.connected, NEW x \in SpaceIds,
             SubscribeStep(c, x) \/ UnsubscribeStep(c, x) \/ SpawnStep(c, x)
      PROVE  Whole(w') /\ Onward(w, w')
  <2>1. CASE SubscribeStep(c, x)
    BY <2>1, SubscribeWhole DEF SubscribeStep
  <2>2. CASE UnsubscribeStep(c, x)
    BY <2>2, UnsubscribeWhole DEF UnsubscribeStep
  <2>3. CASE SpawnStep(c, x)
    BY <2>3, SpawnWhole DEF SpawnStep
  <2> QED
    BY <1>6, <2>1, <2>2, <2>3
<1>7. ASSUME NEW c \in w.connected, NEW e, RemoveEntity(c, e)
      PROVE  Whole(w') /\ Onward(w, w')
  BY <1>7, RemovalWhole DEF RemoveEntity
<1>8. ASSUME NEW c \in w.connected, NEW e, NEW to, TransitionStep(c, e, to)
      PROVE  Whole(w') /\ Onward(w, w')
  BY <1>8, TransitionWhole DEF TransitionStep
<1>9. ASSUME NEW c \in w.connected, NEW request \in Requests,
             NEW verdict \in Verdicts(c, request), PublishStep(c, request, verdict)
      PROVE  Whole(w') /\ Onward(w, w')
  <2>1. PICK M : Planned(M, request, verdict)
    BY VerdictFormed
  <2>2. FitsCapacities(w, c, request, verdict) /\ w' = Publish(w, c, request, verdict)
    BY <1>9 DEF PublishStep, CanPublish
  <2>3. Committed(request, verdict) \in Seq(M) /\ Sequenced(request, verdict) \in Seq(M)
    BY <2>1 DEF Planned
  <2> QED
    BY <2>2, <2>3, PublishWhole
<1>10. ASSUME NEW x \in SpaceIds, NEW epoch \in 1..MaxEpoch, AdvanceEpochStep(x, epoch)
       PROVE  Whole(w') /\ Onward(w, w')
  BY <1>10, AdvanceWhole DEF AdvanceEpochStep, Epochs
<1>11. ASSUME NEW x \in SpaceIds, NEW epoch \in 1..MaxEpoch, NEW parent,
              InstallSpace(x, epoch, parent)
       PROVE  Whole(w') /\ Onward(w, w')
  BY <1>11, InstallWhole DEF InstallSpace, Epochs
<1>12. CASE PopJournal
  BY <1>12, TakenWhole DEF PopJournal
<1>13. CASE UNCHANGED session_vars
  <2>1. w' = w
    BY <1>13 DEF session_vars
  <2>2. \A x \in SpaceIds : LastEpoch(w, x) \in Nat
    BY EpochTyped DEF Whole
  <2>3. Onward(w, w)
    BY <2>2 DEF Onward
  <2> QED
    BY <2>1, <2>3
<1> QED
  BY <1>1, <1>2, <1>3, <1>4, <1>5, <1>6, <1>7, <1>8, <1>9, <1>10, <1>11, <1>12, <1>13
  DEF SessionNext

(* What is kept is what the properties say.                                *)
LEMMA WholeMeans == Whole(w) => SessionTyped /\ ViewsAgree /\ NothingDangles
<1> SUFFICES ASSUME Whole(w) PROVE SessionTyped /\ ViewsAgree /\ NothingDangles
  OBVIOUS
<1>1. SessionTyped
  <2>1. \A x \in DOMAIN w.spaces : w.spaces[x].epoch \in Epochs
    BY DEF Whole, Sane
  <2> QED
    BY <2>1 DEF Whole, Sane, Capped, SessionTyped
<1>2. ViewsAgree
  BY <1>1 DEF Whole, Sane, Mutual, ViewsAgree
<1>3. NothingDangles
  BY DEF Whole, Rooted, NothingDangles
<1> QED
  BY <1>1, <1>2, <1>3

(* The inductive invariant of the session core.                            *)
THEOREM SessionWhole == SessionSpec => []Whole(w)
<1>1. SessionInit => Whole(w)
  BY WholeInit
<1>2. Whole(w) /\ [SessionNext]_session_vars => Whole(w)'
  BY WholeNext
<1> QED
  BY <1>1, <1>2, PTL DEF SessionSpec

(* Every field keeps its type and its bound.                               *)
THEOREM SessionTypeOK == SessionSpec => []SessionTyped
<1>1. Whole(w) => SessionTyped
  BY WholeMeans
<1> QED
  BY <1>1, SessionWhole, PTL

(* After any interleaving of calls, refusals and cascades, both sides of   *)
(* every relation agree: members, subscribers and owned_entities.          *)
THEOREM SessionViewsAgree == SessionSpec => []ViewsAgree
<1>1. Whole(w) => ViewsAgree
  BY WholeMeans
<1> QED
  BY <1>1, SessionWhole, PTL

(* No removal leaves an entity without its space or owner, or an anchored  *)
(* space without its parent and anchor.                                    *)
THEOREM SessionNothingDangles == SessionSpec => []NothingDangles
<1>1. Whole(w) => NothingDangles
  BY WholeMeans
<1> QED
  BY <1>1, SessionWhole, PTL

(* An advance that leaves the space installed leaves it under the new      *)
(* epoch.                                                                  *)
LEMMA AdvanceRaises ==
  ASSUME NEW v, Whole(v), NEW x, NEW epoch, NEW u, u = AdvanceEpoch(v, x, epoch),
         x \in DOMAIN u.spaces
  PROVE  u.spaces[x].epoch = epoch
<1> DEFINE gone == {k \in Held(v) : k.space = x}
           r == RemoveEntities(v, EntitiesIn(v, {x}))
           p == PurgeAll(r, gone)
           a == [p EXCEPT !.spaces[x].epoch = epoch]
<1>1. u = IF x \in DOMAIN p.spaces THEN Forget(a, gone) ELSE p
  BY DEF AdvanceEpoch
<1>2. x \in DOMAIN p.spaces
  BY <1>1
<1>3. u = Forget(a, gone)
  BY <1>1, <1>2
<1>4. Whole(r)
  <2>1. EntitiesIn(v, {x}) \in SUBSET DOMAIN v.entities
    BY DEF EntitiesIn
  <2> QED
    BY <2>1, RemovalWhole
<1>5. IsWorld(p) /\ p.spaces = r.spaces
  <2>1. IsWorld(r)
    BY <1>4 DEF Whole, Sane
  <2> HIDE DEF r, gone
  <2> QED
    BY <2>1, Purging DEF SameGraph
<1>6. IsWorld(a) /\ a.spaces = [p.spaces EXCEPT ![x].epoch = epoch]
  <2> HIDE DEF p
  <2> QED
    BY <1>5 DEF IsWorld
<1>7. u.spaces = a.spaces
  <2> HIDE DEF a, gone
  <2> QED
    BY <1>3, <1>6, Forgetting DEF SameGraph
<1>8. a.spaces[x].epoch = epoch
  <2>1. \A y \in DOMAIN r.spaces : "epoch" \in DOMAIN r.spaces[y]
    BY <1>4 DEF Whole, Sane
  <2> HIDE DEF a, p, r
  <2> QED
    BY <1>2, <1>5, <1>6, <2>1
<1> QED
  BY <1>7, <1>8

(* No space ever returns to an epoch it had, and an advance that leaves it *)
(* installed raises its epoch.                                             *)
THEOREM SessionEpochsAdvance == SessionSpec => EpochsAdvance
<1> DEFINE A == \A x \in SpaceIds :
                   /\ LastEpoch(w', x) >= LastEpoch(w, x)
                   /\ \/ x \in DOMAIN w'.spaces \ DOMAIN w.spaces
                      \/ /\ x \in DOMAIN w'.spaces
                         /\ \E epoch \in 1..MaxEpoch : AdvanceEpochStep(x, epoch)
                      => LastEpoch(w', x) > LastEpoch(w, x)
<1>1. Whole(w) /\ [SessionNext]_session_vars => A
  <2> SUFFICES ASSUME Whole(w), [SessionNext]_session_vars PROVE A
    OBVIOUS
  <2>1. \A x \in SpaceIds :
           /\ LastEpoch(w', x) >= LastEpoch(w, x)
           /\ x \in DOMAIN w'.spaces \ DOMAIN w.spaces
                  => LastEpoch(w', x) > LastEpoch(w, x)
    BY WholeNext DEF Onward
  <2>2. ASSUME NEW x \in SpaceIds, NEW epoch \in 1..MaxEpoch,
               AdvanceEpochStep(x, epoch), x \in DOMAIN w'.spaces
        PROVE  LastEpoch(w', x) > LastEpoch(w, x)
    <3>1. w'.spaces[x].epoch = epoch
      BY <2>2, AdvanceRaises DEF AdvanceEpochStep
    <3>2. epoch > w.spaces[x].epoch /\ x \in DOMAIN w.spaces
      BY <2>2 DEF AdvanceEpochStep
    <3> QED
      BY <2>2, <3>1, <3>2 DEF LastEpoch
  <2> QED
    BY <2>1, <2>2
<1>2. SessionSpec => [][A]_session_vars
  <2> HIDE DEF A
  <2>1. Whole(w) /\ [SessionNext]_session_vars => [A]_session_vars
    BY <1>1
  <2> QED
    BY <2>1, SessionWhole, PTL DEF SessionSpec
<1> QED
  BY <1>2 DEF EpochsAdvance

-----------------------------------------------------------------------------
(* A queue that has lost no reliable message and is within its bounds.     *)
Healthy(q) ==
    ~q.exhausted /\ WithinBounds(q) /\ \E M, K : WellFormed(q, M, K)

(* The queue of a new connection.                                          *)
LEMMA HealthyEmpty == Healthy(EmptyQueue) /\ Pending(EmptyQueue) = {}
<1>1. WellFormed(EmptyQueue, {}, {}) /\ WithinBounds(EmptyQueue)
  BY EmptyQueueProperties DEF EmptyQueue
<1>2. ~EmptyQueue.exhausted
  BY DEF EmptyQueue
<1>3. Pending(EmptyQueue) = {}
  BY DEF EmptyQueue, Pending, Range
<1> QED
  BY <1>1, <1>2, <1>3 DEF Healthy

(* drain: all is taken.                                                    *)
LEMMA HealthyDrained ==
  ASSUME NEW q, Healthy(q)
  PROVE  Healthy(AfterDrain(q)) /\ Pending(AfterDrain(q)) = {}
<1>1. q.exhausted = FALSE
  <2>1. PICK M, K : WellFormed(q, M, K)
    BY DEF Healthy
  <2>2. q.exhausted \in BOOLEAN
    BY <2>1 DEF WellFormed, QueuesOf
  <2> QED
    BY <2>2 DEF Healthy
<1>2. AfterDrain(q) = EmptyQueue
  <2> DEFINE b == FALSE
  <2>1. AfterDrain(q) = [EmptyQueue EXCEPT !.exhausted = b]
    BY <1>1 DEF AfterDrain
  <2> QED
    BY <2>1 DEF EmptyQueue
<1> QED
  BY <1>2, HealthyEmpty

(* purge on one queue.                                                     *)
LEMMA HealthyPurged ==
  ASSUME NEW q, Healthy(q), NEW doomed, NEW r, r = Purge(q, doomed)
  PROVE  Healthy(r) /\ Pending(r) \subseteq Pending(q) \ doomed
<1>1. PICK M, K : WellFormed(q, M, K)
  BY DEF Healthy
<1>2. WellFormed(r, M, K) /\ WithinBounds(r)
  BY <1>1, PurgeProperties DEF Healthy
<1>3. Pending(r) \subseteq Pending(q) \ doomed /\ r.exhausted = q.exhausted
  BY <1>1, PurgeHolds
<1> QED
  BY <1>2, <1>3 DEF Healthy

(* One message taken by a queue that does not refuse it.                   *)
LEMMA HealthyPushed ==
  ASSUME NEW q, Healthy(q), NEW m, m.class \in {"critical", "latest", "best_effort"},
         ~CriticalRefused(q, m), NEW r, r = Push(q, m)
  PROVE  Healthy(r) /\ Pending(r) \subseteq Pending(q) \cup {m}
<1>1. PICK M, K : WellFormed(q, M, K)
  BY DEF Healthy
<1> DEFINE N == M \cup {m}
           L == K \cup {ScopedKey(m)}
<1>2. M \subseteq N /\ K \subseteq L /\ m \in N /\ ScopedKey(m) \in L
  OBVIOUS
<1> HIDE DEF N, L
<1>3. WellFormed(q, N, L)
  BY <1>1, <1>2, WellFormedWider
<1>4. WellFormed(r, N, L) /\ WithinBounds(r)
  BY <1>2, <1>3, PushProperties DEF Healthy
<1>5. Pending(r) \subseteq Pending(q) \cup {m} /\ r.exhausted = q.exhausted
  BY <1>2, <1>3, PushHolds
<1> QED
  BY <1>4, <1>5 DEF Healthy

(* The queue after n of the messages of s.                                 *)
Deliveries(q, s) ==
    CHOOSE f : f = [n \in 0..Len(s) |->
                       IF n = 0 THEN [queue |-> q, lost |-> FALSE] ELSE Take(f[n - 1], s[n])]

(* There is such a function.                                               *)
LEMMA DeliveriesDefined ==
  ASSUME NEW q, NEW M, NEW s \in Seq(M), NEW f, f = Deliveries(q, s)
  PROVE  /\ f[0] = [queue |-> q, lost |-> FALSE]
         /\ \A n \in 1..Len(s) : f[n] = Take(f[n - 1], s[n])
         /\ Deliver(q, s) = f[Len(s)]
<1> DEFINE base == [queue |-> q, lost |-> FALSE]
           Upto(g, k) == g = [n \in 0..k |-> IF n = 0 THEN base ELSE Take(g[n - 1], s[n])]
           Bad == {k \in Nat : \A g : ~Upto(g, k)}
<1>1. Bad = {}
  <2> SUFFICES ASSUME Bad # {} PROVE FALSE
    OBVIOUS
  <2>1. PICK k \in Bad : \A j \in Bad : k <= j
    BY LeastNatural
  <2>2. k # 0
    <3> DEFINE g == [n \in 0..0 |-> base]
    <3>1. 0..0 = {0}
      OBVIOUS
    <3>2. Upto(g, 0)
      BY <3>1
    <3> QED
      BY <3>2
  <2>3. k - 1 \in Nat /\ k - 1 \notin Bad
    <3>1. k \in Nat
      OBVIOUS
    <3> HIDE DEF Bad
    <3>2. k - 1 \in Nat /\ ~(k <= k - 1)
      BY <2>2, <3>1
    <3> QED
      BY <2>1, <3>2
  <2>4. PICK g : Upto(g, k - 1)
    BY <2>3
  <2> DEFINE h == [n \in 0..k |-> IF n = k THEN Take(g[k - 1], s[k]) ELSE g[n]]
  <2> HIDE DEF base
  <2>5. ASSUME NEW n \in 0..k
        PROVE  h[n] = IF n = 0 THEN base ELSE Take(h[n - 1], s[n])
    <3>1. CASE n = k
      <4>1. n # 0 /\ n - 1 \in 0..k /\ n - 1 # k
        BY <2>1, <2>2, <3>1
      <4> QED
        BY <3>1, <4>1
    <3>2. CASE n # k /\ n # 0
      <4>1. n \in 0..(k - 1) /\ n - 1 \in 0..k /\ n - 1 # k
        BY <2>1, <2>2, <3>2
      <4>2. g[n] = Take(g[n - 1], s[n])
        BY <2>4, <3>2, <4>1
      <4> QED
        BY <3>2, <4>1, <4>2
    <3>3. CASE n # k /\ n = 0
      <4>1. n \in 0..(k - 1)
        BY <2>1, <2>2, <3>3
      <4>2. g[n] = base
        BY <2>4, <3>3, <4>1
      <4> QED
        BY <3>3, <4>2
    <3> QED
      BY <3>1, <3>2, <3>3
  <2>6. DOMAIN h = 0..k /\ h = [n \in 0..k |-> h[n]]
    OBVIOUS
  <2> HIDE DEF h
  <2>7. Upto(h, k)
    BY <2>5, <2>6
  <2> QED
    BY <2>7
<1>2. Len(s) \in Nat
  OBVIOUS
<1>3. \E g : Upto(g, Len(s))
  BY <1>1, <1>2
<1>4. Upto(f, Len(s))
  BY <1>3 DEF Deliveries
<1>5. Deliver(q, s) = f[Len(s)]
  BY DEF Deliver, Deliveries
<1> HIDE DEF base
<1>6. f[0] = base /\ \A n \in 1..Len(s) : f[n] = Take(f[n - 1], s[n])
  <2>1. 0 \in 0..Len(s) /\ \A n \in 1..Len(s) : n \in 0..Len(s) /\ n # 0
    BY <1>2
  <2> QED
    BY <1>4, <2>1
<1> QED
  BY <1>5, <1>6 DEF base

(* A recipient that is not lost has a healthy queue, which holds at most   *)
(* what it held and what it was sent.                                      *)
LEMMA HealthyDelivered ==
  ASSUME NEW q, Healthy(q), NEW M, NEW s \in Seq(M),
         \A m \in M : m.class \in {"critical", "latest", "best_effort"},
         NEW r, r = Deliver(q, s), ~r.lost
  PROVE  Healthy(r.queue) /\ Pending(r.queue) \subseteq Pending(q) \cup Range(s)
<1> DEFINE f == Deliveries(q, s)
           Fine(a) == a.lost \/ /\ Healthy(a.queue)
                                /\ Pending(a.queue) \subseteq Pending(q) \cup Range(s)
           Bad == {n \in 0..Len(s) : ~Fine(f[n])}
<1>1. /\ f[0] = [queue |-> q, lost |-> FALSE]
      /\ \A n \in 1..Len(s) : f[n] = Take(f[n - 1], s[n])
      /\ r = f[Len(s)]
  BY DeliveriesDefined
<1> HIDE DEF f
<1>2. Fine(f[0])
  BY <1>1
<1>3. ASSUME NEW n \in 1..Len(s), Fine(f[n - 1]) PROVE Fine(f[n])
  <2> DEFINE a == f[n - 1]
             m == s[n]
  <2>1. m \in M /\ m \in Range(s)
    BY DEF Range
  <2>2. f[n] = IF a.lost THEN a
               ELSE [queue |-> Push(a.queue, m), lost |-> CriticalRefused(a.queue, m)]
    BY <1>1 DEF Take
  <2> HIDE DEF a, m
  <2>3. CASE a.lost
    BY <2>2, <2>3
  <2>4. CASE ~a.lost
    <3>1. /\ f[n].queue = Push(a.queue, m)
          /\ f[n].lost = CriticalRefused(a.queue, m)
      BY <2>2, <2>4
    <3>2. Healthy(a.queue) /\ Pending(a.queue) \subseteq Pending(q) \cup Range(s)
      BY <1>3, <2>4 DEF a
    <3>3. CASE CriticalRefused(a.queue, m)
      BY <3>1, <3>3
    <3>4. CASE ~CriticalRefused(a.queue, m)
      <4>1. /\ Healthy(f[n].queue)
            /\ Pending(f[n].queue) \subseteq Pending(a.queue) \cup {m}
        BY <2>1, <3>1, <3>2, <3>4, HealthyPushed
      <4> QED
        BY <2>1, <3>2, <4>1
    <3> QED
      BY <3>3, <3>4
  <2> QED
    BY <2>3, <2>4
<1> HIDE DEF Fine
<1>4. Bad = {}
  <2> SUFFICES ASSUME Bad # {} PROVE FALSE
    OBVIOUS
  <2>1. Bad \subseteq 0..Len(s) /\ Bad \in SUBSET Nat /\ Len(s) \in Nat
    OBVIOUS
  <2>2. PICK k \in Bad : \A j \in Bad : k <= j
    BY <2>1, LeastNatural
  <2>3. k \in 1..Len(s)
    <3>1. k # 0
      BY <1>2, <2>2
    <3> QED
      BY <2>1, <3>1
  <2>4. k - 1 \notin Bad /\ k - 1 \in 0..Len(s)
    <3> HIDE DEF Bad
    <3>1. k - 1 \in 0..Len(s) /\ ~(k <= k - 1)
      BY <2>1, <2>3
    <3> QED
      BY <2>2, <3>1
  <2>5. Fine(f[k - 1])
    BY <2>4
  <2>6. Fine(f[k])
    BY <1>3, <2>3, <2>5
  <2> QED
    BY <2>2, <2>6
<1>5. Fine(f[Len(s)])
  <2>1. Len(s) \in 0..Len(s)
    OBVIOUS
  <2> QED
    BY <1>4, <2>1
<1> QED
  BY <1>1, <1>5 DEF Fine

-----------------------------------------------------------------------------
(* A state of finitely many entries, and the sum of their sizes.           *)
Tallied(a) ==
    /\ IsFiniteSet(DOMAIN a.state)
    /\ \A k \in DOMAIN a.state : a.state[k].size \in Nat
    /\ a.bytes = StoredBytes(a.state)

(* commit of one stateful message: a new entry, or another size for an old *)
(* one, which is counted off.                                              *)
LEMMA StoreTallied ==
  ASSUME NEW a, Tallied(a), NEW m, m.size \in Nat, NEW r, r = Store(a, m)
  PROVE  Tallied(r) /\ DOMAIN r.state \subseteq DOMAIN a.state \cup {StateKey(m)}
<1>1. CASE m.channel \notin StatefulChannels
  BY <1>1 DEF Store
<1>2. CASE m.channel \in StatefulChannels
  <2> DEFINE k == StateKey(m)
             D == DOMAIN a.state
             freed == IF k \in D THEN a.state[k].size ELSE 0
             new == [sequence |-> m.sequence, size |-> m.size]
             f == [x \in D |-> a.state[x].size]
             g == [x \in D \cup {k} |-> IF x = k THEN m.size ELSE f[x]]
  <2>1. r = [state |-> Insert(a.state, k, new), bytes |-> a.bytes - freed + m.size]
    BY <1>2 DEF Store
  <2>2. /\ r.state = [x \in D \cup {k} |-> IF x = k THEN new ELSE a.state[x]]
        /\ r.bytes = a.bytes - freed + m.size
    BY <2>1 DEF Insert
  <2>3. /\ IsFiniteSet(D) /\ f \in [D -> Nat] /\ a.bytes = Total(f)
        /\ g \in [D \cup {k} -> Nat] /\ g[k] = m.size /\ new.size = m.size
        /\ \A x \in D : x # k => g[x] = f[x]
        /\ k \in D => f[k] = a.state[k].size
    BY DEF Tallied, StoredBytes
  <2>4. DOMAIN r.state = D \cup {k} /\ IsFiniteSet(D \cup {k})
    BY <2>2, <2>3, FS_AddElement
  <2>5. \A x \in D \cup {k} : r.state[x].size = g[x]
    BY <2>2, <2>3
  <2>6. StoredBytes(r.state) = Total(g)
    <3>1. [x \in DOMAIN r.state |-> r.state[x].size] = g
      BY <2>4, <2>5
    <3> QED
      BY <3>1 DEF StoredBytes
  <2>0. D = DOMAIN a.state /\ k = StateKey(m)
    OBVIOUS
  <2>00. freed = IF k \in D THEN a.state[k].size ELSE 0
    OBVIOUS
  <2> HIDE DEF f, g, D, k, new, freed
  <2>7. r.bytes = Total(g)
    <3>1. CASE k \notin D
      <4>1. TermAdded(D, f, k, g)
        BY <2>3, <3>1 DEF TermAdded
      <4>2. Total(g) = Total(f) + m.size /\ Total(f) \in Nat
        BY <2>3, <4>1, TotalMore
      <4> QED
        BY <2>00, <2>2, <2>3, <3>1, <4>2
    <3>2. CASE k \in D
      <4> DEFINE h == [x \in D \ {k} |-> f[x]]
      <4>1. /\ IsFiniteSet(D \ {k}) /\ D = (D \ {k}) \cup {k} /\ D \cup {k} = D
            /\ h \in [D \ {k} -> Nat] /\ \A x \in D \ {k} : f[x] = h[x] /\ g[x] = h[x]
        BY <2>3, <3>2, FS_RemoveElement
      <4> HIDE DEF h
      <4>2. f \in [(D \ {k}) \cup {k} -> Nat] /\ g \in [(D \ {k}) \cup {k} -> Nat]
        BY <2>3, <4>1
      <4>3. TermAdded(D \ {k}, h, k, f) /\ TermAdded(D \ {k}, h, k, g)
        BY <4>1, <4>2 DEF TermAdded
      <4>4. Total(f) = Total(h) + f[k] /\ Total(h) \in Nat /\ f[k] \in Nat
        BY <4>3, TotalMore
      <4>5. Total(g) = Total(h) + g[k]
        BY <4>3, TotalMore
      <4>6. freed = f[k] /\ r.bytes = Total(f) - f[k] + m.size
        BY <2>00, <2>2, <2>3, <3>2
      <4> QED
        BY <2>3, <4>4, <4>5, <4>6
    <3> QED
      BY <3>1, <3>2
  <2>8. \A x \in DOMAIN r.state : r.state[x].size \in Nat
    BY <2>3, <2>4, <2>5
  <2> QED
    BY <2>0, <2>4, <2>6, <2>7, <2>8 DEF Tallied
<1> QED
  BY <1>1, <1>2

(* The state after n of the messages of s.                                 *)
Storages(v, s) ==
    CHOOSE f : f = [n \in 0..Len(s) |->
                       IF n = 0 THEN [state |-> v.state, bytes |-> v.state_bytes]
                       ELSE Store(f[n - 1], s[n])]

(* There is such a function.                                               *)
LEMMA StoragesDefined ==
  ASSUME NEW v, NEW M, NEW s \in Seq(M), NEW f, f = Storages(v, s)
  PROVE  /\ f[0] = [state |-> v.state, bytes |-> v.state_bytes]
         /\ \A n \in 1..Len(s) : f[n] = Store(f[n - 1], s[n])
         /\ Stored(v, s) = f[Len(s)]
<1> DEFINE base == [state |-> v.state, bytes |-> v.state_bytes]
           Upto(g, k) == g = [n \in 0..k |-> IF n = 0 THEN base ELSE Store(g[n - 1], s[n])]
           Bad == {k \in Nat : \A g : ~Upto(g, k)}
<1>1. Bad = {}
  <2> SUFFICES ASSUME Bad # {} PROVE FALSE
    OBVIOUS
  <2>1. PICK k \in Bad : \A j \in Bad : k <= j
    BY LeastNatural
  <2>2. k # 0
    <3> DEFINE g == [n \in 0..0 |-> base]
    <3>1. 0..0 = {0}
      OBVIOUS
    <3>2. Upto(g, 0)
      BY <3>1
    <3> QED
      BY <3>2
  <2>3. k - 1 \in Nat /\ k - 1 \notin Bad
    <3>1. k \in Nat
      OBVIOUS
    <3> HIDE DEF Bad
    <3>2. k - 1 \in Nat /\ ~(k <= k - 1)
      BY <2>2, <3>1
    <3> QED
      BY <2>1, <3>2
  <2>4. PICK g : Upto(g, k - 1)
    BY <2>3
  <2> DEFINE h == [n \in 0..k |-> IF n = k THEN Store(g[k - 1], s[k]) ELSE g[n]]
  <2> HIDE DEF base
  <2>5. ASSUME NEW n \in 0..k
        PROVE  h[n] = IF n = 0 THEN base ELSE Store(h[n - 1], s[n])
    <3>1. CASE n = k
      <4>1. n # 0 /\ n - 1 \in 0..k /\ n - 1 # k
        BY <2>1, <2>2, <3>1
      <4> QED
        BY <3>1, <4>1
    <3>2. CASE n # k /\ n # 0
      <4>1. n \in 0..(k - 1) /\ n - 1 \in 0..k /\ n - 1 # k
        BY <2>1, <2>2, <3>2
      <4>2. g[n] = Store(g[n - 1], s[n])
        BY <2>4, <3>2, <4>1
      <4> QED
        BY <3>2, <4>1, <4>2
    <3>3. CASE n # k /\ n = 0
      <4>1. n \in 0..(k - 1)
        BY <2>1, <2>2, <3>3
      <4>2. g[n] = base
        BY <2>4, <3>3, <4>1
      <4> QED
        BY <3>3, <4>2
    <3> QED
      BY <3>1, <3>2, <3>3
  <2>6. DOMAIN h = 0..k /\ h = [n \in 0..k |-> h[n]]
    OBVIOUS
  <2> HIDE DEF h
  <2>7. Upto(h, k)
    BY <2>5, <2>6
  <2> QED
    BY <2>7
<1>2. Len(s) \in Nat
  OBVIOUS
<1>3. \E g : Upto(g, Len(s))
  BY <1>1, <1>2
<1>4. Upto(f, Len(s))
  BY <1>3 DEF Storages
<1>5. Stored(v, s) = f[Len(s)]
  BY DEF Stored, Storages
<1> HIDE DEF base
<1>6. f[0] = base /\ \A n \in 1..Len(s) : f[n] = Store(f[n - 1], s[n])
  <2>1. 0 \in 0..Len(s) /\ \A n \in 1..Len(s) : n \in 0..Len(s) /\ n # 0
    BY <1>2
  <2> QED
    BY <1>4, <2>1
<1> QED
  BY <1>5, <1>6 DEF base

(* The state's account of itself, of any record.                           *)
Counted(v) == Tallied([state |-> v.state, bytes |-> v.state_bytes])

(* What a commit leaves in the state: what was there and what it brings,   *)
(* and its byte count is still their sum.                                  *)
LEMMA StoredTallied ==
  ASSUME NEW v, Counted(v), NEW M, NEW s \in Seq(M), \A m \in M : m.size \in Nat,
         NEW r, r = Stored(v, s)
  PROVE  /\ Tallied(r)
         /\ \A k \in DOMAIN r.state : k \in DOMAIN v.state \/ \E m \in Range(s) : k = StateKey(m)
<1> DEFINE f == Storages(v, s)
           Fine(a) == /\ Tallied(a)
                      /\ \A k \in DOMAIN a.state :
                            k \in DOMAIN v.state \/ \E m \in Range(s) : k = StateKey(m)
           Bad == {n \in 0..Len(s) : ~Fine(f[n])}
<1>1. /\ f[0] = [state |-> v.state, bytes |-> v.state_bytes]
      /\ \A n \in 1..Len(s) : f[n] = Store(f[n - 1], s[n])
      /\ r = f[Len(s)]
  BY StoragesDefined
<1> HIDE DEF f
<1>2. Fine(f[0])
  BY <1>1 DEF Counted
<1>3. ASSUME NEW n \in 1..Len(s), Fine(f[n - 1]) PROVE Fine(f[n])
  <2>1. s[n] \in M /\ s[n] \in Range(s) /\ s[n].size \in Nat
    BY DEF Range
  <2>2. Tallied(f[n]) /\ DOMAIN f[n].state \subseteq DOMAIN f[n - 1].state \cup {StateKey(s[n])}
    BY <1>1, <1>3, <2>1, StoreTallied
  <2> QED
    BY <1>3, <2>1, <2>2
<1> HIDE DEF Fine
<1>4. Bad = {}
  <2> SUFFICES ASSUME Bad # {} PROVE FALSE
    OBVIOUS
  <2>1. Bad \subseteq 0..Len(s) /\ Bad \in SUBSET Nat /\ Len(s) \in Nat
    OBVIOUS
  <2>2. PICK k \in Bad : \A j \in Bad : k <= j
    BY <2>1, LeastNatural
  <2>3. k \in 1..Len(s)
    <3>1. k # 0
      BY <1>2, <2>2
    <3> QED
      BY <2>1, <3>1
  <2>4. k - 1 \notin Bad /\ k - 1 \in 0..Len(s)
    <3> HIDE DEF Bad
    <3>1. k - 1 \in 0..Len(s) /\ ~(k <= k - 1)
      BY <2>1, <2>3
    <3> QED
      BY <2>2, <3>1
  <2>5. Fine(f[k - 1])
    BY <2>4
  <2>6. Fine(f[k])
    BY <1>3, <2>3, <2>5
  <2> QED
    BY <2>2, <2>6
<1>5. Fine(f[Len(s)])
  <2>1. Len(s) \in 0..Len(s)
    OBVIOUS
  <2> QED
    BY <1>4, <2>1
<1> QED
  BY <1>1, <1>5 DEF Fine

(* Fewer entries need no more bytes.                                       *)
LEMMA StoredFewer ==
  ASSUME NEW state, IsFiniteSet(DOMAIN state),
         \A k \in DOMAIN state : state[k].size \in Nat, NEW gone,
         NEW r, r = Drop(state, gone)
  PROVE  /\ IsFiniteSet(DOMAIN r) /\ \A k \in DOMAIN r : r[k].size \in Nat
         /\ StoredBytes(r) <= StoredBytes(state)
         /\ StoredBytes(r) \in Nat /\ StoredBytes(state) \in Nat
         /\ Cardinality(DOMAIN r) <= Cardinality(DOMAIN state)
         /\ Cardinality(DOMAIN r) \in Nat /\ Cardinality(DOMAIN state) \in Nat
<1> DEFINE D == DOMAIN state
           E == DOMAIN r
           f == [k \in D |-> state[k].size]
           g == [k \in E |-> r[k].size]
<1>1. /\ E \in SUBSET D /\ \A k \in E : r[k] = state[k]
  BY DEF Drop, Restrict
<1>2. /\ IsFiniteSet(E) /\ Cardinality(E) <= Cardinality(D)
      /\ Cardinality(E) \in Nat /\ Cardinality(D) \in Nat
  BY <1>1, FS_Subset, FS_CardinalityType
<1>3. f \in [D -> Nat] /\ g \in [E -> Nat] /\ \A k \in E : g[k] = f[k]
  BY <1>1
<1>4. StoredBytes(state) = Total(f) /\ StoredBytes(r) = Total(g)
  BY DEF StoredBytes
<1>5. \A k \in E : r[k].size \in Nat
  BY <1>1
<1> HIDE DEF f, g, D, E
<1>6. Units(g) \in SUBSET Units(f)
  BY <1>1, <1>3 DEF Units
<1>7. /\ IsFiniteSet(Units(f)) /\ Total(f) = Cardinality(Units(f)) /\ Total(f) \in Nat
      /\ Total(g) = Cardinality(Units(g)) /\ Total(g) \in Nat
  BY <1>2, <1>3, TotalTyped DEF D
<1>8. Total(g) <= Total(f)
  BY <1>6, <1>7, FS_Subset
<1> QED
  BY <1>2, <1>4, <1>5, <1>7, <1>8 DEF D, E

-----------------------------------------------------------------------------
(* Every open connection, those of cs aside, has a healthy queue, and what *)
(* is in it is in scope and of a space it is subscribed to.                *)
Served(v, cs) ==
    \A c \in v.connected \ cs :
        /\ Healthy(v.queue[c])
        /\ \A m \in Pending(v.queue[c]) : InScope(v, m) /\ m.space \in v.subscriptions[c]

(* StoredInScope, of any record.                                           *)
Keeping(v) ==
    /\ Counted(v)
    /\ v.state_bytes <= MaxStateBytes
    /\ Cardinality(DOMAIN v.state) <= MaxStateEntries
    /\ \A k \in DOMAIN v.state \cup DOMAIN v.sequences : InScope(v, k)
    /\ \A k \in DOMAIN v.sequences : k.connection \in v.members

(* A sequence is forgotten only with its scope or its connection.          *)
Remembers(v, u) ==
    \A k \in DOMAIN v.sequences :
        InScope(u, k) /\ k.connection \in u.members
            => k \in DOMAIN u.sequences /\ u.sequences[k] = v.sequences[k]

(* What JournaledOnce says of the sequences: within the stay of its         *)
(* publisher and its scope one is neither forgotten nor lowered.           *)
Recalls(v, u) ==
    \A k \in DOMAIN v.sequences :
        k.connection \in u.members /\ InScope(u, k) =>
            /\ k \in DOMAIN u.sequences
            /\ \/ u.sequences[k] = v.sequences[k]
               \/ u.sequences[k] > v.sequences[k]

(* u holds what v holds, without gone.                                     *)
Cleared(v, u, gone) ==
    /\ DOMAIN u.queue = DOMAIN v.queue
    /\ \A c \in DOMAIN v.queue : u.queue[c] = Purge(v.queue[c], gone)
    /\ u.state = Drop(v.state, gone)
    /\ u.state_bytes = StoredBytes(u.state)
    /\ u.sequences = Drop(v.sequences, gone)

(* The retains and the purges of one removal.                              *)
LEMMA Clearing ==
  ASSUME NEW v, IsWorld(v), NEW gone, NEW u, u = PurgeAll(Forget(v, gone), gone)
  PROVE  SameGraph(v, u) /\ u.journal = v.journal /\ Cleared(v, u, gone)
<1> DEFINE f == Forget(v, gone)
           s == Drop(v.state, gone)
           sq == Drop(v.sequences, gone)
           n == StoredBytes(s)
           q == [c \in DOMAIN f.queue |-> Purge(f.queue[c], gone)]
<1>1. f = [v EXCEPT !.state = s, !.state_bytes = n, !.sequences = sq]
  BY DEF Forget
<1>2. u = [f EXCEPT !.queue = q]
  BY DEF PurgeAll
<1>3. SameGraph(v, f) /\ f.journal = v.journal /\ f.queue = v.queue
  BY Forgetting
<1>4. SameGraph(f, u) /\ u.journal = f.journal
  BY <1>3, Purging DEF SameGraph
<1>5. DOMAIN q = DOMAIN v.queue /\ \A c \in DOMAIN v.queue : q[c] = Purge(v.queue[c], gone)
  BY <1>3
<1> HIDE DEF q, s, sq, n
<1>6. f.state = s /\ f.state_bytes = n /\ f.sequences = sq
  BY <1>1 DEF IsWorld
<1> HIDE DEF f
<1>7. u.queue = q /\ u.state = s /\ u.state_bytes = n /\ u.sequences = sq
  BY <1>2, <1>3, <1>6 DEF SameGraph, IsWorld
<1>8. SameGraph(v, u)
  BY <1>3, <1>4 DEF SameGraph
<1>9. Cleared(v, u, gone)
  BY <1>5, <1>7 DEF Cleared, s, sq, n
<1> QED
  BY <1>3, <1>4, <1>8, <1>9

(* What is left of the queues is in scope, if what is left at all is.      *)
LEMMA ClearedServed ==
  ASSUME NEW v, NEW u, NEW gone, NEW cs, Served(v, cs), u.connected = v.connected,
         \A c \in v.connected : u.queue[c] = Purge(v.queue[c], gone),
         \A c \in v.connected \ cs : \A m \in Pending(v.queue[c]) \ gone :
             InScope(v, m) /\ m.space \in v.subscriptions[c]
                 => InScope(u, m) /\ m.space \in u.subscriptions[c]
  PROVE  Served(u, cs)
<1> SUFFICES ASSUME NEW c \in v.connected \ cs
    PROVE  /\ Healthy(u.queue[c])
           /\ \A m \in Pending(u.queue[c]) : InScope(u, m) /\ m.space \in u.subscriptions[c]
  BY DEF Served
<1>1. u.queue[c] = Purge(v.queue[c], gone)
  OBVIOUS
<1>2. /\ Healthy(v.queue[c])
      /\ \A m \in Pending(v.queue[c]) : InScope(v, m) /\ m.space \in v.subscriptions[c]
  BY DEF Served
<1>3. Healthy(u.queue[c]) /\ Pending(u.queue[c]) \subseteq Pending(v.queue[c]) \ gone
  BY <1>1, <1>2, HealthyPurged
<1> QED
  BY <1>2, <1>3

(* The same of the state and the sequences.                                *)
LEMMA ClearedKeeping ==
  ASSUME NEW v, NEW u, NEW gone, Keeping(v), Cleared(v, u, gone), u.members = v.members,
         \A k \in (DOMAIN v.state \cup DOMAIN v.sequences) \ gone :
             InScope(v, k) => InScope(u, k)
  PROVE  Keeping(u)
<1>1. /\ u.state = Drop(v.state, gone) /\ u.state_bytes = StoredBytes(u.state)
      /\ u.sequences = Drop(v.sequences, gone)
  BY DEF Cleared
<1>2. /\ IsFiniteSet(DOMAIN v.state) /\ \A k \in DOMAIN v.state : v.state[k].size \in Nat
      /\ v.state_bytes = StoredBytes(v.state)
  BY DEF Keeping, Counted, Tallied
<1>3. /\ IsFiniteSet(DOMAIN u.state) /\ \A k \in DOMAIN u.state : u.state[k].size \in Nat
      /\ StoredBytes(u.state) <= StoredBytes(v.state)
      /\ StoredBytes(u.state) \in Nat /\ StoredBytes(v.state) \in Nat
      /\ Cardinality(DOMAIN u.state) <= Cardinality(DOMAIN v.state)
      /\ Cardinality(DOMAIN u.state) \in Nat /\ Cardinality(DOMAIN v.state) \in Nat
  BY <1>1, <1>2, StoredFewer
<1>4. Counted(u)
  BY <1>1, <1>3 DEF Counted, Tallied
<1>5. u.state_bytes <= MaxStateBytes /\ Cardinality(DOMAIN u.state) <= MaxStateEntries
  <2>1. v.state_bytes <= MaxStateBytes /\ Cardinality(DOMAIN v.state) <= MaxStateEntries
    BY DEF Keeping
  <2>2. MaxStateBytes \in Nat /\ MaxStateEntries \in Nat
    BY ChannelAssumption
  <2> QED
    BY <1>1, <1>2, <1>3, <2>1, <2>2
<1>6. /\ DOMAIN u.state = DOMAIN v.state \ gone
      /\ DOMAIN u.sequences = DOMAIN v.sequences \ gone
  BY <1>1 DEF Drop, Restrict
<1>7. \A k \in DOMAIN u.state \cup DOMAIN u.sequences : InScope(u, k)
  BY <1>6 DEF Keeping
<1>8. \A k \in DOMAIN u.sequences : k.connection \in u.members
  BY <1>6 DEF Keeping
<1> QED
  BY <1>4, <1>5, <1>7, <1>8 DEF Keeping

-----------------------------------------------------------------------------
(* What the removal of some entities takes along.                          *)
Lost(v, seed) ==
    {k \in Held(v) : k.space \in FallingSpaces(v, seed) \/ k.entity \in Fallen(v, seed)}

(* remove_entities_and_anchored_spaces, what is held.                      *)
LEMMA RemovalClears ==
  ASSUME NEW v, IsWorld(v), NEW seed, NEW u, u = RemoveEntities(v, seed)
  PROVE  Cleared(v, u, Lost(v, seed))
<1> DEFINE S == FallingSpaces(v, seed)
           E == Fallen(v, seed)
           gone == Lost(v, seed)
           subscriptions == [c \in DOMAIN v.subscriptions |-> v.subscriptions[c] \ S]
           owned == OwnedCounts(v, E)
           spaces == Drop(v.spaces, S)
           tombstones == [x \in DOMAIN v.tombstones \cup S |->
                             IF x \in S THEN v.spaces[x].epoch ELSE v.tombstones[x]]
           subscribers == Drop(v.subscribers, S)
           entities == Drop(v.entities, E)
           g == [v EXCEPT !.entities = entities, !.spaces = spaces,
                          !.tombstones = tombstones, !.subscribers = subscribers,
                          !.owned = owned, !.subscriptions = subscriptions]
<1>1. u = PurgeAll(Forget(g, gone), gone)
  BY DEF RemoveEntities, Fallen, Lost
<1> HIDE DEF S, E, gone, subscriptions, owned, spaces, tombstones, subscribers, entities
<1>2. IsWorld(g)
  BY DEF IsWorld
<1>3. /\ g.queue = v.queue /\ g.state = v.state /\ g.sequences = v.sequences
  BY DEF IsWorld
<1> HIDE DEF g
<1>4. Cleared(g, u, gone)
  BY <1>1, <1>2, Clearing
<1> QED
  BY <1>3, <1>4 DEF Cleared, gone

(* What is in scope after a removal is what was and has not been removed.  *)
LEMMA RemovalScope ==
  ASSUME NEW v, NEW u, NEW seed \in SUBSET DOMAIN v.entities, Whole(v), Removal(v, u, seed), NEW k
  PROVE  InScope(u, k) <=> /\ InScope(v, k)
                           /\ k.space \notin FallingSpaces(v, seed)
                           /\ k.entity \notin Fallen(v, seed)
<1> DEFINE S == FallingSpaces(v, seed)
           E == Fallen(v, seed)
<1>1. E \subseteq DOMAIN v.entities /\ NoEntity \notin E
  <2>1. E \subseteq DOMAIN v.entities
    BY DEF Fallen, EntitiesIn
  <2>2. DOMAIN v.entities \subseteq Nat
    BY DEF Whole, Sane
  <2> QED
    BY <2>1, <2>2, OptionAssumption
<1>2. /\ DOMAIN u.spaces = DOMAIN v.spaces \ S
      /\ \A x \in DOMAIN u.spaces : u.spaces[x] = v.spaces[x]
      /\ DOMAIN u.entities = DOMAIN v.entities \ E
      /\ \A e \in DOMAIN u.entities : u.entities[e] = v.entities[e]
  <2>1. u.spaces = Drop(v.spaces, S) /\ u.entities = Drop(v.entities, E)
    BY DEF Removal
  <2> HIDE DEF S, E
  <2> QED
    BY <2>1 DEF Drop, Restrict
<1>3. \A e \in DOMAIN v.entities \ E : v.entities[e].space \notin S
  BY DEF Fallen, EntitiesIn
<1> HIDE DEF S, E
<1>4. ASSUME InScope(u, k) PROVE InScope(v, k) /\ k.space \notin S /\ k.entity \notin E
  BY <1>1, <1>2, <1>4 DEF InScope
<1>5. ASSUME InScope(v, k), k.space \notin S, k.entity \notin E PROVE InScope(u, k)
  BY <1>1, <1>2, <1>5 DEF InScope
<1> QED
  BY <1>4, <1>5 DEF S, E

(* remove_entities_and_anchored_spaces leaves nothing of what is gone, and *)
(* forgets nothing else.                                                   *)
LEMMA RemovalKeeps ==
  ASSUME NEW v, NEW u, NEW seed \in SUBSET DOMAIN v.entities, Whole(v),
         u = RemoveEntities(v, seed)
  PROVE  /\ \A cs : Served(v, cs) => Served(u, cs)
         /\ Keeping(v) => Keeping(u)
         /\ Remembers(v, u)
         /\ u.journal = v.journal /\ Cleared(v, u, Lost(v, seed))
<1> DEFINE S == FallingSpaces(v, seed)
           E == Fallen(v, seed)
           gone == Lost(v, seed)
<1>1. Removal(v, u, seed)
  BY Removing DEF Whole, Sane
<1>2. Cleared(v, u, gone)
  BY RemovalClears DEF Whole, Sane
<1>3. \A k : InScope(u, k) <=> InScope(v, k) /\ k.space \notin S /\ k.entity \notin E
  BY <1>1, RemovalScope
<1>4. \A k \in Held(v) : k \in gone <=> k.space \in S \/ k.entity \in E
  BY DEF Lost
<1>5. /\ u.connected = v.connected /\ u.members = v.members /\ u.journal = v.journal
      /\ DOMAIN v.queue = v.connected
      /\ \A c \in v.connected : u.subscriptions[c] = v.subscriptions[c] \ S
  BY <1>1 DEF Removal, Whole, Sane
<1> HIDE DEF S, E, gone
<1>6. ASSUME NEW cs, Served(v, cs) PROVE Served(u, cs)
  <2>1. ASSUME NEW c \in v.connected \ cs, NEW m \in Pending(v.queue[c]) \ gone,
               InScope(v, m), m.space \in v.subscriptions[c]
        PROVE  InScope(u, m) /\ m.space \in u.subscriptions[c]
    <3>1. m \in Held(v)
      BY <1>5 DEF Held
    <3>2. m.space \notin S /\ m.entity \notin E
      BY <1>4, <3>1
    <3> QED
      BY <1>3, <1>5, <2>1, <3>2
  <2>2. \A c \in v.connected : u.queue[c] = Purge(v.queue[c], gone)
    BY <1>2, <1>5 DEF Cleared
  <2> QED
    BY <1>5, <1>6, <2>1, <2>2, ClearedServed
<1>7. ASSUME Keeping(v) PROVE Keeping(u)
  <2>1. ASSUME NEW k \in (DOMAIN v.state \cup DOMAIN v.sequences) \ gone, InScope(v, k)
        PROVE  InScope(u, k)
    <3>1. k \in Held(v)
      BY DEF Held
    <3> QED
      BY <1>3, <1>4, <2>1, <3>1
  <2> QED
    BY <1>2, <1>5, <1>7, <2>1, ClearedKeeping
<1>8. ASSUME NEW k \in DOMAIN v.sequences, InScope(u, k)
      PROVE  k \in DOMAIN u.sequences /\ u.sequences[k] = v.sequences[k]
  <2>1. k \in Held(v) /\ k \notin gone
    <3>1. k \in Held(v)
      BY DEF Held
    <3> QED
      BY <1>3, <1>4, <1>8, <3>1
  <2>2. u.sequences = Drop(v.sequences, gone)
    BY <1>2 DEF Cleared
  <2> QED
    BY <2>1, <2>2 DEF Drop, Restrict
<1> QED
  BY <1>2, <1>5, <1>6, <1>7, <1>8 DEF Remembers, gone

-----------------------------------------------------------------------------
(* What the scope of a key depends on.                                     *)
LEMMA SameScope ==
  ASSUME NEW v, NEW u, u.spaces = v.spaces, u.entities = v.entities, NEW k
  PROVE  InScope(u, k) <=> InScope(v, k)
BY DEF InScope

(* u is what is left of l when the connections of cs have taken leave.     *)
Leaving(l, u, cs) ==
    /\ u.connected = l.connected /\ u.members = l.members \ cs
    /\ u.spaces = l.spaces /\ u.entities = l.entities
    /\ u.state = l.state /\ u.state_bytes = l.state_bytes /\ u.journal = l.journal
    /\ u.sequences = Drop(l.sequences, {k \in DOMAIN l.sequences : k.connection \in cs})
    /\ \A c \in l.connected :
          /\ u.subscriptions[c] = IF c \in cs THEN {} ELSE l.subscriptions[c]
          /\ u.queue[c] = IF c \in cs THEN Purge(l.queue[c], Pending(l.queue[c]))
                                      ELSE l.queue[c]

(* detach_connection_from_session, the part after the removal.             *)
LEMMA DetachLeaves ==
  ASSUME NEW v, NEW u, NEW cs, NEW seed, Whole(v), u = Detach(v, cs),
         seed = UNION {OwnedBy(v, c) : c \in cs}, NEW l, l = RemoveEntities(v, seed)
  PROVE  Leaving(l, u, cs)
<1> DEFINE gone == {k \in DOMAIN l.sequences : k.connection \in cs}
           ms == l.members \ cs
           ns == l.memberships \ cs
           rs == [x \in DOMAIN l.subscribers |-> l.subscribers[x] \ cs]
           ss == [c \in DOMAIN l.subscriptions |->
                    IF c \in cs THEN {} ELSE l.subscriptions[c]]
           sq == Drop(l.sequences, gone)
           q == [c \in DOMAIN l.queue |->
                   IF c \in cs THEN Purge(l.queue[c], Pending(l.queue[c])) ELSE l.queue[c]]
<1>1. u = [l EXCEPT !.members = ms, !.subscribers = rs, !.sequences = sq,
                    !.memberships = ns, !.subscriptions = ss, !.queue = q]
  BY DEF Detach
<1>2. Whole(l)
  BY RemovalWhole
<1>3. DOMAIN l.subscriptions = l.connected /\ DOMAIN l.queue = l.connected /\ IsWorld(l)
  BY <1>2 DEF Whole, Sane
<1>4. \A c \in l.connected :
          /\ ss[c] = IF c \in cs THEN {} ELSE l.subscriptions[c]
          /\ q[c] = IF c \in cs THEN Purge(l.queue[c], Pending(l.queue[c])) ELSE l.queue[c]
  BY <1>3
<1> HIDE DEF ms, ns, rs, ss, sq, q
<1>5. /\ u.connected = l.connected /\ u.members = ms /\ u.subscriptions = ss
      /\ u.spaces = l.spaces /\ u.entities = l.entities /\ u.queue = q
      /\ u.state = l.state /\ u.state_bytes = l.state_bytes /\ u.journal = l.journal
      /\ u.sequences = sq
  BY <1>1, <1>3 DEF IsWorld
<1> QED
  BY <1>4, <1>5 DEF Leaving, ms, sq

(* detach_connection_from_session: the leaver's queue is emptied, nobody   *)
(* else's messages or sequences are touched but by the removal.            *)
LEMMA DetachKeeps ==
  ASSUME NEW v, NEW u, NEW cs, Whole(v), u = Detach(v, cs)
  PROVE  /\ \A ds : cs \subseteq ds /\ Served(v, ds) => Served(u, ds)
         /\ Served(v, {}) => Served(u, {})
         /\ Keeping(v) => Keeping(u)
         /\ Remembers(v, u) /\ u.journal = v.journal
<1> DEFINE seed == UNION {OwnedBy(v, c) : c \in cs}
           l == RemoveEntities(v, seed)
<1>1. Leaving(l, u, cs)
  BY DetachLeaves
<1>2. seed \in SUBSET DOMAIN v.entities
  BY DEF OwnedBy
<1> HIDE DEF seed
<1>3. /\ \A ds : Served(v, ds) => Served(l, ds)
      /\ Keeping(v) => Keeping(l)
      /\ Remembers(v, l) /\ l.journal = v.journal /\ Cleared(v, l, Lost(v, seed))
  BY <1>2, RemovalKeeps
<1>4. Whole(l)
  BY RemovalWhole
<1> HIDE DEF l
<1>5. \A k : InScope(u, k) <=> InScope(l, k)
  BY <1>1, SameScope DEF Leaving
<1>6. u.connected = l.connected
  BY <1>1 DEF Leaving
<1>7. ASSUME NEW ds, NEW c \in l.connected \ ds, Served(l, ds)
      PROVE  /\ Healthy(u.queue[c])
             /\ \A m \in Pending(u.queue[c]) : InScope(u, m) /\ m.space \in u.subscriptions[c]
  <2>1. /\ Healthy(l.queue[c])
        /\ \A m \in Pending(l.queue[c]) : InScope(l, m) /\ m.space \in l.subscriptions[c]
    BY <1>7 DEF Served
  <2>2. CASE c \in cs
    <3>1. u.queue[c] = Purge(l.queue[c], Pending(l.queue[c]))
      BY <1>1, <2>2 DEF Leaving
    <3>2. Healthy(u.queue[c])
          /\ Pending(u.queue[c]) \subseteq Pending(l.queue[c]) \ Pending(l.queue[c])
      BY <2>1, <3>1, HealthyPurged
    <3> QED
      BY <3>2
  <2>3. CASE c \notin cs
    <3>1. u.queue[c] = l.queue[c] /\ u.subscriptions[c] = l.subscriptions[c]
      BY <1>1, <2>3 DEF Leaving
    <3> QED
      BY <1>5, <2>1, <3>1
  <2> QED
    BY <2>2, <2>3
<1>8. \A ds : Served(v, ds) => Served(u, ds)
  <2> SUFFICES ASSUME NEW ds, Served(v, ds) PROVE Served(u, ds)
    OBVIOUS
  <2>1. Served(l, ds)
    BY <1>3
  <2> QED
    BY <1>6, <1>7, <2>1 DEF Served
<1>9. /\ u.members = l.members \ cs /\ u.journal = l.journal
      /\ u.state = l.state /\ u.state_bytes = l.state_bytes
      /\ DOMAIN u.sequences = {k \in DOMAIN l.sequences : k.connection \notin cs}
      /\ \A k \in DOMAIN u.sequences : u.sequences[k] = l.sequences[k]
  <2>1. u.sequences = Drop(l.sequences, {k \in DOMAIN l.sequences : k.connection \in cs})
    BY <1>1 DEF Leaving
  <2>2. /\ DOMAIN u.sequences = {k \in DOMAIN l.sequences : k.connection \notin cs}
        /\ \A k \in DOMAIN u.sequences : u.sequences[k] = l.sequences[k]
    BY <2>1 DEF Drop, Restrict
  <2> QED
    BY <1>1, <2>2 DEF Leaving
<1>10. ASSUME Keeping(l) PROVE Keeping(u)
  <2>1. Counted(u)
    BY <1>9, <1>10 DEF Keeping, Counted
  <2>2. \A k \in DOMAIN u.state \cup DOMAIN u.sequences : InScope(u, k)
    BY <1>5, <1>9, <1>10 DEF Keeping
  <2>3. \A k \in DOMAIN u.sequences : k.connection \in u.members
    BY <1>9, <1>10 DEF Keeping
  <2> QED
    BY <1>9, <1>10, <2>1, <2>2, <2>3 DEF Keeping
<1>11. Remembers(v, u)
  <2> SUFFICES ASSUME NEW k \in DOMAIN v.sequences, InScope(u, k), k.connection \in u.members
      PROVE  k \in DOMAIN u.sequences /\ u.sequences[k] = v.sequences[k]
    BY DEF Remembers
  <2>1. k \in DOMAIN l.sequences /\ l.sequences[k] = v.sequences[k]
    BY <1>3, <1>5, <1>9 DEF Remembers
  <2> QED
    BY <1>9, <2>1
<1> QED
  BY <1>3, <1>8, <1>9, <1>10, <1>11

(* transport_lost: those who are cut off are forgotten, the others keep    *)
(* what they have.                                                         *)
LEMMA DisconnectKeeps ==
  ASSUME NEW v, NEW u, NEW cs, Whole(v), u = Disconnect(v, cs)
  PROVE  /\ Served(v, cs) => Served(u, {})
         /\ Keeping(v) => Keeping(u)
         /\ Remembers(v, u) /\ u.journal = v.journal
<1> DEFINE ms == cs \cap v.memberships
           l == IF ms = {} THEN v ELSE Detach(v, ms)
           a == l.connected \ cs
           b == l.authed \ cs
           d == Drop(l.subscriptions, cs)
           o == Drop(l.owned, cs)
           q == Drop(l.queue, cs)
<1>1. u = [l EXCEPT !.connected = a, !.authed = b, !.subscriptions = d, !.owned = o,
                    !.queue = q]
  BY DEF Disconnect
<1>0. a = l.connected \ cs /\ d = Drop(l.subscriptions, cs) /\ q = Drop(l.queue, cs)
  OBVIOUS
<1> HIDE DEF a, b, d, o, q
<1>2. /\ Whole(l)
      /\ Served(v, cs) => Served(l, cs)
      /\ Keeping(v) => Keeping(l)
      /\ Remembers(v, l) /\ l.journal = v.journal
  <2>1. CASE ms = {}
    BY <2>1 DEF Remembers
  <2>2. CASE ms # {}
    <3>1. l = Detach(v, ms) /\ ms \subseteq cs
      BY <2>2
    <3> HIDE DEF l, ms
    <3> QED
      BY <3>1, DetachWhole, DetachKeeps
  <2> QED
    BY <2>1, <2>2
<1> HIDE DEF l, ms
<1>3. /\ u.connected = a /\ u.subscriptions = d /\ u.queue = q
      /\ u.members = l.members /\ u.spaces = l.spaces /\ u.entities = l.entities
      /\ u.state = l.state /\ u.state_bytes = l.state_bytes
      /\ u.sequences = l.sequences /\ u.journal = l.journal
  BY <1>1, <1>2 DEF Whole, Sane, IsWorld
<1>4. \A k : InScope(u, k) <=> InScope(l, k)
  BY <1>3, SameScope
<1>5. DOMAIN l.subscriptions = l.connected /\ DOMAIN l.queue = l.connected
  BY <1>2 DEF Whole, Sane
<1>6. \A c \in u.connected : /\ c \in l.connected \ cs /\ u.queue[c] = l.queue[c]
                             /\ u.subscriptions[c] = l.subscriptions[c]
  BY <1>0, <1>3, <1>5 DEF Drop, Restrict
<1>7. ASSUME Served(l, cs) PROVE Served(u, {})
  BY <1>4, <1>6, <1>7 DEF Served
<1>8. ASSUME Keeping(l) PROVE Keeping(u)
  <2>1. Counted(u)
    BY <1>3, <1>8 DEF Keeping, Counted
  <2>2. \A k \in DOMAIN u.state \cup DOMAIN u.sequences : InScope(u, k)
    BY <1>3, <1>4, <1>8 DEF Keeping
  <2> QED
    BY <1>3, <1>8, <2>1, <2>2 DEF Keeping
<1>9. Remembers(v, u)
  BY <1>2, <1>3, <1>4 DEF Remembers
<1> QED
  BY <1>2, <1>3, <1>7, <1>8, <1>9

-----------------------------------------------------------------------------
(* The session as a whole: everyone is served, everything kept in scope.   *)
Orderly(v) == Served(v, {}) /\ Keeping(v)

(* A call that only adds to the graph of a session and at most empties     *)
(* queues.                                                                 *)
Gentle(v, u) ==
    /\ \A k : InScope(v, k) => InScope(u, k)
    /\ u.state = v.state /\ u.state_bytes = v.state_bytes
    /\ u.sequences = v.sequences /\ v.members \subseteq u.members
    /\ \A c \in u.connected :
          \/ Healthy(u.queue[c]) /\ Pending(u.queue[c]) = {}
          \/ /\ c \in v.connected /\ u.queue[c] = v.queue[c]
             /\ v.subscriptions[c] \subseteq u.subscriptions[c]

(* It leaves the session as orderly as it was.                             *)
LEMMA GentleKeeps ==
  ASSUME NEW v, NEW u, Orderly(v), Gentle(v, u)
  PROVE  Orderly(u)
<1>1. Served(u, {})
  <2> SUFFICES ASSUME NEW c \in u.connected
      PROVE  /\ Healthy(u.queue[c])
             /\ \A m \in Pending(u.queue[c]) : InScope(u, m) /\ m.space \in u.subscriptions[c]
    BY DEF Served
  <2>1. CASE Healthy(u.queue[c]) /\ Pending(u.queue[c]) = {}
    BY <2>1
  <2>2. CASE /\ c \in v.connected /\ u.queue[c] = v.queue[c]
             /\ v.subscriptions[c] \subseteq u.subscriptions[c]
    <3>1. /\ Healthy(v.queue[c])
          /\ \A m \in Pending(v.queue[c]) : InScope(v, m) /\ m.space \in v.subscriptions[c]
      BY <2>2 DEF Orderly, Served
    <3> QED
      BY <2>2, <3>1 DEF Gentle
  <2> QED
    BY <2>1, <2>2 DEF Gentle
<1>2. Keeping(u)
  <2>1. Counted(u)
    BY DEF Orderly, Keeping, Counted, Gentle
  <2>2. \A k \in DOMAIN u.state \cup DOMAIN u.sequences : InScope(u, k)
    BY DEF Orderly, Keeping, Gentle
  <2>3. \A k \in DOMAIN u.sequences : k.connection \in u.members
    BY DEF Orderly, Keeping, Gentle
  <2> QED
    BY <2>1, <2>2, <2>3 DEF Orderly, Keeping, Gentle
<1> QED
  BY <1>1, <1>2 DEF Orderly

-----------------------------------------------------------------------------
(* transport_connected: a new connection has nothing queued.               *)
LEMMA ConnectKeeps ==
  ASSUME NEW v, NEW u, Whole(v), Orderly(v), u = Connect(v)
  PROVE  Orderly(u) /\ u.journal = v.journal /\ u.sequences = v.sequences
<1> DEFINE c == v.next_connection
           ss == Insert(v.subscriptions, c, {})
           o == Insert(v.owned, c, 0)
           q == Insert(v.queue, c, EmptyQueue)
           cs == v.connected \cup {c}
           n == c + 1
<1>1. u = [v EXCEPT !.next_connection = n, !.connected = cs, !.subscriptions = ss,
                    !.owned = o, !.queue = q]
  BY DEF Connect
<1>2. /\ \A b \in cs : /\ q[b] = IF b = c THEN EmptyQueue ELSE v.queue[b]
                       /\ ss[b] = IF b = c THEN {} ELSE v.subscriptions[b]
      /\ \A b \in cs : b = c \/ b \in v.connected
  BY DEF Insert, Whole, Sane
<1> HIDE DEF c, ss, o, q, cs, n
<1>3. /\ u.connected = cs /\ u.subscriptions = ss /\ u.queue = q
      /\ u.spaces = v.spaces /\ u.entities = v.entities /\ u.members = v.members
      /\ u.state = v.state /\ u.state_bytes = v.state_bytes
      /\ u.sequences = v.sequences /\ u.journal = v.journal
  BY <1>1 DEF IsWorld, Whole, Sane
<1>4. \A k : InScope(v, k) => InScope(u, k)
  BY <1>3, SameScope
<1>5. ASSUME NEW b \in u.connected
      PROVE  \/ Healthy(u.queue[b]) /\ Pending(u.queue[b]) = {}
             \/ /\ b \in v.connected /\ u.queue[b] = v.queue[b]
                /\ v.subscriptions[b] \subseteq u.subscriptions[b]
  BY <1>2, <1>3, HealthyEmpty
<1>6. Gentle(v, u)
  BY <1>3, <1>4, <1>5 DEF Gentle
<1> QED
  BY <1>3, <1>6, GentleKeeps

(* A connection's own standing.                                            *)
LEMMA StandingKeeps ==
  ASSUME NEW v, NEW u, Whole(v), Orderly(v), NEW a, NEW ms, v.members \subseteq ms,
         u = [v EXCEPT !.authed = a, !.memberships = ms, !.members = ms]
  PROVE  Orderly(u) /\ u.journal = v.journal /\ u.sequences = v.sequences
<1>1. /\ u.connected = v.connected /\ u.members = ms /\ u.subscriptions = v.subscriptions
      /\ u.queue = v.queue /\ u.spaces = v.spaces /\ u.entities = v.entities
      /\ u.state = v.state /\ u.state_bytes = v.state_bytes
      /\ u.sequences = v.sequences /\ u.journal = v.journal
  BY DEF IsWorld, Whole, Sane
<1>2. \A k : InScope(v, k) => InScope(u, k)
  BY <1>1, SameScope
<1>3. Gentle(v, u)
  BY <1>1, <1>2 DEF Gentle
<1> QED
  BY <1>1, <1>3, GentleKeeps

(* subscribe.                                                              *)
LEMMA SubscribeKeeps ==
  ASSUME NEW v, NEW u, Whole(v), Orderly(v), NEW c, NEW x, u = Subscribe(v, c, x)
  PROVE  Orderly(u) /\ u.journal = v.journal /\ u.sequences = v.sequences
<1> DEFINE ss == [v.subscriptions EXCEPT ![c] = @ \cup {x}]
           rs == [v.subscribers EXCEPT ![x] = @ \cup {c}]
<1>1. u = [v EXCEPT !.subscriptions = ss, !.subscribers = rs]
  BY DEF Subscribe
<1>2. \A b \in v.connected : v.subscriptions[b] \subseteq ss[b]
  BY DEF Whole, Sane
<1> HIDE DEF ss, rs
<1>3. /\ u.connected = v.connected /\ u.members = v.members /\ u.subscriptions = ss
      /\ u.queue = v.queue /\ u.spaces = v.spaces /\ u.entities = v.entities
      /\ u.state = v.state /\ u.state_bytes = v.state_bytes
      /\ u.sequences = v.sequences /\ u.journal = v.journal
  BY <1>1 DEF IsWorld, Whole, Sane
<1>4. \A k : InScope(v, k) => InScope(u, k)
  BY <1>3, SameScope
<1>5. Gentle(v, u)
  BY <1>2, <1>3, <1>4 DEF Gentle
<1> QED
  BY <1>3, <1>5, GentleKeeps

(* spawn_entity: nothing can be about an entity that was not there.        *)
LEMMA SpawnKeeps ==
  ASSUME NEW v, NEW u, Whole(v), Orderly(v), NEW c, NEW x, u = Spawn(v, c, x)
  PROVE  Orderly(u) /\ u.journal = v.journal /\ u.sequences = v.sequences
<1> DEFINE e == v.next_entity
           new == [owner |-> c, space |-> x, epoch |-> v.spaces[x].epoch]
           es == Insert(v.entities, e, new)
           o == [v.owned EXCEPT ![c] = @ + 1]
           n == v.next_entity + 1
<1>1. u = [v EXCEPT !.next_entity = n, !.entities = es, !.owned = o]
  BY DEF Spawn
<1>2. DOMAIN v.entities \subseteq DOMAIN es /\ \A y \in DOMAIN v.entities : es[y] = v.entities[y]
  BY DEF Insert, Whole, Sane
<1> HIDE DEF e, new, es, o, n
<1>3. /\ u.connected = v.connected /\ u.members = v.members
      /\ u.subscriptions = v.subscriptions
      /\ u.queue = v.queue /\ u.spaces = v.spaces /\ u.entities = es
      /\ u.state = v.state /\ u.state_bytes = v.state_bytes
      /\ u.sequences = v.sequences /\ u.journal = v.journal
  BY <1>1 DEF IsWorld, Whole, Sane
<1>4. \A k : InScope(v, k) => InScope(u, k)
  BY <1>2, <1>3 DEF InScope
<1>5. Gentle(v, u)
  BY <1>3, <1>4 DEF Gentle
<1> QED
  BY <1>3, <1>5, GentleKeeps

(* install_space.                                                          *)
LEMMA InstallKeeps ==
  ASSUME NEW v, NEW u, Whole(v), Orderly(v), NEW x, NEW epoch, NEW parent,
         x \notin DOMAIN v.spaces, u = Install(v, x, epoch, parent)
  PROVE  Orderly(u) /\ u.journal = v.journal /\ u.sequences = v.sequences
<1> DEFINE new == [epoch |-> epoch, parent |-> parent]
           ts == Drop(v.tombstones, {x})
           rs == Insert(v.subscribers, x, {})
           sp == Insert(v.spaces, x, new)
<1>1. u = [v EXCEPT !.tombstones = ts, !.subscribers = rs, !.spaces = sp]
  BY DEF Install
<1>2. DOMAIN v.spaces \subseteq DOMAIN sp /\ \A y \in DOMAIN v.spaces : sp[y] = v.spaces[y]
  BY DEF Insert
<1> HIDE DEF new, ts, rs, sp
<1>3. /\ u.connected = v.connected /\ u.members = v.members
      /\ u.subscriptions = v.subscriptions
      /\ u.queue = v.queue /\ u.spaces = sp /\ u.entities = v.entities
      /\ u.state = v.state /\ u.state_bytes = v.state_bytes
      /\ u.sequences = v.sequences /\ u.journal = v.journal
  BY <1>1 DEF IsWorld, Whole, Sane
<1>4. \A k : InScope(v, k) => InScope(u, k)
  BY <1>2, <1>3 DEF InScope
<1>5. Gentle(v, u)
  BY <1>3, <1>4 DEF Gentle
<1> QED
  BY <1>3, <1>5, GentleKeeps

(* drain of one connection's queue.                                        *)
LEMMA DrainKeeps ==
  ASSUME NEW v, NEW u, Whole(v), Orderly(v), NEW c,
         u = [v EXCEPT !.queue[c] = AfterDrain(@)]
  PROVE  Orderly(u) /\ u.journal = v.journal /\ u.sequences = v.sequences
<1> DEFINE q == [v.queue EXCEPT ![c] = AfterDrain(@)]
<1>1. u = [v EXCEPT !.queue = q]
  OBVIOUS
<1>2. \A b \in v.connected : q[b] = IF b = c THEN AfterDrain(v.queue[b]) ELSE v.queue[b]
  BY DEF Whole, Sane
<1> HIDE DEF q
<1>3. /\ u.connected = v.connected /\ u.members = v.members
      /\ u.subscriptions = v.subscriptions
      /\ u.queue = q /\ u.spaces = v.spaces /\ u.entities = v.entities
      /\ u.state = v.state /\ u.state_bytes = v.state_bytes
      /\ u.sequences = v.sequences /\ u.journal = v.journal
  BY <1>1 DEF IsWorld, Whole, Sane
<1>4. \A k : InScope(v, k) => InScope(u, k)
  BY <1>3, SameScope
<1>5. ASSUME NEW b \in u.connected
      PROVE  \/ Healthy(u.queue[b]) /\ Pending(u.queue[b]) = {}
             \/ /\ b \in v.connected /\ u.queue[b] = v.queue[b]
                /\ v.subscriptions[b] \subseteq u.subscriptions[b]
  <2>1. CASE b = c
    <3>1. Healthy(v.queue[b])
      BY <1>3 DEF Orderly, Served
    <3>2. u.queue[b] = AfterDrain(v.queue[b])
      BY <1>2, <1>3, <2>1
    <3> QED
      BY <3>1, <3>2, HealthyDrained
  <2>2. CASE b # c
    BY <1>2, <1>3, <2>2
  <2> QED
    BY <2>1, <2>2
<1>6. Gentle(v, u)
  BY <1>3, <1>4, <1>5 DEF Gentle
<1> QED
  BY <1>3, <1>6, GentleKeeps

(* pop_journal.                                                            *)
LEMMA PopJournalKeeps ==
  ASSUME NEW v, NEW u, Whole(v), Orderly(v), v.journal # <<>>,
         u = [v EXCEPT !.journal = Tail(@)]
  PROVE  /\ Orderly(u) /\ Len(u.journal) <= Len(v.journal)
         /\ u.sequences = v.sequences
<1>1. /\ u.connected = v.connected /\ u.members = v.members
      /\ u.subscriptions = v.subscriptions
      /\ u.queue = v.queue /\ u.spaces = v.spaces /\ u.entities = v.entities
      /\ u.state = v.state /\ u.state_bytes = v.state_bytes
      /\ u.sequences = v.sequences /\ u.journal = Tail(v.journal)
  BY DEF IsWorld, Whole, Sane
<1>2. \A k : InScope(v, k) => InScope(u, k)
  BY <1>1, SameScope
<1>3. Gentle(v, u)
  BY <1>1, <1>2 DEF Gentle
<1>4. PICK M : v.journal \in Seq(M)
  BY DEF Whole, Capped
<1>5. Len(Tail(v.journal)) <= Len(v.journal)
  BY <1>4
<1> QED
  BY <1>1, <1>3, <1>5, GentleKeeps

(* unsubscribe: what is queued about the space goes with the subscription. *)
LEMMA UnsubscribeKeeps ==
  ASSUME NEW v, NEW u, Whole(v), Orderly(v), NEW c \in v.connected, NEW x,
         u = Unsubscribe(v, c, x)
  PROVE  Orderly(u) /\ u.journal = v.journal /\ u.sequences = v.sequences
<1> DEFINE ss == [v.subscriptions EXCEPT ![c] = @ \ {x}]
           rs == [y \in DOMAIN v.subscribers |-> IF y = x THEN v.subscribers[y] \ {c}
                                                         ELSE v.subscribers[y]]
           about(r) == {m \in Pending(r) : m.space = x}
           q == [v.queue EXCEPT ![c] = Purge(@, about(@))]
<1>1. u = [v EXCEPT !.subscriptions = ss, !.subscribers = rs, !.queue = q]
  BY DEF Unsubscribe
<1>2. \A b \in v.connected :
          /\ q[b] = IF b = c THEN Purge(v.queue[b], about(v.queue[b])) ELSE v.queue[b]
          /\ ss[b] = IF b = c THEN v.subscriptions[b] \ {x} ELSE v.subscriptions[b]
  BY DEF Whole, Sane
<1> HIDE DEF ss, rs, q
<1>3. /\ u.connected = v.connected /\ u.members = v.members /\ u.subscriptions = ss
      /\ u.queue = q /\ u.spaces = v.spaces /\ u.entities = v.entities
      /\ u.state = v.state /\ u.state_bytes = v.state_bytes
      /\ u.sequences = v.sequences /\ u.journal = v.journal
  BY <1>1 DEF IsWorld, Whole, Sane
<1>4. \A k : InScope(u, k) <=> InScope(v, k)
  BY <1>3, SameScope
<1>5. Keeping(u)
  <2>1. Counted(u)
    BY <1>3 DEF Orderly, Keeping, Counted
  <2> QED
    BY <1>3, <1>4, <2>1 DEF Orderly, Keeping
<1>6. ASSUME NEW b \in v.connected
      PROVE  /\ Healthy(u.queue[b])
             /\ \A m \in Pending(u.queue[b]) : InScope(u, m) /\ m.space \in u.subscriptions[b]
  <2>1. /\ Healthy(v.queue[b])
        /\ \A m \in Pending(v.queue[b]) : InScope(v, m) /\ m.space \in v.subscriptions[b]
    BY DEF Orderly, Served
  <2>2. CASE b = c
    <3>1. /\ u.queue[b] = Purge(v.queue[b], about(v.queue[b]))
          /\ u.subscriptions[b] = v.subscriptions[b] \ {x}
      BY <1>2, <1>3, <2>2
    <3>2. Healthy(u.queue[b])
          /\ Pending(u.queue[b]) \subseteq Pending(v.queue[b]) \ about(v.queue[b])
      BY <2>1, <3>1, HealthyPurged
    <3> QED
      BY <1>4, <2>1, <3>1, <3>2
  <2>3. CASE b # c
    BY <1>2, <1>3, <1>4, <2>1, <2>3
  <2> QED
    BY <2>2, <2>3
<1> QED
  BY <1>3, <1>5, <1>6 DEF Orderly, Served

-----------------------------------------------------------------------------
(* u differs from v in the record of e at most.                            *)
Moves(v, u, e) ==
    /\ IsWorld(u) /\ u.connected = v.connected /\ u.members = v.members
    /\ u.subscriptions = v.subscriptions /\ u.queue = v.queue /\ u.spaces = v.spaces
    /\ u.state = v.state /\ u.state_bytes = v.state_bytes
    /\ u.sequences = v.sequences /\ u.journal = v.journal
    /\ DOMAIN u.entities = DOMAIN v.entities
    /\ \A y \in DOMAIN v.entities : y # e => u.entities[y] = v.entities[y]

(* The entity's record is the only one a move touches.                     *)
LEMMA MovedFields ==
  ASSUME NEW v, NEW u, IsWorld(v), NEW e \in DOMAIN v.entities, NEW to \in DOMAIN v.spaces,
         u = [v EXCEPT !.entities[e].space = to, !.entities[e].epoch = v.spaces[to].epoch]
  PROVE  Moves(v, u, e)
<1> DEFINE es == [v.entities EXCEPT ![e].space = to, ![e].epoch = v.spaces[to].epoch]
<1>1. u = [v EXCEPT !.entities = es]
  BY DEF IsWorld
<1>2. DOMAIN es = DOMAIN v.entities /\ \A y \in DOMAIN v.entities : y # e => es[y] = v.entities[y]
  OBVIOUS
<1> HIDE DEF es
<1>3. IsWorld(u)
  BY <1>1 DEF IsWorld
<1> QED
  BY <1>1, <1>2, <1>3 DEF IsWorld, Moves

(* Core::transition_space: what is about the entity in its old space goes. *)
LEMMA TransitionKeeps ==
  ASSUME NEW v, NEW u, Whole(v), Orderly(v), NEW c, NEW e, NEW to,
         CanTransition(v, c, e, to), u = Transition(v, c, e, to)
  PROVE  Orderly(u) /\ u.journal = v.journal /\ Remembers(v, u)
<1> DEFINE from == v.entities[e]
           gone == {k \in Held(v) : /\ k.space = from.space /\ k.epoch = from.epoch
                                    /\ k.entity = e}
           moved == [v EXCEPT !.entities[e].space = to,
                              !.entities[e].epoch = v.spaces[to].epoch]
<1>1. u = IF to = from.space THEN v ELSE PurgeAll(Forget(moved, gone), gone)
  BY DEF Transition
<1>2. CASE to = from.space
  BY <1>1, <1>2 DEF Remembers
<1>3. CASE to # from.space
  <2>1. u = PurgeAll(Forget(moved, gone), gone)
    BY <1>1, <1>3
  <2>2. e \in DOMAIN v.entities /\ e # NoEntity
    <3>1. e \in DOMAIN v.entities
      BY DEF CanTransition, OwnedBy
    <3>2. DOMAIN v.entities \subseteq Nat
      BY DEF Whole, Sane
    <3> QED
      BY <3>1, <3>2, OptionAssumption
  <2>3. \A k \in Held(v) \ gone : InScope(v, k) => k.entity # e
    BY <2>2 DEF InScope
  <2>4. Moves(v, moved, e)
    <3>1. IsWorld(v) /\ e \in DOMAIN v.entities /\ to \in DOMAIN v.spaces
      BY <2>2 DEF Whole, Sane, CanTransition
    <3> HIDE DEF from, gone
    <3> QED
      BY <3>1, MovedFields
  <2>0. /\ moved.entities[e].space = to /\ to # from.space
        /\ \A k \in gone : k.space = from.space /\ k.entity = e
    <3>1. v.entities[e] \in [owner : v.connected, space : SpaceIds, epoch : Epochs]
      BY <2>2 DEF Whole, Sane
    <3> QED
      BY <1>3, <2>2, <3>1 DEF Whole, Sane, IsWorld
  <2> HIDE DEF moved, gone, from
  <2>5. SameGraph(moved, u) /\ u.journal = moved.journal /\ Cleared(moved, u, gone)
    BY <2>1, <2>4, Clearing DEF Moves
  <2>6. /\ u.connected = v.connected /\ u.members = v.members
        /\ u.subscriptions = v.subscriptions /\ u.journal = v.journal
        /\ Cleared(v, u, gone) /\ u.spaces = v.spaces /\ u.entities = moved.entities
    BY <2>4, <2>5 DEF SameGraph, Cleared, Moves
  <2>7. ASSUME NEW k \in Held(v) \ gone, InScope(v, k) PROVE InScope(u, k)
    BY <2>3, <2>4, <2>6, <2>7 DEF InScope, Moves
  <2>8. DOMAIN v.queue = v.connected
    BY DEF Whole, Sane
  <2>9. Served(u, {})
    <3>1. \A a \in v.connected : u.queue[a] = Purge(v.queue[a], gone)
      BY <2>6, <2>8 DEF Cleared
    <3>2. ASSUME NEW a \in v.connected \ {}, NEW m \in Pending(v.queue[a]) \ gone,
                 InScope(v, m), m.space \in v.subscriptions[a]
          PROVE  InScope(u, m) /\ m.space \in u.subscriptions[a]
      <4>1. m \in Held(v) \ gone
        BY <2>8 DEF Held
      <4> QED
        BY <2>6, <2>7, <3>2, <4>1
    <3> QED
      BY <2>6, <3>1, <3>2, ClearedServed DEF Orderly
  <2>10. Keeping(u)
    <3>1. ASSUME NEW k \in (DOMAIN v.state \cup DOMAIN v.sequences) \ gone, InScope(v, k)
          PROVE  InScope(u, k)
      <4>1. k \in Held(v) \ gone
        BY DEF Held
      <4> QED
        BY <2>7, <3>1, <4>1
    <3> QED
      BY <2>6, <3>1, ClearedKeeping DEF Orderly
  <2>11. Remembers(v, u)
    <3> SUFFICES ASSUME NEW k \in DOMAIN v.sequences, InScope(u, k)
        PROVE  k \in DOMAIN u.sequences /\ u.sequences[k] = v.sequences[k]
      BY DEF Remembers
    <3>1. k \notin gone
      BY <2>0, <2>2, <2>6 DEF InScope
    <3> QED
      BY <2>6, <3>1 DEF Cleared, Drop, Restrict
  <2> QED
    BY <2>6, <2>9, <2>10, <2>11 DEF Orderly
<1> QED
  BY <1>2, <1>3

-----------------------------------------------------------------------------
(* advance_space_epoch: whatever is about the space goes with its entities. *)
LEMMA AdvanceKeeps ==
  ASSUME NEW v, NEW u, Whole(v), Orderly(v), NEW x, NEW epoch \in Nat,
         v.spaces[x].epoch \in Nat, epoch > v.spaces[x].epoch,
         u = AdvanceEpoch(v, x, epoch)
  PROVE  Orderly(u) /\ u.journal = v.journal /\ Remembers(v, u)
<1> DEFINE seed == EntitiesIn(v, {x})
           r == RemoveEntities(v, seed)
           gone == {k \in Held(v) : k.space = x}
           p == PurgeAll(r, gone)
           a == [p EXCEPT !.spaces[x].epoch = epoch]
<1>1. u = IF x \in DOMAIN p.spaces THEN Forget(a, gone) ELSE p
  BY DEF AdvanceEpoch
<1>2. seed \in SUBSET DOMAIN v.entities
  BY DEF EntitiesIn
<1> HIDE DEF seed
<1>3. /\ Served(r, {}) /\ Keeping(r) /\ r.journal = v.journal
      /\ Cleared(v, r, Lost(v, seed)) /\ Remembers(v, r)
  BY <1>2, RemovalKeeps DEF Orderly
<1>4. Whole(r)
  BY RemovalWhole
<1> HIDE DEF r
<1>5. r.connected = v.connected
  <2>1. Removal(v, r, seed)
    BY Removing DEF Whole, Sane, r
  <2> QED
    BY <2>1 DEF Removal
<1>0. DOMAIN v.queue = v.connected /\ DOMAIN r.queue = r.connected /\ IsWorld(r)
  BY <1>4 DEF Whole, Sane
<1>6. /\ \A k \in Held(v) \ gone : k.space # x
      /\ \A k \in gone : k.space = x
  OBVIOUS
<1>7. \A c \in r.connected : Pending(r.queue[c]) \subseteq Held(v)
  <2> SUFFICES ASSUME NEW c \in v.connected PROVE Pending(r.queue[c]) \subseteq Held(v)
    BY <1>5
  <2>1. Healthy(v.queue[c])
    BY DEF Orderly, Served
  <2>2. r.queue[c] = Purge(v.queue[c], Lost(v, seed))
    BY <1>0, <1>3 DEF Cleared
  <2>3. Pending(r.queue[c]) \subseteq Pending(v.queue[c])
    BY <2>1, <2>2, HealthyPurged
  <2> QED
    BY <1>0, <2>3 DEF Held
<1>8. DOMAIN r.state \cup DOMAIN r.sequences \subseteq Held(v)
  <2>1. r.state = Drop(v.state, Lost(v, seed)) /\ r.sequences = Drop(v.sequences, Lost(v, seed))
    BY <1>3 DEF Cleared
  <2>2. DOMAIN r.state \subseteq DOMAIN v.state /\ DOMAIN r.sequences \subseteq DOMAIN v.sequences
    BY <2>1 DEF Drop, Restrict
  <2> QED
    BY <2>2 DEF Held
<1> DEFINE q == [c \in DOMAIN r.queue |-> Purge(r.queue[c], gone)]
<1>9. p = [r EXCEPT !.queue = q] /\ DOMAIN q = DOMAIN r.queue
      /\ \A c \in DOMAIN r.queue : q[c] = Purge(r.queue[c], gone)
  BY DEF PurgeAll
<1> HIDE DEF gone, q
<1>10. /\ IsWorld(p) /\ p.connected = r.connected /\ p.members = r.members
       /\ p.subscriptions = r.subscriptions /\ p.queue = q
       /\ p.spaces = r.spaces /\ p.entities = r.entities
       /\ p.state = r.state /\ p.state_bytes = r.state_bytes
       /\ p.sequences = r.sequences /\ p.journal = r.journal
  BY <1>0, <1>9 DEF IsWorld
<1> HIDE DEF p
<1>11. CASE x \notin DOMAIN p.spaces
  <2>1. u = p
    BY <1>1, <1>11
  <2>2. \A k : InScope(p, k) <=> InScope(r, k)
    BY <1>10, SameScope
  <2>3. Served(p, {})
    <3>1. \A c \in r.connected : p.queue[c] = Purge(r.queue[c], gone)
      BY <1>0, <1>9, <1>10
    <3>2. ASSUME NEW c \in r.connected \ {}, NEW m \in Pending(r.queue[c]) \ gone,
                 InScope(r, m), m.space \in r.subscriptions[c]
          PROVE  InScope(p, m) /\ m.space \in p.subscriptions[c]
      BY <1>10, <2>2, <3>2
    <3> QED
      BY <1>3, <1>10, <3>1, <3>2, ClearedServed
  <2>4. Keeping(p)
    <3>1. Counted(p)
      BY <1>3, <1>10 DEF Keeping, Counted
    <3> QED
      BY <1>3, <1>10, <2>2, <3>1 DEF Keeping
  <2>5. Remembers(v, p)
    BY <1>3, <1>10, <2>2 DEF Remembers
  <2> QED
    BY <1>3, <1>10, <2>1, <2>3, <2>4, <2>5 DEF Orderly
<1>12. CASE x \in DOMAIN p.spaces
  <2> DEFINE sp == [p.spaces EXCEPT ![x].epoch = epoch]
             s == Drop(r.state, gone)
             sq == Drop(r.sequences, gone)
             n == StoredBytes(s)
  <2>1. u = Forget(a, gone)
    BY <1>1, <1>12
  <2>2. a = [p EXCEPT !.spaces = sp]
    BY <1>10 DEF IsWorld
  <2>3. /\ DOMAIN sp = DOMAIN r.spaces /\ sp[x].epoch = epoch
        /\ \A y \in DOMAIN r.spaces : y # x => sp[y] = r.spaces[y]
    <3>1. x \in DOMAIN r.spaces /\ r.spaces[x] \in [epoch : Epochs, parent : {r.spaces[x].parent}]
      BY <1>4, <1>10, <1>12 DEF Whole, Sane
    <3> QED
      BY <1>10, <3>1
  <2> HIDE DEF sp, a
  <2>4. /\ IsWorld(a) /\ a.connected = r.connected /\ a.members = r.members
        /\ a.subscriptions = r.subscriptions /\ a.queue = q
        /\ a.spaces = sp /\ a.entities = r.entities
        /\ a.state = r.state /\ a.state_bytes = r.state_bytes
        /\ a.sequences = r.sequences /\ a.journal = r.journal
    BY <1>10, <2>2 DEF IsWorld
  <2>5. SameGraph(a, u) /\ u.journal = a.journal /\ u.queue = a.queue
    BY <2>1, <2>4, Forgetting
  <2>6. u.state = s /\ u.sequences = sq /\ u.state_bytes = n
    <3>1. u = [a EXCEPT !.state = s, !.state_bytes = n, !.sequences = sq]
      BY <2>1, <2>4 DEF Forget
    <3> HIDE DEF s, sq, n
    <3> QED
      BY <2>4, <3>1 DEF IsWorld
  <2>7. Cleared(r, u, gone)
    BY <1>9, <2>4, <2>5, <2>6 DEF Cleared
  <2>8. /\ u.connected = r.connected /\ u.members = r.members
        /\ u.subscriptions = r.subscriptions /\ u.spaces = sp /\ u.entities = r.entities
    BY <2>4, <2>5 DEF SameGraph
  <2>9. ASSUME NEW k \in Held(v) \ gone, InScope(r, k) PROVE InScope(u, k)
    BY <1>6, <2>3, <2>8, <2>9 DEF InScope
  <2>10. Served(u, {})
    <3>1. \A c \in r.connected : u.queue[c] = Purge(r.queue[c], gone)
      BY <1>0, <2>7 DEF Cleared
    <3>2. ASSUME NEW c \in r.connected \ {}, NEW m \in Pending(r.queue[c]) \ gone,
                 InScope(r, m), m.space \in r.subscriptions[c]
          PROVE  InScope(u, m) /\ m.space \in u.subscriptions[c]
      <4>1. m \in Held(v) \ gone
        BY <1>7
      <4> QED
        BY <2>8, <2>9, <3>2, <4>1
    <3> QED
      BY <1>3, <2>8, <3>1, <3>2, ClearedServed
  <2>11. Keeping(u)
    <3>1. ASSUME NEW k \in (DOMAIN r.state \cup DOMAIN r.sequences) \ gone, InScope(r, k)
          PROVE  InScope(u, k)
      BY <1>8, <2>9, <3>1
    <3> QED
      BY <1>3, <2>7, <2>8, <3>1, ClearedKeeping
  <2>12. Remembers(v, u)
    <3> SUFFICES ASSUME NEW k \in DOMAIN v.sequences, InScope(u, k),
                        k.connection \in u.members
        PROVE  k \in DOMAIN u.sequences /\ u.sequences[k] = v.sequences[k]
      BY DEF Remembers
    <3>1. k.space # x
      <4>1. InScope(v, k)
        BY DEF Orderly, Keeping
      <4>2. k.space = x => k.epoch = v.spaces[x].epoch /\ k.epoch = epoch
        BY <2>3, <2>8, <4>1 DEF InScope
      <4> QED
        BY <4>2
    <3>2. InScope(r, k)
      BY <2>3, <2>8, <3>1 DEF InScope
    <3>3. k \in DOMAIN r.sequences /\ r.sequences[k] = v.sequences[k]
      BY <1>3, <2>8, <3>2 DEF Remembers
    <3>4. k \notin gone
      BY <1>6, <3>1
    <3> QED
      BY <2>6, <3>3, <3>4 DEF Drop, Restrict
  <2> QED
    BY <1>3, <2>4, <2>5, <2>10, <2>11, <2>12 DEF Orderly
<1> QED
  BY <1>11, <1>12

-----------------------------------------------------------------------------
(* What is ahead in a list is ahead in its tail.                           *)
LEMMA InSequenceTail ==
  ASSUME NEW c, NEW M, NEW s \in Seq(M), NEW request \in M, NEW t,
         t = <<request>> \o s, InSequence(c, t)
  PROVE  InSequence(c, s) /\ Range(t) = Range(s) \cup {request}
<1>1. /\ Len(t) = Len(s) + 1 /\ Len(s) \in Nat /\ t[1] = request
      /\ \A i \in 1..Len(s) : t[i + 1] = s[i]
      /\ DOMAIN t = 1..Len(t) /\ DOMAIN s = 1..Len(s)
  OBVIOUS
<1>2. InSequence(c, s)
  <2> SUFFICES ASSUME NEW i \in DOMAIN s, NEW j \in DOMAIN s, i < j,
                      SequenceKey(c, s[i]) = SequenceKey(c, s[j])
               PROVE  s[i].sequence < s[j].sequence
    BY DEF InSequence
  <2>1. /\ i + 1 \in DOMAIN t /\ j + 1 \in DOMAIN t /\ i + 1 < j + 1
        /\ t[i + 1] = s[i] /\ t[j + 1] = s[j]
    BY <1>1
  <2> DEFINE a == i + 1
             b == j + 1
  <2>2. a \in DOMAIN t /\ b \in DOMAIN t /\ a < b /\ t[a] = s[i] /\ t[b] = s[j]
    BY <2>1
  <2> HIDE DEF a, b
  <2> QED
    BY <2>2 DEF InSequence
<1>3. Range(t) = Range(s) \cup {request}
  <2>1. ASSUME NEW x \in Range(t) PROVE x \in Range(s) \cup {request}
    <3>1. PICK i \in 1..Len(t) : x = t[i]
      BY <1>1 DEF Range
    <3>2. CASE i = 1
      BY <1>1, <3>1, <3>2
    <3>3. CASE i # 1
      <4>1. i - 1 \in 1..Len(s) /\ (i - 1) + 1 = i
        BY <1>1, <3>3
      <4>2. t[i] = s[i - 1]
        BY <1>1, <4>1
      <4> QED
        BY <1>1, <3>1, <4>1, <4>2 DEF Range
    <3> QED
      BY <3>2, <3>3
  <2>2. request \in Range(t)
    BY <1>1 DEF Range
  <2>3. ASSUME NEW x \in Range(s) PROVE x \in Range(t)
    <3>1. PICK i \in 1..Len(s) : x = s[i]
      BY <1>1 DEF Range
    <3>2. i + 1 \in 1..Len(t) /\ t[i + 1] = s[i]
      BY <1>1
    <3> QED
      BY <1>1, <3>1, <3>2 DEF Range
  <2> QED
    BY <2>1, <2>2, <2>3
<1> QED
  BY <1>2, <1>3

(* What is ahead in a list is ahead among those of it that are kept.       *)
LEMMA InSequenceRetained ==
  ASSUME NEW c, NEW M, NEW s \in Seq(M), NEW keep, NEW r, r = Retained(s, keep),
         InSequence(c, s)
  PROVE  InSequence(c, r)
<1> DEFINE P == KeptPositions(s, keep)
<1>1. r \in Seq(M)
  BY RetainedProperties
<1>2. PICK pos \in [1..Len(r) -> P] :
         /\ \A n \in 1..Len(r) : r[n] = s[pos[n]]
         /\ \A m, n \in 1..Len(r) : m < n => pos[m] < pos[n]
  BY RetainedPositions
<1>3. P \subseteq DOMAIN s
  BY DEF KeptPositions
<1> HIDE DEF P
<1> SUFFICES ASSUME NEW i \in 1..Len(r), NEW j \in 1..Len(r), i < j,
                    SequenceKey(c, r[i]) = SequenceKey(c, r[j])
             PROVE  r[i].sequence < r[j].sequence
  BY <1>1 DEF InSequence
<1>4. pos[i] \in DOMAIN s /\ pos[j] \in DOMAIN s /\ pos[i] < pos[j]
      /\ r[i] = s[pos[i]] /\ r[j] = s[pos[j]]
  BY <1>2, <1>3
<1> QED
  BY <1>4 DEF InSequence

(* publish_at validates all it commits, the request along with them, and   *)
(* each against those before it.                                           *)
LEMMA PublishedValid ==
  ASSUME NEW v, NEW c, NEW request, NEW verdict, MayPublish(v, c, request, verdict),
         NEW M, request \in M, verdict.messages \in Seq(M),
         NEW s, s = Committed(request, verdict), NEW t, t = Sequenced(request, verdict)
  PROVE  /\ \A m \in Range(t) : ValidMessage(v, c, m)
         /\ Range(s) \subseteq Range(t) /\ InSequence(c, s)
<1>1. /\ ValidMessage(v, c, request) /\ InSequence(c, t)
      /\ \A i \in DOMAIN verdict.messages : ValidMessage(v, c, verdict.messages[i])
  BY DEF MayPublish
<1>2. \A m \in Range(verdict.messages) : ValidMessage(v, c, m)
  BY <1>1 DEF Range
<1>3. s = IF verdict = Accept THEN <<request>> ELSE verdict.messages
  BY DEF Committed
<1>4. Range(<<request>>) = {request}
  BY DEF Range
<1>5. \A m \in Range(s) : ValidMessage(v, c, m)
  BY <1>1, <1>2, <1>3, <1>4
<1>6. CASE t = s
  BY <1>1, <1>5, <1>6
<1>7. CASE t # s
  <2>1. t = <<request>> \o verdict.messages /\ verdict.kind = "emit"
    BY <1>7 DEF Sequenced
  <2>2. verdict # Accept
    BY <2>1 DEF Accept
  <2>3. s = verdict.messages
    BY <1>3, <2>2
  <2>4. InSequence(c, s) /\ Range(t) = Range(s) \cup {request}
    <3>1. s \in Seq(M) /\ t = <<request>> \o s
      BY <2>1, <2>3
    <3>2. \A S, r, l : /\ r \in Seq(S) /\ request \in S /\ l = <<request>> \o r
                        /\ InSequence(c, l)
                        => InSequence(c, r) /\ Range(l) = Range(r) \cup {request}
      BY InSequenceTail
    <3> QED
      BY <1>1, <3>1, <3>2, Zenon
  <2> QED
    BY <1>1, <1>5, <2>4
<1> QED
  BY <1>6, <1>7

(* Max of a set of sequences.                                              *)
LEMMA LastOfSome ==
  ASSUME NEW N \in Nat, NEW T \in SUBSET (1..N), T # {}
  PROVE  Max(T) \in T /\ \A x \in T : x <= Max(T)
<1> DEFINE D == {N - x : x \in T}
<1>1. D \in SUBSET Nat /\ D # {}
  <2>1. \A x \in T : N - x \in Nat
    OBVIOUS
  <2> QED
    BY <2>1
<1>2. PICK d \in D : \A y \in D : d <= y
  BY <1>1, LeastNatural
<1>3. PICK x \in T : d = N - x
  OBVIOUS
<1>4. \A y \in T : x >= y
  <2> TAKE y \in T
  <2>1. N - y \in D
    OBVIOUS
  <2>2. N - x <= N - y /\ x \in Int /\ y \in Int
    BY <1>2, <1>3, <2>1
  <2> QED
    BY <2>2
<1>5. \E z \in T : \A y \in T : z >= y
  BY <1>4
<1>6. Max(T) \in T /\ \A y \in T : Max(T) >= y
  BY <1>5 DEF Max
<1> DEFINE z == Max(T)
<1>7. z \in T /\ \A y \in T : z >= y
  BY <1>6
<1> HIDE DEF z
<1>8. z \in Int /\ \A y \in T : y \in Int
  BY <1>7
<1>9. \A y \in T : y <= z
  BY <1>7, <1>8
<1> QED
  BY <1>7, <1>9 DEF z

(* The sequences after a publication hold the last of each of its keys.    *)
LEMMA LastSequencesHold ==
  ASSUME NEW v, NEW c, NEW M, NEW t \in Seq(M), \A m \in M : m.sequence \in 1..MaxSequence,
         NEW sq, sq = LastSequences(v, c, t)
  PROVE  /\ \A m \in Range(t) : /\ SequenceKey(c, m) \in DOMAIN sq
                                /\ sq[SequenceKey(c, m)] \in Nat
                                /\ m.sequence <= sq[SequenceKey(c, m)]
         /\ \A k \in DOMAIN sq :
               k \in DOMAIN v.sequences \/ \E m \in Range(t) : k = SequenceKey(c, m)
         /\ \A k \in DOMAIN v.sequences :
               /\ k \in DOMAIN sq
               /\ \/ sq[k] = v.sequences[k]
                  \/ \E m \in Range(t) : k = SequenceKey(c, m) /\ sq[k] = m.sequence
<1> DEFINE keys == {SequenceKey(c, t[i]) : i \in DOMAIN t}
           At(k) == {t[i].sequence : i \in {j \in DOMAIN t : SequenceKey(c, t[j]) = k}}
<1>1. sq = [k \in DOMAIN v.sequences \cup keys |->
               IF k \in keys THEN Max(At(k)) ELSE v.sequences[k]]
  BY DEF LastSequences
<1>2. \A k : At(k) \in SUBSET (1..MaxSequence)
  OBVIOUS
<1>3. MaxSequence \in Nat
  BY SessionUseAssumption
<1>4. ASSUME NEW m \in Range(t)
      PROVE  SequenceKey(c, m) \in keys /\ m.sequence \in At(SequenceKey(c, m))
  <2>1. PICK i \in DOMAIN t : m = t[i]
    BY DEF Range
  <2> QED
    BY <2>1
<1>5. \A k \in keys : \E m \in Range(t) : k = SequenceKey(c, m)
  BY DEF Range
<1>7. ASSUME NEW k, NEW n \in At(k)
      PROVE  \E m \in Range(t) : k = SequenceKey(c, m) /\ n = m.sequence
  <2>1. PICK i \in DOMAIN t : SequenceKey(c, t[i]) = k /\ n = t[i].sequence
    OBVIOUS
  <2>2. t[i] \in Range(t)
    BY DEF Range
  <2> QED
    BY <2>1, <2>2
<1> HIDE DEF keys, At
<1>6. ASSUME NEW m \in Range(t)
      PROVE  /\ SequenceKey(c, m) \in DOMAIN sq
             /\ sq[SequenceKey(c, m)] \in Nat
             /\ m.sequence <= sq[SequenceKey(c, m)]
  <2> DEFINE k == SequenceKey(c, m)
             T == At(k)
  <2>1. k \in keys /\ m.sequence \in T /\ T \in SUBSET (1..MaxSequence)
    BY <1>2, <1>4
  <2>2. sq[k] = Max(T) /\ k \in DOMAIN sq
    BY <1>1, <2>1
  <2> HIDE DEF T, k
  <2>3. Max(T) \in T /\ \A x \in T : x <= Max(T)
    BY <1>3, <2>1, LastOfSome
  <2> DEFINE z == Max(T)
  <2>4. z \in 1..MaxSequence /\ m.sequence <= z
    <3>1. z \in T /\ \A x \in T : x <= z
      BY <2>3
    <3> HIDE DEF z
    <3> QED
      BY <2>1, <3>1
  <2> QED
    BY <1>3, <2>2, <2>4 DEF k
<1>8. ASSUME NEW k \in DOMAIN v.sequences
      PROVE  /\ k \in DOMAIN sq
             /\ \/ sq[k] = v.sequences[k]
                \/ \E m \in Range(t) : k = SequenceKey(c, m) /\ sq[k] = m.sequence
  <2>1. CASE k \notin keys
    BY <1>1, <2>1
  <2>2. CASE k \in keys
    <3> DEFINE T == At(k)
    <3>1. T # {} /\ T \in SUBSET (1..MaxSequence)
      BY <1>2, <1>4, <1>5, <2>2
    <3>2. sq[k] = Max(T) /\ k \in DOMAIN sq
      BY <1>1, <2>2
    <3>3. \A n \in T : \E m \in Range(t) : k = SequenceKey(c, m) /\ n = m.sequence
      BY <1>7
    <3> HIDE DEF T
    <3>4. Max(T) \in T
      BY <1>3, <3>1, LastOfSome
    <3> QED
      BY <3>2, <3>3, <3>4
  <2> QED
    BY <2>1, <2>2
<1> QED
  BY <1>1, <1>5, <1>6, <1>8

-----------------------------------------------------------------------------
(* The commit of validated messages stores nothing that is out of scope,   *)
(* and keeps to the limits it was checked against.                         *)
LEMMA CommitKeeps ==
  ASSUME NEW v, NEW b, NEW p, NEW u, NEW c, NEW request, NEW verdict,
         Whole(v), Orderly(v), CanPublish(v, c, request, verdict),
         Publishing(v, b, p, u, c, request, verdict),
         NEW M, \A m \in M : Formed(m), request \in M, verdict.messages \in Seq(M),
         NEW s \in Seq(M), s = Committed(request, verdict),
         NEW t \in Seq(M), t = Sequenced(request, verdict)
  PROVE  Keeping(p)
<1> DEFINE r == Stored(v, s)
           sq == LastSequences(v, c, t)
<1>1. MayPublish(v, c, request, verdict) /\ FitsCapacities(v, c, request, verdict)
  BY DEF CanPublish
<1>2. /\ \A m \in Range(t) : ValidMessage(v, c, m)
      /\ Range(s) \subseteq Range(t)
  BY <1>1, PublishedValid
<1>3. \A m \in Range(t) : InScope(v, m)
  BY <1>2 DEF ValidMessage
<1>4. /\ r.bytes <= MaxStateBytes /\ Cardinality(DOMAIN r.state) <= MaxStateEntries
  BY <1>1 DEF FitsCapacities
<1>5. /\ p.state = r.state /\ p.state_bytes = r.bytes /\ p.sequences = sq
      /\ SameGraph(v, p)
  BY DEF Publishing, SameGraph
<1>6. /\ Tallied(r)
      /\ \A k \in DOMAIN r.state : k \in DOMAIN v.state \/ \E m \in Range(s) : k = StateKey(m)
  <2>1. Counted(v) /\ \A m \in M : m.size \in Nat
    BY DEF Orderly, Keeping, Formed
  <2> QED
    BY <2>1, StoredTallied
<1>7. \A k \in DOMAIN sq :
         k \in DOMAIN v.sequences \/ \E m \in Range(t) : k = SequenceKey(c, m)
  <2>1. \A m \in M : m.sequence \in 1..MaxSequence
    BY DEF Formed
  <2> QED
    BY <2>1, LastSequencesHold
<1>8. c \in v.members
  BY <1>1 DEF MayPublish, MayWrite, Whole, Sane
<1> HIDE DEF r, sq
<1>9. Counted(p)
  BY <1>5, <1>6 DEF Counted, Tallied
<1>10. \A k : InScope(p, k) <=> InScope(v, k)
  BY <1>5, SameScope DEF SameGraph
<1>11. \A m : InScope(v, m) => InScope(v, StateKey(m)) /\ InScope(v, SequenceKey(c, m))
  BY DEF InScope, StateKey, SequenceKey
<1>12. /\ \A k \in DOMAIN v.state \cup DOMAIN v.sequences : InScope(v, k)
       /\ \A k \in DOMAIN v.sequences : k.connection \in v.members
  BY DEF Orderly, Keeping
<1>13. \A k \in DOMAIN p.state \cup DOMAIN p.sequences : InScope(p, k)
  <2>1. ASSUME NEW k \in DOMAIN p.state PROVE InScope(p, k)
    BY <1>2, <1>3, <1>5, <1>6, <1>10, <1>11, <1>12
  <2>2. ASSUME NEW k \in DOMAIN p.sequences PROVE InScope(p, k)
    BY <1>3, <1>5, <1>7, <1>10, <1>11, <1>12
  <2> QED
    BY <2>1, <2>2
<1>14. \A k \in DOMAIN p.sequences : k.connection \in p.members
  <2>1. \A m : SequenceKey(c, m).connection = c
    BY DEF SequenceKey
  <2>2. p.members = v.members
    BY <1>5 DEF SameGraph
  <2> QED
    BY <1>5, <1>7, <1>8, <1>12, <2>1, <2>2
<1> QED
  BY <1>4, <1>5, <1>9, <1>13, <1>14 DEF Keeping

(* The fan-out gives every recipient that can keep up the messages of the  *)
(* spaces it is subscribed to, and nothing else.                           *)
LEMMA FanOutServes ==
  ASSUME NEW v, NEW b, NEW p, NEW u, NEW c, NEW request, NEW verdict,
         Whole(v), Orderly(v), Publishing(v, b, p, u, c, request, verdict),
         NEW M, \A m \in M : Formed(m),
         NEW s \in Seq(M), s = Committed(request, verdict),
         \A m \in Range(s) : InScope(v, m)
  PROVE  Served(p, Overrun(b, s))
<1>1. /\ SameGraph(v, b) /\ b.queue = v.queue /\ SameGraph(v, p)
      /\ p.queue = [a \in DOMAIN v.queue |-> Deliver(v.queue[a], Share(b, s, a)).queue]
  BY DEF Publishing, SameGraph
<1>2. DOMAIN v.queue = v.connected /\ p.connected = v.connected
      /\ p.subscriptions = v.subscriptions
  BY <1>1 DEF Whole, Sane, SameGraph
<1>3. \A k : InScope(p, k) <=> InScope(v, k)
  BY <1>1, SameScope DEF SameGraph
<1> SUFFICES ASSUME NEW a \in v.connected \ Overrun(b, s)
    PROVE  /\ Healthy(p.queue[a])
           /\ \A m \in Pending(p.queue[a]) : InScope(v, m) /\ m.space \in v.subscriptions[a]
  BY <1>2, <1>3 DEF Served
<1> DEFINE mine == Share(b, s, a)
           d == Deliver(v.queue[a], mine)
<1>4. ~d.lost /\ p.queue[a] = d.queue
  BY <1>1, <1>2 DEF Overrun
<1>5. mine \in Seq(M) /\ Range(mine) \subseteq {m \in Range(s) : a \in Recipients(b, m)}
  BY RetainedProperties DEF Share
<1>6. /\ Healthy(v.queue[a])
      /\ \A m \in Pending(v.queue[a]) : InScope(v, m) /\ m.space \in v.subscriptions[a]
  BY DEF Orderly, Served
<1> HIDE DEF mine
<1>7. Healthy(d.queue) /\ Pending(d.queue) \subseteq Pending(v.queue[a]) \cup Range(mine)
  <2>1. \A m \in M : m.class \in {"critical", "latest", "best_effort"}
    BY DEF Formed
  <2> QED
    BY <1>4, <1>5, <1>6, <2>1, HealthyDelivered
<1> HIDE DEF d
<1>8. ASSUME NEW m \in Range(mine) PROVE InScope(v, m) /\ m.space \in v.subscriptions[a]
  <2>1. m \in Range(s) /\ a \in Recipients(b, m)
    BY <1>5
  <2>2. m.space \in DOMAIN b.spaces /\ a \in b.subscribers[m.space]
    BY <2>1 DEF Recipients
  <2>3. m.space \in DOMAIN v.spaces /\ a \in v.subscribers[m.space]
    BY <1>1, <2>2 DEF SameGraph
  <2>4. v.subscriptions[a] = {x \in DOMAIN v.spaces : a \in v.subscribers[x]}
    BY DEF Whole, Mutual
  <2> QED
    BY <2>1, <2>3, <2>4
<1> QED
  BY <1>4, <1>6, <1>7, <1>8

(* The sequence of m is used up: c can bring in nothing like it again      *)
(* while it stays and m is in scope.                                       *)
UsedUp(u, c, m) ==
    InScope(u, m) /\ c \in u.members
        => /\ SequenceKey(c, m) \in DOMAIN u.sequences
           /\ u.sequences[SequenceKey(c, m)] \in Nat
           /\ m.sequence <= u.sequences[SequenceKey(c, m)]

(* u is an orderly session that the messages of s have been published to.  *)
Published(v, u, c, s) ==
    /\ Orderly(u)
    /\ u.journal = v.journal \o Durable(s)
    /\ \A m \in Range(s) : UsedUp(u, c, m)
    /\ Recalls(v, u)

(* publish_at: all that a commit, a fan-out and the disconnections leave.  *)
LEMMA PublishKeeps ==
  ASSUME NEW v, NEW u, NEW c, NEW request, NEW verdict,
         Whole(v), Orderly(v), CanPublish(v, c, request, verdict),
         u = Publish(v, c, request, verdict),
         NEW M, Planned(M, request, verdict),
         NEW s, s = Committed(request, verdict)
  PROVE  Published(v, u, c, s)
<1> DEFINE b == AfterCommit(v, c, request, verdict)
           p == AfterFanOut(b, Committed(request, verdict))
<1>0. /\ \A m \in M : Formed(m)
      /\ request \in M /\ verdict.messages \in Seq(M)
      /\ Committed(request, verdict) \in Seq(M) /\ Sequenced(request, verdict) \in Seq(M)
  BY DEF Planned
<1> DEFINE t == Sequenced(request, verdict)
<1>00. t = Sequenced(request, verdict) /\ t \in Seq(M) /\ s \in Seq(M)
  BY <1>0
<1> HIDE DEF t
<1>1. Publishing(v, b, p, u, c, request, verdict)
  BY PublishSteps DEF Whole, Sane
<1> HIDE DEF b, p
<1>2. MayPublish(v, c, request, verdict) /\ FitsCapacities(v, c, request, verdict)
  BY DEF CanPublish
<1>3. Whole(p)
  BY <1>0, <1>1, <1>2, PublishingWhole
<1>4. /\ \A m \in Range(t) : ValidMessage(v, c, m)
      /\ Range(s) \subseteq Range(t)
  BY <1>0, <1>00, <1>2, PublishedValid
<1>5. Keeping(p)
  BY <1>0, <1>00, <1>1, CommitKeeps
<1>6. Served(p, Overrun(b, s))
  <2>1. \A m \in Range(s) : InScope(v, m)
    BY <1>4 DEF ValidMessage
  <2> QED
    BY <1>0, <1>00, <1>1, <2>1, FanOutServes
<1>7. u = Disconnect(p, Overrun(b, s)) /\ p.journal = v.journal \o Durable(s)
      /\ p.sequences = LastSequences(v, c, t)
  BY <1>00, <1>1 DEF Publishing
<1>8. Served(u, {}) /\ Keeping(u) /\ Remembers(p, u) /\ u.journal = p.journal
  BY <1>3, <1>5, <1>6, <1>7, DisconnectKeeps
<1>9. ASSUME NEW m \in Range(s), InScope(u, m), c \in u.members
      PROVE  /\ SequenceKey(c, m) \in DOMAIN u.sequences
             /\ u.sequences[SequenceKey(c, m)] \in Nat
             /\ m.sequence <= u.sequences[SequenceKey(c, m)]
  <2> DEFINE k == SequenceKey(c, m)
  <2>1. \A n \in M : n.sequence \in 1..MaxSequence
    BY <1>0 DEF Formed
  <2>2. k \in DOMAIN p.sequences /\ p.sequences[k] \in Nat /\ m.sequence <= p.sequences[k]
    BY <1>00, <1>4, <1>7, <2>1, LastSequencesHold
  <2>3. InScope(u, k) /\ k.connection = c
    BY <1>9 DEF InScope, SequenceKey
  <2> HIDE DEF k
  <2>4. k \in DOMAIN u.sequences /\ u.sequences[k] = p.sequences[k]
    BY <1>8, <1>9, <2>2, <2>3 DEF Remembers
  <2> QED
    BY <2>2, <2>4 DEF k
<1>10. ASSUME NEW k \in DOMAIN v.sequences, k.connection \in u.members, InScope(u, k)
       PROVE  /\ k \in DOMAIN u.sequences
              /\ \/ u.sequences[k] = v.sequences[k]
                 \/ u.sequences[k] > v.sequences[k]
  <2>1. \A n \in M : n.sequence \in 1..MaxSequence
    BY <1>0 DEF Formed
  <2>2. /\ k \in DOMAIN p.sequences
        /\ \/ p.sequences[k] = v.sequences[k]
           \/ \E m \in Range(t) : k = SequenceKey(c, m) /\ p.sequences[k] = m.sequence
    BY <1>00, <1>7, <2>1, LastSequencesHold
  <2>3. k \in DOMAIN u.sequences /\ u.sequences[k] = p.sequences[k]
    BY <1>8, <1>10, <2>2 DEF Remembers
  <2>4. \A m \in Range(t) : k = SequenceKey(c, m) => m.sequence > v.sequences[k]
    BY <1>4 DEF ValidMessage, Fresh
  <2> QED
    BY <2>2, <2>3, <2>4
<1>11. Recalls(v, u)
  BY <1>10 DEF Recalls
<1> QED
  BY <1>7, <1>8, <1>9, <1>11 DEF Orderly, UsedUp, Published

-----------------------------------------------------------------------------
(* What JournaledOnce says of one step, from v to u.                       *)
Once(v, u) ==
    LET new == SubSeq(u.journal, Len(v.journal) + 1, Len(u.journal))
    IN  new # <<>> =>
            \E c \in v.authed :
                /\ InSequence(c, new)
                /\ \A i \in DOMAIN new :
                      /\ Fresh(v, c, new[i])
                      /\ c \in u.members => ~ValidMessage(u, c, new[i])

(* A step that adds nothing to the journal.                                *)
LEMMA NothingNew ==
  ASSUME NEW v, NEW u, Whole(v), Whole(u), Len(u.journal) <= Len(v.journal)
  PROVE  Once(v, u)
<1>1. PICK N : v.journal \in Seq(N)
  BY DEF Whole, Capped
<1>2. PICK L : u.journal \in Seq(L)
  BY DEF Whole, Capped
<1> DEFINE j == v.journal
           k == u.journal
<1>3. j \in Seq(N) /\ k \in Seq(L) /\ Len(k) <= Len(j)
  BY <1>1, <1>2
<1> HIDE DEF j, k
<1>4. SubSeq(k, Len(j) + 1, Len(k)) = <<>>
  <2>1. Len(j) + 1 > Len(k) /\ Len(j) \in Nat /\ Len(k) \in Nat
    BY <1>3
  <2> QED
    BY <1>3, <2>1
<1> QED
  BY <1>4 DEF Once, j, k

(* What is appended is what is new.                                        *)
LEMMA AppendedIsNew ==
  ASSUME NEW N, NEW j \in Seq(N), NEW d \in Seq(N), NEW k, k = j \o d
  PROVE  SubSeq(k, Len(j) + 1, Len(k)) = d
<1>1. k \in Seq(N) /\ Len(k) = Len(j) + Len(d) /\ Len(j) \in Nat /\ Len(d) \in Nat
      /\ \A i \in 1..Len(d) : k[Len(j) + i] = d[i]
  OBVIOUS
<1> DEFINE n == SubSeq(k, Len(j) + 1, Len(k))
<1>2. n = [i \in 1..(Len(k) - (Len(j) + 1) + 1) |-> k[i + (Len(j) + 1) - 1]]
  BY <1>1
<1>3. Len(k) - (Len(j) + 1) + 1 = Len(d)
  BY <1>1
<1>4. \A i \in 1..Len(d) : i + (Len(j) + 1) - 1 = Len(j) + i
  BY <1>1
<1>5. n = [i \in 1..Len(d) |-> d[i]]
  BY <1>1, <1>2, <1>3, <1>4
<1>6. d = [i \in 1..Len(d) |-> d[i]]
  OBVIOUS
<1> QED
  BY <1>5, <1>6

(* The records of a publication are fresh, in sequence and used up.        *)
LEMMA PublishOnce ==
  ASSUME NEW v, NEW u, NEW c, NEW request, NEW verdict,
         Whole(v), Orderly(v), CanPublish(v, c, request, verdict),
         u = Publish(v, c, request, verdict),
         NEW M, Planned(M, request, verdict),
         NEW s, s = Committed(request, verdict)
  PROVE  Orderly(u) /\ Once(v, u)
<1>0. Published(v, u, c, s)
  BY PublishKeeps
<1> DEFINE t == Sequenced(request, verdict)
<1>00. /\ \A m \in M : Formed(m)
       /\ request \in M /\ verdict.messages \in Seq(M)
       /\ s \in Seq(M) /\ t \in Seq(M) /\ t = Sequenced(request, verdict)
  BY DEF Planned
<1> HIDE DEF t
<1> DEFINE d == Durable(s)
           new == SubSeq(u.journal, Len(v.journal) + 1, Len(u.journal))
<1>1. Orderly(u) /\ u.journal = v.journal \o d /\ \A m \in Range(s) : UsedUp(u, c, m)
  BY <1>0 DEF Published
<1>2. MayPublish(v, c, request, verdict)
  BY DEF CanPublish
<1>3. /\ \A m \in Range(t) : ValidMessage(v, c, m)
      /\ Range(s) \subseteq Range(t) /\ InSequence(c, s)
  BY <1>00, <1>2, PublishedValid
<1>4. d \in Seq(M) /\ Range(d) \subseteq Range(s) /\ InSequence(c, d)
  BY <1>00, <1>3, RetainedProperties, InSequenceRetained DEF Durable
<1> HIDE DEF d
<1>5. new = d
  <2>1. PICK N : v.journal \in Seq(N)
    BY DEF Whole, Capped
  <2> DEFINE L == N \cup M
  <2>2. v.journal \in Seq(L) /\ d \in Seq(L)
    BY <1>4, <2>1
  <2> HIDE DEF L
  <2> QED
    BY <1>1, <2>2, AppendedIsNew
<1> HIDE DEF new
<1>6. c \in v.authed
  BY <1>2 DEF MayPublish, MayWrite
<1>7. ASSUME NEW i \in DOMAIN d
      PROVE  /\ Fresh(v, c, d[i])
             /\ c \in u.members => ~ValidMessage(u, c, d[i])
  <2>1. d[i] \in Range(s) /\ d[i] \in M
    <3>1. d[i] \in Range(d)
      BY DEF Range
    <3>2. d[i] \in M
      BY <1>4
    <3> QED
      BY <1>4, <3>1, <3>2
  <2> DEFINE m == d[i]
  <2>2. m \in Range(s) /\ m \in M
    BY <2>1
  <2> HIDE DEF m
  <2>3. Fresh(v, c, m)
    BY <1>3, <2>2 DEF ValidMessage
  <2>4. ASSUME c \in u.members, ValidMessage(u, c, m) PROVE FALSE
    <3>1. InScope(u, m) /\ Fresh(u, c, m)
      BY <2>4 DEF ValidMessage
    <3> DEFINE q == u.sequences[SequenceKey(c, m)]
    <3>2. SequenceKey(c, m) \in DOMAIN u.sequences /\ q \in Nat /\ m.sequence <= q
      BY <1>1, <2>2, <2>4, <3>1 DEF UsedUp
    <3>3. m.sequence > q
      BY <3>1, <3>2 DEF Fresh
    <3>4. m.sequence \in Nat
      BY <1>00, <2>2, SessionUseAssumption DEF Formed
    <3> HIDE DEF q
    <3> QED
      BY <3>2, <3>3, <3>4
  <2> QED
    BY <2>3, <2>4 DEF m
<1>8. Once(v, u)
  BY <1>4, <1>5, <1>6, <1>7 DEF Once, new
<1> QED
  BY <1>1, <1>8

-----------------------------------------------------------------------------
(* A new session is orderly.                                               *)
LEMMA OrderlyInit == SessionInit => Orderly(w)
<1> SUFFICES ASSUME SessionInit PROVE Orderly(w)
  OBVIOUS
<1>1. w.connected = {} /\ w.state = <<>> /\ w.state_bytes = 0 /\ w.sequences = <<>>
  BY DEF SessionInit, EmptyWorld
<1>2. Served(w, {})
  BY <1>1 DEF Served
<1>3. DOMAIN w.state = {} /\ DOMAIN w.sequences = {}
  BY <1>1
<1>4. IsFiniteSet({}) /\ Cardinality({}) = 0
  BY FS_EmptySet
<1>5. StoredBytes(w.state) = 0
  <2> DEFINE f == [k \in DOMAIN w.state |-> w.state[k].size]
  <2>1. DOMAIN f = {}
    BY <1>3
  <2> HIDE DEF f
  <2>2. Total(f) = 0
    BY <2>1, TotalOfNone
  <2> QED
    BY <2>2 DEF StoredBytes, f
<1>6. Counted(w)
  BY <1>1, <1>3, <1>4, <1>5 DEF Counted, Tallied
<1>7. MaxStateBytes \in Nat /\ MaxStateEntries \in Nat
  BY ChannelAssumption
<1>8. Keeping(w)
  BY <1>1, <1>3, <1>4, <1>6, <1>7 DEF Keeping
<1> QED
  BY <1>2, <1>8 DEF Orderly

(* A call that journals nothing.                                           *)
LEMMA SilentOnce ==
  ASSUME NEW v, NEW u, Whole(v), Whole(u), Orderly(u), u.journal = v.journal
  PROVE  Orderly(u) /\ Once(v, u)
<1>1. PICK N : v.journal \in Seq(N)
  BY DEF Whole, Capped
<1>2. Len(v.journal) \in Nat
  BY <1>1
<1>3. Len(u.journal) <= Len(v.journal)
  BY <1>2
<1> QED
  BY <1>3, NothingNew

(* Every call leaves the session orderly, and journals nothing twice.      *)
LEMMA OrderlyNext ==
  Whole(w) /\ Whole(w') /\ Orderly(w) /\ [SessionNext]_session_vars
      => Orderly(w') /\ Once(w, w')
<1> SUFFICES ASSUME Whole(w), Whole(w'), Orderly(w), [SessionNext]_session_vars
             PROVE  Orderly(w') /\ Once(w, w')
  OBVIOUS
<1>1. CASE ConnectStep
  BY <1>1, ConnectKeeps, SilentOnce DEF ConnectStep
<1>2. ASSUME NEW c \in w.connected, Authenticate(c) \/ JoinSession(c)
      PROVE  Orderly(w') /\ Once(w, w')
  <2>1. IsWorld(w) /\ w.memberships = w.members
    BY DEF Whole, Sane
  <2>2. CASE Authenticate(c)
    <3> DEFINE a == w.authed \cup {c}
               ms == w.members
    <3>1. w' = [w EXCEPT !.authed = a, !.memberships = ms, !.members = ms]
      BY <2>1, <2>2 DEF Authenticate, IsWorld
    <3>2. w.members \subseteq ms
      OBVIOUS
    <3> HIDE DEF a, ms
    <3> QED
      BY <3>1, <3>2, StandingKeeps, SilentOnce
  <2>3. CASE JoinSession(c)
    <3> DEFINE a == w.authed
               ms == w.members \cup {c}
    <3>1. w' = [w EXCEPT !.authed = a, !.memberships = ms, !.members = ms]
      BY <2>1, <2>3 DEF JoinSession, IsWorld
    <3>2. w.members \subseteq ms
      OBVIOUS
    <3> HIDE DEF a, ms
    <3> QED
      BY <3>1, <3>2, StandingKeeps, SilentOnce
  <2> QED
    BY <1>2, <2>2, <2>3
<1>3. ASSUME NEW c \in w.connected, LeaveSession(c) PROVE Orderly(w') /\ Once(w, w')
  <2>1. w' = Detach(w, {c})
    BY <1>3 DEF LeaveSession
  <2>2. Orderly(w') /\ w'.journal = w.journal
    BY <2>1, DetachKeeps DEF Orderly
  <2> QED
    BY <2>2, SilentOnce
<1>4. ASSUME NEW c \in w.connected, TransportLost(c) PROVE Orderly(w') /\ Once(w, w')
  <2>1. w' = Disconnect(w, {c})
    BY <1>4 DEF TransportLost
  <2>2. Served(w, {c})
    BY DEF Orderly, Served
  <2>3. Orderly(w') /\ w'.journal = w.journal
    BY <2>1, <2>2, DisconnectKeeps DEF Orderly
  <2> QED
    BY <2>3, SilentOnce
<1>5. ASSUME NEW c \in w.connected, DrainOutbound(c) PROVE Orderly(w') /\ Once(w, w')
  BY <1>5, DrainKeeps, SilentOnce DEF DrainOutbound
<1>6. ASSUME NEW c \in w.connected, NEW x \in SpaceIds,
             SubscribeStep(c, x) \/ UnsubscribeStep(c, x) \/ SpawnStep(c, x)
      PROVE  Orderly(w') /\ Once(w, w')
  <2>1. CASE SubscribeStep(c, x)
    BY <2>1, SubscribeKeeps, SilentOnce DEF SubscribeStep
  <2>2. CASE UnsubscribeStep(c, x)
    BY <2>2, UnsubscribeKeeps, SilentOnce DEF UnsubscribeStep
  <2>3. CASE SpawnStep(c, x)
    BY <2>3, SpawnKeeps, SilentOnce DEF SpawnStep
  <2> QED
    BY <1>6, <2>1, <2>2, <2>3
<1>7. ASSUME NEW c \in w.connected, NEW e, RemoveEntity(c, e)
      PROVE  Orderly(w') /\ Once(w, w')
  <2>1. w' = RemoveEntities(w, {e}) /\ {e} \in SUBSET DOMAIN w.entities
    BY <1>7 DEF RemoveEntity, OwnedBy
  <2>2. Orderly(w') /\ w'.journal = w.journal
    BY <2>1, RemovalKeeps DEF Orderly
  <2> QED
    BY <2>2, SilentOnce
<1>8. ASSUME NEW c \in w.connected, NEW e, NEW to, TransitionStep(c, e, to)
      PROVE  Orderly(w') /\ Once(w, w')
  BY <1>8, TransitionKeeps, SilentOnce DEF TransitionStep
<1>9. ASSUME NEW c \in w.connected, NEW request \in Requests,
             NEW verdict \in Verdicts(c, request), PublishStep(c, request, verdict)
      PROVE  Orderly(w') /\ Once(w, w')
  <2>1. PICK M : Planned(M, request, verdict)
    BY VerdictFormed
  <2>2. CanPublish(w, c, request, verdict) /\ w' = Publish(w, c, request, verdict)
    BY <1>9 DEF PublishStep
  <2> QED
    BY <2>1, <2>2, PublishOnce
<1>10. ASSUME NEW x \in SpaceIds, NEW epoch \in 1..MaxEpoch, AdvanceEpochStep(x, epoch)
       PROVE  Orderly(w') /\ Once(w, w')
  <2>1. /\ x \in DOMAIN w.spaces /\ epoch > w.spaces[x].epoch
        /\ w' = AdvanceEpoch(w, x, epoch)
    BY <1>10 DEF AdvanceEpochStep
  <2>2. epoch \in Nat /\ w.spaces[x].epoch \in Nat
    BY <2>1 DEF Whole, Sane, Epochs
  <2>3. Orderly(w') /\ w'.journal = w.journal
    BY <2>1, <2>2, AdvanceKeeps
  <2> QED
    BY <2>3, SilentOnce
<1>11. ASSUME NEW x \in SpaceIds, NEW epoch \in 1..MaxEpoch, NEW parent,
              InstallSpace(x, epoch, parent)
       PROVE  Orderly(w') /\ Once(w, w')
  <2>1. x \notin DOMAIN w.spaces /\ w' = Install(w, x, epoch, parent)
    BY <1>11 DEF InstallSpace, CanInstall
  <2> QED
    BY <2>1, InstallKeeps, SilentOnce
<1>12. CASE PopJournal
  BY <1>12, PopJournalKeeps, NothingNew DEF PopJournal
<1>13. CASE UNCHANGED session_vars
  <2>1. w' = w
    BY <1>13 DEF session_vars
  <2> QED
    BY <2>1, SilentOnce
<1> QED
  BY <1>1, <1>2, <1>3, <1>4, <1>5, <1>6, <1>7, <1>8, <1>9, <1>10, <1>11, <1>12, <1>13
  DEF SessionNext

(* A call that touches no sequence.                                        *)
LEMMA SameRecalls ==
  ASSUME NEW v, NEW u, u.sequences = v.sequences \/ Remembers(v, u)
  PROVE  Recalls(v, u)
BY DEF Recalls, Remembers

(* No call forgets or lowers a sequence whose publisher and scope stay.    *)
LEMMA RecallsNext ==
  Whole(w) /\ Orderly(w) /\ [SessionNext]_session_vars => Recalls(w, w')
<1> SUFFICES ASSUME Whole(w), Orderly(w), [SessionNext]_session_vars
             PROVE  Recalls(w, w')
  OBVIOUS
<1>1. CASE ConnectStep
  BY <1>1, ConnectKeeps, SameRecalls DEF ConnectStep
<1>2. ASSUME NEW c \in w.connected, Authenticate(c) \/ JoinSession(c)
      PROVE  Recalls(w, w')
  <2>1. w'.sequences = w.sequences
    BY <1>2 DEF Authenticate, JoinSession, IsWorld, Whole, Sane
  <2> QED
    BY <2>1, SameRecalls
<1>3. ASSUME NEW c \in w.connected, LeaveSession(c) PROVE Recalls(w, w')
  BY <1>3, DetachKeeps, SameRecalls DEF LeaveSession
<1>4. ASSUME NEW c \in w.connected, TransportLost(c) PROVE Recalls(w, w')
  BY <1>4, DisconnectKeeps, SameRecalls DEF TransportLost
<1>5. ASSUME NEW c \in w.connected, DrainOutbound(c) PROVE Recalls(w, w')
  BY <1>5, DrainKeeps, SameRecalls DEF DrainOutbound
<1>6. ASSUME NEW c \in w.connected, NEW x \in SpaceIds,
             SubscribeStep(c, x) \/ UnsubscribeStep(c, x) \/ SpawnStep(c, x)
      PROVE  Recalls(w, w')
  <2>1. CASE SubscribeStep(c, x)
    BY <2>1, SubscribeKeeps, SameRecalls DEF SubscribeStep
  <2>2. CASE UnsubscribeStep(c, x)
    BY <2>2, UnsubscribeKeeps, SameRecalls DEF UnsubscribeStep
  <2>3. CASE SpawnStep(c, x)
    BY <2>3, SpawnKeeps, SameRecalls DEF SpawnStep
  <2> QED
    BY <1>6, <2>1, <2>2, <2>3
<1>7. ASSUME NEW c \in w.connected, NEW e, RemoveEntity(c, e) PROVE Recalls(w, w')
  <2>1. w' = RemoveEntities(w, {e}) /\ {e} \in SUBSET DOMAIN w.entities
    BY <1>7 DEF RemoveEntity, OwnedBy
  <2> QED
    BY <2>1, RemovalKeeps, SameRecalls
<1>8. ASSUME NEW c \in w.connected, NEW e, NEW to, TransitionStep(c, e, to)
      PROVE  Recalls(w, w')
  BY <1>8, TransitionKeeps, SameRecalls DEF TransitionStep
<1>9. ASSUME NEW c \in w.connected, NEW request \in Requests,
             NEW verdict \in Verdicts(c, request), PublishStep(c, request, verdict)
      PROVE  Recalls(w, w')
  <2>1. PICK M : Planned(M, request, verdict)
    BY VerdictFormed
  <2>2. CanPublish(w, c, request, verdict) /\ w' = Publish(w, c, request, verdict)
    BY <1>9 DEF PublishStep
  <2>3. Published(w, w', c, Committed(request, verdict))
    BY <2>1, <2>2, PublishKeeps
  <2> QED
    BY <2>3 DEF Published
<1>10. ASSUME NEW x \in SpaceIds, NEW epoch \in 1..MaxEpoch, AdvanceEpochStep(x, epoch)
       PROVE  Recalls(w, w')
  <2>1. /\ x \in DOMAIN w.spaces /\ epoch > w.spaces[x].epoch
        /\ w' = AdvanceEpoch(w, x, epoch)
    BY <1>10 DEF AdvanceEpochStep
  <2>2. epoch \in Nat /\ w.spaces[x].epoch \in Nat
    BY <2>1 DEF Whole, Sane, Epochs
  <2>3. Remembers(w, w')
    BY <2>1, <2>2, AdvanceKeeps
  <2> QED
    BY <2>3, SameRecalls
<1>11. ASSUME NEW x \in SpaceIds, NEW epoch \in 1..MaxEpoch, NEW parent,
              InstallSpace(x, epoch, parent)
       PROVE  Recalls(w, w')
  <2>1. x \notin DOMAIN w.spaces /\ w' = Install(w, x, epoch, parent)
    BY <1>11 DEF InstallSpace, CanInstall
  <2> QED
    BY <2>1, InstallKeeps, SameRecalls
<1>12. CASE PopJournal
  <2>1. w.journal # <<>> /\ w' = [w EXCEPT !.journal = Tail(@)]
    BY <1>12 DEF PopJournal
  <2>2. w'.sequences = w.sequences
    BY <2>1, PopJournalKeeps
  <2> QED
    BY <2>2, SameRecalls
<1>13. CASE UNCHANGED session_vars
  BY <1>13, SameRecalls DEF session_vars
<1> QED
  BY <1>1, <1>2, <1>3, <1>4, <1>5, <1>6, <1>7, <1>8, <1>9, <1>10, <1>11, <1>12, <1>13
  DEF SessionNext

(* What is orderly is what the properties say.                             *)
LEMMA OrderlyMeans == Orderly(w) => QueuedInScope /\ StoredInScope
<1> SUFFICES ASSUME Orderly(w) PROVE QueuedInScope /\ StoredInScope
  OBVIOUS
<1>1. QueuedInScope
  <2> SUFFICES ASSUME NEW c \in w.connected
      PROVE  /\ ~w.queue[c].exhausted
             /\ WithinBounds(w.queue[c]) /\ OrderMatchesValues(w.queue[c])
             /\ \A m \in Pending(w.queue[c]) :
                   InScope(w, m) /\ m.space \in w.subscriptions[c]
    BY DEF QueuedInScope
  <2>1. /\ Healthy(w.queue[c])
        /\ \A m \in Pending(w.queue[c]) : InScope(w, m) /\ m.space \in w.subscriptions[c]
    BY DEF Orderly, Served
  <2>2. PICK M, K : WellFormed(w.queue[c], M, K)
    BY <2>1 DEF Healthy
  <2>3. OrderMatchesValues(w.queue[c])
    BY <2>2 DEF WellFormed
  <2> QED
    BY <2>1, <2>3 DEF Healthy
<1>2. StoredInScope
  BY DEF Orderly, Keeping, Counted, Tallied, StoredInScope
<1> QED
  BY <1>1, <1>2

(* The two inductive invariants together.                                  *)
THEOREM SessionOrderly == SessionSpec => [](Whole(w) /\ Orderly(w))
<1>1. SessionInit => Whole(w) /\ Orderly(w)
  BY WholeInit, OrderlyInit
<1>2. Whole(w) /\ Orderly(w) /\ [SessionNext]_session_vars => (Whole(w) /\ Orderly(w))'
  <2>1. Whole(w) /\ [SessionNext]_session_vars => Whole(w')
    BY WholeNext
  <2> QED
    BY <2>1, OrderlyNext
<1> QED
  BY <1>1, <1>2, PTL DEF SessionSpec

(* Nothing is queued about what is gone or for those who do not subscribe, *)
(* and nobody stays connected who missed a reliable message.               *)
THEOREM SessionQueuedInScope == SessionSpec => []QueuedInScope
<1>1. Orderly(w) => QueuedInScope
  BY OrderlyMeans
<1> QED
  BY <1>1, SessionOrderly, PTL

(* No state and no sequence outlives its scope, and the bytes are counted  *)
(* right, whatever replaces what.                                          *)
THEOREM SessionStoredInScope == SessionSpec => []StoredInScope
<1>1. Orderly(w) => StoredInScope
  BY OrderlyMeans
<1> QED
  BY <1>1, SessionOrderly, PTL

(* What is journaled is ahead of all its publisher sent under its key, and *)
(* its sequence stays used up for as long as publisher and scope stay.     *)
THEOREM SessionJournaledOnce == SessionSpec => JournaledOnce
<1>1. Whole(w) /\ Orderly(w) /\ [SessionNext]_session_vars => Once(w, w') /\ Recalls(w, w')
  BY WholeNext, OrderlyNext, RecallsNext
<1>2. SessionSpec => [][Once(w, w') /\ Recalls(w, w')]_session_vars
  <2>1. Whole(w) /\ Orderly(w) /\ [SessionNext]_session_vars
            => [Once(w, w') /\ Recalls(w, w')]_session_vars
    BY <1>1
  <2> QED
    BY <2>1, SessionOrderly, PTL DEF SessionSpec
<1> QED
  BY <1>2, PTL DEF JournaledOnce, Once, Recalls
=============================================================================
