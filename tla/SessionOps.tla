------------------------------ MODULE SessionOps ------------------------------
(***************************************************************************)
(* One provisioned session of the core and the connections that meet in it *)
(* (crates/woven-core/src/core.rs), as operators on a record w:            *)
(*    next_connection  the id the next connection gets                     *)
(*    connected        the open connections                                *)
(*    authed           those that have authenticated                       *)
(*    memberships      those whose own state lists the session             *)
(*    subscriptions    connection -> the spaces its own state lists        *)
(*    owned            connection -> owned_entities                        *)
(*    queue            connection -> its outbound queue                    *)
(*    members          the session's members                               *)
(*    spaces           installed space -> epoch and parent                 *)
(*    tombstones       removed space -> its last epoch                     *)
(*    subscribers      installed space -> connections                      *)
(*    next_entity      the id the next entity gets                         *)
(*    entities         entity -> owner, space and epoch                    *)
(*    sequences        sequence key -> last sequence accepted              *)
(*    state            state key -> sequence and size of what is stored    *)
(*    state_bytes      the running total of those sizes                    *)
(*    journal          the journal outbox                                  *)
(*                                                                         *)
(* A call that the code refuses returns an error and changes nothing; its  *)
(* condition is the Can... operator next to the call.  Grants are what     *)
(* Writers and Listeners say; spaces route to all their subscribers.       *)
(***************************************************************************)
EXTENDS OutboundQueueOps, FiniteSetsExt

CONSTANTS Writers,            \* connections whose principal may write
          Listeners,          \* connections whose principal may receive
          NoParent, NoEntity, \* Option::None
          MaxConnections, MaxSubscriptions, MaxOwned,        \* CoreConfig
          MaxSpaces, MaxSpaceHistory, MaxEntities

(* CoreConfig::validate                                                    *)
ASSUME CoreConfigAssumption ==
    /\ \A limit \in {MaxConnections, MaxSubscriptions, MaxOwned, MaxSpaces,
                     MaxSpaceHistory, MaxEntities} : limit \in Nat \ {0}
    /\ MaxSpaces <= MaxSpaceHistory

(* None is no id.                                                          *)
ASSUME OptionAssumption == NoEntity \notin Nat

EmptyWorld ==
    [next_connection |-> 1, connected |-> {}, authed |-> {}, memberships |-> {},
     subscriptions |-> <<>>, owned |-> <<>>, queue |-> <<>>,
     members |-> {}, spaces |-> <<>>, tombstones |-> <<>>, subscribers |-> <<>>,
     next_entity |-> 1, entities |-> <<>>, sequences |-> <<>>, state |-> <<>>,
     state_bytes |-> 0, journal |-> <<>>]

(* A function with one more argument, or another value for an old one.     *)
Insert(f, x, v) == [y \in DOMAIN f \cup {x} |-> IF y = x THEN v ELSE f[y]]

Drop(f, gone) == Restrict(f, DOMAIN f \ gone)

OwnedBy(w, c) == {e \in DOMAIN w.entities : w.entities[e].owner = c}

EntitiesIn(w, xs) == {e \in DOMAIN w.entities : w.entities[e].space \in xs}

StoredBytes(state) == Total([k \in DOMAIN state |-> state[k].size])

(* All that is kept about spaces and entities: the keys of the state and   *)
(* of the sequences, and the messages in the queues.                       *)
Held(w) ==
    DOMAIN w.state \cup DOMAIN w.sequences
        \cup UNION {Pending(w.queue[c]) : c \in DOMAIN w.queue}

(* SessionState::state.retain followed by recompute_state_bytes, and       *)
(* sequences.retain, for the keys that are gone.                           *)
Forget(w, gone) ==
    LET state == Drop(w.state, gone)
    IN  [w EXCEPT !.state = state,
                  !.state_bytes = StoredBytes(state),
                  !.sequences = Drop(@, gone)]

(* OutboundQueue::purge on every connection.                               *)
PurgeAll(w, gone) ==
    [w EXCEPT !.queue = [c \in DOMAIN w.queue |-> Purge(w.queue[c], gone)]]

-----------------------------------------------------------------------------
(* remove_entities_and_anchored_spaces: the spaces that fall with some     *)
(* entities are the least set that holds every space anchored to one of    *)
(* them, to an entity of a falling space, or inside a falling space.       *)
Undermined(w, seed, x, falling) ==
    /\ w.spaces[x].parent # NoParent
    /\ \/ w.spaces[x].parent.anchor \in seed \cup EntitiesIn(w, falling)
       \/ w.spaces[x].parent.space \in falling

(* Mutant of FallingSpaces: one round, without the fixed point.            *)
AnchoredSpaces(w, seed) == {x \in DOMAIN w.spaces : Undermined(w, seed, x, {})}

FallingSpaces(w, seed) ==
    {x \in DOMAIN w.spaces :
        \A xs \in SUBSET DOMAIN w.spaces :
            (\A y \in DOMAIN w.spaces : Undermined(w, seed, y, xs) => y \in xs)
                => x \in xs}

(* owned_entities of every connection once some entities are removed; and  *)
(* its mutant, which forgets to count down.                                *)
OwnedUntouched(w, removed) == w.owned

OwnedCounts(w, removed) ==
    [c \in DOMAIN w.owned |-> w.owned[c] - Cardinality(OwnedBy(w, c) \cap removed)]

RemoveEntities(w, seed) ==
    LET spaces   == FallingSpaces(w, seed)
        entities == seed \cup EntitiesIn(w, spaces)
        gone     == {k \in Held(w) : k.space \in spaces \/ k.entity \in entities}
        graph    == [w EXCEPT
            !.entities    = Drop(@, entities),
            !.spaces      = Drop(@, spaces),
            !.tombstones  = [x \in DOMAIN w.tombstones \cup spaces |->
                                IF x \in spaces THEN w.spaces[x].epoch
                                                ELSE w.tombstones[x]],
            !.subscribers = Drop(@, spaces),
            !.owned       = OwnedCounts(w, entities),
            !.subscriptions = [c \in DOMAIN w.subscriptions |-> w.subscriptions[c] \ spaces]]
    IN  PurgeAll(Forget(graph, gone), gone)

(* detach_connection_from_session, for connections that go one after the   *)
(* other: what falls with all of them is what falls with each in turn.     *)
Detach(w, cs) ==
    LET left == RemoveEntities(w, UNION {OwnedBy(w, c) : c \in cs})
    IN  [left EXCEPT
            !.members       = @ \ cs,
            !.subscribers   = [x \in DOMAIN left.subscribers |-> left.subscribers[x] \ cs],
            !.sequences     = Drop(@, {k \in DOMAIN @ : k.connection \in cs}),
            !.memberships   = @ \ cs,
            !.subscriptions = [c \in DOMAIN left.subscriptions |->
                                  IF c \in cs THEN {} ELSE left.subscriptions[c]],
            !.queue         = [c \in DOMAIN left.queue |->
                                  IF c \in cs
                                  THEN Purge(left.queue[c], Pending(left.queue[c]))
                                  ELSE left.queue[c]]]

(* transport_lost                                                          *)
Disconnect(w, cs) ==
    LET members == cs \cap w.memberships
        left    == IF members = {} THEN w ELSE Detach(w, members)
    IN  [left EXCEPT !.connected = @ \ cs, !.authed = @ \ cs,
                     !.subscriptions = Drop(@, cs), !.owned = Drop(@, cs),
                     !.queue = Drop(@, cs)]

-----------------------------------------------------------------------------
(* transport_connected                                                     *)
CanConnect(w) == Cardinality(w.connected) < MaxConnections

Connect(w) ==
    LET c == w.next_connection
    IN  [w EXCEPT !.next_connection = c + 1, !.connected = @ \cup {c},
                  !.subscriptions = Insert(@, c, {}), !.owned = Insert(@, c, 0),
                  !.queue = Insert(@, c, EmptyQueue)]

CanSubscribe(w, c, x) ==
    /\ c \in w.authed \cap w.memberships
    /\ x \in DOMAIN w.spaces
    /\ Cardinality(w.subscriptions[c]) < MaxSubscriptions

Subscribe(w, c, x) ==
    [w EXCEPT !.subscriptions[c] = @ \cup {x}, !.subscribers[x] = @ \cup {c}]

(* Mutant of Unsubscribe: what is queued about the space stays queued.     *)
UnsubscribeKeepingQueue(w, c, x) ==
    [w EXCEPT !.subscriptions[c] = @ \ {x},
              !.subscribers = [y \in DOMAIN @ |-> IF y = x THEN @[y] \ {c} ELSE @[y]]]

(* unsubscribe of a space the connection is subscribed to.                 *)
Unsubscribe(w, c, x) ==
    [w EXCEPT !.subscriptions[c] = @ \ {x},
              !.subscribers = [y \in DOMAIN @ |-> IF y = x THEN @[y] \ {c} ELSE @[y]],
              !.queue[c] = Purge(@, {m \in Pending(@) : m.space = x})]

(* May c write in x: grants, membership, subscription.                     *)
MayWrite(w, c, x) ==
    c \in w.authed \cap Writers \cap w.memberships /\ x \in w.subscriptions[c]

CanSpawn(w, c, x) ==
    /\ MayWrite(w, c, x)
    /\ x \in DOMAIN w.spaces
    /\ w.owned[c] < MaxOwned
    /\ Cardinality(DOMAIN w.entities) < MaxEntities

Spawn(w, c, x) ==
    [w EXCEPT !.next_entity = @ + 1,
              !.entities = Insert(@, w.next_entity,
                  [owner |-> c, space |-> x, epoch |-> w.spaces[x].epoch]),
              !.owned[c] = @ + 1]

(* transition_entity of one of c's entities; to its own space it is a      *)
(* no-op.  Nothing asks whether the entity anchors a space.                *)
CanTransition(w, c, e, to) ==
    /\ e \in OwnedBy(w, c)
    /\ MayWrite(w, c, w.entities[e].space) /\ MayWrite(w, c, to)
    /\ to \in DOMAIN w.spaces
    /\ LET from == w.entities[e].space
       IN  from \in DOMAIN w.spaces /\ w.entities[e].epoch = w.spaces[from].epoch

(* Mutant of Transition: state and sequences are left behind.              *)
MoveOnly(w, c, e, to) ==
    LET gone == {k \in Held(w) : k.space = w.entities[e].space /\ k.entity = e}
    IN  IF to = w.entities[e].space THEN w
        ELSE PurgeAll([w EXCEPT !.entities[e].space = to,
                                !.entities[e].epoch = w.spaces[to].epoch], gone)

Transition(w, c, e, to) ==
    LET from == w.entities[e]
        gone  == {k \in Held(w) : /\ k.space = from.space /\ k.epoch = from.epoch
                                  /\ k.entity = e}
        moved == [w EXCEPT !.entities[e].space = to,
                           !.entities[e].epoch = w.spaces[to].epoch]
    IN  IF to = from.space THEN w ELSE PurgeAll(Forget(moved, gone), gone)

-----------------------------------------------------------------------------
(* The epochs and the history that let install_space in; the mutant lets a *)
(* removed space back under the epoch it had.                              *)
SameEpochAllowed(w, x, epoch) ==
    IF x \in DOMAIN w.tombstones
    THEN epoch >= w.tombstones[x]
    ELSE Cardinality(DOMAIN w.spaces) + Cardinality(DOMAIN w.tombstones)
            # MaxSpaceHistory

EpochAllowed(w, x, epoch) ==
    IF x \in DOMAIN w.tombstones
    THEN epoch > w.tombstones[x]
    ELSE Cardinality(DOMAIN w.spaces) + Cardinality(DOMAIN w.tombstones)
            # MaxSpaceHistory

(* install_space                                                           *)
CanInstall(w, x, epoch, parent) ==
    /\ x \notin DOMAIN w.spaces
    /\ Cardinality(DOMAIN w.spaces) < MaxSpaces
    /\ EpochAllowed(w, x, epoch)
    /\ parent # NoParent =>
          /\ parent.space \in DOMAIN w.spaces
          /\ parent.anchor \in EntitiesIn(w, {parent.space})

Install(w, x, epoch, parent) ==
    [w EXCEPT !.tombstones = Drop(@, {x}),
              !.subscribers = Insert(@, x, {}),
              !.spaces = Insert(@, x, [epoch |-> epoch, parent |-> parent])]

(* advance_space_epoch.  The removal may take the space itself along, when *)
(* its anchor has moved into it: the call then fails with the removal done.*)
AdvanceEpoch(w, x, epoch) ==
    LET gone   == {k \in Held(w) : k.space = x}
        purged == PurgeAll(RemoveEntities(w, EntitiesIn(w, {x})), gone)
    IN  IF x \in DOMAIN purged.spaces
        THEN Forget([purged EXCEPT !.spaces[x].epoch = epoch], gone)
        ELSE purged
=============================================================================
