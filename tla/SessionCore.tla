----------------------------- MODULE SessionCore -----------------------------
(***************************************************************************)
(* The single-owner core serving one session: connections that come,       *)
(* authenticate, join, subscribe, spawn, move, publish, leave and vanish,  *)
(* while the deployment installs spaces and advances their epochs.  The    *)
(* worker owns the core, so every call is one step; what interleaves is    *)
(* the order of the calls.                                                 *)
(*                                                                         *)
(* Connection and entity ids are never reused; MaxConnectionIds,           *)
(* MaxEntityIds, MaxEpoch and MaxSequence bound what is explored.          *)
(***************************************************************************)
EXTENDS PublishOps

CONSTANTS SpaceIds, MaxConnectionIds, MaxEntityIds, MaxEpoch, MaxSequence,
          Components, Sizes, MaxEmitted

ASSUME SessionUseAssumption ==
    /\ Components \subseteq Nat \ {0} /\ Sizes \subseteq Nat \ {0}
    /\ MaxConnectionIds \in Nat /\ MaxEntityIds \in Nat
    /\ MaxEpoch \in Nat /\ MaxSequence \in Nat /\ MaxEmitted \in Nat

VARIABLE w

session_vars == <<w>>

SessionInit == w = EmptyWorld

ConnectStep ==
    /\ CanConnect(w) /\ w.next_connection <= MaxConnectionIds
    /\ w' = Connect(w)

Authenticate(c) ==
    /\ c \in w.connected \ w.authed
    /\ w' = [w EXCEPT !.authed = @ \cup {c}]

JoinSession(c) ==
    /\ c \in w.authed
    /\ w' = [w EXCEPT !.memberships = @ \cup {c}, !.members = @ \cup {c}]

LeaveSession(c) ==
    /\ c \in w.memberships
    /\ w' = Detach(w, {c})

SubscribeStep(c, x) ==
    /\ CanSubscribe(w, c, x)
    /\ w' = Subscribe(w, c, x)

UnsubscribeStep(c, x) ==
    /\ c \in w.authed /\ x \in w.subscriptions[c]
    /\ w' = Unsubscribe(w, c, x)

SpawnStep(c, x) ==
    /\ CanSpawn(w, c, x) /\ w.next_entity <= MaxEntityIds
    /\ w' = Spawn(w, c, x)

RemoveEntity(c, e) ==
    /\ c \in w.authed \cap w.memberships /\ e \in OwnedBy(w, c)
    /\ w' = RemoveEntities(w, {e})

TransitionStep(c, e, to) ==
    /\ CanTransition(w, c, e, to)
    /\ w' = Transition(w, c, e, to)

InstallSpace(x, epoch, parent) ==
    /\ CanInstall(w, x, epoch, parent)
    /\ w' = Install(w, x, epoch, parent)

AdvanceEpochStep(x, epoch) ==
    /\ x \in DOMAIN w.spaces /\ epoch > w.spaces[x].epoch
    /\ w' = AdvanceEpoch(w, x, epoch)

TransportLost(c) ==
    /\ c \in w.connected
    /\ w' = Disconnect(w, {c})

DrainOutbound(c) ==
    /\ c \in w.connected
    /\ w' = [w EXCEPT !.queue[c] = AfterDrain(@)]

PopJournal ==
    /\ w.journal # <<>>
    /\ w' = [w EXCEPT !.journal = Tail(@)]

PublishStep(c, request, verdict) ==
    /\ CanPublish(w, c, request, verdict)
    /\ w' = Publish(w, c, request, verdict)

-----------------------------------------------------------------------------
Parents == {NoParent} \cup {[space |-> w.entities[e].space, anchor |-> e] :
                                e \in DOMAIN w.entities}

(* What a client may ask to publish, stale or misplaced as it may be.      *)
Requests ==
    {Message(x, epoch, e, ch, k, n, size) :
        x \in DOMAIN w.spaces, epoch \in 1..MaxEpoch,
        e \in {NoEntity} \cup DOMAIN w.entities, ch \in Channels,
        k \in Components \cup {0}, n \in 1..MaxSequence, size \in Sizes}

(* What the channel's policy may make of it: a RelayOwned channel accepts, *)
(* any other does as the deployment pleases.                               *)
Transforms(m) ==
    {Transform(Message(m.space, m.epoch, m.entity, m.channel, k, m.sequence, size)) :
        k \in Components \cup {0}, size \in Sizes}

Emissions(c) ==
    UNION {[1..n -> {m \in Requests : ValidMessage(w, c, m)}] : n \in 0..MaxEmitted}

Verdicts(c, request) ==
    IF request.channel \in RelayChannels THEN {Accept}
    ELSE {Accept} \cup Transforms(request) \cup {Emit(s) : s \in Emissions(c)}

SessionNext ==
    \/ ConnectStep
    \/ \E c \in w.connected :
          \/ Authenticate(c) \/ JoinSession(c) \/ LeaveSession(c)
          \/ TransportLost(c) \/ DrainOutbound(c)
          \/ \E x \in SpaceIds :
                SubscribeStep(c, x) \/ UnsubscribeStep(c, x) \/ SpawnStep(c, x)
          \/ \E e \in OwnedBy(w, c) :
                RemoveEntity(c, e) \/ (\E to \in SpaceIds : TransitionStep(c, e, to))
          \/ \E request \in Requests : \E verdict \in Verdicts(c, request) :
                PublishStep(c, request, verdict)
    \/ \E x \in SpaceIds, epoch \in 1..MaxEpoch :
          \/ AdvanceEpochStep(x, epoch)
          \/ \E parent \in Parents : InstallSpace(x, epoch, parent)
    \/ PopJournal

SessionSpec == SessionInit /\ [][SessionNext]_session_vars

-----------------------------------------------------------------------------
Epochs == 1..MaxEpoch

SessionTyped ==
    /\ w.authed \cup w.memberships \cup w.members \subseteq w.connected
    /\ w.connected \subseteq 1..w.next_connection - 1
    /\ w.subscriptions \in [w.connected -> SUBSET SpaceIds]
    /\ w.owned \in [w.connected -> Nat]
    /\ DOMAIN w.queue = w.connected
    /\ DOMAIN w.spaces \cup DOMAIN w.tombstones \subseteq SpaceIds
    /\ \A x \in DOMAIN w.spaces : w.spaces[x].epoch \in Epochs
    /\ w.tombstones \in [DOMAIN w.tombstones -> Epochs]
    /\ w.subscribers \in [DOMAIN w.spaces -> SUBSET w.connected]
    /\ DOMAIN w.entities \subseteq 1..w.next_entity - 1
    /\ w.entities \in [DOMAIN w.entities ->
                           [owner : w.connected, space : SpaceIds, epoch : Epochs]]
    /\ Len(w.journal) <= JournalCapacity
    /\ Cardinality(DOMAIN w.sequences) <= MaxSequenceKeys

(* The two sides of every relation agree after any interleaving of joins,  *)
(* departures and cascades: what a connection's own state lists is what    *)
(* the session lists, only members subscribe, and the cached               *)
(* owned_entities is the number of entities owned.                         *)
ViewsAgree ==
    /\ SessionTyped
    /\ w.memberships = w.members
    /\ \A c \in w.connected :
          /\ w.subscriptions[c] = {x \in DOMAIN w.spaces : c \in w.subscribers[x]}
          /\ w.subscriptions[c] # {} => c \in w.members
          /\ w.owned[c] = Cardinality(OwnedBy(w, c))

(* A removal leaves nothing hanging: every entity lives in an installed    *)
(* space at its current epoch and belongs to a member, every anchored      *)
(* space has its parent and its anchor.                                    *)
NothingDangles ==
    /\ \A e \in DOMAIN w.entities :
          /\ w.entities[e].owner \in w.members
          /\ w.entities[e].space \in DOMAIN w.spaces
          /\ w.entities[e].epoch = w.spaces[w.entities[e].space].epoch
    /\ \A x \in DOMAIN w.spaces :
          w.spaces[x].parent # NoParent =>
              /\ w.spaces[x].parent.space \in DOMAIN w.spaces
              /\ w.spaces[x].parent.anchor \in DOMAIN w.entities

(* The epoch a space last had, through removal and reinstallation.         *)
LastEpoch(world, x) ==
    IF x \in DOMAIN world.spaces THEN world.spaces[x].epoch
    ELSE IF x \in DOMAIN world.tombstones THEN world.tombstones[x]
    ELSE 0

(* "Space epochs reject packets for destroyed or recreated spaces": an     *)
(* epoch is never forgotten, a space that comes back does so under a newer *)
(* one, and so is a space that an advance has emptied and left installed.  *)
(* An advance that removes the space with its anchor, and fails (core.rs   *)
(* :736), leaves the old epoch as the last: what was sent under it meets   *)
(* no space, and a later installation has to exceed it.                    *)
EpochsAdvance ==
    [][ \A x \in SpaceIds :
          /\ LastEpoch(w', x) >= LastEpoch(w, x)
          /\ \/ x \in DOMAIN w'.spaces \ DOMAIN w.spaces
             \/ /\ x \in DOMAIN w'.spaces
                /\ \E epoch \in 1..MaxEpoch : AdvanceEpochStep(x, epoch)
             => LastEpoch(w', x) > LastEpoch(w, x) ]_session_vars

(* Nothing is ever delivered about what is gone: every message queued for  *)
(* a connection is about a space it is subscribed to, at the current       *)
(* epoch, and about an entity that is still there.  And no connection is   *)
(* left that missed a reliable message, or whose queue is out of bounds.   *)
QueuedInScope ==
    \A c \in w.connected :
        /\ ~w.queue[c].exhausted
        /\ WithinBounds(w.queue[c]) /\ OrderMatchesValues(w.queue[c])
        /\ \A m \in Pending(w.queue[c]) :
              InScope(w, m) /\ m.space \in w.subscriptions[c]

(* Nor does the session keep state or sequences of what is gone, and its   *)
(* byte count is the sum of what it keeps.                                 *)
StoredInScope ==
    /\ \A k \in DOMAIN w.state \cup DOMAIN w.sequences : InScope(w, k)
    /\ \A k \in DOMAIN w.sequences : k.connection \in w.members
    /\ w.state_bytes = StoredBytes(w.state)
    /\ w.state_bytes <= MaxStateBytes
    /\ Cardinality(DOMAIN w.state) <= MaxStateEntries

(* A record that reaches the journal was ahead of all its publisher had    *)
(* sent under its key, later records of a batch ahead of earlier ones, and *)
(* has used up its sequence.  What is used up stays so for as long as the  *)
(* publisher remains a member and the record's space, epoch and entity     *)
(* remain its scope: no step forgets the sequence or lowers it.  Together: *)
(* one stay journals a record once.  A publisher that leaves and rejoins,  *)
(* or an entity that moves away and back, starts anew; of the latter see   *)
(* SequencesAfterReturn.cfg.                                               *)
JournaledOnce ==
    [][ /\ LET new == SubSeq(w'.journal, Len(w.journal) + 1, Len(w'.journal))
           IN  new # <<>> =>
                   \E c \in w.authed :
                       /\ InSequence(c, new)
                       /\ \A i \in DOMAIN new :
                             /\ Fresh(w, c, new[i])
                             /\ c \in w'.members => ~ValidMessage(w', c, new[i])
        /\ \A k \in DOMAIN w.sequences :
               k.connection \in w'.members /\ InScope(w', k) =>
                   /\ k \in DOMAIN w'.sequences
                   /\ \/ w'.sequences[k] = w.sequences[k]
                      \/ w'.sequences[k] > w.sequences[k] ]_session_vars

-----------------------------------------------------------------------------
(* ADR 0004: a space "may be anchored to an entity in a parent space";     *)
(* install_space refuses an anchor that is anywhere else.                  *)
AnchorsInParent ==
    \A x \in DOMAIN w.spaces :
        w.spaces[x].parent # NoParent =>
            w.entities[w.spaces[x].parent.anchor].space = w.spaces[x].parent.space

(* "sequence monotonicity" under RelayOwned: what the journal holds of one *)
(* component of one entity in one space moves forward.                     *)
JournalMovesForward ==
    \A i, j \in DOMAIN w.journal :
        /\ i < j
        /\ w.journal[i].channel \in RelayChannels
        /\ StateKey(w.journal[i]) = StateKey(w.journal[j])
        => w.journal[i].sequence < w.journal[j].sequence
=============================================================================
