------------------------------ MODULE Lifecycle ------------------------------
(***************************************************************************)
(* The worker that owns the core, the mirrors it keeps for the fan-out of  *)
(* lifecycle notifications, and the three tasks of each connection: the    *)
(* reader that serves requests, the writer of the reliable stream and the  *)
(* drain of the outbound queue.  QUIC and WebTransport connections run     *)
(* the same tasks.                                                         *)
(*                                                                         *)
(* The worker takes one request at a time; the fan-out of a request is a   *)
(* stack of work that runs to its end before the next request, while the   *)
(* writers go on.  What the core does is SessionCore's subject: here it is *)
(* who is connected and subscribed, where entities are, and how many       *)
(* reliable messages wait for each connection.                             *)
(*                                                                         *)
(* Spaces are static, as no command installs one.  Actors are the          *)
(* connections whose clients do more than join and subscribe, Frail those  *)
(* whose peers vanish or misbehave; they, MaxEntities and MaxMoves bound   *)
(* what is explored.                                                       *)
(***************************************************************************)
EXTENDS Integers, VecOps

CONSTANTS Connections, Spaces, Gone, WriteCapacity, CriticalCapacity,
          MaxTasks, Actors, Frail, MaxEntities, MaxMoves

ASSUME LifecycleAssumption ==
    /\ Connections \subseteq Nat \ {0} /\ Gone \notin Spaces
    /\ WriteCapacity \in Nat \ {0} /\ CriticalCapacity \in Nat \ {0} /\ MaxTasks \in Nat \ {0}
    /\ Actors \cup Frail \subseteq Connections
    /\ MaxEntities \in Nat /\ MaxMoves \in Nat

VARIABLES
    known,          \* the core: connections it has,
    members,        \*   those that joined the session,
    subscribed,     \*   the spaces each one is subscribed to,
    owners, place,  \*   owner and space of every entity ever spawned,
    backlog,        \*   reliable messages in each outbound queue
    recipients,     \* the worker: connections registered for direct delivery,
    subscriptions,  \*   the spaces each one has activated,
    work,           \*   what is left of the fan-out in progress
    channel,        \* envelopes that wait for each writer or that it is writing
    shutdown,       \* connections told to shut down
    reader, target, \* the reader task, and the space it is subscribing to
    writer, drainer, \* the other two tasks
    link,           \* whether the transport connection is up
    moves,          \* transitions so far
    told,           \* history: arrivals each connection was told of, and not of their end
    cut,            \* history: connections the core cut off as slow consumers
    overtaken       \* history: entities gone before their arrival was announced

core == <<known, members, subscribed, owners, place, backlog>>
mirrors == <<recipients, subscriptions>>
task_vars == <<reader, target, writer, drainer>>
history == <<told, cut, overtaken>>
lifecycle_vars == <<core, mirrors, work, channel, shutdown, task_vars, link, moves, history>>

-----------------------------------------------------------------------------
(* The core as the worker sees it.                                         *)
Entities == DOMAIN owners
Present(x) == {e \in Entities : place[e] = x}
OwnedBy(c) == {e \in Entities : owners[e] = c /\ place[e] # Gone}

Ascending(S) ==
    [i \in 1..Cardinality(S) |-> CHOOSE n \in S : RankIn(S, n) = i]

Entered(e, x, except) == [op |-> "entered", entity |-> e, space |-> x, except |-> except]
Left(e, x) == [op |-> "left", entity |-> e, space |-> x, except |-> {}]
Cleanup(c) == [op |-> "cleanup", connection |-> c]

(* Everything in S leaves the core.                                        *)
CoreLoses(S) ==
    /\ known' = known \ S
    /\ members' = members \ S
    /\ subscribed' = [c \in Connections |-> IF c \in S THEN {} ELSE subscribed[c]]
    /\ place' = [e \in Entities |-> IF owners[e] \in S THEN Gone ELSE place[e]]
    /\ backlog' = [c \in Connections |-> IF c \in S THEN 0 ELSE backlog[c]]
    /\ UNCHANGED owners

DeparturesForgotten(c) == <<>>

(* The notifications that follow from the entities c owned.                *)
Departures(c) ==
    LET gone == Ascending(OwnedBy(c)) IN [i \in DOMAIN gone |-> Left(gone[i], place[gone[i]])]

Unannounced(rest) == {rest[i].entity : i \in {j \in DOMAIN rest : rest[j].op = "entered"}}

DisconnectStillRegistered(c, rest) ==
    /\ CoreLoses(known \cap {c})
    /\ work' = Departures(c) \o rest
    /\ UNCHANGED <<mirrors, history>>

(* TransportLost for c: mirrors and fan-out follow only when the core knew *)
(* the connection.                                                         *)
Disconnect(c, rest) ==
    IF c \in known
    THEN /\ CoreLoses({c})
         /\ recipients' = recipients \ {c}
         /\ subscriptions' = [subscriptions EXCEPT ![c] = {}]
         /\ work' = Departures(c) \o rest
         /\ overtaken' = overtaken \cup (OwnedBy(c) \cap Unannounced(rest))
         /\ told' = [told EXCEPT ![c] = {}]
         /\ UNCHANGED cut
    ELSE /\ work' = rest
         /\ UNCHANGED <<core, mirrors, history>>

Idle == work = <<>>

(* Envelopes the channel to the writer takes at once.                      *)
HasRoom(c, n) == writer[c] # "done" /\ channel[c] + n <= WriteCapacity

-----------------------------------------------------------------------------
(* The fan-out.  Sends to different channels commute with the writers, so  *)
(* an envelope reaches all its recipients in one step.                     *)
Targets(m) == {c \in recipients \ m.except : m.space \in subscriptions[c]}

Hears(c, m) ==
    IF m.op = "entered" THEN told[c] \cup {<<m.entity, m.space>>}
                        ELSE told[c] \ {<<m.entity, m.space>>}

FanOutDroppingSilently ==
    /\ ~Idle /\ Head(work).op # "cleanup"
    /\ LET m == Head(work)
           served == {c \in Targets(m) : HasRoom(c, 1)}
       IN /\ channel' = [c \in Connections |->
                            IF c \in served THEN channel[c] + 1 ELSE channel[c]]
          /\ told' = [c \in Connections |-> IF c \in served THEN Hears(c, m) ELSE told[c]]
    /\ work' = Tail(work)
    /\ UNCHANGED <<core, mirrors, shutdown, task_vars, link, moves, cut, overtaken>>

FanOut ==
    /\ ~Idle /\ Head(work).op # "cleanup"
    /\ LET m == Head(work)
           served == {c \in Targets(m) : HasRoom(c, 1)}
           dead == Targets(m) \ served
           cleanups == Ascending(dead)
       IN /\ channel' = [c \in Connections |->
                            IF c \in served THEN channel[c] + 1 ELSE channel[c]]
          /\ told' = [c \in Connections |-> IF c \in served THEN Hears(c, m) ELSE told[c]]
          /\ shutdown' = shutdown \cup dead
          /\ work' = [i \in DOMAIN cleanups |-> Cleanup(cleanups[i])] \o Tail(work)
    /\ UNCHANGED <<core, mirrors, task_vars, link, moves, cut, overtaken>>

CleanupDead ==
    /\ ~Idle /\ Head(work).op = "cleanup"
    /\ LET c == Head(work).connection IN
          IF c \in known THEN Disconnect(c, Tail(work))
          ELSE /\ recipients' = recipients \ {c}
               /\ subscriptions' = [subscriptions EXCEPT ![c] = {}]
               /\ work' = Tail(work)
               /\ UNCHANGED <<core, history>>
    /\ UNCHANGED <<channel, shutdown, task_vars, link, moves>>

-----------------------------------------------------------------------------
(* The reader: accepting the connection, greeting and authenticating it.   *)
(* An endpoint serves MaxTasks connections at a time.                      *)
Served == {c \in Connections : reader[c] \notin {"new", "closed"}}

Connect(c) ==
    /\ Idle /\ reader[c] = "new" /\ Cardinality(Served) < MaxTasks
    /\ known' = known \cup {c}
    /\ reader' = [reader EXCEPT ![c] = "accepted"]
    /\ UNCHANGED <<members, subscribed, owners, place, backlog, mirrors, work, channel,
                   shutdown, target, writer, drainer, link, moves, history>>

(* No control stream in time: there is no writer to wait for yet.          *)
AcceptFails(c) ==
    /\ Idle /\ reader[c] = "accepted"
    /\ Disconnect(c, <<>>)
    /\ reader' = [reader EXCEPT ![c] = "closed"]
    /\ link' = [link EXCEPT ![c] = FALSE]
    /\ UNCHANGED <<channel, shutdown, target, writer, drainer, moves>>

RegisterLifecycle(c) ==
    /\ Idle /\ reader[c] = "accepted" /\ link[c]
    /\ recipients' = recipients \cup {c}
    /\ reader' = [reader EXCEPT ![c] = "hello"]
    /\ writer' = [writer EXCEPT ![c] = "running"]
    /\ drainer' = [drainer EXCEPT ![c] = "running"]
    /\ UNCHANGED <<core, subscriptions, work, channel, shutdown, target, link, moves, history>>

Serving == {"hello", "authenticate", "open"}
InLoop(c) == reader[c] \in Serving

(* The reader puts n envelopes on its own channel and goes on to next, or  *)
(* breaks its loop.                                                        *)
Replies(c, n, next) ==
    IF HasRoom(c, n)
    THEN /\ channel' = [channel EXCEPT ![c] = @ + n]
         /\ reader' = [reader EXCEPT ![c] = next]
    ELSE /\ channel' = channel
         /\ reader' = [reader EXCEPT ![c] = "closing"]

Hello(c) ==
    /\ Idle /\ reader[c] = "hello" /\ link[c]
    /\ Replies(c, 1, "authenticate")
    /\ UNCHANGED <<core, mirrors, work, shutdown, target, writer, drainer, link, moves, history>>

Authenticate(c) ==
    /\ Idle /\ reader[c] = "authenticate" /\ link[c] /\ c \in known
    /\ Replies(c, 1, "open")
    /\ UNCHANGED <<core, mirrors, work, shutdown, target, writer, drainer, link, moves, history>>

(* Malformed, unexpected and refused messages: an error is sent if it fits *)
(* and the loop ends.  A connection the core lost has every command        *)
(* refused.                                                                *)
Refuse(c) ==
    /\ Idle /\ InLoop(c) /\ (c \in Frail \/ c \notin known)
    /\ channel' = [channel EXCEPT ![c] = IF HasRoom(c, 1) THEN @ + 1 ELSE @]
    /\ reader' = [reader EXCEPT ![c] = "closing"]
    /\ UNCHANGED <<core, mirrors, work, shutdown, target, writer, drainer, link, moves, history>>

Interrupted(c) ==
    /\ Idle /\ InLoop(c) /\ (c \in shutdown \/ ~link[c])
    /\ reader' = [reader EXCEPT ![c] = "closing"]
    /\ shutdown' = shutdown \ {c}
    /\ UNCHANGED <<core, mirrors, work, channel, target, writer, drainer, link, moves, history>>

-----------------------------------------------------------------------------
(* The reader: requests of an authenticated client.                        *)
Ready(c) == Idle /\ reader[c] = "open" /\ link[c] /\ c \in known

Join(c) ==
    /\ Ready(c)
    /\ members' = members \cup {c}
    /\ UNCHANGED <<known, subscribed, owners, place, backlog, mirrors, work, channel, shutdown,
                   task_vars, link, moves, history>>

Leave(c) ==
    /\ Ready(c) /\ c \in members
    /\ members' = members \ {c}
    /\ subscribed' = [subscribed EXCEPT ![c] = {}]
    /\ place' = [e \in Entities |-> IF owners[e] = c THEN Gone ELSE place[e]]
    /\ backlog' = [backlog EXCEPT ![c] = 0]
    /\ subscriptions' = [subscriptions EXCEPT ![c] = {}]
    /\ told' = [told EXCEPT ![c] = {}]
    /\ work' = Departures(c)
    /\ UNCHANGED <<known, owners, recipients, channel, shutdown, task_vars, link, moves, cut,
                   overtaken>>

Snapshot(c) ==
    /\ Ready(c) /\ c \in members
    /\ Replies(c, 1, "open")
    /\ UNCHANGED <<core, mirrors, work, shutdown, target, writer, drainer, link, moves, history>>

(* Subscribed, and either spawned and announced to the others, or refused  *)
(* with the subscription left in the core.                                 *)
SubscribeAndSpawn(c, x) ==
    /\ Ready(c) /\ c \in members
    /\ subscribed' = [subscribed EXCEPT ![c] = @ \cup {x}]
    /\ \/ /\ Len(owners) < MaxEntities
          /\ owners' = Append(owners, c)
          /\ place' = Append(place, x)
          /\ work' = <<Entered(Len(owners) + 1, x, {c})>>
          /\ reader' = [reader EXCEPT ![c] = "accepting"]
          /\ target' = [target EXCEPT ![c] = x]
          /\ channel' = channel
       \/ /\ channel' = [channel EXCEPT ![c] = IF HasRoom(c, 1) THEN @ + 1 ELSE @]
          /\ reader' = [reader EXCEPT ![c] = "closing"]
          /\ UNCHANGED <<owners, place, work, target>>
    /\ UNCHANGED <<known, members, backlog, mirrors, shutdown, writer, drainer, link, moves,
                   history>>

(* SubscriptionAccepted, then the arrival of the client's own entity.      *)
Accepted(c) ==
    /\ Idle /\ reader[c] = "accepting"
    /\ Replies(c, 2, "activating")
    /\ UNCHANGED <<core, mirrors, work, shutdown, target, writer, drainer, link, moves, history>>

(* Notifications of the space begin; what is there already is not told.    *)
ActivateSubscription(c) ==
    /\ Idle /\ reader[c] = "activating"
    /\ subscriptions' = [subscriptions EXCEPT ![c] = @ \cup {target[c]}]
    /\ told' = [told EXCEPT ![c] = {p \in @ : p[2] # target[c]}
                                      \cup (Present(target[c]) \X {target[c]})]
    /\ reader' = [reader EXCEPT ![c] = "flushing"]
    /\ target' = [target EXCEPT ![c] = Gone]
    /\ UNCHANGED <<core, recipients, work, channel, shutdown, writer, drainer, link, moves, cut,
                   overtaken>>

Flush(c) ==
    /\ Idle /\ reader[c] = "flushing"
    /\ backlog' = [backlog EXCEPT ![c] = 0]
    /\ Replies(c, backlog[c], "open")
    /\ UNCHANGED <<known, members, subscribed, owners, place, mirrors, work, shutdown, target,
                   writer, drainer, link, moves, history>>

(* The space's messages are purged from the queue and the rest is flushed. *)
Unsubscribe(c, x) ==
    /\ Ready(c)
    /\ subscribed' = [subscribed EXCEPT ![c] = @ \ {x}]
    /\ subscriptions' = [subscriptions EXCEPT ![c] = @ \ {x}]
    /\ told' = [told EXCEPT ![c] = {p \in @ : p[2] # x}]
    /\ backlog' = [backlog EXCEPT ![c] = 0]
    /\ \E kept \in 0..backlog[c] : Replies(c, kept, "open")
    /\ UNCHANGED <<known, members, owners, place, recipients, work, shutdown, target, writer,
                   drainer, link, moves, cut, overtaken>>

TransitionEntity(c, e, x) ==
    /\ Ready(c) /\ moves < MaxMoves
    /\ e \in OwnedBy(c) /\ {place[e], x} \subseteq subscribed[c]
    /\ moves' = moves + 1
    /\ place' = [place EXCEPT ![e] = x]
    /\ work' = <<Left(e, place[e]), Entered(e, x, {})>>
    /\ reader' = [reader EXCEPT ![c] = "flushing"]
    /\ UNCHANGED <<known, members, subscribed, owners, backlog, mirrors, channel, shutdown,
                   target, writer, drainer, link, history>>

(* A reliable event reaches the queue of every subscriber; those that have *)
(* no room are cut off by the core, which the worker does not learn.       *)
Publish(c, x) ==
    /\ Ready(c) /\ x \in subscribed[c]
    /\ LET audience == {d \in known : x \in subscribed[d]}
           slow == {d \in audience : backlog[d] = CriticalCapacity}
           queued == [d \in Connections |->
                        CASE d \in slow -> 0
                          [] d \in audience \ slow -> backlog[d] + 1
                          [] OTHER -> backlog[d]]
       IN /\ known' = known \ slow
          /\ members' = members \ slow
          /\ subscribed' = [d \in Connections |-> IF d \in slow THEN {} ELSE subscribed[d]]
          /\ place' = [e \in Entities |-> IF owners[e] \in slow THEN Gone ELSE place[e]]
          /\ backlog' = [queued EXCEPT ![c] = 0]
          /\ cut' = cut \cup slow
          /\ Replies(c, queued[c], "open")
    /\ UNCHANGED <<owners, mirrors, work, shutdown, target, writer, drainer, link, moves, told,
                   overtaken>>

-----------------------------------------------------------------------------
(* The drain of the outbound queue.  An error of the core is ignored.      *)
Drain(c) ==
    /\ Idle /\ drainer[c] = "running" /\ c \in known /\ backlog[c] > 0
    /\ backlog' = [backlog EXCEPT ![c] = 0]
    /\ IF HasRoom(c, backlog[c])
       THEN /\ channel' = [channel EXCEPT ![c] = @ + backlog[c]]
            /\ UNCHANGED <<shutdown, drainer>>
       ELSE /\ shutdown' = shutdown \cup {c}
            /\ drainer' = [drainer EXCEPT ![c] = "losing"]
            /\ UNCHANGED channel
    /\ UNCHANGED <<known, members, subscribed, owners, place, mirrors, work, reader, target,
                   writer, link, moves, history>>

DrainLoses(c) ==
    /\ Idle /\ drainer[c] = "losing"
    /\ Disconnect(c, <<>>)
    /\ drainer' = [drainer EXCEPT ![c] = "done"]
    /\ UNCHANGED <<channel, shutdown, reader, target, writer, link, moves>>

(* The writer of the reliable stream: write_all ends when the peer's flow  *)
(* control has let all of an envelope pass, which may be never.            *)
Write(c) ==
    /\ writer[c] = "running" /\ channel[c] > 0 /\ link[c]
    /\ channel' = [channel EXCEPT ![c] = @ - 1]
    /\ UNCHANGED <<core, mirrors, work, shutdown, task_vars, link, moves, history>>

(* The stream is broken, or the envelope is too large to encode.           *)
WriteFails(c) ==
    /\ writer[c] = "running" /\ channel[c] > 0 /\ (link[c] => c \in Frail)
    /\ channel' = [channel EXCEPT ![c] = @ - 1]
    /\ shutdown' = shutdown \cup {c}
    /\ writer' = [writer EXCEPT ![c] = "losing"]
    /\ UNCHANGED <<core, mirrors, work, reader, target, drainer, link, moves, history>>

WriterLoses(c) ==
    /\ Idle /\ writer[c] = "losing"
    /\ Disconnect(c, <<>>)
    /\ writer' = [writer EXCEPT ![c] = "done"]
    /\ channel' = [channel EXCEPT ![c] = 0]
    /\ link' = [link EXCEPT ![c] = FALSE]
    /\ UNCHANGED <<shutdown, reader, target, drainer, moves>>

(* The channel ends once nobody can send: the reader and the drain dropped *)
(* their ends and so did the worker.                                       *)
WriterEnds(c) ==
    /\ writer[c] = "running" /\ channel[c] = 0
    /\ reader[c] = "waiting" /\ drainer[c] = "done" /\ c \notin recipients
    /\ writer' = [writer EXCEPT ![c] = "done"]
    /\ UNCHANGED <<core, mirrors, work, channel, shutdown, reader, target, drainer, link, moves,
                   history>>

TeardownLeavingDrain(c) ==
    /\ Idle /\ reader[c] = "closing"
    /\ Disconnect(c, <<>>)
    /\ reader' = [reader EXCEPT ![c] = "waiting"]
    /\ UNCHANGED <<channel, shutdown, target, writer, drainer, link, moves>>

(* The reader's end: the drain is aborted, the connection disconnected and *)
(* the writer awaited; only then the transport connection is closed and    *)
(* its permit returned.                                                    *)
Teardown(c) ==
    /\ Idle /\ reader[c] = "closing"
    /\ Disconnect(c, <<>>)
    /\ reader' = [reader EXCEPT ![c] = "waiting"]
    /\ drainer' = [drainer EXCEPT ![c] = "done"]
    /\ UNCHANGED <<channel, shutdown, target, writer, link, moves>>

Close(c) ==
    /\ reader[c] = "waiting" /\ writer[c] = "done"
    /\ reader' = [reader EXCEPT ![c] = "closed"]
    /\ link' = [link EXCEPT ![c] = FALSE]
    /\ shutdown' = shutdown \ {c}
    /\ UNCHANGED <<core, mirrors, work, channel, target, writer, drainer, moves, history>>

(* The environment: the peer closes, or is given up by the transport.      *)
PeerGone(c) ==
    /\ c \in Frail /\ link[c] /\ reader[c] # "new"
    /\ link' = [link EXCEPT ![c] = FALSE]
    /\ UNCHANGED <<core, mirrors, work, channel, shutdown, task_vars, moves, history>>

-----------------------------------------------------------------------------
LifecycleInit ==
    /\ known = {} /\ members = {}
    /\ subscribed = [c \in Connections |-> {}]
    /\ owners = <<>> /\ place = <<>>
    /\ backlog = [c \in Connections |-> 0]
    /\ recipients = {} /\ subscriptions = [c \in Connections |-> {}]
    /\ work = <<>>
    /\ channel = [c \in Connections |-> 0]
    /\ shutdown = {}
    /\ reader = [c \in Connections |-> "new"]
    /\ target = [c \in Connections |-> Gone]
    /\ writer = [c \in Connections |-> "none"]
    /\ drainer = [c \in Connections |-> "none"]
    /\ link = [c \in Connections |-> TRUE]
    /\ moves = 0
    /\ told = [c \in Connections |-> {}] /\ cut = {} /\ overtaken = {}

ClientRequests(c) ==
    \/ Join(c) \/ Snapshot(c)
    \/ \E x \in Spaces : SubscribeAndSpawn(c, x)
    \/ /\ c \in Actors
       /\ \/ Leave(c)
          \/ \E x \in Spaces : Unsubscribe(c, x) \/ Publish(c, x)
          \/ \E e \in Entities, x \in Spaces : TransitionEntity(c, e, x)

(* What a connection's tasks do once they are at it.                       *)
Ends(c) == Interrupted(c) \/ Teardown(c) \/ Close(c)
Continues(c) == Accepted(c) \/ ActivateSubscription(c) \/ Flush(c)
ReaderGoesOn(c) == AcceptFails(c) \/ RegisterLifecycle(c) \/ Ends(c) \/ Continues(c)
WriterStops(c) == (~link[c] /\ WriteFails(c)) \/ WriterLoses(c) \/ WriterEnds(c)
Writes(c) == Write(c) \/ WriteFails(c) \/ WriterStops(c)
Drains(c) == Drain(c) \/ DrainLoses(c)

LifecycleNext ==
    \/ FanOut \/ CleanupDead
    \/ \E c \in Connections :
          \/ Connect(c) \/ AcceptFails(c) \/ RegisterLifecycle(c)
          \/ Hello(c) \/ Authenticate(c) \/ Refuse(c) \/ ClientRequests(c)
          \/ Ends(c) \/ Continues(c) \/ Writes(c) \/ Drains(c)
          \/ PeerGone(c)

LifecycleSpec == LifecycleInit /\ [][LifecycleNext]_lifecycle_vars

(* The worker goes on while it has work, an accepted connection opens its  *)
(* stream or is timed out, and no task stops halfway; but nothing makes a  *)
(* peer with a live link read what is written to it.                       *)
Fairness ==
    /\ WF_lifecycle_vars(FanOut \/ CleanupDead)
    /\ \A c \in Connections :
          /\ WF_lifecycle_vars(ReaderGoesOn(c)) /\ WF_lifecycle_vars(WriterStops(c))

LifecycleFairSpec == LifecycleSpec /\ Fairness
-----------------------------------------------------------------------------
TypeOK ==
    /\ known \subseteq Connections /\ members \subseteq known
    /\ subscribed \in [Connections -> SUBSET Spaces]
    /\ owners \in Seq(Connections) /\ DOMAIN place = DOMAIN owners
    /\ \A e \in Entities : place[e] \in Spaces \cup {Gone}
    /\ backlog \in [Connections -> 0..CriticalCapacity]
    /\ recipients \subseteq Connections
    /\ subscriptions \in [Connections -> SUBSET Spaces]
    /\ channel \in [Connections -> 0..WriteCapacity]
    /\ shutdown \subseteq Connections
    /\ reader \in [Connections -> Serving \cup {"new", "accepted", "accepting", "activating",
                                   "flushing", "closing", "waiting", "closed"}]
    /\ target \in [Connections -> Spaces \cup {Gone}]
    /\ writer \in [Connections -> {"none", "running", "losing", "done"}]
    /\ drainer \in [Connections -> {"none", "running", "losing", "done"}]
    /\ link \in [Connections -> BOOLEAN]
    /\ cut \subseteq Connections /\ overtaken \subseteq Entities

(* The mirrors of the worker follow the core through every interleaving of *)
(* requests, fan-outs and losses: whoever the core serves is registered,   *)
(* whoever is registered and unknown to the core was cut off by it, a      *)
(* client between two requests is subscribed in the mirror as in the core, *)
(* and nothing of a connection past its teardown is left in the core.      *)
MirrorsAgree ==
    /\ TypeOK
    /\ \A c \in known : reader[c] \notin {"new", "accepted"} => c \in recipients
    /\ recipients \subseteq known \cup cut
    /\ \A c \in known : reader[c] = "open" => subscribed[c] = subscriptions[c]
    /\ \A c \in Connections : reader[c] \in {"waiting", "closed"} => c \notin known

(* Between requests every active subscriber was told of every entity of    *)
(* others that came while its subscription was active.                     *)
ArrivalsAnnounced ==
    Idle => \A c \in recipients : \A x \in subscriptions[c] : \A e \in Present(x) :
                owners[e] = c \/ <<e, x>> \in told[c]

(* Between requests no active subscriber believes in an entity that left,  *)
(* but for those the core removed with a connection it cut off and those   *)
(* that were gone when their arrival was announced.                        *)
DeparturesAnnounced ==
    Idle => \A c \in recipients : \A p \in told[c] :
                p[2] \in subscriptions[c] =>
                    place[p[1]] = p[2] \/ owners[p[1]] \in cut \/ p[1] \in overtaken

(* The same for every entity whose owner was not cut off by the core:      *)
(* transitions "emit ordered leave/enter events", so an entity that is     *)
(* gone is not announced any more.                                         *)
NoGhosts ==
    Idle => \A c \in recipients : \A p \in told[c] :
                p[2] \in subscriptions[c] => place[p[1]] = p[2] \/ owners[p[1]] \in cut

(* A connection that broke is closed in the end and returns its permit,    *)
(* whatever order its tasks end in, unless the core had cut it off.  So is *)
(* one that was told to shut down, if its peer goes on reading while it is *)
(* connected: the reader waits for the writer, the writer for the peer.    *)
(* Of a peer that is gone nothing is asked, since the link stays down.     *)
PeerReads(c) == WF_lifecycle_vars(link[c] /\ Write(c))

ClosedUnlessCutOff ==
    \A c \in Connections :
        PeerReads(c) =>
            (reader[c] # "new" /\ (~link[c] \/ c \in shutdown)
                ~> reader[c] = "closed" \/ c \in cut)

(* The same of whoever was told to shut down, whether it reads or not.     *)
ClosedWhoeverReads ==
    \A c \in Connections :
        reader[c] # "new" /\ c \in shutdown ~> reader[c] = "closed" \/ c \in cut

(* The same of all who read, those the core had cut off included.          *)
ClosedInTheEnd ==
    \A c \in Connections :
        PeerReads(c) =>
            (reader[c] # "new" /\ (~link[c] \/ c \in shutdown) ~> reader[c] = "closed")
=============================================================================
