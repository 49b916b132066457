# Signalweave in TLA+

Signalweave (`crates/woven-*`) is a relay for shared, persistent worlds: clients
connect over QUIC or WebTransport, join a session, subscribe to spaces, own entities and
publish state that the server authorises, sequences, stores and fans out through bounded
queues. This directory models the parts whose correctness lives in the order of events or
at the edge of a number: the outbound queue, the admission controller, the session core and
its spatial routing, the transport worker with the tasks of its connections, framing, the
envelopes and the conversation they make, usage windows, and the inference plane. TLC
checks the models on small instances; TLAPS proves the safety of the queue, the controller
and its binding in the core, the session core, the spatial routing, the worker and the tasks
of its connections, the codec, the conversation, the accounting and the inference plane for
every instance.

Each module says at its head which file it models, and `PROJECT.json` ("map") names the
lines behind every definition.

## 1. Inventory

| component (source) | state | operations | hard behaviour | what makes it correct |
|---|---|---|---|---|
| Outbound queue (`woven-core/src/queue.rs`) | critical and best-effort deques, latest values with their order, `exhausted` | push by delivery class, pop, drain, purge | coalescing, eviction and purging touch two views of the same data; capacity by class and in total | bounded; views in step; newest value per key; reliable messages in order, never dropped silently |
| Admission controller (`admission.rs`) | allocation, pending target, tickets, waiting line, leases, reservations | join, poll, heartbeat, cancel, claim, release, resume, capacity update | everything expires lazily, at the next call; slots held by admissions, offers and reservations; revisions out of order | never above the allocation; first come first served; a promise is kept until its time; a slot is released once |
| Admission endpoints (`woven-server/src/admission.rs`) | the controller under a lock | one call per request | duplicated and late requests | as above |
| Session core (`core.rs`) | connections, channels, sessions: members, spaces, tombstones, subscribers, entities, sequences, state | some twenty calls by connections and by the deployment | cascading removals, redundant views, slow consumers cut off during a fan-out, epochs | views agree, nothing dangles, nothing is kept or delivered about what is gone |
| Authority (`authority.rs`) | none | accept, reject, transform, emit | a batch validated and committed together | all or nothing, sequences used once |
| Journal outbox (`journal.rs`) | bounded deque | push, pop | back-pressure on publish | nothing durable is accepted that does not fit |
| Core admission binding (`core.rs`) | pending and bound leases | request, join with lease, release | repeated requests, lost connections | every lease is owned and released once |
| Spatial routing (`core.rs`) | cell of each entity, entities of each cell | position update, and whatever moves or removes an entity | two indexes kept by hand; cells compared before distances | indexes agree; the radius decides who hears |
| Worker and lifecycle fan-out (`woven-transport/src/lib.rs`) | recipients and subscriptions, mirrors of the core | commands, subscribe-and-spawn, activate, broadcast, direct send | mirrors against the core; disconnects while fanning out; tasks that end independently | mirrors agree with the core; who sees an entity enter sees it leave |
| QUIC and WebTransport (`woven-transport-quic/src`) | connection tasks, bounded writer channels | read, write, periodic drain | tasks racing with loss of the connection; futures dropped half-way | the worker hears of every loss; frames come out whole |
| Protocol (`woven-protocol/src`) | none | encode, decode, classify | malformed input | round trip, one class per kind |
| Usage (`usage.rs`) | atomic counters, windows, spool | count, snapshot and reset, append with retry | windows while connections start and end; retryable failures | nothing counted twice; every window is delivered or has one of the ends the code gives it |
| Inference (`woven-inference-*`) | request slots, tool revision | accept, run, propose and evaluate a tool call | deadline, revision read across an await | bounded, no effect from a stale proposal, one outcome per request |
| Clients (`woven-client-rust`, `woven-client-ts`) | read buffer, calls in progress | build, send, receive with a timeout | abandoned calls | what they send is what the server understands |
| Server, load test | configuration and wiring | start | | left to tests |

How they interact: transports turn frames into commands on a bounded channel to one worker
task, which owns the core. The core is synchronous, so a call is one step; interleaving is
the order in which the tasks' commands arrive. `publish` pushes into the outbound queues of
the recipients, and drain tasks empty them towards the sockets. The admission controller is
reached both by HTTP handlers, under a lock, and by the core. Time enters only through the
`now` argument of calls.

## 2. Modules

| module | models | extends |
|---|---|---|
| `VecOps` | `VecDeque::retain`, draining from the front, the sum over a map | |
| `OutboundQueueOps` | the queue as operators on a record | `VecOps` |
| `OutboundQueue` | one queue fed by its publishers and drained by its connection | `OutboundQueueOps` |
| `OutboundPromise` | what a connection is promised, without the data structures | `VecOps` |
| `AdmissionOps` | the controller as operators on a record | `VecOps` |
| `Admission` | the controller under its callers and the clock | `AdmissionOps` |
| `AdmissionCore` | the controller in the core: leases pending, bound to memberships, released | `Admission` |
| `SessionOps` | a session's graph: connections, spaces, entities, cascades | `OutboundQueueOps` |
| `PublishOps` | `publish_at`: validation, authority, commit, fan-out | `SessionOps` |
| `SessionCore` | every call of the core on one session | `PublishOps` |
| `Interest` | positions, the cell indexes and who gets a replaceable message | |
| `Lifecycle` | the worker, its mirrors and notifications, and the tasks of each connection | `VecOps` |
| `Framing` | one control stream, as five implementations read it | |
| `Envelopes` | the fields and rules of every kind of envelope, encoding and decoding | |
| `EnvelopeBuilders` | the envelopes clients and server build | `Envelopes` |
| `Exchange` | a connection's conversation: handshake, dispatch, answers, and the four tasks that write to its channel | `EnvelopeBuilders` |
| `Usage` | counters, the aggregator that cuts windows, the spool that exports them | `VecOps` |
| `Inference` | the coordinator and the tool gateway | |
| `VecOpsProofs` | lemmas about filtered sequences and sums | `VecOps` |
| `SessionCoreProofs` | lemmas and theorems | `SessionCore`, `OutboundQueueProofs` |
| `OutboundQueueProofs`, `InterestProofs`, `ExchangeProofs`, `UsageProofs` | lemmas and theorems | the module they are named for |
| `TaskProofs` | lemmas and theorems about `Inference` and `Lifecycle`, whose tasks meet at channels | both |
| `AdmissionProofs` | lemmas and theorems about `Admission` and `AdmissionCore` | `AdmissionCore` |
| `MC...` | symmetry and definitions for TLC, for the modules that need them | the module they are named for |

**Operators and actions.** The `...Ops` modules translate a struct as a record and each
method as an operator from record to record, so that one component can be used inside
another: the session core holds one `OutboundQueueOps` record per connection. The
specification module next to it has one action per call. A refused call returns an error
and leaves the state alone; it is the absence of a step, its condition the guard (`Can...`).

**Outbound queue.** `latest`/`latest_order` are kept as the two views the code keeps. The
message is reduced to scope, key, class and a stamp that tells values apart. `exhausted`
remembers that a critical message was refused, which the code returns to its caller, who
disconnects.

**Admission.** Timers are ages: a waiting ticket's time since its last heartbeat, an
offer's and a reservation's time left; `Tick` lets a unit pass. Expiry happens where the code
does it, at the head of a call, never by itself. The client token of a reservation and
the idempotency key are model values; metrics are left out.

**Admission in the core.** `pending` and `bound` are `pending_admissions` and
`admission_leases` of one session, a lease being its id. The core calls request, release and
capacity update only, so a ticket offered a slot is never claimed through it; its offer
expires and a later request is admitted. The core's controller and the one of the HTTP
endpoints are separate instances in the code, hence separate specifications here. What a
departure does to subscriptions and entities is in `SessionCore`.

**Session core.** One session; its `BTreeMap`s are functions, its sets sets. Payloads are
sizes, grants the sets `Writers` and `Listeners`; every authenticated connection may read
and join. All spaces route to all their subscribers; routing by positions is `Interest`'s
subject. A policy other than `RelayOwned` is free to accept, transform or emit whatever
passes validation. A coalesce key is its component, 0 standing for none, as in
`sequence_key`. The fixed point that `remove_entities_and_anchored_spaces` iterates to is
stated as the least set closed under its rule. The loops over a batch of messages, which store
them (`Stored`) and hand them to a recipient (`Deliver`), are functions of how many of them have
been taken.

**Interest.** `entity_cells` and `cell_entities` are kept apart, as the code keeps them, and
updated by each call that moves or removes an entity; an empty set in the second map is the
absence of its pairs. Coordinates, the cell size and the radius are whole numbers of a unit
that may be as small as one likes; `grid_coordinate` is the flooring division, and the
comparison of a distance in cells with `interest_radius / cell_size` is multiplied out.

**Lifecycle.** The worker takes one command at a time; the fan-out of a command is a stack
of work (`work`), as the recursion through `cleanup_dead_connection` makes it, that runs to
its end before the next command while writers go on. Of the core it keeps who is known, a
member and subscribed, where entities are, and how many reliable messages wait for each
connection. Reader, writer and drain task have a state each, and end in any order.

**Framing.** Bytes are counted, not stored. `held` are the bytes inside the future that reads
a frame (or in the browser's buffer). The select of a server drops the future
(`DatagramWins...`), the Rust client's timeout drops it (`RecvTimeout`), the browser's
timeout leaves its read running (`RecvTimeoutBrowser`).

**Envelopes and Exchange.** A string or a byte vector is its length, an id that may be
missing is a set of at most one number. `Encodable` is what `validate_outgoing` and the
builders of the codec refuse, `Decodable` what the decoder refuses; they are two lists in
the code and in the model. `Exchange` sends what either client can build (the TypeScript
client without validation), lets the core accept or refuse each command, and hands the
answers to the writer, which gives the connection up over one it cannot encode. The writer's
channel has four sources: the connection task, the worker's fan-out (`LifecycleTells`), the
drain task (`TakeOutbound`, `DrainNext`, which also sends the datagrams) and the coordinator
(`CoordinatorReplies`); the last three go on after an error until the connection task has
disconnected the connection (`Disconnect`). A snapshot may have any size, a channel policy
may make any message the core accepts (`IsMessage`), and a provider may say anything its
types can hold. A datagram that arrives at the server is served like a frame if it decodes and
the connection is authenticated, and dropped otherwise, so it has no action of its own;
datagrams that arrive at a client are read by none of them. Room in the channel is
`Lifecycle`'s subject.

**Usage.** The clock advances by a fraction of a second, so that truncation occurs. A tick
of the aggregator is three steps, because counters and connections are read one after the
other while other threads go on; `append` of the spool is a step per await. The inner sink
stores, refuses for good or fails for now, each failure with the window in or not
(`StoredOrNot`, as `flush` of the JSONL sink may fail after the line was written); a spool
may have capacity 0. Histories tell how a window ended: delivered, dropped by a full queue
(`overrun`), refused, or given up when its retry failed (`abandoned`).

**Inference.** Each step ends at an await. `identity` is how far `establish_identity` got, or
that the core cut the AI off; the provider is external and returns any of `Scripts`, each a
sequence of replies and tool calls that ends with completion or failure, as the comment on
`InferenceEvent` asks of a provider.

## 3. Runs

| run | question | bounds | states |
|---|---|---|---|
| `outbound_queue` | capacities, views in step, newest value pending, evictions of the least recently refreshed and no needless refusal, refinement of the promise | 3 places of which up to 3 critical, 2 latest and 1 best-effort, 2 scopes, 2 keys, 5 pushes | 916,004 |
| `admission` | nine safety and action properties under all callers | 3 tickets, 2 leases, allocations 0 to 2, 3 revisions, 2 principals, 2 keys, timers of 1 or 2 units | 235,001 |
| `admission_liveness` | promises end, targets land | 1 ticket, 2 leases, 2 revisions after the first | 4,769 |
| `admission_binding` | leases pending and bound in the core agree with the controller, within the allocation, and a lease is in use exactly while it is held, but for those overwritten | 3 connections of which 2 at a time, 2 principals, 2 tickets, 3 leases, allocations 0 to 2 | 280,507 |
| `session_graph` | views agree, nothing dangles, epochs advance | 3 spaces, 2 connections, 2 entities, 2 epochs | 184,882 |
| `publication` | nothing queued or stored about what is gone, no slow consumer stays | 2 spaces, 2 connections, 2 channels, 2 entity ids, 2 sequences, 1 critical place | 92,612 |
| `authority` | batches by a policy: exact byte count, a record journaled once in a stay | 1 space, 2 connections, batches of up to 2, 2 sequences, 2 journal places | 66,579 |
| `lifecycle` | mirrors follow the core, arrivals and departures announced, connections closed that broke or whose peer reads on | 2 connections, 1 space, 2 entities, 1 move, writer channels of 2, 1 critical place | 718,635 |
| `usage` | increments and seconds conserved over windows, export in order and every window accounted for | 6 ticks of half a second, 2 connections, 2 increments, pending and spool of 2 | 8,622,083 |
| `inference` | one effect per revision, one outcome per request, every request ends | 3 requests, 2 permits, a sink of 2, scripts of up to 3 events | 719,804 |
| `exchange` | what the writer may fail over, answers arrive intact, handshake first and nothing served after an error | 3 requests out of 16 sound and unsound ones and 2 notices of others, either client, payloads of up to 3 bytes, listings of 0 and 4 | 1,074,595 |
| `torn_frame` | violated: `Reliable` | 3 frames of 3 to 5 bytes, one reader | |

Configurations that are run by hand, because they repeat a question on another instance or
show something listed in section 6: `Interest.cfg` (28,224 states: the indexes agree, nobody
near is cut off, nobody far is reached, with a radius of one cell), `NearCutOff.cfg` (the same
with half a cell, violated), `Framing.cfg` (5,241 states: all five readers, `Accounted` and
`InOrder`), and the violated `LeaseAfterLoss.cfg`, `AnchorLeavesParent.cfg`,
`SequencesAfterReturn.cfg`, `SlowConsumerLeak.cfg`, `StalledPeer.cfg`, `OvertakenArrival.cfg`,
`CutOffByCore.cfg` and `WindowsDiscarded.cfg`.

Why these bounds are enough to be interesting: in the queue a third place lets one class
fill the total while another still has room, so each rung of the eviction ladder is taken.
Three tickets over two slots give a waiter behind a waiter, so expiry and cancellation in the
middle of the line occur. Three spaces make an anchored chain two deep, which the fixed point
needs a second round for (the one-round mutant is caught). One critical place makes
every second undrained reliable message a slow consumer. In the lifecycle one connection
acts and the other fails, so every pairing of a fan-out with a loss occurs, and with one
critical place the core can cut either off in the middle of one. Windows of two half-second
ticks have connections that start and end between the two reads of a snapshot, and three of
them put one window in each place of the export. Three requests over two permits with a sink
of two make a request wait, another be refused and two race for the same revision, and the
third script goes on to the next one. Three requests are the handshake and
one more of every kind, with two notices of others before, between or after them, so that
fan-out, drain and coordinator write before and after the error that ends it; payloads of
three bytes are enough for a sum to exceed what its parts do not, and a listing of four
exceeds a payload.

No run checks deadlock: every environment is bounded by its counters, and the systems may
stop when these are used up.

**Fairness.** Weak fairness only, each for a reason in the code. `AdmissionLiveness.cfg`:
time passes (`Tick`) and somebody polls (`QueueStatus`), since the endpoint asks clients to
poll every three seconds and no task of the server does so in their place; without a poll
nothing expires, which is what the code does. `Lifecycle.cfg`: the worker goes on with the
fan-out it is in; an accepted connection opens its stream or runs into the handshake timeout;
a reader that has an end to reach or is between two awaits (`ReaderGoesOn`) and a writer whose
link is gone or whose senders are all dropped (`WriterStops`) go on, as the runtime polls
every ready task. A writer with something to write and a live link owes nothing: `write_all`
waits for the peer's flow control for as long as the peer likes. That a peer reads while it is
connected is therefore a hypothesis inside `ClosedUnlessCutOff` (`PeerReads`), which asks
nothing once the link is down;
`StalledPeer.cfg` shows what happens without. Peers and the periodic drain owe nothing.
`Inference.cfg`: the loop takes what is in the sink, and a request's task goes on; this
includes that a provider returns, which `run_inference` awaits without a limit.

## 4. Properties

Queue: `Bounded`, `LatestSynchronised` (the `expect` in `push_latest` cannot fail),
`PendingIsNewest`, `OldestGivesWay` (an action property: a value that a push evicts was
refreshed less recently than all others pending, and a reliable message is taken while its
line has room), and the refinement `PromiseSpec`: reliable
messages arrive in order, once, until the connection is told it has lost one; of
replaceable ones the newest; the rest at most once.

Admission: `WithinAllocation`, `WorkConserving` (no free slot while somebody waits),
`QueueViewsAgree`, `FirstComeFirstServed`, `OnePlacePerPrincipal`, `SlotCountedOnce`,
`PromisesKept` (an offer or a reservation is not withdrawn before its time),
`ReleasedForGood`, `DrainsToTarget`; `PromisesEnd` and `TargetApplied` under fairness.

Admission in the core: `HeldLeasesInUse` (a lease pending or bound is in use by that
connection's principal, and held once), `MembersWithinAllocation`, `LeasesAccountedFor` (a lease
is in use exactly as long as a present connection holds it, pending or bound, so whoever leaves
or is lost gives back all that is recorded for it; the leases overwritten by a second request
are the only others, see section 6).

Session: `ViewsAgree` (with the types), `NothingDangles`, `EpochsAdvance` (an epoch is never
lowered or forgotten, and grows with every installation and with every advance that leaves
the space installed), `QueuedInScope` (and no connection stays that missed a reliable message),
`StoredInScope`, `JournaledOnce` (a journaled record was ahead of all its publisher sent
under its key and uses up its sequence, which stays used up while the publisher is a member
and the record in scope; a rejoin, or a move away and back, starts anew).

Spatial routing: `IndexesAgree`; `NobodyFarIsReached` and `NobodyNearIsCutOff` compare
the recipients with `Neighbours`, which knows distances and no cells.

Lifecycle: `MirrorsAgree` (who the core serves is registered; who is registered and unknown
to the core was cut off by it; subscriptions agree between two requests of a client; nothing
is left in the core of a connection that was torn down), `ArrivalsAnnounced`,
`DeparturesAnnounced`, and under fairness `ClosedUnlessCutOff`: a connection whose link is gone
is closed in the end, and one that was told to shut down is if its peer goes on reading,
unless the core cut it off. What happens between the commands of one request is outside the
first two: a notification between subscribing and activating is missed, and a subscription
outlives the spawn that failed until the connection is torn down.

Framing: `Accounted` and `InOrder` say what holds with and without dropped futures,
`Reliable` what does not hold.

Exchange: `FailsOnlyUnchecked` (the writer gives its connection up only over a listing larger
than a payload, a policy's message the wire has no form for, or a provider's reply that
breaks the rules of its kind), `AnswersArriveIntact` (frames and datagrams), `HandshakeFirst`
(also: after an error no request is answered, though what others have may still come).

Usage: `EventsConserved`; `SecondsAccounted`, which states how far truncation may go and
what is charged to connections before they start; `ExportedInOrder`: the sink sees windows
in order, and a window that nothing holds was delivered, dropped by a full queue, refused by
the sink for good, or given up when its retry failed. The last are not counted anywhere:
the spool holds one window at most, so it neither overflows nor counts a drop unless its
capacity is 0 (section 6).

Inference: `OneEffectPerRevision` (two calls may pass the revision check, and the core's
sequence lets one of them publish; the tool's revision is that sequence, or one behind it
while the call that published is still to store the next), `OneOutcome`, and under fairness `EveryRequestEnds`.

## 5. Proofs

`OutboundQueueProofs` proves, for every valid configuration, every finite or infinite set
of scopes and keys and every number of messages:

- `QueueTypeOK`, `QueueBounded`, `QueueLatestSynchronised`, `QueuePendingIsNewest`, all
  from `QueueInvariant`, and the action property `QueueOldestGivesWay` with one more conjunct;
- `QueuePromise`: the queue implements `OutboundPromise`.

The assumptions are `QueueConfigAssumption`, which is `OutboundQueueConfig::validate`, and
the typing of the specification's constants. None of the four properties is inductive alone.
`Bounded` needs the order to list each key once, or an eviction would not free a place;
`PendingIsNewest` needs that every stamp in the queue has been issued, that the
order names exactly the pending keys and that a value is stored under its own key. Their
conjunction is the invariant; its preservation has one step per action, and for `push` one
lemma per delivery class. `OldestGivesWay` needs that the stamps of what is pending rise
along the order (`Rising`), which `retain`, popping and appending each preserve, so that the
value at its front, the one evicted, has the least; and that the evictions of a push always
make room for a reliable message whose own line is not full. For the
refinement every call is shown to be a step of the promise: a push adds one message and takes
away what makes room for it, a pop or a drain hands over, a purge drops.

The queue is filtered by `retain`, a fold in the code. `VecOps` defines the result by the
positions that are kept, which needs no induction: `RankProperties`, `RetainedPositions` and
`RetainedProperties` show from it that the filtered sequence has exactly the elements of the
set, without new duplicates, and is no longer than before.

Sums (`Total`, in `VecOps`) count units instead of adding terms one by one, so that what a
sum does when a term is added, removed or changed is a fact about cardinalities
(`TotalMore`, `TotalSplit`, `TotalPlus`, `TotalLinear`), again without induction.

`AdmissionProofs`, for every set of principals, keys and allocations and all limits and timeouts (`PolicyAssumption`, `AdmissionUseAssumption`), with
no bound on leases, tickets or revisions but the constants: `WithinAllocationTheorem`,
`SlotCountedOnceTheorem`, `OnePlacePerPrincipalTheorem`, `ReleasedForGoodTheorem`,
`PromisesKeptTheorem`, `DrainsToTargetTheorem`, `QueueViewsAgreeTheorem`,
`WorkConservingTheorem` and `FirstComeFirstServedTheorem`: every safety and action property
of the run. The first invariant, `Sound`, is types, budget, leases counted once and one
place per principal; each operation is shown to preserve it together with what it may do to
leases, offers and reservations, so that the action properties follow from the same lemmas.
The hard step is promotion, a loop in the code: `PopCountFacts` describes where it stops as
the least number of pops after which no slot is free or nobody is left, which needs no
induction over the line (only that a set of naturals has a least element). `OccupiedBounded`
counts slots by inclusion of finite sets. The second invariant, `Served`, adds that the line
is exactly the waiting tickets in the order of issue, that offers precede whoever waits,
that the index holds exactly the live tickets by key (so that dropping a key drops no other
ticket), and that nobody waits while a slot is free; the last holds only at the end of an
operation, since an expiry frees slots before it promotes.

On top of `Sound` the same module proves the binding in the core, for every set of
connections: `HeldLeasesInUseTheorem`, `MembersWithinAllocationTheorem` and
`LeasesAccountedForTheorem`. The invariant, `CoreInv`, is `HeldLeasesInUse` and a sound
controller; each call is taken apart into what it does to the leases in use (nothing, a release,
a grant) and to the two maps of leases, and the controller's side comes from the lemmas of
`Admission`. `MembersWithinAllocation` follows by counting: distinct members hold distinct leases
in use.

`SessionCoreProofs`, for every number of connections, spaces and entities and every limit:
`SessionTypeOK`, `SessionViewsAgree`, `SessionNothingDangles` and the action property
`SessionEpochsAdvance`, from `SessionWhole`, and `SessionQueuedInScope`, `SessionStoredInScope`
and the action property `SessionJournaledOnce`, from `SessionOrderly`. The first invariant, `Whole`, has four parts: the type of
every field, the agreement of what is kept on both sides (`Mutual`), that whatever is pointed at
exists (`Rooted`), and the capacities. None holds alone: a cascade leaves nothing hanging because
the spaces that fall are closed under anchoring (`FallingClosed`), and counts what an owner loses
correctly because owners are connected and views agree. Every removal goes through one lemma
about the cascade (`Removing`, `RemovalWhole`), every departure through one about parting
(`PartedWhole`), which serves leaving, losing a connection and being cut off as a slow consumer.

The second invariant, `Orderly`, is about what is held of the graph: every queue is healthy (the
queue's own invariant of `OutboundQueueProofs`, within its bounds, nothing reliable lost) and
everything in it is in scope and of a space its owner subscribes to; state and sequences are in
scope, and `state_bytes` is the sum over the state. It is preserved for four reasons, one lemma
each. A call that only adds to the graph takes nothing out of scope (`GentleKeeps`). A call that
removes also drops all that it takes out of scope (`ClearedServed`, `ClearedKeeping`), with
`RemovalScope` for the cascade. A departure empties what only the leaver had (`DetachKeeps`,
`DisconnectKeeps`). A publication commits only what has been validated, and cuts off whoever
could not take it: in the middle of the step there are connections whose queue is not healthy,
hence `Served` is stated but for some connections, and losing them restores it. For
`JournaledOnce` the same lemmas also show that no sequence is forgotten or lowered while its
scope and its publisher stay (`Remembers`), so what a commit has used up (`LastSequencesHold`) is still used
up after the slow consumers have gone. Loops over a batch are shown to keep what they keep by the
least prefix that would not (`HealthyDelivered`, `StoredTallied`). The one assumption on the
constants that `Orderly` adds is that no entity's id is None (`OptionAssumption`).

`InterestProofs`, for every grid, any set of positions and any number of entities, under
`GridAssumption` (a positive cell size, two or three dimensions, positions on the axes):
`IndexesAgreeTheorem`, `NobodyFarIsReachedTheorem`, and `NobodyNearIsCutOffTheorem` for a
radius that is a whole number of cells. `WholeRadiusIsNeeded` shows that this is not an
accident: with any other radius there are two positions within it whose cells are not near.
The inductive invariant is the types, the second index as the inverse of the first, and each
entity in the cell of its position; the routing theorems follow from it by `NearCells`, the
only place where arithmetic is needed: a component of a distance is no longer than the
distance, and a difference of at most k cell lengths spans at most k cells.

`ExchangeProofs`, for every client, every payload limit of at least two and whatever the core,
policies and providers say: `RoundTrip`, what encodes decodes to itself; `OutboundGood` and
`OutboundRefused`, the messages of the core that the wire has a form for become envelopes the
codec takes, and exactly those; `RelayedGood`, a publication the server decoded is one of them;
`DecodedIsReceived`; and on top of them `FailsOnlyUncheckedTheorem`,
`AnswersArriveIntactTheorem` and `HandshakeFirstTheorem`. The inductive invariant says that
every frame under way to the server is the encoding of some envelope, that what was decoded obeys the
rules of an outgoing envelope up to one sum of lengths, that every message queued for the
connection is one the core accepts, and that everything the writer holds is an envelope that
can be encoded or is one of the three unchecked kinds. `HandshakeFirst` needs how many answers
each stage of the handshake has produced (`Staged`), counting those the writer still holds,
and that the drain task has nothing in hand, and the others nothing to say, before the
connection is authenticated. `ExchangeAssumption` types the constants and assumes nothing
about sizes, policies or providers.

`TaskProofs` for the inference plane, for any finite set of requests, any capacities and any provider that keeps
its contract (`ProviderAssumption`): `OneEffectPerRevisionTheorem`, `OneOutcomeTheorem` and
`PermitsAccountedTheorem`. None is inductive alone. The first needs that the core's sequence
equals the revision, or is one ahead while exactly one call, which read that revision, is about
to store (before the first publication there is no sequence); the second that
a requester's story is open as long as its task has events and closed when it has none,
and that the sink lists each waiting request once; the third uses the latter too.

`UsageProofs`, for every clock rate, window length, queue and spool capacity and any number of
connections, increments and ticks: `EventsConservedTheorem`, `SecondsAccountedTheorem` and
`ExportedInOrderTheorem`, from `UsageInvariant`. It has three parts that do not need each other.
`Counted` says that increments are carried from one read of a tick to the next only. `Tallied`
says that what truncation has cost leaves room for what it may still cost the running
connections, one or two fractions of a second each; a window that is cut charges all of them at
once, which `SnapshotSums` splits into the sums before and after. `Placed` gives every window a
station, from the counters to the sink, with its numbers below those of the stations behind it,
or one of three ends; each step of the export moves, adds or removes numbers of a few
stations. That the spool holds one window at most is part of it: `append` empties the spool
before it pushes to it.

`TaskProofs` for the lifecycle, for any connections (numbered from one, as the core numbers
them) and spaces, any capacities and any bounds: `MirrorsAgreeTheorem`,
`ArrivalsAnnouncedTheorem` and `DeparturesAnnouncedTheorem`, from `LifecycleWhole`. The three
properties speak of moments at which the worker is idle or a client between two requests; the
invariant, `LifecycleInvariant`, has to say what holds in the middle of a fan-out, whose steps
may bring connections down and thereby put more work in front of the rest. Beside types it
has three parts:

- `Stages`: what core and mirrors hold of a connection at each point of its reader's
  way, and that notifications go only to who is registered or was cut off by the core;
- `Valids`: each item of `work` is still true. An arrival still to be announced is of an entity
  that is there, or whose owner was cut off, or whose departure overtook it; a departure is of
  an entity that is elsewhere, or whose arrival is announced further on; a clean-up is of a
  connection that was registered;
- `News`: every recipient has been told what it should know, or the rest of the
  fan-out tells it, or drops it.

`News` is what an idle worker turns into the two properties, since nothing is left to be told
then (`IdleNews`). It survives a step of the fan-out because whoever misses a notification
is dropped by an item put in front of the rest (`FanOutNews`), and it survives
a loss because the departures of the lost connection's entities are put there too
(`ValidsOfLoss`, `NewsOfLoss`, `DisconnectNews`). The exceptions that `DeparturesAnnounced` names
are those of section 6, items 5 and 6.

Only model-checked: liveness under fairness (`PromisesEnd`, `TargetApplied`,
`ClosedUnlessCutOff`, `EveryRequestEnds`), which is outside what TLAPS proves here, as are
`ENABLED` and induction over recursive definitions, and `Framing`, whose properties are run by
hand but for the violated one.

## 6. Where code and documents disagree

Shown by a configuration:

1. A datagram that arrives while a server has read part of a control frame drops the future
   with those bytes, and what follows is misread (`torn_frame`; `woven-transport-quic`
   `lib.rs:197`); ADR 0002 gives control messages, events and snapshots to reliability.
   Two drops may even lose a frame without an error.
2. `transition_entity` lets the anchor of a space leave the parent space
   (`AnchorLeavesParent.cfg`); ADR 0004 anchors a space "to an entity in a parent space" and
   `install_space` insists on it. With the anchor inside its own child,
   `advance_space_epoch` of the child removes it and returns an error.
3. A second admission request on a connection replaces its pending lease without releasing it
   (`LeaseAfterLoss.cfg`): when the connection is lost the first lease stays in use for good.
   A test of the repository is named
   `transport_loss_releases_an_unjoined_admission_lease`, and the documentation says "Leases
   are released exactly once".
4. After a transition away and back within one epoch the sequences of an entity start again
   (`SequencesAfterReturn.cfg`); ADR 0007 says `RelayOwned` enforces sequence monotonicity.
5. A connection that the core cut off as a slow consumer is unknown to its drain task, which
   ends without a word: transport connection, registration and permit stay until the
   peer goes, and its entities are not announced as gone (`SlowConsumerLeak.cfg`);
   `docs/bootstrap.md:639` has "disconnect always removes or expires presence". A connection
   that was told to shut down while its peer has stopped reading is not closed either: the
   connection task awaits the writer before it closes, and the writer awaits the peer's flow
   control (`StalledPeer.cfg`; `woven-transport-quic` `lib.rs:263` and `:360`).
6. An entity that moves is announced to source and destination one after the other; when the
   first fan-out brings its owner down, its departure from the destination is announced
   before its arrival (`OvertakenArrival.cfg`); `README.md:12` has ordered leave and enter
   events.
7. A neighbour within the interest radius is cut off by the cells unless the radius is a
   whole number of them (`NearCutOff.cfg`, `WholeRadiusIsNeeded`); nothing in
   `SpaceDescriptor::validate` asks for that.
8. A window taken from the spool whose retry fails is gone and not counted
   (`WindowsDiscarded.cfg`; `usage.rs:586`), where `usage.rs:528` and
   `docs/admission-and-usage.md:184` say that failed appends are retried on the next call and
   that windows are never silently discarded while the spool has room. Since `append`
   empties the spool first, the spool never holds more than one window, and its overflow
   count stays 0 unless its capacity is 0, where it counts windows that are kept.
9. A connection is given up over an envelope that the codec refuses (`CutOffByCore.cfg`): the
   listing that answers a snapshot request has no limit (`woven-transport` `lib.rs:1189`), and
   neither are messages made by a channel policy, nor a provider's replies, held to the rules of
   the wire. `README.md:15` says that the transports map best-effort traffic to datagrams, but no
   best-effort event can be encoded, and the drain task drops it.

Seen while modelling; each is what the model does, and the properties say around it:

- Wire: reliable events always leave with payload type 1; the flush
  after an authenticated request sends unreliable messages on the stream; a tool call's two
  lengths are limited in sum when encoded and one by one when decoded; the limits a
  `Hello` names are ignored.
- Inference: a full sink drops a request in silence, where the coordinator's comment says
  rejections are answered; the loser of a race for a revision is told that policy denied it;
  the deadline is not applied while the provider runs; effects stay when a later
  event expires; a cancellation is ignored; an identity that could not be set up leaves its
  connection behind.
- Usage: a new window whose failure cannot be retried is gone and not counted; connections that start after a window's end and before its snapshot are charged for
  the difference; a window of less than a second would divide by zero.

## 7. Not modelled

- The rate limiter of `core.rs`: time of publications is left out of the session core.
- Several sessions at a time, and sessions that share connections: one session is modelled
  throughout; state is keyed by session in the code and calls touch one session but for the
  loss of a connection.
- Floating-point rounding of positions, and cells out of the range of `i64`.
- FlatBuffers, and the frame limit, which depends on its layout; TLS, sockets, certificates
  and endpoint setup; datagrams that arrive at a client, which no client reads.
- Gauges and peaks of usage, the JSONL sink, metrics, logging.
- Server composition and the load test: configuration and measurement.

## 8. Plan

Next: an abstract publish/subscribe specification that the session core implements, on top of
`Orderly`; the rate limiter with a clock.
