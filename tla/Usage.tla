-------------------------------- MODULE Usage --------------------------------
(***************************************************************************)
(* Usage accounting: counters that any thread increments, the aggregator   *)
(* thread that cuts them into windows, and the task that exports windows   *)
(* to a sink through a bounded spool.                                      *)
(*                                                                         *)
(* A tick of the clock is 1/Rate second, so durations that as_secs         *)
(* truncates occur.  One set of counters stands for those of a server: the *)
(* aggregator treats each alike.  MaxTime, MaxHandles and MaxEvents bound  *)
(* what is explored.                                                       *)
(***************************************************************************)
EXTENDS Integers, VecOps

CONSTANTS Rate, WindowSeconds, PendingCapacity, SpoolCapacity, Nothing,
          MaxTime, MaxHandles, MaxEvents

(* A finalized window, the local state of tick_at, that of append.         *)
Windows == [sequence : Nat, events : Nat, seconds : Nat]
Ticks == [phase : {"counters", "connections", "push"}, index : Nat, last : Nat,
          sequence : Nat, events : Nat, done : Seq(Windows)]
Appends == [window : Windows, retry : Windows \cup {Nothing}, draining : BOOLEAN]

(* Windows last whole seconds: as_secs of a window's duration divides.     *)
ASSUME UsageAssumption ==
    /\ Nothing \notin Windows \cup Ticks \cup Appends
    /\ Rate \in Nat \ {0} /\ WindowSeconds \in Nat \ {0}
    /\ PendingCapacity \in Nat \ {0} /\ SpoolCapacity \in Nat
    /\ MaxTime \in Nat /\ MaxHandles \in Nat /\ MaxEvents \in Nat

VARIABLES
    now,            \* ticks since base_instant
    events,         \* a cumulative counter
    seconds,        \* connection_seconds of the connections that ended
    active,         \* started, for every handle whose connection is running
    next_handle,
    finalized_windows, next_sequence,
    tick,           \* the call of tick_at in progress, or Nothing
    pending,        \* finalized windows nobody drained
    batch,          \* windows the exporter drained and has not appended
    append,         \* the call of SpoolingUsageSink::append in progress, or Nothing
    spool, dropped_windows,
    delivered,      \* history: what the inner sink stored, in order
    finalized,      \* history: every window tick_at produced
    recorded,       \* history: increments so far
    lived,          \* history: ticks connections really ran
    early,          \* history: ticks charged to connections before they started
    overrun,        \* history: windows a full queue or spool dropped
    refused,        \* history: windows the inner sink refused for good
    abandoned       \* history: windows whose retry failed

counters == <<events, seconds, active, next_handle>>
aggregator == <<finalized_windows, next_sequence, tick, pending>>
export == <<batch, append, spool, dropped_windows, delivered>>
history == <<finalized, recorded, lived, early>>
ends == <<overrun, refused, abandoned>>
vars == <<now, counters, aggregator, export, history, ends>>

-----------------------------------------------------------------------------
Later(a, b) == IF a > b THEN a - b ELSE 0
AsSecs(ticks) == ticks \div Rate
WindowTicks == WindowSeconds * Rate

-----------------------------------------------------------------------------
(* The counters, called from any thread.                                   *)
Record ==
    /\ recorded < MaxEvents
    /\ events' = events + 1 /\ recorded' = recorded + 1
    /\ UNCHANGED <<now, seconds, active, next_handle, aggregator, export, finalized, lived,
                   early, ends>>

StartConnection ==
    /\ next_handle <= MaxHandles
    /\ active' = [h \in DOMAIN active \cup {next_handle} |->
                      IF h = next_handle THEN now ELSE active[h]]
    /\ next_handle' = next_handle + 1
    /\ UNCHANGED <<now, events, seconds, aggregator, export, history, ends>>

EndConnection(h) ==
    /\ seconds' = seconds + AsSecs(Later(now, active[h]))
    /\ active' = [g \in DOMAIN active \ {h} |-> active[g]]
    /\ UNCHANGED <<now, events, next_handle, aggregator, export, history, ends>>

(* Time goes by for the connections that run.                              *)
Elapse ==
    /\ now < MaxTime
    /\ now' = now + 1
    /\ lived' = lived + Cardinality(DOMAIN active)
    /\ UNCHANGED <<counters, aggregator, export, finalized, recorded, early, ends>>

-----------------------------------------------------------------------------
(* The aggregator.  The windows that elapsed are claimed first; each takes *)
(* a sequence number, then each counter by a swap of its own, the          *)
(* connections last and under their lock.                                  *)
WindowsElapsed == AsSecs(now) \div WindowSeconds

TickStart ==
    /\ tick = Nothing /\ WindowsElapsed > finalized_windows
    /\ tick' = [phase |-> "counters", index |-> finalized_windows + 1, last |-> WindowsElapsed,
                sequence |-> 0, events |-> 0, done |-> <<>>]
    /\ finalized_windows' = WindowsElapsed
    /\ UNCHANGED <<now, counters, next_sequence, pending, export, history, ends>>

ResetLater == IF tick.index = tick.last THEN 0 ELSE events

(* What the swap leaves in a counter.                                      *)
ResetCounter == 0

SnapshotCounters ==
    /\ tick # Nothing /\ tick.phase = "counters"
    /\ tick' = [tick EXCEPT !.phase = "connections", !.sequence = next_sequence,
                            !.events = events]
    /\ next_sequence' = next_sequence + 1
    /\ events' = ResetCounter
    /\ UNCHANGED <<now, seconds, active, next_handle, finalized_windows, pending, export,
                   history, ends>>

RestartFromNow(end) == [h \in DOMAIN active |-> now]

(* Running connections are charged up to the end of the window and go on   *)
(* from there, also those that started after it.                           *)
RestartAt(end) == [h \in DOMAIN active |-> end]

(* Its whole seconds up to the end, and what it is ahead of it, of each.   *)
Shares(end) == [h \in DOMAIN active |-> AsSecs(Later(end, active[h]))]
Ahead(end) == [h \in DOMAIN active |-> Later(active[h], end)]

SnapshotConnections ==
    /\ tick # Nothing /\ tick.phase = "connections"
    /\ LET end == tick.index * WindowTicks
           window == [sequence |-> tick.sequence, events |-> tick.events,
                      seconds |-> seconds + Total(Shares(end))]
       IN /\ tick' = [tick EXCEPT !.done = Append(@, window), !.events = 0,
                                  !.index = @ + 1,
                                  !.phase = IF tick.index = tick.last THEN "push" ELSE "counters"]
          /\ finalized' = Append(finalized, window)
          /\ active' = RestartAt(end)
          /\ early' = early + Total(Ahead(end))
          /\ seconds' = 0
    /\ UNCHANGED <<now, events, next_handle, finalized_windows, next_sequence, pending, export,
                   recorded, lived, ends>>

Newest(s, n) == IF Len(s) <= n THEN s ELSE SubSeq(s, Len(s) - n + 1, Len(s))
Sequences(s) == {s[i].sequence : i \in DOMAIN s}

PushPending ==
    /\ tick # Nothing /\ tick.phase = "push"
    /\ pending' = Newest(pending \o tick.done, PendingCapacity)
    /\ overrun' = overrun \cup (Sequences(pending \o tick.done) \ Sequences(pending'))
    /\ tick' = Nothing
    /\ UNCHANGED <<now, counters, finalized_windows, next_sequence, export, history, refused,
                   abandoned>>

-----------------------------------------------------------------------------
(* The exporter: it drains the pending windows and appends them in order.  *)
DrainPending ==
    /\ batch = <<>> /\ append = Nothing /\ pending # <<>>
    /\ batch' = pending /\ pending' = <<>>
    /\ UNCHANGED <<now, counters, finalized_windows, next_sequence, tick, append, spool,
                   dropped_windows, delivered, history, ends>>

(* append first tries what is in the spool, oldest first, then the window. *)
AppendStart ==
    /\ append = Nothing /\ batch # <<>>
    /\ append' = [window |-> Head(batch), retry |-> Nothing, draining |-> TRUE]
    /\ batch' = Tail(batch)
    /\ UNCHANGED <<now, counters, aggregator, spool, dropped_windows, delivered, history, ends>>

PopSpool ==
    /\ append # Nothing /\ append.draining /\ append.retry = Nothing
    /\ IF spool = <<>>
       THEN append' = [append EXCEPT !.draining = FALSE] /\ UNCHANGED spool
       ELSE append' = [append EXCEPT !.retry = Head(spool)] /\ spool' = Tail(spool)
    /\ UNCHANGED <<now, counters, aggregator, batch, dropped_windows, delivered, history, ends>>

(* A full spool drops its oldest window and counts it; one of capacity 0   *)
(* has none to drop, counts all the same, and takes the window.            *)
PushToSpool(w) ==
    LET full == Len(spool) = SpoolCapacity
    IN  /\ spool' = Append(IF full /\ spool # <<>> THEN Tail(spool) ELSE spool, w)
        /\ dropped_windows' = dropped_windows + (IF full THEN 1 ELSE 0)
        /\ overrun' = overrun \cup (Sequences(Append(spool, w)) \ Sequences(spool'))

(* What the inner sink stored of a window it reports an error about: it    *)
(* may fail after the window is in.                                        *)
StoredOrNot(w) == delivered' \in {delivered, Append(delivered, w)}

(* The inner sink's answer to a window out of the spool.  After an error   *)
(* that may be retried the new window joins the spool and append fails;    *)
(* the window that was tried is not put back.                              *)
RetryStored ==
    /\ append # Nothing /\ append.retry # Nothing
    /\ delivered' = Append(delivered, append.retry)
    /\ append' = [append EXCEPT !.retry = Nothing]
    /\ UNCHANGED <<now, counters, aggregator, batch, spool, dropped_windows, history, ends>>

RetryRefused ==
    /\ append # Nothing /\ append.retry # Nothing
    /\ refused' = refused \cup {append.retry.sequence}
    /\ StoredOrNot(append.retry)
    /\ append' = [append EXCEPT !.retry = Nothing]
    /\ UNCHANGED <<now, counters, aggregator, batch, spool, dropped_windows, history, overrun,
                   abandoned>>

RetryPutBackLast ==
    /\ append # Nothing /\ append.retry # Nothing
    /\ spool' = spool \o <<append.window, append.retry>>
    /\ append' = Nothing
    /\ UNCHANGED <<now, counters, aggregator, batch, dropped_windows, delivered, history, ends>>

RetryFails ==
    /\ append # Nothing /\ append.retry # Nothing
    /\ PushToSpool(append.window)
    /\ StoredOrNot(append.retry)
    /\ abandoned' = abandoned \cup {append.retry.sequence}
    /\ append' = Nothing
    /\ UNCHANGED <<now, counters, aggregator, batch, history, refused>>

(* The inner sink's answer to the new window: stored; failed for now, with *)
(* the window stored or not; or refused for good.                          *)
Trying == append # Nothing /\ ~append.draining

NewStored ==
    /\ Trying
    /\ delivered' = Append(delivered, append.window)
    /\ append' = Nothing
    /\ UNCHANGED <<now, counters, aggregator, batch, spool, dropped_windows, history, ends>>

NewFails ==
    /\ Trying
    /\ PushToSpool(append.window)
    /\ StoredOrNot(append.window)
    /\ append' = Nothing
    /\ UNCHANGED <<now, counters, aggregator, batch, history, refused, abandoned>>

NewRefused ==
    /\ Trying
    /\ refused' = refused \cup {append.window.sequence}
    /\ StoredOrNot(append.window)
    /\ append' = Nothing
    /\ UNCHANGED <<now, counters, aggregator, batch, spool, dropped_windows, history, overrun,
                   abandoned>>

-----------------------------------------------------------------------------
Init ==
    /\ now = 0 /\ events = 0 /\ seconds = 0
    /\ active = [h \in {} |-> 0] /\ next_handle = 1
    /\ finalized_windows = 0 /\ next_sequence = 1 /\ tick = Nothing
    /\ pending = <<>> /\ batch = <<>> /\ append = Nothing
    /\ spool = <<>> /\ dropped_windows = 0 /\ delivered = <<>>
    /\ finalized = <<>> /\ recorded = 0 /\ lived = 0 /\ early = 0
    /\ overrun = {} /\ refused = {} /\ abandoned = {}

Next ==
    \/ Record \/ StartConnection \/ (\E h \in DOMAIN active : EndConnection(h))
    \/ Elapse
    \/ TickStart \/ SnapshotCounters \/ SnapshotConnections \/ PushPending
    \/ DrainPending \/ AppendStart \/ PopSpool
    \/ RetryStored \/ RetryRefused \/ RetryFails
    \/ NewStored \/ NewFails \/ NewRefused

Spec == Init /\ [][Next]_vars

-----------------------------------------------------------------------------
(* "Counters roll into the next window without loss at the boundary":      *)
(* every increment is in the counter, in the window being cut or in one    *)
(* finalized window.                                                       *)
EventsConserved ==
    recorded = events + (IF tick = Nothing THEN 0 ELSE tick.events)
                      + Total([i \in DOMAIN finalized |-> finalized[i].events])

(* What the windows and the counter charge, with what the connections that *)
(* run have accrued, without what was charged before a connection started. *)
Accrued == [h \in DOMAIN active |-> now - active[h]]
Charged ==
    Rate * (seconds + Total([i \in DOMAIN finalized |-> finalized[i].seconds]))
        + Total(Accrued) - early

(* What connections are charged over all windows, with what those that run *)
(* have accrued, is the time they ran up to a truncation of less than a    *)
(* second at the first window's end and another at their own, once the     *)
(* time charged to connections that started after a window's end but       *)
(* before its snapshot is taken off.                                       *)
SecondsAccounted ==
    /\ Charged <= lived
    /\ lived - Charged <= 2 * (Rate - 1) * (next_handle - 1)

(* The sink sees windows in the order they were finalized, twice at most   *)
(* and only when it failed after it had stored one.  A window that is in   *)
(* no place any more was delivered, or overran a bounded queue, or was     *)
(* refused by the sink for good, or was abandoned when its retry failed.   *)
(* The last are not counted: append tries the whole spool first and does   *)
(* not put back what it tried, so the spool never holds more than one      *)
(* window and never overflows, and dropped_windows stays 0 (of a spool of  *)
(* capacity 0 it counts windows that are kept).  Of "windows are never     *)
(* silently discarded" see WindowsDiscarded.cfg.                           *)
InExport ==
    batch \o (IF append = Nothing THEN <<>> ELSE <<append.window>>)
Held ==
    Sequences(pending) \cup Sequences(batch) \cup Sequences(spool)
        \cup (IF tick = Nothing THEN {} ELSE Sequences(tick.done))
        \cup (IF append = Nothing THEN {}
              ELSE {append.window.sequence}
                     \cup (IF append.retry = Nothing THEN {} ELSE {append.retry.sequence}))

removed == overrun \cup refused \cup abandoned

ExportedInOrder ==
    /\ Len(spool) <= 1 /\ (SpoolCapacity > 0 => dropped_windows = 0)
    /\ \A i, j \in DOMAIN delivered : i < j => delivered[i].sequence <= delivered[j].sequence
    /\ \A i \in DOMAIN delivered : i > 2 => delivered[i - 2].sequence < delivered[i].sequence
    /\ \A i \in DOMAIN spool, j \in DOMAIN InExport : spool[i].sequence < InExport[j].sequence
    /\ Held \cap removed = {}
    /\ Sequences(finalized) = Held \cup removed \cup Sequences(delivered)

(* "Failed appends are retried on the next call [...] Windows are never    *)
(* silently discarded while the spool has room": what was given up without *)
(* a word of the sink or of a full queue is counted.                       *)
NeverSilentlyDiscarded == Cardinality(abandoned) <= dropped_windows
=============================================================================
