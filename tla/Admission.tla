------------------------------ MODULE Admission ------------------------------
(***************************************************************************)
(* The admission controller under its callers: clients that join, poll,    *)
(* heartbeat, claim and cancel over HTTP (woven-server/src/admission.rs,   *)
(* which takes the controller's lock before it reads the clock), the core  *)
(* that releases and resumes leases, and the control plane that resizes    *)
(* the allocation.  Every call is one step under that lock; between calls  *)
(* time passes.                                                            *)
(*                                                                         *)
(* Ticket and lease ids are never reused and tickets are never removed, so *)
(* MaxTickets, MaxLeases and MaxRevision bound the calls explored.         *)
(***************************************************************************)
EXTENDS AdmissionOps

CONSTANTS Principals, Keys, Allocations,
          MaxTickets, MaxLeases, MaxRevision

ASSUME AdmissionUseAssumption ==
    /\ Allocations \subseteq Nat
    /\ NoKey \notin Keys
    /\ MaxTickets \in Nat /\ MaxLeases \in Nat /\ MaxRevision \in Nat

VARIABLE ctl

vars == <<ctl>>

(* Any id a client may present: issued, about to be issued or never.       *)
TicketIds == 1..MaxTickets + 1
LeaseIds  == 1..MaxLeases

WithinRun(c) == Len(c.tickets) <= MaxTickets /\ c.next_lease <= MaxLeases + 1

Init == \E allocated \in Allocations : ctl = NewController(allocated, 1)

RequestJoin(p, key) ==
    /\ ctl' = AfterJoin(Expire(ctl), p, key)
    /\ WithinRun(ctl')

QueueStatus == ctl' = Expire(ctl)

Heartbeat(id) == ctl' = AfterHeartbeat(Expire(ctl), id)

Cancel(id) == ctl' = AfterCancel(Expire(ctl), id)

ClaimOffer(id) ==
    /\ ctl' = AfterClaim(Expire(ctl), id)
    /\ WithinRun(ctl')

Release(lease, p, unexpected) == ctl' = AfterRelease(ctl, lease, p, unexpected)

Resume(lease, p) == ctl' = AfterResume(Expire(ctl), lease, p)

ApplyCapacity(allocated, revision) == ctl' = AfterCapacity(ctl, allocated, revision)

Tick == ctl' = Elapse(ctl)

Next ==
    \/ \E p \in Principals, key \in Keys \cup {NoKey} : RequestJoin(p, key)
    \/ QueueStatus
    \/ \E id \in TicketIds : Heartbeat(id) \/ Cancel(id) \/ ClaimOffer(id)
    \/ \E lease \in LeaseIds, p \in Principals, unexpected \in BOOLEAN :
          Release(lease, p, unexpected)
    \/ \E lease \in LeaseIds, p \in Principals : Resume(lease, p)
    \/ \E allocated \in Allocations, revision \in 1..MaxRevision :
          ApplyCapacity(allocated, revision)
    \/ Tick

Spec == Init /\ [][Next]_vars

(* Time passes, and somebody polls: queue_status tells every client to     *)
(* come back after poll_after_ms, and nothing else drives expire_at.       *)
FairSpec == Spec /\ WF_vars(Tick) /\ WF_vars(QueueStatus)

-----------------------------------------------------------------------------
TicketStates == {"Waiting", "Offered", "Expired", "Cancelled", "Admitted"}

Tickets == [principal : Principals, key : Keys, state : TicketStates,
            age : 0..TicketTtl, idle : 0..HeartbeatTimeout, left : 0..OfferTtl]

Reservations == [principal : Principals, left : 0..ReconnectGrace]

TypeOK ==
    /\ ctl \in [allocated : Nat, pending : Nat \cup {NoTarget}, revision : Nat,
                next_lease : Nat \ {0}, active : {ctl.active},
                reservations : {ctl.reservations}, tickets : Seq(Tickets),
                waiting : Seq(DOMAIN ctl.tickets), index : {ctl.index}]
    /\ DOMAIN ctl.active \cup DOMAIN ctl.reservations \subseteq 1..ctl.next_lease - 1
    /\ ctl.active \in [DOMAIN ctl.active -> Principals]
    /\ ctl.reservations \in [DOMAIN ctl.reservations -> Reservations]
    /\ DOMAIN ctl.index \subseteq Keys
    /\ ctl.index \in [DOMAIN ctl.index -> DOMAIN ctl.tickets]

(* Leases in use, reconnect reservations and outstanding offers together   *)
(* never exceed the allocation, through every resize; and a target that is *)
(* still pending is a decrease.                                            *)
WithinAllocation ==
    /\ Occupied(ctl) <= ctl.allocated
    /\ ctl.pending # NoTarget => ctl.pending < ctl.allocated

(* No slot idles while somebody is in line, after any call: a newcomer who *)
(* finds a free slot has overtaken nobody.                                 *)
WorkConserving ==
    ctl.waiting # <<>> => Occupied(ctl) >= AdmissionLimit(ctl)

(* The types hold and the three views of the queue agree: the line is the  *)
(* Waiting tickets in the order they were issued, and the idempotency      *)
(* index finds exactly the live ones.                                      *)
QueueViewsAgree ==
    /\ TypeOK
    /\ Range(ctl.waiting) = TicketsIn(ctl, {"Waiting"})
    /\ \A i, j \in DOMAIN ctl.waiting : i < j => ctl.waiting[i] < ctl.waiting[j]
    /\ Range(ctl.index) = Live(ctl)
    /\ \A key \in DOMAIN ctl.index : ctl.tickets[ctl.index[key]].key = key

(* A ticket is never offered a slot while an earlier one still waits.      *)
FirstComeFirstServed ==
    \A i, j \in DOMAIN ctl.tickets :
        ctl.tickets[i].state = "Waiting" /\ ctl.tickets[j].state = "Offered" => j < i

(* "Duplicate principals": nobody holds two places in the queue.           *)
OnePlacePerPrincipal ==
    \A i, j \in Live(ctl) :
        ctl.tickets[i].principal = ctl.tickets[j].principal => i = j

(* A lease is active, or reserved for a reconnect, never both: a resume    *)
(* takes the slot its reservation held.                                    *)
SlotCountedOnce == DOMAIN ctl.active \cap DOMAIN ctl.reservations = {}

(* While it has time left, an offer ends only by its claim or its          *)
(* cancellation, and a reservation only by the resume of its principal:    *)
(* no resize, no expiry of others and no promotion takes them away.        *)
PromisesKept ==
    [][ /\ \A i \in TicketsIn(ctl, {"Offered"}) :
              ctl.tickets[i].left > 0 =>
                  ctl'.tickets[i].state \in {"Offered", "Admitted", "Cancelled"}
        /\ \A l \in DOMAIN ctl.reservations :
              ctl.reservations[l].left > 0 =>
                  \/ l \in DOMAIN ctl'.reservations
                  \/ /\ l \in DOMAIN ctl'.active
                     /\ ctl'.active[l] = ctl.reservations[l].principal
      ]_vars

(* "Leases are released exactly once": a lease that is neither active nor  *)
(* reserved any more never comes back, under any token or claim.           *)
ReleasedForGood ==
    [][ \A l \in 1..ctl.next_lease - 1 :
           l \in DOMAIN ctl'.active \cup DOMAIN ctl'.reservations
              => l \in DOMAIN ctl.active \cup DOMAIN ctl.reservations ]_vars

(* "No new client is admitted above the pending target while it drains."   *)
DrainsToTarget ==
    [][ ctl.pending # NoTarget /\ ctl'.pending # NoTarget =>
           Occupied(ctl') <= Occupied(ctl) ]_vars

-----------------------------------------------------------------------------
(* Slots promised to clients that vanished come back: every offer is       *)
(* claimed, cancelled or expired, every reservation resumed or dropped.    *)
PromisesEnd ==
    /\ \A i \in 1..MaxTickets :
          i \in TicketsIn(ctl, {"Offered"}) ~> i \notin TicketsIn(ctl, {"Offered"})
    /\ \A l \in LeaseIds :
          l \in DOMAIN ctl.reservations ~> l \notin DOMAIN ctl.reservations

(* "Once enough permits drain naturally, the allocation drops to the       *)
(* pending target", by whichever call takes the last permit away, unless   *)
(* a newer revision replaces the target first.                             *)
TargetApplied ==
    \A target \in Allocations :
        (ctl.pending = target /\ Occupied(ctl) <= target) ~> (ctl.pending # target)
=============================================================================
