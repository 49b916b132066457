---------------------------- MODULE AdmissionCore ----------------------------
(***************************************************************************)
(* The admission controller inside the core (crates/woven-core/src/core.rs) *)
(* for one session: a lease that request_session_admission_at obtains is   *)
(* pending for its connection until join_session_with_admission binds it   *)
(* to the membership; leaving or losing the connection releases it.        *)
(*                                                                         *)
(* The session may have members before its admission is configured.  The   *)
(* core drives its own controller by these calls alone: the actions that   *)
(* module Admission has for the HTTP endpoints of the server are not used, *)
(* for they call a controller of their own.                                *)
(*                                                                         *)
(* Connection ids are never reused; Connections, MaxTickets, MaxLeases and *)
(* MaxRevision bound what is explored.  Every principal may join.          *)
(***************************************************************************)
EXTENDS Admission

CONSTANTS Connections,
          MaxConnections,                        \* CoreConfig::max_connections
          Absent, Anonymous, Gone                \* a connection's state

ASSUME AdmissionCoreAssumption ==
    /\ {Absent, Anonymous, Gone} \cap Principals = {}
    /\ Absent # Anonymous /\ Anonymous # Gone /\ Gone # Absent
    /\ MaxConnections \in Nat \ {0}

VARIABLES who,      \* connection -> its principal once authenticated
          members,  \* members of the session, memberships of the connections
          pending,  \* pending_admissions: connection -> lease
          bound,    \* admission_leases: connection -> lease
          overwritten \* history: leases that were pending when their
                      \* connection was admitted once more

core_vars == <<ctl, who, members, pending, bound, overwritten>>

Connected == {c \in Connections : who[c] \notin {Absent, Gone}}
Authenticated == {c \in Connections : who[c] \in Principals}

(* admissions holds no controller for the session: None.                   *)
NoController == <<>>

Configured == ctl # NoController

Remove(f, x) == Restrict(f, DOMAIN f \ {x})

(* The lease that f holds for c, if any.                                   *)
HeldFor(f, c) == {f[x] : x \in DOMAIN f \cap {c}}

CoreInit ==
    /\ ctl = NoController
    /\ who = [c \in Connections |-> Absent]
    /\ members = {}
    /\ pending = <<>> /\ bound = <<>> /\ overwritten = {}

-----------------------------------------------------------------------------
ConfigureAdmission(allocated) ==
    /\ ~Configured
    /\ ctl' = NewController(allocated, 1)
    /\ UNCHANGED <<who, members, pending, bound, overwritten>>

ApplySessionCapacity(allocated, revision) ==
    /\ Configured
    /\ ApplyCapacity(allocated, revision)
    /\ UNCHANGED <<who, members, pending, bound, overwritten>>

Connect(c) ==
    /\ who[c] = Absent /\ Cardinality(Connected) < MaxConnections
    /\ who' = [who EXCEPT ![c] = Anonymous]
    /\ UNCHANGED <<ctl, members, pending, bound, overwritten>>

Authenticate(c, p) ==
    /\ who[c] = Anonymous
    /\ who' = [who EXCEPT ![c] = p]
    /\ UNCHANGED <<ctl, members, pending, bound, overwritten>>

(* A connection may ask again while it holds a lease, under any key; a     *)
(* lease obtained takes the place of the one that was pending.             *)
RequestAdmission(c, key) ==
    /\ c \in Authenticated /\ Configured
    /\ LET before == Expire(ctl)
       IN  /\ ctl' = AfterJoin(before, who[c], key)
           /\ IF JoinDecision(before, who[c], key) = "Admitted"
              THEN /\ pending' = Insert(pending, c, before.next_lease)
                   /\ overwritten' = overwritten \cup HeldFor(pending, c)
              ELSE UNCHANGED <<pending, overwritten>>
    /\ WithinRun(ctl')
    /\ UNCHANGED <<who, members, bound>>

JoinSession(c) ==
    /\ c \in Authenticated /\ ~Configured
    /\ members' = members \cup {c}
    /\ UNCHANGED <<ctl, who, pending, bound, overwritten>>

(* What join_session_with_admission asks of the lease it is shown.         *)
Presentable(c, lease) ==
    /\ c \in Authenticated \ DOMAIN bound
    /\ c \in DOMAIN pending /\ pending[c] = lease
    /\ lease \in DOMAIN ctl.active /\ ctl.active[lease] = who[c]
    /\ \A other \in DOMAIN bound : bound[other] # lease

(* Mutant: the lease stays pending after the join.                         *)
JoinKeepingPending(c, lease) ==
    /\ Configured /\ Presentable(c, lease)
    /\ members' = members \cup {c}
    /\ bound' = Insert(bound, c, lease)
    /\ UNCHANGED <<ctl, who, pending, overwritten>>

JoinWithAdmission(c, lease) ==
    /\ Configured /\ Presentable(c, lease)
    /\ members' = members \cup {c}
    /\ pending' = Remove(pending, c)
    /\ bound' = Insert(bound, c, lease)
    /\ UNCHANGED <<ctl, who, overwritten>>

-----------------------------------------------------------------------------
(* The controller after the lease that f holds for c, if any, is released. *)
Released(controller, f, c, unexpected) ==
    IF c \in DOMAIN f
    THEN AfterRelease(controller, f[c], who[c], unexpected)
    ELSE controller

(* Mutant: the lease is read, and not taken out of, admission_leases.      *)
LeaveStillBound(c) ==
    /\ c \in members
    /\ ctl' = Released(ctl, bound, c, FALSE)
    /\ members' = members \ {c}
    /\ UNCHANGED <<who, pending, bound, overwritten>>

(* Mutant: the membership ends and its slot stays taken.                   *)
LeaveKeepingSlot(c) ==
    /\ c \in members
    /\ members' = members \ {c}
    /\ bound' = Remove(bound, c)
    /\ UNCHANGED <<ctl, who, pending, overwritten>>

(* Only the bound lease is released; a pending one stays pending.          *)
LeaveSession(c) ==
    /\ c \in members
    /\ ctl' = Released(ctl, bound, c, FALSE)
    /\ members' = members \ {c}
    /\ bound' = Remove(bound, c)
    /\ UNCHANGED <<who, pending, overwritten>>

(* The bound lease, found by the membership, leaves a reservation; then    *)
(* the pending one is given up.                                            *)
TransportLost(c) ==
    /\ c \in Connected
    /\ LET left == IF c \in members THEN Released(ctl, bound, c, TRUE) ELSE ctl
       IN  ctl' = Released(left, pending, c, FALSE)
    /\ who' = [who EXCEPT ![c] = Gone]
    /\ members' = members \ {c}
    /\ bound' = IF c \in members THEN Remove(bound, c) ELSE bound
    /\ pending' = Remove(pending, c)
    /\ UNCHANGED overwritten

CoreTick ==
    /\ Configured
    /\ Tick
    /\ UNCHANGED <<who, members, pending, bound, overwritten>>

CoreNext ==
    \/ \E allocated \in Allocations :
          \/ ConfigureAdmission(allocated)
          \/ \E revision \in 1..MaxRevision : ApplySessionCapacity(allocated, revision)
    \/ \E c \in Connections :
          \/ Connect(c)
          \/ \E p \in Principals : Authenticate(c, p)
          \/ \E key \in Keys : RequestAdmission(c, key)
          \/ JoinSession(c)
          \/ \E lease \in LeaseIds : JoinWithAdmission(c, lease)
          \/ LeaveSession(c)
          \/ TransportLost(c)
    \/ CoreTick

CoreSpec == CoreInit /\ [][CoreNext]_core_vars

-----------------------------------------------------------------------------
CoreTypeOK ==
    /\ who \in [Connections -> Principals \cup {Absent, Anonymous, Gone}]
    /\ members \subseteq Authenticated
    /\ DOMAIN pending \subseteq Authenticated /\ DOMAIN bound \subseteq members
    /\ pending \in [DOMAIN pending -> LeaseIds]
    /\ bound \in [DOMAIN bound -> LeaseIds]
    /\ overwritten \subseteq LeaseIds
    /\ DOMAIN pending # {} \/ DOMAIN bound # {} \/ overwritten # {} => Configured

(* A lease that the core holds for a connection is in use at the           *)
(* controller by that connection's principal, through every expiry, resize *)
(* and departure of others; and no lease is held twice, pending or bound.  *)
HeldLeasesInUse ==
    /\ CoreTypeOK
    /\ \A c \in DOMAIN pending :
          pending[c] \in DOMAIN ctl.active /\ ctl.active[pending[c]] = who[c]
    /\ \A c \in DOMAIN bound :
          bound[c] \in DOMAIN ctl.active /\ ctl.active[bound[c]] = who[c]
    /\ \A c, d \in Connections :
          /\ {c, d} \subseteq DOMAIN pending /\ pending[c] = pending[d] => c = d
          /\ {c, d} \subseteq DOMAIN bound /\ bound[c] = bound[d] => c = d
          /\ c \in DOMAIN pending /\ d \in DOMAIN bound => pending[c] # bound[d]

(* The members admitted by a lease, and the slots kept for those who lost  *)
(* their connection, stay within the allocation, through every resize.     *)
MembersWithinAllocation ==
    Configured =>
        Cardinality(DOMAIN bound) + Cardinality(DOMAIN ctl.reservations)
            <= ctl.allocated

(* "Leases are released exactly once" (docs/admission-and-usage.md:106),   *)
(* as far as it is so: a lease is in use as long as a connection holds it, *)
(* pending or bound, and no longer.  So whoever leaves or is lost, joined  *)
(* or not, gives back every slot recorded for it.  The exception is the    *)
(* lease that was pending when its connection was admitted once more: the  *)
(* insert of request_session_admission_at overwrites it, nobody holds it   *)
(* from then on, and its slot is never given back.                         *)
LeasesAccountedFor ==
    Configured =>
        /\ DOMAIN ctl.active = Range(pending) \cup Range(bound) \cup overwritten
        /\ overwritten \cap (Range(pending) \cup Range(bound)) = {}

(* "transport_loss_releases_an_unjoined_admission_lease": when the last    *)
(* connection of a principal is lost, no lease of it stays in use.         *)
LossReleasesLeases ==
    Configured =>
        \A lease \in DOMAIN ctl.active :
            \E c \in Connected : who[c] = ctl.active[lease]
=============================================================================
