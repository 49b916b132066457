------------------------------ MODULE Inference ------------------------------
(***************************************************************************)
(* The inference coordinator and the deterministic tool gateway.           *)
(*                                                                         *)
(* Readers of connections put requests into a bounded sink.  One loop      *)
(* takes them out and gives each a permit or turns it down; a task per     *)
(* request asks the provider and goes through its events, testing the      *)
(* deadline before each.  A tool call is proposed to the space, evaluated  *)
(* and answered; the tool that changes state reads its revision, has the   *)
(* core publish the next one under the AI's identity, and then stores it.  *)
(*                                                                         *)
(* Every await is a point where other tasks run, so each step below ends   *)
(* at one.  The provider is external: it returns any of Scripts, in its    *)
(* own time.  Replies to a requester that is gone are discarded, which     *)
(* changes nothing here.                                                   *)
(***************************************************************************)
EXTENDS Integers, Sequences, FiniteSets

CONSTANTS Requests, SinkCapacity, QueueCapacity, Scripts, Tools

ASSUME InferenceAssumption ==
    /\ IsFiniteSet(Requests)
    /\ SinkCapacity \in Nat \ {0} /\ QueueCapacity \in Nat
    /\ Tools \subseteq {"status", "diagnostic"}

(* The outcome of a provider: any number of replies and tool calls, then   *)
(* completion or failure.  That is the contract of a provider, on which    *)
(* the coordinator relies without a check.                                 *)
Final == {"completed", "failed", "expired"}
Event == [op : {"reply"}, kind : {"progress", "chunk", "completed", "failed"}]
            \cup [op : {"tool"}, tool : STRING, expected : Nat]

EndsOnce(script) ==
    /\ script \in Seq(Event) /\ script # <<>>
    /\ \A i \in DOMAIN script :
          (script[i].op = "reply" /\ script[i].kind \in Final) <=> i = Len(script)

ASSUME ProviderAssumption == \A script \in Scripts : EndsOnce(script)

VARIABLES
    identity,       \* how far establish_identity got; then whether the core still serves it
    inbound,        \* the sink
    permits,        \* permits left of the semaphore
    phase,          \* where each request is
    events,         \* what is left of its provider's outcome
    overdue,        \* requests whose deadline passed
    loaded,         \* the revision a tool call read
    revision,       \* the status tool's revision
    sequence,       \* the core's last sequence for the AI's status
    replies,        \* history: what each requester was sent
    effects         \* history: who published which revision

plane == <<identity, inbound, permits>>
tasks == <<phase, events, overdue, loaded>>
gateway == <<revision, sequence, effects>>
vars == <<plane, tasks, gateway, replies>>

-----------------------------------------------------------------------------
(* Each command may be refused; what was done before stays done.           *)
SetupSteps == <<"connected", "authenticated", "joined", "serving">>

EstablishIdentity ==
    \E i \in DOMAIN SetupSteps :
        /\ identity = (IF i = 1 THEN "none" ELSE SetupSteps[i - 1])
        /\ identity' \in {SetupSteps[i], "failed"}
        /\ UNCHANGED <<inbound, permits, tasks, gateway, replies>>

(* The AI is cut off as a slow consumer, or its space or entity goes.      *)
LoseIdentity ==
    /\ identity = "serving"
    /\ identity' = "lost"
    /\ UNCHANGED <<inbound, permits, tasks, gateway, replies>>

Running == {"serving", "lost"}

(* try_send: a request that finds the sink full is dropped without a word. *)
Submit(r) ==
    /\ identity \in Running /\ phase[r] = "absent"
    /\ IF Len(inbound) < SinkCapacity
       THEN /\ inbound' = Append(inbound, r)
            /\ phase' = [phase EXCEPT ![r] = "inbound"]
       ELSE /\ phase' = [phase EXCEPT ![r] = "dropped"]
            /\ UNCHANGED inbound
    /\ UNCHANGED <<identity, permits, events, overdue, loaded, gateway, replies>>

Tell(r, kind) == replies' = [replies EXCEPT ![r] = Append(@, kind)]

AcceptOrReject ==
    /\ inbound # <<>>
    /\ inbound' = Tail(inbound)
    /\ IF permits > 0
       THEN /\ permits' = permits - 1
            /\ phase' = [phase EXCEPT ![Head(inbound)] = "asking"]
            /\ Tell(Head(inbound), "accepted")
       ELSE /\ phase' = [phase EXCEPT ![Head(inbound)] = "ended"]
            /\ Tell(Head(inbound), "failed")
            /\ UNCHANGED permits
    /\ UNCHANGED <<identity, events, overdue, loaded, gateway>>

-----------------------------------------------------------------------------
(* run_inference.                                                          *)
ProviderReturns(r) ==
    /\ phase[r] = "asking"
    /\ \E script \in Scripts : events' = [events EXCEPT ![r] = script]
    /\ phase' = [phase EXCEPT ![r] = "delivering"]
    /\ UNCHANGED <<plane, overdue, loaded, gateway, replies>>

DeadlinePasses(r) ==
    /\ phase[r] \in {"asking", "delivering", "evaluating", "publishing", "storing"}
    /\ overdue' = overdue \cup {r}
    /\ UNCHANGED <<plane, phase, events, loaded, gateway, replies>>

ExpireNextEvent(r) ==
    /\ phase[r] = "delivering" /\ events[r] # <<>> /\ r \in overdue
    /\ events' = [events EXCEPT ![r] = Tail(@)]
    /\ Tell(r, "expired")
    /\ UNCHANGED <<plane, phase, overdue, loaded, gateway>>

(* Whatever events are left are discarded.                                 *)
Expire(r) ==
    /\ phase[r] = "delivering" /\ events[r] # <<>> /\ r \in overdue
    /\ events' = [events EXCEPT ![r] = <<>>]
    /\ Tell(r, "expired")
    /\ UNCHANGED <<plane, phase, overdue, loaded, gateway>>

Due(r) == phase[r] = "delivering" /\ events[r] # <<>> /\ r \notin overdue

(* Progress, a chunk, completion or failure goes to the requester; nothing *)
(* in the loop ends it there.                                              *)
Forward(r) ==
    /\ Due(r) /\ Head(events[r]).op = "reply"
    /\ events' = [events EXCEPT ![r] = Tail(@)]
    /\ Tell(r, Head(events[r]).kind)
    /\ UNCHANGED <<plane, phase, overdue, loaded, gateway>>

ProposeToolCall(r) ==
    /\ Due(r) /\ Head(events[r]).op = "tool"
    /\ phase' = [phase EXCEPT ![r] = "evaluating"]
    /\ UNCHANGED <<plane, events, overdue, loaded, gateway, replies>>

(* The call is answered to the space and the next event is due.            *)
Answered(r) ==
    /\ events' = [events EXCEPT ![r] = Tail(@)]
    /\ phase' = [phase EXCEPT ![r] = "delivering"]

(* The task ends and gives its permit back.                                *)
Finish(r) ==
    /\ phase[r] = "delivering" /\ events[r] = <<>>
    /\ phase' = [phase EXCEPT ![r] = "ended"]
    /\ permits' = permits + 1
    /\ UNCHANGED <<identity, inbound, events, overdue, loaded, gateway, replies>>

-----------------------------------------------------------------------------
(* The gateway.  A tool that is unknown or only reads, and a proposal that *)
(* expects another revision, end here.                                     *)
Proposal(r) == Head(events[r])

EvaluateAgainWhenStale(r) ==
    /\ phase[r] = "evaluating"
    /\ IF Proposal(r).expected = revision
       THEN phase' = [phase EXCEPT ![r] = "publishing"] /\ loaded' = [loaded EXCEPT ![r] = revision]
       ELSE phase' = [phase EXCEPT ![r] = "delivering"] /\ UNCHANGED loaded
    /\ UNCHANGED <<plane, events, overdue, gateway, replies>>

Evaluate(r) ==
    /\ phase[r] = "evaluating"
    /\ IF /\ Proposal(r).tool = "status" /\ "status" \in Tools
          /\ Proposal(r).expected = revision
       THEN /\ phase' = [phase EXCEPT ![r] = "publishing"]
            /\ loaded' = [loaded EXCEPT ![r] = revision]
            /\ UNCHANGED events
       ELSE Answered(r) /\ UNCHANGED loaded
    /\ UNCHANGED <<plane, overdue, gateway, replies>>

AnyNewRevision(next) == identity = "serving"

(* What the core asks of the publication.                                  *)
Publishable(next) == identity = "serving" /\ next > sequence

PublishLatestValue(r) ==
    /\ phase[r] = "publishing"
    /\ LET next == loaded[r] + 1 IN
       IF Publishable(next)
       THEN /\ sequence' = next
            /\ effects' = effects \cup {[request |-> r, revision |-> next]}
            /\ phase' = [phase EXCEPT ![r] = "storing"]
            /\ UNCHANGED events
       ELSE Answered(r) /\ UNCHANGED <<sequence, effects>>
    /\ UNCHANGED <<plane, overdue, loaded, revision, replies>>

StoreRevision(r) ==
    /\ phase[r] = "storing"
    /\ revision' = loaded[r] + 1
    /\ Answered(r)
    /\ UNCHANGED <<plane, overdue, loaded, sequence, effects, replies>>

-----------------------------------------------------------------------------
Init ==
    /\ identity = "none" /\ inbound = <<>>
    /\ permits = (IF QueueCapacity = 0 THEN 1 ELSE QueueCapacity)
    /\ phase = [r \in Requests |-> "absent"] /\ events = [r \in Requests |-> <<>>]
    /\ overdue = {} /\ loaded = [r \in Requests |-> 0]
    /\ revision = 1 /\ sequence = 0
    /\ replies = [r \in Requests |-> <<>>] /\ effects = {}

Task(r) ==
    \/ ProviderReturns(r) \/ Expire(r) \/ Forward(r) \/ ProposeToolCall(r)
    \/ Evaluate(r) \/ PublishLatestValue(r) \/ StoreRevision(r) \/ Finish(r)

Next ==
    \/ EstablishIdentity \/ LoseIdentity \/ AcceptOrReject
    \/ \E r \in Requests : Submit(r) \/ DeadlinePasses(r) \/ Task(r)

Spec == Init /\ [][Next]_vars

(* The runtime goes on with every task it has, and a provider answers.     *)
FairSpec == Spec /\ WF_vars(AcceptOrReject) /\ \A r \in Requests : WF_vars(Task(r))

-----------------------------------------------------------------------------
(* A revision takes effect once, whatever calls were evaluated at the same *)
(* time.  The tool's revision is the core's sequence, or one behind it     *)
(* while exactly the call that published, having read that revision, is    *)
(* still to store the next; before the first publication the core has no   *)
(* sequence (0 here) and the tool is at 1.                                 *)
OneEffectPerRevision ==
    LET storing == {r \in Requests : phase[r] = "storing"}
    IN  /\ \A a, b \in effects : a.revision = b.revision => a = b
        /\ storing = {} => sequence = revision \/ (sequence = 0 /\ revision = 1)
        /\ \A r \in storing :
              storing = {r} /\ loaded[r] = revision /\ sequence = revision + 1

(* What a requester hears: first of all acceptance or refusal, nothing     *)
(* after the end of its request, and no end but one.                       *)
OneOutcome ==
    \A r \in Requests :
        /\ \A i \in DOMAIN replies[r] :
              /\ replies[r][i] \in Final => i = Len(replies[r])
              /\ replies[r][i] = "accepted" <=> i = 1 /\ replies[r] # <<"failed">>
        /\ phase[r] = "ended" => /\ replies[r] # <<>>
                                 /\ replies[r][Len(replies[r])] \in Final

(* Permits are neither lost nor handed out twice, so no more than the      *)
(* capacity of requests run at a time.                                     *)
PermitsAccounted ==
    LET holders == {r \in Requests : phase[r] \notin {"absent", "inbound", "dropped", "ended"}}
    IN  /\ permits \in Nat
        /\ permits + Cardinality(holders) = (IF QueueCapacity = 0 THEN 1 ELSE QueueCapacity)

(* A request that reached the sink comes to an end, whatever its deadline  *)
(* and the identity's fate.                                                *)
EveryRequestEnds == \A r \in Requests : phase[r] = "inbound" ~> phase[r] = "ended"
=============================================================================
