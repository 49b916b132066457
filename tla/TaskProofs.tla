------------------------------ MODULE TaskProofs ------------------------------
(***************************************************************************)
(* What holds of the two components whose tasks run side by side and meet  *)
(* at channels: the inference coordinator with its tool gateway, and the   *)
(* worker with the tasks of each connection.                               *)
(*                                                                         *)
(* The coordinator comes first, for any number of requests, any capacities *)
(* and any provider that keeps its contract.  Its inductive invariant has  *)
(* a part for each question: the revision and the core's sequence move     *)
(* together, the sink lists what waits in it, a requester's story goes     *)
(* with the phase of its request, and the permits with the number of       *)
(* requests being served.                                                  *)
(*                                                                         *)
(* The worker follows, for any connections, spaces, capacities and bounds. *)
(* Its invariant has two parts beside the types: how far each connection   *)
(* is and what core and mirrors hold of it then, and what the rest of the  *)
(* fan-out in progress is still going to tell.                             *)
(***************************************************************************)
EXTENDS Lifecycle, Inference, VecOpsProofs, TLAPS

Waiting == {"absent", "inbound", "dropped"}
Calling == {"evaluating", "publishing", "storing"}
Phases == Waiting \cup Calling \cup {"asking", "delivering", "ended"}

Kinds == {"accepted", "progress", "chunk", "completed", "failed", "expired"}

Types ==
    /\ inbound \in Seq(Requests) /\ permits \in Nat
    /\ phase \in [Requests -> Phases]
    /\ events \in [Requests -> Seq(Event)]
    /\ loaded \in [Requests -> Nat]
    /\ revision \in Nat \ {0} /\ sequence \in Nat
    /\ replies \in [Requests -> Seq(Kinds)]
    /\ effects \subseteq [request : Requests, revision : Nat]

(* Only one call at a time can be between its publication and its store:   *)
(* the core's sequence is then one ahead of the revision, and refuses all  *)
(* other calls, whose revision is no newer.                                *)
Revisions ==
    /\ \A a \in effects : a.revision <= sequence
    /\ \A a, b \in effects : a.revision = b.revision => a = b
    /\ \A r, s \in Requests : phase[r] = "storing" /\ phase[s] = "storing" => r = s
    /\ \A r \in Requests :
          /\ phase[r] = "storing" => loaded[r] = revision /\ sequence = revision + 1
          /\ phase[r] = "publishing" => loaded[r] # 0 /\ loaded[r] <= revision
    /\ (\A r \in Requests : phase[r] # "storing") =>
          sequence = revision \/ (sequence = 0 /\ revision = 1)

(* The sink lists each request that waits in it once.                      *)
Queued ==
    /\ \A i \in 1 .. Len(inbound) : phase[inbound[i]] = "inbound"
    /\ \A i, j \in 1 .. Len(inbound) : inbound[i] = inbound[j] => i = j

(* A story that has begun, one that goes on, and one that is over.         *)
Begun(story) ==
    /\ story \in Seq(Kinds) /\ Len(story) > 0 /\ story[1] = "accepted"
    /\ \A i \in 2 .. Len(story) : story[i] # "accepted"
Open(story) == Begun(story) /\ \A i \in 1 .. Len(story) : story[i] \notin Final
Closed(story) ==
    /\ Begun(story) /\ story[Len(story)] \in Final
    /\ \A i \in 1 .. Len(story) - 1 : story[i] \notin Final

(* What a requester heard, by the phase of its request.                    *)
Story(r) ==
    /\ phase[r] \in Waiting => replies[r] = <<>>
    /\ phase[r] = "asking" => Open(replies[r])
    /\ phase[r] = "delivering" =>
          IF events[r] = <<>> THEN Closed(replies[r])
          ELSE Open(replies[r]) /\ EndsOnce(events[r])
    /\ phase[r] \in Calling =>
          Open(replies[r]) /\ EndsOnce(events[r]) /\ Head(events[r]).op = "tool"
    /\ phase[r] = "ended" => Closed(replies[r]) \/ replies[r] = <<"failed">>

Stories == \A r \in Requests : Story(r)

-----------------------------------------------------------------------------
(* A reply that ends nothing leaves a story open, a final one closes it.   *)
LEMMA OpenGoesOn ==
    ASSUME NEW story, Open(story), NEW kind \in Kinds, kind # "accepted"
    PROVE  /\ Begun(Append(story, kind))
           /\ kind \notin Final => Open(Append(story, kind))
           /\ kind \in Final => Closed(Append(story, kind))
<1> DEFINE next == Append(story, kind)
<1>1. /\ next \in Seq(Kinds) /\ Len(next) = Len(story) + 1 /\ next[Len(next)] = kind
      /\ \A i \in 1 .. Len(story) : next[i] = story[i]
      /\ Len(story) \in Nat /\ Len(story) > 0
  BY DEF Open, Begun
<1>2. Begun(next)
  BY <1>1 DEF Open, Begun
<1> QED BY <1>1, <1>2 DEF Open, Closed

(* An event that ends nothing is not the last, a final reply is.           *)
LEMMA EventTaken ==
    ASSUME NEW script, EndsOnce(script)
    PROVE  /\ Head(script) = script[1] /\ Head(script) \in Event /\ Tail(script) \in Seq(Event)
           /\ (Head(script).op = "reply" /\ Head(script).kind \in Final) <=> Tail(script) = <<>>
           /\ Tail(script) # <<>> => EndsOnce(Tail(script))
<1>1. /\ script \in Seq(Event) /\ script # <<>>
      /\ Len(script) \in Nat \ {0} /\ DOMAIN script = 1 .. Len(script)
  BY DEF EndsOnce
<1>2. /\ Head(script) = script[1] /\ Head(script) \in Event /\ Tail(script) \in Seq(Event)
      /\ Len(Tail(script)) = Len(script) - 1
      /\ \A i \in 1 .. Len(script) - 1 : Tail(script)[i] = script[i + 1]
      /\ DOMAIN Tail(script) = 1 .. Len(script) - 1
  BY <1>1
<1>3. Tail(script) = <<>> <=> Len(script) = 1
  BY <1>1, <1>2
<1>4. (Head(script).op = "reply" /\ Head(script).kind \in Final) <=> 1 = Len(script)
  BY <1>1, <1>2 DEF EndsOnce
<1>5. ASSUME Tail(script) # <<>> PROVE EndsOnce(Tail(script))
  <2> SUFFICES ASSUME NEW i \in 1 .. Len(script) - 1
      PROVE  (Tail(script)[i].op = "reply" /\ Tail(script)[i].kind \in Final)
                <=> i = Len(Tail(script))
    BY <1>2, <1>5 DEF EndsOnce
  <2>1. i + 1 \in DOMAIN script /\ Tail(script)[i] = script[i + 1]
    BY <1>1, <1>2
  <2>2. (script[i + 1].op = "reply" /\ script[i + 1].kind \in Final) <=> i + 1 = Len(script)
    BY <2>1 DEF EndsOnce
  <2>3. i + 1 = Len(script) <=> i = Len(Tail(script))
    BY <1>1, <1>2
  <2> QED BY <2>1, <2>2, <2>3
<1> QED BY <1>2, <1>3, <1>4, <1>5

-----------------------------------------------------------------------------
(* A reply is put behind the ones a requester had.                         *)
LEMMA StoryTold ==
    ASSUME Types, NEW r \in Requests, NEW kind \in Kinds,
           replies' = [replies EXCEPT ![r] = Append(@, kind)]
    PROVE  /\ replies' \in [Requests -> Seq(Kinds)]
           /\ replies'[r] = Append(replies[r], kind)
           /\ \A s \in Requests \ {r} : replies'[s] = replies[s]
<1>1. Append(replies[r], kind) \in Seq(Kinds)
  BY DEF Types
<1> QED BY <1>1 DEF Types

-----------------------------------------------------------------------------
(* The invariant's first part holds to begin with.                         *)
THEOREM InitTypes == Init => Types
BY InferenceAssumption DEF Init, Types, Phases, Waiting

(* Every step keeps the types: what is told, queued or consumed is of its *)
(* kind.                                                                   *)
LEMMA NextTypes == Types /\ Stories /\ [Next]_vars => Types'
<1> SUFFICES ASSUME Types, Stories, [Next]_vars PROVE Types'
  OBVIOUS
<1> USE DEF Types, Kinds, Phases, Waiting, Calling, plane, tasks, gateway
<1>0. CASE UNCHANGED vars
  BY <1>0 DEF vars
<1>1. CASE EstablishIdentity
  BY <1>1 DEF EstablishIdentity
<1>2. CASE LoseIdentity
  BY <1>2 DEF LoseIdentity
<1>3. CASE AcceptOrReject
  <2>1. Head(inbound) \in Requests /\ Tail(inbound) \in Seq(Requests)
    BY <1>3 DEF AcceptOrReject
  <2>2. replies' \in [Requests -> Seq(Kinds)]
    BY <1>3, <2>1, StoryTold DEF AcceptOrReject, Tell
  <2>3. permits' \in Nat
    BY <1>3 DEF AcceptOrReject
  <2>4. phase' \in [Requests -> Phases]
    BY <1>3, <2>1 DEF AcceptOrReject
  <2> QED BY <1>3, <2>1, <2>2, <2>3, <2>4 DEF AcceptOrReject
<1>4. ASSUME NEW r \in Requests, Submit(r) PROVE Types'
  <2>1. Append(inbound, r) \in Seq(Requests)
    OBVIOUS
  <2> QED BY <1>4, <2>1 DEF Submit
<1>5. ASSUME NEW r \in Requests, DeadlinePasses(r) PROVE Types'
  BY <1>5 DEF DeadlinePasses
<1>6. ASSUME NEW r \in Requests, ProviderReturns(r) PROVE Types'
  BY <1>6, ProviderAssumption DEF ProviderReturns, EndsOnce
<1>7. ASSUME NEW r \in Requests, Expire(r) PROVE Types'
  <2>1. replies' \in [Requests -> Seq(Kinds)]
    BY <1>7, StoryTold DEF Expire, Tell
  <2>2. <<>> \in Seq(Event)
    OBVIOUS
  <2>3. events' \in [Requests -> Seq(Event)]
    BY <1>7, <2>2 DEF Expire
  <2> QED BY <1>7, <2>1, <2>3 DEF Expire
<1>8. ASSUME NEW r \in Requests, Forward(r) PROVE Types'
  <2>1. Head(events[r]) \in Event /\ Tail(events[r]) \in Seq(Event)
    BY <1>8 DEF Forward, Due
  <2>2. Head(events[r]).kind \in {"progress", "chunk", "completed", "failed"}
    BY <1>8, <2>1 DEF Forward, Event
  <2>3. Head(events[r]).kind \in Kinds
    BY <2>2
  <2>4. replies' \in [Requests -> Seq(Kinds)]
    BY <1>8, <2>3, StoryTold DEF Forward, Tell
  <2> QED BY <1>8, <2>1, <2>4 DEF Forward
<1>9. ASSUME NEW r \in Requests, ProposeToolCall(r) PROVE Types'
  BY <1>9 DEF ProposeToolCall
<1>10. ASSUME NEW r \in Requests, phase[r] \in Calling PROVE Tail(events[r]) \in Seq(Event)
  BY <1>10 DEF Stories, Story, EndsOnce
<1>11. ASSUME NEW r \in Requests, Evaluate(r) PROVE Types'
  BY <1>11, <1>10 DEF Evaluate, Answered
<1>12. ASSUME NEW r \in Requests, PublishLatestValue(r) PROVE Types'
  <2>1. loaded[r] + 1 \in Nat /\ Tail(events[r]) \in Seq(Event)
    BY <1>12, <1>10 DEF PublishLatestValue
  <2>2. [request |-> r, revision |-> loaded[r] + 1] \in [request : Requests, revision : Nat]
    BY <2>1
  <2>3. effects' \subseteq [request : Requests, revision : Nat] /\ sequence' \in Nat
    BY <1>12, <2>1, <2>2 DEF PublishLatestValue
  <2>4. events' \in [Requests -> Seq(Event)] /\ phase' \in [Requests -> Phases]
    BY <1>12, <2>1 DEF PublishLatestValue, Answered
  <2> QED BY <1>12, <2>3, <2>4 DEF PublishLatestValue
<1>13. ASSUME NEW r \in Requests, StoreRevision(r) PROVE Types'
  <2>1. loaded[r] + 1 \in Nat \ {0} /\ Tail(events[r]) \in Seq(Event)
    BY <1>13, <1>10 DEF StoreRevision
  <2>2. events' \in [Requests -> Seq(Event)] /\ phase' \in [Requests -> Phases]
    BY <1>13, <2>1 DEF StoreRevision, Answered
  <2> QED BY <1>13, <2>1, <2>2 DEF StoreRevision
<1>14. ASSUME NEW r \in Requests, Finish(r) PROVE Types'
  <2>1. permits' \in Nat
    BY <1>14 DEF Finish
  <2>2. phase' \in [Requests -> Phases]
    BY <1>14 DEF Finish
  <2> QED BY <1>14, <2>1, <2>2 DEF Finish
<1> QED BY <1>0, <1>1, <1>2, <1>3, <1>4, <1>5, <1>6, <1>7, <1>8, <1>9, <1>11, <1>12, <1>13,
           <1>14 DEF Next, Task

-----------------------------------------------------------------------------
(* What neither enters nor leaves a publication disturbs no revision.      *)
LEMMA ElsewhereRevisions ==
    ASSUME Types, Revisions, phase' \in [Requests -> Phases],
           UNCHANGED <<revision, sequence, effects, loaded>>,
           \A r \in Requests : /\ phase'[r] \in {"publishing", "storing"} => phase'[r] = phase[r]
                               /\ phase[r] = "storing" => phase'[r] = "storing"
    PROVE  Revisions'
BY DEF Types, Revisions

(* Every step keeps revision and sequence together.  Evaluate, publication *)
(* and store are the steps that matter: a publication the core takes is    *)
(* the one that read the current revision, with no store outstanding.      *)
LEMMA NextRevisions == Types /\ Types' /\ Queued /\ Revisions /\ [Next]_vars => Revisions'
<1> SUFFICES ASSUME Types, Types', Queued, Revisions, [Next]_vars PROVE Revisions'
  OBVIOUS
<1> USE DEF plane, tasks, gateway
<1>a. phase \in [Requests -> Phases] /\ phase' \in [Requests -> Phases]
  BY DEF Types
<1>0. CASE UNCHANGED vars
  BY <1>0, <1>a, ElsewhereRevisions DEF vars
<1>1. CASE EstablishIdentity
  BY <1>1, <1>a, ElsewhereRevisions DEF EstablishIdentity
<1>2. CASE LoseIdentity
  BY <1>2, <1>a, ElsewhereRevisions DEF LoseIdentity
<1>3. CASE AcceptOrReject
  <2>1. Head(inbound) = inbound[1] /\ Head(inbound) \in Requests /\ 1 \in 1 .. Len(inbound)
    BY <1>3 DEF AcceptOrReject, Types
  <2>2. phase[Head(inbound)] = "inbound"
    BY <2>1 DEF Queued
  <2> QED BY <1>3, <1>a, <2>1, <2>2, ElsewhereRevisions DEF AcceptOrReject
<1>4. ASSUME NEW r \in Requests, Submit(r) PROVE Revisions'
  BY <1>4, <1>a, ElsewhereRevisions DEF Submit
<1>5. ASSUME NEW r \in Requests, DeadlinePasses(r) PROVE Revisions'
  BY <1>5, <1>a, ElsewhereRevisions DEF DeadlinePasses
<1>6. ASSUME NEW r \in Requests, ProviderReturns(r) PROVE Revisions'
  BY <1>6, <1>a, ElsewhereRevisions DEF ProviderReturns
<1>7. ASSUME NEW r \in Requests, Expire(r) PROVE Revisions'
  BY <1>7, <1>a, ElsewhereRevisions DEF Expire
<1>8. ASSUME NEW r \in Requests, Forward(r) PROVE Revisions'
  BY <1>8, <1>a, ElsewhereRevisions DEF Forward
<1>9. ASSUME NEW r \in Requests, ProposeToolCall(r) PROVE Revisions'
  BY <1>9, <1>a, ElsewhereRevisions DEF ProposeToolCall, Due
<1>10. ASSUME NEW r \in Requests, Evaluate(r) PROVE Revisions'
  <2>1. CASE phase' = [phase EXCEPT ![r] = "publishing"]
        /\ loaded' = [loaded EXCEPT ![r] = revision]
    BY <1>10, <2>1 DEF Evaluate, Types, Revisions
  <2>2. CASE Answered(r) /\ UNCHANGED loaded
    BY <1>10, <1>a, <2>2, ElsewhereRevisions DEF Evaluate, Answered
  <2> QED BY <1>10, <2>1, <2>2 DEF Evaluate
<1>11. ASSUME NEW r \in Requests, PublishLatestValue(r) PROVE Revisions'
  <2>1. CASE Publishable(loaded[r] + 1)
    <3>1. /\ loaded[r] \in Nat \ {0} /\ loaded[r] <= revision /\ loaded[r] + 1 > sequence
          /\ revision \in Nat \ {0} /\ sequence \in Nat
      BY <1>11, <2>1 DEF PublishLatestValue, Publishable, Revisions, Types
    <3>2. \A s \in Requests : phase[s] # "storing"
      BY <3>1 DEF Revisions
    <3>3. loaded[r] = revision
      BY <3>1, <3>2 DEF Revisions
    <3>4. /\ sequence' = revision + 1 /\ phase' = [phase EXCEPT ![r] = "storing"]
          /\ effects' = effects \cup {[request |-> r, revision |-> revision + 1]}
          /\ UNCHANGED <<revision, loaded>>
      BY <1>11, <2>1, <3>3 DEF PublishLatestValue
    <3>5. \A a \in effects : a.revision \in Nat /\ a.revision < revision + 1
      <4> SUFFICES ASSUME NEW a \in effects
          PROVE  a.revision \in Nat /\ a.revision < revision + 1
        OBVIOUS
      <4>1. a.revision \in Nat
        BY DEF Types
      <4>2. a.revision <= sequence /\ sequence < revision + 1
        BY <3>1, <3>3 DEF Revisions
      <4> QED BY <3>1, <4>1, <4>2
    <3>6. /\ \A a \in effects' : a.revision <= sequence'
          /\ \A a, b \in effects' : a.revision = b.revision => a = b
      <4> DEFINE new == [request |-> r, revision |-> revision + 1]
      <4>1. new.revision = revision + 1
        OBVIOUS
      <4> HIDE DEF new
      <4>2. \A a \in effects' : a = new \/ a \in effects
        BY <3>4 DEF new
      <4>3. \A a \in effects' : a.revision <= sequence'
        BY <3>1, <3>4, <3>5, <4>1, <4>2
      <4>4. \A a, b \in effects : a.revision = b.revision => a = b
        BY DEF Revisions
      <4>5. \A a \in effects : a.revision # new.revision
        BY <3>1, <3>5, <4>1
      <4> QED BY <4>2, <4>3, <4>4, <4>5
    <3> QED BY <1>a, <3>1, <3>2, <3>3, <3>4, <3>6 DEF Revisions
  <2>2. CASE ~Publishable(loaded[r] + 1)
    BY <1>11, <1>a, <2>2, ElsewhereRevisions DEF PublishLatestValue, Answered
  <2> QED BY <2>1, <2>2
<1>12. ASSUME NEW r \in Requests, StoreRevision(r) PROVE Revisions'
  <2>1. loaded[r] = revision /\ sequence = revision + 1 /\ revision \in Nat \ {0}
    BY <1>12 DEF StoreRevision, Revisions, Types
  <2>2. \A s \in Requests : phase[s] = "storing" => s = r
    BY <1>12 DEF StoreRevision, Revisions
  <2>3. /\ revision' = revision + 1 /\ phase' = [phase EXCEPT ![r] = "delivering"]
        /\ UNCHANGED <<sequence, effects, loaded>>
    BY <1>12, <2>1 DEF StoreRevision, Answered
  <2>4. \A s \in Requests : phase'[s] # "storing"
    <3> SUFFICES ASSUME NEW s \in Requests PROVE phase'[s] # "storing"
      OBVIOUS
    <3>1. CASE s = r
      BY <1>a, <2>3, <3>1
    <3>2. CASE s # r
      <4>1. phase'[s] = phase[s]
        BY <1>a, <2>3, <3>2
      <4> QED BY <2>2, <3>2, <4>1
    <3> QED BY <3>1, <3>2
  <2>5. \A s \in Requests : phase'[s] = "publishing" => loaded[s] # 0 /\ loaded[s] <= revision + 1
    <3> SUFFICES ASSUME NEW s \in Requests, phase'[s] = "publishing"
        PROVE  loaded[s] # 0 /\ loaded[s] <= revision + 1
      OBVIOUS
    <3>1. phase[s] = "publishing"
      BY <1>a, <2>3
    <3>2. loaded[s] # 0 /\ loaded[s] <= revision /\ loaded[s] \in Nat
      BY <1>a, <3>1 DEF Revisions, Types
    <3> QED BY <2>1, <3>2
  <2>6. /\ \A a \in effects : a.revision <= sequence
        /\ \A a, b \in effects : a.revision = b.revision => a = b
    BY DEF Revisions
  <2>7. sequence' = revision' /\ revision' = revision + 1
    BY <2>1, <2>3
  <2> QED BY <2>3, <2>4, <2>5, <2>6, <2>7 DEF Revisions
<1>13. ASSUME NEW r \in Requests, Finish(r) PROVE Revisions'
  BY <1>13, <1>a, ElsewhereRevisions DEF Finish
<1> QED BY <1>0, <1>1, <1>2, <1>3, <1>4, <1>5, <1>6, <1>7, <1>8, <1>9, <1>10, <1>11, <1>12,
           <1>13 DEF Next, Task

-----------------------------------------------------------------------------
(* Every step keeps the sink a list of the waiting requests.               *)
LEMMA NextQueued == Types /\ Queued /\ [Next]_vars => Queued'
<1> SUFFICES ASSUME Types, Queued, [Next]_vars PROVE Queued'
  OBVIOUS
<1> USE DEF plane, tasks, gateway
<1>a. inbound \in Seq(Requests) /\ phase \in [Requests -> Phases]
  BY DEF Types
<1>0. CASE UNCHANGED <<inbound, phase>>
  BY <1>0 DEF Queued
<1>1. CASE AcceptOrReject
  <2>1. /\ inbound' = Tail(inbound) /\ inbound # <<>>
        /\ Len(inbound') = Len(inbound) - 1 /\ Len(inbound) \in Nat \ {0}
        /\ \A i \in 1 .. Len(inbound) - 1 : inbound'[i] = inbound[i + 1]
        /\ Head(inbound) = inbound[1] /\ Head(inbound) \in Requests
    BY <1>1, <1>a DEF AcceptOrReject
  <2>2. \A s \in Requests \ {inbound[1]} : phase'[s] = phase[s]
    BY <1>1, <1>a, <2>1 DEF AcceptOrReject
  <2>3. \A i \in 1 .. Len(inbound) - 1 :
           /\ i + 1 \in 1 .. Len(inbound) /\ inbound[i + 1] \in Requests
           /\ inbound[i + 1] # inbound[1]
    BY <1>a, <2>1 DEF Queued
  <2>4. \A i \in 1 .. Len(inbound') : phase'[inbound'[i]] = "inbound"
    BY <2>1, <2>2, <2>3 DEF Queued
  <2>5. \A i, j \in 1 .. Len(inbound') : inbound'[i] = inbound'[j] => i = j
    <3> SUFFICES ASSUME NEW i \in 1 .. Len(inbound'), NEW j \in 1 .. Len(inbound'),
                        inbound'[i] = inbound'[j]
        PROVE  i = j
      OBVIOUS
    <3>1. i + 1 = j + 1
      BY <2>1, <2>3 DEF Queued
    <3> QED BY <2>1, <3>1
  <2> QED BY <2>4, <2>5 DEF Queued
<1>2. ASSUME NEW r \in Requests, Submit(r) PROVE Queued'
  <2>1. CASE Len(inbound) < SinkCapacity
    <3>1. /\ inbound' = Append(inbound, r) /\ Len(inbound') = Len(inbound) + 1
          /\ \A i \in 1 .. Len(inbound) : inbound'[i] = inbound[i] /\ inbound[i] \in Requests
          /\ inbound'[Len(inbound) + 1] = r /\ Len(inbound) \in Nat
      BY <1>2, <1>a, <2>1 DEF Submit
    <3>2. /\ phase'[r] = "inbound" /\ \A s \in Requests \ {r} : phase'[s] = phase[s]
          /\ phase[r] = "absent"
      BY <1>2, <1>a, <2>1 DEF Submit
    <3>3. \A i \in 1 .. Len(inbound) : inbound[i] # r
      BY <3>2 DEF Queued
    <3> QED BY <3>1, <3>2, <3>3 DEF Queued
  <2>2. CASE ~(Len(inbound) < SinkCapacity)
    <3>1. /\ UNCHANGED inbound /\ phase[r] = "absent"
          /\ \A s \in Requests \ {r} : phase'[s] = phase[s]
      BY <1>2, <1>a, <2>2 DEF Submit
    <3>2. \A i \in 1 .. Len(inbound) : inbound[i] \in Requests \ {r}
      BY <1>a, <3>1 DEF Queued
    <3> QED BY <3>1, <3>2 DEF Queued
  <2> QED BY <2>1, <2>2
<1>3. ASSUME NEW r \in Requests, Task(r) PROVE Queued'
  <2>1. UNCHANGED inbound /\ phase[r] # "inbound"
    BY <1>3 DEF Task, ProviderReturns, Expire, Forward, Due, ProposeToolCall, Evaluate,
                PublishLatestValue, StoreRevision, Finish
  <2>2. \A s \in Requests \ {r} : phase'[s] = phase[s]
    BY <1>3, <1>a DEF Task, ProviderReturns, Expire, Forward, ProposeToolCall, Evaluate,
                PublishLatestValue, StoreRevision, Finish, Answered
  <2>3. \A i \in 1 .. Len(inbound) : inbound[i] \in Requests \ {r}
    BY <1>a, <2>1 DEF Queued
  <2> QED BY <2>1, <2>2, <2>3 DEF Queued
<1> QED BY <1>0, <1>1, <1>2, <1>3 DEF Next, vars, EstablishIdentity, LoseIdentity, DeadlinePasses

-----------------------------------------------------------------------------
(* A request whose task does not move keeps its story.                     *)
LEMMA SameStory ==
    ASSUME NEW r \in Requests, Story(r), phase'[r] = phase[r], events'[r] = events[r],
           replies'[r] = replies[r]
    PROVE  Story(r)'
BY DEF Story

(* Every step keeps each requester's story in agreement with its phase.   *)
LEMMA NextStories == Types /\ Types' /\ Queued /\ Stories /\ [Next]_vars => Stories'
<1> SUFFICES ASSUME Types, Types', Queued, Stories, [Next]_vars, NEW s \in Requests
    PROVE  Story(s)'
  BY DEF Stories
<1> USE DEF plane, tasks, gateway
<1>a. /\ phase \in [Requests -> Phases] /\ events \in [Requests -> Seq(Event)]
      /\ replies \in [Requests -> Seq(Kinds)]
  BY DEF Types
<1>b. Story(s)
  BY DEF Stories
<1>0. CASE UNCHANGED <<phase, events, replies>>
  BY <1>0, <1>b, SameStory
<1>1. CASE AcceptOrReject
  <2> DEFINE head == Head(inbound)
  <2>1. head = inbound[1] /\ head \in Requests /\ 1 \in 1 .. Len(inbound)
    BY <1>1 DEF AcceptOrReject, Types
  <2>2. phase[head] = "inbound" /\ replies[head] = <<>>
    BY <2>1 DEF Queued, Stories, Story, Waiting
  <2>3. CASE s = head
    <3>1. CASE permits > 0
      <4>1. phase'[s] = "asking" /\ replies'[s] = <<"accepted">>
        BY <1>1, <1>a, <2>2, <2>3, <3>1 DEF AcceptOrReject, Tell
      <4>2. Open(<<"accepted">>)
        BY DEF Open, Begun, Kinds, Final
      <4> QED BY <4>1, <4>2 DEF Story, Waiting, Calling
    <3>2. CASE ~(permits > 0)
      <4>1. phase'[s] = "ended" /\ replies'[s] = <<"failed">>
        BY <1>1, <1>a, <2>2, <2>3, <3>2 DEF AcceptOrReject, Tell
      <4> QED BY <4>1 DEF Story, Waiting, Calling
    <3> QED BY <3>1, <3>2
  <2>4. CASE s # head
    BY <1>1, <1>a, <1>b, <2>1, <2>4, SameStory DEF AcceptOrReject, Tell
  <2> QED BY <2>3, <2>4
<1>2. ASSUME NEW r \in Requests, Submit(r) \/ Task(r), r # s PROVE Story(s)'
  <2>1. phase'[s] = phase[s] /\ events'[s] = events[s] /\ replies'[s] = replies[s]
    BY <1>2, <1>a DEF Submit, Task, ProviderReturns, Expire, Forward, ProposeToolCall, Evaluate,
                PublishLatestValue, StoreRevision, Finish, Answered, Tell
  <2> QED BY <2>1, <1>b, SameStory
<1>3. CASE Submit(s)
  <2>1. phase[s] = "absent" /\ phase'[s] \in Waiting /\ replies'[s] = replies[s]
    BY <1>3, <1>a DEF Submit, Waiting
  <2> QED BY <2>1, <1>b DEF Story, Waiting, Calling
<1>4. CASE ProviderReturns(s)
  <2>1. /\ Open(replies[s]) /\ phase'[s] = "delivering" /\ replies'[s] = replies[s]
        /\ events'[s] \in Scripts
    BY <1>4, <1>a, <1>b DEF ProviderReturns, Story
  <2>2. EndsOnce(events'[s]) /\ events'[s] # <<>>
    BY <2>1, ProviderAssumption DEF EndsOnce
  <2> QED BY <2>1, <2>2 DEF Story, Waiting, Calling
<1>5. CASE Expire(s)
  <2>1. Open(replies[s])
    BY <1>5, <1>b DEF Expire, Story
  <2>2. /\ phase'[s] = "delivering" /\ events'[s] = <<>>
        /\ replies'[s] = Append(replies[s], "expired")
    BY <1>5, <1>a DEF Expire, Tell
  <2>3. Closed(Append(replies[s], "expired"))
    BY <2>1, OpenGoesOn DEF Kinds, Final
  <2> QED BY <2>2, <2>3 DEF Story, Waiting, Calling
<1>6. CASE Forward(s)
  <2> DEFINE kind == Head(events[s]).kind
  <2>1. Open(replies[s]) /\ EndsOnce(events[s])
    BY <1>6, <1>b DEF Forward, Due, Story
  <2>2. /\ phase'[s] = "delivering" /\ events'[s] = Tail(events[s])
        /\ replies'[s] = Append(replies[s], kind)
    BY <1>6, <1>a DEF Forward, Due, Tell
  <2>3. Head(events[s]) \in Event /\ Head(events[s]).op = "reply"
    BY <1>6, <2>1, EventTaken DEF Forward
  <2>4. kind \in {"progress", "chunk", "completed", "failed"}
    BY <2>3 DEF Event
  <2>5. kind \in Final <=> Tail(events[s]) = <<>>
    BY <2>1, <2>3, EventTaken
  <2>6. Tail(events[s]) # <<>> => EndsOnce(Tail(events[s]))
    BY <2>1, EventTaken
  <2>7. /\ kind \notin Final => Open(Append(replies[s], kind))
        /\ kind \in Final => Closed(Append(replies[s], kind))
    BY <2>1, <2>4, OpenGoesOn DEF Kinds
  <2> QED BY <2>2, <2>5, <2>6, <2>7 DEF Story, Waiting, Calling
<1>7. CASE ProposeToolCall(s)
  <2>1. Open(replies[s]) /\ EndsOnce(events[s]) /\ Head(events[s]).op = "tool"
    BY <1>7, <1>b DEF ProposeToolCall, Due, Story
  <2>2. phase'[s] = "evaluating" /\ events'[s] = events[s] /\ replies'[s] = replies[s]
    BY <1>7, <1>a DEF ProposeToolCall
  <2> QED BY <2>1, <2>2 DEF Story, Waiting, Calling
<1>8. ASSUME Evaluate(s) \/ PublishLatestValue(s) \/ StoreRevision(s) PROVE Story(s)'
  <2>1. Open(replies[s]) /\ EndsOnce(events[s]) /\ Head(events[s]).op = "tool"
    BY <1>8, <1>b DEF Evaluate, PublishLatestValue, StoreRevision, Story, Calling
  <2>2. Tail(events[s]) # <<>> /\ EndsOnce(Tail(events[s]))
    <3>1. Head(events[s]).op # "reply"
      BY <2>1
    <3> QED BY <2>1, <3>1, EventTaken
  <2>3. /\ replies'[s] = replies[s]
        /\ \/ phase'[s] \in Calling /\ events'[s] = events[s]
           \/ phase'[s] = "delivering" /\ events'[s] = Tail(events[s])
    BY <1>8, <1>a DEF Evaluate, PublishLatestValue, StoreRevision, Answered, Calling
  <2> QED BY <2>1, <2>2, <2>3 DEF Story, Waiting, Calling
<1>9. CASE Finish(s)
  <2>1. Closed(replies[s])
    BY <1>9, <1>b DEF Finish, Story
  <2>2. phase'[s] = "ended" /\ replies'[s] = replies[s]
    BY <1>9, <1>a DEF Finish
  <2> QED BY <2>1, <2>2 DEF Story, Waiting, Calling
<1> QED BY <1>0, <1>1, <1>2, <1>3, <1>4, <1>5, <1>6, <1>7, <1>8, <1>9 DEF Next, vars, Task,
           EstablishIdentity, LoseIdentity, DeadlinePasses

-----------------------------------------------------------------------------
(* The requests that hold a permit.                                        *)
Holders == {r \in Requests : phase[r] \notin {"absent", "inbound", "dropped", "ended"}}

(* Only finitely many requests can hold one.                               *)
LEMMA ServedFinite == IsFiniteSet(Holders) /\ Cardinality(Holders) \in Nat
BY InferenceAssumption, FS_Subset, FS_CardinalityType DEF Holders

(* Accepting a request takes one permit, finishing it gives one back, and  *)
(* nothing else changes who is served.                                     *)
LEMMA NextPermits == Types /\ Queued /\ PermitsAccounted /\ [Next]_vars => PermitsAccounted'
<1> SUFFICES ASSUME Types, Queued, PermitsAccounted, [Next]_vars PROVE PermitsAccounted'
  OBVIOUS
<1> USE DEF plane, tasks, gateway
<1>a. phase \in [Requests -> Phases] /\ inbound \in Seq(Requests)
  BY DEF Types
<1>b. /\ permits \in Nat
      /\ permits + Cardinality(Holders) = (IF QueueCapacity = 0 THEN 1 ELSE QueueCapacity)
  BY DEF PermitsAccounted, Holders
<1>c. ASSUME UNCHANGED permits, Holders' = Holders PROVE PermitsAccounted'
  BY <1>b, <1>c DEF PermitsAccounted, Holders
<1>0. CASE UNCHANGED <<permits, phase>>
  BY <1>0, <1>c DEF Holders
<1>1. CASE AcceptOrReject
  <2> DEFINE head == Head(inbound)
  <2>1. head = inbound[1] /\ head \in Requests /\ 1 \in 1 .. Len(inbound)
    BY <1>1, <1>a DEF AcceptOrReject
  <2>2. phase[head] = "inbound"
    BY <2>1 DEF Queued
  <2>3. CASE permits > 0
    <3>1. permits' = permits - 1 /\ phase' = [phase EXCEPT ![head] = "asking"]
      BY <1>1, <2>3 DEF AcceptOrReject
    <3>2. Holders' = Holders \cup {head} /\ head \notin Holders
      BY <1>a, <2>1, <2>2, <3>1 DEF Holders
    <3>3. Cardinality(Holders') = Cardinality(Holders) + 1
      BY <3>2, ServedFinite, FS_AddElement
    <3>4. /\ permits' \in Nat
          /\ permits' + Cardinality(Holders') = permits + Cardinality(Holders)
      BY <1>b, <2>3, <3>1, <3>3, ServedFinite
    <3> QED BY <1>b, <3>4 DEF PermitsAccounted, Holders
  <2>4. CASE ~(permits > 0)
    <3>1. UNCHANGED permits /\ phase' = [phase EXCEPT ![head] = "ended"]
      BY <1>1, <2>4 DEF AcceptOrReject
    <3>2. Holders' = Holders
      BY <1>a, <2>1, <2>2, <3>1 DEF Holders
    <3> QED BY <1>c, <3>1, <3>2
  <2> QED BY <2>3, <2>4
<1>2. ASSUME NEW r \in Requests, Submit(r) PROVE PermitsAccounted'
  <2>1. UNCHANGED permits /\ phase[r] = "absent"
    BY <1>2 DEF Submit
  <2>2. phase' = [phase EXCEPT ![r] = "inbound"] \/ phase' = [phase EXCEPT ![r] = "dropped"]
    BY <1>2 DEF Submit
  <2>3. Holders' = Holders
    BY <1>a, <2>1, <2>2 DEF Holders
  <2> QED BY <1>c, <2>1, <2>3
<1>3. ASSUME NEW r \in Requests, Task(r), ~Finish(r) PROVE PermitsAccounted'
  <2>1. UNCHANGED permits /\ phase[r] \notin {"absent", "inbound", "dropped", "ended"}
    BY <1>3 DEF Task, ProviderReturns, Expire, Forward, Due, ProposeToolCall, Evaluate,
                PublishLatestValue, StoreRevision
  <2>2. \/ UNCHANGED phase
        \/ \E p \in {"delivering", "evaluating", "publishing", "storing"} :
               phase' = [phase EXCEPT ![r] = p]
    BY <1>3 DEF Task, ProviderReturns, Expire, Forward, ProposeToolCall, Evaluate,
                PublishLatestValue, StoreRevision, Answered
  <2>3. Holders' = Holders
    BY <1>a, <2>1, <2>2 DEF Holders
  <2> QED BY <1>c, <2>1, <2>3
<1>4. ASSUME NEW r \in Requests, Finish(r) PROVE PermitsAccounted'
  <2>1. /\ permits' = permits + 1 /\ phase' = [phase EXCEPT ![r] = "ended"]
        /\ phase[r] = "delivering"
    BY <1>4 DEF Finish
  <2>2. Holders' = Holders \ {r} /\ r \in Holders
    BY <1>a, <2>1 DEF Holders
  <2>3. Cardinality(Holders') = Cardinality(Holders) - 1
    BY <2>2, ServedFinite, FS_RemoveElement
  <2>4. permits' \in Nat /\ permits' + Cardinality(Holders') = permits + Cardinality(Holders)
    BY <1>b, <2>1, <2>3, ServedFinite
  <2> QED BY <1>b, <2>4 DEF PermitsAccounted, Holders
<1> QED BY <1>0, <1>1, <1>2, <1>3, <1>4 DEF Next, vars, EstablishIdentity, LoseIdentity,
           DeadlinePasses

-----------------------------------------------------------------------------
(* The whole invariant.                                                    *)
IInv == Types /\ Revisions /\ Queued /\ Stories /\ PermitsAccounted

(* It holds before the identity is established.                            *)
LEMMA Initially == Init => IInv
<1> SUFFICES ASSUME Init PROVE IInv
  OBVIOUS
<1>1. Types
  BY InitTypes
<1>2. Revisions /\ Queued
  BY DEF Init, Revisions, Queued
<1>3. Stories
  BY DEF Init, Stories, Story, Waiting, Calling
<1>4. Holders = {}
  BY DEF Init, Holders
<1>5. PermitsAccounted
  <2>1. Cardinality(Holders) = 0
    BY <1>4, FS_EmptySet
  <2> QED BY <2>1, InferenceAssumption DEF Init, PermitsAccounted, Holders
<1> QED BY <1>1, <1>2, <1>3, <1>5 DEF IInv

(* Every step keeps all of it.                                             *)
LEMMA Inductive == IInv /\ [Next]_vars => IInv'
BY NextTypes, NextRevisions, NextQueued, NextStories, NextPermits DEF IInv

(* It holds in every state.                                                *)
LEMMA Always == Spec => []IInv
BY Initially, Inductive, PTL DEF Spec

(* However many tool calls are evaluated at the same time, each revision   *)
(* is published once, and the tool's revision is the core's, or one behind *)
(* it while only the call that published is still to store.                *)
THEOREM OneEffectPerRevisionTheorem == Spec => []OneEffectPerRevision
<1>1. IInv => OneEffectPerRevision
  <2> SUFFICES ASSUME IInv PROVE OneEffectPerRevision
    OBVIOUS
  <2>1. ASSUME NEW r \in Requests, phase[r] = "storing"
        PROVE  /\ {s \in Requests : phase[s] = "storing"} = {r}
               /\ loaded[r] = revision /\ sequence = revision + 1
    BY <2>1 DEF IInv, Revisions
  <2>2. {s \in Requests : phase[s] = "storing"} = {}
            => sequence = revision \/ (sequence = 0 /\ revision = 1)
    BY DEF IInv, Revisions
  <2> QED BY <2>1, <2>2 DEF IInv, Revisions, OneEffectPerRevision
<1> QED BY <1>1, Always, PTL

(* A requester hears acceptance or refusal first, at most one end, and     *)
(* nothing after it, whatever events its provider returned and whenever    *)
(* its deadline passed.                                                    *)
THEOREM OneOutcomeTheorem == Spec => []OneOutcome
<1>1. IInv => OneOutcome
  <2> SUFFICES ASSUME IInv, NEW r \in Requests
      PROVE  /\ \A i \in DOMAIN replies[r] :
                   /\ replies[r][i] \in Final => i = Len(replies[r])
                   /\ replies[r][i] = "accepted" <=> i = 1 /\ replies[r] # <<"failed">>
             /\ phase[r] = "ended" => /\ replies[r] # <<>>
                                      /\ replies[r][Len(replies[r])] \in Final
    BY DEF OneOutcome
  <2>1. Story(r) /\ phase[r] \in Phases
    BY DEF IInv, Stories, Types
  <2>2. replies[r] = <<>> \/ replies[r] = <<"failed">> \/ Open(replies[r]) \/ Closed(replies[r])
    BY <2>1 DEF Story, Phases, Waiting, Calling
  <2>3. phase[r] = "ended" => Closed(replies[r]) \/ replies[r] = <<"failed">>
    BY <2>1 DEF Story
  <2>4. CASE replies[r] = <<>>
    BY <2>3, <2>4 DEF Closed, Begun
  <2>5. CASE replies[r] = <<"failed">>
    BY <2>5 DEF Final
  <2>6. CASE Open(replies[r]) \/ Closed(replies[r])
    <3>1. /\ replies[r] \in Seq(Kinds) /\ Len(replies[r]) \in Nat \ {0}
          /\ DOMAIN replies[r] = 1 .. Len(replies[r]) /\ replies[r] # <<>>
          /\ replies[r][1] = "accepted" /\ replies[r] # <<"failed">>
      BY <2>6 DEF Open, Closed, Begun
    <3>2. \A i \in 1 .. Len(replies[r]) : replies[r][i] = "accepted" <=> i = 1
      BY <2>6, <3>1 DEF Open, Closed, Begun
    <3>3. \A i \in 1 .. Len(replies[r]) : replies[r][i] \in Final => i = Len(replies[r])
      BY <2>6, <3>1 DEF Open, Closed
    <3>4. phase[r] = "ended" => replies[r][Len(replies[r])] \in Final
      BY <2>3, <3>1 DEF Closed
    <3> QED BY <3>1, <3>2, <3>3, <3>4
  <2> QED BY <2>2, <2>4, <2>5, <2>6
<1> QED BY <1>1, Always, PTL

(* No permit is lost or handed out twice: the requests being served and    *)
(* the permits left always add up to the configured capacity.              *)
THEOREM PermitsAccountedTheorem == Spec => []PermitsAccounted
BY Always, PTL DEF IInv

(***************************************************************************)
(* The worker and the tasks of its connections.                            *)
(***************************************************************************)
(* What the worker has left to do: notifications and clean-ups.            *)
Notification == [op : {"entered", "left"}, entity : Entities, space : Spaces,
                 except : SUBSET Connections]
Clean == [op : {"cleanup"}, connection : Connections]
Item == Notification \cup Clean

(* The types the specification promises, and those of what it left open.   *)
LifecycleTypes ==
    /\ TypeOK
    /\ place \in Seq(Spaces \cup {Gone}) /\ Len(place) = Len(owners)
    /\ work \in Seq(Item)
    /\ told \in [Connections -> SUBSET (Entities \X Spaces)]
    /\ \E n \in Nat : recipients \subseteq 1..n

(* How far each connection is, and what it left in core and mirrors.       *)
Unregistered == {"new", "accepted"}
Greeting == Unregistered \cup {"hello", "authenticate"}

Staged(c) ==
    /\ reader[c] = "new" => c \notin known
    /\ reader[c] = "accepted" => c \in known
    /\ reader[c] \in Unregistered =>
          c \notin recipients /\ writer[c] = "none" /\ drainer[c] = "none"
    /\ reader[c] \in Greeting => subscribed[c] = {} /\ subscriptions[c] = {}
    /\ reader[c] \in {"waiting", "closed"} => c \notin known
    /\ c \in known =>
          /\ reader[c] \notin Unregistered => c \in recipients
          /\ reader[c] \in {"open", "flushing"} => subscribed[c] = subscriptions[c]
          /\ reader[c] \in {"accepting", "activating"} =>
                subscribed[c] = subscriptions[c] \cup {target[c]}
    /\ reader[c] \in {"accepting", "activating"} => target[c] \in Spaces

(* Every connection is where its stage says, and notifications go to who   *)
(* is registered or has just been cut off.                                 *)
Stages ==
    /\ \A c \in Connections : Staged(c)
    /\ recipients \subseteq known \cup cut

(* What the rest w of a fan-out is going to say and do.                    *)
Announces(w, e, x, c) ==
    \E i \in 1..Len(w) :
        w[i].op = "entered" /\ w[i].entity = e /\ w[i].space = x /\ c \notin w[i].except
Retracts(w, e, x) ==
    \E i \in 1..Len(w) : w[i].op = "left" /\ w[i].entity = e /\ w[i].space = x
Drops(w, c) ==
    \E i \in 1..Len(w) : w[i].op = "cleanup" /\ w[i].connection = c

(* Item i of w is still true.                                              *)
Valid(w, i) ==
    /\ w[i].op = "entered" =>
          /\ w[i].except \subseteq {owners[w[i].entity]}
          /\ \/ place[w[i].entity] = w[i].space
             \/ owners[w[i].entity] \in cut
             \/ w[i].entity \in overtaken
    /\ w[i].op = "left" =>
          /\ w[i].except = {}
          /\ \/ place[w[i].entity] # w[i].space
             \/ \E j \in 1..Len(w) :
                    /\ j > i /\ w[j].op = "entered" /\ w[j].entity = w[i].entity
                    /\ w[j].space = w[i].space /\ w[j].except = {}
    /\ w[i].op = "cleanup" => reader[w[i].connection] \notin Unregistered

(* All of w is.                                                            *)
Valids(w) == \A i \in 1..Len(w) : Valid(w, i)

(* c has been told of whoever is where it listens and of whoever left, or  *)
(* will be by the rest w of the fan-out, unless w drops c.                 *)
News(w, c) ==
    /\ \A x \in subscriptions[c] : \A e \in Present(x) :
          owners[e] = c \/ <<e, x>> \in told[c] \/ Announces(w, e, x, c) \/ Drops(w, c)
    /\ \A e \in Entities : \A x \in subscriptions[c] :
          <<e, x>> \in told[c] =>
              \/ place[e] = x \/ owners[e] \in cut \/ e \in overtaken
              \/ Retracts(w, e, x) \/ Drops(w, c)

(* No active connection misses anything.                                   *)
AllNews == \A c \in recipients : News(work, c)

(* The whole invariant.                                                    *)
LifecycleInvariant == LifecycleTypes /\ Stages /\ Valids(work) /\ AllNews
-----------------------------------------------------------------------------
(* The ascending list of a set has its elements and no others.             *)
LEMMA AscendingLists ==
    ASSUME NEW N \in Nat, NEW S \in SUBSET (1..N)
    PROVE  /\ Ascending(S) \in Seq(S) /\ Len(Ascending(S)) \in Nat
           /\ DOMAIN Ascending(S) = 1..Len(Ascending(S))
           /\ \A i \in 1..Len(Ascending(S)) : Ascending(S)[i] \in S
           /\ \A n \in S : \E i \in 1..Len(Ascending(S)) : Ascending(S)[i] = n
<1> DEFINE C == Cardinality(S)
           pos == [i \in 1..C |-> CHOOSE n \in S : RankIn(S, n) = i]
<1>0. \A n \in S : n \in Nat
  OBVIOUS
<1>1. /\ C \in Nat
      /\ \A n \in S : n \in Nat /\ RankIn(S, n) \in 1..C
      /\ \A m, n \in S : m < n => RankIn(S, m) < RankIn(S, n)
      /\ \A i \in 1..C : \E n \in S : RankIn(S, n) = i
  BY RankProperties
<1>2. Ascending(S) = pos
  BY DEF Ascending
<1> HIDE DEF C
<1>3. \A i \in 1..C : pos[i] \in S /\ RankIn(S, pos[i]) = i
  BY <1>1
<1>4. pos \in Seq(S) /\ Len(pos) = C /\ DOMAIN pos = 1..C
  BY <1>1, <1>3
<1> HIDE DEF pos
<1>5. ASSUME NEW n \in S PROVE \E i \in 1..C : pos[i] = n
  <2>1. PICK i \in 1..C : RankIn(S, n) = i
    BY <1>1
  <2>2. pos[i] \in S /\ RankIn(S, pos[i]) = i
    BY <1>3
  <2>3. n \in Nat /\ pos[i] \in Nat
    BY <1>0, <2>2
  <2>4. pos[i] = n
    BY <1>1, <2>1, <2>2, <2>3
  <2> QED BY <2>4
<1> QED BY <1>1, <1>2, <1>3, <1>4, <1>5

(* d tells that each entity of c left the space it was in.                 *)
TellsDepartures(d, c) ==
    /\ d \in Seq(Notification) /\ Len(d) \in Nat
    /\ \A i \in 1..Len(d) : /\ d[i].op = "left" /\ d[i].except = {}
                            /\ d[i].entity \in OwnedBy(c) /\ d[i].space = place[d[i].entity]
    /\ \A e \in OwnedBy(c) : \E i \in 1..Len(d) : d[i].entity = e

(* d cleans up after each connection of S.                                 *)
CleansUp(d, S) ==
    /\ d \in Seq(Clean) /\ Len(d) \in Nat
    /\ \A i \in 1..Len(d) : d[i].op = "cleanup" /\ d[i].connection \in S
    /\ \A c \in S : \E i \in 1..Len(d) : d[i].connection = c

(* Entities are numbered from one, and each has an owner and a place.      *)
LEMMA EntityFacts ==
    ASSUME LifecycleTypes
    PROVE  /\ Len(owners) \in Nat /\ Entities = 1..Len(owners) /\ DOMAIN place = Entities
           /\ \A e \in Entities : owners[e] \in Connections /\ place[e] \in Spaces \cup {Gone}
           /\ \A c : OwnedBy(c) \subseteq 1..Len(owners)
           /\ \A c : \A e \in OwnedBy(c) : e \in Entities /\ owners[e] = c /\ place[e] \in Spaces
BY DEF LifecycleTypes, TypeOK, Entities, OwnedBy

(* What Departures and the clean-ups of FanOut are.                        *)
LEMMA DeparturesListed ==
    ASSUME LifecycleTypes, NEW c
    PROVE  TellsDepartures(Departures(c), c)
<1> DEFINE gone == Ascending(OwnedBy(c))
           d == [i \in DOMAIN gone |-> Left(gone[i], place[gone[i]])]
<1>1. /\ gone \in Seq(OwnedBy(c)) /\ Len(gone) \in Nat /\ DOMAIN gone = 1..Len(gone)
      /\ \A i \in 1..Len(gone) : gone[i] \in OwnedBy(c)
      /\ \A e \in OwnedBy(c) : \E i \in 1..Len(gone) : gone[i] = e
  BY EntityFacts, AscendingLists
<1> HIDE DEF gone
<1>2. \A i \in 1..Len(gone) :
         /\ d[i] = Left(gone[i], place[gone[i]])
         /\ gone[i] \in Entities /\ place[gone[i]] \in Spaces
  BY <1>1, EntityFacts
<1>a. ASSUME NEW e \in Entities, NEW x \in Spaces
      PROVE  /\ Left(e, x) \in Notification
             /\ Left(e, x).op = "left" /\ Left(e, x).except = {} /\ Left(e, x).entity = e
             /\ Left(e, x).space = x
  BY DEF Left, Notification
<1>3. \A i \in 1..Len(gone) :
         /\ d[i] \in Notification
         /\ d[i].op = "left" /\ d[i].except = {} /\ d[i].entity = gone[i]
         /\ d[i].space = place[gone[i]]
  <2> HIDE DEF d
  <2> QED BY <1>a, <1>2
<1>4. d \in Seq(Notification) /\ Len(d) = Len(gone)
  <2>1. DOMAIN d = 1..Len(gone)
    BY <1>1
  <2> QED BY <1>1, <1>3, <2>1
<1>5. Departures(c) = d
  BY DEF Departures, gone
<1> HIDE DEF d
<1> QED BY <1>1, <1>3, <1>4, <1>5 DEF TellsDepartures

(* The clean-ups that FanOut puts before the rest of its work.             *)
LEMMA CleanupsListed ==
    ASSUME LifecycleTypes, NEW S, S \subseteq recipients
    PROVE  LET cleanups == Ascending(S) IN
           CleansUp([i \in DOMAIN cleanups |-> Cleanup(cleanups[i])], S)
<1> DEFINE list == Ascending(S)
           d == [i \in DOMAIN list |-> Cleanup(list[i])]
<1>0. PICK n \in Nat : recipients \subseteq 1..n
  BY DEF LifecycleTypes
<1>1. /\ list \in Seq(S) /\ Len(list) \in Nat /\ DOMAIN list = 1..Len(list)
      /\ \A i \in 1..Len(list) : list[i] \in S
      /\ \A e \in S : \E i \in 1..Len(list) : list[i] = e
  <2>1. S \in SUBSET (1..n)
    BY <1>0
  <2> QED BY <2>1, AscendingLists
<1> HIDE DEF list
<1>2. \A i \in 1..Len(list) : d[i] = Cleanup(list[i]) /\ list[i] \in Connections
  BY <1>1 DEF LifecycleTypes, TypeOK
<1>3. \A i \in 1..Len(list) :
         /\ d[i] \in Clean
         /\ d[i].op = "cleanup" /\ d[i].connection = list[i]
  BY <1>2 DEF Cleanup, Clean
<1>4. d \in Seq(Clean) /\ Len(d) = Len(list)
  <2>1. DOMAIN d = 1..Len(list)
    BY <1>1
  <2> QED BY <1>1, <1>3, <2>1
<1>5. CleansUp(d, S)
  <2> HIDE DEF d
  <2> QED BY <1>1, <1>3, <1>4 DEF CleansUp
<1> QED BY <1>5 DEF list

-----------------------------------------------------------------------------
(* w is s followed by t.                                                   *)
Joins(w, s, t) ==
    /\ Len(w) = Len(s) + Len(t) /\ Len(s) \in Nat /\ Len(t) \in Nat /\ Len(w) \in Nat
    /\ \A i \in 1..Len(s) : i \in 1..Len(w) /\ w[i] = s[i]
    /\ \A i \in 1..Len(t) : Len(s) + i \in 1..Len(w) /\ w[Len(s) + i] = t[i]
    /\ \A i \in 1..Len(w) : i \in 1..Len(s) \/ \E j \in 1..Len(t) : i = Len(s) + j

(* Sequences of work: what is put before others, and what is left after    *)
(* the first.                                                              *)
LEMMA PutBefore ==
    ASSUME NEW S, NEW s \in Seq(S), NEW t \in Seq(S)
    PROVE  s \o t \in Seq(S) /\ Joins(s \o t, s, t)
<1>1. /\ s \o t \in Seq(S) /\ Len(s \o t) = Len(s) + Len(t)
      /\ Len(s) \in Nat /\ Len(t) \in Nat /\ Len(s \o t) \in Nat
  OBVIOUS
<1>2. \A i \in 1..Len(s) : i \in 1..Len(s \o t) /\ (s \o t)[i] = s[i]
  BY <1>1
<1>3. \A i \in 1..Len(t) : Len(s) + i \in 1..Len(s \o t) /\ (s \o t)[Len(s) + i] = t[i]
  BY <1>1
<1>4. ASSUME NEW i \in 1..Len(s \o t), i \notin 1..Len(s)
      PROVE  \E j \in 1..Len(t) : i = Len(s) + j
  <2>1. i - Len(s) \in 1..Len(t) /\ i = Len(s) + (i - Len(s))
    BY <1>1, <1>4
  <2> QED BY <2>1
<1> QED BY <1>1, <1>2, <1>3, <1>4 DEF Joins

(* What the rest announces and retracts is still said behind other work.   *)
LEMMA SaidBehind ==
    ASSUME NEW w, NEW s, NEW t, Joins(w, s, t), NEW e, NEW x, NEW c
    PROVE  /\ Announces(t, e, x, c) => Announces(w, e, x, c)
           /\ Retracts(t, e, x) => Retracts(w, e, x)
           /\ Drops(t, c) => Drops(w, c)
           /\ Retracts(s, e, x) => Retracts(w, e, x)
           /\ Drops(s, c) => Drops(w, c)
<1>1. /\ \A i \in 1..Len(s) : i \in 1..Len(w) /\ w[i] = s[i]
      /\ \A i \in 1..Len(t) : Len(s) + i \in 1..Len(w) /\ w[Len(s) + i] = t[i]
  BY DEF Joins
<1>2. Announces(t, e, x, c) => Announces(w, e, x, c)
  BY <1>1 DEF Announces
<1>3. Retracts(t, e, x) => Retracts(w, e, x)
  BY <1>1 DEF Retracts
<1>4. Drops(t, c) => Drops(w, c)
  BY <1>1 DEF Drops
<1>5. Retracts(s, e, x) => Retracts(w, e, x)
  BY <1>1 DEF Retracts
<1>6. Drops(s, c) => Drops(w, c)
  BY <1>1 DEF Drops
<1> QED BY <1>2, <1>3, <1>4, <1>5, <1>6

(* Without its first, the rest says what it said, except for the first.    *)
LEMMA SaidAfter ==
    ASSUME NEW S, NEW w \in Seq(S), w # <<>>
    PROVE  /\ Head(w) = w[1] /\ Tail(w) \in Seq(S) /\ Len(w) \in Nat /\ 1 \in 1..Len(w)
           /\ Len(Tail(w)) = Len(w) - 1
           /\ \A i \in 1..Len(Tail(w)) : i + 1 \in 1..Len(w) /\ Tail(w)[i] = w[i + 1]
           /\ \A e, x, c : Announces(w, e, x, c) =>
                 \/ Announces(Tail(w), e, x, c)
                 \/ /\ Head(w).op = "entered" /\ Head(w).entity = e /\ Head(w).space = x
                    /\ c \notin Head(w).except
           /\ \A e, x : Retracts(w, e, x) =>
                 \/ Retracts(Tail(w), e, x)
                 \/ Head(w).op = "left" /\ Head(w).entity = e /\ Head(w).space = x
           /\ \A c : Drops(w, c) =>
                 Drops(Tail(w), c) \/ (Head(w).op = "cleanup" /\ Head(w).connection = c)
<1> DEFINE t == Tail(w)
           h == Head(w)
<1>1. /\ h = w[1] /\ t \in Seq(S) /\ Len(w) \in Nat /\ 1 \in 1..Len(w)
      /\ Len(t) = Len(w) - 1
      /\ \A i \in 1..Len(t) : i + 1 \in 1..Len(w) /\ t[i] = w[i + 1]
  OBVIOUS
<1> HIDE DEF t, h
<1>2. \A i \in 1..Len(w) : i = 1 \/ \E k \in 1..Len(t) : i = k + 1
  <2> SUFFICES ASSUME NEW i \in 1..Len(w), i # 1 PROVE \E k \in 1..Len(t) : i = k + 1
    OBVIOUS
  <2>1. i - 1 \in 1..Len(t) /\ i = (i - 1) + 1
    BY <1>1
  <2> QED BY <2>1
<1>3. \A i \in 1..Len(w) : w[i] = h \/ \E k \in 1..Len(t) : w[i] = t[k]
  BY <1>1, <1>2
<1>4. \A e, x, c : Announces(w, e, x, c) =>
         \/ Announces(t, e, x, c)
         \/ h.op = "entered" /\ h.entity = e /\ h.space = x /\ c \notin h.except
  <2> SUFFICES ASSUME NEW e, NEW x, NEW c, NEW i \in 1..Len(w), w[i].op = "entered",
                      w[i].entity = e, w[i].space = x, c \notin w[i].except
      PROVE  \/ Announces(t, e, x, c)
             \/ h.op = "entered" /\ h.entity = e /\ h.space = x /\ c \notin h.except
    BY DEF Announces
  <2> QED BY <1>3 DEF Announces
<1>5. \A e, x : Retracts(w, e, x) =>
         Retracts(t, e, x) \/ (h.op = "left" /\ h.entity = e /\ h.space = x)
  BY <1>3 DEF Retracts
<1>6. \A c : Drops(w, c) => Drops(t, c) \/ (h.op = "cleanup" /\ h.connection = c)
  BY <1>3 DEF Drops
<1> QED BY <1>1, <1>4, <1>5, <1>6 DEF t, h

-----------------------------------------------------------------------------
(* The types, in three parts: the tasks and their channels, the core, and  *)
(* the worker.                                                             *)
ReaderStates == Serving \cup {"new", "accepted", "accepting", "activating",
                              "flushing", "closing", "waiting", "closed"}
TaskStates == {"none", "running", "losing", "done"}

TasksTyped ==
    /\ channel \in [Connections -> 0..WriteCapacity]
    /\ shutdown \subseteq Connections
    /\ reader \in [Connections -> ReaderStates]
    /\ target \in [Connections -> Spaces \cup {Gone}]
    /\ writer \in [Connections -> TaskStates] /\ drainer \in [Connections -> TaskStates]
    /\ link \in [Connections -> BOOLEAN]

CoreTyped ==
    /\ known \subseteq Connections /\ members \subseteq known
    /\ subscribed \in [Connections -> SUBSET Spaces]
    /\ owners \in Seq(Connections)
    /\ place \in Seq(Spaces \cup {Gone}) /\ Len(place) = Len(owners)
    /\ backlog \in [Connections -> 0..CriticalCapacity]

WorkerTyped ==
    /\ recipients \subseteq Connections
    /\ \E n \in Nat : recipients \subseteq 1..n
    /\ subscriptions \in [Connections -> SUBSET Spaces]
    /\ work \in Seq(Item)
    /\ told \in [Connections -> SUBSET (Entities \X Spaces)]
    /\ cut \subseteq Connections /\ overtaken \subseteq Entities

(* The parts are the whole.                                                *)
LEMMA TypesInParts == LifecycleTypes <=> TasksTyped /\ CoreTyped /\ WorkerTyped
<1>1. ASSUME LifecycleTypes PROVE TasksTyped /\ CoreTyped /\ WorkerTyped
  BY <1>1 DEF LifecycleTypes, TypeOK, TasksTyped, CoreTyped, WorkerTyped, ReaderStates, TaskStates
<1>2. ASSUME TasksTyped, CoreTyped, WorkerTyped PROVE LifecycleTypes
  <2>1. DOMAIN place = DOMAIN owners /\ \A e \in Entities : place[e] \in Spaces \cup {Gone}
    BY <1>2 DEF CoreTyped, Entities
  <2> QED BY <1>2, <2>1 DEF LifecycleTypes, TypeOK, TasksTyped, CoreTyped, WorkerTyped,
                            ReaderStates, TaskStates
<1> QED BY <1>1, <1>2

(* What a reply does to the channel and the reader.                        *)
LEMMA Replied ==
    ASSUME TasksTyped, NEW c \in Connections, NEW n \in Nat, NEW next \in ReaderStates,
           Replies(c, n, next)
    PROVE  /\ channel' \in [Connections -> 0..WriteCapacity]
           /\ reader' \in [Connections -> ReaderStates]
           /\ reader'[c] \in {next, "closing"}
           /\ \A d \in Connections \ {c} : reader'[d] = reader[d]
<1>1. CASE HasRoom(c, n)
  <2>1. channel[c] + n \in 0..WriteCapacity
    BY <1>1, LifecycleAssumption DEF HasRoom, TasksTyped
  <2> QED BY <1>1, <2>1 DEF Replies, TasksTyped
<1>2. CASE ~HasRoom(c, n)
  BY <1>2 DEF Replies, TasksTyped, ReaderStates
<1> QED BY <1>1, <1>2

(* A disconnect leaves the tasks alone.                                    *)
LEMMA TaskTypes == LifecycleTypes /\ [LifecycleNext]_lifecycle_vars => TasksTyped'
<1> SUFFICES ASSUME LifecycleTypes, [LifecycleNext]_lifecycle_vars PROVE TasksTyped'
  OBVIOUS
<1>a. TasksTyped /\ CoreTyped /\ WorkerTyped
  BY TypesInParts
<1>0. CASE UNCHANGED <<channel, shutdown, task_vars, link>>
  BY <1>0, <1>a DEF TasksTyped, task_vars
<1>1. CASE FanOut
  <2>1. shutdown' \subseteq Connections
    BY <1>1, <1>a DEF FanOut, TasksTyped, WorkerTyped, Targets
  <2>2. UNCHANGED <<reader, target, writer, drainer, link>>
    BY <1>1 DEF FanOut, task_vars
  <2>3. channel' \in [Connections -> 0..WriteCapacity]
    <3>1. \A c \in Connections : HasRoom(c, 1) => channel[c] + 1 \in 0..WriteCapacity
      BY <1>a, LifecycleAssumption DEF HasRoom, TasksTyped
    <3>2. \A c \in Connections : channel[c] \in 0..WriteCapacity
      BY <1>a DEF TasksTyped
    <3>3. channel' = [c \in Connections |->
                        IF c \in {d \in Targets(Head(work)) : HasRoom(d, 1)} THEN channel[c] + 1
                                                                     ELSE channel[c]]
      BY <1>1 DEF FanOut
    <3> QED BY <3>1, <3>2, <3>3
  <2> QED BY <1>a, <2>1, <2>2, <2>3 DEF TasksTyped
<1>2. CASE CleanupDead
  BY <1>0, <1>2 DEF CleanupDead
<1>3. ASSUME NEW c \in Connections, NEW n \in Nat, NEW next \in ReaderStates, Replies(c, n, next),
             UNCHANGED <<shutdown, target, writer, drainer, link>>
      PROVE  TasksTyped'
  BY <1>a, <1>3, Replied DEF TasksTyped
<1>4. ASSUME NEW c \in Connections, Connect(c) \/ AcceptFails(c) \/ RegisterLifecycle(c)
      PROVE  TasksTyped'
  BY <1>a, <1>4 DEF Connect, AcceptFails, RegisterLifecycle, TasksTyped, ReaderStates, TaskStates,
        Serving
<1>5. ASSUME NEW c \in Connections, Hello(c) \/ Authenticate(c) PROVE TasksTyped'
  <2>1. {"authenticate", "open"} \subseteq ReaderStates
    BY DEF ReaderStates, Serving
  <2> QED BY <1>3, <1>5, <2>1 DEF Hello, Authenticate
<1>b. ASSUME NEW c \in Connections,
             channel' = [channel EXCEPT ![c] = IF HasRoom(c, 1) THEN @ + 1 ELSE @]
      PROVE  channel' \in [Connections -> 0..WriteCapacity]
  <2>1. HasRoom(c, 1) => channel[c] + 1 \in 0..WriteCapacity
    BY <1>a, LifecycleAssumption DEF HasRoom, TasksTyped
  <2>2. (IF HasRoom(c, 1) THEN channel[c] + 1 ELSE channel[c]) \in 0..WriteCapacity
    BY <1>a, <2>1 DEF TasksTyped
  <2> QED BY <1>a, <1>b, <2>2 DEF TasksTyped
<1>6. ASSUME NEW c \in Connections, Refuse(c) PROVE TasksTyped'
  BY <1>a, <1>b, <1>6 DEF Refuse, TasksTyped, ReaderStates
<1>7. ASSUME NEW c \in Connections, Interrupted(c) \/ Teardown(c) \/ Close(c) PROVE TasksTyped'
  BY <1>a, <1>7 DEF Interrupted, Teardown, Close, TasksTyped, ReaderStates, TaskStates
<1>8. ASSUME NEW c \in Connections, ClientRequests(c) PROVE TasksTyped'
  <2>0. {"open", "flushing", "accepting", "closing"} \subseteq ReaderStates
    BY DEF ReaderStates, Serving
  <2>1. CASE Join(c) \/ Leave(c)
    BY <1>0, <2>1 DEF Join, Leave
  <2>2. CASE Snapshot(c)
    BY <1>3, <2>0, <2>2 DEF Snapshot
  <2>3. ASSUME NEW x \in Spaces, SubscribeAndSpawn(c, x) PROVE TasksTyped'
    <3>1. channel' \in [Connections -> 0..WriteCapacity]
      BY <1>a, <1>b, <2>3 DEF SubscribeAndSpawn, TasksTyped
    <3>2. /\ reader' \in [Connections -> ReaderStates]
          /\ target' \in [Connections -> Spaces \cup {Gone}]
      BY <1>a, <2>0, <2>3 DEF SubscribeAndSpawn, TasksTyped
    <3> QED BY <1>a, <2>3, <3>1, <3>2 DEF SubscribeAndSpawn, TasksTyped
  <2>4. ASSUME NEW x \in Spaces, Unsubscribe(c, x) PROVE TasksTyped'
    <3>1. PICK kept \in 0..backlog[c] : Replies(c, kept, "open")
      BY <2>4 DEF Unsubscribe
    <3>2. kept \in Nat
      BY <1>a DEF CoreTyped
    <3> QED BY <1>3, <2>0, <2>4, <3>1, <3>2 DEF Unsubscribe
  <2>5. ASSUME NEW x \in Spaces, Publish(c, x) PROVE TasksTyped'
    <3> DEFINE audience == {d \in known : x \in subscribed[d]}
               slow == {d \in audience : backlog[d] = CriticalCapacity}
               queued == [d \in Connections |->
                            CASE d \in slow -> 0
                              [] d \in audience \ slow -> backlog[d] + 1
                              [] OTHER -> backlog[d]]
    <3>1. queued[c] \in Nat
      <4>1. queued[c] \in {0, backlog[c] + 1, backlog[c]}
        OBVIOUS
      <4>2. backlog[c] \in Nat
        BY <1>a DEF CoreTyped
      <4> QED BY <4>1, <4>2
    <3>2. Replies(c, queued[c], "open")
      BY <2>5 DEF Publish
    <3>3. UNCHANGED <<shutdown, target, writer, drainer, link>>
      BY <2>5 DEF Publish
    <3> HIDE DEF queued
    <3> QED BY <1>3, <2>0, <3>1, <3>2, <3>3
  <2>6. ASSUME NEW e \in Entities, NEW x \in Spaces, TransitionEntity(c, e, x) PROVE TasksTyped'
    BY <1>a, <2>0, <2>6 DEF TransitionEntity, TasksTyped
  <2> QED BY <1>8, <2>1, <2>2, <2>3, <2>4, <2>5, <2>6 DEF ClientRequests
<1>9. ASSUME NEW c \in Connections, Accepted(c) \/ ActivateSubscription(c) \/ Flush(c)
      PROVE  TasksTyped'
  <2>0. {"open", "flushing", "activating"} \subseteq ReaderStates
    BY DEF ReaderStates, Serving
  <2>1. CASE Accepted(c)
    BY <1>3, <2>0, <2>1 DEF Accepted
  <2>2. CASE ActivateSubscription(c)
    BY <1>a, <2>0, <2>2 DEF ActivateSubscription, TasksTyped
  <2>3. CASE Flush(c)
    <3>1. backlog[c] \in Nat
      BY <1>a DEF CoreTyped
    <3> QED BY <1>3, <2>0, <2>3, <3>1 DEF Flush
  <2> QED BY <1>9, <2>1, <2>2, <2>3
<1>10. ASSUME NEW c \in Connections, Drain(c) PROVE TasksTyped'
  <2>1. CASE HasRoom(c, backlog[c])
    <3>1. channel[c] + backlog[c] \in 0..WriteCapacity
      BY <1>a, <2>1, LifecycleAssumption DEF HasRoom, TasksTyped, CoreTyped
    <3> QED BY <1>a, <1>10, <2>1, <3>1 DEF Drain, TasksTyped
  <2>2. CASE ~HasRoom(c, backlog[c])
    BY <1>a, <1>10, <2>2 DEF Drain, TasksTyped, TaskStates
  <2> QED BY <2>1, <2>2
<1>11. ASSUME NEW c \in Connections, DrainLoses(c) \/ WriterLoses(c) \/ WriterEnds(c) \/ PeerGone(c)
       PROVE  TasksTyped'
  <2>1. CASE DrainLoses(c) \/ WriterEnds(c)
    BY <1>a, <2>1 DEF DrainLoses, WriterEnds, TasksTyped, TaskStates
  <2>2. CASE WriterLoses(c)
    <3>1. 0 \in 0..WriteCapacity
      BY LifecycleAssumption
    <3> QED BY <1>a, <2>2, <3>1 DEF WriterLoses, TasksTyped, TaskStates
  <2>3. CASE PeerGone(c)
    BY <1>a, <2>3 DEF PeerGone, TasksTyped, task_vars
  <2> QED BY <1>11, <2>1, <2>2, <2>3
<1>12. ASSUME NEW c \in Connections, Write(c) \/ WriteFails(c) PROVE TasksTyped'
  <2>1. channel[c] - 1 \in 0..WriteCapacity
    BY <1>a, <1>12, LifecycleAssumption DEF Write, WriteFails, TasksTyped
  <2> QED BY <1>a, <1>12, <2>1 DEF Write, WriteFails, TasksTyped, TaskStates, task_vars
<1>13. CASE UNCHANGED lifecycle_vars
  BY <1>0, <1>13 DEF lifecycle_vars
<1> QED BY <1>1, <1>2, <1>4, <1>5, <1>6, <1>7, <1>8, <1>9, <1>10, <1>11, <1>12, <1>13
        DEF LifecycleNext, Ends, Continues, Writes, WriterStops, Drains

(* What leaves the core keeps its owner and goes nowhere.                  *)
LEMMA PlacesTyped ==
    ASSUME CoreTyped, place' = [e \in Entities |-> place'[e]],
           \A e \in Entities : place'[e] \in Spaces \cup {Gone}
    PROVE  place' \in Seq(Spaces \cup {Gone}) /\ Len(place') = Len(owners)
<1>1. Entities = 1..Len(owners) /\ Len(owners) \in Nat
  BY DEF CoreTyped, Entities
<1> QED BY <1>1

(* What CoreLoses does to the types.                                       *)
LEMMA LossTyped ==
    ASSUME CoreTyped, NEW S, CoreLoses(S)
    PROVE  CoreTyped' /\ \A e \in Entities : place'[e] = IF owners[e] \in S THEN Gone ELSE place[e]
<1>0. \A e \in Entities : place[e] \in Spaces \cup {Gone}
  BY DEF CoreTyped, Entities
<1>1. /\ place' = [e \in Entities |-> place'[e]]
      /\ \A e \in Entities : place'[e] = IF owners[e] \in S THEN Gone ELSE place[e]
  BY DEF CoreLoses
<1>2. place' \in Seq(Spaces \cup {Gone}) /\ Len(place') = Len(owners)
  BY <1>0, <1>1, PlacesTyped
<1>3. 0 \in 0..CriticalCapacity
  BY LifecycleAssumption
<1>4. /\ known' \subseteq Connections /\ members' \subseteq known'
      /\ subscribed' \in [Connections -> SUBSET Spaces]
      /\ owners' = owners
      /\ backlog' \in [Connections -> 0..CriticalCapacity]
  BY <1>3 DEF CoreTyped, CoreLoses
<1> QED BY <1>1, <1>2, <1>4 DEF CoreTyped

(* Every step keeps the types of the core.                                 *)
LEMMA CoreTypes == LifecycleTypes /\ [LifecycleNext]_lifecycle_vars => CoreTyped'
<1> SUFFICES ASSUME LifecycleTypes, [LifecycleNext]_lifecycle_vars PROVE CoreTyped'
  OBVIOUS
<1>a. TasksTyped /\ CoreTyped /\ WorkerTyped
  BY TypesInParts
<1>b. 0 \in 0..CriticalCapacity
  BY LifecycleAssumption
<1>c. /\ Entities = 1..Len(owners) /\ Len(owners) \in Nat
      /\ \A e \in Entities : place[e] \in Spaces \cup {Gone}
  BY <1>a DEF CoreTyped, Entities
<1>0. CASE UNCHANGED core
  BY <1>0, <1>a DEF CoreTyped, core
<1>1. ASSUME NEW c, NEW rest, Disconnect(c, rest) PROVE CoreTyped'
  <2>1. CASE c \in known
    BY <1>1, <1>a, <2>1, LossTyped DEF Disconnect
  <2>2. CASE c \notin known
    BY <1>0, <1>1, <2>2 DEF Disconnect
  <2> QED BY <2>1, <2>2
<1>2. CASE FanOut
  BY <1>0, <1>2 DEF FanOut
<1>3. CASE CleanupDead
  BY <1>0, <1>1, <1>3 DEF CleanupDead
<1>4. ASSUME NEW c \in Connections,
             AcceptFails(c) \/ DrainLoses(c) \/ WriterLoses(c) \/ Teardown(c)
      PROVE  CoreTyped'
  BY <1>1, <1>4 DEF AcceptFails, DrainLoses, WriterLoses, Teardown
<1>5. ASSUME NEW c \in Connections,
             \/ RegisterLifecycle(c) \/ Hello(c) \/ Authenticate(c) \/ Refuse(c)
             \/ Interrupted(c) \/ Close(c) \/ Accepted(c) \/ ActivateSubscription(c)
             \/ Write(c) \/ WriteFails(c) \/ WriterEnds(c) \/ PeerGone(c)
      PROVE  CoreTyped'
  BY <1>0, <1>5 DEF RegisterLifecycle, Hello, Authenticate, Refuse, Interrupted, Close, Accepted,
                    ActivateSubscription, Write, WriteFails, WriterEnds, PeerGone
<1>6. ASSUME NEW c \in Connections, Connect(c) PROVE CoreTyped'
  BY <1>a, <1>6 DEF Connect, CoreTyped
<1>7. ASSUME NEW c \in Connections, Flush(c) \/ Drain(c) PROVE CoreTyped'
  BY <1>a, <1>b, <1>7 DEF Flush, Drain, CoreTyped
<1>8. ASSUME NEW c \in Connections, ClientRequests(c) PROVE CoreTyped'
  <2>1. CASE Join(c)
    BY <1>a, <2>1 DEF Join, Ready, CoreTyped
  <2>2. CASE Snapshot(c)
    BY <1>0, <2>2 DEF Snapshot
  <2>3. CASE Leave(c)
    <3>1. place' = [e \in Entities |-> place'[e]]
          /\ \A e \in Entities : place'[e] \in Spaces \cup {Gone}
      BY <1>c, <2>3 DEF Leave
    <3>2. place' \in Seq(Spaces \cup {Gone}) /\ Len(place') = Len(owners)
      BY <1>a, <3>1, PlacesTyped
    <3> QED BY <1>a, <1>b, <2>3, <3>2 DEF Leave, CoreTyped
  <2>4. ASSUME NEW x \in Spaces, SubscribeAndSpawn(c, x) PROVE CoreTyped'
    <3>1. CASE UNCHANGED <<owners, place>>
      BY <1>a, <2>4, <3>1 DEF SubscribeAndSpawn, CoreTyped
    <3>2. CASE owners' = Append(owners, c) /\ place' = Append(place, x)
      <4>1. /\ owners' \in Seq(Connections) /\ place' \in Seq(Spaces \cup {Gone})
            /\ Len(place') = Len(owners')
        BY <1>a, <3>2 DEF CoreTyped
      <4> QED BY <1>a, <2>4, <4>1 DEF SubscribeAndSpawn, CoreTyped
    <3> QED BY <2>4, <3>1, <3>2 DEF SubscribeAndSpawn
  <2>5. ASSUME NEW x \in Spaces, Unsubscribe(c, x) PROVE CoreTyped'
    BY <1>a, <1>b, <2>5 DEF Unsubscribe, CoreTyped
  <2>6. ASSUME NEW x \in Spaces, Publish(c, x) PROVE CoreTyped'
    <3> DEFINE audience == {d \in known : x \in subscribed[d]}
               slow == {d \in audience : backlog[d] = CriticalCapacity}
               queued == [d \in Connections |->
                            CASE d \in slow -> 0
                              [] d \in audience \ slow -> backlog[d] + 1
                              [] OTHER -> backlog[d]]
    <3>1. \A d \in Connections : queued[d] \in 0..CriticalCapacity
      <4> SUFFICES ASSUME NEW d \in Connections PROVE queued[d] \in 0..CriticalCapacity
        OBVIOUS
      <4>0. backlog[d] \in 0..CriticalCapacity
        BY <1>a DEF CoreTyped
      <4>1. CASE d \in slow
        BY <1>b, <4>1
      <4>2. CASE d \in audience \ slow
        <5>1. queued[d] = backlog[d] + 1 /\ backlog[d] # CriticalCapacity
          BY <4>2
        <5> QED BY <4>0, <5>1, LifecycleAssumption
      <4>3. CASE d \notin audience
        <5>1. queued[d] = backlog[d]
          BY <4>3
        <5> QED BY <4>0, <5>1
      <4> QED BY <4>1, <4>2, <4>3
    <3>2. /\ known' = known \ slow /\ members' = members \ slow
          /\ subscribed' = [d \in Connections |-> IF d \in slow THEN {} ELSE subscribed[d]]
          /\ place' = [e \in Entities |-> IF owners[e] \in slow THEN Gone ELSE place[e]]
          /\ backlog' = [queued EXCEPT ![c] = 0] /\ owners' = owners
      BY <2>6 DEF Publish
    <3>3. queued = [d \in Connections |-> queued[d]]
      OBVIOUS
    <3> HIDE DEF slow, queued
    <3>4. backlog' \in [Connections -> 0..CriticalCapacity]
      BY <1>b, <3>1, <3>2, <3>3
    <3>5. place' = [e \in Entities |-> place'[e]]
          /\ \A e \in Entities : place'[e] \in Spaces \cup {Gone}
      BY <1>c, <3>2
    <3>6. place' \in Seq(Spaces \cup {Gone}) /\ Len(place') = Len(owners)
      BY <1>a, <3>5, PlacesTyped
    <3>7. subscribed' \in [Connections -> SUBSET Spaces]
      BY <1>a, <3>2 DEF CoreTyped
    <3> QED BY <1>a, <3>2, <3>4, <3>6, <3>7 DEF CoreTyped
  <2>7. ASSUME NEW e \in Entities, NEW x \in Spaces, TransitionEntity(c, e, x) PROVE CoreTyped'
    <3>0. DOMAIN place = Entities
      BY <1>a, <1>c DEF CoreTyped
    <3>1. place' = [f \in Entities |-> place'[f]]
          /\ \A f \in Entities : place'[f] \in Spaces \cup {Gone}
      BY <1>c, <2>7, <3>0 DEF TransitionEntity
    <3>2. place' \in Seq(Spaces \cup {Gone}) /\ Len(place') = Len(owners)
      BY <1>a, <3>1, PlacesTyped
    <3> QED BY <1>a, <2>7, <3>2 DEF TransitionEntity, CoreTyped
  <2> QED BY <1>8, <2>1, <2>2, <2>3, <2>4, <2>5, <2>6, <2>7 DEF ClientRequests
<1>9. CASE UNCHANGED lifecycle_vars
  BY <1>0, <1>9 DEF lifecycle_vars, core
<1> QED BY <1>2, <1>3, <1>4, <1>5, <1>6, <1>7, <1>8, <1>9
        DEF LifecycleNext, Ends, Continues, Writes, WriterStops, Drains

(* A sequence over a set is one over a larger set.                         *)
LEMMA Widened ==
    ASSUME NEW S, NEW T, S \subseteq T, NEW s \in Seq(S)
    PROVE  s \in Seq(T)
OBVIOUS

(* Items of work stay items while entities are only added.                 *)
LEMMA ItemsStay ==
    ASSUME Entities \subseteq Entities'
    PROVE  /\ Item \subseteq Item' /\ Notification \subseteq Notification'
           /\ \A w \in Seq(Item) : w \in Seq(Item')
<1>1. Notification \subseteq Notification'
  BY DEF Notification
<1>2. Item \subseteq Item'
  BY <1>1 DEF Item
<1>3. \A w \in Seq(Item) : w \in Seq(Item')
  <2> HIDE DEF Item
  <2> QED BY <1>2
<1> QED BY <1>1, <1>2, <1>3

(* Departures before the rest of the work are work.                        *)
LEMMA DeparturesBefore ==
    ASSUME LifecycleTypes, NEW c, NEW rest \in Seq(Item)
    PROVE  /\ Departures(c) \o rest \in Seq(Item)
           /\ Joins(Departures(c) \o rest, Departures(c), rest)
<1>1. Departures(c) \in Seq(Notification)
  BY DeparturesListed DEF TellsDepartures
<1>2. Departures(c) \in Seq(Item)
  <2>1. Notification \subseteq Item
    BY DEF Item
  <2> HIDE DEF Notification, Item
  <2> QED BY <1>1, <2>1
<1> HIDE DEF Item
<1> QED BY <1>2, PutBefore

(* A disconnect keeps the types of the worker.                             *)
LEMMA DisconnectTyped ==
    ASSUME LifecycleTypes, NEW c \in Connections, NEW rest \in Seq(Item), Disconnect(c, rest)
    PROVE  WorkerTyped'
<1>a. WorkerTyped /\ CoreTyped
  BY TypesInParts
<1>1. CASE c \in known
  <2>0. owners' = owners /\ Entities' = Entities /\ Item' = Item
    BY <1>1 DEF Disconnect, CoreLoses, Entities, Item, Notification
  <2>1. work' \in Seq(Item)
    BY <1>1, DeparturesBefore DEF Disconnect
  <2>2. recipients' \subseteq recipients /\ \E n \in Nat : recipients' \subseteq 1..n
    BY <1>1, <1>a DEF Disconnect, WorkerTyped
  <2>3. subscriptions' \in [Connections -> SUBSET Spaces]
    BY <1>1, <1>a DEF Disconnect, WorkerTyped
  <2>4. told' \in [Connections -> SUBSET (Entities \X Spaces)]
    BY <1>1, <1>a DEF Disconnect, WorkerTyped
  <2>5. cut' \subseteq Connections /\ overtaken' \subseteq Entities
    BY <1>1, <1>a DEF Disconnect, WorkerTyped, OwnedBy
  <2> QED BY <1>a, <2>0, <2>1, <2>2, <2>3, <2>4, <2>5 DEF WorkerTyped
<1>2. CASE c \notin known
  <2>0. owners' = owners /\ Entities' = Entities /\ Item' = Item
    BY <1>2 DEF Disconnect, core, Entities, Item, Notification
  <2>1. work' = rest /\ UNCHANGED <<recipients, subscriptions, told, cut, overtaken>>
    BY <1>2 DEF Disconnect, mirrors, history
  <2> QED BY <1>a, <2>0, <2>1 DEF WorkerTyped
<1> QED BY <1>1, <1>2

(* Every step keeps the types of the worker.                               *)
LEMMA WorkerTypes ==
    LifecycleTypes /\ Stages /\ [LifecycleNext]_lifecycle_vars => WorkerTyped'
<1> SUFFICES ASSUME LifecycleTypes, Stages, [LifecycleNext]_lifecycle_vars PROVE WorkerTyped'
  OBVIOUS
<1>a. TasksTyped /\ CoreTyped /\ WorkerTyped
  BY TypesInParts
<1>b. ASSUME owners' = owners PROVE Entities' = Entities /\ Item' = Item
  BY <1>b DEF Entities, Item, Notification
<1>c. work \in Seq(Item) /\ (work # <<>> => Tail(work) \in Seq(Item) /\ Head(work) \in Item)
  <2> HIDE DEF Item
  <2> QED BY <1>a DEF WorkerTyped
<1>d. <<>> \in Seq(Item)
  OBVIOUS
<1>0. CASE UNCHANGED <<owners, recipients, subscriptions, work, told, cut, overtaken>>
  BY <1>a, <1>b, <1>0 DEF WorkerTyped
<1>1. ASSUME NEW c \in Connections,
             AcceptFails(c) \/ DrainLoses(c) \/ WriterLoses(c) \/ Teardown(c)
      PROVE  WorkerTyped'
  BY <1>1, <1>d, DisconnectTyped DEF AcceptFails, DrainLoses, WriterLoses, Teardown
<1>2. CASE CleanupDead
  <2>1. Head(work).op = "cleanup" /\ Head(work) \in Item /\ Tail(work) \in Seq(Item)
    BY <1>2, <1>c DEF CleanupDead, Idle
  <2>2. Head(work).connection \in Connections
    BY <2>1 DEF Item, Notification, Clean
  <2> DEFINE c == Head(work).connection
  <2>3. CASE c \in known
    BY <1>2, <2>1, <2>2, <2>3, DisconnectTyped DEF CleanupDead
  <2>4. CASE c \notin known
    <3>1. /\ recipients' = recipients \ {c} /\ subscriptions' = [subscriptions EXCEPT ![c] = {}]
          /\ work' = Tail(work) /\ UNCHANGED <<owners, told, cut, overtaken>>
      BY <1>2, <2>4 DEF CleanupDead, core, history
    <3>2. \E n \in Nat : recipients' \subseteq 1..n
      BY <1>a, <3>1 DEF WorkerTyped
    <3>3. subscriptions' \in [Connections -> SUBSET Spaces]
      BY <1>a, <3>1 DEF WorkerTyped
    <3> QED BY <1>a, <1>b, <2>1, <3>1, <3>2, <3>3 DEF WorkerTyped
  <2> QED BY <2>3, <2>4
<1>3. CASE FanOut
  <2> DEFINE m == Head(work)
             served == {c \in Targets(m) : HasRoom(c, 1)}
             dead == Targets(m) \ served
             cleanups == Ascending(dead)
             d == [i \in DOMAIN cleanups |-> Cleanup(cleanups[i])]
  <2>1. /\ m.op # "cleanup" /\ m \in Item /\ Tail(work) \in Seq(Item)
        /\ work' = d \o Tail(work)
        /\ told' = [c \in Connections |-> IF c \in served THEN Hears(c, m) ELSE told[c]]
        /\ UNCHANGED <<owners, recipients, subscriptions, cut, overtaken>>
    BY <1>3, <1>c DEF FanOut, Idle, core, mirrors
  <2>2. m.entity \in Entities /\ m.space \in Spaces
    BY <2>1 DEF Item, Notification, Clean
  <2>3. dead \subseteq recipients
    BY DEF Targets
  <2>4. CleansUp(d, dead)
    BY <2>3, CleanupsListed
  <2>5. d \in Seq(Item)
    <3>1. d \in Seq(Clean)
      BY <2>4 DEF CleansUp
    <3>2. Clean \subseteq Item
      BY DEF Item
    <3> HIDE DEF d, Item
    <3> QED BY <3>1, <3>2, Widened
  <2>6. work' \in Seq(Item)
    <3> HIDE DEF d, Item
    <3> QED BY <2>1, <2>5
  <2>7. told' \in [Connections -> SUBSET (Entities \X Spaces)]
    <3>1. \A c \in Connections : told[c] \subseteq Entities \X Spaces
      BY <1>a DEF WorkerTyped
    <3>2. \A c \in Connections : Hears(c, m) \subseteq Entities \X Spaces
      BY <2>2, <3>1 DEF Hears
    <3> HIDE DEF m, served
    <3> QED BY <2>1, <3>1, <3>2
  <2> QED BY <1>a, <1>b, <2>1, <2>6, <2>7 DEF WorkerTyped
<1>4. ASSUME NEW c \in Connections, RegisterLifecycle(c) PROVE WorkerTyped'
  <2>1. recipients' = recipients \cup {c}
        /\ UNCHANGED <<owners, subscriptions, work, told, cut, overtaken>>
    BY <1>4 DEF RegisterLifecycle, core, history
  <2>2. \E n \in Nat : recipients' \subseteq 1..n
    <3>1. PICK n \in Nat : recipients \subseteq 1..n
      BY <1>a DEF WorkerTyped
    <3>2. c \in Nat \ {0}
      BY LifecycleAssumption
    <3>3. recipients' \subseteq 1..(n + c) /\ n + c \in Nat
      BY <2>1, <3>1, <3>2
    <3> QED BY <3>3
  <2> QED BY <1>a, <1>b, <2>1, <2>2 DEF WorkerTyped
<1>5. ASSUME NEW c \in Connections,
             \/ Connect(c) \/ Hello(c) \/ Authenticate(c) \/ Refuse(c)
             \/ Interrupted(c) \/ Close(c) \/ Accepted(c) \/ Flush(c) \/ Drain(c)
             \/ Write(c) \/ WriteFails(c) \/ WriterEnds(c) \/ PeerGone(c)
      PROVE  WorkerTyped'
  BY <1>0, <1>5 DEF Connect, Hello, Authenticate, Refuse, Interrupted, Close, Accepted, Flush,
        Drain,
                    Write, WriteFails, WriterEnds, PeerGone, core, mirrors, history
<1>6. ASSUME NEW c \in Connections, ActivateSubscription(c) PROVE WorkerTyped'
  <2>1. target[c] \in Spaces
    BY <1>6 DEF Stages, Staged, ActivateSubscription
  <2>2. Present(target[c]) \subseteq Entities
    BY DEF Present
  <2>3. UNCHANGED <<owners, recipients, work, cut, overtaken>>
    BY <1>6 DEF ActivateSubscription, core
  <2>4. subscriptions' \in [Connections -> SUBSET Spaces]
    BY <1>a, <1>6, <2>1 DEF ActivateSubscription, WorkerTyped
  <2>5. told' \in [Connections -> SUBSET (Entities \X Spaces)]
    BY <1>a, <1>6, <2>1, <2>2 DEF ActivateSubscription, WorkerTyped
  <2> QED BY <1>a, <1>b, <2>3, <2>4, <2>5 DEF WorkerTyped
<1>7. ASSUME NEW c \in Connections, ClientRequests(c) PROVE WorkerTyped'
  <2>1. CASE Join(c) \/ Snapshot(c)
    BY <1>0, <2>1 DEF Join, Snapshot, core, mirrors, history
  <2>2. CASE Leave(c)
    <3>1. Departures(c) \in Seq(Item)
      <4>1. Departures(c) \in Seq(Notification) /\ Notification \subseteq Item
        BY DeparturesListed DEF TellsDepartures, Item
      <4> HIDE DEF Notification, Item
      <4> QED BY <4>1
    <3>2. /\ subscriptions' \in [Connections -> SUBSET Spaces]
          /\ told' \in [Connections -> SUBSET (Entities \X Spaces)]
      BY <1>a, <2>2 DEF Leave, WorkerTyped
    <3> QED BY <1>a, <1>b, <2>2, <3>1, <3>2 DEF Leave, WorkerTyped
  <2>3. ASSUME NEW x \in Spaces, SubscribeAndSpawn(c, x) PROVE WorkerTyped'
    <3>1. CASE UNCHANGED <<owners, work>>
      BY <1>0, <2>3, <3>1 DEF SubscribeAndSpawn, mirrors, history
    <3>2. CASE owners' = Append(owners, c) /\ work' = <<Entered(Len(owners) + 1, x, {c})>>
      <4>1. /\ Entities' = 1..Len(owners) + 1 /\ Entities = 1..Len(owners) /\ Len(owners) \in Nat
        BY <1>a, <3>2 DEF CoreTyped, Entities
      <4>2. Entities \subseteq Entities' /\ Len(owners) + 1 \in Entities'
        BY <4>1
      <4>3. Entered(Len(owners) + 1, x, {c}) \in Item'
        BY <4>2 DEF Entered, Item, Notification
      <4>4. work' \in Seq(Item')
        BY <3>2, <4>3
      <4>5. told' \in [Connections -> SUBSET (Entities' \X Spaces)]
        <5>1. told' = told /\ told \in [Connections -> SUBSET (Entities \X Spaces)]
          BY <1>a, <2>3 DEF SubscribeAndSpawn, history, WorkerTyped
        <5> HIDE DEF Entities
        <5> QED BY <4>2, <5>1
      <4>6. UNCHANGED <<recipients, subscriptions, cut, overtaken>>
        BY <2>3 DEF SubscribeAndSpawn, mirrors, history
      <4>7. overtaken' \subseteq Entities'
        BY <1>a, <4>2, <4>6 DEF WorkerTyped
      <4> QED BY <1>a, <4>4, <4>5, <4>6, <4>7 DEF WorkerTyped
    <3> QED BY <2>3, <3>1, <3>2 DEF SubscribeAndSpawn
  <2>4. ASSUME NEW x \in Spaces, Unsubscribe(c, x) PROVE WorkerTyped'
    <3>1. /\ subscriptions' \in [Connections -> SUBSET Spaces]
          /\ told' \in [Connections -> SUBSET (Entities \X Spaces)]
      BY <1>a, <2>4 DEF Unsubscribe, WorkerTyped
    <3> QED BY <1>a, <1>b, <2>4, <3>1 DEF Unsubscribe, WorkerTyped
  <2>5. ASSUME NEW x \in Spaces, Publish(c, x) PROVE WorkerTyped'
    <3>1. cut' \subseteq Connections
      BY <1>a, <2>5 DEF Publish, WorkerTyped, CoreTyped
    <3>2. UNCHANGED <<owners, recipients, subscriptions, work, told, overtaken>>
      BY <2>5 DEF Publish, mirrors
    <3> QED BY <1>a, <1>b, <3>1, <3>2 DEF WorkerTyped
  <2>6. ASSUME NEW e \in Entities, NEW x \in Spaces, TransitionEntity(c, e, x) PROVE WorkerTyped'
    <3>1. place[e] \in Spaces
      BY <1>a, <2>6 DEF TransitionEntity, CoreTyped
    <3>2. Left(e, place[e]) \in Item /\ Entered(e, x, {}) \in Item
      BY <3>1 DEF Left, Entered, Item, Notification
    <3>3. work' \in Seq(Item)
      <4> HIDE DEF Item
      <4> QED BY <2>6, <3>2 DEF TransitionEntity
    <3> QED BY <1>a, <1>b, <2>6, <3>3 DEF TransitionEntity, WorkerTyped, mirrors, history
  <2> QED BY <1>7, <2>1, <2>2, <2>3, <2>4, <2>5, <2>6 DEF ClientRequests
<1>8. CASE UNCHANGED lifecycle_vars
  BY <1>0, <1>8 DEF lifecycle_vars, core, mirrors, history
<1> QED BY <1>1, <1>2, <1>3, <1>4, <1>5, <1>6, <1>7, <1>8
        DEF LifecycleNext, Ends, Continues, Writes, WriterStops, Drains

(* Every step keeps the types.                                             *)
LEMMA NextLifecycleTypes ==
    LifecycleTypes /\ Stages /\ [LifecycleNext]_lifecycle_vars => LifecycleTypes'
<1> SUFFICES ASSUME LifecycleTypes, Stages, [LifecycleNext]_lifecycle_vars PROVE LifecycleTypes'
  OBVIOUS
<1>1. TasksTyped' /\ CoreTyped' /\ WorkerTyped'
  BY TaskTypes, CoreTypes, WorkerTypes
<1>2. (LifecycleTypes <=> TasksTyped /\ CoreTyped /\ WorkerTyped)'
  BY TypesInParts, PTL
<1> QED BY <1>1, <1>2

-----------------------------------------------------------------------------
(* Everything of d that its stage depends on is as it was.                 *)
SameAt(d) ==
    /\ reader'[d] = reader[d] /\ target'[d] = target[d]
    /\ writer'[d] = writer[d] /\ drainer'[d] = drainer[d]
    /\ subscribed'[d] = subscribed[d] /\ subscriptions'[d] = subscriptions[d]
    /\ d \in known' <=> d \in known
    /\ d \in recipients' <=> d \in recipients

(* A step that moves one connection only.                                  *)
LEMMA OneMoves ==
    ASSUME Stages, NEW c \in Connections, \A d \in Connections \ {c} : SameAt(d),
           Staged(c)', recipients' \subseteq known' \cup cut'
    PROVE  Stages'
<1>1. \A d \in Connections \ {c} : Staged(d)'
  BY DEF Stages, Staged, SameAt
<1> QED BY <1>1 DEF Stages

(* What a disconnect does to the stages of connections.                    *)
LEMMA DisconnectStages ==
    ASSUME LifecycleTypes, Stages, NEW c \in Connections, NEW rest, Disconnect(c, rest)
    PROVE  /\ c \notin known' /\ known' = known \ {c} /\ cut' = cut
           /\ recipients' \subseteq known' \cup cut'
           /\ recipients' \subseteq recipients /\ recipients \subseteq recipients' \cup {c}
           /\ \A d \in Connections \ {c} : /\ subscribed'[d] = subscribed[d]
                                           /\ subscriptions'[d] = subscriptions[d]
           /\ subscribed[c] = {} => subscribed'[c] = {}
           /\ subscriptions[c] = {} => subscriptions'[c] = {}
<1>a. TasksTyped /\ CoreTyped /\ WorkerTyped
  BY TypesInParts
<1>1. CASE c \in known
  <2>1. /\ known' = known \ {c} /\ cut' = cut /\ recipients' = recipients \ {c}
        /\ subscribed' = [d \in Connections |-> IF d \in {c} THEN {} ELSE subscribed[d]]
        /\ subscriptions' = [subscriptions EXCEPT ![c] = {}]
    BY <1>1 DEF Disconnect, CoreLoses
  <2> QED BY <1>a, <2>1 DEF Stages, WorkerTyped
<1>2. CASE c \notin known
  <2>1. UNCHANGED <<known, cut, recipients, subscribed, subscriptions>>
    BY <1>2 DEF Disconnect, core, mirrors, history
  <2> QED BY <1>2, <2>1 DEF Stages
<1> QED BY <1>1, <1>2

(* A disconnect ends well unless the connection is still to be registered, *)
(* which only the reader that gives it up does.                            *)
LEMMA DisconnectKeepsStages ==
    ASSUME LifecycleTypes, Stages, NEW c \in Connections, NEW rest, Disconnect(c, rest),
           \A d \in Connections \ {c} : /\ reader'[d] = reader[d] /\ target'[d] = target[d]
                                        /\ writer'[d] = writer[d] /\ drainer'[d] = drainer[d],
           reader'[c] \notin Unregistered,
           reader'[c] \in {reader[c], "closed", "waiting"}, target'[c] = target[c]
    PROVE  Stages'
<1>1. \A d \in Connections \ {c} : SameAt(d)
  BY DisconnectStages DEF SameAt
<1>2. c \notin known' /\ recipients' \subseteq known' \cup cut'
  BY DisconnectStages
<1>3. reader'[c] \in Greeting => subscribed'[c] = {} /\ subscriptions'[c] = {}
  <2>1. reader'[c] \in Greeting => reader[c] \in Greeting
    BY DEF Greeting, Unregistered
  <2> QED BY <2>1, DisconnectStages DEF Stages, Staged
<1>4. reader'[c] \in {"accepting", "activating"} => target'[c] \in Spaces
  BY DEF Stages, Staged
<1>5. Staged(c)'
  BY <1>2, <1>3, <1>4 DEF Staged, Unregistered
<1> QED BY <1>1, <1>2, <1>5, OneMoves

(* Every step keeps the stages.                                            *)
LEMMA NextStages ==
    LifecycleTypes /\ Stages /\ Valids(work) /\ [LifecycleNext]_lifecycle_vars => Stages'
<1> SUFFICES ASSUME LifecycleTypes, Stages, Valids(work), [LifecycleNext]_lifecycle_vars
    PROVE  Stages'
  OBVIOUS
<1>a. TasksTyped /\ CoreTyped /\ WorkerTyped
  BY TypesInParts
<1>b. \A c \in Connections : Staged(c)
  BY DEF Stages
<1>c. recipients \subseteq known \cup cut
  BY DEF Stages
<1>0. CASE UNCHANGED <<known, subscribed, recipients, subscriptions, cut, task_vars>>
  BY <1>0 DEF Stages, Staged, task_vars
<1>1. CASE FanOut
  BY <1>0, <1>1 DEF FanOut, core, mirrors
<1>2. CASE CleanupDead
  <2>1. Head(work).op = "cleanup" /\ Head(work) \in Item /\ Head(work) = work[1]
        /\ 1 \in 1..Len(work)
    <3>1. work \in Seq(Item) /\ work # <<>>
      BY <1>2, <1>a DEF WorkerTyped, CleanupDead, Idle
    <3>2. Head(work) = work[1] /\ 1 \in 1..Len(work)
      BY <3>1, SaidAfter
    <3>3. Head(work) \in Item
      <4> HIDE DEF Item
      <4> QED BY <3>1
    <3> QED BY <1>2, <3>2, <3>3 DEF CleanupDead
  <2>2. PICK c \in Connections : c = Head(work).connection /\ reader[c] \notin Unregistered
    BY <2>1 DEF Item, Notification, Clean, Valids, Valid
  <2>3. UNCHANGED <<reader, target, writer, drainer>>
    BY <1>2 DEF CleanupDead, task_vars
  <2>4. CASE c \in known
    <3>1. Disconnect(c, Tail(work))
      BY <1>2, <2>2, <2>4 DEF CleanupDead
    <3> QED BY <2>2, <2>3, <3>1, DisconnectKeepsStages
  <2>5. CASE c \notin known
    <3>1. /\ recipients' = recipients \ {c} /\ subscriptions' = [subscriptions EXCEPT ![c] = {}]
          /\ UNCHANGED <<known, subscribed, cut>>
      BY <1>2, <2>2, <2>5 DEF CleanupDead, core, history
    <3>2. \A d \in Connections \ {c} : SameAt(d)
      BY <1>a, <2>2, <2>3, <3>1 DEF SameAt, WorkerTyped
    <3>3. /\ subscriptions'[c] = {} /\ subscribed'[c] = subscribed[c]
          /\ c \notin recipients' /\ c \notin known' /\ Staged(c)
          /\ reader'[c] = reader[c] /\ target'[c] = target[c]
      BY <1>a, <1>b, <2>2, <2>3, <2>5, <3>1 DEF WorkerTyped
    <3>4. Staged(c)'
      BY <2>2, <3>3 DEF Staged, Unregistered, Greeting
    <3>5. recipients' \subseteq known' \cup cut'
      BY <1>c, <3>1
    <3> QED BY <2>2, <3>2, <3>4, <3>5, OneMoves
  <2> QED BY <2>4, <2>5
<1>3. ASSUME NEW c \in Connections, AcceptFails(c) \/ Teardown(c) PROVE Stages'
  <2>1. PICK next \in {"closed", "waiting"} : reader' = [reader EXCEPT ![c] = next]
    BY <1>3 DEF AcceptFails, Teardown
  <2>2. Disconnect(c, <<>>)
    BY <1>3 DEF AcceptFails, Teardown
  <2>3. \A d \in Connections \ {c} : /\ reader'[d] = reader[d] /\ target'[d] = target[d]
                                     /\ writer'[d] = writer[d] /\ drainer'[d] = drainer[d]
    BY <1>a, <1>3, <2>1 DEF AcceptFails, Teardown, TasksTyped
  <2>4. reader'[c] = next /\ target'[c] = target[c] /\ next \notin Unregistered
    BY <1>a, <1>3, <2>1 DEF AcceptFails, Teardown, TasksTyped, Unregistered
  <2> QED BY <2>2, <2>3, <2>4, DisconnectKeepsStages
<1>4. ASSUME NEW c \in Connections, DrainLoses(c) \/ WriterLoses(c) PROVE Stages'
  <2>1. Disconnect(c, <<>>) /\ reader' = reader /\ target' = target
    BY <1>4 DEF DrainLoses, WriterLoses
  <2>2. reader[c] \notin Unregistered
    BY <1>b, <1>4 DEF DrainLoses, WriterLoses, Staged
  <2>3. \A d \in Connections \ {c} : writer'[d] = writer[d] /\ drainer'[d] = drainer[d]
    BY <1>a, <1>4 DEF DrainLoses, WriterLoses, TasksTyped
  <2> QED BY <2>1, <2>2, <2>3, DisconnectKeepsStages
<1>5. ASSUME NEW c \in Connections, Connect(c) PROVE Stages'
  <2>1. \A d \in Connections \ {c} : SameAt(d)
    BY <1>a, <1>5 DEF Connect, SameAt, TasksTyped, mirrors
  <2>2. Staged(c)'
    BY <1>a, <1>b, <1>5 DEF Connect, Staged, TasksTyped, mirrors, Unregistered, Greeting
  <2>3. recipients' \subseteq known' \cup cut'
    BY <1>c, <1>5 DEF Connect, mirrors, history
  <2> QED BY <2>1, <2>2, <2>3, OneMoves
<1>6. ASSUME NEW c \in Connections, RegisterLifecycle(c) PROVE Stages'
  <2>1. \A d \in Connections \ {c} : SameAt(d)
    BY <1>a, <1>6 DEF RegisterLifecycle, SameAt, TasksTyped, core
  <2>2. Staged(c)'
    BY <1>a, <1>b, <1>6 DEF RegisterLifecycle, Staged, TasksTyped, core, Unregistered, Greeting
  <2>3. recipients' \subseteq known' \cup cut'
    BY <1>b, <1>c, <1>6 DEF RegisterLifecycle, core, history, Staged
  <2> QED BY <2>1, <2>2, <2>3, OneMoves
<1>7. ASSUME NEW c \in Connections, NEW next,
             UNCHANGED <<known, subscribed, recipients, subscriptions, cut, target>>,
             reader' \in [Connections -> ReaderStates],
             reader'[c] \in {next, "closing"},
             \A d \in Connections \ {c} : reader'[d] = reader[d],
             \A d \in Connections \ {c} : writer'[d] = writer[d] /\ drainer'[d] = drainer[d],
             reader[c] \notin Unregistered,
             \/ next = "closing"
             \/ next = reader[c] /\ reader[c] # "waiting"
             \/ reader[c] = "hello" /\ next = "authenticate"
             \/ reader[c] = "authenticate" /\ next = "open"
             \/ reader[c] = "accepting" /\ next = "activating"
             \/ reader[c] = "flushing" /\ next = "open"
             \/ reader[c] = "open" /\ next = "flushing"
             \/ reader[c] = "waiting" /\ next = "closed" /\ reader'[c] = "closed"
      PROVE  Stages'
  <2>1. \A d \in Connections \ {c} : SameAt(d)
    BY <1>7 DEF SameAt
  <2>2. Staged(c)'
    <3>1. Staged(c)
      BY <1>b
    <3>2. reader'[c] \notin Unregistered
      BY <1>7 DEF Unregistered
    <3>3. CASE reader'[c] = "closing"
      BY <1>7, <3>1, <3>2, <3>3 DEF Staged, Unregistered, Greeting
    <3>4. CASE reader'[c] = next
      BY <1>7, <3>1, <3>2, <3>4 DEF Staged, Unregistered, Greeting
    <3> QED BY <1>7, <3>3, <3>4
  <2> QED BY <1>7, <1>c, <2>1, <2>2, OneMoves
<1>8. ASSUME NEW c \in Connections, NEW n \in Nat, NEW next \in ReaderStates, Replies(c, n, next)
      PROVE  /\ reader' \in [Connections -> ReaderStates]
             /\ reader'[c] \in {next, "closing"}
             /\ \A d \in Connections \ {c} : reader'[d] = reader[d]
  BY <1>a, <1>8, Replied
<1>d. Serving \cup {"new", "accepted", "accepting", "activating",
                    "flushing", "closing", "waiting", "closed"} = ReaderStates
  BY DEF ReaderStates
<1>e. \A c \in Connections : backlog[c] \in Nat
  BY <1>a DEF CoreTyped
<1>9. ASSUME NEW c \in Connections, Hello(c) \/ Authenticate(c) \/ Accepted(c) \/ Flush(c)
      \/ Snapshot(c)
      PROVE  Stages'
  <2>1. UNCHANGED <<known, subscribed, recipients, subscriptions, cut, target, writer, drainer>>
    BY <1>9 DEF Hello, Authenticate, Accepted, Flush, Snapshot, core, mirrors, history
  <2>2. PICK n \in Nat, next \in {"authenticate", "open", "activating"} :
           /\ Replies(c, n, next)
           /\ \/ reader[c] = "hello" /\ next = "authenticate"
              \/ reader[c] = "authenticate" /\ next = "open"
              \/ reader[c] = "accepting" /\ next = "activating"
              \/ reader[c] = "flushing" /\ next = "open"
              \/ reader[c] = "open" /\ next = "open"
    BY <1>9, <1>e DEF Hello, Authenticate, Accepted, Flush, Snapshot, Ready
  <2>3. next \in ReaderStates
    BY DEF ReaderStates, Serving
  <2> QED BY <1>7, <1>8, <2>1, <2>2, <2>3 DEF Unregistered
<1>10. ASSUME NEW c \in Connections, Refuse(c) \/ Interrupted(c) \/ Close(c) PROVE Stages'
  <2>1. UNCHANGED <<known, subscribed, recipients, subscriptions, cut, target, writer, drainer>>
    BY <1>10 DEF Refuse, Interrupted, Close, core, mirrors, history
  <2>2. PICK next \in {"closing", "closed"} :
           /\ reader' = [reader EXCEPT ![c] = next]
           /\ \/ next = "closing" /\ InLoop(c)
              \/ next = "closed" /\ reader[c] = "waiting"
    BY <1>10 DEF Refuse, Interrupted, Close
  <2>3. /\ reader' \in [Connections -> ReaderStates] /\ reader'[c] = next
        /\ \A d \in Connections \ {c} : reader'[d] = reader[d]
    BY <1>a, <2>2 DEF TasksTyped, ReaderStates
  <2> QED BY <1>7, <2>1, <2>2, <2>3 DEF Unregistered, InLoop, Serving
<1>11. ASSUME NEW c \in Connections, Drain(c) \/ Write(c) \/ WriteFails(c) \/ WriterEnds(c)
      \/ PeerGone(c)
       PROVE  Stages'
  <2>1. UNCHANGED <<known, subscribed, recipients, subscriptions, cut, target, reader>>
    BY <1>11 DEF Drain, Write, WriteFails, WriterEnds, PeerGone, core, mirrors, history, task_vars
  <2>2. \A d \in Connections \ {c} : writer'[d] = writer[d] /\ drainer'[d] = drainer[d]
    BY <1>a, <1>11 DEF Drain, Write, WriteFails, WriterEnds, PeerGone, task_vars, TasksTyped
  <2>3. CASE PeerGone(c) \/ Write(c)
    BY <1>0, <2>1, <2>3 DEF PeerGone, Write, task_vars
  <2>4. CASE Drain(c) \/ WriteFails(c) \/ WriterEnds(c)
    <3>1. reader[c] \notin Unregistered
      BY <1>b, <2>4 DEF Drain, WriteFails, WriterEnds, Staged
    <3>2. \A d \in Connections \ {c} : SameAt(d)
      BY <2>1, <2>2 DEF SameAt
    <3>3. Staged(c)'
      BY <1>b, <2>1, <3>1 DEF Staged
    <3> QED BY <1>c, <2>1, <3>2, <3>3, OneMoves
  <2> QED BY <1>11, <2>3, <2>4
<1>12. ASSUME NEW c \in Connections, ActivateSubscription(c) PROVE Stages'
  <2>1. /\ reader[c] = "activating" /\ reader'[c] = "flushing"
        /\ subscriptions'[c] = subscriptions[c] \cup {target[c]}
        /\ UNCHANGED <<known, subscribed, recipients, cut, writer, drainer>>
        /\ \A d \in Connections \ {c} : /\ reader'[d] = reader[d] /\ target'[d] = target[d]
                                        /\ subscriptions'[d] = subscriptions[d]
    BY <1>a, <1>12 DEF ActivateSubscription, core, TasksTyped, WorkerTyped
  <2>2. \A d \in Connections \ {c} : SameAt(d)
    BY <2>1 DEF SameAt
  <2>3. Staged(c)'
    BY <1>b, <2>1 DEF Staged, Unregistered, Greeting
  <2> QED BY <1>c, <2>1, <2>2, <2>3, OneMoves
<1>13. ASSUME NEW c \in Connections, Join(c) PROVE Stages'
  BY <1>0, <1>13 DEF Join, mirrors, history
<1>14. ASSUME NEW c \in Connections, Leave(c) PROVE Stages'
  <2>1. /\ reader[c] = "open" /\ subscribed'[c] = {} /\ subscriptions'[c] = {}
        /\ UNCHANGED <<known, recipients, cut, reader, target, writer, drainer>>
        /\ \A d \in Connections \ {c} : /\ subscribed'[d] = subscribed[d]
                                        /\ subscriptions'[d] = subscriptions[d]
    BY <1>a, <1>14 DEF Leave, Ready, CoreTyped, WorkerTyped, task_vars
  <2>2. \A d \in Connections \ {c} : SameAt(d)
    BY <2>1 DEF SameAt
  <2>3. Staged(c)'
    BY <1>b, <2>1 DEF Staged, Unregistered, Greeting
  <2> QED BY <1>c, <2>1, <2>2, <2>3, OneMoves
<1>15. ASSUME NEW c \in Connections, NEW x \in Spaces, SubscribeAndSpawn(c, x) PROVE Stages'
  <2>1. /\ reader[c] = "open" /\ c \in known /\ subscribed'[c] = subscribed[c] \cup {x}
        /\ UNCHANGED <<known, recipients, subscriptions, cut, writer, drainer>>
        /\ \A d \in Connections \ {c} : subscribed'[d] = subscribed[d]
    BY <1>a, <1>15 DEF SubscribeAndSpawn, Ready, CoreTyped, mirrors, history
  <2>2. /\ \/ reader'[c] = "accepting" /\ target'[c] = x
           \/ reader'[c] = "closing"
        /\ \A d \in Connections \ {c} : reader'[d] = reader[d] /\ target'[d] = target[d]
    BY <1>a, <1>15 DEF SubscribeAndSpawn, TasksTyped
  <2>3. \A d \in Connections \ {c} : SameAt(d)
    BY <2>1, <2>2 DEF SameAt
  <2>4. Staged(c)'
    BY <1>b, <2>1, <2>2 DEF Staged, Unregistered, Greeting
  <2> QED BY <1>c, <2>1, <2>3, <2>4, OneMoves
<1>16. ASSUME NEW c \in Connections, NEW x \in Spaces, Unsubscribe(c, x) PROVE Stages'
  <2>0. PICK kept \in 0..backlog[c] : Replies(c, kept, "open")
    BY <1>16 DEF Unsubscribe
  <2>a. kept \in Nat /\ "open" \in ReaderStates
    BY <1>e DEF ReaderStates, Serving
  <2>1. /\ reader[c] = "open" /\ c \in known
        /\ subscribed'[c] = subscribed[c] \ {x} /\ subscriptions'[c] = subscriptions[c] \ {x}
        /\ UNCHANGED <<known, recipients, cut, target, writer, drainer>>
        /\ \A d \in Connections \ {c} : /\ subscribed'[d] = subscribed[d]
                                        /\ subscriptions'[d] = subscriptions[d]
    BY <1>a, <1>16 DEF Unsubscribe, Ready, CoreTyped, WorkerTyped
  <2>2. /\ reader'[c] \in {"open", "closing"}
        /\ \A d \in Connections \ {c} : reader'[d] = reader[d]
    BY <1>8, <2>0, <2>a
  <2>3. \A d \in Connections \ {c} : SameAt(d)
    BY <2>1, <2>2 DEF SameAt
  <2>4. Staged(c)'
    BY <1>b, <2>1, <2>2 DEF Staged, Unregistered, Greeting
  <2> QED BY <1>c, <2>1, <2>3, <2>4, OneMoves
<1>17. ASSUME NEW c \in Connections, NEW e, NEW x \in Spaces, TransitionEntity(c, e, x)
      PROVE Stages'
  <2>1. /\ reader[c] = "open"
        /\ UNCHANGED <<known, subscribed, recipients, subscriptions, cut, target, writer, drainer>>
    BY <1>17 DEF TransitionEntity, Ready, mirrors, history
  <2>2. /\ reader' \in [Connections -> ReaderStates] /\ reader'[c] = "flushing"
        /\ \A d \in Connections \ {c} : reader'[d] = reader[d]
    BY <1>a, <1>17 DEF TransitionEntity, TasksTyped, ReaderStates
  <2> QED BY <1>7, <2>1, <2>2 DEF Unregistered
<1>18. ASSUME NEW c \in Connections, NEW x \in Spaces, Publish(c, x) PROVE Stages'
  <2> DEFINE audience == {d \in known : x \in subscribed[d]}
             slow == {d \in audience : backlog[d] = CriticalCapacity}
             queued == [d \in Connections |->
                          CASE d \in slow -> 0
                            [] d \in audience \ slow -> backlog[d] + 1
                            [] OTHER -> backlog[d]]
  <2>0. /\ Replies(c, queued[c], "open") /\ reader[c] = "open"
        /\ known' = known \ slow
        /\ subscribed' = [d \in Connections |-> IF d \in slow THEN {} ELSE subscribed[d]]
        /\ cut' = cut \cup slow
        /\ UNCHANGED <<recipients, subscriptions, target, writer, drainer>>
    BY <1>18 DEF Publish, Ready, mirrors
  <2>1. queued[c] \in Nat
    <3>1. queued[c] \in {0, backlog[c] + 1, backlog[c]}
      OBVIOUS
    <3> QED BY <1>e, <3>1
  <2>2. \A d \in slow : d \in Connections /\ subscribed[d] # {}
    BY <1>a DEF CoreTyped
  <2> HIDE DEF slow, queued
  <2>3. /\ reader'[c] \in {"open", "closing"}
        /\ \A d \in Connections \ {c} : reader'[d] = reader[d]
    <3>1. "open" \in ReaderStates
      BY DEF ReaderStates, Serving
    <3> QED BY <1>8, <2>0, <2>1, <3>1
  <2>4. recipients' \subseteq known' \cup cut'
    BY <1>c, <2>0
  <2>5. \A d \in slow : reader[d] \notin Greeting
    BY <1>b, <2>2 DEF Staged
  <2>6. \A d \in Connections \ slow : subscribed'[d] = subscribed[d]
        /\ (d \in known' <=> d \in known)
    BY <2>0
  <2>7. \A d \in slow : subscribed'[d] = {} /\ d \notin known'
    BY <2>0, <2>2
  <2>8. \A d \in Connections \ {c} : Staged(d)'
    <3> SUFFICES ASSUME NEW d \in Connections \ {c} PROVE Staged(d)'
      OBVIOUS
    <3>1. CASE d \in slow
      BY <1>b, <2>0, <2>3, <2>5, <2>7, <3>1 DEF Staged, Greeting, Unregistered
    <3>2. CASE d \notin slow
      BY <1>b, <2>0, <2>3, <2>6, <3>2 DEF Staged
    <3> QED BY <3>1, <3>2
  <2>9. Staged(c)'
    <3>1. CASE c \in slow
      BY <1>b, <2>0, <2>3, <2>7, <3>1 DEF Staged, Greeting, Unregistered
    <3>2. CASE c \notin slow
      BY <1>b, <2>0, <2>3, <2>6, <3>2 DEF Staged, Greeting, Unregistered
    <3> QED BY <3>1, <3>2
  <2> QED BY <2>4, <2>8, <2>9 DEF Stages
<1>19. CASE UNCHANGED lifecycle_vars
  BY <1>0, <1>19 DEF lifecycle_vars, core, mirrors, history
<1> QED BY <1>1, <1>2, <1>3, <1>4, <1>5, <1>6, <1>9, <1>10, <1>11, <1>12, <1>13, <1>14, <1>15,
           <1>16, <1>17, <1>18, <1>19
        DEF LifecycleNext, ClientRequests, Ends, Continues, Writes, WriterStops, Drains

-----------------------------------------------------------------------------
(* What the items of work are.                                             *)
LEMMA ItemFacts ==
    ASSUME NEW w \in Seq(Item)
    PROVE  \A i \in 1..Len(w) :
              /\ w[i].op \in {"entered", "left", "cleanup"}
              /\ w[i].op = "cleanup" => w[i].connection \in Connections
              /\ w[i].op # "cleanup" => /\ w[i].entity \in Entities /\ w[i].space \in Spaces
                                        /\ w[i].except \subseteq Connections
<1>1. \A m \in Item : /\ m.op \in {"entered", "left", "cleanup"}
                      /\ m.op = "cleanup" => m.connection \in Connections
                      /\ m.op # "cleanup" => /\ m.entity \in Entities /\ m.space \in Spaces
                                             /\ m.except \subseteq Connections
  BY DEF Item, Notification, Clean
<1> HIDE DEF Item
<1>2. \A i \in 1..Len(w) : w[i] \in Item
  OBVIOUS
<1> QED BY <1>1, <1>2

(* No reader goes back to where its connection is not registered.          *)
LEMMA StaysRegistered ==
    LifecycleTypes /\ [LifecycleNext]_lifecycle_vars =>
        \A d \in Connections : reader[d] \notin Unregistered => reader'[d] \notin Unregistered
<1> SUFFICES ASSUME LifecycleTypes, [LifecycleNext]_lifecycle_vars,
                    NEW d \in Connections, reader[d] \notin Unregistered
    PROVE  reader'[d] \notin Unregistered
  OBVIOUS
<1>a. reader \in [Connections -> ReaderStates]
  BY TypesInParts DEF TasksTyped
<1>0. CASE reader' = reader
  BY <1>0
<1>1. ASSUME NEW c \in Connections, NEW next, reader' = [reader EXCEPT ![c] = next],
             next \notin Unregistered
      PROVE  reader'[d] \notin Unregistered
  BY <1>a, <1>1
<1>b. {"authenticate", "open", "closed", "hello", "closing", "accepting", "activating",
       "flushing", "waiting"} \cap Unregistered = {}
  BY DEF Unregistered
<1>2. ASSUME NEW c \in Connections, NEW n, NEW next, Replies(c, n, next), next \notin Unregistered
      PROVE  reader'[d] \notin Unregistered
  BY <1>1, <1>2, <1>b DEF Replies
<1>3. ASSUME NEW c \in Connections, Connect(c) PROVE reader'[d] \notin Unregistered
  BY <1>a, <1>3 DEF Connect, Unregistered
<1>4. ASSUME NEW c \in Connections, AcceptFails(c) \/ RegisterLifecycle(c) \/ Hello(c)
      \/ Authenticate(c)
      PROVE  reader'[d] \notin Unregistered
  BY <1>1, <1>2, <1>4, <1>b DEF AcceptFails, RegisterLifecycle, Hello, Authenticate
<1>5. ASSUME NEW c \in Connections, Refuse(c) \/ Interrupted(c) \/ Teardown(c) \/ Close(c)
      PROVE  reader'[d] \notin Unregistered
  BY <1>1, <1>5, <1>b DEF Refuse, Interrupted, Teardown, Close
<1>6. ASSUME NEW c \in Connections, Accepted(c) \/ ActivateSubscription(c) \/ Flush(c)
      PROVE  reader'[d] \notin Unregistered
  BY <1>1, <1>2, <1>6, <1>b DEF Accepted, ActivateSubscription, Flush
<1>7. ASSUME NEW c \in Connections, ClientRequests(c) PROVE reader'[d] \notin Unregistered
  <2>1. CASE Join(c) \/ Leave(c)
    BY <1>0, <2>1 DEF Join, Leave, task_vars
  <2>2. CASE Snapshot(c)
    BY <1>2, <1>b, <2>2 DEF Snapshot
  <2>3. ASSUME NEW x \in Spaces, SubscribeAndSpawn(c, x) PROVE reader'[d] \notin Unregistered
    BY <1>1, <1>b, <2>3 DEF SubscribeAndSpawn
  <2>4. ASSUME NEW x \in Spaces, Unsubscribe(c, x) PROVE reader'[d] \notin Unregistered
    BY <1>2, <1>b, <2>4 DEF Unsubscribe
  <2>5. ASSUME NEW x \in Spaces, Publish(c, x) PROVE reader'[d] \notin Unregistered
    <3>1. \E n : Replies(c, n, "open")
      BY <2>5 DEF Publish
    <3> QED BY <1>2, <1>b, <3>1
  <2>6. ASSUME NEW e, NEW x, TransitionEntity(c, e, x) PROVE reader'[d] \notin Unregistered
    BY <1>1, <1>b, <2>6 DEF TransitionEntity
  <2> QED BY <1>7, <2>1, <2>2, <2>3, <2>4, <2>5, <2>6 DEF ClientRequests
<1>8. ASSUME NEW c \in Connections,
             \/ Drain(c) \/ DrainLoses(c) \/ Write(c) \/ WriteFails(c) \/ WriterLoses(c)
             \/ WriterEnds(c) \/ PeerGone(c)
      PROVE  reader'[d] \notin Unregistered
  BY <1>0, <1>8 DEF Drain, DrainLoses, Write, WriteFails, WriterLoses, WriterEnds, PeerGone,
        task_vars
<1>9. CASE FanOut \/ CleanupDead
  BY <1>0, <1>9 DEF FanOut, CleanupDead, task_vars
<1>10. CASE UNCHANGED lifecycle_vars
  BY <1>0, <1>10 DEF lifecycle_vars, task_vars
<1> QED BY <1>3, <1>4, <1>5, <1>6, <1>7, <1>8, <1>9, <1>10
        DEF LifecycleNext, Ends, Continues, Writes, WriterStops, Drains

-----------------------------------------------------------------------------
(* When entities only vanish, items of work stay true if whoever vanished  *)
(* with its arrival unannounced counts as overtaken.                       *)
LEMMA ValidsOfLoss ==
    ASSUME LifecycleTypes, NEW w \in Seq(Item), Valids(w), owners' = owners,
           cut \subseteq cut', overtaken \subseteq overtaken',
           \A e \in Entities : \/ place'[e] = place[e]
                               \/ place'[e] = Gone /\ (e \in Unannounced(w) => e \in overtaken'),
           \A d \in Connections : reader[d] \notin Unregistered => reader'[d] \notin Unregistered
    PROVE  Valids(w)'
<1> SUFFICES ASSUME NEW i \in 1..Len(w) PROVE Valid(w, i)'
  BY DEF Valids
<1>1. /\ Valid(w, i) /\ w[i].op \in {"entered", "left", "cleanup"}
      /\ w[i].op = "cleanup" => w[i].connection \in Connections
      /\ w[i].op # "cleanup" => w[i].entity \in Entities /\ w[i].space \in Spaces
  BY ItemFacts DEF Valids
<1>2. CASE w[i].op = "entered"
  <2>1. w[i].entity \in Unannounced(w)
    BY <1>2 DEF Unannounced
  <2> QED BY <1>1, <1>2, <2>1 DEF Valid
<1>3. CASE w[i].op = "left"
  BY <1>1, <1>3, LifecycleAssumption DEF Valid
<1>4. CASE w[i].op = "cleanup"
  BY <1>1, <1>4 DEF Valid
<1> QED BY <1>1, <1>2, <1>3, <1>4

(* Items that are true whatever follows them.                              *)
SelfEvident(s) ==
    \A i \in 1..Len(s) :
        \/ s[i].op = "left" /\ s[i].except = {} /\ place[s[i].entity] # s[i].space
        \/ s[i].op = "cleanup" /\ reader[s[i].connection] \notin Unregistered

(* They can be put before true items.                                      *)
Prefixing == \A w, s, t : Joins(w, s, t) /\ SelfEvident(s) /\ Valids(t) => Valids(w)

(* That holds in every state.                                              *)
LEMMA ValidsBefore == Prefixing
<1> SUFFICES ASSUME NEW w, NEW s, NEW t, Joins(w, s, t), SelfEvident(s), Valids(t),
                    NEW i \in 1..Len(w)
    PROVE  Valid(w, i)
  BY DEF Prefixing, Valids
<1>1. CASE i \in 1..Len(s)
  <2>1. w[i] = s[i]
    BY <1>1 DEF Joins
  <2> QED BY <1>1, <2>1 DEF SelfEvident, Valid
<1>2. ASSUME NEW j \in 1..Len(t), i = Len(s) + j PROVE Valid(w, i)
  <2>1. w[i] = t[j] /\ Valid(t, j)
    BY <1>2 DEF Joins, Valids
  <2>2. \A k \in 1..Len(t) : k > j =>
           Len(s) + k \in 1..Len(w) /\ Len(s) + k > i /\ w[Len(s) + k] = t[k]
    BY <1>2 DEF Joins
  <2> QED BY <2>1, <2>2 DEF Valid
<1> QED BY <1>1, <1>2 DEF Joins

(* The rest of true items is true.                                         *)
LEMMA ValidsAfter ==
    ASSUME NEW S, NEW w \in Seq(S), w # <<>>, Valids(w)
    PROVE  Valids(Tail(w))
<1> SUFFICES ASSUME NEW i \in 1..Len(Tail(w)) PROVE Valid(Tail(w), i)
  BY DEF Valids
<1> DEFINE t == Tail(w)
<1>1. /\ Len(t) = Len(w) - 1 /\ Len(w) \in Nat
      /\ \A k \in 1..Len(t) : k + 1 \in 1..Len(w) /\ t[k] = w[k + 1]
  BY SaidAfter
<1>2. Valid(w, i + 1) /\ t[i] = w[i + 1]
  BY <1>1 DEF Valids
<1>3. ASSUME NEW j \in 1..Len(w), j > i + 1
      PROVE  j - 1 \in 1..Len(t) /\ j - 1 > i /\ t[j - 1] = w[j]
  <2>1. j - 1 \in 1..Len(t) /\ j - 1 > i /\ (j - 1) + 1 = j
    BY <1>1, <1>3
  <2> QED BY <1>1, <2>1
<1> HIDE DEF t
<1>4. Valid(t, i)
  BY <1>2, <1>3 DEF Valid
<1> QED BY <1>4 DEF t

(* w tells d whatever t does.                                              *)
Covers(w, t, d) ==
    /\ \A e, x : Announces(t, e, x, d) => Announces(w, e, x, d)
    /\ \A e, x : Retracts(t, e, x) => Retracts(w, e, x)
    /\ Drops(t, d) => Drops(w, d)

(* When the entities of S vanish, a connection whose notifications go on   *)
(* stays informed if their departure is told or excused.                   *)
LEMMA NewsOfLoss ==
    ASSUME LifecycleTypes, NEW S, NEW w, NEW t, NEW d \in Connections, News(t, d),
           owners' = owners, subscriptions'[d] = subscriptions[d], told'[d] = told[d],
           \A e \in Entities : place'[e] = IF owners[e] \in S THEN Gone ELSE place[e],
           cut \subseteq cut', overtaken \subseteq overtaken', Covers(w, t, d),
           \A e \in Entities : owners[e] \in S /\ place[e] # Gone =>
              Retracts(w, e, place[e]) \/ owners[e] \in cut'
    PROVE  News(w, d)'
<1>a. subscriptions[d] \subseteq Spaces /\ Gone \notin Spaces
  BY LifecycleAssumption DEF LifecycleTypes, TypeOK
<1>b. Entities' = Entities
  BY DEF Entities
<1>1. ASSUME NEW x \in subscriptions[d], NEW e \in Entities, place'[e] = x
      PROVE  owners[e] = d \/ <<e, x>> \in told[d] \/ Announces(w, e, x, d) \/ Drops(w, d)
  <2>1. place[e] = x
    BY <1>a, <1>1
  <2>2. owners[e] = d \/ <<e, x>> \in told[d] \/ Announces(t, e, x, d) \/ Drops(t, d)
    BY <2>1 DEF News, Present
  <2> QED BY <2>2 DEF Covers
<1>2. ASSUME NEW e \in Entities, NEW x \in subscriptions[d], <<e, x>> \in told[d]
      PROVE  \/ place'[e] = x \/ owners[e] \in cut' \/ e \in overtaken'
             \/ Retracts(w, e, x) \/ Drops(w, d)
  <2>1. \/ place[e] = x \/ owners[e] \in cut \/ e \in overtaken
        \/ Retracts(t, e, x) \/ Drops(t, d)
    BY <1>2 DEF News
  <2>2. CASE place[e] = x
    BY <1>a, <2>2
  <2>3. CASE Retracts(t, e, x) \/ Drops(t, d)
    BY <2>3 DEF Covers
  <2> QED BY <2>1, <2>2, <2>3
<1> QED BY <1>b, <1>1, <1>2 DEF News, Present

-----------------------------------------------------------------------------
(* Nobody goes back to being unregistered.                                 *)
Registered == \A d \in Connections : reader[d] \notin Unregistered => reader'[d] \notin Unregistered

(* Once the news are told of the sequence that work becomes.               *)
LEMMA NewsOfWork ==
    ASSUME NEW w, work' = w, Valids(w)', \A c \in recipients' : News(w, c)'
    PROVE  Valids(work)' /\ AllNews'
<1>1. Valids(work)'
  BY DEF Valids, Valid
<1>2. AllNews'
  BY DEF AllNews, News
<1> QED BY <1>1, <1>2

(* Where nothing moves the news stay the same.                             *)
LEMMA NewsStill ==
    ASSUME LifecycleTypes, Valids(work), AllNews, Registered,
           UNCHANGED <<recipients, subscriptions, owners, place, told, cut, overtaken, work>>
    PROVE  Valids(work)' /\ AllNews'
<1>1. PICK w \in Seq(Item) : w = work
  BY DEF LifecycleTypes
<1>2. Valids(w)'
  BY <1>1, ValidsOfLoss DEF Registered
<1>3. \A c \in recipients : News(w, c)'
  BY <1>1 DEF AllNews, News, Present, Entities
<1> QED BY <1>1, <1>2, <1>3, NewsOfWork

(* When the entities of a connection vanish and their departures are put   *)
(* before the rest of the work.                                            *)
LEMMA DeparturesNews ==
    ASSUME LifecycleTypes, NEW c \in Connections, NEW rest \in Seq(Item), NEW w, Registered,
           work' = w, w = Departures(c) \o rest, Valids(rest), owners' = owners,
           \A e \in Entities : place'[e] = IF owners[e] = c THEN Gone ELSE place[e],
           cut \subseteq cut', overtaken \subseteq overtaken',
           OwnedBy(c) \cap Unannounced(rest) \subseteq overtaken',
           recipients' \subseteq recipients,
           \A d \in recipients' \ {c} : News(rest, d),
           \A d \in recipients' \ {c} : subscriptions'[d] = subscriptions[d] /\ told'[d] = told[d],
           c \in recipients' => subscriptions'[c] = {}
    PROVE  Valids(work)' /\ AllNews'
<1>0. PICK s : s = Departures(c)
  OBVIOUS
<1>1. TellsDepartures(s, c) /\ Joins(w, s, rest)
  BY <1>0, DeparturesListed, DeparturesBefore
<1>2. \A e \in Entities : place'[e] = place[e] \/ (place'[e] = Gone /\ e \in OwnedBy(c))
  BY DEF OwnedBy
<1>3. Valids(rest)'
  BY <1>2, ValidsOfLoss DEF Registered
<1>4. SelfEvident(s)'
  <2>1. \A e \in OwnedBy(c) : place'[e] = Gone /\ place[e] # Gone
    BY DEF OwnedBy
  <2> QED BY <1>1, <2>1 DEF TellsDepartures, SelfEvident
<1>5. Valids(w)'
  <2>1. Prefixing'
    BY ValidsBefore, PTL
  <2>2. \A u, v, t : Joins(u, v, t) /\ SelfEvident(v)' /\ Valids(t)' => Valids(u)'
    BY <2>1 DEF Prefixing
  <2> QED BY <1>1, <1>3, <1>4, <2>2
<1>6. ASSUME NEW d \in recipients', d # c PROVE News(w, d)'
  <2>1. d \in Connections /\ News(rest, d) /\ subscriptions'[d] = subscriptions[d]
        /\ told'[d] = told[d]
    BY <1>6 DEF LifecycleTypes, TypeOK
  <2>2. Covers(w, rest, d)
    BY <1>1, SaidBehind DEF Covers
  <2>3. \A e \in Entities : owners[e] \in {c} /\ place[e] # Gone =>
           Retracts(w, e, place[e]) \/ owners[e] \in cut'
    <3> SUFFICES ASSUME NEW e \in Entities, owners[e] = c, place[e] # Gone
        PROVE  Retracts(w, e, place[e])
      OBVIOUS
    <3>1. e \in OwnedBy(c)
      BY DEF OwnedBy
    <3>2. Retracts(s, e, place[e])
      BY <1>1, <3>1 DEF TellsDepartures, Retracts
    <3> QED BY <1>1, <3>2, SaidBehind
  <2>4. \A e \in Entities : place'[e] = IF owners[e] \in {c} THEN Gone ELSE place[e]
    OBVIOUS
  <2> QED BY <2>1, <2>2, <2>3, <2>4, NewsOfLoss
<1>7. c \in recipients' => News(w, c)'
  BY DEF News
<1> QED BY <1>5, <1>6, <1>7, NewsOfWork

(* A disconnect keeps the news, with the rest of the work it is part of.   *)
LEMMA DisconnectNews ==
    ASSUME LifecycleTypes, NEW c \in Connections, NEW rest \in Seq(Item), Disconnect(c, rest),
           Registered, Valids(rest), \A d \in recipients \ {c} : News(rest, d),
           c \in recipients \ known => News(rest, c)
    PROVE  Valids(work)' /\ AllNews'
<1>1. CASE c \in known
  <2>1. /\ recipients' = recipients \ {c} /\ work' = Departures(c) \o rest
        /\ subscriptions' = [subscriptions EXCEPT ![c] = {}] /\ told' = [told EXCEPT ![c] = {}]
        /\ overtaken' = overtaken \cup (OwnedBy(c) \cap Unannounced(rest)) /\ cut' = cut
        /\ owners' = owners
        /\ place' = [e \in Entities |-> IF owners[e] \in {c} THEN Gone ELSE place[e]]
    BY <1>1 DEF Disconnect, CoreLoses
  <2>2. PICK w : w = Departures(c) \o rest
    OBVIOUS
  <2>3. \A d \in recipients' \ {c} : subscriptions'[d] = subscriptions[d] /\ told'[d] = told[d]
    BY <2>1 DEF LifecycleTypes, TypeOK
  <2>4. \A e \in Entities : place'[e] = IF owners[e] = c THEN Gone ELSE place[e]
    BY <2>1
  <2> QED BY <2>1, <2>2, <2>3, <2>4, DeparturesNews
<1>2. CASE c \notin known
  <2>1. work' = rest /\ UNCHANGED <<recipients, subscriptions, owners, place, told, cut, overtaken>>
    BY <1>2 DEF Disconnect, core, mirrors, history
  <2>2. Valids(rest)'
    BY <2>1, ValidsOfLoss DEF Registered
  <2>3. \A d \in recipients : News(rest, d)'
    BY <1>2, <2>1 DEF News, Present, Entities
  <2> QED BY <2>1, <2>2, <2>3, NewsOfWork
<1> QED BY <1>1, <1>2

(* Nothing is pending when the worker is idle.                             *)
LEMMA IdleNews ==
    ASSUME work = <<>>, AllNews
    PROVE  /\ \A e, x, c : ~Announces(<<>>, e, x, c) /\ ~Retracts(<<>>, e, x) /\ ~Drops(<<>>, c)
           /\ Valids(<<>>) /\ Valids(<<>>)' /\ \A c \in recipients : News(<<>>, c)
           /\ \A c \in recipients :
                 /\ \A x \in subscriptions[c] : \A e \in Entities :
                       place[e] = x => owners[e] = c \/ <<e, x>> \in told[c]
                 /\ \A e \in Entities : \A x \in subscriptions[c] : <<e, x>> \in told[c] =>
                       place[e] = x \/ owners[e] \in cut \/ e \in overtaken
<1>1. \A e, x, c : ~Announces(<<>>, e, x, c) /\ ~Retracts(<<>>, e, x) /\ ~Drops(<<>>, c)
  BY DEF Announces, Retracts, Drops
<1>2. Valids(<<>>) /\ Valids(<<>>)'
  BY DEF Valids
<1>3. \A c \in recipients : News(<<>>, c)
  BY DEF AllNews
<1> QED BY <1>1, <1>2, <1>3 DEF News, Present

(* A notification that is sent leaves everybody told, or about to be       *)
(* cleaned up after.                                                       *)
LEMMA FanOutNews ==
    ASSUME LifecycleInvariant, FanOut, Registered
    PROVE  Valids(work)' /\ AllNews'
<1> USE DEF LifecycleInvariant
<1>a. TasksTyped /\ CoreTyped /\ WorkerTyped
  BY TypesInParts
<1>b. PICK all \in Seq(Item) : all = work
  BY <1>a DEF WorkerTyped
<1>c. PICK m, t, served, dead, s :
         /\ m = Head(work) /\ t = Tail(work)
         /\ served = {c \in Targets(m) : HasRoom(c, 1)} /\ dead = Targets(m) \ served
         /\ s = [i \in DOMAIN Ascending(dead) |-> Cleanup(Ascending(dead)[i])]
  OBVIOUS
<1>d. PICK w : w = s \o t
  OBVIOUS
<1>1. /\ all # <<>> /\ m.op # "cleanup" /\ work' = w
      /\ told' = [c \in Connections |-> IF c \in served THEN Hears(c, m) ELSE told[c]]
      /\ UNCHANGED <<recipients, subscriptions, owners, place, cut, overtaken>>
  BY <1>b, <1>c, <1>d DEF FanOut, Idle, core, mirrors
<1>2. /\ m = all[1] /\ t \in Seq(Item) /\ 1 \in 1..Len(all) /\ Len(all) \in Nat
      /\ Len(t) = Len(all) - 1
      /\ \A i \in 1..Len(t) : i + 1 \in 1..Len(all) /\ t[i] = all[i + 1]
      /\ \A e, x, c : Announces(all, e, x, c) =>
            \/ Announces(t, e, x, c)
            \/ m.op = "entered" /\ m.entity = e /\ m.space = x /\ c \notin m.except
      /\ \A e, x : Retracts(all, e, x) =>
            Retracts(t, e, x) \/ (m.op = "left" /\ m.entity = e /\ m.space = x)
      /\ \A c : Drops(all, c) => Drops(t, c)
  <2> HIDE DEF Item
  <2> QED BY <1>b, <1>c, <1>1, SaidAfter
<1>3. m.op \in {"entered", "left"} /\ m.entity \in Entities /\ m.space \in Spaces
  BY <1>1, <1>2, ItemFacts
<1>4. dead \subseteq recipients /\ CleansUp(s, dead)
  <2>1. dead \subseteq recipients
    BY <1>c DEF Targets
  <2> QED BY <1>c, <2>1, CleanupsListed
<1>5. Joins(w, s, t)
  <2>1. s \in Seq(Item)
    <3>1. s \in Seq(Clean) /\ Clean \subseteq Item
      BY <1>4 DEF CleansUp, Item
    <3> QED BY <3>1, Widened
  <2> HIDE DEF Item
  <2> QED BY <1>d, <1>2, <2>1, PutBefore
<1>6. Valids(w)'
  <2>1. Valids(t)
    BY <1>b, <1>c, <1>1, ValidsAfter
  <2>2. Valids(t)'
    BY <1>1, <1>2, <2>1, ValidsOfLoss DEF Registered
  <2>3. \A c \in dead : reader'[c] \notin Unregistered
    BY <1>4, <1>a DEF Stages, Staged, Registered, WorkerTyped
  <2>4. SelfEvident(s)'
    BY <1>4, <2>3 DEF CleansUp, SelfEvident
  <2>5. Prefixing'
    BY ValidsBefore, PTL
  <2>6. \A u, v, r : Joins(u, v, r) /\ SelfEvident(v)' /\ Valids(r)' => Valids(u)'
    BY <2>5 DEF Prefixing
  <2> QED BY <1>5, <2>2, <2>4, <2>6
<1>7. Valid(all, 1)
  BY <1>b, <1>2 DEF Valids
<1>e. Entities' = Entities
  BY <1>1 DEF Entities
<1>8. ASSUME NEW c \in recipients PROVE News(w, c)'
  <2>0. c \in Connections /\ News(all, c)
    BY <1>a, <1>b DEF WorkerTyped, AllNews
  <2>1. Covers(w, t, c)
    BY <1>5, SaidBehind DEF Covers
  <2>2. CASE c \in dead
    <3>1. Drops(s, c)
      BY <1>4, <2>2 DEF CleansUp, Drops
    <3>2. Drops(w, c)
      BY <1>5, <3>1, SaidBehind
    <3> QED BY <3>2 DEF News
  <2>3. CASE c \in served /\ m.op = "entered"
    <3>1. told'[c] = told[c] \cup {<<m.entity, m.space>>}
      BY <1>1, <2>0, <2>3 DEF Hears
    <3>2. \/ place[m.entity] = m.space \/ owners[m.entity] \in cut \/ m.entity \in overtaken
      BY <1>2, <1>7, <2>3 DEF Valid
    <3>3. ASSUME NEW x \in subscriptions[c], NEW e \in Entities, place[e] = x
          PROVE  owners[e] = c \/ <<e, x>> \in told'[c] \/ Announces(w, e, x, c) \/ Drops(w, c)
      <4>1. owners[e] = c \/ <<e, x>> \in told[c] \/ Announces(all, e, x, c) \/ Drops(all, c)
        BY <2>0, <3>3 DEF News, Present
      <4> QED BY <1>2, <2>1, <3>1, <4>1 DEF Covers
    <3>4. ASSUME NEW e \in Entities, NEW x \in subscriptions[c], <<e, x>> \in told'[c]
          PROVE  \/ place[e] = x \/ owners[e] \in cut \/ e \in overtaken
                 \/ Retracts(w, e, x) \/ Drops(w, c)
      <4>1. CASE <<e, x>> \in told[c]
        <5>1. \/ place[e] = x \/ owners[e] \in cut \/ e \in overtaken
              \/ Retracts(all, e, x) \/ Drops(all, c)
          BY <2>0, <4>1 DEF News
        <5> QED BY <1>2, <2>1, <2>3, <5>1 DEF Covers
      <4>2. CASE e = m.entity /\ x = m.space
        BY <3>2, <4>2
      <4> QED BY <3>1, <3>4, <4>1, <4>2
    <3> QED BY <1>1, <1>e, <3>3, <3>4 DEF News, Present
  <2>4. CASE c \in served /\ m.op = "left"
    <3>1. told'[c] = told[c] \ {<<m.entity, m.space>>}
      BY <1>1, <2>0, <2>4 DEF Hears
    <3>2. place[m.entity] = m.space => Announces(t, m.entity, m.space, c)
      <4> SUFFICES ASSUME place[m.entity] = m.space PROVE Announces(t, m.entity, m.space, c)
        OBVIOUS
      <4>1. PICK j \in 1..Len(all) :
               /\ j > 1 /\ all[j].op = "entered" /\ all[j].entity = m.entity
               /\ all[j].space = m.space /\ all[j].except = {}
        BY <1>2, <1>7, <2>4 DEF Valid
      <4>2. j - 1 \in 1..Len(t) /\ (j - 1) + 1 = j
        BY <1>2, <4>1
      <4>3. t[j - 1] = all[j]
        BY <1>2, <4>2
      <4> QED BY <4>1, <4>2, <4>3 DEF Announces
    <3>3. ASSUME NEW x \in subscriptions[c], NEW e \in Entities, place[e] = x
          PROVE  owners[e] = c \/ <<e, x>> \in told'[c] \/ Announces(w, e, x, c) \/ Drops(w, c)
      <4>1. owners[e] = c \/ <<e, x>> \in told[c] \/ Announces(all, e, x, c) \/ Drops(all, c)
        BY <2>0, <3>3 DEF News, Present
      <4>2. CASE e = m.entity /\ x = m.space
        BY <2>1, <3>2, <3>3, <4>2 DEF Covers
      <4>3. CASE ~(e = m.entity /\ x = m.space)
        BY <1>2, <2>1, <2>4, <3>1, <4>1, <4>3 DEF Covers
      <4> QED BY <4>2, <4>3
    <3>4. ASSUME NEW e \in Entities, NEW x \in subscriptions[c], <<e, x>> \in told'[c]
          PROVE  \/ place[e] = x \/ owners[e] \in cut \/ e \in overtaken
                 \/ Retracts(w, e, x) \/ Drops(w, c)
      <4>1. <<e, x>> \in told[c] /\ ~(e = m.entity /\ x = m.space)
        BY <3>1, <3>4
      <4>2. \/ place[e] = x \/ owners[e] \in cut \/ e \in overtaken
            \/ Retracts(all, e, x) \/ Drops(all, c)
        BY <2>0, <4>1 DEF News
      <4> QED BY <1>2, <2>1, <4>1, <4>2 DEF Covers
    <3> QED BY <1>1, <1>e, <3>3, <3>4 DEF News, Present
  <2>5. CASE c \notin Targets(m)
    <3>1. told'[c] = told[c]
      BY <1>c, <1>1, <2>0, <2>5
    <3>2. c \in m.except \/ m.space \notin subscriptions[c]
      BY <2>5 DEF Targets
    <3>3. m.op = "left" => m.except = {}
      BY <1>2, <1>7 DEF Valid
    <3>4. ASSUME NEW x \in subscriptions[c], NEW e \in Entities, place[e] = x
          PROVE  owners[e] = c \/ <<e, x>> \in told'[c] \/ Announces(w, e, x, c) \/ Drops(w, c)
      <4>1. owners[e] = c \/ <<e, x>> \in told[c] \/ Announces(all, e, x, c) \/ Drops(all, c)
        BY <2>0, <3>4 DEF News, Present
      <4> QED BY <1>2, <2>1, <3>1, <3>2, <4>1 DEF Covers
    <3>5. ASSUME NEW e \in Entities, NEW x \in subscriptions[c], <<e, x>> \in told'[c]
          PROVE  \/ place[e] = x \/ owners[e] \in cut \/ e \in overtaken
                 \/ Retracts(w, e, x) \/ Drops(w, c)
      <4>1. \/ place[e] = x \/ owners[e] \in cut \/ e \in overtaken
            \/ Retracts(all, e, x) \/ Drops(all, c)
        BY <2>0, <3>1, <3>5 DEF News
      <4> QED BY <1>2, <2>1, <3>2, <3>3, <4>1 DEF Covers
    <3> QED BY <1>1, <1>e, <3>4, <3>5 DEF News, Present
  <2> QED BY <1>c, <1>3, <2>2, <2>3, <2>4, <2>5
<1> QED BY <1>1, <1>6, <1>8, NewsOfWork

(* Every step keeps the items of work true and the news complete.          *)
LEMMA NextNews ==
    ASSUME LifecycleInvariant, [LifecycleNext]_lifecycle_vars
    PROVE  Valids(work)' /\ AllNews'
<1> USE DEF LifecycleInvariant
<1>a. TasksTyped /\ CoreTyped /\ WorkerTyped
  BY TypesInParts
<1>b. Registered
  BY StaysRegistered DEF Registered
<1>c. <<>> \in Seq(Item)
  OBVIOUS
<1>d. /\ recipients \subseteq Connections
      /\ \A c \in Connections : subscriptions[c] \subseteq Spaces
            /\ told[c] \subseteq Entities \X Spaces
  BY <1>a DEF WorkerTyped
<1>0. CASE UNCHANGED <<recipients, subscriptions, owners, place, told, cut, overtaken, work>>
  BY <1>0, <1>b, NewsStill
<1>1. CASE FanOut
  BY <1>1, <1>b, FanOutNews
<1>2. CASE CleanupDead
  <2>0. PICK all \in Seq(Item) : all = work
    BY <1>a DEF WorkerTyped
  <2>1. /\ Head(all).op = "cleanup" /\ all # <<>> /\ Head(all) = all[1] /\ 1 \in 1..Len(all)
    BY <1>2, <2>0, SaidAfter DEF CleanupDead, Idle
  <2>2. PICK c \in Connections : c = Head(all).connection
    BY <2>1, ItemFacts
  <2>3. PICK rest \in Seq(Item) : rest = Tail(all)
    BY <2>1, SaidAfter
  <2>4. Valids(rest)
    BY <2>0, <2>1, <2>3, ValidsAfter
  <2>5. \A d \in recipients \ {c} : News(rest, d)
    <3> SUFFICES ASSUME NEW d \in recipients \ {c} PROVE News(rest, d)
      OBVIOUS
    <3>1. /\ \A e, x : Announces(all, e, x, d) => Announces(rest, e, x, d)
          /\ \A e, x : Retracts(all, e, x) => Retracts(rest, e, x)
          /\ Drops(all, d) => Drops(rest, d)
      BY <2>1, <2>2, <2>3, SaidAfter
    <3>2. News(all, d)
      BY <2>0 DEF AllNews
    <3> QED BY <3>1, <3>2 DEF News
  <2>6. CASE c \in known
    <3>1. Disconnect(c, rest)
      BY <1>2, <2>0, <2>2, <2>3, <2>6 DEF CleanupDead
    <3> QED BY <1>b, <2>4, <2>5, <2>6, <3>1, DisconnectNews
  <2>7. CASE c \notin known
    <3>1. /\ recipients' = recipients \ {c} /\ subscriptions' = [subscriptions EXCEPT ![c] = {}]
          /\ work' = rest /\ UNCHANGED <<owners, place, told, cut, overtaken>>
      BY <1>2, <2>0, <2>2, <2>3, <2>7 DEF CleanupDead, core, history
    <3>2. Valids(rest)'
      BY <1>b, <2>4, <3>1, ValidsOfLoss DEF Registered
    <3>3. \A d \in recipients \ {c} : subscriptions'[d] = subscriptions[d]
      BY <1>a, <3>1 DEF WorkerTyped
    <3>4. \A d \in recipients' : News(rest, d)'
      BY <2>5, <3>1, <3>3 DEF News, Present, Entities
    <3> QED BY <3>1, <3>2, <3>4, NewsOfWork
  <2> QED BY <2>6, <2>7
<1>3. ASSUME NEW c \in Connections,
             AcceptFails(c) \/ DrainLoses(c) \/ WriterLoses(c) \/ Teardown(c)
      PROVE  Valids(work)' /\ AllNews'
  <2>1. Disconnect(c, <<>>) /\ work = <<>>
    BY <1>3 DEF AcceptFails, DrainLoses, WriterLoses, Teardown, Idle
  <2>2. Valids(<<>>) /\ \A d \in recipients : News(<<>>, d)
    BY <2>1, IdleNews
  <2> QED BY <1>b, <1>c, <2>1, <2>2, DisconnectNews
<1>4. ASSUME NEW c \in Connections,
             \/ Connect(c) \/ Hello(c) \/ Authenticate(c) \/ Refuse(c)
             \/ Interrupted(c) \/ Close(c) \/ Accepted(c) \/ Flush(c) \/ Drain(c)
             \/ Write(c) \/ WriteFails(c) \/ WriterEnds(c) \/ PeerGone(c) \/ Join(c) \/ Snapshot(c)
      PROVE  Valids(work)' /\ AllNews'
  BY <1>0, <1>4 DEF Connect, Hello, Authenticate, Refuse, Interrupted, Close, Accepted, Flush,
        Drain,
                    Write, WriteFails, WriterEnds, PeerGone, Join, Snapshot, core, mirrors, history
<1>5. ASSUME NEW w, work' = w, work = <<>>, Valids(w)', \A d \in recipients' : News(w, d)'
      PROVE  Valids(work)' /\ AllNews'
  BY <1>5, NewsOfWork
<1>6. ASSUME NEW c \in Connections, RegisterLifecycle(c) PROVE Valids(work)' /\ AllNews'
  <2>1. /\ work = <<>> /\ work' = <<>> /\ recipients' = recipients \cup {c}
        /\ reader[c] = "accepted"
        /\ UNCHANGED <<subscriptions, owners, place, told, cut, overtaken>>
    BY <1>6 DEF RegisterLifecycle, Idle, core, history
  <2>2. subscriptions[c] = {}
    BY <2>1 DEF Stages, Staged, Greeting, Unregistered
  <2>3. /\ Valids(<<>>)' /\ \A d \in recipients : News(<<>>, d)
    BY <2>1, IdleNews
  <2>4. News(<<>>, c)'
    BY <2>1, <2>2 DEF News
  <2>5. \A d \in recipients : News(<<>>, d)'
    BY <2>1, <2>3 DEF News, Present, Entities
  <2> QED BY <1>5, <2>1, <2>3, <2>4, <2>5
<1>7. ASSUME NEW c \in Connections, ActivateSubscription(c) PROVE Valids(work)' /\ AllNews'
  <2>1. /\ work = <<>> /\ work' = <<>>
        /\ subscriptions'[c] = subscriptions[c] \cup {target[c]}
        /\ told'[c] = {p \in told[c] : p[2] # target[c]} \cup (Present(target[c]) \X {target[c]})
        /\ \A d \in Connections \ {c} : subscriptions'[d] = subscriptions[d] /\ told'[d] = told[d]
        /\ UNCHANGED <<recipients, owners, place, cut, overtaken>>
    BY <1>a, <1>7 DEF ActivateSubscription, Idle, core, WorkerTyped
  <2>2. Valids(<<>>)'
    BY <2>1, IdleNews
  <2>e. Entities' = Entities
    BY <2>1 DEF Entities
  <2>3. ASSUME NEW d \in recipients, d # c PROVE News(<<>>, d)'
    <3>1. News(<<>>, d) /\ d \in Connections
      BY <1>d, <2>1, IdleNews
    <3> QED BY <2>1, <2>3, <3>1 DEF News, Present, Entities
  <2>4. ASSUME c \in recipients PROVE News(<<>>, c)'
    <3>1. ASSUME NEW x \in subscriptions'[c], NEW e \in Entities, place[e] = x
          PROVE  owners[e] = c \/ <<e, x>> \in told'[c]
      <4>1. CASE x = target[c]
        BY <2>1, <3>1, <4>1 DEF Present
      <4>2. CASE x # target[c]
        <5>1. x \in subscriptions[c] /\ <<e, x>>[2] = x
          BY <2>1, <4>2
        <5>2. owners[e] = c \/ <<e, x>> \in told[c]
          BY <2>1, <2>4, <3>1, <5>1, IdleNews
        <5> QED BY <2>1, <4>2, <5>1, <5>2
      <4> QED BY <4>1, <4>2
    <3>2. ASSUME NEW e \in Entities, NEW x \in subscriptions'[c], <<e, x>> \in told'[c]
          PROVE  place[e] = x \/ owners[e] \in cut \/ e \in overtaken
      <4>1. CASE <<e, x>> \in Present(target[c]) \X {target[c]}
        BY <4>1 DEF Present
      <4>2. CASE <<e, x>> \in {p \in told[c] : p[2] # target[c]}
        <5>1. <<e, x>> \in told[c] /\ x # target[c] /\ x \in subscriptions[c]
          BY <2>1, <4>2
        <5> QED BY <2>1, <2>4, <5>1, IdleNews
      <4> QED BY <2>1, <3>2, <4>1, <4>2
    <3> QED BY <2>1, <2>e, <3>1, <3>2 DEF News, Present
  <2> QED BY <1>5, <2>1, <2>2, <2>3, <2>4
<1>8. ASSUME NEW c \in Connections, Leave(c) PROVE Valids(work)' /\ AllNews'
  <2>1. /\ work = <<>> /\ work' = Departures(c) /\ owners' = owners
        /\ \A e \in Entities : place'[e] = IF owners[e] = c THEN Gone ELSE place[e]
        /\ UNCHANGED <<recipients, cut, overtaken>>
        /\ subscriptions'[c] = {}
        /\ \A d \in Connections \ {c} : subscriptions'[d] = subscriptions[d] /\ told'[d] = told[d]
    BY <1>a, <1>8 DEF Leave, Ready, Idle, WorkerTyped
  <2>2. Valids(<<>>) /\ \A d \in recipients : News(<<>>, d)
    BY <2>1, IdleNews
  <2>3. PICK w : w = Departures(c) \o <<>>
    OBVIOUS
  <2>4. work' = w
    <3>1. Departures(c) \in Seq(Notification)
      BY DeparturesListed DEF TellsDepartures
    <3>2. Departures(c) \o <<>> = Departures(c)
      <4> HIDE DEF Notification
      <4> QED BY <3>1
    <3> QED BY <2>1, <2>3, <3>2
  <2>5. OwnedBy(c) \cap Unannounced(<<>>) \subseteq overtaken'
    BY DEF Unannounced
  <2> QED BY <1>b, <1>c, <1>d, <2>1, <2>2, <2>3, <2>4, <2>5, DeparturesNews
<1>9. ASSUME NEW c \in Connections, NEW x \in Spaces, Unsubscribe(c, x)
      PROVE  Valids(work)' /\ AllNews'
  <2>1. /\ work = <<>> /\ work' = <<>>
        /\ subscriptions'[c] = subscriptions[c] \ {x}
        /\ told'[c] = {p \in told[c] : p[2] # x}
        /\ \A d \in Connections \ {c} : subscriptions'[d] = subscriptions[d] /\ told'[d] = told[d]
        /\ UNCHANGED <<recipients, owners, place, cut, overtaken>>
    BY <1>a, <1>9 DEF Unsubscribe, Ready, Idle, WorkerTyped
  <2>2. Valids(<<>>)'
    BY <2>1, IdleNews
  <2>3. ASSUME NEW d \in recipients, d # c PROVE News(<<>>, d)'
    <3>1. News(<<>>, d) /\ d \in Connections
      BY <1>d, <2>1, IdleNews
    <3> QED BY <2>1, <2>3, <3>1 DEF News, Present, Entities
  <2>4. ASSUME c \in recipients PROVE News(<<>>, c)'
    <3>0. \A e, y : <<e, y>> \in told'[c] <=> <<e, y>> \in told[c] /\ y # x
      BY <2>1
    <3>1. News(<<>>, c)
      BY <2>1, <2>4, IdleNews
    <3> QED BY <2>1, <3>0, <3>1 DEF News, Present, Entities
  <2> QED BY <1>5, <2>1, <2>2, <2>3, <2>4
<1>10. ASSUME NEW c \in Connections, NEW x \in Spaces, Publish(c, x)
       PROVE  Valids(work)' /\ AllNews'
  <2>1. PICK slow : /\ place' = [e \in Entities |-> IF owners[e] \in slow THEN Gone ELSE place[e]]
                    /\ cut' = cut \cup slow
    BY <1>10 DEF Publish
  <2>2. /\ work = <<>> /\ work' = <<>>
        /\ UNCHANGED <<recipients, subscriptions, owners, told, overtaken>>
    BY <1>10 DEF Publish, Ready, Idle, mirrors
  <2>3. Valids(<<>>)' /\ \A d \in recipients : News(<<>>, d)
    BY <2>2, IdleNews
  <2>4. \A e \in Entities : place'[e] = IF owners[e] \in slow THEN Gone ELSE place[e]
    BY <2>1
  <2>5. \A d \in recipients : Covers(<<>>, <<>>, d)
    BY DEF Covers
  <2>6. \A d \in recipients : News(<<>>, d)'
    BY <1>d, <2>1, <2>2, <2>3, <2>4, <2>5, NewsOfLoss
  <2> QED BY <1>5, <2>2, <2>3, <2>6
<1>11. ASSUME NEW c \in Connections, NEW e \in Entities, NEW x \in Spaces, TransitionEntity(c, e, x)
       PROVE  Valids(work)' /\ AllNews'
  <2>1. PICK w : w = <<Left(e, place[e]), Entered(e, x, {})>>
    OBVIOUS
  <2>2. /\ work = <<>> /\ work' = w /\ place' = [place EXCEPT ![e] = x]
        /\ UNCHANGED <<recipients, subscriptions, owners, told, cut, overtaken>>
    BY <1>11, <2>1 DEF TransitionEntity, Ready, Idle, mirrors, history
  <2>3. /\ place'[e] = x /\ \A f \in Entities \ {e} : place'[f] = place[f]
        /\ Entities' = Entities
    BY <1>a, <2>2 DEF CoreTyped, Entities
  <2>4. /\ Len(w) = 2
        /\ w[1].op = "left" /\ w[1].entity = e /\ w[1].space = place[e] /\ w[1].except = {}
        /\ w[2].op = "entered" /\ w[2].entity = e /\ w[2].space = x /\ w[2].except = {}
    BY <2>1 DEF Left, Entered
  <2>5. 1 \in 1..Len(w) /\ 2 \in 1..Len(w) /\ \A i \in 1..Len(w) : i = 1 \/ i = 2
    BY <2>4
  <2>6. Valids(w)'
    <3>1. Valid(w, 1)'
      BY <2>3, <2>4, <2>5 DEF Valid
    <3>2. Valid(w, 2)'
      BY <2>3, <2>4, <2>5 DEF Valid
    <3> QED BY <2>5, <3>1, <3>2 DEF Valids
  <2>7. Retracts(w, e, place[e]) /\ \A d : Announces(w, e, x, d)
    BY <2>4, <2>5 DEF Retracts, Announces
  <2>8. ASSUME NEW d \in recipients PROVE News(w, d)'
    <3>1. ASSUME NEW y \in subscriptions[d], NEW f \in Entities, place'[f] = y
          PROVE  owners[f] = d \/ <<f, y>> \in told[d] \/ Announces(w, f, y, d)
      <4>1. CASE f = e
        BY <2>3, <2>7, <3>1, <4>1
      <4>2. CASE f # e
        BY <2>2, <2>3, <3>1, <4>2, IdleNews
      <4> QED BY <4>1, <4>2
    <3>2. ASSUME NEW f \in Entities, NEW y \in subscriptions[d], <<f, y>> \in told[d]
          PROVE  \/ place'[f] = y \/ owners[f] \in cut \/ f \in overtaken \/ Retracts(w, f, y)
      <4>1. place[f] = y \/ owners[f] \in cut \/ f \in overtaken
        BY <2>2, <3>2, IdleNews
      <4>2. CASE f = e
        BY <2>7, <4>1, <4>2
      <4>3. CASE f # e
        BY <2>3, <4>1, <4>3
      <4> QED BY <4>2, <4>3
    <3> QED BY <2>2, <2>3, <3>1, <3>2 DEF News, Present
  <2> QED BY <1>5, <2>2, <2>6, <2>8
<1>12. ASSUME NEW c \in Connections, NEW x \in Spaces, SubscribeAndSpawn(c, x)
       PROVE  Valids(work)' /\ AllNews'
  <2>0. work = <<>> /\ UNCHANGED <<recipients, subscriptions, told, cut, overtaken>>
    BY <1>12 DEF SubscribeAndSpawn, Ready, Idle, mirrors, history
  <2>1. CASE UNCHANGED <<owners, place, work>>
    BY <1>0, <2>0, <2>1
  <2>2. CASE /\ owners' = Append(owners, c) /\ place' = Append(place, x)
             /\ work' = <<Entered(Len(owners) + 1, x, {c})>>
    <3>1. PICK n : n = Len(owners) + 1
      OBVIOUS
    <3>2. PICK w : w = <<Entered(n, x, {c})>>
      OBVIOUS
    <3>3. /\ Entities' = Entities \cup {n} /\ n \notin Entities
          /\ owners'[n] = c /\ place'[n] = x
          /\ \A e \in Entities : owners'[e] = owners[e] /\ place'[e] = place[e]
      BY <1>a, <2>2, <3>1 DEF CoreTyped, Entities
    <3>4. /\ Len(w) = 1 /\ 1 \in 1..Len(w) /\ \A i \in 1..Len(w) : i = 1
          /\ w[1].op = "entered" /\ w[1].entity = n /\ w[1].space = x /\ w[1].except = {c}
      BY <3>2 DEF Entered
    <3>5. Valids(w)'
      <4>1. Valid(w, 1)'
        BY <3>3, <3>4 DEF Valid
      <4> QED BY <3>4, <4>1 DEF Valids
    <3>6. \A d : d # c => Announces(w, n, x, d)
      BY <3>4 DEF Announces
    <3>7. ASSUME NEW d \in recipients PROVE News(w, d)'
      <4>1. ASSUME NEW y \in subscriptions[d], NEW e \in Entities', place'[e] = y
            PROVE  owners'[e] = d \/ <<e, y>> \in told[d] \/ Announces(w, e, y, d)
        <5>1. CASE e = n
          BY <3>3, <3>6, <4>1, <5>1
        <5>2. CASE e \in Entities
          BY <2>0, <3>3, <4>1, <5>2, IdleNews
        <5> QED BY <3>3, <5>1, <5>2
      <4>2. ASSUME NEW e \in Entities', NEW y \in subscriptions[d], <<e, y>> \in told[d]
            PROVE  place'[e] = y \/ owners'[e] \in cut \/ e \in overtaken
        <5>1. e \in Entities
          <6> HIDE DEF Entities
          <6> QED BY <1>d, <4>2
        <5> QED BY <2>0, <3>3, <4>2, <5>1, IdleNews
      <4> QED BY <2>0, <4>1, <4>2 DEF News, Present
    <3> QED BY <1>5, <2>0, <2>2, <3>1, <3>2, <3>5, <3>7
  <2> QED BY <1>12, <2>1, <2>2 DEF SubscribeAndSpawn
<1>13. CASE UNCHANGED lifecycle_vars
  BY <1>0, <1>13 DEF lifecycle_vars, core, mirrors, history
<1> QED BY <1>1, <1>2, <1>3, <1>4, <1>6, <1>7, <1>8, <1>9, <1>10, <1>11, <1>12, <1>13
        DEF LifecycleNext, ClientRequests, Ends, Continues, Writes, WriterStops, Drains

-----------------------------------------------------------------------------
(* Nobody is connected to begin with.                                      *)
LEMMA InitLifecycle == LifecycleInit => LifecycleInvariant
<1> SUFFICES ASSUME LifecycleInit PROVE LifecycleInvariant
  OBVIOUS
<1> USE DEF LifecycleInit
<1>1. TasksTyped
  BY LifecycleAssumption DEF TasksTyped, ReaderStates, TaskStates, Serving
<1>2. CoreTyped
  BY LifecycleAssumption DEF CoreTyped
<1>3. WorkerTyped
  <2>1. recipients \subseteq 1..0 /\ 0 \in Nat
    OBVIOUS
  <2> QED BY <2>1 DEF WorkerTyped
<1>4. LifecycleTypes
  BY <1>1, <1>2, <1>3, TypesInParts
<1>5. Stages
  BY DEF Stages, Staged, Unregistered, Greeting
<1>6. Valids(work) /\ AllNews
  BY DEF Valids, AllNews
<1> QED BY <1>4, <1>5, <1>6 DEF LifecycleInvariant

(* The invariant holds in every state.                                     *)
THEOREM LifecycleWhole == LifecycleSpec => []LifecycleInvariant
<1>1. LifecycleInvariant /\ [LifecycleNext]_lifecycle_vars => LifecycleInvariant'
  BY NextLifecycleTypes, NextStages, NextNews DEF LifecycleInvariant
<1> QED BY <1>1, InitLifecycle, PTL DEF LifecycleSpec

(* The worker's mirrors follow the core through every interleaving of      *)
(* requests, fan-outs and losses.                                          *)
THEOREM MirrorsAgreeTheorem == LifecycleSpec => []MirrorsAgree
<1>1. LifecycleInvariant => MirrorsAgree
  <2> SUFFICES ASSUME LifecycleInvariant PROVE MirrorsAgree
    OBVIOUS
  <2>1. TypeOK /\ recipients \subseteq known \cup cut /\ known \subseteq Connections
    BY DEF LifecycleInvariant, LifecycleTypes, TypeOK, Stages
  <2>2. \A c \in Connections : Staged(c)
    BY DEF LifecycleInvariant, Stages
  <2> QED BY <2>1, <2>2 DEF MirrorsAgree, Staged, Unregistered
<1> QED BY <1>1, LifecycleWhole, PTL

(* Between requests an active subscriber knows of everybody who came.      *)
THEOREM ArrivalsAnnouncedTheorem == LifecycleSpec => []ArrivalsAnnounced
<1>1. LifecycleInvariant => ArrivalsAnnounced
  BY IdleNews DEF LifecycleInvariant, ArrivalsAnnounced, Idle, Present
<1> QED BY <1>1, LifecycleWhole, PTL

(* Between requests an active subscriber believes in nobody who left, but  *)
(* for the two cases the property names.                                   *)
THEOREM DeparturesAnnouncedTheorem == LifecycleSpec => []DeparturesAnnounced
<1>1. LifecycleInvariant => DeparturesAnnounced
  <2> SUFFICES ASSUME LifecycleInvariant, Idle, NEW c \in recipients, NEW p \in told[c],
                      p[2] \in subscriptions[c]
      PROVE  place[p[1]] = p[2] \/ owners[p[1]] \in cut \/ p[1] \in overtaken
    BY DEF DeparturesAnnounced
  <2>1. told[c] \subseteq Entities \X Spaces
    BY DEF LifecycleInvariant, LifecycleTypes, TypeOK
  <2>2. p = <<p[1], p[2]>> /\ p[1] \in Entities
    BY <2>1
  <2> QED BY <2>2, IdleNews DEF LifecycleInvariant, Idle
<1> QED BY <1>1, LifecycleWhole, PTL
=============================================================================
