----------------------------- MODULE UsageProofs -----------------------------
(***************************************************************************)
(* What holds of usage accounting for every rate, window length, queue and *)
(* spool capacity, and any number of connections, increments and ticks.    *)
(*                                                                         *)
(* The invariant is the types and three parts that do not need each other: *)
(* Counted (increments), Timed (connection seconds) and Placed (windows on *)
(* their way to the sink).  A sum changes with one of its terms            *)
(* (TotalMore, TotalSplit) or with all of them at once (SnapshotSums); the *)
(* numbers of the windows are compared by station, so that each step of    *)
(* the export moves, adds or removes numbers of a few sets.                *)
(***************************************************************************)
EXTENDS Usage, VecOpsProofs, SequenceTheorems

(* The types of the variables, thread by thread.                           *)
CounterTypes ==
    /\ now \in Nat /\ events \in Nat /\ seconds \in Nat
    /\ next_handle \in Nat \ {0} /\ DOMAIN active \subseteq 1..next_handle - 1
    /\ active \in [DOMAIN active -> Nat]
AggregatorTypes ==
    /\ finalized_windows \in Nat /\ next_sequence \in Nat
    /\ tick \in Ticks \cup {Nothing} /\ pending \in Seq(Windows)
ExportTypes ==
    /\ batch \in Seq(Windows) /\ append \in Appends \cup {Nothing}
    /\ spool \in Seq(Windows) /\ dropped_windows \in Nat /\ delivered \in Seq(Windows)
HistoryTypes ==
    /\ finalized \in Seq(Windows) /\ recorded \in Nat /\ lived \in Nat /\ early \in Nat
    /\ removed \subseteq Nat
Types == CounterTypes /\ AggregatorTypes /\ ExportTypes /\ HistoryTypes

(* Increments: a window's are carried from one read to the next only.      *)
Counted ==
    /\ EventsConserved
    /\ tick # Nothing /\ tick.phase # "connections" => tick.events = 0

(* The truncations a running connection still has before it: one when it   *)
(* ends, and one at the next window's end unless it starts on a second.    *)
Truncations == [h \in DOMAIN active |-> IF active[h] % Rate = 0 THEN 1 ELSE 2]

(* The end of the window that is being cut has passed.                     *)
Clocked ==
    /\ \A h \in DOMAIN active : active[h] <= now
    /\ tick # Nothing => tick.last * WindowTicks <= now
    /\ tick # Nothing /\ tick.phase # "push" => tick.index <= tick.last

(* What is lost to truncation so far leaves room for what the running      *)
(* connections may still lose.                                             *)
Tallied ==
    /\ Charged <= lived
    /\ lived - Charged <= (Rate - 1) * (2 * (next_handle - 1) - Total(Truncations))

Timed == Clocked /\ Tallied

(* The stations of a window on its way, from the sink backwards, and the   *)
(* sequence number the next window gets.                                   *)
Retrying ==
    Sequences(spool) \cup (IF append # Nothing /\ append.retry # Nothing
                           THEN {append.retry.sequence} ELSE {})
Appending == IF append = Nothing THEN {} ELSE {append.window.sequence}
Cut == IF tick = Nothing THEN {} ELSE Sequences(tick.done)
NextCut == IF tick # Nothing /\ tick.phase = "connections" THEN tick.sequence
                                                           ELSE next_sequence

Below(S, T) == \A m \in S, n \in T : m < n
Ascending(s) == \A i, j \in DOMAIN s : i < j => s[i].sequence < s[j].sequence

(* Stations one to five are in the order of their numbers.                 *)
Line(r, a, b, p, c) ==
    /\ Below(r, a) /\ Below(r, b) /\ Below(r, p) /\ Below(r, c)
    /\ Below(a, b) /\ Below(a, p) /\ Below(a, c)
    /\ Below(b, p) /\ Below(b, c)
    /\ Below(p, c)

InLine ==
    /\ Line(Retrying, Appending, Sequences(batch), Sequences(pending), Cut)
    /\ Ascending(batch) /\ Ascending(pending)
    /\ tick # Nothing => Ascending(tick.done)

(* The spool holds a window only between two appends or until append takes *)
(* it up again.                                                            *)
Spooled ==
    /\ Len(spool) <= 1 /\ (SpoolCapacity > 0 => dropped_windows = 0)
    /\ append # Nothing /\ (append.retry # Nothing \/ ~append.draining) => spool = <<>>
    /\ append # Nothing /\ append.retry # Nothing => append.draining

(* What is delivered (d) is behind the windows under way (ahead), and not  *)
(* in front of those to be tried again (r), which may have been stored.    *)
Behind(d, r, ahead) ==
    /\ \A i, j \in DOMAIN d : i < j => d[i].sequence <= d[j].sequence
    /\ \A i \in DOMAIN d : i > 2 => d[i - 2].sequence < d[i].sequence
    /\ \A i \in DOMAIN d, n \in r :
          /\ d[i].sequence <= n
          /\ i < Len(d) => d[i].sequence < n
    /\ \A i \in DOMAIN d, n \in ahead : d[i].sequence < n

Waiting == Appending \cup Sequences(batch) \cup Sequences(pending) \cup Cut

(* Every window that was cut is in one station, removed or delivered.      *)
Complete ==
    /\ Held \cap removed = {}
    /\ Sequences(finalized) = Held \cup removed \cup Sequences(delivered)

(* Numbers are given once.                                                 *)
Numbered ==
    /\ \A n \in Sequences(finalized) : n < NextCut
    /\ NextCut <= next_sequence
    /\ tick # Nothing /\ tick.phase = "connections" => tick.sequence < next_sequence

Placed ==
    /\ InLine /\ Spooled /\ Behind(delivered, Retrying, Waiting) /\ Complete /\ Numbered

IInv == Types /\ Counted /\ Timed /\ Placed

-----------------------------------------------------------------------------
(* The numbers of an empty sequence, of one more window, of two sequences. *)
LEMMA SequencesOfNone == Sequences(<<>>) = {} /\ Ascending(<<>>)
BY DEF Sequences, Ascending

(* A window at the end adds its number, and keeps the order if it is last. *)
LEMMA SequencesAppend ==
  ASSUME NEW s \in Seq(Windows), NEW x \in Windows
  PROVE  /\ Append(s, x) \in Seq(Windows)
         /\ Sequences(Append(s, x)) = Sequences(s) \cup {x.sequence}
         /\ Ascending(s) /\ Below(Sequences(s), {x.sequence}) => Ascending(Append(s, x))
<1> DEFINE t == Append(s, x)
<1>1. /\ t \in Seq(Windows) /\ Len(t) = Len(s) + 1 /\ Len(s) \in Nat
      /\ DOMAIN t = 1..Len(s) + 1 /\ DOMAIN s = 1..Len(s)
      /\ \A i \in 1..Len(s) : t[i] = s[i]
      /\ t[Len(s) + 1] = x
  BY AppendProperties, LenProperties
<1> HIDE DEF t
<1>2. Sequences(t) = Sequences(s) \cup {x.sequence}
  <2>1. DOMAIN t = DOMAIN s \cup {Len(s) + 1} /\ Len(s) + 1 \notin DOMAIN s
    BY <1>1
  <2> QED
    BY <1>1, <2>1 DEF Sequences
<1>3. ASSUME Ascending(s), Below(Sequences(s), {x.sequence})
      PROVE  Ascending(t)
  <2> SUFFICES ASSUME NEW i \in DOMAIN t, NEW j \in DOMAIN t, i < j
               PROVE  t[i].sequence < t[j].sequence
    BY DEF Ascending
  <2>1. i \in DOMAIN s /\ t[i] = s[i]
    BY <1>1
  <2>2. CASE j = Len(s) + 1
    BY <1>1, <1>3, <2>1, <2>2 DEF Sequences, Below
  <2>3. CASE j # Len(s) + 1
    <3>1. j \in DOMAIN s /\ t[j] = s[j]
      BY <1>1, <2>3
    <3> QED
      BY <1>3, <2>1, <3>1 DEF Ascending
  <2> QED
    BY <2>2, <2>3
<1> QED
  BY <1>1, <1>2, <1>3 DEF t

(* Two sequences one after the other hold the numbers of both.             *)
LEMMA SequencesConcat ==
  ASSUME NEW s \in Seq(Windows), NEW t \in Seq(Windows)
  PROVE  /\ s \o t \in Seq(Windows)
         /\ Sequences(s \o t) = Sequences(s) \cup Sequences(t)
         /\ Ascending(s) /\ Ascending(t) /\ Below(Sequences(s), Sequences(t))
              => Ascending(s \o t)
<1> DEFINE u == s \o t
<1>1. /\ u \in Seq(Windows) /\ Len(s) \in Nat /\ Len(t) \in Nat
      /\ DOMAIN u = 1..Len(s) + Len(t) /\ DOMAIN s = 1..Len(s) /\ DOMAIN t = 1..Len(t)
      /\ \A i \in 1..Len(s) + Len(t) : u[i] = IF i <= Len(s) THEN s[i] ELSE t[i - Len(s)]
  BY ConcatProperties, LenProperties
<1> HIDE DEF u
<1>2. \A i \in DOMAIN u : \/ i \in DOMAIN s /\ u[i] = s[i]
                          \/ i - Len(s) \in DOMAIN t /\ u[i] = t[i - Len(s)]
  <2> TAKE i \in DOMAIN u
  <2>1. CASE i <= Len(s)
    BY <1>1, <2>1
  <2>2. CASE ~(i <= Len(s))
    BY <1>1, <2>2
  <2> QED
    BY <2>1, <2>2
<1>3. \A i \in DOMAIN s : i \in DOMAIN u /\ u[i] = s[i]
  BY <1>1
<1>4. \A i \in DOMAIN t : i + Len(s) \in DOMAIN u /\ u[i + Len(s)] = t[i]
  <2> TAKE i \in DOMAIN t
  <2>1. i \in Nat /\ i + Len(s) \in 1..Len(s) + Len(t) /\ ~(i + Len(s) <= Len(s))
          /\ (i + Len(s)) - Len(s) = i
    BY <1>1
  <2> QED
    BY <1>1, <2>1
<1>5. Sequences(u) = Sequences(s) \cup Sequences(t)
  <2>1. ASSUME NEW n \in Sequences(u) PROVE n \in Sequences(s) \cup Sequences(t)
    BY <1>2 DEF Sequences
  <2>2. ASSUME NEW n \in Sequences(s) PROVE n \in Sequences(u)
    BY <1>3 DEF Sequences
  <2>3. ASSUME NEW n \in Sequences(t) PROVE n \in Sequences(u)
    BY <1>4 DEF Sequences
  <2> QED
    BY <2>1, <2>2, <2>3
<1>6. ASSUME Ascending(s), Ascending(t), Below(Sequences(s), Sequences(t))
      PROVE  Ascending(u)
  <2> SUFFICES ASSUME NEW i \in DOMAIN u, NEW j \in DOMAIN u, i < j
               PROVE  u[i].sequence < u[j].sequence
    BY DEF Ascending
  <2>1. CASE i <= Len(s) /\ j <= Len(s)
    <3>1. i \in DOMAIN s /\ j \in DOMAIN s /\ u[i] = s[i] /\ u[j] = s[j]
      BY <1>1, <2>1
    <3> QED
      BY <1>6, <3>1 DEF Ascending
  <2>2. CASE i <= Len(s) /\ ~(j <= Len(s))
    <3>1. i \in DOMAIN s /\ j - Len(s) \in DOMAIN t /\ u[i] = s[i] /\ u[j] = t[j - Len(s)]
      BY <1>1, <2>2
    <3>2. s[i].sequence \in Sequences(s) /\ t[j - Len(s)].sequence \in Sequences(t)
      BY <3>1 DEF Sequences
    <3> QED
      BY <1>6, <3>1, <3>2 DEF Below
  <2>3. CASE ~(i <= Len(s)) /\ ~(j <= Len(s))
    <3>1. /\ i - Len(s) \in DOMAIN t /\ j - Len(s) \in DOMAIN t /\ i - Len(s) < j - Len(s)
          /\ u[i] = t[i - Len(s)] /\ u[j] = t[j - Len(s)]
      BY <1>1, <2>3
    <3> QED
      BY <1>6, <3>1 DEF Ascending
  <2> QED
    BY <1>1, <2>1, <2>2, <2>3
<1> QED
  BY <1>1, <1>5, <1>6 DEF u

(* The first window is ahead of the others.                                *)
LEMMA SequencesHead ==
  ASSUME NEW s \in Seq(Windows), s # <<>>
  PROVE  /\ Head(s) \in Windows /\ Tail(s) \in Seq(Windows)
         /\ Sequences(s) = {Head(s).sequence} \cup Sequences(Tail(s))
         /\ Ascending(s) => /\ Ascending(Tail(s))
                            /\ Below({Head(s).sequence}, Sequences(Tail(s)))
<1> DEFINE t == Tail(s)
<1>1. /\ Head(s) \in Windows /\ t \in Seq(Windows) /\ Len(s) \in Nat \ {0}
      /\ DOMAIN s = 1..Len(s) /\ DOMAIN t = 1..Len(s) - 1 /\ Head(s) = s[1]
      /\ \A i \in DOMAIN t : t[i] = s[i + 1]
  <2>1. /\ Head(s) \in Windows /\ t \in Seq(Windows) /\ Len(t) = Len(s) - 1
        /\ \A i \in 1..Len(t) : t[i] = s[i + 1]
    BY HeadTailProperties
  <2>2. Len(s) \in Nat \ {0} /\ DOMAIN s = 1..Len(s) /\ DOMAIN t = 1..Len(t)
    BY <2>1, LenProperties, EmptySeq
  <2>3. Head(s) = s[1]
    OBVIOUS
  <2> QED
    BY <2>1, <2>2, <2>3
<1> HIDE DEF t
<1>2. \A i \in DOMAIN t : i + 1 \in DOMAIN s /\ 1 < i + 1
  BY <1>1
<1>3. \A i \in DOMAIN s : i = 1 \/ (i - 1 \in DOMAIN t /\ s[i] = t[i - 1])
  <2> TAKE i \in DOMAIN s
  <2>1. CASE i # 1
    <3>1. i - 1 \in DOMAIN t /\ (i - 1) + 1 = i
      BY <1>1, <2>1
    <3> QED
      BY <1>1, <3>1
  <2> QED
    BY <2>1
<1>4. Sequences(s) = {s[1].sequence} \cup Sequences(t)
  <2>1. ASSUME NEW n \in Sequences(s) PROVE n \in {s[1].sequence} \cup Sequences(t)
    BY <1>3 DEF Sequences
  <2>2. 1 \in DOMAIN s
    BY <1>1
  <2>3. ASSUME NEW n \in Sequences(t) PROVE n \in Sequences(s)
    BY <1>1, <1>2 DEF Sequences
  <2> QED
    BY <2>1, <2>2, <2>3 DEF Sequences
<1>5. ASSUME Ascending(s)
      PROVE  Ascending(t) /\ Below({s[1].sequence}, Sequences(t))
  <2>1. Below({s[1].sequence}, Sequences(t))
    <3>1. 1 \in DOMAIN s
      BY <1>1
    <3> QED
      BY <1>1, <1>2, <1>5, <3>1 DEF Sequences, Below, Ascending
  <2>2. ASSUME NEW i \in DOMAIN t, NEW j \in DOMAIN t, i < j
        PROVE  t[i].sequence < t[j].sequence
    <3>1. i + 1 < j + 1
      BY <1>1, <2>2
    <3> QED
      BY <1>1, <1>2, <1>5, <3>1 DEF Ascending
  <2> QED
    BY <2>1, <2>2 DEF Ascending
<1> QED
  BY <1>1, <1>4, <1>5 DEF t

(* What a bounded queue keeps is the end of it.                            *)
LEMMA NewestFacts ==
  ASSUME NEW s \in Seq(Windows), NEW n \in Nat
  PROVE  /\ Newest(s, n) \in Seq(Windows) /\ Sequences(Newest(s, n)) \subseteq Sequences(s)
         /\ Ascending(s) => Ascending(Newest(s, n))
<1>1. CASE Len(s) <= n
  BY <1>1 DEF Newest
<1>2. CASE ~(Len(s) <= n)
  <2> DEFINE m == Len(s) - n
             t == SubSeq(s, m + 1, Len(s))
  <2>1. Len(s) \in Nat /\ DOMAIN s = 1..Len(s) /\ m \in Nat \ {0} /\ Newest(s, n) = t
        /\ Len(s) = m + n
    BY <1>2, LenProperties DEF Newest
  <2>2. \A i \in (m + 1)..Len(s) : s[i] \in Windows
    <3>1. \A i \in 1..Len(s) : s[i] \in Windows
      BY ElementOfSeq
    <3> HIDE DEF m
    <3> QED
      BY <2>1, <3>1
  <2> HIDE DEF m
  <2>3. /\ t \in Seq(Windows) /\ \A i \in 1..Len(s) - (m + 1) + 1 : t[i] = s[(m + 1) + i - 1]
        /\ Len(t) = IF m + 1 <= Len(s) THEN Len(s) - (m + 1) + 1 ELSE 0
    BY <2>1, <2>2, SubSeqProperties
  <2>4. DOMAIN t = 1..n /\ \A i \in 1..n : i + m \in DOMAIN s /\ t[i] = s[i + m]
    <3>1. Len(t) = n
      BY <2>1, <2>3
    <3>2. DOMAIN t = 1..n
      BY <3>1, <2>3, LenProperties
    <3>3. Len(s) - (m + 1) + 1 = n
      BY <2>1
    <3>4. \A i \in 1..n : (m + 1) + i - 1 = i + m /\ i + m \in 1..Len(s)
      BY <2>1
    <3> QED
      BY <2>1, <2>3, <3>2, <3>3, <3>4
  <2> HIDE DEF t
  <2>5. Sequences(t) \subseteq Sequences(s)
    BY <2>4 DEF Sequences
  <2>6. ASSUME Ascending(s) PROVE Ascending(t)
    <3> SUFFICES ASSUME NEW i \in 1..n, NEW j \in 1..n, i < j
                 PROVE  t[i].sequence < t[j].sequence
      BY <2>4 DEF Ascending
    <3>1. i + m < j + m
      BY <2>1
    <3> QED
      BY <2>4, <2>6, <3>1 DEF Ascending
  <2> QED
    BY <2>1, <2>3, <2>5, <2>6
<1>3. Len(s) \in Nat
  BY LenProperties
<1> QED
  BY <1>1, <1>2, <1>3

(* The numbers of windows are numbers.                                     *)
LEMMA SequencesTyped ==
  ASSUME NEW s \in Seq(Windows)
  PROVE  Sequences(s) \subseteq Nat
<1>1. \A i \in DOMAIN s : s[i] \in Windows
  BY LenProperties, ElementOfSeq
<1> QED
  BY <1>1 DEF Sequences, Windows

-----------------------------------------------------------------------------
(* Windows only move towards the sink, or x is delivered.  One that was    *)
(* tried for the first time may have to be tried again; one that was tried *)
(* again may have been stored before.                                      *)
Moves(d, r, ahead, r1, ahead1) ==
    /\ d \in Seq(Windows) /\ Behind(d, r, ahead) /\ r \cup ahead \subseteq Nat
    /\ r1 \subseteq r \cup ahead /\ ahead1 \subseteq ahead
Delivers(d, r, ahead, x, r1, ahead1) ==
    /\ d \in Seq(Windows) /\ Behind(d, r, ahead) /\ r \cup ahead \subseteq Nat
    /\ x \in Windows
    /\ \/ x.sequence \in ahead /\ r1 \subseteq {x.sequence}
       \/ x.sequence \in r /\ r1 \subseteq ahead /\ Below({x.sequence}, r1)
    /\ ahead1 \subseteq ahead /\ Below({x.sequence}, ahead1)

(* Windows that move towards the sink leave what is delivered behind.      *)
LEMMA BehindMoves ==
  ASSUME NEW d, NEW r, NEW ahead, NEW r1, NEW ahead1, Moves(d, r, ahead, r1, ahead1)
  PROVE  Behind(d, r1, ahead1)
<1> USE DEF Moves
<1>1. \A i \in DOMAIN d : d[i].sequence \in Nat
  <2>1. \A i \in DOMAIN d : d[i] \in Windows
    BY LenProperties, ElementOfSeq
  <2> QED
    BY <2>1 DEF Windows
<1>2. ASSUME NEW i \in DOMAIN d, NEW n \in r1
      PROVE  d[i].sequence <= n /\ (i < Len(d) => d[i].sequence < n)
  <2>1. CASE n \in r
    BY <2>1 DEF Behind
  <2>2. CASE n \in ahead
    <3>1. d[i].sequence < n
      BY <2>2 DEF Behind
    <3>2. d[i].sequence \in Nat /\ n \in Nat
      BY <1>1
    <3> QED
      BY <3>1, <3>2
  <2> QED
    BY <2>1, <2>2
<1> QED
  BY <1>2 DEF Behind

(* A window that is delivered is behind all that are still under way.      *)
LEMMA BehindAppend ==
  ASSUME NEW d, NEW r, NEW ahead, NEW x, NEW r1, NEW ahead1,
         Delivers(d, r, ahead, x, r1, ahead1)
  PROVE  Behind(Append(d, x), r1, ahead1)
<1> USE DEF Delivers
<1> DEFINE e == Append(d, x)
           k == Len(d)
<1>1. /\ k \in Nat /\ DOMAIN d = 1..k /\ DOMAIN e = 1..k + 1 /\ Len(e) = k + 1
      /\ e[k + 1] = x /\ \A i \in 1..k : e[i] = d[i]
  BY AppendProperties, LenProperties
<1>2. /\ x.sequence \in Nat
      /\ \A i \in 1..k : d[i].sequence \in Nat
  <2>1. \A i \in 1..k : d[i] \in Windows
    BY ElementOfSeq
  <2> QED
    BY <2>1 DEF Windows
<1> HIDE DEF e
<1>3. \A i \in 1..k : d[i].sequence <= x.sequence /\ (i < k => d[i].sequence < x.sequence)
  <2>1. CASE x.sequence \in ahead
    <3>1. \A i \in 1..k : d[i].sequence < x.sequence
      BY <1>1, <2>1 DEF Behind
    <3> QED
      BY <1>2, <3>1
  <2>2. CASE x.sequence \in r
    BY <1>1, <2>2 DEF Behind
  <2> QED
    BY <2>1, <2>2
<1>4. ASSUME NEW i \in DOMAIN e, NEW j \in DOMAIN e, i < j
      PROVE  e[i].sequence <= e[j].sequence
  <2>1. i \in 1..k /\ e[i] = d[i]
    BY <1>1, <1>4
  <2>2. CASE j = k + 1
    BY <1>1, <1>3, <2>1, <2>2
  <2>3. CASE j # k + 1
    <3>1. j \in 1..k /\ e[j] = d[j]
      BY <1>1, <2>3
    <3> QED
      BY <1>1, <1>4, <2>1, <3>1 DEF Behind
  <2> QED
    BY <2>2, <2>3
<1>5. ASSUME NEW i \in DOMAIN e, i > 2
      PROVE  e[i - 2].sequence < e[i].sequence
  <2>1. i - 2 \in 1..k /\ i - 2 < k + 1 /\ e[i - 2] = d[i - 2]
    BY <1>1, <1>5
  <2>2. CASE i = k + 1
    <3>1. i - 2 < k
      BY <1>1, <2>2
    <3> QED
      BY <1>1, <1>3, <2>1, <2>2, <3>1
  <2>3. CASE i # k + 1
    <3>1. i \in 1..k /\ e[i] = d[i]
      BY <1>1, <2>3
    <3> QED
      BY <1>1, <1>5, <2>1, <3>1 DEF Behind
  <2> QED
    BY <2>2, <2>3
<1>6. ASSUME NEW i \in DOMAIN e, NEW n \in r1
      PROVE  e[i].sequence <= n /\ (i < Len(e) => e[i].sequence < n)
  <2>1. /\ n \in Nat /\ x.sequence <= n
        /\ x.sequence \in ahead \/ x.sequence < n
    BY <1>2, <1>6 DEF Below
  <2>2. CASE i = k + 1
    <3>1. e[i] = x /\ Len(e) = i
      BY <1>1, <2>2
    <3> QED
      BY <1>1, <2>1, <2>2, <3>1
  <2>3. CASE i # k + 1
    <3>1. i \in 1..k /\ e[i] = d[i] /\ d[i].sequence \in Nat
      BY <1>1, <1>2, <2>3
    <3>2. d[i].sequence < n
      <4>1. CASE x.sequence \in ahead
        <5>1. d[i].sequence < x.sequence
          BY <1>1, <3>1, <4>1 DEF Behind
        <5> QED
          BY <1>2, <2>1, <3>1, <5>1
      <4>2. CASE x.sequence < n
        BY <1>2, <1>3, <2>1, <3>1, <4>2
      <4> QED
        BY <2>1, <4>1, <4>2
    <3> QED
      BY <2>1, <3>1, <3>2
  <2> QED
    BY <2>2, <2>3
<1>7. ASSUME NEW i \in DOMAIN e, NEW n \in ahead1
      PROVE  e[i].sequence < n
  <2>1. CASE i = k + 1
    BY <1>1, <2>1 DEF Below
  <2>2. CASE i # k + 1
    <3>1. i \in 1..k /\ e[i] = d[i]
      BY <1>1, <2>2
    <3> QED
      BY <1>1, <3>1 DEF Behind
  <2> QED
    BY <2>1, <2>2
<1> QED
  BY <1>4, <1>5, <1>6, <1>7 DEF Behind, e

-----------------------------------------------------------------------------
(* Truncation to whole seconds loses less than a second, and nothing on    *)
(* one.                                                                    *)
LEMMA AsSecsFacts ==
  ASSUME NEW n \in Nat, NEW k \in Nat \ {0}
  PROVE  /\ n \div k \in Nat /\ k * (n \div k) <= n /\ n - k * (n \div k) <= k - 1
         /\ k * (n \div k) \in Nat
         /\ n % k = 0 => k * (n \div k) = n
<1>1. n \div k \in Nat /\ n % k \in Nat /\ n % k < k
  OBVIOUS
<1>2. n = k * (n \div k) + (n % k)
  OBVIOUS
<1>3. k * (n \div k) \in Nat
  BY <1>1
<1> QED
  BY <1>1, <1>2, <1>3

(* Multiples of a second.                                                  *)
LEMMA MultipleFacts ==
  ASSUME NEW m \in Nat, NEW k \in Nat \ {0}
  PROVE  k * m \in Nat /\ (k * m) % k = 0
<1>1. k * m \in Nat
  OBVIOUS
<1>2. (k * m) % k = 0
  OBVIOUS
<1> QED
  BY <1>1, <1>2

(* Multiples of a second are whole seconds apart.                          *)
LEMMA MultiplesApart ==
  ASSUME NEW a \in Nat, NEW e \in Nat, NEW k \in Nat \ {0},
         a <= e, a % k = 0, e % k = 0
  PROVE  (e - a) % k = 0
<1> DEFINE p == e \div k
           q == a \div k
<1>1. p \in Nat /\ k * p = e /\ q \in Nat /\ k * q = a
  BY AsSecsFacts
<1> HIDE DEF p, q
<1>2. q <= p
  <2> SUFFICES ASSUME q >= p + 1 PROVE FALSE
    BY <1>1
  <2>1. \A i, j \in Nat : i >= j + 1 => k * i >= k * j + k
    OBVIOUS
  <2> QED
    BY <1>1, <2>1
<1>3. p - q \in Nat /\ k * (p - q) = e - a
  <2>1. \A i, j \in Nat : k * (i - j) = k * i - k * j
    OBVIOUS
  <2> QED
    BY <1>1, <1>2, <2>1
<1> QED
  BY <1>3, MultipleFacts

(* Each of finitely many counts once.                                      *)
LEMMA TotalOnes ==
  ASSUME NEW S, IsFiniteSet(S)
  PROVE  Total([x \in S |-> 1]) = Cardinality(S)
<1> DEFINE f == [x \in S |-> 1]
<1>1. UNION {{x} \X (1..f[x]) : x \in DOMAIN f} = S \X {1}
  <2>1. 1..1 = {1}
    OBVIOUS
  <2>2. \A x \in S : {x} \X (1..f[x]) = {x} \X {1}
    BY <2>1
  <2> HIDE DEF f
  <2>3. DOMAIN f = S
    BY DEF f
  <2> QED
    BY <2>2, <2>3
<1>2. Cardinality({1}) = 1 /\ IsFiniteSet({1})
  BY FS_Singleton
<1>3. Cardinality(S \X {1}) = Cardinality(S) * 1 /\ Cardinality(S) \in Nat
  BY <1>2, FS_Product, FS_CardinalityType
<1> HIDE DEF f
<1>4. Total(f) = Cardinality(S \X {1})
  BY <1>1 DEF Total
<1> QED
  BY <1>3, <1>4 DEF f

-----------------------------------------------------------------------------
(* What the end of a window does to one connection: it started at a, the   *)
(* window ends at e, it is t, and a second has k ticks.                    *)
LEMMA SnapshotShare ==
  ASSUME NEW a \in Nat, NEW e \in Nat, NEW t \in Nat, NEW k \in Nat \ {0},
         a <= t, e <= t, e % k = 0
  PROVE  LET share == Later(e, a) \div k
             ahead == Later(a, e)
             spared == IF a % k = 0 THEN 0 ELSE 1
         IN  /\ share \in Nat /\ ahead \in Nat
             /\ k * share + (t - e) <= (t - a) + ahead
             /\ (t - a) + ahead <= k * share + (t - e) + (k - 1) * spared
<1> DEFINE n == Later(e, a)
           s == n \div k
<1>1. CASE a > e
  <2>1. n = 0 /\ Later(a, e) = a - e /\ a - e \in Nat
    BY <1>1 DEF Later
  <2>2. s \in Nat /\ k * s = 0
    BY <2>1, AsSecsFacts
  <2> HIDE DEF n, s
  <2>3. (k - 1) * (IF a % k = 0 THEN 0 ELSE 1) >= 0
    OBVIOUS
  <2>4. (k - 1) * (IF a % k = 0 THEN 0 ELSE 1) \in Int
    OBVIOUS
  <2>5. /\ k * s + (t - e) <= (t - a) + (a - e)
        /\ (t - a) + (a - e) <= k * s + (t - e) + (k - 1) * (IF a % k = 0 THEN 0 ELSE 1)
    BY <2>2, <2>3, <2>4
  <2> QED
    BY <2>1, <2>2, <2>5 DEF n, s
<1>2. CASE ~(a > e)
  <2>1. n = e - a /\ n \in Nat /\ Later(a, e) = 0
    BY <1>2 DEF Later
  <2>2. s \in Nat /\ k * s <= n /\ n - k * s <= k - 1 /\ k * s \in Nat /\ (n % k = 0 => k * s = n)
    BY <2>1, AsSecsFacts
  <2>3. a % k = 0 => k * s = n
    <3>1. a <= e
      BY <1>2
    <3>2. a % k = 0 => (e - a) % k = 0
      BY <3>1, MultiplesApart
    <3> QED
      BY <2>1, <2>2, <3>2
  <2> HIDE DEF n, s
  <2>4. n <= k * s + (k - 1) * (IF a % k = 0 THEN 0 ELSE 1)
    <3>1. CASE a % k = 0
      BY <2>2, <2>3, <3>1
    <3>2. CASE a % k # 0
      BY <2>1, <2>2, <3>2
    <3> QED
      BY <3>1, <3>2
  <2>5. (k - 1) * (IF a % k = 0 THEN 0 ELSE 1) \in Int
    OBVIOUS
  <2>6. /\ k * s + (t - e) <= (t - a) + 0
        /\ (t - a) + 0 <= k * s + (t - e) + (k - 1) * (IF a % k = 0 THEN 0 ELSE 1)
    BY <2>1, <2>2, <2>4, <2>5
  <2> QED
    BY <2>1, <2>2, <2>6 DEF n, s
<1> QED
  BY <1>1, <1>2

(* Two combinations of sums compare as their terms do.                     *)
Compared(S, k, l, share, ahead, before, after, spared) ==
    /\ IsFiniteSet(S) /\ k \in Nat /\ l \in Nat
    /\ share \in [S -> Nat] /\ ahead \in [S -> Nat] /\ before \in [S -> Nat]
    /\ after \in [S -> Nat] /\ spared \in [S -> Nat]
    /\ \A h \in S : k * share[h] + after[h] <= before[h] + ahead[h]
    /\ \A h \in S : before[h] + ahead[h] <= k * share[h] + after[h] + l * spared[h]

(* The sums of charges compare as the charges of one connection do.        *)
LEMMA ComparedSums ==
  ASSUME NEW S, NEW k, NEW l, NEW share, NEW ahead, NEW before, NEW after, NEW spared,
         Compared(S, k, l, share, ahead, before, after, spared)
  PROVE  /\ Total(share) \in Nat /\ Total(ahead) \in Nat /\ Total(before) \in Nat
         /\ Total(after) \in Nat /\ Total(spared) \in Nat
         /\ k * Total(share) + Total(after) <= Total(before) + Total(ahead)
         /\ Total(before) + Total(ahead)
              <= k * Total(share) + Total(after) + l * Total(spared)
<1> DEFINE charged == [h \in S |-> k * share[h] + 1 * after[h]]
           due == [h \in S |-> before[h] + ahead[h]]
           bound == [h \in S |-> 1 * charged[h] + l * spared[h]]
<1>1. /\ IsFiniteSet(S) /\ k \in Nat /\ l \in Nat
      /\ share \in [S -> Nat] /\ ahead \in [S -> Nat] /\ before \in [S -> Nat]
      /\ after \in [S -> Nat] /\ spared \in [S -> Nat]
  BY DEF Compared
<1>2. \A h \in S : /\ charged[h] = k * share[h] + after[h] /\ due[h] = before[h] + ahead[h]
                   /\ bound[h] = k * share[h] + after[h] + l * spared[h]
                   /\ charged[h] \in Nat /\ due[h] \in Nat /\ bound[h] \in Nat
  <2> SUFFICES ASSUME NEW h \in S
               PROVE  /\ charged[h] = k * share[h] + after[h] /\ due[h] = before[h] + ahead[h]
                      /\ bound[h] = k * share[h] + after[h] + l * spared[h]
                      /\ charged[h] \in Nat /\ due[h] \in Nat /\ bound[h] \in Nat
    OBVIOUS
  <2>1. /\ share[h] \in Nat /\ after[h] \in Nat /\ before[h] \in Nat /\ ahead[h] \in Nat
        /\ spared[h] \in Nat
    BY <1>1
  <2>2. /\ charged[h] = k * share[h] + 1 * after[h] /\ due[h] = before[h] + ahead[h]
        /\ bound[h] = 1 * charged[h] + l * spared[h]
    OBVIOUS
  <2> HIDE DEF charged, due, bound
  <2>3. k * share[h] \in Nat /\ l * spared[h] \in Nat /\ 1 * after[h] = after[h]
    BY <2>1, <1>1
  <2>4. charged[h] = k * share[h] + after[h] /\ charged[h] \in Nat
    BY <2>1, <2>2, <2>3
  <2>5. 1 * charged[h] = charged[h]
    BY <2>4
  <2> QED
    BY <2>1, <2>2, <2>3, <2>4, <2>5
<1>9. /\ charged \in [S -> Nat] /\ due \in [S -> Nat] /\ bound \in [S -> Nat]
      /\ Combines(S, charged, k, share, 1, after) /\ Adds(S, due, before, ahead)
      /\ Combines(S, bound, 1, charged, l, spared)
  BY <1>1, <1>2 DEF Combines, Adds
<1>3. \A h \in S : charged[h] <= due[h] /\ due[h] <= bound[h]
  BY <1>2 DEF Compared
<1> HIDE DEF charged, due, bound
<1>4. Total(charged) = k * Total(share) + 1 * Total(after)
  BY <1>9, TotalLinear
<1>5. Total(due) = Total(before) + Total(ahead)
  BY <1>9, TotalPlus
<1>6. Total(bound) = 1 * Total(charged) + l * Total(spared)
  BY <1>9, TotalLinear
<1>7. Total(charged) <= Total(due) /\ Total(due) <= Total(bound)
  BY <1>1, <1>9, <1>3, TotalGrows
<1>8. /\ Total(share) \in Nat /\ Total(ahead) \in Nat /\ Total(before) \in Nat
      /\ Total(after) \in Nat /\ Total(spared) \in Nat /\ Total(charged) \in Nat
  BY <1>1, <1>9, TotalTyped
<1> QED
  BY <1>4, <1>5, <1>6, <1>7, <1>8

(* Connections of S that started at a[h] are cut at e, at time t, with k   *)
(* ticks a second: what they are charged, what that is ahead of them, what *)
(* they had and have accrued, the truncations before them and after.       *)
CutAt(S, a, e, t, k, share, ahead, before, after, two, one) ==
    /\ IsFiniteSet(S) /\ a \in [S -> Nat] /\ e \in Nat /\ t \in Nat /\ k \in Nat \ {0}
    /\ \A h \in S : a[h] <= t
    /\ e <= t /\ e % k = 0
    /\ share = [h \in S |-> Later(e, a[h]) \div k]
    /\ ahead = [h \in S |-> Later(a[h], e)]
    /\ before = [h \in S |-> t - a[h]]
    /\ after = [h \in S |-> t - e]
    /\ two = [h \in S |-> IF a[h] % k = 0 THEN 1 ELSE 2]
    /\ one = [h \in S |-> 1]

(* And to all of them: what the window charges and what they accrue from   *)
(* its end on is what they had accrued and what it charges early, but for  *)
(* a truncation of those that had started within a second.                 *)
LEMMA SnapshotSums ==
  ASSUME NEW S, NEW a, NEW e, NEW t, NEW k,
         NEW share, NEW ahead, NEW before, NEW after, NEW two, NEW one,
         CutAt(S, a, e, t, k, share, ahead, before, after, two, one)
  PROVE  /\ Total(share) \in Nat /\ Total(ahead) \in Nat /\ Total(before) \in Nat
         /\ Total(after) \in Nat /\ Total(two) \in Nat /\ Total(one) \in Nat
         /\ k * Total(share) + Total(after) <= Total(before) + Total(ahead)
         /\ Total(before) + Total(ahead)
              <= k * Total(share) + Total(after) + (k - 1) * (Total(two) - Total(one))
<1>0. /\ IsFiniteSet(S) /\ a \in [S -> Nat] /\ e \in Nat /\ t \in Nat /\ k \in Nat \ {0}
      /\ \A h \in S : a[h] <= t
      /\ e <= t /\ e % k = 0
      /\ share = [h \in S |-> Later(e, a[h]) \div k]
      /\ ahead = [h \in S |-> Later(a[h], e)]
      /\ before = [h \in S |-> t - a[h]]
      /\ after = [h \in S |-> t - e]
      /\ two = [h \in S |-> IF a[h] % k = 0 THEN 1 ELSE 2]
      /\ one = [h \in S |-> 1]
  BY DEF CutAt
<1> DEFINE spared == [h \in S |-> IF a[h] % k = 0 THEN 0 ELSE 1]
<1>1. \A h \in S : /\ share[h] \in Nat /\ ahead[h] \in Nat
                   /\ k * share[h] + (t - e) <= (t - a[h]) + ahead[h]
                   /\ (t - a[h]) + ahead[h] <= k * share[h] + (t - e) + (k - 1) * spared[h]
  <2> SUFFICES ASSUME NEW h \in S
               PROVE  /\ share[h] \in Nat /\ ahead[h] \in Nat
                      /\ k * share[h] + (t - e) <= (t - a[h]) + ahead[h]
                      /\ (t - a[h]) + ahead[h] <= k * share[h] + (t - e) + (k - 1) * spared[h]
    OBVIOUS
  <2> DEFINE b == a[h]
  <2>1. b \in Nat /\ b <= t
    BY <1>0
  <2>2. /\ share[h] = Later(e, b) \div k /\ ahead[h] = Later(b, e)
        /\ spared[h] = IF b % k = 0 THEN 0 ELSE 1
    BY <1>0
  <2> HIDE DEF b, spared
  <2>3. LET p == Later(e, b) \div k
            q == Later(b, e)
            r == IF b % k = 0 THEN 0 ELSE 1
        IN  /\ p \in Nat /\ q \in Nat
            /\ k * p + (t - e) <= (t - b) + q
            /\ (t - b) + q <= k * p + (t - e) + (k - 1) * r
    BY <1>0, <2>1, SnapshotShare
  <2> QED
    BY <2>2, <2>3 DEF b
<1>2. /\ share \in [S -> Nat] /\ ahead \in [S -> Nat] /\ before \in [S -> Nat]
      /\ after \in [S -> Nat] /\ spared \in [S -> Nat] /\ one \in [S -> Nat]
  <2>1. \A h \in S : t - a[h] \in Nat
    BY <1>0
  <2>2. t - e \in Nat
    BY <1>0
  <2> QED
    BY <1>0, <1>1, <2>1, <2>2
<1>3. k \in Nat /\ k - 1 \in Nat
  BY <1>0
<1>4. \A h \in S : before[h] = t - a[h] /\ after[h] = t - e
  BY <1>0
<1>5. two \in [S -> Nat] /\ Adds(S, two, one, spared)
  BY <1>0, <1>2 DEF Adds
<1> HIDE DEF spared
<1>6. /\ Total(share) \in Nat /\ Total(ahead) \in Nat /\ Total(before) \in Nat
      /\ Total(after) \in Nat /\ Total(spared) \in Nat
      /\ k * Total(share) + Total(after) <= Total(before) + Total(ahead)
      /\ Total(before) + Total(ahead)
           <= k * Total(share) + Total(after) + (k - 1) * Total(spared)
  <2>1. \A h \in S : k * share[h] + after[h] <= before[h] + ahead[h]
    BY <1>1, <1>4
  <2>2. \A h \in S : before[h] + ahead[h] <= k * share[h] + after[h] + (k - 1) * spared[h]
    BY <1>1, <1>4
  <2>3. Compared(S, k, k - 1, share, ahead, before, after, spared)
    BY <1>0, <1>2, <1>3, <2>1, <2>2 DEF Compared
  <2> QED
    BY <2>3, ComparedSums
<1>7. Total(two) = Total(one) + Total(spared) /\ Total(two) \in Nat /\ Total(one) \in Nat
  BY <1>0, <1>2, <1>5, TotalPlus, TotalTyped
<1>8. Total(spared) = Total(two) - Total(one)
  BY <1>6, <1>7
<1> QED
  BY <1>6, <1>7, <1>8

-----------------------------------------------------------------------------
(* The increments and the seconds of each of some windows.                 *)
EventsOf(s) == [i \in DOMAIN s |-> s[i].events]
SecondsOf(s) == [i \in DOMAIN s |-> s[i].seconds]

(* What one more window adds to their sums.                                *)
LEMMA WindowTotals ==
  ASSUME NEW s \in Seq(Windows)
  PROVE  /\ Total(EventsOf(s)) \in Nat /\ Total(SecondsOf(s)) \in Nat
         /\ \A x \in Windows :
               /\ Total(EventsOf(Append(s, x))) = Total(EventsOf(s)) + x.events
               /\ Total(SecondsOf(Append(s, x))) = Total(SecondsOf(s)) + x.seconds
<1>1. Len(s) \in Nat /\ DOMAIN s = 1..Len(s) /\ \A i \in 1..Len(s) : s[i] \in Windows
  BY LenProperties, ElementOfSeq
<1>2. IsFiniteSet(DOMAIN s)
  BY <1>1, FS_Interval
<1>3. EventsOf(s) \in [DOMAIN s -> Nat] /\ SecondsOf(s) \in [DOMAIN s -> Nat]
  BY <1>1 DEF EventsOf, SecondsOf, Windows
<1>4. ASSUME NEW x \in Windows
      PROVE  /\ Total(EventsOf(Append(s, x))) = Total(EventsOf(s)) + x.events
             /\ Total(SecondsOf(Append(s, x))) = Total(SecondsOf(s)) + x.seconds
  <2> DEFINE t == Append(s, x)
             n == Len(s) + 1
  <2>1. /\ DOMAIN t = DOMAIN s \cup {n} /\ n \notin DOMAIN s /\ t[n] = x
        /\ \A i \in DOMAIN s : t[i] = s[i]
    <3>1. DOMAIN t = 1..n /\ t[n] = x /\ \A i \in 1..Len(s) : t[i] = s[i]
      BY AppendProperties, LenProperties
    <3> QED
      BY <1>1, <3>1
  <2> HIDE DEF t, n
  <2>2. \A i \in DOMAIN t : t[i] \in Windows
    BY <1>1, <2>1
  <2>3. EventsOf(t) \in [DOMAIN s \cup {n} -> Nat] /\ SecondsOf(t) \in [DOMAIN s \cup {n} -> Nat]
    BY <2>1, <2>2 DEF EventsOf, SecondsOf, Windows
  <2>4. /\ \A i \in DOMAIN s : EventsOf(t)[i] = EventsOf(s)[i]
        /\ \A i \in DOMAIN s : SecondsOf(t)[i] = SecondsOf(s)[i]
        /\ EventsOf(t)[n] = x.events /\ SecondsOf(t)[n] = x.seconds
    BY <2>1 DEF EventsOf, SecondsOf
  <2>5. /\ TermAdded(DOMAIN s, EventsOf(s), n, EventsOf(t))
        /\ TermAdded(DOMAIN s, SecondsOf(s), n, SecondsOf(t))
    BY <1>2, <1>3, <2>1, <2>3, <2>4 DEF TermAdded
  <2>6. /\ Total(EventsOf(t)) = Total(EventsOf(s)) + EventsOf(t)[n]
        /\ Total(SecondsOf(t)) = Total(SecondsOf(s)) + SecondsOf(t)[n]
    BY <2>5, TotalMore
  <2> QED
    BY <2>4, <2>6 DEF t
<1> QED
  BY <1>2, <1>3, <1>4, TotalTyped

(* The connections that run are finitely many.                             *)
LEMMA ActiveFinite ==
  ASSUME Types
  PROVE  IsFiniteSet(DOMAIN active) /\ Cardinality(DOMAIN active) \in Nat
<1>1. next_handle - 1 \in Int /\ DOMAIN active \in SUBSET (1..next_handle - 1)
  BY DEF Types, CounterTypes, AggregatorTypes, ExportTypes, HistoryTypes
<1>2. IsFiniteSet(1..next_handle - 1)
  BY <1>1, FS_Interval
<1>3. IsFiniteSet(DOMAIN active)
  BY <1>1, <1>2, FS_Subset
<1> QED
  BY <1>3, FS_CardinalityType

(* What they are charged at the end of a window.                           *)
LEMMA SharesTyped ==
  ASSUME Types, NEW end \in Nat
  PROVE  /\ Shares(end) \in [DOMAIN active -> Nat] /\ Ahead(end) \in [DOMAIN active -> Nat]
         /\ Total(Shares(end)) \in Nat /\ Total(Ahead(end)) \in Nat
<1>1. \A h \in DOMAIN active : active[h] \in Nat
  BY DEF Types, CounterTypes, AggregatorTypes, ExportTypes, HistoryTypes
<1>2. \A h \in DOMAIN active : Later(end, active[h]) \in Nat /\ Later(active[h], end) \in Nat
  BY <1>1 DEF Later
<1>3. Rate \in Nat \ {0}
  BY UsageAssumption
<1>4. \A h \in DOMAIN active : AsSecs(Later(end, active[h])) \in Nat
  BY <1>2, <1>3, AsSecsFacts DEF AsSecs
<1>5. Shares(end) \in [DOMAIN active -> Nat] /\ Ahead(end) \in [DOMAIN active -> Nat]
  BY <1>2, <1>4 DEF Shares, Ahead
<1> QED
  BY <1>5, ActiveFinite, TotalTyped

(* The end of a window is on a second.                                     *)
LEMMA WindowEnd ==
  ASSUME NEW i \in Nat
  PROVE  /\ WindowTicks \in Nat /\ i * WindowTicks \in Nat /\ (i * WindowTicks) % Rate = 0
         /\ \A j \in Nat : i <= j => i * WindowTicks <= j * WindowTicks
<1>1. Rate \in Nat \ {0} /\ WindowSeconds \in Nat
  BY UsageAssumption
<1>2. WindowTicks \in Nat /\ WindowTicks = Rate * WindowSeconds
  BY <1>1 DEF WindowTicks
<1>3. i * WindowTicks = Rate * (i * WindowSeconds) /\ i * WindowSeconds \in Nat
  BY <1>1, <1>2
<1>4. (Rate * (i * WindowSeconds)) % Rate = 0 /\ Rate * (i * WindowSeconds) \in Nat
  BY <1>1, <1>3, MultipleFacts
<1>5. ASSUME NEW j \in Nat, i <= j PROVE i * WindowTicks <= j * WindowTicks
  <2>1. \A w \in Nat : i * w <= j * w
    BY <1>5
  <2> QED
    BY <1>2, <2>1
<1> QED
  BY <1>2, <1>3, <1>4, <1>5

(* No window is cut before its end.                                        *)
LEMMA ElapsedFacts ==
  ASSUME Types
  PROVE  WindowsElapsed \in Nat /\ WindowsElapsed * WindowTicks <= now
<1> DEFINE s == now \div Rate
           e == s \div WindowSeconds
<1>1. now \in Nat /\ Rate \in Nat \ {0} /\ WindowSeconds \in Nat \ {0}
  BY UsageAssumption DEF Types, CounterTypes, AggregatorTypes, ExportTypes, HistoryTypes
<1>2. s \in Nat /\ Rate * s <= now
  BY <1>1, AsSecsFacts
<1> HIDE DEF s
<1>3. e \in Nat /\ WindowSeconds * e <= s
  BY <1>1, <1>2, AsSecsFacts
<1> HIDE DEF e
<1>4. Rate * (WindowSeconds * e) <= Rate * s
  <2>1. \A a, b \in Nat : a <= b => Rate * a <= Rate * b
    BY <1>1
  <2>2. WindowSeconds * e \in Nat
    BY <1>1, <1>3
  <2> QED
    BY <1>2, <1>3, <2>1, <2>2
<1>5. e * WindowTicks = Rate * (WindowSeconds * e)
  BY <1>1, <1>3 DEF WindowTicks
<1>6. WindowsElapsed = e
  BY DEF WindowsElapsed, AsSecs, e, s
<1>7. Rate * (WindowSeconds * e) \in Nat /\ Rate * s \in Nat
  BY <1>1, <1>2, <1>3
<1> QED
  BY <1>1, <1>2, <1>3, <1>4, <1>5, <1>6, <1>7

-----------------------------------------------------------------------------
(* What was removed stays so when no window's way ends.                    *)
LEMMA EndsKept == UNCHANGED ends => UNCHANGED removed
BY DEF ends, removed

(* What a thread leaves alone keeps its types.                             *)
LEMMA KeptTypes ==
  /\ AggregatorTypes /\ UNCHANGED aggregator => AggregatorTypes'
  /\ ExportTypes /\ UNCHANGED export => ExportTypes'
  /\ CounterTypes /\ UNCHANGED <<now, counters>> => CounterTypes'
  /\ HistoryTypes /\ UNCHANGED <<history, removed>> => HistoryTypes'
<1>1. AggregatorTypes /\ UNCHANGED aggregator => AggregatorTypes'
  BY DEF AggregatorTypes, aggregator
<1>2. ExportTypes /\ UNCHANGED export => ExportTypes'
  BY DEF ExportTypes, export
<1>3. CounterTypes /\ UNCHANGED <<now, counters>> => CounterTypes'
  BY DEF CounterTypes, counters
<1>4. HistoryTypes /\ UNCHANGED <<history, removed>> => HistoryTypes'
  BY DEF HistoryTypes, history
<1> QED
  BY <1>1, <1>2, <1>3, <1>4

(* A counter, the connections and the clock.                               *)
LEMMA CountersTyped ==
  ASSUME Types,
         \/ Record \/ StartConnection \/ (\E h \in DOMAIN active : EndConnection(h)) \/ Elapse
  PROVE  Types'
<1>1. UNCHANGED aggregator /\ UNCHANGED export
  BY DEF Record, StartConnection, EndConnection, Elapse
<1>2. AggregatorTypes' /\ ExportTypes'
  BY <1>1, KeptTypes DEF Types
<1>3. CASE Record
  <2>1. CounterTypes' /\ HistoryTypes'
    BY <1>3, EndsKept DEF Types, CounterTypes, HistoryTypes, Record
  <2> QED
    BY <1>2, <2>1 DEF Types
<1>4. CASE StartConnection
  <2>1. HistoryTypes'
    BY <1>4, KeptTypes, EndsKept DEF Types, StartConnection
  <2>2. next_handle \in Nat \ {0} /\ next_handle' = next_handle + 1
    BY <1>4 DEF Types, CounterTypes, StartConnection
  <2>3. DOMAIN active' = DOMAIN active \cup {next_handle}
    BY <1>4 DEF StartConnection
  <2>4. active' \in [DOMAIN active' -> Nat]
    BY <1>4 DEF Types, CounterTypes, StartConnection
  <2>5. DOMAIN active' \subseteq 1..next_handle' - 1
    BY <2>2, <2>3 DEF Types, CounterTypes
  <2>6. CounterTypes'
    BY <1>4, <2>2, <2>4, <2>5 DEF Types, CounterTypes, StartConnection
  <2> QED
    BY <1>2, <2>1, <2>6 DEF Types
<1>5. ASSUME NEW h \in DOMAIN active, EndConnection(h) PROVE Types'
  <2>1. HistoryTypes'
    BY <1>5, KeptTypes, EndsKept DEF Types, EndConnection
  <2>2. active[h] \in Nat /\ now \in Nat /\ seconds \in Nat /\ Rate \in Nat \ {0}
    BY UsageAssumption DEF Types, CounterTypes
  <2>3. Later(now, active[h]) \in Nat
    BY <2>2 DEF Later
  <2>4. AsSecs(Later(now, active[h])) \in Nat
    BY <2>2, <2>3, AsSecsFacts DEF AsSecs
  <2>5. seconds' \in Nat
    BY <1>5, <2>2, <2>4 DEF EndConnection
  <2>6. DOMAIN active' \subseteq 1..next_handle - 1 /\ active' \in [DOMAIN active' -> Nat]
    BY <1>5 DEF Types, CounterTypes, EndConnection
  <2>7. CounterTypes'
    BY <1>5, <2>5, <2>6 DEF Types, CounterTypes, EndConnection
  <2> QED
    BY <1>2, <2>1, <2>7 DEF Types
<1>6. CASE Elapse
  <2>1. Cardinality(DOMAIN active) \in Nat
    BY ActiveFinite
  <2>2. HistoryTypes'
    <3>1. UNCHANGED removed
      BY <1>6, EndsKept DEF Elapse
    <3> QED
      BY <1>6, <2>1, <3>1 DEF Types, HistoryTypes, Elapse
  <2>3. CounterTypes'
    BY <1>6 DEF Types, CounterTypes, Elapse, counters
  <2> QED
    BY <1>2, <2>2, <2>3 DEF Types
<1> QED
  BY <1>3, <1>4, <1>5, <1>6

(* What changes in the record of a tick.                                   *)
LEMMA TickFields ==
  ASSUME tick \in Ticks
  PROVE  /\ tick.phase \in {"counters", "connections", "push"}
         /\ tick.index \in Nat /\ tick.last \in Nat /\ tick.sequence \in Nat
         /\ tick.events \in Nat /\ tick.done \in Seq(Windows)
         /\ tick # Nothing
<1>1. tick # Nothing
  BY UsageAssumption
<1> QED
  BY <1>1 DEF Ticks

(* The aggregator.                                                         *)
LEMMA AggregatorTyped ==
  ASSUME Types, TickStart \/ SnapshotCounters \/ SnapshotConnections \/ PushPending
  PROVE  Types'
<1>1. ExportTypes'
  BY KeptTypes DEF Types, TickStart, SnapshotCounters, SnapshotConnections, PushPending
<1>2. CASE TickStart
  <2>1. WindowsElapsed \in Nat /\ finalized_windows \in Nat /\ <<>> \in Seq(Windows)
    BY ElapsedFacts, EmptySeq DEF Types, AggregatorTypes
  <2>2. tick' \in Ticks /\ finalized_windows' \in Nat
    BY <1>2, <2>1 DEF TickStart, Ticks
  <2>3. AggregatorTypes'
    BY <1>2, <2>2 DEF Types, AggregatorTypes, TickStart
  <2>4. CounterTypes' /\ HistoryTypes'
    BY <1>2, KeptTypes, EndsKept DEF Types, TickStart
  <2> QED
    BY <1>1, <2>3, <2>4 DEF Types
<1>3. CASE SnapshotCounters
  <2>1. tick \in Ticks /\ next_sequence \in Nat /\ events \in Nat
    BY <1>3 DEF Types, AggregatorTypes, CounterTypes, SnapshotCounters
  <2>2. tick' \in Ticks
    BY <1>3, <2>1 DEF SnapshotCounters, Ticks
  <2>3. AggregatorTypes'
    BY <1>3, <2>1, <2>2 DEF Types, AggregatorTypes, SnapshotCounters
  <2>4. CounterTypes'
    BY <1>3 DEF Types, CounterTypes, SnapshotCounters, ResetCounter
  <2>5. HistoryTypes'
    BY <1>3, KeptTypes, EndsKept DEF Types, SnapshotCounters
  <2> QED
    BY <1>1, <2>3, <2>4, <2>5 DEF Types
<1>4. CASE SnapshotConnections
  <2> DEFINE end == tick.index * WindowTicks
             window == [sequence |-> tick.sequence, events |-> tick.events,
                        seconds |-> seconds + Total(Shares(end))]
             phase == IF tick.index = tick.last THEN "push" ELSE "counters"
  <2>1. /\ tick \in Ticks /\ seconds \in Nat /\ finalized \in Seq(Windows) /\ early \in Nat
        /\ DOMAIN active \subseteq 1..next_handle - 1
    BY <1>4 DEF Types, AggregatorTypes, CounterTypes, HistoryTypes, SnapshotConnections
  <2>2. end \in Nat
    BY <2>1, TickFields, WindowEnd
  <2>3. Total(Shares(end)) \in Nat /\ Total(Ahead(end)) \in Nat
    BY <2>2, SharesTyped
  <2>4. /\ tick' = [tick EXCEPT !.done = Append(tick.done, window), !.events = 0,
                                !.index = tick.index + 1, !.phase = phase]
        /\ finalized' = Append(finalized, window) /\ active' = [h \in DOMAIN active |-> end]
        /\ early' = early + Total(Ahead(end)) /\ seconds' = 0
    BY <1>4 DEF SnapshotConnections, RestartAt
  <2> HIDE DEF end
  <2>5. window \in Windows
    BY <2>1, <2>3, TickFields DEF Windows
  <2>6. phase \in {"counters", "connections", "push"}
    OBVIOUS
  <2> HIDE DEF window, phase
  <2>7. Append(tick.done, window) \in Seq(Windows)
    BY <2>1, <2>5, TickFields, AppendProperties
  <2>8. tick' \in Ticks
    <3> DEFINE done == Append(tick.done, window)
               i == tick.index + 1
    <3>1. done \in Seq(Windows) /\ i \in Nat
      BY <2>1, <2>7, TickFields
    <3>2. tick' = [tick EXCEPT !.done = done, !.events = 0, !.index = i, !.phase = phase]
      BY <2>4
    <3> HIDE DEF done, i
    <3> QED
      BY <2>1, <2>6, <3>1, <3>2 DEF Ticks
  <2>9. active' \in [DOMAIN active' -> Nat] /\ DOMAIN active' = DOMAIN active
    BY <2>2, <2>4
  <2>10. finalized' \in Seq(Windows)
    BY <2>1, <2>4, <2>5, AppendProperties
  <2>11. AggregatorTypes'
    BY <1>4, <2>8 DEF Types, AggregatorTypes, SnapshotConnections
  <2>12. CounterTypes'
    BY <1>4, <2>1, <2>4, <2>9 DEF Types, CounterTypes, SnapshotConnections
  <2>13. HistoryTypes'
    BY <1>4, <2>1, <2>3, <2>4, <2>10, EndsKept DEF Types, HistoryTypes, SnapshotConnections
  <2> QED
    BY <1>1, <2>11, <2>12, <2>13 DEF Types
<1>5. CASE PushPending
  <2> DEFINE s == pending \o tick.done
  <2>1. tick \in Ticks /\ pending \in Seq(Windows) /\ removed \subseteq Nat
    BY <1>5 DEF Types, AggregatorTypes, HistoryTypes, PushPending
  <2>2. s \in Seq(Windows)
    BY <2>1, TickFields, ConcatProperties
  <2>3. Sequences(s) \subseteq Nat
    BY <2>2, SequencesTyped
  <2>4. PendingCapacity \in Nat
    BY UsageAssumption
  <2>5. pending' \in Seq(Windows)
    BY <1>5, <2>2, <2>4, NewestFacts DEF PushPending
  <2>6. removed' \subseteq Nat
    BY <1>5, <2>1, <2>3 DEF PushPending, removed
  <2>7. CounterTypes'
    BY <1>5, KeptTypes DEF Types, PushPending
  <2>8. AggregatorTypes'
    BY <1>5, <2>5 DEF Types, AggregatorTypes, PushPending
  <2>9. HistoryTypes'
    BY <1>5, <2>6 DEF Types, HistoryTypes, PushPending, history
  <2> QED
    BY <1>1, <2>7, <2>8, <2>9 DEF Types
<1> QED
  BY <1>2, <1>3, <1>4, <1>5

(* What changes in the record of append.                                   *)
LEMMA AppendFields ==
  ASSUME Types, append # Nothing
  PROVE  /\ append \in Appends /\ append.window \in Windows
         /\ append.retry \in Windows \cup {Nothing} /\ append.draining \in BOOLEAN
         /\ append.window.sequence \in Nat
         /\ append.retry # Nothing =>
               append.retry \in Windows /\ append.retry.sequence \in Nat
<1>1. append \in Appends
  BY DEF Types, CounterTypes, AggregatorTypes, ExportTypes, HistoryTypes
<1>2. append.window \in Windows /\ append.retry \in Windows \cup {Nothing}
        /\ append.draining \in BOOLEAN
  BY <1>1 DEF Appends
<1> QED
  BY <1>1, <1>2 DEF Windows

-----------------------------------------------------------------------------
(* What push_to_spool leaves in the spool.                                 *)
LEMMA PushToSpoolFacts ==
  ASSUME Types, NEW x \in Windows, PushToSpool(x)
  PROVE  /\ Append(spool, x) \in Seq(Windows) /\ spool' \in Seq(Windows)
         /\ dropped_windows' \in Nat
         /\ Sequences(Append(spool, x)) \subseteq Nat
         /\ spool = <<>> => /\ spool' = <<x>> /\ Sequences(spool') = {x.sequence}
                            /\ SpoolCapacity > 0 => dropped_windows' = dropped_windows
                            /\ overrun' = overrun
<1>1. spool \in Seq(Windows) /\ dropped_windows \in Nat /\ SpoolCapacity \in Nat
  BY UsageAssumption DEF Types, ExportTypes
<1>2. Append(spool, x) \in Seq(Windows)
  BY <1>1, AppendProperties
<1>3. spool' \in Seq(Windows) /\ dropped_windows' \in Nat
  <2>1. spool # <<>> => Append(Tail(spool), x) \in Seq(Windows)
    BY <1>1, HeadTailProperties, AppendProperties
  <2>2. spool' \in Seq(Windows)
    BY <1>2, <2>1 DEF PushToSpool
  <2>3. dropped_windows' \in Nat
    BY <1>1 DEF PushToSpool
  <2> QED
    BY <2>2, <2>3
<1>4. Sequences(Append(spool, x)) \subseteq Nat
  BY <1>2, SequencesTyped
<1>5. ASSUME spool = <<>>
      PROVE  /\ spool' = <<x>> /\ Sequences(spool') = {x.sequence}
             /\ SpoolCapacity > 0 => dropped_windows' = dropped_windows
             /\ overrun' = overrun
  <2>1. Append(spool, x) = <<x>> /\ Len(spool) = 0
    BY <1>5
  <2>2. spool' = <<x>>
    BY <1>5, <2>1 DEF PushToSpool
  <2>3. SpoolCapacity > 0 => dropped_windows' = dropped_windows
    BY <1>1, <2>1 DEF PushToSpool
  <2>4. overrun' = overrun
    BY <2>1, <2>2 DEF PushToSpool
  <2>5. Sequences(<<x>>) = {x.sequence}
    <3>1. Sequences(Append(spool, x)) = Sequences(spool) \cup {x.sequence}
      BY <1>1, SequencesAppend
    <3>2. Sequences(spool) = {}
      BY <1>5, SequencesOfNone
    <3> QED
      BY <2>1, <3>1, <3>2
  <2> QED
    BY <2>2, <2>3, <2>4, <2>5
<1> QED
  BY <1>2, <1>3, <1>4, <1>5

(* What push_to_spool drops has a number.                                  *)
LEMMA OverrunTyped ==
  ASSUME Types, NEW x \in Windows, PushToSpool(x)
  PROVE  overrun' \subseteq Nat
<1>1. overrun \subseteq Nat
  BY DEF Types, HistoryTypes, removed
<1>2. overrun' = overrun \cup (Sequences(Append(spool, x)) \ Sequences(spool'))
  BY DEF PushToSpool
<1> QED
  BY <1>1, <1>2, PushToSpoolFacts

(* A window joins the queue of windows that were delivered.                *)
LEMMA DeliveredTyped ==
  ASSUME Types, NEW x \in Windows
  PROVE  /\ Append(delivered, x) \in Seq(Windows)
         /\ StoredOrNot(x) => delivered' \in Seq(Windows)
<1>1. delivered \in Seq(Windows)
  BY DEF Types, ExportTypes
<1>2. Append(delivered, x) \in Seq(Windows)
  BY <1>1, AppendProperties
<1> QED
  BY <1>1, <1>2 DEF StoredOrNot

(* The steps of the exporter.                                              *)
Exports ==
    \/ DrainPending \/ AppendStart \/ PopSpool
    \/ RetryStored \/ RetryRefused \/ RetryFails
    \/ NewStored \/ NewFails \/ NewRefused

(* None of them touches the counters or the windows that were cut.         *)
LEMMA ExportKeeps ==
  ASSUME Exports
  PROVE  /\ UNCHANGED <<now, counters>> /\ UNCHANGED history
         /\ UNCHANGED <<finalized_windows, next_sequence, tick>>
<1> USE DEF aggregator
<1>1. CASE DrainPending \/ AppendStart \/ PopSpool
  BY <1>1 DEF DrainPending, AppendStart, PopSpool
<1>2. CASE RetryStored \/ RetryRefused \/ RetryFails
  BY <1>2 DEF RetryStored, RetryRefused, RetryFails
<1>3. CASE NewStored \/ NewFails \/ NewRefused
  BY <1>3 DEF NewStored, NewFails, NewRefused
<1> QED
  BY <1>1, <1>2, <1>3 DEF Exports

(* The windows of append after each of its steps.                          *)
LEMMA ExportsTyped ==
  ASSUME Types, Exports
  PROVE  Types'
<1>1. CounterTypes'
  BY ExportKeeps, KeptTypes DEF Types
<1>2. /\ append' \in Appends \cup {Nothing} /\ batch' \in Seq(Windows) /\ pending' \in Seq(Windows)
      /\ spool' \in Seq(Windows) /\ delivered' \in Seq(Windows) /\ dropped_windows' \in Nat
      /\ removed' \subseteq Nat
  <2>1. /\ append \in Appends \cup {Nothing} /\ batch \in Seq(Windows) /\ pending \in Seq(Windows)
        /\ spool \in Seq(Windows) /\ delivered \in Seq(Windows) /\ dropped_windows \in Nat
        /\ removed \subseteq Nat
    BY DEF Types, AggregatorTypes, ExportTypes, HistoryTypes
  <2> USE DEF aggregator
  <2>2. CASE DrainPending
    BY <2>1, <2>2, EmptySeq, EndsKept DEF DrainPending
  <2>3. CASE AppendStart
    <3>1. Head(batch) \in Windows /\ Tail(batch) \in Seq(Windows)
      BY <2>1, <2>3, HeadTailProperties DEF AppendStart
    <3>2. append' \in Appends
      BY <2>3, <3>1 DEF AppendStart, Appends
    <3> QED
      BY <2>1, <2>3, <3>1, <3>2, EndsKept DEF AppendStart
  <2>4. CASE PopSpool
    <3>1. append \in Appends
      BY <2>1, <2>4 DEF PopSpool
    <3>2. CASE spool = <<>>
      <4>1. append' = [append EXCEPT !.draining = FALSE]
        BY <2>4, <3>2 DEF PopSpool
      <4>2. append' \in Appends
        BY <3>1, <4>1 DEF Appends
      <4> QED
        BY <2>1, <2>4, <3>2, <4>2, EndsKept DEF PopSpool
    <3>3. CASE spool # <<>>
      <4>1. Head(spool) \in Windows /\ Tail(spool) \in Seq(Windows)
        BY <2>1, <3>3, HeadTailProperties
      <4>2. append' = [append EXCEPT !.retry = Head(spool)] /\ spool' = Tail(spool)
        BY <2>4, <3>3 DEF PopSpool
      <4>3. append' \in Appends
        BY <3>1, <4>1, <4>2 DEF Appends
      <4> QED
        BY <2>1, <2>4, <4>1, <4>2, <4>3, EndsKept DEF PopSpool
    <3> QED
      BY <3>2, <3>3
  <2>5. CASE RetryStored
    <3>1. append \in Appends /\ append.retry \in Windows
      BY <2>5, AppendFields DEF RetryStored
    <3>2. append' \in Appends
      BY <2>5, <3>1 DEF RetryStored, Appends
    <3> QED
      BY <2>1, <2>5, <3>1, <3>2, DeliveredTyped, EndsKept DEF RetryStored
  <2>6. CASE RetryRefused
    <3>1. append \in Appends /\ append.retry \in Windows /\ append.retry.sequence \in Nat
      BY <2>6, AppendFields DEF RetryRefused
    <3>2. append' \in Appends
      BY <2>6, <3>1 DEF RetryRefused, Appends
    <3>3. removed' \subseteq Nat
      BY <2>1, <2>6, <3>1 DEF RetryRefused, removed
    <3>4. delivered' \in Seq(Windows)
      BY <2>6, <3>1, DeliveredTyped DEF RetryRefused
    <3> QED
      BY <2>1, <2>6, <3>2, <3>3, <3>4 DEF RetryRefused
  <2>7. CASE RetryFails
    <3>1. /\ append.window \in Windows /\ append.retry \in Windows
          /\ append.retry.sequence \in Nat
      BY <2>7, AppendFields DEF RetryFails
    <3>2. spool' \in Seq(Windows) /\ dropped_windows' \in Nat /\ overrun' \subseteq Nat
      BY <2>7, <3>1, PushToSpoolFacts, OverrunTyped DEF RetryFails
    <3>3. removed' \subseteq Nat
      BY <2>1, <2>7, <3>1, <3>2 DEF RetryFails, removed
    <3>4. delivered' \in Seq(Windows)
      BY <2>7, <3>1, DeliveredTyped DEF RetryFails
    <3> QED
      BY <2>1, <2>7, <3>2, <3>3, <3>4 DEF RetryFails
  <2>8. CASE NewStored
    <3>1. append.window \in Windows
      BY <2>8, AppendFields DEF NewStored, Trying
    <3> QED
      BY <2>1, <2>8, <3>1, DeliveredTyped, EndsKept DEF NewStored
  <2>9. CASE NewFails
    <3>1. append.window \in Windows
      BY <2>9, AppendFields DEF NewFails, Trying
    <3>2. spool' \in Seq(Windows) /\ dropped_windows' \in Nat /\ overrun' \subseteq Nat
      BY <2>9, <3>1, PushToSpoolFacts, OverrunTyped DEF NewFails
    <3>3. removed' \subseteq Nat
      BY <2>1, <2>9, <3>2 DEF NewFails, removed
    <3>4. delivered' \in Seq(Windows)
      BY <2>9, <3>1, DeliveredTyped DEF NewFails
    <3> QED
      BY <2>1, <2>9, <3>2, <3>3, <3>4 DEF NewFails
  <2>10. CASE NewRefused
    <3>1. append.window \in Windows /\ append.window.sequence \in Nat
      BY <2>10, AppendFields DEF NewRefused, Trying
    <3>2. removed' \subseteq Nat
      BY <2>1, <2>10, <3>1 DEF NewRefused, removed
    <3>3. delivered' \in Seq(Windows)
      BY <2>10, <3>1, DeliveredTyped DEF NewRefused
    <3> QED
      BY <2>1, <2>10, <3>2, <3>3 DEF NewRefused
  <2> QED
    BY <2>2, <2>3, <2>4, <2>5, <2>6, <2>7, <2>8, <2>9, <2>10 DEF Exports
<1>3. AggregatorTypes'
  BY <1>2, ExportKeeps DEF Types, AggregatorTypes
<1>4. HistoryTypes'
  BY <1>2, ExportKeeps DEF Types, HistoryTypes, history
<1>5. ExportTypes'
  BY <1>2 DEF ExportTypes
<1> QED
  BY <1>1, <1>3, <1>4, <1>5 DEF Types

(* Every step keeps the types.                                             *)
LEMMA StepTyped ==
  ASSUME Types, [Next]_vars
  PROVE  Types'
<1>1. CASE Next
  BY <1>1, CountersTyped, AggregatorTyped, ExportsTyped DEF Next, Exports
<1>2. CASE UNCHANGED vars
  <2>1. /\ UNCHANGED aggregator /\ UNCHANGED export /\ UNCHANGED <<now, counters>>
        /\ UNCHANGED <<history, removed>>
    BY <1>2, EndsKept DEF vars
  <2> QED
    BY <2>1, KeptTypes DEF Types
<1> QED
  BY <1>1, <1>2

-----------------------------------------------------------------------------
(* An increment is counted in one place.                                   *)
LEMMA StepCounted ==
  ASSUME Types, Counted, [Next]_vars
  PROVE  Counted'
<1> DEFINE carried == IF tick = Nothing THEN 0 ELSE tick.events
           cut == Total(EventsOf(finalized))
<1>1. /\ recorded \in Nat /\ events \in Nat /\ finalized \in Seq(Windows)
      /\ tick \in Ticks \cup {Nothing}
  BY DEF Types, CounterTypes, AggregatorTypes, HistoryTypes
<1>2. recorded = events + carried + cut
  BY DEF Counted, EventsConserved, EventsOf
<1>3. carried \in Nat /\ cut \in Nat
  BY <1>1, TickFields, WindowTotals
<1>4. ASSUME UNCHANGED <<events, tick, finalized, recorded>>
      PROVE  Counted'
  BY <1>4 DEF Counted, EventsConserved
<1>5. CASE Record
  <2>1. events' = events + 1 /\ recorded' = recorded + 1 /\ UNCHANGED <<tick, finalized>>
    BY <1>5 DEF Record, aggregator
  <2> HIDE DEF carried, cut
  <2>2. recorded' = events' + carried + cut
    BY <1>1, <1>2, <1>3, <2>1
  <2> USE DEF carried, cut
  <2> QED
    BY <2>1, <2>2 DEF Counted, EventsConserved, EventsOf
<1>6. CASE TickStart
  <2>1. /\ tick = Nothing /\ UNCHANGED <<events, finalized, recorded>>
        /\ tick'.events = 0 /\ tick'.phase = "counters"
    BY <1>6 DEF TickStart, counters, history
  <2>2. recorded = events + 0 + cut
    BY <1>2, <2>1
  <2> QED
    BY <2>1, <2>2 DEF Counted, EventsConserved, EventsOf
<1>7. CASE SnapshotCounters
  <2>1. tick \in Ticks /\ tick # Nothing
    BY <1>1, <1>7 DEF SnapshotCounters
  <2>2. /\ tick.phase = "counters" /\ events' = 0 /\ UNCHANGED <<finalized, recorded>>
        /\ tick'.events = events /\ tick'.phase = "connections"
    BY <1>7, <2>1 DEF SnapshotCounters, ResetCounter, history, Ticks
  <2>3. tick.events = 0
    BY <2>1, <2>2 DEF Counted
  <2>4. tick' # Nothing
    BY <1>7, StepTyped, <2>1, UsageAssumption, AggregatorTyped, TickFields
       DEF SnapshotCounters, Ticks, Types, AggregatorTypes, CounterTypes
  <2>5. recorded = 0 + events + cut
    BY <1>1, <1>2, <1>3, <2>1, <2>3
  <2> QED
    BY <2>2, <2>4, <2>5 DEF Counted, EventsConserved, EventsOf
<1>8. CASE SnapshotConnections
  <2> DEFINE window == [sequence |-> tick.sequence, events |-> tick.events,
                        seconds |-> seconds + Total(Shares(tick.index * WindowTicks))]
  <2>1. tick \in Ticks /\ tick # Nothing /\ seconds \in Nat
    BY <1>1, <1>8 DEF SnapshotConnections, Types, CounterTypes
  <2>2. tick.index \in Nat
    BY <2>1, TickFields
  <2>3. tick.index * WindowTicks \in Nat
    BY <2>2, WindowEnd
  <2>4. Total(Shares(tick.index * WindowTicks)) \in Nat
    BY <2>3, SharesTyped
  <2>5. window \in Windows /\ window.events = tick.events
    BY <2>1, <2>4, TickFields DEF Windows
  <2>6. finalized' = Append(finalized, window) /\ UNCHANGED <<events, recorded>>
    BY <1>8 DEF SnapshotConnections
  <2>7. tick'.events = 0
    BY <1>8, <2>1 DEF SnapshotConnections, Ticks
  <2> HIDE DEF window
  <2>8. Total(EventsOf(finalized')) = cut + tick.events
    BY <1>1, <2>5, <2>6, WindowTotals
  <2>9. recorded = events + 0 + (cut + tick.events)
    BY <1>1, <1>2, <1>3, <2>1
  <2> QED
    BY <2>6, <2>7, <2>8, <2>9 DEF Counted, EventsConserved, EventsOf
<1>9. CASE PushPending
  <2>1. tick # Nothing /\ tick.phase = "push" /\ tick' = Nothing
          /\ UNCHANGED <<events, finalized, recorded>>
    BY <1>9 DEF PushPending, counters, history
  <2>2. tick.events = 0
    BY <2>1 DEF Counted
  <2>3. recorded = events + 0 + cut
    BY <1>2, <2>1, <2>2
  <2> QED
    BY <2>1, <2>3 DEF Counted, EventsConserved, EventsOf
<1>10. CASE StartConnection \/ Elapse \/ \E h \in DOMAIN active : EndConnection(h)
  <2>1. UNCHANGED <<events, tick, finalized, recorded>>
    BY <1>10 DEF StartConnection, Elapse, EndConnection, aggregator, history, counters
  <2> QED
    BY <2>1, <1>4
<1>11. CASE Exports
  <2>1. UNCHANGED <<events, tick, finalized, recorded>>
    BY <1>11, ExportKeeps DEF counters, history
  <2> QED
    BY <2>1, <1>4
<1>12. CASE UNCHANGED vars
  <2>1. UNCHANGED <<events, tick, finalized, recorded>>
    BY <1>12 DEF vars, counters, aggregator, history
  <2> QED
    BY <2>1, <1>4
<1> QED
  BY <1>5, <1>6, <1>7, <1>8, <1>9, <1>10, <1>11, <1>12 DEF Next, Exports

-----------------------------------------------------------------------------
(* The clock, the connections and the tick in progress.                    *)
LEMMA StepClocked ==
  ASSUME Types, Clocked, [Next]_vars
  PROVE  Clocked'
<1>1. /\ now \in Nat /\ active \in [DOMAIN active -> Nat] /\ tick \in Ticks \cup {Nothing}
      /\ finalized_windows \in Nat
  BY DEF Types, CounterTypes, AggregatorTypes
<1>2. ASSUME UNCHANGED <<now, active, tick>> PROVE Clocked'
  BY <1>2 DEF Clocked
<1>3. CASE StartConnection
  <2>1. /\ active' = [h \in DOMAIN active \cup {next_handle} |->
                          IF h = next_handle THEN now ELSE active[h]]
        /\ UNCHANGED <<now, tick>>
    BY <1>3 DEF StartConnection, aggregator
  <2>2. \A h \in DOMAIN active' : active'[h] <= now
    BY <1>1, <2>1 DEF Clocked
  <2> QED
    BY <2>1, <2>2 DEF Clocked
<1>4. ASSUME NEW h \in DOMAIN active, EndConnection(h) PROVE Clocked'
  <2>1. active' = [g \in DOMAIN active \ {h} |-> active[g]] /\ UNCHANGED <<now, tick>>
    BY <1>4 DEF EndConnection, aggregator
  <2> QED
    BY <2>1 DEF Clocked
<1>5. CASE Elapse
  <2>1. now' = now + 1 /\ UNCHANGED <<active, tick>>
    BY <1>5 DEF Elapse, counters, aggregator
  <2>2. \A h \in DOMAIN active : active[h] <= now + 1
    BY <1>1 DEF Clocked
  <2>3. tick # Nothing => tick.last * WindowTicks <= now + 1
    <3>1. ASSUME tick # Nothing PROVE tick.last * WindowTicks \in Nat
      BY <1>1, <3>1, TickFields, WindowEnd
    <3> QED
      BY <1>1, <3>1 DEF Clocked
  <2> QED
    BY <2>1, <2>2, <2>3 DEF Clocked
<1>6. CASE TickStart
  <2>1. /\ tick'.last = WindowsElapsed /\ tick'.index = finalized_windows + 1
        /\ WindowsElapsed > finalized_windows /\ UNCHANGED <<now, active>>
    BY <1>6 DEF TickStart, counters
  <2>2. WindowsElapsed \in Nat /\ WindowsElapsed * WindowTicks <= now
    BY ElapsedFacts
  <2>3. finalized_windows + 1 <= WindowsElapsed
    BY <1>1, <2>1, <2>2
  <2> QED
    BY <2>1, <2>2, <2>3 DEF Clocked
<1>7. CASE SnapshotCounters
  <2>1. tick \in Ticks /\ tick # Nothing /\ tick.phase = "counters"
    BY <1>1, <1>7 DEF SnapshotCounters
  <2>2. tick'.last = tick.last /\ tick'.index = tick.index /\ UNCHANGED <<now, active>>
    BY <1>7, <2>1 DEF SnapshotCounters, Ticks
  <2> QED
    BY <2>1, <2>2 DEF Clocked
<1>8. CASE SnapshotConnections
  <2> DEFINE end == tick.index * WindowTicks
  <2>1. tick \in Ticks /\ tick # Nothing /\ tick.phase = "connections"
    BY <1>1, <1>8 DEF SnapshotConnections
  <2>2. /\ tick'.last = tick.last /\ tick'.index = tick.index + 1 /\ now' = now
        /\ tick'.phase = IF tick.index = tick.last THEN "push" ELSE "counters"
        /\ active' = [h \in DOMAIN active |-> end]
    BY <1>8, <2>1 DEF SnapshotConnections, RestartAt, Ticks
  <2>3. tick.index \in Nat /\ tick.last \in Nat /\ tick.index <= tick.last
    BY <2>1, TickFields DEF Clocked
  <2>4. end \in Nat /\ tick.last * WindowTicks \in Nat /\ end <= tick.last * WindowTicks
    BY <2>3, WindowEnd
  <2>5. end <= now
    BY <1>1, <2>1, <2>4 DEF Clocked
  <2>6. tick'.phase # "push" => tick.index + 1 <= tick.last
    BY <2>2, <2>3
  <2> HIDE DEF end
  <2>7. \A h \in DOMAIN active' : active'[h] <= now
    BY <2>2, <2>5
  <2> QED
    BY <2>1, <2>2, <2>6, <2>7 DEF Clocked
<1>9. CASE PushPending
  <2>1. tick' = Nothing /\ UNCHANGED <<now, active>>
    BY <1>9 DEF PushPending, counters
  <2> QED
    BY <2>1 DEF Clocked
<1>10. CASE Record \/ Exports \/ UNCHANGED vars
  <2>1. UNCHANGED <<now, active, tick>>
    BY <1>10, ExportKeeps DEF Record, vars, counters, aggregator
  <2> QED
    BY <2>1, <1>2
<1> QED
  BY <1>3, <1>4, <1>5, <1>6, <1>7, <1>8, <1>9, <1>10 DEF Next, Exports

-----------------------------------------------------------------------------
(* The sums that Tallied compares.                                         *)
LEMMA TallyTyped ==
  ASSUME Types, Clocked
  PROVE  /\ Accrued \in [DOMAIN active -> Nat] /\ Truncations \in [DOMAIN active -> Nat]
         /\ Total(Accrued) \in Nat /\ Total(Truncations) \in Nat
         /\ Rate \in Nat \ {0} /\ seconds \in Nat /\ early \in Nat /\ lived \in Nat
         /\ next_handle \in Nat \ {0} /\ now \in Nat
         /\ Total(SecondsOf(finalized)) \in Nat
         /\ Charged = Rate * (seconds + Total(SecondsOf(finalized))) + Total(Accrued) - early
         /\ Rate * (seconds + Total(SecondsOf(finalized))) \in Nat /\ Charged \in Int
<1>1. /\ active \in [DOMAIN active -> Nat] /\ now \in Nat /\ Rate \in Nat \ {0}
      /\ seconds \in Nat /\ early \in Nat /\ lived \in Nat /\ next_handle \in Nat \ {0}
      /\ finalized \in Seq(Windows)
  BY UsageAssumption DEF Types, CounterTypes, HistoryTypes
<1>2. Accrued \in [DOMAIN active -> Nat]
  <2>1. \A h \in DOMAIN active : now - active[h] \in Nat
    BY <1>1 DEF Clocked
  <2> QED
    BY <2>1 DEF Accrued
<1>3. Truncations \in [DOMAIN active -> Nat]
  BY DEF Truncations
<1>4. Total(Accrued) \in Nat /\ Total(Truncations) \in Nat
  BY <1>2, <1>3, ActiveFinite, TotalTyped
<1>5. Total(SecondsOf(finalized)) \in Nat
  BY <1>1, WindowTotals
<1>6. Charged = Rate * (seconds + Total(SecondsOf(finalized))) + Total(Accrued) - early
  BY DEF Charged, SecondsOf
<1>7. Rate * (seconds + Total(SecondsOf(finalized))) \in Nat
  BY <1>1, <1>5
<1> QED
  BY <1>1, <1>2, <1>3, <1>4, <1>5, <1>6, <1>7

(* Tallied speaks of these only.                                           *)
LEMMA TallyKept ==
  ASSUME Tallied,
         UNCHANGED <<now, seconds, active, next_handle, finalized, lived, early>>
  PROVE  Tallied'
BY DEF Tallied, Charged, Accrued, Truncations

(* A connection that starts has nothing accrued and two truncations at     *)
(* most before it.                                                         *)
LEMMA StartTallied ==
  ASSUME Types, Clocked, Tallied, StartConnection
  PROVE  Tallied'
<1> DEFINE S == DOMAIN active
           n == next_handle
<1>1. /\ active' = [h \in S \cup {n} |-> IF h = n THEN now ELSE active[h]]
      /\ next_handle' = n + 1 /\ UNCHANGED <<now, seconds, finalized, lived, early>>
  BY DEF StartConnection, history
<1>2. n \notin S /\ now \in Nat /\ active \in [S -> Nat]
  BY DEF Types, CounterTypes
<1>3. Accrued \in [S -> Nat] /\ Truncations \in [S -> Nat] /\ IsFiniteSet(S)
  BY TallyTyped, ActiveFinite
<1>4. /\ \A h \in S : Accrued'[h] = Accrued[h] /\ Truncations'[h] = Truncations[h]
      /\ Accrued'[n] = 0 /\ Truncations'[n] \in {1, 2}
      /\ DOMAIN Accrued' = S \cup {n} /\ DOMAIN Truncations' = S \cup {n}
  BY <1>1, <1>2 DEF Accrued, Truncations
<1>5. Accrued' \in [S \cup {n} -> Nat] /\ Truncations' \in [S \cup {n} -> Nat]
  <2>1. \A h \in S \cup {n} : Accrued'[h] \in Nat /\ Truncations'[h] \in Nat
    BY <1>3, <1>4
  <2>2. Accrued' = [h \in S \cup {n} |-> Accrued'[h]]
    BY <1>1 DEF Accrued
  <2>3. Truncations' = [h \in S \cup {n} |-> Truncations'[h]]
    BY <1>1 DEF Truncations
  <2> QED
    BY <2>1, <2>2, <2>3
<1>6. TermAdded(S, Accrued, n, Accrued') /\ TermAdded(S, Truncations, n, Truncations')
  BY <1>2, <1>3, <1>4, <1>5 DEF TermAdded
<1>7. /\ Total(Accrued') = Total(Accrued) + 0
      /\ Total(Truncations') = Total(Truncations) + Truncations'[n]
  BY <1>4, <1>6, TotalMore
<1>8. Charged' = Charged
  <2>1. Total(Accrued') = Total(Accrued)
    BY <1>7, TallyTyped
  <2> QED
    BY <1>1, <2>1 DEF Charged
<1> DEFINE t == Total(Truncations)
           u == Total(Truncations')
           k == Rate - 1
<1>9. /\ t \in Nat /\ u \in Nat /\ u <= t + 2 /\ k \in Nat /\ n \in Nat /\ Charged \in Int
      /\ lived \in Nat
  BY <1>4, <1>7, TallyTyped
<1>10. Charged <= lived /\ lived - Charged <= k * (2 * (n - 1) - t)
  BY DEF Tallied
<1> HIDE DEF t, u, k, n
<1>11. 2 * (n - 1) - t <= 2 * (n + 1 - 1) - u
  BY <1>9
<1>12. k * (2 * (n - 1) - t) <= k * (2 * (n + 1 - 1) - u)
  <2>1. \A i, j \in Int : i <= j => k * i <= k * j
    BY <1>9
  <2> QED
    BY <1>9, <1>11, <2>1
<1>13. lived - Charged <= k * (2 * (n + 1 - 1) - u)
  <2>1. k * (2 * (n - 1) - t) \in Int /\ k * (2 * (n + 1 - 1) - u) \in Int
    BY <1>9
  <2> QED
    BY <1>9, <1>10, <1>12, <2>1
<1>14. Charged' <= lived'
  BY <1>1, <1>8, <1>10
<1>15. lived' - Charged' = lived - Charged
  BY <1>1, <1>8
<1>16. (Rate - 1) * (2 * (next_handle' - 1) - Total(Truncations'))
         = k * (2 * (n + 1 - 1) - u)
  <2>1. next_handle' = n + 1 /\ Total(Truncations') = u /\ Rate - 1 = k
    BY <1>1 DEF u, k
  <2>2. 2 * (next_handle' - 1) - Total(Truncations') = 2 * (n + 1 - 1) - u
    BY <1>9, <2>1
  <2> QED
    BY <2>1, <2>2, Zenon
<1> QED
  BY <1>13, <1>14, <1>15, <1>16 DEF Tallied

(* A connection that ends is charged what it accrued, but for one          *)
(* truncation, which it no longer has before it.                           *)
LEMMA EndTallied ==
  ASSUME Types, Clocked, Tallied, NEW h \in DOMAIN active, EndConnection(h)
  PROVE  Tallied'
<1> DEFINE S == DOMAIN active \ {h}
           a == now - active[h]
           s == AsSecs(Later(now, active[h]))
           f == Total(SecondsOf(finalized))
<1>1. /\ active' = [g \in S |-> active[g]] /\ seconds' = seconds + s
      /\ UNCHANGED <<now, next_handle, finalized, lived, early>>
  BY DEF EndConnection, history
<1>2. /\ Accrued \in [DOMAIN active -> Nat] /\ Truncations \in [DOMAIN active -> Nat]
      /\ IsFiniteSet(DOMAIN active) /\ Rate \in Nat \ {0}
  BY TallyTyped, ActiveFinite
<1>3. TermAdded(S, Accrued', h, Accrued) /\ TermAdded(S, Truncations', h, Truncations)
  <2>1. S \cup {h} = DOMAIN active /\ h \notin S /\ IsFiniteSet(S)
    BY <1>2, FS_RemoveElement
  <2>2. /\ Accrued' = [g \in S |-> Accrued[g]] /\ Truncations' = [g \in S |-> Truncations[g]]
        /\ \A g \in S : Accrued[g] \in Nat /\ Truncations[g] \in Nat
    BY <1>1, <1>2 DEF Accrued, Truncations
  <2> HIDE DEF S
  <2> QED
    BY <1>2, <2>1, <2>2 DEF TermAdded
<1>4. Accrued[h] = a /\ a \in Nat /\ Truncations[h] \in {1, 2} /\ Later(now, active[h]) = a
  <2>1. now \in Nat /\ active[h] \in Nat /\ active[h] <= now
    BY DEF Clocked, Types, CounterTypes
  <2>2. Later(now, active[h]) = a
    BY <2>1 DEF Later
  <2> QED
    BY <1>2, <2>1, <2>2 DEF Accrued, Truncations
<1>5. s \in Nat /\ Rate * s <= a /\ a - Rate * s <= Rate - 1 /\ Rate * s \in Nat
  BY <1>2, <1>4, AsSecsFacts DEF AsSecs
<1>6. /\ Total(Accrued) = a + Total(Accrued') /\ Total(Accrued') \in Nat
      /\ Total(Truncations) = Truncations[h] + Total(Truncations')
      /\ Total(Truncations') \in Nat
  <2>1. /\ Total(Accrued) = Total(Accrued') + Accrued[h] /\ Total(Accrued') \in Nat
        /\ Total(Truncations) = Total(Truncations') + Truncations[h]
        /\ Total(Truncations') \in Nat /\ Accrued[h] \in Nat /\ Truncations[h] \in Nat
    BY <1>3, TotalMore
  <2> QED
    BY <1>4, <2>1
<1>7. /\ seconds \in Nat /\ f \in Nat /\ early \in Nat /\ lived \in Nat /\ Charged \in Int
      /\ next_handle \in Nat \ {0}
      /\ Charged = Rate * (seconds + f) + Total(Accrued) - early
  BY TallyTyped
<1>8. Charged' = Rate * ((seconds + s) + f) + Total(Accrued') - early
  BY <1>1 DEF Charged, SecondsOf
<1> DEFINE t == Total(Truncations)
           u == Total(Truncations')
           m == 2 * (next_handle - 1)
<1> HIDE DEF f, s, a
<1>9. Rate * ((seconds + s) + f) = Rate * (seconds + f) + Rate * s
      /\ Rate * (seconds + f) \in Nat
  BY <1>2, <1>5, <1>7
<1>10. Charged' \in Int /\ Charged - Charged' = a - Rate * s
  BY <1>4, <1>5, <1>6, <1>7, <1>8, <1>9
<1>11. Charged <= lived /\ lived - Charged <= (Rate - 1) * (m - t)
  BY DEF Tallied
<1>12. t \in Nat /\ u \in Nat /\ u + 1 <= t /\ m \in Int
  BY <1>4, <1>6, <1>7
<1> HIDE DEF t, u, m
<1>13. (Rate - 1) * (m - t) + (Rate - 1) <= (Rate - 1) * (m - u)
  <2> DEFINE k == Rate - 1
  <2>1. k \in Nat
    BY <1>2
  <2> HIDE DEF k
  <2>2. \A i, j \in Int : i + 1 <= j => k * i + k <= k * j
    BY <2>1
  <2>3. m - t \in Int /\ m - u \in Int /\ (m - t) + 1 <= m - u
    BY <1>12
  <2>4. k * (m - t) + k <= k * (m - u)
    BY <2>2, <2>3
  <2> QED
    BY <2>4 DEF k
<1>14. (Rate - 1) * (m - t) \in Int /\ (Rate - 1) * (m - u) \in Int
  BY <1>2, <1>12
<1>15. Charged' <= lived /\ lived - Charged' <= (Rate - 1) * (m - u)
  <2>1. lived - Charged' = (lived - Charged) + (a - Rate * s)
    BY <1>7, <1>10, <1>4, <1>5
  <2> QED
    BY <1>2, <1>4, <1>5, <1>7, <1>10, <1>11, <1>13, <1>14, <2>1
<1> QED
  BY <1>1, <1>15 DEF Tallied, t, u, m

-----------------------------------------------------------------------------
(* Time that goes by is accrued by every running connection.               *)
LEMMA ElapseTallied ==
  ASSUME Types, Clocked, Tallied, Elapse
  PROVE  Tallied'
<1> DEFINE S == DOMAIN active
           ones == [h \in S |-> 1]
<1>1. /\ now' = now + 1 /\ lived' = lived + Cardinality(S)
      /\ UNCHANGED <<active, seconds, next_handle, finalized, early>>
  BY DEF Elapse, counters
<1>2. /\ Accrued \in [S -> Nat] /\ IsFiniteSet(S) /\ Cardinality(S) \in Nat /\ now \in Nat
      /\ active \in [S -> Nat]
  BY TallyTyped, ActiveFinite DEF Types, CounterTypes
<1>3. Adds(S, Accrued', Accrued, ones)
  <2>1. Accrued' = [h \in S |-> Accrued'[h]] /\ ones \in [S -> Nat]
    BY <1>1 DEF Accrued
  <2>2. ASSUME NEW h \in S
        PROVE  Accrued'[h] = Accrued[h] + ones[h] /\ Accrued'[h] \in Nat
    <3>1. Accrued'[h] = now' - active[h] /\ Accrued[h] = now - active[h]
      BY <1>1 DEF Accrued
    <3>2. active[h] \in Nat /\ Accrued[h] \in Nat /\ now' = now + 1 /\ ones[h] = 1
      BY <1>1, <1>2
    <3> QED
      BY <1>2, <3>1, <3>2
  <2> HIDE DEF S, ones
  <2>3. Accrued' \in [S -> Nat]
    BY <2>1, <2>2
  <2> QED
    BY <1>2, <2>1, <2>2, <2>3 DEF Adds
<1>4. Total(Accrued') = Total(Accrued) + Cardinality(S)
  <2>1. Total(ones) = Cardinality(S)
    BY <1>2, TotalOnes
  <2> HIDE DEF S, ones
  <2>2. Total(Accrued') = Total(Accrued) + Total(ones)
    BY <1>3, TotalPlus
  <2> QED
    BY <2>1, <2>2
<1>5. Charged' = Charged + Cardinality(S)
  <2> DEFINE sum == Rate * (seconds + Total(SecondsOf(finalized)))
  <2>1. Charged = sum + Total(Accrued) - early
    BY TallyTyped
  <2>2. Charged' = sum + Total(Accrued') - early
    BY <1>1 DEF Charged, SecondsOf
  <2>3. sum \in Nat /\ Total(Accrued) \in Nat /\ early \in Nat
    BY TallyTyped
  <2> HIDE DEF sum
  <2> QED
    BY <1>2, <1>4, <2>1, <2>2, <2>3
<1>6. Truncations' = Truncations /\ next_handle' = next_handle
  BY <1>1 DEF Truncations
<1>7. Charged \in Int /\ lived \in Nat
  BY TallyTyped
<1>8. Charged' <= lived' <=> Charged <= lived
  BY <1>1, <1>2, <1>5, <1>7
<1>9. lived' - Charged' = lived - Charged
  BY <1>1, <1>2, <1>5, <1>7
<1> HIDE DEF S
<1> QED
  BY <1>6, <1>8, <1>9 DEF Tallied

(* The end of a window charges every running connection up to it and       *)
(* loses a truncation at most of those that did not start on a second.     *)
LEMMA SnapshotTallied ==
  ASSUME Types, Clocked, Tallied, SnapshotConnections
  PROVE  Tallied'
<1> DEFINE S == DOMAIN active
           e == tick.index * WindowTicks
           f == Total(SecondsOf(finalized))
           share == Total(Shares(e))
           ahead == Total(Ahead(e))
<1>1. /\ tick \in Ticks /\ tick # Nothing /\ tick.phase = "connections"
      /\ Rate \in Nat \ {0} /\ active \in [S -> Nat] /\ IsFiniteSet(S)
  BY TallyTyped, ActiveFinite DEF SnapshotConnections, Types, CounterTypes, AggregatorTypes
<1>2. e \in Nat /\ e % Rate = 0 /\ e <= now
  <2>1. tick.index \in Nat /\ tick.last \in Nat /\ tick.index <= tick.last
    BY <1>1, TickFields DEF Clocked
  <2>2. e \in Nat /\ e % Rate = 0 /\ tick.last * WindowTicks \in Nat
        /\ e <= tick.last * WindowTicks
    BY <2>1, WindowEnd
  <2>3. tick.last * WindowTicks <= now /\ now \in Nat
    BY <1>1, TallyTyped DEF Clocked
  <2> HIDE DEF e
  <2> QED
    BY <2>2, <2>3
<1>3. /\ active' = [h \in S |-> e] /\ seconds' = 0 /\ early' = early + ahead
      /\ UNCHANGED <<now, next_handle, lived>>
      /\ \E x \in Windows : x.seconds = seconds + share /\ finalized' = Append(finalized, x)
  <2> DEFINE x == [sequence |-> tick.sequence, events |-> tick.events,
                   seconds |-> seconds + share]
  <2>1. /\ active' = [h \in S |-> e] /\ seconds' = 0 /\ early' = early + ahead
        /\ UNCHANGED <<now, next_handle, lived>> /\ finalized' = Append(finalized, x)
    BY DEF SnapshotConnections, RestartAt
  <2>2. share \in Nat /\ seconds \in Nat /\ tick.sequence \in Nat /\ tick.events \in Nat
    BY <1>1, <1>2, SharesTyped, TickFields, TallyTyped
  <2> HIDE DEF share
  <2>3. x \in Windows /\ x.seconds = seconds + share
    BY <2>2 DEF Windows
  <2> HIDE DEF x
  <2> QED
    BY <2>1, <2>3
<1>4. /\ share \in Nat /\ ahead \in Nat
      /\ Total(Accrued) \in Nat /\ Total(Accrued') \in Nat
      /\ Total(Truncations) \in Nat /\ Total(Truncations') \in Nat
      /\ Rate * share + Total(Accrued') <= Total(Accrued) + ahead
      /\ Total(Accrued) + ahead
           <= Rate * share + Total(Accrued')
                + (Rate - 1) * (Total(Truncations) - Total(Truncations'))
  <2>1. /\ Shares(e) = [h \in S |-> Later(e, active[h]) \div Rate]
        /\ Ahead(e) = [h \in S |-> Later(active[h], e)]
        /\ Accrued = [h \in S |-> now - active[h]]
        /\ Truncations = [h \in S |-> IF active[h] % Rate = 0 THEN 1 ELSE 2]
    BY DEF Shares, AsSecs, Ahead, Accrued, Truncations
  <2>2. Accrued' = [h \in S |-> now - e] /\ Truncations' = [h \in S |-> 1]
    BY <1>2, <1>3 DEF Accrued, Truncations
  <2>3. now \in Nat /\ \A h \in S : active[h] <= now
    BY TallyTyped DEF Clocked
  <2> DEFINE A == Shares(e)
             B == Ahead(e)
             C == Accrued
             D == Accrued'
             F == Truncations
             G == Truncations'
  <2>4. /\ A = [h \in S |-> Later(e, active[h]) \div Rate]
        /\ B = [h \in S |-> Later(active[h], e)]
        /\ C = [h \in S |-> now - active[h]] /\ D = [h \in S |-> now - e]
        /\ F = [h \in S |-> IF active[h] % Rate = 0 THEN 1 ELSE 2]
        /\ G = [h \in S |-> 1]
    BY <2>1, <2>2
  <2> HIDE DEF S, e, A, B, C, D, F, G
  <2>5. /\ Total(A) \in Nat /\ Total(B) \in Nat /\ Total(C) \in Nat
        /\ Total(D) \in Nat /\ Total(F) \in Nat /\ Total(G) \in Nat
        /\ Rate * Total(A) + Total(D) <= Total(C) + Total(B)
        /\ Total(C) + Total(B)
             <= Rate * Total(A) + Total(D) + (Rate - 1) * (Total(F) - Total(G))
    <3>1. CutAt(S, active, e, now, Rate, A, B, C, D, F, G)
      BY <1>1, <1>2, <2>3, <2>4 DEF CutAt
    <3> QED
      BY <3>1, SnapshotSums
  <2> QED
    BY <2>5 DEF A, B, C, D, F, G
<1>5. /\ seconds \in Nat /\ f \in Nat /\ early \in Nat /\ lived \in Nat /\ Charged \in Int
      /\ next_handle \in Nat \ {0}
      /\ Charged = Rate * (seconds + f) + Total(Accrued) - early
  BY TallyTyped
<1>6. Charged' = Rate * (0 + (f + (seconds + share))) + Total(Accrued') - (early + ahead)
  <2>1. PICK x \in Windows : x.seconds = seconds + share /\ finalized' = Append(finalized, x)
    BY <1>3
  <2>2. finalized \in Seq(Windows)
    BY DEF Types, HistoryTypes
  <2>3. Total(SecondsOf(finalized')) = f + x.seconds
    BY <2>1, <2>2, WindowTotals
  <2>4. Charged' = Rate * (seconds' + Total(SecondsOf(finalized'))) + Total(Accrued') - early'
    BY DEF Charged, SecondsOf
  <2> HIDE DEF f, share, ahead
  <2> QED
    BY <1>3, <2>1, <2>3, <2>4
<1> DEFINE t == Total(Truncations)
           u == Total(Truncations')
           m == 2 * (next_handle - 1)
           k == Rate - 1
           c == Total(Accrued)
           d == Total(Accrued')
<1> HIDE DEF S, e, f, share, ahead
<1>7. Rate * (0 + (f + (seconds + share))) = Rate * (seconds + f) + Rate * share
      /\ Rate * (seconds + f) \in Nat /\ Rate * share \in Nat
  BY <1>1, <1>4, <1>5
<1>8. /\ t \in Nat /\ u \in Nat /\ m \in Int /\ k \in Nat /\ c \in Nat /\ d \in Nat
      /\ Rate * share + d <= c + ahead
      /\ c + ahead <= Rate * share + d + k * (t - u)
  BY <1>1, <1>4, <1>5
<1>9. Charged <= lived /\ lived - Charged <= k * (m - t)
  BY DEF Tallied
<1>10. Charged = Rate * (seconds + f) + c - early
       /\ Charged' = Rate * (0 + (f + (seconds + share))) + d - (early + ahead)
  BY <1>5, <1>6
<1> HIDE DEF t, u, m, k, c, d
<1>11. k * (m - t) + k * (t - u) = k * (m - u)
       /\ k * (m - t) \in Int /\ k * (t - u) \in Int /\ k * (m - u) \in Int
  <2>1. \A i, j \in Int : k * i + k * j = k * (i + j) /\ k * i \in Int
    BY <1>8
  <2>2. m - t \in Int /\ t - u \in Int /\ (m - t) + (t - u) = m - u
    BY <1>8
  <2>3. k * (m - t) + k * (t - u) = k * ((m - t) + (t - u))
        /\ k * (m - t) \in Int /\ k * (t - u) \in Int
    BY <2>1, <2>2
  <2>4. k * ((m - t) + (t - u)) = k * (m - u)
    BY <2>2
  <2>5. k * (m - u) \in Int
    BY <1>8
  <2> QED
    BY <2>3, <2>4, <2>5
<1>12. /\ Charged' \in Int /\ Charged' <= Charged /\ Charged <= Charged' + k * (t - u)
  <2> DEFINE p == Rate * (seconds + f)
             q == Rate * share
             r == k * (t - u)
  <2>1. /\ Charged = p + c - early /\ Charged' = (p + q) + d - (early + ahead)
        /\ p \in Nat /\ q \in Nat /\ r \in Int /\ q + d <= c + ahead /\ c + ahead <= q + d + r
    BY <1>7, <1>8, <1>10, <1>11
  <2>2. c \in Nat /\ d \in Nat /\ early \in Nat /\ ahead \in Nat
    BY <1>4, <1>5, <1>8
  <2> HIDE DEF p, q, r
  <2>3. Charged' \in Int /\ Charged' <= Charged /\ Charged <= Charged' + r
    BY <2>1, <2>2
  <2> QED
    BY <2>3 DEF r
<1>13. Charged' <= lived /\ lived - Charged' <= k * (m - u)
  BY <1>5, <1>9, <1>11, <1>12
<1>14. Charged' <= lived' /\ lived' - Charged' <= k * (2 * (next_handle' - 1) - u)
  BY <1>3, <1>13 DEF m
<1> QED
  BY <1>14 DEF Tallied, u, k

(* All steps.                                                              *)
LEMMA StepTallied ==
  ASSUME Types, Clocked, Tallied, [Next]_vars
  PROVE  Tallied'
<1>1. CASE StartConnection
  BY <1>1, StartTallied
<1>2. ASSUME NEW h \in DOMAIN active, EndConnection(h) PROVE Tallied'
  BY <1>2, EndTallied
<1>3. CASE Elapse
  BY <1>3, ElapseTallied
<1>4. CASE SnapshotConnections
  BY <1>4, SnapshotTallied
<1>5. CASE Record \/ TickStart \/ SnapshotCounters \/ PushPending \/ Exports \/ UNCHANGED vars
  <2>1. UNCHANGED <<now, seconds, active, next_handle, finalized, lived, early>>
    BY <1>5, ExportKeeps
       DEF Record, TickStart, SnapshotCounters, PushPending, vars, counters, history
  <2> QED
    BY <2>1, TallyKept
<1> QED
  BY <1>1, <1>2, <1>3, <1>4, <1>5 DEF Next, Exports

-----------------------------------------------------------------------------
(* The stations hold natural numbers and, together, what is held.          *)
LEMMA Stations ==
  ASSUME Types
  PROVE  /\ Retrying \subseteq Nat /\ Appending \subseteq Nat
         /\ Sequences(batch) \subseteq Nat /\ Sequences(pending) \subseteq Nat
         /\ Cut \subseteq Nat /\ Waiting \subseteq Nat
<1>1. Sequences(batch) \subseteq Nat /\ Sequences(pending) \subseteq Nat
      /\ Sequences(spool) \subseteq Nat
  BY SequencesTyped DEF Types, AggregatorTypes, ExportTypes
<1>2. Cut \subseteq Nat
  <2>1. CASE tick = Nothing
    BY <2>1 DEF Cut
  <2>2. CASE tick # Nothing
    <3>1. tick.done \in Seq(Windows)
      BY <2>2, TickFields DEF Types, AggregatorTypes
    <3> QED
      BY <2>2, <3>1, SequencesTyped DEF Cut
  <2> QED
    BY <2>1, <2>2
<1>3. Appending \subseteq Nat
  BY AppendFields DEF Appending
<1>4. Retrying \subseteq Nat
  BY <1>1, AppendFields DEF Retrying
<1> QED
  BY <1>1, <1>2, <1>3, <1>4 DEF Waiting

(* What is held is in one of the stations, before and after a step.        *)
LEMMA HeldStations ==
  Held = Retrying \cup Waiting /\ Held' = Retrying' \cup Waiting'
<1>1. Held = Retrying \cup Waiting
  <2>1. CASE append = Nothing
    BY <2>1 DEF Held, Retrying, Waiting, Appending, Cut
  <2>2. CASE append # Nothing
    BY <2>2 DEF Held, Retrying, Waiting, Appending, Cut
  <2> QED
    BY <2>1, <2>2
<1>2. Held' = Retrying' \cup Waiting'
  <2>1. CASE append' = Nothing
    BY <2>1 DEF Held, Retrying, Waiting, Appending, Cut
  <2>2. CASE append' # Nothing
    BY <2>2 DEF Held, Retrying, Waiting, Appending, Cut
  <2> QED
    BY <2>1, <2>2
<1> QED
  BY <1>1, <1>2

(* No window is in two stations.                                           *)
LEMMA Apart ==
  ASSUME NEW S \in SUBSET Nat, NEW T \in SUBSET Nat, Below(S, T)
  PROVE  S \cap T = {}
<1>1. ASSUME NEW n \in S, n \in T PROVE FALSE
  <2>1. n < n /\ n \in Nat
    BY <1>1 DEF Below
  <2> QED
    BY <2>1
<1> QED
  BY <1>1

(* What is delivered keeps its place with a new window under way.          *)
LEMMA BehindGrows ==
  ASSUME NEW d, NEW r, NEW ahead, Behind(d, r, ahead),
         NEW n, \A i \in DOMAIN d : d[i].sequence < n
  PROVE  Behind(d, r, ahead \cup {n})
BY DEF Behind

-----------------------------------------------------------------------------
(* Placed speaks of these only.                                            *)
LEMMA PlacedKept ==
  ASSUME Placed, UNCHANGED aggregator, UNCHANGED export, UNCHANGED <<finalized, removed>>
  PROVE  Placed'
<1>1. UNCHANGED <<next_sequence, tick, pending, batch, append, spool, dropped_windows,
                  delivered, finalized, removed>>
  BY DEF aggregator, export
<1>2. /\ Retrying' = Retrying /\ Appending' = Appending /\ Cut' = Cut /\ NextCut' = NextCut
      /\ Held' = Held /\ Sequences(batch') = Sequences(batch)
      /\ Sequences(pending') = Sequences(pending)
      /\ Sequences(finalized') = Sequences(finalized)
      /\ Sequences(delivered') = Sequences(delivered)
  BY <1>1 DEF Retrying, Appending, Cut, NextCut, Held
<1>3. Waiting' = Waiting
  BY <1>2 DEF Waiting
<1>4. InLine'
  BY <1>1, <1>2 DEF Placed, InLine
<1>5. Spooled'
  BY <1>1 DEF Placed, Spooled
<1>6. Behind(delivered', Retrying', Waiting')
  BY <1>1, <1>2, <1>3 DEF Placed
<1>7. Complete' /\ Numbered'
  BY <1>1, <1>2 DEF Placed, Complete, Numbered
<1> QED
  BY <1>4, <1>5, <1>6, <1>7 DEF Placed

(* A tick begins with no windows cut, and each window is given a number.   *)
LEMMA TickPlaced ==
  ASSUME Types, Placed, TickStart \/ SnapshotCounters
  PROVE  Placed'
<1>1. /\ UNCHANGED export /\ UNCHANGED <<pending, finalized, removed>>
      /\ next_sequence \in Nat /\ next_sequence' \in Nat /\ next_sequence <= next_sequence'
      /\ tick' # Nothing /\ tick'.phase = "connections" => tick'.sequence < next_sequence'
  <2>1. next_sequence \in Nat
    BY DEF Types, AggregatorTypes
  <2>2. CASE TickStart
    BY <2>1, <2>2, EndsKept DEF TickStart, history
  <2>3. CASE SnapshotCounters
    <3>1. tick \in Ticks
      BY <2>3 DEF SnapshotCounters, Types, AggregatorTypes
    <3>2. tick'.sequence = next_sequence /\ next_sequence' = next_sequence + 1
          /\ UNCHANGED export /\ UNCHANGED <<pending, finalized, removed>>
      BY <2>3, <3>1, EndsKept DEF SnapshotCounters, Ticks, history
    <3> QED
      BY <2>1, <3>2
  <2> QED
    BY <2>2, <2>3
<1>2. /\ Cut' = Cut /\ NextCut' = NextCut /\ NextCut' <= next_sequence'
      /\ tick' # Nothing => Ascending(tick'.done)
  <2>1. NextCut = next_sequence
    BY DEF TickStart, SnapshotCounters, NextCut
  <2>2. CASE TickStart
    <3>1. tick' # Nothing /\ tick'.done = <<>> /\ tick'.phase = "counters"
          /\ next_sequence' = next_sequence /\ tick = Nothing
      <4>1. tick' \in Ticks \cup {Nothing} /\ tick'.done = <<>>
        BY <2>2, AggregatorTyped DEF TickStart, Types, AggregatorTypes
      <4>2. tick'.phase = "counters" /\ next_sequence' = next_sequence /\ tick = Nothing
        BY <2>2 DEF TickStart
      <4>3. tick' # Nothing
        <5> DEFINE new == [phase |-> "counters", index |-> finalized_windows + 1,
                           last |-> WindowsElapsed, sequence |-> 0, events |-> 0, done |-> <<>>]
        <5>1. finalized_windows \in Nat /\ WindowsElapsed \in Nat
          BY ElapsedFacts DEF Types, AggregatorTypes
        <5>2. new \in Ticks
          BY <5>1 DEF Ticks
        <5>3. tick' = new
          BY <2>2 DEF TickStart
        <5> QED
          BY <5>2, <5>3, UsageAssumption
      <4> QED
        BY <4>1, <4>2, <4>3
    <3> QED
      BY <1>1, <2>1, <3>1, SequencesOfNone DEF Cut, NextCut
  <2>3. CASE SnapshotCounters
    <3>1. tick \in Ticks /\ tick # Nothing
      BY <2>3 DEF SnapshotCounters, Types, AggregatorTypes
    <3>2. tick' = [tick EXCEPT !.phase = "connections", !.sequence = next_sequence,
                               !.events = events]
      BY <2>3 DEF SnapshotCounters
    <3>3. events \in Nat /\ next_sequence \in Nat
      BY DEF Types, CounterTypes, AggregatorTypes
    <3>4. tick' \in Ticks /\ tick'.done = tick.done /\ tick'.phase = "connections"
          /\ tick'.sequence = next_sequence
      BY <3>1, <3>2, <3>3 DEF Ticks
    <3>5. tick' # Nothing
      BY <3>4, UsageAssumption
    <3>6. Ascending(tick.done)
      BY <3>1 DEF Placed, InLine
    <3> QED
      BY <1>1, <2>1, <3>1, <3>4, <3>5, <3>6 DEF Cut, NextCut
  <2> QED
    BY <2>2, <2>3
<1>3. UNCHANGED <<batch, append, spool, dropped_windows, delivered, pending>>
  BY <1>1 DEF export
<1>4. /\ Retrying' = Retrying /\ Appending' = Appending /\ Waiting' = Waiting
      /\ Sequences(batch') = Sequences(batch) /\ Sequences(pending') = Sequences(pending)
  BY <1>2, <1>3 DEF Retrying, Appending, Waiting
<1>5. InLine'
  BY <1>2, <1>3, <1>4 DEF Placed, InLine
<1>6. Spooled'
  BY <1>3 DEF Placed, Spooled
<1>7. Behind(delivered', Retrying', Waiting')
  BY <1>3, <1>4 DEF Placed
<1>8. Complete'
  BY <1>1, <1>3, <1>4, HeldStations DEF Placed, Complete
<1>9. Numbered'
  BY <1>1, <1>2 DEF Placed, Numbered
<1> QED
  BY <1>5, <1>6, <1>7, <1>8, <1>9 DEF Placed

(* A window is cut: its number is above all that were cut before.          *)
LEMMA CutPlaced ==
  ASSUME Types, Placed, SnapshotConnections
  PROVE  Placed'
<1> DEFINE n == tick.sequence
<1>1. tick \in Ticks /\ tick # Nothing /\ tick.phase = "connections" /\ n \in Nat
      /\ tick.done \in Seq(Windows) /\ next_sequence \in Nat
  BY TickFields DEF SnapshotConnections, Types, AggregatorTypes
<1>2. PICK x \in Windows :
        /\ x.sequence = n
        /\ finalized' = Append(finalized, x) /\ tick'.done = Append(tick.done, x)
        /\ tick'.phase \in {"counters", "push"} /\ tick' # Nothing
  <2> DEFINE end == tick.index * WindowTicks
             x == [sequence |-> tick.sequence, events |-> tick.events,
                   seconds |-> seconds + Total(Shares(end))]
  <2>1. /\ finalized' = Append(finalized, x) /\ tick'.done = Append(tick.done, x)
        /\ tick'.phase \in {"counters", "push"} /\ x.sequence = n
    BY <1>1 DEF SnapshotConnections, Ticks
  <2>2. end \in Nat
    BY <1>1, TickFields, WindowEnd
  <2> HIDE DEF end
  <2>3. Total(Shares(end)) \in Nat /\ seconds \in Nat /\ tick.events \in Nat
    BY <1>1, <2>2, SharesTyped, TickFields DEF Types, CounterTypes
  <2>4. x \in Windows
    BY <1>1, <2>3 DEF Windows
  <2>5. tick' \in Ticks
    <3> DEFINE phase == IF tick.index = tick.last THEN "push" ELSE "counters"
               index == tick.index + 1
               done == Append(tick.done, x)
    <3>1. tick' = [tick EXCEPT !.done = done, !.events = 0, !.index = index, !.phase = phase]
      BY <1>1 DEF SnapshotConnections, Ticks, end
    <3>2. phase \in {"counters", "connections", "push"} /\ index \in Nat
      BY <1>1, TickFields
    <3>3. done \in Seq(Windows)
      BY <1>1, <2>4, SequencesAppend
    <3> HIDE DEF phase, index, done
    <3> QED
      BY <1>1, <3>1, <3>2, <3>3 DEF Ticks
  <2>6. tick' # Nothing
    BY <2>5, UsageAssumption
  <2> HIDE DEF x
  <2> QED
    BY <2>1, <2>4, <2>6
<1>3. UNCHANGED <<batch, append, spool, dropped_windows, delivered, pending, removed,
                  next_sequence>>
  BY EndsKept DEF SnapshotConnections, export
<1>4. /\ Retrying' = Retrying /\ Appending' = Appending
      /\ Sequences(batch') = Sequences(batch) /\ Sequences(pending') = Sequences(pending)
  BY <1>3 DEF Retrying, Appending
<1>5. finalized \in Seq(Windows) /\ delivered \in Seq(Windows)
  BY DEF Types, HistoryTypes, ExportTypes
<1>6. /\ Cut' = Cut \cup {n} /\ Sequences(finalized') = Sequences(finalized) \cup {n}
      /\ Sequences(finalized) \subseteq Nat /\ Sequences(delivered) \subseteq Nat
      /\ Waiting' = Waiting \cup {n}
  <2>1. Cut' = Cut \cup {n} /\ Sequences(finalized') = Sequences(finalized) \cup {n}
    BY <1>1, <1>2, <1>5, SequencesAppend DEF Cut
  <2>2. Waiting' = Waiting \cup {n}
    BY <1>4, <2>1 DEF Waiting
  <2> QED
    BY <1>5, <2>1, <2>2, SequencesTyped
<1>7. /\ \A m \in Sequences(finalized) : m < n
      /\ n < next_sequence
  BY <1>1 DEF Placed, Numbered, NextCut
<1>8. Sequences(finalized) = Retrying \cup Waiting \cup removed \cup Sequences(delivered)
      /\ (Retrying \cup Waiting) \cap removed = {}
  BY HeldStations DEF Placed, Complete
<1>9. /\ Retrying \subseteq Nat /\ Appending \subseteq Nat /\ Sequences(batch) \subseteq Nat
      /\ Sequences(pending) \subseteq Nat /\ Cut \subseteq Nat
  BY Stations
<1> HIDE DEF n
<1>10. \A m \in Retrying \cup Waiting \cup removed \cup Sequences(delivered) : m < n
  BY <1>7, <1>8
<1>11. Line(Retrying, Appending, Sequences(batch), Sequences(pending), Cut \cup {n})
  <2>1. Line(Retrying, Appending, Sequences(batch), Sequences(pending), Cut)
    BY DEF Placed, InLine
  <2>2. \A m \in Retrying \cup Appending \cup Sequences(batch) \cup Sequences(pending) : m < n
    BY <1>10 DEF Waiting
  <2> QED
    BY <2>1, <2>2 DEF Line, Below
<1>12. InLine'
  <2>1. Ascending(tick'.done)
    <3>1. Ascending(tick.done) /\ Sequences(tick.done) = Cut
      BY <1>1 DEF Placed, InLine, Cut
    <3>2. Below(Sequences(tick.done), {n})
      BY <1>10, <3>1 DEF Below, Waiting
    <3> QED
      BY <1>1, <1>2, <3>1, <3>2, SequencesAppend
  <2>2. Ascending(batch') /\ Ascending(pending')
    BY <1>3 DEF Placed, InLine
  <2> QED
    BY <1>4, <1>6, <1>11, <2>1, <2>2 DEF InLine
<1>13. Spooled'
  BY <1>3 DEF Placed, Spooled
<1>14. Behind(delivered', Retrying', Waiting')
  <2>1. Behind(delivered, Retrying, Waiting)
    BY DEF Placed
  <2>2. \A i \in DOMAIN delivered : delivered[i].sequence < n
    BY <1>10 DEF Sequences
  <2> QED
    BY <1>3, <1>4, <1>6, <2>1, <2>2, BehindGrows
<1>15. Complete'
  <2>1. n \notin removed
    BY <1>1, <1>7, <1>8 DEF n
  <2>2. /\ Held' = Retrying \cup Waiting \cup {n} /\ removed' = removed
        /\ Sequences(delivered') = Sequences(delivered)
    BY <1>3, <1>4, <1>6, HeldStations
  <2> QED
    BY <1>6, <1>8, <2>1, <2>2 DEF Complete
<1>16. Numbered'
  <2>1. NextCut' = next_sequence' /\ tick'.phase # "connections"
    BY <1>2 DEF NextCut
  <2>2. \A m \in Sequences(finalized) \cup {n} : m < next_sequence
    <3>1. \A m \in Sequences(finalized) : m < next_sequence
      BY <1>1, <1>6, <1>7 DEF n
    <3> QED
      BY <1>7, <3>1
  <2>3. next_sequence' = next_sequence /\ next_sequence <= next_sequence
    BY <1>1, <1>3
  <2> QED
    BY <1>6, <2>1, <2>2, <2>3 DEF Numbered
<1> QED
  BY <1>12, <1>13, <1>14, <1>15, <1>16 DEF Placed

(* The windows of a tick join the pending ones; the oldest may go.         *)
LEMMA PushPlaced ==
  ASSUME Types, Placed, PushPending
  PROVE  Placed'
<1> DEFINE all == pending \o tick.done
           P == Sequences(pending)
           P1 == Sequences(pending')
<1>1. tick \in Ticks /\ tick # Nothing /\ tick.phase = "push" /\ tick.done \in Seq(Windows)
      /\ pending \in Seq(Windows)
  BY TickFields DEF PushPending, Types, AggregatorTypes
<1>2. /\ pending' = Newest(all, PendingCapacity) /\ tick' = Nothing
      /\ removed' = removed \cup (Sequences(all) \ P1)
      /\ UNCHANGED <<batch, append, spool, dropped_windows, delivered, finalized,
                     next_sequence>>
  BY DEF PushPending, export, history, removed
<1>3. Line(Retrying, Appending, Sequences(batch), P, Cut)
      /\ Ascending(pending) /\ Ascending(tick.done) /\ Ascending(batch)
  BY <1>1 DEF Placed, InLine
<1>4. Sequences(tick.done) = Cut /\ Cut' = {} /\ NextCut' = NextCut
  BY <1>1, <1>2 DEF Cut, NextCut
<1>5. all \in Seq(Windows) /\ Sequences(all) = P \cup Cut /\ Ascending(all)
  BY <1>1, <1>3, <1>4, SequencesConcat DEF Line
<1>6. P1 \subseteq P \cup Cut /\ Ascending(pending')
  <2>1. PendingCapacity \in Nat
    BY UsageAssumption
  <2> HIDE DEF all
  <2> QED
    BY <1>2, <1>5, <2>1, NewestFacts
<1>7. Retrying' = Retrying /\ Appending' = Appending /\ Sequences(batch') = Sequences(batch)
  BY <1>2 DEF Retrying, Appending
<1>8. /\ Retrying \subseteq Nat /\ Appending \subseteq Nat /\ Sequences(batch) \subseteq Nat
      /\ P \subseteq Nat /\ Cut \subseteq Nat /\ Waiting \subseteq Nat
  BY Stations
<1>9. Waiting' = Appending \cup Sequences(batch) \cup P1
      /\ Waiting = Appending \cup Sequences(batch) \cup P \cup Cut
  BY <1>4, <1>7 DEF Waiting
<1> HIDE DEF all, P, P1
<1>10. InLine'
  <2>1. Line(Retrying, Appending, Sequences(batch), P1, {})
    BY <1>3, <1>6 DEF Line, Below
  <2>2. Ascending(batch')
    BY <1>2, <1>3
  <2> QED
    BY <1>2, <1>4, <1>6, <1>7, <2>1, <2>2 DEF InLine, P1
<1>11. Spooled'
  BY <1>2 DEF Placed, Spooled
<1>12. Behind(delivered', Retrying', Waiting')
  <2>1. Behind(delivered, Retrying, Waiting) /\ delivered \in Seq(Windows)
    BY DEF Placed, Types, ExportTypes
  <2>2. Moves(delivered, Retrying, Waiting, Retrying, Waiting')
    BY <1>6, <1>8, <1>9, <2>1 DEF Moves
  <2> QED
    BY <1>2, <1>7, <2>2, BehindMoves
<1>13. Complete'
  <2>1. (Retrying \cup Waiting) \cap removed = {}
        /\ Sequences(finalized) = Retrying \cup Waiting \cup removed \cup Sequences(delivered)
    BY HeldStations DEF Placed, Complete
  <2>2. /\ Held' = Retrying \cup Waiting'
        /\ Sequences(finalized') = Sequences(finalized)
        /\ Sequences(delivered') = Sequences(delivered)
    BY <1>2, <1>7, HeldStations
  <2>3. /\ Below(Retrying, P) /\ Below(Retrying, Cut) /\ Below(Appending, P)
        /\ Below(Appending, Cut) /\ Below(Sequences(batch), P) /\ Below(Sequences(batch), Cut)
    BY <1>3 DEF Line
  <2>4. /\ Retrying \cap P = {} /\ Retrying \cap Cut = {} /\ Appending \cap P = {}
        /\ Appending \cap Cut = {} /\ Sequences(batch) \cap P = {}
        /\ Sequences(batch) \cap Cut = {}
    BY <1>8, <2>3, Apart
  <2>5. removed' = removed \cup ((P \cup Cut) \ P1)
    BY <1>2, <1>5
  <2>6. (Retrying \cup Waiting') \cap removed' = {}
    BY <1>6, <1>9, <2>1, <2>4, <2>5
  <2>7. Retrying \cup Waiting' \cup removed' = Retrying \cup Waiting \cup removed
    BY <1>6, <1>9, <2>5
  <2> QED
    BY <2>1, <2>2, <2>6, <2>7 DEF Complete
<1>14. Numbered'
  BY <1>2, <1>4 DEF Placed, Numbered
<1> QED
  BY <1>10, <1>11, <1>12, <1>13, <1>14 DEF Placed

-----------------------------------------------------------------------------
(* What the steps of the exporter keep, and what is left to show of them.  *)
LEMMA ExportPlaced ==
  ASSUME Placed, Exports, Spooled',
         Line(Retrying', Appending', Sequences(batch'), Sequences(pending'), Cut),
         Ascending(batch'), Ascending(pending'),
         Behind(delivered', Retrying', Waiting'),
         (Retrying' \cup Waiting') \cap removed' = {},
         Retrying \cup Waiting \cup removed \cup Sequences(delivered)
           = Retrying' \cup Waiting' \cup removed' \cup Sequences(delivered')
  PROVE  Placed'
<1>1. UNCHANGED <<next_sequence, tick, finalized>>
  BY ExportKeeps DEF history
<1>2. Cut' = Cut /\ NextCut' = NextCut /\ Sequences(finalized') = Sequences(finalized)
  BY <1>1 DEF Cut, NextCut
<1>3. InLine'
  BY <1>1, <1>2 DEF Placed, InLine
<1>4. Complete'
  BY <1>2, HeldStations DEF Placed, Complete
<1>5. Numbered'
  BY <1>1, <1>2 DEF Placed, Numbered
<1> QED
  BY <1>3, <1>4, <1>5 DEF Placed

(* What they start from.                                                   *)
LEMMA ExportStart ==
  ASSUME Types, Placed, Exports
  PROVE  /\ Line(Retrying, Appending, Sequences(batch), Sequences(pending), Cut)
         /\ Ascending(batch) /\ Ascending(pending) /\ Spooled
         /\ Behind(delivered, Retrying, Waiting) /\ delivered \in Seq(Windows)
         /\ (Retrying \cup Waiting) \cap removed = {}
         /\ Retrying \cup Waiting \subseteq Nat /\ Appending \subseteq Nat
         /\ Sequences(batch) \subseteq Nat /\ Sequences(pending) \subseteq Nat
         /\ Cut \subseteq Nat /\ Cut' = Cut
         /\ batch \in Seq(Windows) /\ pending \in Seq(Windows) /\ spool \in Seq(Windows)
<1>1. Cut' = Cut
  BY ExportKeeps DEF Cut
<1>2. (Retrying \cup Waiting) \cap removed = {}
  BY HeldStations DEF Placed, Complete
<1>3. delivered \in Seq(Windows) /\ batch \in Seq(Windows) /\ pending \in Seq(Windows)
      /\ spool \in Seq(Windows)
  BY DEF Types, AggregatorTypes, ExportTypes
<1> QED
  BY <1>1, <1>2, <1>3, Stations DEF Placed, InLine

(* The pending windows are drained, and the first of them is taken up.     *)
LEMMA DrainPlaced ==
  ASSUME Types, Placed, DrainPending \/ AppendStart
  PROVE  Placed'
<1>0. Exports
  BY DEF Exports
<1>1. UNCHANGED <<spool, dropped_windows, delivered, removed>> /\ append = Nothing
  BY EndsKept DEF DrainPending, AppendStart
<1>2. Retrying' = Retrying
  <2>1. CASE DrainPending
    BY <2>1 DEF DrainPending, Retrying
  <2>2. CASE AppendStart
    <3>1. append'.retry = Nothing
      BY <2>2 DEF AppendStart
    <3> QED
      BY <1>1, <3>1 DEF Retrying
  <2> QED
    BY <2>1, <2>2
<1>3. /\ Appending' \cup Sequences(batch') \cup Sequences(pending')
           = Appending \cup Sequences(batch) \cup Sequences(pending)
      /\ Line(Retrying, Appending', Sequences(batch'), Sequences(pending'), Cut)
      /\ Ascending(batch') /\ Ascending(pending')
  <2>1. CASE DrainPending
    <3>1. batch = <<>> /\ batch' = pending /\ pending' = <<>> /\ append' = append
      BY <2>1 DEF DrainPending
    <3>2. Appending' = Appending /\ Sequences(batch) = {} /\ Sequences(pending') = {}
          /\ Ascending(pending')
      BY <3>1, SequencesOfNone DEF Appending
    <3>3. Appending = {}
      BY <1>1 DEF Appending
    <3>4. Line(Retrying, Appending', Sequences(batch'), Sequences(pending'), Cut)
      BY <1>0, <3>1, <3>2, <3>3, ExportStart DEF Line, Below
    <3> QED
      BY <1>0, <3>1, <3>2, <3>4, ExportStart
  <2>2. CASE AppendStart
    <3>1. /\ append' = [window |-> Head(batch), retry |-> Nothing, draining |-> TRUE]
          /\ batch' = Tail(batch) /\ batch # <<>> /\ pending' = pending
      BY <2>2 DEF AppendStart, aggregator
    <3>2. batch \in Seq(Windows)
      BY DEF Types, ExportTypes
    <3>3. /\ Head(batch) \in Windows
          /\ Sequences(batch) = {Head(batch).sequence} \cup Sequences(batch')
          /\ Ascending(batch') /\ Below({Head(batch).sequence}, Sequences(batch'))
      BY <1>0, <3>1, <3>2, SequencesHead, ExportStart
    <3>4. append' # Nothing
      <4>1. append' \in Appends
        BY <3>1, <3>3 DEF Appends
      <4> QED
        BY <4>1, UsageAssumption
    <3>5. Appending' = {Head(batch).sequence} /\ Appending = {}
      BY <1>1, <3>1, <3>4 DEF Appending
    <3>6. Line(Retrying, Appending', Sequences(batch'), Sequences(pending'), Cut)
      BY <1>0, <3>1, <3>3, <3>5, ExportStart DEF Line, Below
    <3>7. Ascending(pending')
      BY <1>0, <3>1, ExportStart
    <3> QED
      BY <3>1, <3>3, <3>5, <3>6, <3>7
  <2> QED
    BY <2>1, <2>2
<1>4. Waiting' = Waiting
  BY <1>0, <1>3, ExportStart DEF Waiting
<1>5. Spooled'
  <2>1. Spooled
    BY DEF Placed
  <2>2. CASE DrainPending
    BY <2>1, <2>2 DEF Spooled, DrainPending
  <2>3. CASE AppendStart
    BY <2>1, <2>3 DEF Spooled, AppendStart
  <2> QED
    BY <2>2, <2>3
<1>6. Behind(delivered', Retrying', Waiting')
  BY <1>1, <1>2, <1>4 DEF Placed
<1>7. (Retrying' \cup Waiting') \cap removed' = {}
  BY <1>0, <1>1, <1>2, <1>4, ExportStart
<1>8. Retrying \cup Waiting \cup removed \cup Sequences(delivered)
        = Retrying' \cup Waiting' \cup removed' \cup Sequences(delivered')
  BY <1>1, <1>2, <1>4
<1>9. Line(Retrying', Appending', Sequences(batch'), Sequences(pending'), Cut)
  BY <1>2, <1>3
<1> QED
  BY <1>0, <1>3, <1>5, <1>6, <1>7, <1>8, <1>9, ExportPlaced

(* append takes up what is in the spool, which is one window at most.      *)
LEMMA PopPlaced ==
  ASSUME Types, Placed, PopSpool
  PROVE  Placed'
<1>0. Exports
  BY DEF Exports
<1>1. /\ UNCHANGED <<batch, pending, dropped_windows, delivered, removed>>
      /\ append \in Appends /\ append # Nothing /\ append.draining /\ append.retry = Nothing
  BY AppendFields, EndsKept DEF PopSpool, aggregator
<1>2. /\ append' # Nothing /\ append'.window = append.window /\ append'.draining \in BOOLEAN
      /\ Retrying' = Retrying
      /\ spool' = <<>> /\ (append'.retry # Nothing => append'.draining)
  <2>1. CASE spool = <<>>
    <3>1. append' = [append EXCEPT !.draining = FALSE] /\ spool' = spool
      BY <2>1 DEF PopSpool
    <3>2. append' \in Appends /\ append'.window = append.window /\ append'.retry = Nothing
          /\ append'.draining \in BOOLEAN
      BY <1>1, <3>1 DEF Appends
    <3>3. append' # Nothing
      BY <3>2, UsageAssumption
    <3> QED
      BY <1>1, <2>1, <3>1, <3>2, <3>3 DEF Retrying
  <2>2. CASE spool # <<>>
    <3>1. append' = [append EXCEPT !.retry = Head(spool)] /\ spool' = Tail(spool)
      BY <2>2 DEF PopSpool
    <3>2. spool \in Seq(Windows) /\ Len(spool) <= 1
      BY <1>0, ExportStart DEF Spooled
    <3>3. Head(spool) \in Windows
          /\ Sequences(spool) = {Head(spool).sequence} \cup Sequences(Tail(spool))
      BY <2>2, <3>2, SequencesHead
    <3>4. Tail(spool) = <<>>
      <4>1. Len(spool) \in Nat /\ Len(spool) # 0
        BY <2>2, <3>2, LenProperties, EmptySeq
      <4>2. Tail(spool) \in Seq(Windows) /\ Len(Tail(spool)) = Len(spool) - 1
        BY <2>2, <3>2, HeadTailProperties
      <4>3. Len(Tail(spool)) = 0
        BY <3>2, <4>1, <4>2
      <4> QED
        BY <4>2, <4>3, EmptySeq
    <3>5. append' \in Appends /\ append'.window = append.window
          /\ append'.retry = Head(spool) /\ append'.draining = append.draining
      BY <1>1, <3>1, <3>3 DEF Appends
    <3>6. append' # Nothing /\ Head(spool) # Nothing
      BY <3>3, <3>5, UsageAssumption
    <3>7. Retrying = Sequences(spool) /\ Retrying' = Sequences(<<>>) \cup {Head(spool).sequence}
      BY <1>1, <3>1, <3>4, <3>5, <3>6 DEF Retrying
    <3> QED
      BY <1>1, <3>1, <3>3, <3>4, <3>5, <3>6, <3>7, SequencesOfNone
  <2> QED
    BY <2>1, <2>2
<1>3. Appending' = Appending
  BY <1>1, <1>2 DEF Appending
<1>4. Waiting' = Waiting
  BY <1>0, <1>1, <1>3, ExportStart DEF Waiting
<1>5. Spooled'
  BY <1>1, <1>2 DEF Placed, Spooled
<1>6. Line(Retrying', Appending', Sequences(batch'), Sequences(pending'), Cut)
      /\ Ascending(batch') /\ Ascending(pending')
  BY <1>0, <1>1, <1>2, <1>3, ExportStart
<1>7. Behind(delivered', Retrying', Waiting') /\ (Retrying' \cup Waiting') \cap removed' = {}
  BY <1>0, <1>1, <1>2, <1>4, ExportStart
<1>8. Retrying \cup Waiting \cup removed \cup Sequences(delivered)
        = Retrying' \cup Waiting' \cup removed' \cup Sequences(delivered')
  BY <1>1, <1>2, <1>4
<1> QED
  BY <1>0, <1>5, <1>6, <1>7, <1>8, ExportPlaced

(* The call of append ends, or goes on with its own window.                *)
LEMMA RetryStart ==
  ASSUME Types, Placed, append # Nothing, append.retry # Nothing
  PROVE  /\ append.retry \in Windows /\ append.window \in Windows /\ append \in Appends
         /\ spool = <<>> /\ append.draining
         /\ Retrying = {append.retry.sequence} /\ Appending = {append.window.sequence}
         /\ append.retry.sequence \notin Waiting
<1>1. append.retry \in Windows /\ append.window \in Windows /\ append \in Appends
  BY AppendFields
<1>2. spool = <<>> /\ append.draining
  BY DEF Placed, Spooled
<1>3. Retrying = {append.retry.sequence} /\ Appending = {append.window.sequence}
  BY <1>2, SequencesOfNone DEF Retrying, Appending
<1>4. Below(Retrying, Waiting)
  BY DEF Placed, InLine, Line, Below, Waiting
<1>5. Retrying \cap Waiting = {}
  BY <1>4, Stations, Apart
<1> QED
  BY <1>1, <1>2, <1>3, <1>5

(* The sink answers to a window out of the spool: stored, or refused.      *)
LEMMA RetryPlaced ==
  ASSUME Types, Placed, RetryStored \/ RetryRefused
  PROVE  Placed'
<1> DEFINE x == append.retry
<1>0. Exports
  BY DEF Exports
<1>1. /\ append # Nothing /\ x # Nothing /\ append' = [append EXCEPT !.retry = Nothing]
      /\ UNCHANGED <<batch, pending, spool, dropped_windows>>
  BY DEF RetryStored, RetryRefused, aggregator
<1>2. /\ x \in Windows /\ append \in Appends /\ spool = <<>> /\ append.draining
      /\ Retrying = {x.sequence} /\ x.sequence \notin Waiting
  BY <1>1, RetryStart
<1>3. /\ append' # Nothing /\ append'.window = append.window /\ append'.retry = Nothing
  <2>1. append' \in Appends /\ append'.window = append.window /\ append'.retry = Nothing
    BY <1>1, <1>2 DEF Appends
  <2> QED
    BY <2>1, UsageAssumption
<1>4. Retrying' = {} /\ Appending' = Appending
  BY <1>1, <1>2, <1>3, SequencesOfNone DEF Retrying, Appending
<1>5. Waiting' = Waiting
  BY <1>0, <1>1, <1>4, ExportStart DEF Waiting
<1>6. Spooled'
  BY <1>1, <1>2, <1>3 DEF Placed, Spooled
<1>7. Line(Retrying', Appending', Sequences(batch'), Sequences(pending'), Cut)
      /\ Ascending(batch') /\ Ascending(pending')
  BY <1>0, <1>1, <1>4, ExportStart DEF Line, Below
<1>8. Delivers(delivered, Retrying, Waiting, x, {}, Waiting)
  <2>1. Below({x.sequence}, Waiting)
    BY <1>0, <1>2, ExportStart DEF Line, Below, Waiting
  <2> QED
    BY <1>0, <1>2, <2>1, ExportStart, Stations DEF Delivers, Below
<1>9. Moves(delivered, Retrying, Waiting, {}, Waiting)
  BY <1>0, ExportStart DEF Moves
<1>10. delivered' \in {delivered, Append(delivered, x)}
  BY DEF RetryStored, RetryRefused, StoredOrNot
<1>11. Behind(delivered', Retrying', Waiting')
  BY <1>4, <1>5, <1>8, <1>9, <1>10, BehindAppend, BehindMoves
<1>12. Sequences(Append(delivered, x)) = Sequences(delivered) \cup {x.sequence}
  BY <1>0, <1>2, ExportStart, SequencesAppend
<1>13. CASE RetryStored
  <2>1. delivered' = Append(delivered, x) /\ removed' = removed
    BY <1>13, EndsKept DEF RetryStored
  <2>2. (Retrying' \cup Waiting') \cap removed' = {}
    BY <1>0, <1>4, <1>5, <2>1, ExportStart
  <2>3. Retrying \cup Waiting \cup removed \cup Sequences(delivered)
          = Retrying' \cup Waiting' \cup removed' \cup Sequences(delivered')
    BY <1>2, <1>4, <1>5, <1>12, <2>1
  <2> QED
    BY <1>0, <1>6, <1>7, <1>11, <2>2, <2>3, ExportPlaced
<1>14. CASE RetryRefused
  <2>1. removed' = removed \cup {x.sequence}
    BY <1>14 DEF RetryRefused, removed
  <2>2. (Retrying' \cup Waiting') \cap removed' = {}
    BY <1>0, <1>2, <1>4, <1>5, <2>1, ExportStart
  <2>3. Retrying \cup Waiting \cup removed \cup Sequences(delivered)
          = Retrying' \cup Waiting' \cup removed' \cup Sequences(delivered')
    BY <1>2, <1>4, <1>5, <1>10, <1>12, <2>1
  <2> QED
    BY <1>0, <1>6, <1>7, <1>11, <2>2, <2>3, ExportPlaced
<1> QED
  BY <1>13, <1>14

(* What was tried again is given up, the new window waits in the spool.    *)
LEMMA RetryFailsPlaced ==
  ASSUME Types, Placed, RetryFails
  PROVE  Placed'
<1> DEFINE x == append.retry
           y == append.window
<1>0. Exports
  BY DEF Exports
<1>1. /\ append # Nothing /\ x # Nothing /\ append' = Nothing /\ PushToSpool(y)
      /\ UNCHANGED <<batch, pending, refused>>
      /\ delivered' \in {delivered, Append(delivered, x)}
      /\ abandoned' = abandoned \cup {x.sequence}
  BY DEF RetryFails, StoredOrNot, aggregator
<1>2. /\ x \in Windows /\ y \in Windows /\ spool = <<>>
      /\ Retrying = {x.sequence} /\ Appending = {y.sequence} /\ x.sequence \notin Waiting
  BY <1>1, RetryStart
<1>3. /\ spool' = <<y>> /\ Sequences(spool') = {y.sequence}
      /\ SpoolCapacity > 0 => dropped_windows' = dropped_windows
      /\ removed' = removed \cup {x.sequence}
  <2>1. /\ spool' = <<y>> /\ Sequences(spool') = {y.sequence}
        /\ SpoolCapacity > 0 => dropped_windows' = dropped_windows
        /\ overrun' = overrun
    BY <1>1, <1>2, PushToSpoolFacts
  <2> QED
    BY <1>1, <2>1 DEF removed
<1>4. Retrying' = {y.sequence} /\ Appending' = {}
  BY <1>1, <1>3 DEF Retrying, Appending
<1>5. Waiting = Waiting' \cup {y.sequence}
  BY <1>0, <1>1, <1>2, <1>4, ExportStart DEF Waiting
<1> HIDE DEF x, y
<1>6. Spooled'
  <2>1. Len(spool') <= 1
    BY <1>3
  <2> QED
    BY <1>1, <1>3, <2>1 DEF Placed, Spooled
<1>7. Line(Retrying', Appending', Sequences(batch'), Sequences(pending'), Cut)
      /\ Ascending(batch') /\ Ascending(pending')
  BY <1>0, <1>1, <1>2, <1>4, ExportStart DEF Line, Below
<1>8. Behind(delivered', Retrying', Waiting')
  <2>1. Moves(delivered, Retrying, Waiting, Retrying', Waiting')
    BY <1>0, <1>4, <1>5, ExportStart DEF Moves
  <2>2. Delivers(delivered, Retrying, Waiting, x, Retrying', Waiting')
    <3>1. Below({x.sequence}, Waiting)
      BY <1>0, <1>2, ExportStart DEF Line, Below, Waiting
    <3>2. Below({x.sequence}, Waiting') /\ Below({x.sequence}, Retrying')
          /\ Waiting' \subseteq Waiting /\ Retrying' \subseteq Waiting
      BY <1>4, <1>5, <3>1 DEF Below
    <3>3. x.sequence \in Retrying /\ x \in Windows
      BY <1>2
    <3> QED
      BY <1>0, <3>2, <3>3, ExportStart DEF Delivers
  <2> QED
    BY <1>1, <2>1, <2>2, BehindMoves, BehindAppend
<1>9. (Retrying' \cup Waiting') \cap removed' = {}
  BY <1>0, <1>2, <1>3, <1>4, <1>5, ExportStart
<1>10. Retrying \cup Waiting \cup removed \cup Sequences(delivered)
         = Retrying' \cup Waiting' \cup removed' \cup Sequences(delivered')
  <2>1. Sequences(Append(delivered, x)) = Sequences(delivered) \cup {x.sequence}
    BY <1>0, <1>2, ExportStart, SequencesAppend
  <2> QED
    BY <1>1, <1>2, <1>3, <1>4, <1>5, <2>1
<1> QED
  BY <1>0, <1>6, <1>7, <1>8, <1>9, <1>10, ExportPlaced

(* The answer to the new window, which nothing is before.                  *)
LEMMA NewPlaced ==
  ASSUME Types, Placed, NewStored \/ NewFails \/ NewRefused
  PROVE  Placed'
<1> DEFINE y == append.window
           stored == delivered' = Append(delivered, y)
<1>0. Exports
  BY DEF Exports
<1>1. /\ append # Nothing /\ ~append.draining /\ append' = Nothing
      /\ UNCHANGED <<batch, pending>> /\ (stored \/ delivered' = delivered)
  BY DEF NewStored, NewFails, NewRefused, StoredOrNot, Trying, aggregator
<1>2. /\ y \in Windows /\ spool = <<>> /\ append.retry = Nothing
      /\ Retrying = {} /\ Appending = {y.sequence}
  <2>1. y \in Windows
    BY <1>1, AppendFields
  <2>2. spool = <<>> /\ append.retry = Nothing
    BY <1>1 DEF Placed, Spooled
  <2> QED
    BY <1>1, <2>1, <2>2, SequencesOfNone DEF Retrying, Appending
<1>3. Appending' = {} /\ Waiting = Waiting' \cup {y.sequence} /\ y.sequence \notin Waiting'
  <2>1. Appending' = {}
    BY <1>1 DEF Appending
  <2>2. Waiting' = Sequences(batch) \cup Sequences(pending) \cup Cut
    BY <1>0, <1>1, <2>1, ExportStart DEF Waiting
  <2>3. Below(Appending, Waiting') /\ Waiting' \subseteq Nat /\ Appending \subseteq Nat
    BY <1>0, <2>2, ExportStart DEF Line, Below
  <2>4. Appending \cap Waiting' = {}
    BY <2>3, Apart
  <2> QED
    BY <1>2, <2>1, <2>2, <2>4 DEF Waiting
<1>4. /\ \/ Retrying' = {} /\ spool' = spool
         \/ Retrying' = {y.sequence} /\ Len(spool') <= 1 /\ removed' = removed
      /\ SpoolCapacity > 0 => dropped_windows' = dropped_windows
  <2>1. CASE NewStored \/ NewRefused
    <3>1. spool' = spool /\ dropped_windows' = dropped_windows
      BY <2>1 DEF NewStored, NewRefused
    <3> QED
      BY <1>1, <1>2, <3>1, SequencesOfNone DEF Retrying
  <2>2. CASE NewFails
    <3>1. PushToSpool(y) /\ UNCHANGED <<refused, abandoned>>
      BY <2>2 DEF NewFails
    <3>2. /\ spool' = <<y>> /\ Sequences(spool') = {y.sequence}
          /\ SpoolCapacity > 0 => dropped_windows' = dropped_windows
          /\ removed' = removed
      BY <1>2, <3>1, PushToSpoolFacts DEF removed
    <3>3. Retrying' = {y.sequence} /\ Len(spool') <= 1
      BY <1>1, <3>2 DEF Retrying
    <3> QED
      BY <3>2, <3>3
  <2> QED
    BY <2>1, <2>2
<1>5. /\ \/ removed' = removed
         \/ removed' = removed \cup {y.sequence} /\ Retrying' = {}
      /\ \/ Retrying' = {y.sequence}
         \/ stored /\ Retrying' = {}
         \/ removed' = removed \cup {y.sequence} /\ Retrying' = {}
  <2>1. CASE NewFails
    <3>1. PushToSpool(y) /\ UNCHANGED <<refused, abandoned>>
      BY <2>1 DEF NewFails
    <3>2. Sequences(spool') = {y.sequence} /\ removed' = removed
      BY <1>2, <3>1, PushToSpoolFacts DEF removed
    <3> QED
      BY <1>1, <3>2 DEF Retrying
  <2>2. CASE NewStored
    <3>1. stored /\ removed' = removed /\ spool' = spool
      BY <2>2, EndsKept DEF NewStored
    <3> QED
      BY <1>1, <1>2, <3>1, SequencesOfNone DEF Retrying
  <2>3. CASE NewRefused
    <3>1. removed' = removed \cup {y.sequence} /\ spool' = spool
      BY <2>3 DEF NewRefused, removed
    <3> QED
      BY <1>1, <1>2, <3>1, SequencesOfNone DEF Retrying
  <2> QED
    BY <2>1, <2>2, <2>3
<1>6. /\ Sequences(delivered') \subseteq Sequences(delivered) \cup {y.sequence}
      /\ Sequences(delivered) \subseteq Sequences(delivered')
      /\ stored => y.sequence \in Sequences(delivered')
  <2>1. stored => Sequences(delivered') = Sequences(delivered) \cup {y.sequence}
    BY <1>0, <1>2, ExportStart, SequencesAppend
  <2> QED
    BY <1>1, <2>1
<1>7. Behind(delivered', Retrying', Waiting')
  <2>1. Retrying' \subseteq {y.sequence}
    BY <1>4
  <2>2. CASE stored
    <3>1. Below({y.sequence}, Waiting')
      <4>1. Waiting' = Sequences(batch) \cup Sequences(pending) \cup Cut
        BY <1>0, <1>1, <1>3, ExportStart DEF Waiting
      <4> QED
        BY <1>0, <1>2, <4>1, ExportStart DEF Line, Below
    <3>2. y.sequence \in Waiting /\ Waiting' \subseteq Waiting
      BY <1>3
    <3>3. Delivers(delivered, Retrying, Waiting, y, Retrying', Waiting')
      BY <1>0, <1>2, <2>1, <3>1, <3>2, ExportStart DEF Delivers
    <3> QED
      BY <2>2, <3>3, BehindAppend
  <2>3. CASE delivered' = delivered
    <3>1. Moves(delivered, Retrying, Waiting, Retrying', Waiting')
      BY <1>0, <1>3, <2>1, ExportStart DEF Moves
    <3> QED
      BY <2>3, <3>1, BehindMoves
  <2> QED
    BY <1>1, <2>2, <2>3
<1>8. Spooled'
  <2>1. Len(spool') <= 1
    BY <1>0, <1>4, ExportStart DEF Spooled
  <2> QED
    BY <1>1, <1>4, <2>1 DEF Placed, Spooled
<1>9. Line(Retrying', Appending', Sequences(batch'), Sequences(pending'), Cut)
      /\ Ascending(batch') /\ Ascending(pending')
  <2>1. Retrying' \subseteq Appending
    BY <1>2, <1>4
  <2> QED
    BY <1>0, <1>1, <1>3, <2>1, ExportStart DEF Line, Below
<1> HIDE DEF y, stored
<1>10. (Retrying' \cup Waiting') \cap removed' = {}
  <2>1. (Retrying \cup Waiting) \cap removed = {}
    BY <1>0, ExportStart
  <2> QED
    BY <1>3, <1>4, <1>5, <2>1
<1>11. Retrying \cup Waiting \cup removed \cup Sequences(delivered)
         = Retrying' \cup Waiting' \cup removed' \cup Sequences(delivered')
  BY <1>2, <1>3, <1>5, <1>6
<1> QED
  BY <1>0, <1>7, <1>8, <1>9, <1>10, <1>11, ExportPlaced

(* All steps.                                                              *)
LEMMA StepPlaced ==
  ASSUME Types, Placed, [Next]_vars
  PROVE  Placed'
<1>1. CASE Record \/ StartConnection \/ (\E h \in DOMAIN active : EndConnection(h)) \/ Elapse
           \/ UNCHANGED vars
  <2>1. UNCHANGED aggregator /\ UNCHANGED export /\ UNCHANGED <<finalized, removed>>
    BY <1>1, EndsKept DEF Record, StartConnection, EndConnection, Elapse, vars, history
  <2> QED
    BY <2>1, PlacedKept
<1>2. CASE TickStart \/ SnapshotCounters \/ SnapshotConnections \/ PushPending
  BY <1>2, TickPlaced, CutPlaced, PushPlaced
<1>3. CASE DrainPending \/ AppendStart \/ PopSpool
  BY <1>3, DrainPlaced, PopPlaced
<1>4. CASE RetryStored \/ RetryRefused \/ RetryFails
  BY <1>4, RetryPlaced, RetryFailsPlaced
<1>5. CASE NewStored \/ NewFails \/ NewRefused
  BY <1>5, NewPlaced
<1> QED
  BY <1>1, <1>2, <1>3, <1>4, <1>5 DEF Next

-----------------------------------------------------------------------------
(* Nothing is charged, cut or delivered at the start.                      *)
LEMMA InitIInv ==
  ASSUME Init
  PROVE  IInv
<1>1. Types
  <2>1. DOMAIN active = {} /\ active \in [{} -> Nat] /\ next_handle = 1
    BY DEF Init
  <2>2. CounterTypes
    BY <2>1 DEF Init, CounterTypes
  <2>3. AggregatorTypes /\ ExportTypes /\ HistoryTypes
    BY DEF Init, AggregatorTypes, ExportTypes, HistoryTypes, removed
  <2> QED
    BY <2>2, <2>3 DEF Types
<1>2. \A s : s = <<>> => DOMAIN EventsOf(s) = {} /\ DOMAIN SecondsOf(s) = {}
  BY DEF EventsOf, SecondsOf
<1>3. Total(EventsOf(finalized)) = 0 /\ Total(SecondsOf(finalized)) = 0
  BY <1>2, TotalOfNone DEF Init
<1>4. Counted
  BY <1>3 DEF Init, Counted, EventsConserved, EventsOf
<1>5. Clocked
  BY DEF Init, Clocked
<1>6. Tallied
  <2>1. DOMAIN Accrued = {} /\ DOMAIN Truncations = {}
    BY DEF Init, Accrued, Truncations
  <2>2. Total(Accrued) = 0 /\ Total(Truncations) = 0
    BY <2>1, TotalOfNone
  <2>3. seconds = 0 /\ early = 0 /\ lived = 0 /\ next_handle = 1
    BY DEF Init
  <2>4. Charged = Rate * (0 + 0) + 0 - 0
    BY <1>3, <2>2, <2>3 DEF Charged, SecondsOf
  <2>5. Rate \in Nat /\ Rate - 1 \in Int
    BY UsageAssumption
  <2>6. Charged = 0
    BY <2>4, <2>5
  <2>7. (Rate - 1) * (2 * (1 - 1) - 0) = 0
    BY <2>5
  <2> QED
    BY <2>2, <2>3, <2>6, <2>7 DEF Tallied
<1>7. Placed
  <2>1. /\ Retrying = {} /\ Appending = {} /\ Sequences(batch) = {} /\ Sequences(pending) = {}
        /\ Cut = {} /\ Waiting = {} /\ Held = {} /\ NextCut = 1
        /\ Sequences(finalized) = {} /\ Sequences(delivered) = {}
    BY SequencesOfNone, HeldStations DEF Init, Retrying, Appending, Cut, Waiting, NextCut
  <2>2. InLine
    BY <2>1, SequencesOfNone DEF Init, InLine, Line, Below
  <2>3. Spooled
    BY DEF Init, Spooled
  <2>4. Behind(delivered, Retrying, Waiting)
    BY <2>1 DEF Init, Behind
  <2>5. Complete /\ Numbered
    BY <2>1 DEF Init, Complete, Numbered, removed
  <2> QED
    BY <2>2, <2>3, <2>4, <2>5 DEF Placed
<1> QED
  BY <1>1, <1>4, <1>5, <1>6, <1>7 DEF IInv, Timed

(* The invariant holds in every reachable state of the aggregator, the     *)
(* counters and the exporter.                                              *)
THEOREM UsageInvariant == Spec => []IInv
<1>1. Init => IInv
  BY InitIInv
<1>2. IInv /\ [Next]_vars => IInv'
  BY StepTyped, StepCounted, StepClocked, StepTallied, StepPlaced DEF IInv, Timed
<1> QED
  BY <1>1, <1>2, PTL DEF Spec

(* No increment is lost or counted twice, whichever threads increment      *)
(* between which of the aggregator's reads.                                *)
THEOREM EventsConservedTheorem == Spec => []EventsConserved
<1>1. IInv => EventsConserved
  BY DEF IInv, Counted
<1> QED
  BY <1>1, UsageInvariant, PTL

(* What the windows and the counter charge connections, without the time   *)
(* charged to those that started between a window's end and its snapshot,  *)
(* is what connections ran up to two truncations each.                     *)
THEOREM SecondsAccountedTheorem == Spec => []SecondsAccounted
<1>1. IInv => SecondsAccounted
  <2> SUFFICES ASSUME IInv PROVE SecondsAccounted
    OBVIOUS
  <2> DEFINE t == Total(Truncations)
             n == next_handle - 1
             k == Rate - 1
  <2>1. /\ t \in Nat /\ n \in Nat /\ k \in Nat /\ Charged \in Int /\ lived \in Nat
    <3>1. Types /\ Clocked
      BY DEF IInv, Timed
    <3>2. next_handle \in Nat \ {0} /\ Rate \in Nat \ {0} /\ t \in Nat
          /\ Charged \in Int /\ lived \in Nat
      BY <3>1, TallyTyped
    <3> QED
      BY <3>2
  <2>2. Charged <= lived /\ lived - Charged <= k * (2 * n - t)
    BY DEF IInv, Timed, Tallied
  <2> HIDE DEF t, n, k
  <2>3. k * (2 * n - t) <= 2 * k * n
    <3>1. \A i, j \in Int : i <= j => k * i <= k * j
      BY <2>1
    <3>2. 2 * n - t \in Int /\ 2 * n \in Int /\ 2 * n - t <= 2 * n
      BY <2>1
    <3>3. k * (2 * n - t) <= k * (2 * n)
      BY <3>1, <3>2
    <3>4. k * (2 * n) = 2 * k * n
      BY <2>1
    <3> QED
      BY <3>3, <3>4
  <2>4. k * (2 * n - t) \in Int /\ 2 * k * n \in Int
    BY <2>1
  <2>5. lived - Charged <= 2 * k * n
    BY <2>1, <2>2, <2>3, <2>4
  <2> QED
    BY <2>2, <2>5 DEF SecondsAccounted, n, k
<1> QED
  BY <1>1, UsageInvariant, PTL

(* The sink sees windows in the order of their numbers, a second time only *)
(* after a failure.  Each window is held, or was delivered, or overran a   *)
(* bounded queue, or was refused for good, or was abandoned when its retry *)
(* failed; the last are counted nowhere, as the spool never holds two      *)
(* windows and one with room for any never drops one.                      *)
THEOREM ExportedInOrderTheorem == Spec => []ExportedInOrder
<1>1. IInv => ExportedInOrder
  <2> SUFFICES ASSUME IInv PROVE ExportedInOrder
    OBVIOUS
  <2>1. Types /\ Placed
    BY DEF IInv
  <2>2. ASSUME NEW i \in DOMAIN spool, NEW j \in DOMAIN InExport
        PROVE  spool[i].sequence < InExport[j].sequence
    <3>1. spool[i].sequence \in Retrying
      BY DEF Retrying, Sequences
    <3>2. InExport[j].sequence \in Sequences(batch) \cup Appending
      <4>1. batch \in Seq(Windows)
        BY <2>1 DEF Types, ExportTypes
      <4>2. CASE append = Nothing
        <5>1. InExport = batch \o <<>>
          BY <4>2 DEF InExport
        <5>2. InExport = batch
          BY <4>1, <5>1, ConcatEmptySeq
        <5> QED
          BY <5>2 DEF Sequences
      <4>3. CASE append # Nothing
        <5>1. append.window \in Windows
          BY <2>1, <4>3, AppendFields
        <5>2. InExport = batch \o <<append.window>>
          BY <4>3 DEF InExport
        <5>3. <<append.window>> = Append(<<>>, append.window) /\ <<>> \in Seq(Windows)
          OBVIOUS
        <5>4. <<append.window>> \in Seq(Windows)
              /\ Sequences(<<append.window>>) = {append.window.sequence}
          BY <5>1, <5>3, SequencesAppend, SequencesOfNone
        <5>5. Sequences(InExport) = Sequences(batch) \cup {append.window.sequence}
          BY <4>1, <5>2, <5>4, SequencesConcat
        <5> QED
          BY <4>3, <5>5 DEF Sequences, Appending
      <4> QED
        BY <4>2, <4>3
    <3> QED
      BY <2>1, <3>1, <3>2 DEF Placed, InLine, Line, Below
  <2>3. /\ Len(spool) <= 1 /\ (SpoolCapacity > 0 => dropped_windows = 0)
        /\ Held \cap removed = {}
        /\ Sequences(finalized) = Held \cup removed \cup Sequences(delivered)
    BY <2>1 DEF Placed, Spooled, Complete
  <2>4. /\ \A i, j \in DOMAIN delivered :
             i < j => delivered[i].sequence <= delivered[j].sequence
        /\ \A i \in DOMAIN delivered :
             i > 2 => delivered[i - 2].sequence < delivered[i].sequence
    BY <2>1 DEF Placed, Behind
  <2> QED
    BY <2>2, <2>3, <2>4 DEF ExportedInOrder
<1> QED
  BY <1>1, UsageInvariant, PTL

=============================================================================
