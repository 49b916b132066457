---------------------------- MODULE VecOpsProofs ----------------------------
(***************************************************************************)
(* What VecDeque::retain returns, for every sequence and every set of      *)
(* elements to keep, and how a sum depends on its terms.  The proofs of    *)
(* the components cite these facts.                                        *)
(***************************************************************************)
EXTENDS VecOps, FiniteSetTheorems, WellFoundedInduction, TLAPS

(* A nonempty set of natural numbers has a least element.                  *)
LEMMA LeastNatural ==
  ASSUME NEW T \in SUBSET Nat, T # {}
  PROVE  \E n \in T : \A m \in T : n <= m
<1> DEFINE R == OpToRel(<, Nat)
<1>1. PICK n \in T : \A m \in T : ~ (<<m, n>> \in R)
  <2>1. IsWellFoundedOn(R, Nat)
    BY NatLessThanWellFounded
  <2> HIDE DEF R
  <2> QED
    BY <2>1, WFMin
<1>2. ASSUME NEW m \in T PROVE n <= m
  <2>1. ~ (m < n)
    <3>1. m \in Nat /\ n \in Nat
      OBVIOUS
    <3>2. <<m, n>> \in R <=> m < n
      BY <3>1 DEF OpToRel
    <3> QED
      BY <1>1, <3>2
  <2> QED
    BY <2>1
<1> QED
  BY <1>2

(* The kept positions of s are finitely many, and ranking them numbers     *)
(* them from one up, without gaps and in their order.                      *)
LEMMA RankProperties ==
  ASSUME NEW N \in Nat, NEW P \in SUBSET (1..N)
  PROVE  /\ IsFiniteSet(P)
         /\ Cardinality(P) \in Nat
         /\ Cardinality(P) <= N
         /\ \A i \in P : RankIn(P, i) \in 1..Cardinality(P)
         /\ \A i, j \in P : i < j => RankIn(P, i) < RankIn(P, j)
         /\ \A n \in 1..Cardinality(P) : \E i \in P : RankIn(P, i) = n
<1> DEFINE C == Cardinality(P)
           Upto(i) == {j \in P : j <= i}
<1>1. /\ IsFiniteSet(1..N)
      /\ Cardinality(1..N) = N
  BY FS_Interval
<1>2. IsFiniteSet(P) /\ C <= N
  BY <1>1, FS_Subset
<1>3. C \in Nat
  BY <1>2, FS_CardinalityType
<1>4. ASSUME NEW i \in P
      PROVE  /\ IsFiniteSet(Upto(i))
             /\ Cardinality(Upto(i)) \in 1..C
  <2>1. /\ IsFiniteSet(Upto(i))
        /\ Cardinality(Upto(i)) <= C
    <3>1. Upto(i) \in SUBSET P
      OBVIOUS
    <3>2. QED
      BY <3>1, <1>2, FS_Subset
  <2>2. Cardinality(Upto(i)) \in Nat
    BY <2>1, FS_CardinalityType
  <2>3. Upto(i) # {}
    BY DEF Upto
  <2>4. Cardinality(Upto(i)) # 0
    BY <2>1, <2>3, FS_EmptySet
  <2>5. QED
    BY <2>1, <2>2, <2>4, <1>3
<1>5. ASSUME NEW i \in P, NEW j \in P, i < j
      PROVE  Cardinality(Upto(i)) < Cardinality(Upto(j))
  <2>1. j \notin Upto(i) /\ Upto(i) \cup {j} \in SUBSET Upto(j)
    <3>1. i \in Nat /\ j \in Nat /\ \A k \in P : k \in Nat
      OBVIOUS
    <3>2. ~(j <= i)
      BY <3>1, <1>5
    <3>3. \A k \in P : k <= i => k <= j
      BY <3>1, <1>5
    <3>4. j <= j
      BY <3>1
    <3>5. \A k \in Upto(i) \cup {j} : k \in P /\ k <= j
      BY <3>3, <3>4
    <3>6. Upto(i) \cup {j} \in SUBSET Upto(j)
      BY <3>5
    <3>7. QED
      BY <3>2, <3>6
  <2>2. /\ IsFiniteSet(Upto(i) \cup {j})
        /\ Cardinality(Upto(i) \cup {j}) = Cardinality(Upto(i)) + 1
    BY <1>4, <2>1, FS_AddElement
  <2>3. Cardinality(Upto(i) \cup {j}) <= Cardinality(Upto(j))
    BY <1>4, <2>1, FS_Subset
  <2>4. QED
    BY <2>2, <2>3, <1>4
<1>6. ASSUME NEW n \in 1..C
      PROVE  \E i \in P : Cardinality(Upto(i)) = n
  <2>1. SUFFICES ASSUME \A i \in P : Cardinality(Upto(i)) # n
                 PROVE  FALSE
    OBVIOUS
  <2> DEFINE T == (1..C) \ {n}
             f == [i \in P |-> Cardinality(Upto(i))]
  <2>2. IsFiniteSet(1..C) /\ Cardinality(1..C) = C
    BY <1>3, FS_Interval
  <2>3. IsFiniteSet(T) /\ Cardinality(T) = C - 1
    BY <2>2, FS_RemoveElement
  <2>4. f \in [P -> T]
    BY <1>4, <2>1
  <2>5. Cardinality(T) < Cardinality(P)
    BY <2>3, <1>3
  <2>6. \E x, y \in P : x # y /\ f[x] = f[y]
    <3> HIDE DEF f, T, Upto
    <3>1. QED
      BY <1>2, <2>3, <2>4, <2>5, FS_PigeonHole
  <2>7. PICK x \in P, y \in P : x # y /\ f[x] = f[y]
    BY <2>6
  <2>8. x < y \/ y < x
    BY <2>7
  <2>9. Cardinality(Upto(x)) \in Nat /\ Cardinality(Upto(y)) \in Nat
    BY <1>4
  <2>10. Cardinality(Upto(x)) = Cardinality(Upto(y))
    BY <2>7
  <2>11. QED
    BY <2>8, <2>9, <2>10, <1>5
<1>7. QED
  BY <1>2, <1>3, <1>4, <1>5, <1>6 DEF RankIn

(* Retained(s, keep) reads s at strictly increasing positions and stops at *)
(* every position that holds a kept element.                               *)
LEMMA RetainedPositions ==
  ASSUME NEW S, NEW s \in Seq(S), NEW keep
  PROVE  LET R == Retained(s, keep)
         IN  /\ R \in Seq(S)
             /\ Len(R) <= Len(s)
             /\ \E pos \in [1..Len(R) -> KeptPositions(s, keep)] :
                   /\ \A n \in 1..Len(R) : R[n] = s[pos[n]]
                   /\ \A m, n \in 1..Len(R) : m < n => pos[m] < pos[n]
                   /\ \A i \in KeptPositions(s, keep) :
                         \E n \in 1..Len(R) : pos[n] = i
<1> DEFINE P == KeptPositions(s, keep)
           C == Cardinality(P)
           R == Retained(s, keep)
           pos == [n \in 1..C |-> CHOOSE i \in P : RankIn(P, i) = n]
<1>1. /\ P \in SUBSET (1..Len(s)) /\ Len(s) \in Nat
      /\ \A i \in P : i \in Nat
  BY DEF KeptPositions
<1>2. /\ IsFiniteSet(P) /\ C \in Nat /\ C <= Len(s)
      /\ \A i \in P : RankIn(P, i) \in 1..C
      /\ \A i, j \in P : i < j => RankIn(P, i) < RankIn(P, j)
      /\ \A n \in 1..C : \E i \in P : RankIn(P, i) = n
  <2> HIDE DEF P
  <2>1. QED
    BY <1>1, RankProperties
<1>3. \A n \in 1..C : pos[n] \in P /\ RankIn(P, pos[n]) = n
  <2> HIDE DEF P
  <2>1. QED
    BY <1>2
<1>4. R = [n \in 1..C |-> s[pos[n]]]
  BY DEF Retained
<1>5. \A i \in P : s[i] \in S
  BY <1>1
<1>6. R \in Seq(S) /\ Len(R) = C /\ DOMAIN R = 1..C
  <2> HIDE DEF R, P, pos
  <2>1. \A n \in 1..C : s[pos[n]] \in S
    BY <1>3, <1>5
  <2>2. R \in [1..C -> S]
    BY <1>4, <2>1
  <2>3. QED
    BY <2>2, <1>2
<1>7. ASSUME NEW m \in 1..C, NEW n \in 1..C, m < n
      PROVE  pos[m] < pos[n]
  <2> HIDE DEF P, pos
  <2>1. pos[m] \in Nat /\ pos[n] \in Nat
    BY <1>1, <1>3
  <2>2. CASE pos[m] = pos[n]
    BY <2>2, <1>3, <1>7
  <2>3. CASE pos[n] < pos[m]
    BY <2>3, <1>2, <1>3, <1>7
  <2>4. QED
    BY <2>1, <2>2, <2>3
<1>8. ASSUME NEW i \in P
      PROVE  \E n \in 1..C : pos[n] = i
  <2> HIDE DEF P, pos
  <2> DEFINE n == RankIn(P, i)
  <2>1. n \in 1..C /\ pos[n] \in P /\ RankIn(P, pos[n]) = n
    BY <1>2, <1>3
  <2>2. pos[n] \in Nat /\ i \in Nat
    BY <1>1, <2>1
  <2>3. ~(pos[n] < i) /\ ~(i < pos[n])
    BY <2>1, <1>2
  <2>4. pos[n] = i
    BY <2>2, <2>3
  <2>5. QED
    BY <2>1, <2>4
<1>9. pos \in [1..C -> P]
  <2> HIDE DEF P
  <2>1. QED
    BY <1>3
<1>10. /\ \A k \in 1..Len(R) : R[k] = s[pos[k]]
       /\ \A m, k \in 1..Len(R) : m < k => pos[m] < pos[k]
       /\ \A i \in P : \E k \in 1..Len(R) : pos[k] = i
  <2> HIDE DEF P, pos, R
  <2>1. QED
    BY <1>4, <1>6, <1>7, <1>8
<1>11. QED
  <2> HIDE DEF pos
  <2>1. QED
    BY <1>2, <1>6, <1>9, <1>10

(* retain keeps exactly the elements it is asked to keep, never grows the  *)
(* sequence and introduces no duplicate.                                   *)
LEMMA RetainedProperties ==
  ASSUME NEW S, NEW s \in Seq(S), NEW keep
  PROVE  /\ Retained(s, keep) \in Seq(S)
         /\ Len(Retained(s, keep)) <= Len(s)
         /\ Range(Retained(s, keep)) = Range(s) \cap keep
         /\ Distinct(s) => Distinct(Retained(s, keep))
<1> DEFINE R == Retained(s, keep)
           P == KeptPositions(s, keep)
<1>1. R \in Seq(S) /\ Len(R) <= Len(s)
  BY RetainedPositions
<1>2. PICK pos \in [1..Len(R) -> P] :
          /\ \A n \in 1..Len(R) : R[n] = s[pos[n]]
          /\ \A m, n \in 1..Len(R) : m < n => pos[m] < pos[n]
          /\ \A i \in P : \E n \in 1..Len(R) : pos[n] = i
  BY RetainedPositions
<1>3. P \in SUBSET DOMAIN s /\ \A i \in DOMAIN s : i \in P <=> s[i] \in keep
  BY DEF KeptPositions
<1>4. DOMAIN R = 1..Len(R) /\ Len(R) \in Nat /\ DOMAIN s \in SUBSET Nat
  BY <1>1
<1> HIDE DEF R, P
<1>5. Range(R) = Range(s) \cap keep
  <2>1. ASSUME NEW n \in DOMAIN R
        PROVE  R[n] \in Range(s) \cap keep
    BY <1>2, <1>3, <1>4 DEF Range
  <2>2. ASSUME NEW i \in DOMAIN s, s[i] \in keep
        PROVE  s[i] \in Range(R)
    BY <2>2, <1>2, <1>3, <1>4 DEF Range
  <2>3. QED
    BY <2>1, <2>2 DEF Range
<1>6. ASSUME Distinct(s)
      PROVE  Distinct(R)
  <2>1. SUFFICES ASSUME NEW m \in DOMAIN R, NEW n \in DOMAIN R, R[m] = R[n]
                 PROVE  m = n
    BY DEF Distinct, IsInjective
  <2>2. pos[m] = pos[n]
    BY <1>2, <1>3, <1>4, <1>6, <2>1 DEF Distinct, IsInjective
  <2>3. ~(m < n) /\ ~(n < m) /\ m \in Nat /\ n \in Nat
    BY <1>2, <1>3, <1>4, <2>2
  <2>4. QED
    BY <2>3
<1>7. QED
  BY <1>1, <1>5, <1>6 DEF R

-----------------------------------------------------------------------------
(* The units that Total counts.                                            *)
Units(f) == UNION {{x} \X (1..f[x]) : x \in DOMAIN f}

(* A sum of finitely many naturals is one.                                 *)
LEMMA TotalTyped ==
  ASSUME NEW S, IsFiniteSet(S), NEW f \in [S -> Nat]
  PROVE  /\ IsFiniteSet(Units(f)) /\ Total(f) = Cardinality(Units(f))
         /\ Total(f) \in Nat
<1> DEFINE row(x) == {x} \X (1..f[x])
           rows == {row(x) : x \in S}
           g == [x \in S |-> row(x)]
<1>1. IsFiniteSet(rows)
  <2>1. g \in Surjection(S, rows)
    BY DEF Surjection
  <2> QED
    BY <2>1, FS_Surjection
<1>2. \A R \in rows : IsFiniteSet(R)
  <2> SUFFICES ASSUME NEW x \in S PROVE IsFiniteSet(row(x))
    OBVIOUS
  <2>1. f[x] \in Int
    OBVIOUS
  <2>2. IsFiniteSet(1..f[x])
    BY <2>1, FS_Interval
  <2>3. IsFiniteSet({x})
    BY FS_Singleton
  <2> QED
    BY <2>2, <2>3, FS_Product
<1>3. Units(f) = UNION rows /\ Total(f) = Cardinality(Units(f))
  BY DEF Units, Total
<1> HIDE DEF rows
<1> QED
  BY <1>1, <1>2, <1>3, FS_UNION, FS_CardinalityType

(* Nothing adds up to zero.                                                *)
LEMMA TotalOfNone ==
  ASSUME NEW f, DOMAIN f = {}
  PROVE  Total(f) = 0
<1>1. UNION {{x} \X (1..f[x]) : x \in DOMAIN f} = {}
  OBVIOUS
<1> QED
  BY <1>1, FS_EmptySet DEF Total

(* f without one of its arguments.                                         *)
Less(f, x) == [y \in DOMAIN f \ {x} |-> f[y]]

(* A term can be taken out of a sum.                                       *)
LEMMA TotalSplit ==
  ASSUME NEW S, IsFiniteSet(S), NEW f \in [S -> Nat], NEW x \in S
  PROVE  /\ IsFiniteSet(S \ {x}) /\ Less(f, x) \in [S \ {x} -> Nat]
         /\ Total(f) = f[x] + Total(Less(f, x))
<1> DEFINE g == Less(f, x)
           row == {x} \X (1..f[x])
<1>1. IsFiniteSet(S \ {x}) /\ g \in [S \ {x} -> Nat]
  BY FS_RemoveElement DEF Less
<1>2. Units(f) = row \cup Units(g)
  BY DEF Units, Less
<1>3. row \cap Units(g) = {}
  BY DEF Units, Less
<1>4. IsFiniteSet(row) /\ Cardinality(row) = f[x]
  <2>1. f[x] \in Nat
    OBVIOUS
  <2>2. IsFiniteSet(1..f[x]) /\ Cardinality(1..f[x]) = f[x]
    BY <2>1, FS_Interval
  <2>3. IsFiniteSet({x}) /\ Cardinality({x}) = 1
    BY FS_Singleton
  <2>4. IsFiniteSet(row) /\ Cardinality(row) = Cardinality({x}) * Cardinality(1..f[x])
    BY <2>2, <2>3, FS_Product
  <2> QED
    BY <2>1, <2>2, <2>3, <2>4
<1>5. /\ Total(f) = Cardinality(Units(f))
      /\ IsFiniteSet(Units(g)) /\ Total(g) = Cardinality(Units(g)) /\ Total(g) \in Nat
  BY <1>1, TotalTyped
<1> HIDE DEF g, row
<1>6. Cardinality(Units(f)) = Cardinality(row) + Cardinality(Units(g)) - Cardinality({})
  BY <1>2, <1>3, <1>4, <1>5, FS_Union
<1>7. f[x] \in Nat
  OBVIOUS
<1>8. Total(f) = f[x] + Total(g)
  BY <1>4, <1>5, <1>6, <1>7, FS_EmptySet
<1> QED
  BY <1>1, <1>8 DEF g

(* g has the terms of f, and one at x.                                     *)
TermAdded(S, f, x, g) ==
    /\ IsFiniteSet(S) /\ x \notin S
    /\ f \in [S -> Nat] /\ g \in [S \cup {x} -> Nat]
    /\ \A y \in S : g[y] = f[y]

(* A term can be added to a sum.                                           *)
LEMMA TotalMore ==
  ASSUME NEW S, NEW f, NEW x, NEW g, TermAdded(S, f, x, g)
  PROVE  Total(g) = Total(f) + g[x] /\ Total(f) \in Nat /\ g[x] \in Nat
<1>0. /\ IsFiniteSet(S) /\ x \notin S
      /\ f \in [S -> Nat] /\ g \in [S \cup {x} -> Nat]
      /\ \A y \in S : g[y] = f[y]
  BY DEF TermAdded
<1>1. IsFiniteSet(S \cup {x}) /\ x \in S \cup {x}
  BY <1>0, FS_AddElement
<1>2. Less(g, x) = f
  BY <1>0 DEF Less
<1>3. Total(f) \in Nat /\ g[x] \in Nat
  BY <1>0, TotalTyped
<1>4. Total(g) = g[x] + Total(Less(g, x))
  BY <1>0, <1>1, TotalSplit
<1> QED
  BY <1>2, <1>3, <1>4

(* f on T alone.                                                           *)
Within(f, T) == [x \in T |-> f[x]]

(* h is a combination of f and g, or their sum.                            *)
Combines(S, h, a, f, b, g) ==
    /\ IsFiniteSet(S) /\ f \in [S -> Nat] /\ g \in [S -> Nat] /\ h \in [S -> Nat]
    /\ a \in Nat /\ b \in Nat
    /\ \A x \in S : h[x] = a * f[x] + b * g[x]
Adds(S, h, f, g) ==
    /\ IsFiniteSet(S) /\ f \in [S -> Nat] /\ g \in [S -> Nat] /\ h \in [S -> Nat]
    /\ \A x \in S : h[x] = f[x] + g[x]

(* Sums are linear in their terms.                                         *)
LEMMA TotalLinear ==
  ASSUME NEW S, NEW h, NEW a, NEW f, NEW b, NEW g, Combines(S, h, a, f, b, g)
  PROVE  Total(h) = a * Total(f) + b * Total(g)
<1> DEFINE Good(T) == Total(Within(h, T)) = a * Total(Within(f, T)) + b * Total(Within(g, T))
           Bad == {n \in Nat : \E T \in SUBSET S : Cardinality(T) = n /\ ~Good(T)}
<1>1. /\ IsFiniteSet(S) /\ f \in [S -> Nat] /\ g \in [S -> Nat] /\ h \in [S -> Nat]
      /\ a \in Nat /\ b \in Nat
      /\ \A x \in S : h[x] = a * f[x] + b * g[x]
  BY DEF Combines
<1>2. \A T \in SUBSET S : IsFiniteSet(T) /\ Cardinality(T) \in Nat
  BY <1>1, FS_Subset, FS_CardinalityType
<1>4. ASSUME NEW T \in SUBSET S, NEW x \in T, Good(T \ {x})
      PROVE  Good(T)
  <2>1. IsFiniteSet(T) /\ IsFiniteSet(T \ {x})
    BY <1>2
  <2>2. ASSUME NEW k \in [S -> Nat]
        PROVE  /\ Total(Within(k, T)) = k[x] + Total(Within(k, T \ {x}))
               /\ Total(Within(k, T \ {x})) \in Nat /\ k[x] \in Nat
    <3>1. Within(k, T) \in [T -> Nat] /\ Within(k, T \ {x}) \in [T \ {x} -> Nat]
      BY DEF Within
    <3>2. Less(Within(k, T), x) = Within(k, T \ {x}) /\ Within(k, T)[x] = k[x]
      BY DEF Within, Less
    <3>3. Total(Within(k, T)) = Within(k, T)[x] + Total(Less(Within(k, T), x))
      BY <2>1, <3>1, TotalSplit
    <3>4. Total(Within(k, T \ {x})) \in Nat
      BY <2>1, <3>1, TotalTyped
    <3>5. k[x] \in Nat
      OBVIOUS
    <3> QED
      BY <3>2, <3>3, <3>4, <3>5
  <2> DEFINE F == Total(Within(f, T \ {x}))
             G == Total(Within(g, T \ {x}))
  <2>3. /\ Total(Within(f, T)) = f[x] + F /\ F \in Nat /\ f[x] \in Nat
        /\ Total(Within(g, T)) = g[x] + G /\ G \in Nat /\ g[x] \in Nat
        /\ Total(Within(h, T)) = h[x] + Total(Within(h, T \ {x}))
    BY <1>1, <2>2
  <2>4. h[x] = a * f[x] + b * g[x] /\ Total(Within(h, T \ {x})) = a * F + b * G
    BY <1>1, <1>4
  <2> HIDE DEF F, G
  <2>5. \A p, q, r, s \in Nat : (a * p + b * q) + (a * r + b * s) = a * (p + r) + b * (q + s)
    BY <1>1
  <2>6. (a * f[x] + b * g[x]) + (a * F + b * G) = a * (f[x] + F) + b * (g[x] + G)
    BY <1>1, <2>3, <2>5
  <2> QED
    BY <2>3, <2>4, <2>6
<1>5. Good({})
  <2>1. ASSUME NEW k PROVE Total(Within(k, {})) = 0
    <3>1. DOMAIN Within(k, {}) = {}
      BY DEF Within
    <3> QED
      BY <3>1, TotalOfNone
  <2>2. a * 0 + b * 0 = 0
    BY <1>1
  <2> QED
    BY <2>1, <2>2
<1> HIDE DEF Good
<1>6. Good(S)
  <2> SUFFICES ASSUME ~Good(S) PROVE FALSE
    OBVIOUS
  <2>1. Bad \in SUBSET Nat /\ Cardinality(S) \in Bad
    BY <1>2
  <2>2. PICK n \in Bad : \A m \in Bad : n <= m
    BY <2>1, LeastNatural
  <2>3. PICK T \in SUBSET S : Cardinality(T) = n /\ ~Good(T)
    BY <2>2
  <2>4. PICK x \in T : TRUE
    BY <2>3, <1>5
  <2>5. Cardinality(T \ {x}) = n - 1 /\ n \in Nat /\ Cardinality(T \ {x}) \in Nat
    BY <2>3, <2>4, <1>2, FS_RemoveElement
  <2>6. ~Good(T \ {x})
    BY <2>3, <2>4, <1>4
  <2>7. T \ {x} \in SUBSET S
    OBVIOUS
  <2>8. Cardinality(T \ {x}) \in Bad
    BY <2>5, <2>6, <2>7
  <2> QED
    BY <2>2, <2>5, <2>8
<1>7. Within(h, S) = h /\ Within(f, S) = f /\ Within(g, S) = g
  BY <1>1 DEF Within
<1> QED
  BY <1>6, <1>7 DEF Good

(* In particular the sum of two functions has the sum of their sums.       *)
LEMMA TotalPlus ==
  ASSUME NEW S, NEW h, NEW f, NEW g, Adds(S, h, f, g)
  PROVE  Total(h) = Total(f) + Total(g)
<1>1. /\ IsFiniteSet(S) /\ f \in [S -> Nat] /\ g \in [S -> Nat] /\ h \in [S -> Nat]
      /\ \A x \in S : h[x] = f[x] + g[x]
  BY DEF Adds
<1>2. Combines(S, h, 1, f, 1, g)
  <2>1. ASSUME NEW x \in S PROVE h[x] = 1 * f[x] + 1 * g[x]
    <3>1. f[x] \in Nat /\ g[x] \in Nat /\ h[x] = f[x] + g[x]
      BY <1>1
    <3> QED
      BY <3>1
  <2> QED
    BY <1>1, <2>1 DEF Combines
<1>3. Total(h) = 1 * Total(f) + 1 * Total(g)
  BY <1>2, TotalLinear
<1>4. Total(f) \in Nat /\ Total(g) \in Nat
  BY <1>1, TotalTyped
<1> QED
  BY <1>3, <1>4

(* A sum grows with its terms.                                             *)
LEMMA TotalGrows ==
  ASSUME NEW S, IsFiniteSet(S), NEW f \in [S -> Nat], NEW g \in [S -> Nat],
         \A x \in S : f[x] <= g[x]
  PROVE  Total(f) <= Total(g)
<1> DEFINE d == [x \in S |-> g[x] - f[x]]
<1>1. \A x \in S : g[x] - f[x] \in Nat /\ f[x] + (g[x] - f[x]) = g[x]
  <2> SUFFICES ASSUME NEW x \in S
               PROVE  g[x] - f[x] \in Nat /\ f[x] + (g[x] - f[x]) = g[x]
    OBVIOUS
  <2>1. f[x] \in Nat /\ g[x] \in Nat /\ f[x] <= g[x]
    OBVIOUS
  <2> QED
    BY <2>1
<1>2. d \in [S -> Nat] /\ Adds(S, g, f, d)
  BY <1>1 DEF Adds
<1> HIDE DEF d
<1>3. Total(g) = Total(f) + Total(d)
  BY <1>2, TotalPlus
<1>4. Total(f) \in Nat /\ Total(g) \in Nat /\ Total(d) \in Nat
  BY <1>2, TotalTyped
<1> QED
  BY <1>3, <1>4
=============================================================================
