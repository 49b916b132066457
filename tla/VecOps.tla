------------------------------- MODULE VecOps -------------------------------
(***************************************************************************)
(* The operations of Rust's VecDeque that the core's queues use and that   *)
(* the Sequences module lacks, and the sum over a map.  They are defined   *)
(* without recursion, a filtered sequence by the position each surviving   *)
(* element takes and a sum by counting, so that the proof modules can      *)
(* reason about them.                                                      *)
(***************************************************************************)
EXTENDS Naturals, Sequences, FiniteSets, Functions

(* The positions of s that hold an element of keep.                        *)
KeptPositions(s, keep) == {i \in DOMAIN s : s[i] \in keep}

(* Position i of s becomes position RankIn(P, i) of the result.            *)
RankIn(P, i) == Cardinality({j \in P : j <= i})

(* VecDeque::retain: the elements of s that belong to keep, in their order. *)
Retained(s, keep) ==
    LET kept == KeptPositions(s, keep)
    IN  [n \in 1..Cardinality(kept) |->
            s[CHOOSE i \in kept : RankIn(kept, i) = n]]

(* retain(|x| x != e)                                                      *)
Without(s, e) == Retained(s, Range(s) \ {e})

(* The pop_front loops of the core, as what is left after n pops.          *)
AfterPops(s, n) == SubSeq(s, n + 1, Len(s))

(* No element occurs twice.                                                *)
Distinct(s) == IsInjective(s)

(* Iterator::sum over the numbers that f maps to: the pairs of an argument *)
(* and one of the units its number counts.                                 *)
Total(f) == Cardinality(UNION {{x} \X (1..f[x]) : x \in DOMAIN f})
=============================================================================
