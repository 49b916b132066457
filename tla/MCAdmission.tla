----------------------------- MODULE MCAdmission -----------------------------
(* Instances of Admission for TLC.                                         *)
EXTENDS Admission, TLC

JoinSymmetry == Permutations(Principals) \cup Permutations(Keys)
=============================================================================
