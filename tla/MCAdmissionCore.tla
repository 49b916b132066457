--------------------------- MODULE MCAdmissionCore ---------------------------
(* Instances of AdmissionCore for TLC.                                     *)
EXTENDS AdmissionCore, TLC

CoreSymmetry ==
    Permutations(Connections) \cup Permutations(Principals) \cup Permutations(Keys)
=============================================================================
