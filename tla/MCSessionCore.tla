---------------------------- MODULE MCSessionCore ----------------------------
(* Instances of SessionCore for TLC.                                       *)
EXTENDS SessionCore, TLC

SpaceSymmetry == Permutations(SpaceIds)
=============================================================================
