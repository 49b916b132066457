--------------------------- MODULE MCOutboundQueue ---------------------------
(* Instances of OutboundQueue for TLC: two scopes that share one           *)
(* application key, and a second key, so that a purge of one scope leaves  *)
(* values of the other behind.                                             *)
EXTENDS OutboundQueue, TLC

ScopeSymmetry == Permutations(Scopes)
=============================================================================
