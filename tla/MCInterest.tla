------------------------------ MODULE MCInterest ------------------------------
(* Instances of Interest for TLC: positions on both sides of cell          *)
(* boundaries, in one line and off it.                                     *)
EXTENDS Interest

Near == {<<-1, 0>>, <<0, 0>>, <<1, 1>>, <<2, 0>>}
=============================================================================
