------------------------------ MODULE MCFraming ------------------------------
(* Frames around a two-byte prefix, of different lengths so that no two    *)
(* readers that lost a byte stay lost in the same place.                   *)
EXTENDS Framing

ShortFrames == <<4, 3, 5>>
=============================================================================
