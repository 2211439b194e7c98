------------------------------- MODULE MCGrow -------------------------------
(***************************************************************************)
(* Instance of Grow: sizes of five bits, and arrays of up to four items of *)
(* one byte and of three, of which the memory has just about twice four.   *)
(***************************************************************************)
EXTENDS Grow

CONSTANTS a, b

MCItems == {a, b}

=============================================================================
