------------------------------ MODULE MCGbTree ------------------------------
(* Four nodes of two priorities.                                            *)
EXTENDS GbTree

=============================================================================
