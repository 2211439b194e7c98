------------------------------ MODULE MCOutput ------------------------------
(* Pieces of up to four bytes, an empty one included, nine bytes in all.   *)
EXTENDS Output

MCLens == {0, 1, 3, 4}

=============================================================================
