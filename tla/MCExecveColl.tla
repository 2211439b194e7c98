---------------------------- MODULE MCExecveColl ----------------------------
(* Two events in a row, with up to three arguments of up to two slices.    *)
EXTENDS ExecveColl

=============================================================================
