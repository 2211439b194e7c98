------------------------------ MODULE MCConvBuf ------------------------------
(* Two events of up to four records: one type of them goes to the unique   *)
(* collector, two to repeating ones.                                       *)
EXTENDS ConvBuf

MCUniqTypes == {"SYSCALL"}
MCRepTypes  == <<"OBJ_PID", "AVC">>

=============================================================================
