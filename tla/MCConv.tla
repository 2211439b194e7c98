------------------------------- MODULE MCConv -------------------------------
(* The converter with bare, counted, sized and single documents.           *)
EXTENDS Conv

MCSSizeMax      == 7
MCEventsPerDocs == {0, 1, 2, -3, MCSSizeMax}

=============================================================================
