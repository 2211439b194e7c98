------------------------------ MODULE MCMarkup ------------------------------
(***************************************************************************)
(* Instance of Markup. The text of a line, a value or an argument begins   *)
(* and ends with characters to escape, or has none; there are the first    *)
(* event of a document and one after it, with and without a host, the      *)
(* source text and normalized fields.                                      *)
(***************************************************************************)
EXTENDS Markup

MCSamples == {<<"a">>, <<"&", "a", "'">>}

Shape(lang, first, text, normalized) ==
  [lang |-> lang, first |-> first, host |-> first, with_text |-> text, with_norm |-> normalized]

MCShapes ==
  {Shape("XML", TRUE, TRUE, FALSE), Shape("XML", FALSE, FALSE, TRUE),
   Shape("JSON", TRUE, TRUE, FALSE), Shape("JSON", FALSE, FALSE, FALSE),
   Shape("JSON", FALSE, TRUE, TRUE)}

F(name, raw) == [name |-> name, raw |-> raw]

(* A record has a type, and may have a node, fields, or none of its own.   *)
MCFieldLists ==
  {<<F("type", FALSE)>>,
   <<F("type", FALSE), F("pid", TRUE), F("node", FALSE), F("exe", FALSE)>>}

MCExecveFields ==
  {<<"whole">>, <<"whole", "first">>, <<"middle">>, <<"last">>, <<"last", "whole">>}

MCNormFields == <<"META", "POS", "POS_LIST", "META">>

=============================================================================
