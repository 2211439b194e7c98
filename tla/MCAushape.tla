------------------------------ MODULE MCAushape ------------------------------
(***************************************************************************)
(* The program with bare, counted, sized and single documents, on command  *)
(* lines of up to two options, with right and wrong arguments. Sizes are   *)
(* of four bits.                                                           *)
(***************************************************************************)
EXTENDS Aushape, TLC

MCSSizeMax      == 7
MCEventsPerDocs == {0, 2, -3, MCSSizeMax}

W(word)         == [word |-> word, number |-> 0, rest |-> ""]
N(number, end)  == [word |-> "", number |-> number, rest |-> end]

(* Options, "?" for one that is not known, ":" for one without its argument. *)
MCArgs ==
  [name \in {"help", "version", "with-text", "with-norm", "?", ":"} |-> {W("none")}]
  @@ [name \in {"lang"} |-> {W("xml"), W("json"), W("lisp")}]
  @@ [name \in {"output"} |-> {W("file"), W("syslog"), N(1, "")}]
  @@ [name \in {"file"} |-> {W("-"), W("log.json")}]
  @@ [name \in {"events-per-doc"} |->
        {W("none"), W("all"), W("some"), N(0, ""), N(2, ""), N(-3, ""), N(9, ""), N(2, "k")}]
  @@ [name \in {"max-event-size"} |->
        {W("unlimited"), W("k"), N(1, ""), N(9, ""), N(-3, ""), N(3, "k"), N(3, "m"), N(4, "m"),
         N(5, "m"), N(17, ""), N(3, "g")}]
  @@ [name \in {"fold"} |-> {W("none"), W("all"), N(2, ""), N(2, "k")}]
  @@ [name \in {"indent"} |-> {W("none"), N(0, ""), N(8, "")}]
  @@ [name \in {"syslog-facility"} |-> {W("daemon"), W("nobody")}]
  @@ [name \in {"syslog-priority"} |-> {W("error"), W("panicky")}]

MCOptions == UNION {{[name |-> n, arg |-> a] : a \in MCArgs[n]} : n \in DOMAIN MCArgs}

MCCommandLines ==
  [opts : UNION {[1 .. k -> MCOptions] : k \in 0 .. 2}, inputs : {<<>>}]
  \union [opts : {<<>>} \union [1 .. 1 -> MCOptions],
          inputs : {<<"-">>, <<"audit.log">>, <<"audit.log", "-">>}]

=============================================================================
