-------------------------------- MODULE Conf --------------------------------
(***************************************************************************)
(* The configuration, lib/conf.c: what a command line means. Getopt has    *)
(* told the options, in order, from the input files. An option's argument  *)
(* is a word, or begins with a number: [word, number, rest], where word is *)
(* "" if there is a number, and rest is what follows the number. Upper and *)
(* lower case are the same.                                                *)
(***************************************************************************)
EXTENDS Integers, Sequences

CONSTANTS
  SSizeMax, \* SSIZE_MAX, which gives the width of size_t
  MinSize,  \* AUSHAPE_FORMAT_MIN_MAX_EVENT_SIZE
  Kilo,     \* what "k" shifts a size by, as a factor
  Mega      \* and what "m" does

SizeMod == 2 * (SSizeMax + 1)
SizeMax == SizeMod - 1

(* What an argument may stand for is a set with one value, or with none if *)
(* the argument is refused: by a table of words, of which glibc has those  *)
(* for syslog ...                                                          *)
Named(table, arg) == {table[w] : w \in {arg.word} \intersect DOMAIN table}

Facilities == [authpriv |-> 80, daemon |-> 24]
Priorities == [info |-> 6, err |-> 3, error |-> 3]

(* ... or by sscanf(3), which has to reach the end of the argument. It     *)
(* limits a number to what the type has, and takes one below zero to be    *)
(* unsigned nevertheless.                                                  *)
Limited(n)    == IF n > SSizeMax THEN SSizeMax ELSE IF n < -SSizeMax - 1 THEN -SSizeMax - 1 ELSE n
Converted(n)  == IF n \in -SizeMax .. SizeMax THEN n % SizeMod ELSE SizeMax
Whole(arg)    == IF arg.word = "" /\ arg.rest = "" THEN {arg.number} ELSE {}
Signed(arg)   == {Limited(n) : n \in Whole(arg)}
Unsigned(arg) == {Converted(n) : n \in Whole(arg)}

Factors == {<<"", 1>>, <<"k", Kilo>>, <<"m", Mega>>}

(* What is behind the number is looked at even if there is none.           *)
Scaled(arg) ==
  LET size == Named([unlimited |-> SizeMax], arg)
                \union IF arg.word = "" THEN {Converted(arg.number)} ELSE {}
      rest == IF arg.word = "" THEN arg.rest ELSE arg.word
  IN  {<<s, (s * f[2]) % SizeMod>> : s \in size, f \in {g \in Factors : g[1] = rest}}

(* Slip: the size is checked before it is shifted.                         *)
MaxEventSizeUnscaled(arg) == {s[2] : s \in {t \in Scaled(arg) : t[1] >= MinSize}}

MaxEventSize(arg) == {s[2] : s \in {t \in Scaled(arg) : t[2] >= MinSize}}

(* What an option makes of a configuration: a set as above.                *)
With(c, o) ==
  LET a == o.arg
  IN  CASE o.name = "help"            -> {[c EXCEPT !.help = TRUE]}
        [] o.name = "version"         -> {[c EXCEPT !.version = TRUE]}
        [] o.name = "with-text"       -> {[c EXCEPT !.with_text = TRUE]}
        [] o.name = "with-norm"       -> {[c EXCEPT !.with_norm = TRUE]}
        [] o.name = "file"            -> {[c EXCEPT !.path = a.word]}
        [] o.name = "lang"            ->
             {[c EXCEPT !.lang = v] : v \in Named([json |-> "JSON", xml |-> "XML"], a)}
        [] o.name = "output"          ->
             {[c EXCEPT !.output_type = v] : v \in Named([file |-> "FD", syslog |-> "SYSLOG"], a)}
        [] o.name = "events-per-doc"  ->
             {[c EXCEPT !.events_per_doc = v] :
                v \in Named([none |-> 0, all |-> SSizeMax], a) \union Signed(a)}
        [] o.name = "max-event-size"  -> {[c EXCEPT !.max_event_size = v] : v \in MaxEventSize(a)}
        [] o.name = "fold"            ->
             {[c EXCEPT !.fold_level = v] :
                v \in Named([none |-> SizeMax, all |-> 0], a) \union Unsigned(a)}
        [] o.name = "indent"          -> {[c EXCEPT !.nest_indent = v] : v \in Unsigned(a)}
        [] o.name = "syslog-facility" -> {[c EXCEPT !.facility = v] : v \in Named(Facilities, a)}
        [] o.name = "syslog-priority" -> {[c EXCEPT !.priority = v] : v \in Named(Priorities, a)}
        [] OTHER                      -> {} \* unknown, or without its argument

Default ==
  [help |-> FALSE, version |-> FALSE, input |-> "-", lang |-> "JSON", fold_level |-> 4,
   nest_indent |-> 4, events_per_doc |-> SSizeMax, max_event_size |-> SizeMax,
   with_text |-> FALSE, with_norm |-> FALSE, output_type |-> "FD", path |-> "-",
   facility |-> Facilities["authpriv"], priority |-> Priorities["info"]]

(* aushape_conf_load: the configuration, unless the command line is wrong. *)
Loaded(argv) ==
  LET upto[i \in 0 .. Len(argv.opts)] ==
        IF i = 0 THEN {Default}
        ELSE UNION {With(c, argv.opts[i]) : c \in upto[i - 1]}
      n == Len(argv.inputs)
  IN  {[c EXCEPT !.input = IF n = 0 THEN @ ELSE argv.inputs[1]] :
         c \in IF n <= 1 THEN upto[Len(argv.opts)] ELSE {}}

-----------------------------------------------------------------------------
(* What the help text says of a command line, read without the code.       *)

Said(argv, name) == {i \in 1 .. Len(argv.opts) : argv.opts[i].name = name}

(* Of options given more than once, the last one counts.                   *)
Last(argv, name) == argv.opts[CHOOSE i \in Said(argv, name) :
                                \A j \in Said(argv, name) : j <= i].arg

(* The size asked for, however large.                                      *)
SizeAsked(a) ==
  IF a.word = "" THEN a.number * (CHOOSE f \in Factors : f[1] = a.rest)[2] ELSE SizeMax

(* The help text knows all of a command line, and how many input files     *)
(* there can be: its options, their words, and sizes that size_t can have. *)
InHelpText(argv) ==
  /\ Len(argv.inputs) <= 1
  /\ \A i \in 1 .. Len(argv.opts) :
       LET a == argv.opts[i].arg
       IN  CASE argv.opts[i].name \in {"help", "version", "with-text", "with-norm", "file"} -> TRUE
             [] argv.opts[i].name = "lang"   -> a.word \in {"json", "xml"}
             [] argv.opts[i].name = "output" -> a.word \in {"file", "syslog"}
             [] argv.opts[i].name \in {"events-per-doc", "fold"} ->
                  a.word \in {"none", "all"} \/ (Whole(a) # {} /\ a.number \in 0 .. SSizeMax)
             [] argv.opts[i].name = "indent" -> Whole(a) # {} /\ a.number \in 0 .. SizeMax
             [] argv.opts[i].name = "max-event-size" ->
                  a.word = "unlimited" \/ (/\ a.word = "" /\ a.rest \in {"", "k", "m"}
                                           /\ SizeAsked(a) \in MinSize .. SizeMax)
             [] argv.opts[i].name = "syslog-facility" -> a.word \in DOMAIN Facilities
             [] argv.opts[i].name = "syslog-priority" -> a.word \in DOMAIN Priorities
             [] OTHER -> FALSE

(* Configuration c is what the command line asks for, where each option    *)
(* has its own meaning whatever else is said, and the help text's defaults *)
(* hold for the rest; a number which size_t has no room for is none.       *)
AsAsked(c, argv) ==
  LET asked(name, default, word, range, value) ==
        \/ Said(argv, name) = {} /\ value = default
        \/ /\ Said(argv, name) # {}
           /\ LET a == Last(argv, name)
              IN  IF a.word = "" THEN a.number \in range => value = a.number
                  ELSE value = word[a.word]
  IN  /\ c.help <=> Said(argv, "help") # {}
      /\ c.version <=> Said(argv, "version") # {}
      /\ c.with_text <=> Said(argv, "with-text") # {}
      /\ c.with_norm <=> Said(argv, "with-norm") # {}
      /\ asked("lang", "JSON", [json |-> "JSON", xml |-> "XML"], 0 .. SizeMax, c.lang)
      /\ asked("output", "FD", [file |-> "FD", syslog |-> "SYSLOG"], 0 .. SizeMax, c.output_type)
      /\ asked("fold", 4, [all |-> 0, none |-> SizeMax], 0 .. SizeMax, c.fold_level)
      /\ asked("indent", 4, <<>>, 0 .. SizeMax, c.nest_indent)
      /\ asked("events-per-doc", SSizeMax, [none |-> 0, all |-> SSizeMax],
               -SSizeMax - 1 .. SSizeMax, c.events_per_doc)
      /\ asked("syslog-facility", 80, Facilities, 0 .. SizeMax, c.facility)
      /\ asked("syslog-priority", 6, Priorities, 0 .. SizeMax, c.priority)
      /\ c.path = IF Said(argv, "file") = {} THEN "-" ELSE Last(argv, "file").word
      /\ c.input = IF argv.inputs = <<>> THEN "-" ELSE argv.inputs[1]
      /\ Said(argv, "max-event-size") = {} => c.max_event_size = SizeMax
      /\ Said(argv, "max-event-size") # {} =>
           LET n == SizeAsked(Last(argv, "max-event-size"))
           IN  n \in 0 .. SizeMax => c.max_event_size = n

=============================================================================
