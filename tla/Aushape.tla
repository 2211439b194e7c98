------------------------------- MODULE Aushape -------------------------------
(***************************************************************************)
(* The aushape program, src/aushape.c: it loads its configuration (Conf),  *)
(* reads its input a piece at a time, drives a converter through Begin,    *)
(* Input, Flush, End and Destroy, and exits. The converter is the module   *)
(* Conv, created with that configuration; while it executes a call, the    *)
(* program waits.                                                          *)
(***************************************************************************)
EXTENDS Conv

CONSTANTS
  CommandLines, \* sequences of options, and of the names of input files
  MinSize,      \* the smallest max_event_size
  Kilo, Mega,   \* the factors of "k" and "m"
  MaxReads      \* bound: the number of pieces the input is read in

ASSUME AushapeAssumption ==
  /\ CommandLines \subseteq
       [opts   : Seq([name : STRING, arg : [word : STRING, number : Int, rest : STRING]]),
        inputs : Seq(STRING)]
  /\ MaxReads \in Nat
  /\ MinSize \in 0 .. SSizeMax /\ Kilo \in Nat /\ Mega \in Nat

Cmd == INSTANCE Conf

VARIABLES
  argv,      \* the command line
  conf,      \* the configuration: a set of one, once it is loaded
  main,      \* where the main function is
  left,      \* pieces of input not read yet
  read_rc,   \* what the last read(2) returned: 1 data, 0 end of file, -1 error
  status,    \* the exit status
  converter, \* the converter exists (conv # NULL)
  output,    \* the output: "none", "live" or "destroyed"
  in_fd,     \* the input FD
  out_fd     \* the FD of an FD output

mainVars  == <<main, left, read_rc, status>>
config    == <<argv, conf>>
resources == <<converter, output, in_fd, out_fd>>
allVars   == <<vars, mainVars, config, resources>>

(* A file descriptor is not open, one of the standard ones, or opened by   *)
(* the program, which has to close it once.                                *)
Fd == {"none", "standard", "open", "closed", "closed twice"}

Closed(fd) ==
  IF fd = "open" THEN "closed" ELSE IF fd = "closed" THEN "closed twice" ELSE fd

NoWords == [opts |-> <<>>, inputs |-> <<>>]

(* Leave the main function through its cleanup label.                      *)
Cleanup(code) == main' = "cleanup" /\ status' = code

(* Continue at `next` if a library call returned OK, give up otherwise.    *)
ContinueOr(code, next) ==
  IF code = "OK" THEN main' = next /\ UNCHANGED status ELSE Cleanup(1)

(* A configuration may be wrong, or ask only for help or the version.      *)
Load ==
  /\ main = "load"
  /\ conf' = Cmd!Loaded(argv)
  /\ \/ conf' = {} /\ Cleanup(1)
     \/ \E c \in conf' : IF c.help \/ c.version THEN Cleanup(0)
                          ELSE main' = "open input" /\ UNCHANGED status
  /\ UNCHANGED <<vars, argv, left, read_rc, resources>>

OpenInput ==
  /\ main = "open input"
  /\ \E c \in conf :
       \/ /\ in_fd' = IF c.input = "-" THEN "standard" ELSE "open"
          /\ ContinueOr("OK", "open output")
       \/ c.input # "-" /\ UNCHANGED in_fd /\ Cleanup(1)
  /\ UNCHANGED <<vars, config, left, read_rc, converter, output, out_fd>>

(* Only an FD output, the continuous one, has a file descriptor. Here the  *)
(* command line and the configuration are looked at for the last time, but *)
(* for the format, which the converter has: the model forgets them.        *)
OpenOutput ==
  /\ main = "open output"
  /\ \E c \in conf :
       \/ /\ c.output_type = "FD"
          /\ out_fd' = IF c.path = "-" THEN "standard" ELSE "open"
          /\ ContinueOr("OK", "create output")
       \/ c.output_type = "FD" /\ c.path # "-" /\ UNCHANGED out_fd /\ Cleanup(1)
       \/ c.output_type # "FD" /\ UNCHANGED out_fd /\ ContinueOr("OK", "create output")
  /\ argv' = NoWords /\ conf' = {}
  /\ UNCHANGED <<vars, left, read_rc, converter, output, in_fd>>

(* Slip: the file descriptor is forgotten if there is no output for it.    *)
CreateOutputLeaking ==
  /\ main = "create output"
  /\ \/ output' = "live" /\ ContinueOr("OK", "create converter")
     \/ UNCHANGED output /\ Cleanup(1)
  /\ UNCHANGED <<vars, config, left, read_rc, converter, in_fd, out_fd>>

(* The output takes over the file descriptor; if it cannot be created,     *)
(* create_converter closes it.                                             *)
CreateOutput ==
  /\ main = "create output"
  /\ \/ output' = "live" /\ UNCHANGED out_fd /\ ContinueOr("OK", "create converter")
     \/ out_fd' = Closed(out_fd) /\ UNCHANGED output /\ Cleanup(1)
  /\ UNCHANGED <<vars, config, left, read_rc, converter, in_fd>>

(* aushape_output_destroy, which closes the FD the output owns.            *)
DestroyOutput == output' = "destroyed" /\ out_fd' = Closed(out_fd)

(* The converter takes over the output; if it cannot be created,           *)
(* create_converter destroys the output.                                   *)
CreateConverter ==
  /\ main = "create converter"
  /\ \/ converter' = TRUE /\ UNCHANGED <<output, out_fd>> /\ ContinueOr("OK", "begin")
     \/ DestroyOutput /\ UNCHANGED converter /\ Cleanup(1)
  /\ UNCHANGED <<vars, config, left, read_rc, in_fd>>

(* Slip: input is fed without a beginning.                                 *)
MainBeginOmitted ==
  /\ main = "begin"
  /\ ContinueOr("OK", "read")
  /\ UNCHANGED <<vars, config, resources, left, read_rc>>

MainBegin ==
  /\ main = "begin"
  /\ Begin
  /\ ContinueOr(ret'.rc, "read")
  /\ UNCHANGED <<config, resources, left, read_rc>>

(* Slip: an end of file does not end the loop.                             *)
MainReadForever ==
  /\ main = "read"
  /\ \/ left > 0 /\ read_rc' = 1 /\ left' = left - 1
     \/ left = 0 /\ read_rc' = 0 /\ UNCHANGED left
  /\ main' = "input"
  /\ Input
  /\ UNCHANGED <<config, resources, status>>

(* Any number of events may be completed by a piece of input, the last     *)
(* piece completes what is left of them.                                   *)
MainRead ==
  /\ main = "read"
  /\ \/ /\ left > 0
        /\ read_rc' = 1
        /\ left' = left - 1
        /\ main' = "input"
        /\ Input
     \/ /\ read_rc' \in IF left = 0 THEN {0, -1} ELSE {-1}
        /\ main' = "flush"
        /\ UNCHANGED <<vars, config, left>>
  /\ UNCHANGED <<config, resources, status>>

MainFed ==
  /\ main = "input"
  /\ call = "none"
  /\ ContinueOr(ret.rc, "read")
  /\ UNCHANGED <<config, resources, vars, left, read_rc>>

MainFlush ==
  /\ main = "flush"
  /\ main' = "flushing"
  /\ Flush
  /\ UNCHANGED <<config, resources, left, read_rc, status>>

(* Slip: a failure to flush is left to End to report.                      *)
MainFlushedUnchecked ==
  /\ main = "flushing"
  /\ call = "none"
  /\ ContinueOr("OK", "end")
  /\ UNCHANGED <<config, resources, vars, left, read_rc>>

MainFlushed ==
  /\ main = "flushing"
  /\ call = "none"
  /\ ContinueOr(ret.rc, "end")
  /\ UNCHANGED <<config, resources, vars, left, read_rc>>

(* A read error is reported after the document has been finished.          *)
MainEnd ==
  /\ main = "end"
  /\ End
  /\ Cleanup(IF ret'.rc = "OK" /\ read_rc = 0 THEN 0 ELSE 1)
  /\ UNCHANGED <<config, resources, left, read_rc>>

(* The converter is destroyed, and with it the output it owns.             *)
MainCleanup ==
  /\ main = "cleanup"
  /\ main' = "exited"
  /\ IF converter
     THEN Destroy /\ DestroyOutput
     ELSE UNCHANGED <<vars, output, out_fd>>
  /\ in_fd' = Closed(in_fd)
  /\ UNCHANGED <<config, left, read_rc, status, converter>>

MainStep ==
  \/ Load \/ OpenInput \/ OpenOutput \/ CreateOutput \/ CreateConverter
  \/ MainBegin \/ MainRead \/ MainFed \/ MainFlush \/ MainFlushed
  \/ MainEnd \/ MainCleanup

Wait == Internal /\ UNCHANGED <<mainVars, config, resources>>

(* The converter will be created with the format of the configuration, for *)
(* the output of it, if there is going to be one.                          *)
MainInit ==
  /\ Init
  /\ argv \in CommandLines /\ conf = {}
  /\ \E c \in IF Cmd!Loaded(argv) = {} THEN {Cmd!Default} ELSE Cmd!Loaded(argv) :
       epd = c.events_per_doc /\ (cont <=> c.output_type = "FD")
  /\ main = "load"
  /\ left \in 0 .. MaxReads
  /\ read_rc = 1
  /\ status = 1
  /\ converter = FALSE
  /\ output = "none"
  /\ in_fd = "none"
  /\ out_fd = "none"

MainNext == MainStep \/ Wait

(* The program is one thread that keeps running; auparse reports events    *)
(* only while there are any, and returns.                                  *)
MainSpec == MainInit /\ [][MainNext]_allVars /\ WF_allVars(MainNext)

-----------------------------------------------------------------------------

(* A command line that is taken means what the help text says, and what a  *)
(* converter can be created with: the format is valid, also when a size    *)
(* was too large to be shifted.                                            *)
ConfAsAsked ==
  main = "open input" =>
    \A c \in conf : c.max_event_size >= MinSize /\ Cmd!AsAsked(c, argv)

(* Every word that the help text has for an option is taken.               *)
HelpTextHolds ==
  [][main = "load" /\ Cmd!InHelpText(argv) => main' = "open input" \/ status' = 0]_allVars

Success == main = "exited" /\ converter /\ status = 0

(* Exit status 0 of a conversion means that the whole input was read,      *)
(* every event in it was converted and has reached the output, and no      *)
(* document is left open.                                                  *)
SuccessMeansDelivered ==
  Success => /\ left = 0 /\ read_rc = 0
             /\ rc = "OK" /\ reported = fed
             /\ Ids(out) = 1 .. fed \ dropped
             /\ buf = <<>> /\ ~(~Bare /\ Open(out))

(* "SSIZE_MAX means all events are put into a single document, even if     *)
(* there were none" (format.h).                                            *)
SingleMeansOne ==
  Success /\ Single =>
    /\ out # <<>>
    /\ \A i \in 1 .. Len(out) : /\ out[i].kind = "prologue" <=> i = 1
                                /\ out[i].kind = "epilogue" <=> i = Len(out)

(* The program never calls the library when the library's documentation    *)
(* forbids it: no call is refused, and none is made without a converter.   *)
CallsInOrder == ret.rc # "INVALID_STATE" /\ (ret.op # "create" => converter)

(* Through every failure and every transfer of ownership, whatever was     *)
(* opened is closed once when the program exits, the output is destroyed   *)
(* if it was created, and is there as long as the converter uses it.       *)
ResourcesReleased ==
  /\ {in_fd, out_fd} \intersect {"closed twice"} = {}
  /\ main = "exited" => {in_fd, out_fd} \intersect {"open"} = {} /\ output # "live"
  /\ converter /\ main # "exited" => output = "live" /\ (cont => out_fd \in {"standard", "open"})

(* Whatever fails, the program exits, if every call that it makes returns: *)
(* an output that is never taken (see Output) and an indentation for which *)
(* memory cannot be doubled (see Grow) are not in this model.              *)
Exits == <>(main = "exited")

-----------------------------------------------------------------------------
(***************************************************************************)
(* What holds at each place of the main function: the invariant that       *)
(* proves the above (AushapeProofs).                                       *)
(***************************************************************************)

Preparing == {"load", "open input", "open output", "create output", "create converter"}
Serving   == {"begin", "read", "input", "flush", "flushing", "end"}

(* The configuration there is, or is going to be, is the one that the      *)
(* converter will be created for.                                          *)
ConfOK ==
  /\ main = "load" => argv \in CommandLines /\ conf = {}
  /\ \A c \in conf \union IF main = "load" THEN Cmd!Loaded(argv) ELSE {} :
       cont <=> c.output_type = "FD"

(* The converter is there while it is used, as new until Begin is called,  *)
(* and executes a call only where main waits for it.                       *)
ConverterOK ==
  /\ main \in Preparing \union Serving \union {"cleanup", "exited"}
  /\ converter \in BOOLEAN
  /\ main \in Preparing => ~converter
  /\ main \in Serving => converter
  /\ ~converter \/ main = "begin" =>
       rc = "OK" /\ ~in_doc /\ out = <<>> /\ buf = <<>> /\ ret.op = "create"
  /\ call # "none" => <<main, call>> \in
       {<<"input", "input">>, <<"flushing", "flush">>, <<"exited", "destroyed">>}

(* One document was begun in s and is not finished.                        *)
OneOpen(s) ==
  s # <<>> /\ \A i \in 1 .. Len(s) : /\ s[i].kind = "prologue" <=> i = 1
                                     /\ s[i].kind # "epilogue"

(* No call goes on after a failure; a single document, once begun, stays.  *)
CallsOK ==
  /\ rc # "INVALID_STATE" /\ ret.rc # "INVALID_STATE"
  /\ main \in {"read", "flush", "end"} => rc = "OK"
  /\ main \in {"input", "flushing"} /\ call = "none" => ret.rc = rc
  /\ main \in Serving \ {"begin"} /\ rc = "OK" /\ Single => in_doc /\ OneOpen(Log)

(* One document was begun in s, and finished.                              *)
OneWhole(s) ==
  s # <<>> /\ \A i \in 1 .. Len(s) : /\ s[i].kind = "prologue" <=> i = 1
                                     /\ s[i].kind = "epilogue" <=> i = Len(s)

(* How far the input has got, and the output.                              *)
DeliveryOK ==
  /\ read_rc = 0 => left = 0
  /\ main = "flushing" /\ call = "none" /\ rc = "OK" => reported = fed
  /\ main = "end" => reported = fed
  /\ main \in {"cleanup", "exited"} /\ converter /\ status = 0 =>
       /\ left = 0 /\ read_rc = 0 /\ rc = "OK" /\ reported = fed
       /\ buf = <<>> /\ (Bare \/ ~Open(out))
       /\ Single => OneWhole(out)

(* Who owns what, and what is still to be closed.                          *)
OwnershipOK ==
  /\ main \in {"load", "open input"} => in_fd = "none"
  /\ in_fd \in {"none", "standard"} \union IF main = "exited" THEN {"closed"} ELSE {"open"}
  /\ main \in {"load", "open input", "open output"} => output = "none" /\ out_fd = "none"
  /\ main = "create output" => output = "none"
  /\ main = "create converter" \/ (converter /\ main # "exited") => output = "live"
  /\ main \in {"create output", "create converter"} \/ (converter /\ main # "exited") =>
       out_fd \in {"none", "standard", "open"} /\ (cont => out_fd # "none")
  /\ (main = "cleanup" /\ ~converter) \/ main = "exited" =>
       output # "live" /\ out_fd \in {"none", "standard", "closed"}

MainInv == ConfOK /\ ConverterOK /\ CallsOK /\ DeliveryOK /\ OwnershipOK

=============================================================================
