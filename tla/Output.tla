------------------------------- MODULE Output -------------------------------
(***************************************************************************)
(* Outputs: lib/output.c with its two types, the continuous FD output      *)
(* (lib/fd_output.c) and the discrete syslog output (lib/syslog_output.c). *)
(*                                                                         *)
(* A write to an FD output is a loop around write(2), which may take a     *)
(* part of the bytes, be interrupted by a signal, or fail; the client      *)
(* waits. The environment decides what write(2) does.                      *)
(***************************************************************************)
EXTENDS Integers, Sequences

CONSTANTS
  Lens,     \* the lengths of the pieces the client writes
  IntMax,   \* INT_MAX, the longest message syslog(3) is asked to print
  MaxBytes  \* bound: the client hands over no more than that many bytes

ASSUME OutputAssumption == Lens \subseteq Nat /\ IntMax \in Nat /\ MaxBytes \in Nat

VARIABLES
  type,     \* "fd" or "syslog"
  given,    \* bytes the client has handed over, numbered in order
  file,     \* the bytes that have arrived at the other end
  pc,       \* "writing" in the loop of an FD write, otherwise "idle"
  ptr,      \* the next byte to write is the one after byte ptr
  len,      \* how many bytes are left to write
  start,    \* the value of ptr the loop began with
  result    \* what the last write that returned has returned

loop == <<ptr, len, start>>
vars == <<type, given, file, pc, loop, result>>

(* The k bytes that follow byte n.                                         *)
Bytes(n, k) == [i \in 1 .. k |-> n + i]

(* aushape_output_create: the type never changes.                          *)
OutInit ==
  /\ type \in {"fd", "syslog"}
  /\ given = 0
  /\ file = <<>>
  /\ pc = "idle"
  /\ ptr = 0 /\ len = 0 /\ start = 0
  /\ result = "OK"

(* aushape_output_write is called with the next n bytes.                   *)
Give(n) == pc = "idle" /\ given + n <= MaxBytes /\ given' = given + n

FdWrite ==
  /\ type = "fd"
  /\ \E n \in Lens : Give(n) /\ len' = n
  /\ ptr' = given /\ start' = given
  /\ pc' = "writing"
  /\ UNCHANGED <<type, file, result>>

(* Slips: the pointer is not advanced; a short write is taken for a        *)
(* complete one; only a write that takes everything at once is.            *)
TakeLoop(k, done, newPtr, newLen) ==
  /\ pc = "writing"
  /\ k <= len
  /\ file' = file \o Bytes(ptr, k)
  /\ IF done
     THEN pc' = "idle" /\ result' = "OK" /\ UNCHANGED <<ptr, len>>
     ELSE ptr' = newPtr /\ len' = newLen /\ UNCHANGED <<pc, result>>
  /\ UNCHANGED <<type, given, start>>

TakePtrKept(k)  == TakeLoop(k, k = len, ptr, len - k)
TakeShort(k)    == TakeLoop(k, k > 0, ptr + k, len - k)
TakeAtOnce(k)   == TakeLoop(k, k = given - start, ptr + k, len - k)

(* write(2) takes k bytes, possibly none; the loop ends when it has taken  *)
(* all that were left.                                                     *)
Take(k) ==
  /\ pc = "writing"
  /\ k <= len
  /\ file' = file \o Bytes(ptr, k)
  /\ IF k = len
     THEN pc' = "idle" /\ result' = "OK" /\ UNCHANGED <<ptr, len>>
     ELSE ptr' = ptr + k /\ len' = len - k /\ UNCHANGED <<pc, result>>
  /\ UNCHANGED <<type, given, start>>

TakeNone == Take(0)
TakeSome == \E k \in 1 .. len : Take(k)

(* EINTR: the same call again.                                             *)
Interrupted == pc = "writing" /\ UNCHANGED vars

TakeFails ==
  /\ pc = "writing"
  /\ pc' = "idle"
  /\ result' = "OUTPUT_WRITE_FAILED"
  /\ UNCHANGED <<type, given, file, loop>>

(* syslog(3) takes a message whole; one too long for it is refused.        *)
SyslogWrite ==
  /\ type = "syslog"
  /\ \E n \in Lens :
       /\ Give(n)
       /\ IF n > IntMax
          THEN result' = "INVALID_ARGS" /\ UNCHANGED file
          ELSE result' = "OK" /\ file' = file \o Bytes(given, n)
  /\ UNCHANGED <<type, pc, loop>>

OutNext ==
  FdWrite \/ TakeNone \/ TakeSome \/ Interrupted \/ TakeFails \/ SyslogWrite

(* The loop has no bound of its own on retries. What it needs to end is    *)
(* that write(2) is not interrupted, and does not take nothing, for ever.  *)
Fairness == WF_vars(len > 0 /\ TakeSome) /\ WF_vars(len = 0 /\ TakeNone)

OutSpec == OutInit /\ [][OutNext]_vars /\ Fairness

-----------------------------------------------------------------------------

OutTypeOK ==
  /\ type \in {"fd", "syslog"}
  /\ given \in Nat
  /\ file \in Seq(Nat)
  /\ pc \in {"idle", "writing"}
  /\ ptr \in Nat /\ len \in Nat /\ start \in Nat
  /\ result \in {"OK", "OUTPUT_WRITE_FAILED", "INVALID_ARGS"}

(* What the loop has left to write is the end of what it was given, and    *)
(* what it has written is the end of the file.                             *)
LoopOK ==
  pc = "writing" =>
    /\ type = "fd"
    /\ ptr + len = given
    /\ given - start \in Lens
    /\ len = 0 => ptr = start
    /\ ptr - start \in 0 .. Len(file)
    /\ \A i \in 1 .. ptr - start : file[Len(file) - (ptr - start) + i] = start + i

(* The bytes arrive in order, each at most once, whatever write(2) does.   *)
NoByteTwice ==
  /\ \A i, j \in 1 .. Len(file) : i < j => file[i] < file[j]
  /\ \A i \in 1 .. Len(file) : file[i] <= (IF pc = "writing" THEN ptr ELSE given)

(* The output keeps the promise of ByteStream: what a write in progress    *)
(* has delivered counts when it returns.                                   *)
Promise == INSTANCE ByteStream WITH
             given    <- IF pc = "writing" THEN start ELSE given,
             accepted <- IF pc = "writing" THEN SubSeq(file, 1, Len(file) - (ptr - start)) ELSE file

KeepsPromise == Promise!Spec

(* A write in progress returns.                                            *)
WriteReturns == pc = "writing" ~> pc = "idle"

=============================================================================
