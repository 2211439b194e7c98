-------------------------------- MODULE Grow --------------------------------
(***************************************************************************)
(* Growing arrays and buffers: lib/garr.c and lib/gbuf.c, which are the    *)
(* same but for the size of an item, which is 1 in a buffer, and only      *)
(* there. Everything that is added or set, in any of the ways there are,   *)
(* is a call which accomodates, by doubling what is allocated, and then    *)
(* copies. Sizes are size_t: arithmetic is modulo 2^Width.                 *)
(***************************************************************************)
EXTENDS Integers, Sequences

CONSTANTS
  Items,        \* the items, or bytes, to store
  Garbage,      \* what memory has that nothing was copied to
  Width,        \* the number of bits of a size_t
  ItemSizes,    \* sizes of an item
  InitAllocs,   \* initial numbers of items to allocate
  MaxLen        \* bound: the number of items in an array, terminator included

Modulus == 2 ^ Width

(* No array or buffer needs half of the memory that there is. The code     *)
(* takes this for granted; an indent from the command line can exceed it.  *)
ASSUME GrowAssumption ==
  /\ Width \in Nat /\ MaxLen \in Nat
  /\ ItemSizes \subseteq Nat \ {0} /\ InitAllocs \subseteq Nat \ {0}
  /\ \A s \in ItemSizes :
       s * 2 * MaxLen < Modulus /\ \A a \in InitAllocs : s * a < Modulus
  /\ Garbage \notin Items

VARIABLES
  pc,        \* "idle", "grow" in the loop of accomodate, or "copy"
  item_size, init_alloc_len, valid_len, alloc_len, \* of the struct
  mem,       \* the memory behind the pointer, item by item; <<>> for NULL
  call,      \* the call in progress: where, what, and whether a zero follows
  new_len,   \* what accomodate is about to allocate
  stored     \* history: the items that calls have stored with success

vars == <<pc, item_size, init_alloc_len, valid_len, alloc_len, mem, call, new_len, stored>>

NoCall == [index |-> 0, items |-> <<>>, ended |-> FALSE]

(* Array s with the items at an index, which may be at its end.            *)
Overwritten(s, index, items) ==
  [k \in 1 .. IF index + Len(items) > Len(s) THEN index + Len(items) ELSE Len(s) |->
     IF k \in index + 1 .. index + Len(items) THEN items[k - index] ELSE s[k]]

Init ==
  /\ pc = "idle"
  /\ item_size \in ItemSizes /\ init_alloc_len \in InitAllocs
  /\ valid_len = 0 /\ alloc_len = 0
  /\ mem = <<>>
  /\ call = NoCall
  /\ new_len = 0
  /\ stored = <<>>

-----------------------------------------------------------------------------

(* Slip: there is no first size.                                           *)
FirstLenDoubled == (alloc_len * 2) % Modulus

FirstLen == IF alloc_len = 0 THEN init_alloc_len ELSE (alloc_len * 2) % Modulus

(* Slip: the items are counted on from the length, not from the index.     *)
EndLenCountedOn(index, items) == (valid_len + Len(items)) % Modulus

(* Where the items end: end_len of an array, new_len of a buffer.          *)
EndLen(index, items) == (index + Len(items)) % Modulus

(* Slip: the terminator has no room.                                       *)
NeededUnended(index, items, ended) == EndLen(index, items)

(* A buffer's formatted text has a terminator that is not contents.        *)
Needed(index, items, ended) == (EndLen(index, items) + IF ended THEN 1 ELSE 0) % Modulus

Exceeds(n) == n > alloc_len

(* An array accomodates what ends behind its length only; a buffer always. *)
Begin(index, items, ended) ==
  /\ pc = "idle"
  /\ index + Len(items) + (IF ended THEN 1 ELSE 0) <= MaxLen
  /\ call' = [index |-> index, items |-> items, ended |-> ended]
  /\ LET grow == /\ item_size = 1 \/ EndLen(index, items) > valid_len
                 /\ Exceeds(Needed(index, items, ended))
     IN  /\ pc' = IF grow THEN "grow" ELSE "copy"
         /\ new_len' = IF grow THEN FirstLen ELSE new_len
  /\ UNCHANGED <<item_size, init_alloc_len, valid_len, alloc_len, mem, stored>>

Some == UNION {[1 .. n -> Items] : n \in 0 .. MaxLen}

(* One or more items of an array are set: items given, or a span of the    *)
(* same one, or of zero bytes. No caller leaves a gap behind the length.   *)
Set == /\ item_size # 1
       /\ \E index \in 0 .. valid_len, items \in Some : Begin(index, items, FALSE)

(* They are added to an array: set at its length.                          *)
Add == item_size # 1 /\ \E items \in Some : Begin(valid_len, items, FALSE)

(* A character, a span of it, or text, as it is or in lower case, is added *)
(* to a buffer.                                                            *)
AddBuf == item_size = 1 /\ \E items \in Some : Begin(valid_len, items, FALSE)

(* Formatted text is added, to a buffer.                                   *)
AddFmt ==
  /\ item_size = 1
  /\ \E items \in Some : Begin(valid_len, items, TRUE)

Double ==
  /\ pc = "grow" /\ new_len < Needed(call.index, call.items, call.ended)
  /\ new_len' = (new_len * 2) % Modulus
  /\ UNCHANGED <<pc, item_size, init_alloc_len, valid_len, alloc_len, mem, call, stored>>

Enough == pc = "grow" /\ new_len >= Needed(call.index, call.items, call.ended)

(* The items that fit in the bytes asked for.                              *)
Room(n) == ((item_size * n) % Modulus) \div item_size

(* Slip: new memory instead of the old.                                    *)
Moved(n) == [k \in 1 .. n |-> Garbage]

Resized(n) == [k \in 1 .. n |-> IF k <= Len(mem) THEN mem[k] ELSE Garbage]

Reallocate ==
  /\ Enough
  /\ pc' = "copy"
  /\ mem' = Resized(Room(new_len))
  /\ alloc_len' = new_len
  /\ UNCHANGED <<item_size, init_alloc_len, valid_len, call, new_len, stored>>

(* realloc(3) fails, and what there is stays as it was.                    *)
NoMemory ==
  /\ Enough
  /\ pc' = "idle"
  /\ call' = NoCall
  /\ new_len' = 0
  /\ UNCHANGED <<item_size, init_alloc_len, valid_len, alloc_len, mem, stored>>

(* What is copied, with the terminator, which is nothing to be kept.       *)
Copied == IF call.ended THEN Append(call.items, Garbage) ELSE call.items

Copy ==
  /\ pc = "copy"
  /\ pc' = "idle"
  /\ mem' = Overwritten(mem, call.index, Copied)
  /\ valid_len' = IF call.index + Len(call.items) > valid_len
                  THEN call.index + Len(call.items) ELSE valid_len
  /\ stored' = Overwritten(stored, call.index, call.items)
  /\ call' = NoCall
  /\ new_len' = 0
  /\ UNCHANGED <<item_size, init_alloc_len, alloc_len>>

(* The memory is kept for what comes next.                                 *)
Empty ==
  /\ pc = "idle"
  /\ valid_len' = 0
  /\ stored' = <<>>
  /\ UNCHANGED <<pc, item_size, init_alloc_len, alloc_len, mem, call, new_len>>

(* The end of an array, and the beginning of another one.                  *)
Cleanup ==
  /\ pc = "idle"
  /\ valid_len' = 0 /\ alloc_len' = 0
  /\ mem' = <<>>
  /\ stored' = <<>>
  /\ UNCHANGED <<pc, item_size, init_alloc_len, call, new_len>>

Loop == Double \/ Reallocate \/ NoMemory \/ Copy

Next == Set \/ Add \/ AddBuf \/ AddFmt \/ Loop \/ Empty \/ Cleanup

(* A call that was begun is executed: realloc(3) returns, one way or the   *)
(* other, and nothing else runs in the thread.                             *)
Spec == Init /\ [][Next]_vars /\ WF_vars(Loop)

-----------------------------------------------------------------------------

(* aushape_garr_is_valid and aushape_gbuf_is_valid, which every function   *)
(* asserts, of memory that is as large as the struct says; a copy, with    *)
(* its terminator, stays within it.                                        *)
IsValid ==
  /\ item_size # 0 /\ init_alloc_len # 0
  /\ alloc_len = 0 \/ (mem # <<>> /\ alloc_len >= init_alloc_len)
  /\ valid_len <= alloc_len
  /\ Len(mem) = alloc_len
  /\ pc = "copy" => call.index + Len(Copied) <= Len(mem)

(* What was stored is there, whatever grew, moved or failed since.         *)
ItemsKept == SubSeq(mem, 1, valid_len) = stored

(* Storing in place of what is there cannot fail: lib/gbtree.c does that   *)
(* in the middle of changing lists, and ignores the return code.           *)
InPlaceSucceeds ==
  [][NoMemory => call.index + Len(call.items) > valid_len \/ call.ended]_vars

(* The doubling ends: every call returns.                                  *)
Returns == [](pc # "idle" => <>(pc = "idle"))

-----------------------------------------------------------------------------
(* What the steps of the loop preserve together.                           *)

Cells == Items \union {Garbage}

TypeOK ==
  /\ pc \in {"idle", "grow", "copy"}
  /\ item_size \in ItemSizes /\ init_alloc_len \in InitAllocs
  /\ valid_len \in 0 .. MaxLen /\ alloc_len \in Nat /\ new_len \in Nat
  /\ mem \in Seq(Cells) /\ stored \in Seq(Items)
  /\ call \in [index : Nat, items : Seq(Items), ended : BOOLEAN]

(* A size that comes of doubling the initial one, no more often than what  *)
(* is needed calls for: its bytes can be counted, and those of its double. *)
Doubled(n) == init_alloc_len <= n /\ (n = init_alloc_len \/ n < 2 * MaxLen)

SizesOK ==
  /\ alloc_len = 0 \/ Doubled(alloc_len)
  /\ valid_len <= alloc_len
  /\ Len(mem) = alloc_len

(* The call in progress leaves no gap, and what it needs was not reduced;  *)
(* memory is only asked for if there is not enough.                        *)
CallOK ==
  pc # "idle" =>
    LET needed == call.index + Len(call.items) + IF call.ended THEN 1 ELSE 0
    IN  /\ call.index <= valid_len
        /\ call.ended => call.index = valid_len
        /\ needed <= MaxLen
        /\ pc = "grow" => Doubled(new_len) /\ alloc_len < needed
        /\ pc = "copy" => needed <= alloc_len

(* ItemsKept, item by item.                                                *)
StoredOK ==
  /\ Len(stored) = valid_len
  /\ \A k \in 1 .. valid_len : mem[k] = stored[k]

GrowInv == TypeOK /\ SizesOK /\ CallOK /\ StoredOK

=============================================================================
