----------------------------- MODULE ArrayLists -----------------------------
(***************************************************************************)
(* The java.util.ArrayList the server shares between its threads without a *)
(* lock (Server.userArray, Server.currentUserArray, messageArray), as its  *)
(* source is since Java 9.  The library is external to the repository.  A  *)
(* list is its backing array, which may hold stale elements past the end,  *)
(* and its size.  add(e) reads the array and the size and later stores the *)
(* slot and the new size; remove(o) searches, then reads the size, and     *)
(* later moves the slots and stores the new size.  Threads that interleave *)
(* here overwrite an element, keep a removed one, uncover a stale one,     *)
(* expose a slot never stored, store into an array that has been replaced  *)
(* meanwhile, run into the end of that array (an exception), or take the   *)
(* size below zero.  Reads and writes are sequentially consistent, and an  *)
(* array may be full at any time: its capacity is not modelled.            *)
(***************************************************************************)
EXTENDS Integers, Sequences

CONSTANT Null    \* the content of a slot never stored, or cleared by remove

EmptyList == [slot |-> <<>>, size |-> 0]
Lists(S)  == [slot : Seq(S \cup {Null}), size : Int]

Slot(list, i) == IF i \in DOMAIN list.slot THEN list.slot[i] ELSE Null
Visible(list) == 1..list.size
Has(list, e)  == \E i \in Visible(list) : Slot(list, i) = e
Members(list) == {Slot(list, i) : i \in Visible(list)}
Distinct(list) == \A i, j \in Visible(list) : Slot(list, i) = Slot(list, j) => i = j

(* The first slot that holds e; only used when Has(list, e). *)
FirstIndex(list, e) ==
  CHOOSE i \in Visible(list) :
    Slot(list, i) = e /\ \A j \in 1..(i - 1) : Slot(list, j) # e

(* The list grew after a thread had read its array at size n: that array   *)
(* may be the old, too small one.                                          *)
Outgrown(list, n) == list.size > n

(* Last part of add(e) by a thread that read size n. *)
PutAt(list, n, e) ==
  [slot |-> [i \in 1..(IF n < Len(list.slot) THEN Len(list.slot) ELSE n + 1) |->
               IF i = n + 1 THEN e ELSE Slot(list, i)],
   size |-> n + 1]

(* The same when the slot is stored in an array no longer in use. *)
PutNowhere(list, n) == [list EXCEPT !.size = n + 1]

(* What add(e) may leave, when it does not throw. *)
Added(list, n, e) ==
  {PutAt(list, n, e)} \cup (IF list.size # n THEN {PutNowhere(list, n)} ELSE {})

(* add(e) meets an index outside its array: always when the size it read   *)
(* is negative, and possibly when the array has been outgrown.             *)
AddMayThrow(list, n) == n < 0 \/ Outgrown(list, n)

(* Last part of remove(o) by a thread that found o in slot k and read size *)
(* m: slots k+1..m move down and slot m is cleared.                        *)
DropAt(list, k, m) ==
  [slot |-> [i \in DOMAIN list.slot |->
               IF i \in k..(m - 1) THEN Slot(list, i + 1)
               ELSE IF i = m THEN Null ELSE list.slot[i]],
   size |-> m - 1]

(* Again, the slots may be those of an array no longer in use. *)
Dropped(list, k, m) ==
  {DropAt(list, k, m)} \cup (IF list.size # m THEN {[list EXCEPT !.size = m - 1]} ELSE {})
=============================================================================
