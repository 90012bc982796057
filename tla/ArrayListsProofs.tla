-------------------------- MODULE ArrayListsProofs --------------------------
(***************************************************************************)
(* What the last parts of ArrayList.add and remove do to the visible       *)
(* elements, what remove's search returns, and two facts about sequences   *)
(* without repetitions (the backlog, the list of providers).  Used by the  *)
(* theorems about SessionRegistry and Mailbox.                             *)
(***************************************************************************)
EXTENDS ArrayLists, SequenceTheorems, WellFoundedInduction, TLAPS

(* A slot holds an element or nothing, within the array and beyond it. *)
LEMMA SlotType ==
  ASSUME NEW S, NEW list \in Lists(S), NEW i
  PROVE  Slot(list, i) \in S \cup {Null}
  BY DEF Lists, Slot

(* add(e) keeps the list a list, whatever size it read. *)
LEMMA PutAtType ==
  ASSUME NEW S, NEW list \in Lists(S), NEW n \in Nat, NEW e \in S \cup {Null}
  PROVE  PutAt(list, n, e) \in Lists(S)
<1> DEFINE m == IF n < Len(list.slot) THEN Len(list.slot) ELSE n + 1
           f == [i \in 1..m |-> IF i = n + 1 THEN e ELSE Slot(list, i)]
<1>1. list.slot \in Seq(S \cup {Null}) BY DEF Lists
<1>2. m \in Nat BY <1>1
<1>3. \A i \in 1..m : f[i] \in S \cup {Null} BY SlotType
<1>4. f \in Seq(S \cup {Null})
  <2>1. f \in [1..m -> S \cup {Null}] BY <1>3
  <2> HIDE DEF f, m
  <2> QED BY <1>2, <2>1, SeqDef
<1>5. n + 1 \in Int OBVIOUS
<1> QED BY <1>4, <1>5 DEF PutAt, Lists

(* add(e) stores e in the slot after the n it counted, and nothing else. *)
LEMMA PutAtSlot ==
  ASSUME NEW S, NEW list \in Lists(S), NEW n \in Nat, NEW e, NEW i \in Nat
  PROVE  Slot(PutAt(list, n, e), i) = IF i = n + 1 THEN e ELSE Slot(list, i)
<1>1. list.slot \in Seq(S \cup {Null}) /\ Len(list.slot) \in Nat BY DEF Lists
<1>2. DOMAIN list.slot = 1..Len(list.slot) BY <1>1
<1> QED BY <1>1, <1>2 DEF PutAt, Slot

(* Whatever add(e) leaves is a list of the size it read and one; a slot is *)
(* what it was, or holds e.                                                *)
LEMMA AddedType ==
  ASSUME NEW S, NEW list \in Lists(S), NEW n \in Nat, NEW e \in S \cup {Null},
         NEW new \in Added(list, n, e)
  PROVE  /\ new \in Lists(S) /\ new.size = n + 1
         /\ \A i \in Nat : Slot(new, i) # Slot(list, i) => i = n + 1 /\ Slot(new, i) = e
<1>1. CASE new = PutAt(list, n, e)
  <2>1. new \in Lists(S) BY <1>1, PutAtType
  <2>2. new.size = n + 1 BY <1>1 DEF PutAt
  <2>3. \A i \in Nat : Slot(new, i) = IF i = n + 1 THEN e ELSE Slot(list, i)
    BY <1>1, PutAtSlot
  <2> QED BY <2>1, <2>2, <2>3
<1>2. CASE new = PutNowhere(list, n)
  <2>1. new = [slot |-> list.slot, size |-> n + 1] BY <1>2 DEF PutNowhere, Lists
  <2>2. n + 1 \in Int OBVIOUS
  <2>3. new \in Lists(S) BY <2>1, <2>2 DEF Lists
  <2> QED BY <2>1, <2>3 DEF Slot
<1> QED BY <1>1, <1>2 DEF Added

(* remove keeps the list a list, whatever size it read. *)
LEMMA DropAtType ==
  ASSUME NEW S, NEW list \in Lists(S), NEW k \in Nat, NEW n \in Int
  PROVE  DropAt(list, k, n) \in Lists(S)
<1> DEFINE f == [i \in DOMAIN list.slot |->
                   IF i \in k..(n - 1) THEN Slot(list, i + 1)
                   ELSE IF i = n THEN Null ELSE list.slot[i]]
<1>1. list.slot \in Seq(S \cup {Null}) /\ Len(list.slot) \in Nat BY DEF Lists
<1>2. DOMAIN list.slot = 1..Len(list.slot) BY <1>1
<1>3. \A i \in 1..Len(list.slot) : f[i] \in S \cup {Null} BY <1>1, <1>2, SlotType
<1>4. f \in Seq(S \cup {Null})
  <2>1. f \in [1..Len(list.slot) -> S \cup {Null}] BY <1>2, <1>3
  <2> HIDE DEF f
  <2> QED BY <1>1, <2>1, SeqDef
<1>5. n - 1 \in Int OBVIOUS
<1> QED BY <1>4, <1>5 DEF DropAt, Lists

LEMMA DroppedType ==
  ASSUME NEW S, NEW list \in Lists(S), NEW k \in Nat, NEW n \in Int,
         NEW new \in Dropped(list, k, n)
  PROVE  new \in Lists(S)
<1>1. CASE new = DropAt(list, k, n) BY <1>1, DropAtType
<1>2. CASE new = [list EXCEPT !.size = n - 1]
  <2>1. n - 1 \in Int OBVIOUS
  <2> QED BY <1>2, <2>1 DEF Lists
<1> QED BY <1>1, <1>2 DEF Dropped

(* remove moves the slots after k down by one and leaves those before it. *)
LEMMA DropAtSlot ==
  ASSUME NEW S, NEW list \in Lists(S), NEW n \in Nat \ {0}, NEW k \in 1..n,
         NEW i \in 1..(n - 1)
  PROVE  Slot(DropAt(list, k, n), i) = IF i < k THEN Slot(list, i) ELSE Slot(list, i + 1)
<1>1. list.slot \in Seq(S \cup {Null}) /\ Len(list.slot) \in Nat BY DEF Lists
<1>2. DOMAIN list.slot = 1..Len(list.slot) BY <1>1
<1> QED BY <1>1, <1>2 DEF DropAt, Slot

(* Alone, add(e) appends: what is visible is what was, and e; and if e was *)
(* not there and nothing was there twice, nothing is there twice.          *)
LEMMA AddAlone ==
  ASSUME NEW S, NEW list \in Lists(S), list.size \in Nat, NEW e,
         NEW new \in Added(list, list.size, e)
  PROVE  /\ Members(new) = Members(list) \cup {e}
         /\ Distinct(list) /\ e \notin Members(list) => Distinct(new)
<1> DEFINE n == list.size
<1>1. n \in Nat /\ new = PutAt(list, n, e) BY DEF Added
<1>2. Visible(new) = 1..(n + 1) /\ Visible(list) = 1..n BY <1>1 DEF PutAt, Visible
<1>3. \A i \in 1..(n + 1) : Slot(new, i) = IF i = n + 1 THEN e ELSE Slot(list, i)
  BY <1>1, PutAtSlot
<1> HIDE DEF n
<1>4. Members(new) = Members(list) \cup {e} BY <1>1, <1>2, <1>3 DEF Members
<1>5. ASSUME Distinct(list), e \notin Members(list),
             NEW i \in Visible(new), NEW j \in Visible(new), Slot(new, i) = Slot(new, j)
      PROVE  i = j
  BY <1>1, <1>2, <1>3, <1>5 DEF Members, Distinct
<1> QED BY <1>4, <1>5 DEF Distinct

(* Alone, remove takes out the one element of slot k, when no other slot   *)
(* holds the same, and nothing comes to be there twice.                    *)
LEMMA RemoveAlone ==
  ASSUME NEW S, NEW list \in Lists(S), NEW k \in Visible(list), Distinct(list),
         NEW new \in Dropped(list, k, list.size)
  PROVE  /\ Members(new) = Members(list) \ {Slot(list, k)}
         /\ Distinct(new)
<1> DEFINE n == list.size
<1>1. n \in Nat \ {0} /\ k \in 1..n /\ new = DropAt(list, k, n)
  BY DEF Lists, Visible, Dropped
<1>2. Visible(new) = 1..(n - 1) /\ Visible(list) = 1..n BY <1>1 DEF DropAt, Visible
<1>3. \A i \in 1..(n - 1) :
         Slot(new, i) = IF i < k THEN Slot(list, i) ELSE Slot(list, i + 1)
  BY <1>1, DropAtSlot
<1> HIDE DEF n
<1>4. Members(new) \subseteq Members(list) \ {Slot(list, k)}
  BY <1>1, <1>2, <1>3 DEF Members, Distinct
<1>5. Members(list) \ {Slot(list, k)} \subseteq Members(new)
  <2> SUFFICES ASSUME NEW i \in 1..n, i # k
               PROVE  Slot(list, i) \in Members(new)
    BY <1>2 DEF Members
  <2>1. CASE i < k BY <2>1, <1>1, <1>2, <1>3 DEF Members
  <2>2. CASE i > k
    <3>1. i - 1 \in 1..(n - 1) /\ ~(i - 1 < k) BY <2>2, <1>1
    <3>2. Slot(new, i - 1) = Slot(list, i) BY <3>1, <1>1, <1>3
    <3> QED BY <3>1, <3>2, <1>2 DEF Members
  <2> QED BY <2>1, <2>2, <1>1
<1>6. ASSUME NEW i \in Visible(new), NEW j \in Visible(new), Slot(new, i) = Slot(new, j)
      PROVE  i = j
  <2> DEFINE Old(x) == IF x < k THEN x ELSE x + 1
  <2>1. Old(i) \in 1..n /\ Old(j) \in 1..n BY <1>1, <1>2
  <2>2. Slot(list, Old(i)) = Slot(list, Old(j)) BY <1>1, <1>2, <1>3, <1>6
  <2>3. Old(i) = Old(j) BY <2>1, <2>2, <1>2 DEF Distinct
  <2> QED BY <2>3, <1>1, <1>2
<1> QED BY <1>4, <1>5, <1>6 DEF Distinct

(* remove's search finds a visible slot that holds the element. *)
LEMMA FirstIndexFinds ==
  ASSUME NEW list, list.size \in Int, NEW e, Has(list, e)
  PROVE  FirstIndex(list, e) \in Visible(list) /\ Slot(list, FirstIndex(list, e)) = e
<1> DEFINE T == {i \in Visible(list) : Slot(list, i) = e}
           R == OpToRel(<, Nat)
<1>1. T \subseteq Nat /\ T # {} BY DEF Has, Visible
<1>2. PICK i \in T : \A j \in T : ~(<<j, i>> \in R)
  <2>1. IsWellFoundedOn(R, Nat) BY NatLessThanWellFounded
  <2> HIDE DEF R, T
  <2> QED BY <1>1, <2>1, WFMin
<1>3. \A j \in T : ~(j < i) BY <1>1, <1>2 DEF OpToRel
<1>4. \A j \in 1..(i - 1) : Slot(list, j) # e BY <1>3 DEF Visible
<1> QED BY <1>4 DEF FirstIndex

-----------------------------------------------------------------------------
(* A queue without repetitions stays one when it grows by a new element    *)
(* or loses its head.                                                      *)
Held(q) == {q[i] : i \in 1..Len(q)}
NoRepeats(q) == \A i, j \in 1..Len(q) : q[i] = q[j] => i = j

LEMMA Enqueue ==
  ASSUME NEW S, NEW q \in Seq(S), NEW e \in S
  PROVE  /\ Held(Append(q, e)) = Held(q) \cup {e}
         /\ NoRepeats(q) /\ e \notin Held(q) => NoRepeats(Append(q, e))
<1> DEFINE n == Len(q)
           a == Append(q, e)
<1>1. n \in Nat /\ Len(a) = n + 1 /\ a[n + 1] = e /\ \A i \in 1..n : a[i] = q[i]
  BY AppendProperties
<1>2. Held(a) = {a[i] : i \in 1..(n + 1)} /\ Held(q) = {q[i] : i \in 1..n}
  BY <1>1 DEF Held
<1>3. /\ NoRepeats(a) <=> \A i, j \in 1..(n + 1) : a[i] = a[j] => i = j
      /\ NoRepeats(q) <=> \A i, j \in 1..n : q[i] = q[j] => i = j
  BY <1>1 DEF NoRepeats
<1> HIDE DEF n, a
<1>4. \A i \in 1..(n + 1) : i \in 1..n \/ i = n + 1 BY <1>1
<1>5. Held(a) = Held(q) \cup {e} BY <1>1, <1>2, <1>4
<1>6. ASSUME NoRepeats(q), e \notin Held(q) PROVE NoRepeats(a)
  BY <1>1, <1>2, <1>3, <1>4, <1>6
<1> QED BY <1>5, <1>6 DEF a

LEMMA Dequeue ==
  ASSUME NEW S, NEW q \in Seq(S), q # <<>>
  PROVE  /\ Head(q) \in Held(q)
         /\ Held(Tail(q)) \subseteq Held(q)
         /\ NoRepeats(q) => NoRepeats(Tail(q)) /\ Head(q) \notin Held(Tail(q))
<1> DEFINE n == Len(q)
           d == Tail(q)
<1>1. /\ n \in Nat \ {0} /\ Len(d) = n - 1
      /\ Head(q) = q[1] /\ \A i \in 1..(n - 1) : d[i] = q[i + 1]
  BY HeadTailProperties, LenProperties, EmptySeq
<1>2. Held(d) = {d[i] : i \in 1..(n - 1)} /\ Held(q) = {q[i] : i \in 1..n}
  BY <1>1 DEF Held
<1>3. /\ NoRepeats(d) <=> \A i, j \in 1..(n - 1) : d[i] = d[j] => i = j
      /\ NoRepeats(q) <=> \A i, j \in 1..n : q[i] = q[j] => i = j
  BY <1>1 DEF NoRepeats
<1> HIDE DEF n, d
<1>4. \A i \in 1..(n - 1) : i + 1 \in 1..n /\ i + 1 # 1 BY <1>1
<1>5. 1 \in 1..n BY <1>1
<1> QED BY <1>1, <1>2, <1>3, <1>4, <1>5 DEF d
=============================================================================
