------------------------ MODULE TrafficTimingProofs ------------------------
(***************************************************************************)
(* Proofs about time and numbers in TrafficSimulation, for every value of  *)
(* the constants: what the simulator's queue holds and when it is due, and *)
(* what the report's sums add up to.                                       *)
(***************************************************************************)
EXTENDS TrafficSimulationProofs, WellFoundedInduction

-----------------------------------------------------------------------------
(* Induction over a set of numbers. *)

LEMMA LeastNatural ==
  ASSUME NEW T \in SUBSET Nat, T # {}
  PROVE  \E n \in T : \A m \in T : n <= m
<1>1. PICK n \in T : \A m \in T : <<m, n>> \notin OpToRel(<, Nat)
  BY NatLessThanWellFounded, WFMin, Zenon
<1>2. \A m \in T : ~(m < n)
  BY <1>1 DEF OpToRel
<1> QED BY <1>2

(* What is true of 0 and of the successor of each number that it is true   *)
(* of is true of all.                                                      *)
LEMMA AllNaturals ==
  ASSUME NEW T, 0 \in T, \A n \in Nat : n \in T => n + 1 \in T
  PROVE  \A n \in Nat : n \in T
<1> SUFFICES ASSUME Nat \ T # {} PROVE FALSE
  OBVIOUS
<1>1. PICK n \in Nat \ T : \A m \in Nat \ T : n <= m
  BY LeastNatural
<1>2. n - 1 \in Nat /\ n - 1 \in T
  BY <1>1
<1> QED BY <1>1, <1>2

-----------------------------------------------------------------------------
(* The queue of events. *)

Sorted(q) == \A j, k \in 1..Len(q) : j <= k => q[j].at <= q[k].at

(* What an event is for: a flow's application, a meter, the stop.          *)
Slot(e) == <<IF e.do \in {"start", "send"} THEN "app" ELSE e.do, e.flow>>

OncePerSlot(q) == \A j, k \in 1..Len(q) : Slot(q[j]) = Slot(q[k]) => j = k

Queue(q) == q \in Seq(Events) /\ Sorted(q) /\ OncePerSlot(q)

Pending(q) == {q[k] : k \in 1..Len(q)}

LEMMA EventTypes ==
  ASSUME NEW q \in Seq(Events)
  PROVE  /\ Len(q) \in Nat /\ DOMAIN q = 1..Len(q)
         /\ \A k \in 1..Len(q) : q[k] \in Events /\ q[k].at \in Nat
<1>1. Len(q) \in Nat /\ DOMAIN q = 1..Len(q) /\ \A k \in 1..Len(q) : q[k] \in Events
  OBVIOUS
<1>2. \A e \in Events : e.at \in Nat
  BY DEF Events
<1> QED BY <1>1, <1>2

LEMMA InsertedIs ==
  ASSUME NEW E, NEW q \in Seq(E), NEW e \in E, NEW c \in 0..Len(q)
  PROVE  /\ InsertAt(q, 1 + c, e) \in Seq(E) /\ Len(InsertAt(q, 1 + c, e)) = Len(q) + 1
         /\ \A k \in 1..(Len(q) + 1) :
              InsertAt(q, 1 + c, e)[k] =
                IF k < 1 + c THEN q[k] ELSE IF k = 1 + c THEN e ELSE q[k - 1]
<1>1. PICK n \in Nat : n = Len(q)
  OBVIOUS
<1>2. PICK a : a = SubSeq(q, 1, c)
  OBVIOUS
<1>3. PICK b : b = SubSeq(q, 1 + c, n)
  OBVIOUS
<1>4. a \in Seq(E) /\ Len(a) = c /\ \A k \in 1..c : a[k] = q[k]
  BY <1>1, <1>2, SubSeqProperties
<1>5. b \in Seq(E) /\ Len(b) = n - c /\ \A k \in 1..(n - c) : b[k] = q[c + k]
  BY <1>1, <1>3, SubSeqProperties
<1>6. InsertAt(q, 1 + c, e) = a \o <<e>> \o b
  <2>1. (1 + c) - 1 = c
    OBVIOUS
  <2>2. InsertAt(q, 1 + c, e) = SubSeq(q, 1, (1 + c) - 1) \o <<e>> \o SubSeq(q, 1 + c, Len(q))
    BY DEF InsertAt
  <2> QED BY <1>1, <1>2, <1>3, <2>1, <2>2, Zenon
<1>7. PICK d : d = a \o <<e>>
  OBVIOUS
<1>8. /\ d \in Seq(E) /\ Len(d) = c + 1 /\ d[c + 1] = e
      /\ \A k \in 1..c : d[k] = q[k]
  <2>1. PICK w : w = <<e>>
    OBVIOUS
  <2>2. w \in Seq(E) /\ Len(w) = 1 /\ w[1] = e
    BY <2>1
  <2>3. d = a \o w
    BY <1>7, <2>1
  <2>4. c \in Nat
    BY <1>1
  <2>5. /\ d \in Seq(E) /\ Len(d) = Len(a) + Len(w)
        /\ \A k \in 1..(Len(a) + Len(w)) : d[k] = IF k <= Len(a) THEN a[k] ELSE w[k - Len(a)]
    BY <1>4, <2>2, <2>3, ConcatProperties
  <2>6. c + 1 \in 1..(c + 1) /\ ~(c + 1 <= c) /\ (c + 1) - c = 1
    BY <2>4
  <2>8. d[c + 1] = w[1]
    BY <1>4, <2>2, <2>5, <2>6
  <2>7. \A k \in 1..c : d[k] = a[k]
    BY <1>4, <2>2, <2>3, <2>4
  <2> QED BY <1>4, <2>2, <2>5, <2>7, <2>8
<1>9. /\ d \o b \in Seq(E) /\ Len(d \o b) = n + 1
      /\ \A k \in 1..(c + 1) : (d \o b)[k] = d[k]
      /\ \A k \in 1..(n - c) : (d \o b)[k + (c + 1)] = b[k]
  BY <1>1, <1>5, <1>8
<1>10. \A k \in 1..(n + 1) : k > c + 1 => (d \o b)[k] = q[k - 1]
  <2> SUFFICES ASSUME NEW k \in 1..(n + 1), k > c + 1 PROVE (d \o b)[k] = q[k - 1]
    OBVIOUS
  <2>1. PICK j \in 1..(n - c) : k = j + (c + 1)
    BY <1>1
  <2>2. c + j = k - 1
    BY <2>1
  <2> QED BY <1>5, <1>9, <2>1, <2>2
<1>11. InsertAt(q, 1 + c, e) = d \o b
  BY <1>6, <1>7
<1>12. /\ InsertAt(q, 1 + c, e) \in Seq(E) /\ Len(InsertAt(q, 1 + c, e)) = Len(q) + 1
  BY <1>1, <1>9, <1>11
<1>13. \A k \in 1..(n + 1) :
         (d \o b)[k] = IF k < 1 + c THEN q[k] ELSE IF k = 1 + c THEN e ELSE q[k - 1]
  BY <1>1, <1>8, <1>9, <1>10
<1> QED BY <1>1, <1>11, <1>12, <1>13

(* A new event has a place in a queue that is in order.                    *)
LEMMA PushIs ==
  ASSUME NEW q \in Seq(Events), Sorted(q), NEW e \in Events
  PROVE  \E i \in 1..(Len(q) + 1) :
           /\ Push(q, e) \in Seq(Events) /\ Len(Push(q, e)) = Len(q) + 1
           /\ \A k \in 1..(Len(q) + 1) :
                Push(q, e)[k] = IF k < i THEN q[k] ELSE IF k = i THEN e ELSE q[k - 1]
           /\ \A k \in 1..Len(q) : IF k < i THEN q[k].at <= e.at ELSE e.at <= q[k].at
<1> DEFINE before == {k \in DOMAIN q : q[k].at <= e.at}
           c == Cardinality(before)
           i == 1 + c
<1>1. /\ Len(q) \in Nat /\ DOMAIN q = 1..Len(q)
      /\ \A k \in 1..Len(q) : q[k] \in Events /\ q[k].at \in Nat
      /\ e.at \in Nat
  BY EventTypes DEF Events
<1>2. IsFiniteSet(before) /\ c \in Nat /\ c <= Len(q)
  <2>1. IsFiniteSet(1..Len(q)) /\ Cardinality(1..Len(q)) = Len(q)
    <3>1. Len(q) \in Int /\ Len(q) >= 0
      BY <1>1
    <3> QED BY <3>1, FS_Interval
  <2>2. before \in SUBSET (1..Len(q))
    BY <1>1
  <2> QED BY <2>1, <2>2, FS_Subset, FS_CardinalityType
<1>3. \A k \in 1..Len(q) : k \in before <=> k <= c
  <2> TAKE k \in 1..Len(q)
  <2>1. CASE k \in before
    <3>1. 1..k \subseteq before
      BY <1>1, <2>1 DEF Sorted
    <3>2. Cardinality(1..k) = k
      BY <1>1, FS_Interval
    <3>3. Cardinality(1..k) <= c
      BY <1>2, <3>1, FS_Subset
    <3> QED BY <2>1, <3>2, <3>3
  <2>2. CASE k \notin before
    <3>1. before \subseteq 1..(k - 1)
      BY <1>1, <2>2 DEF Sorted
    <3>2. IsFiniteSet(1..(k - 1)) /\ Cardinality(1..(k - 1)) = k - 1
      <4>1. k - 1 \in Int /\ k - 1 >= 0
        BY <1>1
      <4> QED BY <4>1, FS_Interval
    <3>3. c <= Cardinality(1..(k - 1))
      BY <3>1, <3>2, FS_Subset
    <3> QED BY <1>2, <2>2, <3>2, <3>3
  <2> QED BY <2>1, <2>2
<1>4. Push(q, e) = InsertAt(q, 1 + c, e)
  BY DEF Push
<1>5. \A k \in 1..Len(q) : IF k < i THEN q[k].at <= e.at ELSE e.at <= q[k].at
  BY <1>1, <1>2, <1>3
<1> HIDE DEF c
<1>6. c \in 0..Len(q)
  BY <1>1, <1>2
<1>7. i \in 1..(Len(q) + 1)
  BY <1>1, <1>6
<1>8. /\ Push(q, e) \in Seq(Events) /\ Len(Push(q, e)) = Len(q) + 1
      /\ \A k \in 1..(Len(q) + 1) :
           Push(q, e)[k] = IF k < i THEN q[k] ELSE IF k = i THEN e ELSE q[k - 1]
  <2> HIDE DEF i
  <2>1. PICK p : p = InsertAt(q, 1 + c, e)
    OBVIOUS
  <2>2. /\ p \in Seq(Events) /\ Len(p) = Len(q) + 1
        /\ \A k \in 1..(Len(q) + 1) :
             p[k] = IF k < 1 + c THEN q[k] ELSE IF k = 1 + c THEN e ELSE q[k - 1]
    <3>1. p \in Seq(Events)
      BY <1>6, <2>1, InsertedIs
    <3>2. Len(p) = Len(q) + 1
      BY <1>6, <2>1, InsertedIs
    <3>3. \A k \in 1..(Len(q) + 1) :
             p[k] = IF k < 1 + c THEN q[k] ELSE IF k = 1 + c THEN e ELSE q[k - 1]
      BY <1>6, <2>1, InsertedIs
    <3> QED BY <3>1, <3>2, <3>3
  <2> QED BY <1>4, <2>1, <2>2 DEF i
<1> QED BY <1>5, <1>7, <1>8

(* It is then pending with those that were, and the order is kept.         *)
LEMMA PushKeeps ==
  ASSUME NEW q, Queue(q), NEW e \in Events, \A x \in Pending(q) : Slot(x) # Slot(e)
  PROVE  /\ Queue(Push(q, e))
         /\ Pending(Push(q, e)) = Pending(q) \cup {e}
<1>1. q \in Seq(Events) /\ Sorted(q) /\ OncePerSlot(q)
  BY DEF Queue
<1>2. PICK p : p = Push(q, e)
  OBVIOUS
<1>3. PICK i \in 1..(Len(q) + 1) :
        /\ p \in Seq(Events) /\ Len(p) = Len(q) + 1
        /\ \A k \in 1..(Len(q) + 1) :
             p[k] = IF k < i THEN q[k] ELSE IF k = i THEN e ELSE q[k - 1]
        /\ \A k \in 1..Len(q) : IF k < i THEN q[k].at <= e.at ELSE e.at <= q[k].at
  BY <1>1, <1>2, PushIs
<1>4. PICK n \in Nat : n = Len(q) /\ \A k \in 1..n : q[k] \in Events /\ q[k].at \in Nat
  BY <1>1, EventTypes
<1>5. /\ i \in 1..(n + 1) /\ Len(p) = n + 1 /\ e.at \in Nat
      /\ \A k \in 1..(n + 1) : k < i => k \in 1..n /\ p[k] = q[k]
      /\ p[i] = e
      /\ \A k \in 1..(n + 1) : k > i => k - 1 \in 1..n /\ p[k] = q[k - 1]
      /\ \A k \in 1..n : k < i => q[k].at <= e.at
      /\ \A k \in 1..n : k >= i => e.at <= q[k].at
  <2>1. i \in 1..(n + 1) /\ Len(p) = n + 1
    BY <1>3, <1>4
  <2>2. e.at \in Nat
    BY DEF Events
  <2>3. \A k \in 1..(n + 1) : p[k] = IF k < i THEN q[k] ELSE IF k = i THEN e ELSE q[k - 1]
    BY <1>3, <1>4
  <2>4. \A k \in 1..n : IF k < i THEN q[k].at <= e.at ELSE e.at <= q[k].at
    BY <1>3, <1>4
  <2>5. \A k \in 1..(n + 1) : k < i => k \in 1..n /\ p[k] = q[k]
    BY <2>1, <2>3
  <2>6. \A k \in 1..(n + 1) : k > i => k - 1 \in 1..n /\ p[k] = q[k - 1]
    BY <2>1, <2>3
  <2> QED BY <2>1, <2>2, <2>3, <2>4, <2>5, <2>6
<1>6. Sorted(p)
  <2> SUFFICES ASSUME NEW j \in 1..(n + 1), NEW k \in 1..(n + 1), j <= k
               PROVE  p[j].at <= p[k].at
    BY <1>5 DEF Sorted
  <2>1. \A g, h \in 1..n : g <= h => q[g].at <= q[h].at
    BY <1>1, <1>4 DEF Sorted
  <2>2. CASE k < i
    BY <1>5, <2>1, <2>2
  <2>3. CASE k = i
    <3>1. CASE j = i
      BY <1>5, <2>3, <3>1
    <3>2. CASE j < i
      BY <1>5, <2>3, <3>2
    <3> QED BY <2>3, <3>1, <3>2
  <2>4. CASE k > i
    <3>1. k - 1 \in 1..n /\ k - 1 >= i /\ p[k] = q[k - 1]
      BY <1>5, <2>4
    <3>2. CASE j < i
      BY <1>5, <2>1, <3>1, <3>2
    <3>3. CASE j = i
      BY <1>5, <3>1, <3>3
    <3>4. CASE j > i
      <4>1. j - 1 \in 1..n /\ j - 1 <= k - 1 /\ p[j] = q[j - 1]
        BY <1>5, <3>4
      <4> QED BY <2>1, <3>1, <4>1
    <3> QED BY <3>2, <3>3, <3>4
  <2> QED BY <2>2, <2>3, <2>4
<1>7. \A k \in 1..n : Slot(q[k]) # Slot(e)
  BY <1>4 DEF Pending
<1>8. OncePerSlot(p)
  <2> SUFFICES ASSUME NEW j \in 1..(n + 1), NEW k \in 1..(n + 1), Slot(p[j]) = Slot(p[k])
               PROVE  j = k
    BY <1>5 DEF OncePerSlot
  <2>1. \A g, h \in 1..n : Slot(q[g]) = Slot(q[h]) => g = h
    BY <1>1, <1>4 DEF OncePerSlot
  <2> DEFINE From(g) == IF g < i THEN g ELSE g - 1
  <2>2. \A g \in 1..(n + 1) : g # i => From(g) \in 1..n /\ p[g] = q[From(g)]
    BY <1>5
  <2>3. CASE j = i
    BY <1>5, <1>7, <2>2, <2>3
  <2>4. CASE k = i
    BY <1>5, <1>7, <2>2, <2>4
  <2>5. CASE j # i /\ k # i
    <3>1. From(j) = From(k)
      <4> HIDE DEF From
      <4> QED BY <2>1, <2>2, <2>5
    <3> QED BY <2>5, <3>1
  <2> QED BY <2>3, <2>4, <2>5
<1>9. Pending(p) = Pending(q) \cup {e}
  <2>1. \A k \in 1..(n + 1) : p[k] \in Pending(q) \cup {e}
    <3> TAKE k \in 1..(n + 1)
    <3>1. k < i \/ k = i \/ k > i
      BY <1>5
    <3> QED BY <1>4, <1>5, <3>1 DEF Pending
  <2>2. \A k \in 1..n : q[k] \in Pending(p)
    <3> TAKE k \in 1..n
    <3>1. CASE k < i
      <4>1. k \in 1..(n + 1)
        OBVIOUS
      <4> QED BY <1>5, <3>1, <4>1 DEF Pending
    <3>2. CASE k >= i
      <4>1. k + 1 \in 1..(n + 1) /\ k + 1 > i /\ (k + 1) - 1 = k
        BY <1>5, <3>2
      <4> QED BY <1>5, <4>1 DEF Pending
    <3> QED BY <1>5, <3>1, <3>2
  <2>3. e \in Pending(p)
    BY <1>5 DEF Pending
  <2> QED BY <1>4, <1>5, <2>1, <2>2, <2>3 DEF Pending
<1> QED BY <1>2, <1>3, <1>6, <1>8, <1>9 DEF Queue

LEMMA OnePending ==
  ASSUME NEW q, Queue(q), NEW x \in Pending(q), NEW y \in Pending(q), Slot(x) = Slot(y)
  PROVE  x = y
  BY DEF Queue, OncePerSlot, Pending

(* The first event is the earliest, and the others stay as they are.       *)
LEMMA HeadIs ==
  ASSUME NEW q, Queue(q), q # <<>>
  PROVE  /\ Head(q) \in Pending(q) /\ Head(q) \in Events
         /\ \A x \in Pending(q) : x \in Events /\ Head(q).at <= x.at
         /\ Queue(Tail(q)) /\ Pending(Tail(q)) = Pending(q) \ {Head(q)}
         /\ \A x \in Pending(Tail(q)) : Slot(x) # Slot(Head(q))
<1>1. q \in Seq(Events) /\ Sorted(q) /\ OncePerSlot(q)
  BY DEF Queue
<1>2. PICK n \in Nat : n = Len(q) /\ \A k \in 1..n : q[k] \in Events /\ q[k].at \in Nat
  BY <1>1, EventTypes
<1>3. n \in Nat \ {0} /\ Head(q) = q[1] /\ 1 \in 1..n
  BY <1>1, <1>2
<1>4. PICK t : t = Tail(q)
  OBVIOUS
<1>5. /\ t \in Seq(Events) /\ Len(t) = n - 1
      /\ \A k \in 1..(n - 1) : t[k] = q[k + 1] /\ k + 1 \in 1..n
  BY <1>1, <1>2, <1>3, <1>4
<1>6. \A x \in Pending(q) : x \in Events /\ Head(q).at <= x.at
  BY <1>1, <1>2, <1>3 DEF Pending, Sorted
<1>7. Sorted(t)
  <2> SUFFICES ASSUME NEW j \in 1..(n - 1), NEW k \in 1..(n - 1), j <= k
               PROVE  t[j].at <= t[k].at
    BY <1>5 DEF Sorted
  <2>1. j + 1 \in 1..n /\ k + 1 \in 1..n /\ j + 1 <= k + 1
    BY <1>3
  <2> QED BY <1>1, <1>2, <1>5, <2>1 DEF Sorted
<1>8. OncePerSlot(t)
  <2> SUFFICES ASSUME NEW j \in 1..(n - 1), NEW k \in 1..(n - 1), Slot(t[j]) = Slot(t[k])
               PROVE  j = k
    BY <1>5 DEF OncePerSlot
  <2>1. j + 1 \in 1..n /\ k + 1 \in 1..n /\ Slot(q[j + 1]) = Slot(q[k + 1])
    BY <1>5
  <2>2. j + 1 = k + 1
    BY <1>1, <1>2, <2>1 DEF OncePerSlot
  <2> QED BY <2>2
<1>9. \A k \in 1..n : Slot(q[k]) = Slot(q[1]) => k = 1
  BY <1>1, <1>2, <1>3 DEF OncePerSlot
<1>10. \A x \in Pending(t) : x \in Pending(q) /\ Slot(x) # Slot(q[1])
  <2> SUFFICES ASSUME NEW k \in 1..(n - 1)
               PROVE  t[k] \in Pending(q) /\ Slot(t[k]) # Slot(q[1])
    BY <1>5 DEF Pending
  <2>1. t[k] = q[k + 1] /\ k + 1 \in 1..n /\ k + 1 # 1
    BY <1>5
  <2> QED BY <1>2, <1>9, <2>1 DEF Pending
<1>11. \A x \in Pending(q) : x # q[1] => x \in Pending(t)
  <2> SUFFICES ASSUME NEW k \in 1..n, q[k] # q[1]
               PROVE  q[k] \in Pending(t)
    BY <1>2 DEF Pending
  <2>1. k - 1 \in 1..(n - 1) /\ (k - 1) + 1 = k
    OBVIOUS
  <2> QED BY <1>5, <2>1 DEF Pending
<1>12. Head(q) \in Pending(q)
  BY <1>2, <1>3 DEF Pending
<1>13. Pending(t) = Pending(q) \ {q[1]}
  BY <1>10, <1>11
<1>14. Queue(t)
  BY <1>5, <1>7, <1>8 DEF Queue
<1> QED BY <1>3, <1>4, <1>6, <1>10, <1>12, <1>13, <1>14

-----------------------------------------------------------------------------
(* The simulator's start. *)

StartOf(f) == Event(StartTime(f), "start", f, 0)

WithStart(g, n) == IF n = 0 THEN Scheduled ELSE Push(g[n - 1], StartOf(n))

(* The starts can be added one after the other.                            *)
LEMMA WithStartsExists ==
  ASSUME MaxFlows \in Nat
  PROVE  WithStarts = [n \in 0..MaxFlows |-> WithStart(WithStarts, n)]
<1> DEFINE T == {n \in Nat : \E g : g = [m \in 0..n |-> WithStart(g, m)]}
<1>1. 0 \in T
  <2>1. PICK g : g = [m \in 0..0 |-> Scheduled]
    OBVIOUS
  <2>2. \A m \in 0..0 : WithStart(g, m) = Scheduled
    BY DEF WithStart
  <2>3. g = [m \in 0..0 |-> WithStart(g, m)]
    BY <2>1, <2>2
  <2> QED BY <2>3
<1>2. ASSUME NEW n \in Nat, n \in T
      PROVE  n + 1 \in T
  <2>1. PICK g : g = [m \in 0..n |-> WithStart(g, m)]
    BY <1>2
  <2>2. PICK h : h = [m \in 0..(n + 1) |-> IF m <= n THEN g[m] ELSE WithStart(g, n + 1)]
    OBVIOUS
  <2>3. \A m \in 0..(n + 1) : h[m] = WithStart(h, m)
    <3> TAKE m \in 0..(n + 1)
    <3>1. WithStart(g, m) = WithStart(h, m)
      <4>1. CASE m = 0
        BY <4>1 DEF WithStart
      <4>2. CASE m # 0
        <5>1. m - 1 \in 0..(n + 1) /\ m - 1 <= n
          BY <4>2
        <5>2. g[m - 1] = h[m - 1]
          BY <2>2, <5>1
        <5> QED BY <4>2, <5>2 DEF WithStart
      <4> QED BY <4>1, <4>2
    <3>2. CASE m <= n
      <4>1. m \in 0..n /\ h[m] = g[m]
        BY <2>2, <3>2
      <4> QED BY <2>1, <3>1, <4>1
    <3>3. CASE m = n + 1
      BY <2>2, <3>1, <3>3
    <3> QED BY <3>2, <3>3
  <2>4. h = [m \in 0..(n + 1) |-> WithStart(h, m)]
    BY <2>2, <2>3
  <2> QED BY <2>4
<1>3. MaxFlows \in T
  <2> HIDE DEF T
  <2> QED BY <1>1, <1>2, AllNaturals
<1>4. \E g : g = [n \in 0..MaxFlows |-> WithStart(g, n)]
  BY <1>3
<1>5. WithStarts = CHOOSE g : g = [n \in 0..MaxFlows |-> WithStart(g, n)]
  BY DEF WithStarts, WithStart, StartOf
<1> QED BY <1>4, <1>5

(* With n starts added, they are pending besides what was scheduled.       *)
LEMMA WithStartsIs ==
  ASSUME MaxFlows \in Nat, HalfSecond \in Nat, Queue(Scheduled),
         \A x \in Pending(Scheduled) : Slot(x)[1] # "app",
         NEW n \in 0..MaxFlows
  PROVE  /\ Queue(WithStarts[n])
         /\ Pending(WithStarts[n]) = Pending(Scheduled) \cup {StartOf(f) : f \in 1..n}
<1> DEFINE Added(m) == /\ Queue(WithStarts[m])
                       /\ Pending(WithStarts[m]) =
                            Pending(Scheduled) \cup {StartOf(f) : f \in 1..m}
           T == {m \in Nat : m <= MaxFlows => Added(m)}
<1>1. \A m \in 0..MaxFlows : WithStarts[m] = WithStart(WithStarts, m)
  BY WithStartsExists
<1>2. 0 \in T
  <2>1. WithStarts[0] = Scheduled
    BY <1>1 DEF WithStart
  <2>2. {StartOf(f) : f \in 1..0} = {}
    OBVIOUS
  <2> QED BY <2>1, <2>2
<1>3. ASSUME NEW m \in Nat, m \in T
      PROVE  m + 1 \in T
  <2> SUFFICES ASSUME m + 1 <= MaxFlows PROVE Added(m + 1)
    OBVIOUS
  <2>1. Added(m)
    BY <1>3
  <2>2. WithStarts[m + 1] = Push(WithStarts[m], StartOf(m + 1))
    <3>1. m + 1 \in 0..MaxFlows /\ m + 1 # 0 /\ (m + 1) - 1 = m
      OBVIOUS
    <3> QED BY <1>1, <3>1 DEF WithStart
  <2>3. StartOf(m + 1) \in Events
    <3>1. StartTime(m + 1) \in Nat
      BY DEF StartTime
    <3>2. m + 1 \in 0..MaxFlows
      OBVIOUS
    <3> QED BY <3>1, <3>2 DEF StartOf, Event, Events
  <2>4. \A f \in 1..(m + 1) : Slot(StartOf(f)) = <<"app", f>>
    BY DEF Slot, StartOf, Event
  <2>5. \A x \in Pending(WithStarts[m]) : Slot(x) # Slot(StartOf(m + 1))
    <3>1. Slot(StartOf(m + 1)) = <<"app", m + 1>>
      BY <2>4
    <3>2. \A f \in 1..m : Slot(StartOf(f)) # <<"app", m + 1>>
      BY <2>4
    <3>3. \A x \in Pending(Scheduled) : Slot(x) # <<"app", m + 1>>
      OBVIOUS
    <3> QED BY <2>1, <3>1, <3>2, <3>3
  <2>6. {StartOf(f) : f \in 1..(m + 1)} = {StartOf(f) : f \in 1..m} \cup {StartOf(m + 1)}
    <3>1. 1..(m + 1) = (1..m) \cup {m + 1}
      OBVIOUS
    <3> QED BY <3>1
  <2> QED BY <2>1, <2>2, <2>3, <2>5, <2>6, PushKeeps
<1>4. n \in T
  <2> HIDE DEF T
  <2> QED BY <1>2, <1>3, AllNaturals
<1> QED BY <1>4

-----------------------------------------------------------------------------
(* When the events are due. *)

Before == Early \cup {"flows"}

Wanted == IF Packets = 0 THEN 1 ELSE Packets
StillSends(f) == Program = "taskALowRate" \/ sent[f] < Wanted

FlowMeter(f) == Event(FirstReading, "meter", f, 0)

ClockTypes ==
  /\ now \in 0..StopTime
  /\ sent \in [Flows -> Nat] /\ inFlight \in [Flows -> 0..Buffer] /\ totalRx \in [Flows -> Nat]
  /\ lastTotalRx \in Nat /\ unread \in [Flows -> [count : Nat, since : 0..StopTime]]
  /\ frames \in [sent : Nat, dropped : Nat, since : 0..StopTime]

(* Nothing has happened before the simulator runs. *)
Fresh ==
  /\ now = 0
  /\ sent = [f \in Flows |-> 0] /\ inFlight = [f \in Flows |-> 0]
  /\ totalRx = [f \in Flows |-> 0]
  /\ lastTotalRx = 0 /\ unread = [f \in Flows |-> NoneUnread]
  /\ totalPacketsSent = 0 /\ totalPacketsDropped = 0 /\ frames = NoFrames
  /\ Queue(queue)
  /\ Pending(queue) = IF Program = "taskAHighRate" THEN {FlowMeter(f) : f \in 1..Len(placed)}
                      ELSE {}

(* What main has left behind when it starts the simulator.                 *)
SetUpInv ==
  /\ sink = IF Program = "taskAHighRate" THEN 0 ELSE Len(placed)
  /\ placed # <<>> => HasRate
  /\ phase = "running" => Len(placed) = scenario.flows

(* Nothing is sent before its application starts.                          *)
SentInv ==
  \A f \in Flows : /\ inFlight[f] > 0 => sent[f] > 0
                   /\ sent[f] > 0 => now >= StartTime(f)

AppDue(x) ==
  x.do \in {"start", "send"} =>
    /\ x.flow \in 1..scenario.flows
    /\ x.at = StartTime(x.flow) + PacketInterval * sent[x.flow]

(* A meter is due a period after it last read, or for the first time.      *)
PeriodDue(x) ==
  /\ x.at >= FirstReading
  /\ x.at = FirstReading \/ x.at <= now + Period

ReadSink(x) == IF x.flow = 0 THEN sink ELSE x.flow
ReadLast(x) == IF x.flow = 0 THEN lastTotalRx ELSE x.last

(* It has not read what its sink received within the last period, and      *)
(* nothing older.                                                          *)
MeterDue(x) ==
  x.do = "meter" =>
    /\ PeriodDue(x)
    /\ IF x.flow = 0 THEN Program # "taskAHighRate"
                     ELSE Program = "taskAHighRate" /\ x.flow \in 1..scenario.flows
    /\ ReadSink(x) # 0 =>
         /\ totalRx[ReadSink(x)] = ReadLast(x) + unread[ReadSink(x)].count
         /\ unread[ReadSink(x)].count > 0 /\ (Program = "taskALowRate" => x.at > FirstReading)
              => unread[ReadSink(x)].since + Period >= x.at

DropsDue(x) ==
  x.do = "drops" =>
    /\ PeriodDue(x)
    /\ Program = "taskB" /\ x.flow = 0
    /\ frames.sent + frames.dropped > 0 => frames.since + Period >= x.at

StopDue(x) == x.do = "stop" => x.at = StopTime /\ x.flow = 0

Due(x) == now <= x.at /\ AppDue(x) /\ MeterDue(x) /\ DropsDue(x) /\ StopDue(x)

(* While the simulator runs its events are in order, each is due when it   *)
(* should be, and a flow has one as long as it has packets to send.        *)
EventsInv ==
  /\ Queue(queue)
  /\ \A x \in Pending(queue) : Due(x)
  /\ \E x \in Pending(queue) : x.do = "stop"
  /\ \A f \in 1..scenario.flows :
       StillSends(f) <=> \E x \in Pending(queue) : Slot(x) = <<"app", f>>

(* What the drop meter has counted is what there was to count.             *)
FramesInv == totalPacketsSent = frames.sent /\ totalPacketsDropped = frames.dropped

TimeInv ==
  /\ ClockTypes /\ SetUpInv /\ SentInv /\ FramesInv
  /\ phase \in Before => Fresh
  /\ phase = "running" => EventsInv
  /\ ReadingOfOnePeriod /\ RatioOfOnePeriod

(* The constants, and what is computed from the scenario. *)
LEMMA ClockConstants ==
  /\ MaxFlows \in Nat /\ HalfSecond \in Nat \ {0} /\ Period \in Nat \ {0}
  /\ Interval \in Nat \ {0} /\ StopTime \in Nat \ {0} /\ Buffer \in Nat \ {0}
  /\ FirstReading \in Nat /\ FirstReading = 2 * HalfSecond + Period
  BY SimulationAssumption DEF FirstReading

LEMMA SendingTimes ==
  ASSUME scenario \in Scenarios
  PROVE  /\ \A f \in Flows : StartTime(f) \in Nat
         /\ \A f \in Flows : Program # "taskALowRate" => StartTime(f) + Period >= FirstReading
         /\ HasRate => PacketInterval \in Nat
         /\ Packets \in Nat /\ Wanted \in Nat \ {0}
<1>1. ASSUME NEW f \in Flows
      PROVE  /\ StartTime(f) \in Nat
             /\ Program # "taskALowRate" => StartTime(f) + Period >= FirstReading
  <2>1. f \in Nat \ {0} /\ f + 1 \in Nat /\ 1 + f >= 2
    BY <1>1, ClockConstants DEF Flows
  <2>2. HalfSecond * (1 + f) \in Nat /\ HalfSecond * (1 + f) >= 2 * HalfSecond
    <3>1. PICK h \in Nat, m \in Nat : h = HalfSecond /\ f = m + 1
      <4>1. f - 1 \in Nat /\ f = (f - 1) + 1
        BY <2>1
      <4> QED BY <4>1, ClockConstants
    <3>2. h * (1 + f) = 2 * h + h * m /\ h * m \in Nat
      BY <3>1
    <3> QED BY <3>1, <3>2
  <2> QED BY <2>2, ClockConstants DEF StartTime
<1>2. ASSUME HasRate PROVE PacketInterval \in Nat
  <2>1. CASE Program = "taskALowRate"
    <3>1. scenario.rate \in {100, 200, 300, 400, 500}
      BY <1>2, <2>1 DEF HasRate, HasDataRate
    <3>2. 400 * Interval \in Nat
      BY ClockConstants
    <3>3. (400 * Interval) \div scenario.rate \in Nat
      BY <3>1, <3>2
    <3> QED BY <2>1, <3>3 DEF PacketInterval
  <2>2. CASE Program # "taskALowRate"
    BY <2>2, ClockConstants DEF PacketInterval
  <2> QED BY <2>1, <2>2
<1>3. Packets \in Nat
  <2>1. scenario.packets \in Int /\ Word \in Nat \ {0}
    BY TopologyAssumption
  <2> QED BY <2>1 DEF Packets
<1> QED BY <1>1, <1>2, <1>3 DEF Wanted

LEMMA Settles ==
  ASSUME scenario' = scenario
  PROVE  /\ Program' = Program /\ Packets' = Packets /\ Wanted' = Wanted
         /\ PacketInterval' = PacketInterval /\ FirstReading' = FirstReading
         /\ HasRate' = HasRate
         /\ \A f : StartTime(f)' = StartTime(f)
  BY DEF Program, Packets, Wanted, PacketInterval, FirstReading, HasRate, HasDataRate, StartTime

(* An event stays due when what it says of the state stays true, and time  *)
(* does not pass it.                                                       *)
LEMMA StillDue ==
  ASSUME NEW z \in Events, Due(z), now \in Nat, now' \in Nat, now <= now', now' <= z.at,
         scenario' = scenario, sink' = sink,
         z.do \in {"start", "send"} => sent'[z.flow] = sent[z.flow],
         z.do = "meter" =>
           /\ z.flow = 0 => lastTotalRx' = lastTotalRx
           /\ ReadSink(z) # 0 => /\ totalRx'[ReadSink(z)] = totalRx[ReadSink(z)]
                                 /\ unread'[ReadSink(z)] = unread[ReadSink(z)],
         z.do = "drops" => frames' = frames
  PROVE  Due(z)'
<1>1. z.at \in Nat /\ FirstReading \in Nat /\ Period \in Nat
  BY ClockConstants DEF Events
<1>2. PeriodDue(z) => PeriodDue(z)'
  BY <1>1, Settles DEF PeriodDue
<1>3. AppDue(z)'
  BY Settles DEF Due, AppDue
<1>4. ReadSink(z)' = ReadSink(z)
  BY DEF ReadSink
<1>5. MeterDue(z)'
  <2> SUFFICES ASSUME z.do = "meter" PROVE MeterDue(z)'
    BY DEF MeterDue
  <2>1. ReadLast(z)' = ReadLast(z)
    BY DEF ReadLast
  <2>2. PeriodDue(z)'
    BY <1>2 DEF Due, MeterDue
  <2>3. IF z.flow = 0 THEN Program' # "taskAHighRate"
                      ELSE Program' = "taskAHighRate" /\ z.flow \in 1..scenario'.flows
    BY Settles DEF Due, MeterDue
  <2>4. CASE ReadSink(z) = 0
    BY <1>4, <2>2, <2>3, <2>4 DEF MeterDue
  <2>5. CASE ReadSink(z) # 0
    <3>1. PICK s : s = ReadSink(z)
      OBVIOUS
    <3>2. ReadSink(z)' = s /\ totalRx'[s] = totalRx[s] /\ unread'[s] = unread[s]
      BY <1>4, <2>5, <3>1
    <3>3. /\ totalRx[s] = ReadLast(z) + unread[s].count
          /\ unread[s].count > 0 /\ (Program = "taskALowRate" => z.at > FirstReading)
               => unread[s].since + Period >= z.at
      BY <2>5, <3>1 DEF Due, MeterDue
    <3> QED BY <2>1, <2>2, <2>3, <3>2, <3>3, Settles DEF MeterDue
  <2> QED BY <2>4, <2>5
<1>6. DropsDue(z)'
  BY <1>2, Settles DEF Due, DropsDue
<1>7. StopDue(z)'
  BY DEF Due, StopDue
<1> QED BY <1>3, <1>5, <1>6, <1>7 DEF Due

(* The simulator takes the first event, which is due.                      *)
LEMMA Dispatched ==
  ASSUME TimeInv, NEW do, Dispatch(do), NEW x, x = Head(queue)
  PROVE  /\ phase = "running" /\ EventsInv /\ x.do = do
         /\ x \in Pending(queue) /\ x \in Events /\ Due(x)
         /\ now' = x.at /\ now \in Nat /\ now' \in 0..StopTime /\ now <= now'
         /\ \A z \in Pending(queue) : z \in Events /\ Due(z) /\ now' <= z.at
         /\ Queue(Tail(queue)) /\ Pending(Tail(queue)) = Pending(queue) \ {x}
         /\ \A z \in Pending(queue) : z # x => Slot(z) # Slot(x)
<1>1. phase = "running" /\ queue # <<>> /\ x.do = do /\ now' = x.at
  BY DEF Dispatch
<1>2. EventsInv /\ Queue(queue)
  BY <1>1 DEF TimeInv, EventsInv
<1>3. /\ x \in Pending(queue) /\ x \in Events
      /\ \A z \in Pending(queue) : z \in Events /\ x.at <= z.at
      /\ Queue(Tail(queue)) /\ Pending(Tail(queue)) = Pending(queue) \ {x}
      /\ \A z \in Pending(Tail(queue)) : Slot(z) # Slot(x)
  BY <1>1, <1>2, HeadIs
<1>4. \A z \in Pending(queue) : Due(z)
  BY <1>2 DEF EventsInv
<1>5. now \in Nat /\ x.at \in Nat /\ now <= x.at
  BY <1>3, <1>4, ClockConstants DEF TimeInv, ClockTypes, Events, Due
<1>6. x.at <= StopTime
  <2>1. PICK z \in Pending(queue) : z.do = "stop"
    BY <1>2 DEF EventsInv
  <2> QED BY <1>3, <1>4, <2>1 DEF Due, StopDue
<1>7. now' \in 0..StopTime
  BY <1>1, <1>5, <1>6, ClockConstants
<1> QED BY <1>1, <1>2, <1>3, <1>4, <1>5, <1>7

(* An event that takes the place of the first one for the same.            *)
LEMMA Requeued ==
  ASSUME TimeInv, NEW do, Dispatch(do), NEW x, x = Head(queue),
         NEW y \in Events, Slot(y) = Slot(x), queue' = Push(Tail(queue), y)
  PROVE  Queue(queue') /\ Pending(queue') = (Pending(queue) \ {x}) \cup {y}
<1>1. \A z \in Pending(Tail(queue)) : Slot(z) # Slot(y)
  BY Dispatched
<1> QED BY <1>1, Dispatched, PushKeeps

-----------------------------------------------------------------------------
(* What each step leaves of it. *)

(* Once the simulator has stopped, or will not run, only the readings and  *)
(* the counts are spoken of.                                               *)
LEMMA RestKeeps ==
  ASSUME TimeInv, UNCHANGED <<scenario, placed, sink, networkVars, meterVars, dropVars>>,
         now' \in 0..StopTime, now <= now', phase' \notin Before, phase' # "running"
  PROVE  TimeInv'
<1>1. ClockTypes'
  BY DEF TimeInv, ClockTypes, networkVars, meterVars, dropVars
<1>2. SetUpInv'
  BY Settles DEF TimeInv, SetUpInv
<1>3. SentInv'
  <2>1. sent' = sent /\ inFlight' = inFlight
    BY DEF networkVars
  <2>2. scenario' = scenario
    OBVIOUS
  <2> SUFFICES ASSUME NEW f \in Flows
               PROVE  /\ inFlight'[f] > 0 => sent'[f] > 0
                      /\ sent'[f] > 0 => now' >= StartTime(f)'
    BY DEF SentInv
  <2>3. StartTime(f)' = StartTime(f)
    BY <2>2, Settles
  <2>4. inFlight[f] > 0 => sent[f] > 0
    BY DEF TimeInv, SentInv
  <2>5. sent[f] > 0 => now >= StartTime(f)
    BY DEF TimeInv, SentInv
  <2>6. now \in Int /\ now' \in Int /\ StartTime(f) \in Int
    BY ClockConstants DEF TimeInv, ClockTypes, StartTime, Flows
  <2> QED BY <2>1, <2>3, <2>4, <2>5, <2>6
<1>4. FramesInv'
  BY DEF TimeInv, FramesInv, dropVars
<1>5. ReadingOfOnePeriod'
  BY Settles DEF TimeInv, ReadingOfOnePeriod, meterVars
<1>6. RatioOfOnePeriod'
  BY DEF TimeInv, RatioOfOnePeriod, dropVars
<1> QED BY <1>1, <1>2, <1>3, <1>4, <1>5, <1>6 DEF TimeInv

LEMMA SameKeeps ==
  ASSUME TimeInv, UNCHANGED vars
  PROVE  TimeInv'
<1>1. /\ scenario' = scenario /\ placed' = placed /\ sink' = sink /\ now' = now /\ queue' = queue
      /\ phase' = phase /\ sent' = sent /\ inFlight' = inFlight /\ totalRx' = totalRx
      /\ lastTotalRx' = lastTotalRx /\ unread' = unread /\ reading' = reading
      /\ totalPacketsSent' = totalPacketsSent /\ totalPacketsDropped' = totalPacketsDropped
      /\ frames' = frames /\ ratio' = ratio
  BY DEF vars, setupVars, networkVars, meterVars, dropVars
<1>2. ClockTypes' /\ FramesInv' /\ ReadingOfOnePeriod' /\ RatioOfOnePeriod'
  BY <1>1, Settles DEF TimeInv, ClockTypes, FramesInv, ReadingOfOnePeriod, RatioOfOnePeriod
<1>3. SetUpInv'
  BY <1>1, Settles DEF TimeInv, SetUpInv
<1>4. SentInv'
  BY <1>1, Settles DEF TimeInv, SentInv
<1>5. (phase \in Before => Fresh)'
  <2> SUFFICES ASSUME phase \in Before
               PROVE  Fresh'
    BY <1>1
  <2>1. Fresh
    BY DEF TimeInv
  <2>2. Queue(queue)'
    BY <1>1, <2>1 DEF Fresh, Queue, Sorted, OncePerSlot
  <2>3. Pending(queue)' = Pending(queue)
    BY <1>1 DEF Pending
  <2>4. \A f : FlowMeter(f)' = FlowMeter(f)
    BY <1>1, Settles DEF FlowMeter, Event
  <2>5. (Program = "taskAHighRate")' <=> Program = "taskAHighRate"
    BY <1>1, Settles
  <2> QED BY <1>1, <2>1, <2>2, <2>3, <2>4, <2>5 DEF Fresh
<1>6. ASSUME phase = "running" PROVE EventsInv'
  <2>1. EventsInv
    BY <1>6 DEF TimeInv
  <2>2. Queue(queue)'
    BY <1>1, <2>1 DEF EventsInv, Queue, Sorted, OncePerSlot
  <2>3. Pending(queue)' = Pending(queue)
    BY <1>1 DEF Pending
  <2>4. \A z \in Pending(queue) : Due(z)'
    <3> TAKE z \in Pending(queue)
    <3>1. Due(z) /\ z \in Events
      BY <2>1 DEF EventsInv, Queue, Pending
    <3>2. now \in Nat /\ now <= z.at
      BY <3>1, ClockConstants DEF TimeInv, ClockTypes, Due
    <3> QED BY <1>1, <3>1, <3>2, StillDue
  <2>5. \A f : StillSends(f)' <=> StillSends(f)
    BY <1>1, Settles DEF StillSends
  <2> QED BY <1>1, <2>1, <2>2, <2>3, <2>4, <2>5 DEF EventsInv
<1> QED BY <1>1, <1>2, <1>3, <1>4, <1>5, <1>6 DEF TimeInv

LEMMA BuildingKeeps ==
  ASSUME NetworkInv, TimeInv, BuildNetwork
  PROVE  TimeInv'
<1>1. /\ scenario' = scenario /\ placed' = placed /\ placed = <<>> /\ sink' = sink
      /\ now' = now /\ queue' = queue
      /\ UNCHANGED <<networkVars, meterVars, dropVars>>
      /\ phase \in Before /\ phase' # "running"
  BY DEF BuildNetwork, Build, ParseOptions, CreateNodes, InstallMobility, AssignAddresses,
         NetworkInv, Early, Before
<1>2. Fresh
  BY <1>1 DEF TimeInv
<1>3. Fresh'
  BY <1>1, <1>2, Settles
     DEF Fresh, Queue, Sorted, OncePerSlot, Pending, FlowMeter, networkVars, meterVars, dropVars
<1>4. ClockTypes' /\ FramesInv' /\ ReadingOfOnePeriod' /\ RatioOfOnePeriod'
  BY <1>1, Settles DEF TimeInv, ClockTypes, FramesInv, ReadingOfOnePeriod, RatioOfOnePeriod,
                       networkVars, meterVars, dropVars
<1>5. SetUpInv'
  BY <1>1, Settles DEF TimeInv, SetUpInv
<1>6. SentInv'
  BY <1>1, Settles DEF TimeInv, SentInv, networkVars
<1> QED BY <1>1, <1>3, <1>4, <1>5, <1>6 DEF TimeInv

LEMMA PlacingKeeps ==
  ASSUME NetworkInv, FlowsInv, TimeInv, NEW f \in Flows, AddFlow(f)
  PROVE  TimeInv'
<1>1. /\ scenario' = scenario /\ now' = now /\ phase' = phase /\ phase = "flows"
      /\ f = Len(placed) + 1 /\ f <= scenario.flows /\ HasRate
      /\ placed' = Append(placed, Place(f)) /\ placed \in Seq(Places)
      /\ UNCHANGED <<networkVars, meterVars, dropVars>>
  BY DEF AddFlow, InLoop, FlowsInv
<1>2. /\ Len(placed) \in Nat /\ Len(placed') = Len(placed) + 1 /\ f \in 1..MaxFlows
      /\ f \in 1..Len(placed')
  BY <1>1, ClockConstants DEF Flows
<1>3. Fresh
  BY <1>1 DEF TimeInv, Before
<1>4. ClockTypes' /\ FramesInv' /\ ReadingOfOnePeriod' /\ RatioOfOnePeriod'
  BY <1>1, Settles DEF TimeInv, ClockTypes, FramesInv, ReadingOfOnePeriod, RatioOfOnePeriod,
                       networkVars, meterVars, dropVars
<1>5. SentInv'
  BY <1>1, Settles DEF TimeInv, SentInv, networkVars
<1>6. CASE Program = "taskAHighRate"
  <2>1. queue' = Push(queue, FlowMeter(f)) /\ sink' = sink
    BY <1>6 DEF AddFlow, FlowMeter
  <2>2. Queue(queue) /\ Pending(queue) = {FlowMeter(g) : g \in 1..Len(placed)}
    BY <1>3, <1>6 DEF Fresh
  <2>3. FlowMeter(f) \in Events
    BY <1>2, ClockConstants DEF FlowMeter, Event, Events
  <2>4. \A g \in 1..Len(placed) : Slot(FlowMeter(g)) # Slot(FlowMeter(f))
    <3>1. \A g : Slot(FlowMeter(g)) = <<"meter", g>>
      BY DEF Slot, FlowMeter, Event
    <3>2. \A g \in 1..Len(placed) : g # f
      BY <1>1, <1>2
    <3> QED BY <3>1, <3>2
  <2>5. Queue(queue') /\ Pending(queue') = Pending(queue) \cup {FlowMeter(f)}
    BY <2>1, <2>2, <2>3, <2>4, PushKeeps
  <2>6. 1..Len(placed') = (1..Len(placed)) \cup {f}
    BY <1>1, <1>2
  <2>7. Pending(queue') = {FlowMeter(g) : g \in 1..Len(placed')}
    BY <2>2, <2>5, <2>6
  <2>8. \A g : FlowMeter(g)' = FlowMeter(g)
    BY DEF FlowMeter, Event, FirstReading
  <2>9. Fresh'
    BY <1>1, <1>3, <1>6, <2>5, <2>7, <2>8, Settles
       DEF Fresh, networkVars, meterVars, dropVars
  <2>10. SetUpInv'
    BY <1>1, <1>6, <2>1, Settles DEF TimeInv, SetUpInv
  <2> QED BY <1>1, <1>4, <1>5, <2>9, <2>10 DEF TimeInv, Before
<1>7. CASE Program # "taskAHighRate"
  <2>1. queue' = queue /\ sink' = f
    BY <1>7 DEF AddFlow
  <2>2. Queue(queue) /\ Pending(queue) = {}
    BY <1>3, <1>7 DEF Fresh
  <2>3. Queue(queue') /\ Pending(queue') = {}
    BY <2>1, <2>2
  <2>4. Fresh'
    BY <1>1, <1>3, <1>7, <2>3, Settles DEF Fresh, networkVars, meterVars, dropVars
  <2>5. SetUpInv'
    BY <1>1, <1>2, <1>7, <2>1, Settles DEF TimeInv, SetUpInv
  <2> QED BY <1>1, <1>4, <1>5, <2>4, <2>5 DEF TimeInv, Before
<1> QED BY <1>6, <1>7

LEMMA AppendKeeps ==
  ASSUME NEW q, Queue(q), NEW e \in Events,
         \A x \in Pending(q) : x.at <= e.at /\ Slot(x) # Slot(e)
  PROVE  Queue(Append(q, e)) /\ Pending(Append(q, e)) = Pending(q) \cup {e}
<1>1. q \in Seq(Events) /\ Sorted(q) /\ OncePerSlot(q)
  BY DEF Queue
<1>2. PICK n \in Nat : n = Len(q) /\ \A k \in 1..n : q[k] \in Events /\ q[k].at \in Nat
  BY <1>1, EventTypes
<1>3. PICK p : p = Append(q, e)
  OBVIOUS
<1>4. /\ p \in Seq(Events) /\ Len(p) = n + 1 /\ p[n + 1] = e
      /\ \A k \in 1..n : p[k] = q[k]
  BY <1>1, <1>2, <1>3
<1>5. \A k \in 1..n : q[k].at <= e.at /\ Slot(q[k]) # Slot(e)
  BY <1>2 DEF Pending
<1>6. \A k \in 1..(n + 1) : k \in 1..n \/ k = n + 1
  BY <1>2
<1>7. Sorted(p)
  <2> SUFFICES ASSUME NEW j \in 1..(n + 1), NEW k \in 1..(n + 1), j <= k
               PROVE  p[j].at <= p[k].at
    BY <1>4 DEF Sorted
  <2>1. e.at \in Nat
    BY DEF Events
  <2> QED BY <1>1, <1>2, <1>4, <1>5, <1>6, <2>1 DEF Sorted
<1>8. OncePerSlot(p)
  BY <1>1, <1>2, <1>4, <1>5, <1>6 DEF OncePerSlot
<1>9. Pending(p) = Pending(q) \cup {e}
  <2>1. 1..(n + 1) = (1..n) \cup {n + 1}
    BY <1>2
  <2>2. Pending(p) = {p[k] : k \in 1..n} \cup {p[n + 1]}
    BY <1>4, <2>1 DEF Pending
  <2>3. {p[k] : k \in 1..n} = {q[k] : k \in 1..n}
    BY <1>4
  <2> QED BY <1>2, <1>4, <2>2, <2>3 DEF Pending
<1> QED BY <1>3, <1>4, <1>7, <1>8, <1>9 DEF Queue

Throughput == Event(FirstReading, "meter", 0, 0)
Drops      == Event(FirstReading, "drops", 0, 0)
StopEvent  == Event(StopTime, "stop", 0, 0)

(* The meters before a run, and the stop.                                  *)
Meters ==
  CASE Program = "taskAHighRate" -> {FlowMeter(f) : f \in 1..Len(placed)}
    [] Program = "taskB"         -> {Throughput, Drops}
    [] OTHER                     -> {Throughput}

LEMMA ScheduledIs ==
  ASSUME Fresh, Program \in Programs
  PROVE  Queue(Scheduled) /\ Pending(Scheduled) = Meters \cup {StopEvent}
<1>1. Throughput \in Events /\ Drops \in Events /\ StopEvent \in Events
  BY ClockConstants DEF Throughput, Drops, StopEvent, Event, Events
<1>2. /\ \A f : Slot(FlowMeter(f)) = <<"meter", f>>
      /\ Slot(Throughput) = <<"meter", 0>> /\ Slot(Drops) = <<"drops", 0>>
      /\ Slot(StopEvent) = <<"stop", 0>>
      /\ Throughput.at = FirstReading /\ Drops.at = FirstReading
  BY DEF Slot, FlowMeter, Throughput, Drops, StopEvent, Event
<1>3. \A x \in Meters : Slot(x) # Slot(StopEvent)
  <2>1. Program = "taskAHighRate" => Meters = {FlowMeter(f) : f \in 1..Len(placed)}
    BY DEF Meters
  <2>2. Program = "taskB" => Meters = {Throughput, Drops}
    BY DEF Meters
  <2>3. Program = "taskALowRate" => Meters = {Throughput}
    BY DEF Meters
  <2> QED BY <1>2, <2>1, <2>2, <2>3 DEF Programs
<1>4. Queue(<<>>) /\ Pending(<<>>) = {}
  BY DEF Queue, Sorted, OncePerSlot, Pending
<1>5. Queue(<<Throughput>>) /\ Pending(<<Throughput>>) = {Throughput}
  <2>1. <<Throughput>> = Append(<<>>, Throughput)
    OBVIOUS
  <2>2. /\ Queue(Append(<<>>, Throughput))
        /\ Pending(Append(<<>>, Throughput)) = Pending(<<>>) \cup {Throughput}
    BY <1>1, <1>4, AppendKeeps
  <2> QED BY <1>4, <2>1, <2>2
<1>6. /\ Queue(Append(<<Throughput>>, Drops))
      /\ Pending(Append(<<Throughput>>, Drops)) = {Throughput, Drops}
  <2>1. /\ Queue(Append(<<Throughput>>, Drops))
        /\ Pending(Append(<<Throughput>>, Drops)) = Pending(<<Throughput>>) \cup {Drops}
    <3>1. \A x \in Pending(<<Throughput>>) : x.at <= Drops.at /\ Slot(x) # Slot(Drops)
      BY <1>2, <1>5, ClockConstants
    <3> QED BY <1>1, <1>5, <3>1, AppendKeeps
  <2> QED BY <1>5, <2>1
<1>7. PICK m : /\ Scheduled = Push(m, StopEvent)
               /\ Queue(m) /\ Pending(m) = Meters
  <2>1. CASE Program = "taskAHighRate"
    <3>1. Scheduled = Push(queue, StopEvent)
      BY <2>1 DEF Scheduled, StopEvent
    <3> QED BY <2>1, <3>1 DEF Fresh, Meters
  <2>2. CASE Program = "taskB"
    <3>1. Scheduled = Push(Append(<<Throughput>>, Drops), StopEvent)
      BY <2>2 DEF Scheduled, StopEvent, Throughput, Drops
    <3> QED BY <1>6, <2>2, <3>1 DEF Meters
  <2>3. CASE Program = "taskALowRate"
    <3>1. Scheduled = Push(<<Throughput>>, StopEvent)
      BY <2>3 DEF Scheduled, StopEvent, Throughput
    <3> QED BY <1>5, <2>3, <3>1 DEF Meters
  <2> QED BY <2>1, <2>2, <2>3 DEF Programs
<1> QED BY <1>1, <1>3, <1>7, PushKeeps

LEMMA RunKeeps ==
  ASSUME NetworkInv, FlowsInv, TimeInv, Run
  PROVE  TimeInv'
<1>1. /\ scenario' = scenario /\ placed' = placed /\ sink' = sink /\ now' = now
      /\ UNCHANGED <<networkVars, meterVars, dropVars>>
      /\ phase = "flows" /\ phase' = "running" /\ Len(placed) = scenario.flows
      /\ queue' = WithStarts[scenario.flows]
  BY DEF Run, setupVars
<1>2. /\ Fresh /\ scenario \in Scenarios /\ Program \in Programs
      /\ scenario.flows \in 0..MaxFlows /\ MaxFlows \in Nat
      /\ placed \in Seq(Places)
  BY <1>1, ScenarioTypes DEF TimeInv, Before, NetworkInv, FlowsInv
<1>3. Queue(Scheduled) /\ Pending(Scheduled) = Meters \cup {StopEvent}
  BY <1>2, ScheduledIs
<1>4. /\ \A x \in Meters : \/ Program = "taskAHighRate" /\ \E f \in 1..scenario.flows : x = FlowMeter(f)
                           \/ Program # "taskAHighRate" /\ x = Throughput
                           \/ Program = "taskB" /\ x = Drops
  <2>1. Program = "taskAHighRate" => Meters = {FlowMeter(f) : f \in 1..Len(placed)}
    BY DEF Meters
  <2>2. Program = "taskB" => Meters = {Throughput, Drops}
    BY DEF Meters
  <2>3. Program = "taskALowRate" => Meters = {Throughput}
    BY DEF Meters
  <2> QED BY <1>1, <1>2, <2>1, <2>2, <2>3 DEF Programs
<1>5. \A x \in Pending(Scheduled) : Slot(x)[1] # "app"
  BY <1>3, <1>4 DEF Slot, Throughput, Drops, StopEvent, FlowMeter, Event
<1>6. /\ Queue(queue')
      /\ Pending(queue') = Meters \cup {StopEvent} \cup {StartOf(f) : f \in 1..scenario.flows}
  BY <1>1, <1>2, <1>3, <1>5, WithStartsIs, ClockConstants
<1>7. ClockTypes' /\ FramesInv' /\ ReadingOfOnePeriod' /\ RatioOfOnePeriod'
  BY <1>1, Settles DEF TimeInv, ClockTypes, FramesInv, ReadingOfOnePeriod, RatioOfOnePeriod,
                       networkVars, meterVars, dropVars
<1>8. SentInv'
  BY <1>1, Settles DEF TimeInv, SentInv, networkVars
<1>9. SetUpInv'
  BY <1>1, Settles DEF TimeInv, SetUpInv
<1>10. /\ now' = 0 /\ lastTotalRx' = 0 /\ frames' = NoFrames
       /\ \A f \in Flows : sent'[f] = 0 /\ totalRx'[f] = 0 /\ unread'[f] = NoneUnread
  BY <1>1, <1>2 DEF Fresh, networkVars, meterVars, dropVars
<1>11. \A f \in 1..scenario.flows : f \in Flows /\ f \in Nat /\ f # 0
  BY <1>2 DEF Flows
<1>12. Due(StopEvent)'
  <2>1. StopEvent.at = StopTime /\ StopEvent.do = "stop" /\ StopEvent.flow = 0
    BY DEF StopEvent, Event
  <2> QED BY <1>10, <2>1, ClockConstants DEF Due, AppDue, MeterDue, DropsDue, StopDue
<1>13. ASSUME NEW f \in 1..scenario.flows PROVE Due(StartOf(f))'
  <2>1. PICK x : x = StartOf(f)
    OBVIOUS
  <2>2. x.at = StartTime(f) /\ x.do = "start" /\ x.flow = f
    BY <2>1 DEF StartOf, Event
  <2>3. StartTime(f) \in Nat /\ StartTime(f)' = StartTime(f)
    BY <1>1, <1>2, <1>11, SendingTimes, Settles
  <2>4. PacketInterval' = PacketInterval /\ PacketInterval \in Nat
    <3>1. placed # <<>>
      BY <1>1, <1>13
    <3> QED BY <1>1, <1>2, <3>1, SendingTimes, Settles DEF TimeInv, SetUpInv
  <2>5. PacketInterval * 0 = 0
    BY <2>4
  <2>6. Due(x)'
    BY <1>1, <1>10, <1>11, <2>2, <2>3, <2>4, <2>5 DEF Due, AppDue, MeterDue, DropsDue, StopDue
  <2>7. x = StartOf(f)'
    BY <1>1, <2>1, Settles DEF StartOf, Event
  <2> QED BY <2>6, <2>7
<1>14. ASSUME NEW f \in 1..scenario.flows, Program = "taskAHighRate" PROVE Due(FlowMeter(f))'
  <2>1. PICK x : x = FlowMeter(f)
    OBVIOUS
  <2>2. x.at = FirstReading /\ x.do = "meter" /\ x.flow = f /\ x.last = 0
    BY <2>1 DEF FlowMeter, Event
  <2>3. ReadSink(x)' = f /\ ReadLast(x)' = 0
    BY <1>11, <2>2 DEF ReadSink, ReadLast
  <2>4. totalRx'[f] = 0 /\ unread'[f].count = 0
    BY <1>10, <1>11 DEF NoneUnread
  <2>5. PeriodDue(x)'
    BY <1>1, <2>2, ClockConstants, Settles DEF PeriodDue
  <2>6. Due(x)'
    BY <1>1, <1>10, <1>11, <1>14, <2>2, <2>3, <2>4, <2>5, ClockConstants, Settles
       DEF Due, AppDue, MeterDue, DropsDue, StopDue
  <2>7. x = FlowMeter(f)'
    BY <1>1, <2>1 DEF FlowMeter, Event, FirstReading
  <2> QED BY <2>6, <2>7
<1>15. ASSUME Program # "taskAHighRate" PROVE Due(Throughput)'
  <2>1. PICK x : x = Throughput
    OBVIOUS
  <2>2. x.at = FirstReading /\ x.do = "meter" /\ x.flow = 0
    BY <2>1 DEF Throughput, Event
  <2>3. ReadSink(x)' = Len(placed) /\ ReadLast(x)' = 0
    BY <1>1, <1>10, <1>15, <2>2 DEF ReadSink, ReadLast, TimeInv, SetUpInv
  <2>4. ReadSink(x)' # 0 => totalRx'[ReadSink(x)'] = 0 /\ unread'[ReadSink(x)'].count = 0
    <3>1. ReadSink(x)' # 0 => ReadSink(x)' \in Flows
      BY <1>1, <1>2, <2>3 DEF Flows
    <3> QED BY <1>10, <3>1 DEF NoneUnread
  <2>5. PeriodDue(x)'
    BY <1>1, <2>2, ClockConstants, Settles DEF PeriodDue
  <2>6. Program' # "taskAHighRate"
    BY <1>1, <1>15, Settles
  <2>7. MeterDue(x)'
    BY <2>2, <2>3, <2>4, <2>5, <2>6 DEF MeterDue
  <2>8. Due(x)'
    BY <1>10, <2>2, <2>7, ClockConstants DEF Due, AppDue, DropsDue, StopDue
  <2>9. x = Throughput'
    BY <2>1 DEF Throughput, Event, FirstReading
  <2> QED BY <2>8, <2>9
<1>16. ASSUME Program = "taskB" PROVE Due(Drops)'
  <2>1. PICK x : x = Drops
    OBVIOUS
  <2>2. x.at = FirstReading /\ x.do = "drops" /\ x.flow = 0
    BY <2>1 DEF Drops, Event
  <2>3. PeriodDue(x)'
    BY <1>1, <2>2, ClockConstants, Settles DEF PeriodDue
  <2>4. Program' = "taskB"
    BY <1>1, <1>16, Settles
  <2>5. DropsDue(x)'
    BY <1>10, <2>2, <2>3, <2>4 DEF DropsDue, NoFrames
  <2>6. Due(x)'
    BY <1>10, <2>2, <2>5, ClockConstants DEF Due, AppDue, MeterDue, StopDue
  <2>7. x = Drops'
    BY <2>1 DEF Drops, Event, FirstReading
  <2> QED BY <2>6, <2>7
<1>17. \A x \in Pending(queue') : Due(x)'
  <2> TAKE x \in Pending(queue')
  <2>1. CASE x = StopEvent
    <3>1. StopEvent' = StopEvent
      BY DEF StopEvent, Event
    <3> QED BY <1>12, <2>1, <3>1
  <2>2. ASSUME NEW f \in 1..scenario.flows, x = StartOf(f)
        PROVE  Due(x)'
    <3>1. StartOf(f)' = StartOf(f)
      BY <1>1, Settles DEF StartOf, Event
    <3> QED BY <1>13, <2>2, <3>1
  <2>3. ASSUME NEW f \in 1..scenario.flows, x = FlowMeter(f), Program = "taskAHighRate"
        PROVE  Due(x)'
    <3>1. FlowMeter(f)' = FlowMeter(f)
      BY DEF FlowMeter, Event, FirstReading
    <3> QED BY <1>14, <2>3, <3>1
  <2>4. CASE x = Throughput /\ Program # "taskAHighRate"
    <3>1. Throughput' = Throughput
      BY DEF Throughput, Event, FirstReading
    <3> QED BY <1>15, <2>4, <3>1
  <2>5. CASE x = Drops /\ Program = "taskB"
    <3>1. Drops' = Drops
      BY DEF Drops, Event, FirstReading
    <3> QED BY <1>16, <2>5, <3>1
  <2> QED BY <1>4, <1>6, <2>1, <2>2, <2>3, <2>4, <2>5
<1>18. \E x \in Pending(queue') : x.do = "stop"
  <2>1. StopEvent \in Pending(queue')
    BY <1>6
  <2>2. StopEvent.do = "stop"
    BY DEF StopEvent, Event
  <2> QED BY <2>1, <2>2
<1>19. ASSUME NEW f \in 1..scenario.flows
       PROVE  /\ StillSends(f)'
              /\ \E x \in Pending(queue') : Slot(x) = <<"app", f>>
  <2>1. StillSends(f)'
    BY <1>1, <1>2, <1>10, <1>11, SendingTimes, Settles DEF StillSends
  <2>2. StartOf(f) \in Pending(queue') /\ Slot(StartOf(f)) = <<"app", f>>
    BY <1>6 DEF StartOf, Slot, Event
  <2> QED BY <2>1, <2>2
<1>20. EventsInv'
  <2>1. Queue(queue)' /\ Pending(queue)' = Pending(queue')
    BY <1>6 DEF Queue, Sorted, OncePerSlot, Pending
  <2> QED BY <1>1, <1>17, <1>18, <1>19, <2>1 DEF EventsInv
<1> QED BY <1>1, <1>7, <1>8, <1>9, <1>20 DEF TimeInv, Before, Early

LEMMA Distributes ==
  ASSUME NEW a \in Nat, NEW n \in Nat
  PROVE  a * n \in Nat /\ a * (n + 1) = a * n + a
  OBVIOUS

(* MyApp sends, and is due again an interval later, or no more.            *)
LEMMA SendKeeps ==
  ASSUME NetworkInv, FlowsInv, TimeInv, NEW do \in {"start", "send"}, Dispatch(do),
         SendPacket(Head(queue).flow)
  PROVE  TimeInv'
<1>1. PICK x : x = Head(queue)
  OBVIOUS
<1>2. /\ phase = "running" /\ EventsInv /\ x.do = do
      /\ x \in Pending(queue) /\ x \in Events /\ Due(x)
      /\ now' = x.at /\ now \in Nat /\ now' \in 0..StopTime /\ now <= now'
      /\ \A z \in Pending(queue) : z \in Events /\ Due(z) /\ now' <= z.at
      /\ Queue(Tail(queue)) /\ Pending(Tail(queue)) = Pending(queue) \ {x}
      /\ \A z \in Pending(queue) : z # x => Slot(z) # Slot(x)
  BY <1>1, Dispatched
<1>3. PICK f : f = x.flow
  OBVIOUS
<1>4. /\ scenario' = scenario /\ placed' = placed /\ sink' = sink /\ phase' = phase
      /\ UNCHANGED <<meterVars, dropVars>> /\ totalRx' = totalRx
      /\ inFlight' = [inFlight EXCEPT ![f] = IF @ < Buffer THEN @ + 1 ELSE @]
      /\ sent' = [sent EXCEPT ![f] = @ + 1]
      /\ queue' = IF GoesOn(sent[f] + 1)
                    THEN Push(Tail(queue), Event(now' + PacketInterval, "send", f, 0))
                    ELSE Tail(queue)
  BY <1>1, <1>3 DEF SendPacket, setupVars
<1>5. /\ scenario \in Scenarios /\ scenario.flows \in Nat /\ MaxFlows \in Nat
      /\ f \in 1..scenario.flows /\ f \in Flows /\ f \in 0..MaxFlows
      /\ x.at = StartTime(f) + PacketInterval * sent[f]
      /\ StartTime(f) \in Nat
  <2>1. scenario \in Scenarios /\ scenario.flows \in Nat /\ scenario.flows <= MaxFlows
        /\ MaxFlows \in Nat
    BY ScenarioTypes DEF NetworkInv
  <2>2. f \in 1..scenario.flows /\ x.at = StartTime(f) + PacketInterval * sent[f]
    BY <1>2, <1>3 DEF Due, AppDue
  <2> QED BY <2>1, <2>2, SendingTimes DEF Flows
<1>6. PacketInterval \in Nat
  <2>1. placed # <<>>
    BY <1>2, <1>5 DEF TimeInv, SetUpInv
  <2> QED BY <1>5, <2>1, SendingTimes DEF TimeInv, SetUpInv
<1>7. sent \in [Flows -> Nat] /\ inFlight \in [Flows -> 0..Buffer] /\ sent[f] \in Nat
  BY <1>5 DEF TimeInv, ClockTypes
<1>8. /\ sent' \in [Flows -> Nat] /\ sent'[f] = sent[f] + 1
      /\ \A g \in Flows : g # f => sent'[g] = sent[g]
  BY <1>4, <1>5, <1>7
<1>9. /\ inFlight' \in [Flows -> 0..Buffer]
      /\ \A g \in Flows : g # f => inFlight'[g] = inFlight[g]
  <2>1. (IF inFlight[f] < Buffer THEN inFlight[f] + 1 ELSE inFlight[f]) \in 0..Buffer
    BY <1>5, <1>7, ClockConstants
  <2> QED BY <1>4, <1>5, <1>7, <2>1
<1>10. now' >= StartTime(f)
  BY <1>2, <1>5, <1>6, <1>7, Distributes
<1>11. ClockTypes'
  BY <1>2, <1>4, <1>8, <1>9 DEF TimeInv, ClockTypes, meterVars, dropVars
<1>12. SetUpInv'
  BY <1>4, Settles DEF TimeInv, SetUpInv
<1>13. SentInv'
  <2> SUFFICES ASSUME NEW g \in Flows
               PROVE  /\ inFlight'[g] > 0 => sent'[g] > 0
                      /\ sent'[g] > 0 => now' >= StartTime(g)'
    BY DEF SentInv
  <2>1. StartTime(g)' = StartTime(g) /\ StartTime(g) \in Nat
    BY <1>4, <1>5, Settles, SendingTimes
  <2>2. CASE g = f
    BY <1>7, <1>8, <1>10, <2>1, <2>2
  <2>3. CASE g # f
    <3>1. /\ inFlight[g] > 0 => sent[g] > 0
          /\ sent[g] > 0 => now >= StartTime(g)
      BY DEF TimeInv, SentInv
    <3>2. sent[g] \in Nat /\ now' \in Nat
      BY <1>2, <1>7
    <3> QED BY <1>2, <1>8, <1>9, <2>1, <2>3, <3>1, <3>2
  <2> QED BY <2>2, <2>3
<1>14. FramesInv' /\ ReadingOfOnePeriod' /\ RatioOfOnePeriod'
  BY <1>4, Settles DEF TimeInv, FramesInv, ReadingOfOnePeriod, RatioOfOnePeriod,
                       meterVars, dropVars
<1>15. Slot(x) = <<"app", f>>
  BY <1>2, <1>3 DEF Slot
<1>16. \A z \in Pending(queue) : z # x => Due(z)'
  <2> SUFFICES ASSUME NEW z \in Pending(queue), z # x PROVE Due(z)'
    OBVIOUS
  <2>1. z \in Events /\ Due(z) /\ now' <= z.at /\ Slot(z) # <<"app", f>> /\ now' \in Nat
    BY <1>2, <1>15
  <2>2. z.do \in {"start", "send"} => sent'[z.flow] = sent[z.flow]
    <3> SUFFICES ASSUME z.do \in {"start", "send"} PROVE sent'[z.flow] = sent[z.flow]
      OBVIOUS
    <3>1. z.flow # f
      BY <2>1 DEF Slot
    <3> QED BY <1>4, <1>7, <3>1
  <2>3. lastTotalRx' = lastTotalRx /\ unread' = unread /\ frames' = frames
    BY <1>4 DEF meterVars, dropVars
  <2> QED BY <1>2, <1>4, <2>1, <2>2, <2>3, StillDue
<1>17. PICK y : y = Event(now' + PacketInterval, "send", f, 0)
  OBVIOUS
<1>18. y \in Events /\ Slot(y) = Slot(x)
  <2>1. now' + PacketInterval \in Nat
    BY <1>2, <1>6
  <2> QED BY <1>5, <1>15, <1>17, <2>1 DEF Event, Events, Slot
<1>19. Due(y)'
  <2>1. /\ y.at = now' + PacketInterval /\ y.do = "send" /\ y.flow = f
    BY <1>17 DEF Event
  <2>2. y.at = StartTime(f) + PacketInterval * sent'[f]
    <3>1. PacketInterval * sent'[f] = PacketInterval * sent[f] + PacketInterval
      BY <1>6, <1>7, <1>8, Distributes
    <3>2. PacketInterval * sent[f] \in Nat
      BY <1>6, <1>7, Distributes
    <3> QED BY <1>2, <1>5, <1>6, <2>1, <3>1, <3>2
  <2>3. AppDue(y)'
    BY <1>4, <1>5, <2>1, <2>2, Settles DEF AppDue
  <2>4. now' <= y.at
    BY <1>2, <1>6, <2>1
  <2> QED BY <2>1, <2>3, <2>4 DEF Due, MeterDue, DropsDue, StopDue
<1>20. PICK s \in Pending(queue) : s.do = "stop" /\ s # x
  BY <1>2 DEF EventsInv
<1>21. GoesOn(sent[f] + 1) <=> StillSends(f)'
  <2>1. Wanted' = Wanted /\ Program' = Program /\ Packets \in Nat
    BY <1>4, <1>5, Settles, SendingTimes
  <2>2. sent[f] + 1 < Packets <=> sent[f] + 1 < Wanted
    BY <1>7, <2>1 DEF Wanted
  <2>3. StillSends(f)' <=> Program' = "taskALowRate" \/ sent'[f] < Wanted'
    BY DEF StillSends
  <2> QED BY <1>8, <2>1, <2>2, <2>3 DEF GoesOn
<1>22. \A g \in 1..scenario.flows : g # f => (StillSends(g)' <=> StillSends(g))
  <2>1. \A g \in 1..scenario.flows : g \in Flows
    BY <1>5, ScenarioTypes DEF NetworkInv, Flows
  <2> QED BY <1>4, <1>8, <2>1, Settles DEF StillSends
<1>23. \A g \in 1..scenario.flows :
         StillSends(g) <=> \E z \in Pending(queue) : Slot(z) = <<"app", g>>
  BY <1>2 DEF EventsInv
<1>24. EventsInv'
  <2>1. CASE GoesOn(sent[f] + 1)
    <3>1. queue' = Push(Tail(queue), y)
      BY <1>4, <1>17, <2>1
    <3>2. Queue(queue') /\ Pending(queue') = (Pending(queue) \ {x}) \cup {y}
      BY <1>1, <1>18, <3>1, Requeued
    <3>3. Queue(queue)' /\ Pending(queue)' = Pending(queue')
      BY <3>2 DEF Queue, Sorted, OncePerSlot, Pending
    <3>4. \A z \in Pending(queue') : Due(z)'
      BY <1>16, <1>19, <3>2
    <3>5. \E z \in Pending(queue') : z.do = "stop"
      BY <1>20, <3>2
    <3>6. ASSUME NEW g \in 1..scenario.flows
          PROVE  StillSends(g)' <=> \E z \in Pending(queue') : Slot(z) = <<"app", g>>
      <4>1. CASE g = f
        BY <1>15, <1>18, <1>21, <2>1, <3>2, <4>1
      <4>2. CASE g # f
        BY <1>15, <1>18, <1>22, <1>23, <3>2, <4>2
      <4> QED BY <4>1, <4>2
    <3> QED BY <1>4, <3>3, <3>4, <3>5, <3>6 DEF EventsInv
  <2>2. CASE ~GoesOn(sent[f] + 1)
    <3>1. queue' = Tail(queue)
      BY <1>4, <2>2
    <3>2. Queue(queue') /\ Pending(queue') = Pending(queue) \ {x}
      BY <1>2, <3>1
    <3>3. Queue(queue)' /\ Pending(queue)' = Pending(queue')
      BY <3>2 DEF Queue, Sorted, OncePerSlot, Pending
    <3>4. \A z \in Pending(queue') : Due(z)'
      BY <1>16, <3>2
    <3>5. \E z \in Pending(queue') : z.do = "stop"
      BY <1>20, <3>2
    <3>6. ASSUME NEW g \in 1..scenario.flows
          PROVE  StillSends(g)' <=> \E z \in Pending(queue') : Slot(z) = <<"app", g>>
      <4>1. CASE g = f
        BY <1>2, <1>15, <1>21, <2>2, <3>2, <4>1
      <4>2. CASE g # f
        BY <1>15, <1>22, <1>23, <3>2, <4>2
      <4> QED BY <4>1, <4>2
    <3> QED BY <1>4, <3>3, <3>4, <3>5, <3>6 DEF EventsInv
  <2> QED BY <2>1, <2>2
<1> QED BY <1>2, <1>4, <1>11, <1>12, <1>13, <1>14, <1>24 DEF TimeInv, Before, Early

(* A meter that has read is due a period later.                            *)
LEMMA EventsGoOn ==
  ASSUME EventsInv, NEW x \in Pending(queue), NEW y, Slot(y) = Slot(x), y.do = x.do, Due(y)',
         Queue(queue'), Pending(queue') = (Pending(queue) \ {x}) \cup {y},
         \A z \in Pending(queue) : z # x => Due(z)',
         scenario' = scenario, sent' = sent
  PROVE  EventsInv'
<1>1. Queue(queue)' /\ Pending(queue)' = Pending(queue')
  BY DEF Queue, Sorted, OncePerSlot, Pending
<1>2. \A z \in Pending(queue') : Due(z)'
  OBVIOUS
<1>3. \E z \in Pending(queue') : z.do = "stop"
  BY DEF EventsInv
<1>4. \A f : StillSends(f)' <=> StillSends(f)
  BY Settles DEF StillSends
<1>5. \A f \in 1..scenario.flows :
        StillSends(f)' <=> \E z \in Pending(queue') : Slot(z) = <<"app", f>>
  BY <1>4 DEF EventsInv
<1> QED BY <1>1, <1>2, <1>3, <1>5 DEF EventsInv

(* Time passes for what is sent.                                           *)
LEMMA SentLater ==
  ASSUME TimeInv, scenario' = scenario, sent' = sent, now' \in Nat, now <= now',
         \A f \in Flows : inFlight'[f] > 0 => inFlight[f] > 0
  PROVE  SentInv'
<1> SUFFICES ASSUME NEW f \in Flows
             PROVE  /\ inFlight'[f] > 0 => sent'[f] > 0
                    /\ sent'[f] > 0 => now' >= StartTime(f)'
  BY DEF SentInv
<1>1. StartTime(f)' = StartTime(f) /\ StartTime(f) \in Int
  BY Settles, ClockConstants DEF StartTime, Flows
<1>2. /\ inFlight[f] > 0 => sent[f] > 0
      /\ sent[f] > 0 => now >= StartTime(f)
  BY DEF TimeInv, SentInv
<1>3. now \in Int
  BY DEF TimeInv, ClockTypes
<1> QED BY <1>1, <1>2, <1>3

(* A throughput meter reads the sink s, which had received last.           *)
LEMMA ReadingKeeps ==
  ASSUME NetworkInv, FlowsInv, TimeInv, Dispatch("meter"), NEW x, x = Head(queue),
         NEW s \in Flows, s = ReadSink(x), NEW last, last = ReadLast(x), Read(s, last),
         NEW y, y = Event(now' + Period, "meter", x.flow, IF x.flow = 0 THEN 0 ELSE totalRx[s]),
         lastTotalRx' = IF x.flow = 0 THEN totalRx[s] ELSE lastTotalRx,
         queue' = Push(Tail(queue), y)
  PROVE  TimeInv'
<1>1. /\ phase = "running" /\ EventsInv /\ x.do = "meter"
      /\ x \in Pending(queue) /\ x \in Events /\ Due(x)
      /\ now' = x.at /\ now \in Nat /\ now' \in 0..StopTime /\ now <= now'
      /\ \A z \in Pending(queue) : z \in Events /\ Due(z) /\ now' <= z.at
      /\ \A z \in Pending(queue) : z # x => Slot(z) # Slot(x)
  BY Dispatched
<1>2. /\ scenario' = scenario /\ placed' = placed /\ sink' = sink /\ phase' = phase
      /\ UNCHANGED <<networkVars, dropVars>>
      /\ reading' = [at |-> now', value |-> totalRx[s] - last, of |-> unread[s]]
      /\ unread' = [unread EXCEPT ![s] = NoneUnread]
  BY DEF Read, setupVars
<1>3. /\ totalRx' = totalRx /\ sent' = sent /\ inFlight' = inFlight /\ frames' = frames
  BY <1>2 DEF networkVars, dropVars
<1>4. /\ totalRx \in [Flows -> Nat] /\ unread \in [Flows -> [count : Nat, since : 0..StopTime]]
      /\ lastTotalRx \in Nat /\ totalRx[s] \in Nat /\ unread[s].count \in Nat
      /\ unread[s].since \in Nat
  BY ClockConstants DEF TimeInv, ClockTypes
<1>5. /\ unread' \in [Flows -> [count : Nat, since : 0..StopTime]]
      /\ unread'[s] = NoneUnread /\ \A g : g # s => unread'[g] = unread[g]
  <2>1. NoneUnread \in [count : Nat, since : 0..StopTime]
    BY ClockConstants DEF NoneUnread
  <2> QED BY <1>2, <1>4, <2>1
<1>6. s # 0 /\ x.flow \in 0..MaxFlows /\ x.last \in Nat /\ last \in Nat
  <2>1. s # 0
    BY DEF Flows
  <2>2. x.flow \in 0..MaxFlows /\ x.last \in Nat
    BY <1>1 DEF Events
  <2> QED BY <1>4, <2>1, <2>2 DEF ReadLast
<1>7. /\ PeriodDue(x)
      /\ IF x.flow = 0 THEN Program # "taskAHighRate"
                       ELSE Program = "taskAHighRate" /\ x.flow \in 1..scenario.flows
      /\ totalRx[s] = last + unread[s].count
      /\ unread[s].count > 0 /\ (Program = "taskALowRate" => x.at > FirstReading)
           => unread[s].since + Period >= x.at
  BY <1>1, <1>6 DEF Due, MeterDue
<1>8. ClockTypes'
  BY <1>1, <1>2, <1>3, <1>4, <1>5 DEF TimeInv, ClockTypes
<1>9. SetUpInv'
  BY <1>2, Settles DEF TimeInv, SetUpInv
<1>10. SentInv'
  BY <1>1, <1>2, <1>3, SentLater
<1>11. FramesInv' /\ RatioOfOnePeriod'
  BY <1>2 DEF TimeInv, FramesInv, RatioOfOnePeriod, dropVars
<1>12. ReadingOfOnePeriod'
  <2>1. /\ reading'.value = unread[s].count /\ reading'.of = unread[s] /\ reading'.at = x.at
    BY <1>1, <1>2, <1>4, <1>6, <1>7
  <2>2. x.at \in Nat /\ Period \in Nat
    BY <1>1, ClockConstants
  <2>3. /\ Program' = Program /\ FirstReading' = FirstReading
    BY <1>2, Settles
  <2>4. unread[s].count > 0 /\ (Program = "taskALowRate" => x.at > FirstReading)
          => unread[s].since >= x.at - Period
    BY <1>4, <1>7, <2>2
  <2> QED BY <2>1, <2>3, <2>4 DEF ReadingOfOnePeriod
<1>13. y \in Events /\ Slot(y) = Slot(x) /\ y.do = x.do
  <2>1. now' + Period \in Nat
    BY <1>1, ClockConstants
  <2>2. (IF x.flow = 0 THEN 0 ELSE totalRx[s]) \in Nat
    BY <1>4
  <2> QED BY <1>1, <1>6, <2>1, <2>2 DEF Event, Events, Slot
<1>14. Queue(queue') /\ Pending(queue') = (Pending(queue) \ {x}) \cup {y}
  BY <1>13, Requeued
<1>15. Due(y)'
  <2>1. /\ y.at = now' + Period /\ y.do = "meter" /\ y.flow = x.flow
        /\ y.flow # 0 => y.last = totalRx[s]
    BY DEF Event
  <2>2. ReadSink(y)' = s
    BY <1>2, <2>1 DEF ReadSink
  <2>3. ReadLast(y)' = totalRx[s]
    BY <2>1 DEF ReadLast
  <2>4. PeriodDue(y)'
    BY <1>1, <1>2, <1>7, <2>1, ClockConstants, Settles DEF PeriodDue
  <2>5. IF y.flow = 0 THEN Program' # "taskAHighRate"
                      ELSE Program' = "taskAHighRate" /\ y.flow \in 1..scenario'.flows
    BY <1>2, <1>7, <2>1, Settles
  <2>6. totalRx'[s] = totalRx[s] + unread'[s].count /\ ~(unread'[s].count > 0)
    BY <1>3, <1>4, <1>5 DEF NoneUnread
  <2>7. MeterDue(y)'
    BY <2>1, <2>2, <2>3, <2>4, <2>5, <2>6 DEF MeterDue
  <2>8. now' <= y.at
    BY <1>1, <2>1, ClockConstants
  <2> QED BY <2>1, <2>7, <2>8 DEF Due, AppDue, DropsDue, StopDue
<1>16. \A z \in Pending(queue) : z # x => Due(z)'
  <2> SUFFICES ASSUME NEW z \in Pending(queue), z # x PROVE Due(z)'
    OBVIOUS
  <2>1. z \in Events /\ Due(z) /\ now' <= z.at /\ Slot(z) # Slot(x) /\ now' \in Nat
    BY <1>1
  <2>2. CASE z.do = "meter"
    <3>1. z.flow # x.flow
      BY <1>1, <2>1, <2>2 DEF Slot
    <3>2. z.flow # 0 /\ x.flow # 0
      BY <1>7, <2>1, <2>2, <3>1 DEF Due, MeterDue
    <3>3. ReadSink(z) = z.flow /\ ReadSink(z) # s
      BY <3>1, <3>2 DEF ReadSink
    <3> QED BY <1>1, <1>2, <1>3, <1>5, <2>1, <2>2, <3>2, <3>3, StillDue
  <2>3. CASE z.do # "meter"
    BY <1>1, <1>2, <1>3, <2>1, <2>3, StillDue
  <2> QED BY <2>2, <2>3
<1>17. EventsInv'
  BY <1>1, <1>2, <1>3, <1>13, <1>14, <1>15, <1>16, EventsGoOn
<1> QED BY <1>1, <1>2, <1>8, <1>9, <1>10, <1>11, <1>12, <1>17 DEF TimeInv, Before, Early

LEMMA MetersKeep ==
  ASSUME NetworkInv, FlowsInv, TimeInv, CalculateThroughput \/ CalculateThroughputOf
  PROVE  TimeInv'
<1>1. PICK x : x = Head(queue)
  OBVIOUS
<1>2. Dispatch("meter") /\ x \in Events /\ Due(x) /\ x.do = "meter" /\ phase = "running"
  <2>1. Dispatch("meter")
    BY DEF CalculateThroughput, CalculateThroughputOf
  <2> QED BY <1>1, <2>1, Dispatched
<1>3. scenario.flows \in 0..MaxFlows /\ MaxFlows \in Nat
  BY ScenarioTypes DEF NetworkInv
<1>4. CASE CalculateThroughput
  <2>1. /\ x.flow = 0 /\ sink # 0 /\ Read(sink, lastTotalRx) /\ lastTotalRx' = totalRx[sink]
        /\ queue' = Push(Tail(queue), Event(now' + Period, "meter", 0, 0))
    BY <1>1, <1>4 DEF CalculateThroughput
  <2>2. ReadSink(x) = sink /\ ReadLast(x) = lastTotalRx
    BY <2>1 DEF ReadSink, ReadLast
  <2>3. sink \in Flows
    BY <1>2, <1>3, <2>1 DEF TimeInv, SetUpInv, Flows
  <2>4. PICK y : y = Event(now' + Period, "meter", x.flow, IF x.flow = 0 THEN 0 ELSE totalRx[sink])
    OBVIOUS
  <2>5. y = Event(now' + Period, "meter", 0, 0)
    BY <2>1, <2>4
  <2>6. queue' = Push(Tail(queue), y)
    BY <2>1, <2>5
  <2>7. lastTotalRx' = IF x.flow = 0 THEN totalRx[sink] ELSE lastTotalRx
    BY <2>1
  <2> QED BY <1>1, <1>2, <2>1, <2>2, <2>3, <2>4, <2>6, <2>7, ReadingKeeps
<1>5. CASE CalculateThroughputOf
  <2>1. /\ x.flow # 0 /\ Read(x.flow, x.last) /\ lastTotalRx' = lastTotalRx
        /\ queue' = Push(Tail(queue), Event(now' + Period, "meter", x.flow, totalRx[x.flow]))
    BY <1>1, <1>5 DEF CalculateThroughputOf
  <2>2. ReadSink(x) = x.flow /\ ReadLast(x) = x.last
    BY <2>1 DEF ReadSink, ReadLast
  <2>3. x.flow \in Flows
    BY <1>2, <1>3, <2>1 DEF Due, MeterDue, Flows
  <2>4. PICK y : y = Event(now' + Period, "meter", x.flow, IF x.flow = 0 THEN 0 ELSE totalRx[x.flow])
    OBVIOUS
  <2>5. y = Event(now' + Period, "meter", x.flow, totalRx[x.flow])
    BY <2>1, <2>4
  <2>6. queue' = Push(Tail(queue), y)
    BY <2>1, <2>5
  <2>7. lastTotalRx' = IF x.flow = 0 THEN totalRx[x.flow] ELSE lastTotalRx
    BY <2>1
  <2> QED BY <1>1, <1>2, <2>1, <2>2, <2>3, <2>4, <2>6, <2>7, ReadingKeeps
<1> QED BY <1>4, <1>5

(* The drop meter reads, and is due a period later.                        *)
LEMMA DropsKeep ==
  ASSUME TimeInv, CalculateDropRatio
  PROVE  TimeInv'
<1>1. PICK x : x = Head(queue)
  OBVIOUS
<1>2. PICK y : y = Event(now' + Period, "drops", 0, 0)
  OBVIOUS
<1>3. /\ Dispatch("drops")
      /\ scenario' = scenario /\ placed' = placed /\ sink' = sink /\ phase' = phase
      /\ UNCHANGED <<networkVars, meterVars>>
      /\ ratio' = [at |-> now', sent |-> totalPacketsSent, dropped |-> totalPacketsDropped,
                   of |-> frames]
      /\ totalPacketsSent' = 0 /\ totalPacketsDropped' = 0 /\ frames' = NoFrames
      /\ queue' = Push(Tail(queue), y)
  BY <1>2 DEF CalculateDropRatio, setupVars
<1>4. /\ phase = "running" /\ EventsInv /\ x.do = "drops"
      /\ x \in Pending(queue) /\ x \in Events /\ Due(x)
      /\ now' = x.at /\ now \in Nat /\ now' \in 0..StopTime /\ now <= now'
      /\ \A z \in Pending(queue) : z \in Events /\ Due(z) /\ now' <= z.at
      /\ \A z \in Pending(queue) : z # x => Slot(z) # Slot(x)
  BY <1>1, <1>3, Dispatched
<1>5. /\ PeriodDue(x) /\ Program = "taskB" /\ x.flow = 0
      /\ frames.sent + frames.dropped > 0 => frames.since + Period >= x.at
  BY <1>4 DEF Due, DropsDue
<1>6. /\ frames \in [sent : Nat, dropped : Nat, since : 0..StopTime]
      /\ frames.sent \in Nat /\ frames.dropped \in Nat /\ frames.since \in Nat
  BY ClockConstants DEF TimeInv, ClockTypes
<1>7. /\ totalRx' = totalRx /\ sent' = sent /\ inFlight' = inFlight
      /\ lastTotalRx' = lastTotalRx /\ unread' = unread /\ reading' = reading
  BY <1>3 DEF networkVars, meterVars
<1>8. NoFrames \in [sent : Nat, dropped : Nat, since : 0..StopTime]
  BY ClockConstants DEF NoFrames
<1>9. ClockTypes'
  BY <1>3, <1>4, <1>7, <1>8 DEF TimeInv, ClockTypes
<1>10. SetUpInv'
  BY <1>3, Settles DEF TimeInv, SetUpInv
<1>11. SentInv'
  BY <1>3, <1>4, <1>7, SentLater
<1>12. FramesInv'
  BY <1>3 DEF FramesInv, NoFrames
<1>13. ReadingOfOnePeriod'
  BY <1>3, <1>7, Settles DEF TimeInv, ReadingOfOnePeriod
<1>14. RatioOfOnePeriod'
  <2>1. totalPacketsSent = frames.sent /\ totalPacketsDropped = frames.dropped
    BY DEF TimeInv, FramesInv
  <2>2. /\ ratio'.at = x.at /\ ratio'.of = frames
        /\ ratio'.sent = frames.sent /\ ratio'.dropped = frames.dropped
    BY <1>3, <1>4, <2>1
  <2>3. x.at \in Nat /\ Period \in Nat
    BY <1>4, ClockConstants
  <2>4. frames.sent + frames.dropped > 0 => frames.since >= x.at - Period
    BY <1>5, <1>6, <2>3
  <2> QED BY <2>2, <2>4 DEF RatioOfOnePeriod
<1>15. y \in Events /\ Slot(y) = Slot(x) /\ y.do = x.do
  <2>1. now' + Period \in Nat
    BY <1>4, ClockConstants
  <2>2. 0 \in 0..MaxFlows
    BY ClockConstants
  <2> QED BY <1>2, <1>4, <1>5, <2>1, <2>2 DEF Event, Events, Slot
<1>16. Queue(queue') /\ Pending(queue') = (Pending(queue) \ {x}) \cup {y}
  BY <1>1, <1>3, <1>15, Requeued
<1>17. Due(y)'
  <2>1. y.at = now' + Period /\ y.do = "drops" /\ y.flow = 0
    BY <1>2 DEF Event
  <2>2. PeriodDue(y)'
    BY <1>3, <1>4, <1>5, <2>1, ClockConstants, Settles DEF PeriodDue
  <2>3. ~(frames'.sent + frames'.dropped > 0)
    BY <1>3 DEF NoFrames
  <2>4. DropsDue(y)'
    BY <1>3, <1>5, <2>1, <2>2, <2>3, Settles DEF DropsDue
  <2>5. now' <= y.at
    BY <1>4, <2>1, ClockConstants
  <2> QED BY <2>1, <2>4, <2>5 DEF Due, AppDue, MeterDue, StopDue
<1>18. \A z \in Pending(queue) : z # x => Due(z)'
  <2> SUFFICES ASSUME NEW z \in Pending(queue), z # x PROVE Due(z)'
    OBVIOUS
  <2>1. z \in Events /\ Due(z) /\ now' <= z.at /\ Slot(z) # Slot(x) /\ now' \in Nat
    BY <1>4
  <2>2. z.do # "drops"
    <3> SUFFICES ASSUME z.do = "drops" PROVE FALSE
      OBVIOUS
    <3>1. z.flow = 0
      BY <2>1 DEF Due, DropsDue
    <3> QED BY <1>4, <1>5, <2>1, <3>1 DEF Slot
  <2> QED BY <1>3, <1>4, <1>7, <2>1, <2>2, StillDue
<1>19. EventsInv'
  BY <1>3, <1>4, <1>7, <1>15, <1>16, <1>17, <1>18, EventsGoOn
<1> QED BY <1>3, <1>4, <1>9, <1>10, <1>11, <1>12, <1>13, <1>14, <1>19
        DEF TimeInv, Before, Early

(* The steps after which the simulator does not run. *)
LEMMA EndingKeeps ==
  ASSUME TimeInv, ReadNullSink \/ Stop \/ Report \/ \E f \in Flows : AddFlowFails(f)
  PROVE  TimeInv'
<1>1. now \in 0..StopTime /\ now <= now
  BY ClockConstants DEF TimeInv, ClockTypes
<1>2. CASE ReadNullSink
  <2>1. PICK x : x = Head(queue)
    OBVIOUS
  <2>2. Dispatch("meter")
    BY <1>2 DEF ReadNullSink
  <2>3. now' \in 0..StopTime /\ now <= now'
    BY <2>1, <2>2, Dispatched
  <2> QED BY <1>2, <2>3, RestKeeps DEF ReadNullSink, setupVars, Before, Early
<1>3. CASE Stop
  <2>1. PICK x : x = Head(queue)
    OBVIOUS
  <2>2. Dispatch("stop")
    BY <1>3 DEF Stop
  <2>3. now' \in 0..StopTime /\ now <= now'
    BY <2>1, <2>2, Dispatched
  <2> QED BY <1>3, <2>3, RestKeeps DEF Stop, setupVars, Before, Early
<1>4. CASE Report
  BY <1>1, <1>4, RestKeeps DEF Report, setupVars, Before, Early
<1>5. CASE \E f \in Flows : AddFlowFails(f)
  BY <1>1, <1>5, RestKeeps DEF AddFlowFails, setupVars, Before, Early
<1> QED BY <1>2, <1>3, <1>4, <1>5

(* A flow that has sent has started, and but for taskALowRate's flows no   *)
(* more than a period before the first reading; so what the network does   *)
(* is within a period of any reading to come.                              *)
LEMMA WithinPeriod ==
  ASSUME NetworkInv, TimeInv, NEW t \in now..StopTime, Meanwhile(t),
         NEW f \in Flows, sent[f] > 0
  PROVE  /\ phase = "running" /\ EventsInv /\ now' = t
         /\ now \in Nat /\ t \in 0..StopTime /\ now <= t
         /\ \A z \in Pending(queue) : z \in Events /\ Due(z) /\ t <= z.at
         /\ \A z \in Pending(queue) :
              PeriodDue(z) /\ (Program = "taskALowRate" => z.at > FirstReading)
                => t + Period >= z.at
<1>1. phase = "running" /\ now' = t /\ t <= Head(queue).at
  BY DEF Meanwhile
<1>2. EventsInv
  BY <1>1 DEF TimeInv
<1>3. queue # <<>>
  <2>1. PICK z \in Pending(queue) : TRUE
    BY <1>2 DEF EventsInv
  <2> QED BY <2>1 DEF Pending
<1>4. now \in Nat /\ t \in 0..StopTime /\ now <= t /\ t \in Nat
  BY ClockConstants DEF TimeInv, ClockTypes
<1>5. \A z \in Pending(queue) : z \in Events /\ z.at \in Nat /\ Due(z) /\ t <= z.at
  <2> SUFFICES ASSUME NEW z \in Pending(queue)
               PROVE  z \in Events /\ z.at \in Nat /\ Due(z) /\ t <= z.at
    OBVIOUS
  <2>1. Head(queue) \in Events /\ z \in Events /\ Head(queue).at <= z.at
    BY <1>2, <1>3, HeadIs DEF EventsInv
  <2>2. Head(queue).at \in Nat /\ z.at \in Nat
    BY <2>1 DEF Events
  <2>3. Due(z)
    BY <1>2 DEF EventsInv
  <2> QED BY <1>1, <1>4, <2>1, <2>2, <2>3
<1>6. ASSUME NEW z \in Pending(queue), PeriodDue(z),
             Program = "taskALowRate" => z.at > FirstReading
      PROVE  t + Period >= z.at
  <2>1. now >= StartTime(f)
    BY DEF TimeInv, SentInv
  <2>2. /\ StartTime(f) \in Nat
        /\ Program # "taskALowRate" => StartTime(f) + Period >= FirstReading
    BY SendingTimes, ScenarioTypes DEF NetworkInv
  <2>3. z.at = FirstReading \/ z.at <= now + Period
    BY <1>6 DEF PeriodDue
  <2>4. z.at \in Nat /\ Period \in Nat /\ FirstReading \in Nat
    BY <1>5, ClockConstants
  <2> QED BY <1>4, <1>6, <2>1, <2>2, <2>3, <2>4
<1> QED BY <1>1, <1>2, <1>4, <1>5, <1>6

Arrives(g, t) ==
  /\ totalRx' = [totalRx EXCEPT ![g] = @ + 1]
  /\ unread' = IF g = sink \/ Program = "taskAHighRate"
                 THEN [unread EXCEPT ![g] = [count |-> @.count + 1,
                                             since |-> IF @.count = 0 THEN t ELSE @.since]]
                 ELSE unread

(* What a sink receives, the reading to come will find. *)
LEMMA ArrivalKeeps ==
  ASSUME NetworkInv, TimeInv, NEW t \in now..StopTime, Meanwhile(t),
         NEW f \in Flows, sent[f] > 0, scenario' = scenario, sink' = sink,
         lastTotalRx' = lastTotalRx,
         NEW g \in Flows, UNCHANGED <<totalRx, unread>> \/ Arrives(g, t)
  PROVE  /\ totalRx' \in [Flows -> Nat]
         /\ unread' \in [Flows -> [count : Nat, since : 0..StopTime]]
         /\ \A z \in Pending(queue) : MeterDue(z)'
<1>1. /\ phase = "running" /\ now' = t /\ now \in Nat /\ t \in 0..StopTime /\ now <= t
      /\ \A z \in Pending(queue) : z \in Events /\ Due(z) /\ t <= z.at
      /\ \A z \in Pending(queue) :
           PeriodDue(z) /\ (Program = "taskALowRate" => z.at > FirstReading)
             => t + Period >= z.at
  BY WithinPeriod
<1>2. /\ totalRx \in [Flows -> Nat] /\ unread \in [Flows -> [count : Nat, since : 0..StopTime]]
      /\ totalRx[g] \in Nat /\ unread[g].count \in Nat /\ unread[g].since \in 0..StopTime
  BY DEF TimeInv, ClockTypes
<1>3. Period \in Nat /\ FirstReading \in Nat /\ StopTime \in Nat
  BY ClockConstants
<1>4. scenario.flows \in 0..MaxFlows /\ MaxFlows \in Nat
  BY ScenarioTypes DEF NetworkInv
<1>5. \A z \in Pending(queue) : PeriodDue(z) => PeriodDue(z)'
  <2> TAKE z \in Pending(queue)
  <2>1. z.at \in Nat
    BY <1>1 DEF Events
  <2> QED BY <1>1, <1>3, <2>1, Settles DEF PeriodDue
<1>6. \A z \in Pending(queue) :
        ReadSink(z)' = ReadSink(z) /\ ReadLast(z)' = ReadLast(z)
  BY DEF ReadSink, ReadLast
<1>7. ASSUME NEW z \in Pending(queue), z.do = "meter"
      PROVE  /\ PeriodDue(z)
             /\ IF z.flow = 0 THEN Program # "taskAHighRate"
                ELSE Program = "taskAHighRate" /\ z.flow \in 1..scenario.flows
             /\ ReadSink(z) # 0 =>
                  /\ ReadSink(z) \in Flows
                  /\ totalRx[ReadSink(z)] = ReadLast(z) + unread[ReadSink(z)].count
                  /\ unread[ReadSink(z)].count > 0
                     /\ (Program = "taskALowRate" => z.at > FirstReading)
                       => unread[ReadSink(z)].since + Period >= z.at
             /\ ReadLast(z) \in Nat
  <2>1. MeterDue(z) /\ z \in Events
    BY <1>1, <1>7 DEF Due
  <2>2. z.last \in Nat /\ lastTotalRx \in Nat
    BY <2>1 DEF TimeInv, ClockTypes, Events
  <2>3. sink \in 0..scenario.flows
    BY <1>1, <1>4 DEF TimeInv, SetUpInv
  <2>4. ReadSink(z) # 0 => ReadSink(z) \in Flows
    BY <1>4, <1>7, <2>1, <2>3 DEF MeterDue, ReadSink, Flows
  <2>5. ReadLast(z) \in Nat
    BY <2>2 DEF ReadLast
  <2> QED BY <1>7, <2>1, <2>4, <2>5 DEF MeterDue
<1>8. CASE UNCHANGED <<totalRx, unread>>
  BY <1>2, <1>5, <1>6, <1>7, <1>8, Settles DEF MeterDue
<1>9. CASE Arrives(g, t)
  <2>1. /\ totalRx' \in [Flows -> Nat] /\ totalRx'[g] = totalRx[g] + 1
        /\ \A h \in Flows : h # g => totalRx'[h] = totalRx[h]
    BY <1>2, <1>9 DEF Arrives
  <2>2. PICK u : u = [count |-> unread[g].count + 1,
                      since |-> IF unread[g].count = 0 THEN t ELSE unread[g].since]
    OBVIOUS
  <2>3. /\ u \in [count : Nat, since : 0..StopTime] /\ u.count = unread[g].count + 1
        /\ u.since = IF unread[g].count = 0 THEN t ELSE unread[g].since
    BY <1>1, <1>2, <2>2
  <2>4. unread' = IF g = sink \/ Program = "taskAHighRate" THEN [unread EXCEPT ![g] = u] ELSE unread
    BY <1>9, <2>2 DEF Arrives
  <2>5. /\ unread' \in [Flows -> [count : Nat, since : 0..StopTime]]
        /\ \A h \in Flows : h # g => unread'[h] = unread[h]
        /\ g = sink \/ Program = "taskAHighRate" => unread'[g] = u
    BY <1>2, <2>3, <2>4
  <2>6. ASSUME NEW z \in Pending(queue)
        PROVE  MeterDue(z)'
    <3> SUFFICES ASSUME z.do = "meter" PROVE MeterDue(z)'
      BY DEF MeterDue
    <3>1. PICK r : r = ReadSink(z)
      OBVIOUS
    <3>2. PICK last : last = ReadLast(z)
      OBVIOUS
    <3>3. /\ PeriodDue(z) /\ PeriodDue(z)' /\ last \in Nat
          /\ IF z.flow = 0 THEN Program' # "taskAHighRate"
             ELSE Program' = "taskAHighRate" /\ z.flow \in 1..scenario'.flows
      BY <1>5, <1>7, <3>2, Settles
    <3>4. r # 0 => /\ r \in Flows /\ totalRx[r] = last + unread[r].count
                   /\ unread[r].count > 0 /\ (Program = "taskALowRate" => z.at > FirstReading)
                        => unread[r].since + Period >= z.at
      BY <1>7, <3>1, <3>2
    <3>5. ReadSink(z)' = r /\ ReadLast(z)' = last
      BY <1>6, <3>1, <3>2
    <3>6. ASSUME r # 0
          PROVE  /\ totalRx'[r] = last + unread'[r].count
                 /\ unread'[r].count > 0 /\ (Program = "taskALowRate" => z.at > FirstReading)
                      => unread'[r].since + Period >= z.at
      <4>1. CASE r # g
        BY <2>1, <2>5, <3>4, <3>6, <4>1
      <4>2. CASE r = g
        <5>1. g = sink \/ Program = "taskAHighRate"
          BY <1>7, <3>1, <4>2 DEF ReadSink
        <5>2. unread'[g] = u
          BY <2>5, <5>1
        <5>3. totalRx'[r] = last + unread'[r].count
          BY <1>2, <2>1, <2>3, <3>3, <3>4, <3>6, <4>2, <5>2
        <5>4. (Program = "taskALowRate" => z.at > FirstReading) => t + Period >= z.at
          BY <1>1, <3>3
        <5> QED BY <1>2, <2>3, <3>4, <3>6, <4>2, <5>2, <5>3, <5>4
      <4> QED BY <4>1, <4>2
    <3> QED BY <3>3, <3>5, <3>6, Settles DEF MeterDue
  <2> QED BY <2>1, <2>5, <2>6
<1> QED BY <1>8, <1>9

(* And the frames that are sent and dropped, the next ratio.               *)
LEMMA CountKeeps ==
  ASSUME NetworkInv, TimeInv, NEW t \in now..StopTime, Meanwhile(t),
         NEW f \in Flows, sent[f] > 0, scenario' = scenario,
         NEW s \in {0, 1}, NEW d \in {0, 1}, Count(s, d, t)
  PROVE  /\ frames' \in [sent : Nat, dropped : Nat, since : 0..StopTime]
         /\ FramesInv'
         /\ \A z \in Pending(queue) : DropsDue(z)'
<1>1. /\ phase = "running" /\ now' = t /\ now \in Nat /\ t \in 0..StopTime /\ now <= t
      /\ \A z \in Pending(queue) : z \in Events /\ Due(z) /\ t <= z.at
      /\ \A z \in Pending(queue) :
           PeriodDue(z) /\ (Program = "taskALowRate" => z.at > FirstReading)
             => t + Period >= z.at
  BY WithinPeriod
<1>2. /\ frames \in [sent : Nat, dropped : Nat, since : 0..StopTime]
      /\ frames.sent \in Nat /\ frames.dropped \in Nat /\ frames.since \in 0..StopTime
      /\ totalPacketsSent = frames.sent /\ totalPacketsDropped = frames.dropped
  BY DEF TimeInv, ClockTypes, FramesInv
<1>3. /\ totalPacketsSent' = totalPacketsSent + s /\ totalPacketsDropped' = totalPacketsDropped + d
      /\ frames' = IF s + d = 0 THEN frames
                   ELSE [sent |-> frames.sent + s, dropped |-> frames.dropped + d,
                         since |-> IF frames.sent + frames.dropped = 0 THEN t ELSE frames.since]
  BY DEF Count, TxEnd, RxDrop
<1>4. /\ frames' \in [sent : Nat, dropped : Nat, since : 0..StopTime]
      /\ frames'.sent = frames.sent + s /\ frames'.dropped = frames.dropped + d
  <2>1. CASE s + d = 0
    BY <1>2, <1>3, <2>1
  <2>2. CASE s + d # 0
    <3>1. PICK c : c = IF frames.sent + frames.dropped = 0 THEN t ELSE frames.since
      OBVIOUS
    <3>2. c \in 0..StopTime /\ frames.sent + s \in Nat /\ frames.dropped + d \in Nat
      BY <1>1, <1>2, <3>1
    <3>3. frames' = [sent |-> frames.sent + s, dropped |-> frames.dropped + d, since |-> c]
      BY <1>3, <2>2, <3>1
    <3> QED BY <3>2, <3>3
  <2> QED BY <2>1, <2>2
<1>5. FramesInv'
  BY <1>2, <1>3, <1>4 DEF FramesInv
<1>6. ASSUME NEW z \in Pending(queue)
      PROVE  DropsDue(z)'
  <2> SUFFICES ASSUME z.do = "drops" PROVE DropsDue(z)'
    BY DEF DropsDue
  <2>1. /\ PeriodDue(z) /\ Program = "taskB" /\ z.flow = 0 /\ z.at \in Nat
        /\ frames.sent + frames.dropped > 0 => frames.since + Period >= z.at
    BY <1>1 DEF Due, DropsDue, Events
  <2>2. t + Period >= z.at
    BY <1>1, <2>1
  <2>3. PeriodDue(z)'
    BY <1>1, <2>1, ClockConstants, Settles DEF PeriodDue
  <2>4. frames'.sent + frames'.dropped > 0 => frames'.since + Period >= z.at
    <3>1. CASE s + d = 0
      BY <1>3, <2>1, <3>1
    <3>2. CASE s + d # 0
      BY <1>2, <1>3, <2>1, <2>2, <3>2
    <3> QED BY <3>1, <3>2
  <2> QED BY <2>1, <2>3, <2>4, Settles DEF DropsDue
<1> QED BY <1>4, <1>5, <1>6

(* A step of the network, which passes no event. *)
LEMMA CarryingKeeps ==
  ASSUME NetworkInv, TimeInv, NEW t \in now..StopTime, Meanwhile(t),
         NEW f \in Flows, sent[f] > 0,
         UNCHANGED <<setupVars, phase, queue, sent, lastTotalRx, reading>>,
         inFlight' \in [Flows -> 0..Buffer], \A h \in Flows : inFlight'[h] > 0 => inFlight[h] > 0,
         NEW g \in Flows, UNCHANGED <<totalRx, unread>> \/ Arrives(g, t),
         NEW s \in {0, 1}, NEW d \in {0, 1}, Count(s, d, t)
  PROVE  TimeInv'
<1>1. /\ phase = "running" /\ EventsInv /\ now' = t
      /\ now \in Nat /\ t \in 0..StopTime /\ now <= t /\ t \in Nat
      /\ \A z \in Pending(queue) : z \in Events /\ Due(z) /\ t <= z.at
  BY WithinPeriod, ClockConstants
<1>2. /\ scenario' = scenario /\ placed' = placed /\ sink' = sink /\ phase' = phase
      /\ queue' = queue /\ sent' = sent /\ lastTotalRx' = lastTotalRx /\ reading' = reading
      /\ ratio' = ratio
  BY DEF setupVars, Count
<1>3. /\ totalRx' \in [Flows -> Nat]
      /\ unread' \in [Flows -> [count : Nat, since : 0..StopTime]]
      /\ \A z \in Pending(queue) : MeterDue(z)'
  BY <1>2, ArrivalKeeps
<1>4. /\ frames' \in [sent : Nat, dropped : Nat, since : 0..StopTime]
      /\ FramesInv'
      /\ \A z \in Pending(queue) : DropsDue(z)'
  BY <1>2, CountKeeps
<1>5. ClockTypes'
  BY <1>1, <1>2, <1>3, <1>4 DEF TimeInv, ClockTypes
<1>6. SetUpInv'
  BY <1>2, Settles DEF TimeInv, SetUpInv
<1>7. SentInv'
  BY <1>1, <1>2, SentLater
<1>8. ReadingOfOnePeriod' /\ RatioOfOnePeriod'
  BY <1>2, Settles DEF TimeInv, ReadingOfOnePeriod, RatioOfOnePeriod
<1>9. \A z \in Pending(queue) : Due(z)'
  <2> TAKE z \in Pending(queue)
  <2>1. Due(z) /\ t <= z.at
    BY <1>1
  <2>2. AppDue(z)' /\ StopDue(z)'
    BY <1>2, <2>1, Settles DEF Due, AppDue, StopDue
  <2>3. now' <= z.at
    BY <1>1, <2>1
  <2> QED BY <1>3, <1>4, <2>2, <2>3 DEF Due
<1>10. EventsInv'
  <2>1. Queue(queue)' /\ Pending(queue)' = Pending(queue)
    BY <1>1, <1>2 DEF EventsInv, Queue, Sorted, OncePerSlot, Pending
  <2>2. \A h : StillSends(h)' <=> StillSends(h)
    BY <1>2, Settles DEF StillSends
  <2> QED BY <1>1, <1>2, <1>9, <2>1, <2>2 DEF EventsInv
<1> QED BY <1>1, <1>2, <1>4, <1>5, <1>6, <1>7, <1>8, <1>10 DEF TimeInv, Before, Early

LEMMA NetworkKeeps ==
  ASSUME NetworkInv, TimeInv, Network
  PROVE  TimeInv'
<1>1. PICK f \in 1..Len(placed), t \in now..StopTime :
        \/ \E g \in 1..Len(placed) : Receive(f, g, t)
        \/ \E fate \in {"arrives", "lost", "dropped"} : SendInVain(f, fate, t)
        \/ DropOverheard(f, t)
  BY DEF Network
<1>2. phase = "running"
  BY <1>1 DEF Receive, SendInVain, DropOverheard, Meanwhile
<1>3. \A g \in 1..Len(placed) : g \in Flows
  BY <1>2, ScenarioTypes DEF TimeInv, SetUpInv, NetworkInv, Flows
<1>4. inFlight \in [Flows -> 0..Buffer] /\ Buffer \in Nat
  BY ClockConstants DEF TimeInv, ClockTypes
<1>5. ASSUME NEW g \in 1..Len(placed), Receive(f, g, t)
      PROVE  TimeInv'
  <2>1. PICK s \in {0, 1} : s = IF Watched(placed[f]) THEN 1 ELSE 0
    OBVIOUS
  <2>2. /\ Meanwhile(t) /\ inFlight[f] > 0 /\ inFlight' = [inFlight EXCEPT ![f] = @ - 1]
        /\ Arrives(g, t) /\ Count(s, 0, t)
        /\ UNCHANGED <<setupVars, phase, queue, sent, lastTotalRx, reading>>
    BY <1>5, <2>1 DEF Receive, Arrives
  <2>3. sent[f] > 0 /\ f \in Flows /\ g \in Flows
    BY <1>3, <2>2 DEF TimeInv, SentInv
  <2>4. inFlight[f] \in 1..Buffer
    BY <1>4, <2>2, <2>3
  <2>5. inFlight[f] - 1 \in 0..Buffer
    BY <1>4, <2>4
  <2>6. inFlight' \in [Flows -> 0..Buffer]
    BY <1>4, <2>2, <2>3, <2>5
  <2>7. \A h \in Flows : inFlight'[h] > 0 => inFlight[h] > 0
    BY <1>4, <2>2, <2>3
  <2>8. 0 \in {0, 1}
    OBVIOUS
  <2> QED BY <2>1, <2>2, <2>3, <2>6, <2>7, <2>8, CarryingKeeps
<1>6. ASSUME NEW fate \in {"arrives", "lost", "dropped"}, SendInVain(f, fate, t)
      PROVE  TimeInv'
  <2>1. PICK s \in {0, 1} : s = IF Watched(placed[f]) THEN 1 ELSE 0
    OBVIOUS
  <2>2. PICK d \in {0, 1} : d = IF Watched(placed[f]) /\ fate = "dropped" THEN 1 ELSE 0
    OBVIOUS
  <2>3. /\ Meanwhile(t) /\ sent[f] > 0 /\ Count(s, d, t) /\ UNCHANGED <<totalRx, unread>>
        /\ UNCHANGED <<setupVars, phase, queue, sent, lastTotalRx, reading>>
        /\ inFlight' = inFlight
    BY <1>6, <2>1, <2>2 DEF SendInVain, meterVars
  <2>4. f \in Flows
    BY <1>3
  <2>5. inFlight' \in [Flows -> 0..Buffer] /\ \A h \in Flows : inFlight'[h] > 0 => inFlight[h] > 0
    BY <1>4, <2>3
  <2> QED BY <2>1, <2>2, <2>3, <2>4, <2>5, CarryingKeeps
<1>7. ASSUME DropOverheard(f, t)
      PROVE  TimeInv'
  <2>1. /\ Meanwhile(t) /\ sent[f] > 0 /\ Count(0, 1, t) /\ UNCHANGED <<totalRx, unread>>
        /\ UNCHANGED <<setupVars, phase, queue, sent, lastTotalRx, reading>>
        /\ inFlight' = inFlight
    BY <1>7 DEF DropOverheard, meterVars
  <2>2. f \in Flows /\ 0 \in {0, 1} /\ 1 \in {0, 1}
    BY <1>3
  <2>3. inFlight' \in [Flows -> 0..Buffer] /\ \A h \in Flows : inFlight'[h] > 0 => inFlight[h] > 0
    BY <1>4, <2>1
  <2> QED BY <2>1, <2>2, <2>3, CarryingKeeps
<1> QED BY <1>1, <1>5, <1>6, <1>7

-----------------------------------------------------------------------------
(* What follows. *)

LEMMA TimeKeeps ==
  ASSUME NetworkInv, FlowsInv, TimeInv, [Next]_vars
  PROVE  TimeInv'
<1>1. CASE BuildNetwork
  BY <1>1, BuildingKeeps
<1>2. CASE \E f \in Flows : AddFlow(f)
  BY <1>2, PlacingKeeps
<1>3. CASE Run
  BY <1>3, RunKeeps
<1>4. CASE StartApplication \/ SendAgain
  <2>1. CASE StartApplication
    BY <2>1, SendKeeps DEF StartApplication
  <2>2. CASE SendAgain
    BY <2>2, SendKeeps DEF SendAgain
  <2> QED BY <1>4, <2>1, <2>2
<1>5. CASE CalculateThroughput \/ CalculateThroughputOf
  BY <1>5, MetersKeep
<1>6. CASE CalculateDropRatio
  BY <1>6, DropsKeep
<1>7. CASE ReadNullSink \/ Stop \/ Report \/ \E f \in Flows : AddFlowFails(f)
  BY <1>7, EndingKeeps
<1>8. CASE Network
  BY <1>8, NetworkKeeps
<1>9. CASE UNCHANGED vars
  BY <1>9, SameKeeps
<1> QED BY <1>1, <1>2, <1>3, <1>4, <1>5, <1>6, <1>7, <1>8, <1>9 DEF Next

LEMMA TimeInvariant ==
  Spec => []TimeInv
<1>1. Init => TimeInv
  <2> SUFFICES ASSUME Init PROVE TimeInv
    OBVIOUS
  <2>1. /\ phase = "options" /\ placed = <<>> /\ sink = 0 /\ now = 0 /\ queue = <<>>
        /\ sent = [f \in Flows |-> 0] /\ inFlight = [f \in Flows |-> 0]
        /\ totalRx = [f \in Flows |-> 0] /\ lastTotalRx = 0
        /\ unread = [f \in Flows |-> NoneUnread] /\ reading = NoReading
        /\ totalPacketsSent = 0 /\ totalPacketsDropped = 0
        /\ frames = NoFrames /\ ratio = NoRatio
    BY DEF Init, TopologyInit
  <2>2. Len(placed) = 0 /\ Len(queue) = 0 /\ 1..0 = {} /\ queue \in Seq(Events)
    BY <2>1
  <2>3. Queue(queue) /\ Pending(queue) = {} /\ {FlowMeter(f) : f \in 1..Len(placed)} = {}
    BY <2>2 DEF Queue, Sorted, OncePerSlot, Pending
  <2>4. Fresh
    BY <2>1, <2>3 DEF Fresh
  <2>5. ClockTypes
    BY <2>1, ClockConstants DEF ClockTypes, NoneUnread, NoFrames
  <2>6. SetUpInv
    BY <2>1, <2>2 DEF SetUpInv
  <2>7. SentInv
    BY <2>1 DEF SentInv
  <2>8. FramesInv
    BY <2>1 DEF FramesInv, NoFrames
  <2>9. ReadingOfOnePeriod
    BY <2>1 DEF ReadingOfOnePeriod, NoReading, NoneUnread
  <2>10. RatioOfOnePeriod
    BY <2>1 DEF RatioOfOnePeriod, NoRatio, NoFrames
  <2> QED BY <2>1, <2>4, <2>5, <2>6, <2>7, <2>8, <2>9, <2>10 DEF TimeInv
<1>2. NetworkInv /\ FlowsInv /\ TimeInv /\ [Next]_vars => TimeInv'
  BY TimeKeeps
<1> QED BY <1>1, <1>2, SetUpInvariant, PTL DEF Spec

(* taskB's, taskAHighRate's and taskALowRate's applications keep their     *)
(* rate, whatever the numbers of flows and packets and the intervals are.  *)
THEOREM ApplicationsKeepTheirRate ==
  Spec => []OnSchedule
<1>1. TimeInv => OnSchedule
  <2> SUFFICES ASSUME TimeInv, phase = "running", NEW f \in 1..scenario.flows,
                      NEW pending,
                      pending = {k \in DOMAIN queue : queue[k].flow = f
                                                      /\ queue[k].do \in {"start", "send"}}
               PROVE  /\ Cardinality(pending) = (IF StillSends(f) THEN 1 ELSE 0)
                      /\ \A k \in pending : queue[k].at = StartTime(f) + PacketInterval * sent[f]
    BY DEF OnSchedule, StillSends, Wanted
  <2>1. EventsInv /\ Queue(queue)
    BY DEF TimeInv, EventsInv
  <2>2. /\ DOMAIN queue = 1..Len(queue)
        /\ \A k \in 1..Len(queue) : queue[k] \in Pending(queue) /\ queue[k] \in Events
    BY <2>1, EventTypes DEF Queue, Pending
  <2>3. \A k \in 1..Len(queue) : k \in pending <=> Slot(queue[k]) = <<"app", f>>
    <3> TAKE k \in 1..Len(queue)
    <3>1. queue[k].do \in {"start", "send", "meter", "drops", "stop"}
      BY <2>2 DEF Events
    <3> QED BY <2>2, <3>1 DEF Slot
  <2>4. \A k \in pending : queue[k].at = StartTime(f) + PacketInterval * sent[f]
    <3> TAKE k \in pending
    <3>1. Due(queue[k]) /\ queue[k].flow = f /\ queue[k].do \in {"start", "send"}
      BY <2>1, <2>2 DEF EventsInv
    <3> QED BY <3>1 DEF Due, AppDue
  <2>5. CASE StillSends(f)
    <3>1. PICK z \in Pending(queue) : Slot(z) = <<"app", f>>
      BY <2>1, <2>5 DEF EventsInv
    <3>2. PICK k \in 1..Len(queue) : z = queue[k]
      BY DEF Pending
    <3>3. pending = {k}
      BY <2>1, <2>2, <2>3, <3>1, <3>2 DEF Queue, OncePerSlot
    <3> QED BY <2>4, <2>5, <3>3, FS_Singleton
  <2>6. CASE ~StillSends(f)
    <3>1. \A k \in 1..Len(queue) : Slot(queue[k]) # <<"app", f>>
      BY <2>1, <2>2, <2>6 DEF EventsInv
    <3>2. pending = {}
      BY <2>2, <2>3, <3>1
    <3> QED BY <2>6, <3>2, FS_EmptySet
  <2> QED BY <2>5, <2>6
<1> QED BY <1>1, TimeInvariant, PTL

(* A throughput meter reads each packet once, and but for the first of     *)
(* taskALowRate within the period it divides by.                           *)
THEOREM ReadingsAreOfOnePeriod ==
  Spec => []ReadingOfOnePeriod
<1>1. TimeInv => ReadingOfOnePeriod
  BY DEF TimeInv
<1> QED BY <1>1, TimeInvariant, PTL

(* And taskB's drop meter each frame sent and dropped.                     *)
THEOREM RatiosAreOfOnePeriod ==
  Spec => []RatioOfOnePeriod
<1>1. TimeInv => RatioOfOnePeriod
  BY DEF TimeInv
<1> QED BY <1>1, TimeInvariant, PTL

-----------------------------------------------------------------------------
(* Sums over finite sets. *)

Member(S) == CHOOSE x \in S : TRUE

LEMMA MemberIs ==
  ASSUME NEW S, IsFiniteSet(S), S # {}
  PROVE  /\ Member(S) \in S /\ IsFiniteSet(S \ {Member(S)})
         /\ Cardinality(S \ {Member(S)}) = Cardinality(S) - 1
         /\ Cardinality(S) \in Nat /\ Cardinality(S) - 1 \in Nat
<1>1. Member(S) \in S
  BY DEF Member
<1>2. /\ IsFiniteSet(S \ {Member(S)}) /\ Cardinality(S \ {Member(S)}) = Cardinality(S) - 1
  BY <1>1, FS_RemoveElement
<1>3. Cardinality(S) \in Nat /\ Cardinality(S \ {Member(S)}) \in Nat
  BY <1>2, FS_CardinalityType
<1> QED BY <1>1, <1>2, <1>3

(* Induction over the subsets of a finite set, one member more at a time.  *)
LEMMA AllSubsets ==
  ASSUME NEW S, IsFiniteSet(S), NEW T, {} \in T,
         \A t \in SUBSET S : t # {} /\ t \ {Member(t)} \in T => t \in T
  PROVE  \A t \in SUBSET S : t \in T
<1> DEFINE N == {n \in Nat : \A t \in SUBSET S : Cardinality(t) = n => t \in T}
<1>1. \A t \in SUBSET S : IsFiniteSet(t) /\ Cardinality(t) \in Nat
  BY FS_Subset, FS_CardinalityType
<1>2. 0 \in N
  <2>1. \A t \in SUBSET S : Cardinality(t) = 0 => t = {}
    BY <1>1, FS_EmptySet
  <2> QED BY <2>1
<1>3. ASSUME NEW n \in Nat, n \in N
      PROVE  n + 1 \in N
  <2> SUFFICES ASSUME NEW t \in SUBSET S, Cardinality(t) = n + 1
               PROVE  t \in T
    OBVIOUS
  <2>1. t # {}
    BY FS_EmptySet
  <2>2. Cardinality(t \ {Member(t)}) = n
    BY <1>1, <2>1, MemberIs
  <2>3. t \ {Member(t)} \in SUBSET S
    OBVIOUS
  <2> QED BY <1>3, <2>1, <2>2, <2>3
<1>4. \A n \in Nat : n \in N
  <2> HIDE DEF N
  <2> QED BY <1>2, <1>3, AllNaturals
<1> QED BY <1>1, <1>4

(* The sums of the subsets of S are computed one from another.             *)
SumStep(g, it, t) == IF t = {} THEN 0 ELSE g[Member(t)] + it[t \ {Member(t)}]
Adds(g, it, S) == it = [t \in SUBSET S |-> SumStep(g, it, t)]

LEMMA SumsExist ==
  ASSUME NEW S, IsFiniteSet(S), NEW g
  PROVE  \E it : Adds(g, it, S)
<1> DEFINE Small(n) == {t \in SUBSET S : Cardinality(t) <= n}
           N == {n \in Nat : \E it : it = [t \in Small(n) |-> SumStep(g, it, t)]}
<1>1. \A t \in SUBSET S : IsFiniteSet(t) /\ Cardinality(t) \in Nat
  BY FS_Subset, FS_CardinalityType
<1>2. 0 \in N
  <2>1. Small(0) = {{}}
    BY <1>1, FS_EmptySet
  <2>2. PICK it : it = [t \in Small(0) |-> 0]
    OBVIOUS
  <2>3. \A t \in Small(0) : SumStep(g, it, t) = 0
    BY <2>1 DEF SumStep
  <2>4. it = [t \in Small(0) |-> SumStep(g, it, t)]
    BY <2>2, <2>3
  <2> QED BY <2>4
<1>3. ASSUME NEW n \in Nat, n \in N
      PROVE  n + 1 \in N
  <2>1. PICK it : it = [t \in Small(n) |-> SumStep(g, it, t)]
    BY <1>3
  <2>2. PICK jt : jt = [t \in Small(n + 1) |-> SumStep(g, it, t)]
    OBVIOUS
  <2>3. \A t \in Small(n) : t \in Small(n + 1) /\ jt[t] = it[t]
    BY <1>1, <2>1, <2>2
  <2>4. \A t \in Small(n + 1) : SumStep(g, jt, t) = SumStep(g, it, t)
    <3> TAKE t \in Small(n + 1)
    <3>1. CASE t = {}
      BY <3>1 DEF SumStep
    <3>2. CASE t # {}
      <4>1. t \ {Member(t)} \in Small(n)
        BY <1>1, <3>2, MemberIs
      <4> QED BY <2>3, <3>2, <4>1 DEF SumStep
    <3> QED BY <3>1, <3>2
  <2>5. jt = [t \in Small(n + 1) |-> SumStep(g, jt, t)]
    BY <2>2, <2>4
  <2>6. n + 1 \in Nat
    OBVIOUS
  <2> QED BY <2>5, <2>6, Zenon
<1>4. Cardinality(S) \in N
  <2> HIDE DEF N
  <2>1. Cardinality(S) \in Nat
    BY FS_CardinalityType
  <2> QED BY <1>2, <1>3, <2>1, AllNaturals
<1>5. Small(Cardinality(S)) = SUBSET S
  BY <1>1, FS_Subset
<1> QED BY <1>4, <1>5 DEF Adds

LEMMA SumIs ==
  ASSUME NEW S, IsFiniteSet(S), NEW g
  PROVE  \E it : Adds(g, it, S) /\ SumFunctionOnSet(g, S) = it[S]
<1>1. SumFunctionOnSet(g, S) = (CHOOSE it : Adds(g, it, S))[S]
  BY DEF SumFunctionOnSet, FoldFunctionOnSet, MapThenFoldSet, Adds, SumStep, Member
<1>2. Adds(g, CHOOSE it : Adds(g, it, S), S)
  BY SumsExist
<1> QED BY <1>1, <1>2

(* And all ways to compute them agree. *)
LEMMA SumsAgree ==
  ASSUME NEW S, IsFiniteSet(S), NEW g, NEW it, Adds(g, it, S),
         NEW R \in SUBSET S, NEW jt, Adds(g, jt, R)
  PROVE  \A t \in SUBSET R : it[t] = jt[t]
<1> DEFINE T == {t \in SUBSET R : it[t] = jt[t]}
<1>1. \A t \in SUBSET R : /\ it[t] = SumStep(g, it, t)
                          /\ jt[t] = SumStep(g, jt, t)
  BY DEF Adds
<1>2. {} \in T
  BY <1>1 DEF SumStep
<1>3. ASSUME NEW t \in SUBSET R, t # {}, t \ {Member(t)} \in T
      PROVE  t \in T
  BY <1>1, <1>3 DEF SumStep
<1>4. IsFiniteSet(R)
  BY FS_Subset
<1>5. \A t \in SUBSET R : t \in T
  <2> HIDE DEF T
  <2> QED BY <1>2, <1>3, <1>4, AllSubsets
<1> QED BY <1>5

LEMMA SumUnfolds ==
  ASSUME NEW S, IsFiniteSet(S), NEW g
  PROVE  /\ S = {} => SumFunctionOnSet(g, S) = 0
         /\ S # {} => SumFunctionOnSet(g, S) =
                        g[Member(S)] + SumFunctionOnSet(g, S \ {Member(S)})
<1>1. PICK it : Adds(g, it, S) /\ SumFunctionOnSet(g, S) = it[S]
  BY SumIs
<1>2. it[S] = SumStep(g, it, S)
  BY <1>1 DEF Adds
<1>3. CASE S = {}
  BY <1>1, <1>2, <1>3 DEF SumStep
<1>4. CASE S # {}
  <2>1. PICK R : R = S \ {Member(S)}
    OBVIOUS
  <2>2. R \in SUBSET S /\ IsFiniteSet(R)
    BY <1>4, <2>1, MemberIs
  <2>3. PICK jt : Adds(g, jt, R) /\ SumFunctionOnSet(g, R) = jt[R]
    BY <2>2, SumIs
  <2>4. it[R] = jt[R]
    BY <1>1, <2>2, <2>3, SumsAgree
  <2>5. it[S] = g[Member(S)] + it[R]
    BY <1>2, <1>4, <2>1 DEF SumStep
  <2> QED BY <1>1, <1>4, <2>1, <2>3, <2>4, <2>5
<1> QED BY <1>3, <1>4

LEMMA SumTypes ==
  ASSUME NEW S, IsFiniteSet(S), NEW g
  PROVE  /\ (\A x \in S : g[x] \in Int) => SumFunctionOnSet(g, S) \in Int
         /\ (\A x \in S : g[x] \in Nat) => SumFunctionOnSet(g, S) \in Nat
<1> DEFINE T == {t \in SUBSET S :
                   /\ (\A x \in t : g[x] \in Int) => SumFunctionOnSet(g, t) \in Int
                   /\ (\A x \in t : g[x] \in Nat) => SumFunctionOnSet(g, t) \in Nat}
<1>1. {} \in T
  BY FS_EmptySet, SumUnfolds
<1>2. ASSUME NEW t \in SUBSET S, t # {}, t \ {Member(t)} \in T
      PROVE  t \in T
  <2>1. IsFiniteSet(t) /\ Member(t) \in t
    BY <1>2, FS_Subset, MemberIs
  <2>2. SumFunctionOnSet(g, t) = g[Member(t)] + SumFunctionOnSet(g, t \ {Member(t)})
    BY <1>2, <2>1, SumUnfolds
  <2> QED BY <1>2, <2>1, <2>2
<1>3. \A t \in SUBSET S : t \in T
  <2> HIDE DEF T
  <2> QED BY <1>1, <1>2, AllSubsets
<1> QED BY <1>3

(* Any member may come first. *)
LEMMA SumOfOneMore ==
  ASSUME NEW S, IsFiniteSet(S), NEW g, \A x \in S : g[x] \in Int, NEW a \in S
  PROVE  SumFunctionOnSet(g, S) = g[a] + SumFunctionOnSet(g, S \ {a})
<1> DEFINE N == {n \in Nat : \A t \in SUBSET S : Cardinality(t) = n =>
                   \A x \in t : SumFunctionOnSet(g, t) = g[x] + SumFunctionOnSet(g, t \ {x})}
<1>1. \A t \in SUBSET S : /\ IsFiniteSet(t) /\ Cardinality(t) \in Nat
                          /\ SumFunctionOnSet(g, t) \in Int
  BY FS_Subset, FS_CardinalityType, SumTypes
<1>2. 0 \in N
  <2>1. \A t \in SUBSET S : Cardinality(t) = 0 => t = {}
    BY <1>1, FS_EmptySet
  <2> QED BY <2>1
<1>3. ASSUME NEW n \in Nat, n \in N
      PROVE  n + 1 \in N
  <2> SUFFICES ASSUME NEW t \in SUBSET S, Cardinality(t) = n + 1, NEW x \in t
               PROVE  SumFunctionOnSet(g, t) = g[x] + SumFunctionOnSet(g, t \ {x})
    OBVIOUS
  <2>1. PICK m : m = Member(t)
    OBVIOUS
  <2>2. m \in t /\ SumFunctionOnSet(g, t) = g[m] + SumFunctionOnSet(g, t \ {m})
    BY <1>1, <2>1, MemberIs, SumUnfolds
  <2>3. \A y \in t : t \ {y} \in SUBSET S /\ Cardinality(t \ {y}) = n
    <3> TAKE y \in t
    <3>1. Cardinality(t \ {y}) = Cardinality(t) - 1
      BY <1>1, FS_RemoveElement
    <3>2. Cardinality(t \ {y}) = n
      BY <3>1
    <3> QED BY <3>2
  <2>4. CASE x = m
    BY <2>2, <2>4
  <2>5. CASE x # m
    <3>1. SumFunctionOnSet(g, t \ {m}) = g[x] + SumFunctionOnSet(g, (t \ {m}) \ {x})
      BY <1>3, <2>2, <2>3, <2>5
    <3>2. SumFunctionOnSet(g, t \ {x}) = g[m] + SumFunctionOnSet(g, (t \ {x}) \ {m})
      BY <1>3, <2>2, <2>3, <2>5
    <3>3. (t \ {m}) \ {x} = (t \ {x}) \ {m} /\ (t \ {m}) \ {x} \in SUBSET S
      OBVIOUS
    <3>4. PICK rest \in Int : rest = SumFunctionOnSet(g, (t \ {m}) \ {x})
      BY <1>1, <3>3
    <3>5. PICK u \in Int, v \in Int : u = g[x] /\ v = g[m]
      BY <2>2
    <3>6. SumFunctionOnSet(g, t) = v + (u + rest)
      BY <2>2, <3>1, <3>4, <3>5
    <3>7. g[x] + SumFunctionOnSet(g, t \ {x}) = u + (v + rest)
      BY <3>2, <3>3, <3>4, <3>5
    <3> QED BY <3>5, <3>6, <3>7
  <2> QED BY <2>4, <2>5
<1>4. Cardinality(S) \in N
  <2> HIDE DEF N
  <2> QED BY <1>1, <1>2, <1>3, AllNaturals
<1> QED BY <1>4

LEMMA SumOfSums ==
  ASSUME NEW S, IsFiniteSet(S), NEW g, NEW h, NEW k,
         \A x \in S : g[x] \in Int /\ h[x] \in Int /\ k[x] = g[x] + h[x]
  PROVE  SumFunctionOnSet(k, S) = SumFunctionOnSet(g, S) + SumFunctionOnSet(h, S)
<1> DEFINE T == {t \in SUBSET S :
                   SumFunctionOnSet(k, t) = SumFunctionOnSet(g, t) + SumFunctionOnSet(h, t)}
<1>1. {} \in T
  <2>1. IsFiniteSet({})
    BY FS_EmptySet
  <2>2. \A f : SumFunctionOnSet(f, {}) = 0
    BY <2>1, SumUnfolds
  <2>3. SumFunctionOnSet(k, {}) = 0 /\ SumFunctionOnSet(g, {}) = 0 /\ SumFunctionOnSet(h, {}) = 0
    BY <2>2
  <2> QED BY <2>3
<1>2. ASSUME NEW t \in SUBSET S, t # {}, t \ {Member(t)} \in T
      PROVE  t \in T
  <2>1. PICK m, r : m = Member(t) /\ r = t \ {m}
    OBVIOUS
  <2>2. IsFiniteSet(t) /\ m \in t /\ IsFiniteSet(r) /\ r \in SUBSET S
    BY <1>2, <2>1, FS_Subset, MemberIs
  <2>3. SumFunctionOnSet(g, t) = g[m] + SumFunctionOnSet(g, r)
    BY <1>2, <2>1, <2>2, SumUnfolds
  <2>4. SumFunctionOnSet(h, t) = h[m] + SumFunctionOnSet(h, r)
    BY <1>2, <2>1, <2>2, SumUnfolds
  <2>5. SumFunctionOnSet(k, t) = k[m] + SumFunctionOnSet(k, r)
    BY <1>2, <2>1, <2>2, SumUnfolds
  <2>6. SumFunctionOnSet(k, r) = SumFunctionOnSet(g, r) + SumFunctionOnSet(h, r)
    BY <1>2, <2>1
  <2>7. SumFunctionOnSet(g, r) \in Int /\ SumFunctionOnSet(h, r) \in Int
    BY <2>2, SumTypes
  <2>8. g[m] \in Int /\ h[m] \in Int /\ k[m] = g[m] + h[m]
    BY <2>2
  <2> QED BY <2>3, <2>4, <2>5, <2>6, <2>7, <2>8
<1>3. \A t \in SUBSET S : t \in T
  <2> HIDE DEF T
  <2> QED BY <1>1, <1>2, AllSubsets
<1> QED BY <1>3

LEMMA SumOfZeros ==
  ASSUME NEW S, IsFiniteSet(S), NEW g, \A x \in S : g[x] = 0
  PROVE  SumFunctionOnSet(g, S) = 0
<1>1. \A x \in S : g[x] \in Int /\ g[x] = g[x] + g[x]
  OBVIOUS
<1>2. SumFunctionOnSet(g, S) = SumFunctionOnSet(g, S) + SumFunctionOnSet(g, S)
  BY <1>1, SumOfSums
<1>3. SumFunctionOnSet(g, S) \in Int
  BY <1>1, SumTypes
<1>4. PICK n \in Int : n = SumFunctionOnSet(g, S)
  BY <1>3
<1>5. n = n + n
  BY <1>2, <1>4
<1>6. n = 0
  BY <1>5
<1> QED BY <1>4, <1>6

LEMMA SumSame ==
  ASSUME NEW S, IsFiniteSet(S), NEW g, NEW h, \A x \in S : h[x] \in Int /\ g[x] = h[x]
  PROVE  SumFunctionOnSet(g, S) = SumFunctionOnSet(h, S)
<1>1. PICK z : z = [x \in S |-> 0]
  OBVIOUS
<1>2. \A x \in S : h[x] \in Int /\ z[x] \in Int /\ g[x] = h[x] + z[x] /\ z[x] = 0
  BY <1>1
<1>3. SumFunctionOnSet(g, S) = SumFunctionOnSet(h, S) + SumFunctionOnSet(z, S)
  BY <1>2, SumOfSums
<1>4. SumFunctionOnSet(z, S) = 0 /\ SumFunctionOnSet(h, S) \in Int
  BY <1>2, SumOfZeros, SumTypes
<1> QED BY <1>3, <1>4

(* One of the terms is changed by d. *)
LEMMA SumChanged ==
  ASSUME NEW S, IsFiniteSet(S), NEW g, NEW h, NEW a \in S, NEW d \in Int,
         \A x \in S : g[x] \in Int /\ h[x] = IF x = a THEN g[x] + d ELSE g[x]
  PROVE  SumFunctionOnSet(h, S) = SumFunctionOnSet(g, S) + d
<1>1. PICK r : r = S \ {a}
  OBVIOUS
<1>2. IsFiniteSet(r) /\ \A x \in r : g[x] \in Int /\ h[x] = g[x]
  BY <1>1, FS_RemoveElement
<1>3. \A x \in S : h[x] \in Int
  OBVIOUS
<1>4. SumFunctionOnSet(g, S) = g[a] + SumFunctionOnSet(g, r)
  BY <1>1, SumOfOneMore
<1>5. SumFunctionOnSet(h, S) = h[a] + SumFunctionOnSet(h, r)
  BY <1>1, <1>3, SumOfOneMore
<1>6. SumFunctionOnSet(h, r) = SumFunctionOnSet(g, r) /\ SumFunctionOnSet(g, r) \in Int
  BY <1>2, SumSame, SumTypes
<1>7. g[a] \in Int /\ h[a] = g[a] + d
  OBVIOUS
<1> QED BY <1>4, <1>5, <1>6, <1>7

(* Each part of a sum of naturals is no more than the sum. *)
LEMMA SumOfPart ==
  ASSUME NEW S, IsFiniteSet(S), NEW g, \A x \in S : g[x] \in Nat, NEW R \in SUBSET S
  PROVE  SumFunctionOnSet(g, R) <= SumFunctionOnSet(g, S)
<1> DEFINE T == {t \in SUBSET S : SumFunctionOnSet(g, t \cap R) <= SumFunctionOnSet(g, t)}
<1>1. \A t \in SUBSET S : IsFiniteSet(t) /\ SumFunctionOnSet(g, t) \in Nat
  BY FS_Subset, SumTypes
<1>2. {} \in T
  <2>1. {} \cap R = {} /\ SumFunctionOnSet(g, {}) = 0
    BY FS_EmptySet, SumUnfolds
  <2> QED BY <2>1
<1>3. ASSUME NEW t \in SUBSET S, t # {}, t \ {Member(t)} \in T
      PROVE  t \in T
  <2>1. PICK m : m = Member(t)
    OBVIOUS
  <2>2. m \in t /\ SumFunctionOnSet(g, t) = g[m] + SumFunctionOnSet(g, t \ {m})
    BY <1>1, <1>3, <2>1, MemberIs, SumUnfolds
  <2>3. SumFunctionOnSet(g, (t \ {m}) \cap R) <= SumFunctionOnSet(g, t \ {m})
    BY <1>3, <2>1
  <2>4. g[m] \in Nat
    BY <2>2
  <2>5. PICK c \in Nat : c = SumFunctionOnSet(g, (t \ {m}) \cap R)
    BY <1>1
  <2>6. PICK b \in Nat : b = SumFunctionOnSet(g, t \ {m})
    BY <1>1
  <2>7. CASE m \in R
    <3>1. PICK w : w = t \cap R
      OBVIOUS
    <3>2. w \in SUBSET S /\ IsFiniteSet(w) /\ m \in w /\ \A x \in w : g[x] \in Int
      BY <1>1, <2>2, <2>7, <3>1
    <3>3. SumFunctionOnSet(g, w) = g[m] + SumFunctionOnSet(g, w \ {m})
      BY <3>2, SumOfOneMore
    <3>4. w \ {m} = (t \ {m}) \cap R
      BY <3>1
    <3>5. SumFunctionOnSet(g, t \cap R) = g[m] + c
      BY <2>5, <3>1, <3>3, <3>4
    <3>6. g[m] + c <= g[m] + b
      BY <2>3, <2>4, <2>5, <2>6
    <3> QED BY <2>2, <2>6, <3>5, <3>6
  <2>8. CASE m \notin R
    <3>1. t \cap R = (t \ {m}) \cap R
      BY <2>8
    <3>2. SumFunctionOnSet(g, t \cap R) = c
      BY <2>5, <3>1
    <3>3. c <= g[m] + b
      BY <2>3, <2>4, <2>5, <2>6
    <3> QED BY <2>2, <2>6, <3>2, <3>3
  <2> QED BY <2>7, <2>8
<1>4. \A t \in SUBSET S : t \in T
  <2> HIDE DEF T
  <2> QED BY <1>2, <1>3, AllSubsets
<1>5. S \cap R = R
  OBVIOUS
<1> QED BY <1>4, <1>5

LEMMA SumOfTerm ==
  ASSUME NEW S, IsFiniteSet(S), NEW g, \A x \in S : g[x] \in Nat, NEW a \in S
  PROVE  g[a] <= SumFunctionOnSet(g, S)
<1>1. SumFunctionOnSet(g, S) = g[a] + SumFunctionOnSet(g, S \ {a})
  BY SumOfOneMore
<1>2. IsFiniteSet(S \ {a}) /\ \A x \in S \ {a} : g[x] \in Nat
  BY FS_RemoveElement
<1>3. SumFunctionOnSet(g, S \ {a}) \in Nat
  BY <1>2, SumTypes
<1> QED BY <1>1, <1>3

(* A sum of n numbers of at most c each. *)
LEMMA SumAtMost ==
  ASSUME NEW S, IsFiniteSet(S), NEW g, NEW c \in Nat, \A x \in S : g[x] \in Nat /\ g[x] <= c
  PROVE  SumFunctionOnSet(g, S) <= c * Cardinality(S)
<1> DEFINE T == {t \in SUBSET S : SumFunctionOnSet(g, t) <= c * Cardinality(t)}
<1>1. {} \in T
  <2>1. SumFunctionOnSet(g, {}) = 0 /\ Cardinality({}) = 0 /\ c * 0 = 0
    BY FS_EmptySet, SumUnfolds
  <2> QED BY <2>1
<1>2. ASSUME NEW t \in SUBSET S, t # {}, t \ {Member(t)} \in T
      PROVE  t \in T
  <2>1. PICK m, r : m = Member(t) /\ r = t \ {m}
    OBVIOUS
  <2>2. /\ IsFiniteSet(t) /\ m \in t /\ IsFiniteSet(r) /\ r \in SUBSET S
        /\ Cardinality(r) = Cardinality(t) - 1 /\ Cardinality(t) \in Nat
        /\ Cardinality(t) - 1 \in Nat
    BY <1>2, <2>1, FS_Subset, MemberIs
  <2>3. SumFunctionOnSet(g, t) = g[m] + SumFunctionOnSet(g, r)
    BY <1>2, <2>1, <2>2, SumUnfolds
  <2>4. SumFunctionOnSet(g, r) <= c * Cardinality(r) /\ SumFunctionOnSet(g, r) \in Nat
    BY <1>2, <2>1, <2>2, SumTypes
  <2>5. g[m] \in Nat /\ g[m] <= c
    BY <2>2
  <2>6. PICK n \in Nat : n = Cardinality(r) /\ n + 1 = Cardinality(t)
    BY <2>2
  <2>7. c * n \in Nat /\ c * (n + 1) = c * n + c
    BY Distributes
  <2> QED BY <2>3, <2>4, <2>5, <2>6, <2>7
<1>3. \A t \in SUBSET S : t \in T
  <2> HIDE DEF T
  <2> QED BY <1>1, <1>2, AllSubsets
<1> QED BY <1>3

-----------------------------------------------------------------------------
(* Types. *)

LEMMA GroupTypes ==
  ASSUME scenario \in Scenarios
  PROVE  /\ Nodes \in [Networks -> Seq(Nat)]
         /\ Program = "taskAHighRate" =>
              /\ Len(Nodes.p2p) = 2 /\ Nodes.p2p[1] \in Nat /\ Nodes.p2p[2] \in Nat
<1>1. /\ scenario.left \in Nat \ {0} /\ scenario.right \in Nat \ {0} /\ WsnNodes \in Nat
      /\ Program \in Programs
  BY ScenarioTypes
<1>2. /\ scenario.left - 1 \in Nat /\ scenario.right - 1 \in Nat
      /\ 2 + scenario.left \in Nat /\ 2 + (scenario.right - 1) \in Nat /\ 0 \in Nat /\ 2 \in Nat
  BY <1>1
<1>3. ASSUME NEW g, NEW p \in Seq(Nat), NEW l \in Seq(Nat), NEW r \in Seq(Nat),
             g = [p2p |-> p, left |-> l, right |-> r] \/ g = [p2p |-> p, right |-> r, left |-> l]
      PROVE  g \in [Networks -> Seq(Nat)] /\ g.p2p = p
  BY <1>3 DEF Networks, Sides
<1>4. CASE Program = "taskB"
  <2>1. PICK p, l, r : /\ p = Create(0, 2)
                       /\ l = <<0>> \o Create(2 + (scenario.right - 1), scenario.left - 1)
                       /\ r = <<1>> \o Create(2, scenario.right - 1)
    OBVIOUS
  <2>2. /\ Create(0, 2) \in Seq(Nat) /\ Create(2, scenario.right - 1) \in Seq(Nat)
        /\ Create(2 + (scenario.right - 1), scenario.left - 1) \in Seq(Nat)
    BY <1>2, Created
  <2>3. p \in Seq(Nat) /\ l \in Seq(Nat) /\ r \in Seq(Nat)
    BY <2>1, <2>2
  <2>4. Nodes = [p2p |-> p, right |-> r, left |-> l]
    BY <1>4, <2>1 DEF Nodes, WiredNodes
  <2> QED BY <1>3, <1>4, <2>3, <2>4
<1>5. CASE Program = "taskAHighRate"
  <2>1. PICK p, l, r : /\ p = Create(0, 2) /\ l = Create(2, scenario.left)
                       /\ r = Create(2 + scenario.left, scenario.right)
    OBVIOUS
  <2>2. p \in Seq(Nat) /\ Len(p) = 2 /\ p[1] \in Nat /\ p[2] \in Nat
    <3>1. Create(0, 2) \in Seq(Nat) /\ Len(Create(0, 2)) = 2
      BY <1>2, Created
    <3> QED BY <2>1, <3>1
  <2>3. l \in Seq(Nat) /\ r \in Seq(Nat)
    BY <1>1, <1>2, <2>1, Created
  <2>4. Nodes = [p2p |-> p, left |-> l, right |-> r]
    BY <1>5, <2>1 DEF Nodes, WifiNodes
  <2> QED BY <1>3, <2>2, <2>3, <2>4
<1>6. CASE Program = "taskALowRate"
  <2>1. Create(0, WsnNodes) \in Seq(Nat) /\ <<>> \in Seq(Nat)
    BY <1>1, <1>2, Created
  <2>2. Nodes = [Nowhere EXCEPT !["left"] = Create(0, WsnNodes)]
    BY <1>6 DEF Nodes, SensorNodes
  <2>3. Nodes \in [Networks -> Seq(Nat)]
    BY <2>1, <2>2 DEF Nowhere, Networks, Sides
  <2> QED BY <1>6, <2>3
<1> QED BY <1>1, <1>4, <1>5, <1>6 DEF Programs

(* Only taskAHighRate's nodes are given positions. *)
MovesInv == phase = "positions" => Program = "taskAHighRate"

LEMMA TopologyTypesKeep ==
  ASSUME NetworkInv, FlowsInv, TopologyTypeOK, MovesInv, NetworkInv', [Next]_vars
  PROVE  TopologyTypeOK'
<1>1. scenario' \in Scenarios /\ phase' \in Phases
  BY DEF NetworkInv
<1>2. CASE ParseOptions
  BY <1>1, <1>2 DEF ParseOptions, TopologyTypeOK, built
<1>3. CASE CreateNodes
  <2>1. group' = Nodes /\ position' = position /\ host' = host /\ lossy' = lossy
    BY <1>3 DEF CreateNodes, Nodes
  <2>2. group' \in [Networks -> Seq(Nat)]
    BY <2>1, GroupTypes DEF NetworkInv
  <2> QED BY <1>1, <2>1, <2>2 DEF TopologyTypeOK
<1>4. ASSUME phase \in {"positions", "addresses"}
      PROVE  /\ group \in [Networks -> Seq(Nat)]
             /\ Program = "taskAHighRate" =>
                  /\ Len(group.p2p) = 2 /\ group.p2p[1] \in Nat /\ group.p2p[2] \in Nat
  BY <1>4, GroupTypes DEF NetworkInv, GroupMade
<1>5. CASE InstallMobility
  <2> DEFINE order == group.left \o group.right \o <<Gateway("left"), Gateway("right")>>
             Cell(k) == <<Delta * ((k - 1) % GridWidth), Delta * ((k - 1) \div GridWidth)>>
             Turn(n) == CHOOSE k \in DOMAIN order : order[k] = n
  <2>1. /\ position' = [n \in {order[k] : k \in DOMAIN order} |-> Cell(Turn(n))]
        /\ group' = group /\ host' = host /\ lossy' = lossy /\ phase = "positions"
    BY <1>5 DEF InstallMobility
  <2>2. order \in Seq(Nat)
    <3>1. Gateway("left") \in Nat /\ Gateway("right") \in Nat
      BY <1>4, <2>1 DEF Gateway, MovesInv
    <3>2. PICK l, r, w : /\ l = group.left /\ r = group.right
                         /\ w = <<Gateway("left"), Gateway("right")>>
      OBVIOUS
    <3>3. l \in Seq(Nat) /\ r \in Seq(Nat) /\ w \in Seq(Nat)
      BY <1>4, <2>1, <3>1, <3>2 DEF Networks, Sides
    <3> QED BY <3>2, <3>3
  <2>3. \A k \in DOMAIN order : order[k] \in Nat /\ k \in Nat \ {0}
    <3>1. PICK q \in Seq(Nat) : q = order
      BY <2>2
    <3>2. Len(q) \in Nat /\ DOMAIN q = 1..Len(q) /\ \A k \in 1..Len(q) : q[k] \in Nat
      OBVIOUS
    <3>3. \A k \in DOMAIN q : q[k] \in Nat /\ k \in Nat \ {0}
      BY <3>2
    <3> QED BY <3>1, <3>3
  <2>4. \A k \in Nat \ {0} : Cell(k) \in Nat \X Nat
    <3>1. GridWidth \in Nat \ {0} /\ Delta \in Nat
      BY TopologyAssumption
    <3>2. \A a, b \in Nat : a * b \in Nat
      OBVIOUS
    <3>3. \A k \in Nat \ {0} : (k - 1) % GridWidth \in Nat /\ (k - 1) \div GridWidth \in Nat
      BY <3>1
    <3> QED BY <3>1, <3>2, <3>3
  <2> HIDE DEF order, Cell
  <2>5. \A n \in DOMAIN position' : n \in Nat /\ position'[n] \in Nat \X Nat
    <3> SUFFICES ASSUME NEW n \in {order[k] : k \in DOMAIN order}
                 PROVE  n \in Nat /\ position'[n] \in Nat \X Nat
      BY <2>1
    <3>1. Turn(n) \in DOMAIN order
      OBVIOUS
    <3> HIDE DEF Turn
    <3>2. position'[n] = Cell(Turn(n))
      BY <2>1
    <3> QED BY <2>3, <2>4, <3>1, <3>2
  <2> QED BY <1>1, <2>1, <2>5 DEF TopologyTypeOK
<1>6. CASE AssignAddresses
  <2>1. /\ host' = [net \in Networks |-> Devices(net)] /\ phase = "addresses"
        /\ lossy' = (IF Program = "taskAHighRate" THEN {<<"p2p", 0>>, <<"p2p", 1>>} ELSE {})
        /\ group' = group /\ position' = position
    BY <1>6 DEF AssignAddresses
  <2>2. lossy' \subseteq Networks \X Nat
    BY <2>1 DEF Networks
  <2>3. \A net \in Networks : Devices(net) \in Seq(Nat)
    <3> TAKE net \in Networks
    <3>1. group[net] \in Seq(Nat)
      BY <1>4, <2>1
    <3>2. CASE Program = "taskAHighRate" /\ net \in Sides
      <4>1. Gateway(net) \in Nat
        BY <1>4, <2>1, <3>2 DEF Gateway
      <4> QED BY <3>1, <3>2, <4>1 DEF Devices
    <3>3. CASE ~(Program = "taskAHighRate" /\ net \in Sides)
      BY <3>1, <3>3 DEF Devices
    <3> QED BY <3>2, <3>3
  <2> QED BY <1>1, <2>1, <2>2, <2>3 DEF TopologyTypeOK
<1>7. CASE \E f \in Flows : AddFlow(f)
  <2>1. PICK f \in Flows : AddFlow(f)
    BY <1>7
  <2>2. Receiver(f) \in Networks \X Nat
    BY ClockConstants DEF Receiver, Networks, Sides, Flows
  <2> QED BY <1>1, <2>1, <2>2 DEF AddFlow, TopologyTypeOK
<1>8. CASE Settled
  BY <1>1, <1>8 DEF Settled, setupVars, built, TopologyTypeOK
<1> QED BY <1>2, <1>3, <1>5, <1>6, <1>7, <1>8, LaterStepsSettle DEF Build

LEMMA ScenarioStays ==
  ASSUME [Next]_vars
  PROVE  scenario' = scenario
  BY LaterStepsSettle DEF Build, ParseOptions, CreateNodes, InstallMobility, AssignAddresses,
                          AddFlow, Settled, setupVars

LEMMA MovesKeep ==
  ASSUME MovesInv, [Next]_vars
  PROVE  MovesInv'
<1>1. scenario' = scenario
  BY ScenarioStays
<1>2. phase' = "positions" => phase = "positions" \/ CreateNodes
  BY LaterStepsSettle DEF Build, ParseOptions, InstallMobility, AssignAddresses, AddFlow, Later
<1> QED BY <1>1, <1>2, Settles DEF MovesInv, CreateNodes

(* What the steps change of the flow monitor's counts. *)
LEMMA CountSteps ==
  ASSUME [Next]_vars
  PROVE  \/ UNCHANGED <<totalRx, tx, rx, faults>>
         \/ \E f, g \in 1..Len(placed), t \in now..StopTime : Receive(f, g, t)
         \/ \E f \in 1..Len(placed), t \in now..StopTime :
              \/ \E fate \in {"arrives", "lost", "dropped"} : SendInVain(f, fate, t)
              \/ DropOverheard(f, t)
<1>1. CASE BuildNetwork
  BY <1>1 DEF BuildNetwork, networkVars
<1>2. CASE \E f \in Flows : AddFlow(f)
  BY <1>2 DEF AddFlow, networkVars
<1>3. CASE \E f \in Flows : AddFlowFails(f)
  BY <1>3 DEF AddFlowFails, networkVars
<1>4. CASE Run
  BY <1>4 DEF Run, networkVars
<1>5. CASE StartApplication \/ SendAgain
  BY <1>5 DEF StartApplication, SendAgain, SendPacket
<1>6. CASE CalculateThroughput \/ CalculateThroughputOf
  BY <1>6 DEF CalculateThroughput, CalculateThroughputOf, Read, networkVars
<1>7. CASE ReadNullSink
  BY <1>7 DEF ReadNullSink, networkVars
<1>8. CASE CalculateDropRatio
  BY <1>8 DEF CalculateDropRatio, networkVars
<1>9. CASE Stop
  BY <1>9 DEF Stop, networkVars
<1>10. CASE Report
  BY <1>10 DEF Report, networkVars
<1>11. CASE Network
  BY <1>11 DEF Network
<1>12. CASE UNCHANGED vars
  BY <1>12 DEF vars, networkVars
<1> QED BY <1>1, <1>2, <1>3, <1>4, <1>5, <1>6, <1>7, <1>8, <1>9, <1>10, <1>11, <1>12 DEF Next

LEMMA PlacedFlows ==
  ASSUME NetworkInv, FlowsInv
  PROVE  /\ scenario.flows \in 0..MaxFlows /\ Len(placed) \in 0..MaxFlows
         /\ \A f \in 1..Len(placed) : f \in Flows
<1>1. Len(placed) \in Nat /\ Len(placed) <= scenario.flows
  BY DEF FlowsInv
<1>2. scenario.flows \in 0..MaxFlows /\ MaxFlows \in Nat
  BY ScenarioTypes DEF NetworkInv
<1> QED BY <1>1, <1>2 DEF Flows

(* The flow monitor counts no segment in that did not go out, and no more  *)
(* go out in vain than there are mishaps.                                  *)
CountTypes == tx \in [Flows -> Nat] /\ rx \in [Flows -> Nat] /\ faults \in 0..scenario.faults

Unarrived == [f \in Flows |-> tx[f] - rx[f]]
LossInv ==
  /\ \A f \in Flows : rx[f] <= tx[f]
  /\ SumFunctionOnSet(Unarrived, Flows) <= faults

LEMMA FlowsFinite ==
  IsFiniteSet(Flows) /\ Cardinality(Flows) = MaxFlows
<1>1. MaxFlows \in Int /\ MaxFlows >= 0
  BY ClockConstants
<1> QED BY <1>1, FS_Interval DEF Flows

LEMMA FlowChanged ==
  ASSUME NEW f \in Flows, NEW u, NEW v, NEW d \in Int,
         \A h \in Flows : u[h] \in Int /\ v[h] = IF h = f THEN u[h] + d ELSE u[h]
  PROVE  SumFunctionOnSet(v, Flows) = SumFunctionOnSet(u, Flows) + d
  BY FlowsFinite, SumChanged

LEMMA ReceiveCounts ==
  ASSUME CountTypes, NEW f \in Flows, NEW g, NEW t, Receive(f, g, t)
  PROVE  /\ CountTypes' /\ faults' = faults
         /\ \A h \in Flows : /\ tx'[h] = IF h = f THEN tx[h] + 1 ELSE tx[h]
                             /\ rx'[h] = IF h = f THEN rx[h] + 1 ELSE rx[h]
<1>1. /\ tx' = [tx EXCEPT ![f] = @ + 1] /\ rx' = [rx EXCEPT ![f] = @ + 1]
      /\ faults' = faults /\ scenario' = scenario
  BY DEF Receive, setupVars
<1>2. tx[f] + 1 \in Nat /\ rx[f] + 1 \in Nat
  BY DEF CountTypes
<1>3. tx' \in [Flows -> Nat] /\ rx' \in [Flows -> Nat]
  BY <1>1, <1>2 DEF CountTypes
<1>4. \A h \in Flows : /\ tx'[h] = IF h = f THEN tx[h] + 1 ELSE tx[h]
                       /\ rx'[h] = IF h = f THEN rx[h] + 1 ELSE rx[h]
  BY <1>1 DEF CountTypes
<1> QED BY <1>1, <1>3, <1>4 DEF CountTypes

LEMMA VainCounts ==
  ASSUME NetworkInv, CountTypes, NEW f \in Flows, NEW fate, NEW t, SendInVain(f, fate, t)
  PROVE  /\ CountTypes' /\ faults' = faults + 1 /\ totalRx' = totalRx
         /\ \A h \in Flows : /\ tx'[h] = IF h = f THEN tx[h] + 1 ELSE tx[h]
                             /\ rx'[h] = IF h = f /\ fate = "arrives" THEN rx[h] + 1 ELSE rx[h]
<1>1. /\ tx' = [tx EXCEPT ![f] = @ + 1]
      /\ rx' = IF fate = "arrives" THEN [rx EXCEPT ![f] = @ + 1] ELSE rx
      /\ faults < scenario.faults /\ faults' = faults + 1 /\ scenario' = scenario
      /\ totalRx' = totalRx
  BY DEF SendInVain, Fault, setupVars
<1>2. tx[f] + 1 \in Nat /\ rx[f] + 1 \in Nat
  BY DEF CountTypes
<1>3. tx' \in [Flows -> Nat] /\ rx' \in [Flows -> Nat]
  BY <1>1, <1>2 DEF CountTypes
<1>4. \A h \in Flows : /\ tx'[h] = IF h = f THEN tx[h] + 1 ELSE tx[h]
                       /\ rx'[h] = IF h = f /\ fate = "arrives" THEN rx[h] + 1 ELSE rx[h]
  BY <1>1 DEF CountTypes
<1>5. faults' \in 0..scenario'.faults
  <2>1. scenario.faults \in Nat
    BY TopologyAssumption DEF NetworkInv
  <2> QED BY <1>1, <2>1 DEF CountTypes
<1> QED BY <1>1, <1>3, <1>4, <1>5 DEF CountTypes

LEMMA OverheardCounts ==
  ASSUME NetworkInv, CountTypes, NEW f, NEW t, DropOverheard(f, t)
  PROVE  CountTypes' /\ faults' = faults + 1 /\ tx' = tx /\ rx' = rx /\ totalRx' = totalRx
<1>1. /\ faults < scenario.faults /\ faults' = faults + 1 /\ scenario' = scenario
      /\ tx' = tx /\ rx' = rx /\ totalRx' = totalRx
  BY DEF DropOverheard, Fault, setupVars
<1>2. scenario.faults \in Nat
  BY TopologyAssumption DEF NetworkInv
<1> QED BY <1>1, <1>2 DEF CountTypes

LEMMA LossKeeps ==
  ASSUME NetworkInv, FlowsInv, CountTypes, LossInv, [Next]_vars, scenario' = scenario
  PROVE  CountTypes' /\ LossInv'
<1>1. /\ tx \in [Flows -> Nat] /\ rx \in [Flows -> Nat] /\ faults \in Nat
      /\ \A f \in Flows : tx[f] \in Nat /\ rx[f] \in Nat /\ rx[f] <= tx[f]
  <2>1. scenario.faults \in Nat
    BY TopologyAssumption DEF NetworkInv
  <2> QED BY <2>1 DEF CountTypes, LossInv
<1>2. \A f \in Flows : Unarrived[f] \in Nat /\ Unarrived[f] = tx[f] - rx[f]
  BY <1>1 DEF Unarrived
<1>3. SumFunctionOnSet(Unarrived, Flows) \in Nat
  BY <1>2, FlowsFinite, SumTypes
<1>4. CASE UNCHANGED <<totalRx, tx, rx, faults>>
  <2>1. Unarrived' = Unarrived
    BY <1>4 DEF Unarrived
  <2> QED BY <1>4, <2>1 DEF CountTypes, LossInv
<1>5. ASSUME NEW f \in 1..Len(placed), NEW g, NEW t, Receive(f, g, t)
      PROVE  CountTypes' /\ LossInv'
  <2>1. f \in Flows
    BY PlacedFlows
  <2>2. /\ CountTypes' /\ faults' = faults
        /\ \A h \in Flows : /\ tx'[h] = IF h = f THEN tx[h] + 1 ELSE tx[h]
                            /\ rx'[h] = IF h = f THEN rx[h] + 1 ELSE rx[h]
    BY <1>5, <2>1, ReceiveCounts
  <2>3. \A h \in Flows : rx'[h] <= tx'[h] /\ tx'[h] - rx'[h] = tx[h] - rx[h]
    BY <1>1, <2>2
  <2>4. Unarrived' = Unarrived
    BY <2>3 DEF Unarrived
  <2> QED BY <2>2, <2>3, <2>4 DEF LossInv
<1>6. ASSUME NEW f \in 1..Len(placed), NEW fate, NEW t, SendInVain(f, fate, t)
      PROVE  CountTypes' /\ LossInv'
  <2>1. f \in Flows
    BY PlacedFlows
  <2>2. /\ CountTypes' /\ faults' = faults + 1
        /\ \A h \in Flows : /\ tx'[h] = IF h = f THEN tx[h] + 1 ELSE tx[h]
                            /\ rx'[h] = IF h = f /\ fate = "arrives" THEN rx[h] + 1 ELSE rx[h]
    BY <1>6, <2>1, VainCounts
  <2>3. PICK d \in {0, 1} : d = IF fate = "arrives" THEN 0 ELSE 1
    OBVIOUS
  <2>4. \A h \in Flows : /\ rx'[h] <= tx'[h]
                         /\ tx'[h] - rx'[h] = IF h = f THEN (tx[h] - rx[h]) + d
                                              ELSE tx[h] - rx[h]
    BY <1>1, <2>2, <2>3
  <2>5. \A h \in Flows : Unarrived[h] \in Int
                         /\ Unarrived'[h] = IF h = f THEN Unarrived[h] + d ELSE Unarrived[h]
    BY <1>2, <2>4 DEF Unarrived
  <2>6. d \in Int
    BY <2>3
  <2>7. SumFunctionOnSet(Unarrived', Flows) = SumFunctionOnSet(Unarrived, Flows) + d
    <3>1. PICK u, v : u = Unarrived /\ v = Unarrived'
      OBVIOUS
    <3>2. SumFunctionOnSet(v, Flows) = SumFunctionOnSet(u, Flows) + d
      BY <2>1, <2>5, <2>6, <3>1, FlowChanged
    <3> QED BY <3>1, <3>2
  <2>8. SumFunctionOnSet(Unarrived, Flows) + d <= faults'
    BY <1>1, <1>3, <2>2, <2>3 DEF LossInv
  <2>9. SumFunctionOnSet(Unarrived', Flows) = SumFunctionOnSet(Unarrived, Flows)'
    BY DEF Flows
  <2> QED BY <2>2, <2>4, <2>7, <2>8, <2>9 DEF LossInv
<1>7. ASSUME NEW f \in 1..Len(placed), NEW t, DropOverheard(f, t)
      PROVE  CountTypes' /\ LossInv'
  <2>1. CountTypes' /\ faults' = faults + 1 /\ tx' = tx /\ rx' = rx
    BY <1>7, OverheardCounts
  <2>2. Unarrived' = Unarrived
    BY <2>1 DEF Unarrived
  <2>3. SumFunctionOnSet(Unarrived, Flows) <= faults'
    BY <1>1, <1>3, <2>1 DEF LossInv
  <2>4. \A h \in Flows : rx'[h] <= tx'[h]
    BY <2>1 DEF LossInv
  <2> QED BY <2>1, <2>2, <2>3, <2>4 DEF LossInv
<1> QED BY <1>4, <1>5, <1>6, <1>7, CountSteps

(* A meter reads the sink of a flow. *)
LEMMA ReadingTypes ==
  ASSUME NetworkInv, FlowsInv, TimeInv, TimeInv', CalculateThroughput \/ CalculateThroughputOf
  PROVE  reading' \in [at : 0..StopTime, value : Nat, of : [count : Nat, since : 0..StopTime]]
<1>1. PICK x : x = Head(queue)
  OBVIOUS
<1>2. Dispatch("meter") /\ x \in Events /\ Due(x) /\ x.do = "meter" /\ phase = "running"
  <2>1. Dispatch("meter")
    BY DEF CalculateThroughput, CalculateThroughputOf
  <2> QED BY <1>1, <2>1, Dispatched
<1>3. \E s \in Flows : \E last : Read(s, last)
  <2>1. CASE CalculateThroughput
    <3>1. sink # 0 /\ Read(sink, lastTotalRx)
      BY <2>1 DEF CalculateThroughput
    <3>2. sink \in Flows
      BY <3>1, PlacedFlows, ClockConstants DEF TimeInv, SetUpInv, Flows
    <3> QED BY <3>1, <3>2
  <2>2. CASE CalculateThroughputOf
    <3>1. x.flow # 0 /\ Read(x.flow, x.last)
      BY <1>1, <2>2 DEF CalculateThroughputOf
    <3>2. x.flow \in 1..scenario.flows
      BY <1>2, <3>1 DEF Due, MeterDue
    <3>3. x.flow \in Flows
      BY <3>2, PlacedFlows, ClockConstants DEF Flows
    <3> QED BY <3>1, <3>3
  <2> QED BY <2>1, <2>2
<1>4. PICK s \in Flows : \E last : Read(s, last)
  BY <1>3
<1>5. PICK last : Read(s, last)
  BY <1>4
<1>6. PICK v : v = totalRx[s] - last
  OBVIOUS
<1>7. reading' = [at |-> now', value |-> v, of |-> unread[s]]
  BY <1>5, <1>6 DEF Read
<1>8. unread[s] \in [count : Nat, since : 0..StopTime] /\ now' \in 0..StopTime
  BY DEF TimeInv, ClockTypes
<1>9. v \in Nat
  <2>1. reading'.value = reading'.of.count
    BY DEF TimeInv, ReadingOfOnePeriod
  <2> QED BY <1>7, <1>8, <2>1
<1> QED BY <1>7, <1>8, <1>9

LEMMA ReportTypes ==
  ASSUME tx \in [Flows -> Nat], rx \in [Flows -> Nat]
  PROVE  /\ \A f \in Monitored : f \in Flows /\ tx[f] \in Nat /\ rx[f] \in Nat /\ Lost(f) \in Nat
         /\ Totals \in [sent : Nat, received : Nat, lost : Nat, flows : Nat]
         /\ IsFiniteSet(Monitored)
<1>1. Word \in Nat \ {0}
  BY TopologyAssumption
<1>2. \A n \in Int : n % Word \in Nat
  BY <1>1
<1>3. \A f \in Flows : tx[f] \in Nat /\ rx[f] \in Nat /\ Lost(f) \in Nat
  <2> TAKE f \in Flows
  <2>1. tx[f] \in Nat /\ rx[f] \in Nat /\ tx[f] - rx[f] \in Int
    OBVIOUS
  <2> QED BY <1>2, <2>1 DEF Lost
<1>4. Monitored \in SUBSET Flows
  BY DEF Monitored
<1>5. IsFiniteSet(Monitored) /\ Cardinality(Monitored) \in Nat
  BY <1>4, FlowsFinite, FS_Subset, FS_CardinalityType
<1>6. ASSUME NEW n, \A f \in Flows : n[f] \in Int
      PROVE  Summed(n) \in Nat
  <2>1. SumFunctionOnSet(n, Monitored) \in Int
    BY <1>4, <1>5, <1>6, SumTypes
  <2> QED BY <1>2, <2>1 DEF Summed
<1>7. Summed(tx) \in Nat /\ Summed(rx) \in Nat
  BY <1>3, <1>6
<1>8. TotalLost \in Nat
  <2>1. PICK l : l = [f \in Flows |-> Lost(f)]
    OBVIOUS
  <2>2. Summed(l) \in Nat
    BY <1>3, <1>6, <2>1
  <2> QED BY <2>1, <2>2 DEF TotalLost
<1>9. Totals \in [sent : Nat, received : Nat, lost : Nat, flows : Nat]
  BY <1>5, <1>7, <1>8 DEF Totals
<1> QED BY <1>3, <1>4, <1>5, <1>9

ReportTyped ==
  /\ \A f \in DOMAIN report : report[f] \in [sent : Nat, received : Nat, lost : Nat]
  /\ total \in [sent : Nat, received : Nat, lost : Nat, flows : Nat]

LEMMA ReportSteps ==
  ASSUME [Next]_vars
  PROVE  Report \/ (UNCHANGED <<report, total>> /\ (phase' = "ended" => phase = "ended"))
<1>1. CASE BuildNetwork
  BY <1>1 DEF BuildNetwork, Build, ParseOptions, CreateNodes, InstallMobility, AssignAddresses,
              reportVars
<1>2. CASE \E f \in Flows : AddFlow(f)
  BY <1>2 DEF AddFlow, reportVars
<1>3. CASE \E f \in Flows : AddFlowFails(f)
  BY <1>3 DEF AddFlowFails, reportVars
<1>4. CASE Run
  BY <1>4 DEF Run, reportVars
<1>5. CASE StartApplication \/ SendAgain
  BY <1>5 DEF StartApplication, SendAgain, SendPacket, reportVars
<1>6. CASE CalculateThroughput \/ CalculateThroughputOf
  BY <1>6 DEF CalculateThroughput, CalculateThroughputOf, Read, reportVars
<1>7. CASE ReadNullSink
  BY <1>7 DEF ReadNullSink, reportVars
<1>8. CASE CalculateDropRatio
  BY <1>8 DEF CalculateDropRatio, reportVars
<1>9. CASE Stop
  BY <1>9 DEF Stop, reportVars
<1>10. CASE Report
  BY <1>10
<1>11. CASE Network
  BY <1>11 DEF Network, Receive, SendInVain, DropOverheard, reportVars
<1>12. CASE UNCHANGED vars
  BY <1>12 DEF vars, reportVars
<1> QED BY <1>1, <1>2, <1>3, <1>4, <1>5, <1>6, <1>7, <1>8, <1>9, <1>10, <1>11, <1>12 DEF Next

LEMMA MeterSteps ==
  ASSUME [Next]_vars
  PROVE  /\ CalculateThroughput \/ CalculateThroughputOf \/ reading' = reading
         /\ CalculateDropRatio \/ ratio' = ratio
         /\ phase' \in Before \cup {"running"} \/ queue' = queue
<1>1. CASE BuildNetwork
  BY <1>1 DEF BuildNetwork, meterVars, dropVars
<1>2. CASE \E f \in Flows : AddFlow(f)
  BY <1>2 DEF AddFlow, InLoop, meterVars, dropVars, Before
<1>3. CASE \E f \in Flows : AddFlowFails(f)
  BY <1>3 DEF AddFlowFails, meterVars, dropVars
<1>4. CASE Run
  BY <1>4 DEF Run, meterVars, dropVars
<1>5. CASE StartApplication \/ SendAgain
  BY <1>5 DEF StartApplication, SendAgain, SendPacket, Dispatch, meterVars, dropVars
<1>6. CASE CalculateThroughput \/ CalculateThroughputOf
  BY <1>6 DEF CalculateThroughput, CalculateThroughputOf, Dispatch, Read, dropVars
<1>7. CASE ReadNullSink
  BY <1>7 DEF ReadNullSink, meterVars, dropVars
<1>8. CASE CalculateDropRatio
  BY <1>8 DEF CalculateDropRatio, Dispatch, meterVars
<1>9. CASE Stop
  BY <1>9 DEF Stop, meterVars, dropVars
<1>10. CASE Report
  BY <1>10 DEF Report, meterVars, dropVars
<1>11. CASE Network
  BY <1>11 DEF Network, Receive, SendInVain, DropOverheard, Count, meterVars
<1>12. CASE UNCHANGED vars
  BY <1>12 DEF vars, meterVars, dropVars
<1> QED BY <1>1, <1>2, <1>3, <1>4, <1>5, <1>6, <1>7, <1>8, <1>9, <1>10, <1>11, <1>12 DEF Next

TypesInv == TypeOK /\ MovesInv /\ LossInv

LEMMA TypesKeep ==
  ASSUME NetworkInv, FlowsInv, TimeInv, TypesInv, [Next]_vars,
         NetworkInv', FlowsInv', TimeInv'
  PROVE  TypesInv'
<1>1. scenario' = scenario /\ CountTypes
  BY ScenarioStays DEF TypesInv, TypeOK, CountTypes
<1>2. TopologyTypeOK' /\ MovesInv'
  BY TopologyTypesKeep, MovesKeep DEF TypesInv, TypeOK
<1>3. CountTypes' /\ LossInv'
  BY <1>1, LossKeeps DEF TypesInv
<1>4. node' \in 1..WsnNodes /\ placed' \in Seq(Places)
  BY TopologyAssumption DEF FlowsInv
<1>5. queue' \in Seq(Events)
  <2>1. CASE phase' \in Before
    BY <2>1 DEF TimeInv, Fresh, Queue
  <2>2. CASE phase' = "running"
    BY <2>2 DEF TimeInv, EventsInv, Queue
  <2>3. CASE queue' = queue
    BY <2>3 DEF TypesInv, TypeOK
  <2> QED BY <2>1, <2>2, <2>3, MeterSteps
<1>6. sink' \in 0..MaxFlows
  <2>1. /\ NetworkInv' => scenario'.flows \in 0..MaxFlows
        /\ Len(placed') \in Nat /\ Len(placed') <= scenario'.flows
    BY <1>1, PlacedFlows DEF FlowsInv
  <2>2. Len(placed') \in 0..MaxFlows /\ 0 \in 0..MaxFlows
    BY <2>1, ClockConstants
  <2> QED BY <2>2 DEF TimeInv, SetUpInv
<1>7. /\ now' \in 0..StopTime
      /\ sent' \in [Flows -> Nat] /\ inFlight' \in [Flows -> 0..Buffer]
      /\ totalRx' \in [Flows -> Nat] /\ lastTotalRx' \in Nat
      /\ unread' \in [Flows -> [count : Nat, since : 0..StopTime]]
      /\ frames' \in [sent : Nat, dropped : Nat, since : 0..StopTime]
  BY DEF TimeInv, ClockTypes
<1>8. totalPacketsSent' \in Nat /\ totalPacketsDropped' \in Nat
  BY <1>7 DEF TimeInv, FramesInv
<1>9. reading' \in [at : 0..StopTime, value : Nat, of : [count : Nat, since : 0..StopTime]]
  BY MeterSteps, ReadingTypes DEF TypesInv, TypeOK
<1>10. ratio' \in [at : 0..StopTime, sent : Nat, dropped : Nat,
                   of : [sent : Nat, dropped : Nat, since : 0..StopTime]]
  <2>1. CASE CalculateDropRatio
    <3>1. ratio' = [at |-> now', sent |-> totalPacketsSent, dropped |-> totalPacketsDropped,
                    of |-> frames]
      BY <2>1 DEF CalculateDropRatio
    <3>2. /\ totalPacketsSent \in Nat /\ totalPacketsDropped \in Nat
          /\ frames \in [sent : Nat, dropped : Nat, since : 0..StopTime]
      BY DEF TypesInv, TypeOK
    <3> QED BY <1>7, <3>1, <3>2
  <2>2. CASE ratio' = ratio
    BY <2>2 DEF TypesInv, TypeOK
  <2> QED BY <2>1, <2>2, MeterSteps
<1>11. ReportTyped'
  <2>1. CASE Report
    <3>1. /\ \A f \in Monitored : tx[f] \in Nat /\ rx[f] \in Nat /\ Lost(f) \in Nat
          /\ Totals \in [sent : Nat, received : Nat, lost : Nat, flows : Nat]
      BY <1>1, ReportTypes DEF CountTypes
    <3>2. \A f \in DOMAIN report' : report'[f] \in [sent : Nat, received : Nat, lost : Nat]
      <4>1. CASE Program = "taskB"
        BY <2>1, <4>1 DEF Report
      <4>2. CASE Program # "taskB"
        BY <2>1, <3>1, <4>2 DEF Report
      <4> QED BY <4>1, <4>2
    <3>3. total' \in [sent : Nat, received : Nat, lost : Nat, flows : Nat]
      BY <2>1, <3>1 DEF Report, NoTotal
    <3> QED BY <3>2, <3>3 DEF ReportTyped
  <2>2. CASE UNCHANGED <<report, total>>
    BY <2>2 DEF ReportTyped, TypesInv, TypeOK
  <2> QED BY <2>1, <2>2, ReportSteps
<1>12. TypeOK'
  <2>1. \A n \in {sent', totalRx', tx', rx'} : n \in [Flows -> Nat]
    BY <1>3, <1>7 DEF CountTypes
  <2>2. faults' \in 0..scenario'.faults
    BY <1>3 DEF CountTypes
  <2> QED BY <1>2, <1>4, <1>5, <1>6, <1>7, <1>8, <1>9, <1>10, <1>11, <2>1, <2>2
          DEF TypeOK, ReportTyped
<1> QED BY <1>2, <1>3, <1>12 DEF TypesInv

LEMMA TypesInvariant ==
  Spec => []TypesInv
<1>1. Init => TypesInv
  <2> SUFFICES ASSUME Init PROVE TypesInv
    OBVIOUS
  <2>1. scenario \in Scenarios /\ scenario.faults \in Nat /\ WsnNodes \in Nat \ {0, 1}
    BY TopologyAssumption DEF Init, TopologyInit
  <2>2. TopologyTypeOK /\ MovesInv
    BY <2>1 DEF Init, TopologyInit, TopologyTypeOK, MovesInv, Phases, Nowhere
  <2>3. /\ now \in 0..StopTime /\ queue \in Seq(Events) /\ placed \in Seq(Places)
        /\ node \in 1..WsnNodes /\ sink \in 0..MaxFlows /\ lastTotalRx \in Nat
        /\ {totalPacketsSent, totalPacketsDropped} \subseteq Nat
    BY <2>1, ClockConstants DEF Init
  <2>4. /\ \A n \in {sent, totalRx, tx, rx} : n \in [Flows -> Nat]
        /\ inFlight \in [Flows -> 0..Buffer] /\ faults \in 0..scenario.faults
        /\ unread \in [Flows -> [count : Nat, since : 0..StopTime]]
    BY <2>1, ClockConstants DEF Init, NoneUnread
  <2>5. /\ reading \in [at : 0..StopTime, value : Nat, of : [count : Nat, since : 0..StopTime]]
        /\ frames \in [sent : Nat, dropped : Nat, since : 0..StopTime]
        /\ ratio \in [at : 0..StopTime, sent : Nat, dropped : Nat,
                      of : [sent : Nat, dropped : Nat, since : 0..StopTime]]
    BY ClockConstants DEF Init, NoReading, NoneUnread, NoFrames, NoRatio
  <2>6. ReportTyped
    BY DEF Init, ReportTyped, NoTotal
  <2>7. LossInv
    <3>1. /\ \A f \in Flows : tx[f] = 0 /\ rx[f] = 0
          /\ faults = 0
      BY DEF Init
    <3>2. \A f \in Flows : Unarrived[f] = 0
      BY <3>1 DEF Unarrived
    <3>3. SumFunctionOnSet(Unarrived, Flows) = 0
      BY <3>2, FlowsFinite, SumOfZeros
    <3> QED BY <3>1, <3>3 DEF LossInv
  <2> QED BY <2>2, <2>3, <2>4, <2>5, <2>6, <2>7 DEF TypesInv, TypeOK, ReportTyped
<1>2. /\ NetworkInv /\ FlowsInv /\ TimeInv /\ TypesInv /\ [Next]_vars
      /\ NetworkInv' /\ FlowsInv' /\ TimeInv'
      => TypesInv'
  BY TypesKeep
<1> QED BY <1>1, <1>2, SetUpInvariant, TimeInvariant, PTL DEF Spec

(* Each variable has its type, for every scenario: the simulator's time    *)
(* does not pass the stop, a socket does not hold more than its buffer,    *)
(* and no reading is negative.                                             *)
THEOREM SimulationTypes ==
  Spec => []TypeOK
<1>1. TypesInv => TypeOK
  BY DEF TypesInv
<1> QED BY <1>1, TypesInvariant, PTL

-----------------------------------------------------------------------------
(* The report. *)

(* Before a count reaches Word there are fewer mishaps, and the scenario's *)
(* flows have no time to send as many packets: none sends more than most.  *)
CountsFit ==
  \A s \in Scenarios :
    /\ s.faults < Word
    /\ s.program = "taskALowRate" /\ HasDataRate(s.rate) =>
         \E most \in Nat : /\ StopTime < ((400 * Interval) \div s.rate) * most
                           /\ most * s.flows + s.faults < Word

LEMMA Grows ==
  ASSUME NEW a \in Nat, NEW m \in Nat, NEW n \in Nat, m <= n
  PROVE  a * m \in Nat /\ a * n \in Nat /\ a * m <= a * n
<1>1. PICK d \in Nat : n = m + d
  <2>1. n - m \in Nat /\ n = m + (n - m)
    OBVIOUS
  <2> QED BY <2>1
<1>2. a * n = a * m + a * d /\ a * d \in Nat /\ a * m \in Nat
  BY <1>1
<1> QED BY <1>1, <1>2

(* Sinks receive what came to their nodes, and each packet is sent when    *)
(* its time has come.                                                      *)
Undelivered == [f \in Flows |-> tx[f] - totalRx[f]]
SinksInv ==
  /\ \A f \in Flows : totalRx[f] <= rx[f]
  /\ \A f \in Flows : tx[f] > 0 => f \in 1..Len(placed)
  /\ SumFunctionOnSet(Undelivered, Flows) <= faults

InTimeInv ==
  \A f \in Flows : sent[f] > 0 =>
    /\ f \in 1..scenario.flows /\ HasRate
    /\ StartTime(f) + PacketInterval * (sent[f] - 1) <= now

ReportInv ==
  phase = "ended" =>
    /\ report = IF Program = "taskB" THEN <<>>
                ELSE [f \in Monitored |-> [sent |-> tx[f], received |-> rx[f], lost |-> Lost(f)]]
    /\ total = IF Program = "taskALowRate" THEN Totals ELSE NoTotal

LEMMA TimePasses ==
  ASSUME TimeInv, [Next]_vars
  PROVE  now <= now'
<1>1. now \in Nat
  BY ClockConstants DEF TimeInv, ClockTypes
<1>2. PICK x : x = Head(queue)
  OBVIOUS
<1>3. ASSUME NEW do, Dispatch(do) PROVE now <= now'
  BY <1>2, <1>3, Dispatched
<1>4. ASSUME now' = now PROVE now <= now'
  BY <1>1, <1>4
<1>5. CASE BuildNetwork
  BY <1>4, <1>5 DEF BuildNetwork
<1>6. CASE \E f \in Flows : AddFlow(f)
  BY <1>4, <1>6 DEF AddFlow
<1>7. CASE \E f \in Flows : AddFlowFails(f)
  BY <1>4, <1>7 DEF AddFlowFails
<1>8. CASE Run
  BY <1>4, <1>8 DEF Run
<1>9. CASE StartApplication \/ SendAgain
  BY <1>3, <1>9 DEF StartApplication, SendAgain
<1>10. CASE CalculateThroughput \/ CalculateThroughputOf
  BY <1>3, <1>10 DEF CalculateThroughput, CalculateThroughputOf
<1>11. CASE ReadNullSink
  BY <1>3, <1>11 DEF ReadNullSink
<1>12. CASE CalculateDropRatio
  BY <1>3, <1>12 DEF CalculateDropRatio
<1>13. CASE Stop
  BY <1>3, <1>13 DEF Stop
<1>14. CASE Report
  BY <1>4, <1>14 DEF Report
<1>15. CASE Network
  BY <1>15 DEF Network, Receive, SendInVain, DropOverheard, Meanwhile
<1>16. CASE UNCHANGED vars
  BY <1>4, <1>16 DEF vars
<1> QED BY <1>5, <1>6, <1>7, <1>8, <1>9, <1>10, <1>11, <1>12, <1>13, <1>14, <1>15, <1>16
        DEF Next

LEMMA SentSteps ==
  ASSUME [Next]_vars
  PROVE  \/ sent' = sent
         \/ \E do \in {"start", "send"} : Dispatch(do) /\ SendPacket(Head(queue).flow)
<1>1. CASE BuildNetwork
  BY <1>1 DEF BuildNetwork, networkVars
<1>2. CASE \E f \in Flows : AddFlow(f)
  BY <1>2 DEF AddFlow, networkVars
<1>3. CASE \E f \in Flows : AddFlowFails(f)
  BY <1>3 DEF AddFlowFails, networkVars
<1>4. CASE Run
  BY <1>4 DEF Run, networkVars
<1>5. CASE StartApplication \/ SendAgain
  BY <1>5 DEF StartApplication, SendAgain
<1>6. CASE CalculateThroughput \/ CalculateThroughputOf
  BY <1>6 DEF CalculateThroughput, CalculateThroughputOf, Read, networkVars
<1>7. CASE ReadNullSink
  BY <1>7 DEF ReadNullSink, networkVars
<1>8. CASE CalculateDropRatio
  BY <1>8 DEF CalculateDropRatio, networkVars
<1>9. CASE Stop
  BY <1>9 DEF Stop, networkVars
<1>10. CASE Report
  BY <1>10 DEF Report, networkVars
<1>11. CASE Network
  BY <1>11 DEF Network, Receive, SendInVain, DropOverheard
<1>12. CASE UNCHANGED vars
  BY <1>12 DEF vars, networkVars
<1> QED BY <1>1, <1>2, <1>3, <1>4, <1>5, <1>6, <1>7, <1>8, <1>9, <1>10, <1>11, <1>12 DEF Next

LEMMA InTimeKeeps ==
  ASSUME NetworkInv, FlowsInv, TimeInv, InTimeInv, [Next]_vars, TimeInv'
  PROVE  InTimeInv'
<1>1. /\ scenario' = scenario /\ now <= now' /\ now \in Nat /\ now' \in Nat
      /\ scenario \in Scenarios /\ sent \in [Flows -> Nat]
  <2>1. now \in 0..StopTime /\ now' \in 0..StopTime
    BY DEF TimeInv, ClockTypes
  <2> QED BY <2>1, ClockConstants, ScenarioStays, TimePasses DEF NetworkInv, TimeInv, ClockTypes
<1>2. PICK c : c = PacketInterval
  OBVIOUS
<1>3. /\ HasRate' = HasRate /\ PacketInterval' = c
      /\ HasRate => c \in Nat
      /\ \A g \in Flows : StartTime(g)' = StartTime(g) /\ StartTime(g) \in Nat
  BY <1>1, <1>2, Settles, SendingTimes
<1>4. ASSUME NEW g \in Flows, sent[g] > 0
      PROVE  /\ g \in 1..scenario.flows /\ HasRate
             /\ StartTime(g) + c * (sent[g] - 1) <= now'
  <2>1. /\ g \in 1..scenario.flows /\ HasRate
        /\ StartTime(g) + c * (sent[g] - 1) <= now
    BY <1>2, <1>4 DEF InTimeInv
  <2>2. PICK m \in Nat : m = sent[g] - 1
    BY <1>1, <1>4
  <2>3. c * m \in Nat
    BY <1>3, <2>1, Distributes
  <2> QED BY <1>1, <1>3, <2>1, <2>2, <2>3
<1>5. CASE sent' = sent
  BY <1>1, <1>3, <1>4, <1>5 DEF InTimeInv
<1>6. ASSUME NEW do \in {"start", "send"}, Dispatch(do), SendPacket(Head(queue).flow)
      PROVE  InTimeInv'
  <2>1. PICK x : x = Head(queue)
    OBVIOUS
  <2>2. PICK f : f = x.flow
    OBVIOUS
  <2>3. phase = "running" /\ x.do = do /\ Due(x) /\ now' = x.at
    BY <1>6, <2>1, Dispatched
  <2>4. f \in 1..scenario.flows /\ now' = StartTime(f) + c * sent[f]
    BY <1>2, <2>2, <2>3 DEF Due, AppDue
  <2>5. f \in Flows
    BY <2>4, PlacedFlows, ClockConstants DEF Flows
  <2>6. sent' = [sent EXCEPT ![f] = @ + 1]
    BY <1>6, <2>1, <2>2 DEF SendPacket
  <2>7. HasRate
    <3>1. placed # <<>>
      BY <2>3, <2>4, PlacedFlows DEF TimeInv, SetUpInv
    <3> QED BY <3>1 DEF TimeInv, SetUpInv
  <2>8. sent'[f] - 1 = sent[f] /\ \A g \in Flows : g # f => sent'[g] = sent[g]
    BY <1>1, <2>5, <2>6
  <2>9. c * sent[f] \in Nat
    BY <1>1, <1>3, <2>5, <2>7, Distributes
  <2> SUFFICES ASSUME NEW g \in Flows, sent'[g] > 0
               PROVE  /\ g \in 1..scenario.flows /\ HasRate
                      /\ StartTime(g) + c * (sent'[g] - 1) <= now'
    BY <1>1, <1>3 DEF InTimeInv
  <2>10. CASE g = f
    BY <1>1, <2>4, <2>7, <2>8, <2>10
  <2>11. CASE g # f
    BY <1>4, <2>8, <2>11
  <2> QED BY <2>10, <2>11
<1> QED BY <1>5, <1>6, SentSteps

LEMMA PlacedSteps ==
  ASSUME [Next]_vars
  PROVE  \/ placed' = placed
         \/ \E f \in Flows : AddFlow(f)
  BY LaterStepsSettle DEF Settled, setupVars

LEMMA SinksKeep ==
  ASSUME NetworkInv, FlowsInv, CountTypes, LossInv, SinksInv, totalRx \in [Flows -> Nat],
         PortsSuffice, [Next]_vars
  PROVE  SinksInv'
<1>1. /\ tx \in [Flows -> Nat] /\ rx \in [Flows -> Nat] /\ faults \in Nat
      /\ \A f \in Flows : /\ tx[f] \in Nat /\ rx[f] \in Nat /\ totalRx[f] \in Nat
                          /\ rx[f] <= tx[f] /\ totalRx[f] <= rx[f]
  <2>1. scenario.faults \in Nat
    BY TopologyAssumption DEF NetworkInv
  <2> QED BY <2>1 DEF CountTypes, LossInv, SinksInv
<1>2. \A f \in Flows : Undelivered[f] \in Nat /\ Undelivered[f] = tx[f] - totalRx[f]
  BY <1>1 DEF Undelivered
<1>3. SumFunctionOnSet(Undelivered, Flows) \in Nat
  BY <1>2, FlowsFinite, SumTypes
<1>4. \A f \in Flows : f \in 1..Len(placed) => f \in 1..Len(placed')
  <2>1. CASE placed' = placed
    BY <2>1
  <2>2. CASE \E f \in Flows : AddFlow(f)
    <3>1. placed \in Seq(Places) /\ \E p : placed' = Append(placed, p)
      BY <2>2 DEF AddFlow, FlowsInv
    <3>2. Len(placed) \in Nat /\ Len(placed') = Len(placed) + 1
      BY <3>1
    <3> QED BY <3>2
  <2> QED BY <2>1, <2>2, PlacedSteps
<1>5. \A f \in 1..Len(placed) : f \in Flows
  BY PlacedFlows
<1>6. CASE UNCHANGED <<totalRx, tx, rx, faults>>
  <2>1. Undelivered' = Undelivered
    BY <1>6 DEF Undelivered
  <2> QED BY <1>4, <1>6, <2>1 DEF SinksInv
<1>7. ASSUME NEW f \in 1..Len(placed), NEW g \in 1..Len(placed), NEW t, Receive(f, g, t)
      PROVE  SinksInv'
  <2>1. f = g /\ f \in Flows
    BY <1>5, <1>7, ReceivedByItsOwn DEF Receive
  <2>2. /\ faults' = faults
        /\ \A h \in Flows : /\ tx'[h] = IF h = f THEN tx[h] + 1 ELSE tx[h]
                            /\ rx'[h] = IF h = f THEN rx[h] + 1 ELSE rx[h]
    BY <1>7, <2>1, ReceiveCounts
  <2>3. \A h \in Flows : totalRx'[h] = IF h = f THEN totalRx[h] + 1 ELSE totalRx[h]
    BY <1>7, <2>1 DEF Receive
  <2>4. \A h \in Flows : totalRx'[h] <= rx'[h] /\ tx'[h] - totalRx'[h] = tx[h] - totalRx[h]
    <3> TAKE h \in Flows
    <3>1. CASE h = f
      BY <1>1, <2>2, <2>3, <3>1
    <3>2. CASE h # f
      BY <1>1, <2>2, <2>3, <3>2
    <3> QED BY <3>1, <3>2
  <2>5. Undelivered' = Undelivered
    BY <2>4 DEF Undelivered
  <2>6. \A h \in Flows : tx'[h] > 0 => h \in 1..Len(placed)
    BY <2>2 DEF SinksInv
  <2> QED BY <1>4, <2>2, <2>4, <2>5, <2>6 DEF SinksInv
<1>8. ASSUME NEW f \in 1..Len(placed), NEW fate, NEW t, SendInVain(f, fate, t)
      PROVE  SinksInv'
  <2>1. f \in Flows
    BY <1>5
  <2>2. /\ faults' = faults + 1 /\ totalRx' = totalRx
        /\ \A h \in Flows : /\ tx'[h] = IF h = f THEN tx[h] + 1 ELSE tx[h]
                            /\ rx'[h] = IF h = f /\ fate = "arrives" THEN rx[h] + 1 ELSE rx[h]
    BY <1>8, <2>1, VainCounts
  <2>3. \A h \in Flows : /\ totalRx'[h] <= rx'[h]
                         /\ tx'[h] > 0 => h \in 1..Len(placed)
    <3> TAKE h \in Flows
    <3>1. totalRx[h] <= rx[h] /\ (tx[h] > 0 => h \in 1..Len(placed))
      BY DEF SinksInv
    <3>2. CASE h = f
      BY <1>1, <2>2, <3>1, <3>2
    <3>3. CASE h # f
      BY <1>1, <2>2, <3>1, <3>3
    <3> QED BY <3>2, <3>3
  <2>4. \A h \in Flows : Undelivered[h] \in Int
                         /\ Undelivered'[h] = IF h = f THEN Undelivered[h] + 1 ELSE Undelivered[h]
    BY <1>1, <1>2, <2>2 DEF Undelivered
  <2>5. SumFunctionOnSet(Undelivered', Flows) = SumFunctionOnSet(Undelivered, Flows) + 1
    <3>1. PICK u, v : u = Undelivered /\ v = Undelivered'
      OBVIOUS
    <3>2. SumFunctionOnSet(v, Flows) = SumFunctionOnSet(u, Flows) + 1
      <4>1. PICK d \in Int : d = 1
        OBVIOUS
      <4>2. \A h \in Flows : u[h] \in Int /\ v[h] = IF h = f THEN u[h] + d ELSE u[h]
        BY <2>4, <3>1, <4>1
      <4>3. SumFunctionOnSet(v, Flows) = SumFunctionOnSet(u, Flows) + d
        BY <2>1, <4>2, FlowChanged
      <4> QED BY <4>1, <4>3
    <3> QED BY <3>1, <3>2
  <2>6. SumFunctionOnSet(Undelivered, Flows) + 1 <= faults'
    BY <1>1, <1>3, <2>2 DEF SinksInv
  <2>7. SumFunctionOnSet(Undelivered', Flows) = SumFunctionOnSet(Undelivered, Flows)'
    BY DEF Flows
  <2> QED BY <1>4, <2>3, <2>5, <2>6, <2>7 DEF SinksInv
<1>9. ASSUME NEW f \in 1..Len(placed), NEW t, DropOverheard(f, t)
      PROVE  SinksInv'
  <2>1. faults' = faults + 1 /\ tx' = tx /\ rx' = rx /\ totalRx' = totalRx
    BY <1>9, OverheardCounts
  <2>2. Undelivered' = Undelivered
    BY <2>1 DEF Undelivered
  <2>3. SumFunctionOnSet(Undelivered, Flows) <= faults'
    BY <1>1, <1>3, <2>1 DEF SinksInv
  <2> QED BY <1>4, <2>1, <2>2, <2>3 DEF SinksInv
<1> QED BY <1>6, <1>7, <1>8, <1>9, CountSteps

(* Once it is printed nothing is counted any more. *)
LEMMA ReportKeeps ==
  ASSUME ReportInv, [Next]_vars
  PROVE  ReportInv'
<1>1. scenario' = scenario /\ Program' = Program
  BY ScenarioStays, Settles
<1>2. ASSUME tx' = tx, rx' = rx
      PROVE  Monitored' = Monitored /\ Totals' = Totals /\ \A f : Lost(f)' = Lost(f)
  BY <1>2 DEF Monitored, Totals, TotalLost, Summed, Lost
<1>3. CASE Report
  <2>1. tx' = tx /\ rx' = rx
    BY <1>3 DEF Report, networkVars
  <2> QED BY <1>1, <1>2, <1>3, <2>1 DEF Report, ReportInv
<1>4. CASE UNCHANGED <<report, total>> /\ (phase' = "ended" => phase = "ended")
  <2> SUFFICES ASSUME phase = "ended" PROVE ReportInv'
    BY <1>4 DEF ReportInv
  <2>1. tx' = tx /\ rx' = rx
    BY CountSteps DEF Receive, SendInVain, DropOverheard, Meanwhile
  <2> QED BY <1>1, <1>2, <1>4, <2>1 DEF ReportInv
<1> QED BY <1>3, <1>4, ReportSteps

CountInv == TypeOK /\ LossInv /\ SinksInv /\ InTimeInv /\ ReportInv /\ OwnSinkOnly

(* A count below Word is not cut off. *)
LEMMA CountsStay ==
  ASSUME NEW n \in Nat, n < Word
  PROVE  n % Word = n
  BY TopologyAssumption, WordSmall

(* What a flow has lost is no more than all have lost. *)
LEMMA LostIs ==
  ASSUME NetworkInv, CountInv, CountsFit
  PROVE  /\ faults \in Nat /\ faults <= scenario.faults /\ scenario.faults \in Nat
         /\ \A f \in Flows : /\ tx[f] \in Nat /\ rx[f] \in Nat /\ totalRx[f] \in Nat
                             /\ Lost(f) \in Nat /\ Lost(f) = tx[f] - rx[f]
                             /\ Unarrived[f] = Lost(f)
<1>1. scenario \in Scenarios /\ scenario.faults \in Nat /\ scenario.faults < Word
  BY TopologyAssumption DEF NetworkInv, CountsFit
<1>2. faults \in Nat /\ faults <= scenario.faults /\ Word \in Nat
  BY <1>1, TopologyAssumption DEF CountInv, TypeOK
<1>3. \A f \in Flows : tx[f] \in Nat /\ rx[f] \in Nat /\ totalRx[f] \in Nat /\ rx[f] <= tx[f]
  BY DEF CountInv, TypeOK, LossInv
<1>4. \A f \in Flows : Unarrived[f] \in Nat /\ Unarrived[f] = tx[f] - rx[f]
  BY <1>3 DEF Unarrived
<1>5. SumFunctionOnSet(Unarrived, Flows) \in Nat /\ SumFunctionOnSet(Unarrived, Flows) <= faults
  BY <1>4, FlowsFinite, SumTypes DEF CountInv, LossInv
<1>6. ASSUME NEW f \in Flows
      PROVE  Lost(f) \in Nat /\ Lost(f) = tx[f] - rx[f] /\ Unarrived[f] = Lost(f)
  <2>1. Unarrived[f] <= SumFunctionOnSet(Unarrived, Flows)
    BY <1>4, FlowsFinite, SumOfTerm
  <2>2. PICK n \in Nat : n = tx[f] - rx[f] /\ n = Unarrived[f]
    BY <1>4
  <2>3. n < Word
    BY <1>1, <1>2, <1>5, <2>1, <2>2
  <2>4. Lost(f) = n % Word
    BY <2>2 DEF Lost
  <2> QED BY <2>2, <2>3, <2>4, CountsStay
<1> QED BY <1>1, <1>2, <1>3, <1>6

(* The sums of taskALowRate's report stay below Word.                      *)
LEMMA SumsFit ==
  ASSUME NetworkInv, FlowsInv, TimeInv, CountInv, CountsFit, Program = "taskALowRate"
  PROVE  SumFunctionOnSet(tx, Monitored) < Word
<1>1. /\ scenario \in Scenarios /\ scenario.faults \in Nat /\ scenario.flows \in Nat
      /\ scenario.program = "taskALowRate" /\ scenario.faults < Word
      /\ StopTime \in Nat /\ Word \in Nat
  BY TopologyAssumption, ScenarioTypes, ClockConstants DEF NetworkInv, Program, CountsFit
<1>2. faults \in Nat /\ faults <= scenario.faults
  BY LostIs
<1>3. \A f \in Flows : /\ tx[f] \in Nat /\ totalRx[f] \in Nat /\ sent[f] \in Nat
                       /\ totalRx[f] <= tx[f] /\ totalRx[f] <= sent[f]
  <2>1. \A f \in Flows : /\ tx[f] \in Nat /\ rx[f] \in Nat /\ totalRx[f] \in Nat
                         /\ sent[f] \in Nat /\ inFlight[f] \in Nat
    BY ClockConstants DEF CountInv, TypeOK
  <2>2. \A f \in Flows : /\ rx[f] <= tx[f] /\ totalRx[f] <= rx[f]
                         /\ totalRx[f] + inFlight[f] <= sent[f]
    BY DEF CountInv, LossInv, SinksInv, OwnSinkOnly
  <2> QED BY <2>1, <2>2
<1>4. PICK most \in Nat : /\ \A f \in Flows : sent[f] <= most
                          /\ most * scenario.flows + scenario.faults < Word
  <2>1. CASE HasDataRate(scenario.rate)
    <3>1. PICK m \in Nat : /\ StopTime < ((400 * Interval) \div scenario.rate) * m
                           /\ m * scenario.flows + scenario.faults < Word
      BY <1>1, <2>1 DEF CountsFit
    <3>2. PICK c : c = PacketInterval
      OBVIOUS
    <3>3. c \in Nat /\ StopTime < c * m
      <4>1. HasRate
        BY <2>1 DEF HasRate
      <4>2. PacketInterval \in Nat
        BY <1>1, <4>1, SendingTimes
      <4>3. PacketInterval = (400 * Interval) \div scenario.rate
        BY DEF PacketInterval
      <4> QED BY <3>1, <3>2, <4>2, <4>3
    <3>4. ASSUME NEW f \in Flows
          PROVE  sent[f] <= m
      <4> SUFFICES ASSUME sent[f] > m PROVE FALSE
        BY <1>3
      <4>1. PICK n \in Nat : n = sent[f] - 1 /\ m <= n
        BY <1>3
      <4>2. StartTime(f) + c * n <= now
        BY <1>3, <3>2, <4>1 DEF CountInv, InTimeInv
      <4>3. StartTime(f) = 0
        BY DEF StartTime
      <4>4. c * m <= c * n /\ c * m \in Nat /\ c * n \in Nat
        BY <3>3, <4>1, Grows
      <4>5. now <= StopTime /\ now \in Nat
        BY <1>1 DEF TimeInv, ClockTypes
      <4> QED BY <1>1, <3>3, <4>2, <4>3, <4>4, <4>5
    <3> QED BY <3>1, <3>4
  <2>2. CASE ~HasDataRate(scenario.rate)
    <3>1. ~HasRate
      BY <2>2 DEF HasRate
    <3>2. \A f \in Flows : sent[f] <= 0
      BY <1>3, <3>1 DEF CountInv, InTimeInv
    <3>3. 0 * scenario.flows + scenario.faults < Word
      BY <1>1
    <3> QED BY <3>2, <3>3
  <2> QED BY <2>1, <2>2
<1>5. IsFiniteSet(Monitored) /\ Monitored \in SUBSET Flows
  BY FlowsFinite, FS_Subset DEF Monitored
<1>6. Cardinality(Monitored) \in Nat /\ Cardinality(Monitored) <= scenario.flows
  <2>1. Len(placed) \in Nat /\ Len(placed) <= scenario.flows
    BY DEF FlowsInv
  <2>2. Monitored \in SUBSET (1..scenario.flows)
    <3>1. \A f \in Monitored : f \in 1..Len(placed)
      BY DEF Monitored, CountInv, SinksInv
    <3> QED BY <1>1, <2>1, <3>1
  <2>3. IsFiniteSet(1..scenario.flows) /\ Cardinality(1..scenario.flows) = scenario.flows
    <3>1. scenario.flows \in Int /\ scenario.flows >= 0
      BY <1>1
    <3> QED BY <3>1, FS_Interval
  <2> QED BY <1>5, <2>2, <2>3, FS_Subset, FS_CardinalityType
<1>7. \A f \in Flows : Undelivered[f] \in Nat /\ tx[f] = totalRx[f] + Undelivered[f]
  BY <1>3 DEF Undelivered
<1>8. SumFunctionOnSet(tx, Monitored) =
        SumFunctionOnSet(totalRx, Monitored) + SumFunctionOnSet(Undelivered, Monitored)
  <2>1. \A f \in Monitored : /\ totalRx[f] \in Int /\ Undelivered[f] \in Int
                             /\ tx[f] = totalRx[f] + Undelivered[f]
    BY <1>3, <1>5, <1>7
  <2> QED BY <1>5, <2>1, SumOfSums
<1>9. SumFunctionOnSet(totalRx, Monitored) \in Nat
      /\ SumFunctionOnSet(totalRx, Monitored) <= most * Cardinality(Monitored)
  <2>1. \A f \in Monitored : totalRx[f] \in Nat /\ totalRx[f] <= most
    BY <1>3, <1>4, <1>5
  <2> QED BY <1>5, <2>1, SumTypes, SumAtMost
<1>10. SumFunctionOnSet(Undelivered, Monitored) \in Nat
       /\ SumFunctionOnSet(Undelivered, Monitored) <= faults
  <2>1. \A f \in Monitored : Undelivered[f] \in Nat
    BY <1>5, <1>7
  <2>2. SumFunctionOnSet(Undelivered, Monitored) \in Nat
    BY <1>5, <2>1, SumTypes
  <2>3. SumFunctionOnSet(Undelivered, Monitored) <= SumFunctionOnSet(Undelivered, Flows)
    BY <1>5, <1>7, FlowsFinite, SumOfPart
  <2>4. SumFunctionOnSet(Undelivered, Flows) \in Nat
    BY <1>7, FlowsFinite, SumTypes
  <2>5. SumFunctionOnSet(Undelivered, Flows) <= faults
    BY DEF CountInv, SinksInv
  <2> QED BY <1>2, <2>2, <2>3, <2>4, <2>5
<1>11. /\ most * Cardinality(Monitored) <= most * scenario.flows
       /\ most * Cardinality(Monitored) \in Nat /\ most * scenario.flows \in Nat
  BY <1>1, <1>6, Grows
<1> QED BY <1>1, <1>2, <1>4, <1>8, <1>9, <1>10, <1>11

LEMMA AddsUp ==
  ASSUME NetworkInv, FlowsInv, TimeInv, CountInv, CountsFit
  PROVE  ReportAddsUp
<1> SUFFICES ASSUME phase = "ended", Program # "taskB" PROVE ReportAddsUp
  BY DEF ReportAddsUp
<1>1. /\ report = [f \in Monitored |-> [sent |-> tx[f], received |-> rx[f], lost |-> Lost(f)]]
      /\ total = IF Program = "taskALowRate" THEN Totals ELSE NoTotal
  BY DEF CountInv, ReportInv
<1>2. PICK received : received = [f \in Monitored |-> rx[f]]
  OBVIOUS
<1>3. PICK lost : lost = [f \in Monitored |-> Lost(f)]
  OBVIOUS
<1>4. /\ DOMAIN report = Monitored
      /\ [f \in DOMAIN report |-> report[f].received] = received
      /\ [f \in DOMAIN report |-> report[f].lost] = lost
      /\ \A f \in Monitored : report[f].sent = tx[f]
  BY <1>1, <1>2, <1>3
<1>5. \A f \in Flows : /\ tx[f] \in Nat /\ rx[f] \in Nat /\ totalRx[f] \in Nat
                       /\ Lost(f) \in Nat /\ Lost(f) = tx[f] - rx[f] /\ Unarrived[f] = Lost(f)
                       /\ rx[f] <= tx[f] /\ totalRx[f] <= rx[f]
  BY LostIs DEF CountInv, LossInv, SinksInv
<1>6. Monitored \in SUBSET Flows /\ IsFiniteSet(Monitored)
  BY FlowsFinite, FS_Subset DEF Monitored
<1>7. \A f \in Flows : totalRx[f] > 0 => f \in Monitored /\ received[f] >= totalRx[f]
  <2> SUFFICES ASSUME NEW f \in Flows, totalRx[f] > 0
               PROVE  f \in Monitored /\ received[f] >= totalRx[f]
    OBVIOUS
  <2>1. tx[f] > 0 /\ rx[f] >= totalRx[f]
    BY <1>5
  <2> QED BY <1>2, <2>1 DEF Monitored
<1>8. \A f \in Monitored : tx[f] = received[f] + lost[f]
  BY <1>2, <1>3, <1>5, <1>6
<1>9. SumFunction(lost) = SumFunctionOnSet(lost, Monitored)
  BY <1>3 DEF SumFunction
<1>10. SumFunction(received) = SumFunctionOnSet(received, Monitored)
  BY <1>2 DEF SumFunction
<1>11. SumFunctionOnSet(lost, Monitored) \in Nat /\ SumFunctionOnSet(received, Monitored) \in Nat
  <2>1. \A f \in Monitored : lost[f] \in Nat /\ received[f] \in Nat
    BY <1>2, <1>3, <1>5, <1>6
  <2> QED BY <1>6, <2>1, SumTypes
<1>12. SumFunction(lost) <= faults
  <2>1. SumFunctionOnSet(lost, Monitored) = SumFunctionOnSet(Unarrived, Monitored)
    <3>1. \A f \in Monitored : Unarrived[f] \in Int /\ lost[f] = Unarrived[f]
      BY <1>3, <1>5, <1>6
    <3> QED BY <1>6, <3>1, SumSame
  <2>2. \A f \in Flows : Unarrived[f] \in Nat
    BY <1>5
  <2>3. SumFunctionOnSet(Unarrived, Monitored) <= SumFunctionOnSet(Unarrived, Flows)
    BY <1>6, <2>2, FlowsFinite, SumOfPart
  <2>4. SumFunctionOnSet(Unarrived, Flows) \in Nat
    BY <2>2, FlowsFinite, SumTypes
  <2>5. SumFunctionOnSet(Unarrived, Flows) <= faults /\ faults \in Nat
    BY LostIs DEF CountInv, LossInv
  <2> QED BY <1>9, <1>11, <2>1, <2>3, <2>4, <2>5
<1>13. ASSUME Program = "taskALowRate"
       PROVE  /\ total.sent = total.received + total.lost
              /\ total.received = SumFunction(received) /\ total.lost = SumFunction(lost)
  <2>1. /\ total.sent = SumFunctionOnSet(tx, Monitored) % Word
        /\ total.received = SumFunctionOnSet(rx, Monitored) % Word
        /\ total.lost = SumFunctionOnSet([f \in Flows |-> Lost(f)], Monitored) % Word
    BY <1>1, <1>13 DEF Totals, TotalLost, Summed
  <2>2. SumFunctionOnSet(rx, Monitored) = SumFunctionOnSet(received, Monitored)
    <3>1. \A f \in Monitored : received[f] \in Int /\ rx[f] = received[f]
      BY <1>2, <1>5, <1>6
    <3> QED BY <1>6, <3>1, SumSame
  <2>3. SumFunctionOnSet([f \in Flows |-> Lost(f)], Monitored) = SumFunctionOnSet(lost, Monitored)
    <3>1. PICK l : l = [f \in Flows |-> Lost(f)]
      OBVIOUS
    <3>2. \A f \in Monitored : lost[f] \in Int /\ l[f] = lost[f]
      BY <1>3, <1>5, <1>6, <3>1
    <3>3. SumFunctionOnSet(l, Monitored) = SumFunctionOnSet(lost, Monitored)
      BY <1>6, <3>2, SumSame
    <3> QED BY <3>1, <3>3
  <2>4. SumFunctionOnSet(tx, Monitored) =
          SumFunctionOnSet(received, Monitored) + SumFunctionOnSet(lost, Monitored)
    <3>1. \A f \in Monitored : /\ received[f] \in Int /\ lost[f] \in Int
                               /\ tx[f] = received[f] + lost[f]
      BY <1>2, <1>3, <1>5, <1>6, <1>8
    <3> QED BY <1>6, <3>1, SumOfSums
  <2>5. PICK r \in Nat, l \in Nat : /\ r = SumFunctionOnSet(received, Monitored)
                                    /\ l = SumFunctionOnSet(lost, Monitored)
    BY <1>11
  <2>6. r + l < Word
    BY <1>13, <2>4, <2>5, SumsFit
  <2>7. (r + l) % Word = r + l /\ r % Word = r /\ l % Word = l
    <3>1. Word \in Nat /\ r < Word /\ l < Word /\ r + l \in Nat
      BY <2>6, TopologyAssumption
    <3> QED BY <2>6, <3>1, CountsStay
  <2> QED BY <1>9, <1>10, <2>1, <2>2, <2>3, <2>4, <2>5, <2>7
<1> QED BY <1>4, <1>7, <1>8, <1>12, <1>13 DEF ReportAddsUp

(* The report accounts for every packet, whatever the numbers of flows,    *)
(* packets and mishaps are, as long as the flows have ports of their own   *)
(* and the counts fit into 32 bits.                                        *)
THEOREM ReportAccounts ==
  ASSUME PortsSuffice, CountsFit
  PROVE  Spec => []ReportAddsUp
<1>1. Init => SinksInv /\ InTimeInv /\ ReportInv
  <2> SUFFICES ASSUME Init PROVE SinksInv /\ InTimeInv /\ ReportInv
    OBVIOUS
  <2>1. /\ \A f \in Flows : tx[f] = 0 /\ rx[f] = 0 /\ totalRx[f] = 0 /\ sent[f] = 0
        /\ faults = 0 /\ phase = "options"
    BY DEF Init, TopologyInit
  <2>2. \A f \in Flows : Undelivered[f] = 0
    BY <2>1 DEF Undelivered
  <2>3. SumFunctionOnSet(Undelivered, Flows) = 0
    BY <2>2, FlowsFinite, SumOfZeros
  <2> QED BY <2>1, <2>3 DEF SinksInv, InTimeInv, ReportInv
<1>2. /\ NetworkInv /\ FlowsInv /\ TimeInv /\ TypesInv /\ OwnSinkOnly
      /\ SinksInv /\ InTimeInv /\ ReportInv
      /\ TimeInv' /\ [Next]_vars
      => (SinksInv /\ InTimeInv /\ ReportInv)'
  <2> SUFFICES ASSUME NetworkInv, FlowsInv, TimeInv, TypesInv, SinksInv, InTimeInv, ReportInv,
                      TimeInv', [Next]_vars
               PROVE  (SinksInv /\ InTimeInv /\ ReportInv)'
    OBVIOUS
  <2>1. CountTypes /\ LossInv /\ totalRx \in [Flows -> Nat]
    BY DEF TypesInv, TypeOK, CountTypes
  <2>2. SinksInv'
    BY <2>1, SinksKeep
  <2> QED BY <2>2, InTimeKeeps, ReportKeeps
<1>3. /\ NetworkInv /\ FlowsInv /\ TimeInv /\ TypesInv /\ OwnSinkOnly
      /\ SinksInv /\ InTimeInv /\ ReportInv
      => ReportAddsUp
  BY AddsUp DEF TypesInv, CountInv
<1>4. Spec => []OwnSinkOnly
  BY NoForeignPackets
<1> QED BY <1>1, <1>2, <1>3, <1>4, SetUpInvariant, TimeInvariant, TypesInvariant, PTL DEF Spec
=============================================================================
