--------------------------- MODULE MailboxProofs ---------------------------
(***************************************************************************)
(* Proofs about Mailbox, for any number of sessions, users and messages.   *)
(*                                                                         *)
(* Nobody is shown a message twice because a message enters the list of a  *)
(* session at most once: the loop over the providers passes each of them   *)
(* once, and no later message equals it.  What is in a list is in one slot *)
(* only, hidden slots included; so what viewMessage has collected can only *)
(* be in the slot it was read from, and that list goes when it is shown.   *)
(*                                                                         *)
(* Nobody is shown what was not meant for that user, because the test made *)
(* as the message was sent stays good: an id is given once, and the only   *)
(* one shared is that of the providers that have none.                     *)
(*                                                                         *)
(* When commands do not overlap, one thread at most uses the lists.  Then  *)
(* add writes where it has read, and the loop reaches all it should: those *)
(* who were served as it began are in threadArrayList, and as long as they *)
(* are served and currentUserArray is undamaged, their user is found in it *)
(* and no other session has it.                                            *)
(***************************************************************************)
EXTENDS Mailbox, ArrayListsProofs, FiniteSetTheorems

-----------------------------------------------------------------------------
(* What a thread that sends or prints has in hand. *)

Sends(s)   == pc[s] \in {"notify", "put"}
Settled(s) == pc[s] \notin {"free", "connected", "entering", "naming"}
Count(m)   == IF m.kind = "request" THEN requestId[m.from] ELSE answers[m.from]

JobOf(s) == /\ job[s] \in Messages
            /\ job[s].from = s /\ job[s].number <= Count(job[s])
            /\ index[s] > 0

InHand(s) == /\ Sends(s) => JobOf(s)
             /\ pc[s] = "put" => index[s] <= Len(threads)
             /\ IF pc[s] = "view" THEN index[s] = Len(seen[s]) + 1 ELSE seen[s] = <<>>
             /\ pc[s] \in {"entering", "naming"} => login[s] # Null
JobsInv == \A s \in Sessions : InHand(s)

(* Every provider is in threadArrayList once, from its creation. *)
ThreadsInv ==
  /\ NoRepeats(threads)
  /\ Held(threads) = {s \in Sessions : pc[s] # "free"}

TypeInv == TypeOK /\ JobsInv /\ ThreadsInv

(* The messages that have reached a session, shown or not, also those in   *)
(* slots past the end of its list.                                         *)
Stored(t)    == {Slot(box[t], i) : i \in Nat}
Delivered(t) == (Stored(t) \cup Collected(t) \cup Shown(t)) \ {Null}

(* ... or are about to be written to it. *)
Addressed(t) == {job[s] : s \in {w \in Sessions : pc[w] = "put" /\ threads[index[w]] = t}}

Sending(m)   == Sends(m.from) /\ job[m.from] = m
Passed(s, t) == \E k \in 1..Len(threads) : k < index[s] /\ threads[k] = t

(* A message is of the past, and is with those its sender has passed. *)
DeliveredInv ==
  \A t \in Sessions : \A m \in Delivered(t) :
    /\ m \in Messages /\ m.number <= Count(m)
    /\ Sending(m) => Passed(m.from, t)

(* It is in one place. *)
OneSlot(t) ==
  \A i, j \in Nat : Slot(box[t], i) = Slot(box[t], j) /\ Slot(box[t], i) # Null => i = j
SeenInPlace(t) ==
  \A i \in 1..Len(seen[t]), j \in Nat :
    seen[t][i] = Slot(box[t], j) /\ seen[t][i] # Null => i = j
Once(q) == \A i, j \in 1..Len(q) : q[i] = q[j] /\ q[i] # Null => i = j
ShownIsGone(t) == (Shown(t) \ {Null}) \cap (Stored(t) \cup Collected(t)) = {}

InPlace(t) ==
  OneSlot(t) /\ SeenInPlace(t) /\ Once(seen[t]) /\ Once(shown[t]) /\ ShownIsGone(t)
PlacesInv == \A t \in Sessions : InPlace(t)

ShownInv == TypeInv /\ DeliveredInv /\ PlacesInv

-----------------------------------------------------------------------------
(* Ids: given once, to be that of an active user. *)

IdsInv ==
  /\ \A s \in Sessions : ~Settled(s) => id[s] = Zero
  /\ \A s \in Sessions : pc[s] \in {"free", "connected"} => login[s] = Null
  /\ \A u \in active : \E z \in Sessions : login[z] = u

ZeroLogsIn == \E z \in Sessions : login[z] = Zero

Fit(t, m) ==
  IF m.kind = "request"
    THEN ZeroLogsIn \/ (Settled(m.from) /\ Settled(t) /\ id[m.from] # id[t])
    ELSE m.to \in {id[t], Zero}

AddressedInv ==
  /\ TypeInv /\ IdsInv
  /\ \A t \in Sessions : \A m \in Delivered(t) \cup Addressed(t) : m \in Messages /\ Fit(t, m)

-----------------------------------------------------------------------------
(* One command at a time. *)

(* While a session is served its user is active, and nobody else's; one    *)
(* that is about to be added is not.                                       *)
LogsIn(s) == pc[s] \in {"naming", "leaving"} \/ Serving(s)
ActiveInv ==
  /\ \A s \in Sessions : LogsIn(s) => login[s] \in active
  /\ \A s, t \in Sessions : LogsIn(s) /\ LogsIn(t) /\ login[s] = login[t] => s = t
  /\ \A s \in Sessions : pc[s] = "entering" => login[s] \notin active

LoginsInv ==
  /\ \A s \in Sessions : Serving(s) \/ pc[s] = "leaving" => id[s] = login[s]
  /\ ~raced => ActiveInv

Kept(t, m) == m \in Members(box[t]) \cup Collected(t) \cup Shown(t)
Wanted(t, m) ==
  IF m.kind = "request" THEN id[t] # id[m.from] ELSE id[t] = m.to

OwedInv ==
  \A t \in Sessions, m \in Messages : <<t, m>> \in owed =>
    /\ Settled(t) /\ m.number <= Count(m)
    /\ Serving(t) => IF Sending(m) /\ ~Passed(m.from, t) THEN Wanted(t, m) ELSE Kept(t, m)

AloneInv ==
  /\ \A s, t \in Sessions : Busy(s) /\ Busy(t) => s = t
  /\ \A s \in Sessions :
       held[s] = "current" /\ (pc[s] = "put" => size[s] = box[threads[index[s]]].size)
  /\ \A s \in Sessions :
       pc[s] = "view" => \A i \in 1..Len(seen[s]) : seen[s][i] = Slot(box[s], i)

QuietInv ==
  TypeInv /\ IdsInv /\ LoginsInv /\ (quiet => AloneInv) /\ (quiet /\ ~raced => OwedInv)

(* A step of a command that has begun. *)
Works(s) ==
  \/ Notify(s) \/ Put(s) \/ PutThrows(s) \/ EndNotify(s)
  \/ ViewSlot(s) \/ ViewThrows(s) \/ ViewEnd(s)

(* Sessions come and go. *)
Visits(s) ==
  \/ Connect(s) \/ Enter(s) \/ SetId(s) \/ Logout(s) \/ Leave(s) \/ Abandon(s)
  \/ \E u \in Users : Login(s, u)

-----------------------------------------------------------------------------
(* Types. *)

(* What request and response have in common: a message like none before.   *)
Orders(s) == Request(s) \/ \E u \in Users : Respond(s, u)

LEMMA Steps ==
  ASSUME [Next]_vars
  PROVE  \/ UNCHANGED vars
         \/ \E s \in Sessions : Works(s) \/ Visits(s) \/ ViewMessage(s) \/ Orders(s)
  BY DEF Next, ThreadStep, ClientStep, Works, Visits, Orders

NewMessage(s, m) ==
  /\ StartSending(s, m)
  /\ m.from = s /\ m.number = Count(m) + 1
  /\ \A n \in Messages :
       Count(n)' = IF n.kind = m.kind /\ n.from = s THEN Count(n) + 1 ELSE Count(n)
  /\ requestId' \in [Sessions -> Nat] /\ answers' \in [Sessions -> Nat]
  /\ sent' \in 0..MaxMessages

LEMMA SendsNew ==
  ASSUME TypeOK, NEW s \in Sessions, Orders(s)
  PROVE  \E m \in Messages : NewMessage(s, m)
<1> USE MailboxAssumption DEF TypeOK
<1>1. CASE Request(s)
  <2> DEFINE m == [kind |-> "request", from |-> s, number |-> requestId[s] + 1, to |-> Null]
  <2>1. m \in Messages BY DEF Messages
  <2>2. StartSending(s, m) BY <1>1 DEF Request
  <2>3. requestId' = [requestId EXCEPT ![s] = @ + 1] /\ answers' = answers BY <1>1 DEF Request
  <2>4. sent' \in 0..MaxMessages BY <1>1 DEF Request, MaySend, Bound
  <2>5. m.from = s /\ m.number = Count(m) + 1 BY DEF Count
  <2>6. ASSUME NEW n \in Messages
        PROVE  Count(n)' = IF n.kind = m.kind /\ n.from = s THEN Count(n) + 1 ELSE Count(n)
    BY <2>3 DEF Count, Messages
  <2>7. requestId' \in [Sessions -> Nat] /\ answers' \in [Sessions -> Nat] BY <2>3
  <2> HIDE DEF m
  <2> QED BY <2>1, <2>2, <2>4, <2>5, <2>6, <2>7 DEF NewMessage
<1>2. CASE \E u \in Users : Respond(s, u)
  <2>0. PICK u \in Users : Respond(s, u) BY <1>2
  <2> DEFINE m == [kind |-> "answer", from |-> s, number |-> answers[s] + 1, to |-> u]
  <2>1. m \in Messages BY DEF Messages
  <2>2. StartSending(s, m) BY <2>0 DEF Respond
  <2>3. answers' = [answers EXCEPT ![s] = @ + 1] /\ requestId' = requestId BY <2>0 DEF Respond
  <2>4. sent' \in 0..MaxMessages BY <2>0 DEF Respond, MaySend, Bound
  <2>5. m.from = s /\ m.number = Count(m) + 1 BY DEF Count
  <2>6. ASSUME NEW n \in Messages
        PROVE  Count(n)' = IF n.kind = m.kind /\ n.from = s THEN Count(n) + 1 ELSE Count(n)
    BY <2>3 DEF Count, Messages
  <2>7. requestId' \in [Sessions -> Nat] /\ answers' \in [Sessions -> Nat] BY <2>3
  <2> HIDE DEF m
  <2> QED BY <2>1, <2>2, <2>4, <2>5, <2>6, <2>7 DEF NewMessage
<1> QED BY <1>1, <1>2 DEF Orders

(* The provider a loop is at. *)
LEMMA TargetType ==
  ASSUME TypeInv, NEW s \in Sessions, pc[s] \in {"notify", "put"}, index[s] <= Len(threads)
  PROVE  /\ threads[index[s]] \in Sessions
         /\ index[s] \in 1..Len(threads) /\ job[s] \in Messages /\ job[s].from = s
<1>1. index[s] > 0 /\ job[s] \in Messages /\ job[s].from = s BY DEF TypeInv, JobsInv, InHand, JobOf, Sends
<1>2. index[s] \in Nat /\ threads \in Seq(Sessions) BY DEF TypeInv, TypeOK
<1> QED BY <1>1, <1>2

(* What each kind of step leaves alone. *)
LEMMA VisitsFrame ==
  ASSUME TypeOK, NEW s \in Sessions, Visits(s)
  PROVE  /\ UNCHANGED <<quiet, requestId, answers, sent, box, job, index, size, held, seen, shown, owed>>
         /\ ~Busy(s) /\ pc' \in [Sessions -> PCs]
         /\ pc'[s] \in {"connected", "entering", "naming", "ready", "leaving", "closed"}
         /\ \A w \in Sessions \ {s} : pc'[w] = pc[w] /\ login'[w] = login[w] /\ id'[w] = id[w]
         /\ \/ threads' = threads /\ pc[s] # "free"
            \/ threads' = Append(threads, s) /\ pc[s] = "free"
<1> USE DEF TypeOK, Goto, Busy, PCs, sendVars, viewVars, countVars
<1>1. CASE Connect(s) BY <1>1 DEF Connect
<1>2. CASE Enter(s) BY <1>2 DEF Enter
<1>3. CASE SetId(s) BY <1>3 DEF SetId
<1>4. CASE Logout(s) BY <1>4 DEF Logout
<1>5. CASE Leave(s) BY <1>5 DEF Leave
<1>6. CASE Abandon(s) BY <1>6 DEF Abandon
<1>7. CASE \E u \in Users : Login(s, u) BY <1>7 DEF Login
<1> QED BY <1>1, <1>2, <1>3, <1>4, <1>5, <1>6, <1>7 DEF Visits

LEMMA WorksFrame ==
  ASSUME TypeOK, NEW s \in Sessions, Works(s)
  PROVE  /\ UNCHANGED <<quiet, threads, login, id, requestId, answers, sent, owed>>
         /\ Busy(s) /\ pc' \in [Sessions -> PCs]
         /\ pc'[s] \in {"ready", "notify", "put", "view", "closed"}
         /\ \A w \in Sessions \ {s} :
              /\ pc'[w] = pc[w] /\ job'[w] = job[w] /\ index'[w] = index[w] /\ size'[w] = size[w]
              /\ seen'[w] = seen[w] /\ shown'[w] = shown[w]
<1> USE DEF TypeOK, Goto, Busy, PCs, sendVars, viewVars, countVars
<1>1. CASE Notify(s)
  <2>1. \/ StartPut(s, threads[index[s]])
        \/ index' = [index EXCEPT ![s] = @ + 1] /\ UNCHANGED <<pc, size>>
    BY <1>1 DEF Notify
  <2>2. /\ pc[s] = "notify"
        /\ UNCHANGED <<quiet, threads, login, id, countVars, box, job, held, owed, viewVars>>
    BY <1>1 DEF Notify
  <2> QED BY <2>1, <2>2 DEF StartPut
<1>2. CASE Put(s) BY <1>2 DEF Put
<1>3. CASE PutThrows(s) BY <1>3 DEF PutThrows
<1>4. CASE EndNotify(s) BY <1>4 DEF EndNotify
<1>5. CASE ViewSlot(s) BY <1>5 DEF ViewSlot
<1>6. CASE ViewThrows(s) BY <1>6 DEF ViewThrows
<1>7. CASE ViewEnd(s) BY <1>7 DEF ViewEnd
<1> QED BY <1>1, <1>2, <1>3, <1>4, <1>5, <1>6, <1>7 DEF Works

LEMMA StartsFrame ==
  ASSUME TypeOK, NEW s \in Sessions, ViewMessage(s) \/ Orders(s)
  PROVE  /\ UNCHANGED <<quiet, threads, active, raced, login, id, box, size, held, seen, shown>>
         /\ pc[s] = "ready" /\ MayStart /\ pc'[s] \in {"notify", "view"} /\ pc' \in [Sessions -> PCs]
         /\ \A w \in Sessions \ {s} : pc'[w] = pc[w] /\ job'[w] = job[w] /\ index'[w] = index[w]
<1> USE DEF TypeOK, Goto, PCs, sendVars, viewVars, countVars, activeVars
<1>1. CASE ViewMessage(s) BY <1>1 DEF ViewMessage
<1>2. CASE Orders(s)
  <2>1. PICK m \in Messages : NewMessage(s, m) BY <1>2, SendsNew
  <2> QED BY <2>1 DEF NewMessage, StartSending
<1> QED BY <1>1, <1>2

(* currentUserArray changes as a user enters or leaves; a search of it may *)
(* find that nothing is known of it any more.                              *)
Lookup == UNCHANGED activeVars \/ (active' = {} /\ raced' = TRUE)

LEMMA Lookups ==
  ASSUME NEW u, raced \in BOOLEAN, Finds(u) \/ Misses(u) PROVE Lookup
  BY DEF Finds, Misses, Lookup, activeVars

LEMMA WorksLookUp ==
  ASSUME TypeOK, NEW s \in Sessions, Works(s) PROVE Lookup
<1>1. CASE Notify(s)
  <2>1. raced \in BOOLEAN BY DEF TypeOK
  <2> DEFINE u == id[threads[index[s]]]
  <2>2. Finds(u) \/ Misses(u) \/ UNCHANGED activeVars BY <1>1 DEF Notify
  <2> HIDE DEF u
  <2>3. (Finds(u) \/ Misses(u)) => Lookup BY <2>1, Lookups
  <2> QED BY <2>2, <2>3 DEF Lookup
<1>2. CASE ~Notify(s)
  BY <1>2 DEF Works, Put, PutThrows, EndNotify, ViewSlot, ViewThrows, ViewEnd, Lookup
<1> QED BY <1>1, <1>2

LEMMA ActiveStep ==
  ASSUME TypeOK, [Next]_vars
  PROVE  \/ Lookup
         \/ \E s \in Sessions :
              /\ Enter(s) \/ Leave(s)
              /\ raced' = (raced \/ \E t \in Sessions \ {s} : Changing(t))
              /\ active' = IF raced' THEN {}
                          ELSE IF Enter(s) THEN active \cup {login[s]} ELSE active \ {id[s]}
<1>1. CASE UNCHANGED vars BY <1>1 DEF vars, Lookup
<1>2. ASSUME NEW s \in Sessions, Works(s) PROVE Lookup BY <1>2, WorksLookUp
<1>3. ASSUME NEW s \in Sessions, ViewMessage(s) \/ Orders(s) PROVE Lookup
  BY <1>3, StartsFrame DEF Lookup, activeVars
<1>4. ASSUME NEW s \in Sessions, Connect(s) \/ SetId(s) \/ Logout(s) \/ Abandon(s) PROVE Lookup
  BY <1>4 DEF Connect, SetId, Logout, Abandon, Lookup
<1>5. ASSUME NEW s \in Sessions, NEW u \in Users, Login(s, u) PROVE Lookup
  <2>1. raced \in BOOLEAN BY DEF TypeOK
  <2> QED BY <1>5, <2>1, Lookups DEF Login
<1>6. ASSUME NEW s \in Sessions, Enter(s)
      PROVE  /\ raced' = (raced \/ \E t \in Sessions \ {s} : Changing(t))
             /\ active' = IF raced' THEN {} ELSE active \cup {login[s]}
  BY <1>6 DEF Enter, Change
<1>7. ASSUME NEW s \in Sessions, Leave(s)
      PROVE  /\ raced' = (raced \/ \E t \in Sessions \ {s} : Changing(t)) /\ ~Enter(s)
             /\ active' = IF raced' THEN {} ELSE active \ {id[s]}
  BY <1>7 DEF Leave, Enter, Change
<1> QED BY Steps, <1>1, <1>2, <1>3, <1>4, <1>5, <1>6, <1>7 DEF Visits

LEMMA ActiveType ==
  ASSUME TypeInv, [Next]_vars
  PROVE  /\ active' \subseteq Users /\ raced' \in BOOLEAN /\ (raced => raced')
         /\ \A u \in active' : u \in active \/ \E s \in Sessions : pc[s] = "entering" /\ u = login[s]
<1>1. TypeOK /\ active \subseteq Users /\ raced \in BOOLEAN BY DEF TypeInv, TypeOK
<1>2. CASE Lookup BY <1>1, <1>2 DEF Lookup, activeVars
<1>3. ASSUME NEW s \in Sessions, Enter(s) \/ Leave(s),
             raced' = (raced \/ \E t \in Sessions \ {s} : Changing(t)),
             active' = IF raced' THEN {}
                       ELSE IF Enter(s) THEN active \cup {login[s]} ELSE active \ {id[s]}
      PROVE  /\ active' \subseteq Users /\ raced' \in BOOLEAN /\ (raced => raced')
             /\ \A u \in active' : u \in active \/ \E t \in Sessions : pc[t] = "entering" /\ u = login[t]
  <2>1. Enter(s) => pc[s] = "entering" /\ login[s] \in Users
    BY <1>1 DEF Enter, TypeInv, JobsInv, InHand, TypeOK
  <2>2. raced' \in BOOLEAN /\ (raced => raced') BY <1>1, <1>3
  <2>3. \A u \in active' : u \in active \/ (Enter(s) /\ u = login[s]) BY <1>3
  <2> QED BY <1>1, <2>1, <2>2, <2>3
<1> QED BY <1>1, <1>2, <1>3, ActiveStep

LEMMA TypeStep ==
  ASSUME TypeInv, [Next]_vars PROVE TypeOK'
<1>0. TypeOK BY DEF TypeInv
<1>a. active' \subseteq Users /\ raced' \in BOOLEAN BY ActiveType
<1> USE MailboxAssumption DEF TypeOK
<1>1. CASE UNCHANGED vars BY <1>0, <1>1 DEF vars, activeVars, countVars, sendVars, viewVars
<1>2. ASSUME NEW s \in Sessions, Visits(s) PROVE TypeOK'
  <2>1. /\ UNCHANGED <<quiet, requestId, answers, sent, box, job, index, size, held, seen, shown, owed>>
        /\ pc' \in [Sessions -> PCs]
        /\ threads' = threads \/ threads' = Append(threads, s)
    BY <1>0, <1>2, VisitsFrame
  <2>2. threads' \in Seq(Sessions)
    <3>1. threads \in Seq(Sessions) /\ Append(threads, s) \in Seq(Sessions) BY <1>0
    <3> QED BY <2>1, <3>1
  <2>3. login' \in [Sessions -> Users \cup {Null}] /\ id' \in [Sessions -> Users \cup {Zero}]
    <3>1. CASE SetId(s)
      <4>1. login[s] \in Users BY <1>0, <3>1 DEF TypeInv, JobsInv, InHand, SetId
      <4> QED BY <1>0, <3>1, <4>1 DEF SetId
    <3>2. CASE ~SetId(s)
      BY <1>0, <1>2, <3>2 DEF Visits, Connect, Enter, Logout, Leave, Abandon, Login
    <3> QED BY <3>1, <3>2
  <2> QED BY <1>0, <1>a, <2>1, <2>2, <2>3
<1>3. ASSUME NEW s \in Sessions, Works(s) PROVE TypeOK'
  <2>1. /\ UNCHANGED <<quiet, threads, login, id, requestId, answers, sent, owed>>
        /\ pc' \in [Sessions -> PCs]
    BY <1>0, <1>3, WorksFrame
  <2> SUFFICES /\ box' \in [Sessions -> Lists(Messages)] /\ \A t \in Sessions : box'[t].size >= 0
               /\ job' \in [Sessions -> Messages \cup {Null}]
               /\ index' \in [Sessions -> Nat] /\ size' \in [Sessions -> Nat]
               /\ held' \in [Sessions -> {"current", "replaced", "outgrown"}]
               /\ seen' \in [Sessions -> Seq(Messages \cup {Null})]
               /\ shown' \in [Sessions -> Seq(Messages \cup {Null})]
    BY <1>0, <1>a, <2>1
  <2> USE DEF viewVars
  <2>2. CASE Notify(s)
    <3> DEFINE t == threads[index[s]]
    <3>1. t \in Sessions BY <2>2, TargetType DEF Notify
    <3>2. box[t].size \in Nat BY <1>0, <3>1 DEF Lists
    <3>3. UNCHANGED <<box, job, held, seen, shown>> BY <2>2 DEF Notify
    <3>4. index' \in [Sessions -> Nat] /\ size' \in [Sessions -> Nat]
      <4>1. \/ size' = [size EXCEPT ![s] = box[t].size] /\ index' = index
            \/ index' = [index EXCEPT ![s] = @ + 1] /\ size' = size
        BY <2>2 DEF Notify, StartPut
      <4>2. index \in [Sessions -> Nat] /\ size \in [Sessions -> Nat] BY <1>0
      <4> HIDE DEF t
      <4>3. CASE size' = [size EXCEPT ![s] = box[t].size] /\ index' = index BY <3>2, <4>2, <4>3
      <4>4. CASE index' = [index EXCEPT ![s] = @ + 1] /\ size' = size BY <4>2, <4>4
      <4> QED BY <4>1, <4>3, <4>4
    <3> QED BY <1>0, <3>3, <3>4
  <2>3. CASE Put(s)
    <3> DEFINE t == threads[index[s]]
    <3>1. t \in Sessions /\ job[s] \in Messages
      BY <2>3, TargetType DEF Put, TypeInv, JobsInv, InHand
    <3>2. box' \in [Sessions -> Lists(Messages)] /\ \A w \in Sessions : box'[w].size >= 0
      <4>1. CASE held[s] = "current"
        <5>1. PICK list \in Added(box[t], size[s], job[s]) : box' = [box EXCEPT ![t] = list]
          BY <2>3, <4>1 DEF Put
        <5>2. box[t] \in Lists(Messages) /\ size[s] \in Nat BY <1>0, <3>1
        <5>3. list \in Lists(Messages) /\ list.size = size[s] + 1 BY <3>1, <5>2, AddedType
        <5> HIDE DEF t
        <5> QED BY <1>0, <3>1, <5>1, <5>2, <5>3
      <4>2. CASE held[s] # "current" BY <1>0, <2>3, <4>2 DEF Put
      <4> QED BY <4>1, <4>2
    <3>3. index' \in [Sessions -> Nat] /\ size' \in [Sessions -> Nat]
      <4>1. index' = [index EXCEPT ![s] = @ + 1] /\ size' = [size EXCEPT ![s] = 0] BY <2>3 DEF Put
      <4>2. index \in [Sessions -> Nat] /\ size \in [Sessions -> Nat] BY <1>0
      <4> QED BY <4>1, <4>2
    <3>4. held' \in [Sessions -> {"current", "replaced", "outgrown"}]
      BY <1>0, <2>3 DEF Put
    <3>5. UNCHANGED <<job, seen, shown>> BY <2>3 DEF Put
    <3> QED BY <1>0, <3>2, <3>3, <3>4, <3>5
  <2>4. CASE PutThrows(s) BY <1>0, <2>4 DEF PutThrows
  <2>5. CASE EndNotify(s) BY <1>0, <2>5 DEF EndNotify
  <2>6. CASE ViewSlot(s)
    <3>1. Slot(box[s], index[s]) \in Messages \cup {Null} BY <1>0, SlotType
    <3>2. Append(seen[s], Slot(box[s], index[s])) \in Seq(Messages \cup {Null}) BY <1>0, <3>1
    <3>3. seen' \in [Sessions -> Seq(Messages \cup {Null})]
      <4>1. seen \in [Sessions -> Seq(Messages \cup {Null})] BY <1>0
      <4>2. seen' = [seen EXCEPT ![s] = Append(@, Slot(box[s], index[s]))] BY <2>6 DEF ViewSlot
      <4> QED BY <3>2, <4>1, <4>2
    <3>4. index' \in [Sessions -> Nat]
      <4>1. index \in [Sessions -> Nat] BY <1>0
      <4>2. index' = [index EXCEPT ![s] = @ + 1] BY <2>6 DEF ViewSlot
      <4> QED BY <4>1, <4>2
    <3>5. UNCHANGED <<box, job, size, held, shown>> BY <2>6 DEF ViewSlot, sendVars
    <3> QED BY <1>0, <3>3, <3>4, <3>5
  <2>7. CASE ViewThrows(s) BY <1>0, <2>7 DEF ViewThrows, sendVars
  <2>8. CASE ViewEnd(s)
    <3>1. EmptyList \in Lists(Messages) /\ EmptyList.size = 0 BY DEF EmptyList, Lists
    <3>2. shown[s] \o seen[s] \in Seq(Messages \cup {Null}) BY <1>0
    <3>3. held' \in [Sessions -> {"current", "replaced", "outgrown"}]
      BY <1>0, <2>8 DEF ViewEnd, Outdate
    <3>4. box' \in [Sessions -> Lists(Messages)] /\ \A t \in Sessions : box'[t].size >= 0
      <4> HIDE DEF EmptyList
      <4> QED BY <1>0, <2>8, <3>1 DEF ViewEnd
    <3>5. shown' \in [Sessions -> Seq(Messages \cup {Null})] BY <1>0, <2>8, <3>2 DEF ViewEnd
    <3>6. seen' \in [Sessions -> Seq(Messages \cup {Null})] /\ index' \in [Sessions -> Nat]
      BY <1>0, <2>8 DEF ViewEnd
    <3>7. UNCHANGED <<job, size>> BY <2>8 DEF ViewEnd, sendVars
    <3> QED BY <1>0, <3>3, <3>4, <3>5, <3>6, <3>7
  <2> QED BY <1>3, <2>2, <2>3, <2>4, <2>5, <2>6, <2>7, <2>8 DEF Works
<1>4. ASSUME NEW s \in Sessions, ViewMessage(s) PROVE TypeOK'
  BY <1>0, <1>a, <1>4, StartsFrame DEF ViewMessage, sendVars, viewVars, countVars
<1>5. ASSUME NEW s \in Sessions, Orders(s) PROVE TypeOK'
  <2>1. PICK m \in Messages : NewMessage(s, m) BY <1>0, <1>5, SendsNew
  <2>2. owed' \subseteq Sessions \X Messages
    BY <1>0, <2>1 DEF NewMessage, StartSending, Audience
  <2>3. pc' \in [Sessions -> PCs] BY <1>0, <1>5, StartsFrame
  <2> QED BY <1>0, <1>a, <2>1, <2>2, <2>3 DEF NewMessage, StartSending, viewVars
<1> QED BY Steps, <1>1, <1>2, <1>3, <1>4, <1>5

(* What the other sessions have in hand does not change as one moves.      *)
Others(s) ==
  \A w \in Sessions \ {s} :
    /\ pc'[w] = pc[w] /\ index'[w] = index[w] /\ job'[w] = job[w]
    /\ seen'[w] = seen[w] /\ login'[w] = login[w]

LEMMA JobsFrame ==
  ASSUME TypeInv, TypeOK', NEW s \in Sessions, Others(s), InHand(s)',
         threads' = threads \/ threads' = Append(threads, s),
         \A n \in Messages : Count(n)' >= Count(n)
  PROVE  JobsInv'
<1> SUFFICES ASSUME NEW w \in Sessions, w # s PROVE InHand(w)'
  BY DEF JobsInv
<1>1. InHand(w) BY DEF TypeInv, JobsInv
<1>2. /\ pc'[w] = pc[w] /\ index'[w] = index[w] /\ job'[w] = job[w]
      /\ seen'[w] = seen[w] /\ login'[w] = login[w]
  BY DEF Others
<1>3. Len(threads) \in Nat /\ Len(threads') >= Len(threads) /\ index[w] \in Nat
  <2>1. threads \in Seq(Sessions) /\ index[w] \in Nat BY DEF TypeInv, TypeOK
  <2> QED BY <2>1
<1>4. ASSUME JobOf(w) PROVE JobOf(w)'
  <2>1. PICK m \in Messages : m = job[w] BY <1>4 DEF JobOf
  <2>2. m.number \in Nat /\ Count(m) \in Nat
    BY DEF Count, Messages, TypeInv, TypeOK
  <2>3. Count(m)' >= Count(m) /\ m.number <= Count(m) BY <1>4, <2>1 DEF JobOf
  <2>4. Count(m)' \in Nat BY DEF Count, Messages, TypeOK
  <2>5. m.number <= Count(m)' BY <2>2, <2>3, <2>4
  <2>6. job'[w] = m BY <1>2, <2>1
  <2>7. Count(job[w])' = Count(m)' BY <2>6 DEF Count
  <2> QED BY <1>2, <1>4, <2>1, <2>5, <2>6, <2>7 DEF JobOf
<1> QED BY <1>1, <1>2, <1>3, <1>4 DEF InHand, Sends

LEMMA CountGrows ==
  ASSUME TypeInv, TypeOK', [Next]_vars, NEW n \in Messages
  PROVE  Count(n) \in Nat /\ Count(n)' \in Nat /\ Count(n)' >= Count(n)
<1>1. Count(n) \in Nat /\ Count(n)' \in Nat BY DEF Count, Messages, TypeOK, TypeInv
<1>2. CASE \E s \in Sessions : Orders(s)
  <2>1. PICK s \in Sessions, m \in Messages : NewMessage(s, m) BY <1>2, SendsNew DEF TypeInv
  <2> QED BY <1>1, <2>1 DEF NewMessage
<1>3. CASE ~ \E s \in Sessions : Orders(s)
  <2>1. UNCHANGED countVars
    <3>1. CASE UNCHANGED vars BY <3>1 DEF vars, countVars
    <3>2. CASE \E s \in Sessions : Works(s) \/ Visits(s)
      BY <3>2, WorksFrame, VisitsFrame DEF countVars, TypeInv
    <3>3. CASE \E s \in Sessions : ViewMessage(s) BY <3>3 DEF ViewMessage, sendVars
    <3> QED BY Steps, <1>3, <3>1, <3>2, <3>3
  <2>2. Count(n)' = Count(n) BY <2>1 DEF Count, countVars
  <2> QED BY <1>1, <2>2
<1> QED BY <1>2, <1>3

LEMMA JobsStep ==
  ASSUME TypeInv, TypeOK', [Next]_vars PROVE JobsInv'
<1>0. TypeOK BY DEF TypeInv
<1>a. \A n \in Messages : Count(n)' >= Count(n) BY CountGrows
<1>b. \A s \in Sessions : InHand(s) BY DEF TypeInv, JobsInv
<1>1. CASE UNCHANGED vars
  BY <1>1, <1>b DEF vars, countVars, sendVars, viewVars, JobsInv, InHand, Sends, JobOf, Count
<1>2. ASSUME NEW s \in Sessions, Visits(s) PROVE Others(s) /\ InHand(s)'
  <2>1. /\ UNCHANGED <<job, index, seen>> /\ ~Busy(s)
        /\ pc'[s] \in {"connected", "entering", "naming", "ready", "leaving", "closed"}
        /\ \A w \in Sessions \ {s} : pc'[w] = pc[w] /\ login'[w] = login[w]
    BY <1>0, <1>2, VisitsFrame
  <2>2. pc'[s] \in {"entering", "naming"} => login'[s] # Null
    BY <1>0, <1>2, <1>b, MailboxAssumption
       DEF Visits, Connect, Enter, SetId, Logout, Leave, Abandon, Login, Goto, InHand, TypeOK, PCs
  <2>3. seen'[s] = <<>> BY <2>1, <1>b DEF InHand, Busy
  <2> QED BY <2>1, <2>2, <2>3 DEF Others, InHand, Sends
<1>3. ASSUME NEW s \in Sessions, Works(s) PROVE Others(s) /\ InHand(s)'
  <2>1. /\ UNCHANGED <<threads, login, requestId, answers>>
        /\ pc'[s] \in {"ready", "notify", "put", "view", "closed"}
        /\ \A w \in Sessions \ {s} :
             pc'[w] = pc[w] /\ job'[w] = job[w] /\ index'[w] = index[w] /\ seen'[w] = seen[w]
    BY <1>0, <1>3, WorksFrame
  <2>2. Others(s) BY <2>1 DEF Others
  <2> USE <1>0 DEF TypeOK, Goto
  <2>3. CASE Notify(s)
    <3>1. Sends(s) /\ Sends(s)' /\ pc'[s] # "view" /\ UNCHANGED <<seen, threads, job>>
      BY <2>3 DEF Notify, StartPut, Sends, viewVars
    <3>2. index'[s] \in {index[s], index[s] + 1} BY <2>3 DEF Notify, StartPut
    <3>3. pc'[s] = "put" => index'[s] = index[s] /\ index[s] <= Len(threads)
      BY <2>3 DEF Notify, StartPut
    <3>4. JobOf(s) BY <3>1, <1>b DEF InHand
    <3>5. JobOf(s)' BY <2>1, <3>1, <3>2, <3>4 DEF JobOf, Count
    <3>6. seen'[s] = <<>> BY <2>3, <3>1, <1>b DEF InHand, Notify
    <3> QED BY <2>1, <2>2, <3>1, <3>3, <3>5, <3>6 DEF InHand
  <2>4. CASE Put(s)
    <3>1. Sends(s) /\ pc'[s] = "notify" /\ UNCHANGED <<seen, threads, job>>
      BY <2>4 DEF Put, Sends, viewVars
    <3>2. index'[s] = index[s] + 1 BY <2>4 DEF Put
    <3>3. JobOf(s) /\ seen[s] = <<>> BY <3>1, <2>4, <1>b DEF InHand, Put
    <3>4. JobOf(s)' BY <2>1, <3>1, <3>2, <3>3 DEF JobOf, Count
    <3> QED BY <2>2, <3>1, <3>3, <3>4 DEF InHand
  <2>5. CASE ViewSlot(s)
    <3>1. index[s] = Len(seen[s]) + 1 BY <2>5, <1>b DEF InHand, ViewSlot
    <3>2. index'[s] = index[s] + 1 /\ pc'[s] = "view" BY <2>5 DEF ViewSlot
    <3>3. Len(seen'[s]) = Len(seen[s]) + 1 BY <2>5 DEF ViewSlot
    <3> QED BY <2>2, <3>1, <3>2, <3>3 DEF InHand, Sends
  <2>6. CASE PutThrows(s) \/ EndNotify(s)
    <3>1. pc'[s] \in {"ready", "closed"} /\ seen' = seen /\ pc[s] # "view"
      BY <2>6 DEF PutThrows, EndNotify, viewVars
    <3> QED BY <2>2, <3>1, <1>b DEF InHand, Sends
  <2>7. CASE ViewThrows(s) \/ ViewEnd(s)
    <3>1. pc'[s] \in {"ready", "closed"} /\ seen'[s] = <<>> BY <2>7 DEF ViewThrows, ViewEnd
    <3> QED BY <2>2, <3>1 DEF InHand, Sends
  <2> QED BY <1>3, <2>3, <2>4, <2>5, <2>6, <2>7 DEF Works
<1>4. ASSUME NEW s \in Sessions, ViewMessage(s) PROVE Others(s) /\ InHand(s)'
  <2>1. /\ UNCHANGED <<login, seen, job>> /\ pc[s] = "ready" /\ pc'[s] = "view" /\ index'[s] = 1
        /\ \A w \in Sessions \ {s} : pc'[w] = pc[w] /\ index'[w] = index[w]
    BY <1>0, <1>4 DEF ViewMessage, Goto, TypeOK, sendVars, viewVars
  <2>2. seen[s] = <<>> BY <2>1, <1>b DEF InHand
  <2> QED BY <2>1, <2>2 DEF Others, InHand, Sends
<1>5. ASSUME NEW s \in Sessions, Orders(s) PROVE Others(s) /\ InHand(s)'
  <2>0. PICK m \in Messages : NewMessage(s, m) BY <1>0, <1>5, SendsNew
  <2>1. /\ UNCHANGED <<login, seen>> /\ pc[s] = "ready"
        /\ \A w \in Sessions \ {s} : pc'[w] = pc[w] /\ job'[w] = job[w] /\ index'[w] = index[w]
    BY <1>0, <1>5, StartsFrame
  <2>2. pc'[s] = "notify" /\ job'[s] = m /\ index'[s] = 1
    BY <1>0, <2>0 DEF NewMessage, StartSending, Goto, TypeOK
  <2>3. m.from = s /\ Count(m)' = Count(m) + 1 /\ m.number = Count(m) + 1
    BY <2>0 DEF NewMessage
  <2>4. Count(m) \in Nat BY <1>0 DEF Count, Messages, TypeOK
  <2>5. Count(job[s])' = Count(m)' BY <2>2 DEF Count
  <2>6. JobOf(s)' BY <2>2, <2>3, <2>4, <2>5 DEF JobOf
  <2>7. seen'[s] = <<>> BY <2>1, <1>b DEF InHand
  <2> QED BY <2>1, <2>2, <2>6, <2>7 DEF Others, InHand
<1>6. ASSUME NEW s \in Sessions, Works(s) \/ Visits(s) \/ ViewMessage(s) \/ Orders(s)
      PROVE  JobsInv'
  <2>1. Others(s) /\ InHand(s)' BY <1>2, <1>3, <1>4, <1>5, <1>6
  <2>2. threads' = threads \/ threads' = Append(threads, s)
    BY <1>0, <1>6, WorksFrame, VisitsFrame, StartsFrame
  <2> QED BY <1>a, <2>1, <2>2, JobsFrame
<1> QED BY Steps, <1>1, <1>6

LEMMA ThreadsStep ==
  ASSUME TypeInv, [Next]_vars PROVE ThreadsInv'
<1>0. TypeOK /\ ThreadsInv BY DEF TypeInv
<1>1. CASE threads' = threads /\ \A s \in Sessions : pc'[s] = "free" <=> pc[s] = "free"
  BY <1>0, <1>1 DEF ThreadsInv, Held, NoRepeats
<1>2. ASSUME NEW s \in Sessions, threads' = Append(threads, s), pc[s] = "free", pc'[s] # "free",
             \A w \in Sessions \ {s} : pc'[w] = pc[w]
      PROVE  ThreadsInv'
  <2>1. threads \in Seq(Sessions) BY <1>0 DEF TypeOK
  <2>3. s \notin Held(threads) BY <1>0, <1>2 DEF ThreadsInv
  <2>4. Held(threads') = Held(threads) \cup {s} /\ NoRepeats(threads')
    BY <1>0, <1>2, <2>1, <2>3, Enqueue DEF ThreadsInv
  <2>5. {w \in Sessions : pc'[w] # "free"} = {w \in Sessions : pc[w] # "free"} \cup {s}
    BY <1>2
  <2> QED BY <1>0, <2>4, <2>5 DEF ThreadsInv, Held, NoRepeats
<1>3. CASE UNCHANGED vars BY <1>1, <1>3 DEF vars
<1>4. ASSUME NEW s \in Sessions, Works(s) \/ ViewMessage(s) \/ Orders(s) PROVE ThreadsInv'
  <2>1. /\ threads' = threads /\ pc[s] # "free" /\ pc'[s] # "free"
        /\ \A w \in Sessions \ {s} : pc'[w] = pc[w]
    BY <1>0, <1>4, WorksFrame, StartsFrame DEF Busy
  <2> QED BY <1>1, <2>1
<1>5. ASSUME NEW s \in Sessions, Visits(s) PROVE ThreadsInv'
  <2>1. /\ pc'[s] # "free" /\ \A w \in Sessions \ {s} : pc'[w] = pc[w]
        /\ \/ threads' = threads /\ pc[s] # "free"
           \/ threads' = Append(threads, s) /\ pc[s] = "free"
    BY <1>0, <1>5, VisitsFrame
  <2> QED BY <1>1, <1>2, <2>1
<1> QED BY Steps, <1>3, <1>4, <1>5

LEMMA TypeInvStep ==
  ASSUME TypeInv, [Next]_vars PROVE TypeInv'
  BY TypeStep, JobsStep, ThreadsStep DEF TypeInv

LEMMA TypeInit ==
  ASSUME Init PROVE TypeInv
<1> USE DEF Init
<1>1. EmptyList \in Lists(Messages) /\ EmptyList.size = 0 BY DEF EmptyList, Lists
<1>2. TypeOK
  <2> HIDE DEF EmptyList
  <2>1. box \in [Sessions -> Lists(Messages)] /\ \A s \in Sessions : box[s].size >= 0 BY <1>1
  <2>2. pc \in [Sessions -> PCs] BY DEF PCs
  <2>3. sent \in 0..MaxMessages BY MailboxAssumption
  <2>4. quiet \in BOOLEAN /\ raced \in BOOLEAN BY Zenon
  <2>7. active \subseteq Users /\ threads \in Seq(Sessions) /\ owed \subseteq Sessions \X Messages
    OBVIOUS
  <2>5. /\ login \in [Sessions -> Users \cup {Null}] /\ id \in [Sessions -> Users \cup {Zero}]
        /\ requestId \in [Sessions -> Nat] /\ answers \in [Sessions -> Nat]
        /\ job \in [Sessions -> Messages \cup {Null}]
    OBVIOUS
  <2>6. /\ index \in [Sessions -> Nat] /\ size \in [Sessions -> Nat]
        /\ held \in [Sessions -> {"current", "replaced", "outgrown"}]
        /\ seen \in [Sessions -> Seq(Messages \cup {Null})]
        /\ shown \in [Sessions -> Seq(Messages \cup {Null})]
    OBVIOUS
  <2> HIDE DEF Init
  <2> QED BY <2>1, <2>2, <2>3, <2>4, <2>5, <2>6, <2>7 DEF TypeOK
<1>3. JobsInv BY DEF JobsInv, InHand, Sends
<1>4. ThreadsInv BY DEF ThreadsInv, Held, NoRepeats
<1> QED BY <1>2, <1>3, <1>4 DEF TypeInv

(* Every variable keeps its kind of value; in particular the loops over    *)
(* threadArrayList never leave it, and a message is only written to the    *)
(* list of a provider.                                                     *)
THEOREM MailboxTypeCorrect == Spec => []TypeOK
<1>1. Init => TypeInv BY TypeInit
<1>2. TypeInv /\ [Next]_vars => TypeInv' BY TypeInvStep
<1>3. TypeInv => TypeOK BY DEF TypeInv
<1> QED BY <1>1, <1>2, <1>3, PTL DEF Spec

-----------------------------------------------------------------------------
(* Messages on their way from the list to the client. *)

Moves(s) == Put(s) \/ ViewSlot(s) \/ ViewThrows(s) \/ ViewEnd(s)

(* The items of two sequences put together are those of the two.           *)
LEMMA JoinedItems ==
  ASSUME NEW S, NEW q \in Seq(S), NEW r \in Seq(S)
  PROVE  \A i \in 1..Len(q \o r) :
           /\ Len(q) \in Nat /\ i \in Nat
           /\ \/ i \in 1..Len(q) /\ (q \o r)[i] = q[i]
              \/ /\ i > Len(q) /\ i - Len(q) \in 1..Len(r)
                 /\ (q \o r)[i] = r[i - Len(q)]
<1>1. Len(q \o r) = Len(q) + Len(r) /\ Len(q) \in Nat /\ Len(r) \in Nat
  BY ConcatProperties, LenProperties
<1>2. \A i \in 1..Len(q \o r) :
        (q \o r)[i] = IF i <= Len(q) THEN q[i] ELSE r[i - Len(q)]
  BY <1>1, ConcatProperties
<1> QED BY <1>1, <1>2

LEMMA StayPut ==
  ASSUME TypeInv, [Next]_vars, ~ \E s \in Sessions : Moves(s) PROVE UNCHANGED <<box, seen, shown>>
<1>0. TypeOK BY DEF TypeInv
<1>1. CASE UNCHANGED vars BY <1>1 DEF vars, viewVars
<1>2. CASE \E s \in Sessions : Visits(s) BY <1>0, <1>2, VisitsFrame
<1>3. CASE \E s \in Sessions : ViewMessage(s) \/ Orders(s) BY <1>0, <1>3, StartsFrame
<1>4. CASE \E s \in Sessions : Notify(s) \/ PutThrows(s) \/ EndNotify(s)
  BY <1>4 DEF Notify, PutThrows, EndNotify, viewVars
<1> QED BY Steps, <1>1, <1>2, <1>3, <1>4 DEF Moves, Works

(* A write changes one slot at most. *)
LEMMA PutWrites ==
  ASSUME TypeInv, NEW s \in Sessions, Put(s)
  PROVE  /\ threads[index[s]] \in Sessions /\ UNCHANGED <<seen, shown>>
         /\ job[s] \in Messages /\ job[s].from = s /\ index[s] \in 1..Len(threads)
         /\ \A t \in Sessions, i \in Nat :
              Slot(box'[t], i) # Slot(box[t], i) =>
                t = threads[index[s]] /\ i = size[s] + 1 /\ Slot(box'[t], i) = job[s]
<1>1. /\ threads[index[s]] \in Sessions /\ job[s] \in Messages /\ job[s].from = s
      /\ index[s] \in 1..Len(threads)
  BY TargetType DEF Put, TypeInv, JobsInv, InHand
<1>2. UNCHANGED <<seen, shown>> BY DEF Put, viewVars
<1>3. TypeOK BY DEF TypeInv
<1>4. ASSUME NEW t \in Sessions, NEW i \in Nat, Slot(box'[t], i) # Slot(box[t], i)
      PROVE  t = threads[index[s]] /\ i = size[s] + 1 /\ Slot(box'[t], i) = job[s]
  <2>1. CASE t = threads[index[s]] /\ held[s] = "current"
    <3>1. box'[t] \in Added(box[t], size[s], job[s]) BY <1>3, <2>1 DEF Put, TypeOK
    <3>2. box[t] \in Lists(Messages) /\ size[s] \in Nat BY <1>3 DEF TypeOK
    <3> QED BY <1>1, <1>4, <2>1, <3>1, <3>2, AddedType
  <2>2. CASE ~(t = threads[index[s]] /\ held[s] = "current")
    <3>1. box'[t] = box[t]
      <4>1. CASE held[s] = "current"
        <5>1. PICK list : box' = [box EXCEPT ![threads[index[s]]] = list] BY <4>1 DEF Put
        <5> QED BY <1>3, <2>2, <4>1, <5>1 DEF TypeOK
      <4>2. CASE held[s] # "current" BY <4>2 DEF Put
      <4> QED BY <4>1, <4>2
    <3> QED BY <1>4, <3>1
  <2> QED BY <2>1, <2>2
<1> QED BY <1>1, <1>2, <1>4

LEMMA ViewSlotReads ==
  ASSUME TypeInv, NEW s \in Sessions, ViewSlot(s)
  PROVE  /\ UNCHANGED <<box, shown>> /\ index[s] = Len(seen[s]) + 1 /\ index[s] \in Nat
         /\ \A t \in Sessions : t # s => seen'[t] = seen[t]
         /\ seen[s] \in Seq(Messages \cup {Null}) /\ Len(seen[s]) \in Nat
         /\ seen'[s] = Append(seen[s], Slot(box[s], index[s]))
         /\ Len(seen'[s]) = index[s] /\ seen'[s][index[s]] = Slot(box[s], index[s])
         /\ \A i \in 1..Len(seen[s]) : seen'[s][i] = seen[s][i]
<1>1. TypeOK /\ InHand(s) BY DEF TypeInv, JobsInv
<1>2. index[s] = Len(seen[s]) + 1 BY <1>1 DEF InHand, ViewSlot
<1>3. seen[s] \in Seq(Messages \cup {Null}) /\ index[s] \in Nat BY <1>1 DEF TypeOK
<1>4. seen'[s] = Append(seen[s], Slot(box[s], index[s])) BY <1>1 DEF ViewSlot, TypeOK
<1>5. \A t \in Sessions : t # s => seen'[t] = seen[t] BY <1>1 DEF ViewSlot, TypeOK
<1>6. UNCHANGED <<box, shown>> BY DEF ViewSlot
<1>7. Slot(box[s], index[s]) \in Messages \cup {Null} BY <1>1, SlotType DEF TypeOK
<1>8. /\ Len(seen'[s]) = index[s] /\ seen'[s][index[s]] = Slot(box[s], index[s])
      /\ \A i \in 1..Len(seen[s]) : seen'[s][i] = seen[s][i]
  BY <1>2, <1>3, <1>4, <1>7, AppendProperties
<1> QED BY <1>2, <1>3, <1>4, <1>5, <1>6, <1>8

LEMMA ViewEndEmpties ==
  ASSUME TypeInv, NEW s \in Sessions, ViewEnd(s)
  PROVE  /\ \A i \in Nat : Slot(box'[s], i) = Null
         /\ seen'[s] = <<>> /\ shown'[s] \in {shown[s], shown[s] \o seen[s]}
         /\ shown[s] \in Seq(Messages \cup {Null}) /\ seen[s] \in Seq(Messages \cup {Null})
         /\ \A t \in Sessions : t # s =>
              box'[t] = box[t] /\ seen'[t] = seen[t] /\ shown'[t] = shown[t]
<1> USE DEF TypeInv, TypeOK, ViewEnd
<1>1. \A i \in Nat : Slot(box'[s], i) = Null BY DEF Slot, EmptyList
<1>2. seen'[s] = <<>> /\ shown'[s] \in {shown[s], shown[s] \o seen[s]} OBVIOUS
<1>3. \A t \in Sessions : t # s =>
        box'[t] = box[t] /\ seen'[t] = seen[t] /\ shown'[t] = shown[t]
  OBVIOUS
<1> QED BY <1>1, <1>2, <1>3

LEMMA ViewThrowsDrops ==
  ASSUME TypeInv, NEW s \in Sessions, ViewThrows(s)
  PROVE  /\ UNCHANGED <<box, shown>> /\ seen'[s] = <<>>
         /\ \A t \in Sessions : t # s => seen'[t] = seen[t]
  BY DEF TypeInv, TypeOK, ViewThrows

LEMMA ReadersOnly ==
  ASSUME TypeInv, NEW t \in Sessions, NEW s \in Sessions,
         ViewSlot(s) \/ ViewThrows(s) \/ ViewEnd(s)
  PROVE  Delivered(t)' \subseteq Delivered(t)
<1> USE DEF Delivered, Stored, Collected, Shown
<1>3. CASE ViewSlot(s)
  <2>1. CASE t # s BY <1>3, <2>1, ViewSlotReads
  <2>2. CASE t = s
    <3>1. /\ UNCHANGED <<box, shown>> /\ index[t] = Len(seen[t]) + 1 /\ index[t] \in Nat
          /\ seen[t] \in Seq(Messages \cup {Null}) /\ Len(seen[t]) \in Nat
          /\ seen'[t] = Append(seen[t], Slot(box[t], index[t]))
          /\ \A i \in 1..Len(seen[t]) : seen'[t][i] = seen[t][i]
      BY <1>3, <2>2, ViewSlotReads
    <3>2. Collected(t)' \subseteq Collected(t) \cup {Slot(box[t], index[t])} BY <3>1
    <3> QED BY <3>1, <3>2
  <2> QED BY <2>1, <2>2
<1>4. CASE ViewEnd(s)
  <2>1. CASE t # s BY <1>4, <2>1, ViewEndEmpties
  <2>2. CASE t = s
    <3>1. /\ \A i \in Nat : Slot(box'[t], i) = Null
          /\ seen'[t] = <<>> /\ shown'[t] \in {shown[t], shown[t] \o seen[t]}
          /\ shown[t] \in Seq(Messages \cup {Null}) /\ seen[t] \in Seq(Messages \cup {Null})
      BY <1>4, <2>2, ViewEndEmpties
    <3>2. Shown(t)' \subseteq Shown(t) \cup Collected(t)
      <4>1. CASE shown'[t] = shown[t] BY <4>1
      <4>2. CASE shown'[t] = shown[t] \o seen[t]
        <5>1. DOMAIN shown'[t] = 1..Len(shown'[t]) BY <3>1, <4>2
        <5>2. DOMAIN shown[t] = 1..Len(shown[t]) /\ DOMAIN seen[t] = 1..Len(seen[t]) BY <3>1
        <5>3. \A i \in 1..Len(shown'[t]) :
                \/ i \in 1..Len(shown[t]) /\ shown'[t][i] = shown[t][i]
                \/ i - Len(shown[t]) \in 1..Len(seen[t]) /\ shown'[t][i] = seen[t][i - Len(shown[t])]
          <6> DEFINE q == shown[t]  r == seen[t]
          <6>1. q \in Seq(Messages \cup {Null}) /\ r \in Seq(Messages \cup {Null}) /\ shown'[t] = q \o r
            BY <3>1, <4>2
          <6> HIDE DEF q, r
          <6>2. \A i \in 1..Len(q \o r) :
                  \/ i \in 1..Len(q) /\ (q \o r)[i] = q[i]
                  \/ i - Len(q) \in 1..Len(r) /\ (q \o r)[i] = r[i - Len(q)]
            BY <6>1, JoinedItems
          <6> QED BY <6>1, <6>2 DEF q, r
        <5> QED BY <5>1, <5>2, <5>3
      <4> QED BY <3>1, <4>1, <4>2
    <3>3. Collected(t)' = {} /\ Stored(t)' \subseteq {Null} BY <3>1
    <3> QED BY <3>2, <3>3
  <2> QED BY <2>1, <2>2
<1>5. CASE ViewThrows(s)
  <2>1. UNCHANGED <<box, shown>> /\ (seen'[t] = seen[t] \/ seen'[t] = <<>>)
    BY <1>5, ViewThrowsDrops
  <2>2. Collected(t)' \subseteq Collected(t) BY <2>1
  <2> QED BY <2>1, <2>2
<1> QED BY <1>3, <1>4, <1>5

(* The only way to a session is through the one slot a writer stores.      *)
LEMMA DeliveredGrows ==
  ASSUME TypeInv, [Next]_vars, NEW t \in Sessions
  PROVE  Delivered(t)' \subseteq Delivered(t) \cup Addressed(t)
<1> USE DEF Delivered, Stored, Collected, Shown
<1>1. CASE ~ \E s \in Sessions : Moves(s) BY <1>1, StayPut
<1>2. ASSUME NEW s \in Sessions, Put(s) PROVE Delivered(t)' \subseteq Delivered(t) \cup Addressed(t)
  <2>0. /\ UNCHANGED <<seen, shown>>
        /\ \A x \in Sessions, i \in Nat : Slot(box'[x], i) # Slot(box[x], i) =>
             x = threads[index[s]] /\ i = size[s] + 1 /\ Slot(box'[x], i) = job[s]
    BY ONLY <1>2, TypeInv, PutWrites
  <2>1. /\ UNCHANGED <<seen, shown>>
        /\ \A i \in Nat : Slot(box'[t], i) # Slot(box[t], i) =>
             t = threads[index[s]] /\ Slot(box'[t], i) = job[s]
    BY <2>0
  <2>2. pc[s] = "put" BY <1>2 DEF Put
  <2>3. t = threads[index[s]] => job[s] \in Addressed(t) BY <2>2 DEF Addressed
  <2> QED BY <2>1, <2>3
<1> QED BY <1>1, <1>2, ReadersOnly DEF Moves

-----------------------------------------------------------------------------
(* Loops only go forward. *)

LEMMA ThreadsGrow ==
  ASSUME TypeInv, [Next]_vars
  PROVE  /\ Len(threads) \in Nat /\ Len(threads') \in Nat /\ Len(threads) <= Len(threads')
         /\ \A k \in 1..Len(threads) : threads'[k] = threads[k]
<1>1. threads \in Seq(Sessions) BY DEF TypeInv, TypeOK
<1>2. CASE threads' = threads BY <1>1, <1>2
<1>3. CASE \E s \in Sessions : threads' = Append(threads, s) BY <1>1, <1>3, AppendProperties
<1>4. TypeOK BY DEF TypeInv
<1>5. threads' = threads \/ \E s \in Sessions : threads' = Append(threads, s)
  BY Steps, <1>4, WorksFrame, VisitsFrame, StartsFrame DEF vars
<1> QED BY <1>2, <1>3, <1>5

(* A session that sends goes on with its message, or starts a new one.     *)
LEMMA GoesOn ==
  ASSUME TypeInv, TypeInv', [Next]_vars, NEW w \in Sessions, Sends(w)'
  PROVE  \/ /\ Sends(w) /\ job'[w] = job[w] /\ index[w] \in Nat
            /\ index'[w] \in {index[w], index[w] + 1}
         \/ NewMessage(w, job'[w])
<1>1. TypeOK BY DEF TypeInv
<1>2. index[w] \in Nat BY <1>1 DEF TypeOK
<1> DEFINE Goal == Sends(w) /\ job'[w] = job[w] /\ index'[w] \in {index[w], index[w] + 1}
<1>3. ASSUME pc'[w] = pc[w], job'[w] = job[w], index'[w] = index[w] PROVE Goal
  BY <1>3 DEF Sends
<1>4. ASSUME UNCHANGED vars PROVE Goal
  <2>1. UNCHANGED <<pc, job, index>> BY <1>4 DEF vars
  <2> QED BY <1>3, <2>1
<1>5. ASSUME NEW s \in Sessions, Visits(s) PROVE Goal
  <2>1. /\ UNCHANGED <<job, index>> /\ ~Sends(s)'
        /\ \A x \in Sessions \ {s} : pc'[x] = pc[x]
    BY <1>1, <1>5, VisitsFrame DEF Sends
  <2> QED BY <1>3, <2>1
<1>6. ASSUME NEW s \in Sessions, Works(s) PROVE Goal
  <2>1. CASE w # s BY <1>1, <1>3, <1>6, <2>1, WorksFrame
  <2>2. CASE w = s
    <3>1. CASE Notify(s)
      <4>1. job' = job /\ pc[s] = "notify" BY <3>1 DEF Notify
      <4>2. index' = index \/ index' = [index EXCEPT ![s] = @ + 1] BY <3>1 DEF Notify, StartPut
      <4> QED BY <1>1, <2>2, <4>1, <4>2 DEF Sends, TypeOK
    <3>2. CASE Put(s) BY <1>1, <2>2, <3>2 DEF Put, Sends, TypeOK
    <3>3. CASE PutThrows(s) \/ EndNotify(s) \/ ViewSlot(s) \/ ViewThrows(s) \/ ViewEnd(s)
      BY <1>1, <2>2, <3>3
         DEF PutThrows, EndNotify, ViewSlot, ViewThrows, ViewEnd, Goto, Sends, TypeOK
    <3> QED BY <1>6, <3>1, <3>2, <3>3 DEF Works
  <2> QED BY <2>1, <2>2
<1>7. ASSUME NEW s \in Sessions, ViewMessage(s) \/ Orders(s)
      PROVE  Goal \/ NewMessage(w, job'[w])
  <2>1. CASE w # s BY <1>1, <1>3, <1>7, <2>1, StartsFrame
  <2>2. CASE w = s /\ ViewMessage(s) BY <1>1, <2>2 DEF ViewMessage, Goto, Sends, TypeOK
  <2>3. CASE w = s /\ Orders(s)
    <3>1. PICK m \in Messages : NewMessage(s, m) BY <1>1, <2>3, SendsNew
    <3>2. job'[s] = m BY <1>1, <3>1 DEF NewMessage, StartSending, TypeOK
    <3> QED BY <2>3, <3>1, <3>2
  <2> QED BY <1>7, <2>1, <2>2, <2>3
<1> QED BY Steps, <1>2, <1>4, <1>5, <1>6, <1>7

(* Once passed, a provider stays passed. *)
LEMMA PassedStays ==
  ASSUME TypeInv, TypeInv', [Next]_vars, NEW t \in Sessions, NEW m \in Messages,
         m.number <= Count(m), Sending(m) => Passed(m.from, t)
  PROVE  m.number <= Count(m)' /\ (Sending(m) => Passed(m.from, t))'
<1>1. TypeOK' BY DEF TypeInv
<1>2. Count(m) \in Nat /\ Count(m)' \in Nat /\ Count(m)' >= Count(m) /\ m.number \in Nat
  BY <1>1, CountGrows DEF Messages
<1>3. m.number <= Count(m)' BY <1>2
<1>4. ASSUME Sending(m)' PROVE Passed(m.from, t)'
  <2>1. PICK w \in Sessions : w = m.from BY DEF Messages
  <2>2. Sends(w)' /\ job'[w] = m BY <1>4, <2>1 DEF Sending, Sends
  <2>3. CASE NewMessage(w, job'[w])
    <3>1. m.number = Count(m) + 1 BY <2>2, <2>3 DEF NewMessage
    <3> QED BY <1>2, <3>1
  <2>4. CASE Sends(w) /\ job'[w] = job[w] /\ index[w] \in Nat
             /\ index'[w] \in {index[w], index[w] + 1}
    <3>1. Passed(w, t) BY <2>1, <2>2, <2>4 DEF Sending
    <3>2. Passed(w, t)' BY <2>4, <3>1, ThreadsGrow DEF Passed
    <3> QED BY <2>1, <3>2
  <2> QED BY <2>2, <2>3, <2>4, GoesOn
<1> QED BY <1>3, <1>4

LEMMA DeliveredStep ==
  ASSUME TypeInv, TypeInv', [Next]_vars, DeliveredInv PROVE DeliveredInv'
<1> SUFFICES ASSUME NEW t \in Sessions, NEW m \in Delivered(t)'
             PROVE  m \in Messages /\ m.number <= Count(m)' /\ (Sending(m) => Passed(m.from, t))'
  BY DEF DeliveredInv
<1>1. CASE m \in Delivered(t) BY <1>1, PassedStays DEF DeliveredInv
<1>2. CASE m \notin Delivered(t)
  <2>1. PICK s \in Sessions : Put(s) /\ m = job[s] /\ threads[index[s]] = t
    <3>1. CASE \E s \in Sessions : Put(s)
      <4>1. PICK s \in Sessions : Put(s) BY <3>1
      <4>2. /\ UNCHANGED <<seen, shown>>
            /\ \A i \in Nat : Slot(box'[t], i) # Slot(box[t], i) =>
                 t = threads[index[s]] /\ Slot(box'[t], i) = job[s]
        BY <4>1, PutWrites
      <4> QED BY <1>2, <4>1, <4>2 DEF Delivered, Stored, Collected, Shown
    <3>2. CASE ~ \E s \in Sessions : Put(s)
      <4>1. Delivered(t)' \subseteq Delivered(t)
        BY <3>2, StayPut, ReadersOnly DEF Moves, Delivered, Stored, Collected, Shown
      <4> QED BY <1>2, <4>1
    <3> QED BY <3>1, <3>2
  <2>2. m \in Messages /\ m.from = s /\ index[s] \in 1..Len(threads) BY <2>1, PutWrites
  <2>3. InHand(s) /\ JobOf(s) BY <2>1 DEF TypeInv, JobsInv, InHand, Sends, Put
  <2>4. m.number <= Count(m) BY <2>1, <2>3 DEF JobOf
  <2>5. m.number <= Count(m)'
    <3>1. TypeOK' BY DEF TypeInv
    <3>2. Count(m) \in Nat /\ Count(m)' \in Nat /\ Count(m)' >= Count(m) /\ m.number \in Nat
      BY <2>2, <3>1, CountGrows DEF Messages
    <3> QED BY <2>4, <3>2
  <2>6. Passed(s, t)'
    <3>1. threads' = threads /\ index'[s] = index[s] + 1 BY <2>1 DEF Put, TypeInv, TypeOK
    <3> QED BY <2>1, <2>2, <3>1 DEF Passed
  <2> QED BY <2>2, <2>5, <2>6
<1> QED BY <1>1, <1>2

(* What is stored is new to the session, so it is in no other slot, not    *)
(* collected and not shown.                                                *)
LEMMA PutInPlace ==
  ASSUME TypeInv, DeliveredInv, NEW t \in Sessions, InPlace(t), NEW s \in Sessions, Put(s)
  PROVE  InPlace(t)'
<1> DEFINE n == size[s] + 1
           e == job[s]
           Written == t = threads[index[s]]
<1>1. /\ UNCHANGED <<seen, shown>> /\ e \in Messages /\ e.from = s /\ index[s] \in 1..Len(threads)
      /\ \A i \in Nat : Slot(box'[t], i) # Slot(box[t], i) =>
           Written /\ i = n /\ Slot(box'[t], i) = e
  BY PutWrites
<1>2. Written => e \notin Delivered(t)
  <2> SUFFICES ASSUME t = threads[index[s]], e \in Delivered(t) PROVE FALSE
    OBVIOUS
  <2>1. Sending(e) BY <1>1 DEF Sending, Sends, Put
  <2>2. PICK k \in 1..Len(threads) : k < index[s] /\ threads[k] = t
    BY <1>1, <2>1 DEF DeliveredInv, Passed
  <2>3. k = index[s] BY <1>1, <2>2 DEF TypeInv, ThreadsInv, NoRepeats
  <2>4. index[s] \in Nat BY DEF TypeInv, TypeOK
  <2> QED BY <2>2, <2>3, <2>4
<1>3. Written /\ e # Null => e \notin Stored(t) \cup Collected(t) \cup Shown(t)
  BY <1>2 DEF Delivered
<1>4. DOMAIN seen[t] = 1..Len(seen[t]) BY DEF TypeInv, TypeOK
<1> HIDE DEF n, e, Written
<1>5. OneSlot(t)' BY <1>1, <1>3 DEF InPlace, OneSlot, Stored
<1>6. SeenInPlace(t)' BY <1>1, <1>3, <1>4 DEF InPlace, SeenInPlace, Collected
<1>7. Once(seen[t])' /\ Once(shown[t])' BY <1>1 DEF InPlace, Once
<1>8. ShownIsGone(t)'
  <2>1. Shown(t)' = Shown(t) /\ Collected(t)' = Collected(t) BY <1>1 DEF Shown, Collected
  <2>2. \A m \in Stored(t)' : m \in Stored(t) \/ (Written /\ m = e) BY <1>1 DEF Stored
  <2> QED BY <1>3, <2>1, <2>2 DEF InPlace, ShownIsGone
<1> QED BY <1>5, <1>6, <1>7, <1>8 DEF InPlace

LEMMA ViewSlotInPlace ==
  ASSUME TypeInv, NEW s \in Sessions, InPlace(s), ViewSlot(s) PROVE InPlace(s)'
<1> DEFINE n == index[s]
           e == Slot(box[s], n)
<1>1. /\ UNCHANGED <<box, shown>> /\ n = Len(seen[s]) + 1 /\ n \in Nat /\ Len(seen[s]) \in Nat
      /\ seen'[s] = Append(seen[s], e)
      /\ Len(seen'[s]) = n /\ seen'[s][n] = e
      /\ \A i \in 1..Len(seen[s]) : seen'[s][i] = seen[s][i]
      /\ seen[s] \in Seq(Messages \cup {Null})
  BY ViewSlotReads
<1>2. \A i \in 1..n : i \in 1..Len(seen[s]) \/ i = n BY <1>1
<1>3. \A i \in 1..Len(seen[s]) : seen[s][i] = e /\ e # Null => i = n
  BY <1>1 DEF InPlace, SeenInPlace
<1>4. e \in Stored(s) BY <1>1 DEF Stored
<1>5. SeenInPlace(s)'
  <2> SUFFICES ASSUME NEW i \in 1..n, NEW j \in Nat, seen'[s][i] = Slot(box[s], j), seen'[s][i] # Null
               PROVE  i = j
    BY <1>1 DEF SeenInPlace
  <2>1. CASE i \in 1..Len(seen[s]) BY <1>1, <2>1 DEF InPlace, SeenInPlace
  <2>2. CASE i = n BY <1>1, <2>2 DEF InPlace, OneSlot
  <2> QED BY <1>2, <2>1, <2>2
<1>6. Once(seen[s])'
  <2> SUFFICES ASSUME NEW i \in 1..n, NEW j \in 1..n, seen'[s][i] = seen'[s][j], seen'[s][i] # Null
               PROVE  i = j
    BY <1>1 DEF Once
  <2>1. CASE i \in 1..Len(seen[s]) /\ j \in 1..Len(seen[s]) BY <1>1, <2>1 DEF InPlace, Once
  <2>2. CASE i = n \/ j = n BY <1>1, <1>2, <1>3, <2>2
  <2> QED BY <1>2, <2>1, <2>2
<1>7. Collected(s)' = Collected(s) \cup {e} 
  <2> HIDE DEF e, n
  <2>1. DOMAIN seen'[s] = 1..n /\ DOMAIN seen[s] = 1..Len(seen[s]) BY <1>1
  <2> QED BY <1>1, <1>2, <2>1 DEF Collected
<1>8. ShownIsGone(s)'
  <2>1. Stored(s)' = Stored(s) /\ Shown(s)' = Shown(s) BY <1>1 DEF Stored, Shown
  <2> QED BY <1>4, <1>7, <2>1 DEF InPlace, ShownIsGone
<1> QED BY <1>1, <1>5, <1>6, <1>8 DEF InPlace, OneSlot, Once

LEMMA ViewEndInPlace ==
  ASSUME TypeInv, NEW s \in Sessions, InPlace(s), ViewEnd(s) PROVE InPlace(s)'
<1> DEFINE q == shown[s]
           r == seen[s]
<1>1. /\ \A i \in Nat : Slot(box'[s], i) = Null
      /\ seen'[s] = <<>> /\ shown'[s] \in {q, q \o r}
      /\ q \in Seq(Messages \cup {Null}) /\ r \in Seq(Messages \cup {Null})
  BY ViewEndEmpties
<1>2. Once(q) /\ Once(r) BY DEF InPlace
<1>3. \A i \in 1..Len(q), j \in 1..Len(r) : q[i] = r[j] => q[i] = Null
  <2>1. DOMAIN q = 1..Len(q) /\ DOMAIN r = 1..Len(r) BY <1>1
  <2> QED BY <2>1 DEF InPlace, ShownIsGone, Shown, Collected
<1>4. OneSlot(s)' /\ SeenInPlace(s)' /\ Once(seen[s])' BY <1>1 DEF OneSlot, SeenInPlace, Once
<1>5. ShownIsGone(s)' BY <1>1 DEF ShownIsGone, Stored, Collected
<1> HIDE DEF q, r
<1>6. Once(q \o r)
  <2> SUFFICES ASSUME NEW i \in 1..Len(q \o r), NEW j \in 1..Len(q \o r),
                      (q \o r)[i] = (q \o r)[j], (q \o r)[i] # Null
               PROVE  i = j
    BY DEF Once
  <2>1. /\ Len(q) \in Nat /\ i \in Nat
        /\ \/ i \in 1..Len(q) /\ (q \o r)[i] = q[i]
           \/ i > Len(q) /\ i - Len(q) \in 1..Len(r) /\ (q \o r)[i] = r[i - Len(q)]
    BY <1>1, JoinedItems
  <2>2. /\ j \in Nat
        /\ \/ j \in 1..Len(q) /\ (q \o r)[j] = q[j]
           \/ j > Len(q) /\ j - Len(q) \in 1..Len(r) /\ (q \o r)[j] = r[j - Len(q)]
    BY <1>1, JoinedItems
  <2>3. CASE i \in 1..Len(q) /\ j \in 1..Len(q) BY <1>2, <2>1, <2>2, <2>3 DEF Once
  <2>4. CASE i > Len(q) /\ j > Len(q)
    <3>1. i - Len(q) = j - Len(q) BY <1>2, <2>1, <2>2, <2>4 DEF Once
    <3> QED BY <2>1, <2>2, <3>1
  <2>5. CASE \/ i \in 1..Len(q) /\ j > Len(q)
             \/ j \in 1..Len(q) /\ i > Len(q)
    BY <1>3, <2>1, <2>2, <2>5
  <2> QED BY <2>1, <2>2, <2>3, <2>4, <2>5
<1>7. Once(shown[s])' BY <1>1, <1>2, <1>6
<1> QED BY <1>4, <1>5, <1>7 DEF InPlace

LEMMA UntouchedInPlace ==
  ASSUME NEW t \in Sessions, InPlace(t), box'[t] = box[t], seen'[t] = seen[t], shown'[t] = shown[t]
  PROVE  InPlace(t)'
<1>1. OneSlot(t)' /\ SeenInPlace(t)' BY DEF InPlace, OneSlot, SeenInPlace
<1>2. Once(seen[t])' /\ Once(shown[t])' BY DEF InPlace, Once
<1>3. Stored(t)' = Stored(t) /\ Collected(t)' = Collected(t) /\ Shown(t)' = Shown(t)
  BY DEF Stored, Collected, Shown
<1> QED BY <1>1, <1>2, <1>3 DEF InPlace, ShownIsGone

LEMMA ShownStep ==
  ASSUME ShownInv, [Next]_vars PROVE ShownInv'
<1> USE DEF ShownInv
<1>1. TypeInv' BY TypeInvStep
<1>2. DeliveredInv' BY <1>1, DeliveredStep
<1> SUFFICES ASSUME NEW t \in Sessions PROVE InPlace(t)' BY <1>1, <1>2 DEF PlacesInv
<1>0. InPlace(t) BY DEF PlacesInv
<1>3. CASE ~ \E s \in Sessions : Moves(s) BY <1>0, <1>3, StayPut, UntouchedInPlace
<1>4. CASE \E s \in Sessions : Put(s) BY <1>0, <1>4, PutInPlace
<1>5. ASSUME NEW s \in Sessions, ViewSlot(s) PROVE InPlace(t)'
  <2>1. CASE t = s BY <1>0, <1>5, <2>1, ViewSlotInPlace
  <2>2. CASE t # s
    <3>1. seen'[t] = seen[t] /\ UNCHANGED <<box, shown>> BY <1>5, <2>2, ViewSlotReads
    <3> QED BY <1>0, <3>1, UntouchedInPlace
  <2> QED BY <2>1, <2>2
<1>6. ASSUME NEW s \in Sessions, ViewEnd(s) PROVE InPlace(t)'
  <2>1. CASE t = s BY <1>0, <1>6, <2>1, ViewEndInPlace
  <2>2. CASE t # s
    <3>1. seen'[t] = seen[t] /\ box'[t] = box[t] /\ shown'[t] = shown[t] 
      BY <1>6, <2>2, ViewEndEmpties
    <3> QED BY <1>0, <3>1, UntouchedInPlace
  <2> QED BY <2>1, <2>2
<1>7. ASSUME NEW s \in Sessions, ViewThrows(s) PROVE InPlace(t)'
  <2>1. UNCHANGED <<box, shown>> /\ (seen'[t] = seen[t] \/ seen'[t] = <<>>)
    BY <1>7, ViewThrowsDrops
  <2>2. CASE seen'[t] = seen[t] BY <1>0, <2>1, <2>2, UntouchedInPlace
  <2>3. CASE seen'[t] = <<>>
    <3>1. Collected(t)' = {} /\ Stored(t)' = Stored(t) /\ Shown(t)' = Shown(t)
      BY <2>1, <2>3 DEF Collected, Stored, Shown
    <3>2. OneSlot(t)' /\ Once(shown[t])' BY <1>0, <2>1 DEF InPlace, OneSlot, Once
    <3>3. SeenInPlace(t)' /\ Once(seen[t])' BY <2>3 DEF SeenInPlace, Once
    <3> QED BY <1>0, <3>1, <3>2, <3>3 DEF InPlace, ShownIsGone
  <2> QED BY <2>1, <2>2, <2>3
<1> QED BY <1>3, <1>4, <1>5, <1>6, <1>7 DEF Moves

LEMMA ShownInit ==
  ASSUME Init PROVE ShownInv
<1>1. TypeInv BY TypeInit
<1>2. \A t \in Sessions, i \in Nat : Slot(box[t], i) = Null BY DEF Init, Slot, EmptyList
<1>3. \A t \in Sessions : Collected(t) = {} /\ Shown(t) = {} /\ Stored(t) \subseteq {Null}
  BY <1>2 DEF Init, Collected, Shown, Stored
<1>4. DeliveredInv BY <1>3 DEF DeliveredInv, Delivered
<1>5. \A t \in Sessions : Len(seen[t]) = 0 /\ Len(shown[t]) = 0 BY DEF Init
<1>6. PlacesInv
  BY <1>2, <1>3, <1>5 DEF PlacesInv, InPlace, OneSlot, SeenInPlace, Once, ShownIsGone
<1> QED BY <1>1, <1>4, <1>6 DEF ShownInv

LEMMA ShownInvHolds == Spec => []ShownInv
<1>1. Init => ShownInv BY ShownInit
<1>2. ShownInv /\ [Next]_vars => ShownInv' BY ShownStep
<1> QED BY <1>1, <1>2, PTL DEF Spec

(* viewMessage, run while other providers append to the list it prints and *)
(* replaces: no client is shown a message twice, nor finds one again that  *)
(* it has been shown, for any number of sessions and messages.             *)
THEOREM NobodyIsShownTwice == Spec => []ShownOnce
<1>1. ASSUME ShownInv, NEW t \in Sessions, NEW m \in Shown(t) \ {Null}
      PROVE  /\ Cardinality({i \in DOMAIN shown[t] : shown[t][i] = m}) = 1
             /\ m \notin Members(box[t])
  <2>1. InPlace(t) /\ TypeOK BY <1>1 DEF ShownInv, PlacesInv, TypeInv
  <2>2. DOMAIN shown[t] = 1..Len(shown[t]) BY <2>1 DEF TypeOK
  <2>3. PICK k \in DOMAIN shown[t] : shown[t][k] = m BY DEF Shown
  <2>4. {i \in DOMAIN shown[t] : shown[t][i] = m} = {k}
    BY <2>1, <2>2, <2>3 DEF InPlace, Once
  <2>5. Members(box[t]) \subseteq Stored(t)
    <3>1. box[t].size \in Nat BY <2>1 DEF TypeOK, Lists
    <3> QED BY <3>1 DEF Members, Visible, Stored
  <2> QED BY <2>1, <2>4, <2>5, FS_Singleton DEF InPlace, ShownIsGone
<1>2. ShownInv => ShownOnce BY <1>1 DEF ShownOnce
<1> QED BY <1>2, ShownInvHolds, PTL

-----------------------------------------------------------------------------
(* Who a message is for. *)

(* Sending and printing change nobody's id, and nobody arrives or logs in. *)
LEMMA CommandsKeepIds ==
  ASSUME TypeOK, NEW s \in Sessions, Works(s) \/ ViewMessage(s) \/ Orders(s)
  PROVE  /\ UNCHANGED <<id, login, quiet, threads>> /\ Lookup
         /\ \A w \in Sessions \ {s} : pc'[w] = pc[w]
         /\ Serving(s) /\ Settled(s) /\ Settled(s)'
         /\ pc'[s] \in {"ready", "notify", "put", "view", "closed"}
<1> USE DEF Settled, Serving, Busy
<1>1. CASE Works(s) BY <1>1, WorksFrame, WorksLookUp
<1>2. CASE ViewMessage(s) \/ Orders(s) BY <1>2, StartsFrame DEF Lookup, activeVars
<1> QED BY <1>1, <1>2

(* A provider has one id from its login on, and a client logs in once.     *)
LEMMA IdsStay ==
  ASSUME TypeInv, IdsInv, [Next]_vars, NEW w \in Sessions
  PROVE  /\ Settled(w) => Settled(w)' /\ id'[w] = id[w]
         /\ id'[w] = id[w] \/ id[w] = Zero
         /\ login[w] # Null => login'[w] = login[w]
<1> DEFINE Goal == /\ Settled(w) => Settled(w)' /\ id'[w] = id[w]
                   /\ id'[w] = id[w] \/ id[w] = Zero
                   /\ login[w] # Null => login'[w] = login[w]
<1>1. TypeOK BY DEF TypeInv
<1>2. ASSUME UNCHANGED vars PROVE Goal BY <1>2 DEF vars, Settled
<1>3. ASSUME NEW s \in Sessions, Works(s) \/ ViewMessage(s) \/ Orders(s) PROVE Goal
  BY <1>1, <1>3, CommandsKeepIds DEF Settled
<1>4. ASSUME NEW s \in Sessions, Visits(s) PROVE Goal
  <2>1. CASE w # s BY <1>1, <1>4, <2>1, VisitsFrame DEF Settled
  <2>2. CASE w = s
    BY <1>1, <1>4, <2>2 DEF Visits, Connect, Enter, SetId, Logout, Leave, Abandon, Login, Goto,
       IdsInv, Settled, TypeOK
  <2> QED BY <2>1, <2>2
<1> HIDE DEF Goal
<1>5. Goal BY Steps, <1>2, <1>3, <1>4
<1> QED BY <1>5 DEF Goal

LEMMA IdsStep ==
  ASSUME TypeInv, IdsInv, [Next]_vars PROVE IdsInv'
<1>1. TypeOK BY DEF TypeInv
<1>2. \A u \in active' : \E z \in Sessions : login'[z] = u
  <2> TAKE u \in active'
  <2>1. PICK z \in Sessions : login[z] = u
    <3>1. u \in active \/ \E s \in Sessions : pc[s] = "entering" /\ u = login[s] BY ActiveType
    <3> QED BY <3>1 DEF IdsInv
  <2>2. u # Null BY ActiveType, MailboxAssumption
  <2> QED BY <2>1, <2>2, IdsStay
<1>3. ASSUME NEW w \in Sessions
      PROVE  /\ ~Settled(w)' => id'[w] = Zero
             /\ pc'[w] \in {"free", "connected"} => login'[w] = Null
  <2> DEFINE Goal == /\ ~Settled(w)' => id'[w] = Zero
                     /\ pc'[w] \in {"free", "connected"} => login'[w] = Null
  <2>0. /\ ~Settled(w) => id[w] = Zero
        /\ pc[w] \in {"free", "connected"} => login[w] = Null
    BY DEF IdsInv
  <2>1. ASSUME UNCHANGED vars PROVE Goal BY <2>0, <2>1 DEF vars, Settled
  <2>2. ASSUME NEW s \in Sessions, Works(s) \/ ViewMessage(s) \/ Orders(s) PROVE Goal
    BY <1>1, <2>0, <2>2, CommandsKeepIds DEF Settled
  <2>3. ASSUME NEW s \in Sessions, Visits(s) PROVE Goal
    <3>1. CASE w # s BY <1>1, <2>0, <2>3, <3>1, VisitsFrame DEF Settled
    <3>2. CASE w = s
      BY <1>1, <2>0, <2>3, <3>2 DEF Visits, Connect, Enter, SetId, Logout, Leave, Abandon, Login,
         Goto, Settled, TypeOK
    <3> QED BY <3>1, <3>2
  <2> QED BY Steps, <2>1, <2>2, <2>3
<1> QED BY <1>2, <1>3 DEF IdsInv

LEMMA FitStays ==
  ASSUME TypeInv, IdsInv, [Next]_vars, NEW t \in Sessions, NEW m \in Messages, Fit(t, m)
  PROVE  Fit(t, m)'
<1>1. m.from \in Sessions /\ m.to \in Users \cup {Zero, Null} BY DEF Messages
<1>2. ASSUME ZeroLogsIn PROVE ZeroLogsIn'
  BY <1>2, IdsStay, MailboxAssumption DEF ZeroLogsIn
<1>3. CASE m.kind = "request" BY <1>1, <1>2, <1>3, IdsStay DEF Fit
<1>4. CASE m.kind # "request" BY <1>1, <1>4, IdsStay DEF Fit
<1> QED BY <1>3, <1>4

(* The test of notifyAll and notifyRequestSender, made as a message is     *)
(* about to be written.                                                    *)
LEMMA AddressedFit ==
  ASSUME TypeInv, IdsInv, [Next]_vars, NEW t \in Sessions, NEW m \in Addressed(t)'
  PROVE  m \in Addressed(t) \/ (m \in Messages /\ Fit(t, m))
<1>1. TypeOK BY DEF TypeInv
<1>2. PICK s \in Sessions : pc'[s] = "put" /\ threads'[index'[s]] = t /\ m = job'[s]
  BY DEF Addressed
<1>3. CASE Notify(s)
  <2>1. /\ t \in Sessions /\ threads[index[s]] = t /\ m = job[s] /\ Meant(s, t)
        /\ m.kind = "request" => Finds(id[t])
        /\ index[s] <= Len(threads) /\ pc[s] = "notify"
    <3>1. StartPut(s, threads[index[s]]) /\ pc[s] = "notify"
      <4>1. pc[s] = "notify" /\ (StartPut(s, threads[index[s]]) \/ pc' = pc) BY <1>3 DEF Notify
      <4> QED BY <1>2, <4>1
    <3>2. index' = index /\ UNCHANGED <<threads, job>> BY <1>3, <3>1 DEF Notify, StartPut
    <3>3. index'[s] # index[s] + 1
      <4>1. index[s] \in Nat /\ index'[s] = index[s] BY <1>1, <3>2 DEF TypeOK
      <4> QED BY <4>1
    <3>4. /\ Meant(s, threads[index[s]])
          /\ IF job[s].kind = "request" THEN Finds(id[threads[index[s]]]) ELSE UNCHANGED activeVars
      BY <1>1, <1>3, <3>3 DEF Notify, TypeOK
    <3> QED BY <1>2, <1>3, <3>1, <3>2, <3>4 DEF Notify
  <2>2. m \in Messages /\ m.from = s BY <1>3, <2>1, TargetType
  <2>3. CASE m.kind = "request"
    <3>1. id[t] # id[m.from] BY <2>1, <2>2, <2>3 DEF Meant
    <3>2. Settled(s) BY <2>1 DEF Settled
    <3>3. \E z \in Sessions : login[z] = id[t] BY <2>1, <2>3 DEF Finds, Typed, IdsInv
    <3>4. Settled(t) \/ ZeroLogsIn BY <3>3 DEF IdsInv, ZeroLogsIn
    <3> QED BY <2>2, <2>3, <3>1, <3>2, <3>4 DEF Fit
  <2>4. CASE m.kind # "request" BY <2>1, <2>2, <2>4 DEF Meant, Fit
  <2> QED BY <2>3, <2>4
<1>4. CASE pc[s] = "put" /\ job'[s] = job[s] /\ index'[s] = index[s]
  <2>1. index[s] \in 1..Len(threads) BY <1>4, TargetType DEF TypeInv, JobsInv, InHand
  <2>2. threads[index[s]] = t BY <1>2, <1>4, <2>1, ThreadsGrow
  <2> QED BY <1>2, <1>4, <2>2 DEF Addressed
<1>5. ASSUME NEW w \in Sessions, w # s, Works(w) \/ Visits(w) \/ ViewMessage(w) \/ Orders(w)
      PROVE  pc[s] = "put" /\ job'[s] = job[s] /\ index'[s] = index[s]
  BY <1>1, <1>2, <1>5, WorksFrame, VisitsFrame, StartsFrame
<1>6. ASSUME Works(s) \/ Visits(s) \/ ViewMessage(s) \/ Orders(s) PROVE Notify(s)
  <2>1. Works(s) BY <1>1, <1>2, <1>6, VisitsFrame, StartsFrame
  <2>2. ~Put(s) /\ ~PutThrows(s) /\ ~EndNotify(s) /\ ~ViewSlot(s) /\ ~ViewThrows(s) /\ ~ViewEnd(s)
    BY <1>1, <1>2 DEF Put, PutThrows, EndNotify, ViewSlot, ViewThrows, ViewEnd, Goto, TypeOK
  <2> QED BY <2>1, <2>2 DEF Works
<1>7. CASE UNCHANGED vars
  <2>1. UNCHANGED <<pc, job, index>> BY <1>7 DEF vars
  <2> QED BY <1>2, <1>4, <2>1
<1> QED BY Steps, <1>3, <1>4, <1>5, <1>6, <1>7

LEMMA AddressedStep ==
  ASSUME AddressedInv, [Next]_vars PROVE AddressedInv'
<1> USE DEF AddressedInv
<1>1. TypeInv' /\ IdsInv' BY TypeInvStep, IdsStep
<1>2. ASSUME NEW t \in Sessions, NEW m \in (Delivered(t) \cup Addressed(t))'
      PROVE  m \in Messages /\ Fit(t, m)
  BY DeliveredGrows, AddressedFit
<1> QED BY <1>1, <1>2, FitStays

(* A request never reaches the user who sent it, nor an answer anyone but  *)
(* its addressee, for any number of sessions, users and messages: the only *)
(* id two providers can have as a message is sent is 0.                    *)
THEOREM OnlyTheAddressed == Spec => []OnlyAddressed
<1>1. ASSUME Init PROVE AddressedInv
  <2>1. TypeInv BY <1>1, TypeInit
  <2>2. IdsInv BY <1>1 DEF Init, IdsInv, Settled
  <2>3. \A t \in Sessions, i \in Nat : Slot(box[t], i) = Null BY <1>1 DEF Init, Slot, EmptyList
  <2>4. \A t \in Sessions : Collected(t) = {} /\ Shown(t) = {} /\ Stored(t) \subseteq {Null}
    BY <1>1, <2>3 DEF Init, Collected, Shown, Stored
  <2>5. \A t \in Sessions : Addressed(t) = {} BY <1>1 DEF Init, Addressed
  <2> QED BY <2>1, <2>2, <2>4, <2>5 DEF AddressedInv, Delivered
<1>2. AddressedInv /\ [Next]_vars => AddressedInv' BY AddressedStep
<1>3. AddressedInv => OnlyAddressed
  BY DEF AddressedInv, OnlyAddressed, Delivered, Fit, ZeroLogsIn
<1> QED BY <1>1, <1>2, <1>3, PTL DEF Spec

-----------------------------------------------------------------------------
(* Nothing is lost when commands do not overlap. *)

LEMMA LoginsStep ==
  ASSUME TypeInv, LoginsInv, [Next]_vars PROVE LoginsInv'
<1>1. TypeOK BY DEF TypeInv
<1>2. ASSUME NEW w \in Sessions, (Serving(w) \/ pc[w] = "leaving")' PROVE id'[w] = login'[w]
  <2> DEFINE Was == Serving(w) \/ pc[w] = "leaving"
  <2>1. Was => id[w] = login[w] BY DEF LoginsInv
  <2>2. ASSUME UNCHANGED vars PROVE id'[w] = login'[w]
    BY <1>2, <2>1, <2>2 DEF vars, Serving, Busy
  <2>3. ASSUME NEW s \in Sessions, Works(s) \/ ViewMessage(s) \/ Orders(s)
        PROVE  id'[w] = login'[w]
    <3>1. Was BY <1>1, <1>2, <2>3, CommandsKeepIds DEF Serving, Busy
    <3> QED BY <1>1, <2>1, <2>3, <3>1, CommandsKeepIds
  <2>4. ASSUME NEW s \in Sessions, Visits(s) PROVE id'[w] = login'[w]
    <3>1. CASE w # s
      <4>1. pc'[w] = pc[w] /\ login'[w] = login[w] /\ id'[w] = id[w] BY <1>1, <2>4, <3>1, VisitsFrame
      <4> QED BY <1>2, <2>1, <4>1 DEF Serving, Busy
    <3>2. CASE w = s
      BY <1>1, <1>2, <2>1, <2>4, <3>2 DEF Visits, Connect, Enter, SetId, Logout, Leave, Abandon,
         Login, Goto, Serving, Busy, TypeOK
    <3> QED BY <3>1, <3>2
  <2> QED BY Steps, <2>2, <2>3, <2>4
<1>3. ASSUME ~raced' PROVE ActiveInv'
  <2>1. ActiveInv /\ ~raced BY <1>3, ActiveType DEF LoginsInv
  <2>2. ASSUME active' = active,
               \A w \in Sessions : LogsIn(w)' => LogsIn(w) /\ login'[w] = login[w],
               \A w \in Sessions : pc'[w] = "entering" =>
                 pc[w] = "entering" /\ login'[w] = login[w]
        PROVE  ActiveInv'
    <3> HIDE DEF LogsIn
    <3> QED BY <2>1, <2>2 DEF ActiveInv
  <2>3. CASE UNCHANGED vars
    <3>1. UNCHANGED <<active, pc, login>> BY <2>3 DEF vars, activeVars
    <3> QED BY <2>2, <3>1 DEF LogsIn, Serving, Busy
  <2>4. ASSUME NEW s \in Sessions, Works(s) \/ ViewMessage(s) \/ Orders(s) PROVE ActiveInv'
    <3>1. /\ active' = active /\ login' = login /\ LogsIn(s) /\ pc'[s] # "entering"
          /\ \A w \in Sessions \ {s} : pc'[w] = pc[w]
      BY <1>1, <1>3, <2>4, CommandsKeepIds DEF Lookup, activeVars, LogsIn
    <3> QED BY <2>2, <3>1 DEF LogsIn, Serving, Busy
  <2>5. ASSUME NEW s \in Sessions, Connect(s) \/ SetId(s) \/ Logout(s) \/ Abandon(s)
        PROVE  ActiveInv'
    <3>1. active' = active /\ login' = login
      BY <2>5 DEF Connect, SetId, Logout, Abandon, activeVars
    <3>2. \A w \in Sessions : (LogsIn(w)' => LogsIn(w)) /\ (pc'[w] = "entering" => pc[w] = "entering")
      BY <1>1, <2>5 DEF Connect, SetId, Logout, Abandon, Goto, TypeOK, LogsIn, Serving, Busy
    <3> QED BY <2>2, <3>1, <3>2
  <2>6. ASSUME NEW s \in Sessions, NEW u \in Users, Login(s, u) PROVE ActiveInv'
    <3>1. CASE Finds(u) /\ Goto(s, "closed") /\ UNCHANGED login
      <4>1. active' = active /\ login' = login BY <3>1 DEF Finds, activeVars
      <4>2. \A w \in Sessions : (LogsIn(w)' => LogsIn(w)) /\ (pc'[w] = "entering" => pc[w] = "entering")
        BY <1>1, <3>1 DEF Goto, TypeOK, LogsIn, Serving, Busy
      <4> QED BY <2>2, <4>1, <4>2
    <3>2. CASE Misses(u) /\ Goto(s, "entering") /\ login' = [login EXCEPT ![s] = u]
      <4>1. active' = active /\ u \notin active BY <1>3, <3>2 DEF Misses
      <4>2. /\ pc'[s] = "entering" /\ login'[s] = u
            /\ \A w \in Sessions \ {s} : pc'[w] = pc[w] /\ login'[w] = login[w]
        BY <1>1, <3>2 DEF Goto, TypeOK
      <4>3. ~LogsIn(s)' /\ \A w \in Sessions \ {s} : LogsIn(w)' = LogsIn(w)
        BY <4>2 DEF LogsIn, Serving, Busy
      <4> HIDE DEF LogsIn
      <4> QED BY <2>1, <4>1, <4>2, <4>3 DEF ActiveInv
    <3> QED BY <2>6, <3>1, <3>2 DEF Login
  <2>7. ASSUME NEW s \in Sessions, Enter(s) \/ Leave(s) PROVE ActiveInv'
    <3>1. /\ active' = IF pc[s] = "entering" THEN active \cup {login[s]} ELSE active \ {id[s]}
          /\ \A w \in Sessions \ {s} : ~Changing(w)
      BY <1>3, <2>7 DEF Enter, Leave, Change
    <3>2. /\ login' = login /\ pc[s] \in {"entering", "leaving"}
          /\ pc[s] = "leaving" => pc'[s] = "closed" /\ id[s] = login[s]
          /\ pc'[s] \in {"naming", "closed"}
      BY <1>1, <2>7 DEF Enter, Leave, Goto, TypeOK, LoginsInv
    <3>3. \A w \in Sessions \ {s} : pc'[w] = pc[w] BY <1>1, <2>7 DEF Enter, Leave, Goto, TypeOK
    <3>4. /\ \A w \in Sessions \ {s} : LogsIn(w)' = LogsIn(w) /\ pc'[w] # "entering"
          /\ pc[s] = "leaving" => LogsIn(s) /\ ~LogsIn(s)'
      BY <3>1, <3>2, <3>3 DEF LogsIn, Serving, Busy, Changing
    <3> HIDE DEF LogsIn
    <3>5. CASE pc[s] = "entering"
      <4>1. active' = active \cup {login[s]} /\ login[s] \notin active BY <2>1, <3>1, <3>5 DEF ActiveInv
      <4> QED BY <2>1, <3>2, <3>4, <4>1 DEF ActiveInv
    <3>6. CASE pc[s] = "leaving"
      <4>1. active' = active \ {login[s]} BY <3>1, <3>2, <3>6
      <4> QED BY <2>1, <3>2, <3>4, <3>6, <4>1 DEF ActiveInv
    <3> QED BY <3>2, <3>5, <3>6
  <2> QED BY Steps, <2>3, <2>4, <2>5, <2>6, <2>7 DEF Visits
<1> QED BY <1>2, <1>3 DEF LoginsInv

(* What a session does that is not busy, or starts to be. *)
LEMMA IdleStep ==
  ASSUME TypeInv, quiet, AloneInv, NEW s \in Sessions, Visits(s) \/ ViewMessage(s) \/ Orders(s)
  PROVE  /\ UNCHANGED <<box, seen, shown, size, held>> /\ pc'[s] # "put" /\ ~Busy(s)
         /\ \A w \in Sessions : w # s => pc'[w] = pc[w] /\ index'[w] = index[w]
         /\ Busy(s)' => \A w \in Sessions : ~Busy(w)
         /\ pc'[s] = "view" => seen[s] = <<>>
<1>1. TypeOK /\ InHand(s) BY DEF TypeInv, JobsInv
<1>2. CASE Visits(s) BY <1>1, <1>2, VisitsFrame DEF Busy
<1>3. CASE ViewMessage(s) \/ Orders(s)
  <2>1. /\ UNCHANGED <<box, seen, shown, size, held>> /\ pc[s] = "ready" /\ MayStart
        /\ pc'[s] \in {"notify", "view"}
        /\ \A w \in Sessions \ {s} : pc'[w] = pc[w] /\ index'[w] = index[w]
    BY <1>1, <1>3, StartsFrame
  <2> QED BY <1>1, <2>1 DEF MayStart, Busy, InHand
<1> QED BY <1>2, <1>3

(* One thread at most uses the lists; so the size it has read is still     *)
(* that of the list when it writes, and the list is the messageArray still;*)
(* and what it has collected is still in the list while it reads on.       *)
LEMMA AloneStep ==
  ASSUME TypeInv, TypeInv', quiet, AloneInv, [Next]_vars PROVE AloneInv'
<1>1. TypeOK BY DEF TypeInv
<1> DEFINE AtHand(w) == size[w] = box[threads[index[w]]].size
<1>2. CASE UNCHANGED vars
  BY <1>2 DEF vars, AloneInv, Busy
<1>3. ASSUME NEW s \in Sessions, pc[s] = "put"
      PROVE  threads'[index[s]] = threads[index[s]]
  <2>1. index[s] \in 1..Len(threads)
    BY <1>3, TargetType DEF TypeInv, JobsInv, InHand
  <2> QED BY <2>1, ThreadsGrow
<1>4. ASSUME NEW s \in Sessions, Visits(s) \/ ViewMessage(s) \/ Orders(s)
      PROVE  AloneInv'
  <2>1. /\ UNCHANGED <<box, seen, shown, size, held>> /\ pc'[s] # "put" /\ ~Busy(s)
        /\ \A w \in Sessions : w # s => pc'[w] = pc[w] /\ index'[w] = index[w]
        /\ Busy(s)' => \A w \in Sessions : ~Busy(w)
        /\ pc'[s] = "view" => seen[s] = <<>>
    BY <1>4, IdleStep
  <2>2. \A w \in Sessions : held'[w] = "current" /\ (pc'[w] = "put" => AtHand(w)')
    <3>0. \A w \in Sessions : held'[w] = "current" BY <2>1 DEF AloneInv
    <3> SUFFICES ASSUME NEW w \in Sessions, pc'[w] = "put" PROVE AtHand(w)'
      BY <3>0
    <3>1. w # s /\ pc[w] = "put" /\ index'[w] = index[w] BY <2>1
    <3>2. AtHand(w) BY <3>1 DEF AloneInv
    <3> QED BY <1>3, <2>1, <3>1, <3>2
  <2>3. \A w, x \in Sessions : Busy(w)' /\ Busy(x)' => w = x
    BY <2>1 DEF AloneInv, Busy
  <2>4. \A w \in Sessions : pc'[w] = "view" => \A i \in 1..Len(seen'[w]) : seen'[w][i] = Slot(box'[w], i)
    <3>1. Len(<<>>) = 0 OBVIOUS
    <3> QED BY <2>1, <3>1 DEF AloneInv
  <2> QED BY <2>2, <2>3, <2>4 DEF AloneInv
<1>5. ASSUME NEW s \in Sessions, Works(s) PROVE AloneInv'
  <2>1. Busy(s) /\ \A w \in Sessions : w # s => ~Busy(w) /\ ~Busy(w)' /\ pc'[w] = pc[w]
    <3>1. Busy(s) /\ \A w \in Sessions : w # s => pc'[w] = pc[w] BY <1>1, <1>5, WorksFrame
    <3>2. \A w \in Sessions : w # s => ~Busy(w) BY <3>1 DEF AloneInv
    <3> QED BY <3>1, <3>2 DEF Busy
  <2>2. pc'[s] = "put" => AtHand(s)'
    <3> SUFFICES ASSUME pc'[s] = "put" PROVE AtHand(s)'
      OBVIOUS
    <3>1. Notify(s)
      BY <1>1, <1>5 DEF Works, Put, PutThrows, EndNotify, ViewSlot, ViewThrows, ViewEnd, Goto, TypeOK
    <3>2. pc[s] = "notify" /\ UNCHANGED <<box, threads, held>> BY <3>1 DEF Notify
    <3>3. StartPut(s, threads[index[s]]) BY <3>1, <3>2 DEF Notify
    <3>4. index' = index /\ size'[s] = box[threads[index[s]]].size BY <1>1, <3>3 DEF StartPut, TypeOK
    <3> QED BY <3>2, <3>4
  <2>3. pc'[s] = "view" => \A i \in 1..Len(seen'[s]) : seen'[s][i] = Slot(box'[s], i)
    <3> SUFFICES ASSUME pc'[s] = "view" PROVE \A i \in 1..Len(seen'[s]) : seen'[s][i] = Slot(box'[s], i)
      OBVIOUS
    <3>1. ViewSlot(s) /\ pc[s] = "view"
      <4>1. CASE Notify(s) BY <1>1, <4>1 DEF Notify, StartPut, Goto, TypeOK
      <4>2. CASE ~Notify(s)
        BY <1>1, <1>5, <4>2 DEF Works, Put, PutThrows, EndNotify, ViewSlot, ViewThrows, ViewEnd,
           Goto, TypeOK
      <4> QED BY <4>1, <4>2
    <3>2. \A i \in 1..Len(seen[s]) : seen[s][i] = Slot(box[s], i) BY <3>1 DEF AloneInv
    <3>3. /\ UNCHANGED box /\ index[s] = Len(seen[s]) + 1 /\ index[s] \in Nat /\ Len(seen[s]) \in Nat
          /\ Len(seen'[s]) = index[s] /\ seen'[s][index[s]] = Slot(box[s], index[s])
          /\ \A i \in 1..Len(seen[s]) : seen'[s][i] = seen[s][i]
      BY <3>1, ViewSlotReads
    <3>4. \A i \in 1..Len(seen'[s]) : i \in 1..Len(seen[s]) \/ i = index[s] BY <3>3
    <3> QED BY <3>2, <3>3, <3>4
  <2>4. \A w \in Sessions : held'[w] = "current"
    <3>1. \A w \in Sessions : held[w] = "current" BY DEF AloneInv
    <3>2. ASSUME ViewEnd(s) PROVE held' = held
      <4>1. \A w \in Sessions : ~WritesTo(w, s) BY <2>1, <3>2 DEF ViewEnd, WritesTo, Busy
      <4> QED BY <1>1, <3>2, <4>1 DEF ViewEnd, Outdate, TypeOK
    <3>3. ASSUME PutThrows(s) PROVE \A w \in Sessions : held'[w] = "current"
      BY <1>1, <3>1, <3>3 DEF PutThrows, TypeOK
    <3>4. ASSUME Put(s) PROVE held' = held BY <3>1, <3>4 DEF Put
    <3>5. ASSUME Notify(s) \/ EndNotify(s) \/ ViewSlot(s) \/ ViewThrows(s) PROVE held' = held
      BY <3>5 DEF Notify, EndNotify, ViewSlot, ViewThrows
    <3> QED BY <1>5, <3>1, <3>2, <3>3, <3>4, <3>5 DEF Works
  <2>5. \A w \in Sessions \ {s} : ~Busy(w)' BY <2>1
  <2> QED BY <2>2, <2>3, <2>4, <2>5 DEF AloneInv, Busy
<1> QED BY Steps, <1>2, <1>4, <1>5

LEMMA BoxType ==
  ASSUME TypeOK, NEW t \in Sessions PROVE box[t] \in Lists(Messages) /\ box[t].size \in Nat
<1>1. box[t] \in Lists(Messages) /\ box[t].size >= 0 BY DEF TypeOK
<1> QED BY <1>1 DEF Lists

(* A stored message stays, until it is shown or the session ends. *)
LEMMA KeptStays ==
  ASSUME TypeInv, quiet, AloneInv, [Next]_vars, NEW t \in Sessions, NEW m,
         Kept(t, m), Serving(t)'
  PROVE  Kept(t, m)'
<1>1. TypeOK BY DEF TypeInv
<1> DEFINE Goal == m \in Members(box[t])' \cup Collected(t)' \cup Shown(t)'
<1> SUFFICES Goal BY DEF Kept
<1>2. ASSUME box'[t] = box[t], seen'[t] = seen[t], shown'[t] = shown[t] PROVE Goal
  BY <1>2 DEF Kept, Members, Visible, Collected, Shown
<1>3. ASSUME NEW s \in Sessions, Put(s) PROVE Goal
  <2>1. /\ UNCHANGED <<seen, shown>> /\ size[s] = box[threads[index[s]]].size
        /\ \E list \in Added(box[threads[index[s]]], size[s], job[s]) :
             box' = [box EXCEPT ![threads[index[s]]] = list]
    BY <1>3 DEF Put, AloneInv, viewVars
  <2>2. CASE t # threads[index[s]] BY <1>1, <1>2, <2>1, <2>2 DEF TypeOK
  <2>3. CASE t = threads[index[s]]
    <3>1. box'[t] \in Added(box[t], box[t].size, job[s])
      BY <1>1, <2>1, <2>3 DEF TypeOK
    <3>2. Members(box'[t]) = Members(box[t]) \cup {job[s]} BY <1>1, <3>1, BoxType, AddAlone
    <3>3. Collected(t)' = Collected(t) /\ Shown(t)' = Shown(t) BY <2>1 DEF Collected, Shown
    <3> QED BY <3>2, <3>3 DEF Kept
  <2> QED BY <2>2, <2>3
<1>4. ASSUME NEW s \in Sessions, ViewSlot(s) PROVE Goal
  <2>1. CASE t # s BY <1>2, <1>4, <2>1, ViewSlotReads
  <2>2. CASE t = s
    <3>1. /\ UNCHANGED <<box, shown>> /\ Len(seen'[t]) = Len(seen[t]) + 1 /\ Len(seen[t]) \in Nat
          /\ \A i \in 1..Len(seen[t]) : seen'[t][i] = seen[t][i]
          /\ DOMAIN seen[t] = 1..Len(seen[t]) /\ DOMAIN seen'[t] = 1..Len(seen'[t])
      BY <1>4, <2>2, ViewSlotReads
    <3>2. Collected(t) \subseteq Collected(t)' BY <3>1 DEF Collected
    <3>3. Members(box'[t]) = Members(box[t]) /\ Shown(t)' = Shown(t) BY <3>1 DEF Shown
    <3> QED BY <3>2, <3>3 DEF Kept
  <2> QED BY <2>1, <2>2
<1>5. ASSUME NEW s \in Sessions, ViewEnd(s) PROVE Goal
  <2>1. CASE t # s BY <1>2, <1>5, <2>1, ViewEndEmpties
  <2>2. CASE t = s
    <3> DEFINE q == shown[t]
               r == seen[t]
    <3>1. shown'[t] = q \o r
      BY <1>1, <1>5, <2>2 DEF ViewEnd, Goto, Serving, Busy, TypeOK
    <3>2. q \in Seq(Messages \cup {Null}) /\ r \in Seq(Messages \cup {Null}) BY <1>1 DEF TypeOK
    <3>3. Members(box[t]) \subseteq Collected(t)
      <4>1. /\ index[t] = Len(r) + 1 /\ index[t] > box[t].size /\ box[t].size \in Nat
            /\ index[t] \in Nat /\ \A i \in 1..Len(r) : r[i] = Slot(box[t], i)
        BY <1>1, <1>5, <2>2, BoxType DEF ViewEnd, TypeInv, JobsInv, InHand, AloneInv, TypeOK
      <4>2. DOMAIN r = 1..Len(r) /\ Len(r) \in Nat BY <3>2
      <4>3. \A i \in 1..box[t].size : i \in DOMAIN r BY <4>1, <4>2
      <4> QED BY <4>1, <4>2, <4>3 DEF Members, Visible, Collected
    <3>4. Shown(t) \cup Collected(t) \subseteq Shown(t)'
      <4> HIDE DEF q, r
      <4>1. /\ Len(q \o r) = Len(q) + Len(r) /\ Len(q) \in Nat /\ Len(r) \in Nat
            /\ DOMAIN (q \o r) = 1..Len(q \o r) /\ DOMAIN q = 1..Len(q) /\ DOMAIN r = 1..Len(r)
        BY <3>2
      <4>2. \A i \in 1..Len(q) : i \in 1..Len(q \o r) /\ (q \o r)[i] = q[i] BY <3>2, <4>1, ConcatProperties
      <4>3. \A i \in 1..Len(r) : i + Len(q) \in 1..Len(q \o r) /\ (q \o r)[i + Len(q)] = r[i]
        <5> TAKE i \in 1..Len(r)
        <5>1. i + Len(q) \in 1..Len(q \o r) /\ ~(i + Len(q) <= Len(q)) /\ (i + Len(q)) - Len(q) = i BY <4>1
        <5> QED BY <3>2, <5>1, ConcatProperties
      <4> QED BY <3>1, <4>1, <4>2, <4>3 DEF Shown, Collected, q, r
    <3> QED BY <3>3, <3>4 DEF Kept
  <2> QED BY <2>1, <2>2
<1>6. ASSUME NEW s \in Sessions, ViewThrows(s) PROVE Goal
  <2>1. t # s BY <1>1, <1>6 DEF ViewThrows, Goto, TypeOK, Serving, Busy
  <2> QED BY <1>2, <1>6, <2>1, ViewThrowsDrops
<1>7. CASE ~ \E s \in Sessions : Moves(s) BY <1>2, <1>7, StayPut
<1> QED BY <1>3, <1>4, <1>5, <1>6, <1>7 DEF Moves

(* The loop does not leave out a session that should have the message: it  *)
(* passes it only by writing to its list.                                  *)
LEMMA Reached ==
  ASSUME TypeInv, TypeInv', LoginsInv, quiet, AloneInv, [Next]_vars, ~raced',
         NEW t \in Sessions, NEW m \in Messages,
         Serving(t), Sending(m), ~Passed(m.from, t), Wanted(t, m),
         (Sending(m) => Passed(m.from, t))'
  PROVE  Put(m.from) /\ threads[index[m.from]] = t
<1>1. TypeOK BY DEF TypeInv
<1>2. PICK w \in Sessions : w = m.from BY DEF Messages
<1>3. Sends(w) /\ job[w] = m /\ index[w] \in Nat /\ index[w] > 0 /\ Busy(w)
  BY <1>1, <1>2 DEF Sending, Sends, Busy, TypeOK, TypeInv, JobsInv, InHand, JobOf
<1>4. PICK j \in 1..Len(threads) : threads[j] = t
  BY DEF TypeInv, ThreadsInv, Held, Serving, Busy
<1>5. Len(threads) \in Nat /\ Len(threads') \in Nat /\ Len(threads) <= Len(threads')
      /\ j \in 1..Len(threads') /\ threads'[j] = t /\ j >= index[w]
  BY <1>2, <1>3, <1>4, ThreadsGrow DEF Passed
<1>6. ASSUME Passed(w, t)' PROVE j < index'[w]
  BY <1>5, <1>6 DEF Passed, TypeInv, ThreadsInv, NoRepeats
<1>7. Sending(m)' => j < index'[w] BY <1>2, <1>6
<1>8. ASSUME pc'[w] = pc[w], job'[w] = job[w], index'[w] = index[w] PROVE FALSE
  BY <1>2, <1>3, <1>5, <1>7, <1>8 DEF Sending, Sends
<1>9. ~Notify(w)
  <2> SUFFICES ASSUME Notify(w) PROVE FALSE OBVIOUS
  <2>0. pc[w] = "notify" /\ index[w] <= Len(threads) /\ job' = job BY DEF Notify
  <2>1. Sending(m)'
    <3>1. pc' = pc \/ pc' = [pc EXCEPT ![w] = "put"] BY DEF Notify, StartPut, Goto
    <3> QED BY <1>1, <1>2, <1>3, <2>0, <3>1 DEF Sending, Sends, TypeOK
  <2>2. /\ index'[w] = index[w] + 1
        /\ IF Meant(w, threads[index[w]]) THEN job[w].kind = "request" /\ Misses(id[threads[index[w]]])
                                          ELSE UNCHANGED activeVars
    <3>1. index' # index BY <1>3, <1>5, <1>7, <2>1
    <3> QED BY <1>1, <3>1 DEF Notify, StartPut, TypeOK
  <2>3. j = index[w] BY <1>3, <1>5, <1>7, <2>1, <2>2
  <2>4. ActiveInv /\ id[t] = login[t] BY ActiveType DEF LoginsInv
  <2>5. id[t] \in active BY <2>4 DEF ActiveInv, LogsIn
  <2>6. Meant(w, t) BY <1>2, <1>3 DEF Meant, Wanted
  <2>7. Misses(id[t]) BY <1>4, <2>2, <2>3, <2>6
  <2> QED BY <2>5, <2>7 DEF Misses
<1>10. ASSUME Put(w) PROVE threads[index[w]] = t
  <2>1. Sending(m)' /\ index'[w] = index[w] + 1
    BY <1>1, <1>2, <1>3, <1>10 DEF Put, Sending, Sends, TypeOK, Goto
  <2>2. j = index[w] BY <1>3, <1>5, <1>7, <2>1
  <2> QED BY <1>4, <2>2
<1>11. ~PutThrows(w)
  <2> SUFFICES ASSUME PutThrows(w) PROVE FALSE OBVIOUS
  <2>1. pc[w] = "put" /\ held[w] = "current" /\ size[w] = box[threads[index[w]]].size
    BY DEF PutThrows, AloneInv
  <2>2. AddMayThrow(box[threads[index[w]]], size[w]) BY <2>1 DEF PutThrows
  <2>3. size[w] \in Nat BY <1>1 DEF TypeOK
  <2> QED BY <2>1, <2>2, <2>3 DEF AddMayThrow, Outgrown
<1>12. ~EndNotify(w)
  <2>1. index[w] <= Len(threads) BY <1>3, <1>4, <1>5
  <2>2. Len(threads) \in Nat BY <1>5
  <2>3. EndNotify(w) => index[w] > Len(threads) BY Zenon DEF EndNotify
  <2>4. ~(index[w] > Len(threads)) BY <1>3, <2>1, <2>2
  <2> QED BY <2>3, <2>4
<1>13. ~UNCHANGED vars
  <2>1. UNCHANGED vars => UNCHANGED <<pc, job, index>> BY DEF vars
  <2> QED BY <1>8, <2>1
<1>14. ASSUME NEW s \in Sessions, Works(s) \/ Visits(s) \/ ViewMessage(s) \/ Orders(s)
       PROVE  Put(w)
  <2>1. w = s
    <3> SUFFICES ASSUME w # s PROVE FALSE OBVIOUS
    <3>1. pc'[w] = pc[w] /\ job'[w] = job[w] /\ index'[w] = index[w]
      BY <1>1, <1>14, WorksFrame, VisitsFrame, StartsFrame
    <3> QED BY <1>8, <3>1
  <2>2. Works(w) BY <1>1, <1>3, <1>14, <2>1, VisitsFrame, StartsFrame DEF Busy
  <2>3. ~ViewSlot(w) /\ ~ViewThrows(w) /\ ~ViewEnd(w) BY <1>3 DEF Sends, ViewSlot, ViewThrows, ViewEnd
  <2> QED BY <1>9, <1>11, <1>12, <2>2, <2>3 DEF Works
<1> QED BY Steps, <1>2, <1>10, <1>13, <1>14

LEMMA ServedBefore ==
  ASSUME TypeInv, [Next]_vars, NEW t \in Sessions, Settled(t), Serving(t)'
  PROVE  Serving(t)
<1>1. TypeOK BY DEF TypeInv
<1>2. CASE UNCHANGED vars BY <1>2 DEF vars, Serving, Busy
<1>3. ASSUME NEW s \in Sessions, Works(s) \/ ViewMessage(s) \/ Orders(s) PROVE Serving(t)
  BY <1>1, <1>3, CommandsKeepIds DEF Serving, Busy
<1>4. ASSUME NEW s \in Sessions, Visits(s) PROVE Serving(t)
  <2>1. CASE t # s BY <1>1, <1>4, <2>1, VisitsFrame DEF Serving, Busy
  <2>2. CASE t = s
    BY <1>1, <1>4, <2>2 DEF Visits, Connect, Enter, SetId, Logout, Leave, Abandon, Login, Goto,
       Settled, Serving, Busy, TypeOK
  <2> QED BY <2>1, <2>2
<1> QED BY Steps, <1>2, <1>3, <1>4

(* A session a message is still owed to. *)
LEMMA OwedStays ==
  ASSUME TypeInv, TypeInv', IdsInv, LoginsInv, quiet, AloneInv, OwedInv, [Next]_vars, ~raced',
         NEW t \in Sessions, NEW m \in Messages, <<t, m>> \in owed, Serving(t)'
  PROVE  IF (Sending(m) /\ ~Passed(m.from, t))' THEN Wanted(t, m)' ELSE Kept(t, m)'
<1>1. Settled(t) /\ m.number <= Count(m) /\ Serving(t) BY ServedBefore DEF OwedInv
<1>2. CASE Sending(m) => Passed(m.from, t)
  <2>1. (Sending(m) => Passed(m.from, t))' BY <1>1, <1>2, PassedStays
  <2>2. Kept(t, m) BY <1>1, <1>2 DEF OwedInv
  <2> QED BY <2>1, <2>2, KeptStays
<1>3. CASE Sending(m) /\ ~Passed(m.from, t)
  <2>1. Wanted(t, m) BY <1>1, <1>3 DEF OwedInv
  <2>2. m.from \in Sessions BY DEF Messages
  <2>3. Wanted(t, m)'
    <3>1. id'[t] = id[t] BY <1>1, IdsStay
    <3>2. Settled(m.from) BY <1>3 DEF Sending, Sends, Settled
    <3>3. id'[m.from] = id[m.from] BY <2>2, <3>2, IdsStay
    <3> QED BY <2>1, <3>1, <3>3 DEF Wanted
  <2>4. ASSUME (Sending(m) => Passed(m.from, t))' PROVE Kept(t, m)'
    <3>0. TypeOK BY DEF TypeInv
    <3>1. PICK s \in Sessions : s = m.from BY <2>2
    <3>2. Put(s) /\ threads[index[s]] = t BY <1>1, <1>3, <2>1, <2>4, <3>1, Reached
    <3>3. held[s] = "current" /\ size[s] = box[t].size BY <3>2 DEF AloneInv, Put
    <3>4. job[s] = m BY <1>3, <3>1 DEF Sending
    <3>5. box'[t] \in Added(box[t], box[t].size, m)
      BY <3>0, <3>2, <3>3, <3>4 DEF Put, TypeOK
    <3>6. Members(box'[t]) = Members(box[t]) \cup {m} BY <3>0, <3>5, BoxType, AddAlone
    <3> QED BY <3>6 DEF Kept
  <2> QED BY <2>3, <2>4
<1> QED BY <1>2, <1>3

LEMMA OwedStep ==
  ASSUME TypeInv, TypeInv', IdsInv, LoginsInv, quiet, AloneInv, OwedInv, [Next]_vars, ~raced'
  PROVE  OwedInv'
<1> SUFFICES ASSUME NEW t \in Sessions, NEW m \in Messages, <<t, m>> \in owed'
             PROVE  /\ Settled(t)' /\ m.number <= Count(m)'
                    /\ Serving(t)' =>
                         IF (Sending(m) /\ ~Passed(m.from, t))' THEN Wanted(t, m)' ELSE Kept(t, m)'
  BY DEF OwedInv
<1>0. TypeOK BY DEF TypeInv
<1>a. Count(m) \in Nat /\ Count(m)' \in Nat /\ Count(m)' >= Count(m) /\ m.number \in Nat
  BY CountGrows DEF TypeInv, Messages
<1>1. CASE <<t, m>> \in owed
  <2>1. Settled(t)' BY <1>1, IdsStay DEF OwedInv
  <2>2. m.number <= Count(m)' BY <1>1, <1>a DEF OwedInv
  <2> QED BY <1>1, <2>1, <2>2, OwedStays
<1>2. CASE <<t, m>> \notin owed
  <2>1. PICK s \in Sessions : Orders(s)
    <3>1. owed' # owed BY <1>2
    <3>2. UNCHANGED vars => owed' = owed BY DEF vars
    <3>3. \A s \in Sessions : Works(s) \/ Visits(s) => owed' = owed BY <1>0, WorksFrame, VisitsFrame
    <3>4. \A s \in Sessions : ViewMessage(s) => owed' = owed BY DEF ViewMessage
    <3> QED BY Steps, <3>1, <3>2, <3>3, <3>4
  <2>2. PICK n \in Messages : NewMessage(s, n) BY <1>0, <2>1, SendsNew
  <2>3. n = m /\ t \in Audience(m) BY <1>2, <2>2 DEF NewMessage, StartSending
  <2>4. /\ m.from = s /\ m.number = Count(m) + 1 /\ Count(m)' = Count(m) + 1
        /\ pc'[s] = "notify" /\ job'[s] = m /\ index'[s] = 1 /\ id' = id
        /\ \A w \in Sessions : w # s => pc'[w] = pc[w]
    BY <1>0, <2>2, <2>3 DEF NewMessage, StartSending, Goto, TypeOK
  <2>5. Settled(t)'
    BY <2>3, <2>4 DEF Audience, Serving, Busy, Settled
  <2>6. (Sending(m) /\ ~Passed(m.from, t))'
    BY <2>4 DEF Sending, Sends, Passed
  <2>7. Wanted(t, m)' BY <2>3, <2>4 DEF Audience, Wanted
  <2> QED BY <1>a, <2>4, <2>5, <2>6, <2>7
<1> QED BY <1>1, <1>2

LEMMA QuietStep ==
  ASSUME QuietInv, [Next]_vars PROVE QuietInv'
<1> USE DEF QuietInv
<1>1. TypeInv' /\ IdsInv' /\ LoginsInv' BY TypeInvStep, IdsStep, LoginsStep
<1>2. quiet' = quiet
  <2>1. TypeOK BY DEF TypeInv
  <2>2. UNCHANGED vars => quiet' = quiet BY DEF vars
  <2> QED BY Steps, <2>1, <2>2, WorksFrame, VisitsFrame, StartsFrame
<1>3. ASSUME quiet PROVE AloneInv' BY <1>1, <1>3, AloneStep
<1>4. ASSUME quiet, ~raced' PROVE OwedInv'
  <2>1. ~raced BY <1>4, ActiveType
  <2> QED BY <1>1, <1>4, <2>1, OwedStep
<1> QED BY <1>1, <1>2, <1>3, <1>4

(* "stored your request": when commands about messages do not overlap, no  *)
(* message is lost, for any number of sessions that open, log in, log out  *)
(* or break off meanwhile, as long as no two of them use currentUserArray  *)
(* at the same time.                                                       *)
THEOREM NothingIsLostQuietly == Spec => []QuietlyStored
<1>1. ASSUME Init PROVE QuietInv
  <2>1. TypeInv BY <1>1, TypeInit
  <2>2. IdsInv BY <1>1 DEF Init, IdsInv, Settled
  <2>3. LoginsInv BY <1>1 DEF Init, LoginsInv, ActiveInv, LogsIn, Serving, Busy
  <2>4. AloneInv BY <1>1 DEF Init, AloneInv, Busy
  <2>5. OwedInv BY <1>1 DEF Init, OwedInv
  <2> QED BY <2>1, <2>2, <2>3, <2>4, <2>5 DEF QuietInv
<1>2. QuietInv /\ [Next]_vars => QuietInv' BY QuietStep
<1>3. ASSUME QuietInv PROVE QuietlyStored
  <2> SUFFICES ASSUME quiet, ~raced, NEW p \in owed, Serving(p[1]), ~Underway(p[2])
               PROVE  Kept(p[1], p[2])
    BY DEF QuietlyStored, Arrived, Kept
  <2>1. PICK t \in Sessions, m \in Messages : p = <<t, m>>
    BY <1>3 DEF QuietInv, TypeInv, TypeOK
  <2>2. ~Sending(m) BY <2>1 DEF Underway, Sending
  <2> QED BY <1>3, <2>1, <2>2 DEF QuietInv, OwedInv
<1> QED BY <1>1, <1>2, <1>3, PTL DEF Spec
=============================================================================
