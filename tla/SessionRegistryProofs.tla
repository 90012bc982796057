----------------------- MODULE SessionRegistryProofs -----------------------
(***************************************************************************)
(* Theorems about SessionRegistry, for any number of connections and users.*)
(***************************************************************************)
EXTENDS SessionRegistry, ArrayListsProofs

(* A thread past the prompt has an id, and one that adds to userArray read *)
(* a size that is none of the negative ones.                               *)
PastPrompt == InFlightPCs \cup ListedPCs \cup {"denied"}
HasId == \A s \in Sessions : pc[s] \in PastPrompt => user[s] \in Users
Counted == \A s \in Sessions : pc[s] = "putUser" => size[s] \in Nat
TypeInv == TypeOK /\ HasId /\ Counted

LEMMA TypeInvInit == Init => TypeInv
<1> SUFFICES ASSUME Init PROVE TypeInv OBVIOUS
<1>1. EmptyList \in Lists(Users) /\ EmptyList.size = 0 BY DEF EmptyList, Lists
<1> QED BY <1>1 DEF Init, TypeInv, TypeOK, HasId, Counted, PastPrompt, PCs,
               InFlightPCs, ListedPCs

LEMMA TypeInvStep == TypeInv /\ [Next]_vars => TypeInv'
<1> SUFFICES ASSUME TypeInv, [Next]_vars PROVE TypeInv' OBVIOUS
<1> USE DEF TypeInv, TypeOK, HasId, Counted, PastPrompt, PCs, InFlightPCs,
            ListedPCs, Goto, shared, mainVars
<1>1. ASSUME Accept PROVE TypeInv'
  <2>1. Head(backlog) \in Sessions /\ Tail(backlog) \in Seq(Sessions) BY <1>1 DEF Accept
  <2> QED BY <1>1, <2>1 DEF Accept
<1>2. ASSUME NEW s \in Sessions, ClientStep(s) PROVE TypeInv'
  <2>1. CASE Dial(s) BY <2>1 DEF Dial
  <2>2. CASE StartSession(s) BY <2>2 DEF StartSession
  <2>3. CASE HandshakeFails(s) BY <2>3 DEF HandshakeFails
  <2>4. ASSUME NEW u \in Users, ReceiveId(s, u) PROVE TypeInv' BY <2>4 DEF ReceiveId
  <2>5. CASE LoginFails(s) BY <2>5 DEF LoginFails
  <2>6. CASE LookupOwnFiles(s) BY <2>6 DEF LookupOwnFiles
  <2>7. CASE LookupOtherFiles(s) BY <2>7 DEF LookupOtherFiles
  <2>8. CASE Abandon(s) BY <2>8 DEF Abandon
  <2>9. CASE Logout(s)
    <3>1. CASE Has(online, user[s])
      <4>1. online.size \in Int BY DEF Lists
      <4>2. FirstIndex(online, user[s]) \in Visible(online)
        BY <3>1, <4>1, FirstIndexFinds
      <4>3. FirstIndex(online, user[s]) \in Nat /\ online.size \in Int
        BY <4>1, <4>2 DEF Visible
      <4> QED BY <2>9, <3>1, <4>3 DEF Logout
    <3>2. CASE ~Has(online, user[s]) BY <2>9, <3>2 DEF Logout
    <3> QED BY <3>1, <3>2
  <2> QED BY <1>2, <2>1, <2>2, <2>3, <2>4, <2>5, <2>6, <2>7, <2>8, <2>9 DEF ClientStep
<1>3. ASSUME NEW s \in Sessions, ThreadStep(s) PROVE TypeInv'
  <2>1. CASE CheckActive(s) BY <2>1 DEF CheckActive
  <2>2. CASE CheckKnown(s) BY <2>2 DEF CheckKnown, Has
  <2>3. CASE AddOnline(s)
    <3>1. online.size \in Int BY DEF Lists
    <3> QED BY <2>3, <3>1 DEF AddOnline
  <2>4. CASE PutOnline(s)
    <3>1. user[s] \in Users BY <2>4 DEF PutOnline
    <3>2. size[s] >= 0 => Added(online, size[s], user[s]) \subseteq Lists(Users)
      <4> SUFFICES ASSUME size[s] >= 0, NEW new \in Added(online, size[s], user[s])
                   PROVE  new \in Lists(Users)
        OBVIOUS
      <4>1. size[s] \in Nat OBVIOUS
      <4> QED BY <3>1, <4>1, AddedType
    <3>3. online' \in Lists(Users) BY <2>4, <3>2 DEF PutOnline
    <3>4. /\ \E p \in {"crashed", "ready", "addUser"} : pc' = [pc EXCEPT ![s] = p]
          /\ size' = [size EXCEPT ![s] = 0]
          /\ UNCHANGED <<mainVars, userArray, folders, user, returning, index>>
      BY <2>4 DEF PutOnline
    <3> QED BY <3>1, <3>3, <3>4
  <2>5. CASE AddUser(s)
    <3>1. userArray.size \in Nat BY DEF Lists
    <3> QED BY <2>5, <3>1 DEF AddUser
  <2>6. CASE PutUser(s)
    <3>1. user[s] \in Users /\ size[s] \in Nat BY <2>6 DEF PutUser
    <3>2. ASSUME NEW new \in Added(userArray, size[s], user[s])
          PROVE  new \in Lists(Users) /\ new.size >= 0
      BY <3>1, AddedType
    <3>3. userArray' \in Lists(Users) /\ userArray'.size >= 0 BY <2>6, <3>2 DEF PutUser
    <3>4. /\ \E p \in {"abandoned", "makeDirs"} : pc' = [pc EXCEPT ![s] = p]
          /\ size' = [size EXCEPT ![s] = 0]
          /\ UNCHANGED <<mainVars, online, folders, user, returning, index>>
      BY <2>6 DEF PutUser
    <3> QED BY <3>1, <3>3, <3>4
  <2>7. CASE MakeDirs(s) BY <2>7 DEF MakeDirs
  <2>8. CASE LookupSlot(s)
    <3>1. /\ UNCHANGED <<shared, user, returning, size>>
          /\ pc[s] = "looking" /\ pc' \in {pc, [pc EXCEPT ![s] = "abandoned"]}
          /\ index' \in {[index EXCEPT ![s] = index[s] + 1], [index EXCEPT ![s] = 0]}
      BY <2>8 DEF LookupSlot
    <3>2. index[s] + 1 \in Nat OBVIOUS
    <3>3. [index EXCEPT ![s] = index[s] + 1] \in [Sessions -> Nat] BY <3>2
    <3>4. [index EXCEPT ![s] = 0] \in [Sessions -> Nat] OBVIOUS
    <3>5. index' \in [Sessions -> Nat] BY <3>1, <3>3, <3>4
    <3> QED BY <3>1, <3>5
  <2>9. CASE LookupEnds(s) BY <2>9 DEF LookupEnds
  <2>10. CASE RemoveOnline(s)
    <3>1. ASSUME NEW new \in Dropped(online, index[s], size[s])
          PROVE  new \in Lists(Users)
      BY DroppedType
    <3> QED BY <2>10, <3>1 DEF RemoveOnline
  <2>11. CASE CountOnline(s)
    <3>1. online.size \in Int BY DEF Lists
    <3>2. /\ pc[s] = "countOnline"
          /\ \E p \in {"removeOnline", "abandoned"} : pc' = [pc EXCEPT ![s] = p]
          /\ \E n \in Int : size' = [size EXCEPT ![s] = n]
          /\ index' \in {index, [index EXCEPT ![s] = 0]}
          /\ UNCHANGED <<shared, user, returning>>
      BY <2>11, <3>1 DEF CountOnline
    <3> QED BY <3>2
  <2> QED BY <1>3, <2>1, <2>2, <2>3, <2>4, <2>5, <2>6, <2>7, <2>8, <2>9, <2>10, <2>11
          DEF ThreadStep, Login
<1>4. CASE UNCHANGED vars BY <1>4 DEF vars
<1> QED BY <1>1, <1>2, <1>3, <1>4 DEF Next

(* Every reachable state is well typed, with overlapping logins and        *)
(* logouts too.  The size of currentUserArray is then any integer (two     *)
(* logouts of one id take it from 1 to -1); that of userArray, from which  *)
(* nothing is removed, is never negative.                                  *)
THEOREM TypeCorrect == Spec => []TypeOK
<1>1. TypeInv => TypeOK BY DEF TypeInv
<1> QED BY TypeInvInit, TypeInvStep, <1>1, PTL DEF Spec

-----------------------------------------------------------------------------
(* The connections the operating system holds are the dialled ones, each   *)
(* held once: accept() never hands out a session that is being served.     *)
BacklogInv ==
  /\ \A s \in Held(backlog) : pc[s] = "dialled"
  /\ NoRepeats(backlog)

LEMMA BacklogInit == Init => BacklogInv
  BY DEF Init, BacklogInv, Held, NoRepeats

LEMMA AcceptsDialled ==
  ASSUME TypeOK, BacklogInv, Accept
  PROVE  \E h \in Sessions : pc[h] = "dialled" /\ pc' = [pc EXCEPT ![h] = "handshake"]
<1>1. Head(backlog) \in Held(backlog) /\ Head(backlog) \in Sessions
  BY Dequeue DEF TypeOK, Accept
<1> QED BY <1>1 DEF BacklogInv, Accept, Goto

LEMMA BacklogStep == TypeInv /\ BacklogInv /\ [Next]_vars => BacklogInv'
<1> SUFFICES ASSUME TypeInv, BacklogInv, [Next]_vars PROVE BacklogInv' OBVIOUS
<1> USE DEF TypeInv, TypeOK, Goto, shared, mainVars
<1>1. ASSUME backlog' = backlog,
             NEW s \in Sessions, pc[s] # "dialled",
             \A t \in Sessions \ {s} : pc'[t] = pc[t]
      PROVE  BacklogInv'
  <2>1. Held(backlog) \subseteq Sessions BY ElementOfSeq DEF Held
  <2>2. \A t \in Held(backlog) : pc'[t] = "dialled" BY <1>1, <2>1 DEF BacklogInv
  <2> QED BY <1>1, <2>2 DEF BacklogInv
<1>2. CASE Accept
  <2>1. /\ backlog' = Tail(backlog) /\ backlog # <<>>
        /\ pc' = [pc EXCEPT ![Head(backlog)] = "handshake"]
    BY <1>2 DEF Accept
  <2>2. /\ NoRepeats(Tail(backlog)) /\ Head(backlog) \notin Held(Tail(backlog))
        /\ Held(Tail(backlog)) \subseteq Held(backlog)
    BY <2>1, Dequeue DEF BacklogInv
  <2>3. \A s \in Held(Tail(backlog)) : pc'[s] = pc[s] BY <2>1, <2>2
  <2> QED BY <2>1, <2>2, <2>3 DEF BacklogInv
<1>3. ASSUME NEW s \in Sessions, Dial(s) PROVE BacklogInv'
  <2>1. /\ backlog' = Append(backlog, s) /\ pc[s] = "free"
        /\ pc' = [pc EXCEPT ![s] = "dialled"]
    BY <1>3 DEF Dial
  <2>2. s \notin Held(backlog) BY <2>1 DEF BacklogInv
  <2>3. NoRepeats(backlog') /\ Held(backlog') = Held(backlog) \cup {s}
    BY <2>1, <2>2, Enqueue DEF BacklogInv
  <2>4. \A t \in Held(backlog) : pc'[t] = "dialled" BY <2>1, <2>2 DEF BacklogInv
  <2> QED BY <2>1, <2>3, <2>4 DEF BacklogInv
<1>4. ASSUME NEW s \in Sessions, ClientStep(s), ~Dial(s) PROVE BacklogInv'
  <2>1. /\ backlog' = backlog /\ pc[s] # "dialled"
        /\ \A t \in Sessions \ {s} : pc'[t] = pc[t]
    BY <1>4
       DEF ClientStep, StartSession, HandshakeFails, ReceiveId, LoginFails,
           LookupOwnFiles, LookupOtherFiles, Abandon, Logout
  <2> QED BY <1>1, <2>1
<1>5. ASSUME NEW s \in Sessions, ThreadStep(s) PROVE BacklogInv'
  BY <1>1, <1>5
     DEF ThreadStep, Login, CheckActive, CheckKnown, AddOnline, PutOnline, AddUser, PutUser,
         MakeDirs, LookupSlot, LookupEnds, CountOnline, RemoveOnline
<1>6. CASE UNCHANGED vars BY <1>6 DEF vars, BacklogInv
<1> QED BY <1>2, <1>3, <1>4, <1>5, <1>6 DEF Next

-----------------------------------------------------------------------------
(* Registered users and their directories, under every interleaving.  A    *)
(* racing userArray.add may uncover a stale slot, so the invariant speaks  *)
(* of every slot of the backing array, not only of the visible ones.       *)
Promised(u) ==
  \/ u = Null \/ u \in folders
  \/ \E s \in Sessions : user[s] = u /\ pc[s] = "makeDirs"
EverySlotPromised == \A i \in Nat : Promised(Slot(userArray, i))

(* A step that leaves userArray alone keeps the promise if no thread gives *)
(* up making its directories.                                              *)
LEMMA PromiseKept ==
  ASSUME EverySlotPromised, userArray' = userArray, folders \subseteq folders',
         \A s \in Sessions : pc[s] = "makeDirs" =>
            \/ pc'[s] = "makeDirs" /\ user'[s] = user[s]
            \/ user[s] \in folders'
  PROVE  EverySlotPromised'
  BY DEF EverySlotPromised, Promised

LEMMA PromisedStep ==
  TypeInv /\ BacklogInv /\ EverySlotPromised /\ [Next]_vars => EverySlotPromised'
<1> SUFFICES ASSUME TypeInv, BacklogInv, EverySlotPromised, [Next]_vars
             PROVE  EverySlotPromised'
  OBVIOUS
<1> USE DEF TypeInv, TypeOK, Goto, shared, mainVars
<1>1. CASE Accept
  <2>1. PICK h \in Sessions : pc[h] = "dialled" /\ pc' = [pc EXCEPT ![h] = "handshake"]
    BY <1>1, AcceptsDialled
  <2> QED BY <1>1, <2>1, PromiseKept DEF Accept
<1>2. ASSUME NEW s \in Sessions, ClientStep(s) PROVE EverySlotPromised'
  BY <1>2, PromiseKept
     DEF ClientStep, Dial, StartSession, HandshakeFails, ReceiveId, LoginFails,
         LookupOwnFiles, LookupOtherFiles, Abandon, Logout
<1>3. ASSUME NEW s \in Sessions, ThreadStep(s) PROVE EverySlotPromised'
  <2>1. CASE PutUser(s)
    <3>1. pc[s] = "putUser" /\ user' = user /\ folders' = folders /\ size[s] \in Nat
      BY <2>1 DEF PutUser, Counted
    <3>2. \A t \in Sessions : pc[t] = "makeDirs" => pc'[t] = "makeDirs"
      BY <2>1, <3>1 DEF PutUser
    <3>3. CASE userArray' = userArray BY <3>1, <3>2, <3>3, PromiseKept
    <3>4. CASE userArray' \in Added(userArray, size[s], user[s]) /\ Goto(s, "makeDirs")
      <4>1. user[s] \in Users BY <3>1 DEF HasId, PastPrompt, InFlightPCs
      <4>2. \A i \in Nat : Slot(userArray', i) \in {Slot(userArray, i), user[s]}
        BY <3>1, <3>4, <4>1, AddedType
      <4>3. pc'[s] = "makeDirs" BY <3>4
      <4>4. ASSUME NEW i \in Nat PROVE Promised(Slot(userArray, i))'
        <5>1. Promised(Slot(userArray, i)) BY DEF EverySlotPromised
        <5> QED BY <3>1, <3>2, <4>2, <4>3, <5>1 DEF Promised
      <4> QED BY <4>4 DEF EverySlotPromised
    <3> QED BY <2>1, <3>3, <3>4 DEF PutUser
  <2>2. CASE ~PutUser(s)
    BY <1>3, <2>2, PromiseKept
       DEF ThreadStep, Login, CheckActive, CheckKnown, AddOnline, PutOnline, AddUser,
           MakeDirs, LookupSlot, LookupEnds, CountOnline, RemoveOnline
  <2> QED BY <2>1, <2>2
<1>4. CASE UNCHANGED vars BY <1>4, PromiseKept DEF vars
<1> QED BY <1>1, <1>2, <1>3, <1>4 DEF Next

(* lookupOtherFiles can meet a registered user without directories only    *)
(* while that user's own login thread has yet to make them, however logins *)
(* and logouts overlap.                                                    *)
THEOREM RegisteredUsersHaveFolders == Spec => []RegisteredHasFolder
<1>1. Init => EverySlotPromised
  BY DEF Init, EmptyList, EverySlotPromised, Promised, Slot
<1>2. TypeInv /\ EverySlotPromised => RegisteredHasFolder
  <2>1. TypeInv => Visible(userArray) \subseteq Nat
    BY DEF TypeInv, TypeOK, Lists, Visible
  <2> QED BY <2>1 DEF EverySlotPromised, Promised, RegisteredHasFolder, Members
<1> QED BY TypeInvInit, TypeInvStep, BacklogInit, BacklogStep, PromisedStep, <1>1, <1>2,
           PTL DEF Spec

-----------------------------------------------------------------------------
(* When logins and logouts do not overlap.  At most one thread is inside   *)
(* login() or logout(), so what it checked still holds when it acts: that  *)
(* is the strengthening that makes the check-then-act login sound.         *)
Alone == \A s, t \in Sessions : InFlight(s) /\ InFlight(t) => s = t
StillInactive ==
  \A s \in Sessions :
    pc[s] \in {"checkKnown", "addOnline", "putOnline"} => user[s] \notin Members(online)
UpToDate ==
  /\ online.size >= 0
  /\ \A s \in Sessions :
       /\ pc[s] \in {"putOnline", "countOnline", "removeOnline"} => size[s] = online.size
       /\ pc[s] = "putUser" => size[s] = userArray.size
       /\ pc[s] \in {"countOnline", "removeOnline"} =>
            index[s] \in Visible(online) /\ Slot(online, index[s]) = user[s]
WillHaveFolders ==
  \A s \in Sessions :
    pc[s] \in {"addOnline", "putOnline"} /\ returning[s] => user[s] \in folders
FoldersInv == WillHaveFolders /\ OwnFoldersExist
ListsInv   == OneSessionPerUser /\ ActiveListExact
LoginInv   == Alone /\ StillInactive /\ UpToDate

(* Steps that neither touch currentUserArray nor list or unlist a session. *)
LEMMA ListsKept ==
  ASSUME ListsInv, online' = online,
         \A t \in Sessions : /\ Listed(t)' <=> Listed(t)
                             /\ Listed(t) => user'[t] = user[t]
  PROVE  ListsInv'
<1>1. OneSessionPerUser' BY DEF ListsInv, OneSessionPerUser
<1>2. {user[t] : t \in {x \in Sessions : Listed(x)}}' =
        {user[t] : t \in {x \in Sessions : Listed(x)}}
  OBVIOUS
<1> QED BY <1>1, <1>2 DEF ListsInv, ActiveListExact

(* Alone, a thread that adds or removes meets no exception.                *)
LEMMA AloneNothingThrows ==
  ASSUME TypeInv, LoginInv, NEW s \in Sessions
  PROVE  /\ PutOnline(s) => pc'[s] \in {"ready", "addUser"}
         /\ PutUser(s) => pc'[s] = "makeDirs" /\ userArray' \in Added(userArray, userArray.size, user[s])
         /\ CountOnline(s) => /\ pc' = [pc EXCEPT ![s] = "removeOnline"]
                               /\ size' = size /\ index' = index
         /\ RemoveOnline(s) => pc'[s] = "closed" /\ size[s] > 0
<1> USE DEF TypeInv, TypeOK, LoginInv, UpToDate, AddMayThrow, Outgrown, Goto
<1>1. online.size \in Nat /\ userArray.size \in Nat BY DEF Lists
<1>2. PutOnline(s) => pc'[s] \in {"ready", "addUser"} BY <1>1 DEF PutOnline
<1>3. PutUser(s) => pc'[s] = "makeDirs" /\ userArray' \in Added(userArray, userArray.size, user[s])
  BY <1>1 DEF PutUser
<1>4. CountOnline(s) => /\ pc' = [pc EXCEPT ![s] = "removeOnline"]
                       /\ size' = size /\ index' = index
  BY <1>1 DEF CountOnline
<1>5. RemoveOnline(s) => pc'[s] = "closed" /\ size[s] > 0
  BY <1>1 DEF RemoveOnline, Visible
<1> QED BY <1>2, <1>3, <1>4, <1>5

LEMMA ListsStep ==
  ASSUME TypeInv, BacklogInv, LoginInv, ListsInv, [Next]_vars
  PROVE  ListsInv'
<1> USE DEF TypeInv, TypeOK, Goto, shared, mainVars
<1>1. CASE Accept
  <2>1. PICK h \in Sessions : pc[h] = "dialled" /\ pc' = [pc EXCEPT ![h] = "handshake"]
    BY <1>1, AcceptsDialled
  <2> QED BY <1>1, <2>1, ListsKept DEF Accept, Listed, ListedPCs
<1>2. ASSUME NEW s \in Sessions, ClientStep(s) PROVE ListsInv'
  <2>1. ASSUME NEW u \in Users, ReceiveId(s, u) PROVE ListsInv'
    BY <2>1, ListsKept DEF ReceiveId, Listed, ListedPCs
  <2>2. CASE Logout(s)
    <3>1. Has(online, user[s])
      <4>1. pc[s] = "ready" BY <2>2 DEF Logout
      <4>2. user[s] \in Members(online)
        BY <4>1 DEF ListsInv, ActiveListExact, Listed, ListedPCs
      <4> QED BY <4>2 DEF Members, Has
    <3> QED BY <2>2, <3>1, ListsKept DEF Logout, Listed, ListedPCs
  <2>3. ASSUME ~\E u \in Users : ReceiveId(s, u), ~Logout(s) PROVE ListsInv'
    BY <1>2, <2>3, ListsKept
       DEF ClientStep, Dial, StartSession, HandshakeFails, LoginFails,
           LookupOwnFiles, LookupOtherFiles, Abandon, Listed, ListedPCs
  <2> QED BY <2>1, <2>2, <2>3
<1>3. ASSUME NEW s \in Sessions, PutOnline(s) PROVE ListsInv'
  <2>0. online.size \in Int BY DEF Lists
  <2>1. /\ pc[s] = "putOnline" /\ user' = user
        /\ online.size \in Nat /\ online' \in Added(online, online.size, user[s])
        /\ Goto(s, IF returning[s] THEN "ready" ELSE "addUser")
    BY <1>3, <2>0 DEF PutOnline, LoginInv, UpToDate, AddMayThrow, Outgrown
  <2>2. \A t \in Sessions : Listed(t)' <=> Listed(t) \/ t = s
    BY <2>1 DEF Listed, ListedPCs
  <2>3. user[s] \notin Members(online) BY <2>1 DEF LoginInv, StillInactive
  <2>4. \A t \in Sessions : Listed(t) => user[t] \in Members(online)
    BY DEF ListsInv, ActiveListExact
  <2>5. OneSessionPerUser' BY <2>1, <2>2, <2>3, <2>4 DEF ListsInv, OneSessionPerUser
  <2>6. /\ Members(online') = Members(online) \cup {user[s]}
        /\ Distinct(online')
    <3>1. online \in Lists(Users) /\ Distinct(online) BY DEF ListsInv, ActiveListExact
    <3> QED BY <2>1, <2>3, <3>1, AddAlone
  <2>7. Members(online') = {user'[t] : t \in {x \in Sessions : Listed(x)'}}
    <3>1. Members(online) = {user[t] : t \in {x \in Sessions : Listed(x)}}
      BY DEF ListsInv, ActiveListExact
    <3>2. {x \in Sessions : Listed(x)'} = {x \in Sessions : Listed(x)} \cup {s}
      BY <2>2
    <3>3. {user'[t] : t \in {x \in Sessions : Listed(x)} \cup {s}} =
            {user[t] : t \in {x \in Sessions : Listed(x)}} \cup {user[s]}
      BY <2>1
    <3> QED BY <2>6, <3>1, <3>2, <3>3
  <2> QED BY <2>5, <2>6, <2>7 DEF ListsInv, ActiveListExact
<1>4. ASSUME NEW s \in Sessions, RemoveOnline(s) PROVE ListsInv'
  <2>1. /\ pc[s] = "removeOnline" /\ user' = user
        /\ online' \in Dropped(online, index[s], online.size)
        /\ index[s] \in Visible(online) /\ Slot(online, index[s]) = user[s]
    BY <1>4 DEF RemoveOnline, LoginInv, UpToDate
  <2>2. \A t \in Sessions : Listed(t)' <=> Listed(t) /\ t # s
    BY <1>4 DEF RemoveOnline, Listed, ListedPCs
  <2>3. Listed(s) BY <2>1 DEF Listed, ListedPCs
  <2>4. OneSessionPerUser' BY <2>1, <2>2 DEF ListsInv, OneSessionPerUser
  <2>5. Distinct(online) BY DEF ListsInv, ActiveListExact
  <2>6. Members(online') = Members(online) \ {user[s]} /\ Distinct(online')
    BY <2>1, <2>5, RemoveAlone
  <2>7. \A t \in Sessions : Listed(t) /\ t # s => user[t] # user[s]
    BY <2>3 DEF ListsInv, OneSessionPerUser
  <2>8. Members(online') = {user'[t] : t \in {x \in Sessions : Listed(x)'}}
    BY <2>1, <2>2, <2>6, <2>7 DEF ListsInv, ActiveListExact
  <2> QED BY <2>4, <2>6, <2>8 DEF ListsInv, ActiveListExact
<1>5. ASSUME NEW s \in Sessions, ThreadStep(s), ~PutOnline(s), ~RemoveOnline(s)
      PROVE  ListsInv'
  <2>1. online' = online /\ user' = user
    BY <1>5
       DEF ThreadStep, Login, CheckActive, CheckKnown, AddOnline, AddUser, PutUser,
           MakeDirs, LookupSlot, LookupEnds, CountOnline
  <2>2. \A t \in Sessions : Listed(t)' <=> Listed(t)
    <3>1. CASE PutUser(s) \/ CountOnline(s)
      BY <3>1, AloneNothingThrows DEF PutUser, CountOnline, Listed, ListedPCs
    <3>2. CASE ~PutUser(s) /\ ~CountOnline(s)
      BY <1>5, <3>2
         DEF ThreadStep, Login, CheckActive, CheckKnown, AddOnline, AddUser,
             MakeDirs, LookupSlot, LookupEnds, Listed, ListedPCs
    <3> QED BY <3>1, <3>2
  <2> QED BY <2>1, <2>2, ListsKept
<1>6. CASE UNCHANGED vars BY <1>6, ListsKept DEF vars, Listed
<1> QED BY <1>1, <1>2, <1>3, <1>4, <1>5, <1>6 DEF Next

(* Nothing but a thread outside login() and logout() moves. *)
LEMMA LoginUntouched ==
  ASSUME LoginInv, NEW s \in Sessions,
         UNCHANGED <<userArray, online, user, size>>,
         \A t \in Sessions \ {s} : pc'[t] = pc[t] /\ index'[t] = index[t],
         pc'[s] \notin InFlightPCs
  PROVE  LoginInv'
<1>1. \A t \in Sessions : InFlight(t)' => t # s /\ InFlight(t) BY DEF InFlight
<1>2. Alone' BY <1>1 DEF LoginInv, Alone
<1>3. \A t \in Sessions : pc'[t] \in InFlightPCs => pc'[t] = pc[t] /\ index'[t] = index[t]
  OBVIOUS
<1>4. StillInactive' BY <1>3 DEF LoginInv, StillInactive, InFlightPCs
<1>5. UpToDate' BY <1>3 DEF LoginInv, UpToDate, InFlightPCs
<1> QED BY <1>2, <1>4, <1>5 DEF LoginInv

(* At most one thread is inside, where it has nothing to remember. *)
LEMMA LoginForgets ==
  ASSUME NEW s \in Sessions, online'.size >= 0,
         \A t \in Sessions : pc'[t] \in InFlightPCs => t = s /\ pc'[t] \in {"addUser", "makeDirs"}
  PROVE  LoginInv'
<1>1. Alone' BY DEF Alone, InFlight
<1>2. StillInactive' BY DEF StillInactive, InFlightPCs
<1>3. UpToDate' BY DEF UpToDate, InFlightPCs
<1> QED BY <1>1, <1>2, <1>3 DEF LoginInv

(* A thread inside login() or logout() has the lists to itself. *)
LEMMA LoginStep ==
  ASSUME Spaced, TypeInv, BacklogInv, LoginInv, ListsInv, [Next]_vars
  PROVE  LoginInv'
<1> USE DEF TypeInv, TypeOK, Goto, shared, mainVars, LoginInv, Alone, StillInactive,
            UpToDate, InFlight, InFlightPCs
<1>1. CASE Accept
  <2>1. PICK h \in Sessions : pc[h] = "dialled" /\ pc' = [pc EXCEPT ![h] = "handshake"]
    BY <1>1, AcceptsDialled
  <2> QED BY <1>1, <2>1 DEF Accept
<1>2. ASSUME NEW s \in Sessions, ClientStep(s) PROVE LoginInv'
  <2>1. ASSUME NEW u \in Users, ReceiveId(s, u) PROVE LoginInv'
    BY <2>1 DEF ReceiveId, MayStart
  <2>2. CASE Logout(s)
    <3>1. CASE Has(online, user[s])
      <4>1. /\ FirstIndex(online, user[s]) \in Visible(online)
            /\ Slot(online, FirstIndex(online, user[s])) = user[s]
        <5>1. online.size \in Int BY DEF Lists
        <5> QED BY <3>1, <5>1, FirstIndexFinds
      <4>2. /\ pc' = [pc EXCEPT ![s] = "countOnline"]
            /\ index' = [index EXCEPT ![s] = FirstIndex(online, user[s])]
            /\ size' = [size EXCEPT ![s] = online.size]
            /\ online' = online /\ user' = user
            /\ \A t \in Sessions : ~InFlight(t)
        BY <2>2, <3>1 DEF Logout, MayStart
      <4> HIDE DEF TypeOK
      <4>3. pc \in [Sessions -> PCs] /\ index \in [Sessions -> Nat] /\ size \in [Sessions -> Int]
        BY DEF TypeOK
      <4> QED BY <4>1, <4>2, <4>3
    <3>2. CASE ~Has(online, user[s])
      <4>1. /\ UNCHANGED <<userArray, online, user, size>>
            /\ \A t \in Sessions \ {s} : pc'[t] = pc[t] /\ index'[t] = index[t]
            /\ pc'[s] = "closed"
        BY <2>2, <3>2 DEF Logout
      <4> QED BY <4>1, LoginUntouched
    <3> QED BY <3>1, <3>2
  <2>3. ASSUME ~\E u \in Users : ReceiveId(s, u), ~Logout(s) PROVE LoginInv'
    <3>1. /\ UNCHANGED <<userArray, online, user, size>>
          /\ \A t \in Sessions \ {s} : pc'[t] = pc[t] /\ index'[t] = index[t]
          /\ pc'[s] \notin InFlightPCs
      BY <1>2, <2>3
         DEF ClientStep, Dial, StartSession, HandshakeFails, LoginFails,
             LookupOwnFiles, LookupOtherFiles, Abandon
    <3> QED BY <3>1, LoginUntouched
  <2> QED BY <2>1, <2>2, <2>3
<1>3. ASSUME NEW s \in Sessions, ThreadStep(s) PROVE LoginInv'
  <2>1. CASE CheckActive(s) BY <2>1 DEF CheckActive, Has, Members
  <2>2. CASE CheckKnown(s) BY <2>2 DEF CheckKnown
  <2>3. CASE AddOnline(s) BY <2>3 DEF AddOnline
  <2>4. CASE PutOnline(s)
    <3>1. pc[s] = "putOnline" /\ size[s] = online.size /\ online.size \in Nat
      BY <2>4 DEF PutOnline, Lists
    <3>2. online'.size = online.size + 1
      <4>1. user[s] \in Users BY <3>1 DEF HasId, PastPrompt, InFlightPCs
      <4>2. online' \in Added(online, online.size, user[s])
        BY <2>4, <3>1 DEF PutOnline, AddMayThrow, Outgrown
      <4> QED BY <3>1, <4>1, <4>2, AddedType
    <3>3. /\ \A t \in Sessions \ {s} : pc'[t] = pc[t]
          /\ pc'[s] \in {"ready", "addUser"} /\ UNCHANGED <<userArray, user, index>>
          /\ \A t \in Sessions \ {s} : size'[t] = size[t]
      BY <2>4, AloneNothingThrows DEF PutOnline
    <3>4. \A t \in Sessions : pc'[t] \in InFlightPCs => t = s /\ pc'[t] = "addUser"
      BY <3>1, <3>3
    <3>5. online'.size >= 0 BY <3>1, <3>2
    <3> QED BY <3>4, <3>5, LoginForgets
  <2>5. CASE AddUser(s) BY <2>5 DEF AddUser
  <2>6. CASE PutUser(s)
    <3>1. /\ \A t \in Sessions \ {s} : pc'[t] = pc[t] /\ size'[t] = size[t]
          /\ pc[s] = "putUser" /\ pc'[s] = "makeDirs" /\ UNCHANGED <<online, user, index>>
      BY <2>6, AloneNothingThrows DEF PutUser
    <3>2. \A t \in Sessions : pc'[t] \in InFlightPCs => t = s /\ pc'[t] = "makeDirs"
      BY <3>1
    <3>3. online'.size >= 0 BY <3>1
    <3> QED BY <3>2, <3>3, LoginForgets
  <2>7. CASE MakeDirs(s) BY <2>7 DEF MakeDirs
  <2>8. CASE LookupSlot(s)
    <3>1. /\ UNCHANGED <<userArray, online, user, size>>
          /\ \A t \in Sessions \ {s} : pc'[t] = pc[t] /\ index'[t] = index[t]
          /\ pc'[s] \in {"looking", "abandoned"}
      BY <2>8 DEF LookupSlot
    <3> QED BY <3>1, LoginUntouched
  <2>9. CASE LookupEnds(s)
    <3>1. /\ UNCHANGED <<userArray, online, user, size>>
          /\ \A t \in Sessions \ {s} : pc'[t] = pc[t] /\ index'[t] = index[t]
          /\ pc'[s] = "ready"
      BY <2>9 DEF LookupEnds
    <3> QED BY <3>1, LoginUntouched
  <2>10. CASE RemoveOnline(s)
    <3>1. online'.size >= 0
      <4>1. pc[s] = "removeOnline" /\ size[s] = online.size /\ size[s] > 0 /\ online.size \in Int
        BY <2>10, AloneNothingThrows DEF RemoveOnline, Lists
      <4>2. online' = DropAt(online, index[s], online.size)
        BY <2>10, <4>1 DEF RemoveOnline, Dropped
      <4> QED BY <4>1, <4>2 DEF DropAt
    <3>2. /\ \A t \in Sessions \ {s} : pc'[t] = pc[t] /\ size'[t] = size[t] /\ index'[t] = index[t]
          /\ pc[s] = "removeOnline" /\ pc'[s] = "closed" /\ UNCHANGED <<userArray, user>>
      BY <2>10, AloneNothingThrows DEF RemoveOnline
    <3>3. \A t \in Sessions : pc'[t] \notin InFlightPCs BY <3>2
    <3> QED BY <3>1, <3>3, LoginForgets
  <2>11. CASE CountOnline(s)
    <3>1. /\ pc[s] = "countOnline" /\ pc' = [pc EXCEPT ![s] = "removeOnline"]
          /\ UNCHANGED <<size, index, online, userArray, user>>
      BY <2>11, AloneNothingThrows DEF CountOnline
    <3> QED BY <3>1
  <2> QED BY <1>3, <2>1, <2>2, <2>3, <2>4, <2>5, <2>6, <2>7, <2>8, <2>9, <2>10, <2>11
          DEF ThreadStep, Login
<1>4. CASE UNCHANGED vars BY <1>4 DEF vars
<1> QED BY <1>1, <1>2, <1>3, <1>4 DEF Next

(* A returning user finds the directories that were made at registration.  *)
LEMMA FoldersStep ==
  ASSUME TypeInv, BacklogInv, LoginInv, EverySlotPromised, FoldersInv, [Next]_vars
  PROVE  FoldersInv'
<1> USE DEF TypeInv, TypeOK, Goto, shared, mainVars, FoldersInv, WillHaveFolders,
            OwnFoldersExist, Serving
<1>1. CASE Accept
  <2>1. PICK h \in Sessions : pc[h] = "dialled" /\ pc' = [pc EXCEPT ![h] = "handshake"]
    BY <1>1, AcceptsDialled
  <2> QED BY <1>1, <2>1 DEF Accept
<1>2. ASSUME NEW s \in Sessions, ClientStep(s) PROVE FoldersInv'
  BY <1>2
     DEF ClientStep, Dial, StartSession, HandshakeFails, ReceiveId, LoginFails,
         LookupOwnFiles, LookupOtherFiles, Abandon, Logout
<1>3. ASSUME NEW s \in Sessions, CheckKnown(s) PROVE FoldersInv'
  <2>1. /\ pc[s] = "checkKnown" /\ folders' = folders /\ user' = user
        /\ returning' = [returning EXCEPT ![s] = Has(userArray, user[s])]
        /\ pc' \in {[pc EXCEPT ![s] = "addOnline"], [pc EXCEPT ![s] = "closed"]}
    BY <1>3 DEF CheckKnown
  <2>2. ASSUME Has(userArray, user[s]) PROVE user[s] \in folders
    <3>1. user[s] \in Users
      BY <2>1 DEF HasId, PastPrompt, InFlightPCs
    <3>2. PICK i \in Nat : Slot(userArray, i) = user[s]
      BY <2>2 DEF Has, Visible, Lists
    <3>3. Promised(user[s]) BY <3>2 DEF EverySlotPromised
    <3>4. \A t \in Sessions : pc[t] # "makeDirs"
      BY <2>1 DEF LoginInv, Alone, InFlight, InFlightPCs
    <3> QED BY <3>1, <3>3, <3>4, RegistryAssumption DEF Promised
  <2> QED BY <2>1, <2>2 DEF Has
<1>4. ASSUME NEW s \in Sessions, ThreadStep(s), ~CheckKnown(s) PROVE FoldersInv'
  BY <1>4
     DEF ThreadStep, Login, CheckActive, AddOnline, PutOnline, AddUser, PutUser,
         MakeDirs, LookupSlot, LookupEnds, CountOnline, RemoveOnline
<1>5. CASE UNCHANGED vars BY <1>5 DEF vars
<1> QED BY <1>1, <1>2, <1>3, <1>4, <1>5 DEF Next

SpacedInv ==
  TypeInv /\ BacklogInv /\ EverySlotPromised /\ LoginInv /\ ListsInv /\ FoldersInv

LEMMA SpacedInvInit == Init => SpacedInv
<1> SUFFICES ASSUME Init PROVE SpacedInv OBVIOUS
<1> USE DEF Init
<1>1. EverySlotPromised BY DEF EmptyList, EverySlotPromised, Promised, Slot
<1>2. LoginInv
  BY DEF EmptyList, LoginInv, Alone, StillInactive, UpToDate, InFlight, InFlightPCs
<1>3. ListsInv
  <2>1. \A s \in Sessions : ~Listed(s) BY DEF Listed, ListedPCs
  <2>2. Visible(online) = {} BY DEF EmptyList, Visible
  <2> QED BY <2>1, <2>2 DEF ListsInv, OneSessionPerUser, ActiveListExact, Members, Distinct
<1>4. FoldersInv BY DEF FoldersInv, WillHaveFolders, OwnFoldersExist, Serving
<1> QED BY TypeInvInit, BacklogInit, <1>1, <1>2, <1>3, <1>4 DEF SpacedInv

LEMMA SpacedInvStep == ASSUME Spaced PROVE SpacedInv /\ [Next]_vars => SpacedInv'
<1> SUFFICES ASSUME SpacedInv, [Next]_vars PROVE SpacedInv' OBVIOUS
<1>1. TypeInv' /\ BacklogInv' /\ EverySlotPromised'
  BY TypeInvStep, BacklogStep, PromisedStep DEF SpacedInv
<1>2. LoginInv' /\ ListsInv' /\ FoldersInv'
  BY LoginStep, ListsStep, FoldersStep DEF SpacedInv
<1> QED BY <1>1, <1>2 DEF SpacedInv

LEMMA SpacedInvariant == ASSUME Spaced PROVE Spec => []SpacedInv
<1>1. SpacedInv /\ [Next]_vars => SpacedInv' BY SpacedInvStep
<1> QED BY <1>1, SpacedInvInit, PTL DEF Spec

(* As long as logins and logouts do not overlap, no list operation ends a  *)
(* thread: whoever was welcomed is served, and a logout closes its socket. *)
THEOREM SpacedThreadsSurvive == ASSUME Spaced PROVE Spec => NoListThrows
<1>1. SpacedInv /\ [Next]_vars =>
        [\A s \in Sessions : InFlight(s) => pc'[s] \notin {"abandoned", "crashed"}]_vars
  <2> SUFFICES ASSUME SpacedInv, Next, NEW s \in Sessions, InFlight(s)
               PROVE  pc'[s] \notin {"abandoned", "crashed"}
    OBVIOUS
  <2> USE DEF SpacedInv, TypeInv, TypeOK, Goto, InFlight, InFlightPCs
  <2>1. CASE Accept
    <3>1. PICK h \in Sessions : pc[h] = "dialled" /\ pc' = [pc EXCEPT ![h] = "handshake"]
      BY <2>1, AcceptsDialled
    <3> QED BY <3>1
  <2>2. ASSUME NEW t \in Sessions, ThreadStep(t) \/ ClientStep(t), t # s
        PROVE  pc'[s] = pc[s]
    BY <2>2
       DEF ThreadStep, Login, CheckActive, CheckKnown, AddOnline, PutOnline, AddUser,
           PutUser, MakeDirs, LookupSlot, LookupEnds, CountOnline, RemoveOnline,
           ClientStep, Dial, StartSession, HandshakeFails, ReceiveId, LoginFails,
           LookupOwnFiles, LookupOtherFiles, Abandon, Logout
  <2>3. ASSUME ThreadStep(s) PROVE pc'[s] \notin {"abandoned", "crashed"}
    BY <2>3, AloneNothingThrows
       DEF ThreadStep, Login, CheckActive, CheckKnown, AddOnline, AddUser, MakeDirs,
           LookupSlot, LookupEnds
  <2>4. ~ClientStep(s)
    BY DEF ClientStep, Dial, StartSession, HandshakeFails, ReceiveId, LoginFails,
           LookupOwnFiles, LookupOtherFiles, Abandon, Logout
  <2> QED BY <2>1, <2>2, <2>3, <2>4 DEF Next
<1> QED BY <1>1, SpacedInvariant, PTL DEF Spec, NoListThrows

(* As long as logins and logouts do not overlap, no two sessions are ever  *)
(* served under one user.                                                  *)
THEOREM SpacedLoginsAreSafe == ASSUME Spaced PROVE Spec => []OneSessionPerUser
<1>1. SpacedInv => OneSessionPerUser BY DEF SpacedInv, ListsInv
<1> QED BY <1>1, SpacedInvariant, PTL

(* Then currentUserArray holds each active user once and nobody else.      *)
THEOREM ActiveListIsExact == ASSUME Spaced PROVE Spec => []ActiveListExact
<1>1. SpacedInv => ActiveListExact BY DEF SpacedInv, ListsInv
<1> QED BY <1>1, SpacedInvariant, PTL

(* And the directories of a session's user exist while it is served, so    *)
(* that no command of it fails on them.                                    *)
THEOREM ServedUsersHaveFolders == ASSUME Spaced PROVE Spec => []OwnFoldersExist
<1>1. SpacedInv => OwnFoldersExist BY DEF SpacedInv, FoldersInv
<1> QED BY <1>1, SpacedInvariant, PTL
=============================================================================
