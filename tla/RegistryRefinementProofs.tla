---------------------- MODULE RegistryRefinementProofs ----------------------
(***************************************************************************)
(* When logins and logouts do not overlap, sessions enter, are denied,     *)
(* leave and die as if in one step each (AtomicRegistry), and the list of  *)
(* students is exact.  Builds on the invariant of SessionRegistryProofs.   *)
(***************************************************************************)
EXTENDS SessionRegistryProofs, FiniteSetTheorems

(* userArray holds each registered user once.  A login that has found its  *)
(* id there, or has put it there, can rely on it, and one that has not     *)
(* found it adds it to the list as it still is.                            *)
FoundOrAdded(s) ==
  \/ pc[s] \in {"addOnline", "putOnline"} /\ returning[s]
  \/ pc[s] \in {"makeDirs", "ready", "looking", "countOnline", "removeOnline", "abandoned"}
StillNew(s) ==
  \/ pc[s] \in {"addOnline", "putOnline"} /\ ~returning[s]
  \/ pc[s] \in {"addUser", "putUser"}

UsersInv ==
  /\ Distinct(userArray)
  /\ \A s \in Sessions : FoundOrAdded(s) => user[s] \in Members(userArray)
  /\ \A s \in Sessions : StillNew(s) => user[s] \notin Members(userArray)

LEMMA UsersInvInit == Init => UsersInv
  BY DEF Init, UsersInv, EmptyList, Distinct, Visible, FoundOrAdded, StillNew

LEMMA UsersInvStep ==
  ASSUME Spaced, SpacedInv, UsersInv, [Next]_vars
  PROVE  UsersInv'
<1> USE DEF SpacedInv, TypeInv, TypeOK, Goto, shared, mainVars, FoundOrAdded, StillNew
<1>1. CASE Accept
  <2>1. PICK h \in Sessions : pc[h] = "dialled" /\ pc' = [pc EXCEPT ![h] = "handshake"]
    BY <1>1, AcceptsDialled
  <2> QED BY <1>1, <2>1 DEF Accept, UsersInv
<1>2. ASSUME NEW s \in Sessions, ClientStep(s) PROVE UsersInv'
  BY <1>2
     DEF ClientStep, Dial, StartSession, HandshakeFails, ReceiveId, LoginFails,
         LookupOwnFiles, LookupOtherFiles, Abandon, Logout, UsersInv
<1>3. ASSUME NEW s \in Sessions, CheckKnown(s) PROVE UsersInv'
  <2>1. Has(userArray, user[s]) <=> user[s] \in Members(userArray) BY DEF Has, Members
  <2> QED BY <1>3, <2>1 DEF CheckKnown, UsersInv, Has
<1>4. ASSUME NEW s \in Sessions, PutUser(s) PROVE UsersInv'
  <2>1. /\ pc[s] = "putUser" /\ userArray \in Lists(Users) /\ userArray.size \in Nat
        /\ user[s] \notin Members(userArray) /\ Distinct(userArray)
    BY <1>4 DEF PutUser, UsersInv, Lists
  <2>2. /\ userArray' \in Added(userArray, userArray.size, user[s])
        /\ user' = user /\ returning' = returning
        /\ pc' = [pc EXCEPT ![s] = "makeDirs"]
    BY <1>4, AloneNothingThrows DEF PutUser
  <2>3. /\ Members(userArray') = Members(userArray) \cup {user[s]}
        /\ Distinct(userArray')
    BY <2>1, <2>2, AddAlone
  <2>4. \A t \in Sessions \ {s} : ~StillNew(t) /\ pc[t] # "putUser"
    BY <2>1 DEF LoginInv, Alone, InFlight, InFlightPCs
  <2> QED BY <2>1, <2>2, <2>3, <2>4 DEF UsersInv
<1>5. ASSUME NEW s \in Sessions, ThreadStep(s), ~CheckKnown(s), ~PutUser(s)
      PROVE  UsersInv'
  <2>1. CASE PutOnline(s) \/ CountOnline(s) \/ RemoveOnline(s)
    BY <2>1, AloneNothingThrows DEF PutOnline, CountOnline, RemoveOnline, UsersInv
  <2>2. CASE ~PutOnline(s) /\ ~CountOnline(s) /\ ~RemoveOnline(s)
    BY <1>5, <2>2
       DEF ThreadStep, Login, CheckActive, AddOnline, AddUser, MakeDirs,
           LookupSlot, LookupEnds, UsersInv
  <2> QED BY <2>1, <2>2
<1>6. CASE UNCHANGED vars BY <1>6 DEF vars, UsersInv
<1> QED BY <1>1, <1>2, <1>3, <1>4, <1>5, <1>6 DEF Next

RefinementInv == SpacedInv /\ UsersInv

LEMMA RefinementInvInit == Init => RefinementInv
  BY SpacedInvInit, UsersInvInit DEF RefinementInv

LEMMA RefinementInvStep ==
  ASSUME Spaced PROVE RefinementInv /\ [Next]_vars => RefinementInv'
  BY SpacedInvStep, UsersInvStep DEF RefinementInv

-----------------------------------------------------------------------------
(* The refinement: what AtomicRegistry sees of the lists and the sessions. *)
Active == Members(online)
Known  == Members(userArray) \cup Registering
Stage  == [s \in Sessions |-> StageOf(s)]
Who    == [s \in Sessions |-> UserOf(s)]
Again  == [s \in Sessions |-> AgainOf(s)]
Abstract == <<Active, Known, Stage, Who, Again>>

LEMMA HasMember == \A list, e : Has(list, e) <=> e \in Members(list)
  BY DEF Has, Members

(* A step of one session changes that session's entries and no other's.    *)
OnlyMoves(s) ==
  \A t \in Sessions \ {s} :
    pc'[t] = pc[t] /\ user'[t] = user[t] /\ returning'[t] = returning[t]

LEMMA SessionMoves ==
  ASSUME NEW s \in Sessions, OnlyMoves(s)
  PROVE  /\ Stage' = [Stage EXCEPT ![s] = StageOf(s)']
         /\ Who' = [Who EXCEPT ![s] = UserOf(s)']
         /\ Again' = [Again EXCEPT ![s] = AgainOf(s)']
<1>1. \A t \in Sessions \ {s} : StageOf(t)' = StageOf(t) BY DEF OnlyMoves, StageOf
<1>2. \A t \in Sessions \ {s} : UserOf(t)' = UserOf(t) BY <1>1 DEF OnlyMoves, UserOf
<1>3. \A t \in Sessions \ {s} : AgainOf(t)' = AgainOf(t) BY <1>1 DEF OnlyMoves, AgainOf
<1> QED BY <1>1, <1>2, <1>3 DEF Stage, Who, Again

(* Users that are about to be registered, after a step of one session.     *)
LEMMA RegisteringKept ==
  ASSUME NEW s \in Sessions, OnlyMoves(s),
         pc'[s] \in {"addUser", "putUser"} <=> pc[s] \in {"addUser", "putUser"},
         user'[s] = user[s] \/ pc[s] \notin {"addUser", "putUser"}
  PROVE  Registering' = Registering
  BY DEF Registering, OnlyMoves

(* Steps before the list is written to, and between a login and a logout.  *)
LEMMA NothingSeen ==
  ASSUME NEW s \in Sessions, OnlyMoves(s), UNCHANGED <<online, userArray>>,
         pc'[s] \in {"addUser", "putUser"} <=> pc[s] \in {"addUser", "putUser"},
         user'[s] = user[s] \/ pc[s] \notin {"addUser", "putUser"},
         StageOf(s)' = StageOf(s),
         StageOf(s) # "out" => user'[s] = user[s] /\ returning'[s] = returning[s]
  PROVE  UNCHANGED Abstract
<1>1. UserOf(s)' = UserOf(s) /\ AgainOf(s)' = AgainOf(s) BY DEF UserOf, AgainOf
<1>2. UNCHANGED <<Stage, Who, Again>> BY <1>1, SessionMoves DEF Stage, Who, Again
<1>3. Registering' = Registering BY RegisteringKept
<1>4. UNCHANGED <<Active, Known>> BY <1>3 DEF Active, Known, Members, Visible, Slot
<1> QED BY <1>2, <1>4 DEF Abstract

(* A session that has logged in is the only one listed for its user, and   *)
(* its user is active as long as the session lives.                        *)
LEMMA ListedIsOnline ==
  ASSUME RefinementInv, NEW s \in Sessions, Listed(s)
  PROVE  Has(online, user[s])
  BY HasMember DEF RefinementInv, SpacedInv, ListsInv, ActiveListExact

(* The second half of currentUserArray.add is where a session enters.      *)
LEMMA PutOnlineEnters ==
  ASSUME RefinementInv, NEW s \in Sessions, PutOnline(s)
  PROVE  Registry!Enter(s, user[s])
<1> DEFINE u == user[s]
<1> USE DEF RefinementInv, SpacedInv, TypeInv, TypeOK, Goto
<1>1. /\ pc[s] = "putOnline" /\ online \in Lists(Users) /\ online.size \in Nat
      /\ online' \in Added(online, online.size, u)
      /\ pc' = [pc EXCEPT ![s] = IF returning[s] THEN "ready" ELSE "addUser"]
      /\ UNCHANGED <<userArray, user, returning>>
  BY DEF PutOnline, mainVars, LoginInv, UpToDate, AddMayThrow, Outgrown, Lists
<1>2. u \in Users /\ u \notin Members(online)
  BY <1>1 DEF HasId, PastPrompt, InFlightPCs, LoginInv, StillInactive
<1>3. Members(online') = Members(online) \cup {u} BY <1>1, AddAlone
<1>4. \A t \in Sessions : pc[t] \notin {"addUser", "putUser"}
  BY <1>1 DEF LoginInv, Alone, InFlight, InFlightPCs
<1>5. Registering = {} /\ Registering' = IF returning[s] THEN {} ELSE {u}
  BY <1>1, <1>4 DEF Registering
<1>6. /\ returning[s] => u \in Members(userArray)
      /\ ~returning[s] => u \notin Members(userArray)
  BY <1>1 DEF UsersInv, FoundOrAdded, StillNew
<1>7. StageOf(s) = "out" /\ StageOf(s)' = "in" BY <1>1 DEF StageOf, ListedPCs
<1>8. UserOf(s)' = u /\ AgainOf(s)' = returning[s] BY <1>1, <1>7 DEF UserOf, AgainOf
<1>9. /\ Stage' = [Stage EXCEPT ![s] = "in"] /\ Who' = [Who EXCEPT ![s] = u]
      /\ Again' = [Again EXCEPT ![s] = returning[s]]
  BY <1>1, <1>7, <1>8, SessionMoves DEF OnlyMoves
<1>10. u \in Known <=> returning[s] BY <1>5, <1>6 DEF Known
<1>11. Known' = Known \cup {u} BY <1>1, <1>5, <1>6 DEF Known, Members, Visible, Slot
<1>12. /\ Stage[s] = "out" /\ u \notin Active
       /\ Active' = Active \cup {u}
  BY <1>2, <1>3, <1>7 DEF Stage, Active
<1>13. (u \in Known) = returning[s] BY <1>10
<1> QED BY <1>9, <1>11, <1>12, <1>13 DEF Registry!Enter, Active, Known, Stage, Who, Again

(* Finding the id in currentUserArray is where a session is denied.        *)
LEMMA CheckActiveDenies ==
  ASSUME RefinementInv, NEW s \in Sessions, CheckActive(s), Has(online, user[s])
  PROVE  Registry!Deny(s, user[s])
<1> USE DEF RefinementInv, SpacedInv, TypeInv, TypeOK, Goto
<1>1. /\ pc[s] = "checkActive" /\ pc' = [pc EXCEPT ![s] = "denied"]
      /\ UNCHANGED <<online, userArray, user, returning>>
  BY DEF CheckActive, shared
<1>2. OnlyMoves(s) BY <1>1 DEF OnlyMoves
<1>3. StageOf(s) = "out" /\ StageOf(s)' = "denied" BY <1>1 DEF StageOf, ListedPCs
<1>4. UserOf(s)' = user[s] /\ AgainOf(s)' = FALSE /\ AgainOf(s) = FALSE
  BY <1>1, <1>3 DEF UserOf, AgainOf
<1>5. /\ Stage' = [Stage EXCEPT ![s] = "denied"] /\ Who' = [Who EXCEPT ![s] = user[s]]
      /\ Again' = Again
  BY <1>2, <1>3, <1>4, SessionMoves DEF Again
<1>6. UNCHANGED <<Active, Known>>
  BY <1>1, <1>2, RegisteringKept DEF Active, Known, Members, Visible, Slot
<1>7. Stage[s] = "out" /\ user[s] \in Active BY <1>3, HasMember DEF Stage, Active
<1> QED BY <1>5, <1>6, <1>7 DEF Registry!Deny, Active, Known, Stage, Who, Again

(* The last part of currentUserArray.remove is where a session leaves.     *)
LEMMA RemoveOnlineLeaves ==
  ASSUME RefinementInv, NEW s \in Sessions, RemoveOnline(s)
  PROVE  Registry!Leave(s)
<1> DEFINE u == user[s]
<1> USE DEF RefinementInv, SpacedInv, TypeInv, TypeOK, Goto
<1>1. /\ pc[s] = "removeOnline" /\ online \in Lists(Users) /\ size[s] = online.size
      /\ index[s] \in Visible(online) /\ Slot(online, index[s]) = u /\ Distinct(online)
  BY DEF RemoveOnline, LoginInv, UpToDate, ListsInv, ActiveListExact
<1>2. /\ online' \in Dropped(online, index[s], online.size)
      /\ pc' = [pc EXCEPT ![s] = "closed"]
      /\ UNCHANGED <<userArray, user, returning>>
  BY <1>1, AloneNothingThrows DEF RemoveOnline, mainVars
<1>3. Members(online') = Members(online) \ {u} BY <1>1, <1>2, RemoveAlone
<1>4. OnlyMoves(s) BY <1>2 DEF OnlyMoves
<1>5. StageOf(s) = "in" /\ StageOf(s)' = "left" BY <1>1, <1>2 DEF StageOf, ListedPCs
<1>6. UserOf(s) = u /\ UserOf(s)' = Null /\ AgainOf(s)' = FALSE
  BY <1>5 DEF UserOf, AgainOf
<1>7. /\ Stage' = [Stage EXCEPT ![s] = "left"] /\ Who' = [Who EXCEPT ![s] = Null]
      /\ Again' = [Again EXCEPT ![s] = FALSE]
  BY <1>4, <1>5, <1>6, SessionMoves
<1>8. Known' = Known
  BY <1>1, <1>2, <1>4, RegisteringKept DEF Known, Members, Visible, Slot
<1>9. Stage[s] = "in" /\ Who[s] = u /\ Active' = Active \ {u}
  BY <1>3, <1>5, <1>6 DEF Stage, Who, Active
<1> QED BY <1>7, <1>8, <1>9 DEF Registry!Leave, Active, Known, Stage, Who, Again

(* An exception that ends a served session takes nobody out of the list.   *)
LEMMA ExceptionKills ==
  ASSUME RefinementInv, NEW s \in Sessions, Serving(s),
         Goto(s, "abandoned"), UNCHANGED <<online, userArray, user, returning>>
  PROVE  Registry!Die(s)
<1> USE DEF RefinementInv, SpacedInv, TypeInv, TypeOK, Goto
<1>1. OnlyMoves(s) /\ pc'[s] = "abandoned" BY DEF OnlyMoves
<1>2. StageOf(s) = "in" /\ StageOf(s)' = "dead" BY <1>1 DEF StageOf, ListedPCs, Serving
<1>3. UserOf(s)' = UserOf(s) /\ AgainOf(s)' = AgainOf(s) BY <1>2 DEF UserOf, AgainOf
<1>4. Stage' = [Stage EXCEPT ![s] = "dead"] /\ Who' = Who /\ Again' = Again
  BY <1>1, <1>2, <1>3, SessionMoves DEF Who, Again
<1>5. UNCHANGED <<Active, Known>>
  BY <1>1, RegisteringKept DEF Serving, Active, Known, Members, Visible, Slot
<1>6. Stage[s] = "in" BY <1>2 DEF Stage
<1> QED BY <1>4, <1>5, <1>6 DEF Registry!Die, Active, Known, Stage, Who, Again

(* A client that is gone before its login took effect.                     *)
LEMMA GoneBefore ==
  ASSUME RefinementInv, NEW s \in Sessions, OnlyMoves(s),
         StageOf(s) = "out", pc'[s] = "closed", UNCHANGED <<online, userArray>>
  PROVE  Registry!Fail(s)
<1>1. StageOf(s)' = "left" BY DEF StageOf, ListedPCs
<1>2. UserOf(s)' = UserOf(s) /\ AgainOf(s)' = AgainOf(s) BY <1>1 DEF UserOf, AgainOf
<1>3. Stage' = [Stage EXCEPT ![s] = "left"] /\ Who' = Who /\ Again' = Again
  BY <1>1, <1>2, SessionMoves DEF Who, Again
<1>4. UNCHANGED <<Active, Known>>
  BY RegisteringKept DEF StageOf, ListedPCs, Active, Known, Members, Visible, Slot
<1>5. Stage[s] = "out" BY DEF Stage
<1> QED BY <1>3, <1>4, <1>5 DEF Registry!Fail, Active, Known, Stage, Who, Again

(* userArray.add registers a user who counts as known already.             *)
LEMMA PutUserUnseen ==
  ASSUME RefinementInv, NEW s \in Sessions, PutUser(s)
  PROVE  UNCHANGED Abstract
<1> DEFINE u == user[s]
<1> USE DEF RefinementInv, SpacedInv, TypeInv, TypeOK, Goto
<1>0. userArray \in Lists(Users) /\ userArray.size \in Nat BY DEF Lists
<1>1. /\ pc[s] = "putUser"
      /\ userArray' \in Added(userArray, userArray.size, u)
      /\ pc' = [pc EXCEPT ![s] = "makeDirs"]
      /\ UNCHANGED <<online, user, returning>>
  BY AloneNothingThrows DEF PutUser
<1>2. Members(userArray') = Members(userArray) \cup {u} BY <1>0, <1>1, AddAlone
<1>3. \A t \in Sessions \ {s} : pc[t] \notin {"addUser", "putUser"}
  BY <1>1 DEF LoginInv, Alone, InFlight, InFlightPCs
<1>4. Registering = {u} /\ Registering' = {} BY <1>1, <1>3 DEF Registering
<1>5. Known' = Known /\ Active' = Active
  BY <1>1, <1>2, <1>4 DEF Known, Active, Members, Visible, Slot
<1>6. OnlyMoves(s) BY <1>1 DEF OnlyMoves
<1>7. StageOf(s) = "in" /\ StageOf(s)' = "in" BY <1>1 DEF StageOf, ListedPCs
<1>8. UserOf(s)' = UserOf(s) /\ AgainOf(s)' = AgainOf(s) BY <1>1, <1>7 DEF UserOf, AgainOf
<1>9. UNCHANGED <<Stage, Who, Again>> BY <1>6, <1>7, <1>8, SessionMoves DEF Stage, Who, Again
<1> QED BY <1>5, <1>9 DEF Abstract

(* Every step is a move of one session that AtomicRegistry has, or unseen. *)
LEMMA RefinementStep ==
  ASSUME RefinementInv, [Next]_vars
  PROVE  [Registry!Next]_Abstract
<1> USE DEF RefinementInv, SpacedInv, TypeInv, TypeOK, Goto, shared, mainVars
<1>1. \A s \in Sessions : pc[s] \in PastPrompt => user[s] \in Users
  BY DEF HasId
<1>2. CASE Accept
  <2>1. PICK h \in Sessions : pc[h] = "dialled" /\ pc' = [pc EXCEPT ![h] = "handshake"]
    BY <1>2, AcceptsDialled
  <2>2. OnlyMoves(h) /\ StageOf(h)' = StageOf(h) /\ UNCHANGED <<online, userArray, user, returning>>
    BY <1>2, <2>1 DEF Accept, OnlyMoves, StageOf, ListedPCs
  <2> QED BY <2>1, <2>2, NothingSeen
<1>3. ASSUME NEW s \in Sessions, ClientStep(s) PROVE [Registry!Next]_Abstract
  <2>1. OnlyMoves(s) /\ UNCHANGED <<online, userArray>>
    BY <1>3
       DEF OnlyMoves, ClientStep, Dial, StartSession, HandshakeFails, ReceiveId, LoginFails,
           LookupOwnFiles, LookupOtherFiles, Abandon, Logout
  <2>2. CASE LookupOwnFiles(s) \/ Abandon(s)
    <3>1. Registry!Die(s)
      BY <2>2, ExceptionKills DEF LookupOwnFiles, Abandon, Serving
    <3> QED BY <3>1 DEF Registry!Next
  <2>3. CASE HandshakeFails(s) \/ LoginFails(s)
    <3>1. StageOf(s) = "out" /\ pc'[s] = "closed"
      BY <2>3 DEF HandshakeFails, LoginFails, StageOf, ListedPCs
    <3>2. Registry!Fail(s) BY <2>1, <3>1, GoneBefore
    <3> QED BY <3>2 DEF Registry!Next
  <2>4. CASE Logout(s)
    <3>1. Has(online, user[s])
      BY <2>4, ListedIsOnline DEF Logout, Listed, ListedPCs
    <3>2. pc[s] = "ready" /\ pc'[s] = "countOnline" /\ UNCHANGED <<user, returning>>
      BY <2>4, <3>1 DEF Logout
    <3>3. StageOf(s)' = StageOf(s) BY <3>2 DEF StageOf, ListedPCs
    <3> QED BY <2>1, <3>2, <3>3, NothingSeen
  <2>5. CASE Dial(s) \/ StartSession(s) \/ \E u \in Users : ReceiveId(s, u)
    <3>1. /\ pc[s] \in {"free", "handshake", "connected"}
          /\ pc'[s] \in {"dialled", "connected", "checkActive"}
      BY <2>5 DEF Dial, StartSession, ReceiveId
    <3>2. StageOf(s) = "out" /\ StageOf(s)' = "out" BY <3>1 DEF StageOf, ListedPCs
    <3> QED BY <2>1, <3>1, <3>2, NothingSeen
  <2>6. CASE LookupOtherFiles(s)
    <3>1. pc[s] = "ready" /\ pc'[s] = "looking" /\ UNCHANGED <<user, returning>>
      BY <2>6 DEF LookupOtherFiles
    <3>2. StageOf(s)' = StageOf(s) BY <3>1 DEF StageOf, ListedPCs
    <3> QED BY <2>1, <3>1, <3>2, NothingSeen
  <2> QED BY <1>3, <2>2, <2>3, <2>4, <2>5, <2>6 DEF ClientStep
<1>4. ASSUME NEW s \in Sessions, ThreadStep(s) PROVE [Registry!Next]_Abstract
  <2>1. CASE PutOnline(s)
    <3>1. user[s] \in Users BY <1>1, <2>1 DEF PutOnline, PastPrompt, InFlightPCs
    <3> QED BY <2>1, <3>1, PutOnlineEnters DEF Registry!Next
  <2>2. CASE RemoveOnline(s) BY <2>2, RemoveOnlineLeaves DEF Registry!Next
  <2>3. CASE PutUser(s) BY <2>3, PutUserUnseen
  <2>4. CASE LookupSlot(s) /\ Goto(s, "abandoned")
    <3>1. Registry!Die(s) BY <2>4, ExceptionKills DEF LookupSlot, Serving
    <3> QED BY <3>1 DEF Registry!Next
  <2>5. CASE LookupSlot(s) /\ ~Goto(s, "abandoned")
    <3>1. pc' = pc /\ UNCHANGED <<online, userArray, user, returning>>
      BY <2>5 DEF LookupSlot
    <3> QED BY <3>1, NothingSeen DEF OnlyMoves, StageOf
  <2>6. CASE CheckActive(s) /\ Has(online, user[s])
    <3>1. user[s] \in Users BY <1>1, <2>6 DEF CheckActive, PastPrompt, InFlightPCs
    <3> QED BY <2>6, <3>1, CheckActiveDenies DEF Registry!Next
  <2>7. CASE CheckActive(s) /\ ~Has(online, user[s])
    <3>1. pc[s] = "checkActive" /\ pc'[s] = "checkKnown" /\ OnlyMoves(s)
          /\ UNCHANGED <<online, userArray, user, returning>>
      BY <2>7 DEF CheckActive, OnlyMoves
    <3>2. StageOf(s)' = StageOf(s) BY <3>1 DEF StageOf, ListedPCs
    <3> QED BY <3>1, <3>2, NothingSeen
  <2>8. CASE CheckKnown(s)
    <3>1. /\ pc[s] = "checkKnown" /\ pc'[s] \in {"addOnline", "closed"} /\ OnlyMoves(s)
          /\ UNCHANGED <<online, userArray, user>>
      BY <2>8 DEF CheckKnown, OnlyMoves
    <3>2. StageOf(s) = "out" /\ (pc'[s] = "addOnline" => StageOf(s)' = "out")
      BY <3>1 DEF StageOf, ListedPCs
    <3>3. CASE pc'[s] = "addOnline" BY <3>1, <3>2, <3>3, NothingSeen
    <3>4. CASE pc'[s] = "closed"
      <4>1. Registry!Fail(s) BY <3>1, <3>2, <3>4, GoneBefore
      <4> QED BY <4>1 DEF Registry!Next
    <3> QED BY <3>1, <3>3, <3>4
  <2>9. CASE AddOnline(s) \/ AddUser(s) \/ MakeDirs(s) \/ LookupEnds(s) \/ CountOnline(s)
    <3>1. /\ OnlyMoves(s) /\ UNCHANGED <<online, userArray, user, returning>>
          /\ \/ pc[s] = "addOnline" /\ pc'[s] = "putOnline"
             \/ pc[s] = "addUser" /\ pc'[s] = "putUser"
             \/ pc[s] = "makeDirs" /\ pc'[s] = "ready"
             \/ pc[s] = "looking" /\ pc'[s] = "ready"
             \/ pc[s] = "countOnline" /\ pc'[s] = "removeOnline"
      BY <2>9, AloneNothingThrows
         DEF AddOnline, AddUser, MakeDirs, LookupEnds, CountOnline, OnlyMoves
    <3>2. StageOf(s)' = StageOf(s) BY <3>1 DEF StageOf, ListedPCs
    <3> QED BY <3>1, <3>2, NothingSeen
  <2> QED BY <1>4, <2>1, <2>2, <2>3, <2>4, <2>5, <2>6, <2>7, <2>8, <2>9 DEF ThreadStep, Login
<1>5. CASE UNCHANGED vars
  BY <1>5 DEF vars, Abstract, Active, Known, Stage, Who, Again, Registering, StageOf, UserOf,
              AgainOf, Members, Visible, Slot
<1> QED BY <1>2, <1>3, <1>4, <1>5 DEF Next

(* As long as logins and logouts do not overlap, the server's unlocked     *)
(* lists implement an atomic registry: each session enters (and is         *)
(* welcomed again or not), is denied, leaves or dies in one step on one    *)
(* set of active users, whatever the list operations are made of.          *)
THEOREM RegistryRefinesAtomic ==
  ASSUME Spaced PROVE Spec => RegistryIsAtomic
<1>1. Init => Registry!Init
  <2> SUFFICES ASSUME Init PROVE Registry!Init OBVIOUS
  <2>1. \A s \in Sessions : StageOf(s) = "out" BY DEF Init, StageOf, ListedPCs
  <2>2. \A s \in Sessions : UserOf(s) = Null /\ AgainOf(s) = FALSE
    BY <2>1 DEF UserOf, AgainOf
  <2>3. Members(online) = {} /\ Members(userArray) = {} /\ Registering = {}
    BY DEF Init, EmptyList, Members, Visible, Registering
  <2> QED BY <2>1, <2>2, <2>3 DEF Registry!Init
<1>2. RefinementInv /\ [Next]_vars => [Registry!Next]_Abstract BY RefinementStep
<1> QED BY RefinementInvInit, RefinementInvStep, <1>1, <1>2, PTL
        DEF Spec, RegistryIsAtomic, Registry!Spec, Registry!vars, Abstract, Active, Known,
            Stage, Who, Again

-----------------------------------------------------------------------------
(* The student list *)

(* The student list that a served session asks for names every registered  *)
(* user once, but a returning caller whose id is boxed anew twice.         *)
THEOREM StudentListIsExact ==
  ASSUME Spaced PROVE Spec => []StudentListExact
<1>1. ASSUME RefinementInv PROVE StudentListExact
  <2> SUFFICES ASSUME NEW s \in Sessions, Serving(s), NEW u \in Users
               PROVE  TimesListed(s, u) =
                        IF ~Has(userArray, u) THEN 0
                        ELSE IF u = user[s] /\ returning[s] /\ u \notin SmallIds THEN 2 ELSE 1
    BY DEF StudentListExact
  <2> DEFINE Entries == {i \in Visible(userArray) : Slot(userArray, i) = u /\ ~IsOwnEntry(s, u)}
  <2>1. Has(userArray, user[s])
    BY <1>1, HasMember DEF RefinementInv, UsersInv, FoundOrAdded, Serving
  <2>2. CASE ~Has(userArray, u) \/ IsOwnEntry(s, u)
    <3>1. Entries = {} BY <2>2 DEF Has
    <3>2. Cardinality(Entries) = 0 BY <3>1, FS_EmptySet
    <3> QED BY <2>1, <2>2, <3>2 DEF TimesListed, IsOwnEntry
  <2>3. CASE Has(userArray, u) /\ ~IsOwnEntry(s, u)
    <3>1. PICK i \in Visible(userArray) : Slot(userArray, i) = u BY <2>3 DEF Has
    <3>2. Entries = {i} BY <1>1, <2>3, <3>1 DEF RefinementInv, UsersInv, Distinct
    <3>3. Cardinality(Entries) = 1 BY <3>2, FS_Singleton
    <3> QED BY <2>3, <3>3 DEF TimesListed, IsOwnEntry
  <2> QED BY <2>2, <2>3
<1> QED BY RefinementInvInit, RefinementInvStep, <1>1, PTL DEF Spec
=============================================================================
