-------------------------- MODULE SessionRegistry --------------------------
(***************************************************************************)
(* The classroom file server's accept loop (Server.main) and the life of   *)
(* one session per connection (ServiceProvider.run): login, the lookups,   *)
(* logout, and the end of a session by an exception.                       *)
(*                                                                         *)
(* Every ServiceProvider runs on a thread of its own; all of them read and *)
(* write Server.userArray and Server.currentUserArray with no lock.  An    *)
(* action is what a thread does between two accesses to shared state, so   *)
(* the check of login() and the additions it leads to are separate steps,  *)
(* an ArrayList.add is two and a remove is three.                          *)
(***************************************************************************)
EXTENDS ArrayLists, FiniteSets

CONSTANTS
  Sessions,   \* connections: the client, its socket and its ServiceProvider
  Users,      \* the ids clients may type at the login prompt
  SmallIds,   \* the ids whose boxed Integer the JVM caches (-128..127)
  Spaced      \* TRUE: a login id or a logout reaches the server only when no
              \* other login or logout is being processed (a quiet classroom);
              \* FALSE: they may overlap, as the threads allow

ASSUME RegistryAssumption ==
  /\ Null \notin Users
  /\ SmallIds \subseteq Users
  /\ Spaced \in BOOLEAN

VARIABLES
  acceptor,    \* Server.main: waiting in accept, shaking hands, or dead
  backlog,     \* connections the operating system holds for accept()
  threads,     \* Server.threadArrayList
  userArray,   \* Server.userArray: every id that ever registered
  online,      \* Server.currentUserArray
  folders,     \* users whose four upload/download directories exist
  pc,          \* where each session's thread stands
  user,        \* the id the session's client typed (ServiceProvider.id)
  returning,   \* login() took the "welcome again" branch
  index,       \* slot a loop or a remove has reached
  size         \* list size an add or a remove has read last

vars == <<acceptor, backlog, threads, userArray, online, folders,
          pc, user, returning, index, size>>
shared == <<acceptor, backlog, threads, userArray, online, folders>>
mainVars == <<acceptor, backlog, threads>>

(* Positions of a thread inside login() and logout(). *)
InFlightPCs == {"checkActive", "checkKnown", "addOnline", "putOnline",
                "addUser", "putUser", "makeDirs", "countOnline", "removeOnline"}
(* Positions of a thread that is listed in currentUserArray for its user:  *)
(* it has been added, and has not been removed by logout().                *)
ListedPCs == {"addUser", "putUser", "makeDirs", "ready", "looking",
              "countOnline", "removeOnline", "abandoned"}
(* "closed" and "denied": the socket is closed, or its client is gone.     *)
(* "crashed": a list operation threw, the thread has ended, and the client *)
(* waits on an open socket; "abandoned": the same with the id still listed.*)
PCs == InFlightPCs \cup ListedPCs \cup
       {"free", "dialled", "handshake", "connected", "denied", "closed", "crashed"}

InFlight(s) == pc[s] \in InFlightPCs
Listed(s)   == pc[s] \in ListedPCs
Serving(s)  == pc[s] \in {"ready", "looking"}

Goto(s, p) == pc' = [pc EXCEPT ![s] = p]

(* The environment's assumption on when a login id or a logout arrives. *)
MayStart(s) == Spaced => \A t \in Sessions : ~InFlight(t)

TypeOK ==
  /\ acceptor \in {"waiting", "handshaking", "dead"}
  /\ backlog \in Seq(Sessions) /\ threads \in Seq(Sessions)
  /\ userArray \in Lists(Users) /\ userArray.size >= 0
  /\ online \in Lists(Users)
  /\ folders \subseteq Users
  /\ pc \in [Sessions -> PCs]
  /\ user \in [Sessions -> Users \cup {Null}]
  /\ returning \in [Sessions -> BOOLEAN]
  /\ index \in [Sessions -> Nat] /\ size \in [Sessions -> Int]

Init ==
  /\ acceptor = "waiting" /\ backlog = <<>> /\ threads = <<>>
  /\ userArray = EmptyList /\ online = EmptyList /\ folders = {}
  /\ pc = [s \in Sessions |-> "free"]
  /\ user = [s \in Sessions |-> Null]
  /\ returning = [s \in Sessions |-> FALSE]
  /\ index = [s \in Sessions |-> 0] /\ size = [s \in Sessions |-> 0]

-----------------------------------------------------------------------------
(* The accept loop.  The ServiceProvider constructor runs on the main      *)
(* thread and blocks until the client's ObjectOutputStream header arrives. *)

(* A client connects: Client.main, new Socket. *)
Dial(s) ==
  /\ pc[s] = "free"
  /\ Goto(s, "dialled")
  /\ backlog' = Append(backlog, s)
  /\ UNCHANGED <<acceptor, threads, userArray, online, folders,
                 user, returning, index, size>>

(* serverSocket.accept() returns the oldest connection. *)
Accept ==
  /\ acceptor = "waiting" /\ backlog # <<>>
  /\ acceptor' = "handshaking"
  /\ Goto(Head(backlog), "handshake")
  /\ backlog' = Tail(backlog)
  /\ UNCHANGED <<threads, userArray, online, folders, user, returning, index, size>>

(* The stream header arrives: the provider is listed and its thread started;*)
(* login() writes the prompt and blocks reading the id.                    *)
StartSession(s) ==
  /\ pc[s] = "handshake"
  /\ acceptor' = "waiting"
  /\ threads' = Append(threads, s)
  /\ Goto(s, "connected")
  /\ UNCHANGED <<backlog, userArray, online, folders, user, returning, index, size>>

(* Faulty variant: the exception is swallowed, but accept() is not resumed. *)
HandshakeFailsSilently(s) ==
  /\ pc[s] = "handshake"
  /\ Goto(s, "closed")
  /\ UNCHANGED <<shared, user, returning, index, size>>

(* The client is gone before its header: the constructor throws out of     *)
(* main, and nothing accepts connections any more.                         *)
HandshakeFails(s) ==
  /\ pc[s] = "handshake"
  /\ acceptor' = "dead"
  /\ Goto(s, "closed")
  /\ UNCHANGED <<backlog, threads, userArray, online, folders, user, returning, index, size>>

-----------------------------------------------------------------------------
(* login() *)

(* in.readObject returns the id. *)
ReceiveId(s, u) ==
  /\ pc[s] = "connected" /\ MayStart(s)
  /\ user' = [user EXCEPT ![s] = u]
  /\ Goto(s, "checkActive")
  /\ UNCHANGED <<shared, returning, index, size>>

(* The client vanishes at the prompt, or types no number. *)
LoginFails(s) ==
  /\ pc[s] = "connected"
  /\ Goto(s, "closed")
  /\ UNCHANGED <<shared, user, returning, index, size>>

(* Faulty variant: the check looks an id up in the wrong list. *)
CheckActiveInUserArray(s) ==
  /\ pc[s] = "checkActive"
  /\ Goto(s, IF Has(online, user[s]) /\ ~Has(userArray, user[s]) THEN "denied" ELSE "checkKnown")
  /\ UNCHANGED <<shared, user, returning, index, size>>

(* Faulty variant: an active id is made to wait instead of being denied. *)
CheckActiveWaits(s) ==
  /\ pc[s] = "checkActive" /\ ~Has(online, user[s])
  /\ Goto(s, "checkKnown")
  /\ UNCHANGED <<shared, user, returning, index, size>>

(* currentUserArray.contains: a listed id is denied and its socket closed. *)
CheckActive(s) ==
  /\ pc[s] = "checkActive"
  /\ Goto(s, IF Has(online, user[s]) THEN "denied" ELSE "checkKnown")
  /\ UNCHANGED <<shared, user, returning, index, size>>

(* Faulty variant: the lists are mixed up, and nobody is ever known.        *)
CheckKnownInOnline(s) ==
  /\ pc[s] = "checkKnown"
  /\ returning' = [returning EXCEPT ![s] = Has(online, user[s])]
  /\ \/ Goto(s, "addOnline")
     \/ Goto(s, "closed")
  /\ UNCHANGED <<shared, user, index, size>>

(* userArray.contains, then the welcome is written: to a client that is    *)
(* gone, the write throws and nothing has been recorded yet.               *)
CheckKnown(s) ==
  /\ pc[s] = "checkKnown"
  /\ returning' = [returning EXCEPT ![s] = Has(userArray, user[s])]
  /\ \/ Goto(s, "addOnline")
     \/ Goto(s, "closed")
  /\ UNCHANGED <<shared, user, index, size>>

(* currentUserArray.add(userId), first half. *)
AddOnline(s) ==
  /\ pc[s] = "addOnline"
  /\ size' = [size EXCEPT ![s] = online.size]
  /\ Goto(s, "putOnline")
  /\ UNCHANGED <<shared, user, returning, index>>

(* Faulty variant: a returning user is registered once more. *)
PutOnlineRegistersAll(s) ==
  /\ pc[s] = "putOnline"
  /\ \/ /\ size[s] >= 0
        /\ online' \in Added(online, size[s], user[s])
        /\ Goto(s, "addUser")
     \/ /\ AddMayThrow(online, size[s])
        /\ Goto(s, "crashed") /\ UNCHANGED online
  /\ size' = [size EXCEPT ![s] = 0]
  /\ UNCHANGED <<mainVars, userArray, folders, user, returning, index>>

(* Second half: a returning user is now served, a new one is registered;   *)
(* an exception ends the thread of a client that has read its welcome.     *)
PutOnline(s) ==
  /\ pc[s] = "putOnline"
  /\ \/ /\ size[s] >= 0
        /\ online' \in Added(online, size[s], user[s])
        /\ Goto(s, IF returning[s] THEN "ready" ELSE "addUser")
     \/ /\ AddMayThrow(online, size[s])
        /\ Goto(s, "crashed") /\ UNCHANGED online
  /\ size' = [size EXCEPT ![s] = 0]
  /\ UNCHANGED <<mainVars, userArray, folders, user, returning, index>>

(* userArray.add(userId), in two halves. *)
AddUser(s) ==
  /\ pc[s] = "addUser"
  /\ size' = [size EXCEPT ![s] = userArray.size]
  /\ Goto(s, "putUser")
  /\ UNCHANGED <<shared, user, returning, index>>

(* Faulty variant: the session is served before its directories are made. *)
PutUserNoDirs(s) ==
  /\ pc[s] = "putUser"
  /\ \/ /\ userArray' \in Added(userArray, size[s], user[s])
        /\ Goto(s, "ready")
     \/ /\ AddMayThrow(userArray, size[s])
        /\ Goto(s, "abandoned") /\ UNCHANGED userArray
  /\ size' = [size EXCEPT ![s] = 0]
  /\ UNCHANGED <<mainVars, online, folders, user, returning, index>>

(* An exception here leaves the id listed as active, but not registered.   *)
PutUser(s) ==
  /\ pc[s] = "putUser"
  /\ \/ /\ userArray' \in Added(userArray, size[s], user[s])
        /\ Goto(s, "makeDirs")
     \/ /\ AddMayThrow(userArray, size[s])
        /\ Goto(s, "abandoned") /\ UNCHANGED userArray
  /\ size' = [size EXCEPT ![s] = 0]
  /\ UNCHANGED <<mainVars, online, folders, user, returning, index>>

(* The four mkdir() calls; one that exists already is left as it is. *)
MakeDirs(s) ==
  /\ pc[s] = "makeDirs"
  /\ folders' = folders \cup {user[s]}
  /\ Goto(s, "ready")
  /\ UNCHANGED <<mainVars, userArray, online, user, returning, index, size>>

-----------------------------------------------------------------------------
(* The command loop of run() *)

(* lookupOwnFiles: list() of a directory that is missing is null, and the  *)
(* NullPointerException ends the thread; otherwise only a reply is written.*)
LookupOwnFiles(s) ==
  /\ pc[s] = "ready" /\ user[s] \notin folders
  /\ Goto(s, "abandoned")
  /\ UNCHANGED <<shared, user, returning, index, size>>

(* lookupOtherFiles: a loop over userArray, one slot a step. *)
LookupOtherFiles(s) ==
  /\ pc[s] = "ready"
  /\ index' = [index EXCEPT ![s] = 1]
  /\ Goto(s, "looking")
  /\ UNCHANGED <<shared, user, returning, size>>

(* Faulty variant: the caller's own slot is skipped without moving on. *)
LookupSlotStuck(s) ==
  LET u == Slot(userArray, index[s])
  IN  /\ pc[s] = "looking" /\ index[s] \in Visible(userArray)
      /\ IF u # Null /\ (u = user[s] \/ u \in folders)
           THEN /\ index' = [index EXCEPT ![s] = index[s] + (IF u = user[s] THEN 0 ELSE 1)]
                /\ UNCHANGED pc
           ELSE /\ index' = [index EXCEPT ![s] = 0]
                /\ Goto(s, "abandoned")
      /\ UNCHANGED <<shared, user, returning, size>>

(* The caller's own slot is skipped; an empty slot, or a user whose public   *)
(* directory is missing, throws and ends the thread.                       *)
LookupSlot(s) ==
  LET u == Slot(userArray, index[s])
  IN  /\ pc[s] = "looking" /\ index[s] \in Visible(userArray)
      /\ IF u # Null /\ (u = user[s] \/ u \in folders)
           THEN /\ index' = [index EXCEPT ![s] = index[s] + 1]
                /\ UNCHANGED pc
           ELSE /\ index' = [index EXCEPT ![s] = 0]
                /\ Goto(s, "abandoned")
      /\ UNCHANGED <<shared, user, returning, size>>

LookupEnds(s) ==
  /\ pc[s] = "looking" /\ index[s] > userArray.size
  /\ index' = [index EXCEPT ![s] = 0]
  /\ Goto(s, "ready")
  /\ UNCHANGED <<shared, user, returning, size>>

(* The client disconnects without logging out, or sends a command that does*)
(* not parse: run() catches the exception and the thread ends, with the id *)
(* still in currentUserArray.                                              *)
Abandon(s) ==
  /\ pc[s] = "ready"
  /\ Goto(s, "abandoned")
  /\ UNCHANGED <<shared, user, returning, index, size>>

(* logout: currentUserArray.remove(id) finds the first equal slot ...      *)
Logout(s) ==
  /\ pc[s] = "ready" /\ MayStart(s)
  /\ IF Has(online, user[s])
       THEN /\ index' = [index EXCEPT ![s] = FirstIndex(online, user[s])]
            /\ size'  = [size EXCEPT ![s] = online.size]
            /\ Goto(s, "countOnline")
       ELSE Goto(s, "closed") /\ UNCHANGED <<index, size>>
  /\ UNCHANGED <<shared, user, returning>>

(* ... then reads the size again, which may not fit the array it searched: *)
(* that exception leaves the id listed ...                                 *)
CountOnline(s) ==
  /\ pc[s] = "countOnline"
  /\ \/ /\ size' = [size EXCEPT ![s] = online.size]
        /\ Goto(s, "removeOnline") /\ UNCHANGED index
     \/ /\ Outgrown(online, size[s])
        /\ index' = [index EXCEPT ![s] = 0] /\ size' = [size EXCEPT ![s] = 0]
        /\ Goto(s, "abandoned")
  /\ UNCHANGED <<shared, user, returning>>

(* Faulty variant: remove(int) is called, which takes an index, not an id. *)
RemoveOnlineFirst(s) ==
  /\ pc[s] = "removeOnline"
  /\ online' \in Dropped(online, 1, size[s])
  /\ Goto(s, IF size[s] > 0 THEN "closed" ELSE "crashed")
  /\ index' = [index EXCEPT ![s] = 0] /\ size' = [size EXCEPT ![s] = 0]
  /\ UNCHANGED <<mainVars, userArray, folders, user, returning>>

(* Faulty variant: the entry is removed here and by the caller once more.  *)
RemoveOnlineTwice(s) ==
  /\ pc[s] = "removeOnline"
  /\ online' = DropAt(DropAt(online, index[s], size[s]), index[s], size[s] - 1)
  /\ Goto(s, IF size[s] > 0 THEN "closed" ELSE "crashed")
  /\ index' = [index EXCEPT ![s] = 0] /\ size' = [size EXCEPT ![s] = 0]
  /\ UNCHANGED <<mainVars, userArray, folders, user, returning>>

(* Faulty variant: logout works on the list of all users.                  *)
RemoveOnlineFromUserArray(s) ==
  /\ pc[s] = "removeOnline"
  /\ userArray' \in Dropped(userArray, index[s], userArray.size)
  /\ Goto(s, IF size[s] > 0 THEN "closed" ELSE "crashed")
  /\ index' = [index EXCEPT ![s] = 0] /\ size' = [size EXCEPT ![s] = 0]
  /\ UNCHANGED <<mainVars, online, folders, user, returning>>

(* ... and shifts the rest down; the reply is written, the socket closed,  *)
(* and the next readObject on it ends the thread.  If the entry has gone   *)
(* meanwhile and the size was 0, it is stored as -1 and the array access   *)
(* throws: the socket stays open, and no add() succeeds from then on.      *)
RemoveOnline(s) ==
  /\ pc[s] = "removeOnline"
  /\ online' \in Dropped(online, index[s], size[s])
  /\ Goto(s, IF size[s] > 0 THEN "closed" ELSE "crashed")
  /\ index' = [index EXCEPT ![s] = 0] /\ size' = [size EXCEPT ![s] = 0]
  /\ UNCHANGED <<mainVars, userArray, folders, user, returning>>

-----------------------------------------------------------------------------
Login(s) ==
  \/ CheckActive(s) \/ CheckKnown(s) \/ AddOnline(s) \/ PutOnline(s)
  \/ AddUser(s) \/ PutUser(s) \/ MakeDirs(s)

(* What the server's own threads do without waiting for a client. *)
ThreadStep(s) ==
  Login(s) \/ LookupSlot(s) \/ LookupEnds(s) \/ CountOnline(s) \/ RemoveOnline(s)

(* What a client makes happen. *)
ClientStep(s) ==
  \/ Dial(s) \/ StartSession(s) \/ HandshakeFails(s)
  \/ \E u \in Users : ReceiveId(s, u)
  \/ LoginFails(s) \/ LookupOwnFiles(s) \/ LookupOtherFiles(s)
  \/ Abandon(s) \/ Logout(s)

Next == Accept \/ \E s \in Sessions : ThreadStep(s) \/ ClientStep(s)

Spec == Init /\ [][Next]_vars

(* Every server thread keeps running, and a client that has connected sends*)
(* its stream header at once or goes away (Client.main: the                *)
(* ObjectOutputStream is created right after the socket).  Nothing else a  *)
(* client may do is assumed to happen.                                     *)
Fairness ==
  /\ WF_vars(Accept)
  /\ \A s \in Sessions : WF_vars(ThreadStep(s))
  /\ \A s \in Sessions : WF_vars(StartSession(s) \/ HandshakeFails(s))

FairSpec == Spec /\ Fairness

-----------------------------------------------------------------------------
(* Safety when logins and logouts do not overlap (Spaced = TRUE) *)

(* login() denies an id that is active: no two sessions are listed, or     *)
(* being served, under the same user.                                      *)
OneSessionPerUser ==
  \A s, t \in Sessions : Listed(s) /\ Listed(t) /\ s # t => user[s] # user[t]

(* currentUserArray holds, once each, exactly the users of the sessions    *)
(* that logged in and did not log out: logout removes the caller's entry   *)
(* and no other, and the entry of a session that ended by an exception     *)
(* stays for good.                                                         *)
ActiveListExact ==
  /\ Members(online) = {user[s] : s \in {t \in Sessions : Listed(t)}}
  /\ Distinct(online)

(* A served session's directories exist, for a returning user too, so that *)
(* lookup-own-files and an upload's FileOutputStream never meet a missing  *)
(* directory.                                                              *)
OwnFoldersExist == \A s \in Sessions : Serving(s) => user[s] \in folders

(* The reply of lookupStudentList: the caller's id, then every entry of    *)
(* userArray that is not the caller's Integer OBJECT.  A new user's id is  *)
(* the object put into userArray; a returning user's is boxed anew and is  *)
(* the same object only when the JVM caches it.                            *)
IsOwnEntry(s, u) == u = user[s] /\ (~returning[s] \/ u \in SmallIds)
TimesListed(s, u) ==
  (IF u = user[s] THEN 1 ELSE 0) +
  Cardinality({i \in Visible(userArray) : Slot(userArray, i) = u /\ ~IsOwnEntry(s, u)})

(* The student list a served session asks for names every registered user  *)
(* once; only a returning caller with an id outside the Integer cache is   *)
(* named twice, and then as one of its own class mates.                    *)
StudentListExact ==
  \A s \in Sessions : Serving(s) =>
    \A u \in Users :
      TimesListed(s, u) =
        IF ~Has(userArray, u) THEN 0
        ELSE IF u = user[s] /\ returning[s] /\ u \notin SmallIds THEN 2 ELSE 1

(* No list operation throws: a thread inside login() or logout() is never  *)
(* ended by one, which would leave its client welcomed and not served, or  *)
(* its id listed for good (and after a size of -1, every later login dead).*)
NoListThrows ==
  [][\A s \in Sessions : InFlight(s) => pc'[s] \notin {"abandoned", "crashed"}]_vars

(* Each session as AtomicRegistry has it.  A login takes effect when the   *)
(* id is stored in currentUserArray, and the user counts as known from     *)
(* then on; a logout takes effect when the slots have moved.               *)
StageOf(s) ==
  CASE pc[s] \in ListedPCs \ {"abandoned"} -> "in"
    [] pc[s] = "abandoned"                 -> "dead"
    [] pc[s] = "denied"                    -> "denied"
    [] pc[s] \in {"closed", "crashed"}     -> "left"
    [] OTHER                               -> "out"
UserOf(s) == IF StageOf(s) \in {"in", "dead", "denied"} THEN user[s] ELSE Null
AgainOf(s) == StageOf(s) \in {"in", "dead"} /\ returning[s]
Registering == {user[s] : s \in {t \in Sessions : pc[t] \in {"addUser", "putUser"}}}

Registry == INSTANCE AtomicRegistry WITH
  active <- Members(online),
  known  <- Members(userArray) \cup Registering,
  stage  <- [s \in Sessions |-> StageOf(s)],
  who    <- [s \in Sessions |-> UserOf(s)],
  again  <- [s \in Sessions |-> AgainOf(s)]

(* The check-then-act login and the list operations look atomic: each      *)
(* session enters at one moment at which its user is not active, and is    *)
(* welcomed "again" exactly when the user was known at that moment; it is  *)
(* denied only at a moment at which the user is active; leaving takes out  *)
(* its own user, and a session that dies takes out nobody.                 *)
RegistryIsAtomic == Registry!Spec

-----------------------------------------------------------------------------
(* Safety under every interleaving (Spaced = FALSE) *)

(* lookupOtherFiles throws on a registered user who has no directory: the  *)
(* only such users are those whose login thread is between userArray.add   *)
(* and mkdir, whatever other logins and logouts do to the lists meanwhile. *)
RegisteredHasFolder ==
  \A u \in Members(userArray) :
    \/ u = Null \/ u \in folders
    \/ \E s \in Sessions : user[s] = u /\ pc[s] = "makeDirs"

-----------------------------------------------------------------------------
(* Liveness under FairSpec, with every interleaving *)

(* login() does not keep an id: its client is denied, or served, or gone,  *)
(* or a list operation that ran into another one has ended the thread.  It *)
(* holds because no thread waits for another one inside login().           *)
LoginEnds ==
  \A s \in Sessions :
    pc[s] = "checkActive" ~> pc[s] \in {"ready", "denied", "closed", "crashed", "abandoned"}

(* A client that connected is prompted or turned away, unless the accept   *)
(* loop has died in a constructor: one handshake at a time delays it only. *)
EventuallyPrompted ==
  \A s \in Sessions : pc[s] = "dialled" ~> (pc[s] # "dialled" \/ acceptor = "dead")

(* lookup-other-files ends, though userArray may grow while it walks it.   *)
LookupEndsEventually ==
  \A s \in Sessions : pc[s] = "looking" ~> pc[s] # "looking"

(* A user who can be seen in userArray has a directory in the end.         *)
FolderAppears ==
  \A u \in Users : Has(userArray, u) ~> u \in folders
=============================================================================
