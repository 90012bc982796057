------------------------------ MODULE Mailbox ------------------------------
(***************************************************************************)
(* File requests and their answers: ServiceProvider's notifyAll,           *)
(* notifyRequestSender and viewMessage.                                    *)
(*                                                                         *)
(* Every provider keeps its user's unread messages in messageArray, an     *)
(* ArrayList.  Any other provider's thread appends to it, and the owner's  *)
(* prints it and puts a new list in its place, all with no lock.  A thread *)
(* that has read the field and the size may find the list replaced, or the *)
(* size used by another thread, when it writes.                            *)
(*                                                                         *)
(* SessionRegistry has the details of login and logout.  Here each of them *)
(* is two steps, and currentUserArray is the set of the users in it for as *)
(* long as no two of them overlap; once two have, a search of it may find, *)
(* or not, any id that was typed, which covers all that SessionRegistry    *)
(* finds possible.                                                         *)
(***************************************************************************)
EXTENDS ArrayLists, FiniteSets

CONSTANTS
  Sessions,     \* connections, each with its ServiceProvider
  Users,        \* the ids clients type
  Zero,         \* the id 0, which every provider has before its login
  MaxMessages,  \* bound: the requests and answers of all sessions together
  MaxCrowded,   \* bound: the same, of three sessions, quiet ones, or later ones
  MaxRaced      \* bound: the same, of three that are quiet or later, or once raced

ASSUME MailboxAssumption ==
  /\ Null \notin Users \cup {Zero}
  /\ MaxMessages \in Nat /\ MaxCrowded \in 0..MaxMessages /\ MaxRaced \in 0..MaxMessages

VARIABLES
  quiet,       \* the environment: commands about messages never overlap
  threads,     \* Server.threadArrayList
  active,      \* Server.currentUserArray; nothing is known of it once raced
  raced,       \* two threads have used currentUserArray at the same time, to some effect
  pc,          \* where each session's thread stands
  login,       \* the id its client typed
  id,          \* ServiceProvider.id
  requestId,   \* ServiceProvider.requestId
  answers,     \* responses the session has sent
  sent,        \* requests and responses of all sessions
  box,         \* ServiceProvider.messageArray
  job,         \* the message a thread is sending
  index,       \* i of the loops
  size,        \* the list size an add has read
  held,        \* what has become of the list it will write to
  seen,        \* what viewMessage has collected so far
  shown,       \* what the session's client has been sent of it, in all
  owed         \* messages sent, and who was logged in to receive them

countVars == <<requestId, answers, sent>>
sendVars == <<countVars, job, size>>
viewVars == <<seen, shown>>
activeVars == <<active, raced>>
vars == <<quiet, threads, activeVars, pc, login, id, requestId, answers, sent, box, job,
          index, size, held, seen, shown, owed>>

(* A request is known by its sender and number; an answer has an addressee.*)
Messages == [kind : {"request", "answer"}, from : Sessions, number : Nat, to : Users \cup {Zero, Null}]

Busy(s)    == pc[s] \in {"notify", "put", "view"}
Serving(s) == pc[s] = "ready" \/ Busy(s)

(* The bounds: the more sessions and the longer they last, the fewer     *)
(* messages.                                                               *)
Early      == \A s \in Sessions : pc[s] # "closed" /\ shown[s] = <<>>
Bound(n)   == IF raced \/ (n > 2 /\ (quiet \/ ~Early)) THEN MaxRaced
              ELSE IF n > 2 \/ quiet \/ ~Early THEN MaxCrowded ELSE MaxMessages
MaySend    == sent < Bound(Len(threads))
MayStart   == quiet => \A t \in Sessions : ~Busy(t)
Goto(s, p) == pc' = [pc EXCEPT ![s] = p]

Leaving     == {s \in Sessions : pc[s] = "leaving"}
Changing(s) == pc[s] \in {"entering", "leaving"}
PCs == {"free", "connected", "entering", "naming", "ready", "notify", "put", "view", "leaving",
        "closed"}

TypeOK ==
  /\ quiet \in BOOLEAN
  /\ threads \in Seq(Sessions)
  /\ active \subseteq Users /\ raced \in BOOLEAN
  /\ pc \in [Sessions -> PCs]
  /\ login \in [Sessions -> Users \cup {Null}]
  /\ id \in [Sessions -> Users \cup {Zero}]
  /\ requestId \in [Sessions -> Nat] /\ answers \in [Sessions -> Nat] /\ sent \in 0..MaxMessages
  /\ box \in [Sessions -> Lists(Messages)] /\ \A s \in Sessions : box[s].size >= 0
  /\ job \in [Sessions -> Messages \cup {Null}]
  /\ index \in [Sessions -> Nat] /\ size \in [Sessions -> Nat]
  /\ held \in [Sessions -> {"current", "replaced", "outgrown"}]
  /\ seen \in [Sessions -> Seq(Messages \cup {Null})]
  /\ shown \in [Sessions -> Seq(Messages \cup {Null})]
  /\ owed \subseteq Sessions \X Messages

Init ==
  /\ quiet \in BOOLEAN
  /\ threads = <<>> /\ active = {} /\ raced = FALSE
  /\ pc = [s \in Sessions |-> "free"]
  /\ login = [s \in Sessions |-> Null] /\ id = [s \in Sessions |-> Zero]
  /\ requestId = [s \in Sessions |-> 0] /\ answers = [s \in Sessions |-> 0] /\ sent = 0
  /\ box = [s \in Sessions |-> EmptyList]
  /\ job = [s \in Sessions |-> Null]
  /\ index = [s \in Sessions |-> 0] /\ size = [s \in Sessions |-> 0]
  /\ held = [s \in Sessions |-> "current"]
  /\ seen = [s \in Sessions |-> <<>>] /\ shown = [s \in Sessions |-> <<>>]
  /\ owed = {}

-----------------------------------------------------------------------------
(* Sessions come and go. *)

(* Server.main lists a new provider, whose id is 0. *)
Connect(s) ==
  /\ pc[s] = "free" /\ (raced \/ sent <= Bound(Len(threads) + 1))
  /\ threads' = Append(threads, s)
  /\ Goto(s, "connected")
  /\ UNCHANGED <<quiet, activeVars, login, id, box, index, held, owed, sendVars, viewVars>>

(* currentUserArray.contains(u).  What a damaged list holds is not known;  *)
(* and a search may miss an id that a removal is moving to another slot.   *)
Typed == {login[s] : s \in Sessions} \ {Null}
Finds(u) == (u \in active \/ (raced /\ u \in Typed)) /\ UNCHANGED activeVars
Misses(u) ==
  /\ u \notin active \/ Leaving # {}
  /\ raced' = (raced \/ u \in active)
  /\ active' = IF raced' THEN {} ELSE active

(* login(): an active id is denied, and another is about to be added. *)
Login(s, u) ==
  /\ pc[s] = "connected"
  /\ \/ Finds(u) /\ Goto(s, "closed") /\ UNCHANGED login
     \/ Misses(u) /\ Goto(s, "entering") /\ login' = [login EXCEPT ![s] = u]
  /\ UNCHANGED <<quiet, threads, id, box, index, held, owed, sendVars, viewVars>>

(* A change of currentUserArray: the set new, if no other is in progress   *)
(* and none ever overlapped another.                                       *)
Change(s, new) ==
  /\ raced' = (raced \/ \E t \in Sessions \ {s} : Changing(t))
  /\ active' = IF raced' THEN {} ELSE new

(* The id is added, which may throw when the list has been damaged.        *)
Enter(s) ==
  /\ pc[s] = "entering"
  /\ Change(s, active \cup {login[s]})
  /\ Goto(s, "naming") \/ (raced' /\ Goto(s, "closed"))
  /\ UNCHANGED <<quiet, threads, login, id, box, index, held, owed, sendVars, viewVars>>

(* ... and becomes the provider's id after that. *)
SetId(s) ==
  /\ pc[s] = "naming"
  /\ id' = [id EXCEPT ![s] = login[s]]
  /\ Goto(s, "ready")
  /\ UNCHANGED <<quiet, threads, activeVars, login, box, index, held, owed, sendVars, viewVars>>

(* logout(): the id is found ... *)
Logout(s) ==
  /\ pc[s] = "ready"
  /\ Goto(s, "leaving")
  /\ UNCHANGED <<quiet, threads, activeVars, login, id, box, index, held, owed, sendVars, viewVars>>

(* Faulty variant: the id is taken back, and the next loop calls equals on *)
(* a null.                                                                 *)
LeaveClearsId(s) ==
  /\ pc[s] = "leaving"
  /\ Change(s, active \ {id[s]})
  /\ id' = [id EXCEPT ![s] = Null]
  /\ Goto(s, "closed")
  /\ UNCHANGED <<quiet, threads, login, box, index, held, owed, sendVars, viewVars>>

(* ... and removed.  The provider of a closed session stays in             *)
(* threadArrayList, with its id.                                           *)
Leave(s) ==
  /\ pc[s] = "leaving"
  /\ Change(s, active \ {id[s]})
  /\ Goto(s, "closed")
  /\ UNCHANGED <<quiet, threads, login, id, box, index, held, owed, sendVars, viewVars>>

(* An exception ends the thread, and a listed id stays active: the client  *)
(* is gone, what it sent does not parse, userArray.add throws.             *)
Abandon(s) ==
  /\ pc[s] \in {"connected", "entering", "naming", "ready"}
  /\ Goto(s, "closed")
  /\ UNCHANGED <<quiet, threads, activeVars, login, id, box, index, held, owed, sendVars, viewVars>>

-----------------------------------------------------------------------------
(* notifyAll and notifyRequestSender *)

(* Who should find a message: the sessions that are served as it is sent.  *)
Audience(m) ==
  {t \in Sessions : Serving(t) /\ IF m.kind = "request" THEN id[t] # id[m.from] ELSE id[t] = m.to}

StartSending(s, m) ==
  /\ pc[s] = "ready" /\ MayStart
  /\ job' = [job EXCEPT ![s] = m]
  /\ index' = [index EXCEPT ![s] = 1]
  /\ owed' = owed \cup {<<t, m>> : t \in Audience(m)}
  /\ Goto(s, "notify")
  /\ UNCHANGED <<quiet, threads, activeVars, login, id, box, size, held, viewVars>>

(* "request": "stored your request" is sent, and then notifyAll is called. *)
Request(s) ==
  /\ MaySend /\ sent' = sent + 1
  /\ requestId' = [requestId EXCEPT ![s] = @ + 1]
  /\ StartSending(s, [kind |-> "request", from |-> s, number |-> requestId[s] + 1, to |-> Null])
  /\ UNCHANGED answers

(* "response": after the upload, to the user part of the id u:n that was   *)
(* typed, which may be any.                                                *)
Respond(s, u) ==
  /\ MaySend /\ sent' = sent + 1
  /\ answers' = [answers EXCEPT ![s] = @ + 1]
  /\ StartSending(s, [kind |-> "answer", from |-> s, number |-> answers[s] + 1, to |-> u])
  /\ UNCHANGED requestId

(* Faulty variant: an answer goes to whoever is active, like a request.    *)
MeantForAll(s, t) == id[t] # id[s]

(* Provider t should get the message: not the sender's own request, only   *)
(* the addressee's answers.                                                *)
Meant(s, t) == IF job[s].kind = "request" THEN id[t] # id[s] ELSE id[t] = job[s].to

(* messageArray.add, first half. *)
StartPut(s, t) ==
  /\ size' = [size EXCEPT ![s] = box[t].size]
  /\ Goto(s, "put")
  /\ UNCHANGED index

(* Faulty variant: the loop ends at the first provider passed over.        *)
NotifyStops(s) ==
  LET t == threads[index[s]]
  IN  /\ pc[s] = "notify" /\ index[s] <= Len(threads)
      /\ IF Meant(s, t) /\ (job[s].kind = "request" => id[t] \in active)
           THEN StartPut(s, t)
           ELSE /\ index' = [index EXCEPT ![s] = Len(threads) + 1]
                /\ UNCHANGED <<pc, size>>
      /\ UNCHANGED <<quiet, threads, activeVars, login, id, countVars, box, job, held, owed, viewVars>>

(* One turn of the loop over threadArrayList: a provider is passed over if *)
(* the message is not meant for it, a request also if its user is not found*)
(* active.  The test, and the first half of messageArray.add, are one step:*)
(* only the owner's replacing of the list could come between them, and that*)
(* is the same as its coming before.                                       *)
Notify(s) ==
  LET t == threads[index[s]]
  IN  /\ pc[s] = "notify" /\ index[s] <= Len(threads)
      /\ \/ /\ Meant(s, t)
            /\ IF job[s].kind = "request" THEN Finds(id[t]) ELSE UNCHANGED activeVars
            /\ StartPut(s, t)
         \/ /\ IF Meant(s, t) THEN job[s].kind = "request" /\ Misses(id[t])
                              ELSE UNCHANGED activeVars
            /\ index' = [index EXCEPT ![s] = @ + 1]
            /\ UNCHANGED <<pc, size>>
      /\ UNCHANGED <<quiet, threads, login, id, countVars, box, job, held, owed, viewVars>>

WritesTo(s, t) == pc[s] = "put" /\ threads[index[s]] = t

(* Second half.  If the list has been replaced, this is lost on the owner; *)
(* other writers that hold it too now have one that grew.                  *)
Put(s) ==
  LET t == threads[index[s]]
  IN  /\ pc[s] = "put"
      /\ IF held[s] = "current"
           THEN /\ \E list \in Added(box[t], size[s], job[s]) : box' = [box EXCEPT ![t] = list]
                /\ UNCHANGED held
           ELSE /\ held' = [w \in Sessions |->
                              IF w = s THEN "current"
                              ELSE IF WritesTo(w, t) /\ held[w] = "replaced" THEN "outgrown" ELSE held[w]]
                /\ UNCHANGED box
      /\ index' = [index EXCEPT ![s] = @ + 1]
      /\ size' = [size EXCEPT ![s] = 0]
      /\ Goto(s, "notify")
      /\ UNCHANGED <<quiet, threads, activeVars, login, id, countVars, job, owed, viewVars>>

(* Another thread's add made the list grow: the exception ends the sender's*)
(* thread in the middle of its loop.                                       *)
PutThrows(s) ==
  /\ pc[s] = "put"
  /\ \/ held[s] = "current" /\ AddMayThrow(box[threads[index[s]]], size[s])
     \/ held[s] = "outgrown"
  /\ job' = [job EXCEPT ![s] = Null]
  /\ index' = [index EXCEPT ![s] = 0]
  /\ size' = [size EXCEPT ![s] = 0]
  /\ held' = [held EXCEPT ![s] = "current"]
  /\ Goto(s, "closed")
  /\ UNCHANGED <<quiet, threads, activeVars, login, id, countVars, box, owed, viewVars>>

EndNotify(s) ==
  /\ pc[s] = "notify" /\ index[s] > Len(threads)
  /\ job' = [job EXCEPT ![s] = Null]
  /\ index' = [index EXCEPT ![s] = 0]
  /\ Goto(s, "ready")
  /\ UNCHANGED <<quiet, threads, activeVars, login, id, countVars, box, size, held, owed, viewVars>>

-----------------------------------------------------------------------------
(* viewMessage *)

ViewMessage(s) ==
  /\ pc[s] = "ready" /\ MayStart
  /\ index' = [index EXCEPT ![s] = 1]
  /\ Goto(s, "view")
  /\ UNCHANGED <<quiet, threads, activeVars, login, id, box, held, owed, sendVars, viewVars>>

ViewSlot(s) ==
  /\ pc[s] = "view" /\ index[s] \in Visible(box[s])
  /\ seen' = [seen EXCEPT ![s] = Append(@, Slot(box[s], index[s]))]
  /\ index' = [index EXCEPT ![s] = @ + 1]
  /\ UNCHANGED <<quiet, threads, activeVars, pc, login, id, box, held, shown, owed, sendVars>>

(* The list has become shorter between the loop's test and get(i): a late  *)
(* writer has counted fewer messages than were there.                      *)
ViewThrows(s) ==
  /\ pc[s] = "view" /\ index[s] \in (box[s].size + 1)..Len(box[s].slot)
  /\ seen' = [seen EXCEPT ![s] = <<>>]
  /\ index' = [index EXCEPT ![s] = 0]
  /\ Goto(s, "closed")
  /\ UNCHANGED <<quiet, threads, activeVars, login, id, box, held, shown, owed, sendVars>>

(* The writers that hold the old list will write to it in vain. *)
Outdate(s) ==
  held' = [w \in Sessions |->
             IF WritesTo(w, s) /\ held[w] = "current"
               THEN IF Outgrown(box[s], size[w]) THEN "outgrown" ELSE "replaced"
               ELSE held[w]]

(* Faulty variant: the list is not replaced.                               *)
ViewEndKeeps(s) ==
  /\ pc[s] = "view" /\ index[s] > box[s].size
  /\ seen' = [seen EXCEPT ![s] = <<>>]
  /\ index' = [index EXCEPT ![s] = 0]
  /\ \/ Goto(s, "ready") /\ shown' = [shown EXCEPT ![s] = @ \o seen[s]]
     \/ Goto(s, "closed") /\ UNCHANGED shown
  /\ UNCHANGED <<quiet, threads, activeVars, login, id, box, held, owed, sendVars>>

(* A new list takes the place of the one printed; what was collected is    *)
(* sent then, and is gone if the client is.                                *)
ViewEnd(s) ==
  /\ pc[s] = "view" /\ index[s] > box[s].size
  /\ box' = [box EXCEPT ![s] = EmptyList]
  /\ Outdate(s)
  /\ seen' = [seen EXCEPT ![s] = <<>>]
  /\ index' = [index EXCEPT ![s] = 0]
  /\ \/ Goto(s, "ready") /\ shown' = [shown EXCEPT ![s] = @ \o seen[s]]
     \/ Goto(s, "closed") /\ UNCHANGED shown
  /\ UNCHANGED <<quiet, threads, activeVars, login, id, owed, sendVars>>

-----------------------------------------------------------------------------
ThreadStep(s) ==
  \/ Enter(s) \/ SetId(s) \/ Leave(s)
  \/ Notify(s) \/ Put(s) \/ PutThrows(s) \/ EndNotify(s)
  \/ ViewSlot(s) \/ ViewThrows(s) \/ ViewEnd(s)

ClientStep(s) ==
  \/ Connect(s) \/ Logout(s) \/ Abandon(s) \/ Request(s) \/ ViewMessage(s)
  \/ \E u \in Users : Login(s, u) \/ Respond(s, u)

Next == \E s \in Sessions : ThreadStep(s) \/ ClientStep(s)

Spec == Init /\ [][Next]_vars

-----------------------------------------------------------------------------
Collected(t) == {seen[t][i] : i \in DOMAIN seen[t]}
Shown(t)     == {shown[t][i] : i \in DOMAIN shown[t]}
Underway(m)  == job[m.from] = m

(* A message does not outlive its showing: no client is shown one twice,   *)
(* whatever writers did to the list while it was printed and replaced.     *)
ShownOnce ==
  \A t \in Sessions : \A m \in Shown(t) \ {Null} :
    /\ Cardinality({i \in DOMAIN shown[t] : shown[t][i] = m}) = 1
    /\ m \notin Members(box[t])

(* Nobody is shown an own request or an answer to someone else.  The id 0  *)
(* is the exception: until they have logged in, all providers have it.     *)
OnlyAddressed ==
  \A t \in Sessions : \A m \in Shown(t) \ {Null} :
    IF m.kind = "request" THEN id[m.from] # id[t] \/ \E z \in Sessions : login[z] = Zero
                          ELSE m.to \in {id[t], Zero}

(* What was sent is in the list of a session that was served when it was   *)
(* sent and still is, or has been shown there.                             *)
Arrived(t, m) ==
  Serving(t) /\ ~Underway(m) => m \in Members(box[t]) \cup Collected(t) \cup Shown(t)

(* "stored your request": a request reaches everybody it is meant for, with*)
(* currentUserArray undamaged.                                             *)
StoredForAll ==
  ~raced => \A p \in owed : p[2].kind = "request" => Arrived(p[1], p[2])

(* Requests and answers do when commands about messages do not overlap,    *)
(* also when sessions connect, log in, log out and break off in the middle *)
(* of one, but for what overlapping logins and logouts do to               *)
(* currentUserArray, and a logout to a search of it.                       *)
QuietlyStored == quiet /\ ~raced => \A p \in owed : Arrived(p[1], p[2])
=============================================================================
