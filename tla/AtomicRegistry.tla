--------------------------- MODULE AtomicRegistry ---------------------------
(***************************************************************************)
(* What the server's two registries promise when logins and logouts do not *)
(* overlap: each session enters, is denied, leaves or dies in one step, on *)
(* one set of active users and one of known users.                         *)
(***************************************************************************)
CONSTANTS Sessions, Users, Null
VARIABLES
  active,   \* the users that are active
  known,    \* the users that ever entered
  stage,    \* where each session stands
  who,      \* the user of a session that entered or was denied
  again     \* a session that entered was told "welcome again"

vars == <<active, known, stage, who, again>>

Init ==
  /\ active = {} /\ known = {}
  /\ stage = [s \in Sessions |-> "out"]
  /\ who = [s \in Sessions |-> Null]
  /\ again = [s \in Sessions |-> FALSE]

(* "welcome" to a new user, "welcome again" to a known one; only a user    *)
(* who is not active.                                                      *)
Enter(s, u) ==
  /\ stage[s] = "out" /\ u \notin active
  /\ active' = active \cup {u}
  /\ known'  = known \cup {u}
  /\ stage'  = [stage EXCEPT ![s] = "in"]
  /\ who'    = [who EXCEPT ![s] = u]
  /\ again'  = [again EXCEPT ![s] = u \in known]

(* "login denied": only a user who is active, by a live session or a dead one. *)
Deny(s, u) ==
  /\ stage[s] = "out" /\ u \in active
  /\ stage' = [stage EXCEPT ![s] = "denied"]
  /\ who'   = [who EXCEPT ![s] = u]
  /\ UNCHANGED <<active, known, again>>

Leave(s) ==
  /\ stage[s] = "in"
  /\ active' = active \ {who[s]}
  /\ stage'  = [stage EXCEPT ![s] = "left"]
  /\ who'    = [who EXCEPT ![s] = Null]
  /\ again'  = [again EXCEPT ![s] = FALSE]
  /\ UNCHANGED known

(* The session ends by an exception, and its user stays active.            *)
Die(s) ==
  /\ stage[s] = "in"
  /\ stage' = [stage EXCEPT ![s] = "dead"]
  /\ UNCHANGED <<active, known, who, again>>

(* The client is gone before its login took effect.                        *)
Fail(s) ==
  /\ stage[s] = "out"
  /\ stage' = [stage EXCEPT ![s] = "left"]
  /\ UNCHANGED <<active, known, who, again>>

Next == \E s \in Sessions :
  \/ \E u \in Users : Enter(s, u) \/ Deny(s, u)
  \/ Leave(s) \/ Die(s) \/ Fail(s)

Spec == Init /\ [][Next]_vars
=============================================================================
