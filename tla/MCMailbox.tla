----------------------------- MODULE MCMailbox -----------------------------
(***************************************************************************)
(* Instances of Mailbox for TLC: three connections, and two users, one of  *)
(* them with the id 0, or three.                                           *)
(***************************************************************************)
EXTENDS Mailbox, TLC

CONSTANTS c1, c2, c3, zero, ann, bob

MCSessions == {c1, c2, c3}
MCUsers    == {zero, ann}
ThreeUsers == {zero, ann, bob}

(* The sessions are alike. *)
MailboxSymmetry == Permutations(MCSessions)
=============================================================================
