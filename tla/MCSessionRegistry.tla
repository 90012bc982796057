------------------------- MODULE MCSessionRegistry -------------------------
(***************************************************************************)
(* Instances of SessionRegistry for TLC: three connections, two users, one *)
(* of them with an id the JVM caches.                                      *)
(***************************************************************************)
EXTENDS SessionRegistry, TLC

CONSTANTS c1, c2, c3, small, large

MCSessions == {c1, c2, c3}
TwoSessions == {c1, c2}
MCUsers    == {small, large}
MCSmallIds == {small}

(* The sessions are alike: nothing in the model or in the safety properties*)
(* tells one from another.                                                 *)
SessionSymmetry == Permutations(MCSessions)
=============================================================================
