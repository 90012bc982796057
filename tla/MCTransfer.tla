----------------------------- MODULE MCTransfer -----------------------------
(***************************************************************************)
(* A small instance of Transfer for TLC: an empty file, one of a full      *)
(* chunk, and one whose second chunk is half padding.                      *)
(***************************************************************************)
EXTENDS Transfer

MCFiles == {0, 2, 3}
=============================================================================
