---------------------------- MODULE MCTcpFusion ----------------------------
(***************************************************************************)
(* A small instance of TcpFusion for TLC: 6-bit windows in segments of 4   *)
(* bytes, and round-trip times that reach every branch of IncreaseWindow.  *)
(***************************************************************************)
EXTENDS TcpFusion

MCRtts == {0, 5, 7, 9, 12}
MCGaps == {0, 1, 2, 12}
=============================================================================
