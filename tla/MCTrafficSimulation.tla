------------------------ MODULE MCTrafficSimulation ------------------------
(***************************************************************************)
(* Small instances of TrafficSimulation for TLC: up to three flows on two  *)
(* or three nodes a side, too few for the flows included, and the          *)
(* default options of taskAHighRate.                                       *)
(***************************************************************************)
EXTENDS TrafficSimulation

Wired(flows, packets, mishaps) ==
  [program : {"taskB"}, variant : {"TcpFusion"}, flows : flows, left : {3}, right : {3},
   packets : packets, rate : {0}, faults : mishaps]

Wifi(variant, flows, left, right, packets, mishaps) ==
  [program : {"taskAHighRate"}, variant : variant, flows : flows, left : left, right : right,
   packets : packets, rate : {0}, faults : mishaps]

Sensors(flows, rate, mishaps) ==
  [program : {"taskALowRate"}, variant : {"TcpNewReno"}, flows : flows, left : {2},
   right : {1}, packets : {0}, rate : rate, faults : mishaps]

MCScenarios ==
  Wired({2}, {3}, {1}) \cup
  Wifi({"TcpFusion"}, {0, 2}, 2..3, 2..3, {0, 1}, {1}) \cup
  Wifi({"TcpWestwoodPlus"}, {1}, {2}, {2}, {2, -1}, {0}) \cup
  Wifi({"TcpCubic"}, {2}, {3}, {3}, {2}, {0}) \cup Wifi({"TcpFusion"}, {2}, {3}, {4}, {2}, {0}) \cup
  Sensors({0}, {200}, {0}) \cup Sensors({3}, {200}, {1}) \cup Sensors({2}, {400}, {1}) \cup Sensors({2}, {50}, {0})

DefaultScenario == Wifi({"TcpFusion"}, {5}, {26}, {26}, {500}, {0})
=============================================================================
