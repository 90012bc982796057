------------------------------ MODULE Topology ------------------------------
(***************************************************************************)
(* What the mains of taskB (wired), taskAHighRate (wifi) and taskALowRate  *)
(* (sensors) build before they place a flow: options, nodes, positions,    *)
(* error models and addresses.  The helpers of ns-3 that they call keep    *)
(* state, so what each call gives depends on the calls before it: nodes    *)
(* are numbered, positions handed out and addresses assigned one by one.   *)
(*                                                                         *)
(* A node of a container, a device of a network and an interface are all   *)
(* named by a pair, the container's or network's name and an index from 0. *)
(***************************************************************************)
EXTENDS Integers, Sequences, FiniteSets

CONSTANTS
  Scenarios,   \* programs, the options given to them, and what may go wrong
  Word,        \* uint32 arithmetic is modulo Word
  WsnNodes,    \* taskALowRate's 25 + 1 nodes
  GridWidth,   \* of taskAHighRate's grid of nodes, in nodes
  Delta,       \* the distance of two neighbours in it
  MaxRange,    \* of its wifi channels
  MaxHosts     \* addresses that a network with a 24-bit prefix has

Programs == {"taskB", "taskAHighRate", "taskALowRate"}
Sides    == {"left", "right"}
Networks == Sides \cup {"p2p"}

(* taskB's numbers of nodes, flows and packets are no options: its nodes   *)
(* outnumber its flows.  The left of taskALowRate is its option nodes.     *)
ASSUME TopologyAssumption ==
  /\ {Word, GridWidth} \subseteq Nat \ {0} /\ WsnNodes \in Nat \ {0, 1}
  /\ {Delta, MaxRange, MaxHosts} \subseteq Nat
  /\ Scenarios \subseteq [program : Programs, variant : STRING, flows : 0..(Word - 1),
                          left : 1..(Word - 1), right : 1..(Word - 1),
                          packets : Int, rate : Nat, faults : Nat]
  /\ \A s \in Scenarios :
       s.program = "taskB" => s.flows \in 1..(s.left - 1) /\ s.flows < s.right

VARIABLES
  scenario,
  phase,      \* of main, see Phases
  group,      \* the node containers
  position,   \* of the nodes that have one
  host,       \* the nodes of each network, in the order of their addresses
  lossy       \* the devices with a RateErrorModel

built == <<group, position, host, lossy>>

Phases == {"options", "nodes", "positions", "addresses", "flows", "running", "stopped",
           "ended", "aborted", "undefined"}

Program == scenario.program

TopologyTypeOK ==
  /\ scenario \in Scenarios /\ phase \in Phases
  /\ group \in [Networks -> Seq(Nat)] /\ host \in [Networks -> Seq(Nat)]
  /\ \A n \in DOMAIN position : n \in Nat /\ position[n] \in Nat \X Nat
  /\ lossy \subseteq Networks \X Nat

Nowhere == [n \in Networks |-> <<>>]

TopologyInit ==
  /\ scenario \in Scenarios /\ phase = "options"
  /\ group = Nowhere /\ host = Nowhere
  /\ position = <<>> /\ lossy = {}

-----------------------------------------------------------------------------
(* The options *)

(* The congestion controls that ns-3 finds by name; taskAHighRate maps     *)
(* TcpWestwoodPlus, which is none of them, to one.                         *)
Variants == {"TcpFusion", "TcpNewReno", "TcpWestwoodPlus"}

ParseOptions ==
  /\ phase = "options"
  /\ phase' = IF Program = "taskAHighRate" /\ scenario.variant \notin Variants
                THEN "aborted" ELSE "nodes"
  /\ UNCHANGED <<scenario, built>>

(* The int npacket becomes the application's uint32. *)
Packets == scenario.packets % Word

(* The rates that taskALowRate has a DataRate for; any other leaves the    *)
(* string empty.                                                           *)
HasDataRate(packets_sent_per_sec) == packets_sent_per_sec \in {100, 200, 300, 400, 500}

-----------------------------------------------------------------------------
(* Nodes and positions *)

Create(first, n) == [k \in 1..n |-> first + k - 1]

(* csmaNodes is on the right, csmaNodes2 on the left, and a router first   *)
(* in each.                                                                *)
WiredNodes ==
  LET right == scenario.right - 1
  IN  [p2p   |-> Create(0, 2),
       right |-> <<1>> \o Create(2, right),
       left  |-> <<0>> \o Create(2 + right, scenario.left - 1)]

(* The two nodes of the point-to-point link are also the access points.    *)
WifiNodes ==
  [p2p   |-> Create(0, 2),
   left  |-> Create(2, scenario.left),
   right |-> Create(2 + scenario.left, scenario.right)]

(* nWsnNodes was computed before the option nodes was read. *)
SensorNodes == [Nowhere EXCEPT !.left = Create(0, WsnNodes)]

CreateNodes ==
  /\ phase = "nodes"
  /\ group' = CASE Program = "taskB"         -> WiredNodes
                [] Program = "taskAHighRate" -> WifiNodes
                [] OTHER                     -> SensorNodes
  /\ phase' = IF Program = "taskAHighRate" THEN "positions" ELSE "addresses"
  /\ UNCHANGED <<scenario, position, host, lossy>>

(* The node that forwards what leaves a side. *)
Gateway(side) == group.p2p[IF side = "left" THEN 1 ELSE 2]

(* One allocator of positions, row by row, serves both sides and then      *)
(* their access points.  Nobody moves: the option v is not used.           *)
InstallMobility ==
  LET order == group.left \o group.right \o <<Gateway("left"), Gateway("right")>>
      Cell(k) == <<Delta * ((k - 1) % GridWidth), Delta * ((k - 1) \div GridWidth)>>
      Turn(n) == CHOOSE k \in DOMAIN order : order[k] = n
  IN  /\ phase = "positions"
      /\ position' = [n \in {order[k] : k \in DOMAIN order} |-> Cell(Turn(n))]
      /\ phase' = "addresses"
      /\ UNCHANGED <<scenario, group, host, lossy>>

-----------------------------------------------------------------------------
(* Devices and addresses *)

(* Faulty variant: the access points are given their addresses first.      *)
DevicesRouterFirst(net) ==
  IF Program = "taskAHighRate" /\ net \in Sides
    THEN <<Gateway(net)>> \o group[net] ELSE group[net]

(* Whose device gets an address after whose: taskAHighRate's access points *)
(* come after the stations.                                                *)
Devices(net) ==
  IF Program = "taskAHighRate" /\ net \in Sides
    THEN Append(group[net], Gateway(net)) ELSE group[net]

(* Each network starts anew at its first address, and the helper aborts at *)
(* its end.  Both devices of taskAHighRate's link have a RateErrorModel, no*)
(* device of taskALowRate has, and taskB's are set with the flows.         *)
AssignAddresses ==
  /\ phase = "addresses"
  /\ host' = [net \in Networks |-> Devices(net)]
  /\ lossy' = IF Program = "taskAHighRate" THEN {<<"p2p", 0>>, <<"p2p", 1>>} ELSE {}
  /\ phase' = IF Program # "taskALowRate" /\ \E net \in Networks : Len(host'[net]) > MaxHosts
                THEN "aborted" ELSE "flows"
  /\ UNCHANGED <<scenario, group, position>>

Build == ParseOptions \/ CreateNodes \/ InstallMobility \/ AssignAddresses

-----------------------------------------------------------------------------
(* What the network so built does *)

Exists(n)    == n[2] < Len(group[n[1]])
NodeAt(n)    == group[n[1]][n[2] + 1]
HostOf(addr) == host[addr[1]][addr[2] + 1]

(* A station hears its access point, and no other: each side has a channel *)
(* of its own.  The other programs' nodes have no range to be out of, or   *)
(* move about.                                                             *)
InRange(n) ==
  Program = "taskAHighRate" =>
    LET here == position[NodeAt(n)]
        there == position[Gateway(n[1])]
        dx == here[1] - there[1]
        dy == here[2] - there[2]
    IN  dx * dx + dy * dy <= MaxRange * MaxRange

(* A device of a wifi network, whose physical layer has an error model of  *)
(* its own, a YansErrorRateModel.                                          *)
Radio(n) == Program = "taskAHighRate" /\ n[1] \in Sides /\ n[2] + 1 \in DOMAIN host[n[1]]

(* The devices that receive a packet on the way from a node to an address: *)
(* its gateway's, the one at the other end of the link, the addressee's.   *)
Way(n, addr) ==
  LET gateway == CHOOSE k \in DOMAIN host[n[1]] : host[n[1]][k] = Gateway(n[1])
  IN  IF n[1] = addr[1] THEN {addr}
      ELSE {<<n[1], gateway - 1>>, <<"p2p", IF addr[1] = "left" THEN 0 ELSE 1>>, addr}
=============================================================================
