----------------------- MODULE TrafficSimulationProofs -----------------------
(***************************************************************************)
(* Proofs about TrafficSimulation, for any number of flows, nodes and      *)
(* packets: where the flows are placed on the network that was built, and  *)
(* what that means for the packets.                                        *)
(***************************************************************************)
EXTENDS TrafficSimulation, SequenceTheorems, FiniteSetTheorems, TLAPS

-----------------------------------------------------------------------------
(* The network that was built, and the flows on it. *)

Nodes == CASE Program = "taskB"         -> WiredNodes
           [] Program = "taskAHighRate" -> WifiNodes
           [] OTHER                     -> SensorNodes

SinkSide == IF Program = "taskB" THEN "right" ELSE "left"

GroupMade == group = Nodes
HostsMade == host = [net \in Networks |-> Devices(net)]

(* The devices with a RateErrorModel, when c flows have been placed.       *)
LossyMade(c) ==
  lossy = CASE Program = "taskB"         -> {Receiver(f) : f \in 1..c}
            [] Program = "taskAHighRate" -> {<<"p2p", 0>>, <<"p2p", 1>>}
            [] OTHER                     -> {}

Sensor(p, k) ==
  /\ \E n \in 1..(WsnNodes - 1) : p.source = <<"left", n>>
  /\ p.sink = <<"left", 0>> /\ p.to = <<"left", 0>> /\ p.port = (9 + k - 1) % 65536

(* The k-th flow is where it was put, and its sink's node exists.          *)
InPlace(p, k) ==
  /\ Program = "taskB"         => p = WiredFlow(k)
  /\ Program = "taskAHighRate" => p = WifiFlow(k)
  /\ Program = "taskALowRate"  => Sensor(p, k)
  /\ Exists(p.sink)

Early == {"options", "nodes", "positions", "addresses"}
Later == {"flows", "running", "stopped", "ended"}

NetworkInv ==
  /\ scenario \in Scenarios /\ phase \in Phases
  /\ phase \in Early => placed = <<>>
  /\ phase \in {"positions", "addresses"} => GroupMade
  /\ phase \in Later \/ placed # <<>> =>
       GroupMade /\ HostsMade /\ LossyMade(Len(placed))

(* The sources are taken in turn: each node before the next one has been   *)
(* taken once oftener than those from it on.                               *)
Load(n) == Cardinality({k \in DOMAIN placed : placed[k].source = <<"left", n>>})
InTurn ==
  Program = "taskALowRate" =>
    /\ Load(0) = 0
    /\ \E q \in Nat : \A n \in 1..(WsnNodes - 1) : Load(n) = IF n < node THEN q + 1 ELSE q

FlowsInv ==
  /\ placed \in Seq(Places) /\ Len(placed) <= scenario.flows
  /\ node \in 1..(WsnNodes - 1)
  /\ \A k \in 1..Len(placed) : InPlace(placed[k], k)
  /\ InTurn

PacketsInv ==
  /\ sent \in [Flows -> Nat] /\ inFlight \in [Flows -> Nat] /\ totalRx \in [Flows -> Nat]
  /\ OwnSinkOnly

-----------------------------------------------------------------------------
(* Facts about the constants and the helpers. *)

LEMMA ScenarioTypes ==
  ASSUME scenario \in Scenarios
  PROVE  /\ Program \in Programs /\ scenario.flows \in Nat /\ scenario.flows <= MaxFlows
         /\ scenario.flows <= Word - 1 /\ Word \in Nat \ {0} /\ MaxFlows \in Nat
         /\ scenario.left \in Nat \ {0} /\ scenario.right \in Nat \ {0}
         /\ scenario.left <= Word - 1
         /\ WsnNodes \in Nat \ {0, 1}
  BY TopologyAssumption, SimulationAssumption DEF Program

LEMMA Created ==
  ASSUME NEW first \in Nat, NEW n \in Nat
  PROVE  /\ Create(first, n) \in Seq(Nat) /\ Len(Create(first, n)) = n
         /\ \A k \in 1..n : Create(first, n)[k] = first + k - 1
<1>1. \A k \in 1..n : first + k - 1 \in Nat OBVIOUS
<1> QED BY <1>1 DEF Create

LEMMA WordSmall ==
  ASSUME NEW w \in Nat \ {0}, NEW x \in Int, -w < x, x < w
  PROVE  x % w = IF x >= 0 THEN x ELSE x + w
  OBVIOUS

(* A flow's place is one, and its numbers are what the mains compute.      *)
LEMMA PlaceTypes ==
  ASSUME scenario \in Scenarios, NEW f \in 1..scenario.flows, node \in 1..(WsnNodes - 1)
  PROVE  /\ Place(f) \in Places
         /\ Program = "taskB" => Place(f) = WiredFlow(f)
         /\ Program = "taskAHighRate" => Place(f) = WifiFlow(f)
         /\ Program = "taskALowRate" => Sensor(Place(f), f)
<1>1. f \in Nat \ {0} /\ node \in Nat /\ node \in 1..(WsnNodes - 1)
  BY ScenarioTypes
<1>2. WiredFlow(f) \in Places
  BY <1>1 DEF WiredFlow, Places, Names, Sides
<1>3. WifiFlow(f) \in Places
  <2>1. scenario.left \in Int /\ Word \in Nat \ {0}
    BY ScenarioTypes
  <2>2. (scenario.left - 1 - f) % Word \in Nat
    BY <1>1, <2>1
  <2> QED BY <1>1, <2>2 DEF WifiFlow, Places, Names, Sides
<1>4. SensorFlow(f) \in Places /\ Sensor(SensorFlow(f), f)
  BY <1>1 DEF SensorFlow, Sensor, Places, Names, Sides
<1>5. Program \in Programs
  BY ScenarioTypes
<1>6. CASE Program = "taskB"
  BY <1>2, <1>6 DEF Place
<1>7. CASE Program = "taskAHighRate"
  BY <1>3, <1>7 DEF Place
<1>8. CASE Program = "taskALowRate"
  BY <1>4, <1>8 DEF Place
<1> QED BY <1>5, <1>6, <1>7, <1>8 DEF Programs

(* The node after one of the sources' nodes. *)
LEMMA NextNodeIs ==
  ASSUME NEW i \in 1..(WsnNodes - 1)
  PROVE  NextNode(i) = IF i = WsnNodes - 1 THEN 1 ELSE i + 1
<1>1. WsnNodes \in Nat \ {0, 1} /\ i \in Nat
  BY TopologyAssumption
<1>2. CASE i = WsnNodes - 1
  BY <1>1, <1>2 DEF NextNode
<1>3. CASE i # WsnNodes - 1
  <2>1. (i + 1) % WsnNodes = i + 1
    BY <1>1, <1>3, WordSmall
  <2> QED BY <1>1, <1>3, <2>1 DEF NextNode
<1> QED BY <1>2, <1>3

(* What the program's later steps do to the network and the flows.         *)
Settled == UNCHANGED setupVars

LEMMA LaterStepsSettle ==
  ASSUME [Next]_vars
  PROVE  \/ Build /\ UNCHANGED <<node, placed>>
         \/ \E f \in Flows : AddFlow(f)
         \/ Settled /\ (phase' = phase \/ phase' \in {"aborted", "undefined"}
                          \/ (phase \in Later /\ phase' \in Later))
<1>1. CASE BuildNetwork
  BY <1>1 DEF BuildNetwork
<1>2. CASE \E f \in Flows : AddFlow(f)
  BY <1>2
<1>3. CASE \E f \in Flows : AddFlowFails(f)
  BY <1>3 DEF AddFlowFails, Settled
<1>4. CASE Run
  BY <1>4 DEF Run, Settled, Later
<1>5. CASE StartApplication \/ SendAgain
  BY <1>5 DEF StartApplication, SendAgain, SendPacket, Settled
<1>6. CASE CalculateThroughput \/ CalculateThroughputOf
  BY <1>6 DEF CalculateThroughput, CalculateThroughputOf, Read, Settled
<1>7. CASE ReadNullSink
  BY <1>7 DEF ReadNullSink, Settled
<1>8. CASE CalculateDropRatio
  BY <1>8 DEF CalculateDropRatio, Settled
<1>9. CASE Stop
  BY <1>9 DEF Stop, Dispatch, Settled, Later
<1>10. CASE Report
  BY <1>10 DEF Report, Settled, Later
<1>11. CASE Network
  BY <1>11 DEF Network, Receive, SendInVain, DropOverheard, Settled
<1>12. CASE UNCHANGED vars
  BY <1>12 DEF vars, Settled
<1> QED BY <1>1, <1>2, <1>3, <1>4, <1>5, <1>6, <1>7, <1>8, <1>9, <1>10, <1>11, <1>12 DEF Next

(* Settled steps leave what is said of the network and the flows alone.    *)
LEMMA SettledKeeps ==
  ASSUME NetworkInv, FlowsInv, Settled,
         \/ phase' = phase
         \/ phase' \in {"aborted", "undefined"}
         \/ phase \in Later /\ phase' \in Later
  PROVE  NetworkInv' /\ FlowsInv'
<1>1. /\ scenario' = scenario /\ group' = group /\ host' = host /\ lossy' = lossy
      /\ node' = node /\ placed' = placed
  BY DEF Settled, setupVars, built
<1>2. NetworkInv'
  <2>1. scenario' \in Scenarios /\ phase' \in Phases
    BY <1>1 DEF NetworkInv, Phases, Later
  <2>2. GroupMade' <=> GroupMade
    BY <1>1 DEF GroupMade, Nodes, Program, WiredNodes, WifiNodes, SensorNodes
  <2>3. HostsMade' <=> HostsMade
    BY <1>1 DEF HostsMade, Devices, Gateway, Program
  <2>4. LossyMade(Len(placed))' <=> LossyMade(Len(placed))
    BY <1>1 DEF LossyMade, Program
  <2>5. (phase \in Early => placed = <<>>)'
    BY <1>1 DEF NetworkInv, Early, Later
  <2>6. (phase \in {"positions", "addresses"} => GroupMade)'
    BY <2>2 DEF NetworkInv, Later
  <2>7. (phase \in Later \/ placed # <<>> =>
           GroupMade /\ HostsMade /\ LossyMade(Len(placed)))'
    BY <1>1, <2>2, <2>3, <2>4 DEF NetworkInv, Later
  <2> QED BY <2>1, <2>5, <2>6, <2>7 DEF NetworkInv
<1>3. FlowsInv'
  <2>1. \A k \in 1..Len(placed) : InPlace(placed[k], k)' <=> InPlace(placed[k], k)
    BY <1>1 DEF InPlace, Exists, Sensor, Program, WiredFlow, WifiFlow
  <2>2. InTurn' <=> InTurn
    <3>1. \A n : Load(n)' = Load(n)
      BY <1>1 DEF Load
    <3> QED BY <1>1, <3>1 DEF InTurn, Program
  <2>3. \A k \in 1..Len(placed') : InPlace(placed[k], k)'
    BY <1>1, <2>1 DEF FlowsInv
  <2> QED BY <1>1, <2>2, <2>3 DEF FlowsInv
<1> QED BY <1>2, <1>3

(* No flow is placed while the network is built. *)
LEMMA BuildKeeps ==
  ASSUME NetworkInv, FlowsInv, Build, UNCHANGED <<node, placed>>
  PROVE  NetworkInv' /\ FlowsInv'
<1>1. scenario' = scenario /\ node' = node /\ placed' = placed /\ placed = <<>>
  BY DEF Build, ParseOptions, CreateNodes, InstallMobility, AssignAddresses, NetworkInv, Early
<1>2. Program \in Programs /\ Program' = Program
  BY <1>1, ScenarioTypes DEF NetworkInv, Program
<1>3. FlowsInv'
  <2>1. Len(placed) = 0 /\ Len(placed') = 0
    BY <1>1
  <2>2. \A n : Load(n)' = Load(n)
    BY <1>1 DEF Load
  <2>3. InTurn'
    BY <1>1, <1>2, <2>2 DEF InTurn, FlowsInv
  <2> QED BY <1>1, <2>1, <2>3 DEF FlowsInv
<1>4. CASE ParseOptions
  BY <1>1, <1>3, <1>4 DEF ParseOptions, NetworkInv, Phases, Early, Later
<1>5. CASE CreateNodes
  <2>1. GroupMade'
    BY <1>1, <1>2, <1>5 DEF CreateNodes, GroupMade, Nodes, WiredNodes, WifiNodes, SensorNodes
  <2>2. phase' \in {"positions", "addresses"}
    BY <1>5 DEF CreateNodes
  <2> QED BY <1>1, <1>3, <2>1, <2>2 DEF NetworkInv, Phases, Early, Later
<1>6. CASE InstallMobility
  <2>1. GroupMade' /\ phase' = "addresses"
    BY <1>1, <1>2, <1>6
       DEF InstallMobility, GroupMade, Nodes, WiredNodes, WifiNodes, SensorNodes, NetworkInv
  <2> QED BY <1>1, <1>3, <2>1 DEF NetworkInv, Phases, Early, Later
<1>7. CASE AssignAddresses
  <2>1. GroupMade'
    BY <1>1, <1>2, <1>7
       DEF AssignAddresses, GroupMade, Nodes, WiredNodes, WifiNodes, SensorNodes, NetworkInv
  <2>2. HostsMade'
    BY <1>1, <1>2, <1>7 DEF AssignAddresses, HostsMade, Devices, Gateway
  <2>3. LossyMade(Len(placed))'
    <3>1. Len(placed') = 0 /\ 1..0 = {}
      BY <1>1
    <3>2. CASE Program = "taskAHighRate"
      BY <1>2, <1>7, <3>2 DEF AssignAddresses, LossyMade
    <3>3. CASE Program = "taskB"
      <4>1. {Receiver(f) : f \in 1..0} = {}
        OBVIOUS
      <4> QED BY <1>2, <1>7, <3>1, <3>3, <4>1 DEF AssignAddresses, LossyMade
    <3>4. CASE Program = "taskALowRate"
      BY <1>2, <1>7, <3>4 DEF AssignAddresses, LossyMade
    <3> QED BY <1>2, <3>2, <3>3, <3>4 DEF Programs
  <2>4. phase' \in {"aborted", "flows"}
    BY <1>7 DEF AssignAddresses
  <2> QED BY <1>1, <1>3, <2>1, <2>2, <2>3, <2>4 DEF NetworkInv, Phases, Early, Later
<1> QED BY <1>3, <1>4, <1>5, <1>6, <1>7 DEF Build

(* One flow more adds one to the load of its source's node.                *)
LEMMA LoadOfOneMore ==
  ASSUME placed \in Seq(Places), NEW p \in Places, placed' = Append(placed, p), NEW n
  PROVE  /\ Load(n) \in Nat
         /\ Load(n)' = IF p.source = <<"left", n>> THEN Load(n) + 1 ELSE Load(n)
<1> DEFINE With == {k \in DOMAIN placed : placed[k].source = <<"left", n>>}
<1>1. Len(placed) \in Nat /\ DOMAIN placed = 1..Len(placed)
  OBVIOUS
<1>2. IsFiniteSet(With)
  <2>1. IsFiniteSet(1..Len(placed))
    BY <1>1, FS_Interval
  <2> QED BY <1>1, <2>1, FS_Subset
<1>3. Load(n) \in Nat
  BY <1>2, FS_CardinalityType DEF Load
<1>4. /\ DOMAIN placed' = 1..(Len(placed) + 1)
      /\ \A k \in 1..Len(placed) : placed'[k] = placed[k]
      /\ placed'[Len(placed) + 1] = p
  OBVIOUS
<1>5. CASE p.source = <<"left", n>>
  <2>1. {k \in DOMAIN placed' : placed'[k].source = <<"left", n>>} = With \cup {Len(placed) + 1}
    BY <1>1, <1>4, <1>5
  <2>2. Len(placed) + 1 \notin With
    BY <1>1
  <2> QED BY <1>2, <1>3, <1>5, <2>1, <2>2, FS_AddElement DEF Load
<1>6. CASE p.source # <<"left", n>>
  <2>1. {k \in DOMAIN placed' : placed'[k].source = <<"left", n>>} = With
    BY <1>1, <1>4, <1>6
  <2> QED BY <1>3, <1>6, <2>1 DEF Load
<1> QED BY <1>3, <1>5, <1>6

(* The turn goes on to the next node, and from the last one to the first.  *)
LEMMA TurnGoesOn ==
  ASSUME Program = "taskALowRate", InTurn, node \in 1..(WsnNodes - 1),
         placed \in Seq(Places), NEW p \in Places, placed' = Append(placed, p),
         p.source = <<"left", node>>, node' = NextNode(node), Program' = Program
  PROVE  InTurn'
<1>1. WsnNodes \in Nat \ {0, 1} /\ node \in Nat \ {0}
  BY TopologyAssumption
<1>2. \A n : Load(n)' = IF n = node THEN Load(n) + 1 ELSE Load(n)
  <2> TAKE n
  <2>1. p.source = <<"left", n>> <=> n = node
    OBVIOUS
  <2> QED BY <2>1, LoadOfOneMore
<1>3. Load(0)' = 0
  BY <1>1, <1>2 DEF InTurn
<1>4. PICK q \in Nat : \A n \in 1..(WsnNodes - 1) : Load(n) = IF n < node THEN q + 1 ELSE q
  BY DEF InTurn
<1>5. CASE node = WsnNodes - 1
  <2>1. node' = 1
    BY <1>5, NextNodeIs
  <2>2. \A n \in 1..(WsnNodes - 1) : Load(n)' = q + 1
    BY <1>1, <1>2, <1>4, <1>5
  <2>3. PICK r \in Nat : r = q + 1
    OBVIOUS
  <2>4. \A n \in 1..(WsnNodes - 1) : Load(n)' = IF n < node' THEN r + 1 ELSE r
    BY <1>1, <2>1, <2>2, <2>3
  <2> QED BY <1>3, <2>4 DEF InTurn
<1>6. CASE node # WsnNodes - 1
  <2>1. node' = node + 1
    BY <1>6, NextNodeIs
  <2>2. \A n \in 1..(WsnNodes - 1) : Load(n)' = IF n < node' THEN q + 1 ELSE q
    BY <1>1, <1>2, <1>4, <2>1
  <2> QED BY <1>3, <1>4, <2>2 DEF InTurn
<1> QED BY <1>5, <1>6

(* A round of the loop over the flows.                                     *)
LEMMA AddFlowKeeps ==
  ASSUME NetworkInv, FlowsInv, NEW f \in Flows, AddFlow(f)
  PROVE  NetworkInv' /\ FlowsInv'
<1>1. /\ scenario' = scenario /\ group' = group /\ host' = host /\ phase' = phase
      /\ phase = "flows" /\ placed' = Append(placed, Place(f))
      /\ f = Len(placed) + 1 /\ f <= scenario.flows /\ Exists(Place(f).sink)
  BY DEF AddFlow, InLoop, HasPlace
<1>2. /\ scenario \in Scenarios /\ Program \in Programs /\ Program' = Program
      /\ placed \in Seq(Places) /\ Len(placed) \in Nat /\ f \in 1..scenario.flows
      /\ node \in 1..(WsnNodes - 1) /\ WsnNodes \in Nat \ {0, 1}
  BY <1>1, ScenarioTypes, TopologyAssumption DEF NetworkInv, FlowsInv, Program, Flows
<1>3. /\ Place(f) \in Places
      /\ Program = "taskB" => Place(f) = WiredFlow(f)
      /\ Program = "taskAHighRate" => Place(f) = WifiFlow(f)
      /\ Program = "taskALowRate" => Sensor(Place(f), f)
  BY <1>2, PlaceTypes
<1>4. /\ placed' \in Seq(Places) /\ Len(placed') = f
      /\ \A k \in 1..Len(placed) : placed'[k] = placed[k]
      /\ placed'[f] = Place(f)
  BY <1>1, <1>2, <1>3
<1>5. NetworkInv'
  <2>1. GroupMade'
    BY <1>1 DEF GroupMade, Nodes, Program, WiredNodes, WifiNodes, SensorNodes, NetworkInv, Later
  <2>2. HostsMade'
    BY <1>1 DEF HostsMade, Devices, Gateway, Program, NetworkInv, Later
  <2>3. LossyMade(Len(placed)) /\ Len(placed') = Len(placed) + 1
    BY <1>1, <1>4 DEF NetworkInv, Later
  <2>4. LossyMade(Len(placed))'
    <3>1. CASE Program = "taskB"
      <4>1. lossy' = lossy \cup {Receiver(f)}
        BY <3>1 DEF AddFlow
      <4>2. 1..Len(placed') = 1..Len(placed) \cup {f}
        BY <1>1, <1>2, <2>3
      <4>3. {Receiver(g) : g \in 1..Len(placed')}
               = {Receiver(g) : g \in 1..Len(placed)} \cup {Receiver(f)}
        BY <4>2
      <4> QED BY <1>2, <2>3, <3>1, <4>1, <4>3 DEF LossyMade
    <3>2. CASE Program # "taskB"
      <4>1. lossy' = lossy
        BY <3>2 DEF AddFlow
      <4> QED BY <1>2, <2>3, <3>2, <4>1 DEF LossyMade, Programs
    <3> QED BY <3>1, <3>2
  <2> QED BY <1>1, <1>2, <2>1, <2>2, <2>4 DEF NetworkInv, Phases, Early
<1>6. \A k \in 1..Len(placed') : InPlace(placed[k], k)'
  <2> TAKE k \in 1..Len(placed')
  <2>1. CASE k = f
    <3>1. Program = "taskALowRate" => Sensor(placed[k], k)'
      BY <1>3, <1>4, <2>1 DEF Sensor
    <3>2. Program = "taskB" => placed'[k] = WiredFlow(k)'
      BY <1>3, <1>4, <2>1 DEF WiredFlow
    <3>3. Program = "taskAHighRate" => placed'[k] = WifiFlow(k)'
      BY <1>1, <1>3, <1>4, <2>1 DEF WifiFlow
    <3>4. Exists(placed[k].sink)'
      BY <1>1, <1>4, <2>1 DEF Exists
    <3> QED BY <1>2, <3>1, <3>2, <3>3, <3>4 DEF InPlace
  <2>2. CASE k # f
    <3>1. k \in 1..Len(placed) /\ placed'[k] = placed[k] /\ InPlace(placed[k], k)
      BY <1>1, <1>2, <1>4, <2>2 DEF FlowsInv
    <3>2. Program = "taskALowRate" => Sensor(placed[k], k)'
      BY <3>1 DEF Sensor, InPlace
    <3>3. Program = "taskB" => placed'[k] = WiredFlow(k)'
      BY <3>1 DEF WiredFlow, InPlace
    <3>4. Program = "taskAHighRate" => placed'[k] = WifiFlow(k)'
      BY <1>1, <3>1 DEF WifiFlow, InPlace
    <3>5. Exists(placed[k].sink)'
      BY <1>1, <3>1 DEF Exists, InPlace
    <3> QED BY <1>2, <3>2, <3>3, <3>4, <3>5 DEF InPlace
  <2> QED BY <2>1, <2>2
<1>7. node' \in 1..(WsnNodes - 1)
  <2>1. NextNode(node) \in 1..(WsnNodes - 1)
    BY <1>2, NextNodeIs
  <2> QED BY <1>2, <2>1 DEF AddFlow
<1>8. InTurn'
  <2>1. CASE Program = "taskALowRate"
    <3>1. node' = NextNode(node) /\ Place(f).source = <<"left", node>> /\ InTurn
      BY <2>1 DEF AddFlow, Place, SensorFlow, FlowsInv
    <3> QED BY <1>1, <1>2, <1>3, <2>1, <3>1, TurnGoesOn
  <2>2. CASE Program # "taskALowRate"
    BY <1>2, <2>2 DEF InTurn
  <2> QED BY <2>1, <2>2
<1> QED BY <1>1, <1>4, <1>5, <1>6, <1>7, <1>8 DEF FlowsInv

-----------------------------------------------------------------------------
(* What the network and the flows' places say of each packet's way. *)

(* The hosts of the sinks' network are the nodes of the sinks' container,  *)
(* in the same order, perhaps with the access point after them; and no two *)
(* are the same node.                                                      *)
LEMMA SinksAreHosts ==
  ASSUME NetworkInv, placed # <<>>
  PROVE  /\ Len(group[SinkSide]) \in Nat /\ DOMAIN host[SinkSide] \subseteq Nat \ {0}
         /\ \A j \in 1..Len(group[SinkSide]) :
              j \in DOMAIN host[SinkSide] /\ host[SinkSide][j] = group[SinkSide][j]
         /\ \A i, j \in DOMAIN host[SinkSide] :
              host[SinkSide][i] = host[SinkSide][j] => i = j
<1>1. GroupMade /\ HostsMade /\ Program \in Programs
  BY ScenarioTypes DEF NetworkInv
<1>2. scenario.left \in Nat \ {0} /\ scenario.right \in Nat \ {0} /\ WsnNodes \in Nat \ {0, 1}
  BY ScenarioTypes DEF NetworkInv
<1>3. SinkSide \in Networks /\ host[SinkSide] = Devices(SinkSide)
  BY <1>1 DEF HostsMade, SinkSide, Networks, Sides
<1>4. CASE Program = "taskB"
  <2> DEFINE right == scenario.right - 1
  <2>1. right \in Nat
    BY <1>2
  <2>2. group["right"] = <<1>> \o Create(2, right)
    BY <1>1, <1>4 DEF GroupMade, Nodes, WiredNodes
  <2>3. /\ Create(2, right) \in Seq(Nat) /\ Len(Create(2, right)) = right
        /\ \A k \in 1..right : Create(2, right)[k] = 2 + k - 1
    BY <2>1, Created
  <2>4. Len(group["right"]) = right + 1 /\ \A j \in 1..(right + 1) : group["right"][j] = j
    <3> HIDE DEF right
    <3> QED BY <2>1, <2>2, <2>3
  <2>5. host["right"] = group["right"] /\ group["right"] \in Seq(Nat)
    <3> HIDE DEF right
    <3>1. <<1>> \in Seq(Nat)
      OBVIOUS
    <3> QED BY <1>3, <1>4, <2>2, <2>3, <3>1 DEF Devices, SinkSide
  <2> HIDE DEF right
  <2> QED BY <1>4, <2>1, <2>4, <2>5 DEF SinkSide
<1>5. CASE Program = "taskAHighRate"
  <2>1. /\ Create(2, scenario.left) \in Seq(Nat) /\ Len(Create(2, scenario.left)) = scenario.left
        /\ \A k \in 1..scenario.left : Create(2, scenario.left)[k] = 2 + k - 1
    BY <1>2, Created
  <2>2. group["left"] = Create(2, scenario.left) /\ group.p2p = Create(0, 2)
    BY <1>1, <1>5 DEF GroupMade, Nodes, WifiNodes
  <2>3. Gateway("left") = 0
    BY <2>2 DEF Gateway, Create
  <2>4. host["left"] = Append(group["left"], 0)
    BY <1>3, <1>5, <2>3 DEF Devices, SinkSide, Sides
  <2>5. group["left"] \in Seq(Nat) /\ Len(group["left"]) = scenario.left
    BY <2>1, <2>2
  <2>6. \A j \in 1..scenario.left : group["left"][j] = j + 1
    BY <1>2, <2>1, <2>2
  <2>7. DOMAIN host["left"] = 1..(scenario.left + 1)
    BY <1>2, <2>4, <2>5
  <2>8. /\ \A j \in 1..scenario.left : host["left"][j] = group["left"][j]
        /\ host["left"][scenario.left + 1] = 0
    BY <1>2, <2>4, <2>5
  <2>9. SinkSide = "left" /\ DOMAIN host["left"] \subseteq Nat \ {0}
    BY <1>2, <1>5, <2>7 DEF SinkSide
  <2>10. \A j \in 1..scenario.left : j \in DOMAIN host["left"]
    BY <1>2, <2>7
  <2>11. \A j \in 1..scenario.left : host["left"][j] = j + 1
    BY <2>6, <2>8
  <2>12. ASSUME NEW i \in DOMAIN host["left"], NEW j \in DOMAIN host["left"],
                host["left"][i] = host["left"][j]
         PROVE  i = j
    <3>1. \A n \in 1..(scenario.left + 1) : n \in 1..scenario.left \/ n = scenario.left + 1
      BY <1>2
    <3>2. i \in 1..(scenario.left + 1) /\ j \in 1..(scenario.left + 1)
      BY <2>7, <2>12
    <3> QED BY <1>2, <2>8, <2>11, <2>12, <3>1, <3>2
  <2> QED BY <1>2, <2>5, <2>8, <2>9, <2>10, <2>12
<1>6. CASE Program = "taskALowRate"
  <2>1. /\ Create(0, WsnNodes) \in Seq(Nat) /\ Len(Create(0, WsnNodes)) = WsnNodes
        /\ \A k \in 1..WsnNodes : Create(0, WsnNodes)[k] = 0 + k - 1
    BY <1>2, Created
  <2>2. group["left"] = Create(0, WsnNodes) /\ host["left"] = group["left"]
    BY <1>1, <1>3, <1>6
       DEF GroupMade, Nodes, SensorNodes, Nowhere, Networks, Sides, Devices, SinkSide
  <2> QED BY <1>2, <1>6, <2>1, <2>2 DEF SinkSide
<1> QED BY <1>1, <1>4, <1>5, <1>6 DEF Programs

(* The sink of a flow is a node of the sinks' side, and its address is.    *)
LEMMA SinkOfFlow ==
  ASSUME NetworkInv, FlowsInv, NEW k \in 1..Len(placed)
  PROVE  /\ placed # <<>> /\ placed[k].to = placed[k].sink
         /\ placed[k].sink = <<SinkSide, placed[k].sink[2]>>
         /\ placed[k].sink[2] + 1 \in 1..Len(group[SinkSide])
         /\ NodeAt(placed[k].sink) = host[SinkSide][placed[k].sink[2] + 1]
         /\ HostOf(placed[k].to) = NodeAt(placed[k].sink)
<1>1. placed # <<>> /\ Program \in Programs /\ InPlace(placed[k], k) /\ k \in Nat \ {0}
  BY ScenarioTypes DEF NetworkInv, FlowsInv
<1>2. /\ placed[k].to = placed[k].sink
      /\ placed[k].sink = <<SinkSide, placed[k].sink[2]>> /\ placed[k].sink[2] \in Nat
  <2>1. CASE Program = "taskB"
    BY <1>1, <2>1 DEF InPlace, WiredFlow, SinkSide
  <2>2. CASE Program = "taskAHighRate"
    <3>1. scenario.left \in Nat /\ Word \in Nat \ {0}
      BY ScenarioTypes DEF NetworkInv
    <3>2. (scenario.left - 1 - k) % Word \in Nat
      BY <1>1, <3>1
    <3> QED BY <1>1, <2>2, <3>2 DEF InPlace, WifiFlow, SinkSide
  <2>3. CASE Program = "taskALowRate"
    BY <1>1, <2>3 DEF InPlace, Sensor, SinkSide
  <2> QED BY <1>1, <2>1, <2>2, <2>3 DEF Programs
<1>3. placed[k].sink[1] = SinkSide
  BY <1>2
<1>4. placed[k].sink[2] + 1 \in 1..Len(group[SinkSide])
  BY <1>1, <1>2, <1>3, SinksAreHosts DEF InPlace, Exists
<1> QED BY <1>1, <1>2, <1>3, <1>4, SinksAreHosts DEF NodeAt, HostOf

LEMMA SendsToItsSinkHolds ==
  ASSUME NetworkInv, FlowsInv
  PROVE  SendsToItsSink
<1>1. DOMAIN placed = 1..Len(placed)
  BY DEF FlowsInv
<1> SUFFICES ASSUME NEW k \in 1..Len(placed)
             PROVE  /\ HostOf(placed[k].to) = NodeAt(placed[k].sink)
                    /\ \A net \in Networks : \A j \in DOMAIN host[net] :
                         (host[net][j] = NodeAt(placed[k].sink) /\ net = placed[k].to[1])
                            => j = placed[k].to[2] + 1
  BY <1>1 DEF SendsToItsSink
<1>2. HostOf(placed[k].to) = NodeAt(placed[k].sink)
  BY SinkOfFlow
<1>3. ASSUME NEW net \in Networks, NEW j \in DOMAIN host[net],
             host[net][j] = NodeAt(placed[k].sink), net = placed[k].to[1]
      PROVE  j = placed[k].to[2] + 1
  <2>1. net = SinkSide
    BY <1>3, SinkOfFlow
  <2> QED BY <1>3, <2>1, SinkOfFlow, SinksAreHosts
<1> QED BY <1>2, <1>3

(* The access point of the sources comes after their stations.             *)
LEMMA RadiosOfTheSources ==
  ASSUME NetworkInv, placed # <<>>, Program = "taskAHighRate"
  PROVE  /\ Len(group["left"]) \in Nat /\ DOMAIN host["left"] = 1..(Len(group["left"]) + 1)
         /\ \E g \in DOMAIN host["right"] : host["right"][g] = Gateway("right")
         /\ DOMAIN host["right"] \subseteq Nat \ {0}
<1>1. GroupMade /\ HostsMade BY DEF NetworkInv
<1>2. scenario.left \in Nat \ {0} /\ scenario.right \in Nat \ {0}
  BY ScenarioTypes DEF NetworkInv
<1>3. /\ Create(2, scenario.left) \in Seq(Nat)
      /\ Create(2 + scenario.left, scenario.right) \in Seq(Nat)
  <2>1. Create(2, scenario.left) \in Seq(Nat) BY <1>2, Created
  <2>2. 2 + scenario.left \in Nat BY <1>2
  <2>3. Create(2 + scenario.left, scenario.right) \in Seq(Nat) BY <1>2, <2>2, Created
  <2> QED BY <2>1, <2>3
<1>4. /\ group["left"] = Create(2, scenario.left)
      /\ group["right"] = Create(2 + scenario.left, scenario.right)
  BY <1>1 DEF GroupMade, Nodes, WifiNodes
<1>5. \A net \in Sides : host[net] = Append(group[net], Gateway(net))
  BY <1>1 DEF HostsMade, Devices, Networks, Sides
<1>6. ASSUME NEW q \in Seq(Nat), NEW e
      PROVE  /\ Len(q) \in Nat /\ DOMAIN Append(q, e) = 1..(Len(q) + 1)
             /\ Append(q, e)[Len(q) + 1] = e
  OBVIOUS
<1>7. \A net \in Sides :
        /\ Len(group[net]) \in Nat /\ DOMAIN host[net] = 1..(Len(group[net]) + 1)
        /\ host[net][Len(group[net]) + 1] = Gateway(net)
  BY <1>3, <1>4, <1>5, <1>6 DEF Sides
<1> QED BY <1>7 DEF Sides

(* Of the devices with a RateErrorModel one is on the way of a flow; in    *)
(* taskAHighRate the other two on it are radios.                           *)
LEMMA CrossesOneRateErrorModelHolds ==
  ASSUME NetworkInv, FlowsInv
  PROVE  CrossesOneRateErrorModel
<1>1. DOMAIN placed = 1..Len(placed)
  BY DEF FlowsInv
<1> SUFFICES ASSUME Program # "taskALowRate", NEW k \in 1..Len(placed), NEW way,
                    way = Way(placed[k].source, placed[k].to)
             PROVE  /\ Cardinality(way \cap lossy) = 1
                    /\ {d \in way : Radio(d)} =
                         (IF Program = "taskAHighRate" THEN way \ lossy ELSE {})
  BY <1>1 DEF CrossesOneRateErrorModel
<1>2. placed # <<>> /\ Program \in Programs /\ InPlace(placed[k], k) /\ LossyMade(Len(placed))
  BY ScenarioTypes DEF NetworkInv, FlowsInv
<1>3. /\ \E d : way \cap lossy = {d}
      /\ {d \in way : Radio(d)} = (IF Program = "taskAHighRate" THEN way \ lossy ELSE {})
  <2>1. CASE Program = "taskB"
    <3>1. placed[k].source = <<"left", k>> /\ placed[k].to = <<"right", k>>
      BY <1>2, <2>1 DEF InPlace, WiredFlow
    <3> DEFINE g == (CHOOSE j \in DOMAIN host["left"] : host["left"][j] = Gateway("left")) - 1
    <3>2. way = {<<"left", g>>, <<"p2p", 1>>, <<"right", k>>}
      <4>1. Way(<<"left", k>>, <<"right", k>>) = {<<"left", g>>, <<"p2p", 1>>, <<"right", k>>}
        BY DEF Way
      <4> HIDE DEF g
      <4> QED BY <3>1, <4>1
    <3> HIDE DEF g
    <3>3. lossy = {<<"right", f>> : f \in 1..Len(placed)}
      BY <1>2, <2>1 DEF LossyMade, Receiver
    <3>4. way \cap lossy = {<<"right", k>>}
      BY <3>2, <3>3
    <3>5. {d \in way : Radio(d)} = {} BY <2>1 DEF Radio
    <3> QED BY <2>1, <3>4, <3>5
  <2>2. CASE Program = "taskAHighRate"
    <3>1. placed[k].source = <<"right", k>>
      BY <1>2, <2>2 DEF InPlace, WifiFlow
    <3>a. PICK i : placed[k].to = <<"left", i>> /\ i + 1 \in 1..Len(group["left"])
      BY <2>2, SinkOfFlow DEF SinkSide
    <3> DEFINE j == CHOOSE j \in DOMAIN host["right"] : host["right"][j] = Gateway("right")
               g == j - 1
    <3>2. way = {<<"right", g>>, <<"p2p", 0>>, <<"left", i>>}
      <4>1. Way(<<"right", k>>, <<"left", i>>) = {<<"right", g>>, <<"p2p", 0>>, <<"left", i>>}
        BY DEF Way
      <4> HIDE DEF g
      <4> QED BY <3>1, <3>a, <4>1
    <3>b. g + 1 \in DOMAIN host["right"]
      <4>1. j \in DOMAIN host["right"] BY <1>2, <2>2, RadiosOfTheSources
      <4>2. j \in Nat BY <1>2, <2>2, <4>1, RadiosOfTheSources
      <4> HIDE DEF j
      <4> QED BY <4>1, <4>2
    <3> HIDE DEF g
    <3>3. lossy = {<<"p2p", 0>>, <<"p2p", 1>>}
      BY <1>2, <2>2 DEF LossyMade
    <3>4. way \cap lossy = {<<"p2p", 0>>} /\ way \ lossy = {<<"right", g>>, <<"left", i>>}
      BY <3>2, <3>3
    <3>5. i + 1 \in DOMAIN host["left"]
      BY <1>2, <2>2, <3>a, RadiosOfTheSources
    <3>6. Radio(<<"right", g>>) /\ Radio(<<"left", i>>) /\ ~Radio(<<"p2p", 0>>)
      BY <2>2, <3>b, <3>5 DEF Radio, Sides
    <3>7. {d \in way : Radio(d)} = way \ lossy
      BY <3>2, <3>4, <3>6
    <3> QED BY <2>2, <3>4, <3>7
  <2> QED BY <1>2, <2>1, <2>2 DEF Programs
<1> QED BY <1>3, FS_Singleton

-----------------------------------------------------------------------------
(* No two flows send to the same port of the same host. *)

(* taskALowRate's ports are of 16 bits: no two of its flows have the same. *)
PortsSuffice == \A s \in Scenarios : s.program = "taskALowRate" => s.flows <= 65536

(* An unsigned number less than twice the modulus wraps around once.      *)
LEMMA Wraps ==
  ASSUME NEW w \in Nat \ {0}, NEW x \in Nat, x < 2 * w
  PROVE  x % w = IF x < w THEN x ELSE x - w
<1>1. CASE x < w
  BY <1>1
<1>2. CASE x >= w
  BY <1>2
<1> QED BY <1>1, <1>2

(* Ports counted on from 9 differ for as many flows as there are ports.    *)
LEMMA PortsDiffer ==
  ASSUME NEW w \in Nat, w > 8, NEW f \in Nat \ {0}, NEW g \in Nat \ {0}, f <= w, g <= w,
         (9 + f - 1) % w = (9 + g - 1) % w
  PROVE  f = g
<1>1. PICK x \in Nat, y \in Nat : x = 9 + f - 1 /\ y = 9 + g - 1
  OBVIOUS
<1>2. w \in Nat \ {0} /\ x < 2 * w /\ y < 2 * w
  BY <1>1
<1>3. x % w = IF x < w THEN x ELSE x - w
  BY <1>2, Wraps
<1>4. y % w = IF y < w THEN y ELSE y - w
  BY <1>2, Wraps
<1>5. x % w = y % w
  BY <1>1
<1>6. (IF x < w THEN x ELSE x - w) = (IF y < w THEN y ELSE y - w)
  BY <1>3, <1>4, <1>5
<1> QED BY <1>1, <1>6

(* No two flows wrap around to the same index of a station.                *)
LEMMA IndicesDiffer ==
  ASSUME NEW w \in Nat \ {0}, NEW n \in 1..(w - 1), NEW f \in 1..(w - 1), NEW g \in 1..(w - 1),
         (n - 1 - f) % w = (n - 1 - g) % w
  PROVE  f = g
<1>1. PICK a \in Int, b \in Int : a = n - 1 - f /\ b = n - 1 - g
  OBVIOUS
<1>2. -w < a /\ a < w /\ -w < b /\ b < w
  BY <1>1
<1>3. a % w = IF a >= 0 THEN a ELSE a + w
  BY <1>2, WordSmall
<1>4. b % w = IF b >= 0 THEN b ELSE b + w
  BY <1>2, WordSmall
<1>5. (IF a >= 0 THEN a ELSE a + w) = (IF b >= 0 THEN b ELSE b + w)
  BY <1>1, <1>3, <1>4
<1> QED BY <1>1, <1>5

LEMMA ReceivedByItsOwn ==
  ASSUME NetworkInv, FlowsInv, PortsSuffice,
         NEW f \in 1..Len(placed), NEW g \in 1..Len(placed),
         HostOf(placed[f].to) = NodeAt(placed[g].sink), placed[f].port = placed[g].port
  PROVE  f = g
<1>1. /\ Program \in Programs /\ InPlace(placed[f], f) /\ InPlace(placed[g], g)
      /\ f \in Nat \ {0} /\ g \in Nat \ {0} /\ f <= scenario.flows /\ g <= scenario.flows
  BY ScenarioTypes DEF NetworkInv, FlowsInv
<1>2. CASE Program = "taskB"
  BY <1>1, <1>2 DEF InPlace, WiredFlow
<1>3. CASE Program = "taskAHighRate"
  <2> DEFINE i(h) == (scenario.left - 1 - h) % Word
  <2>1. /\ placed[f].sink = <<"left", i(f)>> /\ placed[g].sink = <<"left", i(g)>>
    BY <1>1, <1>3 DEF InPlace, WifiFlow
  <2>2. placed[f].sink[2] = placed[g].sink[2]
    <3>1. /\ placed # <<>>
          /\ placed[f].sink[2] + 1 \in 1..Len(group[SinkSide])
          /\ placed[g].sink[2] + 1 \in 1..Len(group[SinkSide])
          /\ host[SinkSide][placed[f].sink[2] + 1] = host[SinkSide][placed[g].sink[2] + 1]
      BY SinkOfFlow
    <3>2. placed[f].sink[2] + 1 = placed[g].sink[2] + 1
      BY <3>1, SinksAreHosts
    <3>3. placed[f].sink[2] \in Int /\ placed[g].sink[2] \in Int
      <4>1. scenario.left \in Int /\ Word \in Nat \ {0}
        BY ScenarioTypes DEF NetworkInv
      <4> QED BY <1>1, <2>1, <4>1
    <3> QED BY <3>2, <3>3
  <2>3. i(f) = i(g)
    BY <2>1, <2>2
  <2>4. /\ Word \in Nat \ {0} /\ scenario.left \in 1..(Word - 1)
        /\ f \in 1..(Word - 1) /\ g \in 1..(Word - 1)
    BY <1>1, ScenarioTypes DEF NetworkInv
  <2> QED BY <2>3, <2>4, IndicesDiffer
<1>4. CASE Program = "taskALowRate"
  <2>1. f <= 65536 /\ g <= 65536
    <3>1. scenario.flows \in Nat /\ scenario.flows <= 65536
      BY <1>4, ScenarioTypes DEF PortsSuffice, NetworkInv, Program
    <3> QED BY <1>1, <3>1
  <2>2. (9 + f - 1) % 65536 = (9 + g - 1) % 65536
    BY <1>1, <1>4 DEF InPlace, Sensor
  <2>3. 65536 \in Nat /\ 65536 > 8
    OBVIOUS
  <2> QED BY <1>1, <2>1, <2>2, <2>3, PortsDiffer
<1> QED BY <1>1, <1>2, <1>3, <1>4 DEF Programs

LEMMA PacketsKeep ==
  ASSUME NetworkInv, FlowsInv, PacketsInv, PortsSuffice, [Next]_vars
  PROVE  PacketsInv'
<1> USE DEF PacketsInv
<1>1. ASSUME UNCHANGED <<sent, inFlight, totalRx>>
      PROVE  PacketsInv'
  BY <1>1 DEF OwnSinkOnly
<1>2. CASE BuildNetwork
  BY <1>1, <1>2 DEF BuildNetwork, networkVars
<1>3. CASE \E f \in Flows : AddFlow(f)
  BY <1>1, <1>3 DEF AddFlow, networkVars
<1>4. CASE \E f \in Flows : AddFlowFails(f)
  BY <1>1, <1>4 DEF AddFlowFails, networkVars
<1>5. CASE Run
  BY <1>1, <1>5 DEF Run, networkVars
<1>6. ASSUME NEW f, SendPacket(f)
      PROVE  PacketsInv'
  <2>1. /\ inFlight' = [inFlight EXCEPT ![f] = IF @ < Buffer THEN @ + 1 ELSE @]
        /\ sent' = [sent EXCEPT ![f] = @ + 1] /\ totalRx' = totalRx
    BY <1>6 DEF SendPacket
  <2>2. sent' \in [Flows -> Nat] /\ inFlight' \in [Flows -> Nat] /\ totalRx' \in [Flows -> Nat]
    <3>1. sent' = [g \in Flows |-> IF g = f THEN sent[g] + 1 ELSE sent[g]]
      BY <2>1
    <3>2. inFlight' = [g \in Flows |-> IF g = f /\ inFlight[g] < Buffer THEN inFlight[g] + 1
                                       ELSE inFlight[g]]
      BY <2>1
    <3>3. \A g \in Flows : sent[g] \in Nat /\ inFlight[g] \in Nat
      OBVIOUS
    <3>4. \A n \in Nat : n + 1 \in Nat
      OBVIOUS
    <3>5. sent' \in [Flows -> Nat]
      BY <3>1, <3>3, <3>4
    <3>6. inFlight' \in [Flows -> Nat]
      BY <3>2, <3>3, <3>4
    <3> QED BY <2>1, <3>5, <3>6
  <2>3. \A g \in Flows : totalRx'[g] + inFlight'[g] <= sent'[g]
    <3> TAKE g \in Flows
    <3>1. totalRx[g] + inFlight[g] <= sent[g]
      BY DEF OwnSinkOnly
    <3>2. /\ sent[g] \in Nat /\ inFlight[g] \in Nat /\ totalRx[g] \in Nat
          /\ sent'[g] = IF g = f THEN sent[g] + 1 ELSE sent[g]
          /\ inFlight'[g] = IF g = f /\ inFlight[g] < Buffer THEN inFlight[g] + 1
                            ELSE inFlight[g]
      BY <2>1
    <3> QED BY <2>1, <3>1, <3>2
  <2> QED BY <2>2, <2>3 DEF OwnSinkOnly
<1>7. CASE StartApplication \/ SendAgain
  BY <1>6, <1>7 DEF StartApplication, SendAgain
<1>8. CASE CalculateThroughput \/ CalculateThroughputOf
  BY <1>1, <1>8 DEF CalculateThroughput, CalculateThroughputOf, Read, networkVars
<1>9. CASE ReadNullSink
  BY <1>1, <1>9 DEF ReadNullSink, networkVars
<1>10. CASE CalculateDropRatio
  BY <1>1, <1>10 DEF CalculateDropRatio, networkVars
<1>11. CASE Stop
  BY <1>1, <1>11 DEF Stop, networkVars
<1>12. CASE Report
  BY <1>1, <1>12 DEF Report, networkVars
<1>13. ASSUME NEW f \in 1..Len(placed), NEW g \in 1..Len(placed), NEW t, Receive(f, g, t)
       PROVE  PacketsInv'
  <2>1. f = g
    BY <1>13, ReceivedByItsOwn DEF Receive
  <2>2. /\ inFlight' = [inFlight EXCEPT ![f] = @ - 1] /\ inFlight[f] > 0
        /\ totalRx' = [totalRx EXCEPT ![f] = @ + 1] /\ sent' = sent
    BY <1>13, <2>1 DEF Receive
  <2>3. f \in Flows
    BY ScenarioTypes DEF NetworkInv, FlowsInv, Flows
  <2>4. inFlight[f] - 1 \in Nat
    BY <2>2, <2>3
  <2>5. sent' \in [Flows -> Nat] /\ inFlight' \in [Flows -> Nat] /\ totalRx' \in [Flows -> Nat]
    BY <2>2, <2>3, <2>4
  <2>6. \A h \in Flows : totalRx'[h] + inFlight'[h] <= sent'[h]
    BY <2>2, <2>3 DEF OwnSinkOnly
  <2> QED BY <2>5, <2>6 DEF OwnSinkOnly
<1>14. CASE Network
  <2>1. ASSUME NEW f, NEW fate, NEW t, SendInVain(f, fate, t)
        PROVE  PacketsInv'
    BY <1>1, <2>1 DEF SendInVain
  <2>2. ASSUME NEW f, NEW t, DropOverheard(f, t)
        PROVE  PacketsInv'
    BY <1>1, <2>2 DEF DropOverheard
  <2> QED BY <1>13, <1>14, <2>1, <2>2 DEF Network
<1>15. CASE UNCHANGED vars
  BY <1>1, <1>15 DEF vars, networkVars
<1> QED BY <1>2, <1>3, <1>4, <1>5, <1>7, <1>8, <1>9, <1>10, <1>11, <1>12, <1>14, <1>15
        DEF Next

-----------------------------------------------------------------------------
(* The invariants of the specification, and what they say to a user.       *)

LEMMA SetUpInvariant ==
  Spec => [](NetworkInv /\ FlowsInv)
<1>1. Init => NetworkInv /\ FlowsInv
  <2> SUFFICES ASSUME Init PROVE NetworkInv /\ FlowsInv
    OBVIOUS
  <2>1. scenario \in Scenarios /\ phase = "options" /\ placed = <<>> /\ node = 1
    BY DEF Init, TopologyInit
  <2>2. WsnNodes \in Nat \ {0, 1} /\ scenario.flows \in Nat /\ Len(placed) = 0
    BY <2>1, ScenarioTypes
  <2>3. InTurn
    <3>1. \A n : Load(n) = 0
      BY <2>1, FS_EmptySet DEF Load
    <3> QED BY <2>1, <2>2, <3>1 DEF InTurn
  <2> QED BY <2>1, <2>2, <2>3 DEF NetworkInv, FlowsInv, Phases, Early, Later
<1>2. NetworkInv /\ FlowsInv /\ [Next]_vars => (NetworkInv /\ FlowsInv)'
  BY LaterStepsSettle, SettledKeeps, BuildKeeps, AddFlowKeeps
<1> QED BY <1>1, <1>2, PTL DEF Spec

(* The containers of nodes, of devices and of addresses that each main     *)
(* fills side by side keep step: whatever the numbers of nodes and flows,  *)
(* a flow sends to one node, and that one has the flow's sink.             *)
THEOREM FlowsSendToTheirSinks ==
  Spec => []SendsToItsSink
<1>1. NetworkInv /\ FlowsInv => SendsToItsSink
  BY SendsToItsSinkHolds
<1> QED BY <1>1, SetUpInvariant, PTL

(* taskB gives a RateErrorModel to each flow's receiver and taskAHighRate  *)
(* to the two ends of the link: every flow crosses one of them, none two;  *)
(* and of the radios, which have error models of their own, it crosses two *)
(* in taskAHighRate and none in taskB.                                     *)
THEOREM OneRateErrorModelOnTheWay ==
  Spec => []CrossesOneRateErrorModel
<1>1. NetworkInv /\ FlowsInv => CrossesOneRateErrorModel
  BY CrossesOneRateErrorModelHolds
<1> QED BY <1>1, SetUpInvariant, PTL

(* taskALowRate's turn over the nodes: the busiest source has at most one  *)
(* flow more than the idlest, and node 0, which has the sinks, none.       *)
THEOREM SourcesTakeTurns ==
  Spec => []SourcesBalanced
<1>1. FlowsInv => SourcesBalanced
  <2> SUFFICES ASSUME FlowsInv, Program = "taskALowRate"
               PROVE  /\ Load(0) = 0
                      /\ \A m, n \in 1..(WsnNodes - 1) : Load(m) <= Load(n) + 1
    BY DEF SourcesBalanced, Load
  <2> QED BY DEF FlowsInv, InTurn
<1> QED BY <1>1, SetUpInvariant, PTL

(* What a sink has received and what is still in flight was sent by the    *)
(* sink's own flow: the address and port a flow sends to are those of its  *)
(* own sink only, as long as the 16-bit ports of taskALowRate suffice.     *)
THEOREM NoForeignPackets ==
  ASSUME PortsSuffice
  PROVE  Spec => []OwnSinkOnly
<1>1. Init => PacketsInv
  BY DEF Init, PacketsInv, OwnSinkOnly
<1>2. NetworkInv /\ FlowsInv /\ PacketsInv /\ [Next]_vars => PacketsInv'
  BY PacketsKeep
<1>3. PacketsInv => OwnSinkOnly
  BY DEF PacketsInv
<1> QED BY <1>1, <1>2, <1>3, SetUpInvariant, PTL DEF Spec
=============================================================================
