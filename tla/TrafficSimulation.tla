------------------------- MODULE TrafficSimulation -------------------------
(***************************************************************************)
(* The three simulations, taskB, taskAHighRate and taskALowRate: main      *)
(* builds a network (Topology) and places the flows on its nodes, ns-3's   *)
(* simulator takes the events that MyApp and the meters have scheduled,    *)
(* one by one, and main reports what the flow monitor has counted.         *)
(*                                                                         *)
(* Neither MyApp nor a sink is ever stopped: the stop times are those of   *)
(* Simulator::Stop, which was scheduled before them, and taskB has none.   *)
(***************************************************************************)
EXTENDS Topology, SequencesExt

CONSTANTS
  MaxFlows,    \* bound: the flows of a scenario
  HalfSecond,  \* 0.5 s, Period and Interval are in ticks
  Period,      \* of a meter: 100 ms
  Interval,    \* between two packets of a flow
  StopTime,    \* of Simulator::Stop
  Buffer       \* packets that a socket holds until they are received

ASSUME SimulationAssumption ==
  /\ MaxFlows \in Nat
  /\ {HalfSecond, Period, Interval, StopTime, Buffer} \subseteq Nat \ {0}
  /\ \A s \in Scenarios : s.flows <= MaxFlows

VARIABLES
  node,         \* taskALowRate: i, the node of the next source
  placed,       \* the flows set up so far: source, sink, address and port sent to
  now, queue,   \* the simulator's time, and its events in their order
  sent,         \* m_packetsSent of each flow's MyApp
  inFlight,     \* packets its socket has accepted and its sink not received
  totalRx,      \* packets its sink has received (GetTotalRx)
  tx, rx,       \* the flow monitor's counts: segments of the flow that left
                \* its source, and that came to its sink's node
  faults,       \* history: segments that brought no sink anything, and drops
  sink,         \* taskB and taskALowRate: the flow whose sink the meter reads
  lastTotalRx,  \* the same: what it had received at the last reading
  unread,       \* history: how many packets a metered sink received since it was
                \* last read, and when the first of them came
  reading,      \* history: the last reading, and what was unread then
  totalPacketsSent, totalPacketsDropped,  \* taskB's drop meter
  frames,       \* history: what that meter saw since its last reading, and when first
  ratio,        \* history: its last reading, and what was in frames then
  report,       \* what main prints of each flow
  total         \* and taskALowRate of all: SentPackets, ReceivedPackets, LostPackets, j

setupVars   == <<scenario, built, node, placed, sink>>
networkVars == <<sent, inFlight, totalRx, tx, rx, faults>>
meterVars   == <<lastTotalRx, unread, reading>>
dropVars    == <<totalPacketsSent, totalPacketsDropped, frames, ratio>>
reportVars  == <<report, total>>
vars == <<setupVars, networkVars, meterVars, dropVars, reportVars, phase, now, queue>>

Flows == 1..MaxFlows
NoneUnread == [count |-> 0, since |-> 0]
NoReading  == [at |-> 0, value |-> 0, of |-> NoneUnread]
NoFrames   == [sent |-> 0, dropped |-> 0, since |-> 0]
NoRatio    == [at |-> 0, sent |-> 0, dropped |-> 0, of |-> NoFrames]
NoTotal    == [sent |-> 0, received |-> 0, lost |-> 0, flows |-> 0]

Event(at, do, f, last) == [at |-> at, do |-> do, flow |-> f, last |-> last]
Events == [at : Nat, do : {"start", "send", "meter", "drops", "stop"},
           flow : 0..MaxFlows, last : Nat]
Names  == Sides \X Nat
Places == [source : Names, sink : Names, to : Names, port : Nat]

TypeOK ==
  /\ TopologyTypeOK
  /\ node \in 1..WsnNodes /\ placed \in Seq(Places)
  /\ now \in 0..StopTime /\ queue \in Seq(Events)
  /\ \A n \in {sent, totalRx, tx, rx} : n \in [Flows -> Nat]
  /\ inFlight \in [Flows -> 0..Buffer] /\ faults \in 0..scenario.faults
  /\ sink \in 0..MaxFlows /\ lastTotalRx \in Nat
  /\ unread \in [Flows -> [count : Nat, since : 0..StopTime]]
  /\ reading \in [at : 0..StopTime, value : Nat, of : [count : Nat, since : 0..StopTime]]
  /\ {totalPacketsSent, totalPacketsDropped} \subseteq Nat
  /\ frames \in [sent : Nat, dropped : Nat, since : 0..StopTime]
  /\ ratio \in [at : 0..StopTime, sent : Nat, dropped : Nat,
                of : [sent : Nat, dropped : Nat, since : 0..StopTime]]
  /\ \A f \in DOMAIN report : report[f] \in [sent : Nat, received : Nat, lost : Nat]
  /\ total \in [sent : Nat, received : Nat, lost : Nat, flows : Nat]

Init ==
  /\ TopologyInit
  /\ node = 1 /\ placed = <<>>
  /\ now = 0 /\ queue = <<>>
  /\ sent = [f \in Flows |-> 0] /\ inFlight = [f \in Flows |-> 0]
  /\ totalRx = [f \in Flows |-> 0] /\ sink = 0 /\ lastTotalRx = 0
  /\ tx = [f \in Flows |-> 0] /\ rx = [f \in Flows |-> 0] /\ faults = 0
  /\ unread = [f \in Flows |-> NoneUnread] /\ reading = NoReading
  /\ totalPacketsSent = 0 /\ totalPacketsDropped = 0
  /\ frames = NoFrames /\ ratio = NoRatio
  /\ report = <<>> /\ total = NoTotal

(* Simulator::Schedule: the events are in the order of their times, and a  *)
(* new one comes after those of the same time.                             *)
Push(q, e) == InsertAt(q, 1 + Cardinality({k \in DOMAIN q : q[k].at <= e.at}), e)

(* The simulator takes its first event. *)
Dispatch(do) ==
  /\ phase = "running" /\ queue # <<>> /\ Head(queue).do = do
  /\ now' = Head(queue).at

-----------------------------------------------------------------------------
(* main *)

BuildNetwork ==
  /\ Build
  /\ UNCHANGED <<node, placed, sink, networkVars, meterVars, dropVars, reportVars, now, queue>>

(* The meters first read at 1.1 s; an application starts at 0.5 + 0.5 * f. *)
FirstReading == 2 * HalfSecond + Period
StartTime(f) == IF Program = "taskALowRate" THEN 0 ELSE HalfSecond * (1 + f)

WiredFlow(f) ==
  [source |-> <<"left", f>>, sink |-> <<"right", f>>, to |-> <<"right", f>>,
   port |-> 8080 + f - 1]

(* The index is unsigned. *)
WifiFlow(f) ==
  LET i == (scenario.left - 1 - f) % Word
  IN  [source |-> <<"right", f>>, sink |-> <<"left", i>>, to |-> <<"left", i>>, port |-> 8080]

(* Faulty variant: the port of the sinks is not increased. *)
SensorFlowOnePort(f) ==
  [source |-> <<"left", node>>, sink |-> <<"left", 0>>, to |-> <<"left", 0>>, port |-> 9]

SensorFlow(f) ==
  [source |-> <<"left", node>>, sink |-> <<"left", 0>>, to |-> <<"left", 0>>,
   port |-> (9 + f - 1) % 65536]

(* Where flow f goes. *)
Place(f) ==
  CASE Program = "taskB"         -> WiredFlow(f)
    [] Program = "taskAHighRate" -> WifiFlow(f)
    [] OTHER                     -> SensorFlow(f)

(* Faulty variant: the nodes are taken in turn from node 0 on.             *)
NextNodeFromZero(i) == (i + 1) % WsnNodes

(* taskALowRate takes the nodes but node 0, the sinks' node, in turn.      *)
NextNode(i) == IF (i + 1) % WsnNodes = 0 THEN 1 ELSE i + 1

(* Faulty variant: the device before the sink's gets the RateErrorModel.   *)
ReceiverBefore(f) == <<"right", f - 1>>

(* taskB's device that receives flow f, and loses some of it.              *)
Receiver(f) == <<"right", f>>

InLoop(f)     == phase = "flows" /\ f = Len(placed) + 1 /\ f <= scenario.flows
HasPlace(f)   == Exists(Place(f).source) /\ Exists(Place(f).sink)
HasRate       == Program = "taskALowRate" => HasDataRate(scenario.rate)

(* One round of the loop over the flows. *)
AddFlow(f) ==
  /\ InLoop(f) /\ HasPlace(f) /\ HasRate
  /\ placed' = Append(placed, Place(f))
  /\ node' = IF Program = "taskALowRate" THEN NextNode(node) ELSE node
  /\ lossy' = IF Program = "taskB" THEN lossy \cup {Receiver(f)} ELSE lossy
  /\ IF Program = "taskAHighRate"
       THEN /\ queue' = Push(queue, Event(FirstReading, "meter", f, 0))
            /\ UNCHANGED sink
       ELSE sink' = f /\ UNCHANGED queue
  /\ UNCHANGED <<scenario, group, position, host, phase, now,
                 networkVars, meterVars, dropVars, reportVars>>

(* A node that does not exist is read past the end of a container, which   *)
(* C++ does not define; what DataRate makes of an empty string is ns-3's   *)
(* affair, and taken to be a fatal error.                                  *)
AddFlowFails(f) ==
  /\ InLoop(f) /\ ~(HasPlace(f) /\ HasRate)
  /\ phase' = IF HasPlace(f) THEN "aborted" ELSE "undefined"
  /\ UNCHANGED <<setupVars, networkVars, meterVars, dropVars, reportVars, now, queue>>

(* The rest of main schedules the stop and the meters that are one for all *)
(* flows.                                                                  *)
Scheduled ==
  LET throughput == <<Event(FirstReading, "meter", 0, 0)>>
      meters == CASE Program = "taskAHighRate" -> queue
                  [] Program = "taskB" -> Append(throughput, Event(FirstReading, "drops", 0, 0))
                  [] OTHER -> throughput
  IN  Push(meters, Event(StopTime, "stop", 0, 0))

(* The simulator's start adds the starts of the flows' applications, in    *)
(* their order, before it takes any later event.                           *)
WithStarts[n \in 0..MaxFlows] ==
  IF n = 0 THEN Scheduled
           ELSE Push(WithStarts[n - 1], Event(StartTime(n), "start", n, 0))

Run ==
  /\ phase = "flows" /\ Len(placed) = scenario.flows
  /\ queue' = WithStarts[scenario.flows]
  /\ phase' = "running"
  /\ UNCHANGED <<setupVars, networkVars, meterVars, dropVars, reportVars, now>>

-----------------------------------------------------------------------------
(* MyApp *)

(* taskALowRate's packets of 100 bytes go out at 10 kbit/s for each 100 of *)
(* packets_sent_per_sec, that is, at 400 of them every 20 ms (Interval).   *)
PacketInterval ==
  IF Program = "taskALowRate" THEN (400 * Interval) \div scenario.rate ELSE Interval

(* Faulty variant: a packet more is scheduled when all have been sent.     *)
GoesOnLate(n) == Program = "taskALowRate" \/ n <= Packets

(* taskALowRate's application has no number of packets; with a number of 0 *)
(* the others send one.                                                    *)
GoesOn(n) == Program = "taskALowRate" \/ n < Packets

(* A packet that finds the socket's buffer full is refused, and counted.   *)
SendPacket(f) ==
  /\ inFlight' = [inFlight EXCEPT ![f] = IF @ < Buffer THEN @ + 1 ELSE @]
  /\ sent' = [sent EXCEPT ![f] = @ + 1]
  /\ queue' = IF GoesOn(sent[f] + 1)
                THEN Push(Tail(queue), Event(now' + PacketInterval, "send", f, 0))
                ELSE Tail(queue)
  /\ UNCHANGED <<setupVars, meterVars, dropVars, reportVars, phase, totalRx, tx, rx, faults>>

StartApplication == Dispatch("start") /\ SendPacket(Head(queue).flow)
SendAgain        == Dispatch("send") /\ SendPacket(Head(queue).flow)

-----------------------------------------------------------------------------
(* The throughput meters *)

Read(f, last) ==
  /\ reading' = [at |-> now', value |-> totalRx[f] - last, of |-> unread[f]]
  /\ unread' = [unread EXCEPT ![f] = NoneUnread]
  /\ UNCHANGED <<setupVars, networkVars, dropVars, reportVars, phase>>

(* Faulty variant: the next reading is due at once.                        *)
CalculateThroughputAtOnce ==
  /\ Dispatch("meter") /\ Head(queue).flow = 0 /\ sink # 0
  /\ Read(sink, lastTotalRx)
  /\ lastTotalRx' = totalRx[sink]
  /\ queue' = Push(Tail(queue), Event(now', "meter", 0, 0))

(* taskB and taskALowRate have one, which reads the global sink, the last  *)
(* flow's.                                                                 *)
CalculateThroughput ==
  /\ Dispatch("meter") /\ Head(queue).flow = 0 /\ sink # 0
  /\ Read(sink, lastTotalRx)
  /\ lastTotalRx' = totalRx[sink]
  /\ queue' = Push(Tail(queue), Event(now' + Period, "meter", 0, 0))

(* Without a flow the global sink is a null pointer. *)
ReadNullSink ==
  /\ Dispatch("meter") /\ Head(queue).flow = 0 /\ sink = 0
  /\ phase' = "undefined"
  /\ UNCHANGED <<setupVars, networkVars, meterVars, dropVars, reportVars, queue>>

(* Faulty variant: the event is scheduled again with what it came with.    *)
CalculateThroughputOfStale ==
  LET e == Head(queue)
  IN  /\ Dispatch("meter") /\ e.flow # 0
      /\ Read(e.flow, e.last)
      /\ queue' = Push(Tail(queue), Event(now' + Period, "meter", e.flow, e.last))
      /\ UNCHANGED lastTotalRx

(* taskAHighRate has one for each flow, with its sink and last total in    *)
(* the event.                                                              *)
CalculateThroughputOf ==
  LET e == Head(queue)
  IN  /\ Dispatch("meter") /\ e.flow # 0
      /\ Read(e.flow, e.last)
      /\ queue' = Push(Tail(queue), Event(now' + Period, "meter", e.flow, totalRx[e.flow]))
      /\ UNCHANGED lastTotalRx

-----------------------------------------------------------------------------
(* taskB's drop meter *)

(* It counts what one device sends, the source's of flow 1, and what one   *)
(* device drops, the sink's of flow 1.                                     *)
Watched(p) == Program = "taskB" /\ p.source = <<"left", 1>> /\ p.to = <<"right", 1>>

TxEnd(n)  == totalPacketsSent' = totalPacketsSent + n
RxDrop(n) == totalPacketsDropped' = totalPacketsDropped + n

(* At time t the meter sees s frames sent and d dropped. *)
Count(s, d, t) ==
  /\ TxEnd(s) /\ RxDrop(d)
  /\ frames' = IF s + d = 0 THEN frames
               ELSE [sent |-> frames.sent + s, dropped |-> frames.dropped + d,
                     since |-> IF frames.sent + frames.dropped = 0 THEN t ELSE frames.since]
  /\ UNCHANGED ratio

(* Faulty variant: the drops are not set back to 0.                        *)
CalculateDropRatioKeeps ==
  /\ Dispatch("drops")
  /\ ratio' = [at |-> now', sent |-> totalPacketsSent, dropped |-> totalPacketsDropped,
               of |-> frames]
  /\ totalPacketsSent' = 0 /\ frames' = NoFrames /\ UNCHANGED totalPacketsDropped
  /\ queue' = Push(Tail(queue), Event(now' + Period, "drops", 0, 0))
  /\ UNCHANGED <<setupVars, networkVars, meterVars, reportVars, phase>>

(* The ratio is of doubles, so that no frame sent makes it infinite or     *)
(* undefined, and nothing else.                                            *)
CalculateDropRatio ==
  /\ Dispatch("drops")
  /\ ratio' = [at |-> now', sent |-> totalPacketsSent, dropped |-> totalPacketsDropped,
               of |-> frames]
  /\ totalPacketsSent' = 0 /\ totalPacketsDropped' = 0 /\ frames' = NoFrames
  /\ queue' = Push(Tail(queue), Event(now' + Period, "drops", 0, 0))
  /\ UNCHANGED <<setupVars, networkVars, meterVars, reportVars, phase>>

-----------------------------------------------------------------------------
(* The simulator and the network *)

Stop ==
  /\ Dispatch("stop")
  /\ phase' = "stopped"
  /\ UNCHANGED <<setupVars, networkVars, meterVars, dropVars, reportVars, queue>>

Connected(p) == InRange(p.source) /\ InRange(p.sink)

(* The network does something at a time t before the next event. *)
Meanwhile(t) == phase = "running" /\ t >= now /\ t <= Head(queue).at /\ now' = t

(* TCP hands a packet to a sink that listens where flow f sends to.  The   *)
(* flow monitor's counting of its sending is put off to this moment; that  *)
(* of a packet still on its way at the stop is a fault, see below.         *)
Receive(f, g, t) ==
  /\ Meanwhile(t) /\ inFlight[f] > 0 /\ Connected(placed[f])
  /\ HostOf(placed[f].to) = NodeAt(placed[g].sink) /\ placed[f].port = placed[g].port
  /\ inFlight' = [inFlight EXCEPT ![f] = @ - 1]
  /\ tx' = [tx EXCEPT ![f] = @ + 1] /\ rx' = [rx EXCEPT ![f] = @ + 1]
  /\ totalRx' = [totalRx EXCEPT ![g] = @ + 1]
  /\ unread' = IF g = sink \/ Program = "taskAHighRate"
                   THEN [unread EXCEPT ![g] = [count |-> @.count + 1,
                                               since |-> IF @.count = 0 THEN t ELSE @.since]]
                   ELSE unread
  /\ Count(IF Watched(placed[f]) THEN 1 ELSE 0, 0, t)
  /\ UNCHANGED <<setupVars, reportVars, phase, queue, sent, faults, lastTotalRx, reading>>

Fault == faults < scenario.faults /\ faults' = faults + 1

(* A segment of flow f that brings the sink nothing: a first one or one    *)
(* sent again that arrives, one that is lost on its way or still on it when*)
(* the simulation stops, or one that the sink's device drops.              *)
SendInVain(f, fate, t) ==
  /\ Meanwhile(t) /\ sent[f] > 0 /\ Fault
  /\ fate = "arrives" => Connected(placed[f])
  /\ fate = "dropped" => placed[f].to \in lossy \/ Radio(placed[f].to)
  /\ tx' = [tx EXCEPT ![f] = @ + 1]
  /\ rx' = IF fate = "arrives" THEN [rx EXCEPT ![f] = @ + 1] ELSE rx
  /\ Count(IF Watched(placed[f]) THEN 1 ELSE 0,
           IF Watched(placed[f]) /\ fate = "dropped" THEN 1 ELSE 0, t)
  /\ UNCHANGED <<setupVars, meterVars, reportVars, phase, queue, sent, inFlight, totalRx>>

(* The devices of a wire receive what is not for them too: flow 1's drops  *)
(* a frame of another flow f, or of its acknowledgements.                  *)
DropOverheard(f, t) ==
  /\ Meanwhile(t) /\ Program = "taskB" /\ ~Watched(placed[f]) /\ sent[f] > 0 /\ Fault
  /\ <<"right", 1>> \in lossy
  /\ Count(0, 1, t)
  /\ UNCHANGED <<setupVars, meterVars, reportVars, phase, queue,
                 sent, inFlight, totalRx, tx, rx>>

Network ==
  \E f \in 1..Len(placed), t \in now..StopTime :
    \/ \E g \in 1..Len(placed) : Receive(f, g, t)
    \/ \E fate \in {"arrives", "lost", "dropped"} : SendInVain(f, fate, t)
    \/ DropOverheard(f, t)

-----------------------------------------------------------------------------
(* The report *)

(* The flow monitor knows the flows that have sent; what is still on its   *)
(* way at the end counts as lost.                                          *)
Monitored == {f \in Flows : tx[f] > 0}
Lost(f)   == (tx[f] - rx[f]) % Word
Summed(n) == SumFunctionOnSet(n, Monitored) % Word

(* Faulty variant: a flow's losses overwrite those of the flows before it. *)
TotalLostOverwritten ==
  LET last == {f \in Monitored : \A g \in Monitored : g <= f}
  IN  SumFunctionOnSet([f \in Flows |-> Lost(f)], last) % Word

TotalLost == Summed([f \in Flows |-> Lost(f)])

(* SentPackets, ReceivedPackets, LostPackets and j, after the loop over    *)
(* the flows.                                                              *)
Totals ==
  [sent |-> Summed(tx), received |-> Summed(rx), lost |-> TotalLost,
   flows |-> Cardinality(Monitored)]

(* taskB prints its throughput alone; taskAHighRate prints each flow, and  *)
(* taskALowRate adds them up.                                              *)
Report ==
  /\ phase = "stopped" /\ phase' = "ended"
  /\ report' = IF Program = "taskB" THEN <<>>
               ELSE [f \in Monitored |-> [sent |-> tx[f], received |-> rx[f], lost |-> Lost(f)]]
  /\ total' = IF Program = "taskALowRate" THEN Totals ELSE NoTotal
  /\ UNCHANGED <<setupVars, networkVars, meterVars, dropVars, now, queue>>

Next ==
  \/ BuildNetwork
  \/ \E f \in Flows : AddFlow(f)
  \/ \E f \in Flows : AddFlowFails(f)
  \/ Run
  \/ StartApplication \/ SendAgain
  \/ CalculateThroughput \/ CalculateThroughputOf \/ ReadNullSink
  \/ CalculateDropRatio
  \/ Stop \/ Report
  \/ Network

(* The program and its simulator are one sequential process. *)
Spec == Init /\ [][Next]_vars /\ WF_vars(Next)

-----------------------------------------------------------------------------
(* Properties *)

(* MyApp keeps its rate: a flow has one event pending until it has sent    *)
(* what it is asked to, and none from then on, and that event is due when  *)
(* as many intervals have gone by since the start as packets were sent.    *)
OnSchedule ==
  phase = "running" =>
    \A f \in 1..scenario.flows :
      LET pending == {k \in DOMAIN queue : queue[k].flow = f /\ queue[k].do \in {"start", "send"}}
          wanted  == IF Packets = 0 THEN 1 ELSE Packets
      IN  /\ Cardinality(pending) =
               (IF Program = "taskALowRate" \/ sent[f] < wanted THEN 1 ELSE 0)
          /\ \A k \in pending : queue[k].at = StartTime(f) + PacketInterval * sent[f]

(* No packet reaches the sink of another flow. *)
OwnSinkOnly == \A f \in Flows : totalRx[f] + inFlight[f] <= sent[f]

(* taskALowRate uses no node for a source that is two flows busier than    *)
(* another, and never the node of the sinks.                               *)
SourcesBalanced ==
  Program = "taskALowRate" =>
    LET load(n) == Cardinality({k \in DOMAIN placed : placed[k].source = <<"left", n>>})
    IN  /\ load(0) = 0
        /\ \A m, n \in 1..(WsnNodes - 1) : load(m) <= load(n) + 1

(* A reading is of the packets that came since the one before it, each     *)
(* once, and those came within a period, the time by which the reading is  *)
(* divided.  The first one of taskALowRate, whose flows start at 0, is not.*)
ReadingOfOnePeriod ==
  /\ reading.value = reading.of.count
  /\ reading.value > 0 /\ (Program = "taskALowRate" => reading.at > FirstReading)
       => reading.of.since >= reading.at - Period

(* The containers of nodes and of addresses keep step: a flow's packets go *)
(* to one node only, and the flow's sink is installed on it.               *)
SendsToItsSink ==
  \A p \in {placed[k] : k \in DOMAIN placed} :
    /\ HostOf(p.to) = NodeAt(p.sink)
    /\ \A net \in Networks : \A k \in DOMAIN host[net] :
         host[net][k] = NodeAt(p.sink) /\ net = p.to[1] => k = p.to[2] + 1

(* The rate of receive errors a scenario sets counts once for each flow:   *)
(* there is one RateErrorModel on its way, at the bottleneck or at its     *)
(* receiver, and no second one.  The other errors it meets are those of    *)
(* the radios, in taskAHighRate, where every other device on the way is    *)
(* one.                                                                    *)
CrossesOneRateErrorModel ==
  Program # "taskALowRate" =>
    \A p \in {placed[k] : k \in DOMAIN placed} :
      LET way == Way(p.source, p.to)
      IN  /\ Cardinality(way \cap lossy) = 1
          /\ {d \in way : Radio(d)} = (IF Program = "taskAHighRate" THEN way \ lossy ELSE {})

(* A drop ratio is of what was sent and dropped since the one before it,   *)
(* each frame once, and within a period; flow 1 starts no period earlier   *)
(* than the first reading.                                                 *)
RatioOfOnePeriod ==
  /\ ratio.sent = ratio.of.sent /\ ratio.dropped = ratio.of.dropped
  /\ ratio.sent + ratio.dropped > 0 => ratio.of.since >= ratio.at - Period

(* The report accounts for every packet: what the sinks got was received,  *)
(* what was sent was received or lost, nothing more is lost than was sent  *)
(* in vain, and the totals are those of the flows.                         *)
ReportAddsUp ==
  phase = "ended" /\ Program # "taskB" =>
    LET flows    == DOMAIN report
        received == [f \in flows |-> report[f].received]
        lost     == [f \in flows |-> report[f].lost]
    IN  /\ \A f \in Flows : totalRx[f] > 0 => f \in flows /\ received[f] >= totalRx[f]
        /\ \A f \in flows : report[f].sent = received[f] + lost[f]
        /\ SumFunction(lost) <= faults
        /\ Program = "taskALowRate" =>
             /\ total.sent = total.received + total.lost
             /\ total.received = SumFunction(received)
             /\ total.lost = SumFunction(lost)

(* The simulation ends, although meters and taskALowRate's applications    *)
(* schedule themselves for ever: time goes on.                             *)
SimulationEnds == <>(phase \in {"ended", "aborted", "undefined"})
-----------------------------------------------------------------------------
(* What the documents say, and the code does not do *)

(* The stations of the drawn topology are on the wifi networks of their    *)
(* access points: a flow's source and sink are in their range.             *)
FlowsReach == \A k \in DOMAIN placed : Connected(placed[k])
=============================================================================
