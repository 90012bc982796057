# Verification of the networking sessionals: file server and TCP Fusion

The repository holds two programs:

* **a classroom file server** (`SocketProgramming/src`, Java): a `Server` that
  accepts connections, one `ServiceProvider` thread per connection, and a
  console `Client`. Users log in with a number, upload files to a public or a
  private directory, look files and users up, ask for files and answer each
  other's requests;
* **an ns-3 project** (`TcpFusionAHybridCongestionControl`, C++): the congestion
  control `TcpFusion` (`tcp-fusion.{h,cc}`) and three simulations that measure
  it (`taskAHighRate.cc`, `taskALowRate.cc`, `taskB.cc`).

This directory models the parts with behaviour of their own in TLA+, checks
them with TLC on small instances and proves the main properties with TLAPS.
Paths below are relative to `src/`.

## 1. Inventory

| Component | Source | State | Operations | What is hard about it |
|---|---|---|---|---|
| Accept loop | `Server.main`, `ServiceProvider` constructor | the server socket and its backlog, `threadArrayList` | accept, handshake (read the client's stream header), list the provider, start its thread | the handshake runs on the main thread: a client that is slow delays all others, one that vanishes ends the loop |
| Login, logout, registries | `ServiceProvider.login`, `logout` | `Server.userArray`, `Server.currentUserArray`, the user directories, `id` | check that the id is not active, register a new user, make four directories, remove an active id | check and update are separate and unlocked; `ArrayList` is not thread safe; an exception ends a session without a logout |
| Lookups | `lookupOwnFiles`, `lookupOtherFiles`, `lookupStudentList` | reads the registries and directories | list own files, public files of the others, users | loops over a list that grows; directories that are not there yet; `Integer` objects compared with `==` |
| File transfer | `ServiceProvider.uploadFile`, `downloadFile`; `Client.uploadfile`, `downloadFile` | an object stream and a raw stream over one socket, the file on disk | upload, upload in response to a request, download | `read` may return part of a chunk; a declared size that is not the file's; the client vanishing half way |
| Buffer accounting | `Server.currentBufferSize`, `maxBufferSize` | one counter | add a transfer's size, take it off | read-modify-write in several threads; downloads never take off what they added; nothing reads it, as the check is commented out |
| Requests and messages | `notifyAll`, `notifyRequestSender`, `viewMessage` | each provider's `messageArray`, `requestId`; `threadArrayList` | broadcast a request, tell a requester about an upload, read and clear messages | one thread appends to the list another is printing and replacing; providers of closed sessions stay listed |
| Client main loop | `Client.main` | the command typed last | connect, prompt, send a command, dispatch on the reply | the dispatch relies on the reply being the one to the last command |
| TcpFusion | `tcp-fusion.cc` | `m_ackedSegments`, `m_currentBW`, `m_currentRtt`, `m_minRtt`, `m_cntRtt`; the socket's `m_cWnd`, `m_ssThresh` | `PktsAcked`, `IncreaseWindow`, `GetSsThresh`, `Fork` | unsigned negation and wrap-around; divisions by a zero time; an uninitialised member; samples that are not there yet |
| Traffic application, meters | `MyApp`, `CalculateThroughput`, the drop meters | `m_running`, `m_packetsSent`, the pending event; totals | start, stop, send, reschedule; sample every 100 ms | events that schedule themselves; a window that starts before the flows; division by no packets; one global sink for several flows |
| Options, network set-up | the first half of the three `main`s | options; the helpers' counters of nodes, positions and addresses | parse, create nodes, place them on a grid, set error models, assign addresses | the result of a call depends on those before it; options read after what they should change; ranges |
| Flow placement | the loops of the three `main`s | indices | place each flow's sink and source on nodes | unsigned indices that wrap or collide with many flows; containers of nodes and of addresses that must keep step |
| Flow statistics | the ends of the three `main`s | totals | print each flow and the sums | unsigned differences; what is on its way at the end; flows that never sent |
| Packet traces | the rest of the three `main`s | none | write files | nothing reads them |
| Build script | `wscript` | none | lists files for waf | nothing runs |

**Interactions.** A `Client` talks to its own `ServiceProvider` over one TCP
connection. The providers meet in static lists of `Server`: all of them read and
write `userArray` and `currentUserArray`, walk `threadArrayList` and append to
each other's `messageArray`, all with no lock. `Server.main` appends to
`threadArrayList`. The threads also meet in the file system (the user
directories). In the ns-3 project the socket calls `TcpFusion`, one call after
the other on the simulator's single thread; the class in turn calls its parent
`TcpNewReno` and changes the socket's window.

**What makes each component correct.**

* *Accept loop*: who connects is prompted, as long as no handshake kills the loop.
* *Login and registries*: no id is served twice; the active list holds exactly
  the logged-in users; a served user has directories; a login ends; no list operation ends its thread; the two lists behave like one set of active users
  and one of known users.
* *Lookups*: they end; the student list names every user once; a registered
  user's directory is there to be listed.
* *Transfer*: what was acknowledged as complete is on disk; client and provider
  never wait for each other; no message of the one stream is read as the other's.
* *Buffer accounting*: the counter would have to be the size of the transfers in progress. It is not (see the hazards), and
  nothing reads it.
* *Messages*: a message that was stored is shown once; a request reaches every
  other user; an answer reaches the user who asked.
* *TcpFusion*: window and threshold keep their floors; no sample is used before
  it exists; a loss backs off; the window shrinks only on congestion, and is
  never below Reno's.
* *Applications and meters*: a flow keeps its rate and its number of packets; a
  reading is of one period; the simulation ends.
* *Options and network set-up*: a flow's stations are in range of their access points;
  a scenario's rate of receive errors is applied once to each flow.
* *Flow placement*: no two flows share a sink, a flow sends to the address of its
  sink's node, and the sources are spread evenly.
* *Flow statistics*: sent, received and lost add up, for each flow and in total, and agree
  with what the sinks got.

`PROJECT.json` lists the hazards line by line, each with the properties that
cover it or a note why none does.

## 2. Modules

| Module | Models | Kind |
|---|---|---|
| `ArrayLists` | `java.util.ArrayList` used by several threads with no lock | operators |
| `AtomicRegistry` | what the two user lists promise: sessions enter, are denied, leave and die in one step | abstract specification |
| `SessionRegistry` | accept loop, login, logout, lookups, directories | detailed specification |
| `MCSessionRegistry` | instances for TLC | model checking |
| `ArrayListsProofs` | lemmas about the list operators | proofs |
| `SessionRegistryProofs` | theorems about `SessionRegistry` | proofs |
| `RegistryRefinementProofs` | that it implements `AtomicRegistry`, and the student list | proofs |
| `Transfer` | one client and its provider: commands, uploads, downloads | specification |
| `MCTransfer` | an instance for TLC | model checking |
| `TransferProofs` | theorems about `Transfer` | proofs |
| `Mailbox` | requests, answers and the unread messages of all providers | specification |
| `MCMailbox` | instances for TLC | model checking |
| `MailboxProofs` | theorems about `Mailbox` | proofs |
| `TcpFusion` | the congestion control and the socket that drives it | specification |
| `MCTcpFusion` | an instance for TLC | model checking |
| `TcpFusionProofs` | theorems about `TcpFusion` | proofs |
| `Topology` | options, nodes, positions, error models and addresses of the three simulations | specification of the set-up, and operators on the network it makes |
| `TrafficSimulation` | on such a network: flows, applications, meters, events, report | specification |
| `MCTrafficSimulation` | instances for TLC | model checking |
| `TrafficSimulationProofs` | theorems about the network that `TrafficSimulation` is set up on, and its flows | proofs |
| `TrafficTimingProofs` | theorems about time and numbers in `TrafficSimulation`: applications, meters, types, the report | proofs |

`SessionRegistry` and `Mailbox` extend `ArrayLists`, `TrafficSimulation` extends `Topology`;
`SessionRegistry` instantiates `AtomicRegistry` under a
refinement mapping. A definition whose comment begins with *Faulty variant* is
used by no specification: it is the definition that follows it with a plausible
mistake, against which the sensitivity of a property is tested
(`PROJECT.json`, "mutants").

### 2.1 ArrayLists

A list is a record of `slot` (the backing array up to its highest used slot) and
`size`. `add` reads the array and the size, and later writes the element at that place and the
size after it. `remove` searches for the element, then reads the size *again* (`ArrayList.fastRemove`), and
later shifts the rest down and writes the size less one. Each part is one action of the caller
in the model. So what overlapping operations may do is:

* two `add`s put both elements at one slot (an element is lost);
* `add` and `remove` leave `size` covering an empty slot, or uncover a slot whose old content comes to light again when the
  list grows: `Slot` returns `Null` for a slot never written, and slots past `size` keep what they held;
* two `remove`s of one element both count down, and the size may become -1 (`DropAt` with a size of 0);
* the array is replaced by a larger one while another thread still has the old one in hand: its element or its shift goes
  nowhere and only the size changes (`PutNowhere`, the second set of `Dropped`), or its index is past the end of that
  array and it throws (`AddMayThrow`). An `add` to a list of negative size always throws.

*Abstracted*: capacities. An array may be full at any time, so that whenever a list has grown since a thread read it,
its array may be the old one. A search (`contains`, `indexOf`) is one step; that one may miss an
element which a removal is just moving is in `Mailbox` (`Misses`), and in `SessionRegistry` a login that searches
while a logout is under way may find the list before or after the removal. `Null` elements are
seen by readers as the empty slots they are.

### 2.2 SessionRegistry

| Variable | Code |
|---|---|
| `acceptor` | where `Server.main` stands (`Server.java:15-23`); `dead` after an exception left the loop |
| `backlog` | the connections the operating system holds for `accept` |
| `threads` | `Server.threadArrayList` |
| `userArray`, `online` | `Server.userArray`, `Server.currentUserArray` |
| `folders` | users whose four directories exist |
| `pc` | where each provider's thread stands |
| `user` | `ServiceProvider.id` |
| `returning` | the branch `login` took, which decides whose `Integer` object `id` is |
| `index`, `size` | what a list operation or a lookup's loop has read so far |

| Action | Code |
|---|---|
| `Dial`, `Accept`, `StartSession`, `HandshakeFails` | `Client.java:12-14`, `Server.java:16-23`, constructor `ServiceProvider.java:15-19` |
| `ReceiveId`, `LoginFails` | `login`: the prompt and the read (237-239) |
| `CheckActive` | `currentUserArray.contains`: denied and closed (240-243) |
| `CheckKnown` | `userArray.contains` and the welcome, which fails if the client is gone |
| `AddOnline`, `PutOnline` | `currentUserArray.add`, its two halves, or its exception: the thread ends after the welcome |
| `AddUser`, `PutUser`, `MakeDirs` | `userArray.add`, or its exception, and the four `mkdir`s |
| `LookupOwnFiles` | the exception of line 192 when there is no directory (otherwise it only replies) |
| `LookupOtherFiles`, `LookupSlot`, `LookupEnds` | the loop of lines 167-182, one slot a step |
| `Logout`, `CountOnline`, `RemoveOnline` | `currentUserArray.remove` (231): the search, the second reading of the size, the move; the last two may throw |
| `Abandon` | any exception caught by `run` (75-77): the thread ends and the id stays active |

A thread that ends by an exception of a list is `crashed` when its id is not listed and `abandoned` when it is; either
way its socket stays open and its client waits.

The constant `Spaced` is an assumption on the clients. With `Spaced = FALSE`
everything overlaps. With `Spaced = TRUE` an id or a logout *arrives* only when
no other login or logout is being processed; sessions that are being served,
lookups, exceptions and the accept loop still interleave freely.

*Abstracted*: names of files and the text of replies (the student list is kept,
as `TimesListed`, because a property is about it); commands of the other components
leave this state alone. A write to a client that has gone may or may not throw,
at any reply.

### 2.3 Transfer

The life of one connection after the login. `client` is where `Client.main`
stands and `provider` where `ServiceProvider.run` does; `up` and `down` are the
bytes on their way. Objects and raw bytes share each stream with nothing between
them, and the model keeps that: a stream is a sequence of units, and a unit is
either half a chunk of raw bytes (`Unit`) or an object (`Note`, `About`). Where
`readObject` meets raw bytes it throws; where a raw `read` meets an object it takes
the object's bytes for data.

| State | Code |
|---|---|
| `sending`, `serving` | `fin` and its `bytes` in `Client.uploadfile`, in `ServiceProvider.downloadFile` |
| `upload`, `download` | `fileSize`, `count` and `bytes` in `ServiceProvider.uploadFile`, in `Client.downloadFile` |
| `disk`, `fate`, `saved` | the file of the upload on the server, whether it is kept, the file of the download |
| `buffered` | what this session has added to `Server.currentBufferSize` |
| `mishaps` | history, read by no action: what irregular thing has happened |

| Action | Code |
|---|---|
| `Type`, `ReadReply` | the loop of `Client.main` with its dispatch on the reply |
| `SendChunk`, `ReadAck`, `ReadFinal` | `Client.uploadfile` |
| `ReadIntro`, `ReadBlock` | `Client.downloadFile` |
| `ReadMessages` | `Client.viewMessage` |
| `Other`, `ViewMessage`, `Unknown`, `Malformed`, `Logout` | the branches of `run` that do not transfer, and those that answer nothing or throw |
| `StartUpload`, `ReadChunk`, `EndUpload` | the upload branch and `uploadFile`, and at the end of a response's upload `notifyRequestSender`, which may throw (`AnswerThrows`) |
| `OtherThrows`, `UploadThrows`, `LogoutThrows`, `FileVanishes` | the exceptions that other sessions cause: the null of `File.list` for a directory not made yet (174, 192) or of an empty slot (168), a file that cannot be created in such a directory (130), an `add` or `remove` that throws (110, 231), a file found by `exists` and deleted before it is opened (59, 116) |
| `NoSuchFile`, `StartDownload`, `SendBlock` | the download branch and `downloadFile` |
| `ReadGarbage`, `ConnectionLost` | the exceptions `run` catches: the thread ends, and nobody closes the socket |
| `Vanish`, `ClientEOF` | the end of the client's process |

`mishaps` has five members: `torn` (a read returned part of a chunk), `missized` (an announced size has not as many
chunks as the file), `ignored` (a command that no branch answers), `malformed` (one whose arguments make `run` throw, the
last argument of a response included) and `disturbed` (one of the exceptions that other sessions cause). The other sessions
are not in this model: each of these exceptions may come at any time, which is more than `SessionRegistry` allows.

*What the data is.* A file is its length in half chunks, so that its last chunk may
be partial: `uploadfile` and `downloadFile` send the whole buffer, and what is behind
the end of the file is what the chunk before left in it (`Filled`). The reader's
`read` returns one or two units, whatever is there. Sizes that users type are
independent of the files' sizes; the size of a download may be out of date when the
file is read, as another user may be uploading to it.

*Abstracted*: chunks of 100 bytes and blocks of 65500 are both two units; an object
is shorter than a chunk and arrives in one piece; no file's bytes happen to be a
serialized string. File names and command arguments contain none of the words the
programs look for with `contains` (with such a name another branch is taken: listed
as a hazard). A `response` is an upload here, with the exceptions of the message that follows it; the message itself is in
`Mailbox`. `currentBufferSize` is one counter of all sessions, changed with no lock; here it is one session's part of
it.

### 2.4 Mailbox

Every provider's `messageArray` is an `ArrayLists` list in `box`. A thread that
sends a message walks `threads` (`Notify`), and each `add` it makes is two steps: it
reads the field and the size (`size`), and then writes (`Put`) or throws, which ends the sender's thread in the middle of
its walk (`PutThrows`). The owner's `viewMessage` copies slot by slot (`ViewSlot`; `get` throws when the list became shorter after the
loop's test, `ViewThrows`) and puts a new list in place (`ViewEnd`). `held` is what has become of the list a writer has in
hand: it is the current one, it has been `replaced`, so that what is written is lost, or it has been replaced and
`outgrown` by another late writer, so that the write may throw.

Logging in is three steps and logging out two: the search and the change of `currentUserArray` (`Login`, `Enter`; `Logout`,
`Leave`), and the assignment of `id` (`SetId`), which comes after; a provider has the id 0 before, and stays
listed after its session is over. `active` is the set of the ids in `currentUserArray` as long as its
users did not get into each other's way. When two changes overlap, or a search misses an id that a removal is moving,
`raced` becomes and stays true, nothing more is assumed of the list, and a search of it may answer either way for any id that was typed. That
is more than can happen to it, whose details are in `SessionRegistry`.

`quiet`, chosen at the start, says whether the clients' commands about messages may
overlap. `owed` is history: which message was sent when whom it concerns was being
served.

*Abstracted*: the text of messages, which are known here by sender and number.

### 2.5 TcpFusion

One action per entry point, `PktsAcked` and `IncreaseWindow`, and two for the
ways the socket uses `GetSsThresh` (`FastRecovery`, `Timeout`). Their operators
carry the names of what they compute:
`Bandwidth` is `EstimateBW`; `BackOff`, `Increase` and `Decrease` are the three
branches of `IncreaseWindow`'s Fusion part and `Avoidance` the choice among them;
`RenoAfter` is the Reno window as the code computes it, which divides by the
*new* Fusion window.

* Windows are unsigned integers modulo `Modulus`, and so are `m_diff`, its
  negation and the window increment.
* A double too large for a `uint32_t` has no defined conversion: `ToUInt32` lets
  it lose its high bits or saturate. An infinite or undefined bandwidth becomes 0
  or the largest integer.
* An uninitialised member is `Garbage`, and a window increment computed from it
  may be any integer.
* Fractions are kept exact up to the conversion to an integer, where the code
  truncates; rounding of doubles is not modelled.
* `cnt` stops at 3, as the code only asks whether it is below 3.
* The socket (`TcpSocketBase`) and `TcpNewReno` belong to ns-3 and are external:
  slow start adds one segment, congestion avoidance `Seg*Seg/cwnd` but at least 1.
* No sum is kept from wrapping, neither Fusion's nor those of Reno, the sum `reno_cWnd` of line 204 included. `NearTop`, in the
  properties and in no guard, is a window that is less than a segment and its square below the end of the range (the last 0.3 MB of 4 GB): only
  there one more segment and Reno's `Seg*Seg/cwnd` can wrap.

### 2.6 Topology

The set-up of the three `main`s in their order, one action per part: `ParseOptions`,
`CreateNodes`, `InstallMobility` (`taskAHighRate` only) and `AssignAddresses`. A scenario is
a program, the options given to it, and how many faults its network may have.

| Variable | Code |
|---|---|
| `phase` | where `main` stands; `aborted` by a fatal error of ns-3, `undefined` after what C++ does not define |
| `group` | the node containers; nodes are numbered in the order of their creation |
| `position` | the grid positions that the one `GridPositionAllocator` hands out, to the left stations, the right ones and the access points |
| `host` | the devices of each network in the order in which `Ipv4AddressHelper` gives them addresses |
| `lossy` | the devices whose `ReceiveErrorModel` is set to a `RateErrorModel` |

In `taskB` `csmaNodes` is the right side and `csmaNodes2` the left, in `taskALowRate` all nodes
are on the left. A pair of a side and an index names a node of a container, a device and an
interface alike, as the code reads these containers with the same index; that the three agree
is `SendsToItsSink`.

What becomes of the options: `taskALowRate` computes `nWsnNodes` before it parses `nodes`,
which so has no effect (`SensorNodes` is of `WsnNodes` nodes); a
`packets_sent_per_sec` outside the table leaves no data rate (`HasDataRate`), and one inside it
gives an eighth of the packets it names (`PacketInterval` is 20 ms at 400); `taskAHighRate`
aborts on a `tcpVariant` that ns-3 does not know, passes the `int` `npacket` on as a `uint32`
(`Packets`), and uses its option `v` nowhere, so that no station moves. The error model that `taskALowRate`
creates is attached to no device, and it has no entry in `lossy`. The radios of `taskAHighRate` have error models of another kind,
`YansErrorRateModel`s set on every physical layer (278, 314): `Radio`.

*Abstracted*: rates and delays of links, standards, physical layers and SSIDs (the two sides have the
same one, but a channel each); routing, which follows the one path there is (`Way`). The
sensors move at random and relay for each other, so that any of them may be connected or not at
any time: `InRange` says nothing about them, and `Receive` never has to happen.

### 2.7 TrafficSimulation

One model covers the three
programs, which differ in how they place flows (`WiredFlow`, `WifiFlow`, `SensorFlow`, `NextNode`), in whether the
application has a number of packets (`GoesOn`), and in their meters: one for each flow
with its totals in the event (`CalculateThroughputOf`), or one for a global sink
(`CalculateThroughput`); `taskB` also has a drop meter (`CalculateDropRatio`). `AddFlow` is a
round of the loop in `main`, `Run` what follows it (the meters and the stop, `Scheduled`, and with the
simulator's start the starts of the applications, `WithStarts`), and `Report` what comes after the simulation:
the lines for each flow (`report`) and `taskALowRate`'s totals (`Totals`).

`queue` holds the simulator's events in the order in which it takes them: by time, and
first scheduled first among equals. Each of `StartApplication`, `SendAgain`, the meters
and `Stop` takes the first one. The network is external: a socket accepts a packet while its buffer has
room, and at any time up to the next event TCP hands it to whichever sink listens where it is addressed, if both
stations are in range (`Receive`). `SendInVain` is a segment that brings no sink anything: a
connection request or a repeated segment, lost or not; it takes a `RateErrorModel` or a radio on its way. `DropOverheard` is a frame of
another flow that flow 1's receiver drops, as all devices of a wire receive all frames. These two are
the faults. `Receive` counts a segment as sent and received in one step, when it is received: a packet on its way at the stop, which the
monitor counts as sent and the report as lost, appears here as a fault (`SendInVain`), and so in `Lost`. That an empty
data rate ends the program (`AddFlowFails`) is ns-3's doing, taken to be the fatal error of its parser.
`MyApp.StopApplication` has no action: it is due when
`Simulator::Stop` is, was scheduled later, and is never taken; `taskB` sets no
time for it. `tx` and `rx` are the flow monitor's; `unread`, `reading`, `frames`, `ratio` and
`faults` are history.

What C++ leaves undefined ends the model with `phase = "undefined"`: an index past the
end of a container of nodes, and the null sink of a program without flows.

*Abstracted*: bytes (a packet is one unit), the real lengths of time (what matters is
their order: 1.1 s is one period after the first flow's start at 1 s), the
traces of the congestion window, the flows of acknowledgements, which the monitor counts
apart and the report treats like all others, and of the report whatever is not a number of packets.

## 3. Runs

| Run | Instance | Question | Answer |
|---|---|---|---|
| `registry_spaced` | 3 sessions, 2 users, `Spaced` | do the unlocked lists behave like an atomic registry when logins and logouts do not overlap? | yes: `OneSessionPerUser`, `ActiveListExact`, `OwnFoldersExist`, `StudentListExact`, `NoListThrows`, `RegistryIsAtomic` |
| `registry_live` | 2 sessions, 2 users | what survives every overlap, and does everything come to an end? | `TypeOK`, `RegisteredHasFolder` (a registered user without directories always has a login about to make them); `LoginEnds` (an exception of a list counts as an end: the client is then welcomed and not served), `EventuallyPrompted`, `LookupEndsEventually`, `FolderAppears` |
| `double_login` | 3 sessions, 2 users | does `login` deny an active id? | no: see the findings |
| `transfer` | files of 0, 2 and 3 half chunks, 4 commands | which of the two sides' assumptions hold, and what follows when they do not? | `AckedIsExact`, `DownloadExact`, `DiesOfMishaps`, `NoMutualWait`; `PromptReturns` and `UploadEnds` under fairness |
| `upload_leftover` | the same, 2 commands | is the file of a failed upload deleted? | no: see the findings |
| `mailbox` | 3 sessions, 2 users (one is 0), 3 messages of two sessions, 2 of three, 1 once `raced` | are messages shown once, to whom they are meant, and never lost? | `ShownOnce` and `OnlyAddressed` always; `QuietlyStored` when commands about messages do not overlap and `currentUserArray` is undamaged |
| `mailbox_lost` | 3 sessions, 3 users, 1 message | is "stored your request" true? | no: see the findings |
| `fusion` | 6-bit windows, 4-byte segments | do floors, samples and back-offs hold whatever wraps? | `SamplesSound` and `LossBacksOff` always; `WindowFloor` and `ShrinksOnlyToBackOff` but for a window at `NearTop` |
| `simulation` | the three programs with 0 to 3 flows on 2 to 4 nodes a side, 13 ticks, 1 fault | do network, flows, meters, simulator and report do what they are set up for? | `OnSchedule`, `OwnSinkOnly`, `SourcesBalanced`, `SendsToItsSink`, `CrossesOneRateErrorModel`, `RatioOfOnePeriod`, `ReportAddsUp`, `SimulationEnds`; `ReadingOfOnePeriod`, but for the first reading of `taskALowRate` |
| `out_of_range` | the default options of `taskAHighRate` | are the flows' stations in range? | no: see the findings |
| `fusion_decrease`, `fusion_min_rtt` | the same | does the code do what its documents say? | no: see the findings |

**Bounds.** Two users and three sessions are the least with a user who logs in
again, is denied, and leaves while another user comes: two overlapping list
operations already produce every corruption of `ArrayLists`, and the third
session lets a session act on a corrupted list. One of the users has an id that
the JVM caches and one has not. A session is used once, as a provider is. For
liveness, with more to store per state, two sessions are enough for overlap; the two
invariants of that run are theorems, for any number of sessions.
Symmetry of the sessions is used for safety only.

Files of no unit, two and three have no chunk, one full chunk, or a second one that is
half padding: each case of the arithmetic of chunks, with room for a torn read in the
first chunk and in the last. `AckedIsExact` makes one exception, a connection on which a read was torn *and* a size was wrong. The two
together can leave acknowledgements over for a later upload: with files of 0, 4 and 10 half chunks and five commands, an
upload of 4 announced as 10, all of its reads torn, leaves two, and after an empty upload one of 4 that is announced as 0
is reported complete with nothing on disk. Either mishap alone cannot do that, as `CompleteIsExact` shows.

Four commands are the least after which a client whose
replies lag behind meets a closed connection (`ClientEOF`): one that leaves a reply
over, a download, a logout whose reply is read as a block of it, and one more.

In `mailbox` two messages under way are the least that can collide in one list, and the
third session is the receiver, the provider that has not logged in, or the one that is closed.
Three messages (`MaxMessages`) are the least after which a list gets shorter under its reader (`ViewThrows`: a session
has answered itself twice and reads on while a writer that counted none of it puts down the size 1), and
two sessions are enough for it: the third message is therefore left to two sessions whose commands overlap, before one of them has
closed or been shown anything. `MaxCrowded` allows two messages to three sessions whose commands overlap and to
any two sessions, and `MaxRaced` one when three sessions are quiet or late, or
once `currentUserArray` has been damaged and a search may answer
anything: that message goes through every order of steps. With these bounds `mailbox` has
8.2 million states, up to the symmetry of the sessions; what the bounds cut off the theorems cover.

For `fusion` a window has 64 values in units of a quarter segment. The samples
0, 5, 7, 9 and 12 with `Alpha = 1` reach each branch (no sample, below alpha,
between, above three alpha, back-off), the gaps 0 to 12 give zero, infinite and
wrapping bandwidths, and each acknowledgement covers up to two segments. What the
small modulus cannot show, the theorems do for all.

For `simulation` the packets are two ticks apart, a meter's period is three and 13 ticks hold
three flows' starts and several readings, and ties between a send and a reading. Three
flows on three nodes are the least that make `taskALowRate` come back to its first source, and
two on two nodes the least that make `taskAHighRate` run out of them. A grid of rows of three with a
range of two puts some of two or three stations a side out of range and leaves others in it, and
networks of four addresses are too small for four stations and their access point. One fault
is one packet lost, dropped or sent twice at any moment; three flows tell a total from the last
flow's share. `Word` is 16, far above the number of nodes, as 2^32 is, and 2^16 in
`out_of_range`, which has the program's own numbers of nodes and metres. A simulation stops, so
deadlock is not checked.

`CHECK_DEADLOCK FALSE` is set for the server: it may come to rest, with all
sessions closed or the loop dead, with a bound on commands or messages reached, or
with client and provider waiting for each other, which is what `NoMutualWait` is
about. The congestion control never stops.

**Fairness.** `FairSpec` assumes weak fairness of `Accept` and of each provider's
`ThreadStep`: the JVM schedules threads that are ready, and those steps wait for
nobody (login takes no lock, so each stays enabled). It also assumes that a
handshake ends one way or the other: `Client.main` creates its
`ObjectOutputStream` right after the socket, and a lost client breaks the
connection. Nothing else a client may do is assumed: ids, commands and logouts may
never come. So `EventuallyPrompted` allows a dead loop and otherwise says that
handshakes only delay, and `LookupEndsEventually` needs that `userArray` cannot
grow for ever: it grows once a login, and logins are finite.

`Transfer`'s `FairSpec` assumes that client and provider, two running programs, take the
steps that wait for no user. It does not assume that users type, or that a lost
connection is noticed: `UploadEnds` makes an exception of a client that is gone,
because the loop of `uploadFile` then reads -1 for ever, and the code has no way out
of it but an exception of the socket.

`TrafficSimulation` is one sequential program, so `Spec` assumes weak fairness of
its steps together, and no more.

### Findings

* `double_login` (`ServiceProvider.java:240`): two clients that send the same id
  at once both pass the check, and both are served, though the program denies an
  active id.
* `upload_leftover` (`ServiceProvider.java:130`): an upload that ends by an exception
  (client gone, or raw bytes where the completion message is expected) leaves its
  partial file among the user's files, and `currentBufferSize` raised.
* `mailbox_lost` (`ServiceProvider.java:99`): a request added between the end of the
  receiver's printing loop and the replacement of its list is lost, though its
  sender was told that it is stored; two adds at the same time lose one as well.
* `fusion_decrease` (`tcp-fusion.cc:193`): `-m_diff` is unsigned, so the branch
  that should decrease the window adds about 2^32*segment/cwnd bytes.
* `fusion_min_rtt` (`tcp-fusion.cc:120`): the minimum is over the whole
  connection, and not "within last RTT" as `tcp-fusion.h:180` says.
* `out_of_range` (`taskAHighRate.cc:338`): with the default options, the right stations 4 and
  5, sources of flows 4 and 5, are put 46 and 44 m from their access point, and the range is
  42 m: two of five flows never send. The drawn topology has all stations on their access
  point's network.

Read in the code and not stated as runs: the back-off branch of `IncreaseWindow` is never compared with Reno's
window (`tcp-fusion.cc:177`), though the presentation says that the larger of the two is
adopted; the per-flow ratios of `taskALowRate.cc:339-340` divide integers and miss parentheses, so that
they disagree with the totals of lines 365-366; `taskB`'s drop ratio sets the drops of
one receiver, which sees every flow's frames, against what one source sent, so that it may exceed 1.

## 4. Proofs

TLAPS checks these for every value of the constants that satisfies the named
assumptions: `RegistryAssumption`, `FusionAssumption`, `MailboxAssumption`,
`TransferAssumption`, `TopologyAssumption` and `SimulationAssumption`, which say of what
kind the constants are and no more (`TopologyAssumption` also that `taskB` has more nodes than
flows, as its source fixes both). Further hypotheses are in the table.

| Theorem | States | Under |
|---|---|---|
| `TypeCorrect` | `[]TypeOK` (registry) | every interleaving |
| `RegisteredUsersHaveFolders` | `[]RegisteredHasFolder` | every interleaving |
| `SpacedThreadsSurvive` | the action property `NoListThrows` | `Spaced` |
| `SpacedLoginsAreSafe`, `ActiveListIsExact`, `ServedUsersHaveFolders` | `[]OneSessionPerUser`, `[]ActiveListExact`, `[]OwnFoldersExist` | `Spaced` |
| `RegistryRefinesAtomic` | `RegistryIsAtomic`: `SessionRegistry` implements `AtomicRegistry` | `Spaced` |
| `StudentListIsExact` | `[]StudentListExact` | `Spaced` |
| `MailboxTypeCorrect`, `NobodyIsShownTwice`, `OnlyTheAddressed` | `[]TypeOK`, `[]ShownOnce`, `[]OnlyAddressed` (mailbox) | every interleaving |
| `NothingIsLostQuietly` | `[]QuietlyStored` | every interleaving; the property is about `quiet` and `~raced` |
| `TransferTypeCorrect` | `[]TypeOK` (transfer) | every mishap |
| `CompleteIsExact`, `DownloadIsExact`, `OnlyMishapsKill`, `NeverBothWait` | `[]AckedIsExact`, `[]DownloadExact`, `[]DiesOfMishaps`, `[]NoMutualWait` | every mishap; the properties name those they exclude |
| `FusionTypeCorrect`, `SamplesAreTaken` | `[]TypeOK`, `[]SamplesSound` (congestion control) | every sample |
| `FusionSafe`, `OnlyBackOffShrinks`, `LossesBackOff` | the action properties `WindowFloor`, `ShrinksOnlyToBackOff`, `LossBacksOff` | every sample; the first two make their exception at `NearTop` |
| `FlowsSendToTheirSinks`, `OneRateErrorModelOnTheWay`, `SourcesTakeTurns` | `[]SendsToItsSink`, `[]CrossesOneRateErrorModel`, `[]SourcesBalanced` | every scenario |
| `NoForeignPackets` | `[]OwnSinkOnly` | `PortsSuffice` |
| `SimulationTypes` | `[]TypeOK` (simulation) | every scenario |
| `ApplicationsKeepTheirRate` | `[]OnSchedule` | every scenario, every delay of the network |
| `ReadingsAreOfOnePeriod`, `RatiosAreOfOnePeriod` | `[]ReadingOfOnePeriod`, `[]RatioOfOnePeriod` | every scenario, every delay of the network |
| `ReportAccounts` | `[]ReportAddsUp` | `PortsSuffice`, `CountsFit` |

With these each invariant that a passing run checks has a theorem.

Every inductive invariant below was first checked with TLC on the instance of the run
that checks the property, or on a larger one.

### 4.1 Registry

**TypeCorrect** (`TypeInv`). The size of `userArray` is never negative because nothing is removed from it, and the size
that an `add` writes is one more than a size it has read (`Counted`). The size of `currentUserArray` is
an integer and no more: overlapping logouts of one id take it to -1.

**RegisteredUsersHaveFolders.** The property is about the slots below
`userArray.size`. It is not inductive: a size that grows uncovers a slot with an
old content. The strengthening `EverySlotPromised` says of *every* slot, covered
or not, that its user has directories or a login between `putUser` and `makeDirs`
(`Promised`). A slot is written by `PutUser` only, and that thread then stands at
`makeDirs`; `MakeDirs` ends its promise by keeping it; `folders` never shrinks.
No fact about who overlaps whom is needed.

**SpacedInv**, behind the four theorems under `Spaced`. Three facts carry the induction: `Alone`
(at most one thread is inside login or logout: from the guard `MayStart`), `StillInactive`
(between the check and the addition the id stays out of the active list: only
a thread inside login adds) and `UpToDate` (the sizes and the index a thread has
read are still those of the list). Without the first the other two fail, which is
what `double_login` shows. With them an `add` is an append of a new element and a
`remove` takes out the one element equal to the id (`AddAlone`, `RemoveAlone` in
`ArrayListsProofs`), so `ActiveListExact` is preserved, and `OneSessionPerUser`
follows from it. No list has then grown, shrunk or become negative since a thread read its size, and so
nothing throws (`AloneNothingThrows`), which is **SpacedThreadsSurvive**.

**RegistryRefinesAtomic** and **StudentListIsExact** add `UsersInv` to it: `userArray` holds
every registered user once; a login that found its id there, or has put it there, can rely on it
(`FoundOrAdded`), and one that has not will add it to the list as it still is (`StillNew`). In the abstract
specification a session *enters* only at a moment at which its user is not active, and is told "again" exactly if the
user is known at that moment; it is *denied* only at a moment at which the user is active. The sets of active and of known users are
what the two lists hold (and who is about to be registered), not what the sessions' positions say. Under the mapping,
`PutOnline` is `Enter`, `CheckActive` may be `Deny`, the last part of a logout's `remove` is `Leave`, an exception in a
served session is `Die`, and every other step leaves all of it as it is, both halves of `userArray.add` included.
That one step changes one session only and the right user is proved action by action from the lemmas about the lists.

### 4.2 Mailbox

`TypeInv` says what a thread that sends or prints has in hand (`JobsInv`), and that
`threadArrayList` has each provider once (`ThreadsInv`), which is why a walk over it ends.

**NobodyIsShownTwice** (`ShownInv`). A message is at any time in one place of its receiver: one slot of
its list, the same place of the copy being printed, or what has been shown (`PlacesInv`). Lists are
written to while they are printed and replaced, at slots that may be taken; so the invariant is about
*all* slots, past the list's end too, and not about its contents. That an `add` brings a message to a
receiver for the first time is `DeliveredInv`: whoever has a message, its sender has passed in its walk
over `threadArrayList`, and messages of the past are not sent again.

**OnlyTheAddressed** (`AddressedInv`). `notifyRequestSender` compares ids, and the id 0 is also that of
every provider that has not logged in; so the invariant is about ids that are given once (`IdsInv`), and
makes its exceptions where 0 is involved, as the property does.

**NothingIsLostQuietly** (`QuietInv`). With `quiet` one thread at most is inside a command about messages
(`AloneInv`), so that the list and the size an `add` has in hand are the current ones and what a view has copied is what the
list holds. As long as `currentUserArray` is undamaged, whoever is served is in it (`LoginsInv`), so that no search passes
over a session that a request is meant for. `OwedInv` says that a message is kept by each served session that it concerns,
or that its sender's walk has not passed that session yet. The first fact needs `quiet`, the second `~raced`, and neither
can be had from the code: it has no lock.

### 4.3 Transfer

`TransferInv` is `TypeInv` and, as long as *not both* a read was torn and a size was wrong,
`Consistent`: for each place of the provider, where the client can stand and what the two streams then hold.

* During an upload (`Uploading`) the client has sent `a` chunks and the provider has read `u` units of them
  (`UnderWay`): the bytes on their way are units `u + 1` to `2a` of the file, after which there may be a `complete`;
  the acknowledgements on their way are one for each chunk that the provider has counted and the client has not. If no
  read was torn the disk has the file's first `count` chunks. `Starting` is an upload whose parameters have not
  reached the client, and `Over` one that the client has ended and the provider, told too great a size, has not.
* During a download and at the prompt (`Between`), the same is said of `serving`, `down` and `download`
  (`Announced`, `Fetching`), and of each reply what it replies to (`Replied`).
* `Doomed` is a client that will find raw bytes where it expects a reply, after a torn download or one with a wrong
  size: it is about to end, and nothing is said of what it was told.
* `Dead` lists what may have killed the provider. After an exception that another session caused (not `Calm`) nothing
  more is said of the two programs.

Why not for every history: with both mishaps on one connection acknowledgements survive their upload, and
the invariant is false; so is the claim that an upload is then never reported complete with too little on disk (see
*Bounds* for the counterexample, which TLC found when that claim was to be proved). The four theorems are
consequences of `TransferInv`; where the two programs wait for each other, it leaves
only histories with a mishap.

### 4.4 TcpFusion

**FusionInv** is `TypeOK`, a threshold of at least two segments, and `SamplesInv`. The threshold is because
`GetSsThresh` takes a maximum. That the window is at least a segment is *not* invariant: near the top of the range
any of the sums may wrap, to any small number. `IncreaseWindowRange` says what one call of `IncreaseWindow` may do to a window
below that: halving it is safe because it happens at or above the threshold, and whatever Fusion computes, wrapped or
not, the maximum with Reno's window leaves it no smaller than it was, or a byte less where an infinite quotient saturates.
`SamplesInv` says that before three samples are in, each sample that counts has
already set the times and cleared the counter. `LossesBackOff` holds for windows of any size: where `cwnd - Seg` wraps the
old threshold is the smaller one.

### 4.5 TrafficSimulation

`NetworkInv` says what the containers, the hosts and the devices with error models are once they
have been made, and `FlowsInv` where each flow is: the k-th one is where round k of its
program's loop put it, on a sink that exists. No later step changes any of this (`LaterStepsSettle`).

* `SinksAreHosts`: the hosts of the sinks' network are the nodes of the sinks' container in the same order, and all
  different. `FlowsSendToTheirSinks` follows.
* `OneRateErrorModelOnTheWay`: a flow's way has one device on each of three networks, and the devices of only one of
  the three have a `RateErrorModel`. In `taskAHighRate` the other two are wifi networks, so that the other two devices
  are radios.
* `SourcesTakeTurns` needs `InTurn`: when it is node i's turn, the nodes before i have been taken once oftener than
  those from i on.
* `NoForeignPackets` is by induction on packets (`PacketsInv`), once `ReceivedByItsOwn` has shown that the sink that listens
  where flow f sends to is f's. In `taskB` the ports differ, in `taskAHighRate` the hosts do, since the unsigned
  `leftnodes - 1 - i` takes each value once even where it wraps, and in `taskALowRate` the ports do, which are
  `uint16_t`s: the hypothesis `PortsSuffice` is that no scenario of it has more than 65536 flows.

**Time** (`TrafficTimingProofs`). The three properties about time rest on one invariant, `TimeInv`. While the
simulator runs (`EventsInv`), its queue is `Sorted`, it has one event at most for each purpose (`OncePerSlot`: a flow's
application, a flow's meter, the drop meter, the stop), a flow has one exactly as long as it has packets to send, and
each event is `Due` at a time that is said in terms of the rest of the state:

* a start or a send of flow f is at `StartTime(f) + PacketInterval * sent[f]` (`AppDue`). `OnSchedule` follows.
* a meter is at `FirstReading`, or a period after now at most (`PeriodDue`); its last total and what its sink has got
  since make up `totalRx`, and the oldest packet among those is no older than a period before the meter is due
  (`MeterDue`). Except for `taskALowRate`'s first reading, this holds at first because no flow starts earlier than a
  period before `FirstReading` and nothing is sent before its flow starts (`SentInv`), and later because a reading
  leaves nothing unread.
* `DropsDue` says the same of the drop meter and its `frames`.
* no event is in the past: the network acts no later than the head of the queue, and the queue is sorted.

That the queue stays so is a matter of two operations: `Push` (`PushKeeps`: what was pending is, and the new event) and
taking the head (`HeadIs`). `WithStarts` pushes as many starts as there are flows, so that what it leaves in the queue
(`WithStartsIs`) is by induction on their number.

**Numbers** (`TrafficTimingProofs`). `TypesInv` is `TypeOK` with `LossInv`: the sum of `tx - rx` over the flows is no
more than the mishaps. That no reading is negative comes from `MeterDue`. `ReportAccounts` also needs:

* `SinksInv`: what a node received for a flow covers what its sink got, and the sum of `tx - totalRx` is no more than the
  mishaps. As a step counts the packet at the sink that listens, whichever it is, and the segment at the
  flow that sent it, this rests on `ReceivedByItsOwn` and so on `PortsSuffice`.
* `InTimeInv`: packet n of a flow left n - 1 intervals after its start or later, so that no flow of `taskALowRate` sends
  more than the simulated time allows. With `CountsFit` no total wraps.
* `ReportInv`: what was reported is what the counters say.

`CountsFit` is that there are fewer mishaps than `Word` (2^32 in the code), and that the packets for which the
flows of a `taskALowRate` scenario have time, with the mishaps, are fewer too. Without it the property is false, as
the code's `uint32_t`s wrap around. The code's own values are far below the limit: at the greatest rate of
its table a flow sends 62.5 packets a second. The instance of `simulation` satisfies both hypotheses.

**Induction.** The library's induction theorems take an operator as a parameter, and cannot be used. What is used
in their place is that < on the natural numbers is well-founded and so a set of them that is not empty has a least member
(`LeastNatural`), which gives induction for a *set* of numbers (`AllNaturals`), and with cardinalities for a set of
subsets of a finite set (`AllSubsets`). By the first the recursive function `WithStarts` is shown to exist
(`WithStartsExists`), by the second the function that `SumFunctionOnSet` chooses (`SumsExist`, `SumsAgree`,
`SumUnfolds`); the order in which it adds is then shown to be of no account (`SumOfOneMore`).

### 4.6 What is only model-checked

* The liveness properties (`LoginEnds`, `EventuallyPrompted`, `LookupEndsEventually`, `FolderAppears`,
  `PromptReturns`, `UploadEnds`, `SimulationEnds`): fairness and `ENABLED` are out of the prover's reach.
* The documents' claims that fail are runs, not theorems.

## 5. Not modelled, and the plan

Not modelled for good: the physical parameters of the networks and the packet traces (they
configure ns-3 or write files), the build script, the wording of messages and prompts, the console; the
quotients, delays and jitter that the simulations print (doubles that no code reads);
updates of `currentBufferSize` that several sessions lose (no code reads it); the capacities of lists, and searches of a
list that miss what a removal moves, but for those in `Mailbox`.

Planned: the end of a session across components, that is, what a session that dies in `Transfer`
leaves in the registries and mailboxes, as one composition.

In `Mailbox` no liveness is stated: its loops are those of `lookupOtherFiles`, for which
`LookupEndsEventually` is checked.
