# Verification of the OMNeT++ federate of Eclipse MOSAIC

The federate couples an OMNeT++/INET simulation of V2X communication to the
co-simulation framework Eclipse MOSAIC.  MOSAIC's side is a Java process, the
*ambassador*; the federate is one single-threaded C++ process whose scheduler
replaces OMNeT++'s.  The two exchange protobuf messages over two TCP sockets.
What can go wrong is mostly a matter of order: who may simulate up to which
time, who waits for whom, what a local variable still holds when a loop is left,
what has happened to a node between the sending and the arrival of a message,
where in a message the stream ended, who was first to listen on a port.

Contents: [inventory](#inventory) · [modules](#modules-and-the-code) ·
[runs](#runs) · [fairness](#fairness) · [proofs](#proofs) ·
[findings](#findings) · [not modelled](#not-modelled) · [plan](#plan)

Run a model with `tlc -config X.cfg M`, check proofs with `tlapm M.tla`.

## Inventory

| component | state | operations | correct if |
|---|---|---|---|
| `MosaicEventScheduler` (src/mgmt) | `m_timeAdvancing`, `m_currentMaxSimTime`, local `nextTime` of `takeNextEvent` | connect; take the next event: read and process a command, report, give the grant back, take | no event beyond the grant; each grant used once and given back once; every event left is known to the ambassador; every command is replied to; SHUT_DOWN ends the run |
| kernel (OMNeT++) | simulation time, FES, which module is alive | insert, peek, remove, execute one event | (external) |
| ambassador (MOSAIC) | open grant, open command, times asked for | send commands, grant, shut down, read | (external) what the scheduler relies on |
| `ClientServerChannel` (src/util) | a socket, its buffers | connect; read/write length-prefixed protobuf messages; enum conversions | a message is read as it was written, by the method it was written for; the end of the stream is noticed in the end |
| handshake (in scheduler and channel) | sockets and their ports, start and stop time | listen, announce a port, accept, tell the command port, INIT | a federate listens on the port it announces; both its channels lead to one ambassador; SUCCESS means that the times are those the ambassador sent |
| `MosaicScenarioManager` (src/mgmt) | map of nodes, submodule vectors, gate vectors | add, move, remove nodes; pass commands to nodes; pass receptions to the scheduler; finish | gate index, module and node id agree; a message reaches the node it names, or none |
| `MosaicProxyApp` (src/node), one per node | number of radios, their channels | configure, send after a processing delay, receive | the radio a packet is given to is on and tuned to its channel |
| `MosaicMobility` (src/node), one per node | last position | set before and after initialization, get | a node stands where the last command put it |
| messages (src/msg), `Log`, NED, ini, build | – | – | – |

*Interaction.*  The ambassador sends `UPDATE_NODE`, `MSG_SEND` and `CONF_RADIO`,
each for a time and each answered, then `ADVANCE_TIME`, and waits for `END`.
The scheduler turns a command into an event of the FES, addressed to the
scenario manager.  Only under a grant does it hand events to the kernel, which
calls the module's handler to completion.  The manager creates and deletes node
modules, and sends to their proxy apps through the gate whose index is the
node's id: another event.  The app hands packets to UDP after a random delay;
what other nodes receive goes back app → manager → scheduler → `MSG_RECV`.  When
the next event lies beyond the grant the scheduler writes `NEXT_EVENT` and `END`
and blocks for commands.

*Hard behaviours.*
- Every `continue` in the do-while loop of `takeNextEvent` jumps to the loop's
  *condition*, which reads a `nextTime` that the iteration may not have set.
- Commands insert events before the head that was last looked at.
- Wire times are whole nanoseconds, kernel times may have fractions.
- Two processes that each block on the other, over two sockets.
- Exceptions that are constructed but not thrown
  (`MosaicEventScheduler.cc:187,480`), so that the code after them runs.
- End of file looks to the scheduler like an unknown command.
- The errors of `recv()` are compared as unsigned numbers
  (`ClientServerChannel.cc:851`), and most read methods parse as many bytes as were
  announced, not as many as arrived: a stream that ends within a message yields
  lengths, times and structs nobody has sent.
- Several federates start on one host with one configuration, and `bind()`,
  `listen()` and `accept()` of one come between those of another.
- Commands of the same time take different numbers of events to have their effect.
- Deletion and re-creation of nodes between the events of a message.
- One packet object shared by all receivers of a broadcast.
- Reconfiguration of the radios during the delay of a packet.

The complete list, line by line and with the properties that answer to each, is
`hazards` in `PROJECT.json`.

## Modules and the code

| module | models | |
|---|---|---|
| `TimeAdvance` | – | abstract: a clock that moves only under a grant and within it |
| `EventScheduler` | `MosaicEventScheduler`, FES, sockets, ambassador | detailed; implements `TimeAdvance` |
| `EventSchedulerFaults` | the same | an ambassador that dies, within a message or between two, or sends an unknown command |
| `EventSchedulerProofs` | | theorems, and the inductive invariant `IInv` |
| `EventSchedulerWireProofs` | | theorems about what the two sides tell each other, and `WireInv` |
| `EventSchedulerFaultsProofs` | | theorems, and the inductive invariant `FaultyInv` |
| `ScenarioManager` | `MosaicScenarioManager`, messages from and to `MosaicProxyApp` | |
| `ScenarioManagerProofs` | | theorems |
| `ProxyApp` | `MosaicProxyApp`: radios and sending | |
| `ProxyAppProofs` | | theorems |
| `Federate` | scheduler, `ScenarioManager` and node modules on one FES, `MosaicMobility` | composition; implements `TimeAdvance` |
| `FederateProofs` | | theorems, and the inductive invariant `FedInv` |
| `Readers` | results of the read methods of `ClientServerChannel` | shared by the next three |
| `MessagePipe` | – | abstract: a queue of messages that may end cut |
| `Channel` | `ClientServerChannel`: framing and reading, byte by byte | detailed; implements `MessagePipe` |
| `ChannelProofs` | | theorems, and the inductive invariant `ChannelInv` |
| `Startup` | `startRun`, `connectToAmbassador`, `prepareConnection`, `connect` | several federates and ambassadors |
| `StartupProofs` | | theorems, and the inductive invariant `StartupInv` |
| `MC*` | | instances for TLC |

Definitions named `X_Something` are mutants of `X`: plausible bugs that a
property of a run is to find.  Nothing uses them.

**EventScheduler.**  `pc` is the place in `takeNextEvent`: `loop`, the top of the
body; `pop`, below the loop.  An action is one iteration of the loop with the
whole of the handler it calls, ending in `Recheck`, the loop's condition;
`nextTime` is a variable because that condition reads it across iterations, and
`EnterTakeNextEvent` (return to the kernel and next call, or the recursive call
for a stale event) sets it to 0.  `advancing` and `maxTime` are the scheduler's
fields, `fes` the FES with `ord` as the order of insertion, `stale` the events
whose module was deleted.  From `pop`, `Dispatch` is the kernel executing the
event: handlers schedule at most one event at any later time (`Schedule`) – INET
is external – or report a reception, or finish.  An action takes the commands of
the socket in one piece because the federate is the only reader and the peer the
only writer; the ambassador's steps interleave between any two.  The ambassador's
actions are what the scheduler relies on, stated over them: it waits for a reply
after every command, is silent while a grant is out, does not send commands for
times before its last grant and does not grant less than it has sent.

`ProcessMsgSend` and `ProcessConfRadio` reply twice: the channel's reader
(`ClientServerChannel.cc:723`, and its counterpart for messages) and the handler
both write SUCCESS.  The ambassador may read the spare one whenever it likes.

**EventSchedulerFaults** adds `SendUnknown` and `Crash` to the ambassador.  Messages
are whole on the wire of these modules; the last one before a crash may be cut, and
`Cut` says what the scheduler then reads in its place, out of the results that
`Channel` derives: part of a time, or 0, or anything.

**ScenarioManager.**  A module is its number in the order of creation,
`externalId` what it believes its id to be, `wired[g]` the module behind
`mosaicProxyOut[g]`, `pending` the messages between modules, in order.  A
`MosaicMobilityCmd` with a list of nodes is `HandleMobilityCmd` followed by one
step per element (`todo`); nothing else is enabled in between, but the invariants
are checked there.  `Create` is `addModule`, `addNode` and `addRsuNode`: grow the
vector of the kind if needed, grow the gate vectors by one, connect the gate with
the node's *id* as index.  The kernel's errors (no such index, no such gate, gate
already connected) are `Fail`.  `packets[p]` is the node id in packet object `p`,
into which every receiver writes its own before sending it on.

**ProxyApp.**  `on` is the set of radios whose mode is not OFF, `tuned` the radio's
channel, `radioChannel` the app's note of it (`radio0Channel`, `radio1Channel`),
which starts uninitialized: a comparison with it may go either way.
`connectRadios` switches only what it has to, by the old number of radios.

**Federate** EXTENDS `ScenarioManager`: its actions are that module's, each tied to
the head of `fes`, a sequence of events in the kernel's order.  The scheduler is
reduced to what `TimeAdvance` says of it – grant, take, give back – since
`EventScheduler` shows that its loop does no more.  `log` is the list of commands
the ambassador has issued, each with the number of additions up to it (`added`); a position (`place`) and a configuration (`conf`) are
the number of the command that set them, so that "in the order of issue" can be
said of the nodes' state.  `Issue` assumes of MOSAIC that commands come in order of
time, that it adds nodes that are absent, moves and removes nodes that are present,
and counts ids no further than it has added: `NoError` is that this is enough.
A new node's position is set before its initialization, and `setInitialPosition`
overwrites it if it equals INET's `Coord::NIL`.  Its comment
(`MosaicMobility.cc:104-106`) takes that for the origin: "you can not insert nodes at
0.0,0.0,0.0".  INET is not in this repository, and as far as its sources are known to
us, the version named in the repository's README (4.5.4) defines `NIL` by NaNs, which equal no
position: the comment would then be stale.  So the model decides
neither way: `OriginIsNil` says whether the two are equal, and each addition which of
its nodes lie at 0,0,0 (`origin`).  `ScenarioAsOrdered` allows for the comment's
exception and no other (`PlaceOf`); the run checks it with `OriginIsNil = TRUE`, the
theorem holds for both, and without any exception if the origin is not `NIL`.
An MSG_SEND becomes an event for the manager (`PassOn`), one for the app
(`HandleAtApp`), one for the air (`Receive`), and one back to the manager
(`ReportReception`).

**Channel.**  One action per `recv()`: `ReadFirst` and `ReadMore` are the two of
`readVarintPrefix`, `ReadBody` the one of the read method that is being called
(`reader`), with what it makes of a short count.  A prefix is a number in digits of
`Base` (128 in the code) with a flag on all but the last.  Bytes carry, unseen by
the code, the message they belong to, its length, and their place in it.  Protobuf's content is abstracted to whether
the bytes were all there (`content`).  The outgoing direction is framed alike
(`Frame`); what is written is modelled in `EventScheduler`.

**Startup.**  A step per call of the socket library.  `bind()` and `listen()` are two
steps since the rule of SO_REUSEADDR, external, is about sockets that listen.
A port of 0 asks the kernel for any.  An ambassador reads the announced port
from the output of its federate, connects, learns the second port over the first
connection, connects again, sends INIT and its times.  It may die before any step;
what it wrote last may then be lost, as `Readers` says.

## Runs

| run | module | states | shows |
|---|---|---|---|
| `scheduler` | `MCEventScheduler` | 729 361 | safety of the loop and `ImplementsTimeAdvance` |
| `scheduler_live` | `MCEventScheduler` | 64 177 | grants are given back, events handled, SHUT_DOWN stops |
| `scheduler_faults` | `MCEventSchedulerFaults` | 96 265 | nobody waits for ever when the peer dies or misbehaves, and an orphan stops |
| `scheduler_unknown` | `EventSchedulerFaults` | violation | finding 1 |
| `manager` | `MCScenarioManager` | 885 200 | nodes, gates and messages stay matched |
| `proxy` | `MCProxyApp` | 2 680 | the radio chosen is on and tuned |
| `proxy_configured` | `MCProxyApp` | violation | finding 2 |
| `proxy_delay` | `MCProxyApp` | violation | finding 3 |
| `channel` | `MCChannel` | 92 959 | messages are read whole and by the right method; `ImplementsPipe` |
| `startup` | `MCStartup` | 120 308 | federates and ambassadors pair up and agree on the times |
| `startup_ports` | `MCStartup` | violation | finding 4 |
| `federate` | `MCFederate` | 976 140 | commands take effect in the order of their issue; `FederateImplementsTimeAdvance` |

*Bounds of the scheduler.*  `StartTime = 1` separates the start time from the
clock, which is 0 until the first event.  `MaxTime = 3` leaves an event before,
at and after a grant with one more grant to come.  `SubNs = 2` gives fractions
(the shipped `omnetpp.ini` has nanoseconds, `SubNs = 1`; the liveness run uses
that).  Four events (`MaxEvents`), with the finish event besides: a stale
`nextTime` needs one event that was the head and one that a command puts before
it, a stale event one more, a reception a fourth.  Deadlock is checked: the only
states without a step are those where the federate is over and the ambassador
gone, made explicit by `Terminated`.  In the fault runs two events are enough:
what the faults disturb is the loop and the sockets, not the order of events.
`MaxAdrift = 0` bounds them: every unknown command is answered with an advance
nobody granted and so with an END too many, which the ambassador may take for
the answer to its next grant; without the bound such grants pile up.  Any number
of unknown commands can still be sent one after another.

*Bounds of the manager.*  Three ids and three modules: an id can be removed and
added again while another node exists, two ids can meet in one list, and an id
can exceed the number of additions.  Two messages under way and one packet: a
command and a reception, or two receptions of one broadcast, overlap.

*Bounds of the app.*  Two channels and the undefined one, two packets in their
delay.  Every sequence of configurations is explored: their number is not
bounded.

*Bounds of the channel.*  With `Base = 2`, lengths 1, 2 and 8 have prefixes of one, two
and four bytes, the most the code reads, and bodies shorter and longer than
their prefix; a cut prefix then announces 0 or too little.  Three messages: a command,
its message and the next command, or three commands; the end of the stream lies at
every byte of each.  `ReadBody` after the end repeats for ever, so that there is no
deadlock to excuse.

*Bounds of the startup.*  Two federates with the configuration of `omnetpp.ini`: one
fixed port (`mosaiceventscheduler-port`) and one that the kernel chooses
(`mosaiccmd-port = 0`); four ports suffice for four sockets.  Deadlock is not checked: `accept()` has no timeout, so that a federate whose
ambassador has been refused or has died waits for ever.

*Bounds of the federate.*  Four commands at two times, after a start time: add,
remove, add again and configure or send fit in, at the same time or with a grant between;
that it is so for any number of commands is proved (`FederateProofs`).  Every node may
be added at 0,0,0 or elsewhere.
Two ids and at most two modules: one id can be used again, or two nodes exist and one
receives what the other sends.  Deadlock is not checked: after `MosaicFinishCmd` the
simulation is over.

## Fairness

- `WF(Federate)`: one thread that runs whenever it is not blocked on a read.
- `WF(ReadReply)`, `WF(ReadReport)`: the ambassador reads what it is sent.
- `SF(AdvanceDue)`: the federation owes a grant for a time the federate has asked
  for by `NEXT_EVENT`, or that its commands lie at.  Strong, because a voluntary
  grant, which disables it while it is out, may come in between again and again.
- `WF(Close)`: after SHUT_DOWN the ambassador closes its sockets.

- `SF(SigPipe)`, in the runs with faults: a closed connection answers the first write
  with a reset, so that a federate that keeps writing is killed in the end.
- `Channel`: `WF(Arrive)`, TCP delivers while the writer lives; `WF(Read)`, the scheduler
  reads whenever it holds no grant.
- `Startup`: `WF` for every federate and every ambassador, none for dying.

The ambassador owes no command, no voluntary grant and no shutdown, and the properties hold
without them.  `ShutDownStops` needs `Close`: SHUT_DOWN only inserts an event
into the FES of a scheduler that holds no grant.  What ends the run is the end of
file, whose default branch sets `m_timeAdvancing` – or SIGPIPE, raised by the
reply of that branch or by a later report.  Either outcome is "stopped".

## Proofs

All for every value of the constants that the modules' assumptions allow
(`SchedulerAssumption`, `ManagerAssumption`, `FederateAssumption`, `ProxyAppAssumption`,
`ChannelAssumption`, `StartupAssumption`: bounds are naturals, the special values of
channels and of ambassadors differ from the channels and the ambassadors, lengths fit
into the longest prefix, the kernel chooses ports that nobody has asked for).
`PowersAssumption` of `Channel` says what the operator `^` is, on which the provers know
nothing; it holds of every number.

**EventSchedulerProofs** – `TypeCorrect`, `Invariance`, `GrantSafety`
(`WithinGrant`), `GrantConservation` (`OneGrant`), `Implementation`
(`ImplementsTimeAdvance`).  `WithinGrant` is not inductive: that the loop ends with
a `nextTime` from an earlier iteration is harmless only because of what the
federate and the ambassador know of each other.  `IInv` says what that is:
commands on the wire lie between the grant in use and the latest time mentioned
(`InboxOrdered`), a grant is the last thing on the wire and covers everything sent
before it, a federate with a grant has read everything (`GrantHeld`), the grant is
in one place (`GrantPlaced`), and, in `NextTimeSafe`, that without a grant either
some event is no later than `nextTime`, or every event will be covered by the next
grant.  `FinishComing` carries the argument through the end of file, where
`m_timeAdvancing` is set without a grant: the finish event, at the time of the
last grant, is still in the FES.  The federate's actions are grouped by what they
do to the FES and the grant (`TimedInsertion`, `Removal`, `Yielding`, …), and each
part of `IInv` is proved over these groups, then over the ambassador's actions.
`Implementation` follows from the invariant: `Clocks` gives the bound, `NoPastEvent`
that time does not go back.  TLC checks `IInv` as well, in run `scheduler`.

**EventSchedulerWireProofs** – `Replies` (`NoReplyMissing`), `WireInvariance`
(`WireInv`), `GrantReturn` (`GrantExhausted`), `ReceptionOrder`
(`ReceptionsInOrder`), `Wakeups` (`NoLostWakeup`).  These are about what is on the
wire *towards* the ambassador, on which `IInv` says little.  The key is that a
federate whose END is on the wire takes no step: the grant is on its way back, the
ambassador sends nothing before it has read it (`ReturnQuiet`), so what END and
NEXT_EVENT said of the FES stays true until they are read.  `RequestsCover` carries
it over the reading of NEXT_EVENT, after which the time is a request of the
ambassador's; `EventsKnown` is `NoLostWakeup` without the condition that the wire be
empty, which is what a step can preserve: a command that is read turns into an
event the ambassador has known of since it sent it (`CommandsFresh`).  TLC
checks `WireInv` too.

**EventSchedulerFaultsProofs** – `FaultyTypes` (`TypeOK`), `FaultyLoop` (`LoopSound`), `FaultyReplies`
(`NoReplyMissing`), `FaultyInvariance` (`FaultyInv`, the three together).  `IInv` does not survive
a fault: finding 1 is that `WithinGrant` does not.  What remains needs no good behaviour
of the ambassador: the loop never ends on an empty FES, events are told apart by their
numbers, the finish event is not dropped, and an ambassador that lives gets its replies – the
safety part of `AlwaysReplied`.  The effects of the federate's steps are those of
`EventSchedulerProofs` (`KnownStep`), and one for the unknown command.

**ScenarioManagerProofs** – `TypeCorrect`, `Gates`, `Delivery`, `Reporting`,
`NoOtherErrors`.  The invariant adds to the checked ones that submodule vectors
hold the ids of their nodes and that the gate vectors are as long as the number
of modules ever created (`VectorsHoldNodes`), and that packets on the air and under
way exist (`AirSent`, `PacketsExist`).  A module number is never used again, which
is why a message for an old module of an id cannot reach the new one.

**ProxyAppProofs** – `Invariance`, `Acceptance`.  The notes, however old, agree with
the radios; `numRadios` in the comparison excludes the note of a radio that is off.
`TypeCorrect` and `Radios` (`RadiosMatchCount`) are parts of the same invariant.

**StartupProofs** – `TypeCorrect`; and, if the kernel chooses the command port
(`CmdPort = NoPort`, as `omnetpp.ini` has it), `Invariance` (`StartupInv`), `OneAmbassador`
(`ChannelsTogether`), `Agreement` (`TimesAgree`), for any number of federates and
ambassadors.  On the first port federates do collide, so nothing can be said of who
serves whom there.  The port of a channel B, though, has one owner (`PortsOwned`);
an ambassador knows it only from the federate that accepted it on A (`ToldByPeer`),
and nobody else can be waiting there (`WaitingTogether`).  `SuccessTaken` adds that
SUCCESS is written by a federate that has taken the times of the one it writes to.
TLC checks `StartupInv`, and `TypeOK` with it, in run `startup`.
The hypothesis is needed: with one fixed command port for two federates TLC finds
`ChannelsTogether` violated, for the race that finding 4 describes.

**FederateProofs** – `FederateInvariance` (`FedInv`), `NoErrors` (`NoError`), `Scenario`
(`ScenarioAsOrdered`), `Configuration` (`ConfiguredAsOrdered`), `AtOnce`
(`DeliveredAtOnce`), `Timeliness` (`TimelyMessages`), `FederateImplementation`
(`FederateImplementsTimeAdvance`), for any number of nodes, commands and messages.  They build
on the invariant of `ScenarioManagerProofs`, which the composition inherits action by
action.  `FedInv` adds how far the commands have got.  The FES is in the order of time,
its commands in the order of issue, and messages are at the present time (`EventsInOrder`);
so the commands that have been handled are always the first `n` (`CommandsInOrder`).
A node is what the commands with an effect on it so far have made of it (`AsOrdered`),
where a list that is half done needs care: `Effective` leaves the current command out
for the nodes it has yet to come to.  What a handled command has sent and the app has
not got is in `pending`, in order (`MessagesQueued`, `Configured`), which is why no
packet overtakes a configuration.  `NoError` needs that ids are below the number of
modules ever created: `NodesAdded` counts both.  An insertion is stated by the position
it makes (`InsertedAt`), so that the order of the FES can be reasoned about.

**ChannelProofs** – `Invariance` (`ChannelInv`), `TypeCorrect`, `Synchrony` (`InStep`),
`PipeImplementation` (`ImplementsPipe`), for any base, any length of a prefix and any
set of lengths.  `InStep` only speaks of the byte that is next.  What carries it from byte
to byte is `StreamAsWritten`, every byte followed by the one written after it, and in
`InSync` that `size` is the remainder of the announced length by a power of `Base`: a
digit more makes it the remainder by the next power (`Weighed`), and the last, which has
no flag, the length.  At the end of the stream the reader loses the writer; then
`AtEnd` says that nothing is left it could misread, but for the rest of a message.
`Ahead` says, by induction over the stream, what lies before the reader: the rest of
one message and then the next from its first byte; since the library's induction rules take an operator,
it is obtained from the least element that a set of numbers has (`Least`,
`SetInduction`).  `PipeImplementation` maps a `recv()` of a whole body to a read, one of a
part to a read of the cut message, and everything else to a stutter.

*Only model-checked* is what is out of the prover's reach: liveness under fairness
(`GrantAnswered`, `EventuallyHandled`, `ShutDownStops`, `AlwaysReplied`, `OrphanStops`,
`EveryMessageRead`, `EndNoticed`, `Starts`) and everything that needs ENABLED.  Every
invariant and every refinement that a passing run checks has its theorem.

## Findings

1. **An unknown command lets the federate simulate beyond its grant**
   (`scheduler_unknown`).  The default branch of `receiveInteractions` sets
   `m_timeAdvancing` and constructs an exception without throwing it.  The message
   says "ending"; the loop ends instead, with `nextTime` still 0, and hands out an
   event no grant covers.
2. **A radio can be on without being configured** (`proxy_configured`).  The
   radios are switched on before the mode of the configuration is looked at, be it
   one radio, as in TLC's trace, or two; the comment promises "either there and fully configured or removed".
3. **A packet leaves with no radio** (`proxy_delay`).  The number of radios is
   checked before the processing delay only.
4. **A federate can announce a port it does not listen on** (`startup_ports`).
   The result of `listen()` is ignored.  Two federates with the same port may both
   bind it; the second to listen fails, and still returns, announces and waits
   on the port of the first, which may then have two ambassadors in its backlog.
   `accept()` fails at once and the federate goes on without a connection.
   `ChannelsTogether` and `TimesAgree` hold all the same.

*Further observations*, no findings: what no document speaks of, and comments that
are wrong about something no run is about.  Two SUCCESS for one command.  The stop
time is only logged.  `nextTime` starts at 0, so the first grant ends the loop
unseen as soon as the FES has an event: correct only because the ambassador never
grants less than it has sent.  With a resolution below a nanosecond the clock can
stand a fraction after a grant, and a later command of that very nanosecond takes
simulation time back by the fraction; in whole nanoseconds it never goes back.
`gateSize` grows with every node ever added and is indexed by id: ids may be used
again but must not exceed the number of additions so far.  A reception may be
reported for a node that was removed meanwhile.  The flag `receiving_messages` of a
configuration is read by nobody.  If the ambassador dies between its INIT and its
times, the run begins with times of 0: "If no init-message can be read, the federate
sends END-message" (`MosaicEventScheduler.cc:137`) is so for a missing command
only, and END is not followed by an exception.  Federates that are given the same `mosaiccmd-port` other than 0 may serve
each other's ambassadors on the second channel.  With a host name that cannot be
resolved the port is 0, `accept()` fails, and the scheduler loops over an invalid
socket without end.  The check "if we could not read one byte, return error"
(`ClientServerChannel.cc:851`) can never be true; what notices the end of the stream
is `readCommand`, because no message has length 0.  An MSG_SEND without an
address leaves its time to live uninitialized.  The comment at `MosaicEventScheduler.cc:271`
says the channel is not reported; the line above reports it.  The comment of
`setInitialPosition` on 0,0,0 may be stale, see `Federate` above.

## Not modelled

- A failing handler's leftovers: after `error()` the simulation is over.
- Log output (`Log`), the generated message classes, NED, ini and build files: no
  control of their own.  `setNextOrientation` of `MosaicMobility` is called by nobody.
- The content of protobuf messages beyond what decides a branch; the enumerations
  the conversions do not know, which protobuf does not deliver.
- Prefixes of five bytes, for messages of 256 MB; signals that interrupt `recv()`.
- INET's UDP, IP, MAC and radio: any event at any later time, any node may receive
  what another has sent.
- An app whose node lacks the two wlan interfaces: `MosaicNode.ned` gives every
  node two.

## Plan

1. *(done)* `TimeAdvance`, `EventScheduler`, its faults, its proofs.
2. *(done)* `ScenarioManager`, `ProxyApp`, their proofs.
3. *(done)* `Channel` against `MessagePipe`, `Startup`, cut messages in
   `EventSchedulerFaults`.
4. *(done)* `Federate`, the composition.
5. *(done)* Proofs about the scheduler's and the ambassador's messages, from `IInv`
   and `WireInv`.
6. *(done)* Proofs about the app's radios, and about `Startup`.
7. *(done)* Proofs about `Federate` and about `Channel`.
8. *(done)* Proofs about `EventSchedulerFaults`: types, loop, replies.
9. What the *other* side may rely on after a fault: that without an unknown command all of `IInv` holds
   until the ambassador dies, and that a crash between two messages leaves simulation time
   monotone.
