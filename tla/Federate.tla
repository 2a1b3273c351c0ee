------------------------------ MODULE Federate ------------------------------
(***************************************************************************)
(* The whole federate: the scheduler, as TimeAdvance promises it, drives   *)
(* the scenario manager (ScenarioManager) and the modules of the nodes     *)
(* from one future event set, by time and then by insertion.               *)
(*                                                                         *)
(* What a command does takes several events.  A configuration or a packet  *)
(* is a command for the manager, then a message to the proxy app; a packet *)
(* leaves the app, and what other nodes receive of it comes back to the    *)
(* manager as a message.  Here the question is what the order of events    *)
(* makes of commands for the same time, or of a time already reached.      *)
(*                                                                         *)
(* Commands are numbered as they are issued.  A position and a             *)
(* configuration are known by the number of the command that set them.     *)
(***************************************************************************)
EXTENDS ScenarioManager, FiniteSets

CONSTANTS
    StartTime,  \* start_time of the INIT message
    MaxTime,    \* bound: the latest time of a command
    MaxCommands, \* bound: the commands issued
    OriginIsNil \* Coord::NIL, of INET, equals the position 0,0,0

ASSUME FederateAssumption ==
    /\ StartTime \in Nat /\ MaxTime \in Nat /\ StartTime <= MaxTime
    /\ MaxCommands \in Nat
    /\ OriginIsNil \in BOOLEAN

VARIABLES
    clock,      \* simulation time
    grant,      \* m_currentMaxSimTime
    running,    \* m_timeAdvancing
    fes,        \* the future event set, in its order
    log,        \* the commands issued so far
    current,    \* the MosaicMobilityCmd being handled
    place,      \* lastPosition of every module's MosaicMobility
    conf        \* configuration of every module's MosaicProxyApp, or None

managerVars == vars
timeVars == <<clock, grant, running>>
nodeVars == <<place, conf>>
allVars == <<managerVars, timeVars, fes, log, current, nodeVars>>

None == 0       \* no configuration
Default == 0    \* a position out of the module's parameters

Additions == {"ADD_NODES", "ADD_RSU_NODES"}

FederateInit ==
    /\ Init
    /\ clock = 0
    /\ grant = StartTime
    /\ running = FALSE
    /\ fes = <<>>
    /\ log = <<>>
    /\ current = 0
    /\ place = <<>>
    /\ conf = <<>>

-----------------------------------------------------------------------------
(* The future event set *)

Event(t, kind, of) == [time |-> t, kind |-> kind, of |-> of]

(* es with e behind the first n events. *)
InsertedAt(es, e, n) ==
    [i \in 1 .. Len(es) + 1 |->
        CASE i <= n -> es[i] [] i = n + 1 -> e [] OTHER -> es[i - 1]]

(* Mutant: an event is put before those of its time. *)
Insert_Lifo(es, e) ==
    {InsertedAt(es, e, n) : n \in {m \in 0 .. Len(es) :
        \A i \in DOMAIN es : es[i].time < e.time <=> i <= m}}

(* putBackEvent, and the kernel's send(): behind all events of its time,   *)
(* which is one place, since es is in the order of times.                  *)
Insert(es, e) ==
    {InsertedAt(es, e, n) : n \in {m \in 0 .. Len(es) :
        \A i \in DOMAIN es : es[i].time <= e.time <=> i <= m}}

(* The kernel is handed the first event. *)
Take(kind) ==
    /\ running /\ Idle
    /\ fes # <<>>
    /\ Head(fes).kind = kind
    /\ Head(fes).time <= grant
    /\ clock' = Head(fes).time
    /\ UNCHANGED <<grant, running, log>>

(* Mutant: a gate has the delay of a link. *)
Arrival_Delayed == clock' + 1

(* Messages through the gates between manager and apps take no time. *)
Arrival == clock'

SendMessage(of) == fes' \in Insert(Tail(fes), Event(Arrival, "MESSAGE", of))

-----------------------------------------------------------------------------
(* The commands of the ambassador, while it has not granted any time *)

Names(k, id) == id \in Range(log[k].ids)

(* Of commands ks that do one of the operations to id, k is the last. *)
IsLast(k, ks, id, operations) ==
    LET those == {j \in ks : log[j].operation \in operations /\ Names(j, id)}
    IN  k \in those /\ \A j \in those : j <= k

(* The ids of the nodes there are after commands ks, one after the other. *)
Present(ks) ==
    {id \in Ids : \E k \in ks :
        /\ IsLast(k, ks, id, Additions \cup {"REMOVE_NODES"})
        /\ log[k].operation \in Additions}

(* Nodes that the first n commands add; each command has the sum with it.  *)
AddedBy(n) == IF n = 0 THEN 0 ELSE log[n].added

AddedSoFar == AddedBy(Len(log))

(* The next command, which adds the nodes in origin at 0,0,0.  Where a     *)
(* move leads is compared with nothing, so it need not be told apart.      *)
Command(operation, ids, origin, t) ==
    [operation |-> operation, ids |-> ids, origin |-> origin, time |-> t,
     added |-> AddedSoFar + IF operation \in Additions THEN Len(ids) ELSE 0]

(* Ids from which an operation may choose: MOSAIC adds absent nodes, moves *)
(* and removes present ones, and does not count further than it has added. *)
Eligible(operation) ==
    CASE operation \in Additions ->
            {id \in Ids \ Present(DOMAIN log) : id <= AddedSoFar}
      [] operation \in {"MOVE_NODES", "REMOVE_NODES"} -> Present(DOMAIN log)
      [] OTHER -> Ids

(* One node, or, in a MosaicMobilityCmd, two. *)
Lists(operation) ==
    {<<id>> : id \in Eligible(operation)} \cup
    {ids \in Eligible(operation) \X Eligible(operation) :
        operation \in Operations /\ ids[1] < ids[2]}

(* Mutant: a command's event has no arrival time. *)
CommandTime_None(t) == 0

(* Mutant: the result of a read that failed is taken for a time. *)
CommandTime_Failed(t) == -1

CommandTime(t) == t

LatestTime ==
    IF log # <<>> /\ log[Len(log)].time > grant THEN log[Len(log)].time ELSE grant

(* A command, issued in the order of times; its event goes into the FES. *)
Issue ==
    /\ ~running /\ Idle
    /\ Len(log) < MaxCommands
    /\ \E operation \in Operations \cup {"CONF_RADIO", "MSG_SEND"},
          t \in LatestTime .. MaxTime :
          /\ \E ids \in Lists(operation) :
             \E origin \in SUBSET IF operation \in Additions
                                  THEN Range(ids) ELSE {} :
                log' = Append(log, Command(operation, ids, origin, t))
          /\ AddedSoFar' <= MaxModules
          /\ Cardinality({k \in DOMAIN log' : log'[k].operation = "MSG_SEND"})
                <= MaxPackets
          /\ fes' \in Insert(fes, Event(CommandTime(t), "COMMAND", Len(log')))
    /\ UNCHANGED <<managerVars, timeVars, current, nodeVars>>

(* A grant that covers all commands issued. *)
Advance ==
    /\ ~running /\ Idle
    /\ grant' \in LatestTime .. MaxTime
    /\ running' = TRUE
    /\ UNCHANGED <<managerVars, clock, fes, log, current, nodeVars>>

(* Nothing is left under the grant. *)
EndTimeAdvance ==
    /\ running /\ Idle
    /\ fes # <<>> => Head(fes).time > grant
    /\ running' = FALSE
    /\ UNCHANGED <<managerVars, clock, grant, fes, log, current, nodeVars>>

(* SHUT_DOWN, and the end of file that makes the scheduler handle it. *)
ShutDown ==
    /\ ~running /\ Idle
    /\ fes' \in Insert(fes, Event(grant, "FINISH", 0))
    /\ running' = TRUE
    /\ UNCHANGED <<managerVars, clock, grant, log, current, nodeVars>>

-----------------------------------------------------------------------------
(* MosaicScenarioManager handles a command *)

TakeCommand(operations) ==
    /\ Take("COMMAND")
    /\ log[Head(fes).of].operation \in operations

HandleMobility ==
    /\ TakeCommand(Operations)
    /\ HandleMobilityCmd
    /\ todo' = LET c == log[Head(fes).of]
               IN  [i \in DOMAIN c.ids |->
                      [operation |-> c.operation, id |-> c.ids[i]]]
    /\ current' = Head(fes).of
    /\ fes' = Tail(fes)
    /\ UNCHANGED nodeVars

(* Mutant: the base class always chooses the initial position. *)
SetInitialPosition_Base(last, id) == Default

(* The position that command k gives node id is taken for NIL. *)
AtNil(k, id) == OriginIsNil /\ id \in log[k].origin

(* MosaicMobility: the base class if there seems to be no position yet. *)
SetInitialPosition(last, id) == IF AtNil(last, id) THEN Default ELSE last

(* addNode gives the new module its position and then initializes it. *)
Add ==
    /\ AddNode \/ AddRsuNode
    /\ IF externalId' = externalId
       THEN UNCHANGED nodeVars
       ELSE /\ place' = Append(place, SetInitialPosition(current, Head(todo).id))
            /\ conf' = Append(conf, None)
    /\ UNCHANGED <<timeVars, fes, log, current>>

Move ==
    /\ MoveNode
    /\ LET id == Head(todo).id
       IN  place' = IF id \in Mapped
                    THEN [place EXCEPT ![nodes[id].module] = current] ELSE place
    /\ UNCHANGED <<timeVars, fes, log, current, conf>>

RemoveOne ==
    /\ RemoveNode
    /\ UNCHANGED <<timeVars, fes, log, current, nodeVars>>

(* sendV2xMessage and configureRadio: a message to the proxy app, or a     *)
(* warning if there is no such node.                                       *)
PassOn ==
    /\ TakeCommand({"CONF_RADIO", "MSG_SEND"})
    /\ LET c == log[Head(fes).of]
       IN  \/ /\ c.ids[1] \in Mapped
              /\ Send(c.ids[1], IF c.operation = "CONF_RADIO"
                                THEN NoPacket ELSE Len(packets) + 1)
              /\ SendMessage(Head(fes).of)
           \/ /\ c.ids[1] \notin Mapped
              /\ fes' = Tail(fes)
              /\ UNCHANGED managerVars
    /\ UNCHANGED <<current, nodeVars>>

HandleFinish ==
    /\ Take("FINISH")
    /\ Finish
    /\ fes' = Tail(fes)
    /\ UNCHANGED <<current, nodeVars>>

-----------------------------------------------------------------------------
(* The messages between the manager and the apps, and the packets *)

DropMessage ==
    /\ Take("MESSAGE")
    /\ DropStale
    /\ fes' = Tail(fes)
    /\ UNCHANGED <<current, nodeVars>>

(* The proxy app: a configuration, or a packet.  When others receive the   *)
(* packet is for the app's delay, the channel and the distance to say.     *)
HandleAtApp ==
    /\ Take("MESSAGE")
    /\ HandleFedIn
    /\ conf' = IF Head(pending).packet = NoPacket
               THEN [conf EXCEPT ![Head(pending).to] = Head(fes).of] ELSE conf
    /\ \/ air' = air /\ fes' = Tail(fes)
       \/ /\ air' # air
          /\ \E t \in clock' .. MaxTime :
                fes' \in Insert(Tail(fes), Event(t, "RX", Head(pending).packet))
    /\ UNCHANGED <<current, place>>

(* A packet reaches another node, or none. *)
Receive ==
    /\ Take("RX")
    /\ \/ /\ ReceivePacket
          /\ pending'[Len(pending')].packet = Head(fes).of
          /\ SendMessage(0)
       \/ /\ fes' = Tail(fes)
          /\ UNCHANGED managerVars
    /\ UNCHANGED <<current, nodeVars>>

(* The manager reports the reception to the ambassador. *)
ReportReception ==
    /\ Take("MESSAGE")
    /\ ReceiveV2xMessage
    /\ fes' = Tail(fes)
    /\ UNCHANGED <<current, nodeVars>>

FederateNext ==
    \/ Issue
    \/ Advance
    \/ EndTimeAdvance
    \/ ShutDown
    \/ HandleMobility
    \/ Add
    \/ Move
    \/ RemoveOne
    \/ PassOn
    \/ HandleFinish
    \/ DropMessage
    \/ HandleAtApp
    \/ Receive
    \/ ReportReception

FederateSpec == FederateInit /\ [][FederateNext]_allVars

-----------------------------------------------------------------------------
(* Properties *)

Commands == [operation : Operations \cup {"CONF_RADIO", "MSG_SEND"},
             ids : Seq(Ids), origin : SUBSET Ids, time : Nat, added : Nat]
EventKinds == {"COMMAND", "MESSAGE", "RX", "FINISH"}

(* The type invariant, the manager's aside. *)
FederateTypeOK ==
    /\ clock \in Nat /\ grant \in Nat /\ running \in BOOLEAN
    /\ fes \in Seq([time : Nat, kind : EventKinds, of : Nat])
    /\ log \in Seq(Commands)
    /\ current \in 0 .. Len(log)
    /\ place \in [DOMAIN externalId -> Nat]
    /\ conf \in [DOMAIN externalId -> Nat]

(* Commands that have been handled. *)
Handled ==
    {k \in DOMAIN log :
        \A i \in DOMAIN fes : fes[i].kind = "COMMAND" => fes[i].of # k}

(* MOSAIC's own view of which nodes there are is enough to keep the        *)
(* simulation from failing: commands that are right in the order of their  *)
(* issue are so in the order of their handling, of the same time or not,   *)
(* and of one list of nodes or of several.                                 *)
NoError == mode # "error"

(* Where command k puts node id.  "You can not insert nodes at             *)
(* 0.0,0.0,0.0", says setInitialPosition, and only this is excepted, where *)
(* NIL is the origin: such a node stands at its default until it is moved. *)
PlaceOf(k, id) ==
    IF log[k].operation \in Additions /\ AtNil(k, id) THEN Default ELSE k

(* Operations that give nodes a position. *)
Positioning == Additions \cup {"MOVE_NODES"}

(* At is where the last of commands ks to do so has put node id. *)
Placed(at, ks, id) ==
    \E k \in ks : IsLast(k, ks, id, Positioning) /\ at = PlaceOf(k, id)

(* Between events the nodes are those that the commands handled so far     *)
(* make one after the other, each where the last of them put it.           *)
ScenarioAsOrdered ==
    mode = "up" /\ todo = <<>> =>
       /\ Mapped = Present(Handled)
       /\ \A id \in Mapped : Placed(place[nodes[id].module], Handled, id)

(* A packet is handled by its app under the configuration that its node    *)
(* had been given when the packet was ordered: although both take two      *)
(* events, no configuration overtakes a packet or is overtaken by one, and *)
(* a node added again has none of its predecessor's.                       *)
ConfiguredAsOrdered ==
    fes # <<>> /\ pending # <<>> =>
       LET to == Head(pending).to
           earlier == 1 .. (Head(fes).of - 1)
           relevant == Additions \cup {"CONF_RADIO"}
       IN  Head(fes).kind = "MESSAGE" /\ Head(pending).packet # NoPacket
             /\ to \in Alive =>
                \E k \in earlier :
                   /\ IsLast(k, earlier, externalId[to], relevant)
                   /\ conf[to] = IF log[k].operation = "CONF_RADIO"
                                 THEN k ELSE None

(* Time does not move while a message between manager and apps is under    *)
(* way, and no grant is given back with one.                               *)
DeliveredAtOnce ==
    /\ Cardinality({i \in DOMAIN fes : fes[i].kind = "MESSAGE"}) = Len(pending)
    /\ \A e \in Range(fes) : e.kind = "MESSAGE" => e.time = clock
    /\ running \/ pending = <<>>

(* A message whose module is gone, be it to the app and dropped, or from   *)
(* the app and reported all the same, is of the very time at which the     *)
(* node was removed: nothing is lost to a removal of a later time, and no  *)
(* reception reported of a node removed at an earlier one.                 *)
TimelyMessages ==
    mode = "up" /\ fes # <<>> /\ pending # <<>> =>
       LET m == IF Head(pending).to = Manager THEN Head(pending).from
                                              ELSE Head(pending).to
       IN  Head(fes).kind = "MESSAGE" /\ m \notin Alive =>
                \E k \in Handled :
                   /\ log[k].operation = "REMOVE_NODES"
                   /\ Names(k, externalId[m])
                   /\ log[k].time = Head(fes).time

(* The whole federate advances time as the scheduler promises. *)
TA == INSTANCE TimeAdvance
FederateImplementsTimeAdvance == TA!Spec
=============================================================================
