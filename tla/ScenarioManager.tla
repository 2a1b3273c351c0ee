-------------------------- MODULE ScenarioManager --------------------------
(***************************************************************************)
(* MosaicScenarioManager: it creates and removes the modules of MOSAIC's   *)
(* nodes while the simulation runs, connects each to a pair of gates whose *)
(* index is the node's id, and passes messages between those gates and     *)
(* the nodes' MosaicProxyApps.                                             *)
(*                                                                         *)
(* A message between two modules is an event of its own: other events of   *)
(* the same time come in between, among them the removal of the node and   *)
(* the creation of another with the same id.  A module is known by its     *)
(* number in the order of creation; externalId holds the m_externalId of   *)
(* each.  An error() ends the simulation; what the failing handler leaves  *)
(* behind is not modelled.                                                 *)
(*                                                                         *)
(* Positions are left out.  What a proxy app does with its radios is in    *)
(* ProxyApp; here a packet may or may not go on the air.                   *)
(***************************************************************************)
EXTENDS Integers, Sequences, Functions

CONSTANTS
    MaxId,      \* bound: node ids are 0 .. MaxId
    MaxModules, \* bound: the nodes ever created
    MaxPackets, \* bound: the packets ever sent by MOSAIC
    MaxPending  \* bound: the messages between modules under way

ASSUME ManagerAssumption ==
    /\ MaxId \in Nat /\ MaxModules \in Nat
    /\ MaxPackets \in Nat /\ MaxPending \in Nat

Ids == 0 .. MaxId
Kinds == {"veh", "rsu"}         \* vehModuleName, rsuModuleName
Module == Nat \ {0}
Manager == 0                    \* the manager's own module
Operations == {"ADD_NODES", "ADD_RSU_NODES", "MOVE_NODES", "REMOVE_NODES"}
NoPacket == 0                   \* a message that is a configuration

VARIABLES
    mode,       \* "up", "error" after an error(), "ended" after finish()
    todo,       \* what is left of the MosaicMobilityCmd being handled
    nodes,      \* nodes: the module and the kind of each id
    vecSize,    \* size of the submodule vector of each kind
    gateSize,   \* size of the gate vectors mosaicProxyOut and mosaicProxyIn
    wired,      \* the module that mosaicProxyOut[id] leads to
    externalId, \* m_externalId of every module ever created
    pending,    \* messages between modules, in the order of their arrival
    packets,    \* node id in each packet object, shared by all its copies
    air         \* packets a node has transmitted, and the module that did

vars == <<mode, todo, nodes, vecSize, gateSize, wired, externalId, pending,
          packets, air>>

Empty == [id \in {} |-> 0]
Mapped == DOMAIN nodes          \* ids for which getManagedModule finds one
Alive == {nodes[id].module : id \in Mapped}

(* Kernel: the handler is done with the element it was working on. *)
Done == todo' = Tail(todo)

(* error(): the simulation is over. *)
Fail ==
    /\ mode' = "error"
    /\ UNCHANGED <<todo, nodes, vecSize, gateSize, wired, externalId, pending,
                   packets, air>>

Init ==
    /\ mode = "up"
    /\ todo = <<>>
    /\ nodes = Empty
    /\ vecSize = [k \in Kinds |-> 0]
    /\ gateSize = 0
    /\ wired = Empty
    /\ externalId = <<>>
    /\ pending = <<>>
    /\ packets = <<>>
    /\ air = {}

-----------------------------------------------------------------------------
(* MosaicMobilityCmd: an operation on a list of nodes, one at a time *)

(* Mutant: the vector is only grown when the index is beyond its end by    *)
(* more than one.                                                          *)
GrownVector_OffByOne(kind, id) ==
    IF vecSize[kind] < id THEN id + 1 ELSE vecSize[kind]

(* The submodule vector is made, or grown, to hold index id. *)
GrownVector(kind, id) ==
    IF vecSize[kind] <= id THEN id + 1 ELSE vecSize[kind]

(* Mutant: the new node is connected to the gate that was added last. *)
GateIndex_Last(id) == gateSize

(* The new node is connected to the gate whose index is its id. *)
GateIndex(id) == id

(* addNode and addRsuNode for a new id. *)
Create(kind, id) ==
    LET module == Len(externalId) + 1
        size == GrownVector(kind, id)
        gate == GateIndex(id)
    IN  IF id \in Mapped                    \* "Tried adding duplicate node"
          \/ size <= id                     \* kernel: no such index
          \/ gate >= gateSize + 1           \* kernel: no such gate
          \/ gate \in DOMAIN wired          \* kernel: gate is connected
        THEN Fail
        ELSE /\ nodes' = [i \in Mapped \cup {id} |->
                  IF i = id THEN [module |-> module, kind |-> kind]
                            ELSE nodes[i]]
             /\ vecSize' = [vecSize EXCEPT ![kind] = size]
             /\ gateSize' = gateSize + 1
             /\ wired' = [i \in DOMAIN wired \cup {gate} |->
                  IF i = gate THEN module ELSE wired[i]]
             /\ externalId' = Append(externalId, id)
             /\ Done
             /\ UNCHANGED <<mode, pending, packets, air>>

Current(operation) ==
    mode = "up" /\ todo # <<>> /\ Head(todo).operation = operation

AddNode ==
    /\ Current("ADD_NODES")
    /\ Create("veh", Head(todo).id)

AddRsuNode ==
    /\ Current("ADD_RSU_NODES")
    /\ Create("rsu", Head(todo).id)

(* An id that is not mapped is skipped with a warning; either way nothing  *)
(* but a position changes.                                                 *)
MoveNode ==
    /\ Current("MOVE_NODES")
    /\ Done
    /\ UNCHANGED <<mode, nodes, vecSize, gateSize, wired, externalId, pending,
                   packets, air>>

(* Mutant: nodes are forgotten and their modules kept. *)
Remove_KeepsModule(ids) ==
    /\ nodes' = Restrict(nodes, Mapped \ ids)
    /\ UNCHANGED wired

(* Deleting the module disconnects its gates from the manager's. *)
Remove(ids) ==
    /\ nodes' = Restrict(nodes, Mapped \ ids)
    /\ wired' = Restrict(wired,
                    {g \in DOMAIN wired : \A i \in ids : wired[g] # nodes[i].module})

RemoveNode ==
    /\ Current("REMOVE_NODES")
    /\ IF Head(todo).id \notin Mapped       \* "No node with id %d found"
       THEN Fail
       ELSE /\ Remove({Head(todo).id})
            /\ Done
            /\ UNCHANGED <<mode, vecSize, gateSize, externalId, pending,
                           packets, air>>

(* The kernel hands the manager a MosaicMobilityCmd. *)
HandleMobilityCmd ==
    /\ mode = "up" /\ todo = <<>>
    /\ \E operation \in Operations, first, second \in Ids :
          todo' \in {<<[operation |-> operation, id |-> first]>>,
                     <<[operation |-> operation, id |-> first],
                       [operation |-> operation, id |-> second]>>}
    /\ Head(todo').operation \in {"ADD_NODES", "ADD_RSU_NODES"} =>
          Len(externalId) + Len(todo') <= MaxModules
    /\ UNCHANGED <<mode, nodes, vecSize, gateSize, wired, externalId, pending,
                   packets, air>>

-----------------------------------------------------------------------------
(* Messages to the proxy apps *)

Idle == mode = "up" /\ todo = <<>>

(* send() through mosaicProxyOut[id]; a gate that leads nowhere is an      *)
(* error of the kernel.                                                    *)
Send(id, packet) ==
    IF id \notin DOMAIN wired
    THEN Fail
    ELSE /\ pending' = Append(pending,
                [to |-> wired[id], id |-> id, packet |-> packet,
                 from |-> Manager])
         /\ packets' = IF packet = NoPacket THEN packets
                                           ELSE Append(packets, id)
         /\ UNCHANGED <<mode, todo, nodes, vecSize, gateSize, wired,
                        externalId, air>>

(* MosaicCommunicationCmd.  A node that is not mapped, or a ttl that is    *)
(* not 1, gets a warning and no more.                                      *)
SendV2xMessage ==
    /\ Idle
    /\ Len(packets) < MaxPackets
    /\ Len(pending) < MaxPending
    /\ \E id \in Mapped : Send(id, Len(packets) + 1)

(* MosaicConfigurationCmd.  So does a node that is not mapped here. *)
ConfigureRadio ==
    /\ Idle
    /\ Len(pending) < MaxPending
    /\ \E id \in Mapped : Send(id, NoPacket)

(* Kernel: the first message arrives at its module. *)
Arrive(to) ==
    /\ Idle
    /\ pending # <<>>
    /\ Head(pending).to \in to
    /\ pending' = Tail(pending)

(* A message for a module that is gone is stale; takeNextEvent drops it. *)
DropStale ==
    /\ Arrive(Nat \ (Alive \cup {Manager}))
    /\ UNCHANGED <<mode, todo, nodes, vecSize, gateSize, wired, externalId,
                   packets, air>>

(* Mutant: a configuration is taken for a packet. *)
HandleFedIn_AnyMessage ==
    /\ Arrive(Alive)
    /\ \/ air' = air
       \/ air' = air \cup {[packet |-> Head(pending).packet,
                            by |-> Head(pending).to]}
    /\ UNCHANGED <<mode, todo, nodes, vecSize, gateSize, wired, externalId,
                   packets>>

(* MosaicProxyApp::handleMessageWhenUp, message on fedIn: a packet is      *)
(* transmitted or discarded, a configuration never leaves the node.        *)
HandleFedIn ==
    /\ Arrive(Alive)
    /\ \/ air' = air
       \/ /\ Head(pending).packet # NoPacket
          /\ air' = air \cup {[packet |-> Head(pending).packet,
                               by |-> Head(pending).to]}
    /\ UNCHANGED <<mode, todo, nodes, vecSize, gateSize, wired, externalId,
                   packets>>

-----------------------------------------------------------------------------
(* Packets from the proxy apps *)

(* What receivePacket hands to the manager, named with node id. *)
Reported(packet, id, m) ==
    [to |-> Manager, id |-> id, packet |-> packet, from |-> m]

(* Mutant: the packet is duplicated before the node id is set. *)
ReceivePacket_DupFirst ==
    /\ Idle
    /\ Len(pending) < MaxPending
    /\ \E a \in air : \E m \in Alive \ {a.by} :
          /\ pending' = Append(pending, Reported(a.packet, packets[a.packet], m))
          /\ packets' = [packets EXCEPT ![a.packet] = externalId[m]]
    /\ UNCHANGED <<mode, todo, nodes, vecSize, gateSize, wired, externalId, air>>

(* MosaicProxyApp::receivePacket.  The object it writes its id into is the *)
(* one inside the packet's chunk, which the copies of a broadcast share.   *)
ReceivePacket ==
    /\ Idle
    /\ Len(pending) < MaxPending
    /\ \E a \in air : \E m \in Alive \ {a.by} :
          /\ packets' = [packets EXCEPT ![a.packet] = externalId[m]]
          /\ pending' = Append(pending, Reported(a.packet, packets'[a.packet], m))
    /\ UNCHANGED <<mode, todo, nodes, vecSize, gateSize, wired, externalId, air>>

(* The message is reported to the ambassador: EventScheduler. *)
ReceiveV2xMessage ==
    /\ Arrive({Manager})
    /\ UNCHANGED <<mode, todo, nodes, vecSize, gateSize, wired, externalId,
                   packets, air>>

-----------------------------------------------------------------------------
(* MosaicFinishCmd: all nodes are removed and the simulation ended. *)
Finish ==
    /\ Idle
    /\ Remove(Mapped)
    /\ mode' = "ended"
    /\ UNCHANGED <<todo, vecSize, gateSize, externalId, pending, packets, air>>

HandleMessage ==
    \/ HandleMobilityCmd
    \/ AddNode
    \/ AddRsuNode
    \/ MoveNode
    \/ RemoveNode
    \/ SendV2xMessage
    \/ ConfigureRadio
    \/ ReceiveV2xMessage
    \/ Finish

Next ==
    \/ HandleMessage
    \/ DropStale
    \/ HandleFedIn
    \/ ReceivePacket

Spec == Init /\ [][Next]_vars

-----------------------------------------------------------------------------
(* Properties *)

Node == [module : Module, kind : Kinds]
Step == [operation : Operations, id : Ids]
Pending == [to : Nat, id : Ids, packet : Nat, from : Nat]
Transmission == [packet : Nat \ {NoPacket}, by : Module]

(* The type invariant: the manager's tables, the gates and the messages    *)
(* have the values their declarations allow.                               *)
TypeOK ==
    /\ mode \in {"up", "error", "ended"}
    /\ todo \in Seq(Step)
    /\ Mapped \in SUBSET Ids /\ nodes \in [Mapped -> Node]
    /\ vecSize \in [Kinds -> Nat]
    /\ gateSize \in Nat
    /\ DOMAIN wired \in SUBSET Nat /\ wired \in [DOMAIN wired -> Module]
    /\ externalId \in Seq(Ids)
    /\ pending \in Seq(Pending)
    /\ packets \in Seq(Ids)
    /\ air \in SUBSET Transmission

(* After any sequence of additions and removals, of vehicles and of road   *)
(* side units, the gate with a node's id leads to that node's module, the  *)
(* module knows its id, and no gate leads anywhere else.                   *)
GatesFollowNodes ==
    /\ DOMAIN wired = Mapped
    /\ \A id \in Mapped :
          /\ wired[id] = nodes[id].module
          /\ nodes[id].module \in DOMAIN externalId
          /\ externalId[nodes[id].module] = id

(* A message to a proxy app is under way to a module of the node that the  *)
(* command named, and if that module still exists it is the one the        *)
(* manager has for the node: removing a node and adding it again between   *)
(* sending and arrival puts the message into no other node's hands.        *)
NoMisdelivery ==
    \A i \in DOMAIN pending :
       pending[i].to # Manager =>
          /\ pending[i].to \in DOMAIN externalId
          /\ externalId[pending[i].to] = pending[i].id
          /\ pending[i].to \in Alive =>
                nodes[pending[i].id].module = pending[i].to

(* A reception is reported for the node that received the packet, although *)
(* all receivers of a broadcast write their id into the same object.       *)
ReportsNameReceiver ==
    \A i \in DOMAIN pending :
       pending[i].to = Manager =>
          /\ pending[i].from \in DOMAIN externalId
          /\ pending[i].id = externalId[pending[i].from]

(* The simulation only fails if MOSAIC adds a node that is there, removes  *)
(* one that is not, or gives a new node an id above the number of nodes    *)
(* added so far: no other order of additions and removals runs into a gate *)
(* that is missing or still connected, or out of a submodule vector.       *)
ErrorsOnlyOnMisuse ==
    [][mode' = "error" =>
          LET step == Head(todo) IN
          todo # <<>> /\
          (\/ step.operation \in {"ADD_NODES", "ADD_RSU_NODES"}
                 /\ (step.id \in Mapped \/ step.id > Len(externalId))
           \/ step.operation = "REMOVE_NODES" /\ step.id \notin Mapped)]_vars
=============================================================================
