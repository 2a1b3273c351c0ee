----------------------- MODULE ScenarioManagerProofs -----------------------
(***************************************************************************)
(* Proofs about MosaicScenarioManager, for any number of ids, modules,     *)
(* packets and messages.                                                   *)
(*                                                                         *)
(* The inductive invariant adds to what the runs check that the vectors    *)
(* are large enough for every node, that the gate vectors have grown once  *)
(* for every module ever created, and that a packet on the air exists.     *)
(***************************************************************************)
EXTENDS ScenarioManager, TLAPS

(* A node's id is an index of the gate vectors and of its module vector;   *)
(* the gate vectors count the modules.                                     *)
VectorsHoldNodes ==
    /\ gateSize = Len(externalId)
    /\ \A id \in Mapped : id < gateSize /\ id < vecSize[nodes[id].kind]

(* A packet on the air is one the manager has sent. *)
AirSent == \A a \in air : a.packet \in DOMAIN packets

PacketsExist == \A i \in DOMAIN pending : pending[i].packet # NoPacket =>
                                              pending[i].packet \in DOMAIN packets

IInv ==
    /\ TypeOK
    /\ GatesFollowNodes
    /\ NoMisdelivery
    /\ ReportsNameReceiver
    /\ VectorsHoldNodes
    /\ AirSent
    /\ PacketsExist

-----------------------------------------------------------------------------
(* Appending a message keeps what holds for every message. *)
LEMMA AppendElements ==
    ASSUME NEW S, NEW s \in Seq(S), NEW e \in S
    PROVE  /\ Append(s, e) \in Seq(S)
           /\ DOMAIN Append(s, e) = DOMAIN s \cup {Len(s) + 1}
           /\ Len(Append(s, e)) = Len(s) + 1
           /\ \A i \in DOMAIN s : Append(s, e)[i] = s[i]
           /\ Append(s, e)[Len(s) + 1] = e
           /\ Len(s) + 1 \notin DOMAIN s
  OBVIOUS

(* Taking the first message leaves messages that were there before. *)
LEMMA TailElements ==
    ASSUME NEW S, NEW s \in Seq(S), s # <<>>
    PROVE  /\ Head(s) \in S /\ Head(s) = s[1] /\ 1 \in DOMAIN s
           /\ Tail(s) \in Seq(S)
           /\ \A i \in DOMAIN Tail(s) : i + 1 \in DOMAIN s /\ Tail(s)[i] = s[i + 1]
  OBVIOUS

(* The initial state satisfies the invariant. *)
LEMMA InitIInv == Init => IInv
<1> SUFFICES ASSUME Init PROVE IInv
  OBVIOUS
<1>1. Mapped = {} /\ DOMAIN wired = {} /\ air = {}
  BY DEF Init, Mapped, Empty
<1>2. /\ todo = <<>> /\ externalId = <<>> /\ pending = <<>> /\ packets = <<>>
      /\ mode = "up" /\ gateSize = 0
      /\ vecSize = [k \in Kinds |-> 0]
  BY DEF Init
<1>3. nodes \in [Mapped -> Node] /\ wired \in [DOMAIN wired -> Module]
  BY DEF Init, Mapped, Empty
<1>4. TypeOK
  BY <1>1, <1>2, <1>3 DEF TypeOK
<1> QED
  BY <1>1, <1>2, <1>4
  DEF IInv, GatesFollowNodes, NoMisdelivery, ReportsNameReceiver,
      VectorsHoldNodes, AirSent, PacketsExist

(* error() changes nothing else. *)
LEMMA FailIInv == IInv /\ Fail => IInv'
  BY DEF Fail, IInv, TypeOK, GatesFollowNodes, NoMisdelivery,
         ReportsNameReceiver, VectorsHoldNodes, AirSent, PacketsExist, Alive,
         Mapped

(* The lists of a MosaicMobilityCmd. *)
LEMMA CommandIInv == IInv /\ HandleMobilityCmd => IInv'
<1> SUFFICES ASSUME IInv, HandleMobilityCmd PROVE IInv'
  OBVIOUS
<1>1. todo' \in Seq(Step)
  <2>1. PICK operation \in Operations, first \in Ids, second \in Ids :
           todo' \in {<<[operation |-> operation, id |-> first]>>,
                     <<[operation |-> operation, id |-> first],
                       [operation |-> operation, id |-> second]>>}
    BY DEF HandleMobilityCmd
  <2>2. \A a, b \in Step : <<a>> \in Seq(Step) /\ <<a, b>> \in Seq(Step)
    OBVIOUS
  <2>3. /\ [operation |-> operation, id |-> first] \in Step
        /\ [operation |-> operation, id |-> second] \in Step
    BY DEF Step
  <2> QED
    BY <2>1, <2>2, <2>3
<1>2. UNCHANGED <<mode, nodes, vecSize, gateSize, wired, externalId, pending,
                  packets, air>>
  BY DEF HandleMobilityCmd
<1> QED
  BY <1>1, <1>2
  DEF IInv, TypeOK, GatesFollowNodes, NoMisdelivery, ReportsNameReceiver,
      VectorsHoldNodes, AirSent, PacketsExist, Alive, Mapped

(* Moving a node. *)
LEMMA MoveIInv == IInv /\ MoveNode => IInv'
<1> SUFFICES ASSUME IInv, MoveNode PROVE IInv'
  OBVIOUS
<1>1. todo' \in Seq(Step)
  BY TailElements DEF MoveNode, Current, Done, IInv, TypeOK
<1>2. UNCHANGED <<mode, nodes, vecSize, gateSize, wired, externalId, pending,
                  packets, air>>
  BY DEF MoveNode
<1> QED
  BY <1>1, <1>2
  DEF IInv, TypeOK, GatesFollowNodes, NoMisdelivery, ReportsNameReceiver,
      VectorsHoldNodes, AirSent, PacketsExist, Alive, Mapped

(* Creating a module for a new id: no gate and no message is confused with *)
(* one of an older module.                                                 *)
LEMMA CreateIInv ==
    ASSUME NEW kind \in Kinds, NEW id \in Ids, IInv, todo # <<>>, Create(kind, id)
    PROVE  IInv'
<1> DEFINE module == Len(externalId) + 1
           size == GrownVector(kind, id)
<1>1. CASE Fail
  BY <1>1, FailIInv
<1>2. CASE ~Fail
  <2>1. /\ id \notin Mapped
        /\ size > id
        /\ id < gateSize + 1
    <3>1. size \in Nat /\ gateSize \in Nat /\ id \in Nat
      BY DEF IInv, TypeOK, GrownVector, Ids
    <3> QED
      BY <1>2, <3>1 DEF Create, GateIndex
  <2>2. /\ nodes' = [i \in Mapped \cup {id} |->
              IF i = id THEN [module |-> module, kind |-> kind] ELSE nodes[i]]
        /\ vecSize' = [vecSize EXCEPT ![kind] = size]
        /\ gateSize' = gateSize + 1
        /\ wired' = [i \in DOMAIN wired \cup {id} |->
              IF i = id THEN module ELSE wired[i]]
        /\ externalId' = Append(externalId, id)
        /\ todo' = Tail(todo)
        /\ UNCHANGED <<mode, pending, packets, air>>
    BY <1>2 DEF Create, GateIndex, Done
  <2> HIDE DEF size
  <2>3. Mapped' = Mapped \cup {id} /\ DOMAIN wired' = DOMAIN wired \cup {id}
    BY <2>2 DEF Mapped
  <2>4. /\ nodes'[id] = [module |-> module, kind |-> kind]
        /\ \A i \in Mapped : nodes'[i] = nodes[i]
        /\ wired'[id] = module
        /\ \A i \in Mapped : wired'[i] = wired[i]
    BY <2>1, <2>2 DEF IInv, GatesFollowNodes
  <2>5. /\ externalId' \in Seq(Ids)
        /\ DOMAIN externalId' = DOMAIN externalId \cup {module}
        /\ Len(externalId') = module
        /\ \A i \in DOMAIN externalId : externalId'[i] = externalId[i]
        /\ externalId'[module] = id
        /\ module \notin DOMAIN externalId
        /\ module \in Module
    BY <2>2, AppendElements DEF IInv, TypeOK, Module
  <2> HIDE DEF module
  <2>6. TypeOK'
    <3>1. size \in Nat
      BY DEF IInv, TypeOK, GrownVector, Ids, size
    <3>2. [module |-> module, kind |-> kind] \in Node
      BY <2>5 DEF Node
    <3>3. nodes' \in [Mapped' -> Node]
      BY <2>2, <2>3, <3>2 DEF IInv, TypeOK
    <3>4. DOMAIN wired' \in SUBSET Nat /\ wired' \in [DOMAIN wired' -> Module]
      BY <2>2, <2>3, <2>5 DEF IInv, TypeOK, Ids
    <3>5. todo' \in Seq(Step)
      BY <2>2, TailElements DEF IInv, TypeOK
    <3>6. gateSize' \in Nat /\ vecSize' \in [Kinds -> Nat]
      BY <2>2, <3>1 DEF IInv, TypeOK
    <3>7. Mapped' \in SUBSET Ids
      BY <2>3 DEF IInv, TypeOK
    <3> QED
      BY <2>2, <2>5, <3>3, <3>4, <3>5, <3>6, <3>7 DEF IInv, TypeOK
  <2>7. GatesFollowNodes'
    BY <2>3, <2>4, <2>5 DEF IInv, GatesFollowNodes
  <2>8. Alive' = Alive \cup {module}
    BY <2>3, <2>4 DEF Alive
  <2>9. NoMisdelivery'
    <3> SUFFICES ASSUME NEW i \in DOMAIN pending, pending[i].to # Manager
                 PROVE  /\ pending[i].to \in DOMAIN externalId'
                        /\ externalId'[pending[i].to] = pending[i].id
                        /\ pending[i].to \in Alive' =>
                              nodes'[pending[i].id].module = pending[i].to
      BY <2>2 DEF NoMisdelivery
    <3>1. /\ pending[i].to \in DOMAIN externalId
          /\ externalId[pending[i].to] = pending[i].id
          /\ pending[i].to \in Alive =>
                nodes[pending[i].id].module = pending[i].to
      BY DEF IInv, NoMisdelivery
    <3>2. pending[i].to \in Alive => pending[i].id \in Mapped
      BY <3>1 DEF Alive, IInv, GatesFollowNodes
    <3> QED
      BY <3>1, <3>2, <2>4, <2>5, <2>8
  <2>10. ReportsNameReceiver'
    BY <2>2, <2>5 DEF IInv, ReportsNameReceiver
  <2>11. VectorsHoldNodes'
    <3>1. gateSize' = Len(externalId')
      BY <2>2, <2>5 DEF IInv, VectorsHoldNodes, module
    <3>2. ASSUME NEW i \in Mapped'
          PROVE  i < gateSize' /\ i < vecSize'[nodes'[i].kind]
      <4>1. gateSize \in Nat /\ i \in Nat /\ id \in Nat /\ vecSize \in [Kinds -> Nat]
        BY <2>3 DEF IInv, TypeOK, Ids
      <4>2. CASE i = id
        BY <4>1, <4>2, <2>1, <2>2, <2>4
      <4>3. CASE i # id
        <5>1. i \in Mapped /\ nodes[i] \in Node /\ nodes'[i] = nodes[i]
          BY <4>3, <2>3, <2>4 DEF IInv, TypeOK
        <5>2. i < gateSize /\ i < vecSize[nodes[i].kind]
          BY <5>1 DEF IInv, VectorsHoldNodes
        <5>3. size >= vecSize[kind] /\ size \in Nat
          BY <4>1 DEF size, GrownVector
        <5> QED
          BY <4>1, <5>1, <5>2, <5>3, <2>2 DEF Node
      <4> QED
        BY <4>2, <4>3
    <3> QED
      BY <3>1, <3>2 DEF VectorsHoldNodes
  <2>12. AirSent' /\ PacketsExist'
    BY <2>2 DEF IInv, AirSent, PacketsExist
  <2> QED
    BY <2>6, <2>7, <2>9, <2>10, <2>11, <2>12 DEF IInv
<1> QED
  BY <1>1, <1>2

(* Removing nodes with their modules, of RemoveNode and of finish(). *)
LEMMA RemoveTables ==
    ASSUME NEW ids \in SUBSET Mapped, IInv, Remove(ids),
           UNCHANGED <<vecSize, gateSize, externalId, pending, packets, air>>,
           mode' \in {"up", "error", "ended"}, todo' \in Seq(Step)
    PROVE  IInv'
<1>1. /\ Mapped' = Mapped \ ids
      /\ \A i \in Mapped' : nodes'[i] = nodes[i]
  BY DEF Remove, Restrict, Mapped
<1>2. \A i, j \in Mapped : nodes[i].module = nodes[j].module => i = j
  BY DEF IInv, GatesFollowNodes
<1>3. /\ DOMAIN wired' = Mapped'
      /\ \A i \in Mapped' : wired'[i] = wired[i]
  <2>1. /\ DOMAIN wired' = {g \in DOMAIN wired :
                               \A i \in ids : wired[g] # nodes[i].module}
        /\ \A g \in DOMAIN wired' : wired'[g] = wired[g]
    BY DEF Remove, Restrict
  <2> QED
    BY <2>1, <1>1, <1>2 DEF IInv, GatesFollowNodes
<1>4. TypeOK'
  <2>1. nodes' = [i \in Mapped' |-> nodes[i]]
    BY <1>1 DEF Remove, Restrict
  <2>2. wired' = [i \in Mapped' |-> wired[i]]
    BY <1>3 DEF Remove, Restrict
  <2>3. nodes' \in [Mapped' -> Node] /\ wired' \in [Mapped' -> Module]
    BY <1>1, <2>1, <2>2 DEF IInv, TypeOK, GatesFollowNodes
  <2>4. Mapped' \in SUBSET Ids /\ DOMAIN wired' \in SUBSET Nat
    BY <1>1, <1>3 DEF IInv, TypeOK, Ids
  <2> QED
    BY <1>3, <2>3, <2>4 DEF IInv, TypeOK
<1>5. GatesFollowNodes'
  BY <1>1, <1>3 DEF IInv, GatesFollowNodes
<1>6. NoMisdelivery'
  <2>1. \A m \in Alive' : m \in Alive /\ \E i \in Mapped' : nodes[i].module = m
    BY <1>1 DEF Alive
  <2> QED
    BY <1>1, <2>1 DEF IInv, NoMisdelivery, GatesFollowNodes, Alive
<1>7. VectorsHoldNodes'
  BY <1>1 DEF IInv, VectorsHoldNodes
<1>8. ReportsNameReceiver' /\ AirSent' /\ PacketsExist'
  BY DEF IInv, ReportsNameReceiver, AirSent, PacketsExist
<1> QED
  BY <1>4, <1>5, <1>6, <1>7, <1>8 DEF IInv

(* REMOVE_NODES, one node. *)
LEMMA RemoveIInv == IInv /\ RemoveNode => IInv'
<1> SUFFICES ASSUME IInv, RemoveNode PROVE IInv'
  OBVIOUS
<1>1. CASE Fail
  BY <1>1, FailIInv
<1>2. CASE ~Fail
  <2>1. /\ Head(todo).id \in Mapped
        /\ Remove({Head(todo).id})
        /\ todo' = Tail(todo) /\ todo # <<>>
        /\ UNCHANGED <<mode, vecSize, gateSize, externalId, pending, packets, air>>
    BY <1>2 DEF RemoveNode, Done, Current
  <2>2. todo' \in Seq(Step)
    BY <2>1, TailElements DEF IInv, TypeOK
  <2>3. mode' \in {"up", "error", "ended"}
    BY <2>1 DEF IInv, TypeOK
  <2> QED
    BY <2>1, <2>2, <2>3, RemoveTables
<1> QED
  BY <1>1, <1>2

(* MosaicFinishCmd. *)
LEMMA FinishIInv == IInv /\ Finish => IInv'
<1> SUFFICES ASSUME IInv, Finish PROVE IInv'
  OBVIOUS
<1>1. todo' \in Seq(Step)
  BY DEF Finish, IInv, TypeOK
<1> QED
  BY <1>1, RemoveTables DEF Finish

-----------------------------------------------------------------------------
(* The first message leaves the queue. *)
LEMMA ArriveIInv ==
    ASSUME NEW to, IInv, Arrive(to), air' \in SUBSET Transmission, AirSent',
           UNCHANGED <<mode, todo, nodes, vecSize, gateSize, wired, externalId,
                       packets>>
    PROVE  IInv'
<1>1. /\ pending' \in Seq(Pending)
      /\ \A i \in DOMAIN pending' :
            i + 1 \in DOMAIN pending /\ pending'[i] = pending[i + 1]
  BY TailElements DEF Arrive, IInv, TypeOK
<1>2. TypeOK'
  BY <1>1 DEF IInv, TypeOK, Mapped
<1>3. NoMisdelivery'
  BY <1>1 DEF IInv, NoMisdelivery, Alive, Mapped
<1>4. ReportsNameReceiver' /\ PacketsExist'
  BY <1>1 DEF IInv, ReportsNameReceiver, PacketsExist
<1> QED
  BY <1>2, <1>3, <1>4 DEF IInv, GatesFollowNodes, VectorsHoldNodes, Mapped

(* A message to a proxy app arrives. *)
LEMMA FedInIInv == IInv /\ HandleFedIn => IInv'
<1> SUFFICES ASSUME IInv, HandleFedIn PROVE IInv'
  OBVIOUS
<1> DEFINE p == Head(pending)
<1>1. /\ Arrive(Alive)
      /\ \/ air' = air
         \/ /\ p.packet # NoPacket
            /\ air' = air \cup {[packet |-> p.packet, by |-> p.to]}
      /\ UNCHANGED <<mode, todo, nodes, vecSize, gateSize, wired, externalId,
                     packets>>
  BY DEF HandleFedIn
<1>2. p = pending[1] /\ 1 \in DOMAIN pending /\ p \in Pending /\ p.to \in Alive
  BY <1>1, TailElements DEF Arrive, IInv, TypeOK
<1>3. Alive \subseteq Module
  BY DEF Alive, IInv, TypeOK, Node
<1>4. p.packet # NoPacket =>
         /\ p.packet \in DOMAIN packets
         /\ [packet |-> p.packet, by |-> p.to] \in Transmission
  BY <1>2, <1>3 DEF IInv, PacketsExist, Transmission, Pending, NoPacket
<1> HIDE DEF p
<1>5. air' \in SUBSET Transmission /\ AirSent'
  BY <1>1, <1>4 DEF IInv, TypeOK, AirSent
<1> QED
  BY <1>1, <1>5, ArriveIInv

(* A message without a module, or one to the manager, arrives. *)
LEMMA OtherArrivalsIInv == IInv /\ (DropStale \/ ReceiveV2xMessage) => IInv'
<1> SUFFICES ASSUME IInv, DropStale \/ ReceiveV2xMessage PROVE IInv'
  OBVIOUS
<1>1. /\ UNCHANGED <<mode, todo, nodes, vecSize, gateSize, wired, externalId,
                     packets, air>>
      /\ Arrive(Nat \ (Alive \cup {Manager})) \/ Arrive({Manager})
  BY DEF DropStale, ReceiveV2xMessage
<1>2. air' \in SUBSET Transmission /\ AirSent'
  BY <1>1 DEF IInv, TypeOK, AirSent
<1> QED
  BY <1>1, <1>2, ArriveIInv

(* Sending through the gate of a node that is mapped. *)
LEMMA SendIInv ==
    ASSUME IInv, NEW id \in Mapped, NEW packet \in {NoPacket, Len(packets) + 1},
           Send(id, packet)
    PROVE  IInv'
<1> DEFINE e == [to |-> wired[id], id |-> id, packet |-> packet, from |-> Manager]
<1>1. id \in DOMAIN wired /\ wired[id] = nodes[id].module
  BY DEF IInv, GatesFollowNodes
<1>2. /\ pending' = Append(pending, e)
      /\ packets' = IF packet = NoPacket THEN packets ELSE Append(packets, id)
      /\ UNCHANGED <<mode, todo, nodes, vecSize, gateSize, wired, externalId, air>>
  BY <1>1 DEF Send
<1>3. id \in Ids /\ packet \in Nat /\ wired[id] \in Module /\ Len(packets) \in Nat
  BY <1>1 DEF IInv, TypeOK, NoPacket
<1>4. e \in Pending
  BY <1>3 DEF Pending, Module, Manager
<1>5. /\ e.to = nodes[id].module /\ e.id = id /\ e.packet = packet
      /\ e.to # Manager
  BY <1>1, <1>3 DEF Module, Manager
<1> HIDE DEF e
<1>6. /\ pending' \in Seq(Pending)
      /\ DOMAIN pending' = DOMAIN pending \cup {Len(pending) + 1}
      /\ \A i \in DOMAIN pending : pending'[i] = pending[i]
      /\ pending'[Len(pending) + 1] = e
  BY <1>2, <1>4, AppendElements DEF IInv, TypeOK
<1>7. /\ packets' \in Seq(Ids)
      /\ DOMAIN packets \subseteq DOMAIN packets'
      /\ packet # NoPacket => packet \in DOMAIN packets'
  <2>1. CASE packet = NoPacket
    BY <2>1, <1>2 DEF IInv, TypeOK
  <2>2. CASE packet # NoPacket
    BY <2>2, <1>2, <1>3, AppendElements DEF IInv, TypeOK
  <2> QED
    BY <2>1, <2>2
<1>8. TypeOK'
  BY <1>2, <1>6, <1>7 DEF IInv, TypeOK, Mapped
<1>9. NoMisdelivery'
  BY <1>2, <1>5, <1>6 DEF IInv, NoMisdelivery, GatesFollowNodes, Alive, Mapped
<1>10. ReportsNameReceiver' /\ PacketsExist'
  BY <1>2, <1>5, <1>6, <1>7 DEF IInv, ReportsNameReceiver, PacketsExist
<1> QED
  BY <1>2, <1>7, <1>8, <1>9, <1>10
  DEF IInv, GatesFollowNodes, VectorsHoldNodes, AirSent, Mapped

(* A proxy app receives a packet. *)
LEMMA ReceiveIInv == IInv /\ ReceivePacket => IInv'
<1> SUFFICES ASSUME IInv, ReceivePacket PROVE IInv'
  OBVIOUS
<1>1. PICK a \in air, m \in Alive :
         /\ packets' = [packets EXCEPT ![a.packet] = externalId[m]]
         /\ pending' = Append(pending, Reported(a.packet, packets'[a.packet], m))
  BY DEF ReceivePacket
<1>2. UNCHANGED <<mode, todo, nodes, vecSize, gateSize, wired, externalId, air>>
  BY DEF ReceivePacket
<1>3. a.packet \in DOMAIN packets /\ a.packet \in Nat
  BY DEF IInv, AirSent, TypeOK, Transmission
<1>4. m \in DOMAIN externalId /\ externalId[m] \in Ids /\ m \in Module
  BY DEF Alive, IInv, GatesFollowNodes, TypeOK, Node
<1>5. /\ packets' \in Seq(Ids)
      /\ DOMAIN packets' = DOMAIN packets
      /\ packets'[a.packet] = externalId[m]
  BY <1>1, <1>3, <1>4 DEF IInv, TypeOK
<1> DEFINE e == Reported(a.packet, externalId[m], m)
<1>6. e \in Pending
  BY <1>3, <1>4 DEF Reported, Pending, Manager, Module
<1>7. e.to = Manager /\ e.id = externalId[m] /\ e.from = m /\ e.packet = a.packet
  BY DEF Reported
<1>8. pending' = Append(pending, e)
  BY <1>1, <1>5
<1> HIDE DEF e
<1>9. /\ pending' \in Seq(Pending)
      /\ DOMAIN pending' = DOMAIN pending \cup {Len(pending) + 1}
      /\ \A i \in DOMAIN pending : pending'[i] = pending[i]
      /\ pending'[Len(pending) + 1] = e
  BY <1>6, <1>8, AppendElements DEF IInv, TypeOK
<1>10. TypeOK'
  BY <1>2, <1>5, <1>9 DEF IInv, TypeOK, Mapped
<1>11. NoMisdelivery'
  BY <1>2, <1>7, <1>9 DEF IInv, NoMisdelivery, Alive, Mapped
<1>12. ReportsNameReceiver' /\ PacketsExist'
  BY <1>2, <1>3, <1>4, <1>5, <1>7, <1>9
  DEF IInv, ReportsNameReceiver, PacketsExist
<1> QED
  BY <1>2, <1>5, <1>10, <1>11, <1>12
  DEF IInv, GatesFollowNodes, VectorsHoldNodes, AirSent, Mapped

-----------------------------------------------------------------------------
(* Every step keeps the invariant. *)
LEMMA NextIInv == IInv /\ [Next]_vars => IInv'
<1> SUFFICES ASSUME IInv, [Next]_vars PROVE IInv'
  OBVIOUS
<1>1. ASSUME AddNode \/ AddRsuNode PROVE IInv'
  <2>1. todo # <<>> /\ \E kind \in Kinds : Create(kind, Head(todo).id)
    BY <1>1 DEF AddNode, AddRsuNode, Current, Kinds
  <2>2. Head(todo) \in Step
    BY <2>1, TailElements DEF IInv, TypeOK
  <2>3. Head(todo).id \in Ids
    BY <2>2 DEF Step
  <2> QED
    BY <2>1, <2>3, CreateIInv
<1>2. ASSUME SendV2xMessage \/ ConfigureRadio PROVE IInv'
  <2>1. \E id \in Mapped, packet \in {NoPacket, Len(packets) + 1} : Send(id, packet)
    BY <1>2 DEF SendV2xMessage, ConfigureRadio
  <2> QED
    BY <2>1, SendIInv
<1>3. CASE UNCHANGED vars
  BY <1>3
  DEF vars, IInv, TypeOK, GatesFollowNodes, NoMisdelivery, ReportsNameReceiver,
      VectorsHoldNodes, AirSent, PacketsExist, Alive, Mapped
<1> QED
  BY <1>1, <1>2, <1>3, CommandIInv, MoveIInv, RemoveIInv, FinishIInv, FedInIInv,
     OtherArrivalsIInv, ReceiveIInv
  DEF Next, HandleMessage

(* The manager's tables have the values their declarations allow.          *)
THEOREM TypeCorrect == Spec => []TypeOK
<1>1. IInv => TypeOK
  BY DEF IInv
<1> QED
  BY InitIInv, NextIInv, <1>1, PTL DEF Spec

(* addNode, addRsuNode and removeNode, in any order and for any ids, keep  *)
(* the gates of the manager and the modules of the nodes in step.          *)
THEOREM Gates == Spec => []GatesFollowNodes
<1>1. IInv => GatesFollowNodes
  BY DEF IInv
<1> QED
  BY InitIInv, NextIInv, <1>1, PTL DEF Spec

(* No message of sendV2xMessage or configureRadio reaches another node     *)
(* than the one it names, whatever is removed and added meanwhile.         *)
THEOREM Delivery == Spec => []NoMisdelivery
<1>1. IInv => NoMisdelivery
  BY DEF IInv
<1> QED
  BY InitIInv, NextIInv, <1>1, PTL DEF Spec

(* receivePacket reports every reception under the receiver's id.          *)
THEOREM Reporting == Spec => []ReportsNameReceiver
<1>1. IInv => ReportsNameReceiver
  BY DEF IInv
<1> QED
  BY InitIInv, NextIInv, <1>1, PTL DEF Spec

(* addNode, addRsuNode, removeNode and send() raise no error for commands  *)
(* that name nodes as MOSAIC does.                                         *)
THEOREM NoOtherErrors == Spec => ErrorsOnlyOnMisuse
<1> DEFINE Misuse ==
      LET step == Head(todo) IN
      todo # <<>> /\
      (\/ step.operation \in {"ADD_NODES", "ADD_RSU_NODES"}
             /\ (step.id \in Mapped \/ step.id > Len(externalId))
       \/ step.operation = "REMOVE_NODES" /\ step.id \notin Mapped)
<1>1. ASSUME IInv, [Next]_vars PROVE [mode' = "error" => Misuse]_vars
  <2> SUFFICES ASSUME Next, mode' = "error" PROVE Misuse
    BY <1>1
  <2>1. ASSUME NEW kind \in Kinds, todo # <<>>, Create(kind, Head(todo).id), mode = "up"
        PROVE  Head(todo).id \in Mapped \/ Head(todo).id > Len(externalId)
    <3>a. Head(todo) \in Step
      BY <1>1, <2>1, TailElements DEF IInv, TypeOK
    <3>1. Head(todo).id \in Ids /\ Head(todo).id \in Nat /\ gateSize \in Nat
          /\ gateSize = Len(externalId)
      BY <1>1, <3>a DEF IInv, TypeOK, Step, Ids, VectorsHoldNodes
    <3>2. GrownVector(kind, Head(todo).id) > Head(todo).id
      BY <1>1, <3>1 DEF GrownVector, IInv, TypeOK
    <3>3. SUFFICES ASSUME Head(todo).id \notin Mapped,
                          ~(Head(todo).id > Len(externalId))
                   PROVE  FALSE
      OBVIOUS
    <3>4. Head(todo).id < gateSize + 1 /\ Head(todo).id \notin DOMAIN wired
      BY <1>1, <3>1, <3>3 DEF IInv, GatesFollowNodes
    <3>5. GrownVector(kind, Head(todo).id) \in Nat
      BY <1>1, <3>1 DEF GrownVector, IInv, TypeOK
    <3>6. mode' = mode
      BY <2>1, <3>1, <3>2, <3>3, <3>4, <3>5 DEF Create, GateIndex
    <3> QED
      BY <2>1, <3>6
  <2>2. CASE AddNode \/ AddRsuNode
    BY <2>1, <2>2 DEF AddNode, AddRsuNode, Current, Kinds
  <2>3. CASE RemoveNode
    BY <2>3 DEF RemoveNode, Current
  <2>4. CASE SendV2xMessage \/ ConfigureRadio
    BY <1>1, <2>4
    DEF SendV2xMessage, ConfigureRadio, Send, Idle, IInv, GatesFollowNodes
  <2>5. CASE HandleMobilityCmd \/ MoveNode \/ Finish
    BY <2>5 DEF HandleMobilityCmd, MoveNode, Finish, Current, Idle
  <2>6. CASE ReceiveV2xMessage \/ DropStale \/ HandleFedIn \/ ReceivePacket
    BY <2>6 DEF ReceiveV2xMessage, DropStale, HandleFedIn, ReceivePacket,
                Arrive, Idle
  <2> QED
    BY <2>2, <2>3, <2>4, <2>5, <2>6 DEF Next, HandleMessage
<1> QED
  BY InitIInv, NextIInv, <1>1, PTL DEF Spec, ErrorsOnlyOnMisuse
=============================================================================
