--------------------------- MODULE StartupProofs ---------------------------
(***************************************************************************)
(* Theorems about Startup, for any number of federates that start on one   *)
(* host, and any port they all want.  The argument: a port of a channel B  *)
(* is the kernel's choice and has one owner, so that whoever connects to   *)
(* it was told the port by that owner, over the channel A that the owner   *)
(* shares with nobody else.  It needs mosaiccmd-port to be 0: federates    *)
(* that wish for the same command port do mix up their ambassadors.        *)
(***************************************************************************)
EXTENDS Startup, TLAPS

PortType == Ports \cup {NoPort, Port, CmdPort}

(* Places in connectToAmbassador, in the order of the code. *)
BeforeA == {"bindA", "listenA", "announce", "acceptA"}
BeforeB == BeforeA \cup {"bindB"}

(* A federate that has not come to a socket has not used it. *)
InOrder ==
    \A f \in Pairs :
       /\ pc[f] = "bindA" => bound[<<f, "A">>] = NoPort
       /\ pc[f] \in BeforeA => peer[<<f, "A">>] = Nobody
       /\ pc[f] \in BeforeB => /\ bound[<<f, "B">>] = NoPort
                               /\ <<f, "B">> \notin listening
       /\ pc[f] \in BeforeB \cup {"listenB", "tell", "acceptB"} =>
             peer[<<f, "B">>] = Nobody

(* A listening socket has a port, which no other listens on; the port of a *)
(* channel B is the kernel's choice and belongs to no other socket at all. *)
PortsOwned ==
    /\ \A f \in Pairs : bound[<<f, "B">>] \in Ports \cup {NoPort}
    /\ \A s \in listening : bound[s] # NoPort
    /\ \A s, t \in listening : bound[s] = bound[t] => s = t
    /\ \A f \in Pairs, s \in Sockets :
          bound[<<f, "B">>] # NoPort /\ bound[s] = bound[<<f, "B">>] => s = <<f, "B">>

(* An ambassador is told the command port of the federate it is connected  *)
(* to, or none.                                                            *)
ToldByPeer ==
    \A a \in Pairs : \A i \in DOMAIN told[a] :
       \/ told[a][i] = NoPort
       \/ \E f \in Pairs : peer[<<f, "A">>] = a /\ told[a][i] = bound[<<f, "B">>]

(* A port that is announced is that of a channel A. *)
AnnouncedOwn ==
    \A a \in Pairs : \A i \in DOMAIN announced[a] :
       announced[a][i] = bound[<<a, "A">>] /\ pc[a] # "listenA" /\ pc[a] # "bindA"

(* Who waits at a channel B is connected to the federate's channel A. *)
WaitingTogether ==
    \A f \in Pairs : \A i \in DOMAIN backlog[<<f, "B">>] :
       peer[<<f, "A">>] = backlog[<<f, "B">>][i]

(* SUCCESS has come from a federate that took the times. *)
SuccessTaken ==
    \A a \in Pairs :
       /\ reply[a] # <<>> /\ reply[a][1] = "SUCCESS" =>
             \E f \in Pairs :
                pc[f] = "run" /\ startTime[f] = a /\ peer[<<f, "A">>] = a
       /\ ambassador[a] = "up" => reply[a] # <<>> /\ reply[a][1] = "SUCCESS"

(* The sockets, the ports told and the times taken fit together; this is   *)
(* preserved by every step when the kernel chooses the command ports.      *)
StartupInv ==
    /\ TypeOK
    /\ InOrder
    /\ PortsOwned
    /\ ToldByPeer
    /\ AnnouncedOwn
    /\ WaitingTogether
    /\ ChannelsTogether
    /\ SuccessTaken

-----------------------------------------------------------------------------
(* Type correctness *)

(* What is written to somebody is at the end of what is on its way. *)
LEMMA WrittenSpec ==
    ASSUME NEW S, NEW queues \in [Pairs -> Seq(S)], NEW a \in Pairs \cup {Nobody},
           NEW m \in S
    PROVE  /\ Written(queues, a, m) \in [Pairs -> Seq(S)]
           /\ Alive(a) => /\ a \in Pairs
                          /\ Written(queues, a, m)[a] = Append(queues[a], m)
           /\ \A b \in Pairs : ~Alive(a) \/ b # a =>
                 Written(queues, a, m)[b] = queues[b]
BY DEF Written, Alive

(* A step of a federate goes to a place of the program. *)
Places == {"bindA", "listenA", "announce", "acceptA", "bindB", "listenB", "tell",
           "acceptB", "readCommand", "readInit", "run", "killed"}

(* The initial state is well typed. *)
LEMMA InitTypeOK == Init => TypeOK
BY DEF Init, TypeOK, Sockets, NoPort

(* Every socket call returns a port of its type. *)
LEMMA FederateTypeOK ==
    ASSUME TypeOK, NEW f \in Pairs, Federate(f)
    PROVE  TypeOK'
<1> USE DEF TypeOK, Sockets, ambVars
<1>1. ASSUME NEW place \in Places, Goto(f, place)
      PROVE  pc' \in [Pairs -> Places]
  BY <1>1 DEF Goto, Places
<1>2. ASSUME NEW place \in Places, NEW c \in {"A", "B"}, MayWrite(f, c, place)
      PROVE  pc' \in [Pairs -> Places]
  BY <1>1, <1>2 DEF MayWrite, Places
<1> HIDE DEF Sockets
<1>12. <<f, "A">> \in Sockets /\ <<f, "B">> \in Sockets
  BY DEF Sockets
<1>13. \A c \in {"A", "B"} : peer[<<f, c>>] \in Pairs \cup {Nobody}
  BY <1>12
<1> USE DEF Sockets
<1>3. ASSUME NEW c \in {"A", "B"}, Bind(f, c)
      PROVE  TypeOK'
  <2>1. bound' \in [Sockets -> PortType]
    BY <1>3, ZenonT(60) DEF Bind, WantedPort, FreePorts, PortType
  <2> QED
    BY <1>1, <1>3, <2>1 DEF Bind, PortType, Places
<1>4. ASSUME NEW c \in {"A", "B"}, InvalidHost(f, c)
      PROVE  TypeOK'
  BY <1>1, <1>4 DEF InvalidHost, Places
<1>5. ASSUME NEW c \in {"A", "B"}, Listen(f, c)
      PROVE  TypeOK'
  <2>1. bound' \in [Sockets -> PortType] /\ listening' \subseteq Sockets
    BY <1>5, ZenonT(60) DEF Listen, FreePorts, PortType
  <2> QED
    BY <1>1, <1>5, <2>1 DEF Listen, PortType, Places
<1>6. ASSUME NEW c \in {"A", "B"}, Connect(f, c)
      PROVE  TypeOK'
  <2>1. <<f, c>> \in Sockets
    OBVIOUS
  <2>2. \A q \in Seq(Pairs) : q # <<>> => Head(q) \in Pairs /\ Tail(q) \in Seq(Pairs)
    OBVIOUS
  <2> HIDE DEF Sockets
  <2>3. backlog' \in [Sockets -> Seq(Pairs)]
        /\ peer' \in [Sockets -> Pairs \cup {Nobody}]
    <3>1. backlog \in [Sockets -> Seq(Pairs)] /\ backlog[<<f, c>>] \in Seq(Pairs)
             /\ peer \in [Sockets -> Pairs \cup {Nobody}]
      BY <2>1
    <3>2. \/ UNCHANGED <<peer, backlog>>
          \/ /\ backlog[<<f, c>>] # <<>>
             /\ peer' = [peer EXCEPT ![<<f, c>>] = Head(backlog[<<f, c>>])]
             /\ backlog' = [backlog EXCEPT ![<<f, c>>] = Tail(backlog[<<f, c>>])]
      BY <1>6 DEF Connect
    <3> HIDE DEF TypeOK
    <3> DEFINE h == Head(backlog[<<f, c>>])
               t == Tail(backlog[<<f, c>>])
    <3>3. backlog[<<f, c>>] # <<>> => h \in Pairs /\ t \in Seq(Pairs)
      BY <2>2, <3>1
    <3> HIDE DEF h, t
    <3> QED
      BY <3>1, <3>2, <3>3 DEF h, t
  <2> QED
    BY <1>1, <1>6, <2>3 DEF Connect, Places, Sockets
<1>7. CASE Announce(f)
  <2>1. announced' \in [Pairs -> Seq(PortType)]
    BY <1>7 DEF Announce, PortType
  <2> QED
    BY <1>1, <1>7, <2>1 DEF Announce, PortType, Places
<1>8. CASE Tell(f)
  <2>1. told' \in [Pairs -> Seq(PortType)]
    <3>1. told \in [Pairs -> Seq(PortType)] /\ ToldPort(f) \in PortType
      BY <1>12 DEF ToldPort, PortType
    <3>2. told' = Written(told, peer[<<f, "A">>], ToldPort(f))
      BY <1>8 DEF Tell
    <3> QED
      BY <1>13, <3>1, <3>2, WrittenSpec
  <2> QED
    BY <1>2, <1>8, <2>1 DEF Tell, PortType, Places
<1>9. CASE ReadInitCommand(f)
  BY <1>1, <1>9 DEF ReadInitCommand, Places
<1>10. CASE Refuse(f)
  <2>1. reply' \in [Pairs -> Seq({"SUCCESS", "END"})]
    <3>1. reply' = Written(reply, CommandPeer(f), "END")
      BY <1>10 DEF Refuse
    <3>2. reply \in [Pairs -> Seq({"SUCCESS", "END"})] /\ "END" \in {"SUCCESS", "END"}
      OBVIOUS
    <3> QED
      BY <1>13, <3>1, <3>2, WrittenSpec DEF CommandPeer
  <2> QED
    BY <1>2, <1>10, <2>1 DEF Refuse, Places
<1>11. CASE ReadInit(f)
  <2>1. reply' \in [Pairs -> Seq({"SUCCESS", "END"})]
    <3>1. reply' = Written(reply, CommandPeer(f), "SUCCESS")
      BY <1>11 DEF ReadInit
    <3>2. reply \in [Pairs -> Seq({"SUCCESS", "END"})] /\ "SUCCESS" \in {"SUCCESS", "END"}
      OBVIOUS
    <3> QED
      BY <1>13, <3>1, <3>2, WrittenSpec DEF CommandPeer
  <2>3. startTime' \in [Pairs -> Pairs \cup {Unset, Zero}]
    BY <1>11, <1>13
    DEF ReadInit, CommandPeer, Results, CutResults, WholeResult, Result
  <2> QED
    BY <1>2, <1>11, <2>1, <2>3 DEF ReadInit, Places
<1> QED
  BY <1>3, <1>4, <1>5, <1>6, <1>7, <1>8, <1>9, <1>10, <1>11 DEF Federate

(* The ambassador writes no more than two messages. *)
LEMMA AmbassadorTypeOK ==
    ASSUME TypeOK, NEW a \in Pairs, Ambassador(a) \/ Die(a)
    PROVE  TypeOK'
<1> USE DEF TypeOK, Sockets, fedVars, ambVars, Continue
<1>1. ASSUME NEW port, NEW place \in {"connected", "init"},
             ConnectTo(a, port, place)
      PROVE  TypeOK'
  <2>1. backlog' \in [Sockets -> Seq(Pairs)]
    BY <1>1 DEF ConnectTo
  <2> QED
    BY <1>1, <2>1 DEF ConnectTo
<1>2. CASE ConnectOut(a) \/ ConnectCommand(a)
  BY <1>1, <1>2 DEF ConnectOut, ConnectCommand
<1>3. CASE SendInit(a)
  <2>1. sent' \in [Pairs -> 0 .. 2]
    <3>1. sent \in [Pairs -> 0 .. 2] /\ sent[a] < 2 /\ sent[a] \in 0 .. 2
             /\ sent' = [sent EXCEPT ![a] = sent[a] + 1]
      BY <1>3 DEF SendInit
    <3> HIDE DEF TypeOK
    <3>2. sent[a] + 1 \in 0 .. 2
      BY <3>1
    <3> QED
      BY <3>1, <3>2
  <2> QED
    BY <1>3, <2>1 DEF SendInit
<1>4. CASE ReadReply(a) \/ Die(a)
  BY <1>4 DEF ReadReply, Die
<1> QED
  BY <1>2, <1>3, <1>4 DEF Ambassador

(* Every step keeps the types. *)
LEMMA NextTypeOK == TypeOK /\ [Next]_vars => TypeOK'
<1> SUFFICES ASSUME TypeOK, [Next]_vars PROVE TypeOK'
  OBVIOUS
<1>1. CASE UNCHANGED vars
  BY <1>1 DEF vars, fedVars, ambVars, TypeOK
<1> QED
  BY <1>1, FederateTypeOK, AmbassadorTypeOK DEF Next

-----------------------------------------------------------------------------
(* The federate's steps keep the invariant *)

(* A step moves its own federate, and only where it goes on to. *)
LEMMA Moves ==
    ASSUME TypeOK, NEW f \in Pairs, NEW c \in {"A", "B"}, NEW place \in Places,
           Goto(f, place) \/ MayWrite(f, c, place)
    PROVE  /\ pc'[f] \in {place, "killed"}
           /\ Goto(f, place) \/ Alive(peer[<<f, c>>]) => pc'[f] = place
           /\ \A g \in Pairs : g # f => pc'[g] = pc[g]
BY DEF TypeOK, Goto, MayWrite

(* Sockets are told apart. *)
LEMMA SocketPairs ==
    /\ \A f \in Pairs : <<f, "A">> \in Sockets /\ <<f, "B">> \in Sockets
    /\ \A f, g \in Pairs : <<f, "A">> # <<g, "B">>
    /\ \A f, g \in Pairs : f # g => <<f, "A">> # <<g, "A">> /\ <<f, "B">> # <<g, "B">>
    /\ \A s \in Sockets : \E g \in Pairs : s = <<g, "A">> \/ s = <<g, "B">>
BY DEF Sockets

(* bind() gives a port that is free, or, on channel A, the one configured. *)
LEMMA BindStartupInv ==
    ASSUME CmdPort = NoPort, StartupInv, TypeOK', NEW f \in Pairs,
           NEW c \in {"A", "B"}, Bind(f, c)
    PROVE  StartupInv'
<1> USE DEF StartupInv
<1> DEFINE next == IF c = "A" THEN "listenA" ELSE "listenB"
           sock == <<f, c>>
<1>1. /\ pc[f] = (IF c = "A" THEN "bindA" ELSE "bindB")
      /\ pc'[f] = next /\ \A g \in Pairs : g # f => pc'[g] = pc[g]
  BY Moves DEF Bind, Places
<1>2. sock \in Sockets /\ sock \notin listening /\ bound[sock] = NoPort
  <2>1. CASE c = "A"
    <3>1. sock = <<f, "A">> /\ pc[f] = "bindA"
      BY <1>1, <2>1
    <3> HIDE DEF sock
    <3> QED
      BY <3>1, SocketPairs DEF InOrder, PortsOwned
  <2>2. CASE c = "B"
    <3>1. sock = <<f, "B">> /\ pc[f] \in BeforeB
      BY <1>1, <2>2 DEF BeforeB
    <3> HIDE DEF sock
    <3> QED
      BY <3>1, SocketPairs DEF InOrder
  <2> QED
    BY <2>1, <2>2
<1>3. PICK p : /\ bound' = [bound EXCEPT ![sock] = p]
               /\ \/ p \in FreePorts
                  \/ c = "A" /\ p \in {NoPort, Port}
  <2>1. WantedPort("B") = NoPort
    BY DEF WantedPort
  <2>2. CASE WantedPort(c) = NoPort
    BY <2>2 DEF Bind
  <2>3. CASE WantedPort(c) # NoPort
    <3>1. c = "A" /\ WantedPort(c) = Port
      BY <2>1, <2>3 DEF WantedPort
    <3> QED
      BY <2>3, <3>1 DEF Bind
  <2> QED
    BY <2>2, <2>3
<1>4. bound'[sock] = p /\ \A s \in Sockets : s # sock => bound'[s] = bound[s]
  BY <1>2, <1>3 DEF TypeOK
<1>5. UNCHANGED <<listening, backlog, peer, startTime, ambVars>>
  BY DEF Bind
<1> HIDE DEF sock
<1>6. /\ c = "A" => sock = <<f, "A">>
      /\ c = "B" => sock = <<f, "B">>
  BY DEF sock
<1>7. InOrder'
  <2> SUFFICES ASSUME NEW g \in Pairs
      PROVE /\ pc'[g] = "bindA" => bound'[<<g, "A">>] = NoPort
            /\ pc'[g] \in BeforeA => peer[<<g, "A">>] = Nobody
            /\ pc'[g] \in BeforeB => /\ bound'[<<g, "B">>] = NoPort
                                    /\ <<g, "B">> \notin listening
            /\ pc'[g] \in BeforeB \cup {"listenB", "tell", "acceptB"} =>
                  peer[<<g, "B">>] = Nobody
    BY <1>5 DEF InOrder
  <2>1. CASE g # f
    <3>1. <<g, "A">> # sock /\ <<g, "B">> # sock
      BY <1>6, <2>1, SocketPairs
    <3> QED
      BY <1>1, <1>4, <2>1, <3>1, SocketPairs DEF InOrder
  <2>2. CASE g = f /\ c = "A"
    <3>1. pc[f] = "bindA" /\ pc'[f] = "listenA" /\ <<f, "B">> # sock
      BY <1>1, <1>6, <2>2, SocketPairs
    <3> QED
      BY <1>4, <2>2, <3>1, SocketPairs DEF InOrder, BeforeA, BeforeB
  <2>3. CASE g = f /\ c = "B"
    <3>1. pc[f] = "bindB" /\ pc'[f] = "listenB"
      BY <1>1, <2>3
    <3> QED
      BY <2>3, <3>1 DEF InOrder, BeforeA, BeforeB
  <2> QED
    BY <2>1, <2>2, <2>3
<1>8. PortsOwned'
  <2>1. p \in FreePorts => p \in Ports /\ \A s \in Sockets : bound[s] # p
    BY DEF FreePorts
  <2>2. Port \notin Ports /\ NoPort \notin Ports
    BY StartupAssumption DEF NoPort
  <2>3. \A g \in Pairs : bound'[<<g, "B">>] \in Ports \cup {NoPort}
    BY <1>3, <1>4, <1>6, <2>1, SocketPairs DEF PortsOwned
  <2>4. \A s \in listening : s # sock /\ s \in Sockets
    BY <1>2 DEF TypeOK
  <2>5. ASSUME NEW g \in Pairs, NEW s \in Sockets, bound'[<<g, "B">>] # NoPort,
               bound'[s] = bound'[<<g, "B">>]
        PROVE  s = <<g, "B">>
    <3>1. CASE <<g, "B">> = sock
      BY <1>3, <1>4, <1>6, <2>1, <2>5, <3>1, SocketPairs
    <3>2. CASE <<g, "B">> # sock /\ s = sock
      <4>1. bound[<<g, "B">>] = p /\ p # NoPort
        BY <1>4, <2>5, <3>2, SocketPairs
      <4>2. p \in Ports
        BY <4>1 DEF PortsOwned
      <4> QED
        BY <1>3, <2>1, <2>2, <4>1, <4>2, SocketPairs
    <3>3. CASE <<g, "B">> # sock /\ s # sock
      BY <1>4, <2>5, <3>3, SocketPairs DEF PortsOwned
    <3> QED
      BY <3>1, <3>2, <3>3
  <2> QED
    BY <1>4, <1>5, <2>3, <2>4, <2>5 DEF PortsOwned
<1>9. ToldByPeer'
  <2> SUFFICES ASSUME NEW a \in Pairs, NEW i \in DOMAIN told[a]
      PROVE \/ told[a][i] = NoPort
            \/ \E g \in Pairs :
                  peer[<<g, "A">>] = a /\ told[a][i] = bound'[<<g, "B">>]
    BY <1>5 DEF ToldByPeer, ambVars
  <2>1. CASE \E g \in Pairs :
                peer[<<g, "A">>] = a /\ told[a][i] = bound[<<g, "B">>]
    <3>1. PICK g \in Pairs :
             peer[<<g, "A">>] = a /\ told[a][i] = bound[<<g, "B">>]
      BY <2>1
    <3>2. bound[<<g, "B">>] = NoPort \/ bound'[<<g, "B">>] = bound[<<g, "B">>]
      BY <1>2, <1>4, SocketPairs
    <3> QED
      BY <3>1, <3>2
  <2> QED
    BY <2>1 DEF ToldByPeer
<1>10. AnnouncedOwn'
  <2> SUFFICES ASSUME NEW a \in Pairs, NEW i \in DOMAIN announced[a]
      PROVE announced[a][i] = bound'[<<a, "A">>] /\ pc'[a] # "listenA"
                /\ pc'[a] # "bindA"
    BY <1>5 DEF AnnouncedOwn, ambVars
  <2>1. announced[a][i] = bound[<<a, "A">>] /\ pc[a] # "listenA"
           /\ pc[a] # "bindA"
    BY DEF AnnouncedOwn
  <2>2. CASE a # f
    <3>1. <<a, "A">> # sock
      BY <1>6, <2>2, SocketPairs
    <3> QED
      BY <1>1, <1>4, <2>1, <2>2, <3>1, SocketPairs
  <2>3. CASE a = f
    <3>1. c = "B" /\ pc'[f] = "listenB"
      BY <1>1, <2>1, <2>3
    <3>2. <<a, "A">> # sock
      BY <1>6, <3>1, SocketPairs
    <3> QED
      BY <1>4, <2>1, <2>3, <3>1, <3>2, SocketPairs
  <2> QED
    BY <2>2, <2>3
<1>11. WaitingTogether' /\ ChannelsTogether'
  BY <1>5 DEF WaitingTogether, ChannelsTogether
<1>12. SuccessTaken'
  BY <1>1, <1>5 DEF SuccessTaken, ambVars
<1> QED
  BY <1>7, <1>8, <1>9, <1>10, <1>11, <1>12

(* A socket that has no port keeps off every other when the kernel gives   *)
(* it one, and one that has a port listens if nobody else does.            *)
LEMMA ListenIInv ==
    ASSUME StartupInv, TypeOK', NEW f \in Pairs, NEW c \in {"A", "B"}, Listen(f, c)
    PROVE  StartupInv'
<1> USE DEF StartupInv
<1> DEFINE next == IF c = "A" THEN "announce" ELSE "tell"
           sock == <<f, c>>
<1>1. /\ pc[f] = (IF c = "A" THEN "listenA" ELSE "listenB")
      /\ pc'[f] = next /\ \A g \in Pairs : g # f => pc'[g] = pc[g]
  BY Moves DEF Listen, Places
<1>2. PICK p : /\ bound' = [bound EXCEPT ![sock] = p]
               /\ \/ bound[sock] = NoPort /\ p \in FreePorts
                     /\ listening' = listening \cup {sock}
                  \/ bound[sock] = p /\ listening' = listening
                  \/ bound[sock] = p /\ p # NoPort /\ Listener(p) = {}
                     /\ listening' = listening \cup {sock}
  <2>1. CASE bound[sock] = NoPort
    BY <2>1 DEF Listen
  <2>2. CASE bound[sock] # NoPort
    <3>1. bound' = [bound EXCEPT ![sock] = bound[sock]]
      BY <2>2 DEF Listen, TypeOK
    <3> QED
      BY <2>2, <3>1 DEF Listen
  <2> QED
    BY <2>1, <2>2
<1>3. sock \in Sockets
  BY SocketPairs
<1>4. bound'[sock] = p /\ \A s \in Sockets : s # sock => bound'[s] = bound[s]
  BY <1>2, <1>3 DEF TypeOK
<1>5. UNCHANGED <<backlog, peer, startTime, ambVars>>
  BY DEF Listen
<1>6. /\ c = "A" => sock = <<f, "A">>
      /\ c = "B" => sock = <<f, "B">>
  BY DEF sock
<1> HIDE DEF sock
<1>7. p \in FreePorts => p \in Ports /\ p # NoPort /\ \A s \in Sockets : bound[s] # p
  BY StartupAssumption DEF FreePorts, NoPort
<1>8. InOrder'
  <2> SUFFICES ASSUME NEW g \in Pairs
      PROVE /\ pc'[g] = "bindA" => bound'[<<g, "A">>] = NoPort
            /\ pc'[g] \in BeforeA => peer[<<g, "A">>] = Nobody
            /\ pc'[g] \in BeforeB => /\ bound'[<<g, "B">>] = NoPort
                                    /\ <<g, "B">> \notin listening'
            /\ pc'[g] \in BeforeB \cup {"listenB", "tell", "acceptB"} =>
                  peer[<<g, "B">>] = Nobody
    BY <1>5 DEF InOrder
  <2>1. CASE g # f
    <3>1. <<g, "A">> # sock /\ <<g, "B">> # sock
      BY <1>6, <2>1, SocketPairs
    <3> QED
      BY <1>1, <1>2, <1>4, <2>1, <3>1, SocketPairs DEF InOrder
  <2>2. CASE g = f /\ c = "A"
    <3>1. pc[f] = "listenA" /\ pc'[f] = "announce" /\ <<f, "B">> # sock
      BY <1>1, <1>6, <2>2, SocketPairs
    <3> QED
      BY <1>2, <1>4, <2>2, <3>1, SocketPairs DEF InOrder, BeforeA, BeforeB
  <2>3. CASE g = f /\ c = "B"
    <3>1. pc[f] = "listenB" /\ pc'[f] = "tell"
      BY <1>1, <2>3
    <3> QED
      BY <2>3, <3>1 DEF InOrder, BeforeA, BeforeB
  <2> QED
    BY <2>1, <2>2, <2>3
<1>9. PortsOwned'
  <2>1. \A g \in Pairs : bound'[<<g, "B">>] \in Ports \cup {NoPort}
    BY <1>2, <1>4, <1>7, SocketPairs DEF PortsOwned
  <2>2. \A s \in listening : s \in Sockets
    BY DEF TypeOK
  <2>3. \A s \in listening' : bound'[s] # NoPort
    BY <1>2, <1>4, <1>7, <2>2 DEF PortsOwned
  <2>4. \A s, t \in listening' : bound'[s] = bound'[t] => s = t
    <3>1. CASE p \in FreePorts /\ listening' = listening \cup {sock}
      BY <1>4, <1>7, <2>2, <3>1 DEF PortsOwned
    <3>2. CASE bound[sock] = p /\ listening' = listening
      BY <1>4, <2>2, <3>2 DEF PortsOwned
    <3>3. CASE bound[sock] = p /\ Listener(p) = {}
                  /\ listening' = listening \cup {sock}
      BY <1>4, <2>2, <3>3 DEF PortsOwned, Listener
    <3> QED
      BY <1>2, <3>1, <3>2, <3>3
  <2>5. ASSUME NEW g \in Pairs, NEW s \in Sockets, bound'[<<g, "B">>] # NoPort,
               bound'[s] = bound'[<<g, "B">>]
        PROVE  s = <<g, "B">>
    <3>1. CASE p \in FreePorts
      <4>1. CASE s = sock \/ <<g, "B">> = sock
        BY <1>4, <1>7, <2>5, <3>1, <4>1, SocketPairs
      <4>2. CASE s # sock /\ <<g, "B">> # sock
        BY <1>4, <2>5, <4>2, SocketPairs DEF PortsOwned
      <4> QED
        BY <4>1, <4>2
    <3>2. CASE bound[sock] = p
      BY <1>4, <2>5, <3>2, SocketPairs DEF PortsOwned
    <3> QED
      BY <1>2, <3>1, <3>2
  <2> QED
    BY <2>1, <2>3, <2>4, <2>5 DEF PortsOwned
<1>10. ToldByPeer'
  <2> SUFFICES ASSUME NEW a \in Pairs, NEW i \in DOMAIN told[a]
      PROVE \/ told[a][i] = NoPort
            \/ \E g \in Pairs :
                  peer[<<g, "A">>] = a /\ told[a][i] = bound'[<<g, "B">>]
    BY <1>5 DEF ToldByPeer, ambVars
  <2>1. CASE \E g \in Pairs :
                peer[<<g, "A">>] = a /\ told[a][i] = bound[<<g, "B">>]
    <3>1. PICK g \in Pairs :
             peer[<<g, "A">>] = a /\ told[a][i] = bound[<<g, "B">>]
      BY <2>1
    <3>2. bound[<<g, "B">>] = NoPort \/ bound'[<<g, "B">>] = bound[<<g, "B">>]
      BY <1>2, <1>4, SocketPairs
    <3> QED
      BY <3>1, <3>2
  <2> QED
    BY <2>1 DEF ToldByPeer
<1>11. AnnouncedOwn'
  <2> SUFFICES ASSUME NEW a \in Pairs, NEW i \in DOMAIN announced[a]
      PROVE announced[a][i] = bound'[<<a, "A">>] /\ pc'[a] # "listenA"
                /\ pc'[a] # "bindA"
    BY <1>5 DEF AnnouncedOwn, ambVars
  <2>1. announced[a][i] = bound[<<a, "A">>] /\ pc[a] # "listenA"
           /\ pc[a] # "bindA"
    BY DEF AnnouncedOwn
  <2>2. CASE a # f
    <3>1. <<a, "A">> # sock
      BY <1>6, <2>2, SocketPairs
    <3> QED
      BY <1>1, <1>4, <2>1, <2>2, <3>1, SocketPairs
  <2>3. CASE a = f
    <3>1. c = "B" /\ pc'[f] = "tell"
      BY <1>1, <2>1, <2>3
    <3>2. <<a, "A">> # sock
      BY <1>6, <3>1, SocketPairs
    <3> QED
      BY <1>4, <2>1, <2>3, <3>1, <3>2, SocketPairs
  <2> QED
    BY <2>2, <2>3
<1>12. WaitingTogether' /\ ChannelsTogether'
  BY <1>5 DEF WaitingTogether, ChannelsTogether
<1>13. SuccessTaken'
  <2>1. \A g \in Pairs : pc[g] = "run" => pc'[g] = "run"
    BY <1>1
  <2> QED
    BY <1>5, <2>1, SMTT(60) DEF SuccessTaken, ambVars
<1> QED
  BY <1>8, <1>9, <1>10, <1>11, <1>12, <1>13

(* accept() takes whoever waits first. *)
LEMMA ConnectIInv ==
    ASSUME StartupInv, TypeOK', NEW f \in Pairs, NEW c \in {"A", "B"}, Connect(f, c)
    PROVE  StartupInv'
<1> USE DEF StartupInv
<1> DEFINE sock == <<f, c>>
<1>1. /\ pc[f] = (IF c = "A" THEN "acceptA" ELSE "acceptB")
      /\ pc'[f] = (IF c = "A" THEN "bindB" ELSE "readCommand")
      /\ \A g \in Pairs : g # f => pc'[g] = pc[g]
  BY Moves DEF Connect, Places
<1>2. sock \in Sockets /\ peer[sock] = Nobody
  BY <1>1, SocketPairs DEF InOrder, BeforeA, BeforeB
<1>3. /\ \A s \in Sockets : s # sock => peer'[s] = peer[s] /\ backlog'[s] = backlog[s]
      /\ \/ peer'[sock] = Nobody /\ backlog'[sock] = backlog[sock]
         \/ /\ backlog[sock] # <<>>
            /\ peer'[sock] = Head(backlog[sock])
            /\ backlog'[sock] = Tail(backlog[sock])
  BY <1>2 DEF Connect, TypeOK
<1>4. UNCHANGED <<bound, listening, startTime, ambVars>>
  BY DEF Connect
<1>5. /\ c = "A" => sock = <<f, "A">>
      /\ c = "B" => sock = <<f, "B">>
  BY DEF sock
<1> HIDE DEF sock
<1>6. InOrder'
  <2> SUFFICES ASSUME NEW g \in Pairs
      PROVE /\ pc'[g] = "bindA" => bound[<<g, "A">>] = NoPort
            /\ pc'[g] \in BeforeA => peer'[<<g, "A">>] = Nobody
            /\ pc'[g] \in BeforeB => /\ bound[<<g, "B">>] = NoPort
                                    /\ <<g, "B">> \notin listening
            /\ pc'[g] \in BeforeB \cup {"listenB", "tell", "acceptB"} =>
                  peer'[<<g, "B">>] = Nobody
    BY <1>4 DEF InOrder
  <2>1. CASE g # f
    <3>1. <<g, "A">> # sock /\ <<g, "B">> # sock
      BY <1>5, <2>1, SocketPairs
    <3> QED
      BY <1>1, <1>3, <2>1, <3>1, SocketPairs DEF InOrder
  <2>2. CASE g = f /\ c = "A"
    <3>1. pc[f] = "acceptA" /\ pc'[f] = "bindB" /\ <<f, "B">> # sock
      BY <1>1, <1>5, <2>2, SocketPairs
    <3> QED
      BY <1>3, <2>2, <3>1, SocketPairs DEF InOrder, BeforeA, BeforeB
  <2>3. CASE g = f /\ c = "B"
    <3>1. pc'[f] = "readCommand"
      BY <1>1, <2>3
    <3> QED
      BY <2>3, <3>1 DEF BeforeA, BeforeB
  <2> QED
    BY <2>1, <2>2, <2>3
<1>7. PortsOwned'
  BY <1>4 DEF PortsOwned
<1>8. ASSUME NEW a \in Pairs, NEW g \in Pairs, peer[<<g, "A">>] = a
      PROVE  peer'[<<g, "A">>] = a
  <2>1. a # Nobody
    BY StartupAssumption
  <2> QED
    BY <1>2, <1>3, <1>8, <2>1, SocketPairs
<1>9. ToldByPeer'
  BY <1>4, <1>8 DEF ToldByPeer, ambVars
<1>10. AnnouncedOwn'
  BY <1>1, <1>4 DEF AnnouncedOwn, ambVars
<1>11. \A g \in Pairs : \A i \in DOMAIN backlog[<<g, "B">>] :
          backlog[<<g, "B">>][i] \in Pairs
  <2>1. \A s \in Sockets : backlog[s] \in Seq(Pairs)
    BY DEF TypeOK
  <2>2. \A s \in Sockets : \A i \in DOMAIN backlog[s] : backlog[s][i] \in Pairs
    BY <2>1
  <2> QED
    BY <2>2, SocketPairs
<1>12. \A i \in DOMAIN backlog'[sock] :
          \E j \in DOMAIN backlog[sock] : backlog'[sock][i] = backlog[sock][j]
  <2>1. backlog[sock] \in Seq(Pairs)
    BY <1>2 DEF TypeOK
  <2>2. ASSUME NEW q \in Seq(Pairs), q # <<>>, NEW i \in DOMAIN Tail(q)
        PROVE  i + 1 \in DOMAIN q /\ Tail(q)[i] = q[i + 1]
    BY <2>2
  <2>3. CASE backlog'[sock] = backlog[sock]
    BY <2>3
  <2>4. CASE backlog[sock] # <<>> /\ backlog'[sock] = Tail(backlog[sock])
    BY <2>1, <2>2, <2>4
  <2> QED
    BY <1>3, <2>3, <2>4
<1>13. WaitingTogether'
  <2> SUFFICES ASSUME NEW g \in Pairs, NEW i \in DOMAIN backlog'[<<g, "B">>]
               PROVE  peer'[<<g, "A">>] = backlog'[<<g, "B">>][i]
    BY DEF WaitingTogether
  <2>1. PICK j \in DOMAIN backlog[<<g, "B">>] :
           backlog'[<<g, "B">>][i] = backlog[<<g, "B">>][j]
    <3>1. CASE <<g, "B">> = sock
      BY <1>12, <3>1
    <3>2. CASE <<g, "B">> # sock
      BY <1>3, <3>2, SocketPairs
    <3> QED
      BY <3>1, <3>2
  <2> QED
    BY <1>8, <1>11, <2>1 DEF WaitingTogether
<1>14. ChannelsTogether'
  <2> SUFFICES ASSUME NEW g \in Pairs, peer'[<<g, "B">>] # Nobody
               PROVE  peer'[<<g, "A">>] = peer'[<<g, "B">>]
    BY DEF ChannelsTogether
  <2>1. peer[<<g, "B">>] \in Pairs \cup {Nobody}
    BY SocketPairs DEF TypeOK
  <2>2. CASE <<g, "B">> # sock
    BY <1>3, <1>8, <2>1, <2>2, SocketPairs DEF ChannelsTogether
  <2>3. CASE <<g, "B">> = sock
    <3>1. /\ 1 \in DOMAIN backlog[<<g, "B">>]
          /\ peer'[<<g, "B">>] = backlog[<<g, "B">>][1]
      <4>1. backlog[sock] \in Seq(Pairs)
        BY <1>2 DEF TypeOK
      <4> QED
        BY <1>3, <2>3, <4>1
    <3> QED
      BY <1>8, <1>11, <3>1 DEF WaitingTogether
  <2> QED
    BY <2>2, <2>3
<1>15. SuccessTaken'
  BY <1>1, <1>4, <1>8 DEF SuccessTaken, ambVars
<1> QED
  BY <1>6, <1>7, <1>9, <1>10, <1>13, <1>14, <1>15

(* A step that leaves the sockets alone keeps what is said of them, if the *)
(* federate does not go back.                                              *)
LEMMA MovingOn ==
    ASSUME StartupInv, UNCHANGED <<bound, listening, backlog, peer>>, NEW f \in Pairs,
           \A g \in Pairs : g # f => pc'[g] = pc[g],
           pc'[f] \notin {"bindA", "listenA"},
           pc'[f] \in BeforeA => pc[f] \in BeforeA,
           pc'[f] \in BeforeB => pc[f] \in BeforeB,
           pc'[f] \in BeforeB \cup {"listenB", "tell", "acceptB"} =>
              pc[f] \in BeforeB \cup {"listenB", "tell", "acceptB"}
    PROVE  /\ InOrder' /\ PortsOwned' /\ WaitingTogether' /\ ChannelsTogether'
           /\ UNCHANGED told => ToldByPeer'
           /\ UNCHANGED announced => AnnouncedOwn'
<1> USE DEF StartupInv
<1>1. InOrder'
  <2> SUFFICES ASSUME NEW g \in Pairs
      PROVE /\ pc'[g] = "bindA" => bound[<<g, "A">>] = NoPort
            /\ pc'[g] \in BeforeA => peer[<<g, "A">>] = Nobody
            /\ pc'[g] \in BeforeB => /\ bound[<<g, "B">>] = NoPort
                                    /\ <<g, "B">> \notin listening
            /\ pc'[g] \in BeforeB \cup {"listenB", "tell", "acceptB"} =>
                  peer[<<g, "B">>] = Nobody
    BY DEF InOrder
  <2>1. CASE g = f
    BY <2>1 DEF InOrder
  <2>2. CASE g # f
    BY <2>2 DEF InOrder
  <2> QED
    BY <2>1, <2>2
<1>2. PortsOwned' /\ WaitingTogether' /\ ChannelsTogether'
  BY DEF PortsOwned, WaitingTogether, ChannelsTogether
<1>3. UNCHANGED told => ToldByPeer'
  BY DEF ToldByPeer
<1>4. ASSUME UNCHANGED announced PROVE AnnouncedOwn'
  <2> SUFFICES ASSUME NEW a \in Pairs, NEW i \in DOMAIN announced[a]
      PROVE announced[a][i] = bound[<<a, "A">>] /\ pc'[a] # "listenA"
                /\ pc'[a] # "bindA"
    BY <1>4 DEF AnnouncedOwn
  <2>1. CASE a = f
    BY <2>1 DEF AnnouncedOwn
  <2>2. CASE a # f
    BY <2>2 DEF AnnouncedOwn
  <2> QED
    BY <2>1, <2>2
<1> QED
  BY <1>1, <1>2, <1>3, <1>4

(* Going on with an invalid socket, announcing a port, reading a command.  *)
LEMMA QuietIInv ==
    ASSUME StartupInv, TypeOK', NEW f \in Pairs,
           \/ InvalidHost(f, "A") \/ InvalidHost(f, "B")
           \/ Announce(f) \/ ReadInitCommand(f)
    PROVE  StartupInv'
<1> USE DEF StartupInv
<1>1. UNCHANGED <<bound, listening, backlog, peer, startTime, ambassador, told,
                  reply>>
  BY DEF InvalidHost, Announce, ReadInitCommand, ambVars
<1>2. \/ /\ UNCHANGED announced
         /\ <<pc[f], pc'[f]>> \in {<<"bindA", "announce">>, <<"bindB", "tell">>,
                                   <<"readCommand", "readInit">>}
         /\ \A g \in Pairs : g # f => pc'[g] = pc[g]
      \/ /\ announced' = [announced EXCEPT ![f] = <<bound[<<f, "A">>]>>]
         /\ pc[f] = "announce" /\ pc'[f] = "acceptA"
         /\ \A g \in Pairs : g # f => pc'[g] = pc[g]
  <2>1. CASE InvalidHost(f, "A")
    BY <2>1, Moves DEF InvalidHost, ambVars, Places
  <2>2. CASE InvalidHost(f, "B")
    BY <2>2, Moves DEF InvalidHost, ambVars, Places
  <2>3. CASE Announce(f)
    BY <2>3, Moves DEF Announce, Places
  <2>4. CASE ReadInitCommand(f)
    BY <2>4, Moves DEF ReadInitCommand, ambVars, Places
  <2> QED
    BY <2>1, <2>2, <2>3, <2>4
<1>3. /\ InOrder' /\ PortsOwned' /\ WaitingTogether' /\ ChannelsTogether'
      /\ ToldByPeer'
      /\ UNCHANGED announced => AnnouncedOwn'
  BY <1>1, <1>2, MovingOn DEF BeforeA, BeforeB
<1>4. AnnouncedOwn'
  <2>1. CASE UNCHANGED announced
    BY <1>3, <2>1
  <2>2. CASE /\ announced' = [announced EXCEPT ![f] = <<bound[<<f, "A">>]>>]
             /\ pc[f] = "announce" /\ pc'[f] = "acceptA"
             /\ \A g \in Pairs : g # f => pc'[g] = pc[g]
    <3>1. \A i \in DOMAIN announced'[f] : announced'[f][i] = bound[<<f, "A">>]
      BY <2>2 DEF TypeOK
    <3>2. \A a \in Pairs : a # f => announced'[a] = announced[a]
      BY <2>2 DEF TypeOK
    <3> SUFFICES ASSUME NEW a \in Pairs, NEW i \in DOMAIN announced'[a]
        PROVE announced'[a][i] = bound[<<a, "A">>] /\ pc'[a] # "listenA"
                  /\ pc'[a] # "bindA"
      BY <1>1 DEF AnnouncedOwn
    <3>3. CASE a = f
      BY <2>2, <3>1, <3>3
    <3>4. CASE a # f
      BY <2>2, <3>2, <3>4 DEF AnnouncedOwn
    <3> QED
      BY <3>3, <3>4
  <2> QED
    BY <1>2, <2>1, <2>2
<1>5. SuccessTaken'
  BY <1>1, <1>2 DEF SuccessTaken
<1> QED
  BY <1>3, <1>4, <1>5

(* The port of B is told to whoever is connected to A. *)
LEMMA TellIInv ==
    ASSUME StartupInv, TypeOK', NEW f \in Pairs, Tell(f)
    PROVE  StartupInv'
<1> USE DEF StartupInv
<1>1. /\ UNCHANGED <<bound, listening, backlog, peer, startTime, ambassador,
                     announced, reply>>
      /\ pc[f] = "tell" /\ pc'[f] \in {"acceptB", "killed"}
      /\ \A g \in Pairs : g # f => pc'[g] = pc[g]
  BY Moves DEF Tell, Places
<1>2. /\ InOrder' /\ PortsOwned' /\ WaitingTogether' /\ ChannelsTogether'
      /\ AnnouncedOwn'
  BY <1>1, MovingOn DEF BeforeA, BeforeB
<1>3. ToldByPeer'
  <2> DEFINE a == peer[<<f, "A">>]
             port == bound[<<f, "B">>]
  <2>1. told \in [Pairs -> Seq(PortType)] /\ port \in PortType
           /\ a \in Pairs \cup {Nobody}
    BY SocketPairs DEF TypeOK, PortType
  <2>2. told' = Written(told, a, port)
    BY DEF Tell, ToldPort
  <2>3. /\ Alive(a) => a \in Pairs /\ told'[a] = Append(told[a], port)
        /\ \A b \in Pairs : ~Alive(a) \/ b # a => told'[b] = told[b]
    <3> HIDE DEF a, port
    <3> QED
      BY <2>1, <2>2, WrittenSpec, SMTT(60)
  <2> SUFFICES ASSUME NEW b \in Pairs, NEW i \in DOMAIN told'[b]
      PROVE \/ told'[b][i] = NoPort
            \/ \E g \in Pairs :
                  peer[<<g, "A">>] = b /\ told'[b][i] = bound[<<g, "B">>]
    BY <1>1 DEF ToldByPeer
  <2>4. CASE told'[b] = told[b]
    BY <2>4 DEF ToldByPeer
  <2>5. CASE b = a /\ a \in Pairs /\ told'[b] = Append(told[b], port)
    <3>1. told[b] \in Seq(PortType)
      BY <2>1
    <3> HIDE DEF port
    <3>2. \/ i \in DOMAIN told[b] /\ told'[b][i] = told[b][i]
          \/ told'[b][i] = port
      BY <2>1, <2>5, <3>1
    <3> QED
      BY <2>5, <3>2, ZenonT(60) DEF ToldByPeer, port
  <2> QED
    BY <2>3, <2>4, <2>5
<1>4. SuccessTaken'
  BY <1>1 DEF SuccessTaken
<1> QED
  BY <1>2, <1>3, <1>4

(* What has been answered first stays the first answer. *)
LEMMA FirstReply ==
    ASSUME TypeOK, NEW a \in Pairs \cup {Nobody}, NEW m \in {"SUCCESS", "END"},
           reply' = Written(reply, a, m)
    PROVE  \A b \in Pairs :
              /\ reply[b] # <<>> => reply'[b] # <<>> /\ reply'[b][1] = reply[b][1]
              /\ reply[b] = <<>> => \/ reply'[b] = <<>>
                                    \/ reply'[b][1] = m /\ b = a /\ Alive(a)
<1>1. reply \in [Pairs -> Seq({"SUCCESS", "END"})]
  BY DEF TypeOK
<1>2. /\ Alive(a) => a \in Pairs /\ reply'[a] = Append(reply[a], m)
      /\ \A b \in Pairs : ~Alive(a) \/ b # a => reply'[b] = reply[b]
  BY <1>1, WrittenSpec
<1>3. ASSUME NEW q \in Seq({"SUCCESS", "END"})
      PROVE  /\ Append(q, m) # <<>>
             /\ q # <<>> => Append(q, m)[1] = q[1]
             /\ q = <<>> => Append(q, m)[1] = m
  <2>1. /\ Len(Append(q, m)) = Len(q) + 1
        /\ \A i \in 1 .. Len(q) : Append(q, m)[i] = q[i]
        /\ Append(q, m)[Len(q) + 1] = m
    OBVIOUS
  <2>2. q # <<>> => 1 \in 1 .. Len(q)
    OBVIOUS
  <2>3. Len(q) \in Nat /\ (q = <<>> => Len(q) = 0)
    OBVIOUS
  <2>4. Append(q, m) # <<>>
    BY <2>1, <2>3
  <2> QED
    BY <2>1, <2>2, <2>3, <2>4
<1> SUFFICES ASSUME NEW b \in Pairs
    PROVE  /\ reply[b] # <<>> => reply'[b] # <<>> /\ reply'[b][1] = reply[b][1]
           /\ reply[b] = <<>> => \/ reply'[b] = <<>>
                                 \/ reply'[b][1] = m /\ b = a /\ Alive(a)
  OBVIOUS
<1>4. reply[b] \in Seq({"SUCCESS", "END"})
  BY <1>1
<1>5. CASE Alive(a) /\ b = a
  BY <1>2, <1>3, <1>4, <1>5
<1>6. CASE ~Alive(a) \/ b # a
  BY <1>2, <1>6
<1> QED
  BY <1>5, <1>6

(* END is no SUCCESS. *)
LEMMA RefuseIInv ==
    ASSUME StartupInv, TypeOK', NEW f \in Pairs, Refuse(f)
    PROVE  StartupInv'
<1> USE DEF StartupInv
<1>1. /\ UNCHANGED <<bound, listening, backlog, peer, startTime, ambassador,
                     announced, told>>
      /\ pc[f] = "readCommand" /\ pc'[f] \in {"run", "killed"}
      /\ \A g \in Pairs : g # f => pc'[g] = pc[g]
  BY Moves DEF Refuse, Places
<1>2. /\ InOrder' /\ PortsOwned' /\ WaitingTogether' /\ ChannelsTogether'
      /\ ToldByPeer' /\ AnnouncedOwn'
  BY <1>1, MovingOn DEF BeforeA, BeforeB
<1>3. \A b \in Pairs :
         /\ reply[b] # <<>> => reply'[b] # <<>> /\ reply'[b][1] = reply[b][1]
         /\ reply[b] = <<>> => reply'[b] = <<>> \/ reply'[b][1] = "END"
  <2>1. CommandPeer(f) \in Pairs \cup {Nobody}
    BY SocketPairs DEF TypeOK, CommandPeer
  <2> QED
    BY <2>1, FirstReply DEF Refuse
<1>4. SuccessTaken'
  BY <1>1, <1>3 DEF SuccessTaken
<1> QED
  BY <1>2, <1>4

(* SUCCESS reaches an ambassador that lives, and so has written its times. *)
LEMMA ReadInitIInv ==
    ASSUME StartupInv, TypeOK', NEW f \in Pairs, ReadInit(f)
    PROVE  StartupInv'
<1> USE DEF StartupInv
<1> DEFINE b == CommandPeer(f)
<1>1. /\ UNCHANGED <<bound, listening, backlog, peer, ambassador, announced, told>>
      /\ pc[f] = "readInit" /\ pc'[f] \in {"run", "killed"}
      /\ Alive(b) => pc'[f] = "run"
      /\ \A g \in Pairs : g # f => pc'[g] = pc[g]
  BY Moves DEF ReadInit, Places, CommandPeer
<1>2. /\ InOrder' /\ PortsOwned' /\ WaitingTogether' /\ ChannelsTogether'
      /\ ToldByPeer' /\ AnnouncedOwn'
  BY <1>1, MovingOn DEF BeforeA, BeforeB
<1>3. b \in Pairs \cup {Nobody} /\ (b # Nobody => peer[<<f, "A">>] = b)
  BY SocketPairs DEF TypeOK, CommandPeer, ChannelsTogether
<1>4. /\ \A g \in Pairs : g # f => startTime'[g] = startTime[g]
      /\ Alive(b) => startTime'[f] = b
  BY DEF ReadInit, Results, WholeResult, Result, TypeOK
<1>5. \A a \in Pairs :
         /\ reply[a] # <<>> => reply'[a] # <<>> /\ reply'[a][1] = reply[a][1]
         /\ reply[a] = <<>> => reply'[a] = <<>> \/ (a = b /\ Alive(b))
  <2> HIDE DEF b
  <2>1. reply' = Written(reply, b, "SUCCESS")
    BY DEF ReadInit, b
  <2> QED
    BY <1>3, <2>1, FirstReply, SMTT(60) DEF TypeOK
<1> HIDE DEF b
<1>6. SuccessTaken'
  <2> SUFFICES ASSUME NEW a \in Pairs
      PROVE /\ reply'[a] # <<>> /\ reply'[a][1] = "SUCCESS" =>
                 \E g \in Pairs :
                    pc'[g] = "run" /\ startTime'[g] = a /\ peer[<<g, "A">>] = a
            /\ ambassador[a] = "up" =>
                 reply'[a] # <<>> /\ reply'[a][1] = "SUCCESS"
    BY <1>1 DEF SuccessTaken
  <2>1. CASE reply[a] # <<>>
    <3>1. ASSUME NEW g \in Pairs, pc[g] = "run", startTime[g] = a
          PROVE  pc'[g] = "run" /\ startTime'[g] = a
      BY <1>1, <1>4, <3>1
    <3> QED
      BY <1>5, <2>1, <3>1 DEF SuccessTaken
  <2>2. CASE reply[a] = <<>>
    <3>1. reply'[a] # <<>> => a = b /\ Alive(b)
      BY <1>5, <2>2
    <3>2. a # Nobody
      BY StartupAssumption
    <3> QED
      BY <1>1, <1>3, <1>4, <2>2, <3>1, <3>2 DEF SuccessTaken
  <2> QED
    BY <2>1, <2>2
<1> QED
  BY <1>2, <1>6

-----------------------------------------------------------------------------
(* The steps of the ambassador keep the invariant *)

(* connect() reaches the federate that told the port. *)
LEMMA AmbassadorIInv ==
    ASSUME StartupInv, TypeOK', NEW a \in Pairs, Ambassador(a) \/ Die(a)
    PROVE  StartupInv'
<1> USE DEF StartupInv
<1>1. UNCHANGED <<pc, bound, listening, peer, startTime, announced, told, reply>>
  BY DEF Ambassador, ConnectOut, ConnectCommand, ConnectTo, SendInit, ReadReply,
     Die, fedVars
<1>2. InOrder' /\ PortsOwned' /\ ToldByPeer' /\ AnnouncedOwn' /\ ChannelsTogether'
  BY <1>1 DEF InOrder, PortsOwned, ToldByPeer, AnnouncedOwn, ChannelsTogether
<1>3. SuccessTaken'
  <2>1. \A b \in Pairs : ambassador'[b] = "up" =>
           \/ ambassador[b] = "up"
           \/ reply[b] # <<>> /\ reply[b][1] = "SUCCESS"
    BY SMTT(60) DEF Ambassador, ConnectOut, ConnectCommand, ConnectTo, SendInit, ReadReply,
       Die, Continue, TypeOK
  <2> QED
    BY <1>1, <2>1 DEF SuccessTaken
<1>4. ASSUME NEW port, NEW place, ConnectTo(a, port, place),
             \A g \in Pairs : <<g, "B">> \in Listener(port) => peer[<<g, "A">>] = a
      PROVE  WaitingTogether'
  <2> SUFFICES ASSUME NEW g \in Pairs, NEW i \in DOMAIN backlog'[<<g, "B">>]
               PROVE  peer[<<g, "A">>] = backlog'[<<g, "B">>][i]
    BY <1>1 DEF WaitingTogether
  <2> DEFINE q == backlog[<<g, "B">>]
  <2>1. q \in Seq(Pairs)
    BY SocketPairs DEF TypeOK
  <2>2. backlog'[<<g, "B">>] = IF <<g, "B">> \in Listener(port)
                              THEN Append(q, a) ELSE q
    BY <1>4, SocketPairs DEF ConnectTo
  <2>3. \A j \in DOMAIN q : peer[<<g, "A">>] = q[j]
    BY DEF WaitingTogether
  <2> HIDE DEF q
  <2>4. CASE <<g, "B">> \in Listener(port)
    <3>1. \/ i \in DOMAIN q /\ backlog'[<<g, "B">>][i] = q[i]
          \/ backlog'[<<g, "B">>][i] = a
      BY <2>1, <2>2, <2>4
    <3> QED
      BY <1>4, <2>3, <2>4, <3>1
  <2>5. CASE <<g, "B">> \notin Listener(port)
    BY <2>2, <2>3, <2>5
  <2> QED
    BY <2>4, <2>5
<1>5. CASE ConnectOut(a)
  <2> DEFINE port == announced[a][1]
  <2>1. port = bound[<<a, "A">>]
    <3>1. 1 \in DOMAIN announced[a]
      BY <1>5 DEF ConnectOut, TypeOK
    <3> QED
      BY <3>1 DEF AnnouncedOwn
  <2>2. \A g \in Pairs : <<g, "B">> \notin Listener(port)
    BY <2>1, SocketPairs DEF Listener, PortsOwned
  <2> QED
    BY <1>2, <1>3, <1>4, <1>5, <2>2 DEF ConnectOut
<1>6. CASE ConnectCommand(a)
  <2> DEFINE port == told[a][1]
  <2>1. \/ port = NoPort
        \/ \E f \in Pairs : peer[<<f, "A">>] = a /\ port = bound[<<f, "B">>]
    <3>1. 1 \in DOMAIN told[a]
      BY <1>6 DEF ConnectCommand, TypeOK
    <3> QED
      BY <3>1 DEF ToldByPeer
  <2> HIDE DEF port
  <2>2. ASSUME NEW g \in Pairs, <<g, "B">> \in Listener(port)
        PROVE  peer[<<g, "A">>] = a
    <3>1. bound[<<g, "B">>] = port /\ port # NoPort
      BY <2>2 DEF Listener, PortsOwned
    <3>2. PICK f \in Pairs : peer[<<f, "A">>] = a /\ port = bound[<<f, "B">>]
      BY <2>1, <3>1
    <3>3. <<g, "B">> = <<f, "B">>
      BY <3>1, <3>2, SocketPairs DEF PortsOwned
    <3> QED
      BY <3>2, <3>3
  <2> QED
    BY <1>2, <1>3, <1>4, <1>6, <2>2 DEF ConnectCommand, port
<1>7. CASE SendInit(a) \/ ReadReply(a) \/ Die(a)
  <2>1. UNCHANGED backlog
    BY <1>7 DEF SendInit, ReadReply, Die, fedVars
  <2> QED
    BY <1>1, <1>2, <1>3, <2>1 DEF WaitingTogether
<1> QED
  BY <1>5, <1>6, <1>7 DEF Ambassador

-----------------------------------------------------------------------------
(* Theorems *)

(* No socket is used in the beginning. *)
LEMMA InitIInv == Init => StartupInv
<1> SUFFICES ASSUME Init PROVE StartupInv
  OBVIOUS
<1>1. TypeOK
  BY InitTypeOK
<1>2. \A s \in Sockets : bound[s] = NoPort /\ backlog[s] = <<>> /\ peer[s] = Nobody
  BY DEF Init
<1>3. InOrder /\ ChannelsTogether
  BY <1>2, SocketPairs DEF Init, InOrder, ChannelsTogether
<1>4. PortsOwned
  BY <1>2, SocketPairs DEF Init, PortsOwned
<1>5. WaitingTogether
  BY <1>2, SocketPairs DEF WaitingTogether
<1>6. ToldByPeer /\ AnnouncedOwn /\ SuccessTaken
  BY DEF Init, ToldByPeer, AnnouncedOwn, SuccessTaken
<1> QED
  BY <1>1, <1>3, <1>4, <1>5, <1>6 DEF StartupInv

(* Every step keeps the invariant. *)
LEMMA NextIInv ==
    ASSUME CmdPort = NoPort
    PROVE  StartupInv /\ [Next]_vars => StartupInv'
<1> SUFFICES ASSUME StartupInv, [Next]_vars PROVE StartupInv'
  OBVIOUS
<1>1. TypeOK'
  BY NextTypeOK DEF StartupInv
<1>2. ASSUME NEW f \in Pairs, Federate(f) PROVE StartupInv'
  BY <1>1, <1>2, BindStartupInv, ListenIInv, ConnectIInv, QuietIInv, TellIInv,
     RefuseIInv, ReadInitIInv DEF Federate
<1>3. CASE UNCHANGED vars
  <2>1. PortsOwned' /\ InOrder'
    BY <1>3 DEF vars, fedVars, StartupInv, InOrder, PortsOwned
  <2>2. ToldByPeer' /\ AnnouncedOwn' /\ WaitingTogether' /\ ChannelsTogether'
           /\ SuccessTaken'
    BY <1>3 DEF vars, fedVars, ambVars, StartupInv, ToldByPeer, AnnouncedOwn,
       WaitingTogether, ChannelsTogether, SuccessTaken
  <2> QED
    BY <1>1, <2>1, <2>2 DEF StartupInv
<1> QED
  BY <1>1, <1>2, <1>3, AmbassadorIInv DEF Next

(* Every variable always has a value of its type. *)
THEOREM TypeCorrect == Spec => []TypeOK
BY InitTypeOK, NextTypeOK, PTL DEF Spec

(* Ports and sockets are used as connectToAmbassador means them to be, if  *)
(* mosaiccmd-port leaves the command port to the kernel.                   *)
THEOREM Invariance ==
    ASSUME CmdPort = NoPort
    PROVE  Spec => []StartupInv
BY InitIInv, NextIInv, PTL DEF Spec

(* A federate never has one ambassador on one channel and another one on   *)
(* the other, however many federates race for one port.                    *)
THEOREM OneAmbassador ==
    ASSUME CmdPort = NoPort
    PROVE  Spec => []ChannelsTogether
<1>1. StartupInv => ChannelsTogether
  BY DEF StartupInv
<1> QED
  BY <1>1, Invariance, PTL

(* The ambassador that is told SUCCESS has a federate that runs with its   *)
(* times.                                                                  *)
THEOREM Agreement ==
    ASSUME CmdPort = NoPort
    PROVE  Spec => []TimesAgree
<1>1. StartupInv => TimesAgree
  BY DEF StartupInv, SuccessTaken, TimesAgree
<1> QED
  BY <1>1, Invariance, PTL
=============================================================================
