------------------------------ MODULE Startup ------------------------------
(***************************************************************************)
(* connectToAmbassador: how a federate and its ambassador find each other  *)
(* and agree on the times of the run.  Several pairs start on one host,    *)
(* with the same configuration and so with the same wish for a port.       *)
(*                                                                         *)
(* Channel "A" is the federateAmbassadorChannel, "B" the                   *)
(* ambassadorFederateChannel.  An ambassador reads the port of A from the  *)
(* output of its own federate and connects; the port of B comes over A.    *)
(* Calls of the socket library that depend on other processes are steps of *)
(* their own.  bind() and listen() are two: with SO_REUSEADDR, bind()      *)
(* fails for a port somebody listens on, and listen() fails if somebody    *)
(* has begun to listen on the port since.                                  *)
(*                                                                         *)
(* An ambassador may die at any moment.  The times it sends are stood for  *)
(* by its number, which is that of its federate.                           *)
(***************************************************************************)
EXTENDS Integers, Sequences, Readers

CONSTANTS
    Pairs,      \* the federates, and the ambassador of each
    Port,       \* mosaiceventscheduler-port; 0 leaves it to the kernel
    CmdPort,    \* mosaiccmd-port
    Ports,      \* the ports the kernel may choose
    Nobody,     \* what is at the other end of an invalid socket
    Unset, Zero \* times that no ambassador has sent

ASSUME StartupAssumption ==
    /\ Port \in Nat /\ CmdPort \in Nat
    /\ Ports \subseteq Nat \ {0, Port, CmdPort}
    /\ Pairs \cap {Nobody, Unset, Zero} = {}

VARIABLES
    hostKnown,  \* mosaiceventscheduler-host can be resolved
    pc,         \* federate: what it does next
    bound,      \* port of servsock of each channel, or NoPort
    listening,  \* the channels whose servsock is listening
    backlog,    \* connections to servsock, not yet accepted
    peer,       \* whose connection sock is
    startTime   \* m_startTime: an ambassador's, Unset, or Zero

VARIABLES
    ambassador, \* ambassador: what it does next
    announced,  \* the output of its federate that it waits for
    told,       \* what it has been written on A: ports
    sent,       \* messages it has written on B: INIT, and the times
    reply       \* what it has been written on B

fedVars == <<hostKnown, pc, bound, listening, backlog, peer, startTime>>
ambVars == <<ambassador, announced, told, sent, reply>>
vars == <<fedVars, ambVars>>

Sockets == Pairs \X {"A", "B"}
NoPort == 0

Init ==
    /\ hostKnown \in BOOLEAN
    /\ pc = [f \in Pairs |-> "bindA"]
    /\ bound = [s \in Sockets |-> NoPort]
    /\ listening = {}
    /\ backlog = [s \in Sockets |-> <<>>]
    /\ peer = [s \in Sockets |-> Nobody]
    /\ startTime = [f \in Pairs |-> Unset]
    /\ ambassador = [a \in Pairs |-> "start"]
    /\ announced = [a \in Pairs |-> <<>>]
    /\ told = [a \in Pairs |-> <<>>]
    /\ sent = [a \in Pairs |-> 0]
    /\ reply = [a \in Pairs |-> <<>>]

Alive(a) == a # Nobody /\ ambassador[a] # "dead"

Goto(f, place) == pc' = [pc EXCEPT ![f] = place]

-----------------------------------------------------------------------------
(* The federate: prepareConnection *)

Listener(port) == {s \in listening : bound[s] = port}

(* A port for whoever asks for any. *)
FreePorts == Ports \ {bound[s] : s \in Sockets}

(* Mutant: the command port is the one after the port. *)
WantedPort_Next(c) == IF c = "A" THEN Port ELSE Port + 1

WantedPort(c) == IF c = "A" THEN Port ELSE CmdPort

(* Up to bind(), which may leave the socket without a port: a warning. *)
Bind(f, c) ==
    /\ pc[f] = (IF c = "A" THEN "bindA" ELSE "bindB")
    /\ hostKnown
    /\ bound' \in
          IF WantedPort(c) = NoPort
          THEN {[bound EXCEPT ![<<f, c>>] = p] : p \in FreePorts}
          ELSE {[bound EXCEPT ![<<f, c>>] =
                    IF Listener(WantedPort(c)) = {} THEN WantedPort(c) ELSE NoPort]}
    /\ Goto(f, IF c = "A" THEN "listenA" ELSE "listenB")
    /\ UNCHANGED <<hostKnown, listening, backlog, peer, startTime, ambVars>>

(* An invalid host: no socket, and 0 for the port. *)
InvalidHost(f, c) ==
    /\ pc[f] = (IF c = "A" THEN "bindA" ELSE "bindB")
    /\ ~hostKnown
    /\ Goto(f, IF c = "A" THEN "announce" ELSE "tell")
    /\ UNCHANGED <<hostKnown, bound, listening, backlog, peer, startTime, ambVars>>

(* listen() gives a port to a socket that has none.  Its failure, when     *)
(* another socket of the port is faster, goes unnoticed.                   *)
Listen(f, c) ==
    /\ pc[f] = (IF c = "A" THEN "listenA" ELSE "listenB")
    /\ \/ /\ bound[<<f, c>>] = NoPort
          /\ \E p \in FreePorts : bound' = [bound EXCEPT ![<<f, c>>] = p]
          /\ listening' = listening \cup {<<f, c>>}
       \/ /\ bound[<<f, c>>] # NoPort
          /\ listening' = IF Listener(bound[<<f, c>>]) = {}
                          THEN listening \cup {<<f, c>>} ELSE listening
          /\ UNCHANGED bound
    /\ Goto(f, IF c = "A" THEN "announce" ELSE "tell")
    /\ UNCHANGED <<hostKnown, backlog, peer, startTime, ambVars>>

-----------------------------------------------------------------------------
(* The federate: connectToAmbassador *)

(* The line with OutPort, after a second. *)
Announce(f) ==
    /\ pc[f] = "announce"
    /\ announced' = [announced EXCEPT ![f] = <<bound[<<f, "A">>]>>]
    /\ Goto(f, "acceptA")
    /\ UNCHANGED <<hostKnown, bound, listening, backlog, peer, startTime,
                   ambassador, told, sent, reply>>

(* connect(): accept() waits without limit, or fails at once if servsock   *)
(* is not listening; the caller does not learn of it.                      *)
Connect(f, c) ==
    /\ pc[f] = (IF c = "A" THEN "acceptA" ELSE "acceptB")
    /\ \/ /\ <<f, c>> \in listening
          /\ backlog[<<f, c>>] # <<>>
          /\ peer' = [peer EXCEPT ![<<f, c>>] = Head(backlog[<<f, c>>])]
          /\ backlog' = [backlog EXCEPT ![<<f, c>>] = Tail(backlog[<<f, c>>])]
       \/ <<f, c>> \notin listening /\ UNCHANGED <<peer, backlog>>
    /\ Goto(f, IF c = "A" THEN "bindB" ELSE "readCommand")
    /\ UNCHANGED <<hostKnown, bound, listening, startTime, ambVars>>

(* Writing to an ambassador that is gone may kill: SIGPIPE. *)
MayWrite(f, c, place) ==
    \/ Goto(f, place)
    \/ peer[<<f, c>>] # Nobody /\ ~Alive(peer[<<f, c>>]) /\ Goto(f, "killed")

(* Append to what is on its way to whoever is at the end of a channel. *)
Written(queues, a, m) ==
    IF Alive(a) THEN [queues EXCEPT ![a] = Append(@, m)] ELSE queues

(* Mutant: the port of the wrong channel is told. *)
ToldPort_Out(f) == bound[<<f, "A">>]

(* Mutant: the port is left in network byte order. *)
ToldPort_Raw(f) == 256 * bound[<<f, "B">>]

ToldPort(f) == bound[<<f, "B">>]

(* CMD_INIT and the port of B. *)
Tell(f) ==
    /\ pc[f] = "tell"
    /\ told' = Written(told, peer[<<f, "A">>], ToldPort(f))
    /\ MayWrite(f, "A", "acceptB")
    /\ UNCHANGED <<hostKnown, bound, listening, backlog, peer, startTime,
                   ambassador, announced, sent, reply>>

(* What a read method returns when n messages are there or on their way:   *)
(* an invalid socket reads like a stream that has ended.                   *)
Results(reader, a, n) ==
    (IF a # Nobody /\ n > 0 THEN {WholeResult(reader)} ELSE {})
       \cup (IF Alive(a) THEN {} ELSE CutResults(reader))

SentBy(a) == IF a = Nobody THEN 0 ELSE sent[a]

(* Whose connection the ambassadorFederateChannel is. *)
CommandPeer(f) == peer[<<f, "B">>]

(* The first command, which has to be INIT. *)
ReadInitCommand(f) ==
    /\ pc[f] = "readCommand"
    /\ WholeResult("readCommand")
          \in Results("readCommand", CommandPeer(f), SentBy(CommandPeer(f)))
    /\ Goto(f, "readInit")
    /\ UNCHANGED <<hostKnown, bound, listening, backlog, peer, startTime, ambVars>>

(* No command, and so not INIT: END is written, the exception is made and  *)
(* not thrown, and the run begins.                                         *)
Refuse(f) ==
    /\ pc[f] = "readCommand"
    /\ \E r \in Results("readCommand", CommandPeer(f), SentBy(CommandPeer(f))) :
          r.content = "undef"
    /\ reply' = Written(reply, CommandPeer(f), "END")
    /\ MayWrite(f, "B", "run")
    /\ UNCHANGED <<hostKnown, bound, listening, backlog, peer, startTime,
                   ambassador, announced, told, sent>>

(* Mutant: SUCCESS is the answer to the command, not to the times. *)
ReadInit_Early(f) ==
    \/ /\ pc[f] = "readInit"
       /\ CommandPeer(f) # Nobody /\ reply[CommandPeer(f)] = <<>>
       /\ reply' = Written(reply, CommandPeer(f), "SUCCESS")
       /\ MayWrite(f, "B", "readInit")
       /\ UNCHANGED <<hostKnown, bound, listening, backlog, peer, startTime,
                      ambassador, announced, told, sent>>
    \/ /\ pc[f] = "readInit"
       /\ CommandPeer(f) # Nobody => reply[CommandPeer(f)] # <<>>
       /\ \E r \in Results("readInit", CommandPeer(f), SentBy(CommandPeer(f)) - 1) :
             startTime' = [startTime EXCEPT ![f] =
                 IF r.content = "whole" THEN CommandPeer(f) ELSE Zero]
       /\ Goto(f, "run")
       /\ UNCHANGED <<hostKnown, bound, listening, backlog, peer, ambVars>>

(* The times, read without a look at the result of readInit: of a message  *)
(* that is missing they are 0.                                             *)
ReadInit(f) ==
    /\ pc[f] = "readInit"
    /\ \E r \in Results("readInit", CommandPeer(f), SentBy(CommandPeer(f)) - 1) :
          startTime' = [startTime EXCEPT ![f] =
              IF r.content = "whole" THEN CommandPeer(f) ELSE Zero]
    /\ reply' = Written(reply, CommandPeer(f), "SUCCESS")
    /\ MayWrite(f, "B", "run")
    /\ UNCHANGED <<hostKnown, bound, listening, backlog, peer,
                   ambassador, announced, told, sent>>

Federate(f) ==
    \/ \E c \in {"A", "B"} :
          \/ Bind(f, c)
          \/ InvalidHost(f, c)
          \/ Listen(f, c)
          \/ Connect(f, c)
    \/ Announce(f)
    \/ Tell(f)
    \/ ReadInitCommand(f)
    \/ Refuse(f)
    \/ ReadInit(f)

-----------------------------------------------------------------------------
(* The ambassador *)

Continue(a, place) == ambassador' = [ambassador EXCEPT ![a] = place]

(* connect() to a port; refused if nobody listens there. *)
ConnectTo(a, port, place) ==
    /\ backlog' = [s \in Sockets |-> IF s \in Listener(port)
                                     THEN Append(backlog[s], a) ELSE backlog[s]]
    /\ Continue(a, IF Listener(port) = {} THEN "refused" ELSE place)
    /\ UNCHANGED <<hostKnown, pc, bound, listening, peer, startTime,
                   announced, told, sent, reply>>

ConnectOut(a) ==
    /\ ambassador[a] = "start"
    /\ announced[a] # <<>>
    /\ ConnectTo(a, announced[a][1], "connected")

ConnectCommand(a) ==
    /\ ambassador[a] = "connected"
    /\ told[a] # <<>>
    /\ ConnectTo(a, told[a][1], "init")

SendInit(a) ==
    /\ ambassador[a] = "init"
    /\ sent[a] < 2
    /\ sent' = [sent EXCEPT ![a] = @ + 1]
    /\ UNCHANGED <<fedVars, ambassador, announced, told, reply>>

ReadReply(a) ==
    /\ ambassador[a] = "init"
    /\ reply[a] # <<>>
    /\ Continue(a, IF reply[a][1] = "SUCCESS" THEN "up" ELSE "refused")
    /\ UNCHANGED <<fedVars, announced, told, sent, reply>>

(* Its process dies; what it wrote last may be lost (Results). *)
Die(a) ==
    /\ Alive(a)
    /\ Continue(a, "dead")
    /\ UNCHANGED <<fedVars, announced, told, sent, reply>>

Ambassador(a) ==
    \/ ConnectOut(a)
    \/ ConnectCommand(a)
    \/ SendInit(a)
    \/ ReadReply(a)

Next ==
    \/ \E f \in Pairs : Federate(f)
    \/ \E a \in Pairs : Ambassador(a)
    \/ \E a \in Pairs : Die(a)

Spec == Init /\ [][Next]_vars

(* Processes run unless they are blocked; none has to die. *)
FairSpec ==
    Spec /\ \A p \in Pairs : WF_vars(Federate(p)) /\ WF_vars(Ambassador(p))

-----------------------------------------------------------------------------
(* Properties *)

(* The type invariant. *)
TypeOK ==
    /\ hostKnown \in BOOLEAN
    /\ pc \in [Pairs -> {"bindA", "listenA", "announce", "acceptA", "bindB",
                 "listenB", "tell", "acceptB", "readCommand", "readInit", "run",
                 "killed"}]
    /\ bound \in [Sockets -> Ports \cup {NoPort, Port, CmdPort}]
    /\ listening \subseteq Sockets
    /\ backlog \in [Sockets -> Seq(Pairs)]
    /\ peer \in [Sockets -> Pairs \cup {Nobody}]
    /\ startTime \in [Pairs -> Pairs \cup {Unset, Zero}]
    /\ ambassador \in [Pairs -> {"start", "connected", "init", "up", "refused",
                                 "dead"}]
    /\ announced \in [Pairs -> Seq(Ports \cup {NoPort, Port, CmdPort})]
    /\ told \in [Pairs -> Seq(Ports \cup {NoPort, Port, CmdPort})]
    /\ sent \in [Pairs -> 0 .. 2]
    /\ reply \in [Pairs -> Seq({"SUCCESS", "END"})]

(* A federate has the same ambassador at both its channels, even when      *)
(* federates have raced for a port and one serves another's ambassador.    *)
ChannelsTogether ==
    \A f \in Pairs :
       peer[<<f, "B">>] # Nobody => peer[<<f, "A">>] = peer[<<f, "B">>]

(* An ambassador that has been answered SUCCESS, and lives, has a federate *)
(* that runs with the times it sent, whoever else starts or dies.          *)
TimesAgree ==
    \A a \in Pairs :
       ambassador[a] = "up" =>
          \E f \in Pairs :
             pc[f] = "run" /\ startTime[f] = a /\ peer[<<f, "A">>] = a

(* When a federate has accepted an ambassador on A, the ambassador will be *)
(* told that the run has begun, unless it dies.                            *)
Starts ==
    \A f, a \in Pairs :
       peer[<<f, "A">>] = a ~> ambassador[a] \in {"up", "dead"}

(* The port that prepareConnection returns and the scheduler announces is  *)
(* one that the federate listens on.  The code breaks this: between bind() *)
(* and listen() another federate may have begun to listen on the port.     *)
PortsListening ==
    \A f \in Pairs :
       hostKnown /\ announced[f] # <<>> => <<f, "A">> \in listening
=============================================================================
