--------------------------- MODULE EventScheduler ---------------------------
(***************************************************************************)
(* MosaicEventScheduler: the cScheduler that drives OMNeT++ under the time *)
(* management of Eclipse MOSAIC, the future event set (FES) it takes       *)
(* events from, the two sockets to the ambassador, and the ambassador as   *)
(* far as the scheduler can see it.                                        *)
(*                                                                         *)
(* One call of takeNextEvent is a do-while loop.  An iteration reads one   *)
(* command if the federate holds no grant; otherwise it looks at the head  *)
(* of the FES, and gives the grant back if there is nothing it may         *)
(* simulate.  Every `continue' of the loop jumps to the loop's CONDITION,  *)
(* which reads nextTime, a local of the call that only a look at the head  *)
(* sets: operator Recheck ends every action that models an iteration.      *)
(*                                                                         *)
(* A time of the kernel is a whole number of nanoseconds and a fraction in *)
(* units of 1/SubNs ns.  Times on the wire are whole nanoseconds.          *)
(***************************************************************************)
EXTENDS Integers, Sequences, FiniteSets

CONSTANTS
    StartTime,  \* start_time of the INIT message, in ns
    SubNs,      \* ticks of simtime-resolution in one ns (omnetpp.ini: 1)
    MaxTime,    \* bound: the latest time anybody mentions, in ns
    MaxEvents   \* bound: the events inserted into the FES, shutdown's aside

ASSUME SchedulerAssumption ==
    /\ StartTime \in Nat
    /\ SubNs \in Nat \ {0}
    /\ MaxTime \in Nat /\ StartTime <= MaxTime
    /\ MaxEvents \in Nat

(* Commands that put an event of the same name into the FES. *)
TimedCommands == {"UPDATE_NODE", "MSG_SEND", "CONF_RADIO"}
Commands == TimedCommands \cup {"ADVANCE_TIME", "SHUT_DOWN", "UNKNOWN"}
Reports == {"NEXT_EVENT", "END", "MSG_RECV"}
(* INTERNAL: an event between modules of INET; V2X: a received packet on   *)
(* its way to the scenario manager; FINISH: MosaicFinishCmd.               *)
EventKinds == TimedCommands \cup {"INTERNAL", "V2X", "FINISH"}

KernelTime == [ns : Nat, frac : 0 .. (SubNs - 1)]
Event == [ord : Nat, ns : Nat, frac : 0 .. (SubNs - 1), kind : EventKinds]

VARIABLES
    pc,         \* federate: "loop" top of the body, "pop" below the loop,
                \* "ended" simulation over, "killed" by SIGPIPE
    advancing,  \* m_timeAdvancing
    maxTime,    \* m_currentMaxSimTime, in ns
    nextTime,   \* local of takeNextEvent, in ns
    simTime,    \* the kernel's simulation time
    fes,        \* the future event set
    stale,      \* ord of the events whose target module was deleted
    inserted    \* insertions into the FES so far: the order among equals

VARIABLES
    inbox,      \* ambassadorFederateChannel: commands not yet read
    replies,    \* the same socket, back: replies not yet read
    outbox,     \* federateAmbassadorChannel: reports not yet read
    open        \* the ambassador has its ends of both sockets open

VARIABLES
    awaiting,   \* ambassador: a grant is out and its END not yet read
    unacked,    \* ambassador: waits for the reply to a command
    horizon,    \* ambassador: the last grant
    latest,     \* ambassador: the latest time it granted or sent
    fresh,      \* ambassador: it sent commands since the last grant
    requests,   \* ambassador: times asked for with NEXT_EVENT, not granted
    shut        \* ambassador: it sent SHUT_DOWN

fedVars == <<pc, advancing, maxTime, nextTime, simTime, fes, stale, inserted>>
wireVars == <<inbox, replies, outbox, open>>
ambVars == <<awaiting, unacked, horizon, latest, fresh, requests, shut>>
vars == <<fedVars, wireVars, ambVars>>

Stopped == pc \in {"ended", "killed"}

(* The order in which the kernel takes events: by time, then by insertion. *)
Precedes(e, f) ==
    \/ e.ns < f.ns
    \/ e.ns = f.ns /\ e.frac < f.frac
    \/ e.ns = f.ns /\ e.frac = f.frac /\ e.ord < f.ord

(* guessNextEvent: the head of the FES. *)
IsNext(e) == e \in fes /\ \A f \in fes \ {e} : Precedes(e, f)

Init ==
    /\ pc = "loop"
    /\ advancing = FALSE
    /\ maxTime = StartTime
    /\ nextTime = 0
    /\ simTime = [ns |-> 0, frac |-> 0]
    /\ fes = {}
    /\ stale = {}
    /\ inserted = 0
    /\ inbox = <<>>
    /\ replies = 0
    /\ outbox = <<>>
    /\ open = TRUE
    /\ awaiting = FALSE
    /\ unacked = FALSE
    /\ horizon = StartTime
    /\ latest = StartTime
    /\ fresh = FALSE
    /\ requests = {}
    /\ shut = FALSE

-----------------------------------------------------------------------------
(* Writing to the sockets.  What is written to a closed peer is lost.      *)

Reply(n) == replies' = IF open THEN replies + n ELSE replies

Report(ms) == outbox' = IF open THEN outbox \o ms ELSE outbox

-----------------------------------------------------------------------------
(* The federate: takeNextEvent *)

(* A call of takeNextEvent, first or recursive. *)
EnterTakeNextEvent ==
    /\ pc' = "loop"
    /\ nextTime' = 0

(* Mutant: the loop ends as soon as there is a grant and an event. *)
Recheck_NoTime ==
    pc' = IF ~advancing' \/ fes' = {} THEN "loop" ELSE "pop"

(* Mutant: the loop's condition does not ask whether the FES is empty. *)
Recheck_AnyFes ==
    pc' = IF ~advancing' \/ nextTime' > maxTime' THEN "loop" ELSE "pop"

(* The condition of the do-while loop, after an iteration. *)
Recheck ==
    pc' = IF ~advancing' \/ fes' = {} \/ nextTime' > maxTime'
          THEN "loop" ELSE "pop"

(* putBackEvent of an event that arrives at whole nanosecond t. *)
PutBackEvent(kind, t) ==
    /\ fes' = fes \cup
                {[ord |-> inserted, ns |-> t, frac |-> 0, kind |-> kind]}
    /\ inserted' = inserted + 1
    /\ UNCHANGED stale

(* receiveInteractions up to its switch: a command has arrived. *)
Receive(commands) ==
    /\ pc = "loop" /\ ~advancing
    /\ inbox # <<>>
    /\ Head(inbox).cmd \in commands
    /\ inbox' = Tail(inbox)
    /\ UNCHANGED <<nextTime, simTime, outbox, open, ambVars>>

(* Mutant: the reply is forgotten. *)
ProcessUpdateNode_NoReply ==
    /\ Receive({"UPDATE_NODE"})
    /\ PutBackEvent("UPDATE_NODE", Head(inbox).time)
    /\ UNCHANGED <<advancing, maxTime, replies>>
    /\ Recheck

ProcessUpdateNode ==
    /\ Receive({"UPDATE_NODE"})
    /\ PutBackEvent("UPDATE_NODE", Head(inbox).time)
    /\ Reply(1)
    /\ UNCHANGED <<advancing, maxTime>>
    /\ Recheck

(* readSendMessage has already replied when processMsgSend replies, and    *)
(* readConfigurationMessage when processConfRadio does.                    *)
ProcessMsgSend ==
    /\ Receive({"MSG_SEND"})
    /\ PutBackEvent("MSG_SEND", Head(inbox).time)
    /\ Reply(2)
    /\ UNCHANGED <<advancing, maxTime>>
    /\ Recheck

ProcessConfRadio ==
    /\ Receive({"CONF_RADIO"})
    /\ PutBackEvent("CONF_RADIO", Head(inbox).time)
    /\ Reply(2)
    /\ UNCHANGED <<advancing, maxTime>>
    /\ Recheck

ProcessAdvanceTime ==
    /\ Receive({"ADVANCE_TIME"})
    /\ maxTime' = Head(inbox).time
    /\ advancing' = TRUE
    /\ UNCHANGED <<fes, stale, inserted, replies>>
    /\ Recheck

(* Mutant: the finish event has no arrival time. *)
ProcessShutDown_NoTime ==
    /\ Receive({"SHUT_DOWN"})
    /\ PutBackEvent("FINISH", 0)
    /\ UNCHANGED <<advancing, maxTime, replies>>
    /\ Recheck

(* The finish event waits in the FES for somebody to set m_timeAdvancing.  *)
ProcessShutDown ==
    /\ Receive({"SHUT_DOWN"})
    /\ PutBackEvent("FINISH", maxTime)
    /\ UNCHANGED <<advancing, maxTime, replies>>
    /\ Recheck

(* Mutant: the default branch throws away the command and no more. *)
DefaultBranch_Ignores ==
    /\ UNCHANGED <<advancing, replies, maxTime, fes, stale, inserted>>
    /\ Recheck

(* Mutant: the default branch sends no reply. *)
DefaultBranch_NoReply ==
    /\ advancing' = TRUE
    /\ UNCHANGED <<replies, maxTime, fes, stale, inserted>>
    /\ Recheck

(* The default branch of receiveInteractions: replies END and goes on; the *)
(* cRuntimeError is constructed and not thrown.                            *)
DefaultBranch ==
    /\ Reply(1)
    /\ advancing' = TRUE
    /\ UNCHANGED <<maxTime, fes, stale, inserted>>
    /\ Recheck

ProcessUnknown == Receive({"UNKNOWN"}) /\ DefaultBranch

(* End of file on the command socket: readCommand returns CMD_UNDEF.       *)
ReceiveEndOfFile ==
    /\ pc = "loop" /\ ~advancing
    /\ ~open /\ inbox = <<>>
    /\ UNCHANGED <<nextTime, simTime, inbox, outbox, open, ambVars>>
    /\ DefaultBranch

(* endTimeAdvance, of the time of the last event. *)
EndReport == [msg |-> "END", time |-> simTime.ns]

ReceiveInteractions ==
    \/ ProcessUpdateNode
    \/ ProcessMsgSend
    \/ ProcessConfRadio
    \/ ProcessAdvanceTime
    \/ ProcessShutDown
    \/ ProcessUnknown
    \/ ReceiveEndOfFile

(* Mutant: endTimeAdvance leaves m_timeAdvancing set. *)
EndEmpty_KeepsGrant ==
    /\ pc = "loop" /\ advancing
    /\ fes = {}
    /\ Report(<<EndReport>>)
    /\ UNCHANGED <<advancing, maxTime, nextTime, simTime, fes, stale, inserted,
                   inbox, replies, open, ambVars>>
    /\ Recheck

(* Mutant: no END is sent when there was no event at all. *)
EndEmpty_Silent ==
    /\ pc = "loop" /\ advancing
    /\ fes = {}
    /\ advancing' = FALSE
    /\ UNCHANGED <<maxTime, nextTime, simTime, fes, stale, inserted,
                   wireVars, ambVars>>
    /\ Recheck

(* The FES is empty: the grant goes back. *)
EndEmpty ==
    /\ pc = "loop" /\ advancing
    /\ fes = {}
    /\ Report(<<EndReport>>)
    /\ advancing' = FALSE
    /\ UNCHANGED <<maxTime, nextTime, simTime, fes, stale, inserted,
                   inbox, replies, open, ambVars>>
    /\ Recheck

(* Mutant: the federate ends its advance without asking for the next. *)
ReportNextEvent_NoRequest ==
    /\ pc = "loop" /\ advancing
    /\ \E e \in fes : IsNext(e) /\ e.ns > maxTime /\ nextTime' = e.ns
    /\ Report(<<EndReport>>)
    /\ advancing' = FALSE
    /\ UNCHANGED <<maxTime, simTime, fes, stale, inserted,
                   inbox, replies, open, ambVars>>
    /\ Recheck

(* Mutant: END is sent before the request. *)
ReportNextEvent_Swapped ==
    /\ pc = "loop" /\ advancing
    /\ \E e \in fes :
          /\ IsNext(e)
          /\ e.ns > maxTime
          /\ nextTime' = e.ns
          /\ Report(<<EndReport, [msg |-> "NEXT_EVENT", time |-> e.ns]>>)
    /\ advancing' = FALSE
    /\ UNCHANGED <<maxTime, simTime, fes, stale, inserted,
                   inbox, replies, open, ambVars>>
    /\ Recheck

(* Mutant: nextTime is a local of the iteration, not of the call. *)
ReportNextEvent_Forgets ==
    /\ pc = "loop" /\ advancing
    /\ \E e \in fes :
          /\ IsNext(e)
          /\ e.ns > maxTime
          /\ Report(<<[msg |-> "NEXT_EVENT", time |-> e.ns], EndReport>>)
    /\ advancing' = FALSE
    /\ UNCHANGED <<maxTime, nextTime, simTime, fes, stale, inserted,
                   inbox, replies, open, ambVars>>
    /\ Recheck

(* The head of the FES lies beyond the grant: its time is reported and the *)
(* grant goes back.                                                        *)
ReportNextEvent ==
    /\ pc = "loop" /\ advancing
    /\ \E e \in fes :
          /\ IsNext(e)
          /\ e.ns > maxTime
          /\ nextTime' = e.ns
          /\ Report(<<[msg |-> "NEXT_EVENT", time |-> e.ns], EndReport>>)
    /\ advancing' = FALSE
    /\ UNCHANGED <<maxTime, simTime, fes, stale, inserted,
                   inbox, replies, open, ambVars>>
    /\ Recheck

(* The head of the FES lies within the grant: the loop ends. *)
FindNextEvent ==
    /\ pc = "loop" /\ advancing
    /\ \E e \in fes :
          /\ IsNext(e)
          /\ e.ns <= maxTime
          /\ nextTime' = e.ns
    /\ UNCHANGED <<advancing, maxTime, simTime, fes, stale, inserted,
                   wireVars, ambVars>>
    /\ Recheck

(* The event taken has lost its module: takeNextEvent calls itself. *)
DropStale ==
    /\ pc = "pop"
    /\ \E e \in fes :
          /\ IsNext(e)
          /\ e.ord \in stale
          /\ fes' = fes \ {e}
          /\ stale' = stale \ {e.ord}
    /\ EnterTakeNextEvent
    /\ UNCHANGED <<advancing, maxTime, simTime, inserted, wireVars, ambVars>>

-----------------------------------------------------------------------------
(* The kernel and the modules: one event is handled.  No command arrives   *)
(* meanwhile, the scheduler is not reading.                                *)

Take(e) ==
    /\ pc = "pop"
    /\ IsNext(e)
    /\ e.ord \notin stale
    /\ simTime' = [ns |-> e.ns, frac |-> e.frac]
    /\ UNCHANGED <<advancing, maxTime, inbox, replies, open, ambVars>>

(* The handler of e schedules at most one event: of INET at any time that  *)
(* is not past, or, of a radio, a reception at once.                       *)
Schedule(e, kinds) ==
    \/ fes' = fes \ {e} /\ UNCHANGED inserted
    \/ \E kind \in kinds, t \in e.ns .. MaxTime, s \in 0 .. (SubNs - 1) :
          /\ inserted + Len(inbox) < MaxEvents
          /\ t = e.ns => s >= e.frac
          /\ kind = "V2X" => t = e.ns /\ s = e.frac
          /\ fes' = (fes \ {e}) \cup
                {[ord |-> inserted, ns |-> t, frac |-> s, kind |-> kind]}
          /\ inserted' = inserted + 1

(* MosaicMobilityCmd: removing nodes deletes the modules of some events.   *)
HandleMobility ==
    /\ \E e \in fes :
          /\ e.kind = "UPDATE_NODE"
          /\ Take(e)
          /\ Schedule(e, {"INTERNAL"})
    /\ \E gone \in SUBSET {f.ord : f \in {g \in fes : g.kind = "INTERNAL"}} :
          stale' = stale \cup gone
    /\ EnterTakeNextEvent
    /\ UNCHANGED outbox

(* MosaicCommunicationCmd, MosaicConfigurationCmd, and any event of INET.  *)
HandleModel ==
    /\ \E e \in fes :
          /\ e.kind \in {"MSG_SEND", "CONF_RADIO", "INTERNAL"}
          /\ Take(e)
          /\ Schedule(e, IF e.kind = "INTERNAL" THEN {"INTERNAL", "V2X"}
                                                ELSE {"INTERNAL"})
    /\ EnterTakeNextEvent
    /\ UNCHANGED <<stale, outbox>>

(* Mutant: a reception is reported at the end of the grant. *)
HandleReception_Late ==
    /\ \E e \in fes :
          /\ e.kind = "V2X"
          /\ Take(e)
          /\ fes' = fes \ {e}
    /\ Report(<<[msg |-> "MSG_RECV", time |-> maxTime]>>)
    /\ EnterTakeNextEvent
    /\ UNCHANGED <<stale, inserted>>

(* receiveV2xMessage and reportReceivedV2xMessage. *)
HandleReception ==
    /\ \E e \in fes :
          /\ e.kind = "V2X"
          /\ Take(e)
          /\ fes' = fes \ {e}
          /\ Report(<<[msg |-> "MSG_RECV", time |-> e.ns]>>)
    /\ EnterTakeNextEvent
    /\ UNCHANGED <<stale, inserted>>

(* MosaicFinishCmd: finish() removes the nodes, ends the run and throws.   *)
HandleFinish ==
    /\ \E e \in fes :
          /\ e.kind = "FINISH"
          /\ Take(e)
          /\ fes' = fes \ {e}
    /\ pc' = "ended"
    /\ UNCHANGED <<nextTime, stale, inserted, outbox>>

TakeNextEvent ==
    \/ ReceiveInteractions
    \/ EndEmpty
    \/ ReportNextEvent
    \/ FindNextEvent
    \/ DropStale

Dispatch ==
    \/ HandleMobility
    \/ HandleModel
    \/ HandleReception
    \/ HandleFinish

Federate == TakeNextEvent \/ Dispatch

(* Mutant: nothing is written with a signal (MSG_NOSIGNAL). *)
AboutToWrite_NoSignal == FALSE

(* The next step of the federate writes to a socket. *)
AboutToWrite ==
    \/ pc = "loop" /\ ~advancing /\ inbox = <<>>
    \/ pc = "loop" /\ ~advancing /\ inbox # <<>>
          /\ Head(inbox).cmd \in TimedCommands \cup {"UNKNOWN"}
    \/ pc = "loop" /\ advancing /\ \A e \in fes : e.ns > maxTime
    \/ pc = "pop" /\ \E e \in fes : IsNext(e) /\ e.kind = "V2X"

(* The peer has reset the connection: writing raises SIGPIPE, which nobody *)
(* handles.                                                                *)
SigPipe ==
    /\ ~open
    /\ AboutToWrite
    /\ pc' = "killed"
    /\ UNCHANGED <<advancing, maxTime, nextTime, simTime, fes, stale,
                   inserted, wireVars, ambVars>>

-----------------------------------------------------------------------------
(* The ambassador, as the scheduler relies on it: it waits for a reply     *)
(* after every command, sends nothing while a grant is out, no command     *)
(* from before the last grant, and grants no less than the times it sent.  *)

Write(c, t) == inbox' = Append(inbox, [cmd |-> c, time |-> t])

MaySend == open /\ ~shut /\ ~awaiting /\ ~unacked

SendCommand ==
    /\ MaySend
    /\ inserted + Len(inbox) < MaxEvents
    /\ \E c \in TimedCommands, t \in horizon .. MaxTime :
          /\ Write(c, t)
          /\ latest' = IF t > latest THEN t ELSE latest
    /\ unacked' = TRUE
    /\ fresh' = TRUE
    /\ UNCHANGED <<awaiting, horizon, requests, shut,
                   fedVars, replies, outbox, open>>

SendAdvance(g) ==
    /\ MaySend
    /\ g >= latest
    /\ Write("ADVANCE_TIME", g)
    /\ awaiting' = TRUE
    /\ horizon' = g
    /\ latest' = g
    /\ fresh' = FALSE
    /\ requests' = {r \in requests : r > g}
    /\ UNCHANGED <<unacked, shut, fedVars, replies, outbox, open>>

Advance == \E g \in latest .. MaxTime : SendAdvance(g)

(* The grants the federation owes: up to a time the federate has asked     *)
(* for, or up to the commands it has sent.                                 *)
AdvanceDue ==
    \/ \E r \in requests : SendAdvance(r)
    \/ (fresh \/ \E r \in requests : r < latest) /\ SendAdvance(latest)

SendShutDown ==
    /\ MaySend
    /\ Write("SHUT_DOWN", 0)
    /\ shut' = TRUE
    /\ UNCHANGED <<awaiting, unacked, horizon, latest, fresh, requests,
                   fedVars, replies, outbox, open>>

Close ==
    /\ shut /\ open
    /\ open' = FALSE
    /\ UNCHANGED <<fedVars, inbox, replies, outbox, ambVars>>

(* One reply lets the ambassador go on; it may read a spare one as well. *)
ReadReply ==
    /\ open /\ replies > 0
    /\ replies' = replies - 1
    /\ unacked' = FALSE
    /\ UNCHANGED <<awaiting, horizon, latest, fresh, requests, shut,
                   fedVars, inbox, outbox, open>>

ReadReport ==
    /\ open /\ outbox # <<>>
    /\ outbox' = Tail(outbox)
    /\ awaiting' = (awaiting /\ Head(outbox).msg # "END")
    /\ requests' = IF Head(outbox).msg = "NEXT_EVENT"
                   THEN requests \cup {Head(outbox).time} ELSE requests
    /\ UNCHANGED <<unacked, horizon, latest, fresh, shut,
                   fedVars, inbox, replies, open>>

Ambassador ==
    \/ SendCommand
    \/ Advance
    \/ SendShutDown
    \/ Close
    \/ ReadReply
    \/ ReadReport

(* Nothing is left to do: not a deadlock. *)
Terminated ==
    /\ Stopped /\ ~open
    /\ UNCHANGED vars

Next ==
    \/ Federate
    \/ SigPipe
    \/ Ambassador
    \/ Terminated

Spec == Init /\ [][Next]_vars

-----------------------------------------------------------------------------
(* The federate is one thread that runs until it blocks; the ambassador    *)
(* reads what it is sent, closes after SHUT_DOWN and issues the grants it  *)
(* owes.  That last fairness is strong: the federation may make grants     *)
(* nobody asked for, but its time does not stand still on those for ever.  *)
(* It owes no command, no voluntary grant and no shutdown.                 *)
Fairness ==
    /\ WF_vars(Federate)
    /\ WF_vars(ReadReply)
    /\ WF_vars(ReadReport)
    /\ SF_vars(AdvanceDue)
    /\ WF_vars(Close)

FairSpec == Spec /\ Fairness

-----------------------------------------------------------------------------
(* Properties *)

Message == [cmd : Commands, time : Nat]
ReportMessage == [msg : Reports, time : Nat]

(* The type invariant: every variable of the scheduler, the sockets and    *)
(* the ambassador has the values its declaration in the code allows.       *)
TypeOK ==
    /\ pc \in {"loop", "pop", "ended", "killed"}
    /\ advancing \in BOOLEAN
    /\ maxTime \in Nat
    /\ nextTime \in Nat
    /\ simTime \in KernelTime
    /\ fes \in SUBSET Event
    /\ stale \in SUBSET Nat
    /\ inserted \in Nat
    /\ inbox \in Seq(Message)
    /\ replies \in Nat
    /\ outbox \in Seq(ReportMessage)
    /\ open \in BOOLEAN
    /\ awaiting \in BOOLEAN
    /\ unacked \in BOOLEAN
    /\ horizon \in Nat
    /\ latest \in Nat
    /\ fresh \in BOOLEAN
    /\ requests \in SUBSET Nat
    /\ shut \in BOOLEAN

(* The scheduler never hands the kernel an event later than the time it    *)
(* was last allowed to simulate to, although its loop decides with a       *)
(* nextTime that may be left from an earlier iteration, or from none.      *)
WithinGrant ==
    pc = "pop" => \A e \in fes : IsNext(e) => e.ns <= maxTime

(* While the ambassador waits, the grant is in exactly one place: on its   *)
(* way to the federate, with the federate, or on its way back as an END.   *)
(* While it does not wait, the grant is nowhere.                           *)
OneGrant ==
    LET arriving == {i \in DOMAIN inbox : inbox[i].cmd = "ADVANCE_TIME"}
        returning == {i \in DOMAIN outbox : outbox[i].msg = "END"}
        held == IF advancing THEN {0} ELSE {}
    IN  open => Cardinality(arriving) + Cardinality(held)
                  + Cardinality(returning) = (IF awaiting THEN 1 ELSE 0)

(* A grant comes back only when every event it covers has been handled,    *)
(* with the time of the last event, and with a NEXT_EVENT just before it   *)
(* that names the first event left, or none if nothing is left.            *)
GrantExhausted ==
    \A i \in DOMAIN outbox :
       open /\ outbox[i].msg = "END" =>
          /\ i = Len(outbox)
          /\ outbox[i].time = simTime.ns
          /\ \A e \in fes : e.ns > maxTime
          /\ \A e \in fes : IsNext(e) =>
                IF i > 1
                THEN outbox[i - 1] = [msg |-> "NEXT_EVENT", time |-> e.ns]
                ELSE e.ns \in requests
          /\ \A j \in DOMAIN outbox :
                outbox[j].msg = "NEXT_EVENT" => j = i - 1 /\ fes # {}

(* Receptions are reported in the order of their times, none later than    *)
(* the grant or than the END that follows it.                              *)
ReceptionsInOrder ==
    \A i, j \in DOMAIN outbox :
       i <= j /\ outbox[i].msg = "MSG_RECV" =>
          /\ outbox[i].time <= maxTime
          /\ outbox[j].msg \in {"MSG_RECV", "END"} =>
                outbox[i].time <= outbox[j].time

(* When the federate is blocked for want of a grant and nothing is on the  *)
(* wire, every event in the FES is one the ambassador knows of: from a     *)
(* command since the last grant, or by a request for no later a time.      *)
NoLostWakeup ==
    pc = "loop" /\ ~advancing /\ open /\ ~shut /\ ~awaiting
      /\ inbox = <<>> /\ outbox = <<>> =>
          \A e \in fes : \/ fresh /\ e.ns <= latest
                         \/ \E r \in requests : r <= e.ns

(* An ambassador that waits for a reply has one on the wire, or a command  *)
(* that will be replied to: the two sides never wait for each other.       *)
NoReplyMissing ==
    unacked /\ open =>
       \/ replies > 0
       \/ \E i \in DOMAIN inbox : inbox[i].cmd \in TimedCommands \cup {"UNKNOWN"}

(* The scheduler keeps the federate's side of conservative time advance:   *)
(* simulation time, in whole nanoseconds, never goes back and never passes *)
(* the grant, and grants never shrink.                                     *)
TA == INSTANCE TimeAdvance
        WITH clock <- simTime.ns, grant <- maxTime, running <- advancing
ImplementsTimeAdvance == TA!Spec

(* Every grant is given back, unless the ambassador leaves. *)
GrantAnswered == awaiting ~> ~awaiting \/ ~open

(* Every event put into the FES is taken out of it, unless the simulation  *)
(* is shut down: the federation is told of it and grants its time.         *)
EventuallyHandled ==
    \A n \in 0 .. MaxEvents :
       (\E e \in fes : e.ord = n) ~> (~\E e \in fes : e.ord = n) \/ shut

(* SHUT_DOWN stops the federate, although it only puts an event into the   *)
(* FES of a scheduler that holds no grant and will be sent none.           *)
ShutDownStops == shut ~> Stopped
=============================================================================
