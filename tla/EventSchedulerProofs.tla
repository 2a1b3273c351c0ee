------------------------ MODULE EventSchedulerProofs ------------------------
(***************************************************************************)
(* Theorems about EventScheduler, for every start time, resolution and     *)
(* bound.  The argument is the inductive invariant IInv: at every place    *)
(* where the loop of takeNextEvent may end, the nextTime its condition     *)
(* reads, however old, bounds from above the time of some event in the FES *)
(* that the grant covers.                                                  *)
(***************************************************************************)
EXTENDS EventScheduler, FiniteSetTheorems, TLAPS

Running == pc \in {"loop", "pop"}

(* Simulation time is within the grant being used, which is at most the    *)
(* last grant made, which is at most the latest time mentioned.            *)
Clocks == simTime.ns <= maxTime /\ maxTime <= horizon /\ horizon <= latest

(* The FES holds no event of the past. *)
NoPastEvent == \A e \in fes : simTime.ns <= e.ns

(* An insertion number names one event, and only events of INET go stale. *)
OrdsUnique ==
    /\ \A e \in fes : e.ord < inserted
    /\ \A e, f \in fes : e.ord = f.ord => e = f
    /\ \A n \in stale : n < inserted
    /\ \A e \in fes : e.ord \in stale => e.kind = "INTERNAL"

(* Commands on the wire lie between the grant being used and the latest    *)
(* time mentioned; a grant on the wire is the last thing on it.            *)
InboxOrdered ==
    \A i \in DOMAIN inbox :
       /\ inbox[i].cmd # "UNKNOWN"
       /\ inbox[i].cmd \in TimedCommands =>
             maxTime <= inbox[i].time /\ inbox[i].time <= latest
       /\ inbox[i].cmd = "ADVANCE_TIME" =>
             /\ i = Len(inbox)
             /\ awaiting
             /\ inbox[i].time = horizon
             /\ latest = horizon

(* A federate that holds a grant has read all its commands, and the        *)
(* ambassador, if there is one, is waiting.                                *)
GrantHeld ==
    advancing => inbox = <<>> /\ (open => awaiting)

(* While the ambassador is there and waits, the grant is somewhere; an END *)
(* on the wire is the last thing on it and excludes every other place.     *)
GrantArriving == \E i \in DOMAIN inbox : inbox[i].cmd = "ADVANCE_TIME"
GrantReturning == \E i \in DOMAIN outbox : outbox[i].msg = "END"

GrantPlaced ==
    open =>
       /\ \A i \in DOMAIN outbox :
             outbox[i].msg = "END" => i = Len(outbox) /\ awaiting
       /\ GrantReturning => ~advancing /\ ~GrantArriving
       /\ awaiting => GrantArriving \/ advancing \/ GrantReturning

(* Without a grant, the nextTime the loop will decide with is no earlier   *)
(* than some event, unless the next grant will cover every event anyway.   *)
NextTimeSafe ==
    pc = "loop" /\ ~advancing =>
       \/ \E e \in fes : e.ns <= nextTime
       \/ \A e \in fes : e.ns <= latest

(* The loop has ended only over an event the grant covers. *)
PopSafe == pc = "pop" => advancing /\ \E e \in fes : e.ns <= maxTime

(* After SHUT_DOWN the finish event is on its way or covered by the grant, *)
(* and an ambassador leaves only after SHUT_DOWN.                          *)
FinishComing ==
    /\ ~open => shut
    /\ shut /\ Running =>
          \/ \E i \in DOMAIN inbox : inbox[i].cmd = "SHUT_DOWN"
          \/ \E e \in fes : e.kind = "FINISH" /\ e.ns <= maxTime

IInv ==
    /\ TypeOK
    /\ Clocks
    /\ NoPastEvent
    /\ OrdsUnique
    /\ InboxOrdered
    /\ GrantHeld
    /\ GrantPlaced
    /\ NextTimeSafe
    /\ PopSafe
    /\ FinishComing

-----------------------------------------------------------------------------
(* Type correctness *)

(* The state after the handshake is well typed. *)
LEMMA InitTypeOK == Init => TypeOK
<1> SUFFICES ASSUME Init PROVE TypeOK
  OBVIOUS
<1>1. [ns |-> 0, frac |-> 0] \in KernelTime
  BY SchedulerAssumption DEF KernelTime
<1>2. <<>> \in Seq(Message) /\ <<>> \in Seq(ReportMessage)
  OBVIOUS
<1>3. StartTime \in Nat
  BY SchedulerAssumption
<1> QED
  BY <1>1, <1>2, <1>3 DEF Init, TypeOK

(* The federate's own steps preserve the type invariant. *)
LEMMA TakeNextEventTypeOK == TypeOK /\ TakeNextEvent => TypeOK'
<1> SUFFICES ASSUME TypeOK, TakeNextEvent PROVE TypeOK'
  OBVIOUS
<1> USE DEF TypeOK, fedVars, wireVars, ambVars
<1>1. CASE ReceiveInteractions
  <2>1. ASSUME NEW C \in SUBSET Commands, Receive(C)
        PROVE  Head(inbox) \in Message /\ inbox' \in Seq(Message)
    BY <2>1 DEF Receive
  <2>2. ASSUME NEW kind \in EventKinds, NEW t \in Nat, PutBackEvent(kind, t)
        PROVE  fes' \in SUBSET Event /\ inserted' \in Nat /\ stale' \in SUBSET Nat
    BY <2>2, SchedulerAssumption DEF PutBackEvent, Event
  <2>3. ASSUME NEW n \in Nat, Reply(n) PROVE replies' \in Nat
    BY <2>3 DEF Reply
  <2>4. CASE ProcessUpdateNode
    BY <2>4, <2>1, <2>2, <2>3 DEF ProcessUpdateNode, Receive, Recheck,
       Message, Commands, TimedCommands, EventKinds
  <2>5. CASE ProcessMsgSend
    BY <2>5, <2>1, <2>2, <2>3 DEF ProcessMsgSend, Receive, Recheck,
       Message, Commands, TimedCommands, EventKinds
  <2>6. CASE ProcessConfRadio
    BY <2>6, <2>1, <2>2, <2>3 DEF ProcessConfRadio, Receive, Recheck,
       Message, Commands, TimedCommands, EventKinds
  <2>7. CASE ProcessAdvanceTime
    BY <2>7, <2>1 DEF ProcessAdvanceTime, Receive, Recheck, Message, Commands
  <2>8. CASE ProcessShutDown
    BY <2>8, <2>1, <2>2 DEF ProcessShutDown, Receive, Recheck, Message,
       Commands, EventKinds
  <2>9. CASE ProcessUnknown
    BY <2>9, <2>1, <2>3 DEF ProcessUnknown, DefaultBranch, Receive, Recheck,
       Message, Commands
  <2>10. CASE ReceiveEndOfFile
    BY <2>10, <2>3 DEF ReceiveEndOfFile, DefaultBranch, Recheck
  <2> QED
    BY <1>1, <2>4, <2>5, <2>6, <2>7, <2>8, <2>9, <2>10 DEF ReceiveInteractions
<1>2. ASSUME NEW t \in Nat
      PROVE  [msg |-> "NEXT_EVENT", time |-> t] \in ReportMessage
  BY DEF ReportMessage, Reports
<1>3. EndReport \in ReportMessage
  BY DEF EndReport, ReportMessage, Reports, KernelTime
<1>4. CASE EndEmpty
  <2>1. outbox' \in Seq(ReportMessage)
    BY <1>4, <1>3 DEF EndEmpty, Report
  <2> QED
    BY <1>4, <2>1 DEF EndEmpty, Recheck
<1>5. CASE ReportNextEvent
  <2>1. nextTime' \in Nat /\ outbox' \in Seq(ReportMessage)
    BY <1>5, <1>2, <1>3 DEF ReportNextEvent, Report, Event
  <2> QED
    BY <1>5, <2>1 DEF ReportNextEvent, Recheck
<1>6. CASE FindNextEvent
  BY <1>6 DEF FindNextEvent, Recheck, Event
<1>7. CASE DropStale
  BY <1>7 DEF DropStale, EnterTakeNextEvent
<1> QED
  BY <1>1, <1>4, <1>5, <1>6, <1>7 DEF TakeNextEvent

(* So do the handlers of the modules. *)
LEMMA DispatchTypeOK == TypeOK /\ Dispatch => TypeOK'
<1> SUFFICES ASSUME TypeOK, Dispatch PROVE TypeOK'
  OBVIOUS
<1> USE DEF TypeOK, fedVars, wireVars, ambVars
<1>1. ASSUME NEW e \in Event, NEW K \in SUBSET EventKinds, Schedule(e, K)
      PROVE  fes' \in SUBSET Event /\ inserted' \in Nat
  BY <1>1 DEF Schedule, Event
<1>2. ASSUME NEW e \in Event, Take(e) PROVE simTime' \in KernelTime
  BY <1>2 DEF Take, Event, KernelTime
<1>3. CASE HandleMobility
  <2>1. stale' \in SUBSET Nat
    <3>1. {f.ord : f \in {g \in fes : g.kind = "INTERNAL"}} \in SUBSET Nat
      BY DEF Event
    <3> QED
      BY <1>3, <3>1 DEF HandleMobility
  <2> QED
    BY <1>3, <1>1, <1>2, <2>1
    DEF HandleMobility, Take, EnterTakeNextEvent, EventKinds
<1>4. CASE HandleModel
  BY <1>4, <1>1, <1>2 DEF HandleModel, Take, EnterTakeNextEvent, EventKinds
<1>5. CASE HandleReception
  <2>1. ASSUME NEW t \in Nat
        PROVE  [msg |-> "MSG_RECV", time |-> t] \in ReportMessage
    BY DEF ReportMessage, Reports
  <2> QED
    BY <1>5, <1>2, <2>1 DEF HandleReception, Take, EnterTakeNextEvent,
       Report, Event
<1>6. CASE HandleFinish
  BY <1>6, <1>2 DEF HandleFinish, Take
<1> QED
  BY <1>3, <1>4, <1>5, <1>6 DEF Dispatch

(* And so do the steps of the ambassador. *)
LEMMA AmbassadorTypeOK == TypeOK /\ Ambassador => TypeOK'
<1> SUFFICES ASSUME TypeOK, Ambassador PROVE TypeOK'
  OBVIOUS
<1> USE DEF TypeOK, fedVars, wireVars, ambVars
<1>1. ASSUME NEW c \in Commands, NEW t \in Nat, Write(c, t)
      PROVE  inbox' \in Seq(Message)
  BY <1>1 DEF Write, Message
<1>2. CASE SendCommand
  BY <1>2, <1>1 DEF SendCommand, Commands, TimedCommands
<1>3. CASE Advance
  <2>1. PICK g \in latest .. MaxTime : SendAdvance(g)
    BY <1>3 DEF Advance
  <2>2. g \in Nat
    BY SchedulerAssumption
  <2> QED
    BY <2>1, <2>2, <1>1 DEF SendAdvance, Commands
<1>4. CASE SendShutDown
  BY <1>4, <1>1 DEF SendShutDown, Commands
<1>5. CASE Close
  BY <1>5 DEF Close
<1>6. CASE ReadReply
  <2>1. replies' \in Nat
    BY <1>6 DEF ReadReply
  <2> QED
    BY <1>6, <2>1 DEF ReadReply
<1>7. CASE ReadReport
  <2>1. Head(outbox) \in ReportMessage /\ outbox' \in Seq(ReportMessage)
    BY <1>7 DEF ReadReport
  <2>2. awaiting' \in BOOLEAN /\ requests' \in SUBSET Nat
    BY <1>7, <2>1 DEF ReadReport, ReportMessage
  <2> QED
    BY <1>7, <2>1, <2>2 DEF ReadReport
<1> QED
  BY <1>2, <1>3, <1>4, <1>5, <1>6, <1>7 DEF Ambassador

(* Hence every step, of whatever party, keeps the types. *)
LEMMA NextTypeOK == TypeOK /\ [Next]_vars => TypeOK'
<1> SUFFICES ASSUME TypeOK, [Next]_vars PROVE TypeOK'
  OBVIOUS
<1>1. CASE SigPipe
  BY <1>1 DEF SigPipe, TypeOK, wireVars, ambVars
<1>2. CASE UNCHANGED vars
  BY <1>2 DEF vars, fedVars, wireVars, ambVars, TypeOK
<1> QED
  BY <1>1, <1>2, TakeNextEventTypeOK, DispatchTypeOK, AmbassadorTypeOK
  DEF Next, Federate, Terminated

(* Every variable always has a value of its type. *)
THEOREM TypeCorrect == Spec => []TypeOK
BY InitTypeOK, NextTypeOK, PTL DEF Spec

-----------------------------------------------------------------------------
(* What the steps of the federate do to the FES *)

(* A command puts an event of kind k at time t into the FES. *)
Insertion(k, t) ==
    /\ pc = "loop" /\ ~advancing /\ inbox # <<>>
    /\ inbox' = Tail(inbox)
    /\ fes' = fes \cup {[ord |-> inserted, ns |-> t, frac |-> 0, kind |-> k]}
    /\ inserted' = inserted + 1
    /\ pc' = "loop"
    /\ UNCHANGED <<advancing, maxTime, nextTime, simTime, stale, outbox, open,
                   ambVars>>

TimedInsertion ==
    /\ Head(inbox).cmd \in TimedCommands
    /\ Insertion(Head(inbox).cmd, Head(inbox).time)

FinishInsertion ==
    /\ Head(inbox).cmd = "SHUT_DOWN"
    /\ Insertion("FINISH", maxTime)

(* The head of the FES is taken out; its handler may put one event in. *)
Removal(e) ==
    /\ pc = "pop"
    /\ e \in fes
    /\ \A f \in fes : e.ns <= f.ns
    /\ \/ simTime' = simTime
       \/ simTime'.ns = e.ns
    /\ \/ pc' = "loop" /\ e.kind # "FINISH"
       \/ pc' = "ended" /\ e.kind = "FINISH"
    /\ \/ fes' = fes \ {e} /\ inserted' = inserted
       \/ \E f \in Event :
             /\ f.ord = inserted
             /\ e.ns <= f.ns
             /\ fes' = (fes \ {e}) \cup {f}
             /\ inserted' = inserted + 1
    /\ \A n \in stale' : n \in stale \/ \E f \in fes : f.ord = n /\ f.kind = "INTERNAL"
    /\ \/ outbox' = outbox
       \/ \E m \in ReportMessage :
             m.msg = "MSG_RECV" /\ outbox' = outbox \o <<m>>
    /\ UNCHANGED <<advancing, maxTime, inbox, open, ambVars>>

(* A command with a time inserts one event of that time. *)
LEMMA InsertionSteps ==
    ASSUME TypeOK, ProcessUpdateNode \/ ProcessMsgSend \/ ProcessConfRadio
    PROVE  TimedInsertion
BY DEF ProcessUpdateNode, ProcessMsgSend, ProcessConfRadio, Receive,
   PutBackEvent, Recheck, TimedInsertion, Insertion, TimedCommands, TypeOK

(* SHUT_DOWN inserts MosaicFinishCmd at the end of the grant. *)
LEMMA FinishSteps ==
    ASSUME TypeOK, ProcessShutDown
    PROVE  FinishInsertion
BY DEF ProcessShutDown, Receive, PutBackEvent, Recheck, FinishInsertion,
   Insertion, TypeOK

(* The head of the FES has the least time. *)
LEMMA HeadIsEarliest ==
    ASSUME TypeOK, NEW e \in fes, IsNext(e)
    PROVE  \A f \in fes : e.ns <= f.ns
BY DEF TypeOK, Event, IsNext, Precedes

(* Taking or dropping the head removes it and nothing else. *)
LEMMA RemovalSteps ==
    ASSUME TypeOK, OrdsUnique, DropStale \/ Dispatch
    PROVE  \E e \in fes : Removal(e)
<1>1. ASSUME NEW e \in fes, NEW K \in SUBSET EventKinds, Schedule(e, K)
      PROVE  \/ fes' = fes \ {e} /\ inserted' = inserted
             \/ \E f \in Event :
                   /\ f.ord = inserted
                   /\ e.ns <= f.ns
                   /\ fes' = (fes \ {e}) \cup {f}
                   /\ inserted' = inserted + 1
  <2>1. CASE fes' = fes \ {e} /\ UNCHANGED inserted
    BY <2>1
  <2>2. ASSUME NEW k \in K, NEW t \in e.ns .. MaxTime,
               NEW s \in 0 .. (SubNs - 1),
               fes' = (fes \ {e}) \cup
                  {[ord |-> inserted, ns |-> t, frac |-> s, kind |-> k]},
               inserted' = inserted + 1
        PROVE  \E f \in Event : /\ f.ord = inserted
                                /\ e.ns <= f.ns
                                /\ fes' = (fes \ {e}) \cup {f}
                                /\ inserted' = inserted + 1
    <3> DEFINE f == [ord |-> inserted, ns |-> t, frac |-> s, kind |-> k]
    <3>1. f \in Event /\ f.ord = inserted /\ e.ns <= f.ns
      BY SchedulerAssumption DEF TypeOK, Event
    <3> QED
      BY <2>2, <3>1
  <2> QED
    BY <1>1, <2>1, <2>2 DEF Schedule
<1>2. CASE DropStale
  BY <1>2, HeadIsEarliest DEF DropStale, EnterTakeNextEvent, Removal, OrdsUnique, wireVars
<1>3. CASE HandleMobility
  BY <1>3, <1>1, HeadIsEarliest
  DEF HandleMobility, Take, EnterTakeNextEvent, Removal, EventKinds
<1>4. CASE HandleModel
  BY <1>4, <1>1, HeadIsEarliest
  DEF HandleModel, Take, EnterTakeNextEvent, Removal, EventKinds
<1>5. CASE HandleReception
  <2>1. PICK e \in fes :
           /\ e.kind = "V2X" /\ Take(e) /\ fes' = fes \ {e}
           /\ Report(<<[msg |-> "MSG_RECV", time |-> e.ns]>>)
    BY <1>5 DEF HandleReception
  <2>2. [msg |-> "MSG_RECV", time |-> e.ns] \in ReportMessage
    BY DEF ReportMessage, Reports, TypeOK, Event
  <2>3. \/ outbox' = outbox
        \/ \E m \in ReportMessage :
              m.msg = "MSG_RECV" /\ outbox' = outbox \o <<m>>
    BY <2>1, <2>2 DEF Report
  <2> QED
    BY <1>5, <2>1, <2>3, HeadIsEarliest
    DEF HandleReception, Take, EnterTakeNextEvent, Removal
<1>6. CASE HandleFinish
  BY <1>6, HeadIsEarliest DEF HandleFinish, Take, Removal
<1> QED
  BY <1>2, <1>3, <1>4, <1>5, <1>6 DEF Dispatch

-----------------------------------------------------------------------------
(* The ways in which a step can touch what the invariant is about *)

(* The federate gives its grant back: EndEmpty or ReportNextEvent. *)
Yielding ==
    /\ pc = "loop" /\ advancing
    /\ \/ fes = {}
       \/ \E e \in fes : e.ns = nextTime'
    /\ pc' = "loop" /\ advancing' = FALSE
    /\ open => \/ outbox' = outbox \o <<EndReport>>
               \/ \E m \in ReportMessage :
                     /\ m.msg = "NEXT_EVENT"
                     /\ outbox' = outbox \o <<m, EndReport>>
    /\ UNCHANGED <<maxTime, simTime, fes, stale, inserted, inbox, open, ambVars>>

(* The loop finds an event the grant covers. *)
Finding ==
    /\ pc = "loop" /\ advancing
    /\ \E e \in fes : e.ns <= maxTime
    /\ pc' = "pop"
    /\ UNCHANGED <<advancing, maxTime, simTime, fes, stale, inserted, inbox,
                   outbox, open, ambVars>>

(* The federate takes a grant from the wire, or, at the end of the file,   *)
(* from nobody.                                                            *)
Granting ==
    /\ pc = "loop" /\ ~advancing /\ advancing'
    /\ \/ /\ inbox # <<>> /\ Head(inbox).cmd = "ADVANCE_TIME"
          /\ maxTime' = Head(inbox).time
          /\ inbox' = Tail(inbox)
       \/ /\ inbox = <<>> /\ ~open
          /\ UNCHANGED <<maxTime, inbox>>
    /\ \/ pc' = "loop"
       \/ pc' = "pop" /\ fes # {} /\ nextTime <= maxTime'
    /\ UNCHANGED <<nextTime, simTime, fes, stale, inserted, outbox, open,
                   ambVars>>

(* Giving the grant back: END is written, behind a request if any. *)
LEMMA YieldingSteps ==
    ASSUME TypeOK, EndEmpty \/ ReportNextEvent PROVE Yielding
<1>1. CASE EndEmpty
  BY <1>1 DEF EndEmpty, Recheck, Report, Yielding, TypeOK
<1>2. CASE ReportNextEvent
  <2>1. PICK e \in fes :
           /\ nextTime' = e.ns
           /\ Report(<<[msg |-> "NEXT_EVENT", time |-> e.ns], EndReport>>)
    BY <1>2 DEF ReportNextEvent
  <2>2. [msg |-> "NEXT_EVENT", time |-> e.ns] \in ReportMessage
    BY DEF ReportMessage, Reports, TypeOK, Event
  <2> QED
    BY <1>2, <2>1, <2>2 DEF ReportNextEvent, Recheck, Report, Yielding
<1> QED
  BY <1>1, <1>2

(* Finding the head within the grant notes its time as nextTime. *)
LEMMA FindingSteps ==
    ASSUME TypeOK, FindNextEvent PROVE Finding
<1>1. PICK e \in fes : e.ns <= maxTime /\ nextTime' = e.ns
  BY DEF FindNextEvent
<1>2. e.ns \in Nat
  BY DEF TypeOK, Event
<1> QED
  BY <1>1, <1>2
  DEF FindNextEvent, Recheck, Finding, TypeOK, wireVars, ambVars

(* ADVANCE_TIME makes the next grant the federate's own. *)
LEMMA GrantingSteps ==
    ASSUME TypeOK, TypeOK', ProcessAdvanceTime \/ ReceiveEndOfFile PROVE Granting
<1>1. CASE ProcessAdvanceTime
  BY <1>1 DEF ProcessAdvanceTime, Receive, Recheck, Granting, TypeOK
<1>2. CASE ReceiveEndOfFile
  BY <1>2 DEF ReceiveEndOfFile, DefaultBranch, Recheck, Granting, TypeOK
<1> QED
  BY <1>1, <1>2

(* A faithful ambassador never sends an unknown command. *)
LEMMA NoUnknown ==
    ASSUME TypeOK, InboxOrdered, ProcessUnknown PROVE FALSE
BY DEF InboxOrdered, ProcessUnknown, Receive, TypeOK

(* A step of the federate that reads no unknown command. *)
KnownStep ==
    \/ TimedInsertion
    \/ FinishInsertion
    \/ Granting
    \/ Yielding
    \/ Finding
    \/ \E e \in fes : Removal(e)

(* The federate's step is one of these, or it reads an unknown command. *)
LEMMA FederateKnows ==
    ASSUME TypeOK, TypeOK', OrdsUnique, Federate
    PROVE  KnownStep \/ ProcessUnknown
BY InsertionSteps, FinishSteps, GrantingSteps, YieldingSteps, FindingSteps,
   RemovalSteps
DEF KnownStep, Federate, TakeNextEvent, ReceiveInteractions

(* With a faithful ambassador it is always one of these. *)
LEMMA FederateSteps ==
    ASSUME TypeOK, TypeOK', OrdsUnique, InboxOrdered, Federate
    PROVE  \/ TimedInsertion
           \/ FinishInsertion
           \/ Granting
           \/ Yielding
           \/ Finding
           \/ \E e \in fes : Removal(e)
BY FederateKnows, NoUnknown DEF KnownStep

-----------------------------------------------------------------------------
(* Each part of the invariant is preserved by the federate *)

(* The clock stays within the grant, the grant within what was sent, and   *)
(* no event of the past gets into the FES.                                 *)
LEMMA FederateClocks ==
    ASSUME IInv, TypeOK', Federate
    PROVE  Clocks' /\ NoPastEvent'
<1> USE DEF IInv, TypeOK, Clocks, NoPastEvent, ambVars
<1>1. CASE TimedInsertion
  <2>1. maxTime <= Head(inbox).time
    BY <1>1 DEF TimedInsertion, Insertion, InboxOrdered
  <2> QED
    BY <1>1, <2>1 DEF TimedInsertion, Insertion, KernelTime, Event, Message
<1>2. CASE FinishInsertion
  BY <1>2 DEF FinishInsertion, Insertion, KernelTime
<1>3. CASE Granting
  <2>1. inbox # <<>> /\ Head(inbox).cmd = "ADVANCE_TIME" =>
           Head(inbox).time = horizon
    BY DEF InboxOrdered
  <2> QED
    BY <1>3, <2>1 DEF Granting, KernelTime
<1>4. CASE Yielding
  BY <1>4 DEF Yielding
<1>5. CASE Finding
  BY <1>5 DEF Finding
<1>6. ASSUME NEW e \in fes, Removal(e) PROVE Clocks' /\ NoPastEvent'
  <2>1. e.ns <= maxTime /\ simTime'.ns <= e.ns
    BY <1>6, SMTT(60) DEF Removal, PopSafe, KernelTime, Event
  <2>2. Clocks'
    BY <1>6, <2>1 DEF Removal, KernelTime, Event
  <2>3. \A f \in fes' : e.ns <= f.ns
    BY <1>6 DEF Removal
  <2>4. NoPastEvent'
    <3>1. simTime'.ns \in Nat /\ e.ns \in Nat /\ \A f \in fes' : f.ns \in Nat
      BY DEF KernelTime, Event
    <3> QED
      BY <2>1, <2>3, <3>1, SMTT(60)
  <2> QED
    BY <2>2, <2>4
<1> QED
  BY <1>1, <1>2, <1>3, <1>4, <1>5, <1>6, FederateSteps

(* Events keep their distinct insertion numbers, whatever is on the wire. *)
LEMMA KnownOrds ==
    ASSUME TypeOK, OrdsUnique, TypeOK', KnownStep
    PROVE  OrdsUnique'
<1> USE DEF TypeOK, OrdsUnique
<1>1. CASE TimedInsertion
  BY <1>1, SMTT(60) DEF TimedInsertion, Insertion, Event
<1>2. CASE FinishInsertion
  BY <1>2, SMTT(60) DEF FinishInsertion, Insertion, Event
<1>3. CASE Granting
  BY <1>3 DEF Granting
<1>4. CASE Yielding
  BY <1>4 DEF Yielding
<1>5. CASE Finding
  BY <1>5 DEF Finding
<1>6. ASSUME NEW e \in fes, Removal(e) PROVE OrdsUnique'
  <2>1. ASSUME NEW n \in stale'
        PROVE  n < inserted /\ \A g \in fes : g.ord = n => g.kind = "INTERNAL"
    <3>1. n \in stale \/ \E f \in fes : f.ord = n /\ f.kind = "INTERNAL"
      BY <1>6 DEF Removal
    <3> QED
      BY <3>1
  <2>2. CASE fes' = fes \ {e} /\ inserted' = inserted
    BY <2>1, <2>2
  <2>3. ASSUME NEW f \in Event, f.ord = inserted,
               fes' = (fes \ {e}) \cup {f}, inserted' = inserted + 1
        PROVE  OrdsUnique'
    <3>1. \A g \in fes : g.ord \in Nat /\ g.ord < inserted
      BY DEF Event
    <3>2. inserted \notin stale'
      BY <2>1
    <3>3. \A g \in fes' : g.ord < inserted'
      BY <2>3, <3>1
    <3>4. \A g, h \in fes' : g.ord = h.ord => g = h
      BY <2>3, <3>1
    <3>5. \A n \in stale' : n < inserted'
      BY <2>1, <2>3
    <3>6. \A g \in fes' : g.ord \in stale' => g.kind = "INTERNAL"
      BY <2>1, <2>3, <3>2
    <3> QED
      BY <3>3, <3>4, <3>5, <3>6
  <2> QED
    BY <1>6, <2>2, <2>3 DEF Removal
<1> QED
  BY <1>1, <1>2, <1>3, <1>4, <1>5, <1>6 DEF KnownStep

(* So does every step of the federate under a faithful ambassador. *)
LEMMA FederateOrds ==
    ASSUME IInv, TypeOK', Federate
    PROVE  OrdsUnique'
BY FederateSteps, KnownOrds DEF IInv, KnownStep

(* What is on the wire to the federate stays within its times, and none is *)
(* left when the federate takes a grant.                                   *)
LEMMA FederateInbox ==
    ASSUME IInv, TypeOK', Federate
    PROVE  InboxOrdered' /\ GrantHeld'
<1> USE DEF IInv, TypeOK, InboxOrdered, GrantHeld, ambVars
<1>1. CASE TimedInsertion
  BY <1>1, SMTT(60) DEF TimedInsertion, Insertion
<1>2. CASE FinishInsertion
  BY <1>2, SMTT(60) DEF FinishInsertion, Insertion
<1>3. CASE Granting
  BY <1>3 DEF Granting
<1>4. CASE Yielding
  BY <1>4 DEF Yielding
<1>5. CASE Finding
  BY <1>5 DEF Finding
<1>6. ASSUME NEW e \in fes, Removal(e) PROVE InboxOrdered' /\ GrantHeld'
  BY <1>6 DEF Removal
<1> QED
  BY <1>1, <1>2, <1>3, <1>4, <1>5, <1>6, FederateSteps

(* The grant stays in one place over a step of the federate. *)
LEMMA FederateGrant ==
    ASSUME IInv, TypeOK', Federate
    PROVE  GrantPlaced'
<1> SUFFICES ASSUME open PROVE GrantPlaced'
  <2>1. open' = open
    BY FederateSteps DEF IInv, TimedInsertion, FinishInsertion, Insertion,
       Granting, Yielding, Finding, Removal
  <2> QED
    BY <2>1 DEF GrantPlaced
<1> USE DEF IInv, TypeOK, GrantPlaced, GrantArriving, GrantReturning, ambVars
<1>1. ASSUME inbox # <<>>, inbox' = Tail(inbox)
      PROVE  /\ \A i \in DOMAIN inbox' : i + 1 \in DOMAIN inbox /\ inbox'[i] = inbox[i + 1]
             /\ \A i \in DOMAIN inbox : i # 1 => i - 1 \in DOMAIN inbox' /\ inbox'[i - 1] = inbox[i]
             /\ Head(inbox) = inbox[1]
  BY <1>1, SMTT(60)
<1>2. ASSUME Head(inbox).cmd # "ADVANCE_TIME", inbox # <<>>, inbox' = Tail(inbox)
      PROVE  GrantArriving' <=> GrantArriving
  BY <1>1, <1>2
<1>3. CASE TimedInsertion
  BY <1>3, <1>2 DEF TimedInsertion, Insertion, TimedCommands
<1>4. CASE FinishInsertion
  BY <1>4, <1>2 DEF FinishInsertion, Insertion
<1>5. CASE Granting
  <2>1. GrantArriving /\ inbox # <<>> /\ inbox' = Tail(inbox)
    BY <1>5 DEF Granting
  <2>2. ~GrantReturning /\ ~GrantReturning'
    BY <1>5, <2>1 DEF Granting
  <2> QED
    BY <1>5, <2>2 DEF Granting
<1>6. CASE Yielding
  <2>1. inbox = <<>> /\ awaiting /\ ~GrantReturning
    BY <1>6 DEF Yielding, GrantHeld
  <2>2. EndReport.msg = "END"
    BY DEF EndReport
  <2>3. CASE outbox' = outbox \o <<EndReport>>
    <3>1. EndReport \in ReportMessage
      BY DEF EndReport, ReportMessage, Reports, KernelTime
    <3>2. /\ \A i \in DOMAIN outbox' :
                (i \in DOMAIN outbox /\ outbox'[i] = outbox[i]) \/ i = Len(outbox')
          /\ Len(outbox') \in DOMAIN outbox' /\ outbox'[Len(outbox')] = EndReport
      BY <2>3, <3>1
    <3> QED
      BY <1>6, <2>1, <2>2, <3>2 DEF Yielding
  <2>4. ASSUME NEW m \in ReportMessage, m.msg = "NEXT_EVENT",
               outbox' = outbox \o <<m, EndReport>>
        PROVE  GrantPlaced'
    <3>1. EndReport \in ReportMessage
      BY DEF EndReport, ReportMessage, Reports, KernelTime
    <3>2. /\ Len(outbox') = Len(outbox) + 2
          /\ \A i \in DOMAIN outbox : outbox'[i] = outbox[i]
          /\ outbox'[Len(outbox) + 1] = m
          /\ outbox'[Len(outbox) + 2] = EndReport
      BY <2>4, <3>1, SMTT(60)
    <3>3. /\ \A i \in DOMAIN outbox' :
                \/ i \in DOMAIN outbox /\ outbox'[i] = outbox[i]
                \/ outbox'[i] = m
                \/ i = Len(outbox')
          /\ Len(outbox') \in DOMAIN outbox' /\ outbox'[Len(outbox')] = EndReport
      BY <3>2, SMTT(60)
    <3>4. \A i \in DOMAIN outbox' : outbox'[i].msg = "END" => i = Len(outbox')
      <4>1. \A i \in DOMAIN outbox : outbox[i].msg # "END"
        BY <2>1
      <4> QED
        BY <2>4, <3>3, <4>1
    <3>5. ~advancing' /\ awaiting' /\ inbox' = <<>>
      BY <1>6, <2>1 DEF Yielding
    <3>6. GrantReturning'
      BY <2>2, <3>3
    <3> QED
      BY <3>4, <3>5, <3>6
  <2> QED
    BY <1>6, <2>3, <2>4 DEF Yielding
<1>7. CASE Finding
  BY <1>7 DEF Finding
<1>8. ASSUME NEW e \in fes, Removal(e) PROVE GrantPlaced'
  <2>1. advancing /\ ~GrantReturning
    BY <1>8 DEF Removal, PopSafe
  <2>2. CASE outbox' = outbox
    BY <1>8, <2>1, <2>2 DEF Removal
  <2>3. ASSUME NEW m \in ReportMessage, m.msg = "MSG_RECV",
               outbox' = outbox \o <<m>>
        PROVE  GrantPlaced'
    BY <1>8, <2>1, <2>3 DEF Removal
  <2> QED
    BY <1>8, <2>2, <2>3 DEF Removal
<1> QED
  BY <1>3, <1>4, <1>5, <1>6, <1>7, <1>8, FederateSteps

(* MosaicFinishCmd stays on its way until it is handled. *)
LEMMA FederateFinish ==
    ASSUME IInv, TypeOK', Federate
    PROVE  FinishComing'
<1> USE DEF IInv, TypeOK, FinishComing, Running, ambVars
<1>1. ASSUME inbox # <<>>, inbox' = Tail(inbox), Head(inbox).cmd # "SHUT_DOWN",
             NEW i \in DOMAIN inbox, inbox[i].cmd = "SHUT_DOWN"
      PROVE  \E j \in DOMAIN inbox' : inbox'[j].cmd = "SHUT_DOWN"
  <2>1. i \in 1 .. Len(inbox) /\ i # 1
    BY <1>1, SMTT(60)
  <2>2. Len(inbox') = Len(inbox) - 1 /\ inbox' \in Seq(Message)
    BY <1>1, SMTT(60)
  <2>3. i - 1 \in DOMAIN inbox' /\ inbox'[i - 1] = inbox[i]
    BY <1>1, <2>1, <2>2, SMTT(60)
  <2> QED
    BY <1>1, <2>3
<1>2. CASE TimedInsertion
  <2>1. Head(inbox).cmd # "SHUT_DOWN" /\ inbox # <<>> /\ inbox' = Tail(inbox)
    BY <1>2 DEF TimedInsertion, Insertion, TimedCommands
  <2> QED
    BY <1>2, <1>1, <2>1 DEF TimedInsertion, Insertion
<1>3. CASE FinishInsertion
  <2> DEFINE f == [ord |-> inserted, ns |-> maxTime, frac |-> 0, kind |-> "FINISH"]
  <2>1. f \in fes' /\ f.kind = "FINISH" /\ f.ns <= maxTime'
    BY <1>3 DEF FinishInsertion, Insertion
  <2> QED
    BY <1>3, <2>1 DEF FinishInsertion, Insertion
<1>7. CASE Granting
  <2>1. CASE inbox = <<>> /\ UNCHANGED <<maxTime, inbox>>
    BY <1>7, <2>1 DEF Granting
  <2>2. CASE inbox # <<>> /\ Head(inbox).cmd = "ADVANCE_TIME"
             /\ maxTime' = Head(inbox).time /\ inbox' = Tail(inbox)
    <3>1. maxTime <= maxTime'
      BY <2>2, SMTT(60) DEF InboxOrdered, Clocks
    <3>2. \A e \in fes : e.ns <= maxTime => e.ns <= maxTime'
      BY <3>1 DEF Event
    <3> QED
      BY <1>7, <1>1, <2>2, <3>2 DEF Granting
  <2> QED
    BY <1>7, <2>1, <2>2 DEF Granting
<1>4. CASE Yielding
  BY <1>4 DEF Yielding
<1>5. CASE Finding
  BY <1>5 DEF Finding
<1>6. ASSUME NEW e \in fes, Removal(e) PROVE FinishComing'
  BY <1>6 DEF Removal
<1> QED
  BY <1>2, <1>3, <1>4, <1>5, <1>6, <1>7, FederateSteps

(* A nextTime of any age stays safe to leave the loop with. *)
LEMMA FederateLoop ==
    ASSUME IInv, TypeOK', Federate
    PROVE  NextTimeSafe' /\ PopSafe'
<1> USE DEF IInv, TypeOK, NextTimeSafe, PopSafe, ambVars
<1>1. CASE TimedInsertion
  BY <1>1 DEF TimedInsertion, Insertion, InboxOrdered
<1>2. CASE FinishInsertion
  BY <1>2 DEF FinishInsertion, Insertion, Clocks
<1>3. CASE Granting
  BY <1>3, SMTT(60) DEF Granting, InboxOrdered, FinishComing, Running, Event
<1>4. CASE Yielding
  BY <1>4 DEF Yielding, Event
<1>5. CASE Finding
  BY <1>5 DEF Finding
<1>6. ASSUME NEW e \in fes, Removal(e) PROVE NextTimeSafe' /\ PopSafe'
  BY <1>6 DEF Removal
<1> QED
  BY <1>1, <1>2, <1>3, <1>4, <1>5, <1>6, FederateSteps

-----------------------------------------------------------------------------
(* The ambassador and the kernel of the operating system preserve it *)

(* The ambassador writes m behind everything on the wire. *)
LEMMA WritingKeeps ==
    ASSUME TypeOK, NEW m \in Message, inbox' = Append(inbox, m)
    PROVE  /\ Len(inbox') = Len(inbox) + 1
           /\ DOMAIN inbox \subseteq DOMAIN inbox'
           /\ \A i \in DOMAIN inbox : inbox'[i] = inbox[i]
           /\ inbox'[Len(inbox')] = m
           /\ \A i \in DOMAIN inbox' : i \in DOMAIN inbox \/ i = Len(inbox')
BY DEF TypeOK

(* The ambassador's steps leave the federate's clocks, FES and loop alone. *)
LEMMA AmbassadorClocks ==
    ASSUME IInv, TypeOK', Ambassador
    PROVE  /\ Clocks' /\ NoPastEvent' /\ OrdsUnique'
           /\ NextTimeSafe' /\ PopSafe'
<1> USE DEF IInv, TypeOK, Clocks, NoPastEvent, OrdsUnique, NextTimeSafe,
            PopSafe, fedVars, ambVars
<1>1. UNCHANGED fedVars /\ horizon <= horizon' /\ horizon' <= latest'
         /\ latest <= latest'
  <2>1. CASE SendCommand
    BY <2>1 DEF SendCommand
  <2>2. CASE Advance
    <3>1. PICK g \in latest .. MaxTime : SendAdvance(g)
      BY <2>2 DEF Advance
    <3> QED
      BY <3>1 DEF SendAdvance
  <2>3. CASE SendShutDown
    BY <2>3 DEF SendShutDown
  <2>4. CASE Close
    BY <2>4 DEF Close
  <2>5. CASE ReadReply
    BY <2>5 DEF ReadReply
  <2>6. CASE ReadReport
    BY <2>6 DEF ReadReport
  <2> QED
    BY <2>1, <2>2, <2>3, <2>4, <2>5, <2>6 DEF Ambassador
<1>2. \A e \in fes : e.ns \in Nat
  BY DEF Event
<1> QED
  BY <1>1, <1>2

(* What the ambassador writes keeps to the times on the wire, comes only   *)
(* when no grant is out, and nothing follows a SHUT_DOWN.                  *)
LEMMA AmbassadorInbox ==
    ASSUME IInv, TypeOK', Ambassador
    PROVE  InboxOrdered' /\ GrantHeld' /\ FinishComing'
<1> USE DEF IInv, TypeOK, Clocks, InboxOrdered, GrantHeld, FinishComing,
            Running, MaySend, fedVars, ambVars
<1>1. CASE SendCommand
  <2>1. PICK c \in TimedCommands, t \in horizon .. MaxTime :
           /\ Write(c, t)
           /\ latest' = IF t > latest THEN t ELSE latest
    BY <1>1 DEF SendCommand
  <2> DEFINE m == [cmd |-> c, time |-> t]
  <2>2. m \in Message /\ inbox' = Append(inbox, m)
    BY <2>1 DEF Write, Message, Commands
  <2>3. maxTime <= t /\ t <= latest' /\ latest <= latest'
    BY <2>1
  <2>4. \A i \in DOMAIN inbox : inbox[i].cmd # "ADVANCE_TIME"
    BY <1>1 DEF SendCommand
  <2>5. InboxOrdered'
    <3>1. m.cmd \in TimedCommands /\ m.cmd # "UNKNOWN" /\ m.cmd # "ADVANCE_TIME" /\ m.time = t
      BY DEF TimedCommands
    <3>2. UNCHANGED <<maxTime, awaiting, horizon>>
      BY <1>1 DEF SendCommand
    <3>3. \A i \in DOMAIN inbox : inbox[i].time \in Nat
      <4>1. \A i \in DOMAIN inbox : inbox[i] \in Message
        BY SMTT(60)
      <4> QED
        BY <4>1 DEF Message
    <3> QED
      BY <2>2, <2>3, <2>4, <3>1, <3>2, <3>3, WritingKeeps, SMTT(60)
  <2>6. GrantHeld' /\ FinishComing'
    BY <1>1, <2>2, WritingKeeps DEF SendCommand
  <2> QED
    BY <2>5, <2>6
<1>2. CASE Advance
  <2>1. PICK g \in latest .. MaxTime : SendAdvance(g)
    BY <1>2 DEF Advance
  <2> DEFINE m == [cmd |-> "ADVANCE_TIME", time |-> g]
  <2>2. m \in Message /\ inbox' = Append(inbox, m)
    BY <2>1 DEF SendAdvance, Write, Message, Commands
  <2>3. \A i \in DOMAIN inbox : inbox[i].cmd # "ADVANCE_TIME"
    BY <2>1 DEF SendAdvance
  <2>4. InboxOrdered'
    <3>1. m.cmd \notin TimedCommands /\ m.cmd # "UNKNOWN" /\ m.time = g
      BY DEF TimedCommands
    <3>2. /\ maxTime' = maxTime /\ awaiting' /\ horizon' = g /\ latest' = g
          /\ latest <= latest'
      BY <2>1 DEF SendAdvance
    <3>3. \A i \in DOMAIN inbox : inbox[i].time \in Nat
      <4>1. \A i \in DOMAIN inbox : inbox[i] \in Message
        OBVIOUS
      <4> QED
        BY <4>1 DEF Message
    <3> QED
      BY <2>2, <2>3, <3>1, <3>2, <3>3, WritingKeeps, SMTT(60)
  <2>5. GrantHeld' /\ FinishComing'
    BY <2>1, <2>2, WritingKeeps DEF SendAdvance
  <2> QED
    BY <2>4, <2>5
<1>3. CASE SendShutDown
  <2> DEFINE m == [cmd |-> "SHUT_DOWN", time |-> 0]
  <2>1. m \in Message /\ inbox' = Append(inbox, m)
    BY <1>3 DEF SendShutDown, Write, Message, Commands
  <2>2. \A i \in DOMAIN inbox : inbox[i].cmd # "ADVANCE_TIME"
    BY <1>3 DEF SendShutDown
  <2>3. InboxOrdered'
    BY <1>3, <2>1, <2>2, WritingKeeps DEF SendShutDown, TimedCommands
  <2>4. GrantHeld' /\ FinishComing'
    BY <1>3, <2>1, WritingKeeps DEF SendShutDown
  <2> QED
    BY <2>3, <2>4
<1>4. CASE Close
  BY <1>4 DEF Close
<1>5. CASE ReadReply
  BY <1>5 DEF ReadReply
<1>6. CASE ReadReport
  <2>1. awaiting' = awaiting \/ (~advancing /\ ~GrantArriving)
    BY <1>6 DEF ReadReport, GrantPlaced, GrantReturning
  <2> QED
    BY <1>6, <2>1 DEF ReadReport, GrantArriving
<1> QED
  BY <1>1, <1>2, <1>3, <1>4, <1>5, <1>6 DEF Ambassador

(* The grant stays in one place over a step of the ambassador. *)
LEMMA AmbassadorGrant ==
    ASSUME IInv, TypeOK', Ambassador
    PROVE  GrantPlaced'
<1> USE DEF IInv, TypeOK, GrantPlaced, GrantArriving, GrantReturning, MaySend,
            fedVars, ambVars
<1>1. CASE SendCommand
  <2>1. PICK c \in TimedCommands, t \in horizon .. MaxTime : Write(c, t)
    BY <1>1 DEF SendCommand
  <2>2. [cmd |-> c, time |-> t] \in Message
    BY DEF Message, Commands
  <2> QED
    BY <1>1, <2>1, <2>2, WritingKeeps DEF SendCommand, Write, TimedCommands
<1>2. CASE Advance
  <2>1. PICK g \in latest .. MaxTime : SendAdvance(g)
    BY <1>2 DEF Advance
  <2> DEFINE m == [cmd |-> "ADVANCE_TIME", time |-> g]
  <2>2. m \in Message /\ inbox' = Append(inbox, m)
    BY <2>1 DEF Message, Commands, SendAdvance, Write
  <2>3. GrantArriving'
    BY <2>2, WritingKeeps, SMTT(60)
  <2>4. ~GrantReturning /\ outbox' = outbox /\ awaiting'
    BY <2>1 DEF SendAdvance
  <2> QED
    BY <2>3, <2>4
<1>3. CASE SendShutDown
  <2>1. [cmd |-> "SHUT_DOWN", time |-> 0] \in Message
    BY DEF Message, Commands
  <2> QED
    BY <1>3, <2>1, WritingKeeps DEF SendShutDown, Write
<1>4. CASE Close
  BY <1>4 DEF Close
<1>5. CASE ReadReply
  BY <1>5 DEF ReadReply
<1>6. CASE ReadReport
  <2>1. /\ \A i \in DOMAIN outbox' :
              i + 1 \in DOMAIN outbox /\ outbox'[i] = outbox[i + 1]
        /\ \A i \in DOMAIN outbox :
              i # 1 => i - 1 \in DOMAIN outbox' /\ outbox'[i - 1] = outbox[i]
        /\ Head(outbox) = outbox[1] /\ 1 \in DOMAIN outbox
        /\ Len(outbox') = Len(outbox) - 1
    BY <1>6 DEF ReadReport
  <2>2. CASE Head(outbox).msg = "END"
    BY <1>6, <2>1, <2>2 DEF ReadReport
  <2>3. CASE Head(outbox).msg # "END"
    <3>1. GrantReturning' <=> GrantReturning
      BY <2>1, <2>3
    <3>2. \A i \in DOMAIN outbox' :
             outbox'[i].msg = "END" => i = Len(outbox') /\ awaiting
      BY <1>6, <2>1 DEF ReadReport
    <3>3. /\ awaiting' = awaiting
          /\ UNCHANGED <<open, advancing, inbox>>
      BY <1>6, <2>3 DEF ReadReport
    <3> QED
      BY <3>1, <3>2, <3>3
  <2> QED
    BY <2>2, <2>3
<1> QED
  BY <1>1, <1>2, <1>3, <1>4, <1>5, <1>6 DEF Ambassador

-----------------------------------------------------------------------------
(* The theorems *)

(* The state after the handshake satisfies the invariant. *)
LEMMA InitIInv == Init => IInv
<1> SUFFICES ASSUME Init PROVE IInv
  OBVIOUS
<1>1. TypeOK
  BY InitTypeOK
<1> QED
  BY <1>1, SchedulerAssumption
  DEF Init, IInv, Clocks, NoPastEvent, OrdsUnique, InboxOrdered, GrantHeld,
      GrantPlaced, GrantReturning, NextTimeSafe, PopSafe, FinishComing

(* Every step, of whatever party, keeps the invariant. *)
LEMMA NextIInv == IInv /\ [Next]_vars => IInv'
<1> SUFFICES ASSUME IInv, [Next]_vars PROVE IInv'
  OBVIOUS
<1>1. TypeOK'
  BY NextTypeOK DEF IInv
<1>2. CASE Federate
  BY <1>1, <1>2, FederateClocks, FederateOrds, FederateInbox, FederateGrant,
     FederateFinish, FederateLoop DEF IInv
<1>3. CASE Ambassador
  BY <1>1, <1>3, AmbassadorClocks, AmbassadorInbox, AmbassadorGrant DEF IInv
<1>4. CASE SigPipe
  BY <1>1, <1>4 DEF SigPipe, IInv, Clocks, NoPastEvent, OrdsUnique,
     InboxOrdered, GrantHeld, GrantPlaced, GrantArriving, GrantReturning,
     NextTimeSafe, PopSafe, FinishComing, Running, wireVars, ambVars
<1>5. CASE UNCHANGED vars
  BY <1>5 DEF vars, fedVars, wireVars, ambVars, IInv, TypeOK, Clocks,
     NoPastEvent, OrdsUnique, InboxOrdered, GrantHeld, GrantPlaced,
     GrantArriving, GrantReturning, NextTimeSafe, PopSafe, FinishComing,
     Running
<1> QED
  BY <1>2, <1>3, <1>4, <1>5 DEF Next, Terminated

(* The inductive invariant: what the federate, the wire and the ambassador *)
(* know of each other's times at every step of takeNextEvent.              *)
THEOREM Invariance == Spec => []IInv
BY InitIInv, NextIInv, PTL DEF Spec

(* The scheduler never hands the kernel an event beyond its grant. *)
THEOREM GrantSafety == Spec => []WithinGrant
<1>1. IInv => WithinGrant
  <2> SUFFICES ASSUME IInv, pc = "pop", NEW e \in fes, IsNext(e)
               PROVE  e.ns <= maxTime
    BY DEF WithinGrant
  <2>1. PICK f \in fes : f.ns <= maxTime
    BY DEF IInv, PopSafe
  <2>2. e.ns <= f.ns
    BY HeadIsEarliest DEF IInv
  <2> QED
    BY <2>1, <2>2 DEF IInv, TypeOK, Event
<1> QED
  BY <1>1, Invariance, PTL

(* The grant is in exactly one place while the ambassador waits for its    *)
(* END, and in none while it does not.                                     *)
THEOREM GrantConservation == Spec => []OneGrant
<1>1. IInv => OneGrant
  <2> SUFFICES ASSUME IInv, open PROVE OneGrant
    BY DEF OneGrant
  <2> DEFINE arriving == {i \in DOMAIN inbox : inbox[i].cmd = "ADVANCE_TIME"}
             returning == {i \in DOMAIN outbox : outbox[i].msg = "END"}
             held == IF advancing THEN {0} ELSE {}
  <2> USE DEF IInv, TypeOK, GrantArriving, GrantReturning
  <2>1. Cardinality(arriving) = IF GrantArriving THEN 1 ELSE 0
    <3>1. CASE GrantArriving
      <4>1. arriving = {Len(inbox)}
        BY <3>1 DEF InboxOrdered
      <4> QED
        BY <3>1, <4>1, FS_Singleton
    <3>2. CASE ~GrantArriving
      <4>1. arriving = {}
        BY <3>2
      <4> QED
        BY <3>2, <4>1, FS_EmptySet
    <3> QED
      BY <3>1, <3>2
  <2>2. Cardinality(returning) = IF GrantReturning THEN 1 ELSE 0
    <3>1. CASE GrantReturning
      <4>1. returning = {Len(outbox)}
        BY <3>1 DEF GrantPlaced
      <4> QED
        BY <3>1, <4>1, FS_Singleton
    <3>2. CASE ~GrantReturning
      <4>1. returning = {}
        BY <3>2
      <4> QED
        BY <3>2, <4>1, FS_EmptySet
    <3> QED
      BY <3>1, <3>2
  <2>3. Cardinality(held) = IF advancing THEN 1 ELSE 0
    BY FS_Singleton, FS_EmptySet
  <2>4. /\ GrantReturning => awaiting /\ ~advancing /\ ~GrantArriving
        /\ advancing => awaiting /\ ~GrantArriving
        /\ GrantArriving => awaiting
        /\ awaiting => GrantArriving \/ advancing \/ GrantReturning
    BY DEF InboxOrdered, GrantHeld, GrantPlaced
  <2> HIDE DEF arriving, returning, held
  <2>5. Cardinality(arriving) + Cardinality(held) + Cardinality(returning)
           = IF awaiting THEN 1 ELSE 0
    BY <2>1, <2>2, <2>3, <2>4
  <2> QED
    BY <2>5 DEF OneGrant, arriving, returning, held
<1> QED
  BY <1>1, Invariance, PTL

(* Every step of the scheduler is a step of TimeAdvance or stutters. *)
LEMMA StepRefines == IInv /\ IInv' /\ [Next]_vars => [TA!Next]_TA!vars
<1> SUFFICES ASSUME IInv, IInv', [Next]_vars PROVE [TA!Next]_TA!vars
  OBVIOUS
<1> USE DEF IInv, TypeOK, Clocks, TA!Next, TA!vars, ambVars, fedVars, wireVars
<1>1. simTime.ns \in Nat /\ simTime'.ns \in Nat
  BY DEF KernelTime
<1>2. CASE Federate
  <2>1. CASE TimedInsertion
    BY <2>1 DEF TimedInsertion, Insertion
  <2>2. CASE FinishInsertion
    BY <2>2 DEF FinishInsertion, Insertion
  <2>3. CASE Granting
    <3>1. maxTime <= maxTime'
      BY <2>3 DEF Granting, InboxOrdered
    <3> QED
      BY <2>3, <3>1 DEF Granting, TA!Grant
  <2>4. CASE Yielding
    BY <2>4 DEF Yielding, TA!Yield
  <2>5. CASE Finding
    BY <2>5 DEF Finding
  <2>6. ASSUME NEW e \in fes, Removal(e) PROVE [TA!Next]_TA!vars
    <3>1. advancing /\ UNCHANGED <<advancing, maxTime>>
      BY <2>6 DEF Removal, PopSafe
    <3>2. simTime.ns <= simTime'.ns
      BY <2>6, <1>1 DEF Removal, NoPastEvent
    <3> QED
      BY <3>1, <3>2, <1>1 DEF TA!Run
  <2> QED
    BY <1>2, <2>1, <2>2, <2>3, <2>4, <2>5, <2>6, FederateSteps
<1>3. CASE Ambassador
  BY <1>3 DEF Ambassador, SendCommand, Advance, SendAdvance, SendShutDown,
     Close, ReadReply, ReadReport
<1>4. CASE SigPipe
  BY <1>4 DEF SigPipe
<1>5. CASE UNCHANGED vars
  BY <1>5 DEF vars
<1> QED
  BY <1>2, <1>3, <1>4, <1>5 DEF Next, Terminated

(* The scheduler implements conservative time advance. *)
THEOREM Implementation == Spec => ImplementsTimeAdvance
<1>1. Init => TA!Init
  BY SchedulerAssumption DEF Init, TA!Init
<1> QED
  BY <1>1, StepRefines, Invariance, PTL DEF Spec, ImplementsTimeAdvance, TA!Spec
=============================================================================
