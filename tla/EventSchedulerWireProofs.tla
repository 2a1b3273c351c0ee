---------------------- MODULE EventSchedulerWireProofs ----------------------
(***************************************************************************)
(* Theorems about what the scheduler and the ambassador tell each other:   *)
(* replies, receptions, and the END and NEXT_EVENT with which a grant is   *)
(* given back.  They build on IInv, which says when the federate can take  *)
(* a step at all: not while an END is on its way.                          *)
(***************************************************************************)
EXTENDS EventSchedulerProofs

(* Reports have the fields of reports. *)
LEMMA ReportsTyped ==
    ASSUME TypeOK
    PROVE  \A i \in DOMAIN outbox :
              outbox[i].msg \in Reports /\ outbox[i].time \in Nat
<1> SUFFICES ASSUME NEW i \in DOMAIN outbox
             PROVE  outbox[i].msg \in Reports /\ outbox[i].time \in Nat
  OBVIOUS
<1>1. outbox[i] \in ReportMessage
  BY DEF TypeOK
<1> QED
  BY <1>1 DEF ReportMessage

(* The report m is written behind everything on the wire. *)
LEMMA ReportedLast ==
    ASSUME TypeOK, NEW m \in ReportMessage, outbox' = outbox \o <<m>>
    PROVE  /\ Len(outbox') = Len(outbox) + 1
           /\ \A i \in DOMAIN outbox : outbox'[i] = outbox[i]
           /\ outbox'[Len(outbox')] = m
           /\ \A i \in DOMAIN outbox' : i \in DOMAIN outbox \/ i = Len(outbox')
BY DEF TypeOK

(* Two reports are written behind everything on the wire. *)
LEMMA ReportedTwo ==
    ASSUME TypeOK, NEW m \in ReportMessage, NEW n \in ReportMessage,
           outbox' = outbox \o <<m, n>>
    PROVE  /\ Len(outbox') = Len(outbox) + 2
           /\ \A i \in DOMAIN outbox : outbox'[i] = outbox[i]
           /\ outbox'[Len(outbox) + 1] = m
           /\ outbox'[Len(outbox) + 2] = n
           /\ \A i \in DOMAIN outbox' :
                 i \in DOMAIN outbox \/ i = Len(outbox) + 1 \/ i = Len(outbox) + 2
BY DEF TypeOK

(* The ambassador has read the first report. *)
LEMMA ReportRead ==
    ASSUME TypeOK, ReadReport
    PROVE  /\ Len(outbox') = Len(outbox) - 1
           /\ \A i \in DOMAIN outbox' :
                 i + 1 \in DOMAIN outbox /\ outbox'[i] = outbox[i + 1]
           /\ 1 \in DOMAIN outbox /\ Head(outbox) = outbox[1]
BY DEF TypeOK, ReadReport

(* END carries the time of the last event. *)
LEMMA EndReportType ==
    ASSUME TypeOK
    PROVE  EndReport \in ReportMessage /\ EndReport.msg = "END"
              /\ EndReport.time = simTime.ns
BY DEF TypeOK, EndReport, ReportMessage, Reports, KernelTime

-----------------------------------------------------------------------------
(* Receptions *)

(* Every reception on the wire is past, and none is earlier than a         *)
(* reception, or later than an END, that follows it.                       *)
ReceptionsPast ==
    \A i, j \in DOMAIN outbox :
       i <= j /\ outbox[i].msg = "MSG_RECV" =>
          /\ outbox[i].time <= simTime.ns
          /\ outbox[j].msg \in {"MSG_RECV", "END"} =>
                outbox[i].time <= outbox[j].time

(* The grant on its way back, with no command on the other socket: the     *)
(* federate waits for the ambassador to read the END.                      *)
ReturnQuiet == open /\ GrantReturning => inbox = <<>>

(* A request is followed by its END. *)
RequestFollowed ==
    open /\ (\E i \in DOMAIN outbox : outbox[i].msg = "NEXT_EVENT") =>
       GrantReturning

(* No event is earlier than the request before the END, or than one that   *)
(* the ambassador has read.                                                *)
RequestsCover ==
    \A i \in DOMAIN outbox :
       open /\ outbox[i].msg = "END" =>
          \A e \in fes :
             \/ i > 1 /\ outbox[i - 1].msg = "NEXT_EVENT"
                   /\ outbox[i - 1].time <= e.ns
             \/ \E r \in requests : r <= e.ns

(* A command the ambassador is free to follow up was sent since its last   *)
(* grant, and a SHUT_DOWN on the wire is remembered.                       *)
CommandsFresh ==
    \A i \in DOMAIN inbox :
       /\ open /\ inbox[i].cmd \in TimedCommands => awaiting \/ fresh
       /\ inbox[i].cmd = "SHUT_DOWN" => shut

(* The ambassador that holds the grant knows of every event. *)
EventsKnown ==
    open /\ ~shut /\ ~awaiting =>
       \A e \in fes : \/ fresh /\ e.ns <= latest
                      \/ \E r \in requests : r <= e.ns

(* What is on the wire between the federate and the ambassador fits what   *)
(* is left in the FES; with IInv this is preserved by every step.          *)
WireInv ==
    /\ ReceptionsPast
    /\ ReturnQuiet
    /\ RequestFollowed
    /\ GrantExhausted
    /\ RequestsCover
    /\ CommandsFresh
    /\ EventsKnown

-----------------------------------------------------------------------------
(* Replies *)

(* Reading a command that needs no reply leaves the others where they are. *)
LEMMA CommandLeft ==
    ASSUME TypeOK, inbox # <<>>, inbox' = Tail(inbox),
           Head(inbox).cmd \notin TimedCommands \cup {"UNKNOWN"},
           NEW i \in DOMAIN inbox, inbox[i].cmd \in TimedCommands \cup {"UNKNOWN"}
    PROVE  \E j \in DOMAIN inbox' : inbox'[j].cmd \in TimedCommands \cup {"UNKNOWN"}
<1> USE DEF TypeOK
<1>1. i \in 1 .. Len(inbox) /\ i # 1
  OBVIOUS
<1>2. i - 1 \in DOMAIN inbox' /\ inbox'[i - 1] = inbox[i]
  BY <1>1
<1> QED
  BY <1>2

(* A step of the federate replies to the command it reads. *)
LEMMA FederateReplies ==
    ASSUME TypeOK, NoReplyMissing, Federate
    PROVE  NoReplyMissing'
<1> SUFFICES ASSUME unacked', open'
             PROVE  \/ replies' > 0
                    \/ \E i \in DOMAIN inbox' :
                          inbox'[i].cmd \in TimedCommands \cup {"UNKNOWN"}
  BY DEF NoReplyMissing
<1> USE DEF TypeOK, NoReplyMissing, wireVars, ambVars
<1>1. CASE ProcessUpdateNode
  BY <1>1 DEF ProcessUpdateNode, Receive, Reply
<1>2. CASE ProcessMsgSend
  BY <1>2 DEF ProcessMsgSend, Receive, Reply
<1>3. CASE ProcessConfRadio
  BY <1>3 DEF ProcessConfRadio, Receive, Reply
<1>4. CASE ProcessAdvanceTime
  BY <1>4, CommandLeft DEF ProcessAdvanceTime, Receive, TimedCommands
<1>5. CASE ProcessShutDown
  BY <1>5, CommandLeft DEF ProcessShutDown, Receive, TimedCommands
<1>6. CASE ProcessUnknown
  BY <1>6 DEF ProcessUnknown, DefaultBranch, Receive, Reply
<1>7. CASE ReceiveEndOfFile
  BY <1>7 DEF ReceiveEndOfFile
<1>8. CASE EndEmpty \/ ReportNextEvent \/ FindNextEvent \/ DropStale
  BY <1>8 DEF EndEmpty, ReportNextEvent, FindNextEvent, DropStale
<1>9. CASE Dispatch
  BY <1>9 DEF Dispatch, HandleMobility, HandleModel, HandleReception,
     HandleFinish, Take
<1> QED
  BY <1>1, <1>2, <1>3, <1>4, <1>5, <1>6, <1>7, <1>8, <1>9
  DEF Federate, TakeNextEvent, ReceiveInteractions

(* The ambassador waits for no reply but that of its last command. *)
LEMMA AmbassadorReplies ==
    ASSUME TypeOK, NoReplyMissing, Ambassador
    PROVE  NoReplyMissing'
<1> USE DEF TypeOK, NoReplyMissing, MaySend, fedVars, ambVars
<1>1. CASE SendCommand
  <2>1. PICK c \in TimedCommands, t \in horizon .. MaxTime : Write(c, t)
    BY <1>1 DEF SendCommand
  <2>2. [cmd |-> c, time |-> t] \in Message
    BY DEF Message, Commands
  <2>3. inbox'[Len(inbox')].cmd = c /\ Len(inbox') \in DOMAIN inbox'
    BY <2>1, <2>2, WritingKeeps DEF Write
  <2> QED
    BY <2>3
<1>2. CASE Advance
  BY <1>2 DEF Advance, SendAdvance
<1>3. CASE SendShutDown
  BY <1>3 DEF SendShutDown
<1>4. CASE Close
  BY <1>4 DEF Close
<1>5. CASE ReadReply
  BY <1>5 DEF ReadReply
<1>6. CASE ReadReport
  BY <1>6 DEF ReadReport
<1> QED
  BY <1>1, <1>2, <1>3, <1>4, <1>5, <1>6 DEF Ambassador

(* Every command is replied to, so that the ambassador, waiting for the    *)
(* reply, and the federate, waiting for a command, never wait for each     *)
(* other: processUpdateNode, processMsgSend, processConfRadio.             *)
THEOREM Replies == Spec => []NoReplyMissing
<1>1. Init => NoReplyMissing
  BY DEF Init, NoReplyMissing
<1>2. TypeOK /\ NoReplyMissing /\ [Next]_vars => NoReplyMissing'
  <2> SUFFICES ASSUME TypeOK, NoReplyMissing, [Next]_vars PROVE NoReplyMissing'
    OBVIOUS
  <2>1. CASE SigPipe
    BY <2>1 DEF SigPipe, NoReplyMissing, wireVars, ambVars
  <2>2. CASE UNCHANGED vars
    BY <2>2 DEF vars, NoReplyMissing, wireVars, ambVars
  <2> QED
    BY <2>1, <2>2, FederateReplies, AmbassadorReplies DEF Next, Terminated
<1> QED
  BY <1>1, <1>2, TypeCorrect, PTL DEF Spec

-----------------------------------------------------------------------------
(* What the federate writes *)

(* Nothing of what follows has changed. *)
Silent == outbox' = outbox

(* A reception is reported, of the time of its event. *)
Receiving ==
    /\ open /\ pc = "pop"
    /\ \E m \in ReportMessage :
          /\ m.msg = "MSG_RECV" /\ m.time = simTime'.ns
          /\ outbox' = outbox \o <<m>>

(* The grant goes back, all of it used: behind the time of the first event *)
(* left, or alone.                                                         *)
Returning ==
    /\ open /\ advancing /\ ~advancing'
    /\ UNCHANGED <<maxTime, simTime, fes, inbox, open, ambVars>>
    /\ \/ fes = {} /\ outbox' = outbox \o <<EndReport>>
       \/ \E e \in fes :
             /\ \A f \in fes : e.ns <= f.ns
             /\ e.ns > maxTime
             /\ outbox' = outbox \o
                   <<[msg |-> "NEXT_EVENT", time |-> e.ns], EndReport>>

(* A step of the federate reports nothing, a reception, or the end of the  *)
(* grant, and its clock does not go back.                                  *)
LEMMA FederateWrites ==
    ASSUME IInv, TypeOK', Federate
    PROVE  /\ Silent \/ Receiving \/ Returning
           /\ simTime.ns <= simTime'.ns
           /\ open' = open /\ UNCHANGED ambVars
<1> USE DEF IInv, TypeOK, wireVars, ambVars
<1>1. simTime.ns <= simTime'.ns
  <2>1. CASE \E e \in fes : Removal(e)
    BY <2>1 DEF Removal, NoPastEvent, KernelTime, Event
  <2>2. CASE ~\E e \in fes : Removal(e)
    <3>1. simTime' = simTime
      BY <2>2, FederateSteps DEF TimedInsertion, FinishInsertion, Insertion,
         Granting, Yielding, Finding
    <3> QED
      BY <3>1 DEF KernelTime
  <2> QED
    BY <2>1, <2>2
<1>2. open' = open /\ UNCHANGED ambVars
  BY FederateSteps DEF TimedInsertion, FinishInsertion, Insertion, Granting,
     Yielding, Finding, Removal
<1>3. CASE ReceiveInteractions
  BY <1>1, <1>2, <1>3 DEF Silent, ReceiveInteractions, ProcessUpdateNode, ProcessMsgSend,
     ProcessConfRadio, ProcessAdvanceTime, ProcessShutDown, ProcessUnknown,
     ReceiveEndOfFile, Receive
<1>4. CASE FindNextEvent \/ DropStale \/ HandleMobility \/ HandleModel
              \/ HandleFinish
  BY <1>1, <1>2, <1>4 DEF Silent, FindNextEvent, DropStale, HandleMobility, HandleModel,
     HandleFinish
<1>5. CASE HandleReception
  <2>1. PICK e \in fes : Take(e) /\ Report(<<[msg |-> "MSG_RECV", time |-> e.ns]>>)
    BY <1>5 DEF HandleReception
  <2> DEFINE m == [msg |-> "MSG_RECV", time |-> e.ns]
  <2>2. m \in ReportMessage /\ m.msg = "MSG_RECV" /\ m.time = simTime'.ns
    BY <2>1 DEF Take, ReportMessage, Reports, Event
  <2>3. pc = "pop" /\ (open => outbox' = outbox \o <<m>>)
             /\ (~open => outbox' = outbox)
    BY <2>1 DEF Take, Report
  <2> HIDE DEF m
  <2> QED
    BY <1>1, <1>2, <2>2, <2>3 DEF Silent, Receiving
<1>6. CASE EndEmpty
  BY <1>1, <1>2, <1>6 DEF EndEmpty, Report, Silent, Returning
<1>7. CASE ReportNextEvent
  <2>1. PICK e \in fes :
           /\ IsNext(e) /\ e.ns > maxTime
           /\ Report(<<[msg |-> "NEXT_EVENT", time |-> e.ns], EndReport>>)
    BY <1>7 DEF ReportNextEvent
  <2>2. \A f \in fes : e.ns <= f.ns
    BY <2>1, HeadIsEarliest
  <2> QED
    BY <1>1, <1>2, <1>7, <2>1, <2>2
    DEF ReportNextEvent, Report, Silent, Returning
<1> QED
  BY <1>1, <1>2, <1>3, <1>4, <1>5, <1>6, <1>7
  DEF Federate, TakeNextEvent, Dispatch

(* While an END is on its way to an ambassador, the federate waits. *)
LEMMA FederateWaits ==
    ASSUME IInv, ReturnQuiet, Federate
    PROVE  ~(open /\ GrantReturning)
<1> SUFFICES ASSUME open, GrantReturning PROVE FALSE
  OBVIOUS
<1>1. ~advancing /\ inbox = <<>> /\ pc # "pop"
  BY DEF IInv, GrantPlaced, ReturnQuiet, PopSafe
<1> QED
  BY <1>1 DEF Federate, TakeNextEvent, ReceiveInteractions, ProcessUpdateNode,
     ProcessMsgSend, ProcessConfRadio, ProcessAdvanceTime, ProcessShutDown,
     ProcessUnknown, ReceiveEndOfFile, Receive, EndEmpty, ReportNextEvent,
     FindNextEvent, DropStale, Dispatch, HandleMobility, HandleModel,
     HandleReception, HandleFinish, Take

-----------------------------------------------------------------------------
(* Receptions stay in order *)

(* The federate appends reports that are not earlier. *)
LEMMA FederateReceptions ==
    ASSUME IInv, TypeOK', ReceptionsPast, Federate
    PROVE  ReceptionsPast'
<1> USE DEF IInv, TypeOK
<1>1. simTime.ns <= simTime'.ns /\ simTime.ns \in Nat /\ simTime'.ns \in Nat
  BY FederateWrites DEF KernelTime
<1>2. \A i \in DOMAIN outbox : outbox[i].time \in Nat
  BY ReportsTyped
<1>3. ASSUME NEW i \in DOMAIN outbox, outbox[i].msg = "MSG_RECV"
      PROVE  outbox[i].time <= simTime'.ns
  <2>1. outbox[i].time <= simTime.ns
    BY <1>3 DEF ReceptionsPast
  <2> QED
    BY <1>1, <1>2, <2>1
<1>4. CASE Silent
  BY <1>3, <1>4 DEF Silent, ReceptionsPast
<1>5. CASE Receiving
  <2>1. PICK m \in ReportMessage :
           /\ m.msg = "MSG_RECV" /\ m.time = simTime'.ns
           /\ outbox' = outbox \o <<m>>
    BY <1>5 DEF Receiving
  <2>2. /\ Len(outbox') = Len(outbox) + 1
        /\ \A i \in DOMAIN outbox : outbox'[i] = outbox[i]
        /\ outbox'[Len(outbox')] = m
        /\ \A i \in DOMAIN outbox' : i \in DOMAIN outbox \/ i = Len(outbox')
    BY <2>1, ReportedLast
  <2> SUFFICES ASSUME NEW i \in DOMAIN outbox', NEW j \in DOMAIN outbox',
                      i <= j, outbox'[i].msg = "MSG_RECV"
               PROVE  /\ outbox'[i].time <= simTime'.ns
                      /\ outbox'[j].msg \in {"MSG_RECV", "END"} =>
                            outbox'[i].time <= outbox'[j].time
    BY DEF ReceptionsPast
  <2>3. CASE j \in DOMAIN outbox
    BY <1>3, <2>2, <2>3, SMTT(60) DEF ReceptionsPast
  <2>4. CASE j = Len(outbox')
    BY <1>1, <1>3, <2>1, <2>2, <2>4, SMTT(60)
  <2> QED
    BY <2>2, <2>3, <2>4
<1>6. CASE Returning
  <2>1. EndReport.time = simTime'.ns
    BY <1>6, EndReportType DEF Returning
  <2>2. CASE outbox' = outbox \o <<EndReport>>
    <3>1. /\ Len(outbox') = Len(outbox) + 1
          /\ \A i \in DOMAIN outbox : outbox'[i] = outbox[i]
          /\ outbox'[Len(outbox')] = EndReport
          /\ \A i \in DOMAIN outbox' : i \in DOMAIN outbox \/ i = Len(outbox')
      BY <2>2, ReportedLast, EndReportType
    <3> QED
      BY <1>3, <2>1, <3>1, EndReportType DEF ReceptionsPast
  <2>3. ASSUME NEW e \in fes,
               outbox' = outbox \o <<[msg |-> "NEXT_EVENT", time |-> e.ns], EndReport>>
        PROVE  ReceptionsPast'
    <3> DEFINE m == [msg |-> "NEXT_EVENT", time |-> e.ns]
    <3>1. m \in ReportMessage /\ m.msg = "NEXT_EVENT"
      BY DEF Reports, Event, ReportMessage
    <3> HIDE DEF m
    <3>2. /\ Len(outbox') = Len(outbox) + 2
          /\ \A i \in DOMAIN outbox : outbox'[i] = outbox[i]
          /\ outbox'[Len(outbox) + 1] = m
          /\ outbox'[Len(outbox) + 2] = EndReport
          /\ \A i \in DOMAIN outbox' :
                i \in DOMAIN outbox \/ i = Len(outbox) + 1 \/ i = Len(outbox) + 2
      BY <2>3, <3>1, ReportedTwo, EndReportType DEF m
    <3> QED
      BY <1>3, <2>1, <3>1, <3>2, EndReportType DEF ReceptionsPast
  <2> QED
    BY <1>6, <2>2, <2>3 DEF Returning
<1> QED
  BY <1>4, <1>5, <1>6, FederateWrites

(* The ambassador takes them from the front. *)
LEMMA AmbassadorReceptions ==
    ASSUME TypeOK, ReceptionsPast, Ambassador
    PROVE  ReceptionsPast'
<1> USE DEF TypeOK, ReceptionsPast, fedVars
<1>1. CASE ReadReport
  <2>1. UNCHANGED simTime
    BY <1>1 DEF ReadReport
  <2>2. /\ Len(outbox') = Len(outbox) - 1
        /\ \A i \in DOMAIN outbox' :
              i + 1 \in DOMAIN outbox /\ outbox'[i] = outbox[i + 1]
    BY <1>1, ReportRead
  <2> SUFFICES ASSUME NEW i \in DOMAIN outbox', NEW j \in DOMAIN outbox',
                      i <= j, outbox'[i].msg = "MSG_RECV"
               PROVE  /\ outbox'[i].time <= simTime'.ns
                      /\ outbox'[j].msg \in {"MSG_RECV", "END"} =>
                            outbox'[i].time <= outbox'[j].time
    OBVIOUS
  <2>3. /\ outbox'[i] = outbox[i + 1] /\ outbox'[j] = outbox[j + 1]
        /\ i + 1 \in DOMAIN outbox /\ j + 1 \in DOMAIN outbox
    BY <2>2
  <2>4. i + 1 <= j + 1
    <3>1. i \in Int /\ j \in Int
      OBVIOUS
    <3> QED
      BY <3>1
  <2> QED
    BY <2>1, <2>3, <2>4, SMTT(60)
<1>2. CASE ~ReadReport
  BY <1>2 DEF Ambassador, SendCommand, Advance, SendAdvance, SendShutDown, Close,
     ReadReply
<1> QED
  BY <1>1, <1>2

-----------------------------------------------------------------------------
(* The grant that returns *)

(* What the ambassador reads decides whether it goes on to wait. *)
LEMMA ReadingReturns ==
    ASSUME IInv, WireInv, ReadReport
    PROVE  /\ awaiting' => (Head(outbox).msg # "END" /\ awaiting)
           /\ ~awaiting' /\ awaiting => Head(outbox).msg = "END" /\ outbox' = <<>>
           /\ requests \subseteq requests'
           /\ Head(outbox).msg = "NEXT_EVENT" =>
                 Head(outbox).time \in requests'
<1>1. /\ awaiting' = (awaiting /\ Head(outbox).msg # "END")
      /\ requests' = IF Head(outbox).msg = "NEXT_EVENT"
                     THEN requests \cup {Head(outbox).time} ELSE requests
  BY DEF ReadReport
<1>2. ASSUME Head(outbox).msg = "END" PROVE outbox' = <<>>
  <2>1. 1 \in DOMAIN outbox /\ outbox[1].msg = "END" /\ open
    BY <1>2, ReportRead DEF IInv, ReadReport
  <2>2. Len(outbox) = 1
    BY <2>1 DEF IInv, GrantPlaced
  <2> QED
    BY <2>2 DEF IInv, TypeOK, ReadReport
<1> QED
  BY <1>1, <1>2 DEF IInv, TypeOK

(* END is written when the grant is used up and the request is before it. *)
LEMMA FederateReturns ==
    ASSUME IInv, TypeOK', WireInv, Federate
    PROVE  /\ ReturnQuiet' /\ RequestFollowed' /\ GrantExhausted'
           /\ RequestsCover'
<1> SUFFICES ASSUME open PROVE /\ ReturnQuiet' /\ RequestFollowed'
                               /\ GrantExhausted' /\ RequestsCover'
  BY FederateWrites
  DEF ReturnQuiet, RequestFollowed, GrantExhausted, RequestsCover
<1>1. ~GrantReturning
  BY FederateWaits DEF WireInv
<1>2. \A i \in DOMAIN outbox : outbox[i].msg \notin {"END", "NEXT_EVENT"}
  BY <1>1 DEF WireInv, RequestFollowed, GrantReturning
<1>3. CASE Silent
  BY <1>2, <1>3 DEF Silent, ReturnQuiet, RequestFollowed, GrantReturning,
     GrantExhausted, RequestsCover
<1>4. CASE Receiving
  <2>1. PICK m \in ReportMessage :
           m.msg = "MSG_RECV" /\ outbox' = outbox \o <<m>>
    BY <1>4 DEF Receiving
  <2>2. \A i \in DOMAIN outbox' : outbox'[i].msg \notin {"END", "NEXT_EVENT"}
    BY <1>2, <2>1, ReportedLast DEF IInv
  <2> QED
    BY <2>2 DEF ReturnQuiet, RequestFollowed, GrantReturning, GrantExhausted,
       RequestsCover
<1>5. CASE Returning
  <2>1. inbox' = <<>> /\ EndReport.time = simTime'.ns
    BY <1>5, EndReportType DEF Returning, IInv, GrantHeld
  <2>2. CASE fes = {} /\ outbox' = outbox \o <<EndReport>>
    <3>1. /\ Len(outbox') = Len(outbox) + 1
          /\ \A i \in DOMAIN outbox : outbox'[i] = outbox[i]
          /\ outbox'[Len(outbox')] = EndReport
          /\ \A i \in DOMAIN outbox' : i \in DOMAIN outbox \/ i = Len(outbox')
      BY <2>2, ReportedLast, EndReportType DEF IInv
    <3>2. fes' = {} /\ Len(outbox') \in DOMAIN outbox'
      BY <1>5, <2>2, <3>1 DEF Returning, IInv, TypeOK
    <3> QED
      BY <1>2, <2>1, <3>1, <3>2, EndReportType
      DEF ReturnQuiet, RequestFollowed, GrantReturning, GrantExhausted,
          RequestsCover, IInv
  <2>3. ASSUME NEW e \in fes, \A f \in fes : e.ns <= f.ns, e.ns > maxTime,
               outbox' = outbox \o
                  <<[msg |-> "NEXT_EVENT", time |-> e.ns], EndReport>>
        PROVE  /\ ReturnQuiet' /\ RequestFollowed' /\ GrantExhausted'
               /\ RequestsCover'
    <3> DEFINE m == [msg |-> "NEXT_EVENT", time |-> e.ns]
               n == Len(outbox) + 1
    <3>1. m \in ReportMessage /\ m.msg = "NEXT_EVENT"
      BY DEF Reports, Event, ReportMessage, IInv, TypeOK
    <3>2. /\ Len(outbox') = n + 1
          /\ \A i \in DOMAIN outbox : outbox'[i] = outbox[i]
          /\ outbox'[n] = m
          /\ outbox'[n + 1] = EndReport
          /\ \A i \in DOMAIN outbox' : i \in DOMAIN outbox \/ i = n \/ i = n + 1
          /\ n + 1 \in DOMAIN outbox' /\ n \in Nat /\ n + 1 > 1
          /\ n + 1 = Len(outbox')
      <4>1. Len(outbox) \in Nat /\ outbox' = outbox \o <<m, EndReport>>
        BY <2>3 DEF m, IInv, TypeOK
      <4>2. outbox' \in Seq(ReportMessage)
        BY DEF TypeOK
      <4> HIDE DEF m
      <4>3. /\ Len(outbox') = Len(outbox) + 2
            /\ \A i \in DOMAIN outbox : outbox'[i] = outbox[i]
            /\ outbox'[Len(outbox) + 1] = m
            /\ outbox'[Len(outbox) + 2] = EndReport
            /\ \A i \in DOMAIN outbox' :
                  i \in DOMAIN outbox \/ i = Len(outbox) + 1 \/ i = Len(outbox) + 2
        BY <3>1, <4>1, ReportedTwo, EndReportType DEF IInv
      <4>4. n + 1 = Len(outbox) + 2
        BY <4>1
      <4> QED
        BY <4>1, <4>2, <4>3, <4>4
    <3>3. /\ \A i \in DOMAIN outbox' : outbox'[i].msg = "END" => i = n + 1
          /\ \A i \in DOMAIN outbox' : outbox'[i].msg = "NEXT_EVENT" => i = n
      BY <1>2, <3>1, <3>2, EndReportType DEF IInv
    <3>4. fes' = fes /\ maxTime' = maxTime /\ open' = open
      BY <1>5 DEF Returning
    <3>5. ReturnQuiet' /\ RequestFollowed'
      BY <2>1, <3>2, EndReportType
      DEF ReturnQuiet, RequestFollowed, GrantReturning, IInv
    <3>6. (n + 1) - 1 = n
      BY <3>2
    <3>7. RequestsCover'
      BY <2>3, <3>2, <3>3, <3>4, <3>6 DEF RequestsCover
    <3>8. \A f \in fes : f.ns > maxTime
      BY <2>3, SMTT(60) DEF IInv, TypeOK, Event
    <3>9. ASSUME NEW f \in fes', IsNext(f)' PROVE m.time = f.ns
      <4>1. f \in Event /\ e \in Event /\ e.ns <= f.ns
        BY <2>3, <3>4, <3>9 DEF IInv, TypeOK
      <4>2. f = e \/ Precedes(f, e)
        BY <3>4, <3>9 DEF IsNext
      <4> QED
        BY <4>1, <4>2 DEF Precedes, Event
    <3>10. GrantExhausted'
      BY <2>1, <3>2, <3>3, <3>4, <3>6, <3>8, <3>9 DEF GrantExhausted, m
    <3> QED
      BY <3>5, <3>7, <3>10
  <2> QED
    BY <1>5, <2>2, <2>3 DEF Returning
<1> QED
  BY <1>3, <1>4, <1>5, FederateWrites

(* The ambassador takes the request before it takes the END. *)
LEMMA AmbassadorReturns ==
    ASSUME IInv, WireInv, Ambassador
    PROVE  /\ ReturnQuiet' /\ RequestFollowed' /\ GrantExhausted'
           /\ RequestsCover'
<1> USE DEF WireInv
<1>1. CASE ReadReport
  <2>1. /\ Len(outbox') = Len(outbox) - 1 /\ Len(outbox) \in Nat
        /\ \A i \in DOMAIN outbox' :
              i + 1 \in DOMAIN outbox /\ outbox'[i] = outbox[i + 1]
        /\ 1 \in DOMAIN outbox /\ Head(outbox) = outbox[1]
        /\ DOMAIN outbox = 1 .. Len(outbox)
        /\ DOMAIN outbox' = 1 .. Len(outbox')
    BY <1>1, ReportRead DEF IInv, TypeOK, ReadReport
  <2>2. /\ open /\ UNCHANGED <<open, fes, maxTime, simTime, inbox>>
        /\ requests \subseteq requests'
        /\ Head(outbox).msg = "NEXT_EVENT" => Head(outbox).time \in requests'
    BY <1>1, ReadingReturns DEF ReadReport, fedVars
  <2>3. GrantReturning' => GrantReturning
    BY <2>1 DEF GrantReturning
  <2>4. ReturnQuiet'
    BY <2>2, <2>3 DEF ReturnQuiet
  <2>5. RequestFollowed'
    <3> SUFFICES ASSUME NEW k \in DOMAIN outbox', outbox'[k].msg = "NEXT_EVENT"
                 PROVE  GrantReturning'
      BY DEF RequestFollowed
    <3>1. k + 1 \in DOMAIN outbox /\ outbox[k + 1].msg = "NEXT_EVENT"
      BY <2>1
    <3>2. PICK i \in DOMAIN outbox : outbox[i].msg = "END"
      BY <2>2, <3>1 DEF RequestFollowed, GrantReturning
    <3>3. k + 1 = i - 1
      BY <2>2, <3>1, <3>2 DEF GrantExhausted
    <3>4. i - 1 \in DOMAIN outbox' /\ outbox'[i - 1] = outbox[i]
      <4>1. i \in 2 .. Len(outbox) /\ (i - 1) + 1 = i
        BY <2>1, <3>1, <3>2, <3>3
      <4> QED
        BY <2>1, <4>1
    <3> QED
      BY <3>2, <3>4 DEF GrantReturning
  <2>6. ASSUME NEW i \in DOMAIN outbox', outbox'[i].msg = "END"
        PROVE  /\ i + 1 \in DOMAIN outbox /\ outbox[i + 1].msg = "END"
               /\ i > 1 => i - 1 \in DOMAIN outbox' /\ outbox'[i - 1] = outbox[i]
               /\ i = 1 => outbox[i] = Head(outbox)
               /\ (i + 1) - 1 = i /\ i + 1 > 1 /\ i \in Nat
    <3>1. i \in 1 .. (Len(outbox) - 1) /\ (i - 1) + 1 = i
      BY <2>1
    <3>2. i > 1 => i - 1 \in DOMAIN outbox'
      BY <2>1, <3>1
    <3> QED
      BY <2>1, <2>6, <3>1, <3>2
  <2>7. GrantExhausted'
    <3> SUFFICES ASSUME NEW i \in DOMAIN outbox', outbox'[i].msg = "END"
        PROVE /\ i = Len(outbox')
              /\ outbox'[i].time = simTime.ns
              /\ \A e \in fes : e.ns > maxTime
              /\ \A e \in fes : IsNext(e) =>
                    IF i > 1
                    THEN outbox'[i - 1] = [msg |-> "NEXT_EVENT", time |-> e.ns]
                    ELSE e.ns \in requests'
              /\ \A j \in DOMAIN outbox' :
                    outbox'[j].msg = "NEXT_EVENT" => j = i - 1 /\ fes # {}
      BY <2>2 DEF GrantExhausted, IsNext
    <3>1. /\ i + 1 = Len(outbox)
          /\ outbox[i + 1].time = simTime.ns
          /\ \A e \in fes : e.ns > maxTime
          /\ \A e \in fes : IsNext(e) =>
                outbox[i] = [msg |-> "NEXT_EVENT", time |-> e.ns]
          /\ \A j \in DOMAIN outbox :
                outbox[j].msg = "NEXT_EVENT" => j = i /\ fes # {}
      <4> DEFINE k == i + 1
      <4>1. k \in DOMAIN outbox /\ outbox[k].msg = "END" /\ k > 1 /\ k - 1 = i
        BY <2>6
      <4> HIDE DEF k
      <4>2. /\ k = Len(outbox) /\ outbox[k].time = simTime.ns
            /\ \A e \in fes : e.ns > maxTime
            /\ \A e \in fes : IsNext(e) =>
                  outbox[k - 1] = [msg |-> "NEXT_EVENT", time |-> e.ns]
            /\ \A j \in DOMAIN outbox :
                  outbox[j].msg = "NEXT_EVENT" => j = k - 1 /\ fes # {}
        BY <2>2, <4>1 DEF GrantExhausted
      <4> QED
        BY <4>1, <4>2 DEF k
    <3>2. i = Len(outbox') /\ outbox'[i].time = simTime.ns
      BY <2>1, <3>1
    <3>3. ASSUME NEW e \in fes, IsNext(e)
          PROVE  IF i > 1
                 THEN outbox'[i - 1] = [msg |-> "NEXT_EVENT", time |-> e.ns]
                 ELSE e.ns \in requests'
      BY <2>1, <2>2, <2>6, <3>1, <3>3
    <3>4. ASSUME NEW j \in DOMAIN outbox', outbox'[j].msg = "NEXT_EVENT"
          PROVE  j = i - 1 /\ fes # {}
      <4>1. j + 1 \in DOMAIN outbox /\ outbox[j + 1].msg = "NEXT_EVENT" /\ j \in Nat
        BY <2>1, <3>4
      <4> QED
        BY <2>6, <3>1, <4>1
    <3> QED
      BY <3>1, <3>2, <3>3, <3>4
  <2>8. RequestsCover'
    <3> SUFFICES ASSUME NEW i \in DOMAIN outbox', outbox'[i].msg = "END",
                        NEW e \in fes
        PROVE \/ i > 1 /\ outbox'[i - 1].msg = "NEXT_EVENT"
                       /\ outbox'[i - 1].time <= e.ns
              \/ \E r \in requests' : r <= e.ns
      BY <2>2 DEF RequestsCover
    <3>1. \/ outbox[i].msg = "NEXT_EVENT" /\ outbox[i].time <= e.ns
          \/ \E r \in requests : r <= e.ns
      BY <2>2, <2>6 DEF RequestsCover
    <3> QED
      BY <2>1, <2>2, <2>6, <3>1
  <2> QED
    BY <2>4, <2>5, <2>7, <2>8
<1>2. CASE ReadReply
  BY <1>2 DEF ReadReply, fedVars, ReturnQuiet, RequestFollowed, GrantReturning,
     GrantExhausted, RequestsCover, IsNext
<1>3. CASE Close
  BY <1>3 DEF Close, ReturnQuiet, RequestFollowed, GrantExhausted, RequestsCover
<1>4. CASE SendCommand \/ Advance \/ SendShutDown
  <2>1. ~awaiting /\ open /\ UNCHANGED <<outbox, open>>
    BY <1>4 DEF SendCommand, Advance, SendAdvance, SendShutDown, MaySend
  <2>2. \A i \in DOMAIN outbox : outbox[i].msg # "END"
    BY <2>1 DEF IInv, GrantPlaced
  <2>3. \A i \in DOMAIN outbox : outbox[i].msg # "NEXT_EVENT"
    BY <2>1, <2>2 DEF RequestFollowed, GrantReturning
  <2> QED
    BY <2>1, <2>2, <2>3 DEF ReturnQuiet, RequestFollowed, GrantReturning,
       GrantExhausted, RequestsCover
<1> QED
  BY <1>1, <1>2, <1>3, <1>4 DEF Ambassador

-----------------------------------------------------------------------------
(* The events the ambassador knows of *)

(* The federate inserts what it was sent, or has the grant. *)
LEMMA FederateKnown ==
    ASSUME IInv, TypeOK', WireInv, Federate
    PROVE  CommandsFresh' /\ EventsKnown'
<1> USE DEF WireInv, ambVars
<1>1. open' = open /\ UNCHANGED ambVars
  BY FederateWrites
<1>2. \/ inbox' = inbox
      \/ inbox # <<>> /\ inbox' = Tail(inbox)
  <2>1. \/ TimedInsertion \/ FinishInsertion \/ Granting
        \/ Yielding \/ Finding \/ \E e \in fes : Removal(e)
    BY FederateSteps DEF IInv
  <2>2. CASE TimedInsertion \/ FinishInsertion \/ Granting
    BY <2>2 DEF TimedInsertion, FinishInsertion, Insertion, Granting
  <2>3. CASE Yielding \/ Finding
    BY <2>3 DEF Yielding, Finding
  <2>4. CASE \E e \in fes : Removal(e)
    BY <2>4 DEF Removal
  <2> QED
    BY <2>1, <2>2, <2>3, <2>4
<1>3. CommandsFresh'
  <2>1. CASE inbox' = inbox
    BY <1>1, <2>1 DEF CommandsFresh
  <2>2. CASE inbox # <<>> /\ inbox' = Tail(inbox)
    <3>1. \A i \in DOMAIN inbox' :
             i + 1 \in DOMAIN inbox /\ inbox'[i] = inbox[i + 1]
      BY <2>2 DEF IInv, TypeOK
    <3> QED
      BY <1>1, <3>1 DEF CommandsFresh
  <2> QED
    BY <1>2, <2>1, <2>2
<1>4. EventsKnown'
  <2> SUFFICES ASSUME open, ~shut, ~awaiting
               PROVE  \A e \in fes' : \/ fresh /\ e.ns <= latest
                                      \/ \E r \in requests : r <= e.ns
    BY <1>1 DEF EventsKnown
  <2>1. \A e \in fes : \/ fresh /\ e.ns <= latest
                       \/ \E r \in requests : r <= e.ns
    BY DEF EventsKnown
  <2>2. CASE TimedInsertion
    <3>1. /\ 1 \in DOMAIN inbox /\ Head(inbox) = inbox[1]
          /\ Head(inbox).cmd \in TimedCommands
      BY <2>2 DEF IInv, TypeOK, TimedInsertion, Insertion
    <3>2. fresh /\ Head(inbox).time <= latest
      BY <3>1 DEF CommandsFresh, IInv, InboxOrdered
    <3> QED
      BY <2>1, <2>2, <3>2 DEF TimedInsertion, Insertion
  <2>3. CASE FinishInsertion
    <3>1. 1 \in DOMAIN inbox /\ inbox[1].cmd = "SHUT_DOWN"
      BY <2>3 DEF IInv, TypeOK, FinishInsertion, Insertion
    <3> QED
      BY <3>1 DEF CommandsFresh
  <2>4. CASE Granting \/ Yielding \/ Finding
    BY <2>1, <2>4 DEF Granting, Yielding, Finding
  <2>5. CASE \E e \in fes : Removal(e)
    BY <2>5 DEF Removal, IInv, PopSafe, GrantHeld
  <2> QED
    BY <2>2, <2>3, <2>4, <2>5, FederateSteps DEF IInv
<1> QED
  BY <1>3, <1>4

(* The ambassador notes what it sends, and has read the request when it    *)
(* reads the END.                                                          *)
LEMMA AmbassadorKnown ==
    ASSUME IInv, TypeOK', WireInv, Ambassador
    PROVE  CommandsFresh' /\ EventsKnown'
<1> USE DEF WireInv, IInv, TypeOK, fedVars, MaySend
<1>1. CASE SendCommand
  <2>1. fresh' /\ awaiting' = awaiting /\ open' = open /\ shut' = shut
           /\ fes' = fes /\ requests' = requests
    BY <1>1 DEF SendCommand
  <2>2. PICK c \in TimedCommands, t \in horizon .. MaxTime :
           Write(c, t) /\ latest' = IF t > latest THEN t ELSE latest
    BY <1>1 DEF SendCommand
  <2>3. [cmd |-> c, time |-> t] \in Message
    BY DEF Message, Commands
  <2>4. /\ \A i \in DOMAIN inbox : inbox'[i] = inbox[i]
        /\ \A i \in DOMAIN inbox' : i \in DOMAIN inbox \/ inbox'[i].cmd = c
    BY <2>2, <2>3, WritingKeeps, SMTT(60) DEF Write
  <2>5. CommandsFresh'
    BY <2>1, <2>4 DEF CommandsFresh, TimedCommands
  <2>6. \A e \in fes : e.ns <= latest => e.ns <= latest'
    BY <2>2, SchedulerAssumption DEF Event
  <2>7. EventsKnown'
    BY <1>1, <2>1, <2>6 DEF EventsKnown, SendCommand
  <2> QED
    BY <2>5, <2>7
<1>2. CASE Advance
  <2>1. PICK g \in latest .. MaxTime : SendAdvance(g)
    BY <1>2 DEF Advance
  <2>2. [cmd |-> "ADVANCE_TIME", time |-> g] \in Message /\ awaiting' /\ shut' = shut
    BY <2>1, SchedulerAssumption DEF Message, Commands, SendAdvance
  <2>3. /\ \A i \in DOMAIN inbox : inbox'[i] = inbox[i]
        /\ \A i \in DOMAIN inbox' :
              i \in DOMAIN inbox \/ inbox'[i].cmd = "ADVANCE_TIME"
    BY <2>1, <2>2, WritingKeeps DEF Write, SendAdvance
  <2> QED
    BY <2>2, <2>3 DEF CommandsFresh, EventsKnown, TimedCommands
<1>3. CASE SendShutDown
  <2>1. shut' /\ UNCHANGED <<awaiting, fresh, open>> /\ Write("SHUT_DOWN", 0)
    BY <1>3 DEF SendShutDown
  <2>2. [cmd |-> "SHUT_DOWN", time |-> 0] \in Message
    BY DEF Message, Commands
  <2>3. /\ \A i \in DOMAIN inbox : inbox'[i] = inbox[i]
        /\ \A i \in DOMAIN inbox' :
              i \in DOMAIN inbox \/ inbox'[i].cmd = "SHUT_DOWN"
    <3> DEFINE m == [cmd |-> "SHUT_DOWN", time |-> 0]
    <3>1. m.cmd = "SHUT_DOWN" /\ inbox' = Append(inbox, m)
      BY <2>1 DEF Write
    <3> HIDE DEF m
    <3> QED
      BY <2>2, <3>1, WritingKeeps DEF m
  <2> QED
    BY <2>1, <2>3 DEF CommandsFresh, EventsKnown, TimedCommands
<1>4. CASE Close \/ ReadReply
  BY <1>4 DEF Close, ReadReply, CommandsFresh, EventsKnown, ambVars
<1>5. CASE ReadReport
  <2>1. UNCHANGED <<open, inbox, fes, shut, fresh, latest>> /\ open
    BY <1>5 DEF ReadReport
  <2>2. requests \subseteq requests'
    BY <1>5, ReadingReturns
  <2>3. CASE awaiting' = awaiting
    BY <2>1, <2>2, <2>3 DEF CommandsFresh, EventsKnown
  <2>4. CASE awaiting' # awaiting
    <3>1. 1 \in DOMAIN outbox /\ outbox[1].msg = "END"
      BY <1>5, <2>4, ReadingReturns, ReportRead DEF ReadReport
    <3>2. inbox = <<>>
      BY <2>1, <3>1 DEF ReturnQuiet, GrantReturning
    <3>3. \A e \in fes : \E r \in requests : r <= e.ns
      <4>1. ~(1 > 1)
        OBVIOUS
      <4> QED
        BY <2>1, <3>1, <4>1 DEF RequestsCover
    <3> QED
      BY <2>1, <2>2, <3>2, <3>3 DEF CommandsFresh, EventsKnown
  <2> QED
    BY <2>3, <2>4
<1> QED
  BY <1>1, <1>2, <1>3, <1>4, <1>5 DEF Ambassador

-----------------------------------------------------------------------------
(* Theorems *)

(* What is on the wires agrees with the two sides. *)
LEMMA InitWireInv == Init => WireInv
BY DEF Init, WireInv, ReceptionsPast, ReturnQuiet, RequestFollowed,
   GrantReturning, GrantExhausted, RequestsCover, CommandsFresh, EventsKnown

(* Every step keeps it so. *)
LEMMA NextWireInv == IInv /\ WireInv /\ [Next]_vars => WireInv'
<1> SUFFICES ASSUME IInv, WireInv, [Next]_vars PROVE WireInv'
  OBVIOUS
<1>1. TypeOK'
  BY NextTypeOK DEF IInv
<1>2. CASE Federate
  BY <1>1, <1>2, FederateReceptions, FederateReturns, FederateKnown DEF WireInv
<1>3. CASE Ambassador
  BY <1>1, <1>3, AmbassadorReceptions, AmbassadorReturns, AmbassadorKnown
  DEF WireInv, IInv
<1>4. CASE SigPipe \/ UNCHANGED vars
  BY <1>4 DEF SigPipe, vars, fedVars, wireVars, ambVars, WireInv, ReceptionsPast,
     ReturnQuiet, RequestFollowed, GrantReturning, GrantExhausted, IsNext,
     RequestsCover, CommandsFresh, EventsKnown
<1> QED
  BY <1>2, <1>3, <1>4 DEF Next, Terminated

(* What is on the wires agrees with the two sides in every reachable       *)
(* state: reports with the clock and the grant, the END with the requests, *)
(* the events with what the ambassador has sent or been told.              *)
THEOREM WireInvariance == Spec => []WireInv
BY InitWireInv, NextWireInv, Invariance, PTL DEF Spec

(* A grant comes back only when it is used up, and names the first event   *)
(* left: endTimeAdvance and reportNextEvent in takeNextEvent.              *)
THEOREM GrantReturn == Spec => []GrantExhausted
<1>1. WireInv => GrantExhausted
  BY DEF WireInv
<1> QED
  BY <1>1, WireInvariance, PTL

(* Receptions are reported in order, within the grant, before its END.     *)
THEOREM ReceptionOrder == Spec => []ReceptionsInOrder
<1>1. IInv /\ WireInv => ReceptionsInOrder
  <2> SUFFICES ASSUME IInv, WireInv, NEW i \in DOMAIN outbox,
                      NEW j \in DOMAIN outbox, i <= j, outbox[i].msg = "MSG_RECV"
               PROVE  /\ outbox[i].time <= maxTime
                      /\ outbox[j].msg \in {"MSG_RECV", "END"} =>
                            outbox[i].time <= outbox[j].time
    BY DEF ReceptionsInOrder
  <2>1. /\ outbox[i].time <= simTime.ns
        /\ outbox[j].msg \in {"MSG_RECV", "END"} =>
              outbox[i].time <= outbox[j].time
    BY DEF WireInv, ReceptionsPast
  <2>2. outbox[i].time \in Nat /\ simTime.ns \in Nat /\ maxTime \in Nat
           /\ simTime.ns <= maxTime
    BY ReportsTyped DEF IInv, TypeOK, Clocks, KernelTime
  <2> QED
    BY <2>1, <2>2
<1> QED
  BY <1>1, Invariance, WireInvariance, PTL

(* A federate that waits for a grant has told the ambassador, or was told  *)
(* by it, of every event it is waiting for.                                *)
THEOREM Wakeups == Spec => []NoLostWakeup
<1>1. WireInv => NoLostWakeup
  BY DEF WireInv, EventsKnown, NoLostWakeup
<1> QED
  BY <1>1, WireInvariance, PTL
=============================================================================
