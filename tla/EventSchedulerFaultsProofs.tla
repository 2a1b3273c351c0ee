--------------------- MODULE EventSchedulerFaultsProofs ---------------------
(***************************************************************************)
(* Theorems about the scheduler with an ambassador that dies or sends      *)
(* unknown commands.  Little of IInv is left then: what the wire says of   *)
(* grants and times is no longer so.  What remains is what the scheduler   *)
(* owes to nobody's good behaviour.                                        *)
(***************************************************************************)
EXTENDS EventSchedulerFaults, EventSchedulerWireProofs

(* The loop ends with an event to take, although after an unknown command  *)
(* it has not looked for one; insertion numbers tell events apart, and     *)
(* MosaicFinishCmd, which ends the run, is never dropped as stale.         *)
LoopSound ==
    /\ pc = "pop" => advancing /\ fes # {}
    /\ OrdsUnique

(* The inductive invariant: the loop of takeNextEvent works on what is     *)
(* there, and no command is left without a reply.                          *)
FaultyInv ==
    /\ TypeOK
    /\ LoopSound
    /\ NoReplyMissing

-----------------------------------------------------------------------------
(* Types *)

(* A crash cuts off commands; of the last one that is left the time may be *)
(* another.                                                                *)
LEMMA CutTyped ==
    ASSUME TypeOK, NEW n \in DOMAIN inbox, NEW m \in Cut(inbox[n])
    PROVE  m \in Message
<1>1. inbox[n] \in Message
  BY DEF TypeOK
<1>2. PICK t \in 0 .. (IF inbox[n].cmd = "UPDATE_NODE" THEN MaxTime ELSE inbox[n].time) :
         m = [inbox[n] EXCEPT !.time = t]
  BY DEF Cut
<1>3. t \in Nat
  OBVIOUS
<1> QED
  BY <1>1, <1>2, <1>3 DEF Message

(* Hence a crash leaves commands on the wire, though perhaps not those     *)
(* that were sent.                                                         *)
LEMMA CrashTyped == TypeOK /\ Crash => TypeOK'
<1> SUFFICES ASSUME TypeOK, Crash PROVE inbox' \in Seq(Message)
  BY DEF Crash, TypeOK, fedVars, ambVars
<1>1. inbox \in Seq(Message)
  BY DEF TypeOK
<1>2. CASE \E n \in 0 .. Len(inbox) : inbox' = SubSeq(inbox, 1, n)
  BY <1>1, <1>2
<1>3. ASSUME NEW n \in DOMAIN inbox, NEW m \in Cut(inbox[n]),
             inbox' = Append(SubSeq(inbox, 1, n - 1), m)
      PROVE  inbox' \in Seq(Message)
  <2>1. SubSeq(inbox, 1, n - 1) \in Seq(Message)
    BY <1>1
  <2> QED
    BY <1>3, <2>1, CutTyped
<1> QED
  BY <1>2, <1>3 DEF Crash

(* An unknown command is a command on the wire like any other. *)
LEMMA UnknownTyped == TypeOK /\ SendUnknown => TypeOK'
<1> SUFFICES ASSUME TypeOK, SendUnknown PROVE TypeOK'
  OBVIOUS
<1>1. [cmd |-> "UNKNOWN", time |-> 0] \in Message
  BY DEF Message, Commands
<1>2. inbox' \in Seq(Message)
  BY <1>1 DEF SendUnknown, Write, TypeOK
<1> QED
  BY <1>2 DEF SendUnknown, TypeOK, fedVars

(* Whatever the ambassador does, the federate's variables keep their       *)
(* types: no command and no end of the stream makes a time or a reply      *)
(* count that it cannot be.                                                *)
THEOREM FaultyTypes == FaultySpec => []TypeOK
<1>1. TypeOK /\ [FaultyNext]_vars => TypeOK'
  BY NextTypeOK, CrashTyped, UnknownTyped DEF FaultyNext
<1> QED
  BY InitTypeOK, <1>1, PTL DEF FaultySpec

-----------------------------------------------------------------------------
(* The loop and the future event set *)

(* Every iteration of the loop, that of the default branch included, and   *)
(* every handler keeps it so.                                              *)
LEMMA FederateLoopSound ==
    ASSUME TypeOK, TypeOK', LoopSound, Federate
    PROVE  LoopSound'
<1>1. CASE ProcessUnknown
  BY <1>1 DEF ProcessUnknown, DefaultBranch, Receive, Recheck, LoopSound, OrdsUnique
<1>2. CASE KnownStep
  <2>1. OrdsUnique'
    BY <1>2, KnownOrds DEF LoopSound
  <2>2. pc' = "pop" => advancing' /\ fes' # {}
    BY <1>2 DEF KnownStep, TimedInsertion, FinishInsertion, Insertion, Granting,
       Yielding, Finding, Removal
  <2> QED
    BY <2>1, <2>2 DEF LoopSound
<1> QED
  BY <1>1, <1>2, FederateKnows DEF LoopSound

(* removeFirst, after the loop of takeNextEvent, is never called on an     *)
(* empty future event set, and the finish event is never dropped, whatever *)
(* the ambassador sends and wherever in the stream it dies.                *)
THEOREM FaultyLoop == FaultySpec => []LoopSound
<1>1. Init => LoopSound
  BY DEF Init, LoopSound, OrdsUnique
<1>2. TypeOK /\ TypeOK' /\ LoopSound /\ [FaultyNext]_vars => LoopSound'
  <2> SUFFICES ASSUME TypeOK, TypeOK', LoopSound, [FaultyNext]_vars
               PROVE  LoopSound'
    OBVIOUS
  <2>1. CASE SigPipe
    BY <2>1 DEF SigPipe, LoopSound, OrdsUnique
  <2>2. CASE UNCHANGED fedVars
    BY <2>2 DEF fedVars, LoopSound, OrdsUnique
  <2>3. Ambassador \/ SendUnknown \/ Crash \/ UNCHANGED vars => UNCHANGED fedVars
    BY DEF Ambassador, SendCommand, Advance, SendAdvance, SendShutDown, Close,
       ReadReply, ReadReport, SendUnknown, Crash, vars
  <2> QED
    BY <2>1, <2>2, <2>3, FederateLoopSound DEF FaultyNext, Next, Terminated
<1> QED
  BY <1>1, <1>2, FaultyTypes, PTL DEF FaultySpec

-----------------------------------------------------------------------------
(* Replies *)

(* An unknown command is on the wire until it is replied to. *)
LEMMA UnknownReplied ==
    ASSUME TypeOK, SendUnknown PROVE NoReplyMissing'
<1>1. [cmd |-> "UNKNOWN", time |-> 0] \in Message
  BY DEF Message, Commands
<1>2. inbox'[Len(inbox')].cmd = "UNKNOWN" /\ Len(inbox') \in DOMAIN inbox'
  BY <1>1, WritingKeeps DEF SendUnknown, Write, TypeOK
<1> QED
  BY <1>2 DEF NoReplyMissing

(* While the ambassador lives, a command that the federate does not know   *)
(* is replied to like any other: the default branch of receiveInteractions *)
(* leaves nobody waiting.                                                  *)
THEOREM FaultyReplies == FaultySpec => []NoReplyMissing
<1>1. Init => NoReplyMissing
  BY DEF Init, NoReplyMissing
<1>2. TypeOK /\ NoReplyMissing /\ [FaultyNext]_vars => NoReplyMissing'
  <2> SUFFICES ASSUME TypeOK, NoReplyMissing, [FaultyNext]_vars
               PROVE  NoReplyMissing'
    OBVIOUS
  <2>1. CASE SigPipe
    BY <2>1 DEF SigPipe, NoReplyMissing, wireVars, ambVars
  <2>2. CASE UNCHANGED vars
    BY <2>2 DEF vars, NoReplyMissing, wireVars, ambVars
  <2>3. CASE Crash
    BY <2>3 DEF Crash, NoReplyMissing
  <2> QED
    BY <2>1, <2>2, <2>3, FederateReplies, AmbassadorReplies, UnknownReplied
    DEF FaultyNext, Next, Terminated
<1> QED
  BY <1>1, <1>2, FaultyTypes, PTL DEF FaultySpec

(* All of this together: what faults of the ambassador cannot disturb. *)
THEOREM FaultyInvariance == FaultySpec => []FaultyInv
<1>1. TypeOK /\ LoopSound /\ NoReplyMissing => FaultyInv
  BY DEF FaultyInv
<1> QED
  BY FaultyTypes, FaultyLoop, FaultyReplies, <1>1, PTL
=============================================================================
