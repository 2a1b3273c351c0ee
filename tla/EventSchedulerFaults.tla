------------------------ MODULE EventSchedulerFaults ------------------------
(***************************************************************************)
(* The scheduler with an ambassador that sends a command the federate does *)
(* not know (a SUCCESS, a NEXT_EVENT, the REMOVE_NODE that is still in the *)
(* protocol), or dies at any moment, between two messages or within one.   *)
(***************************************************************************)
EXTENDS EventScheduler

CONSTANT MaxAdrift      \* bound: the grants under way, though the ambassador
                        \* does not wait, when an unknown command is sent

ASSUME FaultsAssumption == MaxAdrift \in Nat

(* Grants under way, held or coming back.  An unknown command makes an END *)
(* that answers no grant; an ambassador that takes it for the answer to    *)
(* its grant will have one more grant under way than it believes.          *)
Adrift ==
    Cardinality({i \in DOMAIN inbox : inbox[i].cmd = "ADVANCE_TIME"})
      + Cardinality({i \in DOMAIN outbox : outbox[i].msg = "END"})
      + (IF advancing THEN 1 ELSE 0)

(* Any command receiveInteractions has no case for. *)
SendUnknown ==
    /\ MaySend
    /\ Adrift <= MaxAdrift
    /\ Write("UNKNOWN", 0)
    /\ unacked' = TRUE
    /\ UNCHANGED <<awaiting, horizon, latest, fresh, requests, shut,
                   fedVars, replies, outbox, open>>

(* What the read methods make of a command whose message is cut (Channel): *)
(* of a time its low digits, or 0, reported as a success.  readUpdateNode  *)
(* leaves the struct of its caller as it was, with any time; the pointer   *)
(* that ProcessUpdateNode does not set then may kill, as SigPipe does.     *)
Cut(m) ==
    {[m EXCEPT !.time = t] : t \in 0 .. (IF m.cmd = "UPDATE_NODE" THEN MaxTime
                                                                 ELSE m.time)}

(* The ambassador's process dies; commands it wrote last may be lost, and  *)
(* the last that is not lost may be cut.                                   *)
Crash ==
    /\ open
    /\ open' = FALSE
    /\ \/ \E n \in 0 .. Len(inbox) : inbox' = SubSeq(inbox, 1, n)
       \/ \E n \in DOMAIN inbox : \E m \in Cut(inbox[n]) :
             inbox' = Append(SubSeq(inbox, 1, n - 1), m)
    /\ UNCHANGED <<fedVars, replies, outbox, ambVars>>

FaultyNext ==
    \/ Next
    \/ SendUnknown
    \/ Crash

FaultySpec == Init /\ [][FaultyNext]_vars

(* Writing to a peer that is gone is answered with a reset, so that not    *)
(* every write can go without SIGPIPE.                                     *)
FairFaultySpec == FaultySpec /\ Fairness /\ SF_vars(SigPipe)

(* As long as the ambassador lives, no event later than the grant is       *)
(* simulated, whatever commands it sends.  The code breaks this: an        *)
(* unknown command sets m_timeAdvancing, and with the nextTime of 0 or of  *)
(* an old look at the FES the loop hands out its head unseen.              *)
UnknownCommandEnds == open => WithinGrant

(* While the ambassador lives, a command the federate does not know leaves *)
(* nobody waiting: the ambassador gets its reply and can go on.            *)
AlwaysReplied == unacked ~> ~unacked \/ ~open \/ Stopped

(* A federate whose ambassador has died stops, although it notices nothing *)
(* but commands that are undefined, and goes on simulating without grants. *)
OrphanStops == ~open ~> Stopped
=============================================================================
