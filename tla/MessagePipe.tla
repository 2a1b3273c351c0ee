---------------------------- MODULE MessagePipe ----------------------------
(***************************************************************************)
(* What a connection is to the code above ClientServerChannel: a queue of  *)
(* messages.  Each call of a read method takes the next message, whole and *)
(* in order, for as long as the writer is there.  When the writer has gone *)
(* the last message may be cut; whoever reads it, or reads beyond it, gets *)
(* a result of its method's CutResults or EndResults and is never blocked. *)
(***************************************************************************)
EXTENDS Readers, Naturals, Sequences

VARIABLES
    queue,      \* messages written and not yet returned by a reader
    ended,      \* the writer has gone
    cut,        \* the last message of the queue is not complete
    asked,      \* the read method that is being called
    result      \* what the last call returned

vars == <<queue, ended, cut, asked, result>>

Init ==
    /\ queue = <<>>
    /\ ended = FALSE
    /\ cut = FALSE
    /\ asked = "readCommand"
    /\ result = WholeResult("readCommand")

Write ==
    /\ ~ended
    /\ \E m \in Message : queue' = Append(queue, m)
    /\ UNCHANGED <<ended, cut, asked, result>>

(* The writer goes.  Messages that it wrote last may be lost, and of the   *)
(* last that is not lost a part.                                           *)
End ==
    /\ ~ended
    /\ ended' = TRUE
    /\ \E n \in 0 .. Len(queue) : queue' = SubSeq(queue, 1, n)
    /\ cut' \in {FALSE, queue' # <<>>}
    /\ UNCHANGED <<asked, result>>

(* A whole message: its command says which method is called next. *)
Read ==
    /\ queue # <<>>
    /\ cut => Len(queue) > 1
    /\ Head(queue).reader = asked
    /\ queue' = Tail(queue)
    /\ asked' = Head(queue).next
    /\ result' = WholeResult(asked)
    /\ UNCHANGED <<ended, cut>>

ReadCut ==
    /\ cut /\ Len(queue) = 1
    /\ Head(queue).reader = asked
    /\ queue' = <<>>
    /\ cut' = FALSE
    /\ asked' = "readCommand"
    /\ result' \in CutResults(asked)
    /\ UNCHANGED ended

ReadEnd ==
    /\ ended /\ queue = <<>>
    /\ asked' = "readCommand"
    /\ result' \in EndResults(asked)
    /\ UNCHANGED <<queue, ended, cut>>

Next == Write \/ End \/ Read \/ ReadCut \/ ReadEnd

Spec == Init /\ [][Next]_vars
=============================================================================
