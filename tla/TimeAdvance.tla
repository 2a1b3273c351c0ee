---------------------------- MODULE TimeAdvance ----------------------------
(***************************************************************************)
(* What a federate promises the federation about simulation time, and all  *)
(* the ambassador needs to know of it: conservative synchronisation.       *)
(*                                                                         *)
(* The federate owns a clock.  It runs only under a grant; while it runs   *)
(* the clock may move forwards, up to the grant and never beyond; when it  *)
(* has nothing left to do under the grant it yields, and only then may it  *)
(* be given another grant, which is never earlier than the last one.       *)
(*                                                                         *)
(* EventScheduler shows that the scheduler of the federate implements      *)
(* this, with the clock read in whole nanoseconds.                         *)
(***************************************************************************)
EXTENDS Naturals

VARIABLES
    clock,      \* the federate's simulation time
    grant,      \* the time up to which it may simulate
    running     \* TRUE while it simulates under the grant

vars == <<clock, grant, running>>

Init ==
    /\ clock \in Nat
    /\ grant \in Nat
    /\ clock <= grant
    /\ running = FALSE

(* The federation lets the federate simulate up to a time. *)
Grant ==
    /\ ~running
    /\ grant' \in Nat
    /\ grant' >= grant
    /\ running' = TRUE
    /\ UNCHANGED clock

(* The federate simulates. *)
Run ==
    /\ running
    /\ clock' \in Nat
    /\ clock <= clock'
    /\ clock' <= grant
    /\ UNCHANGED <<grant, running>>

(* The federate has simulated all there is under the grant. *)
Yield ==
    /\ running
    /\ running' = FALSE
    /\ UNCHANGED <<clock, grant>>

Next == Grant \/ Run \/ Yield

Spec == Init /\ [][Next]_vars
=============================================================================
