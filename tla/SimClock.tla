------------------------------ MODULE SimClock ------------------------------
(***************************************************************************)
(* What the control of the simulation promises: the clock moves only while *)
(* the simulation runs, and it goes back only to its start.                *)
(***************************************************************************)
EXTENDS Naturals

VARIABLES running,          \* NetworkState.running
          clock             \* NetworkState.sim_time, in minutes after 08:00

vars == <<running, clock>>

Init == running = FALSE /\ clock = 0

Start == running' = TRUE /\ UNCHANGED clock
Stop == running' = FALSE /\ UNCHANGED clock
Advance == running /\ clock' \in Nat /\ clock' >= clock /\ UNCHANGED running

\* The seed is loaded again; whoever started meanwhile goes on.
Rewind == clock' = 0 /\ running' \in {running, FALSE}

Next == Start \/ Stop \/ Advance \/ Rewind

Spec == Init /\ [][Next]_vars
=============================================================================
