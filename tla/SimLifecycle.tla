---------------------------- MODULE SimLifecycle ----------------------------
(***************************************************************************)
(* The tick loop of SimEngine and the requests that control it: start,     *)
(* pause, reset and set_speed of the REST API.                             *)
(*                                                                         *)
(* The loop is an asyncio task.  pause and reset cancel it and wait until  *)
(* it has ended, which takes as long as the handlers of the event it is    *)
(* publishing take to be cancelled; any other request may be served while  *)
(* they wait.  `task' is the handle self._task; a loop nobody holds the    *)
(* handle of is still a loop.                                              *)
(*                                                                         *)
(* Sim time is in minutes, real time in seconds.  asyncio.sleep may end    *)
(* after any time here, also before the second is over.                    *)
(***************************************************************************)
EXTENDS Integers, FiniteSets

CONSTANTS Loops,            \* bound: loop tasks that may be created
          Calls,            \* bound: pause and reset requests
          NoLoop,           \* self._task is None
          Speeds,           \* speeds a request may set, minutes per second
          InitialSpeed,
          MaxReal           \* bound: time.monotonic

ASSUME LifecycleAssumption ==
    /\ NoLoop \notin Loops
    /\ Speeds \subseteq Nat /\ InitialSpeed \in Nat /\ MaxReal \in Nat

VARIABLES real,             \* time.monotonic()
          clock,            \* _sim_time
          speed,            \* _speed
          running,          \* _running
          task,             \* _task
          anchorReal,       \* _anchor_real
          anchorSim,        \* _anchor_sim
          loop,             \* where each loop task is
          calls,            \* pause and reset requests: what they do, for which task they wait
          since             \* history: real time of the last request to reset

vars == <<real, clock, speed, running, task, anchorReal, anchorSim, loop, calls, since>>

LoopStates == {"none", "runnable", "publishing", "sleeping", "cancelling", "done"}

Idle == [op |-> "none", on |-> NoLoop]
Returned(op) == [op |-> op, on |-> NoLoop]

(* Every variable keeps its type. *)
LTypeOK ==
    /\ real \in Nat /\ clock \in Nat /\ speed \in Nat /\ running \in BOOLEAN
    /\ task \in Loops \cup {NoLoop}
    /\ anchorReal \in Nat /\ anchorSim \in Nat
    /\ loop \in [Loops -> LoopStates]
    /\ calls \in [Calls -> [op : {"none", "pause", "reset"},
                            on : Loops \cup {NoLoop}]]
    /\ since \in Nat

Init ==
    /\ real = 0 /\ clock = 0 /\ speed = InitialSpeed /\ running = FALSE
    /\ task = NoLoop /\ anchorReal = 0 /\ anchorSim = 0
    /\ loop = [l \in Loops |-> "none"]
    /\ calls = [c \in Calls |-> Idle]
    /\ since = 0
-----------------------------------------------------------------------------
(* The requests. *)

Anchored == anchorReal' = real /\ anchorSim' = clock

\* A running simulation is not started again.
Start(l) ==
    /\ ~running /\ running' = TRUE
    /\ loop[l] = "none"
    /\ loop' = [loop EXCEPT ![l] = "runnable"]
    /\ task' = l
    /\ Anchored
    /\ UNCHANGED <<real, clock, speed, calls, since>>

SetSpeed(s) ==
    /\ speed' = s
    /\ Anchored
    /\ UNCHANGED <<real, clock, running, task, loop, calls, since>>

\* self._task is a loop that has not ended
Held == task \in Loops /\ loop[task] \in {"runnable", "publishing", "sleeping", "cancelling"}

\* What pause and reset do at once, and what they do when the loop has ended.
Request_KeepsFlag(op) == UNCHANGED running /\ since' = IF op = "reset" THEN real ELSE since
Request(op) ==
    /\ running' = FALSE
    /\ since' = IF op = "reset" THEN real ELSE since

Proceed(c, op) ==
    /\ calls' = [calls EXCEPT ![c] = Returned(op)]
    /\ task' = NoLoop
    /\ clock' = IF op = "reset" THEN 0 ELSE clock

\* pause and reset without a loop to wait for run to their end.
HaltNow(c, op) ==
    /\ calls[c] = Idle /\ ~Held
    /\ Request(op) /\ Proceed(c, op)
    /\ UNCHANGED <<real, speed, anchorReal, anchorSim, loop>>

\* With a loop they cancel the task and wait.
Halt(c, op) ==
    /\ calls[c] = Idle /\ Held
    /\ Request(op)
    /\ loop' = [loop EXCEPT ![task] = "cancelling"]
    /\ calls' = [calls EXCEPT ![c] = [op |-> op, on |-> task]]
    /\ UNCHANGED <<real, clock, speed, task, anchorReal, anchorSim>>

Resume(c) ==
    /\ calls[c].on # NoLoop /\ loop[calls[c].on] = "done"
    /\ Proceed(c, calls[c].op)
    /\ UNCHANGED <<real, speed, running, anchorReal, anchorSim, loop, since>>
-----------------------------------------------------------------------------
(* The loop. *)

\* while self._running
GoesOn_Always == TRUE
GoesOn == running

Target_Backwards == anchorSim + (anchorReal - real) * speed
Target == anchorSim + (real - anchorReal) * speed

TickBody(l) ==
    /\ loop[l] = "runnable"
    /\ IF GoesOn
       THEN clock' = Target /\ loop' = [loop EXCEPT ![l] = "publishing"]
       ELSE UNCHANGED clock /\ loop' = [loop EXCEPT ![l] = "done"]
    /\ UNCHANGED <<real, speed, running, task, anchorReal, anchorSim, calls, since>>

Move(l, from, to) ==
    /\ loop[l] = from /\ loop' = [loop EXCEPT ![l] = to]
    /\ UNCHANGED <<real, clock, speed, running, task, anchorReal, anchorSim, calls, since>>

EndPublish(l) == Move(l, "publishing", "sleeping")
EndSleep(l) == Move(l, "sleeping", "runnable")
EndCancelled_Swallowed(l) == Move(l, "cancelling", "sleeping")
EndCancelled(l) == Move(l, "cancelling", "done")

Second ==
    /\ real < MaxReal /\ real' = real + 1
    /\ UNCHANGED <<clock, speed, running, task, anchorReal, anchorSim, loop, calls, since>>
-----------------------------------------------------------------------------
LoopStep(l) == TickBody(l) \/ EndPublish(l) \/ EndSleep(l) \/ EndCancelled(l)

Next == \/ \E l \in Loops : Start(l) \/ LoopStep(l)
        \/ \E s \in Speeds : SetSpeed(s)
        \/ \E c \in Calls : Resume(c)
        \/ \E c \in Calls, op \in {"pause", "reset"} : HaltNow(c, op) \/ Halt(c, op)
        \/ Second

Spec == Init /\ [][Next]_vars

\* The event loop runs every task that is ready, handlers end, cancelled or not, and
\* sleeps end.  Nothing is assumed of the requests.
LiveSpec == /\ Spec
            /\ \A l \in Loops : WF_vars(LoopStep(l))
            /\ \A c \in Calls : WF_vars(Resume(c))
-----------------------------------------------------------------------------
(* Properties. *)

\* A start is never lost: while the simulation counts as running a loop that is not
\* being cancelled exists, whatever pauses and resets still wait for older loops.
RunningHasLoop ==
    running => \E l \in Loops : loop[l] \in {"runnable", "publishing", "sleeping"}

\* The clock goes back only by a reset, also when the speed changes between two
\* ticks or two loops tick side by side (engine docstring: the clock is derived from
\* an anchor, so that jitter never accumulates).
BackByReset ==
    clock' < clock =>
        /\ clock' = 0
        /\ \E c \in Calls : calls'[c] = Returned("reset") /\ calls[c] # Returned("reset")
ClockMonotone == [][BackByReset]_vars

\* A stopped simulation stops: every loop ends, also those whose handle was lost.
StopsTicking ==
    ~running ~> running \/ \A l \in Loops : loop[l] \in {"none", "done"}

\* A running simulation ticks.
KeepsTicking == running ~> ~running \/ \E l \in Loops : loop[l] = "publishing"

\* A pause or a reset returns, whatever is started and stopped while it waits.
CallsReturn == \A c \in Calls : calls[c].on # NoLoop ~> calls[c].on = NoLoop

\* The lifecycle implements SimClock.
Clock == INSTANCE SimClock WITH running <- running, clock <- clock
ImplementsClock == Clock!Spec

(* A claim of the documentation that the code does not keep. *)

\* CONTRACTS, reset: "sim_time back to 08:00".  Once every reset has returned, the
\* clock has run no longer than since the last of them was requested.
FastestSpeed == CHOOSE s \in Speeds \cup {InitialSpeed} :
                    \A x \in Speeds \cup {InitialSpeed} : x <= s
Resetting == \E c \in Calls : calls[c].op = "reset" /\ calls[c].on # NoLoop
ResetRestartsClock == ~Resetting => clock <= (real - since) * FastestSpeed
=============================================================================
