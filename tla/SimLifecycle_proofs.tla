------------------------ MODULE SimLifecycle_proofs ------------------------
(***************************************************************************)
(* Theorems about SimLifecycle for every number of loops, requests and     *)
(* speeds.  The inductive invariant adds to the type invariant that the    *)
(* anchor lies in the past and that the clock has not overtaken the time   *)
(* the anchor gives.                                                       *)
(***************************************************************************)
EXTENDS SimLifecycle, TLAPS

AnchorPast == anchorReal <= real
ClockBehind == clock <= Target
LInv == LTypeOK /\ AnchorPast /\ ClockBehind /\ RunningHasLoop

(* Minutes elapsed are a natural number and grow with the seconds. *)
LEMMA Elapsed ==
    ASSUME NEW a \in Nat, NEW r \in Nat, NEW s \in Nat, a <= r
    PROVE  /\ (r - a) * s \in Nat
           /\ (r - r) * s = 0
           /\ (r + 1 - a) * s = (r - a) * s + s
<1>1. PICK d \in Nat : r - a = d
  OBVIOUS
<1>2. d * s \in Nat
  OBVIOUS
<1>3. (d + 1) * s = d * s + s
  OBVIOUS
<1>4. r + 1 - a = d + 1
  BY <1>1
<1>5. r - r = 0 /\ 0 * s = 0
  OBVIOUS
<1> QED
  BY <1>1, <1>2, <1>3, <1>4, <1>5

(* The time the anchor gives is a natural number, not before the anchor. *)
LEMMA TargetType ==
    ASSUME LTypeOK, AnchorPast
    PROVE  Target \in Nat /\ Target >= anchorSim
<1>1. (real - anchorReal) * speed \in Nat
  BY Elapsed DEF LTypeOK, AnchorPast
<1>2. anchorSim \in Nat
  BY DEF LTypeOK
<1> QED
  BY <1>1, <1>2 DEF Target

(* Init establishes the invariant. *)
LEMMA InitLInv == Init => LInv
<1> SUFFICES ASSUME Init PROVE LInv
  OBVIOUS
<1>1. LTypeOK /\ AnchorPast
  <2>1. loop \in [Loops -> LoopStates]
    BY DEF Init, LoopStates
  <2>2. calls \in [Calls -> [op : {"none", "pause", "reset"}, on : Loops \cup {NoLoop}]]
    BY DEF Init, Idle
  <2>3. speed \in Nat
    BY LifecycleAssumption DEF Init
  <2> QED
    <3>1. real = 0 /\ clock = 0 /\ anchorReal = 0 /\ anchorSim = 0 /\ since = 0
      BY DEF Init
    <3>2. running \in BOOLEAN /\ task \in Loops \cup {NoLoop}
      BY DEF Init
    <3> QED
      BY <2>1, <2>2, <2>3, <3>1, <3>2 DEF LTypeOK, AnchorPast
<1>2. ClockBehind
  BY <1>1, TargetType DEF Init, ClockBehind, LTypeOK
<1>3. RunningHasLoop
  BY DEF Init, RunningHasLoop
<1> QED
  BY <1>1, <1>2, <1>3 DEF LInv

(* Every step keeps the types, and the anchor in the past. *)
LEMMA NextType ==
    ASSUME LTypeOK, AnchorPast, [Next]_vars
    PROVE  LTypeOK' /\ AnchorPast'
<1> USE DEF LTypeOK, AnchorPast
<1>1. CASE \E l \in Loops : Start(l)
  BY <1>1 DEF Start, Anchored, LoopStates
<1>2. CASE \E s \in Speeds : SetSpeed(s)
  BY <1>2, LifecycleAssumption DEF SetSpeed, Anchored
<1>3. CASE \E c \in Calls, op \in {"pause", "reset"} : HaltNow(c, op)
  <2>1. PICK c \in Calls, op \in {"pause", "reset"} : HaltNow(c, op)
    BY <1>3
  <2>2. calls' \in [Calls -> [op : {"none", "pause", "reset"}, on : Loops \cup {NoLoop}]]
    BY <2>1 DEF HaltNow, Proceed, Returned
  <2>3. clock' \in Nat /\ since' \in Nat
    BY <2>1 DEF HaltNow, Request, Proceed
  <2> QED
    BY <2>1, <2>2, <2>3 DEF HaltNow, Request, Proceed
<1>4. CASE \E c \in Calls, op \in {"pause", "reset"} : Halt(c, op)
  <2>1. PICK c \in Calls, op \in {"pause", "reset"} : Halt(c, op)
    BY <1>4
  <2>2. task \in Loops /\ loop' \in [Loops -> LoopStates]
    BY <2>1 DEF Halt, Held, LoopStates
  <2>3. calls' \in [Calls -> [op : {"none", "pause", "reset"}, on : Loops \cup {NoLoop}]]
    BY <2>1, <2>2 DEF Halt
  <2> QED
    BY <2>1, <2>2, <2>3 DEF Halt, Request
<1>5. CASE \E c \in Calls : Resume(c)
  BY <1>5 DEF Resume, Proceed, Returned
<1>6. CASE \E l \in Loops : TickBody(l)
  <2>1. PICK l \in Loops : TickBody(l)
    BY <1>6
  <2>2. clock' \in Nat
    BY <2>1, TargetType DEF TickBody
  <2>3. loop' \in [Loops -> LoopStates]
    BY <2>1 DEF TickBody, LoopStates
  <2> QED
    BY <2>1, <2>2, <2>3 DEF TickBody
<1>7. CASE \E l \in Loops : EndPublish(l) \/ EndSleep(l) \/ EndCancelled(l)
  BY <1>7 DEF EndPublish, EndSleep, EndCancelled, Move, LoopStates
<1>8. CASE Second
  BY <1>8 DEF Second
<1>9. CASE UNCHANGED vars
  BY <1>9 DEF vars
<1> QED
  BY <1>1, <1>2, <1>3, <1>4, <1>5, <1>6, <1>7, <1>8, <1>9 DEF Next, LoopStep

(* No step takes the clock past the time the anchor gives. *)
LEMMA NextClockBehind ==
    ASSUME LInv, LTypeOK', AnchorPast', [Next]_vars
    PROVE  ClockBehind'
<1> USE DEF LInv
<1>1. clock \in Nat /\ Target \in Nat /\ Target' \in Nat /\ Target' >= anchorSim'
  <2>1. Target' \in Nat /\ Target' >= anchorSim'
    <3>1. (real' - anchorReal') * speed' \in Nat
      BY Elapsed DEF LTypeOK, AnchorPast
    <3>2. Target' = anchorSim' + (real' - anchorReal') * speed'
      BY DEF Target
    <3>3. anchorSim' \in Nat
      BY DEF LTypeOK
    <3> QED
      BY <3>1, <3>2, <3>3
  <2> QED
    BY <2>1, TargetType DEF LTypeOK
<1>2. CASE Anchored /\ UNCHANGED clock
  BY <1>1, <1>2 DEF Anchored, ClockBehind
<1>3. CASE UNCHANGED <<real, speed, anchorReal, anchorSim>> /\ clock' \in {0, clock, Target}
  <2>1. Target' = Target
    BY <1>3 DEF Target
  <2> QED
    BY <1>1, <1>3, <2>1 DEF ClockBehind
<1>4. CASE Second
  <2>1. (real + 1 - anchorReal) * speed = (real - anchorReal) * speed + speed
    BY Elapsed DEF LTypeOK, AnchorPast
  <2>2. (real - anchorReal) * speed \in Nat
    BY Elapsed DEF LTypeOK, AnchorPast
  <2>3. Target' = anchorSim + ((real - anchorReal) * speed + speed)
    <3>1. Target' = anchorSim' + (real' - anchorReal') * speed'
      BY DEF Target
    <3>2. real' = real + 1 /\ anchorReal' = anchorReal /\ speed' = speed /\ anchorSim' = anchorSim
      BY <1>4 DEF Second
    <3>3. Target' = anchorSim + (real + 1 - anchorReal) * speed
      <4>1. real' - anchorReal' = real + 1 - anchorReal
        BY <3>2 DEF LTypeOK
      <4>2. (real' - anchorReal') * speed' = (real + 1 - anchorReal) * speed
        BY <3>2, <4>1, Zenon
      <4> QED
        BY <3>1, <3>2, <4>2, Zenon
    <3> QED
      BY <2>1, <3>3
  <2>4. anchorSim \in Nat /\ speed \in Nat
    BY DEF LTypeOK
  <2>5. Target' >= Target
    BY <2>2, <2>3, <2>4 DEF Target
  <2> QED
    BY <1>1, <1>4, <2>5 DEF Second, ClockBehind
<1>5. CASE \E l \in Loops : Start(l)
  BY <1>2, <1>5 DEF Start
<1>6. CASE \E s \in Speeds : SetSpeed(s)
  BY <1>2, <1>6 DEF SetSpeed
<1>7. CASE \E c \in Calls, op \in {"pause", "reset"} : HaltNow(c, op) \/ Halt(c, op)
  BY <1>3, <1>7 DEF HaltNow, Halt, Proceed
<1>8. CASE \E c \in Calls : Resume(c)
  BY <1>3, <1>8 DEF Resume, Proceed
<1>9. CASE \E l \in Loops : LoopStep(l)
  BY <1>3, <1>9 DEF LoopStep, TickBody, EndPublish, EndSleep, EndCancelled, Move
<1>10. CASE UNCHANGED vars
  BY <1>3, <1>10 DEF vars
<1> QED
  BY <1>4, <1>5, <1>6, <1>7, <1>8, <1>9, <1>10 DEF Next

(* No step leaves a running simulation without a loop. *)
LEMMA NextRunningHasLoop ==
    ASSUME LTypeOK, RunningHasLoop, [Next]_vars
    PROVE  RunningHasLoop'
<1> USE DEF LTypeOK, RunningHasLoop
<1>1. CASE \E l \in Loops : Start(l)
  BY <1>1 DEF Start
<1>2. CASE ~running'
  BY <1>2
<1>3. CASE running' = running /\ loop' = loop
  BY <1>3
<1>4. CASE \E c \in Calls, op \in {"pause", "reset"} : HaltNow(c, op) \/ Halt(c, op)
  BY <1>2, <1>4 DEF HaltNow, Halt, Request
<1>5. CASE \E l \in Loops : LoopStep(l)
  <2>1. PICK l \in Loops : LoopStep(l)
    BY <1>5
  <2>2. CASE running
    <3>1. PICK m \in Loops : loop[m] \in {"runnable", "publishing", "sleeping"}
      BY <2>2
    <3>2. loop'[m] \in {"runnable", "publishing", "sleeping"}
      BY <2>1, <2>2, <3>1
         DEF LoopStep, TickBody, GoesOn, EndPublish, EndSleep, EndCancelled, Move
    <3> QED
      BY <3>1, <3>2
  <2>3. running' = running
    BY <2>1 DEF LoopStep, TickBody, EndPublish, EndSleep, EndCancelled, Move
  <2> QED
    BY <1>2, <2>2, <2>3
<1> QED
  BY <1>1, <1>3, <1>4, <1>5
     DEF Next, SetSpeed, Resume, Second, vars

(* Every reachable state satisfies the invariant. *)
THEOREM LifecycleInvariant == Spec => []LInv
<1>1. LInv /\ [Next]_vars => LInv'
  BY NextType, NextClockBehind, NextRunningHasLoop DEF LInv
<1> QED
  BY <1>1, InitLInv, PTL DEF Spec

(* Every variable of the lifecycle keeps its type; the clock never goes below its   *)
(* start.                                                                           *)
THEOREM LifecycleTypes == Spec => []LTypeOK
<1>1. LInv => LTypeOK
  BY DEF LInv
<1> QED
  BY <1>1, LifecycleInvariant, PTL

(* A start is never lost: SimEngine.start always leaves a loop that is not being    *)
(* cancelled, and no pause or reset that still waits takes it away.                 *)
THEOREM StartNotLost == Spec => []RunningHasLoop
<1>1. LInv => RunningHasLoop
  BY DEF LInv
<1> QED
  BY <1>1, LifecycleInvariant, PTL

(* The clock goes back only when a reset reloads the seed, whatever the speed is    *)
(* changed to and however many loops tick (SimEngine._loop derives it from the      *)
(* anchor).                                                                         *)
THEOREM ClockGoesBackByReset == Spec => ClockMonotone
<1>1. ASSUME LInv, [Next]_vars PROVE BackByReset
  <2> USE DEF BackByReset
  <2>1. clock \in Nat /\ ~(clock < clock)
    BY <1>1 DEF LInv, LTypeOK
  <2>2. CASE UNCHANGED clock
    BY <2>1, <2>2
  <2>3. CASE \E l \in Loops : TickBody(l)
    <3>1. Target \in Nat /\ ~(Target < clock)
      BY <1>1, <2>1, TargetType DEF LInv, ClockBehind
    <3>2. clock' \in {clock, Target}
      BY <2>3 DEF TickBody
    <3> QED
      BY <2>1, <3>1, <3>2
  <2>4. ASSUME NEW c \in Calls, NEW op \in {"pause", "reset"}, Proceed(c, op),
               calls[c] # Returned(op)
        PROVE  BackByReset
    <3>1. CASE op = "pause"
      BY <2>1, <2>4, <3>1 DEF Proceed
    <3>2. CASE op = "reset"
      BY <1>1, <2>4, <3>2 DEF Proceed, LInv, LTypeOK
    <3> QED
      BY <3>1, <3>2
  <2>5. CASE \E c \in Calls, op \in {"pause", "reset"} : HaltNow(c, op)
    BY <2>4, <2>5 DEF HaltNow, Idle, Returned
  <2>6. CASE \E c \in Calls : Resume(c)
    <3>1. PICK c \in Calls : Resume(c)
      BY <2>6
    <3>2. calls[c].op \in {"none", "pause", "reset"} /\ calls[c].on # NoLoop
      BY <1>1, <3>1 DEF Resume, LInv, LTypeOK
    <3>3. calls[c] # Returned(calls[c].op)
      BY <3>2 DEF Returned
    <3>4. CASE calls[c].op = "none"
      BY <2>2, <3>1, <3>4 DEF Resume, Proceed
    <3> QED
      BY <2>4, <3>1, <3>2, <3>3, <3>4 DEF Resume
  <2>7. CASE UNCHANGED vars
    BY <2>2, <2>7 DEF vars
  <2> QED
    BY <1>1, <2>2, <2>3, <2>5, <2>6, <2>7
       DEF Next, LoopStep, Start, SetSpeed, Halt, Second, EndPublish, EndSleep, EndCancelled, Move
<1> QED
  BY <1>1, LifecycleInvariant, PTL DEF Spec, ClockMonotone

(* The lifecycle implements SimClock: the clock advances only while the simulation  *)
(* runs, and a reset rewinds it without stopping whoever started meanwhile.         *)
THEOREM LifecycleImplementsClock == Spec => ImplementsClock
<1>1. Init => Clock!Init
  BY DEF Init, Clock!Init
<1>2. ASSUME LInv, [Next]_vars PROVE [Clock!Next]_(Clock!vars)
  <2> USE DEF Clock!Next, Clock!Start, Clock!Stop, Clock!Advance, Clock!Rewind, Clock!vars
  <2>1. clock \in Nat /\ running \in BOOLEAN
    BY <1>2 DEF LInv, LTypeOK
  <2>2. CASE \E l \in Loops : Start(l)
    BY <2>2 DEF Start
  <2>3. CASE \E c \in Calls, op \in {"pause", "reset"} : HaltNow(c, op)
    BY <2>3 DEF HaltNow, Request, Proceed
  <2>4. CASE \E c \in Calls, op \in {"pause", "reset"} : Halt(c, op)
    BY <2>4 DEF Halt, Request
  <2>5. CASE \E c \in Calls : Resume(c)
    BY <2>5 DEF Resume, Proceed
  <2>6. CASE \E l \in Loops : TickBody(l)
    <3>1. Target \in Nat /\ Target >= clock
      BY <1>2, <2>1, TargetType DEF LInv, ClockBehind
    <3> QED
      BY <2>1, <2>6, <3>1 DEF TickBody, GoesOn
  <2>7. CASE UNCHANGED <<running, clock>>
    BY <2>7
  <2> QED
    BY <1>2, <2>2, <2>3, <2>4, <2>5, <2>6, <2>7
       DEF Next, LoopStep, SetSpeed, Second, EndPublish, EndSleep, EndCancelled, Move, vars
<1> QED
  BY <1>1, <1>2, LifecycleInvariant, PTL DEF Spec, ImplementsClock, Clock!Spec
=============================================================================
