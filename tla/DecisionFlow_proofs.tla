------------------------ MODULE DecisionFlow_proofs ------------------------
(***************************************************************************)
(* Proofs about DecisionFlow for every set of conflicts, options and       *)
(* resources, every window and every bound; then what a burst of it keeps, *)
(* whichever options are free on the twin and whatever a conflict is, as   *)
(* PlatformFlow_proofs and CrewFlow_proofs need it: decisions at one place *)
(* each (DecidedOnce), plans that are free (PlansInv), conflicts somebody  *)
(* is at work on (Worked).                                                 *)
(***************************************************************************)
EXTENDS DecisionFlow, SequenceLemmas, TLAPS

(* The event queue as a set, and how the actions change it. *)

Sequence(s) == {s[i] : i \in 1 .. Len(s)}

LEMMA AppendElements ==
    ASSUME NEW S, NEW s \in Seq(S), NEW e \in S
    PROVE  /\ Append(s, e) \in Seq(S)
           /\ Sequence(Append(s, e)) \subseteq Sequence(s) \cup {e}
<1>1. Append(s, e) \in Seq(S)
  OBVIOUS
<1>2. Len(Append(s, e)) = Len(s) + 1
  OBVIOUS
<1>3. \A i \in 1 .. Len(s) + 1 : Append(s, e)[i] = IF i <= Len(s) THEN s[i] ELSE e
  OBVIOUS
<1> QED
  BY <1>1, <1>2, <1>3 DEF Sequence

LEMMA TailElements ==
    ASSUME NEW S, NEW s \in Seq(S), s # <<>>
    PROVE  /\ Tail(s) \in Seq(S)
           /\ Sequence(Tail(s)) \subseteq Sequence(s)
           /\ Head(s) \in Sequence(s) /\ Head(s) \in S
<1>1. Tail(s) \in Seq(S) /\ Len(Tail(s)) = Len(s) - 1 /\ Len(s) \in Nat \ {0}
  OBVIOUS
<1>2. \A i \in 1 .. Len(s) - 1 : Tail(s)[i] = s[i + 1]
  OBVIOUS
<1>3. Head(s) = s[1] /\ Head(s) \in S
  OBVIOUS
<1> QED
  BY <1>1, <1>2, <1>3 DEF Sequence

LEMMA CancelElements ==
    ASSUME NEW s \in Seq(Events)
    PROVE  LET t == [i \in 1 .. Len(s) |-> CancelTick(s[i])]
           IN  /\ t \in Seq(Events)
               /\ \A e \in Sequence(t) : e \in Sequence(s) \/ e.topic = "sim.tick"
<1> DEFINE t == [i \in 1 .. Len(s) |-> CancelTick(s[i])]
<1>1. \A e \in Events : /\ CancelTick(e) \in Events
                        /\ CancelTick(e) = e \/ CancelTick(e).topic = "sim.tick"
  BY DEF CancelTick, Events
<1>2. \A i \in 1 .. Len(s) : s[i] \in Events
  OBVIOUS
<1>3. t \in Seq(Events) /\ Len(t) = Len(s)
  BY <1>1, <1>2
<1>4. \A i \in 1 .. Len(s) : t[i] = s[i] \/ t[i].topic = "sim.tick"
  BY <1>1, <1>2
<1> QED
  BY <1>3, <1>4 DEF Sequence

-----------------------------------------------------------------------------
(* Type correctness. *)

LEMMA EventTypes ==
    ASSUME NEW d \in Decisions, NEW t \in Nat
    PROVE  /\ \A s \in {"proposed", "auto"} : ProposedEvent(d, s) \in Events
           /\ \A s \in {"approved", "rejected"}, by \in {"human", "orchestrator"} :
                 ResolvedEvent(d, s, by) \in Events
           /\ \A o \in Options : PlanEvent(d, o) \in Events
           /\ \A from \in {"loop", "request", "cancelled"} : TickEvent(t, from) \in Events
BY DEF ProposedEvent, ResolvedEvent, PlanEvent, TickEvent, Events

\* What the head of the queue is, by its topic.
LEMMA HeadTypes ==
    ASSUME TypeOK, ready # <<>>
    PROVE  /\ Tail(ready) \in Seq(Events) /\ Head(ready) \in Events
           /\ Head(ready).topic = "decision.proposed" => Head(ready).dec \in Decisions
           /\ Head(ready).topic = "decision.resolved" =>
                 /\ Head(ready).dec \in Decisions
                 /\ Head(ready).status \in {"approved", "rejected"}
                 /\ Head(ready).by \in {"human", "orchestrator"}
           /\ Head(ready).topic = "sim.tick" => Head(ready).time \in Nat
<1>1. ready \in Seq(Events)
  BY DEF TypeOK
<1>2. Tail(ready) \in Seq(Events) /\ Head(ready) \in Events
  BY <1>1, TailElements
<1> QED
  BY <1>2 DEF Events

\* Init establishes the types.
LEMMA TypeInit == Init => TypeOK
BY FlowAssumption DEF Init, TypeOK, Decisions, Times, Absent, Statuses

\* Every step keeps them.
LEMMA TypeStep == TypeOK /\ [Next]_vars => TypeOK'
<1> SUFFICES ASSUME TypeOK, [Next]_vars PROVE TypeOK'
  OBVIOUS
<1> USE FlowAssumption
<1>1. CASE UNCHANGED vars
  BY <1>1 DEF TypeOK, vars, state, history
<1>2. ASSUME NEW c \in Conflicts, NEW offered \in SUBSET Options, StartFlow(c, offered)
      PROVE  TypeOK'
  <2> DEFINE g == [flow |-> flows, conflict |-> c, offered |-> offered, excluded |-> {},
                   rejected |-> {}, stale |-> FALSE]
  <2>1. g \in Flows
    BY DEF TypeOK, Flows
  <2>2. /\ flows' = flows + 1
        /\ choosing' = choosing \/ choosing' = choosing \cup {g}
    BY <1>2, Zenon DEF StartFlow, OpenFlow
  <2>3. UNCHANGED <<clock, lastTick, counter, ledger, pending, commits, evaluating,
                    audit, ready, requests, approved, executed, made, vetoed>>
    BY <1>2 DEF StartFlow, history
  <2> HIDE DEF g
  <2>4. flows' \in Nat /\ choosing' \in SUBSET Flows
    BY <2>1, <2>2 DEF TypeOK
  <2> QED
    BY <2>3, <2>4 DEF TypeOK
<1>3. ASSUME NEW f \in choosing, NEW o \in f.offered, Propose(f, o)
      PROVE  TypeOK'
  <2> DEFINE d == counter + 1
  <2>1. f \in Flows /\ o \in Options /\ d \in Decisions
    BY <1>3 DEF TypeOK, Propose, Flows, Decisions
  <2>2. ready' \in Seq(Events)
    BY <1>3, <2>1, EventTypes, AppendElements, TypeOK DEF TypeOK, Propose, Publish
  <2>3. counter' \in 0 .. MaxDecisions
    BY <1>3 DEF TypeOK, Propose
  <2>4. ledger' \in [Decisions -> Records \cup {NoRecord}]
    BY <1>3, <2>1 DEF TypeOK, Propose, Flows, Records
  <2>5. /\ pending' \in [Decisions -> Options \cup {NoOption}]
        /\ choosing' \in SUBSET Flows
    BY <1>3, <2>1 DEF TypeOK, Propose, PlanOf
  <2>6. audit' \in [Decisions -> [status : Statuses, by : {"nobody", "human", "orchestrator"}]]
    BY <1>3, <2>1 DEF TypeOK, Propose, Statuses
  <2>7. made' \in [Decisions -> [chosen : Options \cup {NoOption},
                                 rejected : SUBSET Options, stale : BOOLEAN]]
    BY <1>3, <2>1 DEF TypeOK, Propose, Flows
  <2> QED
    BY <1>3, <2>2, <2>3, <2>4, <2>5, <2>6, <2>7 DEF TypeOK, Propose
<1>4. CASE ProposeAuto
  <2> DEFINE d == counter + 1
  <2>1. d \in Decisions
    BY <1>4 DEF TypeOK, ProposeAuto, Decisions
  <2>2. ready' \in Seq(Events)
    BY <1>4, <2>1, EventTypes, AppendElements DEF TypeOK, ProposeAuto, Publish
  <2>3. ledger' \in [Decisions -> Records \cup {NoRecord}]
    BY <1>4, <2>1 DEF TypeOK, ProposeAuto, Records
  <2>4. audit' \in [Decisions -> [status : Statuses, by : {"nobody", "human", "orchestrator"}]]
    BY <1>4, <2>1 DEF TypeOK, ProposeAuto, Statuses
  <2> QED
    BY <1>4, <2>2, <2>3, <2>4 DEF TypeOK, ProposeAuto, history
<1>5. CASE BeginEvaluation
  BY <1>5, HeadTypes DEF TypeOK, BeginEvaluation, Times, history
<1>6. ASSUME NEW d \in Decisions, EndEvaluation(d)
      PROVE  TypeOK'
  <2>1. evaluating[d] \in Nat /\ evaluating' \in [Decisions -> Times]
    BY <1>6 DEF TypeOK, EndEvaluation, Times, Absent
  <2>2. \A s \in {"approved", "rejected"} : Verdict(d, s, "orchestrator") =>
          /\ ready' \in Seq(Events) /\ approved' \in SUBSET Decisions
          /\ audit' \in [Decisions -> [status : Statuses,
                                       by : {"nobody", "human", "orchestrator"}]]
    BY EventTypes, AppendElements DEF TypeOK, Verdict, Publish, Statuses
  <2>3. commits' \in [Resources -> Times]
    <3>1. CASE UNCHANGED commits
      BY <3>1 DEF TypeOK
    <3>2. CASE ~ UNCHANGED commits
      <4>1. PICK r : commits' = [commits EXCEPT ![r] = evaluating[d]]
        BY <1>6, <3>2 DEF EndEvaluation
      <4> QED
        BY <2>1, <4>1 DEF TypeOK, Times
    <3> QED
      BY <3>1, <3>2
  <2> QED
    BY <1>6, <2>1, <2>2, <2>3 DEF TypeOK, EndEvaluation
<1>7. CASE CarryOut
  <2>1. /\ Head(ready).dec \in Decisions /\ Tail(ready) \in Seq(Events)
        /\ pending[Head(ready).dec] \in Options
    BY <1>7, HeadTypes DEF TypeOK, CarryOut, Resolution
  <2>2. ready' \in Seq(Events)
    BY <1>7, <2>1, EventTypes, AppendElements DEF CarryOut
  <2> QED
    BY <1>7, <2>1, <2>2 DEF TypeOK, CarryOut, WithoutPlan
<1>8. ASSUME NEW offered \in SUBSET Options, Recompute(offered)
      PROVE  TypeOK'
  <2> DEFINE d == Head(ready).dec
             rec == ledger[d]
             excluded == ExcludedAfterReject(rec)
  <2>1. d \in Decisions /\ ready' \in Seq(Events)
    BY <1>8, HeadTypes DEF Recompute, Resolution
  <2>2. /\ rec \in [conflict : Conflicts, chosen : Options, excluded : SUBSET Options]
        /\ excluded \in SUBSET Options
    BY <1>8, <2>1 DEF TypeOK, Recompute, HasRetry, Records, ExcludedAfterReject
  <2>3. ledger' = [ledger EXCEPT ![d].excluded = excluded]
    BY <1>8 DEF Recompute
  <2>4. ledger' = [ledger EXCEPT ![d] = [rec EXCEPT !.excluded = excluded]]
    BY <2>1, <2>3 DEF TypeOK
  <2>5. [rec EXCEPT !.excluded = excluded] \in Records
    BY <2>2 DEF Records
  <2>6. ledger' \in [Decisions -> Records \cup {NoRecord}]
    BY <2>1, <2>4, <2>5 DEF TypeOK
  <2>7. made[d].rejected \cup {rec.chosen} \in SUBSET Options /\ made[d].stale \in BOOLEAN
    BY <2>1, <2>2 DEF TypeOK
  <2>8. flows' \in Nat /\ choosing' \in SUBSET Flows
    BY <1>8, <2>2, <2>7 DEF TypeOK, Recompute, OpenFlow, Flows
  <2>9. commits' \in [Resources -> Times]
    BY <1>8 DEF TypeOK, Recompute, Times
  <2> QED
    BY <1>8, <2>1, <2>6, <2>8, <2>9 DEF TypeOK, Recompute
<1>9. CASE IgnoreResolution
  BY <1>9, HeadTypes DEF TypeOK, IgnoreResolution, Resolution, history
<1>10. CASE TwinHandlesPlan \/ CancelledTick
  BY <1>10, HeadTypes DEF TypeOK, TwinHandlesPlan, CancelledTick, history
<1>11. ASSUME NEW d \in Decisions, NEW s \in {"approved", "rejected"}, HumanResolve(d, s)
       PROVE  TypeOK'
  <2>1. /\ ready' \in Seq(Events) /\ approved' \in SUBSET Decisions
        /\ audit' \in [Decisions -> [status : Statuses, by : {"nobody", "human", "orchestrator"}]]
    BY <1>11, EventTypes, AppendElements DEF TypeOK, HumanResolve, Verdict, Publish, Statuses
  <2> QED
    BY <1>11, <2>1 DEF TypeOK, HumanResolve
<1>12. CASE Tick
  <2>1. PICK t \in (clock + 1) .. MaxTime : clock' = t /\ Publish(TickEvent(t, "loop"))
    BY <1>12 DEF Tick
  <2>2. TickEvent(t, "loop") \in Events /\ t \in Nat
    BY <2>1 DEF TypeOK, TickEvent, Events
  <2>3. ready' \in Seq(Events)
    BY <2>1, <2>2, AppendElements DEF TypeOK, Publish
  <2> QED
    BY <1>12, <2>1, <2>2, <2>3 DEF TypeOK, Tick, history
<1>13. CASE Pause \/ Reset
  <2>1. PICK t \in {0, clock} : Halt(t)
    BY <1>13 DEF Pause, Reset
  <2>2. t \in Nat /\ TickEvent(t, "request") \in Events
    BY DEF TypeOK, TickEvent, Events
  <2>3. ready' \in Seq(Events)
    BY <2>1, <2>2, CancelElements, AppendElements DEF TypeOK, Halt
  <2> QED
    BY <2>1, <2>2, <2>3 DEF TypeOK, Halt, history
<1>14. CASE WatchReset
  <2>1. Head(ready).time \in Nat /\ ready' \in Seq(Events)
    BY <1>14, HeadTypes DEF WatchReset
  <2>2. choosing' \in SUBSET Flows
    <3>1. \A f \in Flows : [f EXCEPT !.stale = TRUE] \in Flows
      BY DEF Flows
    <3> QED
      BY <1>14, <3>1 DEF TypeOK, WatchReset
  <2>3. made' \in [Decisions -> [chosen : Options \cup {NoOption},
                                 rejected : SUBSET Options, stale : BOOLEAN]]
    <3> DEFINE M == [chosen : Options \cup {NoOption}, rejected : SUBSET Options, stale : BOOLEAN]
    <3>1. \A m \in M, b \in BOOLEAN : [m EXCEPT !.stale = b] \in M
      OBVIOUS
    <3>2. \A d \in Decisions : (d <= counter) \in BOOLEAN
      OBVIOUS
    <3>3. \A d \in Decisions : made[d] \in M
      BY DEF TypeOK
    <3>4. [d \in Decisions |-> [made[d] EXCEPT !.stale = d <= counter]] \in [Decisions -> M]
      BY <3>1, <3>2, <3>3
    <3> QED
      BY <1>14, <3>4 DEF TypeOK, WatchReset
  <2> QED
    BY <1>14, <2>1, <2>2, <2>3 DEF TypeOK, WatchReset, Times, CounterAfterReset
<1> QED
  BY <1>1, <1>2, <1>3, <1>4, <1>5, <1>6, <1>7, <1>8, <1>9, <1>10, <1>11, <1>12, <1>13, <1>14
     DEF Next, Deliver, ChooseFor

\* The tables and the queue of the flow keep their types.
THEOREM TypeCorrect == Spec => []TypeOK
BY TypeInit, TypeStep, PTL DEF Spec
-----------------------------------------------------------------------------
(* The inductive invariant. *)

\* What a published event adds to the queue, and what a delivered one leaves.
LEMMA QueuePublish ==
    ASSUME TypeOK, NEW e \in Events, Publish(e)
    PROVE  Queue' \subseteq Queue \cup {e}
BY AppendElements DEF TypeOK, Publish, Queue, Sequence

LEMMA QueueDeliver ==
    ASSUME TypeOK, ready # <<>>
    PROVE  /\ Head(ready) \in Queue
           /\ ready' = Tail(ready) => Queue' \subseteq Queue
           /\ \A e \in Events : ready' = Append(Tail(ready), e) => Queue' \subseteq Queue \cup {e}
<1>1. Tail(ready) \in Seq(Events) /\ Head(ready) \in Sequence(ready)
      /\ Sequence(Tail(ready)) \subseteq Sequence(ready)
  BY TailElements DEF TypeOK
<1>2. \A e \in Events : Sequence(Append(Tail(ready), e)) \subseteq Sequence(Tail(ready)) \cup {e}
  BY <1>1, AppendElements
<1> QED
  BY <1>1, <1>2 DEF Queue, Sequence

\* Init establishes the invariant.
LEMMA FlowInvInit == Init => FlowInv
BY TypeInit, FlowAssumption
   DEF Init, FlowInv, NoTrace, QueueKnown, PlanOnce, ChainExcluded, Queue, HasRetry, Decisions

\* Nothing has a trace of a decision that is still to be issued.
LEMMA NoTraceStep == FlowInv /\ TypeOK' /\ [Next]_vars => NoTrace'
<1> SUFFICES ASSUME FlowInv, TypeOK', [Next]_vars PROVE NoTrace'
  OBVIOUS
<1> USE DEF FlowInv
<1>0. counter \in Nat /\ Decisions \subseteq Nat
  BY FlowAssumption DEF TypeOK, Decisions
<1>1. CASE UNCHANGED vars
  BY <1>1 DEF NoTrace, vars, state, history
<1>2. ASSUME NEW c \in Conflicts, NEW offered \in SUBSET Options, StartFlow(c, offered)
      PROVE  NoTrace'
  BY <1>2 DEF NoTrace, StartFlow, history
<1>3. ASSUME NEW f \in choosing, NEW o \in f.offered, Propose(f, o)
      PROVE  NoTrace'
  <2>1. \A d \in Decisions : d > counter' => d > counter /\ d # counter + 1
    BY <1>0, <1>3 DEF Propose
  <2> QED
    BY <1>3, <2>1 DEF TypeOK, NoTrace, Propose, PlanOf
<1>4. CASE ProposeAuto
  <2>1. \A d \in Decisions : d > counter' => d > counter /\ d # counter + 1
    BY <1>0, <1>4 DEF ProposeAuto
  <2> QED
    BY <1>4, <2>1 DEF TypeOK, NoTrace, ProposeAuto, history
<1>5. CASE BeginEvaluation
  <2>1. Head(ready).dec <= counter /\ Head(ready).dec \in Decisions
    BY <1>5, QueueDeliver, HeadTypes DEF QueueKnown, BeginEvaluation
  <2> QED
    BY <1>0, <1>5, <2>1 DEF TypeOK, NoTrace, BeginEvaluation, history
<1>6. ASSUME NEW d \in Decisions, EndEvaluation(d)
      PROVE  NoTrace'
  <2>1. d <= counter
    BY <1>0, <1>6 DEF NoTrace, EndEvaluation
  <2> QED
    BY <1>0, <1>6, <2>1 DEF TypeOK, NoTrace, EndEvaluation, Verdict
<1>7. CASE CarryOut
  <2>1. Head(ready).dec \in Decisions /\ Head(ready).dec <= counter
    <3> DEFINE d == Head(ready).dec
    <3>1. d \in Decisions
      BY <1>7, HeadTypes DEF CarryOut, Resolution
    <3>2. pending[d] # NoOption
      BY <1>7 DEF CarryOut
    <3> HIDE DEF d
    <3>3. d \in Nat /\ ~ (d > counter)
      BY <1>0, <3>1, <3>2 DEF NoTrace
    <3>4. d <= counter
      BY <1>0, <3>3
    <3> QED
      BY <3>1, <3>4 DEF d
  <2> QED
    BY <1>0, <1>7, <2>1 DEF TypeOK, NoTrace, CarryOut, WithoutPlan
<1>8. ASSUME NEW offered \in SUBSET Options, Recompute(offered)
      PROVE  NoTrace'
  <2>1. Head(ready).dec \in Decisions /\ Head(ready).dec <= counter
    BY <1>0, <1>8, HeadTypes DEF NoTrace, Recompute, Resolution, HasRetry
  <2> QED
    BY <1>0, <1>8, <2>1 DEF TypeOK, NoTrace, Recompute
<1>9. CASE IgnoreResolution \/ TwinHandlesPlan \/ CancelledTick \/ Tick \/ Pause \/ Reset
  BY <1>9 DEF NoTrace, IgnoreResolution, TwinHandlesPlan, CancelledTick, Tick, Pause, Reset, Halt, history
<1>10. ASSUME NEW d \in Decisions, NEW s \in {"approved", "rejected"}, HumanResolve(d, s)
       PROVE  NoTrace'
  <2>1. d <= counter
    BY <1>0, <1>10 DEF NoTrace, HumanResolve
  <2> QED
    BY <1>0, <1>10, <2>1 DEF TypeOK, NoTrace, HumanResolve, Verdict
<1>11. CASE WatchReset
  BY <1>11 DEF NoTrace, WatchReset, CounterAfterReset
<1> QED
  BY <1>1, <1>2, <1>3, <1>4, <1>5, <1>6, <1>7, <1>8, <1>9, <1>10, <1>11
     DEF Next, Deliver, ChooseFor

\* Queued events are about issued decisions, queued approvals about approved ones.
LEMMA QueueKnownStep == FlowInv /\ TypeOK' /\ [Next]_vars => QueueKnown'
<1> SUFFICES ASSUME FlowInv, TypeOK', [Next]_vars PROVE QueueKnown'
  OBVIOUS
<1> USE DEF FlowInv
<1> DEFINE Known(e) == /\ e.topic = "decision.proposed" => e.dec <= counter'
                       /\ e.topic = "decision.resolved" /\ e.status = "approved"
                             => e.dec \in approved'
<1>0. counter \in Nat /\ Decisions \subseteq Nat
  BY FlowAssumption DEF TypeOK, Decisions
<1>a. \A e \in Queue : e \in Events
  BY DEF TypeOK, Queue
<1>b. counter <= counter' /\ approved \subseteq approved' => \A e \in Queue : Known(e)
  <2> SUFFICES ASSUME counter <= counter', approved \subseteq approved', NEW e \in Queue
               PROVE  Known(e)
    OBVIOUS
  <2>1. e.topic = "decision.proposed" => e.dec \in Decisions /\ e.dec <= counter
    BY <1>a DEF QueueKnown, Events
  <2>2. counter' \in Nat
    BY DEF TypeOK
  <2> QED
    <3>1. e.topic = "decision.proposed" => e.dec <= counter'
      <4> SUFFICES ASSUME e.topic = "decision.proposed" PROVE e.dec <= counter'
        OBVIOUS
      <4> DEFINE k == e.dec
      <4>1. k \in Nat /\ k <= counter
        BY <1>0, <2>1
      <4> HIDE DEF k
      <4>2. k <= counter'
        BY <1>0, <2>2, <4>1
      <4> QED
        BY <4>2 DEF k
    <3>2. e.topic = "decision.resolved" /\ e.status = "approved" => e.dec \in approved'
      BY DEF QueueKnown
    <3> QED
      BY <3>1, <3>2
<1>1. CASE UNCHANGED vars
  BY <1>0, <1>1, <1>b DEF QueueKnown, vars, state, history, Queue
<1>2. ASSUME NEW c \in Conflicts, NEW offered \in SUBSET Options, StartFlow(c, offered)
      PROVE  QueueKnown'
  BY <1>0, <1>2, <1>b DEF QueueKnown, StartFlow, history, Queue
<1>3. ASSUME NEW f \in choosing, NEW o \in f.offered, Propose(f, o)
      PROVE  QueueKnown'
  <2> DEFINE e == ProposedEvent(counter + 1, "proposed")
  <2>1. e \in Events /\ counter' = counter + 1 /\ approved' = approved
    BY <1>0, <1>3, EventTypes DEF TypeOK, Propose, Decisions
  <2>2. Queue' \subseteq Queue \cup {e}
    BY <1>3, <2>1, QueuePublish DEF Propose
  <2>3. Known(e)
    BY <2>1, <1>0 DEF ProposedEvent
  <2> QED
    BY <1>0, <1>b, <2>1, <2>2, <2>3 DEF QueueKnown
<1>4. CASE ProposeAuto
  <2> DEFINE e == ProposedEvent(counter + 1, "auto")
  <2>1. e \in Events /\ counter' = counter + 1 /\ approved' = approved
    BY <1>0, <1>4, EventTypes DEF TypeOK, ProposeAuto, Decisions, history
  <2>2. Queue' \subseteq Queue \cup {e}
    BY <1>4, <2>1, QueuePublish DEF ProposeAuto
  <2>3. Known(e)
    BY <2>1, <1>0 DEF ProposedEvent
  <2> QED
    BY <1>0, <1>b, <2>1, <2>2, <2>3 DEF QueueKnown
<1>5. CASE BeginEvaluation \/ IgnoreResolution \/ TwinHandlesPlan \/ CancelledTick
  <2>1. Queue' \subseteq Queue /\ counter' = counter /\ approved' = approved
    BY <1>5, QueueDeliver DEF BeginEvaluation, IgnoreResolution, TwinHandlesPlan,
                              CancelledTick, Resolution, history
  <2> QED
    BY <1>0, <1>b, <2>1 DEF QueueKnown
<1>6. ASSUME NEW d \in Decisions, NEW s \in {"approved", "rejected"},
             NEW by \in {"human", "orchestrator"}, Verdict(d, s, by), counter' = counter
      PROVE  QueueKnown'
  <2> DEFINE e == ResolvedEvent(d, s, by)
  <2>1. e \in Events /\ approved \subseteq approved' /\ (s = "approved" => d \in approved')
    BY <1>0, <1>6, EventTypes DEF Verdict
  <2>2. Queue' \subseteq Queue \cup {e}
    BY <1>6, <2>1, QueuePublish DEF Verdict
  <2>3. Known(e)
    BY <2>1 DEF ResolvedEvent
  <2> QED
    BY <1>0, <1>6, <1>b, <2>1, <2>2, <2>3 DEF QueueKnown
<1>7. CASE CarryOut
  <2> DEFINE e == PlanEvent(Head(ready).dec, pending[Head(ready).dec])
  <2>1. /\ Head(ready).dec \in Decisions /\ pending[Head(ready).dec] \in Options
        /\ approved' = approved /\ counter' = counter
    BY <1>7, HeadTypes DEF TypeOK, CarryOut, Resolution
  <2>2. e \in Events
    BY <1>0, <2>1, EventTypes
  <2>3. Queue' \subseteq Queue \cup {e}
    BY <1>7, <2>2, QueueDeliver DEF CarryOut, Resolution
  <2>4. Known(e)
    BY DEF PlanEvent
  <2> QED
    BY <1>0, <1>b, <2>1, <2>3, <2>4 DEF QueueKnown
<1>8. ASSUME NEW offered \in SUBSET Options, Recompute(offered)
      PROVE  QueueKnown'
  <2>1. Queue' \subseteq Queue /\ counter' = counter /\ approved' = approved
    BY <1>8, QueueDeliver DEF Recompute, Resolution
  <2> QED
    BY <1>0, <1>b, <2>1 DEF QueueKnown
<1>9. CASE Tick
  <2>1. PICK t \in (clock + 1) .. MaxTime : Publish(TickEvent(t, "loop"))
    BY <1>9 DEF Tick
  <2>2. TickEvent(t, "loop") \in Events /\ counter' = counter /\ approved' = approved
    BY <1>9 DEF TypeOK, TickEvent, Events, Tick, history
  <2>3. Queue' \subseteq Queue \cup {TickEvent(t, "loop")}
    BY <2>1, <2>2, QueuePublish
  <2>4. Known(TickEvent(t, "loop"))
    BY DEF TickEvent
  <2> QED
    BY <1>0, <1>b, <2>2, <2>3, <2>4 DEF QueueKnown
<1>10. CASE Pause \/ Reset
  <2>0. PICK u \in {0, clock} : Halt(u)
    BY <1>10 DEF Pause, Reset
  <2> DEFINE t == [i \in 1 .. Len(ready) |-> CancelTick(ready[i])]
             e == TickEvent(u, "request")
  <2>1. e \in Events /\ counter' = counter /\ approved' = approved
    BY <2>0 DEF TypeOK, TickEvent, Events, Halt, history
  <2>2. /\ t \in Seq(Events)
        /\ \A x \in Sequence(t) : x \in Queue \/ x.topic = "sim.tick"
    BY CancelElements DEF TypeOK, Sequence, Queue
  <2>3. ready' = Append(t, e)
    BY <2>0 DEF Halt
  <2> HIDE DEF t, e
  <2>4. Sequence(Append(t, e)) \subseteq Sequence(t) \cup {e}
    BY <2>1, <2>2, AppendElements
  <2>5. Queue' = Sequence(Append(t, e)) /\ e.topic = "sim.tick"
    BY <2>3 DEF Queue, Sequence, TickEvent, e
  <2>6. \A x \in Queue' : x \in Queue \/ x.topic = "sim.tick"
    BY <2>2, <2>4, <2>5
  <2> QED
    BY <1>0, <1>b, <2>1, <2>6 DEF QueueKnown
<1>11. CASE WatchReset
  <2>1. Queue' \subseteq Queue /\ counter' = counter /\ approved' = approved
    BY <1>11, QueueDeliver DEF WatchReset, CounterAfterReset
  <2> QED
    BY <1>0, <1>b, <2>1 DEF QueueKnown
<1>12. ASSUME NEW d \in Decisions, EndEvaluation(d)
       PROVE  QueueKnown'
  BY <1>6, <1>12 DEF EndEvaluation
<1>13. ASSUME NEW d \in Decisions, NEW s \in {"approved", "rejected"}, HumanResolve(d, s)
       PROVE  QueueKnown'
  BY <1>6, <1>13 DEF HumanResolve
<1> QED
  BY <1>1, <1>2, <1>3, <1>4, <1>5, <1>7, <1>8, <1>9, <1>10, <1>11, <1>12, <1>13
     DEF Next, Deliver, ChooseFor

\* The head of the queue, when it is an approval.
LEMMA HeadApproved ==
    ASSUME FlowInv, Resolution("approved")
    PROVE  Head(ready).dec \in Decisions /\ Head(ready).dec \in approved
BY HeadTypes, QueueDeliver DEF FlowInv, QueueKnown, Resolution

\* A plan is carried out by dropping it, after an approval was published.
LEMMA PlanOnceStep == FlowInv /\ TypeOK' /\ [Next]_vars => PlanOnce'
<1> SUFFICES ASSUME FlowInv, TypeOK', [Next]_vars PROVE PlanOnce'
  OBVIOUS
<1> USE DEF FlowInv
<1>0. counter \in Nat /\ Decisions \subseteq Nat
  BY FlowAssumption DEF TypeOK, Decisions
<1>a. ASSUME executed' = executed, approved \subseteq approved',
             \A d \in Decisions : pending'[d] # NoOption => pending[d] # NoOption
      PROVE  PlanOnce'
  BY <1>a DEF PlanOnce
<1>1. CASE UNCHANGED vars
  BY <1>1, <1>a DEF vars, state, history
<1>2. ASSUME NEW c \in Conflicts, NEW offered \in SUBSET Options, StartFlow(c, offered)
      PROVE  PlanOnce'
  BY <1>2, <1>a DEF StartFlow, history
<1>3. ASSUME NEW f \in choosing, NEW o \in f.offered, Propose(f, o)
      PROVE  PlanOnce'
  <2> DEFINE d == counter + 1
  <2>1. d \in Decisions /\ d > counter
    BY <1>0, <1>3 DEF TypeOK, Propose, Decisions
  <2>2. executed[d] = 0
    BY <2>1 DEF NoTrace
  <2>3. /\ executed' = executed /\ approved' = approved
        /\ pending' = [pending EXCEPT ![d] = o]
    BY <1>3 DEF Propose, PlanOf
  <2> HIDE DEF d
  <2> QED
    BY <2>1, <2>2, <2>3 DEF TypeOK, PlanOnce
<1>4. CASE ProposeAuto
  BY <1>4, <1>a DEF ProposeAuto, history
<1>5. CASE \/ BeginEvaluation \/ IgnoreResolution \/ TwinHandlesPlan \/ CancelledTick
           \/ Tick \/ Pause \/ Reset
  BY <1>5, <1>a DEF BeginEvaluation, IgnoreResolution, TwinHandlesPlan, CancelledTick,
                    Tick, Pause, Reset, Halt, history
<1>6. ASSUME NEW d \in Decisions, EndEvaluation(d)
      PROVE  PlanOnce'
  BY <1>6, <1>a DEF EndEvaluation, Verdict
<1>7. CASE CarryOut
  <2> DEFINE d == Head(ready).dec
  <2>1. d \in Decisions /\ d \in approved
    BY <1>7, HeadApproved DEF CarryOut
  <2>2. /\ pending[d] # NoOption /\ approved' = approved
        /\ pending' = [pending EXCEPT ![d] = NoOption]
        /\ executed' = [executed EXCEPT ![d] = @ + 1]
    BY <1>7 DEF CarryOut, WithoutPlan
  <2> HIDE DEF d
  <2>3. executed[d] = 0 /\ executed'[d] = 1 /\ pending'[d] = NoOption
    BY <2>1, <2>2 DEF TypeOK, PlanOnce
  <2>4. \A x \in Decisions : x # d => executed'[x] = executed[x] /\ pending'[x] = pending[x]
    BY <2>2 DEF TypeOK
  <2> QED
    BY <2>1, <2>2, <2>3, <2>4 DEF PlanOnce
<1>8. ASSUME NEW offered \in SUBSET Options, Recompute(offered)
      PROVE  PlanOnce'
  BY <1>8, <1>a DEF Recompute
<1>9. ASSUME NEW d \in Decisions, NEW s \in {"approved", "rejected"}, HumanResolve(d, s)
      PROVE  PlanOnce'
  BY <1>9, <1>a DEF HumanResolve, Verdict
<1>10. CASE WatchReset
  BY <1>10, <1>a DEF WatchReset
<1> QED
  BY <1>1, <1>2, <1>3, <1>4, <1>5, <1>6, <1>7, <1>8, <1>9, <1>10 DEF Next, Deliver, ChooseFor

\* Options rejected on a chain stay excluded.
LEMMA ChainExcludedStep == FlowInv /\ TypeOK' /\ [Next]_vars => ChainExcluded'
<1> SUFFICES ASSUME FlowInv, TypeOK', [Next]_vars PROVE ChainExcluded'
  OBVIOUS
<1> USE DEF FlowInv
<1>0. counter \in Nat /\ Decisions \subseteq Nat
  BY FlowAssumption DEF TypeOK, Decisions
<1>a. ASSUME UNCHANGED <<choosing, ledger, made>> PROVE ChainExcluded'
  BY <1>a DEF ChainExcluded, HasRetry
<1>1. CASE UNCHANGED vars
  BY <1>1, <1>a DEF vars, state, history
<1>2. ASSUME NEW c \in Conflicts, NEW offered \in SUBSET Options, StartFlow(c, offered)
      PROVE  ChainExcluded'
  <2>1. \A f \in choosing' : f \in choosing \/ (f.rejected = {} /\ f.excluded = {})
    BY <1>2 DEF StartFlow, OpenFlow
  <2>2. UNCHANGED <<ledger, made>>
    BY <1>2 DEF StartFlow, history
  <2> QED
    BY <2>1, <2>2 DEF ChainExcluded, HasRetry
<1>3. ASSUME NEW f \in choosing, NEW o \in f.offered, Propose(f, o)
      PROVE  ChainExcluded'
  <2> DEFINE d == counter + 1
  <2>1. /\ choosing' \subseteq choosing /\ d \in Decisions
        /\ ledger' = [ledger EXCEPT ![d] = [conflict |-> f.conflict, chosen |-> o,
                                            excluded |-> f.excluded]]
        /\ made' = [made EXCEPT ![d] = [chosen |-> o, rejected |-> f.rejected,
                                        stale |-> f.stale]]
    BY <1>0, <1>3 DEF TypeOK, Propose, Decisions
  <2> HIDE DEF d
  <2>2. f.rejected \subseteq f.excluded /\ o \notin f.excluded
    BY DEF ChainExcluded
  <2>3. /\ made'[d].chosen = o /\ made'[d].rejected = f.rejected
        /\ ledger'[d].excluded = f.excluded
    BY <2>1 DEF TypeOK
  <2>4. \A x \in Decisions : x # d => made'[x] = made[x] /\ ledger'[x] = ledger[x]
    BY <2>1 DEF TypeOK
  <2> QED
    BY <2>1, <2>2, <2>3, <2>4 DEF ChainExcluded, HasRetry
<1>4. CASE ProposeAuto
  <2> DEFINE d == counter + 1
  <2>1. /\ UNCHANGED <<choosing, made>> /\ d \in Decisions
        /\ ledger' = [ledger EXCEPT ![d] = [conflict |-> NoConflict, chosen |-> NoOption,
                                            excluded |-> {}]]
    BY <1>0, <1>4 DEF TypeOK, ProposeAuto, Decisions, history
  <2> HIDE DEF d
  <2>2. ledger'[d].conflict = NoConflict
    BY <2>1 DEF TypeOK
  <2>3. \A x \in Decisions : x # d => ledger'[x] = ledger[x]
    BY <2>1 DEF TypeOK
  <2> QED
    BY <2>1, <2>2, <2>3 DEF ChainExcluded, HasRetry
<1>5. CASE \/ BeginEvaluation \/ IgnoreResolution \/ TwinHandlesPlan \/ CancelledTick
           \/ Tick \/ Pause \/ Reset \/ CarryOut
  BY <1>5, <1>a DEF BeginEvaluation, IgnoreResolution, TwinHandlesPlan, CancelledTick,
                    Tick, Pause, Reset, Halt, CarryOut, history
<1>6. ASSUME NEW d \in Decisions, EndEvaluation(d)
      PROVE  ChainExcluded'
  BY <1>6, <1>a DEF EndEvaluation
<1>7. ASSUME NEW offered \in SUBSET Options, Recompute(offered)
      PROVE  ChainExcluded'
  <2> DEFINE d == Head(ready).dec
             rec == ledger[d]
             ex == ExcludedAfterReject(rec)
  <2>1. d \in Decisions
    BY <1>7, HeadTypes DEF Recompute, Resolution
  <2>2. /\ HasRetry(d) /\ offered \cap ex = {} /\ made' = made
        /\ ledger' = [ledger EXCEPT ![d].excluded = ex]
        /\ OpenFlow(rec.conflict, offered, ex, made[d].rejected \cup {rec.chosen}, made[d].stale)
    BY <1>7 DEF Recompute
  <2>3. made[d].rejected \cup {rec.chosen} \subseteq ex
    BY <2>1, <2>2 DEF ChainExcluded, ExcludedAfterReject
  <2>4. rec \in Records
    BY <2>1, <2>2 DEF TypeOK, HasRetry
  <2>5. ledger'[d].excluded = ex
    BY <2>1, <2>2, <2>4 DEF TypeOK, Records
  <2>6. \A x \in Decisions : x # d => ledger'[x] = ledger[x]
    BY <2>2 DEF TypeOK
  <2>7. \A f \in choosing' : \/ f \in choosing
                             \/ /\ f.rejected = made[d].rejected \cup {rec.chosen}
                                /\ f.excluded = ex /\ f.offered = offered
    BY <2>2 DEF OpenFlow
  <2> HIDE DEF d, ex
  <2>8. \A x \in Decisions : HasRetry(x)' => made'[x].rejected \subseteq ledger'[x].excluded
    BY <2>1, <2>2, <2>3, <2>5, <2>6 DEF ChainExcluded, HasRetry
  <2> QED
    BY <2>2, <2>3, <2>7, <2>8 DEF ChainExcluded
<1>8. ASSUME NEW d \in Decisions, NEW s \in {"approved", "rejected"}, HumanResolve(d, s)
      PROVE  ChainExcluded'
  BY <1>8, <1>a DEF HumanResolve
<1>9. CASE WatchReset
  <2>1. CASE UNCHANGED <<choosing, ledger, made>>
    BY <2>1, <1>a
  <2>2. CASE ~ UNCHANGED <<choosing, ledger, made>>
    <3>1. /\ choosing' = {[f EXCEPT !.stale = TRUE] : f \in choosing}
          /\ ledger' = [d \in Decisions |-> NoRecord]
          /\ made' = [d \in Decisions |-> [made[d] EXCEPT !.stale = d <= counter]]
      BY <1>9, <2>2 DEF WatchReset
    <3>2. \A f \in Flows : LET g == [f EXCEPT !.stale = TRUE]
                           IN  /\ g.rejected = f.rejected /\ g.excluded = f.excluded
                               /\ g.offered = f.offered
      BY DEF Flows
    <3>3. \A d \in Decisions : /\ made'[d].chosen = made[d].chosen
                               /\ made'[d].rejected = made[d].rejected
      BY <3>1 DEF TypeOK
    <3> QED
      <4>1. \A d \in Decisions : made'[d].chosen \notin made'[d].rejected
        BY <3>3 DEF ChainExcluded
      <4>2. \A d \in Decisions : ~ HasRetry(d)'
        BY <3>1 DEF HasRetry
      <4>3. \A g \in choosing' : \E f \in choosing :
               g.rejected = f.rejected /\ g.excluded = f.excluded /\ g.offered = f.offered
        <5> TAKE g \in choosing'
        <5>1. PICK f \in choosing : g = [f EXCEPT !.stale = TRUE]
          BY <3>1
        <5>2. f \in Flows
          BY DEF TypeOK
        <5>3. g.rejected = f.rejected /\ g.excluded = f.excluded /\ g.offered = f.offered
          BY <3>2, <5>1, <5>2
        <5> QED
          BY <5>3
      <4>4. \A g \in choosing' : g.rejected \subseteq g.excluded /\ g.offered \cap g.excluded = {}
        BY <4>3 DEF ChainExcluded
      <4> QED
        BY <4>1, <4>2, <4>4 DEF ChainExcluded
  <2> QED
    BY <2>1, <2>2
<1> QED
  BY <1>1, <1>2, <1>3, <1>4, <1>5, <1>6, <1>7, <1>8, <1>9 DEF Next, Deliver, ChooseFor

-----------------------------------------------------------------------------
(* The theorems. *)

\* The invariant holds in every state of every behaviour.
THEOREM FlowInvariant == Spec => []FlowInv
<1>1. FlowInv /\ [Next]_vars => FlowInv'
  BY TypeStep, NoTraceStep, QueueKnownStep, PlanOnceStep, ChainExcludedStep DEF FlowInv
<1> QED
  BY <1>1, FlowInvInit, PTL DEF Spec

\* However often orchestrator and operator approve, a plan is carried out once.
THEOREM AtMostOnce == Spec => []ExecutedAtMostOnce
<1>1. FlowInv => ExecutedAtMostOnce
  BY DEF FlowInv, PlanOnce, ExecutedAtMostOnce
<1> QED
  BY <1>1, FlowInvariant, PTL

\* No plan is carried out before a verdict approved its decision.
THEOREM OnlyApproved == Spec => []ExecutedOnlyIfApproved
<1>1. FlowInv => ExecutedOnlyIfApproved
  BY DEF FlowInv, PlanOnce, ExecutedOnlyIfApproved
<1> QED
  BY <1>1, FlowInvariant, PTL

\* A decision id is never issued twice, across any number of resets.
THEOREM FreshIds == Spec => []IdsAreFresh
<1>1. FlowInv => IdsAreFresh
  BY DEF FlowInv, NoTrace, IdsAreFresh
<1> QED
  BY <1>1, FlowInvariant, PTL

\* No option the operator rejected on a chain comes back on that chain.
THEOREM RejectionsStick == Spec => []NeverReproposed
<1>1. FlowInv => NeverReproposed
  BY DEF FlowInv, ChainExcluded, NeverReproposed
<1> QED
  BY <1>1, FlowInvariant, PTL

\* Successive commits on a resource are at least Window apart.
THEOREM CommitSpacing == Spec => CommitsSpaced
<1> DEFINE Spaced == \A r \in Resources :
                        commits[r] # Absent /\ commits'[r] # Absent =>
                            commits'[r] = commits[r] \/ commits'[r] >= commits[r] + Window
<1>1. TypeOK /\ [Next]_vars => Spaced
  <2> SUFFICES ASSUME TypeOK, [Next]_vars, NEW r \in Resources,
                      commits[r] # Absent, commits'[r] # Absent, commits'[r] # commits[r]
               PROVE  commits'[r] >= commits[r] + Window
    OBVIOUS
  <2>1. ~ UNCHANGED commits
    OBVIOUS
  <2>2. ~ WatchReset
    BY DEF WatchReset
  <2>3. ASSUME NEW offered \in SUBSET Options, Recompute(offered) PROVE FALSE
    <3>1. PICK x : commits' = [commits EXCEPT ![x] = Absent]
      BY <2>3 DEF Recompute
    <3> QED
      BY <3>1 DEF TypeOK
  <2>4. ASSUME NEW d \in Decisions, EndEvaluation(d)
        PROVE  commits'[r] >= commits[r] + Window
    <3> DEFINE now == evaluating[d]
               x == ResourceOf[ledger[d].chosen]
    <3>1. /\ ~ Contended(d, now) /\ ledger[d] # NoRecord
          /\ commits' = [commits EXCEPT ![x] = now] /\ now # Absent
      BY <2>1, <2>4 DEF EndEvaluation
    <3>2. x = r /\ commits'[r] = now
      BY <3>1 DEF TypeOK
    <3>3. now \in Nat /\ commits[r] \in Nat /\ Window \in Nat
      BY <3>1, FlowAssumption DEF TypeOK, Times, Absent
    <3>4. ~ (now - commits[r] < Window)
      BY <3>1, <3>2 DEF Contended
    <3> QED
      BY <3>2, <3>3, <3>4
  <2>5. ASSUME \/ UNCHANGED vars \/ BeginEvaluation \/ CarryOut \/ IgnoreResolution
               \/ TwinHandlesPlan \/ CancelledTick \/ ProposeAuto \/ Tick \/ Pause \/ Reset
               \/ \E c \in Conflicts, offered \in SUBSET Options : StartFlow(c, offered)
               \/ \E f \in choosing : \E o \in f.offered : Propose(f, o)
               \/ \E d \in Decisions, s \in {"approved", "rejected"} : HumanResolve(d, s)
        PROVE  FALSE
    BY <2>1, <2>5 DEF vars, state, BeginEvaluation, CarryOut, IgnoreResolution,
       TwinHandlesPlan, CancelledTick, ProposeAuto, Tick, Pause, Reset, Halt, StartFlow, Propose,
       HumanResolve
  <2> QED
    BY <2>2, <2>3, <2>4, <2>5 DEF Next, Deliver, ChooseFor
<1>2. TypeOK /\ [Next]_vars => [Spaced]_vars
  BY <1>1
<1> QED
  BY <1>2, TypeCorrect, PTL DEF Spec, CommitsSpaced

-----------------------------------------------------------------------------
(* Refinement: the flow implements DecisionContract. *)

LEMMA VerdictApproves ==
    ASSUME NEW d \in Decisions, NEW s, NEW by, Verdict(d, s, by),
           counter' = counter, executed' = executed, d <= counter
    PROVE  Contract!Approve(d) \/ UNCHANGED <<counter, approved, executed>>
BY DEF Verdict, Contract!Approve

\* Every behaviour of the flow is a behaviour of the contract: ids are issued in
\* order, verdicts approve issued decisions, plans follow an approval, once.
THEOREM FlowKeepsContract == Spec => KeepsContract
<1>1. Init => Contract!Init
  BY DEF Init, Contract!Init, Decisions, Contract!Decisions
<1>2. FlowInv /\ [Next]_vars => [Contract!Next]_(Contract!vars)
  <2> SUFFICES ASSUME FlowInv, [Next]_vars
               PROVE  Contract!Next \/ UNCHANGED <<counter, approved, executed>>
    BY DEF Contract!vars
  <2>0. counter \in Nat /\ Decisions \subseteq Nat
    BY FlowAssumption DEF FlowInv, TypeOK, Decisions
  <2>1. ASSUME NEW f \in choosing, NEW o \in f.offered, Propose(f, o)
        PROVE  Contract!Issue
    BY <2>1 DEF Propose, Contract!Issue
  <2>2. CASE ProposeAuto
    BY <2>2 DEF ProposeAuto, history, Contract!Issue, Contract!Next
  <2>3. ASSUME NEW d \in Decisions, EndEvaluation(d)
        PROVE  Contract!Approve(d) \/ UNCHANGED <<counter, approved, executed>>
    <3>1. d <= counter
      BY <2>0, <2>3 DEF FlowInv, NoTrace, EndEvaluation
    <3> QED
      BY <2>3, <3>1, VerdictApproves DEF EndEvaluation
  <2>4. ASSUME NEW d \in Decisions, NEW s \in {"approved", "rejected"}, HumanResolve(d, s)
        PROVE  Contract!Approve(d) \/ UNCHANGED <<counter, approved, executed>>
    <3>1. d <= counter
      BY <2>0, <2>4 DEF FlowInv, NoTrace, HumanResolve
    <3> QED
      BY <2>4, <3>1, VerdictApproves DEF HumanResolve
  <2>5. CASE CarryOut
    <3> DEFINE d == Head(ready).dec
    <3>1. d \in Decisions /\ d \in approved
      BY <2>5, HeadApproved DEF CarryOut
    <3>2. /\ pending[d] # NoOption /\ UNCHANGED <<counter, approved>>
          /\ executed' = [executed EXCEPT ![d] = executed[d] + 1]
      BY <2>5 DEF CarryOut
    <3> HIDE DEF d
    <3>3. executed[d] = 0
      BY <3>1, <3>2 DEF FlowInv, PlanOnce
    <3>4. Contract!Execute(d)
      BY <3>1, <3>2, <3>3 DEF Contract!Execute
    <3> QED
      BY <3>1, <3>4 DEF Contract!Next, Contract!Decisions, Decisions
  <2>6. ASSUME \/ UNCHANGED vars \/ BeginEvaluation \/ IgnoreResolution \/ TwinHandlesPlan
               \/ CancelledTick \/ Tick \/ Pause \/ Reset \/ WatchReset
               \/ \E offered \in SUBSET Options : Recompute(offered)
               \/ \E c \in Conflicts, offered \in SUBSET Options : StartFlow(c, offered)
        PROVE  UNCHANGED <<counter, approved, executed>>
    BY <2>6 DEF vars, state, history, BeginEvaluation, IgnoreResolution, TwinHandlesPlan,
       CancelledTick, Tick, Pause, Reset, Halt, WatchReset, CounterAfterReset, Recompute, StartFlow
  <2> QED
    BY <2>1, <2>2, <2>3, <2>4, <2>5, <2>6
       DEF Next, Deliver, ChooseFor, Contract!Next, Contract!Decisions, Decisions
<1> QED
  BY <1>1, <1>2, FlowInvariant, PTL DEF Spec, KeepsContract, Contract!Spec
-----------------------------------------------------------------------------
(* The queue, event by event. *)

\* What the head leaves behind it.
LEMMA TailAt ==
    ASSUME TypeOK, ready # <<>>
    PROVE  /\ Len(ready) \in Nat \ {0} /\ 1 \in 1 .. Len(ready) /\ Head(ready) = ready[1]
           /\ Tail(ready) \in Seq(Events) /\ Len(Tail(ready)) = Len(ready) - 1
           /\ \A i \in 1 .. Len(Tail(ready)) : i + 1 \in 1 .. Len(ready) /\ Tail(ready)[i] = ready[i + 1]
BY TailShifts DEF TypeOK

\* A delivery changes the queue.
LEMMA DeliveryShows == ASSUME TypeOK, ready # <<>> PROVE Tail(ready) # ready
<1>1. Len(Tail(ready)) = Len(ready) - 1 /\ Len(ready) \in Nat
  BY TailAt
<1>2. \A n \in Nat : n - 1 # n
  OBVIOUS
<1> QED
  BY <1>1, <1>2, Zenon

\* An appended event is the last one.
LEMMA AppendAt ==
    ASSUME TypeOK, NEW e \in Events
    PROVE  /\ Len(ready) \in Nat /\ Len(Append(ready, e)) = Len(ready) + 1
           /\ Append(ready, e)[Len(ready) + 1] = e
           /\ \A i \in 1 .. Len(ready) + 1 :
                 i # Len(ready) + 1 => i \in 1 .. Len(ready) /\ Append(ready, e)[i] = ready[i]
<1>1. ready \in Seq(Events)
  BY DEF TypeOK
<1> QED
  BY <1>1, AppendOne

\* The last event is appended as the head leaves.
LEMMA TailAppendAt ==
    ASSUME TypeOK, ready # <<>>, NEW e \in Events
    PROVE  /\ Len(ready) \in Nat \ {0} /\ Head(ready) = ready[1]
           /\ Len(Append(Tail(ready), e)) = Len(ready) /\ Append(Tail(ready), e)[Len(ready)] = e
           /\ \A i \in 1 .. Len(ready) :
                 i # Len(ready) => /\ i + 1 \in 1 .. Len(ready)
                                   /\ Append(Tail(ready), e)[i] = ready[i + 1]
<1> DEFINE s == Tail(ready)
<1>1. /\ s \in Seq(Events) /\ Len(s) = Len(ready) - 1 /\ Len(ready) \in Nat \ {0}
      /\ Head(ready) = ready[1] /\ \A i \in 1 .. Len(s) : i + 1 \in 1 .. Len(ready) /\ s[i] = ready[i + 1]
  BY TailAt
<1> HIDE DEF s
<1>2. /\ Len(Append(s, e)) = Len(s) + 1
      /\ \A i \in 1 .. Len(s) + 1 : Append(s, e)[i] = IF i <= Len(s) THEN s[i] ELSE e
  BY <1>1, AppendOne
<1>3. \A i \in 1 .. Len(ready) : i # Len(ready) => /\ i + 1 \in 1 .. Len(ready)
                                                 /\ Append(s, e)[i] = ready[i + 1]
  BY <1>1, <1>2
<1>4. Len(Append(s, e)) = Len(ready) /\ Append(s, e)[Len(ready)] = e
  BY <1>1, <1>2
<1> QED
  BY <1>1, <1>3, <1>4 DEF s

\* A decision still to be made: its proposal is queued or evaluated.
ProposedAt(i, d) == ready[i].topic = "decision.proposed" /\ ready[i].dec = d
Undecided(d) == \/ evaluating[d] # Absent
                \/ \E i \in 1 .. Len(ready) : ProposedAt(i, d)

\* The events of S only come first in the queue, when nothing else was there.
Leading(S) == \A i \in 1 .. Len(ready) : ready[i] \in S => i = 1
HeadIn(S) == ready # <<>> /\ Head(ready) \in S

LEMMA LeadingAppend ==
    ASSUME TypeOK, NEW S, Leading(S), NEW e \in Events, e \notin S, ready' = Append(ready, e)
    PROVE  Leading(S)' /\ (HeadIn(S)' <=> HeadIn(S)) /\ (ready # <<>> => Head(ready') = Head(ready))
<1>1. /\ ready \in Seq(Events) /\ Len(ready) \in Nat /\ Len(ready') = Len(ready) + 1
      /\ \A i \in 1 .. Len(ready) + 1 : ready'[i] = IF i <= Len(ready) THEN ready[i] ELSE e
  BY AppendOne DEF TypeOK
<1>2. ready' \in Seq(Events) /\ ready' # <<>> /\ Head(ready') = ready'[1]
  BY <1>1, AppendOne
<1>3. ready # <<>> => Head(ready) = ready[1] /\ Head(ready') = Head(ready)
  BY <1>1, <1>2, TailShifts
<1>4. ready = <<>> => Head(ready') = e
  BY <1>1, <1>2
<1>5. HeadIn(S)' <=> HeadIn(S)
  BY <1>2, <1>3, <1>4 DEF HeadIn
<1>6. Leading(S)'
  BY <1>1 DEF Leading
<1> QED
  BY <1>3, <1>5, <1>6

LEMMA LeadingTail ==
    ASSUME TypeOK, NEW S, Leading(S), ready # <<>>,
           \/ ready' = Tail(ready)
           \/ \E e \in Events : e \notin S /\ ready' = Append(Tail(ready), e)
    PROVE  Leading(S)' /\ ~HeadIn(S)'
<1>1. /\ Tail(ready) \in Seq(Events)
      /\ \A i \in 1 .. Len(Tail(ready)) : i + 1 \in 1 .. Len(ready) /\ Tail(ready)[i] = ready[i + 1]
  BY TailAt
<1>2. \A i \in 1 .. Len(Tail(ready)) : Tail(ready)[i] \notin S
  <2> TAKE i \in 1 .. Len(Tail(ready))
  <2>1. i + 1 # 1
    BY <1>1
  <2> QED
    BY <1>1, <2>1 DEF Leading
<1>3. ready' \in Seq(Events) /\ \A i \in 1 .. Len(ready') : ready'[i] \notin S
  <2>1. CASE ready' = Tail(ready)
    BY <1>1, <1>2, <2>1
  <2>2. ASSUME NEW e \in Events, e \notin S, ready' = Append(Tail(ready), e)
        PROVE  ready' \in Seq(Events) /\ \A i \in 1 .. Len(ready') : ready'[i] \notin S
    <3> DEFINE s == Tail(ready)
    <3>1. s \in Seq(Events) /\ \A i \in 1 .. Len(s) : s[i] \notin S
      BY <1>1, <1>2
    <3> HIDE DEF s
    <3>2. /\ Append(s, e) \in Seq(Events) /\ Len(Append(s, e)) = Len(s) + 1 /\ Len(s) \in Nat
          /\ \A i \in 1 .. Len(s) + 1 : Append(s, e)[i] = IF i <= Len(s) THEN s[i] ELSE e
      BY <3>1, AppendOne
    <3>3. \A i \in 1 .. Len(s) + 1 : Append(s, e)[i] \notin S
      BY <2>2, <3>1, <3>2
    <3> QED
      BY <2>2, <3>2, <3>3 DEF s
  <2> QED
    BY <2>1, <2>2
<1>4. ready' # <<>> => 1 \in 1 .. Len(ready') /\ Head(ready') = ready'[1]
  BY <1>3, TailShifts
<1> QED
  BY <1>3, <1>4 DEF Leading, HeadIn

\* Where the events are after a step: at their place, or one further ahead, but for the one
\* published.
LEMMA AppendIndex ==
    ASSUME TypeOK, NEW e \in Events, ready' = Append(ready, e)
    PROVE  /\ \A i \in 1 .. Len(ready) : i \in 1 .. Len(ready') /\ ready'[i] = ready[i]
           /\ \E k \in 1 .. Len(ready') :
                 /\ ready'[k] = e /\ k \notin 1 .. Len(ready)
                 /\ \A i \in 1 .. Len(ready') : i # k => i \in 1 .. Len(ready) /\ ready'[i] = ready[i]
<1>1. /\ Len(ready) \in Nat /\ Len(ready') = Len(ready) + 1 /\ ready'[Len(ready) + 1] = e
      /\ \A i \in 1 .. Len(ready) + 1 :
            i # Len(ready) + 1 => i \in 1 .. Len(ready) /\ ready'[i] = ready[i]
  BY AppendAt
<1>2. PICK k \in 1 .. Len(ready') : k = Len(ready) + 1
  BY <1>1
<1>3. ready'[k] = e /\ k \notin 1 .. Len(ready)
  BY <1>1, <1>2
<1>4. \A i \in 1 .. Len(ready') : i # k => i \in 1 .. Len(ready) /\ ready'[i] = ready[i]
  BY <1>1, <1>2
<1>5. \A i \in 1 .. Len(ready) : i \in 1 .. Len(ready') /\ ready'[i] = ready[i]
  BY <1>1
<1> QED
  BY <1>3, <1>4, <1>5

LEMMA TailIndex ==
    ASSUME TypeOK, ready # <<>>, ready' = Tail(ready)
    PROVE  /\ Head(ready) = ready[1] /\ 1 \in 1 .. Len(ready)
           /\ \A i \in 1 .. Len(ready') :
                 i + 1 \in 1 .. Len(ready) /\ i + 1 # 1 /\ ready'[i] = ready[i + 1]
           /\ \A i \in 1 .. Len(ready) :
                 i # 1 => \E k \in 1 .. Len(ready') : k + 1 = i /\ ready'[k] = ready[i]
<1>1. /\ Len(ready) \in Nat \ {0} /\ 1 \in 1 .. Len(ready) /\ Head(ready) = ready[1]
      /\ Len(ready') = Len(ready) - 1
      /\ \A i \in 1 .. Len(ready') : i + 1 \in 1 .. Len(ready) /\ ready'[i] = ready[i + 1]
  BY TailAt
<1>2. ASSUME NEW i \in 1 .. Len(ready), i # 1
      PROVE  \E k \in 1 .. Len(ready') : k + 1 = i /\ ready'[k] = ready[i]
  <2>1. i - 1 \in 1 .. Len(ready') /\ (i - 1) + 1 = i
    BY <1>1, <1>2
  <2> QED
    BY <1>1, <2>1
<1>3. \A i \in 1 .. Len(ready') : i + 1 # 1
  OBVIOUS
<1> QED
  BY <1>1, <1>2, <1>3

LEMMA ShiftIndex ==
    ASSUME NEW n \in Nat \ {0}, NEW old, NEW next,
           \A i \in 1 .. n : i # n => i + 1 \in 1 .. n /\ next[i] = old[i + 1]
    PROVE  /\ n \in 1 .. n /\ 1 \in 1 .. n
           /\ \A i \in 1 .. n : i # n => i + 1 \in 1 .. n /\ i + 1 # 1 /\ next[i] = old[i + 1]
           /\ \A i \in 1 .. n : i # 1 => \E k \in 1 .. n : k + 1 = i /\ next[k] = old[i]
<1>1. ASSUME NEW i \in 1 .. n, i # 1 PROVE \E k \in 1 .. n : k + 1 = i /\ next[k] = old[i]
  <2>1. i - 1 \in 1 .. n /\ i - 1 # n /\ (i - 1) + 1 = i
    BY <1>1
  <2> QED
    BY <2>1
<1> QED
  BY <1>1

LEMMA TailAppendIndex ==
    ASSUME TypeOK, ready # <<>>, NEW e \in Events, ready' = Append(Tail(ready), e)
    PROVE  /\ Head(ready) = ready[1] /\ 1 \in 1 .. Len(ready)
           /\ \E k \in 1 .. Len(ready') :
                 /\ ready'[k] = e
                 /\ \A i \in 1 .. Len(ready') : i # k =>
                       i + 1 \in 1 .. Len(ready) /\ i + 1 # 1 /\ ready'[i] = ready[i + 1]
           /\ \A i \in 1 .. Len(ready) :
                 i # 1 => \E k \in 1 .. Len(ready') : k + 1 = i /\ ready'[k] = ready[i]
<1>1. /\ Len(ready) \in Nat \ {0} /\ Head(ready) = ready[1]
      /\ Len(ready') = Len(ready) /\ ready'[Len(ready)] = e
      /\ \A i \in 1 .. Len(ready) : i # Len(ready) => i + 1 \in 1 .. Len(ready) /\ ready'[i] = ready[i + 1]
  BY TailAppendAt
<1>2. PICK n \in Nat \ {0} : n = Len(ready)
  BY <1>1
<1>3. PICK next : next = ready'
  OBVIOUS
<1>4. \A i \in 1 .. n : i # n => i + 1 \in 1 .. n /\ next[i] = ready[i + 1]
  BY <1>1, <1>2, <1>3
<1>5. /\ n \in 1 .. n /\ 1 \in 1 .. n
      /\ \A i \in 1 .. n : i # n => i + 1 \in 1 .. n /\ i + 1 # 1 /\ next[i] = ready[i + 1]
      /\ \A i \in 1 .. n : i # 1 => \E k \in 1 .. n : k + 1 = i /\ next[k] = ready[i]
  BY <1>4, ShiftIndex
<1>6. Len(ready') = n /\ Len(ready) = n /\ next[n] = e
  BY <1>1, <1>2, <1>3
<1> QED
  BY <1>1, <1>3, <1>5, <1>6
-----------------------------------------------------------------------------
(* Bursts: the operator, pauses and resets wait until the cascade is at rest, as they do in *)
(* PlatformFlow and CrewFlow; the clock goes on.                                            *)

Cascading == \/ Deliver
             \/ \E c \in Conflicts, offered \in SUBSET Options : StartFlow(c, offered)
             \/ \E f \in choosing : ChooseFor(f)
             \/ ProposeAuto
             \/ \E d \in Decisions : EndEvaluation(d)

Disturbing == \/ \E d \in Decisions, s \in {"approved", "rejected"} : HumanResolve(d, s)
              \/ Pause \/ Reset

InBursts == Cascading \/ Tick \/ (Quiet /\ Disturbing)

\* A burst is a step of the flow.
LEMMA BurstsOfNext == [InBursts]_vars => [Next]_vars
BY DEF InBursts, Cascading, Disturbing, Next

\* What arrives from outside a cascade: requests' ticks and the operator's verdicts.
Outside == {e \in Events : \/ e.topic = "sim.tick" /\ e.from = "request"
                           \/ e.topic = "decision.resolved" /\ e.by = "human"}

\* A request's tick may show the clock behind the last one seen: a reset.
RequestAhead == HeadIn(Outside) /\ Head(ready).topic = "sim.tick"

\* These come into an empty queue while nothing is evaluated.  The loop has one tick queued,
\* of the present, and the watcher has seen no later one, unless there was a reset.
OutsideFirst ==
    /\ Leading(Outside)
    /\ HeadIn(Outside) => \A d \in Decisions : evaluating[d] = Absent
    /\ \A e \in Queue : e.topic = "sim.tick" =>
          /\ e.from # "cancelled" /\ e.time <= clock
          /\ e.from = "loop" => e.time = clock
    /\ RequestAhead \/ lastTick <= clock

\* What happens to the queue within a cascade, and when the clock goes on.
Published(e) ==
    /\ ready' = Append(ready, e) /\ lastTick' = lastTick
    /\ HeadIn(Outside) => evaluating' = evaluating
    /\ \/ e.topic # "sim.tick" /\ clock' = clock
       \/ /\ e.topic = "sim.tick" /\ e.from = "loop" /\ ~Queued("loop")
          /\ e.time = clock' /\ clock <= clock'

Delivered ==
    /\ ready # <<>> /\ clock' = clock
    /\ \/ ready' = Tail(ready)
       \/ \E e \in Events \ Outside : e.topic # "sim.tick" /\ ready' = Append(Tail(ready), e)
    /\ lastTick' = IF Head(ready).topic = "sim.tick" THEN Head(ready).time ELSE lastTick
    /\ Head(ready).topic = "sim.tick" => WatchReset

QueueStep == \/ UNCHANGED <<ready, evaluating, lastTick, clock>>
             \/ \E e \in Events \ Outside : Published(e)
             \/ Delivered

\* Nothing new comes from outside meanwhile, and what was there stays at the head.
OutsideStays ==
    /\ OutsideFirst'
    /\ HeadIn(Outside)' => HeadIn(Outside) /\ Head(ready') = Head(ready) /\ lastTick' = lastTick

LEMMA OutsidePublished ==
    ASSUME TypeOK, TypeOK', OutsideFirst, NEW e \in Events, e \notin Outside, Published(e)
    PROVE  OutsideStays
<1> USE DEF Published
<1>1. /\ Leading(Outside)' /\ (HeadIn(Outside)' <=> HeadIn(Outside))
      /\ ready # <<>> => Head(ready') = Head(ready)
  BY LeadingAppend DEF OutsideFirst, Outside
<1>2. Queue' \subseteq Queue \cup {e}
  BY QueuePublish DEF Publish
<1>3. clock \in Nat /\ clock' \in Nat /\ lastTick \in Int
  BY DEF TypeOK, Times, Absent
<1>4. ASSUME NEW x \in Queue, x.topic = "sim.tick"
      PROVE  x.from # "cancelled" /\ x.time <= clock' /\ (x.from = "loop" => x.time = clock')
  <2>1. x.from # "cancelled" /\ x.time <= clock /\ (x.from = "loop" => x.time = clock) /\ x.time \in Nat
    <3>1. x \in Events
      BY DEF Queue, TypeOK
    <3> QED
      BY <1>4, <3>1 DEF OutsideFirst, Events
  <2>2. CASE clock' = clock
    BY <2>1, <2>2
  <2>3. CASE ~Queued("loop") /\ clock <= clock'
    <3>1. x.from # "loop"
      BY <1>4, <2>3 DEF Queued, Queue
    <3> QED
      BY <1>3, <2>1, <2>3, <3>1
  <2> QED
    BY <2>2, <2>3
<1>5. e.topic = "sim.tick" => e.from # "cancelled" /\ e.time = clock'
  OBVIOUS
<1>6. ASSUME NEW x \in Queue', x.topic = "sim.tick"
      PROVE  x.from # "cancelled" /\ x.time <= clock' /\ (x.from = "loop" => x.time = clock')
  BY <1>2, <1>3, <1>4, <1>5, <1>6
<1>7. RequestAhead => RequestAhead'
  BY <1>1 DEF RequestAhead, HeadIn
<1>8. RequestAhead' \/ lastTick' <= clock'
  BY <1>3, <1>7 DEF OutsideFirst
<1>9. HeadIn(Outside)' => \A d \in Decisions : evaluating'[d] = Absent
  BY <1>1 DEF OutsideFirst
<1> QED
  BY <1>1, <1>6, <1>8, <1>9 DEF OutsideFirst, OutsideStays, HeadIn

LEMMA OutsideDelivered ==
    ASSUME TypeOK, TypeOK', OutsideFirst, Delivered PROVE OutsideStays /\ ~HeadIn(Outside)'
<1> USE DEF Delivered
<1>1. Leading(Outside)' /\ ~ HeadIn(Outside)'
  BY LeadingTail DEF OutsideFirst, Outside
<1>2. /\ Head(ready) \in Queue
      /\ \A x \in Queue' : x \in Queue \/ x.topic # "sim.tick"
  BY QueueDeliver
<1>3. lastTick' <= clock'
  <2>1. CASE Head(ready).topic = "sim.tick"
    BY <1>2, <2>1 DEF OutsideFirst
  <2>2. CASE Head(ready).topic # "sim.tick"
    BY <2>2 DEF OutsideFirst, RequestAhead
  <2> QED
    BY <2>1, <2>2
<1> QED
  BY <1>1, <1>2, <1>3 DEF OutsideFirst, OutsideStays

LEMMA OutsideKept ==
    ASSUME TypeOK, TypeOK', OutsideFirst, QueueStep PROVE OutsideStays
<1>1. CASE UNCHANGED <<ready, evaluating, lastTick, clock>>
  BY <1>1 DEF OutsideStays, OutsideFirst, RequestAhead, HeadIn, Leading, Queue, Outside
<1> QED
  BY <1>1, OutsidePublished, OutsideDelivered DEF QueueStep

\* Within a cascade the clock stands and only the watcher takes a tick.
LEMMA FlowCascades ==
    ASSUME TypeOK, OutsideFirst, Cascading \/ Tick
    PROVE  QueueStep /\ ~CancelledTick /\ (Cascading => clock' = clock)
<1>0. ~ CancelledTick
  <2>1. ready # <<>> => Head(ready) \in Queue
    BY QueueDeliver
  <2> QED
    BY <2>1 DEF CancelledTick, OutsideFirst
<1>1. ASSUME NEW c, NEW offered, StartFlow(c, offered)
      PROVE  UNCHANGED <<ready, evaluating, lastTick, clock>>
  BY <1>1 DEF StartFlow
<1>2. ASSUME NEW f \in choosing, ChooseFor(f) PROVE QueueStep /\ clock' = clock
  <2>1. PICK o \in f.offered : Propose(f, o)
    BY <1>2 DEF ChooseFor
  <2>2. counter + 1 \in Decisions
    BY <2>1, FlowAssumption DEF Propose, TypeOK, Decisions
  <2>3. /\ ProposedEvent(counter + 1, "proposed") \in Events \ Outside
        /\ ProposedEvent(counter + 1, "proposed").topic # "sim.tick"
    BY <2>2 DEF Events, ProposedEvent, Outside
  <2> QED
    BY <2>1, <2>3 DEF Propose, Publish, Published, QueueStep
<1>3. ASSUME ProposeAuto PROVE QueueStep /\ clock' = clock
  <2>1. counter + 1 \in Decisions
    BY <1>3, FlowAssumption DEF ProposeAuto, TypeOK, Decisions
  <2>2. /\ ProposedEvent(counter + 1, "auto") \in Events \ Outside
        /\ ProposedEvent(counter + 1, "auto").topic # "sim.tick"
    BY <2>1 DEF Events, ProposedEvent, Outside
  <2> QED
    BY <1>3, <2>2 DEF ProposeAuto, Publish, Published, QueueStep
<1>4. ASSUME NEW d \in Decisions, EndEvaluation(d) PROVE QueueStep /\ clock' = clock
  <2>1. PICK s \in {"approved", "rejected"} : Verdict(d, s, "orchestrator")
    BY <1>4 DEF EndEvaluation
  <2>2. /\ ResolvedEvent(d, s, "orchestrator") \in Events \ Outside
        /\ ResolvedEvent(d, s, "orchestrator").topic # "sim.tick"
    BY DEF Events, ResolvedEvent, Outside
  <2>3. ~ HeadIn(Outside)
    BY <1>4 DEF EndEvaluation, OutsideFirst
  <2> QED
    BY <1>4, <2>1, <2>2, <2>3 DEF EndEvaluation, Verdict, Publish, Published, QueueStep
<1>5. ASSUME \/ BeginEvaluation \/ IgnoreResolution \/ TwinHandlesPlan
             \/ \E offered \in SUBSET Options : Recompute(offered)
      PROVE  QueueStep /\ clock' = clock
  <2>1. /\ ready # <<>> /\ ready' = Tail(ready) /\ UNCHANGED <<clock, lastTick>>
        /\ Head(ready).topic # "sim.tick"
    BY <1>5 DEF BeginEvaluation, IgnoreResolution, Resolution, TwinHandlesPlan, Recompute
  <2> QED
    BY <2>1 DEF QueueStep, Delivered
<1>6. ASSUME WatchReset PROVE QueueStep /\ clock' = clock
  BY <1>6 DEF WatchReset, QueueStep, Delivered
<1>7. ASSUME CarryOut PROVE QueueStep /\ clock' = clock
  <2>1. Head(ready).dec \in Decisions
    BY <1>7, HeadTypes DEF CarryOut, Resolution
  <2>2. pending[Head(ready).dec] \in Options
    BY <1>7, <2>1 DEF CarryOut, TypeOK
  <2>3. /\ PlanEvent(Head(ready).dec, pending[Head(ready).dec]) \in Events \ Outside
        /\ PlanEvent(Head(ready).dec, pending[Head(ready).dec]).topic # "sim.tick"
    BY <2>1, <2>2 DEF Events, PlanEvent, Outside
  <2> QED
    BY <1>7, <2>3 DEF CarryOut, Resolution, QueueStep, Delivered
<1>8. CASE Tick
  <2>1. PICK t \in (clock + 1) .. MaxTime : clock' = t /\ ready' = Append(ready, TickEvent(t, "loop"))
    BY <1>8 DEF Tick, Publish
  <2>2. t \in Nat /\ clock <= t /\ clock # t
    BY <2>1, FlowAssumption DEF TypeOK
  <2> DEFINE e == TickEvent(t, "loop")
  <2>3. /\ e \in Events \ Outside /\ e.topic = "sim.tick" /\ e.from = "loop" /\ e.time = t
    BY <2>2 DEF Events, TickEvent, Outside
  <2>4. ready' = Append(ready, e) /\ ~Queued("loop") /\ UNCHANGED <<lastTick, evaluating>>
    BY <1>8, <2>1 DEF Tick
  <2> HIDE DEF e
  <2>5. QueueStep
    BY <2>1, <2>2, <2>3, <2>4 DEF Published, QueueStep
  <2>6. ~ Cascading
    BY <1>1, <1>2, <1>3, <1>4, <1>5, <1>6, <1>7, <1>0, <2>1, <2>2 DEF Cascading, Deliver
  <2> QED
    BY <1>0, <2>5, <2>6
<1> QED
  BY <1>0, <1>1, <1>2, <1>3, <1>4, <1>5, <1>6, <1>7, <1>8 DEF Cascading, Deliver, QueueStep

\* So it is for every such step.
LEMMA FlowKeepsOutside ==
    ASSUME TypeOK, TypeOK', OutsideFirst, Cascading \/ Tick PROVE OutsideStays
BY FlowCascades, OutsideKept

\* Only a request's tick shows the watcher that the clock was set back.
LEMMA RewoundByRequest ==
    ASSUME TypeOK, OutsideFirst, WatchReset, Rewound PROVE RequestAhead
<1>1. /\ ready # <<>> /\ Head(ready).topic = "sim.tick" /\ Head(ready).from # "cancelled"
      /\ Head(ready).time < lastTick
  BY DEF WatchReset, Rewound
<1>2. Head(ready) \in Events /\ Head(ready) \in Queue
  BY <1>1, HeadTypes, QueueDeliver
<1>3. Head(ready).from \in {"loop", "request"} /\ Head(ready).time \in Nat
  BY <1>1, <1>2 DEF Events
<1>4. clock \in Nat /\ lastTick \in Int
  BY DEF TypeOK, Times, Absent
<1>5. CASE Head(ready).from = "request"
  BY <1>1, <1>2, <1>5 DEF RequestAhead, HeadIn, Outside
<1>6. CASE Head(ready).from = "loop"
  BY <1>1, <1>2, <1>3, <1>4, <1>6 DEF OutsideFirst
<1> QED
  BY <1>3, <1>5, <1>6

\* Between cascades nothing is being chosen or decided, and nothing starts to be.
LEMMA FlowDisturbed ==
    ASSUME TypeOK, OutsideFirst, Quiet, Disturbing
    PROVE  /\ OutsideFirst' /\ HeadIn(Outside)'
           /\ UNCHANGED <<counter, choosing, evaluating, pending, ledger, commits, lastTick>>
           /\ \/ \E d \in Decisions, s \in {"approved", "rejected"} :
                    /\ HumanResolve(d, s) /\ Len(ready') = 1
                    /\ ready'[1] = ResolvedEvent(d, s, "human")
                    /\ approved' \subseteq approved \cup {d} /\ clock' = clock
              \/ /\ approved' = approved /\ \A i \in 1 .. Len(ready') : ready'[i].topic = "sim.tick"
                 /\ Head(ready').topic = "sim.tick" /\ Head(ready').time = clock'
<1>1. ready = <<>> /\ clock \in Nat /\ lastTick <= clock
  BY DEF Quiet, TypeOK, OutsideFirst, RequestAhead, HeadIn
<1>2. ASSUME NEW e \in Outside, ready' = Append(ready, e),
             UNCHANGED <<evaluating, lastTick>>,
             \/ clock' = clock /\ e.topic # "sim.tick"
             \/ e.topic = "sim.tick" /\ e.time = clock' /\ clock' \in Nat
      PROVE  OutsideFirst' /\ HeadIn(Outside)' /\ Len(ready') = 1 /\ ready'[1] = e /\ Head(ready') = e
  <2>1. ready' = <<e>>
    BY <1>1, <1>2
  <2>2. Len(ready') = 1 /\ ready' # <<>> /\ Head(ready') = e /\ ready'[1] = e
    BY <2>1
  <2>3. HeadIn(Outside)' /\ Leading(Outside)'
    BY <2>2 DEF HeadIn, Leading, Outside
  <2>4. \A x \in Queue' : x = e
    BY <2>2 DEF Queue
  <2>5. e.topic = "sim.tick" => /\ e.from # "cancelled" /\ e.from # "loop" /\ e.time <= clock'
                                /\ RequestAhead'
    BY <1>2, <2>2, <2>3 DEF Outside, RequestAhead
  <2> QED
    BY <1>1, <1>2, <2>2, <2>3, <2>4, <2>5 DEF OutsideFirst, Quiet
<1>3. ASSUME NEW d \in Decisions, NEW s \in {"approved", "rejected"}, HumanResolve(d, s)
      PROVE  /\ OutsideFirst' /\ clock' = clock
             /\ UNCHANGED <<counter, choosing, evaluating, pending, ledger, commits, lastTick>>
             /\ HeadIn(Outside)' /\ Len(ready') = 1 /\ ready'[1] = ResolvedEvent(d, s, "human")
             /\ approved' \subseteq approved \cup {d}
  <2> DEFINE e == ResolvedEvent(d, s, "human")
  <2>1. e.topic = "decision.resolved" /\ e \in Outside
    BY DEF ResolvedEvent, Events, Outside
  <2>2. /\ ready' = Append(ready, e) /\ clock' = clock
        /\ UNCHANGED <<counter, choosing, evaluating, pending, ledger, commits, lastTick>>
        /\ approved' \subseteq approved \cup {d}
    BY <1>3 DEF HumanResolve, Verdict, Publish
  <2> HIDE DEF e
  <2>3. OutsideFirst' /\ HeadIn(Outside)' /\ Len(ready') = 1 /\ ready'[1] = e
    BY <1>2, <2>1, <2>2
  <2> QED
    BY <2>2, <2>3 DEF e
<1>4. ASSUME NEW t \in Nat, Halt(t)
      PROVE  /\ OutsideFirst' /\ HeadIn(Outside)'
             /\ \A i \in 1 .. Len(ready') : ready'[i].topic = "sim.tick"
             /\ Head(ready').topic = "sim.tick" /\ Head(ready').time = clock'
             /\ UNCHANGED <<counter, choosing, evaluating, pending, ledger, commits, lastTick, approved>>
  <2>1. [i \in 1 .. Len(ready) |-> CancelTick(ready[i])] = ready
    BY <1>1
  <2> DEFINE e == TickEvent(t, "request")
  <2>2. /\ ready' = Append(ready, e) /\ clock' = t
        /\ UNCHANGED <<counter, choosing, evaluating, pending, ledger, commits, lastTick, approved>>
    BY <1>4, <2>1 DEF Halt, history
  <2>3. e \in Outside /\ e.topic = "sim.tick" /\ e.time = t
    BY DEF TickEvent, Events, Outside
  <2> HIDE DEF e
  <2>4. OutsideFirst' /\ HeadIn(Outside)' /\ Len(ready') = 1 /\ ready'[1] = e /\ Head(ready') = e
    BY <1>2, <2>2, <2>3
  <2> QED
    BY <2>2, <2>3, <2>4
<1>5. CASE Pause \/ Reset
  BY <1>1, <1>4, <1>5 DEF Pause, Reset
<1> QED
  BY <1>3, <1>5 DEF Disturbing

\* A reset that the watcher is about to see.
Unseen == RequestAhead /\ Rewound

\* It stays at the head until the watcher takes it.
LEMMA UnseenKept ==
    ASSUME TypeOK, TypeOK', OutsideFirst, Cascading \/ Tick \/ UNCHANGED vars
    PROVE  /\ (HeadIn(Outside)' => HeadIn(Outside)) /\ (Unseen' => Unseen)
           /\ IF WatchReset THEN ~HeadIn(Outside)' /\ (Rewound => Unseen) ELSE Unseen => Unseen'
<1>1. CASE UNCHANGED vars
  <2>1. /\ (HeadIn(Outside)' <=> HeadIn(Outside)) /\ (Unseen' <=> Unseen)
    BY <1>1 DEF vars, state, HeadIn, Unseen, RequestAhead, Rewound
  <2>2. ~ WatchReset
    BY <1>1, DeliveryShows DEF vars, state, WatchReset
  <2> QED
    BY <2>1, <2>2
<1>2. CASE Cascading \/ Tick
  <2>0. OutsideStays /\ QueueStep
    BY <1>2, FlowKeepsOutside, FlowCascades
  <2>1. (HeadIn(Outside)' => HeadIn(Outside)) /\ (Unseen' => Unseen)
    BY <2>0 DEF OutsideStays, Unseen, RequestAhead, Rewound
  <2>2. CASE WatchReset
    <3>1. Delivered
      BY <2>2 DEF WatchReset, Delivered
    <3> QED
      BY <2>1, <2>2, <3>1, OutsideDelivered, RewoundByRequest DEF Unseen
  <2>3. ASSUME ~ WatchReset, Unseen PROVE Unseen'
    <3>1. ~ Delivered
      BY <2>3 DEF Delivered, Unseen, RequestAhead
    <3>2. CASE UNCHANGED <<ready, evaluating, lastTick, clock>>
      BY <2>3, <3>2 DEF Unseen, RequestAhead, Rewound, HeadIn
    <3>3. ASSUME NEW e \in Events \ Outside, Published(e) PROVE Unseen'
      <4>1. (HeadIn(Outside)' <=> HeadIn(Outside)) /\ (ready # <<>> => Head(ready') = Head(ready))
        BY <3>3, LeadingAppend DEF Published, OutsideFirst
      <4> QED
        BY <2>3, <3>3, <4>1 DEF Unseen, RequestAhead, Rewound, Published, HeadIn
    <3> QED
      BY <2>0, <3>1, <3>2, <3>3 DEF QueueStep
  <2> QED
    BY <2>1, <2>2, <2>3
<1> QED
  BY <1>1, <1>2

\* Only a reset brings one about, unless the watcher has seen no later tick.
LEMMA UnseenDisturbed ==
    ASSUME TypeOK, OutsideFirst, Quiet, Disturbing
    PROVE  ~Unseen /\ (Unseen' <=> Reset /\ lastTick > 0)
<1>1. ready = <<>> /\ ~Unseen /\ clock \in Nat /\ lastTick \in Int /\ lastTick <= clock
  BY DEF Quiet, Unseen, RequestAhead, HeadIn, OutsideFirst, TypeOK, Times, Absent
<1>2. HeadIn(Outside)' /\ lastTick' = lastTick
  BY FlowDisturbed
<1>3. ASSUME NEW d \in Decisions, NEW s \in {"approved", "rejected"}, HumanResolve(d, s)
      PROVE  ~Unseen' /\ ~Reset
  <2>1. ready' = <<ResolvedEvent(d, s, "human")>> /\ requests' # requests
    BY <1>1, <1>3 DEF HumanResolve, Verdict, Publish, TypeOK
  <2>2. Head(ready').topic = "decision.resolved"
    BY <2>1 DEF ResolvedEvent
  <2> QED
    BY <2>1, <2>2 DEF Unseen, RequestAhead, Reset, Halt
<1>4. ASSUME NEW t \in Nat, Halt(t)
      PROVE  (Unseen' <=> lastTick > t) /\ clock' = t
  <2>1. [i \in 1 .. Len(ready) |-> CancelTick(ready[i])] = <<>>
    BY <1>1
  <2>2. ready' = <<TickEvent(t, "request")>> /\ clock' = t
    <3>1. ready' = Append(<<>>, TickEvent(t, "request")) /\ clock' = t
      BY <1>4, <2>1 DEF Halt
    <3> QED
      BY <3>1
  <2>3. Head(ready').topic = "sim.tick" /\ Head(ready').time = t
    BY <2>2 DEF TickEvent
  <2> QED
    BY <1>1, <1>2, <2>2, <2>3 DEF Unseen, RequestAhead, Rewound, Absent
<1>5. CASE Pause /\ ~Reset
  BY <1>1, <1>4, <1>5 DEF Pause
<1>6. CASE Reset
  BY <1>1, <1>4, <1>6 DEF Reset
<1> QED
  BY <1>1, <1>3, <1>5, <1>6 DEF Disturbing

\* A step of a cascade, or a tick, is no disturbance.
LEMMA CascadesDisturbNothing ==
    ASSUME TypeOK, TypeOK', OutsideFirst, Cascading \/ Tick \/ UNCHANGED vars
    PROVE  ~ (Quiet /\ Disturbing)
<1>1. Quiet => ~ HeadIn(Outside)
  BY DEF Quiet, HeadIn
<1> QED
  BY <1>1, UnseenKept, FlowDisturbed

\* What comes from outside goes first: every step of a burst keeps it.
LEMMA OutsideStep == ASSUME TypeOK, TypeOK', OutsideFirst, [InBursts]_vars PROVE OutsideFirst'
<1>1. CASE UNCHANGED vars
  BY <1>1 DEF vars, state, OutsideFirst, Leading, HeadIn, Queue, RequestAhead
<1>2. CASE Cascading \/ Tick
  BY <1>2, FlowKeepsOutside DEF OutsideStays
<1>3. CASE Quiet /\ Disturbing
  BY <1>3, FlowDisturbed
<1> QED
  BY <1>1, <1>2, <1>3 DEF InBursts

\* The queue begins empty.
LEMMA OutsideInit == Init => OutsideFirst
BY DEF Init, OutsideFirst, Leading, HeadIn, Queue, RequestAhead, Absent
-----------------------------------------------------------------------------
(* Each decision is decided once by the orchestrator. *)

\* Each is decided while its plan is pending.
DecidedOnce ==
    /\ \A i \in 1 .. Len(ready) :
          ready[i].topic = "decision.proposed" =>
              \/ ledger[ready[i].dec] = NoRecord
              \/ ready[i].status = "proposed" <=> HasRetry(ready[i].dec)
    /\ \A d \in Decisions :
          /\ evaluating[d] # Absent =>
                /\ ledger[d] = NoRecord \/ HasRetry(d)
                /\ \A i \in 1 .. Len(ready) : ~ProposedAt(i, d)
          /\ \A i, j \in 1 .. Len(ready) : ProposedAt(i, d) /\ ProposedAt(j, d) => i = j
          /\ pending[d] # NoOption => HasRetry(d) /\ ledger[d].chosen = pending[d]
          /\ Undecided(d) => d \notin approved /\ (HasRetry(d) => pending[d] = ledger[d].chosen)

\* A record is dropped with its plan, or keeps its trigger and its choice; an undecided
\* decision keeps its plan.
RecordKept(d) ==
    \/ ledger'[d] = NoRecord /\ pending'[d] = NoOption
    \/ /\ ledger[d] = NoRecord <=> ledger'[d] = NoRecord
       /\ HasRetry(d) <=> HasRetry(d)'
       /\ HasRetry(d) => /\ ledger'[d].conflict = ledger[d].conflict
                         /\ ledger'[d].chosen = ledger[d].chosen
       /\ pending'[d] = pending[d] \/ (pending'[d] = NoOption /\ ~Undecided(d)')

\* While proposals are only delivered: each is the one that was at another place before.
LEMMA DecidedKept ==
    ASSUME DecidedOnce,
           NEW at, \A i, j \in 1 .. Len(ready') : at[i] = at[j] => i = j,
           \A i \in 1 .. Len(ready') : ready'[i].topic = "decision.proposed" =>
              at[i] \in 1 .. Len(ready) /\ ready'[i] = ready[at[i]],
           \A d \in Decisions :
              /\ evaluating'[d] = evaluating[d] \/ evaluating'[d] = Absent
              /\ RecordKept(d)
              /\ d \in approved' => d \in approved \/ ~Undecided(d)',
           \A i \in 1 .. Len(ready') : ready'[i].topic = "decision.proposed" => ready'[i].dec \in Decisions
    PROVE  DecidedOnce' /\ \A d \in Decisions : Undecided(d)' => Undecided(d)
<1>1. ASSUME NEW d \in Decisions, NEW i \in 1 .. Len(ready'), ProposedAt(i, d)'
      PROVE  at[i] \in 1 .. Len(ready) /\ ProposedAt(at[i], d)
  BY <1>1 DEF ProposedAt
<1>2. ASSUME NEW d \in Decisions PROVE Undecided(d)' => Undecided(d)
  BY <1>1 DEF Undecided
<1>3. ASSUME NEW d \in Decisions, ledger[d] = NoRecord \/ HasRetry(d)
      PROVE  ledger'[d] = NoRecord \/ HasRetry(d)'
  BY <1>3 DEF RecordKept
<1>4. ASSUME NEW i \in 1 .. Len(ready'), ready'[i].topic = "decision.proposed"
      PROVE  (ledger[ready[i].dec] = NoRecord \/ (ready[i].status = "proposed" <=> HasRetry(ready[i].dec)))'
  <2>1. PICK d \in Decisions : d = ready'[i].dec
    BY <1>4
  <2>2. ledger[d] = NoRecord \/ (ready'[i].status = "proposed" <=> HasRetry(d))
    BY <1>4, <2>1 DEF DecidedOnce
  <2>3. ledger'[d] = NoRecord \/ (ready'[i].status = "proposed" <=> HasRetry(d)')
    BY <2>2 DEF RecordKept
  <2> QED
    BY <2>1, <2>3 DEF HasRetry
<1>5. ASSUME NEW d \in Decisions
      PROVE  /\ evaluating'[d] # Absent =>
                  /\ ledger'[d] = NoRecord \/ HasRetry(d)'
                  /\ \A i \in 1 .. Len(ready') : ~ProposedAt(i, d)'
             /\ \A i, j \in 1 .. Len(ready') : ProposedAt(i, d)' /\ ProposedAt(j, d)' => i = j
  <2>1. ASSUME NEW i \in 1 .. Len(ready'), NEW j \in 1 .. Len(ready'),
               ProposedAt(i, d)', ProposedAt(j, d)'
        PROVE  i = j
    <3>1. at[i] = at[j]
      BY <1>1, <2>1 DEF DecidedOnce
    <3> QED
      BY <3>1
  <2>2. ASSUME evaluating'[d] # Absent
        PROVE  /\ ledger'[d] = NoRecord \/ HasRetry(d)'
               /\ \A i \in 1 .. Len(ready') : ~ProposedAt(i, d)'
    BY <1>1, <1>3, <2>2 DEF DecidedOnce
  <2> QED
    BY <2>1, <2>2
<1>6. ASSUME NEW d \in Decisions
      PROVE  /\ pending'[d] # NoOption => HasRetry(d)' /\ ledger'[d].chosen = pending'[d]
             /\ Undecided(d)' => /\ d \notin approved'
                                 /\ HasRetry(d)' => pending'[d] = ledger'[d].chosen
  <2>1. CASE ledger'[d] = NoRecord /\ pending'[d] = NoOption
    BY <1>2, <2>1 DEF DecidedOnce, HasRetry
  <2>2. CASE ~ (ledger'[d] = NoRecord /\ pending'[d] = NoOption)
    BY <1>2, <2>2 DEF DecidedOnce, RecordKept
  <2> QED
    BY <2>1, <2>2
<1> QED
  BY <1>2, <1>4, <1>5, <1>6 DEF DecidedOnce

\* An issued decision has no trace before, so that its proposal is the only one.
LEMMA IssuedFresh ==
    ASSUME FlowInv, NEW n \in Decisions, n = counter + 1, NEW st \in {"proposed", "auto"},
           ready' = Append(ready, ProposedEvent(n, st)), evaluating' = evaluating
    PROVE  /\ n \notin approved /\ evaluating[n] = Absent /\ pending[n] = NoOption
           /\ \A i \in 1 .. Len(ready) : ready[i].topic = "decision.proposed" => ready[i].dec # n
           /\ \A i \in 1 .. Len(ready) : ready[i].topic = "decision.resolved"
                                         /\ ready[i].status = "approved" => ready[i].dec # n
           /\ \E k \in 1 .. Len(ready') :
                 /\ ready'[k] = ProposedEvent(n, st)
                 /\ \A i \in 1 .. Len(ready') : i # k => i \in 1 .. Len(ready) /\ ready'[i] = ready[i]
           /\ \A d \in Decisions : d # n /\ Undecided(d)' => Undecided(d)
<1>1. n > counter
  BY FlowAssumption DEF FlowInv, TypeOK, Decisions
<1>2. n \notin approved /\ evaluating[n] = Absent /\ pending[n] = NoOption
  BY <1>1 DEF FlowInv, NoTrace
<1>3. ASSUME NEW i \in 1 .. Len(ready)
      PROVE  /\ ready[i].topic = "decision.proposed" => ready[i].dec # n
             /\ ready[i].topic = "decision.resolved" /\ ready[i].status = "approved" => ready[i].dec # n
  <2>1. ready[i] \in Queue
    BY DEF Queue
  <2>2. ready[i].topic = "decision.proposed" => ready[i].dec <= counter
    BY <2>1 DEF FlowInv, QueueKnown
  <2>3. ready[i].topic = "decision.resolved" /\ ready[i].status = "approved" => ready[i].dec \in approved
    BY <2>1 DEF FlowInv, QueueKnown
  <2>4. counter \in Nat /\ n \in Nat
    BY FlowAssumption DEF FlowInv, TypeOK, Decisions
  <2>5. ~ (n <= counter)
    BY <1>1, <2>4
  <2> QED
    BY <1>2, <2>2, <2>3, <2>5
<1>4. ProposedEvent(n, st) \in Events
  BY EventTypes
<1>5. PICK k \in 1 .. Len(ready') :
         /\ ready'[k] = ProposedEvent(n, st)
         /\ \A i \in 1 .. Len(ready') : i # k => i \in 1 .. Len(ready) /\ ready'[i] = ready[i]
  BY <1>4, AppendIndex DEF FlowInv
<1>6. ASSUME NEW d \in Decisions, d # n, Undecided(d)' PROVE Undecided(d)
  BY <1>5, <1>6 DEF Undecided, ProposedAt, ProposedEvent
<1> QED
  BY <1>2, <1>3, <1>5, <1>6

\* A decision that is issued has one place, its proposal; the others keep theirs.
LEMMA DecidedIssued ==
    ASSUME FlowInv, DecidedOnce, NEW n \in Decisions, n = counter + 1,
           NEW st \in {"proposed", "auto"}, NEW rec, NEW plan, rec # NoRecord,
           ready' = Append(ready, ProposedEvent(n, st)),
           \A d \in Decisions : /\ ledger'[d] = IF d = n THEN rec ELSE ledger[d]
                                /\ pending'[d] = IF d = n THEN plan ELSE pending[d],
           \/ /\ st = "proposed" /\ rec.conflict # NoConflict /\ rec.chosen = plan
           \/ st = "auto" /\ rec.conflict = NoConflict /\ plan = NoOption,
           UNCHANGED <<evaluating, approved>>
    PROVE  DecidedOnce'
<1>1. /\ n \notin approved /\ evaluating[n] = Absent
      /\ \A i \in 1 .. Len(ready) : ready[i].topic = "decision.proposed" => ready[i].dec # n
      /\ \A d \in Decisions : d # n /\ Undecided(d)' => Undecided(d)
  BY IssuedFresh
<1>2. PICK k \in 1 .. Len(ready') :
         /\ ready'[k] = ProposedEvent(n, st)
         /\ \A i \in 1 .. Len(ready') : i # k => i \in 1 .. Len(ready) /\ ready'[i] = ready[i]
  BY IssuedFresh
<1>3. ledger'[n] = rec /\ pending'[n] = plan
  OBVIOUS
<1>4. ready'[k].topic = "decision.proposed" /\ ready'[k].dec = n /\ ready'[k].status = st
  BY <1>2 DEF ProposedEvent
<1>5. \A d \in Decisions : d # n => (HasRetry(d)' <=> HasRetry(d))
  BY DEF HasRetry
<1>6. st = "proposed" <=> HasRetry(n)'
  BY <1>3 DEF HasRetry
<1>7. ASSUME NEW i \in 1 .. Len(ready'), ready'[i].topic = "decision.proposed"
      PROVE  (ledger[ready[i].dec] = NoRecord \/ (ready[i].status = "proposed" <=> HasRetry(ready[i].dec)))'
  <2>1. CASE i = k
    BY <1>4, <1>6, <1>7, <2>1 DEF HasRetry
  <2>2. CASE i # k
    <3>1. i \in 1 .. Len(ready) /\ ready'[i] = ready[i] /\ ready[i].dec # n
      BY <1>1, <1>2, <1>7, <2>2
    <3>2. ready[i] \in Events
      BY <3>1 DEF FlowInv, TypeOK
    <3>3. PICK d \in Decisions : d = ready[i].dec
      BY <1>7, <3>1, <3>2 DEF Events
    <3>4. ledger[d] = NoRecord \/ (ready[i].status = "proposed" <=> HasRetry(d))
      BY <1>7, <3>1, <3>3 DEF DecidedOnce
    <3>5. ledger'[d] = NoRecord \/ (ready'[i].status = "proposed" <=> HasRetry(d)')
      BY <1>5, <3>1, <3>3, <3>4
    <3> QED
      BY <3>1, <3>3, <3>5 DEF HasRetry
  <2> QED
    BY <2>1, <2>2
<1>8. ASSUME NEW d \in Decisions, NEW i \in 1 .. Len(ready'), ProposedAt(i, d)'
      PROVE  \/ i = k /\ d = n
             \/ i # k /\ d # n /\ i \in 1 .. Len(ready) /\ ProposedAt(i, d)
  BY <1>1, <1>2, <1>4, <1>8 DEF ProposedAt
<1>9. ASSUME NEW d \in Decisions
      PROVE  /\ evaluating'[d] # Absent =>
                  /\ ledger'[d] = NoRecord \/ HasRetry(d)'
                  /\ \A i \in 1 .. Len(ready') : ~ProposedAt(i, d)'
             /\ \A i, j \in 1 .. Len(ready') : ProposedAt(i, d)' /\ ProposedAt(j, d)' => i = j
  BY <1>1, <1>5, <1>8 DEF DecidedOnce
<1>10. ASSUME NEW d \in Decisions
       PROVE  /\ pending'[d] # NoOption => HasRetry(d)' /\ ledger'[d].chosen = pending'[d]
              /\ Undecided(d)' => /\ d \notin approved'
                                  /\ HasRetry(d)' => pending'[d] = ledger'[d].chosen
  <2>1. CASE d = n
    BY <1>1, <1>3, <2>1 DEF HasRetry
  <2>2. CASE d # n
    BY <1>1, <1>5, <2>2 DEF DecidedOnce
  <2> QED
    BY <2>1, <2>2
<1> QED
  BY <1>7, <1>9, <1>10 DEF DecidedOnce

\* Proposals stay where they are while others are published, and move ahead on a delivery.
LEMMA DecidedStays ==
    ASSUME TypeOK, TypeOK', DecidedOnce,
           \/ ready' = ready
           \/ \E e \in Events : e.topic # "decision.proposed" /\ ready' = Append(ready, e)
           \/ ready # <<>> /\ ready' = Tail(ready)
           \/ /\ ready # <<>>
              /\ \E e \in Events : e.topic # "decision.proposed" /\ ready' = Append(Tail(ready), e),
           \A d \in Decisions : /\ evaluating'[d] = evaluating[d] \/ evaluating'[d] = Absent
                                /\ RecordKept(d)
                                /\ d \in approved' => d \in approved \/ ~Undecided(d)'
    PROVE  DecidedOnce' /\ \A d \in Decisions : Undecided(d)' => Undecided(d)
<1>1. \A i \in 1 .. Len(ready') : ready'[i].topic = "decision.proposed" => ready'[i].dec \in Decisions
  <2> TAKE i \in 1 .. Len(ready')
  <2>1. ready'[i] \in Events
    BY DEF TypeOK
  <2> QED
    BY <2>1 DEF Events
<1>2. CASE \/ ready' = ready
           \/ \E e \in Events : e.topic # "decision.proposed" /\ ready' = Append(ready, e)
  <2> DEFINE at == [i \in 1 .. Len(ready') |-> i]
  <2>1. \A i \in 1 .. Len(ready') : ready'[i].topic = "decision.proposed" =>
           at[i] \in 1 .. Len(ready) /\ ready'[i] = ready[at[i]]
    BY <1>2, AppendIndex DEF TypeOK
  <2>2. \A i, j \in 1 .. Len(ready') : at[i] = at[j] => i = j
    OBVIOUS
  <2> HIDE DEF at
  <2> QED
    BY <1>1, <2>1, <2>2, DecidedKept
<1>3. CASE /\ ready # <<>>
           /\ \/ ready' = Tail(ready)
              \/ \E e \in Events : e.topic # "decision.proposed" /\ ready' = Append(Tail(ready), e)
  <2> DEFINE at == [i \in 1 .. Len(ready') |-> i + 1]
  <2>1. ASSUME NEW i \in 1 .. Len(ready'), ready'[i].topic = "decision.proposed"
        PROVE  at[i] \in 1 .. Len(ready) /\ ready'[i] = ready[at[i]]
    <3>1. CASE ready' = Tail(ready)
      BY <1>3, <3>1, TailIndex DEF TypeOK
    <3>2. ASSUME NEW e \in Events, e.topic # "decision.proposed", ready' = Append(Tail(ready), e)
          PROVE  i + 1 \in 1 .. Len(ready) /\ ready'[i] = ready[i + 1]
      BY <1>3, <2>1, <3>2, TailAppendIndex DEF TypeOK
    <3> QED
      BY <1>3, <3>1, <3>2
  <2>2. \A i, j \in 1 .. Len(ready') : at[i] = at[j] => i = j
    OBVIOUS
  <2> HIDE DEF at
  <2> QED
    BY <1>1, <2>1, <2>2, DecidedKept
<1> QED
  BY <1>2, <1>3

\* The record and the state of a decision that is not issued in the step.
RetryKept(d) ==
    /\ Undecided(d)' => Undecided(d)
    /\ HasRetry(d)' => /\ HasRetry(d) /\ ledger'[d].conflict = ledger[d].conflict
                       /\ ledger'[d].chosen = ledger[d].chosen

\* Who can be retried could be before, with the same conflict and choice.
LEMMA RecordKeptRetry ==
    ASSUME NEW d \in Decisions, RecordKept(d) PROVE HasRetry(d)' =>
        /\ HasRetry(d) /\ ledger'[d].conflict = ledger[d].conflict
        /\ ledger'[d].chosen = ledger[d].chosen
BY DEF RecordKept, HasRetry

\* A proposal delivered is evaluated from now on, or drops out.
LEMMA BeginDecided ==
    ASSUME TypeOK, TypeOK', DecidedOnce, BeginEvaluation
    PROVE  DecidedOnce' /\ \A d \in Decisions : RetryKept(d)
<1>1. /\ ready # <<>> /\ ready' = Tail(ready) /\ Head(ready).topic = "decision.proposed"
      /\ UNCHANGED <<ledger, pending, approved, choosing, clock>>
  BY DEF BeginEvaluation, history
<1>2. PICK n \in Decisions : n = Head(ready).dec
  BY <1>1, HeadTypes DEF TypeOK
<1>3. ready[1] = Head(ready) /\ 1 \in 1 .. Len(ready) /\ ProposedAt(1, n)
  BY <1>1, <1>2, TailIndex DEF TypeOK, ProposedAt
<1>4. evaluating' = IF ready[1].status = "proposed" THEN [evaluating EXCEPT ![n] = clock] ELSE evaluating
  BY <1>2, <1>3 DEF BeginEvaluation, NeedsVerdict
<1>5. evaluating \in [Decisions -> Times]
  BY DEF TypeOK
<1>6. \A i \in 1 .. Len(ready') : i + 1 \in 1 .. Len(ready) /\ i + 1 # 1 /\ ready'[i] = ready[i + 1]
  BY <1>1, TailIndex DEF TypeOK
<1>7. \A d \in Decisions : HasRetry(d)' <=> HasRetry(d)
  BY <1>1 DEF HasRetry
<1>8. ASSUME NEW d \in Decisions, NEW i \in 1 .. Len(ready'), ProposedAt(i, d)'
      PROVE  i + 1 \in 1 .. Len(ready) /\ ProposedAt(i + 1, d) /\ d # n
  <2>1. i + 1 \in 1 .. Len(ready) /\ ProposedAt(i + 1, d) /\ i + 1 # 1
    BY <1>6, <1>8 DEF ProposedAt
  <2> QED
    BY <1>3, <2>1 DEF DecidedOnce
<1>9. \A d \in Decisions : d # n => evaluating'[d] = evaluating[d]
  BY <1>4, <1>5
<1>10. ASSUME NEW d \in Decisions PROVE Undecided(d)' => Undecided(d)
  <2>1. CASE d = n
    BY <1>3, <2>1 DEF Undecided
  <2>2. CASE d # n
    BY <1>8, <1>9, <2>2 DEF Undecided
  <2> QED
    BY <2>1, <2>2
<1>11. ASSUME NEW i \in 1 .. Len(ready'), ready'[i].topic = "decision.proposed"
       PROVE  (ledger[ready[i].dec] = NoRecord \/ (ready[i].status = "proposed" <=> HasRetry(ready[i].dec)))'
  <2>1. i + 1 \in 1 .. Len(ready) /\ ready'[i] = ready[i + 1]
    BY <1>6
  <2>2. PICK x : x = ready[i + 1].dec
    OBVIOUS
  <2>3. ledger[x] = NoRecord \/ (ready[i + 1].status = "proposed" <=> HasRetry(x))
    BY <1>11, <2>1, <2>2 DEF DecidedOnce
  <2> QED
    BY <1>1, <2>1, <2>2, <2>3 DEF HasRetry
<1>12. ASSUME NEW d \in Decisions
       PROVE  /\ evaluating'[d] # Absent =>
                   /\ ledger'[d] = NoRecord \/ HasRetry(d)'
                   /\ \A i \in 1 .. Len(ready') : ~ProposedAt(i, d)'
              /\ \A i, j \in 1 .. Len(ready') : ProposedAt(i, d)' /\ ProposedAt(j, d)' => i = j
  <2>1. ASSUME NEW i \in 1 .. Len(ready'), NEW j \in 1 .. Len(ready'),
               ProposedAt(i, d)', ProposedAt(j, d)'
        PROVE  i = j
    <3>1. i + 1 = j + 1
      BY <1>8, <2>1 DEF DecidedOnce
    <3> QED
      BY <3>1
  <2>2. ASSUME evaluating'[d] # Absent, d # n
        PROVE  /\ ledger'[d] = NoRecord \/ HasRetry(d)'
               /\ \A i \in 1 .. Len(ready') : ~ProposedAt(i, d)'
    BY <1>1, <1>7, <1>8, <1>9, <2>2 DEF DecidedOnce
  <2>3. ASSUME evaluating'[d] # Absent, d = n
        PROVE  /\ ledger'[d] = NoRecord \/ HasRetry(d)'
               /\ \A i \in 1 .. Len(ready') : ~ProposedAt(i, d)'
    <3>1. ready[1].status = "proposed"
      BY <1>3, <1>4, <1>5, <2>3 DEF DecidedOnce
    <3>2. ledger[n] = NoRecord \/ HasRetry(n)
      BY <1>3, <3>1 DEF DecidedOnce, ProposedAt
    <3> QED
      BY <1>1, <1>7, <1>8, <2>3, <3>1, <3>2
  <2> QED
    BY <2>1, <2>2, <2>3
<1>13. ASSUME NEW d \in Decisions
       PROVE  /\ pending'[d] # NoOption => HasRetry(d)' /\ ledger'[d].chosen = pending'[d]
              /\ Undecided(d)' => /\ d \notin approved'
                                  /\ HasRetry(d)' => pending'[d] = ledger'[d].chosen
  BY <1>1, <1>7, <1>10 DEF DecidedOnce
<1> QED
  BY <1>1, <1>7, <1>10, <1>11, <1>12, <1>13 DEF DecidedOnce, RetryKept

\* A record whose exclusions grow keeps its trigger and its choice.
LEMMA RecomputedRecords ==
    ASSUME TypeOK, NEW offered, Recompute(offered)
    PROVE  \A d \in Decisions :
              /\ RecordKept(d)
              /\ HasRetry(d) => HasRetry(d)' /\ ledger'[d].conflict = ledger[d].conflict
<1>1. PICK n \in Decisions : n = Head(ready).dec
  BY HeadTypes DEF Recompute, Resolution
<1> DEFINE all == ExcludedAfterReject(ledger[n])
<1>2. HasRetry(n) /\ pending' = pending /\ ledger' = [ledger EXCEPT ![n].excluded = all]
  BY <1>1 DEF Recompute
<1>3. ledger[n] \in Records /\ ledger[n] # NoRecord /\ ledger[n].conflict # NoConflict
  BY <1>2 DEF TypeOK, HasRetry
<1>4. ledger[n] \in [conflict : Conflicts, chosen : Options, excluded : SUBSET Options]
  BY <1>3 DEF Records
<1>5. all \in SUBSET Options
  BY <1>4 DEF ExcludedAfterReject
<1> HIDE DEF all
<1>6. ledger'[n] = [ledger[n] EXCEPT !.excluded = all] /\ \A d \in Decisions \ {n} : ledger'[d] = ledger[d]
  BY <1>2 DEF TypeOK
<1>7. ledger'[n] \in Records /\ ledger'[n].conflict = ledger[n].conflict
      /\ ledger'[n].chosen = ledger[n].chosen
  BY <1>4, <1>5, <1>6 DEF Records
<1>8. RecordKept(n) /\ HasRetry(n)'
  BY <1>2, <1>3, <1>7, FlowAssumption DEF RecordKept, HasRetry
<1>9. ASSUME NEW d \in Decisions \ {n}
      PROVE  /\ RecordKept(d)
             /\ HasRetry(d) => HasRetry(d)' /\ ledger'[d].conflict = ledger[d].conflict
  BY <1>2, <1>6 DEF RecordKept, HasRetry
<1> QED
  BY <1>7, <1>8, <1>9

\* Every step of a burst keeps each decision at one place.
LEMMA DecidedStep ==
    ASSUME TypeOK, TypeOK', FlowInv, OutsideFirst, DecidedOnce, [InBursts]_vars
    PROVE  DecidedOnce' /\ \A d \in Decisions : RetryKept(d) \/ (d = counter + 1 /\ counter' = d)
<1> DEFINE Goal == DecidedOnce' /\ \A d \in Decisions : RetryKept(d) \/ (d = counter + 1 /\ counter' = d)
<1>a. ASSUME \A d \in Decisions : RecordKept(d), DecidedOnce',
             \A d \in Decisions : Undecided(d)' => Undecided(d)
      PROVE  Goal
  BY <1>a, RecordKeptRetry DEF RetryKept
<1>b. ASSUME UNCHANGED <<ledger, pending>> PROVE \A d \in Decisions : RecordKept(d)
  BY <1>b DEF RecordKept, HasRetry
<1>1. CASE UNCHANGED vars
  <2>1. UNCHANGED <<clock, ready, ledger, pending, evaluating, approved>>
    BY <1>1 DEF vars, state, history
  <2> QED
    BY <1>a, <1>b, <2>1, DecidedStays
<1>2. ASSUME NEW c, NEW offered, StartFlow(c, offered) PROVE Goal
  <2>1. UNCHANGED <<clock, ready, ledger, pending, evaluating, approved>>
    BY <1>2 DEF StartFlow, history
  <2> QED
    BY <1>a, <1>b, <2>1, DecidedStays
<1>3. ASSUME NEW f \in choosing, ChooseFor(f) PROVE Goal
  <2>1. PICK o \in f.offered : Propose(f, o)
    BY <1>3 DEF ChooseFor
  <2> DEFINE rec == [conflict |-> f.conflict, chosen |-> o, excluded |-> f.excluded]
  <2>2. PICK n \in Decisions : n = counter + 1
    BY <2>1, FlowAssumption DEF Propose, TypeOK, Decisions
  <2>3. /\ ledger' = [ledger EXCEPT ![n] = rec] /\ pending' = [pending EXCEPT ![n] = o]
        /\ ready' = Append(ready, ProposedEvent(n, "proposed"))
        /\ counter' = n /\ UNCHANGED <<evaluating, clock, approved>>
    BY <2>1, <2>2 DEF Propose, PlanOf, Publish
  <2>4. ledger \in [Decisions -> Records \cup {NoRecord}]
        /\ pending \in [Decisions -> Options \cup {NoOption}]
    BY DEF TypeOK
  <2>5. rec # NoRecord /\ rec.conflict # NoConflict /\ rec.chosen = o
    <3>1. f.conflict \in Conflicts /\ o \in Options /\ f.excluded \in SUBSET Options
      BY DEF TypeOK, Flows
    <3>2. rec \in Records
      BY <3>1 DEF Records
    <3> QED
      BY <3>1, <3>2, FlowAssumption
  <2> HIDE DEF rec
  <2>6. \A d \in Decisions : /\ ledger'[d] = IF d = n THEN rec ELSE ledger[d]
                             /\ pending'[d] = IF d = n THEN o ELSE pending[d]
    BY <2>3, <2>4
  <2>7. DecidedOnce'
    BY <2>2, <2>3, <2>5, <2>6, DecidedIssued
  <2>8. \A d \in Decisions : d # n /\ Undecided(d)' => Undecided(d)
    BY <2>2, <2>3, IssuedFresh
  <2> QED
    BY <2>2, <2>3, <2>6, <2>7, <2>8 DEF RetryKept, HasRetry
<1>4. CASE ProposeAuto
  <2> DEFINE rec == [conflict |-> NoConflict, chosen |-> NoOption, excluded |-> {}]
  <2>1. PICK n \in Decisions : n = counter + 1
    BY <1>4, FlowAssumption DEF ProposeAuto, TypeOK, Decisions
  <2>2. /\ ledger' = [ledger EXCEPT ![n] = rec] /\ pending' = pending
        /\ ready' = Append(ready, ProposedEvent(n, "auto"))
        /\ counter' = n /\ UNCHANGED <<evaluating, clock, approved>>
    BY <1>4, <2>1 DEF ProposeAuto, Publish, history
  <2>3. rec # NoRecord /\ rec.conflict = NoConflict
    <3>1. rec \in Records
      BY DEF Records
    <3> QED
      BY <3>1, FlowAssumption
  <2> HIDE DEF rec
  <2>4. /\ pending[n] = NoOption
        /\ \A d \in Decisions : d # n /\ Undecided(d)' => Undecided(d)
    BY <2>1, <2>2, IssuedFresh
  <2>5. \A d \in Decisions : /\ ledger'[d] = IF d = n THEN rec ELSE ledger[d]
                             /\ pending'[d] = IF d = n THEN NoOption ELSE pending[d]
    BY <2>2, <2>4 DEF TypeOK
  <2>6. DecidedOnce'
    BY <2>1, <2>2, <2>3, <2>5, DecidedIssued
  <2> QED
    BY <2>1, <2>2, <2>4, <2>5, <2>6 DEF RetryKept, HasRetry
<1>5. ASSUME NEW n \in Decisions, EndEvaluation(n) PROVE Goal
  <2>1. PICK st \in {"approved", "rejected"} : Verdict(n, st, "orchestrator")
    BY <1>5 DEF EndEvaluation
  <2>2. /\ evaluating[n] # Absent /\ evaluating' = [evaluating EXCEPT ![n] = Absent]
        /\ ready' = Append(ready, ResolvedEvent(n, st, "orchestrator"))
        /\ approved' \subseteq approved \cup {n}
        /\ UNCHANGED <<ledger, pending, clock>>
    BY <1>5, <2>1 DEF EndEvaluation, Verdict, Publish
  <2>3. /\ ResolvedEvent(n, st, "orchestrator") \in Events
        /\ ResolvedEvent(n, st, "orchestrator").topic # "decision.proposed"
    BY DEF Events, ResolvedEvent
  <2>4. evaluating \in [Decisions -> Times]
    BY DEF TypeOK
  <2>5. \A i \in 1 .. Len(ready') : ready'[i].topic = "decision.proposed" =>
           i \in 1 .. Len(ready) /\ ready'[i] = ready[i]
    BY <2>2, <2>3, AppendIndex
  <2>6. ~ Undecided(n)'
    <3>1. \A i \in 1 .. Len(ready') : ~ ProposedAt(i, n)'
      BY <2>2, <2>5 DEF DecidedOnce, ProposedAt
    <3> QED
      BY <2>2, <2>4, <3>1 DEF Undecided
  <2>7. \A d \in Decisions : RecordKept(d)
    BY <1>b, <2>2
  <2>8. \A d \in Decisions : /\ evaluating'[d] = evaluating[d] \/ evaluating'[d] = Absent
                             /\ d \in approved' => d \in approved \/ ~Undecided(d)'
    BY <2>2, <2>4, <2>6
  <2> QED
    BY <1>a, <2>2, <2>3, <2>7, <2>8, DecidedStays
<1>6. CASE BeginEvaluation
  BY <1>6, BeginDecided
<1>7. ASSUME ready # <<>>, ready' = Tail(ready), UNCHANGED <<clock, evaluating, approved>>,
             \A d \in Decisions : RecordKept(d)
      PROVE  Goal
  BY <1>7, <1>a, DecidedStays
<1>8. CASE IgnoreResolution \/ TwinHandlesPlan
  <2>1. /\ ready # <<>> /\ ready' = Tail(ready)
        /\ UNCHANGED <<clock, evaluating, approved, ledger, pending>>
    BY <1>8 DEF IgnoreResolution, Resolution, TwinHandlesPlan, history
  <2> QED
    BY <1>7, <1>b, <2>1
<1>9. CASE WatchReset
  <2>1. /\ ready # <<>> /\ ready' = Tail(ready) /\ UNCHANGED <<clock, evaluating, approved>>
    BY <1>9 DEF WatchReset
  <2>2. CASE UNCHANGED <<ledger, pending>>
    BY <1>7, <1>b, <2>1, <2>2
  <2>3. CASE \A d \in Decisions : ledger'[d] = NoRecord /\ pending'[d] = NoOption
    BY <1>7, <2>1, <2>3 DEF RecordKept
  <2> QED
    BY <1>9, <2>2, <2>3 DEF WatchReset
<1>10. ASSUME NEW offered, Recompute(offered) PROVE Goal
  <2>1. ready # <<>> /\ ready' = Tail(ready) /\ UNCHANGED <<clock, evaluating, approved>>
    BY <1>10 DEF Recompute, Resolution
  <2> QED
    BY <1>7, <1>10, <2>1, RecomputedRecords
<1>11. CASE CarryOut
  <2>1. PICK n \in Decisions : n = Head(ready).dec
    BY <1>11, HeadTypes DEF CarryOut, Resolution
  <2>2. /\ Resolution("approved") /\ pending[n] # NoOption
        /\ pending' = [pending EXCEPT ![n] = NoOption]
        /\ ready' = Append(Tail(ready), PlanEvent(n, pending[n]))
        /\ UNCHANGED <<ledger, clock, evaluating, approved>>
    BY <1>11, <2>1 DEF CarryOut, WithoutPlan
  <2>3. pending \in [Decisions -> Options \cup {NoOption}]
    BY DEF TypeOK
  <2>4. /\ PlanEvent(n, pending[n]) \in Events
        /\ PlanEvent(n, pending[n]).topic # "decision.proposed"
    BY <2>2, <2>3 DEF Events, PlanEvent
  <2>5. n \in approved
    BY <2>1, <2>2, HeadApproved
  <2>6. ready # <<>>
    BY <2>2 DEF Resolution
  <2>7. ~ Undecided(n)'
    <3>1. ~ Undecided(n)
      BY <2>5 DEF DecidedOnce
    <3>2. \A i \in 1 .. Len(ready') : ready'[i].topic = "decision.proposed" =>
             i + 1 \in 1 .. Len(ready) /\ ready'[i] = ready[i + 1]
      BY <2>2, <2>4, <2>6, TailAppendIndex
    <3> QED
      BY <2>2, <3>1, <3>2 DEF Undecided, ProposedAt
  <2>8. \A d \in Decisions : RecordKept(d)
    BY <2>2, <2>3, <2>7 DEF RecordKept, HasRetry
  <2> QED
    BY <1>a, <2>2, <2>4, <2>6, <2>8, DecidedStays
<1>12. CASE Tick
  <2>1. PICK t \in (clock + 1) .. MaxTime : ready' = Append(ready, TickEvent(t, "loop"))
    BY <1>12 DEF Tick, Publish
  <2>2. t \in Nat
    BY <2>1, FlowAssumption DEF TypeOK
  <2>3. TickEvent(t, "loop") \in Events /\ TickEvent(t, "loop").topic # "decision.proposed"
    BY <2>2 DEF Events, TickEvent
  <2>4. UNCHANGED <<ledger, pending, evaluating, approved>>
    BY <1>12 DEF Tick, history
  <2> QED
    BY <1>a, <1>b, <2>1, <2>3, <2>4, DecidedStays
<1>13. CASE Quiet /\ Disturbing
  <2>1. UNCHANGED <<evaluating, pending, ledger>>
    BY <1>13, FlowDisturbed
  <2>2. \A i \in 1 .. Len(ready') : ready'[i].topic # "decision.proposed"
    <3>1. CASE \A i \in 1 .. Len(ready') : ready'[i].topic = "sim.tick"
      BY <3>1
    <3>2. ASSUME NEW d, NEW s, Len(ready') = 1, ready'[1] = ResolvedEvent(d, s, "human")
          PROVE  \A i \in 1 .. Len(ready') : ready'[i].topic # "decision.proposed"
      <4>1. ready'[1].topic = "decision.resolved"
        BY <3>2 DEF ResolvedEvent
      <4> QED
        BY <3>2, <4>1
    <3> QED
      BY <1>13, <3>1, <3>2, FlowDisturbed
  <2>3. \A d \in Decisions : evaluating'[d] = Absent
    BY <1>13, <2>1 DEF Quiet
  <2>4. \A d \in Decisions, i \in 1 .. Len(ready') : ~ ProposedAt(i, d)'
    BY <2>2 DEF ProposedAt
  <2>5. \A d \in Decisions : ~ Undecided(d)' /\ (HasRetry(d)' <=> HasRetry(d))
    BY <2>1, <2>3, <2>4 DEF Undecided, HasRetry
  <2>6. DecidedOnce'
    BY <2>1, <2>2, <2>3, <2>4, <2>5 DEF DecidedOnce
  <2> QED
    BY <2>1, <2>5, <2>6 DEF RetryKept
<1>14. ~ CancelledTick \/ ~ Cascading
  BY FlowCascades
<1> QED
  BY <1>1, <1>2, <1>3, <1>4, <1>5, <1>6, <1>8, <1>9, <1>10, <1>11, <1>12, <1>13, <1>14
     DEF InBursts, Cascading, Deliver
-----------------------------------------------------------------------------
(* The plans on their way to the twin, for a set F of options that are still free, a set T of *)
(* resources that were given away, and a set L of those given away again.  PlatformFlow and   *)
(* CrewFlow say what these are.                                                             *)

MayTake(F, T, o) == o \in F \/ ResourceOf[o] \in T

\* Approved ones whose plan is still pending, and plans carried out.
ApprovedAt(i, d) == /\ ready[i].topic = "decision.resolved" /\ ready[i].status = "approved"
                    /\ ready[i].dec = d /\ pending[d] # NoOption
MoveAt(i, o) == \/ \E d \in Decisions : ApprovedAt(i, d) /\ pending[d] = o
                \/ ready[i].topic = "plan.executed" /\ ready[i].option = o

\* What makes the orchestrator forget a commit: a verdict of the operator, or a reset.
Freeing == HeadIn(Outside) /\ (Head(ready).topic = "decision.resolved" \/ Rewound)

\* What is being chosen or decided is free, or its resource was given away; what is approved
\* was given away, and unless that happened twice it is free and no other approved plan
\* needs the resource.  The orchestrator remembers a commit on what it gave away.
PlansInv(F, T, L) ==
    /\ \A f \in choosing : \A o \in f.offered : MayTake(F, T, o)
    /\ \A d \in Decisions : Undecided(d) /\ HasRetry(d) => MayTake(F, T, ledger[d].chosen)
    /\ \A i \in 1 .. Len(ready), o \in Options :
          MoveAt(i, o) =>
             /\ ResourceOf[o] \in T
             /\ \/ ResourceOf[o] \in L
                \/ /\ o \in F
                   /\ \A j \in 1 .. Len(ready), x \in Options :
                         MoveAt(j, x) /\ ResourceOf[o] = ResourceOf[x] => i = j
    /\ \A r \in Resources : r \in T => commits[r] # Absent
    /\ Freeing => T = {}

\* The more options are free, the weaker the invariant.
LEMMA PlansGrow ==
    ASSUME NEW F, NEW G, NEW T, NEW L, F \subseteq G, PlansInv(F, T, L)' PROVE PlansInv(G, T, L)'
BY DEF PlansInv, MayTake

\* While the commits stay, the invariant is about where the events are.
LEMMA PlansKept ==
    ASSUME NEW F, NEW T, NEW L, PlansInv(F, T, L), commits' = commits,
           Freeing' => Freeing,
           \A f \in choosing' : \A o \in f.offered : MayTake(F, T, o),
           \A d \in Decisions : Undecided(d)' /\ HasRetry(d)' => MayTake(F, T, ledger'[d].chosen),
           NEW at, \A i, j \in 1 .. Len(ready') : at[i] = at[j] => i = j,
           \A i \in 1 .. Len(ready'), o \in Options :
              MoveAt(i, o)' => at[i] \in 1 .. Len(ready) /\ MoveAt(at[i], o)
    PROVE  PlansInv(F, T, L)'
<1>1. ASSUME NEW i \in 1 .. Len(ready'), NEW o \in Options, MoveAt(i, o)'
      PROVE  /\ ResourceOf[o] \in T
             /\ \/ ResourceOf[o] \in L
                \/ /\ o \in F
                   /\ \A j \in 1 .. Len(ready'), x \in Options :
                         MoveAt(j, x)' /\ ResourceOf[o] = ResourceOf[x] => i = j
  <2>1. at[i] \in 1 .. Len(ready) /\ MoveAt(at[i], o)
    BY <1>1
  <2>2. ASSUME ResourceOf[o] \notin L,
               NEW j \in 1 .. Len(ready'), NEW x \in Options, MoveAt(j, x)',
               ResourceOf[o] = ResourceOf[x]
        PROVE  i = j
    <3>1. at[j] \in 1 .. Len(ready) /\ MoveAt(at[j], x)
      BY <2>2
    <3>2. at[i] = at[j]
      BY <2>1, <2>2, <3>1 DEF PlansInv
    <3> QED
      BY <3>2
  <2>3. ResourceOf[o] \in T /\ (ResourceOf[o] \in L \/ o \in F)
    BY <2>1 DEF PlansInv
  <2> QED
    BY <2>2, <2>3
<1>2. \A f \in choosing' : \A o \in f.offered : MayTake(F, T, o)'
  BY DEF MayTake
<1>3. \A d \in Decisions : Undecided(d)' /\ HasRetry(d)' => MayTake(F, T, ledger[d].chosen)'
  BY DEF MayTake
<1>4. (\A r \in Resources : r \in T => commits'[r] # Absent) /\ (Freeing' => T = {})
  BY DEF PlansInv
<1> QED
  BY <1>1, <1>2, <1>3, <1>4 DEF PlansInv

\* A move stays where its event stays.
LEMMA MoveStays ==
    ASSUME NEW i, NEW j, ready'[i] = ready[j], NEW o \in Options, MoveAt(i, o)',
           \A d \in Decisions : ApprovedAt(i, d)' => pending'[d] = pending[d] \/ pending'[d] = NoOption
    PROVE  MoveAt(j, o)
BY FlowAssumption DEF MoveAt, ApprovedAt

\* A delivery may free commits when nothing is given away; no plan is on its way then.
LEMMA PlansAfterFreeing ==
    ASSUME TypeOK, NEW F, NEW T, NEW L, PlansInv(F, T, L), Freeing, ready' = Tail(ready),
           ~ HeadIn(Outside)',
           \A f \in choosing' : f.offered \subseteq F \/ \E g \in choosing : f.offered = g.offered,
           \A d \in Decisions : RetryKept(d) /\ (pending'[d] = pending[d] \/ pending'[d] = NoOption)
    PROVE  PlansInv(F, T, L)' /\ \A i \in 1 .. Len(ready'), o \in Options : ~ MoveAt(i, o)'
<1>0. T = {} /\ ~ Freeing'
  BY DEF PlansInv, Freeing
<1>1. \A f \in choosing' : \A o \in f.offered : MayTake(F, T, o)'
  BY DEF PlansInv, MayTake
<1>2. \A d \in Decisions : Undecided(d)' /\ HasRetry(d)' => MayTake(F, T, ledger[d].chosen)'
  BY DEF RetryKept, PlansInv, MayTake
<1>3. ASSUME NEW i \in 1 .. Len(ready'), NEW o \in Options PROVE ~ MoveAt(i, o)'
  <2>1. i + 1 \in 1 .. Len(ready) /\ ready'[i] = ready[i + 1]
    BY TailIndex DEF HeadIn, Freeing
  <2>2. MoveAt(i, o)' => MoveAt(i + 1, o)
    BY <2>1, MoveStays
  <2> QED
    BY <1>0, <2>1, <2>2 DEF PlansInv
<1> QED
  BY <1>0, <1>1, <1>2, <1>3 DEF PlansInv

\* A plan proposed is one that was offered.
LEMMA PlansIssued ==
    ASSUME FlowInv, NEW F, NEW T, NEW L, PlansInv(F, T, L), UNCHANGED <<commits, evaluating>>,
           Freeing' => Freeing,
           NEW n \in Decisions, n = counter + 1, NEW st \in {"proposed", "auto"},
           ready' = Append(ready, ProposedEvent(n, st)),
           HasRetry(n)' => MayTake(F, T, ledger'[n].chosen),
           \A d \in Decisions : d # n => RetryKept(d) /\ pending'[d] = pending[d],
           choosing' \subseteq choosing
    PROVE  PlansInv(F, T, L)'
<1>1. /\ \A i \in 1 .. Len(ready) : ready[i].topic = "decision.resolved"
                                    /\ ready[i].status = "approved" => ready[i].dec # n
  BY IssuedFresh
<1>2. PICK k \in 1 .. Len(ready') :
         /\ ready'[k] = ProposedEvent(n, st)
         /\ \A i \in 1 .. Len(ready') : i # k => i \in 1 .. Len(ready) /\ ready'[i] = ready[i]
  BY IssuedFresh
<1> DEFINE at == [i \in 1 .. Len(ready') |-> i]
<1>3. ASSUME NEW i \in 1 .. Len(ready'), NEW o \in Options, MoveAt(i, o)'
      PROVE  at[i] \in 1 .. Len(ready) /\ MoveAt(at[i], o)
  <2>1. i # k
    BY <1>2, <1>3 DEF MoveAt, ApprovedAt, ProposedEvent
  <2>2. i \in 1 .. Len(ready) /\ ready'[i] = ready[i]
    BY <1>2, <2>1
  <2>3. \A d \in Decisions : ApprovedAt(i, d)' => d # n
    BY <1>1, <2>2 DEF ApprovedAt
  <2>4. MoveAt(i, o)
    BY <1>3, <2>2, <2>3, MoveStays
  <2> QED
    BY <2>2, <2>4
<1>4. \A i, j \in 1 .. Len(ready') : at[i] = at[j] => i = j
  OBVIOUS
<1> HIDE DEF at
<1>5. \A d \in Decisions : Undecided(d)' /\ HasRetry(d)' => MayTake(F, T, ledger'[d].chosen)
  BY DEF RetryKept, PlansInv
<1>6. \A f \in choosing' : \A o \in f.offered : MayTake(F, T, o)
  BY DEF PlansInv
<1> QED
  BY <1>3, <1>4, <1>5, <1>6, PlansKept

\* Events that are no approvals may be published; they and a proposal, or a resolution nobody
\* acts on, may be delivered.
LEMMA PlansStay ==
    ASSUME TypeOK, NEW F, NEW T, NEW L, PlansInv(F, T, L), UNCHANGED <<commits, pending>>,
           Freeing' => Freeing,
           \/ ready' = ready
           \/ \E e \in Events : /\ \A d \in Decisions : e.topic = "decision.resolved" /\ e.dec = d =>
                                      e.status = "rejected" \/ pending[d] = NoOption
                                /\ e.topic # "plan.executed" /\ ready' = Append(ready, e)
           \/ ready # <<>> /\ ready' = Tail(ready),
           \A f \in choosing' : f.offered \subseteq F \/ \E g \in choosing : f.offered = g.offered,
           \A d \in Decisions : RetryKept(d)
    PROVE  PlansInv(F, T, L)'
<1>1. \A f \in choosing' : \A o \in f.offered : MayTake(F, T, o)
  BY DEF PlansInv, MayTake
<1>2. \A d \in Decisions : Undecided(d)' /\ HasRetry(d)' => MayTake(F, T, ledger'[d].chosen)
  BY DEF RetryKept, PlansInv
<1>3. CASE ready' = ready \/ (ready # <<>> /\ ready' = Tail(ready))
  <2>1. PICK s \in {0, 1} : \A i \in 1 .. Len(ready') :
                               i + s \in 1 .. Len(ready) /\ ready'[i] = ready[i + s]
    <3>1. CASE ready' = ready
      <4>1. \A i \in 1 .. Len(ready') : i + 0 = i
        OBVIOUS
      <4> QED
        BY <3>1, <4>1
    <3>2. CASE ready # <<>> /\ ready' = Tail(ready)
      BY <3>2, TailIndex
    <3> QED
      BY <1>3, <3>1, <3>2
  <2> DEFINE at == [i \in 1 .. Len(ready') |-> i + s]
  <2>2. \A i \in 1 .. Len(ready'), o \in Options :
           MoveAt(i, o)' => at[i] \in 1 .. Len(ready) /\ MoveAt(at[i], o)
    BY <2>1, MoveStays
  <2>3. \A i, j \in 1 .. Len(ready') : at[i] = at[j] => i = j
    OBVIOUS
  <2> HIDE DEF at
  <2> QED
    BY <1>1, <1>2, <2>2, <2>3, PlansKept
<1>4. ASSUME NEW e \in Events,
             \A d \in Decisions : e.topic = "decision.resolved" /\ e.dec = d =>
                e.status = "rejected" \/ pending[d] = NoOption,
             e.topic # "plan.executed", ready' = Append(ready, e)
      PROVE  PlansInv(F, T, L)'
  <2>1. PICK k \in 1 .. Len(ready') :
           /\ ready'[k] = e
           /\ \A i \in 1 .. Len(ready') : i # k => i \in 1 .. Len(ready) /\ ready'[i] = ready[i]
    BY <1>4, AppendIndex
  <2> DEFINE at == [i \in 1 .. Len(ready') |-> i]
  <2>2. ASSUME NEW i \in 1 .. Len(ready'), NEW o \in Options, MoveAt(i, o)'
        PROVE  at[i] \in 1 .. Len(ready) /\ MoveAt(at[i], o)
    <3>1. i # k
      BY <1>4, <2>1, <2>2 DEF MoveAt, ApprovedAt
    <3> QED
      BY <2>1, <2>2, <3>1, MoveStays
  <2>3. \A i, j \in 1 .. Len(ready') : at[i] = at[j] => i = j
    OBVIOUS
  <2> HIDE DEF at
  <2> QED
    BY <1>1, <1>2, <2>2, <2>3, PlansKept
<1> QED
  BY <1>3, <1>4

\* The choice of an undecided decision that can be run again is one of the options.
LEMMA RetryTyped ==
    ASSUME TypeOK, NEW d \in Decisions, HasRetry(d)
    PROVE  /\ ledger[d].conflict \in Conflicts /\ ledger[d].chosen \in Options
           /\ ResourceOf[ledger[d].chosen] \in Resources
<1>1. ledger[d] \in Records /\ ledger[d].conflict # NoConflict
  BY DEF TypeOK, HasRetry
<1> QED
  BY <1>1, FlowAssumption DEF Records

\* An approval gives a resource away: for the first time, or the commit was too old to count.
LEMMA PlanApproved ==
    ASSUME TypeOK, OutsideFirst, DecidedOnce, NEW F, NEW T, NEW L, NEW U, NEW M,
           PlansInv(F, T, L), NEW n \in Decisions,
           EndEvaluation(n), HasRetry(n), ~Contended(n, evaluating[n]), ~HeadIn(Outside)',
           U = T \cup Takes(n), M = L \cup (T \cap TakesLapsed(n)), \A d \in Decisions : RetryKept(d)
    PROVE  PlansInv(F, U, M)'
<1> DEFINE e == ResolvedEvent(n, "approved", "orchestrator")
<1>1. /\ evaluating[n] # Absent /\ ready' = Append(ready, e) /\ ledger[n] # NoRecord
      /\ UNCHANGED <<ledger, pending, choosing>>
      /\ commits' = [commits EXCEPT ![ResourceOf[ledger[n].chosen]] = evaluating[n]]
  BY DEF EndEvaluation, Verdict, Publish, HasRetry
<1>2. e \in Events /\ e.topic = "decision.resolved" /\ e.status = "approved" /\ e.dec = n
  BY DEF Events, ResolvedEvent
<1> HIDE DEF e
<1>3. pending[n] = ledger[n].chosen /\ Undecided(n)
  BY <1>1 DEF DecidedOnce, Undecided
<1>4. PICK o \in Options : o = ledger[n].chosen /\ o = pending[n]
  BY <1>3, RetryTyped
<1>5. commits \in [Resources -> Times] /\ \A x \in Options : ResourceOf[x] \in Resources
  BY FlowAssumption DEF TypeOK
<1>6. PICK r \in Resources : r = ResourceOf[o]
  BY <1>5
<1>7. U = T \cup {r} /\ (r \in T => r \in M) /\ L \subseteq M
  <2>1. Takes(n) = {r}
    BY <1>1, <1>4, <1>6 DEF Takes
  <2>2. ASSUME r \in T PROVE r \in M
    <3>1. commits[r] # Absent
      BY <2>2 DEF PlansInv
    <3>2. ~ (evaluating[n] - commits[r] < Window)
      BY <1>1, <1>4, <1>6, <3>1 DEF Contended
    <3>3. evaluating[n] \in Int /\ commits[r] \in Int /\ Window \in Int
      BY <1>5, FlowAssumption DEF TypeOK, Times, Absent
    <3>4. evaluating[n] - commits[r] >= Window
      BY <3>2, <3>3
    <3> QED
      BY <2>1, <2>2, <3>4 DEF TakesLapsed
  <2> QED
    BY <2>1, <2>2
<1>8. r \notin T => o \in F
  BY <1>3, <1>4, <1>6 DEF PlansInv, MayTake
<1>9. \A x \in Options : MayTake(F, T, x) => MayTake(F, U, x)
  BY <1>7 DEF MayTake
<1>10. ASSUME NEW f \in choosing' PROVE \A x \in f.offered : MayTake(F, U, x)'
  <2>1. f \in choosing /\ f.offered \subseteq Options
    BY <1>1 DEF TypeOK, Flows
  <2>2. \A x \in f.offered : MayTake(F, U, x)
    BY <1>9, <2>1 DEF PlansInv
  <2> QED
    BY <2>2 DEF MayTake
<1>11. ASSUME NEW d \in Decisions, Undecided(d)', HasRetry(d)' PROVE MayTake(F, U, ledger[d].chosen)'
  <2>1. HasRetry(d) /\ Undecided(d)
    BY <1>11 DEF RetryKept
  <2>2. PICK x \in Options : x = ledger[d].chosen
    BY <2>1, RetryTyped
  <2>3. MayTake(F, U, x)
    BY <1>9, <2>1, <2>2 DEF PlansInv
  <2> QED
    BY <1>1, <2>2, <2>3 DEF MayTake
<1>12. PICK k \in 1 .. Len(ready') :
         /\ ready'[k] = e /\ k \notin 1 .. Len(ready)
         /\ \A i \in 1 .. Len(ready') : i # k => i \in 1 .. Len(ready) /\ ready'[i] = ready[i]
  BY <1>1, <1>2, AppendIndex
<1>13. ASSUME NEW i \in 1 .. Len(ready'), NEW x \in Options, MoveAt(i, x)'
       PROVE  \/ i = k /\ x = o
              \/ i # k /\ i \in 1 .. Len(ready) /\ MoveAt(i, x) /\ ResourceOf[x] \in T
  <2>1. CASE i = k
    <3>1. pending[n] = x
      BY <1>1, <1>2, <1>12, <1>13, <2>1 DEF MoveAt, ApprovedAt
    <3> QED
      BY <1>4, <2>1, <3>1
  <2>2. CASE i # k
    <3>1. i \in 1 .. Len(ready) /\ MoveAt(i, x)
      BY <1>1, <1>12, <1>13, <2>2, MoveStays
    <3> QED
      BY <2>2, <3>1 DEF PlansInv
  <2> QED
    BY <2>1, <2>2
<1>14. ASSUME NEW i \in 1 .. Len(ready'), NEW x \in Options, MoveAt(i, x)'
       PROVE  /\ ResourceOf[x] \in U
              /\ \/ ResourceOf[x] \in M
                 \/ /\ x \in F
                    /\ \A j \in 1 .. Len(ready'), y \in Options :
                          MoveAt(j, y)' /\ ResourceOf[x] = ResourceOf[y] => i = j
  <2>1. ResourceOf[x] \in U
    BY <1>6, <1>7, <1>13, <1>14
  <2>2. ASSUME ResourceOf[x] \notin M PROVE x \in F
    BY <1>6, <1>7, <1>8, <1>13, <1>14, <2>2 DEF PlansInv
  <2>3. ASSUME ResourceOf[x] \notin M, NEW j \in 1 .. Len(ready'), NEW y \in Options, MoveAt(j, y)',
               ResourceOf[x] = ResourceOf[y]
        PROVE  i = j
    <3>1. CASE ResourceOf[x] = r
      BY <1>6, <1>7, <1>13, <1>14, <2>3, <3>1
    <3>2. CASE ResourceOf[x] # r
      BY <1>6, <1>7, <1>13, <1>14, <2>3, <3>2 DEF PlansInv
    <3> QED
      BY <3>1, <3>2
  <2> QED
    BY <2>1, <2>2, <2>3
<1>15. \A x \in Resources : x \in U => commits'[x] # Absent
  BY <1>1, <1>4, <1>5, <1>6, <1>7 DEF PlansInv
<1> QED
  BY <1>10, <1>11, <1>14, <1>15 DEF PlansInv, Freeing

\* A plan that is carried out takes the place of its approval.
LEMMA PlanCarriedOut ==
    ASSUME TypeOK, NEW F, NEW T, NEW L, PlansInv(F, T, L), CarryOut, Freeing' => Freeing,
           \A d \in Decisions : RetryKept(d)
    PROVE  PlansInv(F, T, L)'
<1>1. PICK n \in Decisions : n = Head(ready).dec
  BY HeadTypes DEF CarryOut, Resolution
<1>2. /\ Resolution("approved") /\ ready # <<>> /\ pending[n] # NoOption
      /\ pending' = [pending EXCEPT ![n] = NoOption]
      /\ ready' = Append(Tail(ready), PlanEvent(n, pending[n]))
      /\ UNCHANGED <<commits, choosing>>
  BY <1>1 DEF CarryOut, WithoutPlan, Resolution
<1>3. pending \in [Decisions -> Options \cup {NoOption}]
  BY DEF TypeOK
<1>4. PICK o \in Options : o = pending[n]
  BY <1>2, <1>3
<1> DEFINE e == PlanEvent(n, o)
<1>5. e \in Events /\ e.topic = "plan.executed" /\ e.option = o
  BY DEF Events, PlanEvent
<1>6. ready' = Append(Tail(ready), e)
  BY <1>2, <1>4
<1> HIDE DEF e
<1>7. /\ Head(ready) = ready[1] /\ 1 \in 1 .. Len(ready)
  BY <1>2, <1>5, <1>6, TailAppendIndex
<1>8. PICK k \in 1 .. Len(ready') :
         /\ ready'[k] = e
         /\ \A i \in 1 .. Len(ready') : i # k =>
               i + 1 \in 1 .. Len(ready) /\ i + 1 # 1 /\ ready'[i] = ready[i + 1]
  BY <1>2, <1>5, <1>6, TailAppendIndex
<1>9. MoveAt(1, o)
  BY <1>1, <1>2, <1>4, <1>7 DEF MoveAt, ApprovedAt, Resolution
<1> DEFINE at == [i \in 1 .. Len(ready') |-> IF i = k THEN 1 ELSE i + 1]
<1>10. \A d \in Decisions : pending'[d] = pending[d] \/ pending'[d] = NoOption
  BY <1>2, <1>3
<1>11. ASSUME NEW i \in 1 .. Len(ready'), NEW x \in Options, MoveAt(i, x)'
       PROVE  at[i] \in 1 .. Len(ready) /\ MoveAt(at[i], x)
  <2>1. CASE i = k
    <3>1. x = o
      BY <1>5, <1>8, <1>11, <2>1 DEF MoveAt, ApprovedAt
    <3> QED
      BY <1>7, <1>9, <2>1, <3>1
  <2>2. CASE i # k
    <3>1. i + 1 \in 1 .. Len(ready) /\ ready'[i] = ready[i + 1] /\ at[i] = i + 1
      BY <1>8, <2>2
    <3> QED
      BY <1>10, <1>11, <3>1, MoveStays
  <2> QED
    BY <2>1, <2>2
<1>12. ASSUME NEW i \in 1 .. Len(ready'), NEW j \in 1 .. Len(ready'), at[i] = at[j] PROVE i = j
  <2>1. /\ at[i] = IF i = k THEN 1 ELSE i + 1
        /\ at[j] = IF j = k THEN 1 ELSE j + 1
    OBVIOUS
  <2>2. (i # k => i + 1 # 1) /\ (j # k => j + 1 # 1)
    BY <1>8
  <2> QED
    BY <1>12, <2>1, <2>2
<1>13. \A d \in Decisions : Undecided(d)' /\ HasRetry(d)' => MayTake(F, T, ledger'[d].chosen)
  BY DEF RetryKept, PlansInv
<1>14. \A f \in choosing' : \A x \in f.offered : MayTake(F, T, x)
  BY <1>2 DEF PlansInv
<1> HIDE DEF at
<1> QED
  BY <1>2, <1>11, <1>12, <1>13, <1>14, PlansKept

\* The plan that the twin takes was free or its resource given away twice; it takes one
\* resource.
LEMMA PlanHandled ==
    ASSUME TypeOK, NEW F, NEW G, NEW T, NEW L, PlansInv(F, T, L), TwinHandlesPlan,
           Freeing' => Freeing, \A d \in Decisions : RetryKept(d),
           \A x \in F : x \in Options /\ ResourceOf[x] # ResourceOf[Head(ready).option] => x \in G
    PROVE  /\ PlansInv(G, T, L)' /\ Head(ready).option \in Options
           /\ Head(ready).option \in F \/ ResourceOf[Head(ready).option] \in L
<1>1. /\ ready # <<>> /\ ready' = Tail(ready) /\ Head(ready).topic = "plan.executed"
      /\ UNCHANGED <<ledger, pending, commits, choosing>>
  BY DEF TwinHandlesPlan
<1>2. Head(ready) = ready[1] /\ 1 \in 1 .. Len(ready)
      /\ \A i \in 1 .. Len(ready') :
            i + 1 \in 1 .. Len(ready) /\ i + 1 # 1 /\ ready'[i] = ready[i + 1]
  BY <1>1, TailIndex
<1>3. PICK o \in Options : o = ready[1].option
  <2>1. Head(ready) \in Events
    BY <1>1, HeadTypes
  <2> QED
    BY <1>1, <1>2, <2>1 DEF Events
<1>4. MoveAt(1, o)
  BY <1>1, <1>2, <1>3 DEF MoveAt
<1>5. ResourceOf[o] \in T /\ (o \in F \/ ResourceOf[o] \in L)
  BY <1>2, <1>4 DEF PlansInv
<1>6. ASSUME NEW x \in Options, MayTake(F, T, x) PROVE MayTake(G, T, x)
  BY <1>2, <1>3, <1>5, <1>6 DEF MayTake
<1>7. ASSUME NEW f \in choosing' PROVE \A x \in f.offered : MayTake(G, T, x)'
  <2>1. f \in choosing /\ f.offered \subseteq Options
    BY <1>1 DEF TypeOK, Flows
  <2>2. \A x \in f.offered : MayTake(G, T, x)
    BY <1>6, <2>1 DEF PlansInv
  <2> QED
    BY <2>2 DEF MayTake
<1>8. ASSUME NEW d \in Decisions, Undecided(d)', HasRetry(d)' PROVE MayTake(G, T, ledger[d].chosen)'
  <2>1. HasRetry(d) /\ Undecided(d)
    BY <1>8 DEF RetryKept
  <2>2. PICK x \in Options : x = ledger[d].chosen
    BY <2>1, RetryTyped
  <2>3. MayTake(G, T, x)
    BY <1>6, <2>1, <2>2 DEF PlansInv
  <2> QED
    BY <1>1, <2>2, <2>3 DEF MayTake
<1>9. ASSUME NEW i \in 1 .. Len(ready'), NEW x \in Options, MoveAt(i, x)'
      PROVE  i + 1 \in 1 .. Len(ready) /\ i + 1 # 1 /\ MoveAt(i + 1, x)
  BY <1>1, <1>2, <1>9, MoveStays
<1>10. ASSUME NEW i \in 1 .. Len(ready'), NEW x \in Options, MoveAt(i, x)'
       PROVE  /\ ResourceOf[x] \in T
              /\ \/ ResourceOf[x] \in L
                 \/ /\ x \in G
                    /\ \A j \in 1 .. Len(ready'), y \in Options :
                          MoveAt(j, y)' /\ ResourceOf[x] = ResourceOf[y] => i = j
  <2>1. ResourceOf[x] \in T
    BY <1>9, <1>10 DEF PlansInv
  <2>2. ASSUME ResourceOf[x] \notin L PROVE x \in G
    <3>1. x \in F /\ ResourceOf[x] # ResourceOf[o]
      BY <1>2, <1>4, <1>9, <1>10, <2>2 DEF PlansInv
    <3> QED
      BY <1>2, <1>3, <3>1
  <2>3. ASSUME ResourceOf[x] \notin L, NEW j \in 1 .. Len(ready'), NEW y \in Options, MoveAt(j, y)',
               ResourceOf[x] = ResourceOf[y]
        PROVE  i = j
    <3>1. i + 1 = j + 1
      BY <1>9, <1>10, <2>3 DEF PlansInv
    <3> QED
      BY <3>1
  <2> QED
    BY <2>1, <2>2, <2>3
<1>11. (\A r \in Resources : r \in T => commits'[r] # Absent) /\ (Freeing' => T = {})
  BY <1>1 DEF PlansInv
<1> QED
  BY <1>2, <1>3, <1>5, <1>7, <1>8, <1>10, <1>11 DEF PlansInv

\* Between cascades no plan is on its way, and only the operator can send one: by approving
\* what the orchestrator refused.
LEMMA PlansDisturbed ==
    ASSUME TypeOK, OutsideFirst, Quiet, Disturbing, NEW F, NEW G, NEW T, NEW U, NEW L, NEW M,
           PlansInv(F, T, L), U \subseteq T,
           \A d \in Decisions, s \in {"approved", "rejected"} : HumanResolve(d, s) => U = {},
           Reset => U = {} \/ Pause,
           \A d \in Decisions : HumanResolve(d, "approved") => pending[d] = NoOption
    PROVE  PlansInv(G, U, M)' /\ \A i \in 1 .. Len(ready'), o \in Options : ~ MoveAt(i, o)'
<1>1. UNCHANGED <<evaluating, pending, choosing, commits>> /\ choosing = {}
      /\ \A d \in Decisions : evaluating[d] = Absent
  BY FlowDisturbed DEF Quiet
<1>2. /\ \A i \in 1 .. Len(ready') : ready'[i].topic \in {"sim.tick", "decision.resolved"}
      /\ \A i \in 1 .. Len(ready'), d \in Decisions : ~ ApprovedAt(i, d)'
  <2>1. CASE \A i \in 1 .. Len(ready') : ready'[i].topic = "sim.tick"
    BY <2>1 DEF ApprovedAt
  <2>2. ASSUME NEW d \in Decisions, NEW s \in {"approved", "rejected"}, HumanResolve(d, s),
               Len(ready') = 1, ready'[1] = ResolvedEvent(d, s, "human")
        PROVE  /\ \A i \in 1 .. Len(ready') : ready'[i].topic \in {"sim.tick", "decision.resolved"}
               /\ \A i \in 1 .. Len(ready'), x \in Decisions : ~ ApprovedAt(i, x)'
    <3>1. \A i \in 1 .. Len(ready') : ready'[i] = ResolvedEvent(d, s, "human")
      BY <2>2
    <3>2. s = "approved" => pending'[d] = NoOption
      BY <1>1, <2>2
    <3> QED
      BY <3>1, <3>2 DEF ResolvedEvent, ApprovedAt
  <2> QED
    BY <2>1, <2>2, FlowDisturbed
<1>3. \A d \in Decisions : ~ Undecided(d)'
  BY <1>1, <1>2 DEF Undecided, ProposedAt
<1>4. \A i \in 1 .. Len(ready'), o \in Options : ~ MoveAt(i, o)'
  BY <1>2 DEF MoveAt
<1>5. Freeing' => U = {}
  <2>1. CASE Pause
    <3>1. Head(ready').topic = "sim.tick" /\ Head(ready').time = clock' /\ lastTick' = lastTick
      <4>1. ready = <<>> /\ clock' = clock
        BY <2>1 DEF Pause, Halt, Quiet
      <4>2. [i \in 1 .. Len(ready) |-> CancelTick(ready[i])] = ready
        BY <4>1
      <4>3. ready' = Append(ready, TickEvent(clock, "request")) /\ lastTick' = lastTick
        BY <2>1, <4>2 DEF Pause, Halt
      <4>4. ready' = <<TickEvent(clock, "request")>>
        BY <4>1, <4>3
      <4> QED
        BY <4>1, <4>3, <4>4 DEF TickEvent
    <3>2. clock' = clock /\ lastTick <= clock /\ clock \in Int /\ lastTick \in Int
      BY <2>1 DEF Pause, Halt, OutsideFirst, RequestAhead, HeadIn, Quiet, TypeOK, Times, Absent
    <3> QED
      BY <3>1, <3>2 DEF Freeing, Rewound
  <2> QED
    BY <2>1 DEF Disturbing
<1>6. \A r \in Resources : r \in U => commits'[r] # Absent
  BY <1>1 DEF PlansInv
<1> QED
  BY <1>1, <1>3, <1>4, <1>5, <1>6 DEF PlansInv

\* What a step does to the resources given away, T then U, and given away again, L then M: an
\* approval adds to both, a disturbance may forget.
Gives(T, U, L, M) ==
    \/ /\ Quiet /\ Disturbing /\ U \subseteq T
       /\ \A d \in Decisions, s \in {"approved", "rejected"} : HumanResolve(d, s) => U = {}
       /\ Reset => U = {} \/ Pause
    \/ \E n \in Decisions : /\ EndEvaluation(n) /\ audit'[n].status = "approved"
                            /\ U = T \cup Takes(n) /\ M = L \cup (T \cap TakesLapsed(n))
    \/ /\ U = T /\ M = L /\ ~ (Quiet /\ Disturbing)
       /\ \A n \in Decisions : EndEvaluation(n) => audit'[n].status # "approved"

\* A step keeps the plans when the free options only grow, except that the plan the twin takes
\* may use up the options of its resource, and when new flows are offered what is free.
LEMMA PlansStep ==
    ASSUME FlowInv, TypeOK', OutsideFirst, DecidedOnce,
           NEW F, NEW G, NEW T, NEW U, NEW L, NEW M, PlansInv(F, T, L), Gives(T, U, L, M),
           [InBursts]_vars,
           \A d \in Decisions : RetryKept(d) \/ (d = counter + 1 /\ counter' = d),
           \A f \in choosing' : f.offered \subseteq F \/ \E g \in choosing : f.offered = g.offered,
           \A d \in Decisions : HumanResolve(d, "approved") => pending[d] = NoOption,
           \/ Quiet /\ Disturbing
           \/ F \subseteq G
           \/ /\ TwinHandlesPlan
              /\ \A x \in F : x \in Options /\ ResourceOf[x] # ResourceOf[Head(ready).option]
                                 => x \in G
    PROVE  /\ PlansInv(G, U, M)'
           /\ TwinHandlesPlan => /\ Head(ready).option \in Options
                                 /\ \/ Head(ready).option \in F
                                    \/ ResourceOf[Head(ready).option] \in L
<1> USE DEF FlowInv
<1>a. ASSUME counter' = counter PROVE \A d \in Decisions : RetryKept(d)
  <2>1. counter + 1 # counter
    BY DEF TypeOK
  <2> QED
    BY <1>a, <2>1
<1>b. CASE Quiet /\ Disturbing
  <2>1. ~ TwinHandlesPlan
    BY <1>b DEF TwinHandlesPlan, Quiet
  <2>2. \A n \in Decisions : ~ EndEvaluation(n)
    BY <1>b DEF EndEvaluation, Quiet
  <2>3. /\ U \subseteq T /\ (Reset => U = {} \/ Pause)
        /\ \A d \in Decisions, s \in {"approved", "rejected"} : HumanResolve(d, s) => U = {}
    BY <1>b, <2>2 DEF Gives
  <2> QED
    BY <1>b, <2>1, <2>3, PlansDisturbed
<1>c. ASSUME Cascading \/ Tick \/ UNCHANGED vars
      PROVE  (Freeing' => Freeing) /\ (ready' = Tail(ready) /\ ready # <<>> => ~ HeadIn(Outside)')
  <2>1. CASE UNCHANGED vars
    <3>1. Freeing' => Freeing
      BY <2>1 DEF vars, state, Freeing, HeadIn, Rewound
    <3>2. ~ (ready' = Tail(ready) /\ ready # <<>>)
      <4>1. ready # <<>> => Len(Tail(ready)) = Len(ready) - 1 /\ Len(ready) \in Nat
        BY TailAt
      <4>2. ready' = ready
        BY <2>1 DEF vars, state
      <4> QED
        BY <4>1, <4>2
    <3> QED
      BY <3>1, <3>2
  <2>2. CASE Cascading \/ Tick
    <3>1. OutsideStays
      BY <2>2, FlowKeepsOutside
    <3>2. Freeing' => Freeing
      BY <3>1 DEF OutsideStays, Freeing, Rewound
    <3>3. ASSUME ready' = Tail(ready), ready # <<>> PROVE ~ HeadIn(Outside)'
      BY <3>3, LeadingTail DEF OutsideFirst, Outside
    <3> QED
      BY <3>2, <3>3
  <2> QED
    BY <1>c, <2>1, <2>2
<1>d. CASE TwinHandlesPlan
  <2>1. Freeing' => Freeing
    BY <1>c, <1>d DEF Cascading, Deliver
  <2>2. \A d \in Decisions : RetryKept(d)
    BY <1>a, <1>d DEF TwinHandlesPlan
  <2>3. ~ (Quiet /\ Disturbing)
    BY <1>d DEF TwinHandlesPlan, Quiet
  <2>4. \A n \in Decisions : ~ EndEvaluation(n)
    BY <1>d DEF TwinHandlesPlan, EndEvaluation, TypeOK
  <2>5. U = T /\ M = L
    BY <2>3, <2>4 DEF Gives
  <2> QED
    BY <1>d, <2>1, <2>2, <2>3, <2>5, PlanHandled
<1>e. ASSUME NEW n \in Decisions, EndEvaluation(n), ~ (Quiet /\ Disturbing) PROVE PlansInv(F, U, M)'
  <2>1. UNCHANGED <<clock, pending, counter, choosing, ledger>>
    BY <1>e DEF EndEvaluation
  <2>2. \A d \in Decisions : RetryKept(d)
    BY <1>a, <2>1
  <2>3. PICK st \in {"approved", "rejected"} :
           /\ ready' = Append(ready, ResolvedEvent(n, st, "orchestrator"))
           /\ audit' = [audit EXCEPT ![n] = [status |-> st, by |-> "orchestrator"]]
           /\ st = IF Contended(n, evaluating[n]) THEN "rejected" ELSE "approved"
    BY <1>e DEF EndEvaluation, Verdict, Publish
  <2>4. audit'[n].status = st /\ evaluating[n] # Absent
    BY <1>e, <2>3 DEF EndEvaluation, TypeOK
  <2>5. \A m \in Decisions : EndEvaluation(m) => m = n
    <3> TAKE m \in Decisions
    <3>1. EndEvaluation(m) => evaluating' = [evaluating EXCEPT ![m] = Absent] /\ evaluating[m] # Absent
      BY DEF EndEvaluation
    <3>2. evaluating' = [evaluating EXCEPT ![n] = Absent]
      BY <1>e DEF EndEvaluation
    <3> QED
      BY <3>1, <3>2 DEF TypeOK
  <2>6. IF st = "approved" THEN U = T \cup Takes(n) /\ M = L \cup (T \cap TakesLapsed(n))
        ELSE U = T /\ M = L
    BY <1>e, <2>3, <2>4, <2>5 DEF Gives
  <2>7. CASE HasRetry(n) /\ ~Contended(n, evaluating[n])
    <3>1. ~ HeadIn(Outside)'
      <4>1. ~ HeadIn(Outside)
        BY <2>4 DEF OutsideFirst
      <4>2. OutsideStays
        BY <1>e, FlowKeepsOutside DEF Cascading
      <4> QED
        BY <4>1, <4>2 DEF OutsideStays
    <3> QED
      BY <1>e, <2>2, <2>3, <2>6, <2>7, <3>1, PlanApproved
  <2>8. CASE ~ (HasRetry(n) /\ ~Contended(n, evaluating[n]))
    <3>1. ledger[n] = NoRecord \/ HasRetry(n)
      BY <2>4 DEF DecidedOnce
    <3>2. commits' = commits
      BY <1>e, <2>8, <3>1 DEF EndEvaluation
    <3>3. U = T /\ M = L
      <4>1. CASE Contended(n, evaluating[n])
        BY <2>3, <2>6, <4>1
      <4>2. CASE ledger[n] = NoRecord
        BY <2>3, <2>6, <4>2 DEF Takes, TakesLapsed
      <4> QED
        BY <2>8, <3>1, <4>1, <4>2
    <3> DEFINE e == ResolvedEvent(n, st, "orchestrator")
    <3>4. e \in Events /\ e.topic = "decision.resolved" /\ e.dec = n /\ e.status = st
      BY DEF Events, ResolvedEvent
    <3>5. ready' = Append(ready, e)
      BY <2>3
    <3> HIDE DEF e
    <3>6. e.status = "rejected" \/ pending[n] = NoOption
      BY <2>3, <2>8, <3>1, <3>4 DEF DecidedOnce, HasRetry
    <3>7. Freeing' => Freeing
      BY <1>c, <1>e DEF Cascading
    <3>8. PlansInv(F, T, L)'
      BY <2>1, <2>2, <3>2, <3>4, <3>5, <3>6, <3>7, PlansStay
    <3> QED
      BY <3>3, <3>8
  <2> QED
    BY <2>7, <2>8
<1>f. CASE \E n \in Decisions : EndEvaluation(n)
  BY <1>b, <1>d, <1>e, <1>f, PlansGrow
<1> SUFFICES ASSUME ~ (Quiet /\ Disturbing), ~ TwinHandlesPlan, \A n \in Decisions : ~ EndEvaluation(n)
             PROVE  PlansInv(F, T, L)'
  <2> SUFFICES ASSUME ~ (Quiet /\ Disturbing), ~ TwinHandlesPlan, \A n \in Decisions : ~ EndEvaluation(n)
               PROVE  PlansInv(G, U, M)'
    BY <1>b, <1>d, <1>f
  <2>1. U = T /\ M = L
    BY DEF Gives
  <2> QED
    BY <2>1, PlansGrow
<1>1. CASE UNCHANGED vars
  <2>1. UNCHANGED <<ready, commits, pending, choosing, counter>>
    BY <1>1 DEF vars, state
  <2> QED
    BY <1>1, <1>a, <1>c, <2>1, PlansStay
<1>2. ASSUME Cascading, NEW c, NEW offered, StartFlow(c, offered) PROVE PlansInv(F, T, L)'
  <2>1. UNCHANGED <<ready, commits, pending, counter>>
    BY <1>2 DEF StartFlow
  <2> QED
    BY <1>2, <1>a, <1>c, <2>1, PlansStay
<1>3. ASSUME Cascading, NEW f \in choosing, ChooseFor(f) PROVE PlansInv(F, T, L)'
  <2>1. PICK o \in f.offered : Propose(f, o)
    BY <1>3 DEF ChooseFor
  <2> DEFINE rec == [conflict |-> f.conflict, chosen |-> o, excluded |-> f.excluded]
  <2>2. PICK n \in Decisions : n = counter + 1
    BY <2>1, FlowAssumption DEF Propose, TypeOK, Decisions
  <2>3. /\ ledger' = [ledger EXCEPT ![n] = rec] /\ pending' = [pending EXCEPT ![n] = o]
        /\ ready' = Append(ready, ProposedEvent(n, "proposed")) /\ choosing' = choosing \ {f}
        /\ UNCHANGED <<evaluating, commits>>
    BY <2>1, <2>2 DEF Propose, PlanOf, Publish
  <2>4. ledger'[n].chosen = o /\ \A d \in Decisions : d # n => RetryKept(d) /\ pending'[d] = pending[d]
    BY <2>2, <2>3 DEF TypeOK
  <2>5. MayTake(F, T, ledger'[n].chosen)
    BY <2>4 DEF PlansInv
  <2>6. choosing' \subseteq choosing
    BY <2>3
  <2> QED
    BY <1>3, <1>c, <2>2, <2>3, <2>4, <2>5, <2>6, PlansIssued
<1>4. ASSUME Cascading, ProposeAuto PROVE PlansInv(F, T, L)'
  <2> DEFINE rec == [conflict |-> NoConflict, chosen |-> NoOption, excluded |-> {}]
  <2>1. PICK n \in Decisions : n = counter + 1
    BY <1>4, FlowAssumption DEF ProposeAuto, TypeOK, Decisions
  <2>2. /\ ledger' = [ledger EXCEPT ![n] = rec] /\ pending' = pending
        /\ ready' = Append(ready, ProposedEvent(n, "auto")) /\ choosing' = choosing
        /\ UNCHANGED <<evaluating, commits>>
    BY <1>4, <2>1 DEF ProposeAuto, Publish
  <2>3. \A d \in Decisions : d # n => RetryKept(d) /\ pending'[d] = pending[d]
    BY <2>1, <2>2
  <2>4. ~ HasRetry(n)'
    BY <2>2 DEF HasRetry, TypeOK
  <2> QED
    BY <1>4, <1>c, <2>1, <2>2, <2>3, <2>4, PlansIssued
<1>5. CASE Tick
  <2>1. PICK t \in (clock + 1) .. MaxTime : ready' = Append(ready, TickEvent(t, "loop"))
    BY <1>5 DEF Tick, Publish
  <2> DEFINE e == TickEvent(t, "loop")
  <2>2. e \in Events /\ e.topic = "sim.tick"
    BY <2>1, FlowAssumption DEF Events, TickEvent, TypeOK
  <2>3. UNCHANGED <<commits, pending, counter, choosing>> /\ ready' = Append(ready, e)
    BY <1>5, <2>1 DEF Tick
  <2> HIDE DEF e
  <2> QED
    BY <1>5, <1>a, <1>c, <2>2, <2>3, PlansStay
<1>6. ASSUME Cascading, BeginEvaluation \/ IgnoreResolution PROVE PlansInv(F, T, L)'
  <2>1. /\ ready # <<>> /\ ready' = Tail(ready)
        /\ UNCHANGED <<commits, pending, counter, choosing>>
    BY <1>6 DEF BeginEvaluation, IgnoreResolution, Resolution
  <2> QED
    BY <1>6, <1>a, <1>c, <2>1, PlansStay
<1>7. ASSUME Cascading, CarryOut PROVE PlansInv(F, T, L)'
  <2>1. counter' = counter
    BY <1>7 DEF CarryOut
  <2> QED
    BY <1>7, <1>a, <1>c, <2>1, PlanCarriedOut
<1>8. ASSUME Cascading, NEW offered, Recompute(offered) PROVE PlansInv(F, T, L)'
  <2>1. ready' = Tail(ready) /\ UNCHANGED <<pending, counter>> /\ ready # <<>>
        /\ Head(ready).topic = "decision.resolved" /\ Head(ready).by = "human"
    BY <1>8 DEF Recompute, Resolution
  <2>2. Freeing
    <3>1. Head(ready) \in Events
      BY <2>1, HeadTypes
    <3> QED
      BY <2>1, <3>1 DEF Freeing, HeadIn, Outside
  <2> QED
    BY <1>8, <1>a, <1>c, <2>1, <2>2, PlansAfterFreeing
<1>9. ASSUME Cascading, WatchReset PROVE PlansInv(F, T, L)'
  <2>1. /\ ready # <<>> /\ ready' = Tail(ready) /\ Head(ready).topic = "sim.tick"
        /\ counter' = counter
    BY <1>9 DEF WatchReset, CounterAfterReset
  <2>2. CASE Rewound
    <3>1. Freeing
      BY <1>9, <2>2, RewoundByRequest DEF Freeing, RequestAhead
    <3>2. \A d \in Decisions : pending'[d] = pending[d] \/ pending'[d] = NoOption
      BY <1>9 DEF WatchReset
    <3> QED
      BY <1>9, <1>a, <1>c, <2>1, <3>1, <3>2, PlansAfterFreeing
  <2>3. CASE ~ Rewound
    <3>1. UNCHANGED <<commits, pending, choosing>>
      BY <1>9, <2>3 DEF WatchReset
    <3> QED
      BY <1>9, <1>a, <1>c, <2>1, <3>1, PlansStay
  <2> QED
    BY <2>2, <2>3
<1>10. Cascading => ~ CancelledTick
  BY FlowCascades
<1>11. Cascading \/ Tick \/ UNCHANGED vars
  BY DEF InBursts
<1> QED
  BY <1>1, <1>2, <1>3, <1>4, <1>5, <1>6, <1>7, <1>8, <1>9, <1>10, <1>11 DEF Cascading, Deliver

\* A plan on its way was so before, or the orchestrator has just approved it.
LEMMA MoveOrigin ==
    ASSUME FlowInv, OutsideFirst, DecidedOnce, [InBursts]_vars,
           \A d \in Decisions : HumanResolve(d, "approved") => pending[d] = NoOption,
           NEW i \in 1 .. Len(ready'), NEW o \in Options, MoveAt(i, o)'
    PROVE  \/ \E j \in 1 .. Len(ready) : MoveAt(j, o)
           \/ \E d \in Decisions : evaluating[d] # Absent /\ HasRetry(d) /\ ledger[d].chosen = o
<1> USE DEF FlowInv
<1>1. CASE Quiet /\ Disturbing
  <2>1. PlansInv({}, {}, {})
    BY <1>1 DEF Quiet, PlansInv, Undecided, ProposedAt, MoveAt, ApprovedAt
  <2>2. \A x \in Options : ~ MoveAt(i, x)'
    BY <1>1, <2>1, PlansDisturbed
  <2> QED
    BY <2>2
<1>2. CASE ready' = ready /\ UNCHANGED pending
  BY <1>2, MoveStays
<1>3. CASE /\ ready # <<>> /\ ready' = Tail(ready)
           /\ \A d \in Decisions : pending'[d] = pending[d] \/ pending'[d] = NoOption
  <2>1. i + 1 \in 1 .. Len(ready) /\ ready'[i] = ready[i + 1]
    BY <1>3, TailIndex
  <2> QED
    BY <1>3, <2>1, MoveStays
<1>4. ASSUME NEW e \in Events, e.topic \notin {"decision.resolved", "plan.executed"},
             ready' = Append(ready, e),
             \A d \in Decisions : pending'[d] = pending[d] \/ d = counter + 1
      PROVE  \E j \in 1 .. Len(ready) : MoveAt(j, o)
  <2>1. PICK k \in 1 .. Len(ready') :
           /\ ready'[k] = e
           /\ \A j \in 1 .. Len(ready') : j # k => j \in 1 .. Len(ready) /\ ready'[j] = ready[j]
    BY <1>4, AppendIndex
  <2>2. i # k
    BY <1>4, <2>1 DEF MoveAt, ApprovedAt
  <2>3. i \in 1 .. Len(ready) /\ ready'[i] = ready[i]
    BY <2>1, <2>2
  <2>4. ASSUME NEW d \in Decisions, ApprovedAt(i, d)' PROVE d # counter + 1
    <3>1. ready[i] \in Queue /\ ready[i].topic = "decision.resolved"
          /\ ready[i].status = "approved" /\ ready[i].dec = d
      BY <2>3, <2>4 DEF ApprovedAt, Queue
    <3>2. d \in approved
      BY <3>1 DEF QueueKnown
    <3>3. ~ (d > counter)
      BY <3>2 DEF NoTrace
    <3> QED
      BY <3>3, FlowAssumption DEF TypeOK
  <2> QED
    BY <1>4, <2>3, <2>4, MoveStays
<1>5. ASSUME NEW f \in choosing, ChooseFor(f) PROVE \E j \in 1 .. Len(ready) : MoveAt(j, o)
  <2>1. PICK x \in f.offered : Propose(f, x)
    BY <1>5 DEF ChooseFor
  <2>2. /\ counter + 1 \in Decisions /\ ready' = Append(ready, ProposedEvent(counter + 1, "proposed"))
        /\ pending' = [pending EXCEPT ![counter + 1] = x]
    BY <2>1, FlowAssumption DEF Propose, PlanOf, Publish, TypeOK, Decisions
  <2>3. \A d \in Decisions : pending'[d] = pending[d] \/ d = counter + 1
    BY <2>2 DEF TypeOK
  <2>4. ProposedEvent(counter + 1, "proposed") \in Events
        /\ ProposedEvent(counter + 1, "proposed").topic = "decision.proposed"
    BY <2>2 DEF Events, ProposedEvent
  <2> QED
    BY <1>4, <2>2, <2>3, <2>4
<1>6. ASSUME ProposeAuto PROVE \E j \in 1 .. Len(ready) : MoveAt(j, o)
  <2>1. /\ counter + 1 \in Decisions /\ ready' = Append(ready, ProposedEvent(counter + 1, "auto"))
        /\ pending' = pending
    BY <1>6, FlowAssumption DEF ProposeAuto, Publish, TypeOK, Decisions
  <2>2. ProposedEvent(counter + 1, "auto") \in Events
        /\ ProposedEvent(counter + 1, "auto").topic = "decision.proposed"
    BY <2>1 DEF Events, ProposedEvent
  <2> QED
    BY <1>4, <2>1, <2>2
<1>7. ASSUME Tick PROVE \E j \in 1 .. Len(ready) : MoveAt(j, o)
  <2>1. PICK t \in (clock + 1) .. MaxTime : ready' = Append(ready, TickEvent(t, "loop"))
    BY <1>7 DEF Tick, Publish
  <2>2. TickEvent(t, "loop") \in Events /\ TickEvent(t, "loop").topic = "sim.tick"
    BY <2>1, FlowAssumption DEF Events, TickEvent, TypeOK
  <2>3. pending' = pending
    BY <1>7 DEF Tick
  <2> QED
    BY <1>4, <2>1, <2>2, <2>3
<1>8. ASSUME NEW n \in Decisions, EndEvaluation(n)
      PROVE  \/ \E j \in 1 .. Len(ready) : MoveAt(j, o)
             \/ HasRetry(n) /\ ledger[n].chosen = o /\ evaluating[n] # Absent
  <2>1. PICK st \in {"approved", "rejected"} : ready' = Append(ready, ResolvedEvent(n, st, "orchestrator"))
    BY <1>8 DEF EndEvaluation, Verdict, Publish
  <2>2. evaluating[n] # Absent /\ UNCHANGED pending
    BY <1>8 DEF EndEvaluation
  <2> DEFINE e == ResolvedEvent(n, st, "orchestrator")
  <2>3. e \in Events /\ e.topic = "decision.resolved" /\ e.dec = n
    BY DEF Events, ResolvedEvent
  <2>a. ready' = Append(ready, e)
    BY <2>1
  <2> HIDE DEF e
  <2>4. PICK k \in 1 .. Len(ready') :
           /\ ready'[k] = e
           /\ \A j \in 1 .. Len(ready') : j # k => j \in 1 .. Len(ready) /\ ready'[j] = ready[j]
    BY <2>a, <2>3, AppendIndex
  <2>5. CASE i = k
    <3>1. pending[n] = o /\ o # NoOption
      BY <2>2, <2>3, <2>4, <2>5, FlowAssumption DEF MoveAt, ApprovedAt
    <3> QED
      BY <2>2, <3>1 DEF DecidedOnce, HasRetry
  <2>6. CASE i # k
    BY <2>2, <2>4, <2>6, MoveStays
  <2> QED
    BY <2>2, <2>5, <2>6
<1>9. ASSUME CarryOut PROVE \E j \in 1 .. Len(ready) : MoveAt(j, o)
  <2>1. PICK n \in Decisions : n = Head(ready).dec
    BY <1>9, HeadTypes DEF CarryOut, Resolution
  <2>2. /\ Resolution("approved") /\ ready # <<>> /\ pending[n] # NoOption
        /\ pending' = [pending EXCEPT ![n] = NoOption]
        /\ ready' = Append(Tail(ready), PlanEvent(n, pending[n]))
    BY <1>9, <2>1 DEF CarryOut, WithoutPlan, Resolution
  <2>3. PICK x \in Options : x = pending[n]
    BY <2>2 DEF TypeOK
  <2> DEFINE e == PlanEvent(n, x)
  <2>4. e \in Events /\ e.topic = "plan.executed" /\ e.option = x
    BY DEF Events, PlanEvent
  <2>5. ready' = Append(Tail(ready), e)
    BY <2>2, <2>3
  <2> HIDE DEF e
  <2>6. /\ Head(ready) = ready[1] /\ 1 \in 1 .. Len(ready)
    BY <2>2, <2>4, <2>5, TailAppendIndex
  <2>7. PICK k \in 1 .. Len(ready') :
           /\ ready'[k] = e
           /\ \A j \in 1 .. Len(ready') : j # k =>
                 j + 1 \in 1 .. Len(ready) /\ j + 1 # 1 /\ ready'[j] = ready[j + 1]
    BY <2>2, <2>4, <2>5, TailAppendIndex
  <2>8. MoveAt(1, x)
    BY <2>1, <2>2, <2>3, <2>6 DEF MoveAt, ApprovedAt, Resolution
  <2>9. CASE i = k
    <3>1. x = o
      BY <2>4, <2>7, <2>9 DEF MoveAt, ApprovedAt
    <3> QED
      BY <2>6, <2>8, <3>1
  <2>10. CASE i # k
    <3>1. i + 1 \in 1 .. Len(ready) /\ ready'[i] = ready[i + 1]
      BY <2>7, <2>10
    <3>2. \A d \in Decisions : pending'[d] = pending[d] \/ pending'[d] = NoOption
      BY <2>2 DEF TypeOK
    <3> QED
      BY <3>1, <3>2, MoveStays
  <2> QED
    BY <2>9, <2>10
<1>10. CASE UNCHANGED vars \/ \E c \in Conflicts, offered \in SUBSET Options : StartFlow(c, offered)
  BY <1>2, <1>10 DEF vars, state, StartFlow
<1>11. CASE \/ BeginEvaluation \/ IgnoreResolution \/ TwinHandlesPlan \/ WatchReset
            \/ \E offered \in SUBSET Options : Recompute(offered)
  <2>1. ready # <<>> /\ ready' = Tail(ready)
    BY <1>11 DEF BeginEvaluation, IgnoreResolution, TwinHandlesPlan, WatchReset, Recompute, Resolution
  <2>2. \A d \in Decisions : pending'[d] = pending[d] \/ pending'[d] = NoOption
    BY <1>11 DEF BeginEvaluation, IgnoreResolution, TwinHandlesPlan, WatchReset, Recompute
  <2> QED
    BY <1>3, <2>1, <2>2
<1>12. Cascading => ~ CancelledTick
  BY FlowCascades
<1> QED
  BY <1>1, <1>5, <1>6, <1>7, <1>8, <1>9, <1>10, <1>11, <1>12 DEF InBursts, Cascading, Deliver
-----------------------------------------------------------------------------
(* A conflict stays in somebody's hands until its move reaches the twin. *)

\* Someone is at work on conflict b, which the options of M would settle: a flow, a decision
\* to be made, or a move on its way.
Worked(b, M) ==
    \/ \E f \in choosing : f.conflict = b
    \/ \E d \in Decisions : Undecided(d) /\ HasRetry(d) /\ ledger[d].conflict = b
    \/ \E i \in 1 .. Len(ready), o \in Options : MoveAt(i, o) /\ o \in M

\* Nothing that carries the work goes away: the events on the places `kept' stay.
StaysWith(b, M, kept) ==
    /\ \A i \in kept : \E k \in 1 .. Len(ready') : ready'[k] = ready[i]
    /\ \A f \in choosing : f.conflict = b => \E g \in choosing' : g.conflict = b
    /\ \A d \in Decisions :
          Undecided(d) /\ HasRetry(d) /\ ledger[d].conflict = b =>
             /\ HasRetry(d)' /\ ledger'[d].conflict = b
             /\ \/ evaluating'[d] # Absent
                \/ /\ evaluating[d] = Absent
                   /\ \A i \in 1 .. Len(ready) : ProposedAt(i, d) => i \in kept
    /\ \A i \in 1 .. Len(ready), o \in Options :
          MoveAt(i, o) /\ o \in M =>
             /\ i \in kept
             /\ \A d \in Decisions : ApprovedAt(i, d) /\ pending[d] = o => pending'[d] = o

\* A conflict somebody works on stays so while what he has of it stays.
LEMMA WorkKept ==
    ASSUME NEW b, NEW M, Worked(b, M), NEW kept, StaysWith(b, M, kept)
    PROVE  Worked(b, M)'
<1> USE DEF StaysWith
<1>1. CASE \E f \in choosing : f.conflict = b
  BY <1>1 DEF Worked
<1>2. ASSUME NEW d \in Decisions, Undecided(d), HasRetry(d), ledger[d].conflict = b
      PROVE  Worked(b, M)'
  <2>1. HasRetry(d)' /\ ledger'[d].conflict = b
    BY <1>2
  <2>2. Undecided(d)'
    <3>1. CASE evaluating'[d] # Absent
      BY <3>1 DEF Undecided
    <3>2. CASE evaluating'[d] = Absent
      <4>1. PICK i \in 1 .. Len(ready) : ProposedAt(i, d) /\ i \in kept
        BY <1>2, <3>2 DEF Undecided
      <4> QED
        BY <4>1 DEF Undecided, ProposedAt
    <3> QED
      BY <3>1, <3>2
  <2> QED
    BY <2>1, <2>2 DEF Worked
<1>3. ASSUME NEW i \in 1 .. Len(ready), NEW o \in Options, MoveAt(i, o), o \in M
      PROVE  Worked(b, M)'
  <2>1. PICK k \in 1 .. Len(ready') : ready'[k] = ready[i]
    BY <1>3
  <2>2. ASSUME NEW d \in Decisions, ApprovedAt(i, d), pending[d] = o
        PROVE  ApprovedAt(k, d)' /\ pending'[d] = o
    BY <1>3, <2>1, <2>2, FlowAssumption DEF ApprovedAt
  <2>3. MoveAt(k, o)'
    BY <1>3, <2>1, <2>2 DEF MoveAt
  <2> QED
    BY <1>3, <2>3 DEF Worked
<1> QED
  BY <1>1, <1>2, <1>3 DEF Worked

\* The flow hands its conflict over to the decision it makes.
LEMMA WorkProposed ==
    ASSUME FlowInv, TypeOK', NEW b, NEW M, Worked(b, M),
           NEW f \in choosing, NEW o \in f.offered, Propose(f, o)
    PROVE  Worked(b, M)'
<1> USE DEF FlowInv
<1> SUFFICES ASSUME ~ Worked(b, M)' PROVE FALSE
  OBVIOUS
<1> DEFINE rec == [conflict |-> f.conflict, chosen |-> o, excluded |-> f.excluded]
<1>1. PICK n \in Decisions : n = counter + 1
  BY FlowAssumption DEF Propose, TypeOK, Decisions
<1>2. /\ ledger' = [ledger EXCEPT ![n] = rec] /\ pending' = [pending EXCEPT ![n] = o]
      /\ ready' = Append(ready, ProposedEvent(n, "proposed")) /\ choosing' = choosing \ {f}
      /\ UNCHANGED evaluating
  BY <1>1 DEF Propose, PlanOf, Publish
<1>3. /\ n \notin approved /\ evaluating[n] = Absent
      /\ \A i \in 1 .. Len(ready) : ready[i].topic = "decision.proposed" => ready[i].dec # n
      /\ \A i \in 1 .. Len(ready) : ready[i].topic = "decision.resolved"
                                    /\ ready[i].status = "approved" => ready[i].dec # n
  BY <1>1, <1>2, IssuedFresh
<1>4. ProposedEvent(n, "proposed") \in Events
  BY DEF Events, ProposedEvent
<1>5. \A i \in 1 .. Len(ready) : \E k \in 1 .. Len(ready') : ready'[k] = ready[i]
  BY <1>2, <1>4, AppendIndex
<1>6. PICK k \in 1 .. Len(ready') : ready'[k] = ProposedEvent(n, "proposed")
  BY <1>2, <1>4, AppendIndex
<1>7. /\ \A d \in Decisions : d # n => ledger'[d] = ledger[d] /\ pending'[d] = pending[d]
      /\ ledger'[n] = rec
  BY <1>2 DEF TypeOK
<1>8. f.conflict # b
  <2>1. Undecided(n)'
    BY <1>6 DEF Undecided, ProposedAt, ProposedEvent
  <2>2. HasRetry(n)' /\ ledger'[n].conflict = f.conflict
    <3>1. rec \in Records /\ f.conflict # NoConflict
      BY FlowAssumption DEF Records, TypeOK, Flows
    <3> QED
      BY <1>7, <3>1, FlowAssumption DEF HasRetry
  <2> QED
    BY <2>1, <2>2 DEF Worked
<1>9. \A d \in Decisions : Undecided(d) => d # n
  BY <1>3 DEF Undecided, ProposedAt
<1>10. \A i \in 1 .. Len(ready), x \in Options :
          MoveAt(i, x) /\ x \in M =>
             /\ i \in 1 .. Len(ready)
             /\ \A d \in Decisions : ApprovedAt(i, d) /\ pending[d] = x => pending'[d] = x
  BY <1>3, <1>7 DEF ApprovedAt
<1>11. \A d \in Decisions :
          Undecided(d) /\ HasRetry(d) /\ ledger[d].conflict = b =>
             /\ HasRetry(d)' /\ ledger'[d].conflict = b
             /\ \/ evaluating'[d] # Absent
                \/ /\ evaluating[d] = Absent
                   /\ \A i \in 1 .. Len(ready) : ProposedAt(i, d) => i \in 1 .. Len(ready)
  BY <1>2, <1>7, <1>9 DEF HasRetry
<1>12. \A g \in choosing : g.conflict = b => \E h \in choosing' : h.conflict = b
  BY <1>2, <1>8
<1>13. StaysWith(b, M, 1 .. Len(ready))
  BY <1>5, <1>10, <1>11, <1>12 DEF StaysWith
<1> QED
  BY <1>13, WorkKept

\* A verdict turns the decision into a move, or the orchestrator refuses it.
LEMMA WorkDecided ==
    ASSUME TypeOK, TypeOK', DecidedOnce, NEW b, NEW M, Worked(b, M),
           NEW n \in Decisions, EndEvaluation(n),
           HasRetry(n) /\ ledger[n].conflict = b => ledger[n].chosen \in M
    PROVE  \/ Worked(b, M)'
           \/ HasRetry(n) /\ ledger[n].conflict = b /\ audit'[n].status = "rejected"
<1> SUFFICES ASSUME ~ Worked(b, M)',
                    ~ (HasRetry(n) /\ ledger[n].conflict = b /\ audit'[n].status = "rejected")
             PROVE  FALSE
  OBVIOUS
<1>1. PICK st \in {"approved", "rejected"} :
         /\ ready' = Append(ready, ResolvedEvent(n, st, "orchestrator"))
         /\ audit' = [audit EXCEPT ![n] = [status |-> st, by |-> "orchestrator"]]
  BY DEF EndEvaluation, Verdict, Publish
<1> DEFINE e == ResolvedEvent(n, st, "orchestrator")
<1>2. /\ evaluating[n] # Absent /\ evaluating' = [evaluating EXCEPT ![n] = Absent]
      /\ UNCHANGED <<ledger, pending, choosing>> /\ audit'[n].status = st
  BY <1>1 DEF EndEvaluation, TypeOK
<1>3. e \in Events /\ e.topic = "decision.resolved" /\ e.dec = n /\ e.status = st
  BY DEF Events, ResolvedEvent
<1>4. ready' = Append(ready, e)
  BY <1>1
<1> HIDE DEF e
<1>5. \A i \in 1 .. Len(ready) : \E k \in 1 .. Len(ready') : ready'[k] = ready[i]
  BY <1>3, <1>4, AppendIndex
<1>6. PICK k \in 1 .. Len(ready') : ready'[k] = e
  BY <1>3, <1>4, AppendIndex
<1>7. ~ (HasRetry(n) /\ ledger[n].conflict = b)
  <2> SUFFICES ASSUME HasRetry(n), ledger[n].conflict = b PROVE FALSE
    OBVIOUS
  <2>1. PICK o \in Options : o = ledger[n].chosen
    BY RetryTyped
  <2>2. pending[n] = o /\ o \in M /\ st = "approved"
    BY <1>2, <2>1 DEF DecidedOnce, Undecided
  <2>3. MoveAt(k, o)'
    <3>1. pending'[n] # NoOption /\ pending'[n] = o
      BY <1>2, <2>2, FlowAssumption
    <3> QED
      BY <1>3, <1>6, <2>2, <3>1 DEF MoveAt, ApprovedAt
  <2> QED
    BY <2>2, <2>3 DEF Worked
<1>8. \A d \in Decisions : d # n => evaluating'[d] = evaluating[d]
  BY <1>2 DEF TypeOK
<1>9. \A d \in Decisions :
         Undecided(d) /\ HasRetry(d) /\ ledger[d].conflict = b =>
            /\ HasRetry(d)' /\ ledger'[d].conflict = b
            /\ \/ evaluating'[d] # Absent
               \/ /\ evaluating[d] = Absent
                  /\ \A i \in 1 .. Len(ready) : ProposedAt(i, d) => i \in 1 .. Len(ready)
  BY <1>2, <1>7, <1>8 DEF HasRetry
<1>10. \A i \in 1 .. Len(ready), x \in Options :
          MoveAt(i, x) /\ x \in M =>
             /\ i \in 1 .. Len(ready)
             /\ \A d \in Decisions : ApprovedAt(i, d) /\ pending[d] = x => pending'[d] = x
  BY <1>2
<1>11. StaysWith(b, M, 1 .. Len(ready))
  BY <1>2, <1>5, <1>9, <1>10 DEF StaysWith
<1> QED
  BY <1>11, WorkKept

\* What a handler does not settle stays behind the event it handles.
LEMMA WorkDelivered ==
    ASSUME TypeOK, TypeOK', NEW b, NEW M, Worked(b, M), ready # <<>>, ready' = Tail(ready),
           pending' = pending, choosing \subseteq choosing',
           \A d \in Decisions :
              /\ HasRetry(d) => HasRetry(d)' /\ ledger'[d].conflict = ledger[d].conflict
              /\ evaluating[d] # Absent => evaluating'[d] # Absent
              /\ HasRetry(d) /\ ProposedAt(1, d) => evaluating'[d] # Absent,
           \A o \in Options : MoveAt(1, o) => o \notin M
    PROVE  Worked(b, M)'
<1> DEFINE kept == {i \in 1 .. Len(ready) : i # 1}
<1>1. \A i \in 1 .. Len(ready) : i \in kept => \E k \in 1 .. Len(ready') : ready'[k] = ready[i]
  BY TailIndex
<1>2. \A i \in 1 .. Len(ready), o \in Options :
         MoveAt(i, o) /\ o \in M =>
            /\ i \in kept
            /\ \A d \in Decisions : ApprovedAt(i, d) /\ pending[d] = o => pending'[d] = o
  OBVIOUS
<1>3. \A d \in Decisions :
         Undecided(d) /\ HasRetry(d) /\ ledger[d].conflict = b =>
            /\ HasRetry(d)' /\ ledger'[d].conflict = b
            /\ \/ evaluating'[d] # Absent
               \/ /\ evaluating[d] = Absent
                  /\ \A i \in 1 .. Len(ready) : ProposedAt(i, d) => i \in kept
  OBVIOUS
<1>4. \A f \in choosing : f.conflict = b => \E g \in choosing' : g.conflict = b
  OBVIOUS
<1> HIDE DEF kept
<1>5. StaysWith(b, M, kept)
  BY <1>1, <1>2, <1>3, <1>4 DEF StaysWith, kept
<1> QED
  BY <1>5, WorkKept

\* The agent turns the approved move into the plan.
LEMMA WorkCarriedOut ==
    ASSUME TypeOK, TypeOK', NEW b, NEW M, Worked(b, M), CarryOut
    PROVE  Worked(b, M)'
<1> SUFFICES ASSUME ~ Worked(b, M)' PROVE FALSE
  OBVIOUS
<1>1. PICK n \in Decisions : n = Head(ready).dec
  BY HeadTypes DEF CarryOut, Resolution
<1>2. /\ Resolution("approved") /\ ready # <<>> /\ pending[n] # NoOption
      /\ pending' = [pending EXCEPT ![n] = NoOption]
      /\ ready' = Append(Tail(ready), PlanEvent(n, pending[n]))
      /\ UNCHANGED <<ledger, choosing, evaluating>>
  BY <1>1 DEF CarryOut, WithoutPlan, Resolution
<1>3. pending \in [Decisions -> Options \cup {NoOption}]
  BY DEF TypeOK
<1>4. PICK o \in Options : o = pending[n]
  BY <1>2, <1>3
<1> DEFINE e == PlanEvent(n, o)
<1>5. e \in Events /\ e.topic = "plan.executed" /\ e.option = o
  BY DEF Events, PlanEvent
<1>6. ready' = Append(Tail(ready), e)
  BY <1>2, <1>4
<1> HIDE DEF e
<1> DEFINE kept == {i \in 1 .. Len(ready) : i # 1}
<1>7. /\ Head(ready) = ready[1] /\ 1 \in 1 .. Len(ready)
      /\ \A i \in 1 .. Len(ready) : i \in kept => \E k \in 1 .. Len(ready') : ready'[k] = ready[i]
  BY <1>2, <1>5, <1>6, TailAppendIndex
<1>8. PICK k \in 1 .. Len(ready') : ready'[k] = e
  BY <1>2, <1>5, <1>6, TailAppendIndex
<1>9. ready[1].topic = "decision.resolved" /\ ready[1].dec = n /\ ApprovedAt(1, n) /\ MoveAt(1, o)
  BY <1>1, <1>2, <1>4, <1>7 DEF MoveAt, ApprovedAt, Resolution
<1>10. o \notin M
  <2>1. MoveAt(k, o)'
    BY <1>5, <1>8 DEF MoveAt
  <2> QED
    BY <2>1 DEF Worked
<1>11. ASSUME NEW i \in 1 .. Len(ready), NEW x \in Options, MoveAt(i, x), x \in M
       PROVE  /\ i \in kept
              /\ \A d \in Decisions : ApprovedAt(i, d) /\ pending[d] = x => pending'[d] = x
  <2>1. i # 1
    BY <1>4, <1>9, <1>10, <1>11 DEF MoveAt, ApprovedAt
  <2>2. ASSUME NEW d \in Decisions, ApprovedAt(i, d), pending[d] = x PROVE pending'[d] = x
    BY <1>2, <1>3, <1>4, <1>10, <1>11, <2>2
  <2> QED
    BY <2>1, <2>2
<1>12. \A d \in Decisions :
          Undecided(d) /\ HasRetry(d) /\ ledger[d].conflict = b =>
             /\ HasRetry(d)' /\ ledger'[d].conflict = b
             /\ \/ evaluating'[d] # Absent
                \/ /\ evaluating[d] = Absent
                   /\ \A i \in 1 .. Len(ready) : ProposedAt(i, d) => i \in kept
  BY <1>2, <1>9 DEF HasRetry, ProposedAt
<1>13. \A f \in choosing : f.conflict = b => \E g \in choosing' : g.conflict = b
  BY <1>2
<1> HIDE DEF kept
<1>14. \A i \in 1 .. Len(ready), x \in Options :
          MoveAt(i, x) /\ x \in M =>
             /\ i \in kept
             /\ \A d \in Decisions : ApprovedAt(i, d) /\ pending[d] = x => pending'[d] = x
  BY <1>11
<1>15. StaysWith(b, M, kept)
  BY <1>7, <1>12, <1>13, <1>14 DEF StaysWith, kept
<1> QED
  BY <1>15, WorkKept

\* A broadcast to the passengers takes nothing away from what is under way.
LEMMA WorkBeside ==
    ASSUME FlowInv, TypeOK', NEW b, NEW M, Worked(b, M), ProposeAuto
    PROVE  Worked(b, M)'
<1> USE DEF FlowInv
<1> DEFINE rec == [conflict |-> NoConflict, chosen |-> NoOption, excluded |-> {}]
<1>1. PICK n \in Decisions : n = counter + 1
  BY FlowAssumption DEF ProposeAuto, TypeOK, Decisions
<1>2. /\ ledger' = [ledger EXCEPT ![n] = rec]
      /\ ready' = Append(ready, ProposedEvent(n, "auto"))
      /\ UNCHANGED <<pending, choosing, evaluating>>
  BY <1>1 DEF ProposeAuto, Publish
<1>3. evaluating[n] = Absent
      /\ \A i \in 1 .. Len(ready) : ready[i].topic = "decision.proposed" => ready[i].dec # n
  BY <1>1, <1>2, IssuedFresh
<1>4. \A d \in Decisions : Undecided(d) => ledger'[d] = ledger[d]
  BY <1>2, <1>3 DEF Undecided, ProposedAt, TypeOK
<1>5. ProposedEvent(n, "auto") \in Events
  BY DEF Events, ProposedEvent
<1>6. \A i \in 1 .. Len(ready) : \E k \in 1 .. Len(ready') : ready'[k] = ready[i]
  BY <1>2, <1>5, AppendIndex
<1>7. \A d \in Decisions :
         Undecided(d) /\ HasRetry(d) /\ ledger[d].conflict = b =>
            /\ HasRetry(d)' /\ ledger'[d].conflict = b
            /\ \/ evaluating'[d] # Absent
               \/ /\ evaluating[d] = Absent
                  /\ \A i \in 1 .. Len(ready) : ProposedAt(i, d) => i \in 1 .. Len(ready)
  BY <1>2, <1>4 DEF HasRetry
<1>8. StaysWith(b, M, 1 .. Len(ready))
  BY <1>2, <1>6, <1>7 DEF StaysWith
<1> QED
  BY <1>8, WorkKept

\* A tick is queued behind all of it.
LEMMA WorkTicked ==
    ASSUME TypeOK, NEW b, NEW M, Worked(b, M), Tick PROVE Worked(b, M)'
<1>1. PICK t \in Nat : ready' = Append(ready, TickEvent(t, "loop"))
  <2>1. PICK t \in (clock + 1) .. MaxTime : Publish(TickEvent(t, "loop"))
    BY DEF Tick
  <2>2. t \in Nat
    BY <2>1, FlowAssumption DEF TypeOK
  <2> QED
    BY <2>1, <2>2 DEF Publish
<1>2. TickEvent(t, "loop") \in Events
  BY DEF TickEvent, Events
<1>3. \A i \in 1 .. Len(ready) : \E k \in 1 .. Len(ready') : ready'[k] = ready[i]
  <2> TAKE i \in 1 .. Len(ready)
  <2>1. i \in 1 .. Len(ready') /\ ready'[i] = ready[i]
    BY <1>1, <1>2, AppendOne DEF TypeOK
  <2> QED
    BY <2>1
<1>4. UNCHANGED <<choosing, evaluating, ledger, pending>>
  BY DEF Tick
<1> DEFINE kept == 1 .. Len(ready)
<1>5. StaysWith(b, M, kept)
  BY <1>3, <1>4 DEF StaysWith, HasRetry, Undecided
<1> QED
  BY <1>5, WorkKept

\* A proposal in the queue becomes one under evaluation.
LEMMA WorkBegun ==
    ASSUME TypeOK, TypeOK', DecidedOnce, NEW b, NEW M, Worked(b, M), BeginEvaluation
    PROVE  Worked(b, M)'
<1>1. /\ ready # <<>> /\ ready' = Tail(ready) /\ UNCHANGED <<ledger, pending, choosing>>
      /\ Head(ready) = ready[1] /\ 1 \in 1 .. Len(ready) /\ ready[1].topic = "decision.proposed"
      /\ ready[1].dec \in Decisions /\ clock # Absent
  BY TailAt, HeadTypes DEF BeginEvaluation, TypeOK, Absent
<1>2. ASSUME NEW d \in Decisions
      PROVE  /\ evaluating[d] # Absent => evaluating'[d] # Absent
             /\ HasRetry(d) /\ ProposedAt(1, d) => evaluating'[d] # Absent
  <2>1. CASE NeedsVerdict(Head(ready))
    <3>1. evaluating' = [evaluating EXCEPT ![ready[1].dec] = clock]
      BY <1>1, <2>1 DEF BeginEvaluation
    <3> QED
      BY <1>1, <3>1 DEF TypeOK, ProposedAt
  <2>2. CASE ~ NeedsVerdict(Head(ready))
    <3>1. evaluating' = evaluating
      BY <2>2 DEF BeginEvaluation
    <3>2. HasRetry(d) => ~ ProposedAt(1, d)
      BY <1>1, <2>2 DEF NeedsVerdict, DecidedOnce, ProposedAt, HasRetry
    <3> QED
      BY <3>1, <3>2
  <2> QED
    BY <2>1, <2>2
<1>3. \A x \in Options : ~ MoveAt(1, x)
  BY <1>1 DEF MoveAt, ApprovedAt
<1>4. \A d \in Decisions : HasRetry(d) => HasRetry(d)' /\ ledger'[d].conflict = ledger[d].conflict
  BY <1>1 DEF HasRetry
<1> QED
  BY <1>1, <1>2, <1>3, <1>4, WorkDelivered

\* What else is delivered has nothing to do with the conflict, unless it is its move, or the
\* tick that makes the watcher clear everything.
LEMMA WorkHandled ==
    ASSUME TypeOK, TypeOK', NEW b, NEW M, Worked(b, M),
           \/ IgnoreResolution
           \/ \E offered \in SUBSET Options : Recompute(offered)
           \/ TwinHandlesPlan /\ Head(ready).option \notin M
           \/ WatchReset /\ ~ Rewound
    PROVE  Worked(b, M)'
<1>1. ASSUME ready # <<>>, ready' = Tail(ready), UNCHANGED <<pending, evaluating>>,
             choosing \subseteq choosing', Head(ready).topic # "decision.proposed",
             \A d \in Decisions : HasRetry(d) => HasRetry(d)' /\ ledger'[d].conflict = ledger[d].conflict,
             \A x \in Options : MoveAt(1, x) => x \notin M
      PROVE  Worked(b, M)'
  <2>1. \A d \in Decisions : ~ ProposedAt(1, d)
    BY <1>1, TailAt DEF ProposedAt
  <2> QED
    BY <1>1, <2>1, WorkDelivered
<1>2. CASE IgnoreResolution
  <2>1. /\ ready # <<>> /\ ready' = Tail(ready) /\ evaluating' = evaluating
        /\ UNCHANGED <<ledger, pending, choosing>>
        /\ Head(ready) = ready[1] /\ ready[1].topic = "decision.resolved"
        /\ ready[1].status = "approved" => pending[ready[1].dec] = NoOption
    BY <1>2, TailAt DEF IgnoreResolution, Resolution
  <2>2. \A x \in Options : ~ MoveAt(1, x)
    BY <2>1 DEF MoveAt, ApprovedAt
  <2>3. \A d \in Decisions : HasRetry(d) => HasRetry(d)' /\ ledger'[d].conflict = ledger[d].conflict
    BY <2>1 DEF HasRetry
  <2> QED
    BY <1>1, <2>1, <2>2, <2>3
<1>3. ASSUME NEW offered \in SUBSET Options, Recompute(offered) PROVE Worked(b, M)'
  <2>1. /\ ready # <<>> /\ ready' = Tail(ready) /\ UNCHANGED <<pending, evaluating>>
        /\ choosing \subseteq choosing'
        /\ Head(ready) = ready[1] /\ ready[1].topic = "decision.resolved"
        /\ ready[1].status = "rejected"
    BY <1>3, TailAt DEF Recompute, Resolution, OpenFlow
  <2>2. \A x \in Options : ~ MoveAt(1, x)
    BY <2>1 DEF MoveAt, ApprovedAt
  <2>3. ASSUME NEW d \in Decisions, HasRetry(d)
        PROVE  HasRetry(d)' /\ ledger'[d].conflict = ledger[d].conflict
    BY <1>3, <2>3, RecomputedRecords
  <2> QED
    BY <1>1, <2>1, <2>2, <2>3
<1>4. CASE TwinHandlesPlan /\ Head(ready).option \notin M
  <2>1. /\ ready # <<>> /\ ready' = Tail(ready) /\ evaluating' = evaluating
        /\ Head(ready) = ready[1] /\ ready[1].topic = "plan.executed"
        /\ UNCHANGED <<ledger, pending, choosing>>
    BY <1>4, TailAt DEF TwinHandlesPlan
  <2>2. \A x \in Options : MoveAt(1, x) => x \notin M
    BY <1>4, <2>1 DEF MoveAt, ApprovedAt
  <2>3. \A d \in Decisions : HasRetry(d) => HasRetry(d)' /\ ledger'[d].conflict = ledger[d].conflict
    BY <2>1 DEF HasRetry
  <2> QED
    BY <1>1, <2>1, <2>2, <2>3
<1>5. CASE WatchReset /\ ~ Rewound
  <2>1. /\ ready # <<>> /\ ready' = Tail(ready) /\ Head(ready) = ready[1]
        /\ ready[1].topic = "sim.tick"
        /\ UNCHANGED <<ledger, pending, choosing, evaluating>>
    BY <1>5, TailAt DEF WatchReset
  <2>2. \A x \in Options : ~ MoveAt(1, x)
    BY <2>1 DEF MoveAt, ApprovedAt
  <2>3. \A d \in Decisions : HasRetry(d) => HasRetry(d)' /\ ledger'[d].conflict = ledger[d].conflict
    BY <2>1 DEF HasRetry
  <2> QED
    BY <1>1, <2>1, <2>2, <2>3
<1> QED
  BY <1>2, <1>3, <1>4, <1>5
============================================================================
