------------------------- MODULE PlatformFlow_proofs -------------------------
(***************************************************************************)
(* Proofs about PlatformFlow for every timetable, every number of trains   *)
(* and platforms and all bounds: it is a DecisionFlow, so that what is     *)
(* proved of that holds of it too, every delay is taken up, the rule keeps *)
(* premium trains where they are, and until the operator overrules a       *)
(* refusal every move is feasible and every conflict taken up is settled.  *)
(***************************************************************************)
EXTENDS PlatformFlow, DecisionFlow_proofs

PNext == Cascade \/ PTick \/ Environment

\* The bursts are some of the behaviours.
LEMMA BurstsAreSteps == BurstSpec => PSpec
BY PTL DEF BurstSpec, PSpec
-----------------------------------------------------------------------------
(* Types. *)

\* The board has a first entry: conflicts[0] is one of the conflicts.
LEMMA FirstOfIsOne ==
    ASSUME PTypeOK, NEW us, us \subseteq Trains, us # {}
    PROVE  FirstOf(us) \in us
<1> DEFINE start(u) == Occupied(u).start
           offset(u) == start(u) + Boarding
<1>1. \A u \in Trains : start(u) \in Int /\ offset(u) \in Nat
  <2> TAKE u \in Trains
  <2>1. /\ delay[u] \in Nat /\ Arrives[u] \in Nat \cup {Absent} /\ Departs[u] \in Nat \cup {Absent}
        /\ Arrives[u] # Absent \/ Departs[u] # Absent
        /\ Boarding \in Nat /\ Absent \in Int
    BY PlatformAssumption DEF PTypeOK, Times, Absent
  <2>2. start(u) = IF Arrives[u] = Absent THEN Departs[u] + delay[u] - Boarding
                   ELSE Arrives[u] + delay[u]
    BY DEF Occupied
  <2> QED
    BY <2>1, <2>2
<1> HIDE DEF start
<1>2. PICK v \in us : \A w \in us : offset(v) <= offset(w)
  <2>1. PICK m \in {offset(u) : u \in us} : \A x \in {offset(u) : u \in us} : m <= x
    BY <1>1, SmallestOf
  <2> QED
    BY <2>1
<1>3. \A w \in us : start(v) <= start(w)
  BY <1>1, <1>2, PlatformAssumption
<1>4. PICK u \in {w \in us : start(w) = start(v)} : \A w \in us : start(w) = start(v) => u <= w
  <2>1. {w \in us : start(w) = start(v)} \in SUBSET Nat
    BY PlatformAssumption
  <2> QED
    BY <2>1, SmallestOf
<1>5. \A w \in us : start(u) < start(w) \/ (start(u) = start(w) /\ u <= w)
  BY <1>1, <1>3, <1>4
<1> QED
  BY <1>4, <1>5 DEF FirstOf, start

\* A flow offers options only.
LEMMA OfferedOptions == \A c, x : Offered(c, x) \in SUBSET Options
BY DEF Offered

\* Every action of the composition is one of the protocol, or leaves it alone.
LEMMA StepsOfFlow == ASSUME PTypeOK, [PNext]_pvars PROVE [Next]_vars
<1>1. ASSUME NEW a \in alerts, OnDelay(a) PROVE [Next]_vars
  <2> DEFINE c == <<a.train, FirstOf(ConflictsWith(a))>>
  <2>1. CASE UNCHANGED vars
    BY <2>1
  <2>2. CASE ConflictsWith(a) # {} /\ StartFlow(c, Offered(c, {}))
    <3>1. ConflictsWith(a) \subseteq Trains /\ a.train \in Trains
      BY DEF ConflictsWith, PTypeOK
    <3>2. c \in Conflicts
      BY <2>2, <3>1, FirstOfIsOne, PlatformAssumption
    <3> QED
      BY <2>2, <3>2, OfferedOptions DEF Next
  <2> QED
    BY <1>1, <2>1, <2>2 DEF OnDelay
<1>2. ASSUME NEW f \in choosing, PPropose(f) PROVE Next
  BY <1>2 DEF PPropose, Propose, Next, ChooseFor
<1>3. ASSUME NEW d \in Decisions, PEndEvaluation(d) PROVE Next
  BY <1>3 DEF PEndEvaluation, Next
<1>4. CASE BeginEvaluation \/ CarryOut \/ IgnoreResolution \/ CancelledTick
  BY <1>4 DEF Next, Deliver
<1>5. CASE PRecompute
  BY <1>5, OfferedOptions DEF PRecompute, Next, Deliver
<1>6. CASE ApplyPlan \/ PWatchReset
  BY <1>6 DEF ApplyPlan, PWatchReset, Next, Deliver
<1>7. CASE PTick \/ PReset \/ Pause
  BY <1>7 DEF PTick, PReset, Next
<1>8. ASSUME NEW d \in Decisions, NEW s \in {"approved", "rejected"}, PHuman(d, s) PROVE Next
  BY <1>8 DEF PHuman, Next
<1>9. CASE \/ UNCHANGED pvars
           \/ \E t \in Trains, m \in DelaySteps : InjectDelay(t, m)
           \/ \E p \in Platforms : InjectBlock(p)
  BY <1>9 DEF pvars, InjectDelay, InjectBlock
<1> QED
  BY <1>1, <1>2, <1>3, <1>4, <1>5, <1>6, <1>7, <1>8, <1>9 DEF PNext, Cascade, Environment

\* Every step keeps the types.
LEMMA PTypesStep == ASSUME PTypeOK, [PNext]_pvars PROVE PTypeOK'
<1> USE PlatformAssumption
<1>0. TypeOK'
  BY StepsOfFlow, TypeStep DEF PTypeOK
<1>1. CASE UNCHANGED twin
  BY <1>0, <1>1 DEF PTypeOK, twin
<1>2. ASSUME NEW t \in Trains, NEW m \in DelaySteps, InjectDelay(t, m) PROVE PTypeOK'
  <2>0. m \in Nat /\ delay \in [Trains -> Nat]
    BY DEF PTypeOK
  <2>1. delay' \in [Trains -> Nat] /\ delay'[t] \in Nat
    <3>1. delay[t] + m \in Nat
      BY <2>0
    <3> QED
      BY <1>2, <2>0, <3>1 DEF InjectDelay
  <2>2. handled' \in [Trains -> Times]
    BY <1>2, <2>1 DEF PTypeOK, InjectDelay, Times
  <2>3. alerts' \subseteq [train : Trains, delay : Nat]
    BY <1>2, <2>1 DEF PTypeOK, InjectDelay
  <2>4. announced' \subseteq Trains
    BY <1>2 DEF PTypeOK, InjectDelay
  <2>6. scenarios' \in Nat
    BY <1>2 DEF PTypeOK, InjectDelay, Scenario
  <2>5. detected' \subseteq Conflicts
    BY <1>2 DEF InjectDelay
  <2> QED
    BY <1>0, <1>2, <2>1, <2>2, <2>3, <2>4, <2>5, <2>6 DEF PTypeOK, InjectDelay
<1>3. ASSUME NEW p \in Platforms, InjectBlock(p) PROVE PTypeOK'
  <2>1. clock \in Nat /\ clock + BlockLength \in Nat
    BY DEF PTypeOK, TypeOK
  <2>2. blocks' \subseteq [platform : Platforms, start : Nat, end : Nat]
    BY <1>3, <2>1 DEF PTypeOK, InjectBlock
  <2>3. scenarios' \in Nat /\ detected' \subseteq Conflicts
    BY <1>3 DEF PTypeOK, InjectBlock, Scenario
  <2> QED
    BY <1>0, <1>3, <2>2, <2>3 DEF PTypeOK, InjectBlock
<1>4. ASSUME NEW a \in alerts, OnDelay(a) PROVE PTypeOK'
  <2> DEFINE c == <<a.train, FirstOf(ConflictsWith(a))>>
  <2>1. a.train \in Trains /\ a.delay \in Times /\ clock \in Times
    BY DEF PTypeOK, TypeOK, Times
  <2>2. \/ detected' = detected
        \/ ConflictsWith(a) # {} /\ detected' = detected \cup {c}
    <3>1. CASE Suppressed(a) \/ a.train \in passed \/ ConflictsWith(a) = {}
      BY <1>4, <3>1 DEF OnDelay
    <3>2. CASE ~ (Suppressed(a) \/ a.train \in passed \/ ConflictsWith(a) = {})
      BY <1>4, <3>2 DEF OnDelay
    <3> QED
      BY <3>1, <3>2
  <2>3. detected' \subseteq Conflicts
    <3>1. CASE ConflictsWith(a) # {}
      <4>1. ConflictsWith(a) \subseteq Trains
        BY DEF ConflictsWith
      <4>2. c \in Conflicts
        BY <2>1, <3>1, <4>1, FirstOfIsOne
      <4> QED
        BY <2>2, <4>2 DEF PTypeOK
    <3>2. CASE ConflictsWith(a) = {}
      BY <2>2, <3>2 DEF PTypeOK
    <3> QED
      BY <3>1, <3>2
  <2>4. seen' \in [Trains -> [delay : Times, time : Times]]
    BY <1>4, <2>1 DEF PTypeOK, OnDelay
  <2> QED
    BY <1>0, <1>4, <2>3, <2>4 DEF PTypeOK, OnDelay
<1>5. ASSUME NEW d \in Decisions, PEndEvaluation(d) PROVE PTypeOK'
  <2>1. Takes(d) \subseteq Platforms /\ TakesLapsed(d) \subseteq Platforms
    BY DEF Takes, TakesLapsed
  <2>2. given' \subseteq Platforms /\ lapsed' \subseteq Platforms /\ detected' \subseteq Conflicts
    BY <1>5, <2>1 DEF PTypeOK, PEndEvaluation
  <2> QED
    BY <1>0, <1>5, <2>2 DEF PTypeOK, PEndEvaluation
<1>6. CASE ApplyPlan
  <2>1. Head(ready).option \in Options
    <3>1. Head(ready) \in Events /\ Head(ready).topic = "plan.executed"
      BY <1>6, HeadTypes DEF ApplyPlan, TwinHandlesPlan, PTypeOK
    <3> QED
      BY <3>1 DEF Events
  <2>2. PICK u \in Trains, p \in Platforms : /\ Head(ready).option[1] = u
                                           /\ Head(ready).option[2] = p
    BY <2>1
  <2>3. platform' = [platform EXCEPT ![u] = p] /\ platform \in [Trains -> Platforms]
    BY <1>6, <2>2 DEF PTypeOK, ApplyPlan, NewPlatform
  <2>4. platform' \in [Trains -> Platforms]
    BY <2>2, <2>3
  <2>5. vacated' \subseteq Platforms
    <3>1. \A v \in Trains : platform[v] \in Platforms
      BY <2>3
    <3>2. vacated' = vacated \cup {platform[v] : v \in {w \in Trains : platform'[w] # platform[w]}}
      BY <1>6 DEF ApplyPlan
    <3> QED
      BY <3>1, <3>2 DEF PTypeOK
  <2>6. UNCHANGED <<delay, blocks, passed, handled, alerts, seen, scenarios, detected, announced,
                    unnoticed, given, lapsed, overruled>>
    BY <1>6 DEF ApplyPlan
  <2> QED
    BY <1>0, <2>4, <2>5, <2>6 DEF PTypeOK
<1>7. CASE PTick
  BY <1>0, <1>7 DEF PTypeOK, PTick
<1>8. CASE PReset
  <2>1. unnoticed' \in BOOLEAN
    BY <1>8 DEF PReset
  <2>3. overruled' \in BOOLEAN
    BY <1>8, Zenon DEF PReset
  <2>2. delay' \in [Trains -> Nat] /\ platform' \in [Trains -> Platforms]
    BY <1>8 DEF PReset
  <2> QED
    BY <1>0, <1>8, <2>1, <2>2, <2>3 DEF PTypeOK, PReset
<1>9. CASE PWatchReset
  BY <1>0, <1>9 DEF PTypeOK, PWatchReset, NotSeen, Times, HandledAfterReset
<1>10. ASSUME NEW d \in Decisions, NEW s \in {"approved", "rejected"}, PHuman(d, s) PROVE PTypeOK'
  BY <1>0, <1>10 DEF PTypeOK, PHuman
<1> QED
  BY <1>1, <1>2, <1>3, <1>4, <1>5, <1>6, <1>7, <1>8, <1>9, <1>10
     DEF PNext, pvars, Cascade, Environment, PPropose, PRecompute

\* The types hold initially.
LEMMA PTypesInit == PInit => PTypeOK
<1> SUFFICES ASSUME PInit PROVE PTypeOK
  OBVIOUS
<1>1. TypeOK
  BY TypeInit DEF PInit
<1>2. seen \in [Trains -> [delay : Times, time : Times]] /\ handled \in [Trains -> Times]
  BY DEF PInit, NotSeen, Times
<1>3. delay \in [Trains -> Nat] /\ platform \in [Trains -> Platforms]
  BY PlatformAssumption DEF PInit
<1> QED
  BY <1>1, <1>2, <1>3 DEF PInit, PTypeOK

\* The tables of the twin, the agents and the flow keep their types.
THEOREM PlatformTypes == PSpec => []PTypeOK
<1>1. PTypeOK /\ [PNext]_pvars => PTypeOK'
  BY PTypesStep
<1> QED
  BY <1>1, PTypesInit, PTL DEF PSpec, PNext

\* The composition is a decision flow: the station agent, the twin and the scenarios
\* only ever do what the protocol allows, so that its theorems hold here.
THEOREM PlatformIsFlow == PSpec => Spec
<1>1. PInit => Init
  BY DEF PInit
<1>2. PTypeOK /\ [PNext]_pvars => [Next]_vars
  BY StepsOfFlow
<1> QED
  BY <1>1, <1>2, PlatformTypes, PTL DEF PSpec, PNext, Spec
-----------------------------------------------------------------------------
(* The invariant of the bursts. *)

BNext == Cascade \/ PTick \/ (Quiet /\ Environment)

\* The steps of a burst are some of the steps.
LEMMA BurstsStep == [BNext]_pvars => [PNext]_pvars
BY DEF BNext, PNext

\* A cascade of the composed system is one of the flow, or leaves it alone.
LEMMA CascadesOfFlow ==
    ASSUME PTypeOK, Cascade \/ PTick \/ UNCHANGED pvars PROVE Cascading \/ Tick \/ UNCHANGED vars
<1>1. ASSUME NEW a \in alerts, OnDelay(a) PROVE [Cascading]_vars
  <2> DEFINE c == <<a.train, FirstOf(ConflictsWith(a))>>
  <2>1. CASE UNCHANGED vars
    BY <2>1
  <2>2. CASE ConflictsWith(a) # {} /\ StartFlow(c, Offered(c, {}))
    <3>1. ConflictsWith(a) \subseteq Trains /\ a.train \in Trains
      BY DEF ConflictsWith, PTypeOK
    <3>2. c \in Conflicts
      BY <2>2, <3>1, FirstOfIsOne, PlatformAssumption
    <3> QED
      BY <2>2, <3>2, OfferedOptions DEF Cascading
  <2> QED
    BY <1>1, <2>1, <2>2 DEF OnDelay
<1>2. ASSUME NEW f \in choosing, PPropose(f) PROVE Cascading
  BY <1>2 DEF PPropose, Propose, Cascading, ChooseFor
<1>3. ASSUME NEW d \in Decisions, PEndEvaluation(d) PROVE Cascading
  BY <1>3 DEF PEndEvaluation, Cascading
<1>4. CASE BeginEvaluation \/ CarryOut \/ IgnoreResolution \/ CancelledTick
  BY <1>4 DEF Cascading, Deliver
<1>5. CASE PRecompute
  BY <1>5, OfferedOptions DEF PRecompute, Cascading, Deliver
<1>6. CASE ApplyPlan \/ PWatchReset
  BY <1>6 DEF ApplyPlan, PWatchReset, Cascading, Deliver
<1>7. CASE PTick \/ UNCHANGED pvars
  BY <1>7 DEF PTick, pvars
<1> QED
  BY <1>1, <1>2, <1>3, <1>4, <1>5, <1>6, <1>7 DEF Cascade

\* A disturbance of the composed system is one of the flow, or a scenario.
LEMMA DisturbancesOfFlow ==
    ASSUME Environment
    PROVE  \/ Disturbing
           \/ UNCHANGED vars /\ given' = {} /\ detected' = {} /\ UNCHANGED unnoticed
BY DEF Environment, InjectDelay, InjectBlock, PHuman, PReset, Disturbing

\* A burst of the composed system is one of the flow, or leaves it alone.
LEMMA BurstsOfFlow == ASSUME PTypeOK, [BNext]_pvars PROVE [InBursts]_vars
BY CascadesOfFlow, DisturbancesOfFlow DEF BNext, InBursts

\* Until the watcher has seen a reset the twin is as seeded.
ResetSeen == Unseen => platform = Home /\ \A t \in Trains : delay[t] = 0

\* What the train agent has taken up was announced in this run, or a tick that shows the
\* reset is about to clear it.
HandledAnnounced ==
    unnoticed \/ Unseen \/ \A t \in Trains : handled[t] # Absent => t \in announced

DelaysInv == OutsideFirst /\ ResetSeen /\ HandledAnnounced /\ DelaysTakenUp

\* Nothing but the watcher touches what a delay or a reset left behind.
LEMMA CascadeUnseen ==
    ASSUME PTypeOK, PTypeOK', OutsideFirst, Cascade \/ PTick \/ UNCHANGED pvars
    PROVE  /\ OutsideFirst' /\ UNCHANGED <<delay, unnoticed, announced>>
           /\ (HeadIn(Outside)' => HeadIn(Outside)) /\ (Unseen' => Unseen)
           /\ Unseen => platform' = platform
           /\ \/ PWatchReset /\ ~Unseen' /\ (Rewound => Unseen)
              \/ ~PWatchReset /\ handled' = handled /\ (Unseen => Unseen')
<1> USE DEF PTypeOK
<1>1. Cascading \/ Tick \/ UNCHANGED vars
  BY CascadesOfFlow
<1>2. OutsideFirst'
  BY <1>1, OutsideStep DEF InBursts
<1>3. UNCHANGED <<delay, unnoticed, announced>> /\ (~PWatchReset => handled' = handled)
  BY DEF Cascade, OnDelay, PPropose, PEndEvaluation, PRecompute, ApplyPlan, PWatchReset, PTick,
         pvars, twin
<1>4. Unseen => platform' = platform
  <2>1. Unseen => ~ApplyPlan
    BY DEF Unseen, RequestAhead, ApplyPlan, TwinHandlesPlan
  <2>2. ~ApplyPlan => platform' = platform
    BY DEF Cascade, OnDelay, PPropose, PEndEvaluation, PRecompute, PWatchReset, PTick, pvars, twin
  <2> QED
    BY <2>1, <2>2
<1>5. CASE PWatchReset
  <2>1. WatchReset
    BY <1>5 DEF PWatchReset
  <2>2. ~Unseen' /\ (Rewound => Unseen)
    BY <1>1, <2>1, UnseenKept DEF Unseen, RequestAhead
  <2> QED
    BY <1>1, <1>2, <1>3, <1>4, <1>5, <2>2, UnseenKept
<1>6. CASE ~PWatchReset
  <2>1. ASSUME Unseen, WatchReset PROVE FALSE
    <3>1. /\ ready # <<>> /\ ready' # ready /\ UNCHANGED <<counter, evaluating, clock>>
          /\ Head(ready).topic = "sim.tick" /\ Head(ready).from # "cancelled"
      BY <2>1, DeliveryShows DEF WatchReset, CounterAfterReset
    <3>2. ASSUME NEW a \in alerts, OnDelay(a) PROVE FALSE
      BY <3>1, <3>2 DEF OnDelay, StartFlow, vars, state
    <3>3. ASSUME NEW f \in choosing, PPropose(f) PROVE FALSE
      BY <3>1, <3>3 DEF PPropose, Propose, TypeOK
    <3>4. ASSUME NEW d \in Decisions, PEndEvaluation(d) PROVE FALSE
      BY <3>1, <3>4 DEF PEndEvaluation, EndEvaluation, TypeOK
    <3>5. CASE PTick \/ UNCHANGED pvars
      BY <3>1, <3>5, FlowAssumption DEF PTick, Tick, pvars, vars, state, TypeOK
    <3>6. CASE \/ BeginEvaluation \/ CarryOut \/ IgnoreResolution \/ CancelledTick
               \/ PRecompute \/ ApplyPlan
      BY <3>1, <3>6 DEF BeginEvaluation, CarryOut, IgnoreResolution, CancelledTick, Resolution,
                        PRecompute, ApplyPlan, TwinHandlesPlan
    <3> QED
      BY <1>6, <3>2, <3>3, <3>4, <3>5, <3>6 DEF Cascade
  <2> QED
    BY <1>1, <1>2, <1>3, <1>4, <1>6, <2>1, UnseenKept
<1> QED
  BY <1>5, <1>6

\* Every step of a burst keeps the invariant of delays.
LEMMA DelaysStep == ASSUME PTypeOK, PTypeOK', DelaysInv, [BNext]_pvars PROVE DelaysInv'
<1> USE DEF DelaysInv, PTypeOK
<1>0. /\ clock \in Nat /\ lastTick \in Int /\ handled \in [Trains -> Times]
      /\ delay \in [Trains -> Nat] /\ Absent \in Int /\ Absent < 0
  BY DEF TypeOK, Times, Absent
<1>1. CASE Cascade \/ PTick \/ UNCHANGED pvars
  <2>1. OutsideFirst' /\ UNCHANGED <<delay, unnoticed, announced>>
    BY <1>1, CascadeUnseen
  <2>2. CASE PWatchReset
    <3>1. handled' = (IF Rewound THEN [t \in Trains |-> Absent] ELSE handled)
      BY <2>2 DEF PWatchReset, HandledAfterReset
    <3>2. ~Unseen' /\ (Unseen => Rewound)
      BY <1>1, <2>2, CascadeUnseen DEF Unseen, PWatchReset
    <3> QED
      BY <1>0, <2>1, <3>1, <3>2 DEF ResetSeen, HandledAnnounced, DelaysTakenUp
  <2>3. CASE ~PWatchReset
    <3>1. handled' = handled /\ (Unseen' <=> Unseen) /\ (Unseen => platform' = platform)
      BY <1>1, <2>3, CascadeUnseen
    <3> QED
      BY <2>1, <3>1 DEF ResetSeen, HandledAnnounced, DelaysTakenUp
  <2> QED
    BY <2>2, <2>3
<1>2. CASE Quiet /\ Environment
  <2>1. ~Unseen
    BY <1>2 DEF Quiet, Unseen, RequestAhead, HeadIn
  <2>2. OutsideFirst'
    BY <1>2, BurstsOfFlow, OutsideStep DEF BNext
  <2>3. Unseen' => PReset
    <3>1. UNCHANGED vars => ~Unseen'
      BY <2>1 DEF vars, state, Unseen, RequestAhead, Rewound, HeadIn
    <3>2. Disturbing /\ Unseen' => Reset
      BY <1>2, UnseenDisturbed
    <3>3. Reset => ~ \E d \in Decisions, s \in {"approved", "rejected"} : HumanResolve(d, s)
      BY DEF Reset, Halt, HumanResolve, TypeOK
    <3>4. CASE PReset
      BY <3>4
    <3>5. CASE Pause
      <4>1. lastTick <= clock
        BY <1>2, <2>1 DEF OutsideFirst, RequestAhead, HeadIn, Quiet
      <4>2. Reset /\ Unseen' => clock' = 0 /\ clock' = clock /\ lastTick > 0
        BY <1>2, <3>5, UnseenDisturbed DEF Pause, Reset, Halt, Disturbing
      <4>3. Reset /\ Unseen' => FALSE
        BY <1>0, <4>1, <4>2
      <4> QED
        BY <3>2, <3>5, <4>3 DEF Disturbing
    <3>6. CASE \E d \in Decisions, s \in {"approved", "rejected"} : PHuman(d, s)
      BY <3>2, <3>3, <3>6 DEF PHuman, Disturbing
    <3>7. CASE \/ \E t \in Trains, m \in DelaySteps : InjectDelay(t, m)
               \/ \E p \in Platforms : InjectBlock(p)
      BY <3>1, <3>7 DEF InjectDelay, InjectBlock
    <3> QED
      BY <1>2, <3>4, <3>5, <3>6, <3>7 DEF Environment
  <2>4. ResetSeen'
    BY <2>3 DEF ResetSeen, PReset
  <2>5. ASSUME NEW t \in Trains, NEW m \in DelaySteps, InjectDelay(t, m)
        PROVE  HandledAnnounced' /\ DelaysTakenUp'
    <3>1. /\ unnoticed' = unnoticed /\ delay' = [delay EXCEPT ![t] = delay[t] + m]
      BY <2>5 DEF InjectDelay
    <3>2. CASE unnoticed
      BY <3>1, <3>2 DEF HandledAnnounced, DelaysTakenUp
    <3>3. CASE ~ unnoticed /\ Significant(t, delay'[t])
      <4>1. /\ handled' = [handled EXCEPT ![t] = delay'[t]]
            /\ announced' = announced \cup {t}
        BY <2>5, <3>3 DEF InjectDelay
      <4> QED
        BY <1>0, <2>1, <3>1, <3>3, <4>1 DEF HandledAnnounced, DelaysTakenUp
    <3>4. CASE ~ unnoticed /\ ~ Significant(t, delay'[t])
      <4>1. UNCHANGED <<handled, announced>>
        BY <2>5, <3>4 DEF InjectDelay
      <4>2. delay'[t] >= Threshold => t \in announced
        BY <1>0, <2>1, <3>4 DEF Significant, HandledAnnounced
      <4> QED
        BY <1>0, <2>1, <3>1, <3>4, <4>1, <4>2 DEF HandledAnnounced, DelaysTakenUp
    <3> QED
      BY <3>2, <3>3, <3>4
  <2>6. CASE PReset
    <3>1. /\ unnoticed' = (lastTick <= 0) /\ announced' = {} /\ delay' = [t \in Trains |-> 0]
          /\ Reset
      BY <2>6 DEF PReset
    <3>2. unnoticed' \/ Unseen'
      <4>1. CASE lastTick <= 0
        BY <3>1, <4>1, Zenon
      <4>2. CASE ~ (lastTick <= 0)
        BY <1>0, <1>2, <3>1, <4>2, UnseenDisturbed DEF Disturbing
      <4> QED
        BY <4>1, <4>2
    <3>3. \A t \in Trains : ~ (delay'[t] >= Threshold)
      BY <3>1, PlatformAssumption
    <3> QED
      BY <2>2, <2>4, <3>2, <3>3, Zenon DEF HandledAnnounced, DelaysTakenUp
  <2>7. ASSUME \/ \E p \in Platforms : InjectBlock(p)
               \/ \E d \in Decisions, s \in {"approved", "rejected"} : PHuman(d, s)
               \/ Pause /\ UNCHANGED twin
        PROVE  UNCHANGED <<delay, handled, announced, unnoticed>>
    BY <2>7 DEF InjectBlock, PHuman, twin
  <2>8. CASE UNCHANGED <<delay, handled, announced, unnoticed>>
    BY <2>1, <2>2, <2>4, <2>8, Zenon DEF HandledAnnounced, DelaysTakenUp
  <2> QED
    BY <1>2, <2>2, <2>4, <2>5, <2>6, <2>7, <2>8 DEF Environment
<1> QED
  BY <1>1, <1>2 DEF BNext

\* The invariant of delays holds initially.
LEMMA DelaysInit == PInit => DelaysInv
<1> SUFFICES ASSUME PInit PROVE DelaysInv
  OBVIOUS
<1>1. OutsideFirst
  BY OutsideInit DEF PInit
<1>2. ResetSeen /\ HandledAnnounced /\ DelaysTakenUp
  BY PlatformAssumption DEF PInit, Init, ResetSeen, HandledAnnounced, DelaysTakenUp, Unseen,
                            RequestAhead, HeadIn
<1> QED
  BY <1>1, <1>2 DEF DelaysInv

\* Every delay of the threshold or more was taken up by the train agent in the run it
\* belongs to, whatever the delays of the runs before: its memory of them is gone when the
\* first delay of the new run comes.
THEOREM EveryDelayTakenUp == BurstSpec => []DelaysTakenUp
<1>1. PTypeOK /\ DelaysInv /\ [BNext]_pvars => DelaysInv'
  BY BurstsStep, PTypesStep, DelaysStep
<1>2. DelaysInv => DelaysTakenUp
  BY DEF DelaysInv
<1>3. BurstSpec => []PTypeOK
  BY BurstsAreSteps, PlatformTypes, PTL
<1> QED
  BY <1>1, <1>2, <1>3, DelaysInit, PTL DEF BurstSpec, BNext
-----------------------------------------------------------------------------
(* Moves, unless the operator approves what the orchestrator refused. *)

\* An option (a train, a platform) is free when the platform is feasible for the train.
Free(o) == o[2] \in Feasible(o[1])
FreeOptions == {o \in Options : Free(o)}

\* A flow moves one of the two trains of its conflict.
OfTheTwo(f) == \A o \in f.offered : o[1] \in {f.conflict[1], f.conflict[2]}
ChosenOfTwo ==
    /\ \A f \in choosing : OfTheTwo(f)
    /\ \A d \in Decisions :
          HasRetry(d) => ledger[d].chosen[1] \in {ledger[d].conflict[1], ledger[d].conflict[2]}

\* Moves are decided on free platforms, one per platform, or on platforms that were given away
\* again because the first commit lapsed.
MovesInv == overruled \/ PlansInv(FreeOptions, given, lapsed)

BurstInv == DelaysInv /\ DecidedOnce /\ ChosenOfTwo /\ MovesInv

\* What is feasible depends on the delays, the platforms and the blocks only.
LEMMA FeasibleKept ==
    ASSUME UNCHANGED <<delay, platform, blocks>>
    PROVE  \A t : Feasible(t)' = Feasible(t)
<1>1. \A t : Occupied(t)' = Occupied(t)
  BY DEF Occupied
<1> QED
  BY <1>1 DEF Feasible, Blocked, Overlap

\* A move keeps the other platforms as free as they were.
LEMMA MoveKeepsFree ==
    ASSUME PTypeOK, NEW o \in Options, NEW x \in Options, x[2] # o[2],
           UNCHANGED <<delay, blocks>>, platform' = [platform EXCEPT ![o[1]] = o[2]]
    PROVE  Free(x) => Free(x)'
<1>1. \A t : Occupied(t)' = Occupied(t)
  BY DEF Occupied
<1>2. \A u \in Trains : platform'[u] = x[2] => platform[u] = x[2]
  BY PlatformAssumption DEF PTypeOK
<1>3. ASSUME x[2] \in Feasible(x[1]) PROVE x[2] \in Feasible(x[1])'
  BY <1>1, <1>2, <1>3 DEF Feasible, Blocked, Overlap
<1> QED
  BY <1>3 DEF Free

\* What a flow is offered is free, and for one of the two trains.
LEMMA OffersFree ==
    ASSUME PTypeOK, [BNext]_pvars
    PROVE  \A f \in choosing' :
              \/ f.offered \subseteq FreeOptions /\ OfTheTwo(f)
              \/ \E g \in choosing : f.offered = g.offered /\ f.conflict = g.conflict
<1>1. ASSUME NEW c, NEW x, NEW y, NEW r, NEW st, OpenFlow(c, Offered(c, x), y, r, st),
             NEW f \in choosing', f \notin choosing
      PROVE  f.offered \subseteq FreeOptions /\ OfTheTwo(f)
  <2>1. f.conflict = c /\ f.offered = Offered(c, x)
    BY <1>1 DEF OpenFlow
  <2> QED
    BY <2>1 DEF Offered, OfTheTwo, FreeOptions, Free
<1>2. CASE choosing' \subseteq choosing
  BY <1>2
<1>3. ASSUME NEW a \in alerts, OnDelay(a)
      PROVE  \/ choosing' = choosing
             \/ \E c : OpenFlow(c, Offered(c, {}), {}, {}, FALSE)
  BY <1>3 DEF OnDelay, StartFlow, vars, state
<1>4. CASE PRecompute
  BY <1>1, <1>4 DEF PRecompute, Recompute
<1>5. CASE PWatchReset
  <2>1. \/ choosing' = choosing
        \/ choosing' = {[f EXCEPT !.stale = TRUE] : f \in choosing}
    BY <1>5 DEF PWatchReset, WatchReset
  <2>2. ASSUME NEW f \in choosing', NEW g \in choosing, f = [g EXCEPT !.stale = TRUE]
        PROVE  f.offered = g.offered /\ f.conflict = g.conflict
    BY <2>2 DEF PTypeOK, TypeOK, Flows
  <2> QED
    BY <2>1, <2>2
<1>6. ASSUME \/ \E f \in choosing : PPropose(f)
             \/ \E d \in Decisions : PEndEvaluation(d)
             \/ BeginEvaluation \/ CarryOut \/ IgnoreResolution \/ CancelledTick
             \/ ApplyPlan \/ PTick \/ Environment \/ UNCHANGED pvars
      PROVE  choosing' \subseteq choosing
  BY <1>6 DEF PPropose, Propose, PEndEvaluation, EndEvaluation, BeginEvaluation, CarryOut,
              IgnoreResolution, CancelledTick, ApplyPlan, TwinHandlesPlan, Environment, InjectDelay,
              InjectBlock, PHuman, HumanResolve, PTick, Tick, PReset, Reset, Pause, Halt, pvars,
              vars, state
<1> QED
  BY <1>1, <1>2, <1>3, <1>4, <1>5, <1>6 DEF BNext, Cascade

\* A decision is made of what a flow is offered.
LEMMA ChosenStep ==
    ASSUME PTypeOK, PTypeOK', [BNext]_pvars, ChosenOfTwo,
           \A d \in Decisions : RetryKept(d) \/ (d = counter + 1 /\ counter' = d)
    PROVE  ChosenOfTwo'
<1>1. \A f \in choosing' : OfTheTwo(f)
  BY OffersFree DEF ChosenOfTwo, OfTheTwo
<1>2. ASSUME NEW f \in choosing, PPropose(f), NEW d \in Decisions, HasRetry(d)',
             d = counter + 1
      PROVE  ledger'[d].chosen[1] \in {ledger'[d].conflict[1], ledger'[d].conflict[2]}
  <2>1. PICK o \in f.offered : Propose(f, o)
    BY <1>2 DEF PPropose, Propose
  <2> DEFINE rec == [conflict |-> f.conflict, chosen |-> o, excluded |-> f.excluded]
  <2>2. ledger' = [ledger EXCEPT ![d] = rec]
    BY <1>2, <2>1 DEF Propose
  <2>3. ledger'[d] = rec
    BY <2>2 DEF PTypeOK, TypeOK
  <2>4. o[1] \in {f.conflict[1], f.conflict[2]}
    BY <2>1 DEF ChosenOfTwo, OfTheTwo
  <2> QED
    BY <2>3, <2>4
<1>3. ASSUME ~ \E f \in choosing : PPropose(f) PROVE counter' = counter
  BY <1>3 DEF BNext, Cascade, Environment, OnDelay, StartFlow, PEndEvaluation, EndEvaluation,
              BeginEvaluation, CarryOut, IgnoreResolution, CancelledTick, PRecompute, Recompute,
              ApplyPlan, TwinHandlesPlan, PWatchReset, WatchReset, CounterAfterReset, InjectDelay,
              InjectBlock, PHuman, HumanResolve, PTick, Tick, PReset, Reset, Pause, Halt, pvars,
              vars, state
<1>4. counter + 1 # counter
  BY DEF PTypeOK, TypeOK
<1>5. ASSUME NEW d \in Decisions, HasRetry(d)'
      PROVE  ledger'[d].chosen[1] \in {ledger'[d].conflict[1], ledger'[d].conflict[2]}
  <2>1. CASE RetryKept(d)
    BY <1>5, <2>1 DEF RetryKept, ChosenOfTwo
  <2>2. CASE ~ RetryKept(d)
    BY <1>2, <1>3, <1>4, <1>5, <2>2
  <2> QED
    BY <2>1, <2>2
<1> QED
  BY <1>1, <1>5 DEF ChosenOfTwo

\* The operator's approval of a plan that is still pending is what `overruled' is about.
LEMMA NotOverruled ==
    ASSUME PTypeOK, [BNext]_pvars, ~ overruled', NEW d \in Decisions, HumanResolve(d, "approved")
    PROVE  pending[d] = NoOption
<1>1. requests' # requests
  BY DEF HumanResolve, PTypeOK, TypeOK
<1>2. PICK n \in Decisions, s \in {"approved", "rejected"} : PHuman(n, s)
  BY <1>1 DEF BNext, Cascade, Environment, OnDelay, StartFlow, PPropose, Propose, PEndEvaluation,
              EndEvaluation, BeginEvaluation, CarryOut, IgnoreResolution, CancelledTick, PRecompute,
              Recompute, ApplyPlan, TwinHandlesPlan, PWatchReset, WatchReset, InjectDelay,
              InjectBlock, PTick, Tick, PReset, Reset, Pause, Halt, pvars, vars, state
<1>3. n = d /\ s = "approved"
  <2>1. \A x \in Decisions, y \in {"approved", "rejected"} : ResolvedEvent(x, y, "human") \in Events
    BY DEF Events, ResolvedEvent
  <2>2. /\ ready' = Append(ready, ResolvedEvent(d, "approved", "human"))
        /\ ready' = Append(ready, ResolvedEvent(n, s, "human"))
    BY <1>2 DEF PHuman, HumanResolve, Verdict, Publish
  <2>3. ResolvedEvent(d, "approved", "human") = ResolvedEvent(n, s, "human")
    BY <2>1, <2>2, AppendAt DEF PTypeOK
  <2> QED
    BY <2>3 DEF ResolvedEvent
<1> QED
  BY <1>2, <1>3 DEF PHuman

\* Only a reset makes the system forget that the operator overruled the orchestrator.
LEMMA ForgottenByReset ==
    ASSUME [BNext]_pvars, overruled, ~ overruled' PROVE Quiet /\ PReset
BY DEF BNext, Cascade, Environment, OnDelay, PPropose, PEndEvaluation, PRecompute, ApplyPlan,
       PWatchReset, InjectDelay, InjectBlock, PHuman, PTick, pvars, twin

\* What a step gives away: an approval its platform, a second time when the commit of the
\* first has lapsed.
LEMMA GivesStep ==
    ASSUME PTypeOK, PTypeOK', OutsideFirst, [BNext]_pvars,
           NEW T, NEW U, NEW L, NEW M, T = given, U = given', L = lapsed, M = lapsed'
    PROVE  \/ Gives(T, U, L, M)
           \/ Quiet /\ UNCHANGED vars /\ U = {}
<1> USE DEF PTypeOK
<1>1. CASE Cascade \/ PTick \/ UNCHANGED pvars
  <2>1. ~ (Quiet /\ Disturbing)
    BY <1>1, CascadesOfFlow, CascadesDisturbNothing
  <2>2. ASSUME NEW d \in Decisions, PEndEvaluation(d) PROVE Gives(T, U, L, M)
    <3>1. /\ EndEvaluation(d) /\ UNCHANGED vacated
          /\ evaluating' = [evaluating EXCEPT ![d] = Absent]
          /\ IF audit'[d].status = "approved"
             THEN U = T \cup Takes(d) /\ M = L \cup (T \cap TakesLapsed(d))
             ELSE U = T /\ M = L
      BY <2>2 DEF PEndEvaluation, EndEvaluation
    <3>2. ASSUME NEW n \in Decisions, EndEvaluation(n) PROVE n = d
      <4>1. evaluating[n] # Absent /\ evaluating'[n] = Absent
        BY <3>2 DEF EndEvaluation, TypeOK
      <4> QED
        BY <3>1, <4>1 DEF TypeOK
    <3>3. CASE audit'[d].status = "approved"
      BY <3>1, <3>3 DEF Gives
    <3>4. CASE audit'[d].status # "approved"
      BY <2>1, <3>1, <3>2, <3>4 DEF Gives
    <3> QED
      BY <3>3, <3>4
  <2>3. CASE ~ \E d \in Decisions : PEndEvaluation(d)
    <3>1. U = T /\ M = L
      BY <1>1, <2>3 DEF Cascade, OnDelay, PPropose, PRecompute, ApplyPlan, PWatchReset, PTick,
                        pvars, twin
    <3>2. ASSUME NEW n \in Decisions, EndEvaluation(n) PROVE FALSE
      <4>1. evaluating[n] # Absent /\ evaluating'[n] = Absent /\ clock # Absent
        BY <3>2 DEF EndEvaluation, TypeOK, Absent
      <4>2. CASE BeginEvaluation
        BY <4>1, <4>2 DEF BeginEvaluation, TypeOK
      <4>3. CASE ~ BeginEvaluation
        BY <1>1, <2>3, <4>1, <4>3
           DEF Cascade, OnDelay, StartFlow, PPropose, Propose, CarryOut, IgnoreResolution,
               CancelledTick, PRecompute, Recompute, ApplyPlan, TwinHandlesPlan, PWatchReset,
               WatchReset, PTick, Tick, pvars, vars, state
      <4> QED
        BY <4>2, <4>3
    <3> QED
      BY <2>1, <3>1, <3>2 DEF Gives
  <2> QED
    BY <2>2, <2>3
<1>2. CASE Quiet /\ Environment
  <2>1. CASE UNCHANGED vars /\ given' = {}
    BY <1>2, <2>1
  <2>2. CASE \E d \in Decisions, s \in {"approved", "rejected"} : PHuman(d, s)
    <3>1. Disturbing /\ U = {}
      BY <2>2 DEF PHuman, Disturbing
    <3> QED
      BY <1>2, <3>1 DEF Gives
  <2>3. CASE PReset
    BY <1>2, <2>3 DEF PReset, Disturbing, Gives
  <2>4. CASE Pause /\ UNCHANGED twin
    <3>1. Disturbing /\ U = T
      BY <2>4 DEF Disturbing, twin
    <3>2. ASSUME NEW d \in Decisions, NEW s \in {"approved", "rejected"}, HumanResolve(d, s)
          PROVE  FALSE
      BY <2>4, <3>2 DEF Pause, Halt, HumanResolve, TypeOK
    <3> QED
      BY <1>2, <2>4, <3>1, <3>2 DEF Gives
  <2> QED
    BY <1>2, <2>1, <2>2, <2>3, <2>4 DEF Environment, InjectDelay, InjectBlock
<1> QED
  BY <1>1, <1>2 DEF BNext

\* What is offered, proposed or approved stays feasible, or its platform was given away.
LEMMA MovesStep ==
    ASSUME PTypeOK, PTypeOK', FlowInv, BurstInv, [BNext]_pvars,
           \A d \in Decisions : RetryKept(d) \/ (d = counter + 1 /\ counter' = d)
    PROVE  /\ MovesInv'
           /\ ApplyPlan => \/ overruled
                           \/ Head(ready).option \in FreeOptions
                           \/ Head(ready).option[2] \in lapsed
<1> USE DEF PTypeOK, BurstInv, DelaysInv
<1>0. [InBursts]_vars
  BY BurstsOfFlow
<1>1. PICK F, G, T, U, L, M : /\ F = FreeOptions /\ G = FreeOptions' /\ T = given /\ U = given'
                              /\ L = lapsed /\ M = lapsed'
  OBVIOUS
<1>2. PlansInv(G, U, M)' => PlansInv(FreeOptions, given, lapsed)'
  BY <1>1 DEF PlansInv, MayTake
<1>3. ~ overruled' => \A d \in Decisions : HumanResolve(d, "approved") => pending[d] = NoOption
  BY NotOverruled
<1>4. ASSUME overruled, ~ overruled' PROVE MovesInv'
  <2>1. Quiet /\ Disturbing /\ U = {}
    BY <1>1, <1>4, ForgottenByReset DEF PReset, Disturbing
  <2>2. PlansInv({}, {}, {})
    BY <2>1 DEF Quiet, PlansInv, Undecided, ProposedAt, MoveAt, ApprovedAt
  <2>3. PlansInv(G, U, M)'
    BY <1>3, <1>4, <2>1, <2>2, PlansDisturbed
  <2> QED
    BY <1>2, <2>3 DEF MovesInv
<1>5. ASSUME ~ overruled, ~ overruled'
      PROVE  /\ PlansInv(G, U, M)'
             /\ ApplyPlan => Head(ready).option \in F \/ Head(ready).option[2] \in L
  <2>1. PlansInv(F, T, L)
    BY <1>1, <1>5 DEF MovesInv
  <2>2. CASE Quiet /\ UNCHANGED vars /\ U = {}
    <3>1. PlansInv(G, U, M)'
      BY <2>2 DEF Quiet, vars, state, PlansInv, Undecided, ProposedAt, MoveAt, ApprovedAt
    <3>2. ~ ApplyPlan
      BY <2>2 DEF Quiet, ApplyPlan, TwinHandlesPlan
    <3> QED
      BY <3>1, <3>2
  <2>3. \A f \in choosing' : f.offered \subseteq F \/ \E g \in choosing : f.offered = g.offered
    BY <1>1, OffersFree
  <2>4. CASE Gives(T, U, L, M) /\ ~ (Quiet /\ UNCHANGED vars /\ U = {})
    <3>1. ASSUME ApplyPlan
          PROVE  /\ TwinHandlesPlan
                 /\ \A x \in F : x \in Options /\ ResourceOf[x] # ResourceOf[Head(ready).option] => x \in G
      <4>1. /\ TwinHandlesPlan /\ UNCHANGED <<delay, blocks>>
            /\ platform' = [platform EXCEPT ![Head(ready).option[1]] = Head(ready).option[2]]
        BY <3>1 DEF ApplyPlan, NewPlatform
      <4>2. PICK o \in Options : o = Head(ready).option
        <5>1. Head(ready) \in Events
          BY <4>1, HeadTypes DEF TwinHandlesPlan
        <5> QED
          BY <4>1, <5>1 DEF Events, TwinHandlesPlan
      <4>3. ASSUME NEW x \in F, x \in Options, ResourceOf[x] # ResourceOf[o] PROVE x \in G
        <5>1. x[2] # o[2] /\ Free(x)
          BY <1>1, <4>3, PlatformAssumption DEF FreeOptions
        <5>2. Free(x)'
          BY <4>1, <4>2, <4>3, <5>1, MoveKeepsFree
        <5> QED
          BY <1>1, <4>3, <5>2 DEF FreeOptions
      <4> QED
        BY <4>1, <4>2, <4>3
    <3>2. (Quiet /\ Disturbing) \/ F \subseteq G \/ ApplyPlan
      <4>1. CASE Quiet /\ Environment
        BY <1>1, <2>4, <4>1, DisturbancesOfFlow
      <4>2. CASE ((Cascade \/ PTick) /\ ~ ApplyPlan) \/ UNCHANGED pvars
        <5>1. UNCHANGED <<delay, platform, blocks>>
          BY <4>2 DEF Cascade, OnDelay, PPropose, PEndEvaluation, PRecompute, PWatchReset, PTick,
                      pvars, twin
        <5>2. \A o : Free(o)' <=> Free(o)
          BY <5>1, FeasibleKept DEF Free
        <5> QED
          BY <1>1, <5>2 DEF FreeOptions
      <4> QED
        BY <4>1, <4>2 DEF BNext
    <3>3. /\ PlansInv(G, U, M)'
          /\ TwinHandlesPlan => \/ Head(ready).option \in Options /\ Head(ready).option \in F
                                \/ /\ Head(ready).option \in Options
                                   /\ ResourceOf[Head(ready).option] \in L
      BY <1>0, <1>3, <1>5, <2>1, <2>3, <2>4, <3>1, <3>2, PlansStep
    <3> QED
      BY <3>1, <3>3, PlatformAssumption
  <2> QED
    BY <1>1, <2>2, <2>4, GivesStep
<1>6. ASSUME ~ overruled PROVE ApplyPlan => ~ overruled'
  BY <1>6 DEF ApplyPlan
<1> QED
  BY <1>1, <1>2, <1>4, <1>5, <1>6 DEF MovesInv

\* Every step of a burst keeps the whole invariant.
LEMMA BurstStep ==
    ASSUME PTypeOK, FlowInv, BurstInv, [BNext]_pvars
    PROVE  /\ BurstInv'
           /\ ApplyPlan => \/ overruled
                           \/ Head(ready).option \in FreeOptions
                           \/ Head(ready).option[2] \in lapsed
<1> USE DEF BurstInv
<1>1. PTypeOK' /\ TypeOK /\ TypeOK'
  BY BurstsStep, PTypesStep DEF PTypeOK
<1>2. [InBursts]_vars
  BY BurstsOfFlow
<1>3. DecidedOnce' /\ \A d \in Decisions : RetryKept(d) \/ (d = counter + 1 /\ counter' = d)
  BY <1>1, <1>2, DecidedStep DEF DelaysInv
<1> QED
  BY <1>1, <1>3, ChosenStep, MovesStep, DelaysStep

\* The invariant holds initially.
LEMMA BurstInit == PInit => BurstInv
<1> SUFFICES ASSUME PInit PROVE BurstInv
  OBVIOUS
<1>1. /\ ready = <<>> /\ choosing = {} /\ Init
      /\ \A d \in Decisions : evaluating[d] = Absent /\ ledger[d] = NoRecord /\ pending[d] = NoOption
  BY DEF PInit, Init
<1>2. DecidedOnce /\ ChosenOfTwo
  BY <1>1 DEF DecidedOnce, ChosenOfTwo, HasRetry, Undecided, ProposedAt
<1>3. PlansInv(FreeOptions, given, lapsed)
  BY <1>1 DEF PInit, PlansInv, Undecided, ProposedAt, MoveAt, ApprovedAt, Freeing, HeadIn
<1> QED
  BY <1>1, <1>2, <1>3, DelaysInit, OutsideInit DEF BurstInv, MovesInv

\* The inductive invariant of bursts: types, decisions at one place each, what comes from
\* outside goes first, and nothing offered, proposed or approved that is not feasible or kept
\* out by a commit, until the operator overrules a refusal or a commit lapses, while the
\* clock goes on as it likes.
THEOREM BurstInvariant == BurstSpec => [](PTypeOK /\ FlowInv /\ BurstInv)
<1>1. PTypeOK /\ FlowInv /\ BurstInv /\ [BNext]_pvars => BurstInv'
  BY BurstStep
<1>2. BurstSpec => []PTypeOK /\ []FlowInv
  BY BurstsAreSteps, PlatformTypes, PlatformIsFlow, FlowInvariant, PTL
<1> QED
  BY <1>1, <1>2, BurstInit, PTL DEF BurstSpec, BNext

\* Only a plan moves a train while the queue gets shorter.
LEMMA MovedByPlan ==
    ASSUME [BNext]_pvars, NEW t \in Trains, Moved(t)
    PROVE  ApplyPlan
<1>1. CASE Quiet /\ PReset
  <2>1. ready = <<>>
    BY <1>1 DEF Quiet
  <2>2. [i \in 1 .. Len(ready) |-> CancelTick(ready[i])] = <<>>
    BY <2>1
  <2>3. ready' = Append(<<>>, TickEvent(0, "request"))
    BY <1>1, <2>2 DEF PReset, Reset, Halt
  <2>4. Len(ready') = 1 /\ Len(ready) = 0
    BY <2>1, <2>3
  <2> QED
    BY <2>4 DEF Moved
<1>2. platform' # platform
  BY DEF Moved
<1>3. CASE Cascade
  BY <1>2, <1>3 DEF Cascade, OnDelay, PPropose, PEndEvaluation, PRecompute, PWatchReset, twin
<1>4. CASE PTick \/ (Environment /\ ~ PReset)
  BY <1>2, <1>4 DEF Environment, InjectDelay, InjectBlock, PHuman, PTick, twin
<1> QED
  BY <1>1, <1>2, <1>3, <1>4 DEF BNext, pvars, twin

\* Every move the twin applies is onto a platform that is feasible at that moment, unless the
\* operator approved a plan that the orchestrator refused, or the platform was given away
\* again after its first commit had lapsed: for any timetable, any delays, blocks and choices
\* of the LLM, any number of flows side by side, however far the clock goes on meanwhile and
\* whatever the operator rejects and approves, as long as scenarios, pauses, resets and his
\* verdicts wait for the cascade.
THEOREM FeasibleMoves == BurstSpec => MovesAreFeasible
<1>1. ASSUME PTypeOK, FlowInv, BurstInv, [BNext]_pvars
      PROVE  \A t \in Trains :
                Moved(t) => overruled \/ platform'[t] \in lapsed \/ platform'[t] \in Feasible(t)
  <2> SUFFICES ASSUME NEW t \in Trains, Moved(t), ~ overruled, platform'[t] \notin lapsed
               PROVE  platform'[t] \in Feasible(t)
    OBVIOUS
  <2>1. ApplyPlan
    BY <1>1, MovedByPlan
  <2>2. /\ Head(ready).option \in Options
        /\ platform' = [platform EXCEPT ![Head(ready).option[1]] = Head(ready).option[2]]
    <3>1. Head(ready) \in Events /\ Head(ready).topic = "plan.executed"
      BY <1>1, <2>1, HeadTypes DEF PTypeOK, ApplyPlan, TwinHandlesPlan
    <3> QED
      BY <2>1, <3>1 DEF Events, ApplyPlan, NewPlatform
  <2>3. PICK o \in Options : o = Head(ready).option
    BY <2>2
  <2>4. platform \in [Trains -> Platforms]
    BY <1>1 DEF PTypeOK
  <2>5. t = o[1] /\ platform'[t] = o[2]
    BY <2>2, <2>3, <2>4 DEF Moved
  <2>6. o \in FreeOptions
    BY <1>1, <2>1, <2>3, <2>5, BurstStep
  <2> QED
    BY <2>5, <2>6 DEF FreeOptions, Free
<1>2. BurstSpec => [](PTypeOK /\ FlowInv /\ BurstInv)
  BY BurstInvariant
<1> QED
  BY <1>1, <1>2, PTL DEF BurstSpec, BNext, MovesAreFeasible
-----------------------------------------------------------------------------
(* Conflicts. *)

\* The seed timetable: no two trains are on a platform at the same time, on time.
SeedOccupied(t) ==
    IF Arrives[t] = Absent
    THEN [start |-> Departs[t] - Boarding, end |-> Departs[t]]
    ELSE [start |-> Arrives[t],
          end |-> IF Departs[t] # Absent THEN Departs[t] ELSE Arrives[t] + Dwell]

SeedClear ==
    \A t, u \in Trains :
        t # u /\ Home[t] = Home[u] => ~ Overlap(SeedOccupied(t), SeedOccupied(u))

\* Two trains clash or not as long as neither delays nor platforms change.
LEMMA ClashKept ==
    ASSUME UNCHANGED <<delay, platform>> PROVE \A t, u : Clash(t, u)' <=> Clash(t, u)
<1>1. \A t : Occupied(t)' = Occupied(t)
  BY DEF Occupied
<1> QED
  BY <1>1 DEF Clash, Overlap

\* On a twin as seeded nothing clashes.
LEMMA SeededIsClear ==
    ASSUME PTypeOK, SeedClear, platform = Home, \A t \in Trains : delay[t] = 0,
           NEW t \in Trains, NEW u \in Trains, t # u
    PROVE  ~ Clash(t, u)
<1>1. ASSUME NEW v \in Trains PROVE Occupied(v) = SeedOccupied(v)
  <2>0. /\ Arrives \in [Trains -> Times] /\ Departs \in [Trains -> Times]
        /\ Boarding \in Nat /\ Dwell \in Nat
    BY PlatformAssumption
  <2>1. /\ delay[v] = 0 /\ Arrives[v] \in Int /\ Departs[v] \in Int /\ Boarding \in Int
        /\ Dwell \in Int
    BY <2>0 DEF Times, Absent
  <2> QED
    BY <2>1 DEF Occupied, SeedOccupied
<1> QED
  BY <1>1 DEF Clash, SeedClear

\* A train moved onto a feasible platform clashes with no other.
LEMMA MovedIsClear ==
    ASSUME PTypeOK, NEW o \in Options, Free(o), NEW u \in Trains, u # o[1],
           UNCHANGED delay, platform' = [platform EXCEPT ![o[1]] = o[2]]
    PROVE  ~ Clash(o[1], u)' /\ ~ Clash(u, o[1])'
<1>1. \A t : Occupied(t)' = Occupied(t)
  BY DEF Occupied
<1>2. o[1] \in Trains /\ platform'[o[1]] = o[2] /\ platform'[u] = platform[u]
  BY PlatformAssumption DEF PTypeOK
<1>3. platform[u] = o[2] => ~ Overlap(Occupied(u), Occupied(o[1]))
  BY DEF Free, Feasible
<1>4. platform[u] = o[2] => ~ Overlap(Occupied(o[1]), Occupied(u))
  BY <1>3 DEF Overlap
<1> QED
  BY <1>1, <1>2, <1>3, <1>4 DEF Clash, Overlap

\* A conflict the station agent found is gone, or somebody is at work on it, or the trains met on
\* a platform that was given away twice.
MovesOf(c) == {o \in Options : o[1] \in {c[1], c[2]}}
Settling(c) == Clash(c[1], c[2]) => platform[c[1]] \in lapsed \/ Worked(c, MovesOf(c))
ConflictsInv == overruled \/ \A c \in detected : c[1] # c[2] /\ Settling(c)

\* While the trains stay where they are it is enough that the work goes on.
LEMMA ConflictsKept ==
    ASSUME ConflictsInv, ~ overruled, UNCHANGED <<delay, platform>>, detected' \subseteq detected,
           lapsed \subseteq lapsed',
           \A c \in detected' : Worked(c, MovesOf(c)) => Worked(c, MovesOf(c))'
    PROVE  ConflictsInv'
<1> SUFFICES ASSUME NEW c \in detected' PROVE c[1] # c[2] /\ Settling(c)'
  BY DEF ConflictsInv
<1>1. Clash(c[1], c[2])' <=> Clash(c[1], c[2])
  BY ClashKept
<1> QED
  BY <1>1 DEF ConflictsInv, Settling

\* The agent opens a flow for every conflict it finds, unless it has nothing to offer.
LEMMA ConflictFound ==
    ASSUME PTypeOK, ConflictsInv, ~ overruled, NEW a \in alerts, OnDelay(a)
    PROVE  ConflictsInv'
<1> USE DEF PTypeOK
<1> DEFINE c == <<a.train, FirstOf(ConflictsWith(a))>>
<1>1. UNCHANGED <<delay, platform, lapsed, ready, evaluating, ledger, pending>>
  BY DEF OnDelay, StartFlow, vars, state
<1>2. \/ choosing' = choosing /\ detected' = detected
      \/ /\ ConflictsWith(a) # {} /\ OpenFlow(c, Offered(c, {}), {}, {}, FALSE)
         /\ detected' = IF Offered(c, {}) = {} THEN detected ELSE detected \cup {c}
  <2>1. CASE Suppressed(a) \/ a.train \in passed \/ ConflictsWith(a) = {}
    BY <2>1 DEF OnDelay, vars, state
  <2>2. CASE ~ (Suppressed(a) \/ a.train \in passed \/ ConflictsWith(a) = {})
    BY <2>2 DEF OnDelay, StartFlow
  <2> QED
    BY <2>1, <2>2
<1>3. ConflictsWith(a) # {} => c[1] # c[2]
  <2>1. ConflictsWith(a) \subseteq Trains \ {a.train}
    BY DEF ConflictsWith
  <2> QED
    BY <2>1, FirstOfIsOne
<1> HIDE DEF c
<1>4. choosing \subseteq choosing'
  BY <1>2 DEF OpenFlow
<1>5. \A k : Worked(k, MovesOf(k)) => Worked(k, MovesOf(k))'
  BY <1>1, <1>4 DEF Worked, Undecided, ProposedAt, MoveAt, ApprovedAt, HasRetry, MovesOf
<1>6. ASSUME NEW k \in detected' PROVE k[1] # k[2] /\ Settling(k)'
  <2>1. CASE k \in detected
    <3>1. Clash(k[1], k[2])' <=> Clash(k[1], k[2])
      BY <1>1, ClashKept
    <3> QED
      BY <1>1, <1>5, <2>1, <3>1 DEF ConflictsInv, Settling
  <2>2. CASE k \notin detected
    <3>1. /\ k = c /\ ConflictsWith(a) # {} /\ Offered(c, {}) # {}
          /\ OpenFlow(c, Offered(c, {}), {}, {}, FALSE)
      BY <1>2, <2>2
    <3> DEFINE f == [flow |-> flows, conflict |-> c, offered |-> Offered(c, {}),
                     excluded |-> {}, rejected |-> {}, stale |-> FALSE]
    <3>2. f \in choosing' /\ f.conflict = c
      BY <3>1 DEF OpenFlow
    <3> HIDE DEF f
    <3>3. \E g \in choosing' : g.conflict = k
      BY <3>1, <3>2
    <3> QED
      BY <1>3, <3>1, <3>3 DEF Worked, Settling
  <2> QED
    BY <2>1, <2>2
<1> QED
  BY <1>6 DEF ConflictsInv

\* A move settles the conflicts of its train, unless its platform was given away twice, and
\* leaves the others as they are.
LEMMA ConflictMoved ==
    ASSUME PTypeOK, PTypeOK', FlowInv, BurstInv, ConflictsInv, ~ overruled, [BNext]_pvars, ApplyPlan
    PROVE  ConflictsInv'
<1> USE DEF PTypeOK
<1>1. /\ ready # <<>> /\ Head(ready) = ready[1] /\ 1 \in 1 .. Len(ready)
      /\ ready[1].topic = "plan.executed" /\ TwinHandlesPlan
      /\ platform' = [platform EXCEPT ![ready[1].option[1]] = ready[1].option[2]]
      /\ UNCHANGED <<delay, detected, lapsed>>
  BY TailAt DEF ApplyPlan, TwinHandlesPlan, NewPlatform
<1>2. PICK o \in Options : o = ready[1].option
  <2>1. Head(ready) \in Events
    BY <1>1, HeadTypes
  <2> QED
    BY <1>1, <2>1 DEF Events
<1>3. Free(o) \/ o[2] \in lapsed
  BY <1>1, <1>2, BurstStep DEF FreeOptions
<1>4. ASSUME NEW c \in detected, Clash(c[1], c[2])', platform'[c[1]] \notin lapsed
      PROVE  Worked(c, MovesOf(c))'
  <2>1. c[1] \in Trains /\ c[2] \in Trains /\ c[1] # c[2]
    BY PlatformAssumption DEF ConflictsInv
  <2>2. platform'[c[1]] = platform'[c[2]] /\ o[1] \in Trains /\ platform'[o[1]] = o[2]
    BY <1>1, <1>2, <1>4, PlatformAssumption DEF Clash
  <2>3. o[1] # c[1] /\ o[1] # c[2]
    <3>1. CASE Free(o)
      BY <1>1, <1>2, <1>4, <2>1, <3>1, MovedIsClear
    <3>2. CASE o[2] \in lapsed
      BY <1>4, <2>2, <3>2
    <3> QED
      BY <1>3, <3>1, <3>2
  <2>4. platform'[c[1]] = platform[c[1]] /\ platform'[c[2]] = platform[c[2]]
    BY <1>1, <1>2, <2>1, <2>3
  <2>5. Clash(c[1], c[2])
    <3>1. \A t : Occupied(t)' = Occupied(t)
      BY <1>1 DEF Occupied
    <3> QED
      BY <1>4, <2>4, <3>1 DEF Clash, Overlap
  <2>6. PICK M : M = MovesOf(c)
    OBVIOUS
  <2>7. Worked(c, M) /\ Head(ready).option \notin M
    BY <1>1, <1>2, <1>4, <2>3, <2>4, <2>5, <2>6 DEF ConflictsInv, Settling, MovesOf
  <2>8. Worked(c, M)'
    BY <1>1, <2>7, WorkHandled
  <2> QED
    BY <2>6, <2>8 DEF MovesOf
<1> QED
  BY <1>1, <1>4 DEF ConflictsInv, Settling

\* What the watcher clears away is of the run before; on the twin as seeded nothing clashes.
LEMMA ConflictsCleared ==
    ASSUME SeedClear, PTypeOK, BurstInv, ConflictsInv, ~ overruled, PWatchReset, Rewound
    PROVE  ConflictsInv'
<1> USE DEF PTypeOK, BurstInv, DelaysInv
<1>1. UNCHANGED <<delay, platform, detected>>
  BY DEF PWatchReset
<1>2. Unseen
  BY RewoundByRequest DEF PWatchReset, Unseen
<1>3. ASSUME NEW c \in detected PROVE c[1] # c[2] /\ ~ Clash(c[1], c[2])
  <2>1. c[1] \in Trains /\ c[2] \in Trains /\ c[1] # c[2]
    BY PlatformAssumption DEF ConflictsInv
  <2> QED
    BY <1>2, <2>1, SeededIsClear DEF ResetSeen
<1>4. ASSUME NEW c \in detected' PROVE c[1] # c[2] /\ ~ Clash(c[1], c[2])'
  BY <1>1, <1>3, <1>4, ClashKept
<1> QED
  BY <1>4 DEF ConflictsInv, Settling

\* Every step keeps somebody at work on each conflict found.
LEMMA ConflictsStep ==
    ASSUME SeedClear, PTypeOK, FlowInv, BurstInv, ConflictsInv, [BNext]_pvars
    PROVE  ConflictsInv'
<1> USE DEF PTypeOK
<1>0. PTypeOK'
  BY BurstsStep, PTypesStep
<1> SUFFICES ASSUME ~ overruled' PROVE ConflictsInv'
  BY DEF ConflictsInv
<1>a. CASE overruled
  BY <1>a, ForgottenByReset DEF PReset, ConflictsInv
<1> SUFFICES ASSUME ~ overruled PROVE ConflictsInv'
  BY <1>a
<1>b. ASSUME UNCHANGED <<delay, platform>>, detected' \subseteq detected, lapsed \subseteq lapsed',
             \A c \in detected' : \A M : M = MovesOf(c) /\ Worked(c, M) => Worked(c, M)'
      PROVE  ConflictsInv'
  <2>1. ASSUME NEW c \in detected', Worked(c, MovesOf(c)) PROVE Worked(c, MovesOf(c))'
    <3>1. PICK M : M = MovesOf(c)
      OBVIOUS
    <3>2. Worked(c, M)'
      BY <1>b, <2>1, <3>1
    <3> QED
      BY <3>1, <3>2 DEF MovesOf
  <2> QED
    BY <1>b, <2>1, ConflictsKept
<1>1. CASE UNCHANGED pvars
  <2>1. UNCHANGED <<delay, platform, detected, lapsed>>
    BY <1>1 DEF pvars, twin
  <2>2. \A c, M : Worked(c, M) => Worked(c, M)'
    BY <1>1 DEF pvars, vars, state, Worked, Undecided, HasRetry, ProposedAt, MoveAt, ApprovedAt
  <2> QED
    BY <1>b, <2>1, <2>2
<1>2. CASE Quiet /\ Environment
  <2>1. \A c, M : ~ Worked(c, M)
    BY <1>2 DEF Quiet, Worked, Undecided
  <2>2. CASE \/ \E t \in Trains, m \in DelaySteps : InjectDelay(t, m)
             \/ \E p \in Platforms : InjectBlock(p)
             \/ PReset
    BY <2>2 DEF InjectDelay, InjectBlock, PReset, ConflictsInv
  <2>3. CASE \/ \E d \in Decisions, s \in {"approved", "rejected"} : PHuman(d, s)
             \/ Pause /\ UNCHANGED twin
    <3>1. UNCHANGED <<delay, platform, detected, lapsed>>
      BY <2>3 DEF PHuman, twin
    <3> QED
      BY <1>b, <2>1, <3>1
  <2> QED
    BY <1>2, <2>2, <2>3 DEF Environment
<1>3. ASSUME NEW a \in alerts, OnDelay(a) PROVE ConflictsInv'
  BY <1>3, ConflictFound
<1>4. ASSUME NEW f \in choosing, PPropose(f) PROVE ConflictsInv'
  <2>1. UNCHANGED <<delay, platform, detected, lapsed>> /\ \E o \in f.offered : Propose(f, o)
    BY <1>4 DEF PPropose, Propose, twin
  <2>2. \A c, M : Worked(c, M) => Worked(c, M)'
    BY <1>0, <2>1, WorkProposed
  <2> QED
    BY <1>b, <2>1, <2>2
<1>5. ASSUME NEW n \in Decisions, PEndEvaluation(n) PROVE ConflictsInv'
  <2>1. /\ EndEvaluation(n) /\ UNCHANGED <<delay, platform>> /\ lapsed \subseteq lapsed'
        /\ detected' \subseteq detected
        /\ audit'[n].status = "rejected" /\ ledger[n] # NoRecord => ledger[n].conflict \notin detected'
    BY <1>5 DEF PEndEvaluation
  <2>2. ASSUME NEW c \in detected', NEW M, M = MovesOf(c), Worked(c, M) PROVE Worked(c, M)'
    <3>1. HasRetry(n) /\ ledger[n].conflict = c => ledger[n].chosen \in M
      BY <2>2, RetryTyped DEF BurstInv, ChosenOfTwo, MovesOf
    <3>2. ~ (HasRetry(n) /\ ledger[n].conflict = c /\ audit'[n].status = "rejected")
      BY <2>1, <2>2 DEF HasRetry
    <3> QED
      BY <1>0, <2>1, <2>2, <3>1, <3>2, WorkDecided DEF BurstInv
  <2> QED
    BY <1>b, <2>1, <2>2
<1>6. CASE BeginEvaluation /\ UNCHANGED twin
  <2>1. \A c, M : Worked(c, M) => Worked(c, M)'
    BY <1>0, <1>6, WorkBegun DEF BurstInv
  <2> QED
    BY <1>b, <1>6, <2>1 DEF twin
<1>7. CASE CarryOut /\ UNCHANGED twin
  <2>1. \A c, M : Worked(c, M) => Worked(c, M)'
    BY <1>0, <1>7, WorkCarriedOut
  <2> QED
    BY <1>b, <1>7, <2>1 DEF twin
<1>8. CASE \/ IgnoreResolution /\ UNCHANGED twin
           \/ PRecompute
           \/ PWatchReset /\ ~ Rewound
  <2>1. UNCHANGED <<delay, platform, detected, lapsed>>
    BY <1>8 DEF twin, PRecompute, PWatchReset
  <2>2. IgnoreResolution \/ (\E offered \in SUBSET Options : Recompute(offered))
        \/ (WatchReset /\ ~ Rewound)
    BY <1>8, OfferedOptions DEF PRecompute, PWatchReset
  <2>3. \A c, M : Worked(c, M) => Worked(c, M)'
    BY <1>0, <2>2, WorkHandled
  <2> QED
    BY <1>b, <2>1, <2>3
<1>9. CASE ApplyPlan
  BY <1>0, <1>9, ConflictMoved
<1>10. CASE PWatchReset /\ Rewound
  BY <1>10, ConflictsCleared
<1>11. ~ CancelledTick
  <2>1. ready # <<>> => Head(ready) \in Queue
    BY QueueDeliver
  <2> QED
    BY <2>1 DEF CancelledTick, BurstInv, DelaysInv, OutsideFirst
<1>12. CASE PTick
  <2>1. UNCHANGED <<delay, platform, detected, lapsed>>
    BY <1>12 DEF PTick
  <2>2. \A c, M : Worked(c, M) => Worked(c, M)'
    BY <1>12, WorkTicked DEF PTick
  <2> QED
    BY <1>b, <2>1, <2>2
<1> QED
  BY <1>1, <1>2, <1>3, <1>4, <1>5, <1>6, <1>7, <1>8, <1>9, <1>10, <1>11, <1>12 DEF BNext, Cascade

\* When the cascade is at rest no conflict the station agent found is left on the twin,
\* unless it was held for the operator, the orchestrator refused the move, the operator
\* approved a plan that the orchestrator had refused, or the two trains met on a platform that
\* was given away twice: for any timetable that is free of conflicts as it is seeded, however
\* far the clock goes on meanwhile, as long as the scenarios and the verdicts wait for the
\* cascade.
THEOREM SettledConflicts ==
    ASSUME SeedClear
    PROVE  BurstSpec => []ConflictsSettled
<1>1. PInit => ConflictsInv
  BY DEF PInit, ConflictsInv
<1>2. PTypeOK /\ FlowInv /\ BurstInv /\ ConflictsInv /\ [BNext]_pvars => ConflictsInv'
  BY ConflictsStep
<1>3. ConflictsInv => ConflictsSettled
  BY DEF ConflictsInv, Settling, ConflictsSettled, AtRest, Quiet, Worked, Undecided
<1>4. BurstSpec => [](PTypeOK /\ FlowInv /\ BurstInv)
  BY BurstInvariant
<1> QED
  BY <1>1, <1>2, <1>3, <1>4, PTL DEF BurstSpec, BNext
-----------------------------------------------------------------------------
(* The rule, beside an operator. *)

\* What the flow offers are options of the two trains, and what is feasible for one of them
\* is offered, was rejected, or was emptied by a plan since.
Considered(f) ==
    \A u \in {f.conflict[1], f.conflict[2]} : \A p \in Feasible(u) :
        <<u, p>> \in f.offered \/ <<u, p>> \in f.excluded \/ p \in vacated

\* The verdict on d is still to come.
Awaiting(d) == \/ evaluating[d] # Absent
               \/ \E e \in Queue : e.topic = "decision.proposed" /\ e.dec = d

\* The event leads to the move o of decision d: an approval while its plan is pending, the plan.
LeadsTo(e, d, o) ==
    \/ e.topic = "decision.resolved" /\ e.status = "approved" /\ e.dec = d /\ pending[d] = o
    \/ e.topic = "plan.executed" /\ e.dec = d /\ e.option = o

FlowsConsider == \A f \in choosing : Considered(f) /\ OfTheTwo(f)
AwaitingKept == \A d \in Decisions : Awaiting(d) /\ ledger[d] # NoRecord => KeptByRule(ledger[d])
PendingRecorded ==
    \A d \in Decisions : pending[d] # NoOption => ledger[d] # NoRecord /\ ledger[d].chosen = pending[d]
MovesKeptByRule ==
    \A e \in Queue, d \in Decisions, o \in Options :
        LeadsTo(e, d, o) =>
            /\ ~Unseen /\ ledger[d] # NoRecord /\ ledger[d].chosen = o
            /\ audit[d].by = "human" \/ KeptByRule(ledger[d])

RuleInv == FlowsConsider /\ AwaitingKept /\ PendingRecorded /\ MovesKeptByRule

\* The rule has a choice among the options of two trains, and no option is left to a train of
\* worse priority.
LEMMA RuleChooses ==
    ASSUME NEW f, f.offered # {}, f.offered \subseteq Options, OfTheTwo(f)
    PROVE  \A x \in f.offered : Priority[x[1]] <= Priority[RuleChoice(f)[1]]
<1> DEFINE best(o) == \A x \in f.offered :
                         \/ Priority[o[1]] > Priority[x[1]]
                         \/ Priority[o[1]] = Priority[x[1]] /\ o[1] = f.conflict[2] /\ x[1] # o[1]
                         \/ o[1] = x[1] /\ o[2] <= x[2]
<1>a. /\ \A o \in f.offered : o = <<o[1], o[2]>> /\ o[1] \in Trains /\ o[2] \in Nat
      /\ Priority \in [Trains -> Nat]
  BY PlatformAssumption
<1>1. PICK t \in {o[1] : o \in f.offered} : \A x \in f.offered :
         \/ Priority[t] > Priority[x[1]]
         \/ Priority[t] = Priority[x[1]] /\ t = f.conflict[2] /\ x[1] # t
         \/ t = x[1]
  <2> DEFINE first == f.conflict[1]
             second == f.conflict[2]
             Has(u) == u \in {o[1] : o \in f.offered}
  <2>1. \A x \in f.offered : Has(x[1]) /\ (x[1] = first \/ x[1] = second)
    BY DEF OfTheTwo
  <2>2. \E u : Has(u)
    BY <2>1
  <2>3. \A u : Has(u) => Priority[u] \in Nat /\ (u = first \/ u = second)
    BY <1>a, <2>1
  <2>4. CASE Has(second) /\ (Has(first) => Priority[second] >= Priority[first])
    BY <2>1, <2>3, <2>4
  <2>5. CASE Has(first) /\ ~ (Has(second) /\ Priority[second] >= Priority[first])
    BY <2>1, <2>3, <2>5
  <2> QED
    BY <2>2, <2>3, <2>4, <2>5
<1>2. PICK p \in {o[2] : o \in {y \in f.offered : y[1] = t}} :
         \A q \in {o[2] : o \in {y \in f.offered : y[1] = t}} : p <= q
  <2> DEFINE S == {o[2] : o \in {y \in f.offered : y[1] = t}}
  <2>1. S \in SUBSET Nat /\ S # {}
    BY <1>a
  <2> HIDE DEF S
  <2>2. \E p \in S : \A q \in S : p <= q
    BY <2>1, SmallestOf
  <2> QED
    BY <2>2 DEF S
<1>3. PICK o \in f.offered : o[1] = t /\ o[2] = p
  OBVIOUS
<1>4. best(o)
  BY <1>1, <1>2, <1>3
<1>5. RuleChoice(f) \in f.offered /\ best(RuleChoice(f))
  BY <1>4 DEF RuleChoice
<1> HIDE DEF best
<1>6. PICK c \in f.offered : c = RuleChoice(f) /\ best(c)
  BY <1>5
<1> QED
  BY <1>a, <1>6 DEF best

\* A step of the cascade, or a tick, makes a platform feasible for a train only by moving another train
\* away from it.
LEMMA RoomGrows ==
    ASSUME PTypeOK, Cascade \/ PTick
    PROVE  /\ \A u : Feasible(u)' \subseteq Feasible(u) \cup vacated'
           /\ vacated \subseteq vacated'
<1>1. CASE ApplyPlan
  <2>1. /\ UNCHANGED <<delay, blocks>>
        /\ vacated' = vacated \cup {platform[t] : t \in {w \in Trains : platform'[w] # platform[w]}}
    BY <1>1 DEF ApplyPlan
  <2>2. \A t : Occupied(t)' = Occupied(t)
    BY <2>1 DEF Occupied
  <2>3. ASSUME NEW u, NEW p \in Feasible(u)', p \notin vacated' PROVE p \in Feasible(u)
    <3>1. p \in Platforms /\ ~ Blocked(p, Occupied(u))
      BY <2>1, <2>2, <2>3 DEF Feasible, Blocked
    <3>2. \A w \in Trains : platform[w] = p => platform'[w] = p
      BY <2>1, <2>3
    <3>3. \A w \in Trains \ {u} : platform'[w] = p => ~ Overlap(Occupied(w), Occupied(u))
      BY <2>2, <2>3 DEF Feasible, Overlap
    <3> QED
      BY <3>1, <3>2, <3>3 DEF Feasible
  <2> QED
    BY <2>1, <2>3
<1>2. CASE UNCHANGED <<delay, platform, blocks, vacated>>
  BY <1>2, FeasibleKept
<1>3. CASE ~ ApplyPlan
  <2>1. UNCHANGED <<delay, platform, blocks, vacated>>
    BY <1>3 DEF Cascade, OnDelay, PPropose, PEndEvaluation, PRecompute, PWatchReset, PTick, twin
  <2> QED
    BY <1>2, <2>1
<1> QED
  BY <1>1, <1>3

\* What the rule kept stays kept, also with more excluded.
LEMMA KeptStays ==
    ASSUME \A u : Feasible(u)' \subseteq Feasible(u) \cup vacated', vacated \subseteq vacated',
           NEW r, NEW s, KeptByRule(r), s.conflict = r.conflict, s.chosen = r.chosen,
           r.excluded \subseteq s.excluded
    PROVE  \A u \in {s.conflict[1], s.conflict[2]} :
              \/ Priority[u] <= Priority[s.chosen[1]]
              \/ \A p \in Feasible(u)' : <<u, p>> \in s.excluded \/ p \in vacated'
BY DEF KeptByRule, NowhereElse

\* While nothing is proposed, decided or carried out, flows open and records are dropped.
LEMMA RuleKept ==
    ASSUME RuleInv,
           \A u : Feasible(u)' \subseteq Feasible(u) \cup vacated', vacated \subseteq vacated',
           \A f \in choosing' : \/ \E g \in choosing : /\ f.conflict = g.conflict
                                                       /\ f.offered = g.offered
                                                       /\ f.excluded = g.excluded
                                \/ Considered(f)' /\ OfTheTwo(f),
           audit' = audit, \A e \in Queue' : e \in Queue \/ e.topic = "sim.tick", Unseen' => Unseen,
           \A d \in Decisions :
              /\ pending'[d] = pending[d] \/ pending'[d] = NoOption
              /\ Awaiting(d)' => Awaiting(d)
              /\ \/ /\ ledger[d] # NoRecord /\ ledger'[d] # NoRecord
                    /\ ledger'[d].conflict = ledger[d].conflict
                    /\ ledger'[d].chosen = ledger[d].chosen
                    /\ ledger[d].excluded \subseteq ledger'[d].excluded
                 \/ ledger'[d] = ledger[d]
                 \/ ledger'[d] = NoRecord /\ pending'[d] = NoOption /\ Unseen
    PROVE  RuleInv'
<1> USE DEF RuleInv
<1>1. FlowsConsider'
  <2>1. ASSUME NEW f \in choosing', NEW g \in choosing, f.conflict = g.conflict,
               f.offered = g.offered, f.excluded = g.excluded
        PROVE  Considered(f)' /\ OfTheTwo(f)
    BY <2>1 DEF FlowsConsider, Considered, OfTheTwo
  <2> QED
    BY <2>1 DEF FlowsConsider, OfTheTwo
<1>2. ASSUME NEW d \in Decisions, ledger[d] # NoRecord, ledger'[d] # NoRecord, KeptByRule(ledger[d])
      PROVE  KeptByRule(ledger[d])'
  <2>1. PICK r : r = ledger[d]
    OBVIOUS
  <2>2. PICK s : s = ledger'[d]
    OBVIOUS
  <2>3. s.conflict = r.conflict /\ s.chosen = r.chosen /\ r.excluded \subseteq s.excluded
    BY <1>2, <2>1, <2>2
  <2> QED
    BY <1>2, <2>1, <2>2, <2>3, KeptStays DEF KeptByRule, NowhereElse
<1>3. AwaitingKept'
  BY <1>2 DEF AwaitingKept
<1>4. PendingRecorded'
  BY DEF PendingRecorded
<1>5. ASSUME NEW e \in Queue', NEW d \in Decisions, NEW o \in Options, LeadsTo(e, d, o)'
      PROVE  /\ ~Unseen' /\ ledger'[d] # NoRecord /\ ledger'[d].chosen = o
             /\ audit'[d].by = "human" \/ KeptByRule(ledger[d])'
  <2>1. LeadsTo(e, d, o) /\ e \in Queue
    BY <1>5, FlowAssumption DEF LeadsTo
  <2>2. /\ ~Unseen /\ ledger[d] # NoRecord /\ ledger[d].chosen = o
        /\ audit[d].by = "human" \/ KeptByRule(ledger[d])
    BY <2>1 DEF MovesKeptByRule
  <2> QED
    BY <1>2, <2>2
<1> QED
  BY <1>1, <1>3, <1>4, <1>5 DEF MovesKeptByRule

\* Between cascades only the operator asks for a move.
LEMMA RuleQuiet ==
    ASSUME PTypeOK, PendingRecorded, Quiet, Environment
    PROVE  RuleInv'
<1> USE DEF PTypeOK
<1>1. /\ ready = <<>> /\ choosing = {} /\ Queue = {} /\ \A d \in Decisions : evaluating[d] = Absent
  BY DEF Quiet, Queue
<1>2. UNCHANGED <<choosing, evaluating, ledger, pending>>
  BY DEF Environment, InjectDelay, InjectBlock, PHuman, HumanResolve, PReset, Reset, Pause, Halt,
         vars, state
<1>3. FlowsConsider' /\ PendingRecorded'
  BY <1>1, <1>2 DEF FlowsConsider, PendingRecorded
<1>4. ASSUME NEW d \in Decisions, NEW s \in {"approved", "rejected"}, PHuman(d, s) PROVE RuleInv'
  <2> DEFINE e == ResolvedEvent(d, s, "human")
  <2>1. e \in Events /\ e.topic = "decision.resolved" /\ e.dec = d
    BY DEF Events, ResolvedEvent
  <2>2. ready' = <<e>> /\ audit' = [audit EXCEPT ![d] = [status |-> s, by |-> "human"]]
    BY <1>1, <1>4 DEF PHuman, HumanResolve, Verdict, Publish
  <2> HIDE DEF e
  <2>3. Queue' = {e} /\ ~Unseen' /\ audit'[d].by = "human"
    BY <2>1, <2>2 DEF Queue, Unseen, RequestAhead, TypeOK
  <2>4. AwaitingKept'
    BY <1>1, <1>2, <2>1, <2>3 DEF AwaitingKept, Awaiting
  <2>5. MovesKeptByRule'
    BY <1>2, <2>1, <2>3, FlowAssumption DEF MovesKeptByRule, LeadsTo, PendingRecorded
  <2> QED
    BY <1>3, <2>4, <2>5 DEF RuleInv
<1>5. CASE \A x \in Queue' : x.topic = "sim.tick"
  <2>1. AwaitingKept' /\ MovesKeptByRule'
    BY <1>1, <1>2, <1>5 DEF AwaitingKept, Awaiting, MovesKeptByRule, LeadsTo
  <2> QED
    BY <1>3, <2>1 DEF RuleInv
<1>6. CASE UNCHANGED ready
  BY <1>1, <1>5, <1>6 DEF Queue
<1>7. CASE PReset \/ Pause
  <2>1. PICK x : x.topic = "sim.tick" /\ ready' = <<x>>
    <3>1. \A t, f : TickEvent(t, f).topic = "sim.tick"
      BY DEF TickEvent
    <3>2. [i \in 1 .. Len(ready) |-> CancelTick(ready[i])] = <<>>
      BY <1>1
    <3>3. ready' = Append(<<>>, TickEvent(clock', "request"))
      BY <1>7, <3>2 DEF PReset, Reset, Pause, Halt
    <3>4. ready' = <<TickEvent(clock', "request")>>
      BY <3>3
    <3> QED
      BY <3>1, <3>4
  <2>2. Queue' = {x}
    BY <2>1 DEF Queue
  <2> QED
    BY <1>5, <2>1, <2>2
<1> QED
  BY <1>4, <1>6, <1>7 DEF Environment, InjectDelay, InjectBlock, vars, state

\* A proposal keeps to the rule: its flow had looked at everything feasible for both trains.
LEMMA RuleProposes ==
    ASSUME AgentLLM = FALSE, PTypeOK, PTypeOK', FlowInv, OutsideFirst, RuleInv,
           NEW f \in choosing, PPropose(f)
    PROVE  RuleInv'
<1> USE DEF PTypeOK, RuleInv
<1> DEFINE n == counter + 1
           o == RuleChoice(f)
           rec == [conflict |-> f.conflict, chosen |-> o, excluded |-> f.excluded]
           e == ProposedEvent(n, "proposed")
<1>a. /\ counter \in Nat /\ Decisions \subseteq Nat
      /\ ledger \in [Decisions -> Records \cup {NoRecord}]
      /\ pending \in [Decisions -> Options \cup {NoOption}]
      /\ f.conflict \in Conflicts /\ f.offered \subseteq Options /\ f.excluded \subseteq Options
  BY FlowAssumption DEF TypeOK, Decisions, Flows
<1>1. Propose(f, o) /\ UNCHANGED twin
  BY DEF PPropose, Choices
<1>2. /\ o \in f.offered /\ counter < MaxDecisions
      /\ ledger' = [ledger EXCEPT ![n] = rec] /\ pending' = [pending EXCEPT ![n] = o]
      /\ audit' = [audit EXCEPT ![n].status = "proposed"]
      /\ Publish(e) /\ choosing' = choosing \ {f} /\ UNCHANGED <<clock, evaluating>>
  BY <1>1 DEF Propose, PlanOf
<1>3. n \in Decisions /\ n > counter /\ n \notin approved /\ ledger[n] = NoRecord
  <2>1. n \in Decisions /\ n > counter
    BY <1>a, <1>2, FlowAssumption DEF Decisions
  <2> QED
    BY <2>1 DEF FlowInv, NoTrace
<1>4. e \in Events /\ e.topic = "decision.proposed" /\ e.dec = n
  BY <1>3 DEF Events, ProposedEvent
<1>5. rec \in Records /\ rec # NoRecord /\ ledger'[n] = rec /\ pending'[n] = o
  <2>1. rec \in Records
    BY <1>a, <1>2 DEF Records
  <2> QED
    BY <1>a, <1>2, <1>3, <2>1, FlowAssumption
<1>6. /\ \A d \in Decisions : d # n => ledger'[d] = ledger[d] /\ pending'[d] = pending[d]
      /\ \A d \in Decisions : audit'[d].by = audit[d].by
  BY <1>a, <1>2, <1>3 DEF TypeOK
<1> HIDE DEF e, n
<1>7. Queue' \subseteq Queue \cup {e}
  BY <1>2, <1>4, QueuePublish
<1>8. Unseen' => Unseen
  BY CascadeUnseen DEF Cascade
<1>9. /\ \A u : Feasible(u)' \subseteq Feasible(u) \cup vacated' /\ vacated \subseteq vacated'
  BY RoomGrows DEF Cascade
<1>10. KeptByRule(rec)
  <2>1. \A x \in f.offered : Priority[x[1]] <= Priority[o[1]]
    BY <1>a, <1>2, RuleChooses DEF FlowsConsider
  <2>2. ASSUME NEW u \in {f.conflict[1], f.conflict[2]}, ~ (Priority[u] <= Priority[o[1]]),
               NEW p \in Feasible(u), p \notin vacated
        PROVE  <<u, p>> \in f.excluded
    <3>1. <<u, p>> \notin f.offered
      BY <2>1, <2>2
    <3> QED
      BY <2>2, <3>1 DEF FlowsConsider, Considered
  <2> QED
    BY <2>2 DEF KeptByRule, NowhereElse
<1> HIDE DEF rec, o
<1>11. \A r : KeptByRule(r) => KeptByRule(r)'
  BY <1>9, KeptStays DEF KeptByRule, NowhereElse
<1>12. ASSUME NEW d \in Decisions, ledger'[d] = rec \/ KeptByRule(ledger'[d])
       PROVE  KeptByRule(ledger[d])'
  <2>1. PICK r : r = ledger'[d]
    OBVIOUS
  <2>2. KeptByRule(r)'
    BY <1>10, <1>11, <1>12, <2>1
  <2> QED
    BY <2>1, <2>2 DEF KeptByRule, NowhereElse
<1>13. FlowsConsider'
  BY <1>2, <1>9 DEF FlowsConsider, Considered, OfTheTwo
<1>14. AwaitingKept'
  <2> SUFFICES ASSUME NEW d \in Decisions, Awaiting(d)', ledger'[d] # NoRecord
               PROVE  KeptByRule(ledger[d])'
    BY DEF AwaitingKept
  <2>1. CASE d # n
    <3>1. Awaiting(d) /\ ledger'[d] = ledger[d]
      BY <1>2, <1>4, <1>6, <1>7, <2>1 DEF Awaiting
    <3> QED
      BY <1>12, <3>1 DEF AwaitingKept
  <2> QED
    BY <1>5, <1>12, <2>1
<1>15. PendingRecorded'
  <2> SUFFICES ASSUME NEW d \in Decisions, pending'[d] # NoOption
               PROVE  ledger'[d] # NoRecord /\ ledger'[d].chosen = pending'[d]
    BY DEF PendingRecorded
  <2>1. CASE d # n
    BY <1>6, <2>1 DEF PendingRecorded
  <2> QED
    BY <1>5, <2>1 DEF rec
<1>16. MovesKeptByRule'
  <2> SUFFICES ASSUME NEW x \in Queue', NEW d \in Decisions, NEW y \in Options, LeadsTo(x, d, y)'
               PROVE  /\ ~Unseen' /\ ledger'[d] # NoRecord /\ ledger'[d].chosen = y
                      /\ audit'[d].by = "human" \/ KeptByRule(ledger[d])'
    BY DEF MovesKeptByRule
  <2>1. x \in Queue
    BY <1>4, <1>7 DEF LeadsTo
  <2>2. CASE d # n
    <3>1. LeadsTo(x, d, y)
      BY <1>6, <2>2 DEF LeadsTo
    <3> QED
      BY <1>6, <1>8, <1>12, <2>1, <2>2, <3>1 DEF MovesKeptByRule
  <2>3. CASE d = n
    <3>1. x.topic = "plan.executed" => LeadsTo(x, d, y)
      BY DEF LeadsTo
    <3>2. x.topic # "plan.executed" => d \in approved
      BY <2>1 DEF LeadsTo, FlowInv, QueueKnown
    <3> QED
      BY <1>3, <2>1, <2>3, <3>1, <3>2 DEF MovesKeptByRule
  <2> QED
    BY <2>2, <2>3
<1> QED
  BY <1>13, <1>14, <1>15, <1>16

\* A verdict is on a decision that kept to the rule.
LEMMA RuleVerdict ==
    ASSUME PTypeOK, PTypeOK', OutsideFirst, RuleInv, NEW n \in Decisions, PEndEvaluation(n)
    PROVE  RuleInv'
<1> USE DEF PTypeOK, RuleInv
<1>1. PICK st \in {"approved", "rejected"} : Verdict(n, st, "orchestrator")
  BY DEF PEndEvaluation, EndEvaluation
<1> DEFINE e == ResolvedEvent(n, st, "orchestrator")
<1>2. /\ evaluating[n] # Absent /\ evaluating' = [evaluating EXCEPT ![n] = Absent]
      /\ UNCHANGED <<ledger, pending, choosing, clock, delay, platform, blocks, vacated>>
  BY DEF PEndEvaluation, EndEvaluation
<1>3. e \in Events /\ e.topic = "decision.resolved" /\ e.dec = n
  BY DEF Events, ResolvedEvent
<1>4. Publish(e) /\ audit' = [audit EXCEPT ![n] = [status |-> st, by |-> "orchestrator"]]
  BY <1>1 DEF Verdict
<1> HIDE DEF e
<1>5. Queue' \subseteq Queue \cup {e}
  BY <1>3, <1>4, QueuePublish
<1>6. ~Unseen'
  <2>1. ~HeadIn(Outside)
    BY <1>2 DEF OutsideFirst
  <2> QED
    BY <2>1, CascadeUnseen DEF Cascade, Unseen, RequestAhead
<1>7. \A d \in Decisions : Awaiting(d)' => Awaiting(d)
  BY <1>2, <1>3, <1>5 DEF Awaiting, TypeOK
<1>8. /\ \A u : Feasible(u)' \subseteq Feasible(u) \cup vacated' /\ vacated \subseteq vacated'
  BY RoomGrows DEF Cascade
<1>9. ASSUME NEW d \in Decisions, KeptByRule(ledger[d]) PROVE KeptByRule(ledger[d])'
  <2>1. PICK r : r = ledger[d] /\ r = ledger'[d]
    BY <1>2
  <2> QED
    BY <1>8, <1>9, <2>1, KeptStays DEF KeptByRule, NowhereElse
<1>10. FlowsConsider'
  BY <1>2, <1>8 DEF FlowsConsider, Considered, OfTheTwo
<1>11. AwaitingKept' /\ PendingRecorded'
  BY <1>2, <1>7, <1>9 DEF AwaitingKept, PendingRecorded
<1>12. MovesKeptByRule'
  <2> SUFFICES ASSUME NEW x \in Queue', NEW d \in Decisions, NEW y \in Options, LeadsTo(x, d, y)'
               PROVE  /\ ledger'[d] # NoRecord /\ ledger'[d].chosen = y
                      /\ audit'[d].by = "human" \/ KeptByRule(ledger[d])'
    BY <1>6 DEF MovesKeptByRule
  <2>1. ledger[d] # NoRecord /\ ledger[d].chosen = y
    <3>1. CASE x \in Queue
      BY <1>2, <3>1 DEF LeadsTo, MovesKeptByRule
    <3>2. CASE x = e
      BY <1>2, <1>3, <3>2, FlowAssumption DEF LeadsTo, PendingRecorded
    <3> QED
      BY <1>5, <3>1, <3>2
  <2>2. CASE d = n
    <3>1. KeptByRule(ledger[d])
      BY <1>2, <2>1, <2>2 DEF AwaitingKept, Awaiting
    <3> QED
      BY <1>2, <1>9, <2>1, <3>1
  <2>3. CASE d # n
    <3>1. x \in Queue /\ LeadsTo(x, d, y)
      BY <1>2, <1>3, <1>5, <2>3 DEF LeadsTo
    <3>2. audit'[d] = audit[d]
      BY <1>4, <2>3 DEF TypeOK
    <3> QED
      BY <1>2, <1>9, <3>1, <3>2 DEF MovesKeptByRule
  <2> QED
    BY <2>2, <2>3
<1> QED
  BY <1>10, <1>11, <1>12

\* A flow opens on everything feasible for the two trains that was not excluded.
LEMMA OfferedAll ==
    ASSUME NEW c, c[1] \in Trains, c[2] \in Trains, NEW x, NEW f, f.conflict = c,
           f.offered = Offered(c, x), x \subseteq f.excluded
    PROVE  Considered(f) /\ OfTheTwo(f)
<1>1. ASSUME NEW u \in {c[1], c[2]}, NEW p \in Feasible(u), <<u, p>> \notin x
      PROVE  <<u, p>> \in Offered(c, x)
  <2>1. <<u, p>> \in Options /\ <<u, p>>[1] = u /\ <<u, p>>[2] = p
    BY PlatformAssumption DEF Feasible
  <2> QED
    BY <1>1, <2>1 DEF Offered
<1> QED
  BY <1>1 DEF Considered, OfTheTwo, Offered

\* An approval is carried out as the plan of the same decision.
LEMMA RuleCarriesOut ==
    ASSUME PTypeOK, PTypeOK', OutsideFirst, RuleInv, CarryOut, UNCHANGED twin
    PROVE  RuleInv'
<1> USE DEF PTypeOK, RuleInv
<1>a. pending \in [Decisions -> Options \cup {NoOption}]
  BY DEF TypeOK
<1>1. ready # <<>> /\ Head(ready).dec \in Decisions /\ Head(ready) \in Queue
  BY HeadTypes, QueueDeliver DEF CarryOut, Resolution
<1>2. PICK n \in Decisions : n = Head(ready).dec
  BY <1>1
<1>3. /\ Resolution("approved") /\ pending[n] # NoOption
      /\ pending' = [pending EXCEPT ![n] = NoOption]
      /\ ready' = Append(Tail(ready), PlanEvent(n, pending[n]))
      /\ UNCHANGED <<ledger, choosing, evaluating, audit, delay, platform, blocks, vacated, clock>>
  BY <1>2 DEF CarryOut, WithoutPlan, twin
<1>4. PICK o \in Options : o = pending[n]
  BY <1>a, <1>3
<1> DEFINE e == PlanEvent(n, o)
<1>5. e \in Events /\ e.topic = "plan.executed" /\ e.option = o /\ e.dec = n
  BY DEF Events, PlanEvent
<1>6. ready' = Append(Tail(ready), e)
  BY <1>3, <1>4
<1> HIDE DEF e
<1>7. Queue' \subseteq Queue \cup {e}
  BY <1>1, <1>5, <1>6, QueueDeliver
<1>8. ~Unseen'
  <2>1. Head(ready).topic # "sim.tick"
    BY <1>3 DEF Resolution
  <2> QED
    BY <2>1, CascadeUnseen DEF Cascade, Unseen, RequestAhead
<1>9. \A d \in Decisions : Awaiting(d)' => Awaiting(d)
  BY <1>3, <1>5, <1>7 DEF Awaiting
<1>10. \A u : Feasible(u)' = Feasible(u)
  BY <1>3, FeasibleKept
<1>11. ASSUME NEW d \in Decisions, KeptByRule(ledger[d]) PROVE KeptByRule(ledger[d])'
  BY <1>3, <1>10, <1>11 DEF KeptByRule, NowhereElse
<1>12. FlowsConsider'
  BY <1>3, <1>10 DEF FlowsConsider, Considered, OfTheTwo
<1>13. AwaitingKept' /\ PendingRecorded'
  BY <1>a, <1>3, <1>9, <1>11 DEF AwaitingKept, PendingRecorded
<1>14. LeadsTo(Head(ready), n, o)
  BY <1>2, <1>3, <1>4 DEF LeadsTo, Resolution
<1>15. MovesKeptByRule'
  <2> SUFFICES ASSUME NEW x \in Queue', NEW d \in Decisions, NEW y \in Options, LeadsTo(x, d, y)'
               PROVE  /\ ledger'[d] # NoRecord /\ ledger'[d].chosen = y
                      /\ audit'[d].by = "human" \/ KeptByRule(ledger[d])'
    BY <1>8 DEF MovesKeptByRule
  <2>1. \E z \in Queue : LeadsTo(z, d, y)
    <3>1. CASE x = e
      <4>1. d = n /\ y = o
        BY <1>5, <3>1 DEF LeadsTo
      <4> QED
        BY <1>1, <1>14, <4>1
    <3>2. CASE x \in Queue
      <4>1. LeadsTo(x, d, y)
        BY <1>a, <1>3, FlowAssumption DEF LeadsTo
      <4> QED
        BY <3>2, <4>1
    <3> QED
      BY <1>7, <3>1, <3>2
  <2>2. /\ ledger[d] # NoRecord /\ ledger[d].chosen = y
        /\ audit[d].by = "human" \/ KeptByRule(ledger[d])
    BY <2>1 DEF MovesKeptByRule
  <2> QED
    BY <1>3, <1>11, <2>2
<1> QED
  BY <1>12, <1>13, <1>15

\* A retry looks again at everything feasible, less what was rejected.
LEMMA RuleRetries ==
    ASSUME PTypeOK, PTypeOK', OutsideFirst, RuleInv, PRecompute
    PROVE  RuleInv'
<1> USE DEF PTypeOK
<1>1. PICK n \in Decisions : n = Head(ready).dec
  BY HeadTypes DEF PRecompute, Resolution
<1> DEFINE c == ledger[n].conflict
           x == ExcludedAfterReject(ledger[n])
<1>2. /\ Resolution("rejected") /\ HasRetry(n) /\ Recompute(Offered(c, x)) /\ UNCHANGED twin
  BY <1>1 DEF PRecompute
<1>3. /\ ready # <<>> /\ ready' = Tail(ready) /\ UNCHANGED <<pending, evaluating, audit>>
      /\ ledger' = [ledger EXCEPT ![n].excluded = x]
      /\ UNCHANGED <<delay, platform, blocks, vacated>>
      /\ \E r, st : OpenFlow(c, Offered(c, x), x, r, st)
  BY <1>1, <1>2 DEF Recompute, Resolution, twin
<1>4. ledger[n] \in Records /\ c \in Conflicts /\ ledger[n].excluded \subseteq x
  <2>1. ledger[n] \in Records /\ c # NoConflict
    BY <1>2 DEF HasRetry, TypeOK
  <2> QED
    BY <2>1 DEF Records, ExcludedAfterReject
<1>5. c[1] \in Trains /\ c[2] \in Trains
  BY <1>4, PlatformAssumption
<1> HIDE DEF c, x
<1>6. ASSUME NEW f \in choosing', f \notin choosing PROVE Considered(f)' /\ OfTheTwo(f)
  <2>1. f.conflict = c /\ f.offered = Offered(c, x) /\ f.excluded = x
    BY <1>3, <1>6 DEF OpenFlow
  <2>2. Considered(f) /\ OfTheTwo(f)
    BY <1>5, <2>1, OfferedAll
  <2>3. \A u : Feasible(u)' = Feasible(u)
    BY <1>3, FeasibleKept
  <2> QED
    BY <1>3, <2>2, <2>3 DEF Considered
<1>7. \A d \in Decisions :
         \/ /\ ledger[d] # NoRecord /\ ledger'[d] # NoRecord
            /\ ledger'[d].conflict = ledger[d].conflict
            /\ ledger'[d].chosen = ledger[d].chosen
            /\ ledger[d].excluded \subseteq ledger'[d].excluded
         \/ ledger'[d] = ledger[d]
  <2> TAKE d \in Decisions
  <2>1. CASE d = n
    <3>1. ledger'[n] = [ledger[n] EXCEPT !.excluded = x]
      BY <1>3 DEF TypeOK
    <3>2. /\ ledger'[n].conflict = ledger[n].conflict /\ ledger'[n].chosen = ledger[n].chosen
          /\ ledger'[n].excluded = x
      BY <1>4, <3>1 DEF Records
    <3>3. ledger[n] # NoRecord
      BY <1>2 DEF HasRetry
    <3>4. ledger'[n] # NoRecord
      <4>1. x \in SUBSET Options
        BY <1>2, <1>4 DEF x, ExcludedAfterReject, Records, HasRetry, c
      <4>2. ledger'[n] \in Records
        BY <1>2, <1>4, <3>1, <4>1 DEF Records, HasRetry
      <4> QED
        BY <4>2, FlowAssumption
    <3> QED
      BY <1>4, <2>1, <3>2, <3>3, <3>4
  <2>2. CASE d # n
    BY <1>3, <2>2 DEF TypeOK
  <2> QED
    BY <2>1, <2>2
<1>8. Queue' \subseteq Queue /\ (Unseen' => Unseen)
  BY <1>3, QueueDeliver, CascadeUnseen DEF Cascade
<1>9. \A d \in Decisions : Awaiting(d)' => Awaiting(d)
  BY <1>3, <1>8 DEF Awaiting
<1>10. /\ \A u : Feasible(u)' \subseteq Feasible(u) \cup vacated' /\ vacated \subseteq vacated'
  BY RoomGrows DEF Cascade
<1> QED
  BY <1>3, <1>6, <1>7, <1>8, <1>9, <1>10, RuleKept

\* Every decision that is under way kept to the rule when it was made, and still does.
LEMMA RuleStep ==
    ASSUME AgentLLM = FALSE, PTypeOK, PTypeOK', FlowInv, OutsideFirst, RuleInv, [BNext]_pvars
    PROVE  RuleInv'
<1> USE DEF PTypeOK
<1>1. CASE UNCHANGED pvars
  <2>1. \A u : Feasible(u)' = Feasible(u)
    BY <1>1, FeasibleKept DEF pvars, twin
  <2>2. /\ UNCHANGED <<ready, choosing, evaluating, ledger, pending, audit, vacated>>
        /\ Queue' = Queue /\ (Unseen' => Unseen)
    BY <1>1, CascadeUnseen DEF pvars, vars, state, twin, Queue
  <2>3. \A d \in Decisions : Awaiting(d)' => Awaiting(d)
    BY <2>2 DEF Awaiting
  <2> QED
    BY <2>1, <2>2, <2>3, RuleKept
<1>2. CASE Quiet /\ Environment
  BY <1>2, RuleQuiet DEF RuleInv
<1>3. CASE Cascade
  <2>1. /\ \A u : Feasible(u)' \subseteq Feasible(u) \cup vacated'
        /\ vacated \subseteq vacated'
    BY <1>3, RoomGrows
  <2>2. Unseen' => Unseen
    BY <1>3, CascadeUnseen
  <2>3. ASSUME NEW a \in alerts, OnDelay(a) PROVE RuleInv'
    <3> DEFINE c == <<a.train, FirstOf(ConflictsWith(a))>>
    <3>1. UNCHANGED <<delay, platform, blocks, vacated, ready, evaluating, ledger, pending, audit>>
      BY <2>3 DEF OnDelay, StartFlow, vars, state
    <3>2. /\ Queue' = Queue /\ \A d \in Decisions : Awaiting(d)' => Awaiting(d)
      BY <3>1 DEF Queue, Awaiting
    <3>3. ASSUME NEW f \in choosing', f \notin choosing PROVE Considered(f)' /\ OfTheTwo(f)
      <4>1. OpenFlow(c, Offered(c, {}), {}, {}, FALSE)
        BY <2>3, <3>3 DEF OnDelay, StartFlow, vars, state
      <4>2. f.conflict = c /\ f.offered = Offered(c, {})
        <5> HIDE DEF c
        <5> QED
          BY <3>3, <4>1 DEF OpenFlow
      <4>3. c[1] \in Trains /\ c[2] \in Trains
        <5>1. ConflictsWith(a) # {}
          BY <2>3, <3>3 DEF OnDelay, vars, state
        <5>2. ConflictsWith(a) \subseteq Trains /\ a.train \in Trains
          BY DEF ConflictsWith
        <5>3. FirstOf(ConflictsWith(a)) \in Trains
          BY <5>1, <5>2, FirstOfIsOne
        <5> QED
          BY <5>2, <5>3
      <4> HIDE DEF c
      <4>4. Considered(f) /\ OfTheTwo(f)
        <5>1. PICK b, x : b = c /\ x = {}
          OBVIOUS
        <5>2. /\ f.conflict = b /\ f.offered = Offered(b, x) /\ b[1] \in Trains /\ b[2] \in Trains
              /\ x \subseteq f.excluded
          BY <4>2, <4>3, <5>1
        <5> QED
          BY <5>2, OfferedAll
      <4>5. \A u : Feasible(u)' = Feasible(u)
        BY <3>1, FeasibleKept
      <4> QED
        BY <3>1, <4>4, <4>5 DEF Considered
    <3> QED
      BY <2>1, <2>2, <3>1, <3>2, <3>3, RuleKept
  <2>4. ASSUME NEW f \in choosing, PPropose(f) PROVE RuleInv'
    BY <2>4, RuleProposes
  <2>5. ASSUME NEW d \in Decisions, PEndEvaluation(d) PROVE RuleInv'
    BY <2>5, RuleVerdict
  <2>6. CASE \/ (BeginEvaluation \/ IgnoreResolution \/ CancelledTick) /\ UNCHANGED twin
             \/ ApplyPlan
    <3>1. /\ ready # <<>> /\ ready' = Tail(ready)
          /\ UNCHANGED <<choosing, ledger, pending, audit>>
      BY <2>6 DEF BeginEvaluation, IgnoreResolution, Resolution, CancelledTick, ApplyPlan,
                  TwinHandlesPlan
    <3>2. Queue' \subseteq Queue /\ Head(ready) \in Queue
      BY <3>1, QueueDeliver
    <3>3. \A d \in Decisions :
             \/ evaluating'[d] = evaluating[d]
             \/ Head(ready).topic = "decision.proposed" /\ Head(ready).dec = d
      BY <2>6 DEF BeginEvaluation, IgnoreResolution, CancelledTick, ApplyPlan, TwinHandlesPlan, TypeOK
    <3>4. \A d \in Decisions : Awaiting(d)' => Awaiting(d)
      BY <3>2, <3>3 DEF Awaiting
    <3> QED
      BY <2>1, <2>2, <3>1, <3>2, <3>4, RuleKept
  <2>7. CASE CarryOut /\ UNCHANGED twin
    BY <2>7, RuleCarriesOut
  <2>8. CASE PRecompute
    BY <2>8, RuleRetries
  <2>9. CASE PWatchReset
    <3>1. /\ ready # <<>> /\ ready' = Tail(ready) /\ UNCHANGED <<audit, evaluating>>
      BY <2>9 DEF PWatchReset, WatchReset
    <3>2. \/ UNCHANGED <<ledger, pending, choosing>>
          \/ /\ \A d \in Decisions : ledger'[d] = NoRecord /\ pending'[d] = NoOption
             /\ choosing' = {[f EXCEPT !.stale = TRUE] : f \in choosing} /\ Unseen
      BY <2>9, RewoundByRequest DEF PWatchReset, WatchReset, Unseen
    <3>3. Queue' \subseteq Queue
      BY <3>1, QueueDeliver
    <3>4. \A d \in Decisions : Awaiting(d)' => Awaiting(d)
      BY <3>1, <3>3 DEF Awaiting
    <3>5. \A f \in choosing' : \E g \in choosing : /\ f.conflict = g.conflict
                                                   /\ f.offered = g.offered
                                                   /\ f.excluded = g.excluded
      <4>1. CASE choosing' = choosing
        BY <4>1
      <4>2. ASSUME NEW g \in choosing, NEW f, f = [g EXCEPT !.stale = TRUE]
            PROVE  f.conflict = g.conflict /\ f.offered = g.offered /\ f.excluded = g.excluded
        BY <4>2 DEF TypeOK, Flows
      <4> QED
        BY <3>2, <4>1, <4>2
    <3>6. \A d \in Decisions :
             \/ ledger'[d] = ledger[d] /\ pending'[d] = pending[d]
             \/ ledger'[d] = NoRecord /\ pending'[d] = NoOption /\ Unseen
      BY <3>2
    <3>7. audit' = audit
      BY <3>1
    <3> QED
      BY <2>1, <2>2, <3>3, <3>4, <3>5, <3>6, <3>7, RuleKept
  <2> QED
    BY <1>3, <2>3, <2>4, <2>5, <2>6, <2>7, <2>8, <2>9 DEF Cascade
<1>4. CASE PTick
  <2>1. PICK t \in (clock + 1) .. MaxTime : Publish(TickEvent(t, "loop"))
    BY <1>4 DEF PTick, Tick
  <2> DEFINE e == TickEvent(t, "loop")
  <2>2. e \in Events /\ e.topic = "sim.tick"
    <3>1. t \in Nat
      BY <2>1, FlowAssumption DEF TypeOK
    <3> QED
      BY <3>1 DEF TickEvent, Events
  <2>3. Publish(e)
    BY <2>1
  <2> HIDE DEF e
  <2>4. Queue' \subseteq Queue \cup {e}
    BY <2>2, <2>3, QueuePublish
  <2>5. UNCHANGED <<choosing, evaluating, ledger, pending, audit>>
    BY <1>4 DEF PTick, Tick
  <2>6. \A d \in Decisions : Awaiting(d)' => Awaiting(d)
    BY <2>2, <2>4, <2>5 DEF Awaiting
  <2> QED
    BY <1>4, <2>2, <2>4, <2>5, <2>6, RoomGrows, CascadeUnseen, RuleKept
<1> QED
  BY <1>1, <1>2, <1>3, <1>4 DEF BNext

\* The rule moves a train only if the other one of the conflict has a better priority, the
\* same, or nowhere left to go, unless the operator approved the move himself: for any
\* timetable, delays and blocks, any number of flows side by side and whatever the operator
\* rejects and approves, as long as there is no LLM and disturbances wait for the cascade.
\* What is feasible for the other train by then was rejected, or was emptied by a plan.
THEOREM PremiumKept ==
    ASSUME AgentLLM = FALSE
    PROVE  BurstSpec => PremiumKeepsPlatform
<1>1. PInit => DelaysInv /\ RuleInv
  <2> SUFFICES ASSUME PInit PROVE RuleInv
    BY DelaysInit
  <2>1. /\ Queue = {} /\ choosing = {}
        /\ \A d \in Decisions : evaluating[d] = Absent /\ ledger[d] = NoRecord /\ pending[d] = NoOption
    BY DEF PInit, Init, Queue
  <2> QED
    BY <2>1 DEF RuleInv, FlowsConsider, AwaitingKept, Awaiting, PendingRecorded, MovesKeptByRule
<1>2. PTypeOK /\ FlowInv /\ DelaysInv /\ RuleInv /\ [BNext]_pvars => DelaysInv' /\ RuleInv'
  BY BurstsStep, PTypesStep, DelaysStep, RuleStep DEF DelaysInv
<1>3. ASSUME PTypeOK, RuleInv, [BNext]_pvars, NEW t \in Trains, Moved(t)
      PROVE  LET d == Head(ready).dec
             IN  audit[d].by = "human" \/ (ledger[d].chosen[1] = t /\ KeptByRule(ledger[d]))
  <2>1. ApplyPlan
    BY <1>3, MovedByPlan
  <2>2. /\ ready # <<>> /\ Head(ready).topic = "plan.executed" /\ Head(ready) \in Events
        /\ Head(ready) \in Queue
        /\ platform' = [platform EXCEPT ![Head(ready).option[1]] = Head(ready).option[2]]
    BY <1>3, <2>1, HeadTypes, QueueDeliver DEF PTypeOK, ApplyPlan, TwinHandlesPlan, NewPlatform
  <2>3. PICK d \in Decisions, o \in Options : d = Head(ready).dec /\ o = Head(ready).option
    BY <2>2 DEF Events
  <2>4. ledger[d].chosen = o /\ (audit[d].by = "human" \/ KeptByRule(ledger[d]))
    BY <1>3, <2>2, <2>3 DEF RuleInv, MovesKeptByRule, LeadsTo
  <2>5. t = o[1]
    BY <1>3, <2>2, <2>3 DEF Moved, PTypeOK
  <2> QED
    BY <2>3, <2>4, <2>5
<1>4. PTypeOK /\ RuleInv /\ [BNext]_pvars =>
         [\A t \in Trains : Moved(t) =>
             LET d == Head(ready).dec
             IN  audit[d].by = "human" \/ (ledger[d].chosen[1] = t /\ KeptByRule(ledger[d]))]_pvars
  BY <1>3
<1>5. BurstSpec => []PTypeOK /\ []FlowInv
  BY BurstsAreSteps, PlatformTypes, PlatformIsFlow, FlowInvariant, PTL
<1> QED
  BY <1>1, <1>2, <1>4, <1>5, PTL DEF BurstSpec, BNext, PremiumKeepsPlatform
=============================================================================
