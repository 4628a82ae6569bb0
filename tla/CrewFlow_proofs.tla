--------------------------- MODULE CrewFlow_proofs ---------------------------
(***************************************************************************)
(* Proofs about CrewFlow for every roster, every number of trains and      *)
(* crews and all bounds, the operator's rejections included and however    *)
(* far the clock goes on amid the flows: it is a DecisionFlow; every swap  *)
(* is announced; and until the operator overrules a refusal or a commit    *)
(* lapses, no crew works two trains, every swap puts a spare crew on a     *)
(* train and no breach that was found is left.                             *)
(***************************************************************************)
EXTENDS CrewFlow, DecisionFlow_proofs

CNext == Cascade \/ CTick \/ (Quiet /\ Environment)
-----------------------------------------------------------------------------
(* Types. *)

\* Swaps offered for a breach are options.
LEMMA OfferedOptions ==
    ASSUME NEW b \in Conflicts, NEW x PROVE Offered(b, x) \in SUBSET Options
<1>1. b[1] \in Trains /\ b[2] \in Crews /\ b[3] \subseteq Crews
  BY CrewAssumption
<1> QED
  BY <1>1, CrewAssumption DEF Offered

\* A breach names the train, its crew and the bases ahead.
LEMMA BreachTypes ==
    ASSUME CTypeOK, NEW a \in alerts
    PROVE  a.train \in Trains /\ <<a.train, crewOf[a.train], a.ahead>> \in Conflicts
<1>1. a.train \in Trains /\ a.ahead \in SUBSET Crews /\ crewOf[a.train] \in Crews
  BY DEF CTypeOK
<1> QED
  BY <1>1, CrewAssumption

\* A retry starts a flow for the conflict of its record.
LEMMA RetryTypes ==
    ASSUME TypeOK, Resolution("rejected"), HasRetry(Head(ready).dec)
    PROVE  /\ Head(ready).dec \in Decisions
           /\ ledger[Head(ready).dec].conflict \in Conflicts
           /\ ledger[Head(ready).dec].chosen \in Options
<1>1. Head(ready).dec \in Decisions
  BY HeadTypes DEF Resolution
<1>2. ledger[Head(ready).dec] \in Records
  BY <1>1 DEF TypeOK, HasRetry
<1> QED
  BY <1>1, <1>2 DEF Records, HasRetry

\* A cascade of the composed system is one of the flow, or leaves it alone.
LEMMA CascadesOfFlow ==
    ASSUME CTypeOK, Cascade \/ CTick \/ UNCHANGED cvars PROVE Cascading \/ Tick \/ UNCHANGED vars
<1>1. ASSUME NEW a \in alerts, OnDelay(a) PROVE [Cascading]_vars
  <2> DEFINE c == <<a.train, crewOf[a.train], a.ahead>>
  <2>1. CASE UNCHANGED vars
    BY <2>1
  <2>2. CASE StartFlow(c, Offered(c, {}))
    <3>1. c \in Conflicts
      BY BreachTypes
    <3> QED
      BY <2>2, <3>1, OfferedOptions DEF Cascading
  <2> QED
    BY <1>1, <2>1, <2>2 DEF OnDelay
<1>2. ASSUME \/ \E f \in choosing : CPropose(f)
             \/ \E d \in Decisions : CEndEvaluation(d)
             \/ \E s \in drafts : Broadcast(s)
      PROVE  Cascading
  BY <1>2 DEF CPropose, CEndEvaluation, Broadcast, Cascading
<1>3. CASE BeginEvaluation \/ CarryOut \/ IgnoreResolution \/ CancelledTick \/ ApplySwap \/ CWatchReset
  BY <1>3 DEF ApplySwap, CWatchReset, Cascading, Deliver
<1>4. CASE CRecompute
  <2> DEFINE rec == ledger[Head(ready).dec]
  <2>1. rec.conflict \in Conflicts
    BY <1>4, RetryTypes DEF CRecompute, CTypeOK
  <2>2. \E offered \in {Offered(rec.conflict, ExcludedAfterReject(rec))} : Recompute(offered)
    BY <1>4 DEF CRecompute
  <2>3. Offered(rec.conflict, ExcludedAfterReject(rec)) \in SUBSET Options
    BY <2>1, OfferedOptions
  <2> QED
    BY <2>2, <2>3 DEF Cascading, Deliver
<1>5. CASE CTick \/ UNCHANGED cvars
  BY <1>5 DEF CTick, cvars
<1> QED
  BY <1>1, <1>2, <1>3, <1>4, <1>5 DEF Cascade

\* A disturbance of the composed system is one of the flow, or a scenario.
LEMMA DisturbancesOfFlow ==
    ASSUME Environment
    PROVE  \/ Disturbing
           \/ UNCHANGED vars /\ given' = {} /\ UNCHANGED <<crewOf, drafts, told, warned, unnoticed>>
BY DEF Environment, InjectDelay, CrewSick, CHuman, CReset, Disturbing

\* A burst of the composed system is one of the flow, or leaves it alone.
LEMMA BurstsOfFlow == ASSUME CTypeOK, [CNext]_cvars PROVE [InBursts]_vars
BY CascadesOfFlow, DisturbancesOfFlow DEF CNext, InBursts

\* So it is a step of the flow.
LEMMA StepsOfFlow == ASSUME CTypeOK, [CNext]_cvars PROVE [Next]_vars
BY BurstsOfFlow, BurstsOfNext

\* The seed's crews are on duty on the train they work.
LEMMA SeedTypes ==
    /\ SeedRoster \in [Crews -> [status : {"spare", "on_duty", "off_duty"},
                                 train : Trains \cup {0}, until : Times]]
    /\ \A c \in Crews : SeedRoster[c].status = "on_duty" <=> SeedRoster[c].train # 0
    /\ \A c \in Crews : SeedRoster[c].status = "spare" <=> DutyLimit[c] = Absent
    /\ \A t \in Trains : /\ DutyLimit[FirstCrew[t]] # Absent
                         /\ SeedRoster[FirstCrew[t]].train = t
                         /\ SeedRoster[FirstCrew[t]].until = DutyLimit[FirstCrew[t]]
<1> USE CrewAssumption
<1>1. ASSUME NEW c \in Crews
      PROVE  /\ SeedRoster[c] \in [status : {"spare", "on_duty", "off_duty"},
                                   train : Trains \cup {0}, until : Times]
             /\ SeedRoster[c].status = "on_duty" <=> SeedRoster[c].train # 0
             /\ SeedRoster[c].status = "spare" <=> DutyLimit[c] = Absent
  <2>1. CASE DutyLimit[c] = Absent
    <3>1. SeedRoster[c] = [status |-> "spare", train |-> 0, until |-> Absent]
      BY <2>1 DEF SeedRoster
    <3> QED
      BY <2>1, <3>1 DEF Times
  <2>2. CASE DutyLimit[c] # Absent
    <3> DEFINE t == CHOOSE t \in Trains : FirstCrew[t] = c
    <3>1. t \in Trains
      BY <2>2
    <3> HIDE DEF t
    <3>2. SeedRoster[c] = [status |-> "on_duty", train |-> t, until |-> DutyLimit[c]]
      BY <2>2 DEF SeedRoster, t
    <3> QED
      BY <2>2, <3>1, <3>2
  <2> QED
    BY <2>1, <2>2
<1>2. ASSUME NEW t \in Trains
      PROVE  /\ DutyLimit[FirstCrew[t]] # Absent
             /\ SeedRoster[FirstCrew[t]].train = t
             /\ SeedRoster[FirstCrew[t]].until = DutyLimit[FirstCrew[t]]
  <2>1. FirstCrew[t] \in Crews /\ DutyLimit[FirstCrew[t]] # Absent
    OBVIOUS
  <2>2. t = CHOOSE u \in Trains : FirstCrew[u] = FirstCrew[t]
    OBVIOUS
  <2>3. SeedRoster[FirstCrew[t]] = [status |-> "on_duty", train |-> t,
                                    until |-> DutyLimit[FirstCrew[t]]]
    BY <2>1, <2>2 DEF SeedRoster
  <2> QED
    BY <2>1, <2>3
<1>3. SeedRoster = [c \in Crews |-> SeedRoster[c]]
  BY DEF SeedRoster
<1> QED
  BY <1>1, <1>2, <1>3

\* What a swap does to the roster.
LEMMA SwappedTypes ==
    ASSUME CTypeOK, NEW t \in Trains, NEW old \in Crews, NEW next \in Crews
    PROVE  /\ Swapped(t, old, next) \in [Crews -> [status : {"spare", "on_duty", "off_duty"},
                                                   train : Trains \cup {0}, until : Times]]
           /\ \A c \in Crews :
                 Swapped(t, old, next)[c].status = "on_duty" <=> Swapped(t, old, next)[c].train # 0
           /\ Swapped(t, old, next)[next].status = "on_duty"
           /\ Swapped(t, old, next)[next].train = t
           /\ old # next => Swapped(t, old, next)[old].status = "off_duty"
           /\ \A c \in Crews : c \notin {old, next} => Swapped(t, old, next)[c] = roster[c]
<1> DEFINE R == [status : {"spare", "on_duty", "off_duty"}, train : Trains \cup {0}, until : Times]
           until == IF roster[next].until = Absent THEN clock + DutyHours ELSE roster[next].until
           mid == [roster EXCEPT ![old].status = "off_duty", ![old].train = 0]
<1>1. roster \in [Crews -> R] /\ clock \in Nat /\ DutyHours \in Nat /\ t # 0
  BY CrewAssumption DEF CTypeOK, TypeOK
<1>2. until \in Times
  <2>1. roster[next].until \in Times
    BY <1>1
  <2>2. clock + DutyHours \in Times
    BY <1>1 DEF Times
  <2> QED
    BY <2>1, <2>2
<1>3. mid \in [Crews -> R]
  BY <1>1
<1>4. mid[next].until = roster[next].until
  BY <1>1
<1> HIDE DEF until
<1>5. Swapped(t, old, next) = [mid EXCEPT ![next].status = "on_duty", ![next].train = t,
                                          ![next].until = until]
  BY <1>1, <1>4 DEF Swapped, until
<1>6. mid[old].status = "off_duty" /\ mid[old].train = 0
      /\ \A c \in Crews : c # old => mid[c] = roster[c]
  BY <1>1
<1>7. \A c \in Crews : mid[c].status = "on_duty" <=> mid[c].train # 0
  BY <1>6 DEF CTypeOK
<1> HIDE DEF mid
<1>8. /\ Swapped(t, old, next) \in [Crews -> R]
      /\ Swapped(t, old, next)[next].status = "on_duty"
      /\ Swapped(t, old, next)[next].train = t
      /\ \A c \in Crews : c # next => Swapped(t, old, next)[c] = mid[c]
  BY <1>2, <1>3, <1>5
<1> QED
  BY <1>1, <1>6, <1>7, <1>8

LEMMA CTypesStep == ASSUME CTypeOK, [CNext]_cvars PROVE CTypeOK'
<1> DEFINE R == [Crews -> [status : {"spare", "on_duty", "off_duty"},
                           train : Trains \cup {0}, until : Times]]
<1>0. TypeOK'
  BY StepsOfFlow, TypeStep DEF CTypeOK
<1>1. CASE UNCHANGED crewing
  BY <1>0, <1>1 DEF CTypeOK, crewing
<1>2. ASSUME NEW t \in Trains, NEW m \in DelaySteps, InjectDelay(t, m) PROVE CTypeOK'
  <2>0. m \in Nat /\ delay \in [Trains -> Nat]
    BY CrewAssumption DEF CTypeOK
  <2>1. delay' \in [Trains -> Nat] /\ delay'[t] \in Nat
    BY <1>2, <2>0 DEF InjectDelay
  <2>2. handled' \in [Trains -> Times]
    BY <1>2, <2>1 DEF CTypeOK, InjectDelay, Times
  <2>3. alerts' \subseteq [train : Trains, delay : Nat, ahead : SUBSET Crews]
    <3>1. Ahead(t) \in SUBSET Crews
      BY DEF Ahead
    <3>2. [train |-> t, delay |-> delay'[t], ahead |-> Ahead(t)]
             \in [train : Trains, delay : Nat, ahead : SUBSET Crews]
      BY <2>1, <3>1
    <3> QED
      BY <1>2, <3>2 DEF CTypeOK, InjectDelay
  <2>4. scenarios' \in Nat /\ detected' \subseteq Conflicts
    BY <1>2 DEF CTypeOK, InjectDelay, Scenario
  <2> QED
    BY <1>0, <1>2, <2>1, <2>2, <2>3, <2>4 DEF CTypeOK, InjectDelay
<1>3. ASSUME NEW c \in Crews, CrewSick(c) PROVE CTypeOK'
  <2>1. roster' = [roster EXCEPT ![c].status = "off_duty", ![c].train = 0]
    BY <1>3 DEF CrewSick
  <2>2. roster' \in R
    BY <2>1 DEF CTypeOK
  <2>3. roster'[c].status = "off_duty" /\ roster'[c].train = 0
        /\ \A k \in Crews : k # c => roster'[k] = roster[k]
    BY <2>1 DEF CTypeOK
  <2>4. scenarios' \in Nat
    BY <1>3 DEF CTypeOK, CrewSick, Scenario
  <2> QED
    BY <1>0, <1>3, <2>2, <2>3, <2>4 DEF CTypeOK, CrewSick
<1>4. ASSUME NEW a \in alerts, OnDelay(a) PROVE CTypeOK'
  <2> DEFINE breach == <<a.train, crewOf[a.train], a.ahead>>
  <2>1. a.train \in Trains /\ a.delay \in Times /\ clock \in Times /\ breach \in Conflicts
    BY BreachTypes DEF CTypeOK, TypeOK, Times
  <2>2. detected' \subseteq detected \cup {breach}
    BY <1>4 DEF OnDelay
  <2> HIDE DEF breach
  <2>3. detected' \subseteq Conflicts
    BY <2>1, <2>2 DEF CTypeOK
  <2>4. seen' \in [Trains -> [delay : Times, time : Times]]
    BY <1>4, <2>1 DEF CTypeOK, OnDelay
  <2> QED
    BY <1>0, <1>4, <2>3, <2>4 DEF CTypeOK, OnDelay
<1>5. ASSUME NEW d \in Decisions, CEndEvaluation(d) PROVE CTypeOK'
  <2>1. Takes(d) \subseteq Crews /\ TakesLapsed(d) \subseteq Crews
    BY CrewAssumption DEF Takes, TakesLapsed
  <2>2. given' \subseteq Crews /\ lapsed' \subseteq Crews /\ detected' \subseteq Conflicts
    BY <1>5, <2>1 DEF CTypeOK, CEndEvaluation
  <2> QED
    BY <1>0, <1>5, <2>2 DEF CTypeOK, CEndEvaluation
<1>6. CASE CRecompute
  <2>1. detected' \subseteq detected
    BY <1>6 DEF CRecompute
  <2> QED
    BY <1>0, <1>6, <2>1 DEF CTypeOK, CRecompute
<1>7. CASE ApplySwap
  <2>1. Head(ready).option \in Options
    <3>1. Head(ready) \in Events /\ Head(ready).topic = "plan.executed"
      BY <1>7, HeadTypes DEF ApplySwap, TwinHandlesPlan, CTypeOK
    <3> QED
      BY <3>1 DEF Events
  <2>2. PICK t \in Trains, old \in Crews, next \in Crews : Head(ready).option = <<t, old, next>>
    BY <2>1, CrewAssumption
  <2>a. /\ Head(ready).option[1] = t /\ Head(ready).option[2] = old
        /\ Head(ready).option[3] = next
    BY <2>2
  <2>3. /\ roster' = Swapped(t, old, next) /\ crewOf' = [crewOf EXCEPT ![t] = next]
        /\ \/ UNCHANGED <<warned, drafts>>
           \/ /\ warned' = [warned EXCEPT ![t][next] = clock]
              /\ drafts' = drafts \cup {[train |-> t, crew |-> next]}
    BY <1>7, <2>a DEF ApplySwap
  <2>4. roster' \in R /\ \A c \in Crews : roster'[c].status = "on_duty" <=> roster'[c].train # 0
    BY <2>3, SwappedTypes
  <2>5. warned' \in [Trains -> [Crews -> Times]] /\ drafts' \subseteq Swaps
    <3>1. clock \in Times /\ warned \in [Trains -> [Crews -> Times]] /\ drafts \subseteq Swaps
      BY DEF CTypeOK, TypeOK, Times
    <3>2. [train |-> t, crew |-> next] \in Swaps
      BY DEF Swaps
    <3>3. [warned EXCEPT ![t][next] = clock] \in [Trains -> [Crews -> Times]]
      BY <3>1
    <3> QED
      BY <2>3, <3>1, <3>2, <3>3
  <2>6. crewOf' \in [Trains -> Crews]
    BY <2>3 DEF CTypeOK
  <2> QED
    BY <1>0, <1>7, <2>4, <2>5, <2>6 DEF CTypeOK, ApplySwap
<1>8. ASSUME NEW s \in drafts, Broadcast(s) PROVE CTypeOK'
  BY <1>0, <1>8 DEF CTypeOK, Broadcast
<1>9. CASE CTick
  <2>1. passed' \subseteq Trains \X Crews
    BY <1>9 DEF CTypeOK, CTick
  <2> QED
    BY <1>0, <1>9, <2>1 DEF CTypeOK, CTick
<1>10. CASE CReset
  <2>1. crewOf' \in [Trains -> Crews] /\ delay' \in [Trains -> Nat]
    BY <1>10, CrewAssumption DEF CReset
  <2>2. roster' \in R /\ \A c \in Crews : roster'[c].status = "on_duty" <=> roster'[c].train # 0
    BY <1>10, SeedTypes DEF CReset
  <2>3. unnoticed' \in BOOLEAN
    BY <1>10 DEF CReset
  <2> QED
    BY <1>0, <1>10, <2>1, <2>2, <2>3 DEF CTypeOK, CReset
<1>11. CASE CWatchReset
  <2>1. NotSeen \in [delay : Times, time : Times] /\ Absent \in Times
    BY DEF NotSeen, Times
  <2>2. seen' \in [Trains -> [delay : Times, time : Times]] /\ handled' \in [Trains -> Times]
        /\ warned' \in [Trains -> [Crews -> Times]]
    BY <1>11, <2>1 DEF CTypeOK, CWatchReset
  <2> QED
    BY <1>0, <1>11, <2>2 DEF CTypeOK, CWatchReset
<1>12. ASSUME NEW d \in Decisions, NEW s \in {"approved", "rejected"}, CHuman(d, s) PROVE CTypeOK'
  <2>1. overruled' \in BOOLEAN
    BY <1>12 DEF CHuman
  <2> QED
    BY <1>0, <1>12, <2>1 DEF CTypeOK, CHuman
<1> QED
  BY <1>1, <1>2, <1>3, <1>4, <1>5, <1>6, <1>7, <1>8, <1>9, <1>10, <1>11, <1>12
     DEF CNext, cvars, Cascade, Environment, CPropose

\* The types hold initially.
LEMMA CTypesInit == CInit => CTypeOK
<1> SUFFICES ASSUME CInit PROVE CTypeOK
  OBVIOUS
<1>1. TypeOK
  BY TypeInit DEF CInit
<1>2. /\ seen \in [Trains -> [delay : Times, time : Times]] /\ handled \in [Trains -> Times]
      /\ warned \in [Trains -> [Crews -> Times]]
  BY DEF CInit, NotSeen, Times
<1>3. delay \in [Trains -> Nat] /\ crewOf \in [Trains -> Crews]
  BY CrewAssumption DEF CInit
<1>4. roster = SeedRoster
  BY DEF CInit
<1> QED
  BY <1>1, <1>2, <1>3, <1>4, SeedTypes DEF CInit, CTypeOK

\* The tables of the twin, the agents and the flow keep their types; a crew is on duty just
\* as long as it is on a train.
THEOREM CrewTypes == CBurstSpec => []CTypeOK
<1>1. CTypeOK /\ [CNext]_cvars => CTypeOK'
  BY CTypesStep
<1> QED
  BY <1>1, CTypesInit, PTL DEF CBurstSpec, CNext

\* The composition is a decision flow, so that its theorems hold here: no plan is carried
\* out twice or without an approval, no option the operator rejected comes back.
THEOREM CrewIsFlow == CBurstSpec => Spec
<1>1. CInit => Init
  BY DEF CInit
<1>2. CTypeOK /\ [CNext]_cvars => [Next]_vars
  BY StepsOfFlow
<1> QED
  BY <1>1, <1>2, CrewTypes, PTL DEF CBurstSpec, CNext, Spec
-----------------------------------------------------------------------------
(* What comes from outside, and the reset on its way to the watcher. *)

\* Until the watcher has seen a reset the twin is as seeded.
ResetSeen ==
    Unseen => crewOf = FirstCrew /\ roster = SeedRoster /\ \A t \in Trains : delay[t] = 0

TicksInv == OutsideFirst /\ ResetSeen

\* Within a cascade only an approved swap touches the crews, and nothing but the watcher
\* takes the tick that shows a reset.
LEMMA CascadeUnseen ==
    ASSUME CTypeOK, CTypeOK', OutsideFirst, Cascade \/ CTick \/ UNCHANGED cvars
    PROVE  /\ OutsideFirst' /\ UNCHANGED <<delay, unnoticed, overruled>>
           /\ (HeadIn(Outside)' => HeadIn(Outside)) /\ (Unseen' => Unseen)
           /\ ApplySwap \/ UNCHANGED <<crewOf, roster>>
           /\ ~ (Unseen /\ ApplySwap)
           /\ CWatchReset \/ ApplySwap \/ UNCHANGED warned
           /\ \/ CWatchReset /\ ~Unseen' /\ (Rewound => Unseen)
              \/ ~CWatchReset /\ (Unseen => Unseen')
<1> USE DEF CTypeOK
<1>1. Cascading \/ Tick \/ UNCHANGED vars
  BY CascadesOfFlow
<1>2. OutsideFirst'
  BY <1>1, OutsideStep DEF InBursts
<1>3. /\ UNCHANGED <<delay, unnoticed, overruled>>
      /\ ApplySwap \/ UNCHANGED <<crewOf, roster>>
      /\ CWatchReset \/ ApplySwap \/ UNCHANGED warned
  BY DEF Cascade, OnDelay, CPropose, CEndEvaluation, Broadcast, CRecompute, ApplySwap, CWatchReset,
         CTick, cvars, crewing
<1>4. ~ (Unseen /\ ApplySwap)
  BY DEF Unseen, RequestAhead, ApplySwap, TwinHandlesPlan
<1>5. CASE CWatchReset
  <2>1. WatchReset
    BY <1>5 DEF CWatchReset
  <2>2. ~Unseen' /\ (Rewound => Unseen)
    BY <1>1, <2>1, UnseenKept DEF Unseen, RequestAhead
  <2> QED
    BY <1>1, <1>2, <1>3, <1>4, <1>5, <2>2, UnseenKept
<1>6. CASE ~CWatchReset
  <2>1. ASSUME Unseen, WatchReset PROVE FALSE
    <3>1. /\ ready # <<>> /\ ready' # ready /\ UNCHANGED <<counter, evaluating, clock>>
          /\ Head(ready).topic = "sim.tick" /\ Head(ready).from # "cancelled"
      BY <2>1, DeliveryShows DEF WatchReset, CounterAfterReset
    <3>2. ASSUME NEW a \in alerts, OnDelay(a) PROVE FALSE
      BY <3>1, <3>2 DEF OnDelay, StartFlow, vars, state
    <3>3. ASSUME NEW f \in choosing, CPropose(f) PROVE FALSE
      BY <3>1, <3>3 DEF CPropose, ChooseFor, Propose, TypeOK
    <3>4. ASSUME NEW d \in Decisions, CEndEvaluation(d) PROVE FALSE
      BY <3>1, <3>4 DEF CEndEvaluation, EndEvaluation, TypeOK
    <3>5. CASE CTick \/ UNCHANGED cvars
      BY <3>1, <3>5, FlowAssumption DEF CTick, Tick, cvars, vars, state, TypeOK
    <3>6. ASSUME NEW s \in drafts, Broadcast(s) PROVE FALSE
      BY <3>1, <3>6 DEF Broadcast, ProposeAuto, TypeOK
    <3>7. CASE \/ BeginEvaluation \/ CarryOut \/ IgnoreResolution \/ CancelledTick
               \/ CRecompute \/ ApplySwap
      BY <3>1, <3>7 DEF BeginEvaluation, CarryOut, IgnoreResolution, CancelledTick, Resolution,
                        CRecompute, ApplySwap, TwinHandlesPlan
    <3> QED
      BY <1>6, <3>2, <3>3, <3>4, <3>5, <3>6, <3>7 DEF Cascade
  <2> QED
    BY <1>1, <1>2, <1>3, <1>4, <1>6, <2>1, UnseenKept
<1> QED
  BY <1>5, <1>6

\* Between cascades only a reset brings about what the watcher has to see.
LEMMA QuietUnseen ==
    ASSUME CTypeOK, OutsideFirst, Quiet, Environment
    PROVE  /\ ~Unseen /\ (Unseen' => CReset) /\ (CReset => unnoticed' \/ Unseen')
           /\ UNCHANGED <<warned, drafts>>
<1> USE DEF CTypeOK
<1>1. ~Unseen
  BY DEF Quiet, Unseen, RequestAhead, HeadIn
<1>2. UNCHANGED <<warned, drafts>>
  BY DEF Environment, InjectDelay, CrewSick, CHuman, CReset
<1>3. UNCHANGED vars => ~Unseen'
  BY <1>1 DEF vars, state, Unseen, RequestAhead, Rewound, HeadIn
<1>4. CASE \/ \E t \in Trains, m \in DelaySteps : InjectDelay(t, m)
           \/ \E c \in Crews : CrewSick(c)
  <2>1. UNCHANGED vars /\ UNCHANGED unnoticed
    BY <1>4 DEF InjectDelay, CrewSick
  <2>2. ready' = <<>>
    BY <2>1 DEF Quiet, vars, state
  <2>3. ~ CReset
    <3>1. CReset => ready' # ready
      <4>1. CReset => ready' = Append(<<>>, TickEvent(0, "request"))
        <5>1. [i \in 1 .. Len(ready) |-> CancelTick(ready[i])] = <<>>
          BY DEF Quiet
        <5> QED
          BY <5>1 DEF CReset, Reset, Halt
      <4>2. PICK e : e = TickEvent(0, "request")
        OBVIOUS
      <4>3. Append(<<>>, e) # <<>>
        OBVIOUS
      <4> QED
        BY <4>1, <4>2, <4>3 DEF Quiet
    <3> QED
      BY <2>2, <3>1 DEF Quiet
  <2> QED
    BY <1>1, <1>2, <1>3, <2>1, <2>3
<1>5. ASSUME NEW d \in Decisions, NEW s \in {"approved", "rejected"}, CHuman(d, s)
      PROVE  ~ Unseen' /\ ~ CReset
  <2>1. Disturbing /\ HumanResolve(d, s)
    BY <1>5 DEF CHuman, Disturbing
  <2>2. ~ Reset
    BY <2>1 DEF Reset, Halt, HumanResolve, TypeOK
  <2> QED
    BY <2>1, <2>2, UnseenDisturbed DEF CReset
<1>6. CASE CReset
  <2>1. Reset /\ Disturbing /\ unnoticed' = (lastTick <= 0)
    BY <1>6 DEF CReset, Disturbing
  <2>2. unnoticed' \/ Unseen'
    <3>1. CASE lastTick <= 0
      BY <2>1, <3>1, Zenon
    <3>2. CASE ~ (lastTick <= 0)
      <4>1. lastTick \in Int
        BY DEF TypeOK, Times, Absent
      <4>2. lastTick > 0
        BY <3>2, <4>1
      <4> QED
        BY <2>1, <4>2, UnseenDisturbed
    <3> QED
      BY <3>1, <3>2
  <2> QED
    BY <1>1, <1>2, <1>6, <2>2
<1> QED
  BY <1>1, <1>2, <1>4, <1>5, <1>6 DEF Environment

\* Every step keeps what comes from outside in front, and the reset ahead of the watcher.
LEMMA TicksStep == ASSUME CTypeOK, CTypeOK', TicksInv, [CNext]_cvars PROVE TicksInv'
<1> USE DEF TicksInv
<1>0. OutsideFirst'
  BY BurstsOfFlow, OutsideStep DEF CTypeOK
<1>1. CASE Cascade \/ CTick \/ UNCHANGED cvars
  BY <1>0, <1>1, CascadeUnseen DEF ResetSeen
<1>2. CASE Quiet /\ Environment
  BY <1>0, <1>2, QuietUnseen DEF ResetSeen, CReset
<1> QED
  BY <1>1, <1>2 DEF CNext

\* Initially the queue is empty and the watcher has seen no tick.
LEMMA TicksInit == CInit => TicksInv
BY OutsideInit DEF CInit, Init, TicksInv, ResetSeen
-----------------------------------------------------------------------------
(* Announcements. *)

\* What the agent has announced or is about to.
Announced(t, c) == [train |-> t, crew |-> c] \in drafts \cup told

\* Every swap the cooldown remembers was announced in this run, or a tick that shows the
\* reset is about to clear it; so was every swap the twin shows.
AnnouncedInv ==
    \/ unnoticed
    \/ /\ Unseen \/ \A t \in Trains, c \in Crews : warned[t][c] # Absent => Announced(t, c)
       /\ \A t \in Trains : crewOf[t] # FirstCrew[t] => Announced(t, crewOf[t])

\* Every step keeps the announcements in step with the swaps.
LEMMA AnnouncedStep ==
    ASSUME CTypeOK, CTypeOK', TicksInv, AnnouncedInv, [CNext]_cvars PROVE AnnouncedInv'
<1>a. ASSUME UNCHANGED <<warned, crewOf, unnoticed>>, Unseen => Unseen',
             drafts \cup told \subseteq drafts' \cup told'
      PROVE  AnnouncedInv'
  BY <1>a DEF AnnouncedInv, Announced
<1>1. CASE (Cascade \/ CTick \/ UNCHANGED cvars) /\ ~ CWatchReset /\ ~ ApplySwap
  <2>1. UNCHANGED <<warned, crewOf, unnoticed>> /\ (Unseen => Unseen')
    BY <1>1, CascadeUnseen DEF TicksInv
  <2>2. drafts \cup told \subseteq drafts' \cup told'
    BY <1>1 DEF Cascade, OnDelay, CPropose, CEndEvaluation, Broadcast, CRecompute, CTick, cvars, crewing
  <2> QED
    BY <1>a, <2>1, <2>2
<1>3. CASE CWatchReset
  <2>1. /\ UNCHANGED <<crewOf, drafts, told, unnoticed>>
        /\ warned' = IF Rewound THEN [t \in Trains |-> [c \in Crews |-> Absent]] ELSE warned
    BY <1>3 DEF CWatchReset
  <2>2. CASE Rewound
    <3>1. \A t \in Trains, c \in Crews : warned'[t][c] = Absent
      BY <2>1, <2>2
    <3> QED
      BY <2>1, <3>1 DEF AnnouncedInv, Announced
  <2>3. CASE ~ Rewound
    BY <2>1, <2>3 DEF AnnouncedInv, Announced, Unseen
  <2> QED
    BY <2>2, <2>3
<1>4. CASE ApplySwap
  <2>1. ~ Unseen
    BY <1>4 DEF ApplySwap, TwinHandlesPlan, Unseen, RequestAhead
  <2>2. Head(ready).option \in Options
    <3>1. Head(ready) \in Events /\ Head(ready).topic = "plan.executed"
      BY <1>4, HeadTypes DEF ApplySwap, TwinHandlesPlan, CTypeOK
    <3> QED
      BY <3>1 DEF Events
  <2>3. PICK t \in Trains, c \in Crews : Head(ready).option[1] = t /\ Head(ready).option[3] = c
    BY <2>2, CrewAssumption
  <2>4. /\ crewOf' = [crewOf EXCEPT ![t] = c] /\ UNCHANGED <<told, unnoticed>>
        /\ \/ Warned(t, c) /\ UNCHANGED <<warned, drafts>>
           \/ /\ warned' = [warned EXCEPT ![t][c] = clock]
              /\ drafts' = drafts \cup {[train |-> t, crew |-> c]}
    BY <1>4, <2>3 DEF ApplySwap, TwinHandlesPlan
  <2>5. \A u \in Trains, k \in Crews : Announced(u, k) => Announced(u, k)'
    BY <2>4 DEF Announced
  <2> SUFFICES ASSUME ~ unnoticed PROVE AnnouncedInv'
    BY <2>4 DEF AnnouncedInv
  <2>6. Announced(t, c)'
    BY <2>1, <2>4, <2>5 DEF AnnouncedInv, Announced, Warned
  <2>7. ASSUME NEW u \in Trains, NEW k \in Crews, warned'[u][k] # Absent PROVE Announced(u, k)'
    <3>1. CASE u = t /\ k = c
      BY <2>6, <3>1 DEF Announced
    <3>2. CASE ~ (u = t /\ k = c)
      <4>1. warned'[u][k] = warned[u][k]
        BY <2>4, <3>2 DEF CTypeOK
      <4> QED
        BY <2>1, <2>5, <2>7, <4>1 DEF AnnouncedInv
    <3> QED
      BY <3>1, <3>2
  <2>8. ASSUME NEW u \in Trains, crewOf'[u] # FirstCrew[u] PROVE Announced(u, crewOf[u])'
    <3>1. CASE u = t
      <4>1. crewOf'[u] = c
        BY <2>4, <3>1 DEF CTypeOK
      <4> QED
        BY <2>6, <3>1, <4>1 DEF Announced
    <3>2. CASE u # t
      <4>1. crewOf'[u] = crewOf[u] /\ crewOf[u] \in Crews
        BY <2>4, <3>2 DEF CTypeOK
      <4>2. Announced(u, crewOf[u])
        BY <2>8, <4>1 DEF AnnouncedInv
      <4> QED
        BY <2>5, <4>1, <4>2 DEF Announced
    <3> QED
      BY <3>1, <3>2
  <2> QED
    BY <2>7, <2>8 DEF AnnouncedInv
<1>5. CASE Quiet /\ Environment /\ ~ CReset
  <2>1. UNCHANGED <<warned, drafts>> /\ ~Unseen
    BY <1>5, QuietUnseen DEF TicksInv
  <2>2. UNCHANGED <<crewOf, told, unnoticed>>
    BY <1>5 DEF Environment, InjectDelay, CrewSick, CHuman
  <2> QED
    BY <1>a, <2>1, <2>2
<1>6. CASE Quiet /\ CReset
  <2>1. crewOf' = FirstCrew /\ (unnoticed' \/ Unseen')
    BY <1>6, QuietUnseen DEF CReset, TicksInv, Environment
  <2> QED
    BY <2>1 DEF AnnouncedInv
<1> QED
  BY <1>1, <1>3, <1>4, <1>5, <1>6 DEF CNext

\* Initially nothing was swapped.
LEMMA AnnouncedInit == CInit => AnnouncedInv
BY DEF CInit, AnnouncedInv

\* The passengers hear of every swap: at rest the crew of each train has been announced in
\* the run begun by the last reset that the watcher can notice.
THEOREM EverySwapAnnounced == CBurstSpec => []SwapsAnnounced
<1> DEFINE I == CTypeOK /\ TicksInv /\ AnnouncedInv
<1>1. CInit => I
  BY CTypesInit, TicksInit, AnnouncedInit
<1>2. I /\ [CNext]_cvars => I'
  BY CTypesStep, TicksStep, AnnouncedStep
<1>3. I => SwapsAnnounced
  BY DEF SwapsAnnounced, AtRest, AnnouncedInv, Announced
<1> QED
  BY <1>1, <1>2, <1>3, PTL DEF CBurstSpec, CNext
-----------------------------------------------------------------------------
(* The roster and the swaps, unless the operator approves what the orchestrator refused. *)

\* A swap (a train, its crew, the next one) is free when the next crew is spare and on no
\* train.
Free(o) == (\A t \in Trains : crewOf[t] # o[3]) /\ (unnoticed \/ Spare(o[3]))
FreeSwaps == {o \in Options : Free(o)}

\* A flow swaps the crew of its breach.
OfBreach(f) == \A o \in f.offered : o[1] = f.conflict[1] /\ o[2] = f.conflict[2]
ChosenOfBreach ==
    /\ \A f \in choosing : OfBreach(f)
    /\ \A d \in Decisions : HasRetry(d) => /\ ledger[d].chosen[1] = ledger[d].conflict[1]
                                           /\ ledger[d].chosen[2] = ledger[d].conflict[2]

RosterInv ==
    \A t, u \in Trains :
        /\ crewOf[t] = crewOf[u] => t = u \/ crewOf[t] \in lapsed
        /\ ~Spare(crewOf[t])
        /\ roster[crewOf[t]].status = "on_duty" =>
              roster[crewOf[t]].train = t \/ crewOf[t] \in lapsed

\* The crew that a flow, a decision or a swap on its way wants to relieve does not become a
\* spare one.
RelievesNoSpare ==
    /\ \A f \in choosing : unnoticed \/ ~Spare(f.conflict[2])
    /\ \A d \in Decisions : HasRetry(d) => unnoticed \/ Unseen \/ ~Spare(ledger[d].conflict[2])
    /\ \A i \in 1 .. Len(ready), o \in Options : MoveAt(i, o) => unnoticed \/ ~Spare(o[2])

\* Swaps are decided between spare crews, one per crew, on a sound roster, or for crews that
\* were given away again because the first commit lapsed.
CrewsInv == overruled \/ (RosterInv /\ RelievesNoSpare /\ PlansInv(FreeSwaps, given, lapsed))

\* A new flow is offered spare crews, for a breach found now or for one the operator rejected
\* a swap of.
LEMMA OffersMade ==
    ASSUME CTypeOK, [CNext]_cvars
    PROVE  \A f \in choosing' :
              \/ \E g \in choosing : f.offered = g.offered /\ f.conflict = g.conflict
              \/ /\ \E x : f.offered = Offered(f.conflict, x)
                 /\ \/ \E a \in alerts : f.conflict = <<a.train, crewOf[a.train], a.ahead>>
                    \/ /\ ready # <<>> /\ Head(ready).topic = "decision.resolved"
                       /\ \E d \in Decisions : HasRetry(d) /\ f.conflict = ledger[d].conflict
<1>1. ASSUME NEW a \in alerts, OnDelay(a), NEW f \in choosing', f \notin choosing
      PROVE  /\ f.offered = Offered(f.conflict, {})
             /\ f.conflict = <<a.train, crewOf[a.train], a.ahead>>
  <2> DEFINE c == <<a.train, crewOf[a.train], a.ahead>>
  <2>1. choosing' = choosing \/ OpenFlow(c, Offered(c, {}), {}, {}, FALSE)
    BY <1>1 DEF OnDelay, StartFlow, vars, state
  <2> HIDE DEF c
  <2>2. f.conflict = c /\ f.offered = Offered(c, {})
    BY <1>1, <2>1 DEF OpenFlow
  <2> QED
    BY <2>2 DEF c
<1>2. ASSUME CRecompute, NEW f \in choosing', f \notin choosing
      PROVE  /\ \E x : f.offered = Offered(f.conflict, x)
             /\ ready # <<>> /\ Head(ready).topic = "decision.resolved"
             /\ \E d \in Decisions : HasRetry(d) /\ f.conflict = ledger[d].conflict
  <2>1. PICK n \in Decisions : n = Head(ready).dec /\ HasRetry(n)
    BY <1>2, RetryTypes DEF CRecompute, CTypeOK
  <2>2. PICK c : c = ledger[n].conflict
    OBVIOUS
  <2>3. PICK x : x = ExcludedAfterReject(ledger[n])
    OBVIOUS
  <2>4. \E rej, st : OpenFlow(c, Offered(c, x), x, rej, st)
    BY <1>2, <2>1, <2>2, <2>3 DEF CRecompute, Recompute
  <2>5. f.conflict = c /\ f.offered = Offered(c, x)
    BY <1>2, <2>4 DEF OpenFlow
  <2> QED
    BY <1>2, <2>1, <2>2, <2>5 DEF CRecompute, Resolution
<1>3. CASE CWatchReset
  <2>1. \/ choosing' = choosing
        \/ choosing' = {[f EXCEPT !.stale = TRUE] : f \in choosing}
    BY <1>3 DEF CWatchReset, WatchReset
  <2>2. ASSUME NEW f \in choosing', NEW g \in choosing, f = [g EXCEPT !.stale = TRUE]
        PROVE  f.offered = g.offered /\ f.conflict = g.conflict
    BY <2>2 DEF CTypeOK, TypeOK, Flows
  <2> QED
    BY <2>1, <2>2
<1>4. ASSUME \/ \E f \in choosing : CPropose(f)
             \/ \E d \in Decisions : CEndEvaluation(d)
             \/ \E s \in drafts : Broadcast(s)
             \/ (BeginEvaluation \/ CarryOut \/ IgnoreResolution \/ CancelledTick) /\ UNCHANGED crewing
             \/ ApplySwap \/ CTick \/ Environment \/ UNCHANGED cvars
      PROVE  choosing' \subseteq choosing
  BY <1>4 DEF CPropose, ChooseFor, Propose, CEndEvaluation, EndEvaluation, Broadcast, ProposeAuto,
              BeginEvaluation, CarryOut, IgnoreResolution, CancelledTick, ApplySwap,
              TwinHandlesPlan, Environment, InjectDelay, CrewSick, CHuman, HumanResolve, CTick, Tick,
              CReset, Reset, Halt, cvars, vars, state
<1> QED
  BY <1>1, <1>2, <1>3, <1>4 DEF CNext, Cascade

\* A decision is made of what a flow is offered, for the conflict of the flow.
LEMMA RecordOfFlow ==
    ASSUME CTypeOK, CTypeOK', [CNext]_cvars, NEW d \in Decisions, HasRetry(d)',
           RetryKept(d) \/ (d = counter + 1 /\ counter' = d)
    PROVE  \/ RetryKept(d) /\ HasRetry(d)
           \/ \E f \in choosing : \E o \in f.offered :
                 ledger'[d].conflict = f.conflict /\ ledger'[d].chosen = o
<1>1. CASE RetryKept(d)
  BY <1>1 DEF RetryKept
<1>2. ASSUME d = counter + 1, NEW f \in choosing, CPropose(f)
      PROVE  \E o \in f.offered : ledger'[d].conflict = f.conflict /\ ledger'[d].chosen = o
  <2>1. PICK o \in f.offered : Propose(f, o)
    BY <1>2 DEF CPropose, ChooseFor
  <2> DEFINE rec == [conflict |-> f.conflict, chosen |-> o, excluded |-> f.excluded]
  <2>2. ledger' = [ledger EXCEPT ![d] = rec]
    BY <1>2, <2>1 DEF Propose
  <2>3. ledger'[d] = rec
    BY <2>2 DEF CTypeOK, TypeOK
  <2> QED
    BY <2>3
<1>3. ASSUME d = counter + 1, NEW s \in drafts, Broadcast(s) PROVE FALSE
  <2> DEFINE rec == [conflict |-> NoConflict, chosen |-> NoOption, excluded |-> {}]
  <2>1. ledger' = [ledger EXCEPT ![d] = rec]
    BY <1>3 DEF Broadcast, ProposeAuto
  <2>2. ledger'[d] = rec
    BY <2>1 DEF CTypeOK, TypeOK
  <2> QED
    BY <2>2 DEF HasRetry
<1>4. ASSUME ~ \E f \in choosing : CPropose(f), ~ \E s \in drafts : Broadcast(s)
      PROVE  counter' = counter
  BY <1>4 DEF CNext, Cascade, Environment, OnDelay, StartFlow, CEndEvaluation, EndEvaluation,
              BeginEvaluation, CarryOut, IgnoreResolution, CancelledTick, CRecompute, Recompute,
              ApplySwap, TwinHandlesPlan, CWatchReset, WatchReset, CounterAfterReset, InjectDelay,
              CrewSick, CHuman, HumanResolve, CTick, Tick, CReset, Reset, Halt, cvars, vars, state
<1>5. counter + 1 # counter
  BY DEF CTypeOK, TypeOK
<1> QED
  BY <1>1, <1>2, <1>3, <1>4, <1>5

\* The flows and their decisions stay those of their breaches.
LEMMA ChosenStep ==
    ASSUME CTypeOK, CTypeOK', [CNext]_cvars, ChosenOfBreach,
           \A d \in Decisions : RetryKept(d) \/ (d = counter + 1 /\ counter' = d)
    PROVE  ChosenOfBreach'
<1>1. ASSUME NEW f \in choosing' PROVE OfBreach(f)
  <2>1. CASE \E g \in choosing : f.offered = g.offered /\ f.conflict = g.conflict
    BY <2>1 DEF ChosenOfBreach, OfBreach
  <2>2. CASE \E x : f.offered = Offered(f.conflict, x)
    BY <2>2 DEF Offered, OfBreach
  <2> QED
    BY <2>1, <2>2, OffersMade
<1>2. ASSUME NEW d \in Decisions, HasRetry(d)'
      PROVE  /\ ledger'[d].chosen[1] = ledger'[d].conflict[1]
             /\ ledger'[d].chosen[2] = ledger'[d].conflict[2]
  BY <1>2, RecordOfFlow DEF ChosenOfBreach, OfBreach, RetryKept
<1> QED
  BY <1>1, <1>2 DEF ChosenOfBreach

\* The operator's approval of a plan that is still pending is what `overruled' is about.
LEMMA NotOverruled ==
    ASSUME CTypeOK, [CNext]_cvars, ~ overruled', NEW d \in Decisions, HumanResolve(d, "approved")
    PROVE  pending[d] = NoOption
<1>1. requests' # requests
  BY DEF HumanResolve, CTypeOK, TypeOK
<1>2. PICK n \in Decisions, s \in {"approved", "rejected"} : CHuman(n, s)
  BY <1>1 DEF CNext, Cascade, Environment, OnDelay, StartFlow, CPropose, ChooseFor, Propose,
              CEndEvaluation, EndEvaluation, Broadcast, ProposeAuto, BeginEvaluation, CarryOut,
              IgnoreResolution, CancelledTick, CRecompute, Recompute, ApplySwap, TwinHandlesPlan,
              CWatchReset, WatchReset, InjectDelay, CrewSick, CTick, Tick, CReset, Reset, Halt,
              cvars, vars, state
<1>3. n = d /\ s = "approved"
  <2>1. \A x \in Decisions, y \in {"approved", "rejected"} : ResolvedEvent(x, y, "human") \in Events
    BY DEF Events, ResolvedEvent
  <2>2. /\ ready' = Append(ready, ResolvedEvent(d, "approved", "human"))
        /\ ready' = Append(ready, ResolvedEvent(n, s, "human"))
    BY <1>2 DEF CHuman, HumanResolve, Verdict, Publish
  <2>3. ResolvedEvent(d, "approved", "human") = ResolvedEvent(n, s, "human")
    BY <2>1, <2>2, AppendAt DEF CTypeOK
  <2> QED
    BY <2>3 DEF ResolvedEvent
<1> QED
  BY <1>2, <1>3 DEF CHuman

\* Only a reset makes the system forget that the operator overruled the orchestrator.
LEMMA ForgottenByReset ==
    ASSUME [CNext]_cvars, overruled, ~ overruled' PROVE Quiet /\ CReset
BY DEF CNext, Cascade, Environment, OnDelay, CPropose, CEndEvaluation, Broadcast, CRecompute,
       ApplySwap, CWatchReset, InjectDelay, CrewSick, CHuman, CTick, cvars, crewing

\* The swap that the twin applies is free, or its crew was given away twice.
LEMMA SwapTaken ==
    ASSUME CTypeOK, PlansInv(FreeSwaps, given, lapsed), ApplySwap
    PROVE  \E o \in Options :
              /\ o = Head(ready).option /\ (Free(o) \/ o[3] \in lapsed)
              /\ 1 \in 1 .. Len(ready) /\ MoveAt(1, o)
              /\ o[1] \in Trains /\ o[2] \in Crews /\ o[3] \in Crews
              /\ crewOf' = [crewOf EXCEPT ![o[1]] = o[3]]
              /\ roster'[o[3]].status = "on_duty" /\ roster'[o[3]].train = o[1]
              /\ o[2] # o[3] => roster'[o[2]].status = "off_duty"
              /\ \A c \in Crews : c \notin {o[2], o[3]} => roster'[c] = roster[c]
<1>1. /\ ready # <<>> /\ Head(ready).topic = "plan.executed" /\ Head(ready) = ready[1]
      /\ 1 \in 1 .. Len(ready) /\ Head(ready) \in Events
  BY HeadTypes, TailAt DEF CTypeOK, ApplySwap, TwinHandlesPlan
<1>2. PICK o \in Options : o = Head(ready).option
  BY <1>1 DEF Events
<1>3. MoveAt(1, o)
  BY <1>1, <1>2 DEF MoveAt
<1>4. Free(o) \/ o[3] \in lapsed
  BY <1>1, <1>3, CrewAssumption DEF PlansInv, FreeSwaps
<1>5. o[1] \in Trains /\ o[2] \in Crews /\ o[3] \in Crews
  BY CrewAssumption
<1>6. crewOf' = [crewOf EXCEPT ![o[1]] = o[3]] /\ roster' = Swapped(o[1], o[2], o[3])
  BY <1>2 DEF ApplySwap
<1>7. PICK t \in Trains, old \in Crews, next \in Crews : t = o[1] /\ old = o[2] /\ next = o[3]
  BY <1>5
<1>8. /\ roster'[next].status = "on_duty" /\ roster'[next].train = t
      /\ old # next => roster'[old].status = "off_duty"
      /\ \A c \in Crews : c \notin {old, next} => roster'[c] = roster[c]
  BY <1>6, <1>7, SwappedTypes
<1> QED
  BY <1>1, <1>2, <1>3, <1>4, <1>5, <1>6, <1>7, <1>8

\* Only a reset makes a crew a spare one.
LEMMA SpareKept ==
    ASSUME CTypeOK, [CNext]_cvars, ~ (Quiet /\ CReset)
    PROVE  /\ \A c \in Crews : Spare(c)' => Spare(c)
           /\ unnoticed' = unnoticed
<1>1. CASE ApplySwap
  <2>1. PICK o \in Options : o = Head(ready).option
    <3>1. Head(ready) \in Events
      BY <1>1, HeadTypes DEF CTypeOK, ApplySwap, TwinHandlesPlan
    <3> QED
      BY <1>1, <3>1 DEF Events, ApplySwap, TwinHandlesPlan
  <2>2. o[1] \in Trains /\ o[2] \in Crews /\ o[3] \in Crews
    BY CrewAssumption
  <2>3. roster' = Swapped(o[1], o[2], o[3]) /\ unnoticed' = unnoticed
    BY <1>1, <2>1 DEF ApplySwap
  <2>4. /\ roster'[o[3]].status = "on_duty"
        /\ o[2] # o[3] => roster'[o[2]].status = "off_duty"
        /\ \A c \in Crews : c \notin {o[2], o[3]} => roster'[c] = roster[c]
    BY <2>2, <2>3, SwappedTypes
  <2> QED
    BY <2>3, <2>4 DEF Spare
<1>2. CASE \E c \in Crews : CrewSick(c)
  BY <1>2 DEF CrewSick, CTypeOK, Spare
<1>3. ASSUME ~ ApplySwap, ~ \E c \in Crews : CrewSick(c) PROVE UNCHANGED <<roster, unnoticed>>
  BY <1>3 DEF CNext, Cascade, Environment, OnDelay, CPropose, CEndEvaluation, Broadcast, CRecompute,
              CWatchReset, InjectDelay, CHuman, CTick, cvars, crewing
<1> QED
  BY <1>1, <1>2, <1>3 DEF Spare

\* As seeded every train has a crew of its own on duty, and the tick on its way to the watcher
\* shows the reset, or never will.
LEMMA CrewsReset ==
    ASSUME CTypeOK, OutsideFirst, Quiet, CReset,
           \A d \in Decisions : HumanResolve(d, "approved") => pending[d] = NoOption
    PROVE  RosterInv' /\ RelievesNoSpare'
<1>1. /\ crewOf' = FirstCrew /\ roster' = SeedRoster /\ choosing' = {}
  BY DEF CReset, Reset, Halt, Quiet
<1>2. RosterInv'
  BY <1>1, SeedTypes, CrewAssumption DEF RosterInv, Spare
<1>3. unnoticed' \/ Unseen'
  BY QuietUnseen DEF Environment
<1>4. \A i \in 1 .. Len(ready'), o \in Options : ~ MoveAt(i, o)'
  <2>1. PlansInv({}, {}, {})
    BY DEF Quiet, PlansInv, Undecided, ProposedAt, MoveAt, ApprovedAt
  <2> QED
    BY <2>1, PlansDisturbed DEF CReset, Disturbing, CTypeOK
<1> QED
  BY <1>1, <1>2, <1>3, <1>4 DEF RelievesNoSpare

\* Only a reset forgets which crews were given away twice.
LEMMA LapsedKept ==
    ASSUME [CNext]_cvars, ~ (Quiet /\ CReset) PROVE lapsed \subseteq lapsed'
BY DEF CNext, Cascade, Environment, OnDelay, CPropose, CEndEvaluation, Broadcast, CRecompute,
       ApplySwap, CWatchReset, InjectDelay, CrewSick, CHuman, CTick, cvars, crewing

\* Every step keeps each crew on one train, unless it was given away twice, and each train
\* without a spare one.
LEMMA RosterStep ==
    ASSUME CTypeOK, RosterInv, PlansInv(FreeSwaps, given, lapsed), [CNext]_cvars,
           ~ (Quiet /\ CReset)
    PROVE  RosterInv'
<1>0. lapsed \subseteq lapsed'
  BY LapsedKept
<1>1. CASE ApplySwap
  <2>1. PICK o \in Options :
           /\ Free(o) \/ o[3] \in lapsed
           /\ o[1] \in Trains /\ o[2] \in Crews /\ o[3] \in Crews
           /\ crewOf' = [crewOf EXCEPT ![o[1]] = o[3]]
           /\ roster'[o[3]].status = "on_duty" /\ roster'[o[3]].train = o[1]
           /\ o[2] # o[3] => roster'[o[2]].status = "off_duty"
           /\ \A c \in Crews : c \notin {o[2], o[3]} => roster'[c] = roster[c]
    BY <1>1, SwapTaken
  <2>2. PICK t \in Trains, old \in Crews, next \in Crews : t = o[1] /\ old = o[2] /\ next = o[3]
    BY <2>1
  <2>3. /\ roster'[next].status = "on_duty" /\ roster'[next].train = t
        /\ old # next => roster'[old].status = "off_duty"
        /\ \A c \in Crews : c \notin {old, next} => roster'[c] = roster[c]
    BY <2>1, <2>2
  <2>4. \A u \in Trains : /\ crewOf'[u] = IF u = t THEN next ELSE crewOf[u]
                          /\ crewOf[u] # next \/ next \in lapsed'
                          /\ crewOf[u] \in Crews
    BY <1>0, <2>1, <2>2 DEF CTypeOK, Free
  <2>5. ASSUME NEW u \in Trains
        PROVE  /\ ~Spare(crewOf[u])'
               /\ roster'[crewOf'[u]].status = "on_duty" =>
                     roster'[crewOf'[u]].train = u \/ crewOf'[u] \in lapsed'
    <3>1. CASE u = t \/ crewOf[u] = next
      BY <2>3, <2>4, <3>1 DEF Spare
    <3>2. CASE u # t /\ crewOf[u] = old /\ crewOf[u] # next
      BY <2>3, <2>4, <3>2 DEF Spare
    <3>3. CASE u # t /\ crewOf[u] # old /\ crewOf[u] # next
      <4>1. roster'[crewOf'[u]] = roster[crewOf[u]] /\ crewOf'[u] = crewOf[u]
        BY <2>3, <2>4, <3>3
      <4> QED
        BY <1>0, <2>4, <3>3, <4>1 DEF RosterInv, Spare
    <3> QED
      BY <3>1, <3>2, <3>3
  <2>6. ASSUME NEW u \in Trains, NEW v \in Trains, crewOf'[u] = crewOf'[v]
        PROVE  u = v \/ crewOf'[u] \in lapsed'
    BY <1>0, <2>4, <2>6 DEF RosterInv
  <2> QED
    BY <2>5, <2>6 DEF RosterInv
<1>2. CASE ~ ApplySwap
  <2>1. /\ crewOf' = crewOf
        /\ \A c \in Crews : roster'[c] = roster[c] \/ roster'[c].status = "off_duty"
    <3>1. CASE \E c \in Crews : CrewSick(c)
      BY <3>1 DEF CrewSick, CTypeOK
    <3>2. CASE ~ \E c \in Crews : CrewSick(c)
      <4>1. UNCHANGED <<crewOf, roster>>
        BY <1>2, <3>2 DEF CNext, Cascade, Environment, OnDelay, CPropose, CEndEvaluation, Broadcast,
                    CRecompute, CWatchReset, InjectDelay, CHuman, CTick, cvars, crewing
      <4> QED
        BY <4>1
    <3> QED
      BY <3>1, <3>2
  <2>2. ASSUME NEW t \in Trains, NEW u \in Trains
        PROVE  /\ crewOf'[t] = crewOf'[u] => t = u \/ crewOf'[t] \in lapsed'
               /\ ~Spare(crewOf[t])'
               /\ roster'[crewOf'[t]].status = "on_duty" =>
                     roster'[crewOf'[t]].train = t \/ crewOf'[t] \in lapsed'
    <3>1. crewOf[t] \in Crews /\ crewOf'[t] = crewOf[t] /\ crewOf'[u] = crewOf[u]
      BY <2>1 DEF CTypeOK
    <3> QED
      BY <1>0, <2>1, <3>1 DEF RosterInv, Spare
  <2> QED
    BY <2>2 DEF RosterInv
<1> QED
  BY <1>1, <1>2

\* A flow is of a breach whose crew is no spare one; what is offered anew are spare crews.
LEMMA OffersRelieve ==
    ASSUME CTypeOK, TicksInv, RosterInv, RelievesNoSpare, [CNext]_cvars, NEW f \in choosing'
    PROVE  /\ unnoticed \/ ~ Spare(f.conflict[2])
           /\ \/ \E g \in choosing : f.offered = g.offered
              \/ \E x : f.offered = Offered(f.conflict, x)
<1>1. CASE \E g \in choosing : f.offered = g.offered /\ f.conflict = g.conflict
  BY <1>1 DEF RelievesNoSpare
<1>2. ASSUME NEW a \in alerts, f.conflict = <<a.train, crewOf[a.train], a.ahead>>
      PROVE  ~ Spare(f.conflict[2])
  BY <1>2, BreachTypes DEF RosterInv
<1>3. ASSUME ready # <<>>, Head(ready).topic = "decision.resolved",
             NEW d \in Decisions, HasRetry(d), f.conflict = ledger[d].conflict
      PROVE  unnoticed \/ ~ Spare(f.conflict[2])
  BY <1>3 DEF RelievesNoSpare, Unseen, RequestAhead
<1> QED
  BY <1>1, <1>2, <1>3, OffersMade

\* A crew to be relieved is one of a train; it stays so until the tick that shows the reset.
LEMMA RelievesStep ==
    ASSUME CTypeOK, CTypeOK', FlowInv, TicksInv, DecidedOnce, ChosenOfBreach, RosterInv,
           RelievesNoSpare, [CNext]_cvars, ~ (Quiet /\ CReset),
           \A d \in Decisions : RetryKept(d) \/ (d = counter + 1 /\ counter' = d),
           \A d \in Decisions : HumanResolve(d, "approved") => pending[d] = NoOption
    PROVE  RelievesNoSpare'
<1>1. (\A c \in Crews : Spare(c)' => Spare(c)) /\ unnoticed' = unnoticed
  BY SpareKept
<1>2. (\A b \in Conflicts : b[2] \in Crews) /\ (\A o \in Options : o[2] \in Crews)
  BY CrewAssumption
<1>3. ASSUME NEW f \in choosing' PROVE unnoticed' \/ ~ Spare(f.conflict[2])'
  <2>1. f.conflict \in Conflicts
    BY DEF CTypeOK, TypeOK, Flows
  <2>2. unnoticed \/ ~ Spare(f.conflict[2])
    BY OffersRelieve
  <2> QED
    BY <1>1, <1>2, <2>1, <2>2
<1>4. ASSUME NEW d \in Decisions, HasRetry(d)', Unseen PROVE Unseen'
  <2>1. CASE CWatchReset
    <3>1. ledger'[d] = NoRecord
      BY <1>4, <2>1 DEF CWatchReset, WatchReset, Unseen
    <3> QED
      BY <1>4, <3>1 DEF HasRetry
  <2>2. CASE (Cascade \/ CTick \/ UNCHANGED cvars) /\ ~ CWatchReset
    BY <1>4, <2>2, CascadeUnseen DEF TicksInv
  <2>3. CASE Quiet /\ Environment
    BY <1>4, <2>3, QuietUnseen DEF TicksInv
  <2> QED
    BY <2>1, <2>2, <2>3 DEF CNext
<1>5. ASSUME NEW d \in Decisions, HasRetry(d)'
      PROVE  (unnoticed \/ Unseen \/ ~ Spare(ledger[d].conflict[2]))'
  <2>1. ledger'[d].conflict \in Conflicts
    BY <1>5 DEF CTypeOK, TypeOK, Records, HasRetry
  <2>2. unnoticed \/ Unseen \/ ~ Spare(ledger'[d].conflict[2])
    BY <1>5, RecordOfFlow DEF RelievesNoSpare, RetryKept
  <2>3. PICK c \in Crews : c = ledger'[d].conflict[2]
    BY <1>2, <2>1
  <2>4. unnoticed' \/ Unseen' \/ ~ Spare(c)'
    BY <1>1, <1>4, <1>5, <2>2, <2>3
  <2> QED
    BY <2>3, <2>4 DEF Spare
<1>6. ASSUME NEW i \in 1 .. Len(ready'), NEW o \in Options, MoveAt(i, o)'
      PROVE  (unnoticed \/ ~ Spare(o[2]))'
  <2>1. \/ \E j \in 1 .. Len(ready) : MoveAt(j, o)
        \/ \E d \in Decisions : evaluating[d] # Absent /\ HasRetry(d) /\ ledger[d].chosen = o
    BY <1>6, BurstsOfFlow, MoveOrigin DEF TicksInv
  <2>2. ASSUME NEW d \in Decisions, evaluating[d] # Absent, HasRetry(d), ledger[d].chosen = o
        PROVE  unnoticed \/ ~ Spare(o[2])
    <3>1. ~ Unseen
      BY <2>2 DEF TicksInv, OutsideFirst, Unseen, RequestAhead
    <3> QED
      BY <2>2, <3>1 DEF RelievesNoSpare, ChosenOfBreach
  <2>3. unnoticed \/ ~ Spare(o[2])
    BY <2>1, <2>2 DEF RelievesNoSpare
  <2> QED
    BY <1>1, <1>2, <2>3
<1> QED
  BY <1>3, <1>5, <1>6 DEF RelievesNoSpare

\* What a step gives away: an approval its crew, a second time when the commit of the first
\* has lapsed.
LEMMA GivesStep ==
    ASSUME CTypeOK, CTypeOK', OutsideFirst, [CNext]_cvars,
           NEW T, NEW U, NEW L, NEW M, T = given, U = given', L = lapsed, M = lapsed'
    PROVE  \/ Gives(T, U, L, M)
           \/ Quiet /\ UNCHANGED vars /\ U = {}
<1> USE DEF CTypeOK
<1>1. CASE Cascade \/ CTick \/ UNCHANGED cvars
  <2>1. ~ (Quiet /\ Disturbing)
    BY <1>1, CascadesOfFlow, CascadesDisturbNothing
  <2>2. ASSUME NEW d \in Decisions, CEndEvaluation(d) PROVE Gives(T, U, L, M)
    <3>1. /\ EndEvaluation(d)
          /\ evaluating' = [evaluating EXCEPT ![d] = Absent]
          /\ IF audit'[d].status = "approved"
             THEN U = T \cup Takes(d) /\ M = L \cup (T \cap TakesLapsed(d))
             ELSE U = T /\ M = L
      BY <2>2 DEF CEndEvaluation, EndEvaluation
    <3>2. ASSUME NEW n \in Decisions, EndEvaluation(n) PROVE n = d
      <4>1. evaluating[n] # Absent /\ evaluating'[n] = Absent
        BY <3>2 DEF EndEvaluation, TypeOK
      <4> QED
        BY <3>1, <4>1 DEF TypeOK
    <3>3. CASE audit'[d].status = "approved"
      BY <3>1, <3>3 DEF Gives
    <3>4. CASE audit'[d].status # "approved"
      BY <2>1, <3>1, <3>2, <3>4 DEF Gives
    <3> QED
      BY <3>3, <3>4
  <2>3. CASE ~ \E d \in Decisions : CEndEvaluation(d)
    <3>1. U = T /\ M = L
      BY <1>1, <2>3 DEF Cascade, OnDelay, CPropose, Broadcast, CRecompute, ApplySwap, CWatchReset,
                        CTick, cvars, crewing
    <3>2. ASSUME NEW n \in Decisions, EndEvaluation(n) PROVE FALSE
      <4>1. evaluating[n] # Absent /\ evaluating'[n] = Absent /\ clock # Absent
        BY <3>2 DEF EndEvaluation, TypeOK, Absent
      <4>2. CASE BeginEvaluation
        BY <4>1, <4>2 DEF BeginEvaluation, TypeOK
      <4>3. CASE ~ BeginEvaluation
        BY <1>1, <2>3, <4>1, <4>3
           DEF Cascade, OnDelay, StartFlow, CPropose, ChooseFor, Propose, Broadcast, ProposeAuto,
               CarryOut, IgnoreResolution, CancelledTick, CRecompute, Recompute, ApplySwap,
               TwinHandlesPlan, CWatchReset, WatchReset, CTick, Tick, cvars, vars, state
      <4> QED
        BY <4>2, <4>3
    <3> QED
      BY <2>1, <3>1, <3>2 DEF Gives
  <2> QED
    BY <2>2, <2>3
<1>2. CASE Quiet /\ Environment
  <2>1. CASE UNCHANGED vars /\ given' = {}
    BY <1>2, <2>1
  <2>2. CASE \E d \in Decisions, s \in {"approved", "rejected"} : CHuman(d, s)
    <3>1. Disturbing /\ U = {}
      BY <2>2 DEF CHuman, Disturbing
    <3> QED
      BY <1>2, <3>1 DEF Gives
  <2>3. CASE CReset
    BY <1>2, <2>3 DEF CReset, Disturbing, Gives
  <2> QED
    BY <1>2, <2>1, <2>2, <2>3 DEF Environment, InjectDelay, CrewSick
<1> QED
  BY <1>1, <1>2 DEF CNext

\* A swap leaves the swaps for other crews as free as they were.
LEMMA SwapKeepsFree ==
    ASSUME CTypeOK, RelievesNoSpare, PlansInv(FreeSwaps, given, lapsed), [CNext]_cvars, ApplySwap,
           NEW x \in Options, Free(x), ResourceOf[x] # ResourceOf[Head(ready).option]
    PROVE  Free(x)'
<1>1. PICK o \in Options :
         /\ o = Head(ready).option /\ 1 \in 1 .. Len(ready) /\ MoveAt(1, o)
         /\ o[1] \in Trains /\ o[2] \in Crews /\ o[3] \in Crews
         /\ crewOf' = [crewOf EXCEPT ![o[1]] = o[3]]
         /\ \A c \in Crews : c \notin {o[2], o[3]} => roster'[c] = roster[c]
  BY SwapTaken
<1>2. unnoticed' = unnoticed
  BY DEF ApplySwap
<1>3. x[3] \in Crews /\ x[3] # o[3]
  BY <1>1, CrewAssumption
<1>4. \A t \in Trains : crewOf'[t] # x[3]
  BY <1>1, <1>3 DEF Free, CTypeOK
<1>5. unnoticed \/ x[3] # o[2]
  BY <1>1 DEF Free, RelievesNoSpare
<1>6. unnoticed \/ Spare(x[3])'
  BY <1>1, <1>3, <1>5 DEF Free, Spare
<1> QED
  BY <1>2, <1>4, <1>6 DEF Free

\* What is offered, proposed or approved is a swap for a spare crew, on a sound roster, or
\* for a crew that was given away.
LEMMA SwapsStep ==
    ASSUME CTypeOK, CTypeOK', FlowInv, TicksInv, DecidedOnce, ChosenOfBreach, CrewsInv,
           [CNext]_cvars, \A d \in Decisions : RetryKept(d) \/ (d = counter + 1 /\ counter' = d)
    PROVE  CrewsInv'
<1> USE DEF CTypeOK, TicksInv
<1> SUFFICES ASSUME ~ overruled'
             PROVE  (RosterInv /\ RelievesNoSpare /\ PlansInv(FreeSwaps, given, lapsed))'
  BY DEF CrewsInv
<1>1. PICK F, G, T, U, L, M : /\ F = FreeSwaps /\ G = FreeSwaps' /\ T = given /\ U = given'
                              /\ L = lapsed /\ M = lapsed'
  OBVIOUS
<1>2. SUFFICES (RosterInv /\ RelievesNoSpare)' /\ PlansInv(G, U, M)'
  BY <1>1 DEF PlansInv, MayTake
<1>3. \A d \in Decisions : HumanResolve(d, "approved") => pending[d] = NoOption
  BY NotOverruled
<1>4. CASE Quiet /\ CReset
  <2>1. Quiet /\ Disturbing /\ U = {}
    BY <1>1, <1>4 DEF CReset, Disturbing
  <2>2. PlansInv({}, {}, {})
    BY <2>1 DEF Quiet, PlansInv, Undecided, ProposedAt, MoveAt, ApprovedAt
  <2>3. PlansInv(G, U, M)'
    BY <1>3, <2>1, <2>2, PlansDisturbed
  <2> QED
    BY <1>3, <1>4, <2>3, CrewsReset
<1>5. CASE ~ (Quiet /\ CReset)
  <2>1. ~ overruled
    BY <1>5, ForgottenByReset
  <2>2. RosterInv /\ RelievesNoSpare /\ PlansInv(F, T, L) /\ PlansInv(FreeSwaps, given, lapsed)
    BY <1>1, <2>1 DEF CrewsInv
  <2>3. (RosterInv /\ RelievesNoSpare)'
    BY <1>3, <1>5, <2>2, RosterStep, RelievesStep
  <2>4. CASE Quiet /\ UNCHANGED vars /\ U = {}
    BY <2>3, <2>4 DEF Quiet, vars, state, PlansInv, Undecided, ProposedAt, MoveAt, ApprovedAt, Freeing,
                      HeadIn
  <2>5. \A f \in choosing' : f.offered \subseteq F \/ \E g \in choosing : f.offered = g.offered
    <3> SUFFICES ASSUME NEW f \in choosing', NEW x, f.offered = Offered(f.conflict, x),
                        unnoticed \/ ~ Spare(f.conflict[2])
                 PROVE  f.offered \subseteq F
      BY <2>2, OffersRelieve
    <3>1. f.conflict \in Conflicts
      BY DEF TypeOK, Flows
    <3>2. ASSUME NEW o \in f.offered PROVE o \in Options /\ Free(o)
      <4>1. o \in Options /\ o[3] \in Crews /\ Spare(o[3])
        <5>1. Offered(f.conflict, x) \in SUBSET Options
          BY <3>1, OfferedOptions
        <5>2. f.conflict[3] \subseteq Crews
          BY <3>1, CrewAssumption
        <5> QED
          BY <5>1, <5>2 DEF Offered
      <4>2. \A t \in Trains : crewOf[t] # o[3]
        BY <2>2, <4>1 DEF RosterInv
      <4> QED
        BY <4>1, <4>2 DEF Free
    <3> QED
      BY <1>1, <3>2 DEF FreeSwaps
  <2>6. CASE Gives(T, U, L, M) /\ ~ (Quiet /\ UNCHANGED vars /\ U = {})
    <3>1. ASSUME ApplySwap
          PROVE  /\ TwinHandlesPlan
                 /\ \A x \in F : x \in Options /\ ResourceOf[x] # ResourceOf[Head(ready).option] => x \in G
      <4>1. ASSUME NEW x \in F, x \in Options, ResourceOf[x] # ResourceOf[Head(ready).option]
            PROVE  x \in G
        <5>1. Free(x)'
          BY <1>1, <2>2, <3>1, <4>1, SwapKeepsFree DEF FreeSwaps
        <5> QED
          BY <1>1, <4>1, <5>1 DEF FreeSwaps
      <4> QED
        BY <3>1, <4>1 DEF ApplySwap
    <3>2. (Quiet /\ Disturbing) \/ F \subseteq G \/ ApplySwap
      <4>1. CASE Quiet /\ Environment
        BY <1>1, <2>6, <4>1, DisturbancesOfFlow
      <4>2. CASE ((Cascade \/ CTick) /\ ~ ApplySwap) \/ UNCHANGED cvars
        <5>1. UNCHANGED <<crewOf, roster, unnoticed>>
          BY <4>2, CascadeUnseen DEF cvars, crewing
        <5>2. \A o : Free(o)' <=> Free(o)
          BY <5>1 DEF Free, Spare
        <5> QED
          BY <1>1, <5>2 DEF FreeSwaps
      <4> QED
        BY <4>1, <4>2 DEF CNext
    <3>3. [InBursts]_vars
      BY BurstsOfFlow
    <3>4. PlansInv(G, U, M)'
      BY <1>3, <2>2, <2>5, <2>6, <3>1, <3>2, <3>3, PlansStep
    <3> QED
      BY <2>3, <3>4
  <2> QED
    BY <1>1, <2>4, <2>6, GivesStep
<1> QED
  BY <1>4, <1>5

\* The inductive invariant of bursts: types, decisions at one place each, what comes from
\* outside goes first, swaps decided between spare crews only, one per crew and on a sound
\* roster, until the operator overrules a refusal or a commit lapses.
CrewInv == CTypeOK /\ FlowInv /\ TicksInv /\ DecidedOnce /\ ChosenOfBreach /\ CrewsInv

\* Every step of a burst keeps the whole invariant.
LEMMA CrewInvStep == ASSUME CrewInv, FlowInv', [CNext]_cvars PROVE CrewInv'
<1> USE DEF CrewInv
<1>1. CTypeOK' /\ TypeOK /\ TypeOK'
  BY CTypesStep DEF CTypeOK
<1>2. [InBursts]_vars
  BY BurstsOfFlow
<1>3. TicksInv'
  BY <1>1, TicksStep
<1>4. DecidedOnce' /\ \A d \in Decisions : RetryKept(d) \/ (d = counter + 1 /\ counter' = d)
  BY <1>1, <1>2, DecidedStep DEF TicksInv
<1>5. ChosenOfBreach' /\ CrewsInv'
  BY <1>1, <1>4, ChosenStep, SwapsStep
<1> QED
  BY <1>1, <1>3, <1>4, <1>5

\* The invariant holds initially.
LEMMA CrewInvInit == CInit => CrewInv
<1> SUFFICES ASSUME CInit PROVE CrewInv
  OBVIOUS
<1>1. /\ ready = <<>> /\ choosing = {} /\ Init
      /\ \A d \in Decisions : evaluating[d] = Absent /\ ledger[d] = NoRecord /\ pending[d] = NoOption
  BY DEF CInit, Init
<1>2. DecidedOnce /\ ChosenOfBreach /\ RelievesNoSpare
  BY <1>1 DEF DecidedOnce, ChosenOfBreach, RelievesNoSpare, HasRetry, Undecided, ProposedAt
<1>3. PlansInv(FreeSwaps, given, lapsed)
  BY <1>1 DEF CInit, PlansInv, Undecided, ProposedAt, MoveAt, ApprovedAt, Freeing, HeadIn
<1>4. RosterInv
  BY SeedTypes, CrewAssumption DEF CInit, RosterInv, Spare
<1> QED
  BY <1>1, <1>2, <1>3, <1>4, CTypesInit, TicksInit, FlowInvInit DEF CrewInv, CrewsInv

\* The invariant holds throughout, however far the clock goes on while flows choose and
\* proposals are evaluated.
THEOREM CrewInvariant == CBurstSpec => []CrewInv
<1>1. CrewInv /\ FlowInv' /\ [CNext]_cvars => CrewInv'
  BY CrewInvStep
<1>2. CBurstSpec => []FlowInv
  BY CrewIsFlow, FlowInvariant, PTL
<1> QED
  BY <1>1, <1>2, CrewInvInit, PTL DEF CBurstSpec, CNext

\* Only a swap relieves a crew while the queue gets shorter.
LEMMA RelievedBySwap ==
    ASSUME [CNext]_cvars, NEW t \in Trains, Relieved(t)
    PROVE  ApplySwap
<1>1. CASE Quiet /\ CReset
  <2>1. ready = <<>>
    BY <1>1 DEF Quiet
  <2>2. [i \in 1 .. Len(ready) |-> CancelTick(ready[i])] = <<>>
    BY <2>1
  <2>3. ready' = Append(<<>>, TickEvent(0, "request"))
    BY <1>1, <2>2 DEF CReset, Reset, Halt
  <2>4. Len(ready') = 1 /\ Len(ready) = 0
    BY <2>1, <2>3
  <2> QED
    BY <2>4 DEF Relieved
<1>2. crewOf' # crewOf
  BY DEF Relieved
<1> QED
  BY <1>1, <1>2 DEF CNext, Cascade, OnDelay, CPropose, CEndEvaluation, Broadcast, CRecompute,
                    CWatchReset, Environment, InjectDelay, CrewSick, CHuman, CTick, cvars, crewing

\* No two trains have one crew and none has a spare one, across swaps, sick crews, resets and
\* the operator's rejections, however far the clock goes on meanwhile, unless he approved a
\* swap the orchestrator had refused, or the crew was given away again after its first commit
\* had lapsed.
THEOREM OneTrainPerCrew == CBurstSpec => []NoDoubleDuty
<1>1. CrewInv => NoDoubleDuty
  BY DEF CrewInv, CrewsInv, RosterInv, NoDoubleDuty
<1> QED
  BY <1>1, CrewInvariant, PTL

\* Every crew that a swap puts on a train is a spare one at that moment, unless the operator
\* overruled the orchestrator, the reset before it was one the watcher cannot notice, or the
\* crew was given away again after its first commit had lapsed.
THEOREM SparesTakenOnly == CBurstSpec => SwapsTakeSpares
<1>1. ASSUME CrewInv, [CNext]_cvars
      PROVE  \A t \in Trains : Relieved(t) =>
                overruled \/ unnoticed \/ crewOf'[t] \in lapsed \/ Spare(crewOf'[t])
  <2> SUFFICES ASSUME NEW t \in Trains, Relieved(t), ~ overruled
               PROVE  unnoticed \/ crewOf'[t] \in lapsed \/ Spare(crewOf'[t])
    OBVIOUS
  <2>1. PICK o \in Options :
           /\ Free(o) \/ o[3] \in lapsed
           /\ o[1] \in Trains /\ o[3] \in Crews
           /\ crewOf' = [crewOf EXCEPT ![o[1]] = o[3]]
    BY <1>1, RelievedBySwap, SwapTaken DEF CrewInv, CrewsInv
  <2>2. crewOf'[t] = o[3]
    BY <1>1, <2>1 DEF Relieved, CrewInv, CTypeOK
  <2> QED
    BY <2>1, <2>2 DEF Free
<1>2. CrewInv /\ [CNext]_cvars =>
         [\A t \in Trains : Relieved(t) =>
             overruled \/ unnoticed \/ crewOf'[t] \in lapsed \/ Spare(crewOf'[t])]_cvars
  BY <1>1
<1> QED
  BY <1>2, CrewInvariant, PTL DEF CBurstSpec, CNext, SwapsTakeSpares
-----------------------------------------------------------------------------
(* The breaches that were found. *)

\* The seed's crews are on duty until the end of their run.
SeedLegal == \A t \in Trains : EndOfRun[t] <= DutyLimit[FirstCrew[t]]

\* The crew of a breach will not be spare again; its train has another one, the crew was given
\* away twice and may come back, or somebody is at work on it: a flow, a decision still to be
\* made, a swap on its way.
SwapsOf(b) == {o \in Options : o[1] = b[1]}
InHand(b) ==
    ~Spare(b[2]) /\ (crewOf[b[1]] # b[2] \/ b[2] \in lapsed \/ Worked(b, SwapsOf(b)))

NoneAhead == Unseen => detected = {}
BreachesInv == NoneAhead /\ (overruled \/ unnoticed \/ \A b \in detected : InHand(b))

\* Between a reset and its tick nothing is found on the seed's roster.
LEMMA NoneAheadStep ==
    ASSUME SeedLegal, CTypeOK, CTypeOK', TicksInv, NoneAhead, [CNext]_cvars
    PROVE  NoneAhead'
<1>1. CASE Quiet /\ Environment
  <2>1. Unseen' => CReset
    BY <1>1, QuietUnseen DEF TicksInv
  <2>2. CReset => detected' = {}
    BY DEF CReset
  <2> QED
    BY <2>1, <2>2 DEF NoneAhead
<1>2. CASE Cascade \/ CTick \/ UNCHANGED cvars
  <2> SUFFICES ASSUME Unseen' PROVE detected' = {}
    BY DEF NoneAhead
  <2>1. Unseen /\ ~ CWatchReset
    BY <1>2, CascadeUnseen DEF TicksInv
  <2>2. crewOf = FirstCrew /\ roster = SeedRoster /\ \A t \in Trains : delay[t] = 0
    BY <2>1 DEF TicksInv, ResetSeen
  <2>3. \A t \in Trains : ~ Breach(t)
    <3> TAKE t \in Trains
    <3>1. roster[crewOf[t]].until = DutyLimit[FirstCrew[t]] /\ DutyLimit[FirstCrew[t]] # Absent
      BY <2>2, SeedTypes
    <3>2. EndOfRun[t] \in Nat /\ DutyLimit[FirstCrew[t]] \in Nat
      BY <3>1, CrewAssumption DEF Times
    <3>3. ~ (EndOfRun[t] + 0 > DutyLimit[FirstCrew[t]])
      BY <3>2 DEF SeedLegal
    <3> QED
      BY <2>2, <3>1, <3>3 DEF Breach
  <2>4. detected = {}
    BY <2>1 DEF NoneAhead
  <2>5. \A a \in alerts : OnDelay(a) => detected' = {}
    BY <2>3, <2>4, BreachTypes DEF OnDelay
  <2>6. \A d \in Decisions : CEndEvaluation(d) => detected' = {}
    BY <2>4 DEF CEndEvaluation
  <2>7. CRecompute => detected' = {}
    BY <2>4 DEF CRecompute
  <2>8. \/ \E f \in choosing : CPropose(f)
        \/ \E s \in drafts : Broadcast(s)
        \/ (BeginEvaluation \/ CarryOut \/ IgnoreResolution \/ CancelledTick) /\ UNCHANGED crewing
        \/ ApplySwap \/ CTick \/ UNCHANGED cvars
        => detected' = {}
    BY <2>4 DEF CPropose, Broadcast, ApplySwap, CTick, cvars, crewing
  <2> QED
    BY <1>2, <2>1, <2>5, <2>6, <2>7, <2>8 DEF Cascade
<1> QED
  BY <1>1, <1>2 DEF CNext

\* The agent opens a flow for every breach it finds, unless it has nobody to offer.
LEMMA BreachFound ==
    ASSUME CTypeOK, RosterInv, NEW a \in alerts, OnDelay(a), NEW b \in detected',
           b \in detected => InHand(b)
    PROVE  InHand(b)'
<1> DEFINE c == <<a.train, crewOf[a.train], a.ahead>>
<1>1. UNCHANGED <<crewOf, roster, lapsed, ready, evaluating, ledger, pending>>
  BY DEF OnDelay, StartFlow, vars, state
<1>2. \/ choosing' = choosing /\ detected' = detected
      \/ /\ OpenFlow(c, Offered(c, {}), {}, {}, FALSE)
         /\ detected' = IF Offered(c, {}) = {} THEN detected ELSE detected \cup {c}
  <2>1. CASE Suppressed(a) \/ ~Breach(a.train)
    BY <2>1 DEF OnDelay, vars, state
  <2>2. CASE ~ (Suppressed(a) \/ ~Breach(a.train))
    BY <2>2 DEF OnDelay, StartFlow
  <2> QED
    BY <2>1, <2>2
<1>3. c \in Conflicts /\ c[2] = crewOf[a.train] /\ ~ Spare(c[2])
  BY BreachTypes DEF RosterInv
<1> HIDE DEF c
<1>4. CASE b \in detected
  <2>1. choosing \subseteq choosing'
    BY <1>2 DEF OpenFlow
  <2>2. Worked(b, SwapsOf(b)) => Worked(b, SwapsOf(b))'
    BY <1>1, <2>1 DEF Worked, Undecided, ProposedAt, MoveAt, ApprovedAt, HasRetry, SwapsOf
  <2> QED
    BY <1>1, <1>4, <2>2 DEF InHand, Spare
<1>5. CASE b \notin detected
  <2>1. b = c /\ Offered(c, {}) # {} /\ OpenFlow(c, Offered(c, {}), {}, {}, FALSE)
    BY <1>2, <1>5
  <2> DEFINE f == [flow |-> flows, conflict |-> c, offered |-> Offered(c, {}),
                   excluded |-> {}, rejected |-> {}, stale |-> FALSE]
  <2>2. f \in choosing' /\ f.conflict = c
    BY <2>1 DEF OpenFlow
  <2> HIDE DEF f
  <2>3. \E g \in choosing' : g.conflict = b
    BY <2>1, <2>2
  <2> QED
    BY <1>1, <1>3, <2>1, <2>3 DEF InHand, Worked, Spare
<1> QED
  BY <1>4, <1>5

\* A swap settles the breach of its train and leaves the others as they are.
LEMMA BreachSwapped ==
    ASSUME CTypeOK, CTypeOK', PlansInv(FreeSwaps, given, lapsed), ApplySwap, ~ unnoticed,
           NEW b \in Conflicts, InHand(b)
    PROVE  crewOf'[b[1]] # b[2] \/ b[2] \in lapsed \/ Worked(b, SwapsOf(b))'
<1>1. PICK o \in Options :
         /\ o = Head(ready).option /\ (Free(o) \/ o[3] \in lapsed)
         /\ o[1] \in Trains /\ o[3] \in Crews
         /\ crewOf' = [crewOf EXCEPT ![o[1]] = o[3]]
  BY SwapTaken
<1>2. b[1] \in Trains /\ TwinHandlesPlan
  BY CrewAssumption DEF ApplySwap
<1>3. CASE o[1] = b[1]
  <2>1. crewOf'[b[1]] = o[3]
    BY <1>1, <1>2, <1>3 DEF CTypeOK
  <2>2. o[3] # b[2] \/ b[2] \in lapsed
    BY <1>1 DEF Free, InHand
  <2> QED
    BY <2>1, <2>2
<1>4. CASE o[1] # b[1]
  <2>1. crewOf'[b[1]] = crewOf[b[1]]
    BY <1>1, <1>2, <1>4 DEF CTypeOK
  <2>2. PICK M : M = SwapsOf(b)
    OBVIOUS
  <2>3. Head(ready).option \notin M
    BY <1>1, <1>4, <2>2 DEF SwapsOf
  <2>4. Worked(b, M) => Worked(b, M)'
    BY <1>2, <2>3, WorkHandled DEF CTypeOK
  <2> QED
    BY <2>1, <2>2, <2>4 DEF InHand, SwapsOf
<1> QED
  BY <1>3, <1>4

\* Within a cascade the work on a breach goes on, until a swap is applied, the orchestrator
\* refuses it or the operator has no other to choose.
LEMMA BreachWorked ==
    ASSUME CrewInv, CTypeOK', Cascade, ~ overruled,
           ~ \E a \in alerts : OnDelay(a), ~ ApplySwap, ~ (CWatchReset /\ Rewound),
           NEW b \in detected', NEW M, M = SwapsOf(b), Worked(b, M)
    PROVE  Worked(b, M)'
<1> USE DEF CrewInv, CTypeOK
<1>1. ASSUME NEW f \in choosing, CPropose(f) PROVE Worked(b, M)'
  <2>1. PICK o \in f.offered : Propose(f, o)
    BY <1>1 DEF CPropose, ChooseFor
  <2> QED
    BY <2>1, WorkProposed
<1>2. ASSUME NEW n \in Decisions, CEndEvaluation(n) PROVE Worked(b, M)'
  <2>1. /\ EndEvaluation(n)
        /\ audit'[n].status = "rejected" /\ ledger[n] # NoRecord => ledger[n].conflict \notin detected'
    BY <1>2 DEF CEndEvaluation
  <2>2. HasRetry(n) /\ ledger[n].conflict = b => ledger[n].chosen \in M
    BY RetryTyped DEF ChosenOfBreach, SwapsOf
  <2>3. ~ (HasRetry(n) /\ ledger[n].conflict = b /\ audit'[n].status = "rejected")
    BY <2>1 DEF HasRetry
  <2> QED
    BY <2>1, <2>2, <2>3, WorkDecided
<1>3. ASSUME NEW s \in drafts, Broadcast(s) PROVE Worked(b, M)'
  BY <1>3, WorkBeside DEF Broadcast
<1>4. CASE BeginEvaluation
  BY <1>4, WorkBegun
<1>5. CASE CarryOut
  BY <1>5, WorkCarriedOut
<1>6. CASE IgnoreResolution \/ CRecompute \/ (CWatchReset /\ ~ Rewound)
  <2>1. CRecompute => \E offered \in SUBSET Options : Recompute(offered)
    <3>1. CRecompute => ledger[Head(ready).dec].conflict \in Conflicts
      BY RetryTypes DEF CRecompute
    <3> QED
      BY <3>1, OfferedOptions DEF CRecompute
  <2> QED
    BY <1>6, <2>1, WorkHandled DEF CWatchReset
<1>7. ~ CancelledTick
  <2>1. ready # <<>> => Head(ready) \in Queue
    BY QueueDeliver
  <2> QED
    BY <2>1 DEF CancelledTick, TicksInv, OutsideFirst
<1> QED
  BY <1>1, <1>2, <1>3, <1>4, <1>5, <1>6, <1>7 DEF Cascade

\* Every step keeps each breach that was found in hand.
LEMMA BreachesStep ==
    ASSUME SeedLegal, CrewInv, BreachesInv, [CNext]_cvars PROVE BreachesInv'
<1> USE DEF CrewInv
<1>1. CTypeOK'
  BY CTypesStep
<1>2. NoneAhead'
  BY <1>1, NoneAheadStep DEF BreachesInv
<1> SUFFICES ASSUME ~ overruled', ~ unnoticed', NEW b \in detected' PROVE InHand(b)'
  BY <1>2 DEF BreachesInv
<1>3. ~ CReset /\ ~ overruled
  BY ForgottenByReset DEF CReset
<1>4. /\ ~ unnoticed /\ lapsed \subseteq lapsed'
      /\ \A c \in Crews : Spare(c)' => Spare(c)
  BY <1>3, SpareKept, LapsedKept
<1>5. RosterInv /\ PlansInv(FreeSwaps, given, lapsed) /\ (b \in detected => InHand(b))
  BY <1>3, <1>4 DEF CrewsInv, BreachesInv
<1>6. CASE \E a \in alerts : OnDelay(a)
  BY <1>5, <1>6, BreachFound
<1>7. CASE ~ \E a \in alerts : OnDelay(a)
  <2>1. b \in detected
    BY <1>7 DEF CNext, Cascade, Environment, CPropose, CEndEvaluation, Broadcast, CRecompute,
                ApplySwap, CWatchReset, InjectDelay, CrewSick, CHuman, CTick, CReset, cvars, crewing
  <2>2. b \in Conflicts /\ b[2] \in Crews
    BY <2>1, CrewAssumption DEF CTypeOK
  <2>3. SUFFICES crewOf'[b[1]] # b[2] \/ b[2] \in lapsed' \/ Worked(b, SwapsOf(b))'
    BY <1>4, <1>5, <2>1, <2>2 DEF InHand, Spare
  <2>4. PICK M : M = SwapsOf(b)
    OBVIOUS
  <2>5. SUFFICES ASSUME ~ ApplySwap PROVE Worked(b, M) => Worked(b, M)'
    <3>1. CASE ApplySwap
      <4>1. crewOf'[b[1]] # b[2] \/ b[2] \in lapsed \/ Worked(b, SwapsOf(b))'
        BY <1>1, <1>4, <1>5, <2>1, <2>2, <3>1, BreachSwapped
      <4> QED
        BY <1>4, <4>1
    <3>2. ~ ApplySwap => crewOf' = crewOf
      BY <1>3 DEF CNext, Cascade, OnDelay, CPropose, CEndEvaluation, Broadcast, CRecompute,
                  CWatchReset, Environment, InjectDelay, CrewSick, CHuman, CTick, cvars, crewing
    <3>3. crewOf[b[1]] # b[2] \/ b[2] \in lapsed \/ Worked(b, M)
      BY <1>5, <2>1, <2>4 DEF InHand
    <3> QED
      BY <1>4, <2>4, <3>1, <3>2, <3>3 DEF SwapsOf
  <2>6. CASE UNCHANGED cvars
    BY <2>6 DEF cvars, vars, state, Worked, Undecided, HasRetry, ProposedAt, MoveAt, ApprovedAt
  <2>7. CASE Quiet /\ Environment
    BY <2>7 DEF Quiet, Worked, Undecided
  <2>8. ASSUME Cascade, Worked(b, M) PROVE Worked(b, M)'
    <3>1. ~ (CWatchReset /\ Rewound)
      <4>1. ASSUME CWatchReset, Rewound PROVE Unseen
        BY <1>1, <4>1, RewoundByRequest DEF CWatchReset, TicksInv, CTypeOK, Unseen
      <4> QED
        BY <2>1, <4>1 DEF BreachesInv, NoneAhead
    <3> QED
      BY <1>1, <1>3, <1>7, <2>4, <2>5, <2>8, <3>1, BreachWorked
  <2>9. ASSUME CTick, Worked(b, M) PROVE Worked(b, M)'
    BY <2>9, WorkTicked DEF CTick, CTypeOK
  <2> QED
    BY <2>6, <2>7, <2>8, <2>9 DEF CNext
<1> QED
  BY <1>6, <1>7

\* When the cascade is at rest, a train whose crew was found to be on duty too long has
\* another crew, unless nobody was to be had, the orchestrator refused the swap, the operator
\* put crews on trains himself, or the crew was given away again after its first commit had
\* lapsed: when the seed's crews are on duty until the end of their run.
THEOREM BreachesLeftSettled == SeedLegal /\ CBurstSpec => []BreachesSettled
<1> SUFFICES ASSUME SeedLegal PROVE CBurstSpec => []BreachesSettled
  OBVIOUS
<1>1. CInit => BreachesInv
  BY DEF CInit, BreachesInv, NoneAhead
<1>2. CrewInv /\ BreachesInv /\ [CNext]_cvars => BreachesInv'
  BY BreachesStep
<1>3. BreachesInv => BreachesSettled
  BY DEF BreachesInv, InHand, Worked, BreachesSettled, AtRest, Quiet, Undecided
<1>4. CBurstSpec => []CrewInv
  BY CrewInvariant
<1> QED
  BY <1>1, <1>2, <1>3, <1>4, PTL DEF CBurstSpec, CNext
=============================================================================
