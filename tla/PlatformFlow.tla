---------------------------- MODULE PlatformFlow ----------------------------
(***************************************************************************)
(* DecisionFlow composed with the part of the digital twin one station     *)
(* agent works on: the delays, the platform of every train at this         *)
(* station, the blocked platforms and the trains that have left.  The      *)
(* station agent computes its options from the twin when a flow opens; the *)
(* twin applies the move when the approved plan reaches it.                *)
(*                                                                         *)
(* Times are multiples of 5 minutes, so Window, the 60 sim-seconds of the  *)
(* orchestrator, and the 120 of the cooldown, are 1: shorter than a unit.  *)
(***************************************************************************)
EXTENDS DecisionFlow

CONSTANTS Trains,           \* numbered in the order of the seed timetable
          Platforms,        \* 1 .. platform_count
          Priority,         \* Trains -> Nat, 1 is premium
          Arrives, Departs, \* scheduled times here; Absent at an origin, a terminus
          Home,             \* Trains -> Platforms, as seeded
          Headway, Boarding, Dwell, Threshold,
          DelaySteps,       \* the delays a scenario injects
          BlockLength,
          MaxScenarios,     \* bound: scenarios injected
          AgentLLM          \* settings.agent_llm: an LLM picks, or the rule does

ASSUME PlatformAssumption ==
    /\ Trains \subseteq Nat /\ Platforms \subseteq Nat
    /\ Priority \in [Trains -> Nat] /\ Home \in [Trains -> Platforms]
    /\ Arrives \in [Trains -> Times] /\ Departs \in [Trains -> Times]
    /\ \A t \in Trains : Arrives[t] # Absent \/ Departs[t] # Absent
    /\ {Headway, Boarding, Dwell, BlockLength, MaxScenarios} \subseteq Nat
    /\ Threshold \in Nat \ {0} /\ DelaySteps \subseteq Nat \ {0} /\ AgentLLM \in BOOLEAN
    /\ Options = Trains \X Platforms /\ Conflicts = Trains \X Trains
    /\ Resources = Platforms /\ \A o \in Options : ResourceOf[o] = o[2]

VARIABLES delay,            \* train.delay_min
          platform,         \* stop.platform of each train's stop here
          blocks,           \* SimEngine._blocks
          passed,           \* trains whose crossing of this stop is recorded
          handled,          \* TrainAgent._last_handled_delay
          alerts,           \* delays the train agent is assessing or has announced
          seen,             \* CooldownRegistry entries of this station agent
          scenarios,        \* scenarios injected
          detected,         \* history: conflicts found and not given up
          announced,        \* history: trains whose delay was taken up since the reset
          unnoticed,        \* history: the last reset cannot show as the clock going back
          vacated,          \* history: platforms plans took a train away from since the
                            \*   last disturbance
          given,            \* history: platforms the orchestrator gave away since then
          lapsed,           \* history: those it gave away again since the last scenario, its
                            \*   first commit having grown too old
          overruled         \* history: since the reset the operator approved a plan that
                            \*   was still pending; between cascades, one that the
                            \*   orchestrator had refused

twin == <<delay, platform, blocks, passed, handled, alerts, seen, scenarios, detected,
          announced, unnoticed, vacated, given, lapsed, overruled>>
pvars == <<vars, twin>>

NotSeen == [delay |-> Absent, time |-> Absent]

PTypeOK ==
    /\ TypeOK
    /\ delay \in [Trains -> Nat] /\ platform \in [Trains -> Platforms]
    /\ blocks \subseteq [platform : Platforms, start : Nat, end : Nat]
    /\ handled \in [Trains -> Times]
    /\ passed \subseteq Trains /\ alerts \subseteq [train : Trains, delay : Nat]
    /\ seen \in [Trains -> [delay : Times, time : Times]]
    /\ scenarios \in Nat /\ detected \subseteq Conflicts /\ announced \subseteq Trains
    /\ unnoticed \in BOOLEAN /\ vacated \subseteq Platforms
    /\ given \subseteq Platforms /\ lapsed \subseteq Platforms
    /\ overruled \in BOOLEAN

PInit ==
    /\ Init
    /\ delay = [t \in Trains |-> 0] /\ platform = Home
    /\ blocks = {} /\ passed = {} /\ alerts = {}
    /\ seen = [t \in Trains |-> NotSeen]
    /\ handled = [t \in Trains |-> Absent]
    /\ scenarios = 0 /\ detected = {} /\ announced = {} /\ unnoticed = FALSE
    /\ vacated = {} /\ given = {} /\ lapsed = {} /\ overruled = FALSE
-----------------------------------------------------------------------------
(* Occupancy: the twin's and the agent's arithmetic. *)

\* SimEngine._window: the platform is occupied from .start to .end, without headway.
Occupied(t) ==
    IF Arrives[t] = Absent
    THEN [start |-> Departs[t] + delay[t] - Boarding, end |-> Departs[t] + delay[t]]
    ELSE [start |-> Arrives[t] + delay[t],
          end |-> delay[t] + IF Departs[t] # Absent THEN Departs[t] ELSE Arrives[t] + Dwell]

\* station_agent._occupancy of the stop projected with the delay announced.
Projected(t, m) ==
    [start |-> m + IF Arrives[t] = Absent THEN Departs[t] - Boarding ELSE Arrives[t],
     end |-> m + IF Departs[t] = Absent THEN Arrives[t] ELSE Departs[t]]

\* Both sides of the conflict test add the headway to the end of an occupancy.
Overlap(a, b) == a.start < b.end + Headway /\ b.start < a.end + Headway

Blocked(p, w) == \E b \in blocks : b.platform = p /\ b.start < w.end + Headway /\ w.start < b.end

\* find_feasible_platforms
Feasible(t) ==
    {p \in Platforms :
        /\ ~Blocked(p, Occupied(t))
        /\ \A u \in Trains \ {t} : platform[u] = p => ~Overlap(Occupied(u), Occupied(t))}

Clash(t, u) == platform[t] = platform[u] /\ Overlap(Occupied(t), Occupied(u))

\* _resolve_conflict: both trains' feasible platforms, less the excluded options.
Offered_Anywhere(c, excluded) == {o \in Options : o[1] \in {c[1], c[2]}} \ excluded
Offered(c, excluded) ==
    {o \in Options : o[1] \in {c[1], c[2]} /\ o[2] \in Feasible(o[1])} \ excluded

\* The rule's choice: the lowest-priority train that has an option moves, to its
\* lowest platform; of two equals the later one in the list of the two trains.
RuleChoice_PremiumMoves(f) ==
    CHOOSE o \in f.offered : \A x \in f.offered :
        \/ Priority[o[1]] < Priority[x[1]]
        \/ Priority[o[1]] = Priority[x[1]] /\ o[1] = f.conflict[2] /\ x[1] # o[1]
        \/ o[1] = x[1] /\ o[2] <= x[2]
RuleChoice(f) ==
    CHOOSE o \in f.offered : \A x \in f.offered :
        \/ Priority[o[1]] > Priority[x[1]]
        \/ Priority[o[1]] = Priority[x[1]] /\ o[1] = f.conflict[2] /\ x[1] # o[1]
        \/ o[1] = x[1] /\ o[2] <= x[2]

Choices(f) == IF AgentLLM THEN f.offered ELSE {RuleChoice(f)}
-----------------------------------------------------------------------------
(* Scenarios, and the station agent's on_delay. *)

Scenario == scenarios < MaxScenarios /\ scenarios' = scenarios + 1

\* TrainAgent.on_train_status takes up a delay that is new or has grown enough.
Significant(t, d) ==
    /\ d >= Threshold
    /\ handled[t] = Absent \/ d - handled[t] >= Threshold

\* A delay reaches the twin and the train agent at once; the agent announces it
\* after its LLM call, to the stations the train had still to leave.
InjectDelay(t, m) ==
    /\ Scenario
    /\ delay' = [delay EXCEPT ![t] = @ + m]
    /\ IF Significant(t, delay'[t])
       THEN /\ handled' = [handled EXCEPT ![t] = delay'[t]]
            /\ alerts' = IF t \in passed THEN alerts
                         ELSE alerts \cup {[train |-> t, delay |-> delay'[t]]}
            /\ announced' = announced \cup {t}
       ELSE UNCHANGED <<handled, alerts, announced>>
    /\ detected' = {} /\ vacated' = {} /\ given' = {} /\ lapsed' = {}
    /\ UNCHANGED <<vars, platform, blocks, passed, seen, unnoticed, overruled>>

InjectBlock(p) ==
    /\ Scenario
    /\ blocks' = blocks \cup {[platform |-> p, start |-> clock, end |-> clock + BlockLength]}
    /\ detected' = {} /\ vacated' = {} /\ given' = {} /\ lapsed' = {}
    /\ UNCHANGED <<vars, delay, platform, passed, handled, alerts, seen, announced, unnoticed,
                   overruled>>

Suppressed(a) == /\ seen[a.train].delay = a.delay
                 /\ clock - seen[a.train].time \in 0 .. Window - 1

\* The occupancies of the board the projected one conflicts with.
ConflictsWith(a) ==
    {u \in Trains \ {a.train} : /\ platform[u] = platform[a.train]
                                /\ Overlap(Projected(a.train, a.delay), Occupied(u))}

\* conflicts[0]: the board is sorted by arrival, trains of one arrival by seed order.
FirstOf(us) == CHOOSE u \in us : \A v \in us : \/ Occupied(u).start < Occupied(v).start
                                               \/ Occupied(u).start = Occupied(v).start /\ u <= v

OnDelay(a) ==
    /\ a \in alerts /\ alerts' = alerts \ {a}
    /\ seen' = IF Suppressed(a) THEN seen
               ELSE [seen EXCEPT ![a.train] = [delay |-> a.delay, time |-> clock]]
    /\ IF Suppressed(a) \/ a.train \in passed \/ ConflictsWith(a) = {}
       THEN UNCHANGED <<vars, detected>>
       ELSE LET c == <<a.train, FirstOf(ConflictsWith(a))>>
            IN  /\ StartFlow(c, Offered(c, {}))
                /\ detected' = IF Offered(c, {}) = {} THEN detected ELSE detected \cup {c}
    /\ UNCHANGED <<delay, platform, blocks, passed, handled, scenarios, announced, unnoticed,
                   vacated, given, lapsed, overruled>>
-----------------------------------------------------------------------------
(* The protocol's actions with their effect on the twin. *)

PPropose(f) == /\ \E o \in Choices(f) : Propose(f, o)
               /\ UNCHANGED twin

\* A refused conflict stays as it is: only the operator makes a flow start again.
PEndEvaluation(d) ==
    /\ EndEvaluation(d)
    /\ IF audit'[d].status = "approved"
       THEN /\ given' = given \cup Takes(d)
            /\ lapsed' = lapsed \cup (given \cap TakesLapsed(d))
            /\ UNCHANGED detected
       ELSE /\ detected' = IF ledger[d] = NoRecord THEN detected
                           ELSE detected \ {ledger[d].conflict}
            /\ UNCHANGED <<given, lapsed>>
    /\ UNCHANGED <<delay, platform, blocks, passed, handled, alerts, seen, scenarios, announced,
                   unnoticed, vacated, overruled>>

PRecompute ==
    /\ Resolution("rejected") /\ HasRetry(Head(ready).dec)
    /\ \E offered \in {Offered(ledger[Head(ready).dec].conflict,
                               ExcludedAfterReject(ledger[Head(ready).dec]))} :
           Recompute(offered)
    /\ UNCHANGED twin

\* SimEngine._on_platform_reassigned
NewPlatform_OffByOne(o) == o[2] + 1
NewPlatform(o) == o[2]
ApplyPlan ==
    /\ TwinHandlesPlan
    /\ platform' = [platform EXCEPT ![Head(ready).option[1]] = NewPlatform(Head(ready).option)]
    /\ vacated' = vacated \cup {platform[t] : t \in {u \in Trains : platform'[u] # platform[u]}}
    /\ UNCHANGED <<delay, blocks, passed, handled, alerts, seen, scenarios, detected, announced,
                   unnoticed, given, lapsed, overruled>>

\* _process_crossings: the stop is behind a train once its departure, or its
\* arrival at a terminus, is over.
Due(t) == delay[t] + IF Departs[t] # Absent THEN Departs[t] ELSE Arrives[t]

PTick == /\ Tick
         /\ passed' = passed \cup {t \in Trains : Due(t) <= clock'}
         /\ UNCHANGED <<delay, platform, blocks, handled, alerts, seen, scenarios, detected,
                       announced, unnoticed, vacated, given, lapsed, overruled>>

\* _load_state
PReset == /\ Reset
          /\ delay' = [t \in Trains |-> 0] /\ platform' = Home
          /\ blocks' = {} /\ passed' = {} /\ detected' = {} /\ announced' = {} /\ vacated' = {}
          /\ given' = {} /\ lapsed' = {}
          /\ overruled' = FALSE /\ unnoticed' = (lastTick <= 0)
          /\ UNCHANGED <<handled, alerts, seen, scenarios>>

HandledAfterReset_Kept == handled
HandledAfterReset == [t \in Trains |-> Absent]

PWatchReset == /\ WatchReset
               /\ seen' = IF Rewound THEN [t \in Trains |-> NotSeen] ELSE seen
               /\ handled' = IF Rewound THEN HandledAfterReset ELSE handled
               /\ UNCHANGED <<delay, platform, blocks, passed, alerts, scenarios, detected,
                              announced, unnoticed, vacated, given, lapsed, overruled>>

PHuman(d, s) == /\ HumanResolve(d, s) /\ vacated' = {} /\ given' = {}
                /\ overruled' = (overruled \/ (s = "approved" /\ pending[d] # NoOption))
                /\ UNCHANGED <<delay, platform, blocks, passed, handled, alerts, seen, scenarios,
                               detected, announced, unnoticed, lapsed>>

Cascade == \/ \E a \in alerts : OnDelay(a)
           \/ \E f \in choosing : PPropose(f)
           \/ \E d \in Decisions : PEndEvaluation(d)
           \/ (BeginEvaluation \/ CarryOut \/ IgnoreResolution \/ CancelledTick) /\ UNCHANGED twin
           \/ PRecompute
           \/ ApplyPlan \/ PWatchReset

Environment == \/ \E t \in Trains, m \in DelaySteps : InjectDelay(t, m)
               \/ \E p \in Platforms : InjectBlock(p)
               \/ \E d \in Decisions, s \in {"approved", "rejected"} : PHuman(d, s)
               \/ PReset \/ (Pause /\ UNCHANGED twin)

PSpec == PInit /\ [][Cascade \/ PTick \/ Environment]_pvars

\* Disturbances between cascades: the operator and the scenarios wait until no flow is
\* under way, the clock does not.  SimEngine._loop goes on while agents and orchestrator
\* wait for their LLMs, so a commit may lapse before the next proposal is looked at.
\* Several scenarios may be injected before the station hears of the first, so flows for
\* several delays run side by side.
AtRest == Quiet /\ alerts = {}

BurstSpec == PInit /\ [][Cascade \/ PTick \/ (Quiet /\ Environment)]_pvars
-----------------------------------------------------------------------------
(* Properties. *)

\* A plan was applied, as opposed to a reset.
Moved(t) == platform'[t] # platform[t] /\ Len(ready') < Len(ready)

\* Every move the twin applies is onto a platform that is feasible at that moment,
\* whatever options the LLM picks and although flows that run side by side chose
\* without knowing of each other: while its commit is fresh the orchestrator lets one of
\* them have a platform.  Two exceptions, and in both nobody checks again: the operator
\* overrules a refusal; the clock makes the commit lapse before the next proposal for the
\* platform is evaluated, and the platform is given away a second time.
MovesAreFeasible ==
    [][\A t \in Trains : Moved(t) =>
          overruled \/ platform'[t] \in lapsed \/ platform'[t] \in Feasible(t)]_pvars

\* When the cascade is at rest, a conflict the station agent found is gone, was
\* held for the operator (nothing feasible) or was refused by the orchestrator, unless
\* the operator approved a plan that was refused, for a board that has changed since, or
\* the two trains met on a platform that was given away twice because its commit lapsed.
ConflictsSettled ==
    AtRest => overruled \/ \A c \in detected : Clash(c[1], c[2]) => platform[c[1]] \in lapsed

\* Unless the operator approved the move himself, the rule moves a train only if
\* the other one has a better priority, the same, or nowhere left to go: what is
\* feasible for it was rejected before, or is a platform that another flow's plan has
\* emptied in the same burst (station_agent: "premium keeps its platform when possible").
NowhereElse(rec, u) == \A p \in Feasible(u) : <<u, p>> \in rec.excluded \/ p \in vacated
KeptByRule(rec) ==
    \A u \in {rec.conflict[1], rec.conflict[2]} :
        Priority[u] <= Priority[rec.chosen[1]] \/ NowhereElse(rec, u)

PremiumKeepsPlatform ==
    [][\A t \in Trains : Moved(t) =>
          LET d == Head(ready).dec
          IN  audit[d].by = "human" \/ (ledger[d].chosen[1] = t /\ KeptByRule(ledger[d]))]_pvars

\* Demo script: "Cascade doesn't fire / sim wedged: POST /api/sim/reset, re-inject".
\* A train delayed by the threshold or more, in the run begun by the last reset, was
\* taken up by the train agent in that run, however late it was in earlier ones; unless
\* the watcher cannot notice the reset: it saw no tick before, or none after the start.
DelaysTakenUp == unnoticed \/ \A t \in Trains : delay[t] >= Threshold => t \in announced

(* A claim of the documentation that the code does not keep. *)

\* README: "An infeasible assignment is structurally impossible".  Every move is onto a
\* platform that is feasible at that moment, but for those an operator imposed.
InfeasibleImpossible ==
    [][\A t \in Trains : Moved(t) => overruled \/ platform'[t] \in Feasible(t)]_pvars

=============================================================================
