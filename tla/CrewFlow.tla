------------------------------- MODULE CrewFlow -------------------------------
(***************************************************************************)
(* DecisionFlow composed with the roster: the crews, their duty limits and *)
(* the trains they work.  The crew agent finds the trains whose crew would *)
(* be on duty too long, offers the spare crews based at stations ahead of  *)
(* the train, and the twin swaps the crews when the approved plan reaches  *)
(* it.  The passenger info agent announces the swap.                       *)
(*                                                                         *)
(* Times are multiples of 5 minutes, as in PlatformFlow.  Crews numbered   *)
(* in roster order also stand for the station they are based at.           *)
(***************************************************************************)
EXTENDS DecisionFlow

CONSTANTS Trains, Crews,
          FirstCrew,        \* train -> its crew in the seed
          DutyLimit,        \* crew -> end of its duty, Absent for a spare crew
          DutyHours,        \* how long a spare crew may work once it starts
          EndOfRun,         \* train -> scheduled arrival at its last stop
          Leaves,           \* train, crew -> when it leaves the crew's base, or Absent
          Threshold, DelaySteps,
          MaxScenarios      \* bound: delays and sick crews

\* load_seed: a crew works a train that exists, nobody works two.
ASSUME CrewAssumption ==
    /\ 0 \notin Trains /\ FirstCrew \in [Trains -> Crews]
    /\ \A t, u \in Trains : FirstCrew[t] = FirstCrew[u] => t = u
    /\ DutyLimit \in [Crews -> Times] /\ EndOfRun \in [Trains -> Nat]
    /\ \A c \in Crews : DutyLimit[c] = Absent <=> \A t \in Trains : FirstCrew[t] # c
    /\ Leaves \in [Trains -> [Crews -> Times]]
    /\ {DutyHours, Threshold, MaxScenarios} \subseteq Nat /\ DelaySteps \subseteq Nat \ {0}
    /\ Conflicts = Trains \X Crews \X SUBSET Crews
    /\ Options = Trains \X Crews \X Crews
    /\ Resources = Crews /\ \A o \in Options : ResourceOf[o] = o[3]

VARIABLES delay,            \* train.delay_min
          crewOf,           \* train.crew_id
          roster,           \* Crew: status, assigned_train (0 for none), end of duty
          passed,           \* <<train, crew>>: the train has left the crew's base
          handled,          \* TrainAgent._last_handled_delay
          alerts,           \* delays being assessed or announced, with the bases ahead
          seen,             \* CooldownRegistry entries of the crew agent
          warned,           \* its entries of the passenger info agent: time of the swap
          drafts,           \* swaps the passenger info agent is wording
          told,             \* history: swaps announced to passengers since the reset
          scenarios,        \* scenarios injected
          detected,         \* history: breaches found and not given up
          given,            \* history: crews the orchestrator gave away since the last
                            \*   disturbance
          lapsed,           \* history: those it gave away again since the reset, its first
                            \*   commit having grown too old
          overruled,        \* history: since the reset the operator approved a plan that
                            \*   was still pending, one the orchestrator had refused
          unnoticed         \* history: the last reset cannot show as the clock going back

crewing == <<delay, crewOf, roster, passed, handled, alerts, seen, warned, drafts, told,
             scenarios, detected, given, lapsed, overruled, unnoticed>>
cvars == <<vars, crewing>>

NotSeen == [delay |-> Absent, time |-> Absent]
Swaps == [train : Trains, crew : Crews]

CTypeOK ==
    /\ TypeOK
    /\ delay \in [Trains -> Nat] /\ crewOf \in [Trains -> Crews]
    /\ roster \in [Crews -> [status : {"spare", "on_duty", "off_duty"},
                             train : Trains \cup {0}, until : Times]]
    /\ \A c \in Crews : roster[c].status = "on_duty" <=> roster[c].train # 0
    /\ passed \subseteq Trains \X Crews
    /\ handled \in [Trains -> Times]
    /\ alerts \subseteq [train : Trains, delay : Nat, ahead : SUBSET Crews]
    /\ seen \in [Trains -> [delay : Times, time : Times]]
    /\ warned \in [Trains -> [Crews -> Times]]
    /\ drafts \subseteq Swaps /\ told \subseteq Swaps
    /\ scenarios \in Nat /\ detected \subseteq Conflicts
    /\ given \subseteq Crews /\ lapsed \subseteq Crews
    /\ overruled \in BOOLEAN /\ unnoticed \in BOOLEAN

SeedRoster ==
    [c \in Crews |->
        IF DutyLimit[c] = Absent THEN [status |-> "spare", train |-> 0, until |-> Absent]
        ELSE [status |-> "on_duty", train |-> CHOOSE t \in Trains : FirstCrew[t] = c,
              until |-> DutyLimit[c]]]

CInit ==
    /\ Init
    /\ delay = [t \in Trains |-> 0] /\ crewOf = FirstCrew /\ roster = SeedRoster
    /\ passed = {} /\ alerts = {} /\ drafts = {} /\ told = {}
    /\ handled = [t \in Trains |-> Absent] /\ seen = [t \in Trains |-> NotSeen]
    /\ warned = [t \in Trains |-> [c \in Crews |-> Absent]]
    /\ given = {} /\ lapsed = {}
    /\ scenarios = 0 /\ detected = {} /\ overruled = FALSE /\ unnoticed = FALSE
-----------------------------------------------------------------------------
(* Delays and sick crews; the crew agent's on_delay. *)

Scenario == scenarios < MaxScenarios /\ scenarios' = scenarios + 1

\* TrainAgent.on_train_status; project_downstream_impact gives the stops not yet left.
Significant(t, d) ==
    /\ d >= Threshold
    /\ handled[t] = Absent \/ d - handled[t] >= Threshold

Ahead(t) == {c \in Crews : Leaves[t][c] # Absent /\ <<t, c>> \notin passed}

InjectDelay(t, m) ==
    /\ Scenario
    /\ delay' = [delay EXCEPT ![t] = @ + m]
    /\ IF Significant(t, delay'[t])
       THEN /\ handled' = [handled EXCEPT ![t] = delay'[t]]
            /\ alerts' = alerts \cup {[train |-> t, delay |-> delay'[t], ahead |-> Ahead(t)]}
       ELSE UNCHANGED <<handled, alerts>>
    /\ detected' = {} /\ given' = {}
    /\ UNCHANGED <<vars, crewOf, roster, passed, seen, warned, drafts, told, lapsed, overruled,
                   unnoticed>>

\* _on_scenario, crew_sick: nobody looks for a replacement.
CrewSick(c) ==
    /\ Scenario
    /\ roster' = [roster EXCEPT ![c].status = "off_duty", ![c].train = 0]
    /\ given' = {}
    /\ UNCHANGED <<vars, delay, crewOf, passed, handled, alerts, seen, warned, drafts,
                   told, detected, lapsed, overruled, unnoticed>>

\* check_duty; a crew that has not started would start now.
Breach(t) ==
    LET until == roster[crewOf[t]].until
    IN  EndOfRun[t] + delay[t] > IF until = Absent THEN clock + DutyHours ELSE until

\* _propose_swap: the spare crews based ahead, less the old one and the excluded options.
Spare(c) == roster[c].status = "spare"
Offered_AnyCrew(breach, excluded) ==
    {<<breach[1], breach[2], c>> : c \in breach[3] \ {breach[2]}} \ excluded
Offered(breach, excluded) ==
    {<<breach[1], breach[2], c>> : c \in {k \in breach[3] : Spare(k) /\ k # breach[2]}} \ excluded

Suppressed(a) == /\ seen[a.train].delay = a.delay
                 /\ clock - seen[a.train].time \in 0 .. Window - 1

OnDelay(a) ==
    /\ a \in alerts /\ alerts' = alerts \ {a}
    /\ seen' = IF Suppressed(a) THEN seen
               ELSE [seen EXCEPT ![a.train] = [delay |-> a.delay, time |-> clock]]
    /\ LET breach == <<a.train, crewOf[a.train], a.ahead>>
       IN  IF Suppressed(a) \/ ~Breach(a.train) THEN UNCHANGED <<vars, detected>>
           ELSE /\ StartFlow(breach, Offered(breach, {}))
                /\ detected' = IF Offered(breach, {}) = {} THEN detected
                               ELSE detected \cup {breach}
    /\ UNCHANGED <<delay, crewOf, roster, passed, handled, warned, drafts, told, scenarios,
                   given, lapsed, overruled, unnoticed>>
-----------------------------------------------------------------------------
(* The protocol's actions with their effect on the roster. *)

CPropose(f) == ChooseFor(f) /\ UNCHANGED crewing

\* A refused swap is not looked at again.
CEndEvaluation(d) ==
    /\ EndEvaluation(d)
    /\ IF audit'[d].status = "approved"
       THEN /\ given' = given \cup Takes(d)
            /\ lapsed' = lapsed \cup (given \cap TakesLapsed(d))
            /\ UNCHANGED detected
       ELSE /\ detected' = IF ledger[d] = NoRecord THEN detected
                           ELSE detected \ {ledger[d].conflict}
            /\ UNCHANGED <<given, lapsed>>
    /\ UNCHANGED <<delay, crewOf, roster, passed, handled, alerts, seen, warned, drafts, told,
                   scenarios, overruled, unnoticed>>

\* The operator rejected: without an option left the breach is his.
CRecompute ==
    /\ Resolution("rejected") /\ HasRetry(Head(ready).dec)
    /\ LET rec == ledger[Head(ready).dec]
       IN  \E offered \in {Offered(rec.conflict, ExcludedAfterReject(rec))} :
              /\ Recompute(offered)
              /\ detected' = IF offered = {} THEN detected \ {rec.conflict} ELSE detected
    /\ UNCHANGED <<delay, crewOf, roster, passed, handled, alerts, seen, warned, drafts, told,
                   scenarios, given, lapsed, overruled, unnoticed>>

\* _on_crew_swapped, and the passenger info agent's on_swapped.
Swapped_KeepsTrain(t, old, new) ==
    [roster EXCEPT ![old].status = "off_duty",
                   ![new].status = "on_duty", ![new].train = t,
                   ![new].until = IF @ = Absent THEN clock + DutyHours ELSE @]
Swapped(t, old, new) ==
    [roster EXCEPT ![old].status = "off_duty", ![old].train = 0,
                   ![new].status = "on_duty", ![new].train = t,
                   ![new].until = IF @ = Absent THEN clock + DutyHours ELSE @]

\* on_swapped drafts an alert unless this swap was one less than Window ago.
Warned_AnyCrew(t, new) ==
    \E c \in Crews : warned[t][c] # Absent /\ clock - warned[t][c] \in 0 .. Window - 1
Warned(t, new) == warned[t][new] # Absent /\ clock - warned[t][new] \in 0 .. Window - 1

ApplySwap ==
    /\ TwinHandlesPlan
    /\ LET t == Head(ready).option[1]
           new == Head(ready).option[3]
       IN  /\ roster' = Swapped(t, Head(ready).option[2], new)
           /\ crewOf' = [crewOf EXCEPT ![t] = new]
           /\ IF Warned(t, new) THEN UNCHANGED <<warned, drafts>>
              ELSE /\ warned' = [warned EXCEPT ![t][new] = clock]
                   /\ drafts' = drafts \cup {[train |-> t, crew |-> new]}
    /\ UNCHANGED <<delay, passed, handled, alerts, seen, told, scenarios, detected,
                   given, lapsed, overruled, unnoticed>>

\* _broadcast after its LLM call: an AUTO decision, then the alert.
Broadcast(s) ==
    /\ s \in drafts /\ drafts' = drafts \ {s} /\ told' = told \cup {s}
    /\ ProposeAuto
    /\ UNCHANGED <<delay, crewOf, roster, passed, handled, alerts, seen, warned, scenarios,
                   detected, given, lapsed, overruled, unnoticed>>

\* _process_crossings: the stations the trains have left.
CTick == /\ Tick
         /\ passed' = passed \cup {b \in Trains \X Crews :
                                      /\ Leaves[b[1]][b[2]] # Absent
                                      /\ Leaves[b[1]][b[2]] + delay[b[1]] <= clock'}
         /\ UNCHANGED <<delay, crewOf, roster, handled, alerts, seen, warned, drafts, told,
                       scenarios, detected, given, lapsed, overruled, unnoticed>>

\* _load_state
CReset == /\ Reset
          /\ delay' = [t \in Trains |-> 0] /\ crewOf' = FirstCrew /\ roster' = SeedRoster
          /\ passed' = {} /\ detected' = {} /\ told' = {} /\ given' = {} /\ lapsed' = {}
          /\ overruled' = FALSE /\ unnoticed' = (lastTick <= 0)
          /\ UNCHANGED <<handled, alerts, seen, warned, drafts, scenarios>>

CWatchReset == /\ WatchReset
               /\ seen' = IF Rewound THEN [t \in Trains |-> NotSeen] ELSE seen
               /\ handled' = IF Rewound THEN [t \in Trains |-> Absent] ELSE handled
               /\ warned' = IF Rewound THEN [t \in Trains |-> [c \in Crews |-> Absent]]
                            ELSE warned
               /\ UNCHANGED <<delay, crewOf, roster, passed, alerts, drafts, told, scenarios,
                              detected, given, lapsed, overruled, unnoticed>>

\* The operator may also approve a breach's proposal that the orchestrator refused.
CHuman(d, s) ==
    /\ HumanResolve(d, s) /\ given' = {}
    /\ overruled' = (overruled \/ (s = "approved" /\ pending[d] # NoOption))
    /\ UNCHANGED <<delay, crewOf, roster, passed, handled, alerts, seen, warned, drafts, told,
                   scenarios, detected, lapsed, unnoticed>>

Cascade == \/ \E a \in alerts : OnDelay(a)
           \/ \E f \in choosing : CPropose(f)
           \/ \E d \in Decisions : CEndEvaluation(d)
           \/ \E s \in drafts : Broadcast(s)
           \/ (BeginEvaluation \/ CarryOut \/ IgnoreResolution \/ CancelledTick) /\ UNCHANGED crewing
           \/ CRecompute \/ ApplySwap \/ CWatchReset

Environment == \/ \E t \in Trains, m \in DelaySteps : InjectDelay(t, m)
               \/ \E c \in Crews : CrewSick(c)
               \/ \E d \in Decisions, s \in {"approved", "rejected"} : CHuman(d, s)
               \/ CReset

\* As in PlatformFlow, disturbances come between cascades, several of them at a time, and
\* the clock goes on at any time.
AtRest == Quiet /\ alerts = {} /\ drafts = {}

CBurstSpec == CInit /\ [][Cascade \/ CTick \/ (Quiet /\ Environment)]_cvars
-----------------------------------------------------------------------------
(* Properties. *)

\* A swap was applied, as opposed to a reset.
Relieved(t) == crewOf'[t] # crewOf[t] /\ Len(ready') < Len(ready)

\* Every crew a swap puts on a train is a spare one at that moment, although the flows of
\* several trains are offered the same crew and the twin looks at nothing; whatever the
\* operator rejects, as long as he approves no plan the orchestrator refused, and the flows
\* of an earlier run that he rejects now were cleared away by the watcher.  The exception
\* is a crew given away twice: its commit had lapsed by the time the second proposal for it
\* was evaluated.
SwapsTakeSpares ==
    [][\A t \in Trains : Relieved(t) =>
          overruled \/ unnoticed \/ crewOf'[t] \in lapsed \/ Spare(crewOf'[t])]_cvars

\* No crew is on two trains, and the crew of a train that is on duty is on duty on it,
\* across swaps, sick crews, resets and the operator's rejections, unless he approved a
\* swap the orchestrator had refused, or the crew was given away twice because its commit
\* lapsed.
NoDoubleDuty ==
    overruled \/ \A t, u \in Trains :
                    /\ crewOf[t] = crewOf[u] => t = u \/ crewOf[t] \in lapsed
                    /\ ~Spare(crewOf[t])
                    /\ roster[crewOf[t]].status = "on_duty" =>
                          roster[crewOf[t]].train = t \/ crewOf[t] \in lapsed

\* When the cascade is at rest, a train whose crew was found to be on duty too long has
\* another crew, unless nobody was to be had, the orchestrator refused the swap, the
\* operator put crews on trains himself, or the crew was given away twice because its
\* commit lapsed: a swap for an earlier breach may then put it back.
BreachesSettled ==
    AtRest => overruled \/ unnoticed
                 \/ \A b \in detected : crewOf[b[1]] # b[2] \/ b[2] \in lapsed

\* At rest the passengers of every train that changed its crew have been told, in the run
\* begun by the last reset, by whatever decision and however often the crew changed;
\* unless the watcher cannot notice the reset and the cooldown outlives it.
SwapsAnnounced ==
    AtRest => unnoticed \/ \A t \in Trains : crewOf[t] # FirstCrew[t] =>
                               [train |-> t, crew |-> crewOf[t]] \in told

=============================================================================
