# Rail Saarthi (railmind) in TLA+

Rail Saarthi simulates a railway corridor (a *digital twin*), lets a layer of
agents react to disturbances, and shows both to an operator and to passengers.
Agents are asyncio callbacks on one event bus; every consequential decision
passes an orchestrator, and a human may override it over HTTP.  LLM calls take
as long as they like, and while one is under way ticks, scenarios, operator
requests and resets go on.  This directory models that concurrency, checks it
with TLC and proves what matters most of it with TLAPS.

All paths below are relative to `src/backend/app/` unless they say otherwise.

## 1. Inventory

| Component | State | Operations | Correct when |
|---|---|---|---|
| Event bus `bus/bus.py` | handlers, replay buffer (200), listeners | publish, replay | every listener and handler sees every event in publish order |
| Audit sink `bus/audit.py` | SQLite tables of events and decisions | handle, `_upsert_decision`, `_resolve_decision` | the row of a decision tells what happened to it, also after a restart |
| Decision ledger, cooldowns `agents/base.py` | counter, records, last trigger per key | next_id, record, clear, should_handle, propose | ids are never reused; a repeated trigger is suppressed, a new one never |
| Orchestrator `agents/orchestrator.py` | commit table resource -> sim time | on_proposed, on_resolved, on_sim_reset | every proposal gets a verdict; contending proposals are rejected; rejections lead to recomputation without the rejected option |
| Station agents `agents/station_agent.py` | pending plans | on_delay, `_resolve_conflict`, on_resolved | conflicts found are settled by feasible moves of the right train |
| Crew agent `agents/crew_agent.py` | pending swaps | on_delay, `_propose_swap`, on_resolved | a crew over its duty limit is relieved by one spare crew |
| Train agent `agents/train_agent.py` | last handled delay, cause per train | on_scenario, on_train_status | a significant growth of a delay is announced once |
| Passenger info agent `agents/passenger_info_agent.py` | - | on_delay, on_reassigned, on_swapped, `_broadcast` | passengers are told of changes once |
| Runtime adapter `agents/adapter.py` | cached provider agents | run | a call always ends with an answer, by the template at the latest |
| Reset watcher `agents/registry.py` | last sim time seen | watch_reset | nothing of an old run acts in the new one |
| Simulation engine `sim/engine.py` | clock, tick task, trains, crews, blocks, crossings, KPIs | start, pause, reset, set_speed, `_loop`, `_advance_to`, scenario/reassign/swap handlers, feasibility and duty queries | one loop; monotone clock within a run; no two trains on one platform; KPIs consistent |
| REST API `api/routes.py` | - | resolve, scenarios, sim control, reads | requests take effect in any order |
| WebSocket `api/ws.py` | one bounded queue per client (500) | replay, live stream | no duplicate, no gap unless the queue overflows |
| Passenger chat and voice `api/passenger.py` | sessions (50, of 10 turns each) | chat, voice | a session's history stays its own, whole and bounded; everybody is answered |
| Loader, contracts, settings, start-up | - | load, types, wiring | - |
| Frontend store and stream `src/frontend/src/store.ts`, `api/ws.ts`, `App.tsx` | a fold of the events over a snapshot | hydrate, applyEnvelope, reconnect | the view converges to the twin |
| Frontend pages, scripts | view state | - | - |

**How they interact.**  Everything on the backend runs in one asyncio loop.
`EventBus.publish` first does the synchronous part (replay buffer, listeners:
audit sink and WebSocket queues), then starts all handlers of the topic as
tasks and waits for them.  So a cascade is a tree of awaits:

    scenario.injected -> twin applies the delay -> train.status -> train agent
      -> delay.detected -> station / crew / passenger agents
      -> decision.proposed -> orchestrator -> decision.resolved
      -> station / crew agent -> platform.reassigned / crew.swapped -> twin

Cascades started by an HTTP request run in that request; cascades started by a
tick run inside the tick loop, which awaits its own events.  `sim.tick` also
drives the reset watcher: a reset is *inferred* from the clock going backwards.

**What is hard.**  (1) LLM waits between reading the twin and acting on it.
(2) Overlapping evaluations in the orchestrator.  (3) The operator answering
before, during and after the orchestrator.  (4) Resets, pauses and cancelled
ticks in the middle of cascades.  (5) Conflicts found by several flows at once.
(6) Starts, pauses and resets racing each other.  (7) Process restarts with a
kept database.  (8) Bounded buffers and replay on the way to the browser.
`PROJECT.json` lists each at its line, with the property that covers it.

## 2. Plan

| Module | Models | State |
|---|---|---|
| `DecisionContract` | the abstract promise of the decision flow | done |
| `DecisionFlow` | ledger, orchestrator, retries, operator, audit status, reset watcher | done |
| `DecisionFlow_proofs` | its invariants, its refinement, and what its bursts keep | done |
| `PlatformFlow` | DecisionFlow composed with one station's twin and agent | done |
| `PlatformFlow_proofs` | that it is a DecisionFlow, delays taken up, feasible moves, settled conflicts, the rule | done |
| `CrewFlow` | DecisionFlow composed with crews, duty limits, sickness, swaps and their announcement | done |
| `CrewFlow_proofs` | that it is a DecisionFlow, one train per crew, spare crews only, settled breaches, announced swaps | done |
| `SimClock` | the abstract promise of the simulation's control | done |
| `SimLifecycle` | start, pause, reset, set_speed, the tick tasks they create and cancel | done |
| `SimLifecycle_proofs` | its invariants, the monotone clock, its refinement of SimClock | done |
| `TwinEngine` | movement, crossings, baseline holds, occupancy, status events over several stations | done |
| `TwinEngine_proofs` | ordered crossings, exclusive platforms, a past that stays, what is ahead, what clients know | done |
| `LossyStream` | the abstract promise to one WebSocket client | done |
| `EventFanout` | bus replay, listeners and client queues, implementing LossyStream | done |
| `AuditLog` | EventFanout composed with the audit sink, failed writes and process restarts | done |
| `AuditLog_proofs` | the bus and its connections, their refinement of LossyStream, rows and verdicts | done |
| `SequenceLemmas` | facts about Append, Tail, least numbers and counting up the proofs share | done |
| `AgentRuntime` | the provider chain of an agent | done |
| `PassengerSessions` | chat and voice requests, their provider chain, the session table and its caps | done |
| `PassengerSessions_proofs` | both: caps, what a session remembers, the template as last resort | done |
| `TwinView` | the browser's fold over snapshot, replay and live events | next |
| `DelayWatch` | what of the train agent `PlatformFlow` leaves out: recovering delays, repeated status events | later |

Theorems worth adding to those of section 6: those of `TwinView`, once it is there.
Runs are few, so several questions about one composition share a run.

## 3. Modules

**`DecisionContract`** has three variables: ids issued, decisions approved, how
often a plan was carried out.  Ids are issued in order, only an issued decision
is approved, only an approved plan is carried out, once.

**`DecisionFlow`** has one action per handler segment between two suspension
points.

* `ready` is the queue of published events.  The loop starts handler tasks in
  the order they were created, so delivering the head runs the first segment of
  every handler of that event.  `decision.resolved` has several handlers (the
  agents' and the orchestrator's): they touch different state and one of
  `CarryOut`, `Recompute` and `IgnoreResolution` is their joint effect, because
  the agents act on approvals only and the orchestrator on human rejections.
* `choosing` holds the flows that wait for the LLM in `_resolve_conflict` or
  `_propose_swap`, `evaluating` the calls of `on_proposed`, each with the sim
  time it read before it started to wait.  `Propose` and `EndEvaluation` are the
  rest of these handlers.
* `audit` is the decision's row: status and who resolved it last.
* `HumanResolve` is the REST endpoint: any decision with a row, at any time.
* `Halt` is the common part of `SimEngine.pause` and `reset`: the tick the loop
  is publishing is cancelled (its handlers never run), the reset sets the clock
  back, and a tick is published.  `WatchReset` is the registry's watcher.
* `approved`, `executed`, `made`, `vetoed` are history: nothing
  reads them but the properties.
* `Takes` is the resource an approval commits, `TakesLapsed` that resource if the
  commit it replaces was too old to count; the compositions keep their history.
* `Quiet` says that no flow is under way: nothing queued, nobody choosing or
  evaluating.  The compositions use it to let a burst of disturbances come between
  two cascades.

The decision's identity, chosen option, exclusions and conflict are kept; texts,
thoughts, rationales and timestamps are left out.  A flow offers *any* subset of
the options that is allowed by its exclusions.

**`PlatformFlow`** conjoins each of these actions with its effect on one
station: delays, platform of every train, blocks, trains that have left,
cooldowns.  The options a flow offers are now computed as the code does, from
the twin's windows (`Occupied`) while a conflict is *detected* with the agent's
own window (`Projected`): the two formulas differ at a terminus, as in the code.
In `PSpec` everything may come at any time.  In `BurstSpec` scenarios, operator,
pause and reset wait until no flow is under way; several announced delays may still be
waiting, so flows run side by side.  The clock waits for nobody (`PTick`): the tick loop
goes on while agents and orchestrator wait for their LLMs, so between the evaluations of
two proposals a commit may lapse.  `handled` is the train agent's table
of delays it has taken up, `announced` the history of trains taken up since the
last reset; a reset clears the history at once and the table only when the
watcher sees the clock go back.  A reset that cannot show as one, because no later
tick was seen, sets `unnoticed`.  `vacated` is the history of the platforms plans took
a train away from since the last disturbance, `overruled` says that since the reset the
operator approved a plan still pending, which at rest is one the orchestrator had refused.
`given` is the history of the platforms the orchestrator gave away since the last
disturbance, `lapsed` that of the platforms it gave away *again* since the reset, because
the first commit was too old by then; nothing reads them but the properties.

**`CrewFlow`** does the same with the roster.  A conflict is here a breach: the
train, its crew and the bases still ahead when its delay was announced, which the
train agent reads *before* its LLM call.  `Offered` reads the roster when the flow
opens, `ApplySwap` changes it when the plan arrives and looks at nothing, as
`_on_crew_swapped` does.  A crew also stands for the station it is based at, and
train 0 for no train.
`Broadcast` is the passenger agent after its LLM call, with the AUTO decision
(`ProposeAuto`) it publishes; `warned` is its cooldown.  Three variables are history
that a reset starts anew: `told`, the swaps announced; `overruled`, that the operator
approved a plan still pending, which at rest is one the orchestrator had refused;
`unnoticed`, as in `PlatformFlow`.  `given` and `lapsed` are as there, for crews, and
`CBurstSpec` is this module's `BurstSpec`.

**`SimClock`** promises that the clock moves only while the simulation runs and
goes back only to its start.

**`SimLifecycle`** separates what `pause` and `reset` do before they await the
cancelled loop (`Halt`) from what they do after it (`Resume`); `HaltNow` is the
call that finds no loop to wait for and runs through.  Any other request may be
served in between, so a `start` may create a second loop while the first is
being cancelled, and the waiting call then drops the handle of the new one
(`task`).  A loop runs from one suspension point to the next: `TickBody` sets the
clock and publishes, `EndPublish`, `EndSleep`, and `EndCancelled` when a
cancellation has gone through the handlers it was in.  Speeds are whole sim
minutes per second.  That a handler's exception ends the loop is left out:
`EventBus.publish` contains the exceptions of handlers and listeners.

**`TwinEngine`** moves trains along their routes.  It begins at `Start`, the code's
SIM_START, with what has happened before it: trains whose timetable begins earlier
are under way, while the clients' snapshot calls every train scheduled until the
first tick.  `Tick` is `_advance_to` up to its first await: the crossings of every
train in the order of priority (`Crossed`), each train's stop by stop
(`ProcessCrossings`), both recursive functions, then the list of events (`outbox`).
`emitted` counts them as sent at that moment; `PublishNext` sends one, and a pause
(`CancelTick`), a reset or an injected delay may come between two of them.  `Locate`
keeps of a train's place its status and how far along its stops it is (`leg`);
kilometres are left out.  `Window`, `OccupiedNow`, `Hold` and `Arrive` are the code's
formulas, in minutes.  `told` is what a client knows; `lost` and `overtaken` are
history.

**`LossyStream`** promises one client envelopes in order, none twice, and a gap
only if it was `QueueSize` behind.  **`EventFanout`** is the bus's synchronous half
and the WebSocket endpoint: `Connect` takes the snapshot and registers in one step,
`Take` and `Sent` are the stream task around `send_text`, `Leave` and `Cleanup`
what happens when the client goes.  `Publish` is not an action of its own: the
listeners of one publish run in one step together with the audit sink's, so
**`AuditLog`** conjoins it with `Persist` in `Emit`.  Its `Restart` is the lifespan:
new bus, new ledger, same database.  A decision is proposed, decided by the
orchestrator and resolved by the operator with no more order between them than
the code enforces: `DecisionFlow` has that order, the sink does not rely on it.
Proposals whose status is AUTO are stored like the others and left out.

**`AgentRuntime`** is `adapter.py`: the chain is built by the first run that needs
it, from the providers that have a key and could be built, and kept.
**`PassengerSessions`** has the two passenger endpoints with their own provider
chain; between the providers' answers several requests of one session interleave,
and a reply, its two `_remember` calls and the eviction are one step.  A chain is the
set of the places its providers have in the order of the agent's tier (`chain`), or in
`_PROVIDERS` (`Keyed`): the next provider is the least place that is left.

## 4. Runs

| Run | Question | Size |
|---|---|---|
| `live` | 2 flows, 1 operator request, pauses and resets anywhere: at most one execution, fresh ids, commits spaced by the window, refinement of the contract (whose second half is that only approved plans are carried out), and with fairness: verdicts are reached, approvals are carried out | 0.52 M states |
| `burst` | 3 trains, 3 platforms, 2 disturbances, any LLM, 1 operator request, ticks at any moment: moves feasible and conflicts settled unless a commit lapses or a refusal is overruled, delays taken up again after a reset | 9.5 M |
| `rule` | `MCPlatformRule`: 5 trains in two conflicts, no LLM, 2 operator requests, ticks at any moment: rejected options stay rejected, premium trains keep their platform while the other one has somewhere to go | 2.3 M |
| `control` | 3 loops, 2 pauses or resets, any starts and speed changes: no start is lost, refinement of SimClock, and with fairness stopped simulations stop, running ones tick, calls return | 0.2 M |
| `twin` | 2 trains, 3 stations, 2 disturbances or pauses amid a tick, baseline mode or not: crossings are those of a train and never undone, what is announced as ahead is ahead, platforms are exclusive in baseline mode, nobody waits forever, clients are told | 0.41 M |
| `crew` | 2 trains, 2 crews near their limit, 2 spare crews, 2 delays or sick crews, 2 operator requests, resets, ticks at any moment: swaps take spare crews, nobody works two trains and breaches are settled unless a commit lapses or a refusal is overruled, swaps announced | 4.4 M |
| `stream` | 2 connections, 3 envelopes, buffers of 2, a failed write, a restart: rows follow the log, verdicts are kept, each connection refines LossyStream and, with fairness, catches up | 0.62 M |
| `sessions` | 3 requests or 3 runs, 2 sessions, 2 providers, 5 configurations: sessions hold whole recent pairs, the template is the last resort, everybody is answered | 0.05 M |
| `veto` | violated: the operator's rejection during an evaluation does not hold | - |
| `reset` | violated: a plan of the old run is carried out after the watcher cleared the state | - |
| `restart` | violated: a start during a reset takes the clock back to the old run's time | - |
| `infeasible` | violated: with 2 platforms, a train is moved onto a platform another flow has just filled | - |

**Bounds.**  `MaxFlows`, `MaxRequests`, `MaxScenarios`, `MaxTime`,
`MaxDecisions`; at most one loop tick and one request's tick are queued.  Two
flows are what it takes for evaluations to overlap, and `Window = 1` with times 0
and 1 has a commit that is still fresh and one that expires exactly at its boundary.
Three trains are needed for a move to run into a third one, three platforms for
two flows to move both trains of one conflict.  Of the three trains one passes,
one starts and one ends its run at the station: the three forms a window has.
In `PlatformFlow` a unit of time is 5 minutes (headway 1, boarding 3, terminus
dwell 4), so the 60 s window and the 120 s cooldown are both shorter than a unit
and `Window = 1` stands for both.  The five trains of `rule` are what it takes for the
plan of one conflict to make room for a train of the other.  `PlatformFlow` bounds new flows by scenarios
plus retries so that no announced delay is ever blocked by a bound; `CrewFlow`,
with the same unit, likewise.  It needs two operator requests: to reject one swap,
so that another is proposed, and to approve the one refused.  In both times 0 and 1 are
enough for what a tick can do amid the flows: a commit made at 0 has lapsed at 1, as the
code's has after one tick (60 sim-seconds at the default speed, against a window of 60).

`SimLifecycle` has `Loops`, `Calls` and `MaxReal`: a loop without a handle beside
a loop with one takes three loops and two calls, and a speed change between two
ticks takes two seconds.

`TwinEngine` starts at `Start = 2`, the minute at which one of its trains is due to
leave.  It ends at `MaxTime`, which lies behind the latest moment at which both
trains may end their runs, and takes disturbances up to `Calm`, when the first
train is at its second stop.  Its trains start in the two ways a route may (by a
departure, or mid-line by an arrival), share every platform after that, and the
premium one is listed second in the timetable.  Ticks of one and two minutes make
crossings fall on a tick and between two.

In `AuditLog` buffers of two overflow with three envelopes, and a connection may
lag, leave, be cleaned up late and come back while the other goes on.  In
`PassengerSessions` caps of one session and one turn make every third request hit
one (which of several sessions is evicted only the proof tells); agents and passengers share only the settings, so the run lets either of them
act and not both (`MCSpec` in `MCPassengerSessions`); the proofs are about `Spec`, in
which both do.

**Fairness.**  `DecisionFlow`: weak fairness of delivering the head of the queue (the
loop never blocks), of some flow's choice and of each evaluation: an LLM call
ends because each provider returns, raises or times out, and the last resort is a
template.  Nothing is assumed of the operator, the clock, resets or new
conflicts.  In `SimLifecycle` loops and the calls that wait for them go on,
because the event loop runs what is ready and handlers and sleeps end; nothing is
assumed of the requests.  In `EventFanout` the stream task goes on and a
`send_text` ends, by the frame being taken or by the connection being broken,
which the server's keep-alive brings about.  `AgentRuntime` and
`PassengerSessions` assume of each provider, and of speech recognition and
synthesis, that a call returns or raises: their clients have timeouts.

Deadlock checking is off in `sessions` alone: when all requests are answered
nothing is left to do.  Elsewhere a reset, a speed change or a reconnection is
always possible.

## 5. What the violations show

* **veto** - README: "the operator can override any proposal".  `on_proposed`
  does not look at the decision again after its LLM call, and the agents keep the
  plan of a rejected decision, so the late approval carries it out; the
  recomputation started by the rejection may be carried out as well.
* **reset** - comment in `agents/registry.py`: the watcher clears tables, but a
  flow waiting for its LLM lives in a coroutine and goes on in the new run.
* **restart** - CONTRACTS: reset takes "sim_time back to 08:00".  A start served
  while the reset waits for the old loop anchors the clock at the old time, and
  the next tick moves the reloaded twin there.
* **infeasible** - README: "An infeasible assignment is structurally impossible";
  SPEC: "The demo can never produce an infeasible assignment because the LLM only picks
  from rule-validated candidates".  The candidates are validated when a flow opens.  Two
  flows side by side pick the same free platform.  The first proposal is evaluated and
  approved; a tick passes; the evaluation of the second begins a minute of sim time later,
  the commit no longer contends, and it is approved too.  The twin applies both moves
  without looking again: two trains overlap on one platform.

The roster has the same weakness, though no run of its own shows it: with one spare crew for
two trains in breach the second swap takes the crew although it is on duty on the first
train, and the crew works both (CONTRACTS: "Swaps only at a station where a spare crew
(`status=spare`) is based").  Without the exception of `lapsed` both `SwapsTakeSpares`
and `NoDoubleDuty` are violated.

The properties of the passing runs are worded around further limits of the code.

* `CommitsSpaced` speaks of the sim times at which evaluations *began*, which the
  commit table holds.  Approvals may be closer: two evaluations that began a window
  apart may end together.
* `MovesAreFeasible` and `ConflictsSettled` exclude runs in which the operator approved
  a move the orchestrator had refused (`overruled`): it was refused because another flow
  took the platform, and nobody looks again.  What he rejects, and so what is
  recomputed, is not excluded.  They also exclude the platforms given away a second time
  after the first commit had lapsed (`lapsed`), see **infeasible**; a second approval
  while the commit is fresh, which is what the orchestrator is there to prevent, is not
  excluded, nor is any other platform.
* `MovesAreFeasible` holds between disturbances.  A block or a delay injected while
  a proposal is under way leaves the train on a platform that is no longer
  feasible, since the twin does not look again (README: "structurally impossible").
* `PremiumKeepsPlatform` (`station_agent.py`: "premium keeps its platform when
  possible") excludes platforms another plan has `vacated` in the same burst: the flow
  looks once, when it opens.  In the instance of `rule` trains 1 and 4 are delayed
  together; train 2 is stuck between 3 and 5, so the flow of train 1 decides to move the
  premium train, and carries that out after the flow of train 4 has moved train 3 away
  and left room for train 2.  The operator may approve any move that was refused.
* `DelaysTakenUp` excludes a reset the watcher cannot notice: the backend boots
  paused, so inject, reset, inject again may happen without a tick before the reset.
  The train agent's table then survives and the second delay is ignored.
* `BaselineExclusive` is about the times at which trains stood at a platform.
  `_occupied_now` itself may call a platform occupied by a train that has left it,
  when a delay was injected into that train afterwards: the window moves with it.
* `PastIsKept`, `ClientsAgree` and `RemainingIsAhead` speak of the time after the first
  tick (`now > Start`): until then trains under way at the start have no crossings and
  clients take them for scheduled.
* `RemainingIsAhead` excludes the last stop.  `contracts/events.py` calls
  `downstream_stops` the "Station codes still ahead", but `project_downstream_impact`
  counts a stop with a departure as ahead until the train has left it, while `_locate`
  ends a run at the arrival at its last stop: for a last stop with a departure, as 12420
  has one in `data/timetable.json`, a delay announced in between names the station the
  train already stands in.
* `ClientsAgree` excludes trains whose last event was cancelled with its tick, or
  which a delay injected amid the tick overtook.
* `SwapsTakeSpares` says that the crew is spare, not that its base is still ahead:
  the stops ahead were read before two LLM calls.  It, `NoDoubleDuty` and
  `BreachesSettled` exclude runs in which the operator approved a swap the
  orchestrator had refused (`overruled`): it was refused because the other flow took
  the crew.  What he rejects is not excluded.  They exclude the crews given away a second
  time after the first commit had lapsed (`lapsed`), see
  **infeasible**.  For
  `BreachesSettled` that is the crew of the breach: a crew given away twice may be put
  back, by a swap chosen earlier, on the train it was to be relieved on.  All three hold
  between scenarios: a crew reported sick amid a flow is put on duty by the swap.
* `SwapsTakeSpares`, `BreachesSettled` and `SwapsAnnounced` exclude, like
  `DelaysTakenUp`, the run after a reset the watcher cannot notice.  Old records then
  survive: a rejection of one of them recomputes with its old options, and the
  cooldown of an old announcement silences the new one.
* In `PlatformFlow`, `CrewFlow` and `TwinEngine` the injected delays (`DelaySteps`) are
  positive: the endpoint and the engine take any integer for `delay_min`, but every
  document, script and client speaks of a delay.  What a negative one does to the
  crossings already recorded is not examined.
* `DelaysTakenUp` is about the train agent.  The 120 s cooldown of the station and crew
  agents (`Suppressed`) is modelled, but no property asks that an alert it suppresses
  was rightly suppressed: nothing in the repository promises a flow for each one.
* `VerdictsKept` excludes the ids of earlier processes: the counter starts at
  dec-0001 again, while the database keeps its rows, so proposals of the new
  process overwrite them (their `created_ts` and resolver stay).  That overwriting is what
  the code does; no property calls it wrong.
* `AnsweredAtBest` takes the chain as it was built: a provider that could not be
  built is not tried again, and `AGENT_LLM=OFF` turns off the passengers' LLM only,
  since the adapter compares with "off" as it is written.

## 6. Proofs

`DecisionFlow_proofs` proves, for all sets of conflicts, options and resources,
every window and all bounds, from `FlowAssumption` alone:

* `TypeCorrect`: `Spec => []TypeOK`;
* `FlowInvariant`: `Spec => []FlowInv`, the inductive invariant;
* `AtMostOnce`, `OnlyApproved`, `FreshIds`, `RejectionsStick`: the safety
  invariants, as consequences;
* `CommitSpacing`: the action property of the commit table;
* `FlowKeepsContract`: `Spec => Contract!Spec`, the refinement;
* the lemmas on bursts both compositions rest on (`DecidedStep`, `PlansStep`, `Work...`),
  for any set of options that are free on the twin: see the argument below.

*The argument.*  None of the properties is inductive alone.  At-most-once needs
that a plan still pending was never carried out (`PlanOnce`), which needs that an
id about to be issued has no trace (`NoTrace`), which across resets needs that
the counter stays.  That only approved plans are carried out needs that a queued
approval is about an approved decision (`QueueKnown`).  That rejections stick
needs that what was rejected on a chain is excluded in every record and every
waiting flow of the chain (`ChainExcluded`).  `FlowAssumption` asks that ids
suffice for all flows and requests, so the counter's bound never blocks a step.

`SimLifecycle_proofs` proves, for any numbers of loops and calls and all speeds,
from `LifecycleAssumption`: `LifecycleTypes`, `StartNotLost`
(`RunningHasLoop`), `ClockGoesBackByReset` (`ClockMonotone`) and
`LifecycleImplementsClock`.  The invariant `LInv` says that the anchor lies in
the past and the clock is not past the time the anchor gives: a tick that sets
the clock to that time therefore never sets it back, whichever loop ticks.

`AuditLog_proofs` proves for any set of connections and all buffer sizes:

* `FanoutInvariant`: the replay buffer is the newest envelopes of this process, a
  listener belongs to a connection, and what a connection holds continues what its
  client has (`HoldsRest`): the snapshot goes on from the last envelope sent, the
  queue ends with the newest, and a gap between the two means a full queue;
* `ConnectionsKeepOrder` (`StreamsInOrder`): each connection is a LossyStream;
* `AuditTypes`, `RowsAreTheLog` (`RowsFollowLog`) and `VerdictsStay`
  (`VerdictsKept`).  That a row is what the log says needs that the verdicts logged
  on a decision have a last one (`LastGiven`); that verdicts stay needs that only ids
  this ledger has issued, or an earlier process, have rows (`RowsIssued`).

`PlatformFlow_proofs` proves, for every timetable and any number of trains and
platforms:

* `PlatformTypes`, and `PlatformIsFlow`: the composition is a DecisionFlow, so all
  that is proved of that holds of it (`PSpec` lets disturbances come at any time);
* `EveryDelayTakenUp` (`DelaysTakenUp`), for any operator.  The tick of a reset comes
  into an empty queue and goes first (`OutsideFirst`), and will show the watcher that the
  clock went back before anything else happens (`ResetSeen`);
* `BurstInvariant`, the inductive invariant of the next two, the clock going on as it likes;
* `FeasibleMoves` (`MovesAreFeasible`), for any operator and any window;
* `SettledConflicts` (`ConflictsSettled`), likewise, where `SeedClear`;
* `PremiumKept` (`PremiumKeepsPlatform`), for any operator, where `AgentLLM = FALSE`: an
  LLM may choose any option.  `RuleInv` says that what is feasible for a train of an open
  flow is offered, was rejected or was vacated, so the rule's choice (`RuleChooses`)
  left nothing to a train of worse priority, and that a decision still under way was
  such a choice, or the operator's; only a move makes a platform feasible (`RoomGrows`).
  It was checked on the instance of `rule` first.

`CrewFlow_proofs` proves, for every roster and the bursts of the `crew` run,
operator included:

* `CrewTypes`, and `CrewIsFlow`: this composition is a DecisionFlow too;
* `EverySwapAnnounced` (`SwapsAnnounced`);
* `CrewInvariant`, the inductive invariant of the next three, the clock going on as it likes;
* `OneTrainPerCrew` (`NoDoubleDuty`) and `SparesTakenOnly` (`SwapsTakeSpares`);
* `BreachesLeftSettled` (`BreachesSettled`), where `SeedLegal`.

`TwinEngine_proofs` proves, for every timetable `TwinAssumption` admits, any number of
trains, stations and platforms, ticks of any size and any disturbances:

* `TwinTypesHold` (`TwinTypeOK`), `CrossingsAreOrdered` (`CrossingsOrdered`) and
  `BaselineIsExclusive` (`BaselineExclusive`);
* `PastStays` (`PastIsKept`), the action property;
* `RemainingAhead` (`RemainingIsAhead`) and `ClientsKnow` (`ClientsAgree`).

*The argument.*  `TwinInv` says that the records are `Sound` - crossings that are
recorded are past and in the order of the route, an arrival is not recorded before the
previous departure, and in baseline mode the stays are exclusive - and, once a tick has
been, that every crossing due is recorded (`Settled`).  A tick is a loop over the trains
around a loop over the stops, so the proof goes up both: what one stop does (`Cross`)
keeps `Sound`, settles the stop and only adds to what is recorded (`Grown`); `Underway`
says how far along its route a train is, `Ticking` how far in the order of trains the
tick is, and `CrossedSettles` what holds of the whole.  `LegOfRecords` then reads the
place of a train off its records instead of its delay, from which follow that nobody
goes back and what is ahead.  `ClientsInv` adds that `emitted` is the status each train
has (`Emitted`) and that an event still in `outbox` is true unless its train is in
`overtaken`.  Both invariants were checked on the instance of `twin` first.

`PassengerSessions_proofs` proves, for any providers in any order, any number of runs,
requests and sessions and all caps:

* `SessionTypesHold` (`STypeOK`), which includes the caps of the session table;
* `TemplateIsLast` (`AnsweredAtBest`);
* `MemoryOfPassengers` (`RemembersRecent`).

*The argument.*  Who asks has been refused by exactly the providers before the one it
asks (`RunSound`, `RequestSound`, with `AskedSoFar` for the step to the next), so who
has nobody left to ask was refused by all.  A session's place in the table counts the
sessions created after it (`SessionSound`): a creation moves the others one place
towards the front exactly when it adds one to those, so who falls out has `MaxSessions`
younger ones, and keeps them.  An answer adds a pair at the end and drops at most one at
the front (`TwoTurnsMore`), so each pair that stays is one further from the end than
before, as its answer is (`RecallsOn`).  The invariant was checked on the instance of
`sessions` first.

*The hypotheses.*  `SeedClear`: no two trains of the seeded timetable overlap on a platform,
true of `data/timetable.json`.  `SeedLegal`: a crew of the seed is on duty until the
scheduled end of its run, true of `data/crews.json` (one of them to the minute); a
train breaking it would be in breach before anything happens to it.

*The argument of the compositions.*  Why side by side flows do not take one resource
twice, unless a commit lapses, is in no single action: a flow reads the twin when it
opens, the orchestrator looks only at the commit table, and the twin looks at nothing.
`DecidedOnce` says that each decision is at one place only - proposed, being evaluated,
resolved or done - and that what waits has no verdict yet; `OutsideFirst` that what a
request publishes (its tick, the operator's verdict) comes into an empty queue and so
goes first, before any tick of the loop, which shows the watcher no reset.  `PlansInv`
says, of a set of free options, the resources `given` away since the last disturbance
and those `lapsed`:

* what is offered, proposed or evaluated is free, or its resource was given away;
* what is approved and on its way to the twin is free and the only one for its
  resource, or its resource has lapsed;
* a resource that was given away has a commit.

An approval therefore either takes a resource not given away yet, which is free, or
finds a commit.  A fresh one refuses it; one that does not count any more makes the
resource lapse.  Commits are forgotten only when the operator rejects or the watcher sees a
reset, and both come when nothing is given away (`Freeing`).  The invariant is kept
while every step leaves free what needs another resource (`PlansStep`), and
`MoveOrigin` says that a plan on its way was so before or has just been approved;
`PlatformFlow` shows the former of the feasible moves (`MovesInv`), `CrewFlow` of the
swaps for spare crews, with a sound roster (`RosterInv`) and flows that relieve no spare
crew (`CrewsInv`).
`ConflictsInv` and `BreachesInv` add who is at work on each conflict found: it is
gone, or a flow, an evaluation, a queued verdict or a recomputation will deal with it
(`Worked`, `InHand`), so at rest it is gone.  `CrewInv` and `BreachesInv` hold on the
instance of `crew` too, in every state it reaches.

*Induction.*  The library's induction theorems take an operator, which the provers cannot
instantiate.  `SequenceLemmas` states what these proofs need of it with sets instead: a
set that holds 0 and with each number the next holds all up to n (`CountUp`, from the
least number of `SmallestOf`), a chain of steps has a sequence of its results
(`StepByStep`), and two such sequences agree (`SameSteps`).

*Layout.*  Lemmas on the queue come first, then one preservation lemma per conjunct of
an invariant with a case per action, then the temporal theorems.  Each composition
first shows that its steps are DecisionFlow's (`StepsOfFlow`, `BurstsOfFlow`) and then
cites that module's lemmas.

*Only model-checked.*  Liveness (`VerdictReached`, `ApprovedIsExecuted`, `StopsTicking`,
`KeepsTicking`, `CallsReturn`, `CaughtUp`, `EveryoneAnswered`): fairness and ENABLED are
outside the prover.  `NobodyWaitsForever`: its `Deadline` bounds what
trains may wait for each other on the instance's routes, not on all.
The four violations are counterexamples and need no proof.

## 7. Not modelled

See `PROJECT.json`, `components`.

* In `DecisionFlow` a cascade started by a tick is not cancelled with the loop: only
  the tick's own handlers are.
* KPIs: `_publish_kpis` and the counters it reads, except arrivals and instant
  platformings, which `TwinEngine` counts.
* Positions between stations, texts, prompts, the passengers' template and its
  lookups, speech, the audit queries' order and limits, the causes of delays.
* The browser (`store.ts`, `ws.ts`): what it receives is `LossyStream`'s promise,
  what it makes of that is the next module of the plan.
* Rendering, seed files, demo scripts, the mock server and the slide generator.
