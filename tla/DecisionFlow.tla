---------------------------- MODULE DecisionFlow ----------------------------
(***************************************************************************)
(* The approval protocol of the agent layer: the station and crew agents   *)
(* that propose, the shared DecisionLedger, the Orchestrator that decides, *)
(* the operator who overrides through the HTTP API, the audit rows, and    *)
(* the registry's reset watcher.                                           *)
(*                                                                         *)
(* One asyncio event loop runs everything, so an action is the code        *)
(* between two suspension points.  bus.publish updates the audit row at    *)
(* once and then waits for its handlers, which the loop starts in order,   *)
(* one after the other, after everything already scheduled: `ready' is     *)
(* that first-in first-out order of published events, and delivering its   *)
(* head runs the first segment of every subscribed handler.  A call of     *)
(* AgentRuntime.run (an LLM) suspends for as long as it likes; between     *)
(* any two steps an HTTP request or a tick of the simulation may run.      *)
(*                                                                         *)
(* What is feasible on the twin is the twin's business: here a flow is     *)
(* offered any set of options.  PlatformFlow and CrewFlow narrow it.       *)
(***************************************************************************)
EXTENDS Integers, Sequences, FiniteSets

CONSTANTS Conflicts,        \* the triggers a flow can be started for
          Options,          \* the options a flow can offer and choose from
          Resources,        \* platforms and crews, the keys of the commit table
          ResourceOf,       \* Options -> Resources, propose(resource=...)
          NoConflict,       \* the trigger of an AUTO decision, which has no retry
          NoOption,         \* no pending plan
          NoRecord,         \* no ledger record
          Window,           \* RESOURCE_CONFLICT_SEC, in units of sim time
          MaxDecisions,     \* bound: decision ids
          MaxFlows,         \* bound: a new conflict starts only below this many flows
          MaxRequests,      \* bound: operator requests
          MaxTime           \* bound: sim clock

\* ProposalRecord: with a retry, and without one (status AUTO).
Records == [conflict : Conflicts, chosen : Options, excluded : SUBSET Options]
      \cup [conflict : {NoConflict}, chosen : {NoOption}, excluded : {{}}]

ASSUME FlowAssumption ==
    /\ MaxDecisions \in Nat /\ MaxFlows \in Nat
    /\ MaxRequests \in Nat /\ MaxTime \in Nat /\ Window \in Nat
    /\ MaxFlows + MaxRequests <= MaxDecisions   \* ids never run out
    /\ ResourceOf \in [Options -> Resources]
    /\ NoConflict \notin Conflicts /\ NoOption \notin Options
    /\ NoRecord \notin Records

Decisions == 1 .. MaxDecisions
Absent == -1                \* no sim time: no tick seen, no commit, not evaluating

VARIABLES
    clock,                  \* SimEngine._sim_time
    lastTick,               \* last_seen["t"] of the reset watcher
    counter,                \* DecisionLedger._counter
    ledger,                 \* DecisionLedger._records
    pending,                \* the proposing agents' _pending maps
    commits,                \* Orchestrator._resource_commits
    choosing,               \* _resolve_conflict / _propose_swap calls inside runtime.run
    evaluating,             \* on_proposed calls inside runtime.run: the sim time captured
    audit,                  \* the decisions table: status and resolver
    ready,                  \* published events whose handlers have not started
    flows, requests,        \* flows started, operator requests made
    approved, executed,     \* history: approvals published, plans carried out
    made,                   \* history: choice of a decision, operator's rejections before
                            \*   it, whether the watcher has cleared it away since
    vetoed                  \* history: rejected by the operator before any verdict

state == <<clock, lastTick, counter, ledger, pending, commits, choosing,
           evaluating, audit, ready, flows, requests>>
history == <<approved, executed, made, vetoed>>
vars == <<state, history>>
-----------------------------------------------------------------------------
Flows == [flow : Nat, conflict : Conflicts, offered : SUBSET Options,
          excluded : SUBSET Options, rejected : SUBSET Options, stale : BOOLEAN]

Statuses == {"none", "proposed", "auto", "approved", "rejected"}

ProposedEvent(d, s) == [topic |-> "decision.proposed", dec |-> d, status |-> s]
ResolvedEvent(d, s, by) ==
    [topic |-> "decision.resolved", dec |-> d, status |-> s, by |-> by]
PlanEvent(d, o) == [topic |-> "plan.executed", dec |-> d, option |-> o]
TickEvent(t, from) == [topic |-> "sim.tick", time |-> t, from |-> from]

Events == [topic : {"decision.proposed"}, dec : Decisions, status : {"proposed", "auto"}]
    \cup  [topic : {"decision.resolved"}, dec : Decisions,
           status : {"approved", "rejected"}, by : {"human", "orchestrator"}]
    \cup  [topic : {"plan.executed"}, dec : Decisions, option : Options]
    \cup  [topic : {"sim.tick"}, time : Nat, from : {"loop", "request", "cancelled"}]

Times == Nat \cup {Absent}

(* Every variable keeps its type: the tables only ever hold what the code
   puts in them. *)
TypeOK ==
    /\ clock \in Nat /\ lastTick \in Times
    /\ counter \in 0 .. MaxDecisions
    /\ ledger \in [Decisions -> Records \cup {NoRecord}]
    /\ pending \in [Decisions -> Options \cup {NoOption}]
    /\ commits \in [Resources -> Times]
    /\ choosing \in SUBSET Flows
    /\ evaluating \in [Decisions -> Times]
    /\ audit \in [Decisions -> [status : Statuses, by : {"nobody", "human", "orchestrator"}]]
    /\ ready \in Seq(Events)
    /\ flows \in Nat /\ requests \in Nat
    /\ approved \in SUBSET Decisions
    /\ executed \in [Decisions -> Nat]
    /\ made \in [Decisions -> [chosen : Options \cup {NoOption}, rejected : SUBSET Options,
                              stale : BOOLEAN]]
    /\ vetoed \in SUBSET Decisions

Init ==
    /\ clock = 0 /\ lastTick = Absent /\ counter = 0
    /\ ledger = [d \in Decisions |-> NoRecord]
    /\ pending = [d \in Decisions |-> NoOption]
    /\ commits = [r \in Resources |-> Absent]
    /\ choosing = {}
    /\ evaluating = [d \in Decisions |-> Absent]
    /\ audit = [d \in Decisions |-> [status |-> "none", by |-> "nobody"]]
    /\ ready = <<>> /\ flows = 0 /\ requests = 0
    /\ approved = {}
    /\ executed = [d \in Decisions |-> 0]
    /\ made = [d \in Decisions |-> [chosen |-> NoOption, rejected |-> {}, stale |-> FALSE]]
    /\ vetoed = {}
-----------------------------------------------------------------------------
(* Helpers shared by the actions. *)

Publish(e) == ready' = Append(ready, e)

\* bus.publish(DecisionResolved): the audit sink overwrites the row, last writer wins.
Verdict(d, s, by) ==
    /\ audit' = [audit EXCEPT ![d] = [status |-> s, by |-> by]]
    /\ approved' = IF s = "approved" THEN approved \cup {d} ELSE approved
    /\ Publish(ResolvedEvent(d, s, by))

\* A call of _resolve_conflict / _propose_swap up to the LLM: without options
\* left it returns ("holding for operator"), otherwise it waits for the choice.
OpenFlow(c, offered, excluded, rejected, stale) ==
    /\ flows' = flows + 1
    /\ choosing' = IF offered = {} THEN choosing
                   ELSE choosing \cup {[flow |-> flows, conflict |-> c, offered |-> offered,
                                        excluded |-> excluded, rejected |-> rejected,
                                        stale |-> stale]}

\* record.excluded after record.excluded.add(record.decision.chosen).
ExcludedAfterReject_Forgets(rec) == {rec.chosen}
ExcludedAfterReject_Nests(rec) == {rec.excluded, rec.chosen}
ExcludedAfterReject(rec) == rec.excluded \cup {rec.chosen}

\* del self._pending[event.decision_id]
WithoutPlan_Keeps(d) == pending
WithoutPlan(d) == [pending EXCEPT ![d] = NoOption]

\* Another decision on the resource was committed less than Window before `now'.
Contended_NoCheck(d, now) == FALSE
Contended(d, now) ==
    /\ ledger[d] # NoRecord
    /\ LET committed == commits[ResourceOf[ledger[d].chosen]]
       IN  committed # Absent /\ now - committed < Window

\* What an approval of d gives away: the key of its commit.
Takes(d) == {r \in Resources : ledger[d] # NoRecord /\ ResourceOf[ledger[d].chosen] = r}

\* Of those, what a commit that is too old to count was made for.
TakesLapsed(d) == {r \in Takes(d) : evaluating[d] - commits[r] >= Window}
-----------------------------------------------------------------------------
(* The proposing agents. *)

\* on_delay found a conflict or a breach: a first call, nothing excluded.
StartFlow(c, offered) ==
    /\ flows < MaxFlows
    /\ OpenFlow(c, offered, {}, {}, FALSE)
    /\ UNCHANGED <<clock, lastTick, counter, ledger, pending, commits,
                   evaluating, audit, ready, requests, history>>

\* The plan is remembered (on_created) before the proposal is published.
PlanOf_Missing(d, o) == pending
PlanOf(d, o) == [pending EXCEPT ![d] = o]

\* runtime.run returned and the answer is one of the options, or is replaced by
\* the rule's choice, which is one of them too: BaseAgent.propose.
Propose(f, o) ==
    /\ f \in choosing /\ o \in f.offered
    /\ counter < MaxDecisions
    /\ LET d == counter + 1
       IN  /\ counter' = d
           /\ ledger' = [ledger EXCEPT ![d] = [conflict |-> f.conflict, chosen |-> o,
                                               excluded |-> f.excluded]]
           /\ pending' = PlanOf(d, o)
           /\ audit' = [audit EXCEPT ![d].status = "proposed"]
           /\ Publish(ProposedEvent(d, "proposed"))
           /\ made' = [made EXCEPT ![d] = [chosen |-> o, rejected |-> f.rejected,
                                           stale |-> f.stale]]
    /\ choosing' = choosing \ {f}
    /\ UNCHANGED <<clock, lastTick, commits, evaluating, flows, requests,
                   approved, executed, vetoed>>

\* PassengerInfoAgent._broadcast: an AUTO decision, no plan and no retry.
ProposeAuto ==
    /\ flows < MaxFlows /\ counter < MaxDecisions
    /\ LET d == counter + 1
       IN  /\ counter' = d
           /\ ledger' = [ledger EXCEPT ![d] = [conflict |-> NoConflict, chosen |-> NoOption,
                                               excluded |-> {}]]
           /\ audit' = [audit EXCEPT ![d].status = "auto"]
           /\ Publish(ProposedEvent(d, "auto"))
    /\ flows' = flows + 1
    /\ UNCHANGED <<clock, lastTick, pending, commits, choosing, evaluating,
                   requests, history>>
-----------------------------------------------------------------------------
(* The orchestrator. *)

\* on_proposed returns at once unless event.status is "proposed".
NeedsVerdict_HasRecord(e) == e.status = "proposed" /\ ledger[e.dec] # NoRecord
NeedsVerdict(e) == e.status = "proposed"

\* on_proposed up to runtime.run: the sim time is captured here.
BeginEvaluation ==
    /\ ready # <<>> /\ Head(ready).topic = "decision.proposed"
    /\ evaluating' = IF NeedsVerdict(Head(ready))
                     THEN [evaluating EXCEPT ![Head(ready).dec] = clock] ELSE evaluating
    /\ ready' = Tail(ready)
    /\ UNCHANGED <<clock, lastTick, counter, ledger, pending, commits, choosing,
                   audit, flows, requests, history>>

\* The rest of on_proposed.  Without a record (a reset dropped it) the resource
\* is "decision:<id>", which no other decision shares.
EndEvaluation(d) ==
    /\ evaluating[d] # Absent
    /\ evaluating' = [evaluating EXCEPT ![d] = Absent]
    /\ IF Contended(d, evaluating[d])
       THEN /\ Verdict(d, "rejected", "orchestrator")
            /\ UNCHANGED commits
       ELSE /\ Verdict(d, "approved", "orchestrator")
            /\ IF ledger[d] = NoRecord THEN UNCHANGED commits
               ELSE LET r == ResourceOf[ledger[d].chosen]
                    IN  commits' = [commits EXCEPT ![r] = evaluating[d]]
    /\ UNCHANGED <<clock, lastTick, counter, ledger, pending, choosing, flows,
                   requests, executed, made, vetoed>>
-----------------------------------------------------------------------------
(* decision.resolved: the agents' and the orchestrator's on_resolved. *)

HasRetry(d) == ledger[d] # NoRecord /\ ledger[d].conflict # NoConflict

Resolution(status) ==
    /\ ready # <<>> /\ Head(ready).topic = "decision.resolved"
    /\ Head(ready).status = status

\* The agent that holds the plan drops it and publishes the reassignment or swap.
CarryOut ==
    /\ Resolution("approved")
    /\ LET d == Head(ready).dec
       IN  /\ pending[d] # NoOption
           /\ pending' = WithoutPlan(d)
           /\ ready' = Append(Tail(ready), PlanEvent(d, pending[d]))
           /\ executed' = [executed EXCEPT ![d] = @ + 1]
    /\ UNCHANGED <<clock, lastTick, counter, ledger, commits, choosing, evaluating,
                   audit, flows, requests, approved, made, vetoed>>

\* The operator rejected: free the resource, re-run the flow without the option.
Recompute(offered) ==
    /\ Resolution("rejected") /\ Head(ready).by = "human"
    /\ LET d == Head(ready).dec
           rec == ledger[d]
       IN  /\ HasRetry(d)
           /\ offered \cap ExcludedAfterReject(rec) = {}
           /\ ledger' = [ledger EXCEPT ![d].excluded = ExcludedAfterReject(rec)]
           /\ commits' = [commits EXCEPT ![ResourceOf[rec.chosen]] = Absent]
           /\ OpenFlow(rec.conflict, offered, ExcludedAfterReject(rec),
                       made[d].rejected \cup {rec.chosen}, made[d].stale)
    /\ ready' = Tail(ready)
    /\ UNCHANGED <<clock, lastTick, counter, pending, evaluating, audit, requests,
                   approved, executed, made, vetoed>>

\* Nobody acts: no plan to carry out, or no flow to re-run.
IgnoreResolution ==
    /\ \/ Resolution("approved") /\ pending[Head(ready).dec] = NoOption
       \/ Resolution("rejected") /\ Head(ready).by = "orchestrator"
       \/ Resolution("rejected") /\ Head(ready).by = "human" /\ ~HasRetry(Head(ready).dec)
    /\ ready' = Tail(ready)
    /\ UNCHANGED <<clock, lastTick, counter, ledger, pending, commits, choosing,
                   evaluating, audit, flows, requests, history>>

\* platform.reassigned / crew.swapped reaches the twin, which is not part of
\* this module.
TwinHandlesPlan ==
    /\ ready # <<>> /\ Head(ready).topic = "plan.executed"
    /\ ready' = Tail(ready)
    /\ UNCHANGED <<clock, lastTick, counter, ledger, pending, commits, choosing,
                   evaluating, audit, flows, requests, history>>
-----------------------------------------------------------------------------
(* The operator, the clock, the reset. *)

\* POST /api/decisions/{id}/resolve: any decision with an audit row, whatever its status.
HumanResolve(d, status) ==
    /\ requests < MaxRequests /\ requests' = requests + 1
    /\ audit[d].status # "none"
    /\ Verdict(d, status, "human")
    /\ vetoed' = IF status = "approved" THEN vetoed \ {d}
                 ELSE IF audit[d].status = "proposed" THEN vetoed \cup {d} ELSE vetoed
    /\ UNCHANGED <<clock, lastTick, counter, ledger, pending, commits, choosing,
                   evaluating, flows, executed, made>>

Queued(from) == \E i \in 1 .. Len(ready) :
                    ready[i].topic = "sim.tick" /\ ready[i].from = from

\* SimEngine._advance_to: the loop awaits its own SimTick before the next one.
Tick ==
    /\ ~Queued("loop")
    /\ \E t \in (clock + 1) .. MaxTime :
          /\ clock' = t
          /\ Publish(TickEvent(t, "loop"))
    /\ UNCHANGED <<lastTick, counter, ledger, pending, commits, choosing,
                   evaluating, audit, flows, requests, history>>

\* Cancelling the loop task cancels the handlers of the tick it is publishing:
\* they stay scheduled but never run their body.
CancelTick(e) == IF e.topic = "sim.tick" /\ e.from = "loop"
                 THEN [e EXCEPT !.from = "cancelled"] ELSE e

\* SimEngine.pause and SimEngine.reset: the loop is cancelled, a reset sets the
\* clock back, and a tick is published from the request.  Bound: one at a time.
Halt(t) ==
    /\ ~Queued("request")
    /\ clock' = t
    /\ ready' = Append([i \in 1 .. Len(ready) |-> CancelTick(ready[i])],
                       TickEvent(t, "request"))
    /\ UNCHANGED <<lastTick, counter, ledger, pending, commits, choosing,
                   evaluating, audit, flows, requests, history>>

Pause == Halt(clock)
Reset == Halt(0)

CancelledTick ==
    /\ ready # <<>> /\ Head(ready).topic = "sim.tick" /\ Head(ready).from = "cancelled"
    /\ ready' = Tail(ready)
    /\ UNCHANGED <<clock, lastTick, counter, ledger, pending, commits, choosing,
                   evaluating, audit, flows, requests, history>>

\* watch_reset, after DecisionLedger.clear and every on_sim_reset: the id counter stays.
CounterAfterReset_Restarts == 0
CounterAfterReset == counter

\* event.sim_time < prev: the clock went backwards since the last tick seen.
Rewound == lastTick # Absent /\ Head(ready).time < lastTick

WatchReset ==
    /\ ready # <<>> /\ Head(ready).topic = "sim.tick" /\ Head(ready).from # "cancelled"
    /\ lastTick' = Head(ready).time
    /\ IF Rewound
       THEN /\ counter' = CounterAfterReset
            /\ ledger' = [d \in Decisions |-> NoRecord]
            /\ pending' = [d \in Decisions |-> NoOption]
            /\ commits' = [r \in Resources |-> Absent]
            /\ choosing' = {[f EXCEPT !.stale = TRUE] : f \in choosing}   \* history only
            /\ made' = [d \in Decisions |-> [made[d] EXCEPT !.stale = d <= counter]]
       ELSE UNCHANGED <<counter, ledger, pending, commits, choosing, made>>
    /\ ready' = Tail(ready)
    /\ UNCHANGED <<clock, evaluating, audit, flows, requests, approved, executed, vetoed>>
-----------------------------------------------------------------------------
Deliver == \/ BeginEvaluation \/ CarryOut \/ IgnoreResolution \/ TwinHandlesPlan
           \/ WatchReset \/ CancelledTick
           \/ \E offered \in SUBSET Options : Recompute(offered)

ChooseFor(f) == \E o \in f.offered : Propose(f, o)

Next == \/ Deliver
        \/ \E c \in Conflicts, offered \in SUBSET Options : StartFlow(c, offered)
        \/ \E f \in choosing : ChooseFor(f)
        \/ ProposeAuto
        \/ \E d \in Decisions : EndEvaluation(d)
        \/ \E d \in Decisions, s \in {"approved", "rejected"} : HumanResolve(d, s)
        \/ Tick \/ Pause \/ Reset

Spec == Init /\ [][Next]_vars

\* The event loop keeps running what is ready, and a call of the LLM ends: every
\* provider returns or raises, and the template needs no provider.  Nothing is
\* assumed of the operator, the clock or new conflicts.
Fairness == /\ WF_vars(Deliver)
            /\ WF_vars(\E f \in choosing : ChooseFor(f))
            /\ \A d \in Decisions : WF_vars(EndEvaluation(d))

LiveSpec == Spec /\ Fairness

\* Nothing is under way: no flow waits, no event is queued, no proposal is evaluated.
Quiet == choosing = {} /\ ready = <<>> /\ \A d \in Decisions : evaluating[d] = Absent
-----------------------------------------------------------------------------
(* Properties. *)

\* A decision's plan is carried out at most once, although the orchestrator and
\* the operator may both approve it, the operator repeatedly: on_resolved of the
\* station and crew agents drops the plan before it publishes.
ExecutedAtMostOnce == \A d \in Decisions : executed[d] <= 1

\* No plan is carried out unless a verdict approving that decision was published
\* (station_agent.on_resolved, crew_agent.on_resolved).
ExecutedOnlyIfApproved == \A d \in Decisions : executed[d] > 0 => d \in approved

\* An id is never handed out twice, in one run of the simulation or across
\* resets: a decision that is still to be proposed has no trace anywhere, not
\* even in the audit table (DecisionLedger.clear keeps the counter).
IdsAreFresh ==
    \A d \in Decisions : d > counter =>
        /\ audit[d].status = "none" /\ pending[d] = NoOption /\ ledger[d] = NoRecord
        /\ d \notin approved /\ executed[d] = 0

\* Along a chain of operator rejections no option rejected on the chain is
\* proposed again: the exclusions accumulate (orchestrator.on_resolved, the
\* retry closures).
NeverReproposed == \A d \in Decisions : made[d].chosen \notin made[d].rejected

\* A commit on a resource is replaced only by one at least Window later; earlier
\* only after the operator freed it or a reset cleared the table.  Evaluations
\* overlap, end in any order, and each compares the time it captured before its
\* LLM call (orchestrator.on_proposed).
CommitsSpaced ==
    [][\A r \in Resources :
          commits[r] # Absent /\ commits'[r] # Absent =>
              commits'[r] = commits[r] \/ commits'[r] >= commits[r] + Window]_vars

\* Every proposal gets a verdict, even when its record was dropped by a reset.
VerdictReached ==
    \A d \in Decisions : audit[d].status = "proposed" ~> audit[d].status # "proposed"

\* An approved plan is carried out, unless a reset drops its record first: the
\* agent's plan is in place before the proposal can be approved
\* (BaseAgent.propose, on_created).
ApprovedIsExecuted ==
    \A d \in Decisions :
        d \in approved /\ ledger[d] # NoRecord /\ ledger[d].conflict # NoConflict
            ~> executed[d] = 1 \/ ledger[d] = NoRecord

(* The invariant that carries the safety properties through every step. *)

Queue == {ready[i] : i \in 1 .. Len(ready)}

\* Beyond the counter nothing has a trace of a decision.
NoTrace ==
    \A d \in Decisions : d > counter =>
        /\ audit[d].status = "none" /\ pending[d] = NoOption /\ ledger[d] = NoRecord
        /\ evaluating[d] = Absent /\ d \notin approved /\ executed[d] = 0

\* What is queued is about known decisions, an approval about an approved one.
QueueKnown ==
    \A e \in Queue :
        /\ e.topic = "decision.proposed" => e.dec <= counter
        /\ e.topic = "decision.resolved" /\ e.status = "approved" => e.dec \in approved

\* A plan still pending was not carried out; the rest is carried out once, approved.
PlanOnce ==
    \A d \in Decisions :
        /\ pending[d] # NoOption => executed[d] = 0
        /\ executed[d] <= 1
        /\ executed[d] > 0 => d \in approved

\* What the operator rejected on a chain is excluded from what the chain offers.
ChainExcluded ==
    /\ \A f \in choosing : f.rejected \subseteq f.excluded /\ f.offered \cap f.excluded = {}
    /\ \A d \in Decisions :
          /\ made[d].chosen \notin made[d].rejected
          /\ HasRetry(d) => made[d].rejected \subseteq ledger[d].excluded

FlowInv == TypeOK /\ NoTrace /\ QueueKnown /\ PlanOnce /\ ChainExcluded

\* The flow keeps the contract of DecisionContract.
Contract == INSTANCE DecisionContract WITH counter <- counter, approved <- approved,
                                          executed <- executed
KeepsContract == Contract!Spec

(* Claims of the documentation that the code does not keep. *)

\* README: "the operator can override any proposal".  A decision the operator
\* rejected while it had no verdict, and did not approve later, is not carried out.
OperatorVetoHolds == \A d \in vetoed : executed[d] = 0

\* Registry comment: a reset clears the stale per-run state, so that the demo runs
\* again from a clean slate.  No plan of a flow begun before the watcher cleared the
\* state is carried out afterwards, on the fresh twin.
PlansOfThisRun == [][\A d \in Decisions : executed'[d] > executed[d] => ~made[d].stale]_vars
=============================================================================
