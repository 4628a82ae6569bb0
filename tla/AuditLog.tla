------------------------------ MODULE AuditLog ------------------------------
(***************************************************************************)
(* EventFanout composed with the audit sink, which writes every envelope   *)
(* and the decision rows to SQLite inside publish, the ids the ledger      *)
(* hands out, and the restart of the process: the database outlives it,    *)
(* the ledger and the bus do not.                                          *)
(***************************************************************************)
EXTENDS EventFanout

CONSTANTS MaxDecisions,     \* bound: ids of one process
          MaxRestarts, MaxFailures   \* bounds: restarts, failed writes

ASSUME AuditAssumption == {MaxDecisions, MaxRestarts, MaxFailures} \subseteq Nat

Decisions == 1 .. MaxDecisions

VARIABLES counter,          \* DecisionLedger._counter
          records,          \* DecisionLedger._records, the ids
          undecided,        \* proposals whose verdict the orchestrator still owes
          log,              \* the event_log table
          rows,             \* the decisions table
          restarts, failures,
          old               \* history: ids issued by earlier processes

audit == <<counter, records, undecided, log, rows, restarts, failures, old>>
avars == <<fanout, audit>>

Other == [topic |-> "other"]
Proposed(d) == [topic |-> "decision.proposed", dec |-> d]
Resolved(d, s, by) == [topic |-> "decision.resolved", dec |-> d, status |-> s, by |-> by]

Verdicts == {"approved", "rejected"}
Events == {Other} \cup {Proposed(d) : d \in Decisions}
          \cup {Resolved(d, s, by) : d \in Decisions, s \in Verdicts, by \in {"orchestrator", "human"}}

NoRow == [status |-> "none", by |-> "nobody"]

ATypeOK ==
    /\ FTypeOK
    /\ counter \in 0 .. MaxDecisions /\ records \subseteq Decisions /\ undecided \subseteq Decisions
    /\ log \in Seq(Events) /\ Len(log) + failures = published
    /\ rows \in [Decisions -> [status : {"none", "proposed"} \cup Verdicts,
                               by : {"nobody", "orchestrator", "human"}]]
    /\ restarts \in 0 .. MaxRestarts /\ failures \in 0 .. MaxFailures /\ old \subseteq Decisions

AInit == /\ FInit
         /\ counter = 0 /\ records = {} /\ undecided = {} /\ log = <<>>
         /\ rows = [d \in Decisions |-> NoRow]
         /\ restarts = 0 /\ failures = 0 /\ old = {}
-----------------------------------------------------------------------------
(* AuditSink.handle *)

\* _upsert_decision leaves the resolver of an existing row; _resolve_decision ignores
\* a decision that has no row.
Handle(e) ==
    IF e.topic = "decision.proposed" THEN [rows EXCEPT ![e.dec].status = "proposed"]
    ELSE IF e.topic = "decision.resolved" /\ rows[e.dec] # NoRow
    THEN [rows EXCEPT ![e.dec] = [status |-> e.status, by |-> e.by]]
    ELSE rows

\* One transaction for both tables; a failed one is logged and forgotten.
Persist_RowsOnly(e) ==
    \/ log' = Append(log, e) /\ rows' = Handle(e) /\ UNCHANGED failures
    \/ /\ failures < MaxFailures /\ failures' = failures + 1
       /\ rows' = Handle(e) /\ UNCHANGED log
Persist(e) ==
    \/ log' = Append(log, e) /\ rows' = Handle(e) /\ UNCHANGED failures
    \/ failures < MaxFailures /\ failures' = failures + 1 /\ UNCHANGED <<log, rows>>

Emit(e) == Publish /\ Persist(e)
-----------------------------------------------------------------------------
(* Who publishes. *)

NextId_CountsRecords(n) == Cardinality(records) + 1
NextId(n) == n + 1

\* BaseAgent.propose
Propose ==
    /\ counter < MaxDecisions /\ counter' = NextId(counter)
    /\ records' = records \cup {counter'} /\ undecided' = undecided \cup {counter'}
    /\ Emit(Proposed(counter'))
    /\ UNCHANGED <<restarts, old>>

\* Orchestrator.on_proposed, whatever became of the record or of the row.
Decide(d, s) ==
    /\ d \in undecided /\ undecided' = undecided \ {d}
    /\ Emit(Resolved(d, s, "orchestrator"))
    /\ UNCHANGED <<counter, records, restarts, old>>

\* resolve_decision: any decision that has a row, of this process or an earlier one.
Resolve(d, s) ==
    /\ rows[d] # NoRow
    /\ Emit(Resolved(d, s, "human"))
    /\ UNCHANGED <<counter, records, undecided, restarts, old>>

OtherEvent == Emit(Other) /\ UNCHANGED <<counter, records, undecided, restarts, old>>

\* DecisionLedger.clear, on a reset of the simulation.
ClearLedger == /\ records # {} /\ records' = {}
               /\ UNCHANGED <<fanout, counter, undecided, log, rows, restarts, failures, old>>

\* lifespan: a new bus, a new ledger, the same database file.
Restart ==
    /\ restarts < MaxRestarts /\ restarts' = restarts + 1
    /\ FRestart
    /\ counter' = 0 /\ records' = {} /\ undecided' = {}
    /\ old' = old \cup 1 .. counter
    /\ UNCHANGED <<log, rows, failures>>

Next == \/ Propose \/ OtherEvent \/ ClearLedger \/ Restart
        \/ \E d \in Decisions, s \in Verdicts : Decide(d, s) \/ Resolve(d, s)
        \/ (\E c \in Connections : Socket(c)) /\ UNCHANGED audit

Spec == AInit /\ [][Next]_avars /\ \A c \in Connections : Flowing(c)
-----------------------------------------------------------------------------
(* Properties. *)

\* What a log l tells of a decision: the entries about it, counting from its first
\* proposal, and those of them that are verdicts.
About(l, d) ==
    {i \in 1 .. Len(l) :
        /\ l[i].topic # "other" /\ l[i].dec = d
        /\ \E j \in 1 .. i : l[j].topic = "decision.proposed" /\ l[j].dec = d}
Given(l, d) == {i \in About(l, d) : l[i].topic = "decision.resolved"}

RowIn(l, d) ==
    [status |-> IF About(l, d) = {} THEN "none"
                ELSE IF Max(About(l, d)) \in Given(l, d) THEN l[Max(About(l, d))].status
                ELSE "proposed",
     by |-> IF Given(l, d) = {} THEN "nobody" ELSE l[Max(Given(l, d))].by]

\* The audit trail is complete: the decision rows are what the event log says, whatever
\* writes failed, over restarts, for verdicts that come before, after or without a
\* proposal.  (A decision's status is that of the last event about it, its resolver that
\* of the last verdict, counting from its first proposal.)
RowsFollowLog == \A d \in Decisions : rows[d] = RowIn(log, d)

\* A decision with a verdict never becomes an undecided one again: ids are not handed out
\* twice, over resets of the simulation, except that a new process starts from dec-0001
\* again (base.py: "decision ids never collide with prior runs in the audit log").
VerdictsKept ==
    [][\A d \in Decisions \ old : rows[d].status \in Verdicts => rows'[d].status \in Verdicts]_avars
=============================================================================
