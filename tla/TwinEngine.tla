------------------------------ MODULE TwinEngine ------------------------------
(***************************************************************************)
(* The digital twin: trains crossing the stops of their routes as the      *)
(* clock ticks, the delays, blocks and reassignments that reach it, the    *)
(* baseline mode in which a train waits for an occupied platform, and the  *)
(* status events and KPIs a tick publishes afterwards, one by one.         *)
(*                                                                         *)
(* Time is in whole minutes.  A tick moves the clock by any of TickSizes,  *)
(* as the speed of the simulation makes it do.  start, pause and reset are *)
(* those of SimLifecycle; here a pause is the tick it cancels.             *)
(***************************************************************************)
EXTENDS Integers, FiniteSets, SequencesExt

CONSTANTS Order,            \* the trains by priority, then number
          Priority,         \* train -> Nat, 1 is premium
          Route,            \* train -> its stops [station, arr, dep, platform]
          Stations, Platforms,
          Headway, Boarding, Dwell, Threshold,
          Start,            \* SIM_START; some trains are on their way by then
          TickSizes, DelaySteps, BlockLength,
          MaxScenarios,     \* bound: scenarios, plans and pauses amid a tick
          Calm,             \* bound: they come no later than this
          MaxTime           \* bound: the clock

Absent == -1                \* a stop without arrival or departure; no crossing yet
Trains == ToSet(Order)
Stops == UNION {{t} \X DOMAIN Route[t] : t \in Trains}

\* What load_seed checks before the twin takes it.
Accepted == /\ \A t \in Trains : Route[t] # <<>>
            /\ \A s \in Stops : Route[s[1]][s[2]].station \in Stations

\* Timetables, besides, run forwards in time, and list every train once.
ASSUME TwinAssumption ==
    /\ Accepted /\ Order \in Seq(Trains) /\ IsInjective(Order)
    /\ Priority \in [Trains -> Nat]
    /\ \A i, j \in DOMAIN Order : i < j => Priority[Order[i]] <= Priority[Order[j]]
    /\ Route \in [Trains -> Seq([station : Stations, arr : Nat \cup {Absent},
                                 dep : Nat \cup {Absent}, platform : Platforms])]
    /\ \A s \in Stops :
          LET stop == Route[s[1]][s[2]]
          IN  /\ {stop.arr, stop.dep} # {Absent}
              /\ stop.arr = Absent => s[2] = 1
              /\ stop.dep = Absent => s[2] = Len(Route[s[1]])
              /\ stop.dep # Absent => stop.arr <= stop.dep
              /\ s[2] > 1 => Route[s[1]][s[2] - 1].dep < stop.arr
    /\ {Headway, Boarding, Dwell, Threshold, BlockLength} \subseteq Nat
    /\ {Start, MaxScenarios, Calm, MaxTime} \subseteq Nat
    /\ TickSizes \subseteq Nat \ {0} /\ DelaySteps \subseteq Nat \ {0}

VARIABLES baseline,         \* the constructor's flag
          now,              \* SimEngine._sim_time
          run,              \* what _load_state sets: delays, crossings, counters, ...
          outbox,           \* what the tick under way has still to publish
          told,             \* the status and delay published last for each train
          overtaken,        \* trains whose event in outbox an injected delay made stale
          lost,             \* history: trains whose last status was dropped or overtaken
          scenarios         \* how many of these so far

vars == <<baseline, now, run, outbox, told, overtaken, lost, scenarios>>

Statuses == {"scheduled", "running", "delayed", "at_platform", "terminated"}
Table == [Stops -> Nat \cup {Absent}]

RunStates ==
    [delay : [Trains -> Nat], platform : [Stops -> Platforms],
     blocks : SUBSET [station : Stations, platform : Platforms, start : Nat, end : Nat],
     arr : Table, dep : Table, boarding : SUBSET Stops, held : SUBSET Stops,
     waiting : SUBSET Trains, arrivals : Nat, instant : Nat,
     emitted : [Trains -> {<<>>} \cup (Statuses \X Nat)]]

TwinTypeOK ==
    /\ baseline \in BOOLEAN /\ now \in Nat /\ scenarios \in Nat /\ run \in RunStates
    /\ overtaken \subseteq Trains /\ lost \subseteq Trains
    /\ outbox \in Seq([train : Trains, status : Statuses \X Nat])
    /\ told \in [Trains -> Statuses \X Nat]

\* _load_state; a waiting train is one the tick under way holds short of its platform.
Loaded ==
    [delay |-> [t \in Trains |-> 0], platform |-> [s \in Stops |-> Route[s[1]][s[2]].platform],
     blocks |-> {}, arr |-> [s \in Stops |-> Absent], dep |-> [s \in Stops |-> Absent],
     boarding |-> {}, held |-> {}, waiting |-> {}, arrivals |-> 0, instant |-> 0,
     emitted |-> [t \in Trains |-> <<>>]]

\* What a client has that takes the state of a simulation just loaded.
Snapshot == [t \in Trains |-> <<"scheduled", 0>>]

Init == /\ baseline \in BOOLEAN
        /\ now = Start /\ run = Loaded /\ outbox = <<>> /\ overtaken = {} /\ scenarios = 0
        /\ told = Snapshot /\ lost = {}
-----------------------------------------------------------------------------
(* Geometry: where a train is, from its recorded crossings and its delay. *)

Sched(s) == Route[s[1]][s[2]]

\* arr(i), dep(i) of _locate: the crossing if it was recorded, else what is expected.
ArrOf(r, s) == IF r.arr[s] # Absent \/ Sched(s).arr = Absent THEN r.arr[s]
               ELSE Sched(s).arr + r.delay[s[1]]
DepOf_Expected(r, s) == IF Sched(s).dep = Absent THEN Absent ELSE Sched(s).dep + r.delay[s[1]]
DepOf(r, s) == IF r.dep[s] # Absent \/ Sched(s).dep = Absent THEN r.dep[s]
               ELSE Sched(s).dep + r.delay[s[1]]

Final(t) == <<t, Len(Route[t])>>
Finished(r, t, at) ==
    LET arr == ArrOf(r, Final(t))
    IN  at >= IF arr # Absent THEN arr ELSE DepOf(r, Final(t))

\* The stops the train has still to reach or to leave, and the first of them, 0 if none.
ToCome(r, t, at) == {i \in DOMAIN Route[t] : \/ at < ArrOf(r, <<t, i>>) \/ at < DepOf(r, <<t, i>>)
                                             \/ DepOf(r, <<t, i>>) = Absent}
NextStop(r, t, at) == IF ToCome(r, t, at) = {} THEN 0 ELSE Min(ToCome(r, t, at))

\* _locate: the status, and how far along the route: 2i at stop i, 2i - 1 before it.
Locate(r, t, at) ==
    LET i == NextStop(r, t, at)
        s == <<t, i>>
        on == IF r.delay[t] >= Threshold THEN "delayed" ELSE "running"
    IN  IF Finished(r, t, at) \/ i = 0
        THEN [status |-> "terminated", leg |-> 2 * Len(Route[t]) + 1]
        ELSE IF at < ArrOf(r, s) /\ i > 1 THEN [status |-> on, leg |-> 2 * i - 1]
        ELSE IF at < ArrOf(r, s) \/ ArrOf(r, s) = Absent
        THEN [status |-> "scheduled", leg |-> 2 * i - 1]
        ELSE [status |-> "at_platform", leg |-> 2 * i]

Status(r, t, at) == <<Locate(r, t, at).status, r.delay[t]>>
Active == {"running", "delayed", "at_platform"}
-----------------------------------------------------------------------------
(* Occupancy. *)

\* _window: when the train holds the platform of the stop, by its present delay.
Window_NoDelay(r, s) ==
    IF Sched(s).arr = Absent THEN [start |-> Sched(s).dep - Boarding, end |-> Sched(s).dep]
    ELSE [start |-> Sched(s).arr + r.delay[s[1]],
          end |-> IF Sched(s).dep = Absent THEN Sched(s).arr + Dwell ELSE Sched(s).dep]
Window(r, s) ==
    LET d == r.delay[s[1]]
    IN  CASE Sched(s).arr = Absent -> [start |-> Sched(s).dep + d - Boarding, end |-> Sched(s).dep + d]
          [] Sched(s).dep = Absent -> [start |-> Sched(s).arr + d, end |-> Sched(s).arr + d + Dwell]
          [] OTHER -> [start |-> Sched(s).arr + d, end |-> Sched(s).dep + d]

SamePlatform(r, s, u) == /\ s[1] # u[1] /\ Sched(s).station = Sched(u).station
                         /\ r.platform[s] = r.platform[u]

BlockedNow(r, s, at) ==
    \E b \in r.blocks : /\ b.station = Sched(s).station /\ b.platform = r.platform[s]
                        /\ b.start <= at /\ at < b.end

Present(r, u) == r.arr[u] # Absent \/ u \in r.boarding

\* _occupied_now, as the train of stop s finds its platform.
OccupiedNow_NoEnd(r, s, at) ==
    BlockedNow(r, s, at) \/ \E u \in Stops : SamePlatform(r, s, u) /\ Present(r, u)
OccupiedNow(r, s, at) ==
    \/ BlockedNow(r, s, at)
    \/ \E u \in Stops : /\ SamePlatform(r, s, u) /\ Present(r, u)
                        /\ Window(r, u).start <= at /\ at < Window(r, u).end + Headway
-----------------------------------------------------------------------------
(* One tick: _process_crossings for every train, in the order of priority. *)

Larger(a, b) == IF a > b THEN a ELSE b

ArrivalDue_Again(r, s, at) == Sched(s).arr # Absent /\ at >= Sched(s).arr + r.delay[s[1]]
ArrivalDue(r, s, at) == /\ Sched(s).arr # Absent /\ r.arr[s] = Absent
                        /\ at >= Sched(s).arr + r.delay[s[1]]

\* The train waits short of the platform: its delay reaches into the next minute.
Hold_Swapped(r, s, at) == [r EXCEPT !.delay[s[1]] = Sched(s).arr - at + 1,
                                    !.held = @ \cup {s}, !.waiting = @ \cup {s[1]}]
Hold(r, s, at) == [r EXCEPT !.delay[s[1]] = Larger(@, at - Sched(s).arr + 1),
                            !.held = @ \cup {s}, !.waiting = @ \cup {s[1]}]

Arrive(r, s, at) ==
    LET d == IF baseline THEN Larger(r.delay[s[1]], at - Sched(s).arr) ELSE r.delay[s[1]]
    IN  [r EXCEPT !.delay[s[1]] = d, !.arr[s] = Sched(s).arr + d, !.arrivals = @ + 1,
                  !.instant = IF OccupiedNow(r, s, at) \/ s \in r.held THEN @ ELSE @ + 1]

Board(r, s, at) ==
    IF Sched(s).arr = Absent /\ at >= Sched(s).dep + r.delay[s[1]] - Boarding
    THEN [r EXCEPT !.boarding = @ \cup {s}] ELSE r

Depart_OnSchedule(r, s, at) ==
    IF /\ Sched(s).dep # Absent /\ r.dep[s] = Absent /\ at >= Sched(s).dep
       /\ Sched(s).arr = Absent \/ r.arr[s] # Absent
    THEN [r EXCEPT !.dep[s] = Sched(s).dep] ELSE r
Depart(r, s, at) ==
    IF /\ Sched(s).dep # Absent /\ r.dep[s] = Absent
       /\ at >= Sched(s).dep + r.delay[s[1]]
       /\ Sched(s).arr = Absent \/ r.arr[s] # Absent
    THEN [r EXCEPT !.dep[s] = Sched(s).dep + r.delay[s[1]]] ELSE r

\* One stop of the route; a held train gets no further.
Cross(r, s, at) ==
    IF s[1] \in r.waiting THEN r
    ELSE IF ArrivalDue(r, s, at) /\ baseline /\ OccupiedNow(r, s, at) THEN Hold(r, s, at)
    ELSE Depart(IF ArrivalDue(r, s, at) THEN Arrive(r, s, at) ELSE Board(r, s, at), s, at)

\* One train: its stops one after the other.
ProcessCrossings(r, t, at) ==
    LET after[i \in 0 .. Len(Route[t])] ==
            IF i = 0 THEN r ELSE Cross(after[i - 1], <<t, i>>, at)
    IN  after[Len(Route[t])]

\* The trains as a tick takes them: premium trains are admitted first.
Crossed(at) ==
    LET after[i \in 0 .. Len(Order)] ==
            IF i = 0 THEN [run EXCEPT !.waiting = {}]
            ELSE ProcessCrossings(after[i - 1], Order[i], at)
    IN  after[Len(Order)]

\* A status event for what changed, a position for what moves; both carry the status.
Published_Moving(r, t, at) == Locate(r, t, at).status \in Active
Published(r, t, at) ==
    r.emitted[t] # Status(r, t, at) \/ Locate(r, t, at).status \in Active

Event(r, t, at) == [train |-> t, status |-> Status(r, t, at)]

\* The events of a tick, of the trains in the same order.
Events(r, at) ==
    LET events[i \in 0 .. Len(Order)] ==
            IF i = 0 THEN <<>>
            ELSE IF Published(r, Order[i], at) THEN Append(events[i - 1], Event(r, Order[i], at))
            ELSE events[i - 1]
    IN  events[Len(Order)]

\* _advance_to up to its first await: the events are ready, _emitted counts them as sent.
Tick(k) ==
    /\ outbox = <<>> /\ now + k <= MaxTime
    /\ now' = now + k
    /\ \E r \in {Crossed(now')} :
       /\ run' = [r EXCEPT !.emitted = [t \in Trains |-> Status(r, t, now')]]
       /\ outbox' = Events(r, now')
    /\ UNCHANGED <<baseline, told, overtaken, lost, scenarios>>

\* publish of the next event, which waits for its handlers.
PublishNext ==
    /\ outbox # <<>> /\ outbox' = Tail(outbox)
    /\ LET t == Head(outbox).train
       IN  /\ told' = [told EXCEPT ![t] = Head(outbox).status]
           /\ lost' = IF t \in overtaken THEN lost \cup {t} ELSE lost \ {t}
           /\ overtaken' = overtaken \ {t}
    /\ UNCHANGED <<baseline, now, run, scenarios>>

Scenario == now <= Calm /\ scenarios < MaxScenarios /\ scenarios' = scenarios + 1

\* pause cancels the loop between two events of a tick.
Unsent == {outbox[i].train : i \in DOMAIN outbox}
CancelTick == /\ Scenario
              /\ outbox # <<>> /\ outbox' = <<>>
              /\ lost' = lost \cup (Unsent \ overtaken) /\ overtaken' = {}
              /\ UNCHANGED <<baseline, now, run, told>>

Reset == /\ now' = Start /\ run' = Loaded /\ outbox' = <<>> /\ overtaken' = {}
         /\ told' = Snapshot /\ lost' = {}
         /\ UNCHANGED <<baseline, scenarios>>
-----------------------------------------------------------------------------
(* The bus handlers. *)

\* _apply_delay publishes the new status at once, before what a tick still has to publish.
InjectDelay(t, m) ==
    /\ Scenario
    /\ LET r == [run EXCEPT !.delay[t] = @ + m]
       IN  /\ run' = [r EXCEPT !.emitted[t] = Status(r, t, now)]
           /\ told' = [told EXCEPT ![t] = Status(r, t, now)]
    /\ lost' = lost \ {t}
    /\ overtaken' = overtaken \cup ({t} \cap Unsent)
    /\ UNCHANGED <<baseline, now, outbox>>

InjectBlock(st, p) ==
    /\ Scenario
    /\ run' = [run EXCEPT !.blocks = @ \cup {[station |-> st, platform |-> p, start |-> now,
                                              end |-> now + BlockLength]}]
    /\ UNCHANGED <<baseline, now, outbox, told, overtaken, lost>>

\* _on_platform_reassigned
Reassign(s, p) ==
    /\ Scenario /\ ~baseline
    /\ run' = [run EXCEPT !.platform[s] = p]
    /\ UNCHANGED <<baseline, now, outbox, told, overtaken, lost>>

Disturbance == \/ \E t \in Trains, m \in DelaySteps : InjectDelay(t, m)
               \/ \E st \in Stations, p \in Platforms : InjectBlock(st, p)
               \/ \E s \in Stops : \E p \in Platforms \ {run.platform[s]} : Reassign(s, p)

Next == \/ \E k \in TickSizes : Tick(k)
        \/ PublishNext \/ CancelTick \/ Reset
        \/ Disturbance

Spec == Init /\ [][Next]_vars
-----------------------------------------------------------------------------
(* Properties. *)

\* The crossings a train's records hold are those of a train: it reaches the stops in
\* the order of its route, leaves each after it reached it, and none lies in the future.
CrossingsOrdered ==
    \A s \in Stops :
        /\ run.arr[s] <= now /\ run.dep[s] <= now
        /\ run.dep[s] # Absent => run.arr[s] <= run.dep[s]
        /\ run.dep[s] # Absent /\ Sched(s).arr # Absent => run.arr[s] # Absent
        /\ s[2] > 1 /\ run.arr[s] # Absent =>
              /\ run.dep[<<s[1], s[2] - 1>>] # Absent
              /\ run.dep[<<s[1], s[2] - 1>>] < run.arr[s]

\* "Once a train actually passes a stop the crossing time is recorded so later delay
\* injections never rewrite the past": until a reset no crossing changes, and once the
\* first tick has recorded those before SIM_START no train is found at or before a stop it
\* has left, whatever delay is injected and wherever it is.
NeverBack == /\ \A s \in Stops : /\ run.arr[s] # Absent => run'.arr[s] = run.arr[s]
                                 /\ run.dep[s] # Absent => run'.dep[s] = run.dep[s]
             /\ now > Start =>
                   \A t \in Trains : Locate(run', t, now').leg >= Locate(run, t, now).leg
PastIsKept == [][now' >= now /\ run' # Loaded => NeverBack]_vars

\* project_downstream_impact announces the stops a train has still to leave: they are a
\* tail of its route, and begin with the stop the map shows it at or heading for; of a
\* train shown as terminated it announces at most the last stop, which it has reached.
Remaining(t) == {i \in DOMAIN Route[t] :
                    IF Sched(<<t, i>>).dep # Absent THEN run.dep[<<t, i>>] = Absent
                                                    ELSE run.arr[<<t, i>>] = Absent}
Ahead(t) == {i \in DOMAIN Route[t] : Locate(run, t, now).leg <= 2 * i}
RemainingIsAhead ==
    now > Start => \A t \in Trains :
        \/ Remaining(t) = Ahead(t)
        \/ Ahead(t) = {} /\ Remaining(t) = {Len(Route[t])} /\ run.arr[Final(t)] # Absent

\* In baseline mode "a train arriving at an occupied platform waits": of two trains that
\* arrived on one platform one had left before the other came, if no delay was injected
\* into a train while it stood there.
Stay(r, s) == [start |-> r.arr[s],
               end |-> IF Sched(s).dep = Absent THEN r.arr[s] + Dwell ELSE DepOf(r, s)]
Shifted(r, s) == IF r.dep[s] # Absent
                 THEN r.dep[s] - Sched(s).dep # r.arr[s] - Sched(s).arr
                 ELSE Sched(s).arr + r.delay[s[1]] # r.arr[s]
Exclusive(r) ==
    \A s, u \in Stops :
        /\ SamePlatform(r, s, u) /\ r.arr[s] # Absent /\ r.arr[u] # Absent
        /\ ~Shifted(r, s) /\ ~Shifted(r, u)
        => Stay(r, s).end <= Stay(r, u).start \/ Stay(r, u).end <= Stay(r, s).start
BaselineExclusive == baseline => Exclusive(run)

\* Nobody waits forever: some time after the last arrival of the timetable, allowing for
\* the delays and blocks injected and for every train to wait behind every other, all
\* trains have terminated.
Deadline ==
    Max({Larger(Sched(Final(t)).arr, Sched(Final(t)).dep) : t \in Trains})
    + scenarios * Max(DelaySteps \cup {BlockLength + Headway})
    + (Cardinality(Trains) - 1) * (Dwell + Headway) + Cardinality(Stops) * (Max(TickSizes) - 1)
NobodyWaitsForever ==
    now >= Deadline => \A t \in Trains : Finished(run, t, now)

\* When a tick has published everything, the clients know the status and delay of every
\* train, also those the tick had nothing to tell of, unless the last event about the
\* train was cancelled with its tick or overtaken by the one of an injected delay.
ClientsAgree ==
    outbox = <<>> /\ now > Start =>
        \A t \in Trains \ lost : told[t] = Status(run, t, now)
=============================================================================
