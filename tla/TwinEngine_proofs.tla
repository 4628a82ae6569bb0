--------------------------- MODULE TwinEngine_proofs ---------------------------
(***************************************************************************)
(* Proofs about TwinEngine for every timetable, any number of trains,      *)
(* stations and platforms and ticks of any length.                         *)
(***************************************************************************)
EXTENDS TwinEngine, SequenceLemmas

-----------------------------------------------------------------------------
(* The timetable. *)

LEMMA RouteTypes ==
    ASSUME NEW t \in Trains
    PROVE  /\ Len(Route[t]) \in Nat \ {0} /\ DOMAIN Route[t] = 1 .. Len(Route[t])
           /\ \A i \in 1 .. Len(Route[t]) :
                 /\ <<t, i>> \in Stops
                 /\ Sched(<<t, i>>).platform \in Platforms /\ Sched(<<t, i>>).station \in Stations
                 /\ Sched(<<t, i>>).arr \in Nat \cup {Absent}
                 /\ Sched(<<t, i>>).dep \in Nat \cup {Absent}
<1> DEFINE R == [station : Stations, arr : Nat \cup {Absent},
                 dep : Nat \cup {Absent}, platform : Platforms]
<1>1. Route[t] \in Seq(R) /\ Route[t] # <<>>
  BY TwinAssumption DEF Accepted
<1>2. Len(Route[t]) \in Nat \ {0} /\ DOMAIN Route[t] = 1 .. Len(Route[t])
  <2> HIDE DEF R
  <2> QED
    BY <1>1
<1>3. ASSUME NEW i \in 1 .. Len(Route[t])
      PROVE  /\ <<t, i>> \in Stops /\ Sched(<<t, i>>) \in R
  <2> HIDE DEF R
  <2>1. Route[t][i] \in R
    BY <1>1
  <2> QED
    BY <1>2, <2>1 DEF Stops, Sched
<1> QED
  BY <1>2, <1>3

LEMMA StopTypes ==
    ASSUME NEW s \in Stops
    PROVE  /\ s[1] \in Trains /\ s[2] \in Nat \ {0} /\ s[2] \in 1 .. Len(Route[s[1]])
           /\ s = <<s[1], s[2]>>
           /\ Sched(s).platform \in Platforms /\ Sched(s).station \in Stations
           /\ Sched(s).arr \in Nat \cup {Absent} /\ Sched(s).dep \in Nat \cup {Absent}
           /\ Sched(s).arr # Absent \/ Sched(s).dep # Absent
           /\ Sched(s).arr = Absent => s[2] = 1
           /\ Sched(s).dep = Absent => s[2] = Len(Route[s[1]])
           /\ Sched(s).dep # Absent => Sched(s).arr <= Sched(s).dep
           /\ s[2] > 1 => /\ <<s[1], s[2] - 1>> \in Stops
                          /\ Sched(<<s[1], s[2] - 1>>).dep < Sched(s).arr
<1>1. PICK t \in Trains : \E i \in DOMAIN Route[t] : s = <<t, i>>
  BY DEF Stops
<1>2. PICK i \in 1 .. Len(Route[t]) : s = <<t, i>>
  BY <1>1, RouteTypes
<1>3. s[1] = t /\ s[2] = i /\ Len(Route[t]) \in Nat
  BY <1>2, RouteTypes
<1>4. s[2] > 1 => <<s[1], s[2] - 1>> \in Stops
  BY <1>3, RouteTypes
<1>5. /\ Sched(s).arr = Absent => s[2] = 1
      /\ Sched(s).dep = Absent => s[2] = Len(Route[s[1]])
      /\ Sched(s).dep # Absent => Sched(s).arr <= Sched(s).dep
      /\ Sched(s).arr # Absent \/ Sched(s).dep # Absent
      /\ s[2] > 1 => Sched(<<s[1], s[2] - 1>>).dep < Sched(s).arr
  BY TwinAssumption DEF Sched
<1> QED
  BY <1>2, <1>3, <1>4, <1>5, RouteTypes

-----------------------------------------------------------------------------
(* One stop. *)

LEMMA ConstantTypes ==
    /\ Headway \in Nat /\ Boarding \in Nat /\ Dwell \in Nat /\ Threshold \in Nat
    /\ BlockLength \in Nat /\ Start \in Nat /\ Absent \in Int /\ Absent < 0
    /\ TickSizes \subseteq Nat \ {0} /\ DelaySteps \subseteq Nat \ {0}
BY TwinAssumption DEF Absent

LEMMA RunTypes ==
    ASSUME NEW r \in RunStates
    PROVE  /\ \A t \in Trains : r.delay[t] \in Nat
           /\ \A s \in Stops : /\ r.arr[s] \in Nat \cup {Absent} /\ r.dep[s] \in Nat \cup {Absent}
                               /\ r.platform[s] \in Platforms
BY DEF RunStates, Table

LEMMA AtStop ==
    ASSUME NEW r \in RunStates, NEW s \in Stops
    PROVE  /\ s[1] \in Trains /\ r.delay[s[1]] \in Nat
           /\ Sched(s).arr # Absent => Sched(s).arr \in Nat
           /\ Sched(s).dep # Absent => Sched(s).dep \in Nat
<1>1. /\ s[1] \in Trains /\ Sched(s).arr \in Nat \cup {Absent} /\ Sched(s).dep \in Nat \cup {Absent}
  BY StopTypes
<1> QED
  BY <1>1, RunTypes

LEMMA HoldFields ==
    ASSUME NEW r \in RunStates, NEW s \in Stops, NEW at \in Nat, ArrivalDue(r, s, at)
    PROVE  LET q == Hold(r, s, at)
           IN  /\ q \in RunStates
               /\ q.platform = r.platform /\ q.blocks = r.blocks /\ q.emitted = r.emitted
               /\ q.arr = r.arr /\ q.dep = r.dep /\ q.waiting = r.waiting \cup {s[1]}
               /\ \A t \in Trains \ {s[1]} : q.delay[t] = r.delay[t]
               /\ q.delay[s[1]] = at - Sched(s).arr + 1
<1> DEFINE d == Larger(r.delay[s[1]], at - Sched(s).arr + 1)
           delay == [r.delay EXCEPT ![s[1]] = d]
           held == r.held \cup {s}
           waiting == r.waiting \cup {s[1]}
<1>1. s[1] \in Trains /\ d \in Nat /\ d = at - Sched(s).arr + 1
  BY AtStop DEF ArrivalDue, Larger
<1>2. Hold(r, s, at) = [r EXCEPT !.delay = delay, !.held = held, !.waiting = waiting]
  BY DEF Hold
<1> HIDE DEF d
<1>3. /\ delay \in [Trains -> Nat] /\ held \in SUBSET Stops /\ waiting \in SUBSET Trains
      /\ delay[s[1]] = d /\ \A t \in Trains \ {s[1]} : delay[t] = r.delay[t]
  BY <1>1 DEF RunStates
<1> HIDE DEF delay, held, waiting
<1>4. LET q == Hold(r, s, at)
      IN  /\ q \in RunStates
          /\ q.platform = r.platform /\ q.blocks = r.blocks /\ q.emitted = r.emitted
          /\ q.arr = r.arr /\ q.dep = r.dep /\ q.waiting = waiting /\ q.delay = delay
  BY <1>2, <1>3 DEF RunStates
<1> QED
  BY <1>1, <1>3, <1>4 DEF waiting

LEMMA BoardFields ==
    ASSUME NEW r \in RunStates, NEW s \in Stops, NEW at \in Nat
    PROVE  LET q == Board(r, s, at)
           IN  /\ q \in RunStates
               /\ q.platform = r.platform /\ q.blocks = r.blocks /\ q.emitted = r.emitted
               /\ q.arr = r.arr /\ q.dep = r.dep /\ q.waiting = r.waiting /\ q.delay = r.delay
BY DEF RunStates, Board

LEMMA ArriveFields ==
    ASSUME NEW r \in RunStates, NEW s \in Stops, NEW at \in Nat, ArrivalDue(r, s, at)
    PROVE  LET q == Arrive(r, s, at)
               d == IF baseline THEN at - Sched(s).arr ELSE r.delay[s[1]]
           IN  /\ q \in RunStates
               /\ q.platform = r.platform /\ q.blocks = r.blocks /\ q.emitted = r.emitted
               /\ q.dep = r.dep /\ q.waiting = r.waiting
               /\ \A t \in Trains \ {s[1]} : q.delay[t] = r.delay[t]
               /\ \A u \in Stops \ {s} : q.arr[u] = r.arr[u]
               /\ d \in Nat /\ r.delay[s[1]] <= d
               /\ q.delay[s[1]] = d /\ q.arr[s] = Sched(s).arr + d
<1> DEFINE d == IF baseline THEN Larger(r.delay[s[1]], at - Sched(s).arr) ELSE r.delay[s[1]]
           c == IF OccupiedNow(r, s, at) \/ s \in r.held THEN r.instant ELSE r.instant + 1
           delay == [r.delay EXCEPT ![s[1]] = d]
           arr == [r.arr EXCEPT ![s] = Sched(s).arr + d]
<1>1. /\ s[1] \in Trains /\ d \in Nat
      /\ d = IF baseline THEN at - Sched(s).arr ELSE r.delay[s[1]]
      /\ r.delay[s[1]] <= d /\ Sched(s).arr + d \in Nat
  BY AtStop DEF ArrivalDue, Larger
<1>2. c \in Nat /\ r.arrivals + 1 \in Nat
  BY DEF RunStates
<1>3. Arrive(r, s, at) = [r EXCEPT !.delay = delay, !.arr = arr, !.arrivals = @ + 1, !.instant = c]
  BY DEF Arrive
<1> HIDE DEF d, c
<1>4. /\ delay \in [Trains -> Nat] /\ arr \in Table
      /\ delay[s[1]] = d /\ \A t \in Trains \ {s[1]} : delay[t] = r.delay[t]
      /\ arr[s] = Sched(s).arr + d /\ \A u \in Stops \ {s} : arr[u] = r.arr[u]
  BY <1>1 DEF RunStates, Table
<1> HIDE DEF delay, arr
<1>5. LET q == Arrive(r, s, at)
      IN  /\ q \in RunStates
          /\ q.platform = r.platform /\ q.blocks = r.blocks /\ q.emitted = r.emitted
          /\ q.dep = r.dep /\ q.waiting = r.waiting /\ q.delay = delay /\ q.arr = arr
  BY <1>2, <1>3, <1>4 DEF RunStates
<1> QED
  BY <1>1, <1>4, <1>5

LEMMA DepartFields ==
    ASSUME NEW r \in RunStates, NEW s \in Stops, NEW at \in Nat
    PROVE  LET q == Depart(r, s, at)
           IN  /\ q \in RunStates
               /\ q.platform = r.platform /\ q.blocks = r.blocks /\ q.emitted = r.emitted
               /\ q.arr = r.arr /\ q.waiting = r.waiting /\ q.delay = r.delay
               /\ \A u \in Stops \ {s} : q.dep[u] = r.dep[u]
               /\ q.dep[s] = IF /\ Sched(s).dep # Absent /\ r.dep[s] = Absent
                                /\ at >= Sched(s).dep + r.delay[s[1]]
                                /\ Sched(s).arr = Absent \/ r.arr[s] # Absent
                             THEN Sched(s).dep + r.delay[s[1]] ELSE r.dep[s]
<1> DEFINE e == Sched(s).dep + r.delay[s[1]]
           due == /\ Sched(s).dep # Absent /\ r.dep[s] = Absent /\ at >= e
                  /\ Sched(s).arr = Absent \/ r.arr[s] # Absent
           dep == [r.dep EXCEPT ![s] = e]
<1>1. Depart(r, s, at) = IF due THEN [r EXCEPT !.dep = dep] ELSE r
  BY DEF Depart
<1>2. due => e \in Nat
  BY AtStop
<1> HIDE DEF e
<1>3. CASE due
  <2>1. dep \in Table /\ dep[s] = e /\ \A u \in Stops \ {s} : dep[u] = r.dep[u]
    BY <1>2, <1>3 DEF RunStates, Table
  <2> HIDE DEF dep
  <2>2. LET q == Depart(r, s, at)
        IN  /\ q \in RunStates
            /\ q.platform = r.platform /\ q.blocks = r.blocks /\ q.emitted = r.emitted
            /\ q.arr = r.arr /\ q.waiting = r.waiting /\ q.delay = r.delay /\ q.dep = dep
    BY <1>1, <1>3, <2>1 DEF RunStates
  <2> QED
    BY <1>3, <2>1, <2>2 DEF e
<1>4. CASE ~due
  BY <1>1, <1>4 DEF e
<1> QED
  BY <1>3, <1>4

\* Stop s under way: held short of it, or crossed as far as the clock allows.
Stays(r, q, s) ==
    /\ q \in RunStates
    /\ q.platform = r.platform /\ q.blocks = r.blocks /\ q.emitted = r.emitted
    /\ \A t \in Trains \ {s[1]} : q.delay[t] = r.delay[t]
    /\ \A u \in Stops \ {s} : q.arr[u] = r.arr[u] /\ q.dep[u] = r.dep[u]
Held(r, q, s, at) ==
    /\ ArrivalDue(r, s, at)
    /\ q.arr = r.arr /\ q.dep = r.dep /\ q.waiting = r.waiting \cup {s[1]}
    /\ q.delay[s[1]] = at - Sched(s).arr + 1
Arrived(r, q, s, at) ==
    IF ArrivalDue(r, s, at)
    THEN /\ baseline => ~OccupiedNow(r, s, at)
         /\ q.delay[s[1]] = IF baseline THEN at - Sched(s).arr ELSE r.delay[s[1]]
         /\ q.arr[s] = Sched(s).arr + q.delay[s[1]]
    ELSE q.delay[s[1]] = r.delay[s[1]] /\ q.arr[s] = r.arr[s]
Departed(r, q, s, at) ==
    q.dep[s] = IF /\ Sched(s).dep # Absent /\ r.dep[s] = Absent
                  /\ at >= Sched(s).dep + q.delay[s[1]]
                  /\ Sched(s).arr = Absent \/ q.arr[s] # Absent
               THEN Sched(s).dep + q.delay[s[1]] ELSE r.dep[s]

Crossing(r, q, s, at) ==
    /\ Stays(r, q, s) /\ r.delay[s[1]] <= q.delay[s[1]]
    /\ \/ Held(r, q, s, at)
       \/ q.waiting = r.waiting /\ Arrived(r, q, s, at) /\ Departed(r, q, s, at)

LEMMA CrossFields ==
    ASSUME NEW r \in RunStates, NEW s \in Stops, NEW at \in Nat, s[1] \notin r.waiting
    PROVE  Crossing(r, Cross(r, s, at), s, at)
<1>1. CASE ArrivalDue(r, s, at) /\ baseline /\ OccupiedNow(r, s, at)
  <2>1. Cross(r, s, at) = Hold(r, s, at)
    BY <1>1 DEF Cross
  <2>2. r.delay[s[1]] <= at - Sched(s).arr + 1
    BY <1>1, AtStop DEF ArrivalDue
  <2> QED
    BY <1>1, <2>1, <2>2, HoldFields DEF Crossing, Stays, Held
<1>2. CASE ArrivalDue(r, s, at) /\ ~(baseline /\ OccupiedNow(r, s, at))
  <2> DEFINE m == Arrive(r, s, at)
  <2>1. Cross(r, s, at) = Depart(m, s, at)
    BY <1>2 DEF Cross
  <2>2. /\ m \in RunStates
        /\ m.platform = r.platform /\ m.blocks = r.blocks /\ m.emitted = r.emitted
        /\ m.dep = r.dep /\ m.waiting = r.waiting
        /\ \A t \in Trains \ {s[1]} : m.delay[t] = r.delay[t]
        /\ \A u \in Stops \ {s} : m.arr[u] = r.arr[u]
        /\ r.delay[s[1]] <= m.delay[s[1]]
        /\ m.delay[s[1]] = (IF baseline THEN at - Sched(s).arr ELSE r.delay[s[1]])
        /\ m.arr[s] = Sched(s).arr + m.delay[s[1]]
    BY <1>2, ArriveFields
  <2> HIDE DEF m
  <2> DEFINE q == Depart(m, s, at)
  <2>3. /\ q \in RunStates
        /\ q.platform = m.platform /\ q.blocks = m.blocks /\ q.emitted = m.emitted
        /\ q.arr = m.arr /\ q.waiting = m.waiting /\ q.delay = m.delay
        /\ \A u \in Stops \ {s} : q.dep[u] = m.dep[u]
        /\ q.dep[s] = IF /\ Sched(s).dep # Absent /\ m.dep[s] = Absent
                         /\ at >= Sched(s).dep + m.delay[s[1]]
                         /\ Sched(s).arr = Absent \/ m.arr[s] # Absent
                      THEN Sched(s).dep + m.delay[s[1]] ELSE m.dep[s]
    BY <2>2, DepartFields
  <2> HIDE DEF q
  <2>4. Stays(r, q, s)
    BY <2>2, <2>3 DEF Stays
  <2>5. Arrived(r, q, s, at)
    BY <1>2, <2>2, <2>3 DEF Arrived
  <2>6. Departed(r, q, s, at) /\ q.waiting = r.waiting /\ r.delay[s[1]] <= q.delay[s[1]]
    BY <2>2, <2>3 DEF Departed
  <2> QED
    BY <2>1, <2>4, <2>5, <2>6 DEF q, Crossing
<1>3. CASE ~ArrivalDue(r, s, at)
  <2> DEFINE m == Board(r, s, at)
  <2>1. Cross(r, s, at) = Depart(m, s, at)
    BY <1>3 DEF Cross
  <2>2. /\ m \in RunStates
        /\ m.platform = r.platform /\ m.blocks = r.blocks /\ m.emitted = r.emitted
        /\ m.arr = r.arr /\ m.dep = r.dep /\ m.waiting = r.waiting /\ m.delay = r.delay
    BY BoardFields
  <2>3. r.delay[s[1]] \in Nat
    BY AtStop
  <2> HIDE DEF m
  <2> DEFINE q == Depart(m, s, at)
  <2>4. /\ q \in RunStates
        /\ q.platform = m.platform /\ q.blocks = m.blocks /\ q.emitted = m.emitted
        /\ q.arr = m.arr /\ q.waiting = m.waiting /\ q.delay = m.delay
        /\ \A u \in Stops \ {s} : q.dep[u] = m.dep[u]
        /\ q.dep[s] = IF /\ Sched(s).dep # Absent /\ m.dep[s] = Absent
                         /\ at >= Sched(s).dep + m.delay[s[1]]
                         /\ Sched(s).arr = Absent \/ m.arr[s] # Absent
                      THEN Sched(s).dep + m.delay[s[1]] ELSE m.dep[s]
    BY <2>2, DepartFields
  <2> HIDE DEF q
  <2>5. Stays(r, q, s)
    BY <2>2, <2>4 DEF Stays
  <2>6. Arrived(r, q, s, at)
    BY <1>3, <2>2, <2>4 DEF Arrived
  <2>7. Departed(r, q, s, at) /\ q.waiting = r.waiting /\ r.delay[s[1]] <= q.delay[s[1]]
    BY <2>2, <2>3, <2>4 DEF Departed
  <2> QED
    BY <2>1, <2>5, <2>6, <2>7 DEF q, Crossing
<1> QED
  BY <1>1, <1>2, <1>3

-----------------------------------------------------------------------------
(* What the records of a run satisfy. *)

\* A crossing lies between the timetable and the timetable plus the delay, and in the past.
Recorded(r, at) ==
    \A s \in Stops :
        /\ r.arr[s] # Absent =>
              /\ Sched(s).arr # Absent /\ Sched(s).arr <= r.arr[s]
              /\ r.arr[s] <= Sched(s).arr + r.delay[s[1]] /\ r.arr[s] <= at
        /\ r.dep[s] # Absent =>
              /\ Sched(s).dep # Absent /\ Sched(s).dep <= r.dep[s]
              /\ r.dep[s] <= Sched(s).dep + r.delay[s[1]] /\ r.dep[s] <= at
              /\ Sched(s).arr # Absent => r.arr[s] # Absent /\ r.arr[s] <= r.dep[s]

\* A train that has reached a stop left every stop before it, and earlier.
InOrder(r) ==
    \A s, u \in Stops :
        s[1] = u[1] /\ s[2] < u[2] /\ r.arr[u] # Absent =>
            r.dep[s] # Absent /\ r.dep[s] < r.arr[u]

\* The crossings of the stop that are due are recorded.
Settled(r, s, at) ==
    /\ Sched(s).arr # Absent /\ at >= Sched(s).arr + r.delay[s[1]] => r.arr[s] # Absent
    /\ Sched(s).dep # Absent /\ at >= Sched(s).dep + r.delay[s[1]] => r.dep[s] # Absent

\* From r to q records are only added and delays only grow.
Grown(r, q) ==
    /\ q.platform = r.platform /\ q.blocks = r.blocks /\ q.emitted = r.emitted
    /\ \A t \in Trains : r.delay[t] <= q.delay[t]
    /\ \A s \in Stops : /\ r.arr[s] # Absent => q.arr[s] = r.arr[s]
                        /\ r.dep[s] # Absent => q.dep[s] = r.dep[s]

LEMMA Forward ==
    ASSUME NEW s \in Stops, NEW u \in Stops, s[1] = u[1], s[2] < u[2]
    PROVE  /\ Sched(s).dep \in Nat /\ Sched(u).arr \in Nat /\ Sched(s).dep < Sched(u).arr
           /\ Sched(s).dep # Absent /\ Sched(u).arr # Absent
<1> DEFINE t == s[1]
           n == Len(Route[t])
           i == s[2]
           I == {k \in Nat : i + 1 + k \in 1 .. n =>
                             Sched(<<t, i>>).dep < Sched(<<t, i + 1 + k>>).arr}
<1>1. /\ t \in Trains /\ n \in Nat /\ i \in 1 .. n /\ u[2] \in 1 .. n
      /\ s = <<t, i>> /\ u = <<t, u[2]>>
  <2>1. s[1] \in Trains /\ s[2] \in 1 .. Len(Route[s[1]]) /\ s = <<s[1], s[2]>>
    BY StopTypes
  <2>2. u[2] \in 1 .. Len(Route[u[1]]) /\ u = <<u[1], u[2]>>
    BY StopTypes
  <2>3. Len(Route[s[1]]) \in Nat
    BY <2>1, RouteTypes
  <2> QED
    BY <2>1, <2>2, <2>3
<1>2. ASSUME NEW j \in 1 .. n
      PROVE  LET p == <<t, j>>
             IN  /\ p \in Stops /\ Sched(p).arr \in Nat \cup {Absent}
                 /\ Sched(p).dep \in Nat \cup {Absent}
                 /\ Sched(p).arr = Absent => j = 1
                 /\ Sched(p).dep = Absent => j = n
                 /\ Sched(p).dep # Absent => Sched(p).arr <= Sched(p).dep
                 /\ j > 1 => Sched(<<t, j - 1>>).dep < Sched(p).arr
  <2>1. <<t, j>> \in Stops /\ <<t, j>>[1] = t /\ <<t, j>>[2] = j
    BY <1>1, RouteTypes
  <2> HIDE DEF t, n
  <2> QED
    BY <2>1, StopTypes DEF n
<1> HIDE DEF t, n
<1>3. 0 \in I
  BY <1>1, <1>2
<1>4. ASSUME NEW k \in 0 .. n - 1, k \in I PROVE k + 1 \in I
  <2> SUFFICES ASSUME i + 1 + (k + 1) \in 1 .. n
               PROVE  Sched(<<t, i>>).dep < Sched(<<t, i + 1 + (k + 1)>>).arr
    OBVIOUS
  <2>1. i + 1 + k \in 1 .. n /\ i + 1 + k # n /\ (i + 1 + (k + 1)) - 1 = i + 1 + k
    BY <1>1
  <2>2. Sched(<<t, i>>).dep < Sched(<<t, i + 1 + k>>).arr
    BY <1>4, <2>1
  <2>3. Sched(<<t, i + 1 + k>>).arr <= Sched(<<t, i + 1 + k>>).dep
    BY <1>2, <2>1
  <2>4. Sched(<<t, i + 1 + k>>).dep < Sched(<<t, i + 1 + (k + 1)>>).arr
    BY <1>2, <2>1
  <2>5. ASSUME NEW j \in 1 .. n
        PROVE  Sched(<<t, j>>).arr \in Int /\ Sched(<<t, j>>).dep \in Int
    <3>1. /\ Sched(<<t, j>>).arr \in Nat \cup {Absent}
          /\ Sched(<<t, j>>).dep \in Nat \cup {Absent}
      BY <1>2
    <3> QED
      BY <3>1, ConstantTypes
  <2>6. /\ Sched(<<t, i>>).dep \in Int /\ Sched(<<t, i + 1 + k>>).arr \in Int
        /\ Sched(<<t, i + 1 + k>>).dep \in Int /\ Sched(<<t, i + 1 + (k + 1)>>).arr \in Int
    BY <1>1, <2>1, <2>5
  <2> QED
    BY <2>2, <2>3, <2>4, <2>5, <2>6
<1> HIDE DEF I
<1>5. \A k \in 0 .. n : k \in I
  BY <1>1, <1>3, <1>4, CountUp
<1>6. u[2] - i - 1 \in 0 .. n /\ i + 1 + (u[2] - i - 1) = u[2]
  BY <1>1
<1>7. Sched(s).dep < Sched(u).arr
  BY <1>1, <1>5, <1>6 DEF I
<1>8. i # n /\ u[2] # 1
  BY <1>1
<1>9. Sched(s).dep \in Nat /\ Sched(u).arr \in Nat
  BY <1>1, <1>2, <1>8
<1> QED
  BY <1>7, <1>9 DEF Absent

-----------------------------------------------------------------------------
(* What crossing a stop keeps. *)

\* The delay never shrinks, so what was settled stays settled.
LEMMA CrossingGrows ==
    ASSUME NEW r \in RunStates, NEW s \in Stops, NEW at \in Nat, NEW q, Crossing(r, q, s, at)
    PROVE  /\ q \in RunStates /\ Grown(r, q)
           /\ q.waiting = r.waiting \/ q.waiting = r.waiting \cup {s[1]}
           /\ \A u \in Stops : Settled(r, u, at) => Settled(q, u, at)
<1>1. Stays(r, q, s) /\ r.delay[s[1]] <= q.delay[s[1]] /\ q \in RunStates
  BY DEF Crossing, Stays
<1>2. \A t \in Trains : r.delay[t] \in Nat /\ q.delay[t] \in Nat /\ r.delay[t] <= q.delay[t]
  BY <1>1, RunTypes DEF Stays
<1>3. /\ r.arr[s] # Absent => q.arr[s] = r.arr[s]
      /\ r.dep[s] # Absent => q.dep[s] = r.dep[s]
  BY DEF Crossing, Held, Arrived, Departed, ArrivalDue
<1>4. Grown(r, q)
  BY <1>1, <1>2, <1>3 DEF Stays, Grown
<1>5. ASSUME NEW u \in Stops, Settled(r, u, at) PROVE Settled(q, u, at)
  <2>1. /\ u[1] \in Trains
        /\ Sched(u).arr # Absent => Sched(u).arr \in Nat
        /\ Sched(u).dep # Absent => Sched(u).dep \in Nat
    BY AtStop
  <2> QED
    BY <1>2, <1>4, <1>5, <2>1 DEF Settled, Grown
<1> QED
  BY <1>1, <1>4, <1>5 DEF Crossing, Held

\* Once the stop is crossed, or the train held short of it, it is settled; and a train held
\* has nothing due further on either.
LEMMA CrossingSettles ==
    ASSUME NEW r \in RunStates, NEW s \in Stops, NEW at \in Nat, NEW q, Crossing(r, q, s, at)
    PROVE  /\ Settled(q, s, at)
           /\ s[1] \in r.waiting
              \/ (s[1] \in q.waiting =>
                    \A u \in Stops : u[1] = s[1] /\ s[2] < u[2] => Settled(q, u, at))
<1>1. /\ s[1] \in Trains /\ r.delay[s[1]] \in Nat /\ q.delay[s[1]] \in Nat
      /\ Sched(s).arr # Absent => Sched(s).arr \in Nat
      /\ Sched(s).dep # Absent => Sched(s).dep \in Nat
      /\ r.delay[s[1]] <= q.delay[s[1]]
      /\ Sched(s).dep # Absent => Sched(s).arr <= Sched(s).dep
  BY AtStop, StopTypes DEF Crossing, Stays
<1>2. CASE Held(r, q, s, at)
  <2>1. at < Sched(s).arr + q.delay[s[1]] /\ Sched(s).arr \in Nat
    BY <1>1, <1>2 DEF Held, ArrivalDue
  <2>2. Settled(q, s, at)
    BY <1>1, <2>1 DEF Settled
  <2>3. ASSUME NEW u \in Stops, u[1] = s[1], s[2] < u[2] PROVE Settled(q, u, at)
    <3>1. /\ Sched(s).dep \in Nat /\ Sched(s).dep # Absent
          /\ Sched(u).arr \in Nat /\ Sched(s).dep < Sched(u).arr
      BY <2>3, Forward
    <3>2. /\ Sched(u).dep # Absent => Sched(u).dep \in Nat
          /\ Sched(u).dep # Absent => Sched(u).arr <= Sched(u).dep
      BY AtStop, StopTypes
    <3> QED
      BY <1>1, <2>1, <2>3, <3>1, <3>2 DEF Settled
  <2> QED
    BY <2>2, <2>3
<1>3. CASE q.waiting = r.waiting /\ Arrived(r, q, s, at) /\ Departed(r, q, s, at)
  <2>1. Sched(s).arr # Absent /\ at >= Sched(s).arr + q.delay[s[1]] => q.arr[s] # Absent
    <3> SUFFICES ASSUME Sched(s).arr # Absent, at >= Sched(s).arr + q.delay[s[1]]
                 PROVE  q.arr[s] # Absent
      OBVIOUS
    <3>1. CASE ArrivalDue(r, s, at)
      BY <1>1, <1>3, <3>1 DEF Arrived, Absent
    <3>2. CASE ~ArrivalDue(r, s, at)
      BY <1>1, <1>3, <3>2 DEF Arrived, ArrivalDue
    <3> QED
      BY <3>1, <3>2
  <2>2. Sched(s).dep # Absent /\ at >= Sched(s).dep + q.delay[s[1]] => q.dep[s] # Absent
    BY <1>1, <1>3, <2>1 DEF Departed, Absent
  <2> QED
    BY <1>3, <2>1, <2>2 DEF Settled
<1> QED
  BY <1>2, <1>3 DEF Crossing

\* A train due at a stop has left those before, and by its timetable and delay.
LEMMA LeftBefore ==
    ASSUME NEW r \in RunStates, NEW s \in Stops, NEW u \in Stops, NEW at \in Nat,
           u[1] = s[1], u[2] < s[2],
           Recorded(r, at), Settled(r, u, at), ArrivalDue(r, s, at)
    PROVE  r.dep[u] # Absent /\ r.dep[u] < Sched(s).arr + r.delay[s[1]]
<1>1. /\ Sched(u).dep \in Nat /\ Sched(u).dep # Absent
      /\ Sched(s).arr \in Nat /\ Sched(u).dep < Sched(s).arr
  BY Forward
<1>2. r.delay[s[1]] \in Nat /\ r.dep[u] \in Nat \cup {Absent}
  BY AtStop, RunTypes
<1>3. r.dep[u] # Absent
  BY <1>1, <1>2 DEF Settled, ArrivalDue
<1> QED
  BY <1>1, <1>2, <1>3 DEF Recorded

LEMMA CrossingRecords ==
    ASSUME NEW r \in RunStates, NEW s \in Stops, NEW at \in Nat, NEW q, Crossing(r, q, s, at),
           Recorded(r, at)
    PROVE  Recorded(q, at)
<1> SUFFICES ASSUME NEW u \in Stops
             PROVE  /\ q.arr[u] # Absent =>
                          /\ Sched(u).arr # Absent /\ Sched(u).arr <= q.arr[u]
                          /\ q.arr[u] <= Sched(u).arr + q.delay[u[1]] /\ q.arr[u] <= at
                    /\ q.dep[u] # Absent =>
                          /\ Sched(u).dep # Absent /\ Sched(u).dep <= q.dep[u]
                          /\ q.dep[u] <= Sched(u).dep + q.delay[u[1]] /\ q.dep[u] <= at
                          /\ Sched(u).arr # Absent => q.arr[u] # Absent /\ q.arr[u] <= q.dep[u]
  BY DEF Recorded
<1>1. /\ u[1] \in Trains /\ r.delay[u[1]] \in Nat
      /\ Sched(u).arr # Absent => Sched(u).arr \in Nat
      /\ Sched(u).dep # Absent => Sched(u).dep \in Nat
      /\ Sched(u).dep # Absent => Sched(u).arr <= Sched(u).dep
  BY AtStop, StopTypes
<1>2. q \in RunStates /\ q.delay[u[1]] \in Nat /\ r.delay[u[1]] <= q.delay[u[1]]
  BY <1>1, CrossingGrows, RunTypes DEF Grown
<1>3. /\ r.arr[u] # Absent => r.arr[u] \in Nat
      /\ r.dep[u] # Absent => r.dep[u] \in Nat
  BY RunTypes
<1>4. /\ r.arr[u] # Absent =>
            /\ Sched(u).arr # Absent /\ Sched(u).arr <= r.arr[u]
            /\ r.arr[u] <= Sched(u).arr + r.delay[u[1]] /\ r.arr[u] <= at
      /\ r.dep[u] # Absent =>
            /\ Sched(u).dep # Absent /\ Sched(u).dep <= r.dep[u]
            /\ r.dep[u] <= Sched(u).dep + r.delay[u[1]] /\ r.dep[u] <= at
            /\ Sched(u).arr # Absent => r.arr[u] # Absent /\ r.arr[u] <= r.dep[u]
  BY DEF Recorded
<1>5. CASE q.arr[u] = r.arr[u] /\ q.dep[u] = r.dep[u]
  BY <1>1, <1>2, <1>3, <1>4, <1>5
<1>6. CASE u = s /\ Arrived(r, q, s, at) /\ Departed(r, q, s, at)
  <2>1. CASE ArrivalDue(r, u, at)
    <3>1. /\ Sched(u).arr # Absent /\ r.arr[u] = Absent /\ at >= Sched(u).arr + r.delay[u[1]]
          /\ q.delay[u[1]] = IF baseline THEN at - Sched(u).arr ELSE r.delay[u[1]]
          /\ q.arr[u] = Sched(u).arr + q.delay[u[1]]
      BY <1>6, <2>1 DEF ArrivalDue, Arrived
    <3>2. r.dep[u] = Absent
      BY <1>4, <3>1
    <3>3. /\ Sched(u).arr <= q.arr[u] /\ q.arr[u] <= at /\ q.arr[u] # Absent
      BY <1>1, <1>2, <3>1 DEF Absent
    <3> QED
      BY <1>1, <1>2, <1>6, <3>1, <3>2, <3>3 DEF Departed
  <2>2. CASE ~ArrivalDue(r, u, at)
    <3>1. q.delay[u[1]] = r.delay[u[1]] /\ q.arr[u] = r.arr[u]
      BY <1>6, <2>2 DEF Arrived
    <3> QED
      BY <1>1, <1>2, <1>3, <1>4, <1>6, <3>1 DEF Departed
  <2> QED
    BY <2>1, <2>2
<1> QED
  BY <1>5, <1>6 DEF Crossing, Stays, Held

LEMMA CrossingInOrder ==
    ASSUME NEW r \in RunStates, NEW s \in Stops, NEW at \in Nat, NEW q, Crossing(r, q, s, at),
           Recorded(r, at), InOrder(r),
           \A u \in Stops : u[1] = s[1] /\ u[2] < s[2] => Settled(r, u, at)
    PROVE  InOrder(q)
<1> SUFFICES ASSUME NEW v \in Stops, NEW u \in Stops,
                    v[1] = u[1], v[2] < u[2], q.arr[u] # Absent
             PROVE  q.dep[v] # Absent /\ q.dep[v] < q.arr[u]
  BY DEF InOrder
<1>1. /\ r.dep[v] # Absent => q.dep[v] = r.dep[v]
      /\ r.arr[u] # Absent => q.arr[u] = r.arr[u]
  BY CrossingGrows DEF Grown
<1>2. CASE r.arr[u] # Absent
  BY <1>1, <1>2 DEF InOrder
<1>3. CASE r.arr[u] = Absent
  <2>1. u = s /\ Arrived(r, q, s, at) /\ ArrivalDue(r, s, at)
    BY <1>3 DEF Crossing, Stays, Held, Arrived
  <2>2. r.dep[v] # Absent /\ r.dep[v] < Sched(s).arr + r.delay[s[1]]
    BY <2>1, LeftBefore
  <2>3. /\ q.arr[s] = Sched(s).arr + q.delay[s[1]] /\ r.delay[s[1]] <= q.delay[s[1]]
        /\ q \in RunStates
    BY <2>1 DEF Arrived, Crossing, Stays
  <2>4. /\ Sched(s).arr \in Nat /\ r.delay[s[1]] \in Nat /\ q.delay[s[1]] \in Nat
        /\ r.dep[v] \in Nat
    BY <2>1, <2>2, <2>3, AtStop, RunTypes DEF ArrivalDue
  <2> QED
    BY <1>1, <2>1, <2>2, <2>3, <2>4
<1> QED
  BY <1>2, <1>3

\* When a train is held or arrives, those of its stops it has reached it has also left.
LEMMA ReachedIsLeft ==
    ASSUME NEW r \in RunStates, NEW s \in Stops, NEW u \in Stops, NEW at \in Nat,
           u[1] = s[1], r.arr[u] # Absent, Recorded(r, at), InOrder(r), ArrivalDue(r, s, at),
           \A v \in Stops : v[1] = s[1] /\ v[2] < s[2] => Settled(r, v, at)
    PROVE  u # s /\ r.dep[u] # Absent
<1>1. r.arr[s] = Absent /\ Sched(s).arr # Absent
  BY DEF ArrivalDue
<1>2. u[2] \in Nat /\ s[2] \in Nat /\ u = <<u[1], u[2]>> /\ s = <<s[1], s[2]>>
  BY StopTypes
<1>3. u[2] # s[2]
  BY <1>1, <1>2
<1>4. CASE u[2] < s[2]
  BY <1>1, <1>4, LeftBefore
<1>5. CASE s[2] < u[2]
  <2>1. r.dep[s] # Absent
    BY <1>5 DEF InOrder
  <2> QED
    BY <1>1, <2>1 DEF Recorded
<1> QED
  BY <1>1, <1>2, <1>3, <1>4, <1>5

\* What a train that stands at or has left a stop of the baseline occupies is not changed by
\* the crossings of later stops, of other trains and of its own.
LEMMA StayIsKept ==
    ASSUME NEW r \in RunStates, NEW s \in Stops, NEW at \in Nat, NEW q, Crossing(r, q, s, at),
           Recorded(r, at), InOrder(r), NEW u \in Stops, r.arr[u] # Absent,
           \A v \in Stops : v[1] = s[1] /\ v[2] < s[2] => Settled(r, v, at)
    PROVE  /\ q.arr[u] = r.arr[u] /\ Stay(q, u) = Stay(r, u)
           /\ Shifted(q, u) <=> Shifted(r, u)
<1>1. q.arr[u] = r.arr[u] /\ (r.dep[u] # Absent => q.dep[u] = r.dep[u])
  BY CrossingGrows DEF Grown
<1>2. /\ u[1] \in Trains /\ s[1] \in Trains
      /\ Sched(u).arr # Absent /\ Sched(u).arr \in Nat /\ r.arr[u] \in Nat
      /\ Sched(u).dep # Absent => Sched(u).dep \in Nat
      /\ r.delay[u[1]] \in Nat
  BY AtStop, RunTypes DEF Recorded
<1>3. CASE r.dep[u] # Absent
  BY <1>1, <1>3 DEF Stay, Shifted, DepOf
<1>4. CASE r.dep[u] = Absent
  <2>1. q.delay[u[1]] = r.delay[u[1]]
    <3>1. CASE u[1] # s[1]
      BY <1>2, <3>1 DEF Crossing, Stays
    <3>2. CASE u[1] = s[1]
      <4>1. ~ArrivalDue(r, s, at)
        BY <1>4, <3>2, ReachedIsLeft
      <4> QED
        BY <3>2, <4>1 DEF Crossing, Held, Arrived
    <3> QED
      BY <3>1, <3>2
  <2>2. \/ q.dep[u] = Absent
        \/ /\ Sched(u).dep # Absent /\ q.dep[u] # Absent
           /\ q.dep[u] = Sched(u).dep + r.delay[u[1]]
    <3>1. CASE u # s \/ Held(r, q, s, at)
      BY <1>4, <3>1 DEF Crossing, Stays, Held
    <3>2. CASE u = s /\ Departed(r, q, s, at)
      BY <1>2, <1>4, <2>1, <3>2 DEF Departed, Absent
    <3> QED
      BY <3>1, <3>2 DEF Crossing
  <2>3. CASE q.dep[u] = Absent
    BY <1>1, <1>4, <2>1, <2>3 DEF Stay, Shifted, DepOf
  <2>4. CASE q.dep[u] # Absent
    <3>1. /\ Sched(u).dep # Absent /\ q.dep[u] = Sched(u).dep + r.delay[u[1]]
      BY <2>2, <2>4
    <3>2. Stay(q, u) = Stay(r, u)
      BY <1>1, <1>4, <2>4, <3>1 DEF Stay, DepOf
    <3>3. /\ Shifted(q, u) <=> q.dep[u] - Sched(u).dep # r.arr[u] - Sched(u).arr
          /\ Shifted(r, u) <=> Sched(u).arr + r.delay[u[1]] # r.arr[u]
      BY <1>1, <1>4, <2>4 DEF Shifted
    <3>4. Shifted(q, u) <=> Shifted(r, u)
      BY <1>2, <3>1, <3>3
    <3> QED
      BY <1>1, <3>2, <3>4
  <2> QED
    BY <2>3, <2>4
<1> QED
  BY <1>3, <1>4

\* A platform found free was left by everyone who reached it and was not delayed there.
LEMMA LeftIfFree ==
    ASSUME NEW r \in RunStates, NEW s \in Stops, NEW u \in Stops, NEW at \in Nat,
           SamePlatform(r, s, u), r.arr[u] # Absent, ~Shifted(r, u), Recorded(r, at),
           ~OccupiedNow(r, s, at)
    PROVE  Stay(r, u).end <= at
<1>1. /\ Sched(u).arr # Absent /\ Sched(u).arr \in Nat /\ r.arr[u] \in Nat /\ r.arr[u] <= at
      /\ Sched(u).dep # Absent => Sched(u).dep \in Nat
      /\ r.delay[u[1]] \in Nat
  BY AtStop, RunTypes DEF Recorded
<1>2. Headway \in Nat /\ Dwell \in Nat
  BY ConstantTypes
<1>3. ~(Window(r, u).start <= at /\ at < Window(r, u).end + Headway)
  BY DEF OccupiedNow, Present
<1>4. CASE r.dep[u] # Absent
  BY <1>4 DEF Recorded, Stay, DepOf
<1>5. CASE r.dep[u] = Absent
  <2>1. Sched(u).arr + r.delay[u[1]] = r.arr[u]
    BY <1>5 DEF Shifted
  <2>2. CASE Sched(u).dep = Absent
    <3>1. Window(r, u) = [start |-> r.arr[u], end |-> r.arr[u] + Dwell]
      BY <1>1, <2>1, <2>2 DEF Window
    <3>2. Stay(r, u).end = r.arr[u] + Dwell
      BY <2>2 DEF Stay
    <3> QED
      BY <1>1, <1>2, <1>3, <3>1, <3>2
  <2>3. CASE Sched(u).dep # Absent
    <3>1. Window(r, u) = [start |-> r.arr[u], end |-> Sched(u).dep + r.delay[u[1]]]
      BY <1>1, <2>1, <2>3 DEF Window
    <3>2. Stay(r, u).end = Sched(u).dep + r.delay[u[1]]
      BY <1>5, <2>3 DEF Stay, DepOf
    <3> QED
      BY <1>1, <1>2, <1>3, <2>3, <3>1, <3>2
  <2> QED
    BY <2>2, <2>3
<1> QED
  BY <1>4, <1>5

LEMMA CrossingExclusive ==
    ASSUME NEW r \in RunStates, NEW s \in Stops, NEW at \in Nat, NEW q, Crossing(r, q, s, at),
           baseline, Recorded(r, at), InOrder(r), Exclusive(r),
           \A v \in Stops : v[1] = s[1] /\ v[2] < s[2] => Settled(r, v, at)
    PROVE  Exclusive(q)
<1>1. ASSUME NEW u \in Stops, q.arr[u] # Absent, r.arr[u] = Absent
      PROVE  u = s /\ ~OccupiedNow(r, s, at) /\ Stay(q, s).start = at
  <2>1. u = s /\ Arrived(r, q, s, at) /\ ArrivalDue(r, s, at)
    BY <1>1 DEF Crossing, Stays, Held, Arrived
  <2>2. q.arr[s] = Sched(s).arr + (at - Sched(s).arr) /\ ~OccupiedNow(r, s, at)
    BY <2>1 DEF Arrived
  <2>3. Sched(s).arr \in Nat
    BY <2>1, AtStop DEF ArrivalDue
  <2> QED
    BY <2>1, <2>2, <2>3 DEF Stay
<1>2. ASSUME NEW u \in Stops, r.arr[u] # Absent
      PROVE  /\ q.arr[u] = r.arr[u] /\ Stay(q, u) = Stay(r, u)
             /\ Shifted(q, u) <=> Shifted(r, u)
  BY <1>2, StayIsKept
<1>3. ASSUME NEW u \in Stops, NEW v \in Stops, SamePlatform(q, u, v),
             q.arr[u] # Absent, q.arr[v] # Absent, ~Shifted(q, u), ~Shifted(q, v)
      PROVE  Stay(q, u).end <= Stay(q, v).start \/ Stay(q, v).end <= Stay(q, u).start
  <2>1. SamePlatform(r, u, v) /\ SamePlatform(r, v, u) /\ u[1] # v[1]
    BY <1>3 DEF SamePlatform, Crossing, Stays
  <2>2. CASE r.arr[u] # Absent /\ r.arr[v] # Absent
    <3>1. ~Shifted(r, u) /\ ~Shifted(r, v) /\ Stay(q, u) = Stay(r, u) /\ Stay(q, v) = Stay(r, v)
      BY <1>2, <1>3, <2>2
    <3> QED
      BY <2>1, <2>2, <3>1 DEF Exclusive
  <2>3. CASE r.arr[u] = Absent
    <3>1. u = s /\ ~OccupiedNow(r, s, at) /\ Stay(q, u).start = at
      BY <1>1, <1>3, <2>3
    <3>2. r.arr[v] # Absent
      BY <1>1, <1>3, <2>1, <3>1
    <3>3. ~Shifted(r, v) /\ Stay(q, v) = Stay(r, v)
      BY <1>2, <1>3, <3>2
    <3>4. Stay(r, v).end <= at
      BY <2>1, <3>1, <3>2, <3>3, LeftIfFree
    <3> QED
      BY <3>1, <3>3, <3>4
  <2>4. CASE r.arr[v] = Absent
    <3>1. v = s /\ ~OccupiedNow(r, s, at) /\ Stay(q, v).start = at
      BY <1>1, <1>3, <2>4
    <3>2. r.arr[u] # Absent
      BY <1>1, <1>3, <2>1, <3>1
    <3>3. ~Shifted(r, u) /\ Stay(q, u) = Stay(r, u)
      BY <1>2, <1>3, <3>2
    <3>4. Stay(r, u).end <= at
      BY <2>1, <3>1, <3>2, <3>3, LeftIfFree
    <3> QED
      BY <3>1, <3>3, <3>4
  <2> QED
    BY <2>2, <2>3, <2>4
<1> QED
  BY <1>3 DEF Exclusive

-----------------------------------------------------------------------------
(* A tick: its stages, train by train and stop by stop. *)

\* The trains of r are r0's but for train t.
Only(r, q, t) ==
    /\ \A u \in Trains \ {t} : q.delay[u] = r.delay[u]
    /\ \A s \in Stops : s[1] # t => q.arr[s] = r.arr[s] /\ q.dep[s] = r.dep[s]
    /\ q.waiting = r.waiting \/ q.waiting = r.waiting \cup {t}

Sound(r, at) == /\ r \in RunStates /\ Recorded(r, at) /\ InOrder(r)
                /\ baseline => Exclusive(r)

\* Train t of r after its first i stops.
Underway(r, q, t, i, at) ==
    /\ Sound(q, at) /\ Grown(r, q) /\ Only(r, q, t)
    /\ \A s \in Stops : s[1] = t /\ (t \in q.waiting \/ s[2] <= i) => Settled(q, s, at)

LEMMA CrossNext ==
    ASSUME NEW r \in RunStates, NEW q \in RunStates, NEW t \in Trains, NEW at \in Nat,
           NEW i \in 1 .. Len(Route[t]), Underway(r, q, t, i - 1, at)
    PROVE  Underway(r, Cross(q, <<t, i>>, at), t, i, at)
<1> DEFINE s == <<t, i>>
           p == Cross(q, s, at)
<1>1. s \in Stops /\ s[1] = t /\ s[2] = i /\ i \in Nat
  BY RouteTypes
<1>2. CASE t \in q.waiting
  <2>1. p = q
    BY <1>1, <1>2 DEF Cross
  <2> QED
    BY <1>2, <2>1 DEF Underway
<1>3. CASE t \notin q.waiting
  <2>1. Crossing(q, p, s, at)
    BY <1>1, <1>3, CrossFields
  <2> HIDE DEF s, p
  <2>2. \A u \in Stops : u[1] = s[1] /\ u[2] < s[2] => Settled(q, u, at)
    <3> SUFFICES ASSUME NEW u \in Stops, u[1] = t, u[2] < i PROVE Settled(q, u, at)
      BY <1>1
    <3>1. u[2] \in Nat
      BY StopTypes
    <3>2. u[2] <= i - 1
      BY <1>1, <3>1
    <3> QED
      BY <3>2 DEF Underway
  <2>3. /\ p \in RunStates /\ Grown(q, p)
        /\ p.waiting = q.waiting \/ p.waiting = q.waiting \cup {t}
        /\ \A u \in Stops : Settled(q, u, at) => Settled(p, u, at)
    BY <1>1, <2>1, CrossingGrows
  <2>4. Sound(p, at)
    BY <1>1, <2>1, <2>2, <2>3, CrossingRecords, CrossingInOrder, CrossingExclusive
    DEF Underway, Sound
  <2>5. Grown(r, p)
    BY <2>3, RunTypes DEF Grown, Underway
  <2>6. Only(r, p, t)
    <3>1. \A u \in Stops : u[1] # t => p.arr[u] = q.arr[u] /\ p.dep[u] = q.dep[u]
      BY <1>1, <2>1 DEF Crossing, Stays
    <3>2. \A u \in Trains \ {t} : p.delay[u] = q.delay[u]
      BY <1>1, <2>1 DEF Crossing, Stays
    <3> QED
      BY <2>3, <3>1, <3>2 DEF Only, Underway
  <2>7. ASSUME NEW u \in Stops, u[1] = t, t \in p.waiting \/ u[2] <= i PROVE Settled(p, u, at)
    <3>1. u[2] \in Nat /\ u = <<u[1], u[2]>>
      BY StopTypes
    <3>2. CASE u[2] < i
      BY <1>1, <2>2, <2>3, <2>7, <3>2
    <3>3. CASE u[2] = i
      <4>1. u = s
        BY <2>7, <3>1, <3>3 DEF s
      <4> QED
        BY <1>1, <2>1, <4>1, CrossingSettles
    <3>4. CASE i < u[2]
      <4>1. t \in p.waiting
        BY <1>1, <2>7, <3>1, <3>4
      <4> QED
        BY <1>1, <1>3, <2>1, <2>7, <3>4, <4>1, CrossingSettles
    <3> QED
      BY <1>1, <3>1, <3>2, <3>3, <3>4
  <2> QED
    BY <2>4, <2>5, <2>6, <2>7 DEF Underway, s, p
<1> QED
  BY <1>2, <1>3

LEMMA ProcessedStepwise ==
    ASSUME NEW r \in RunStates, NEW t \in Trains, NEW at \in Nat
    PROVE  \E g \in [0 .. Len(Route[t]) -> RunStates] :
              /\ g[0] = r /\ ProcessCrossings(r, t, at) = g[Len(Route[t])]
              /\ \A i \in 1 .. Len(Route[t]) : g[i] = Cross(g[i - 1], <<t, i>>, at)
<1> DEFINE n == Len(Route[t])
           F == [i \in 1 .. n |-> [q \in RunStates |-> Cross(q, <<t, i>>, at)]]
           P(f) == f = [i \in 0 .. n |-> IF i = 0 THEN r ELSE Cross(f[i - 1], <<t, i>>, at)]
           after == CHOOSE f : P(f)
<1>0. ProcessCrossings(r, t, at) = after[n]
  BY DEF ProcessCrossings
<1>1. n \in Nat
  BY RouteTypes
<1>2. \A q \in RunStates, i \in 1 .. Len(Route[t]) : Cross(q, <<t, i>>, at) \in RunStates
  <2> SUFFICES ASSUME NEW q \in RunStates, NEW i \in 1 .. Len(Route[t])
               PROVE  Cross(q, <<t, i>>, at) \in RunStates
    OBVIOUS
  <2>1. <<t, i>> \in Stops
    BY RouteTypes
  <2>2. CASE <<t, i>>[1] \in q.waiting
    BY <2>2 DEF Cross
  <2>3. CASE <<t, i>>[1] \notin q.waiting
    BY <2>1, <2>3, CrossFields, CrossingGrows
  <2> QED
    BY <2>2, <2>3
<1>3. r \in RunStates /\ F \in [1 .. n -> [RunStates -> RunStates]]
  BY <1>2
<1> HIDE DEF n, F, P, after
<1>4. Computations(RunStates, r, n, F) # {}
  BY <1>1, <1>3, StepByStep
<1>5. PICK g \in [0 .. n -> RunStates] : g[0] = r /\ \A i \in 1 .. n : g[i] = F[i][g[i - 1]]
  BY <1>4 DEF Computations
<1>6. ASSUME NEW i \in 1 .. n PROVE i - 1 \in 0 .. n /\ g[i] = Cross(g[i - 1], <<t, i>>, at)
  <2>1. i - 1 \in 0 .. n
    BY <1>1
  <2> QED
    BY <1>5, <2>1 DEF F
<1>7. P(g)
  BY <1>1, <1>5, <1>6 DEF P
<1>8. P(after)
  BY <1>7 DEF after
<1>9. /\ after[0] = r
      /\ \A i \in 1 .. n : after[i] = Cross(after[i - 1], <<t, i>>, at)
  BY <1>1, <1>8 DEF P
<1>10. \A i \in 0 .. n : after[i] = g[i]
  <2>1. \A i \in 1 .. n : after[i - 1] = g[i - 1] => after[i] = g[i]
    BY <1>6, <1>9
  <2>2. after[0] = g[0]
    BY <1>5, <1>9
  <2> QED
    BY <1>1, <2>1, <2>2, SameSteps
<1>11. ProcessCrossings(r, t, at) = g[n]
  BY <1>0, <1>1, <1>10
<1> QED
  BY <1>5, <1>6, <1>11 DEF n

LEMMA ProcessedUnderway ==
    ASSUME NEW r, NEW t \in Trains, NEW at \in Nat, Sound(r, at), t \notin r.waiting
    PROVE  Underway(r, ProcessCrossings(r, t, at), t, Len(Route[t]), at)
<1> DEFINE n == Len(Route[t])
<1>1. n \in Nat \ {0} /\ r \in RunStates
  BY RouteTypes DEF Sound
<1>3. PICK g \in [0 .. n -> RunStates] :
         /\ g[0] = r /\ ProcessCrossings(r, t, at) = g[n]
         /\ \A i \in 1 .. n : g[i] = Cross(g[i - 1], <<t, i>>, at)
  BY <1>1, ProcessedStepwise
<1> DEFINE I == {i \in 0 .. n : Underway(r, g[i], t, i, at)}
<1>4. 0 \in I
  <2>1. Grown(r, r) /\ Only(r, r, t)
    BY <1>1, RunTypes DEF Grown, Only
  <2>2. ASSUME NEW s \in Stops, s[1] = t, s[2] <= 0 PROVE FALSE
    <3>1. s[2] \in Nat \ {0}
      BY StopTypes
    <3> QED
      BY <2>2, <3>1
  <2>3. Underway(r, r, t, 0, at)
    BY <2>1, <2>2 DEF Underway
  <2> QED
    BY <1>1, <1>3, <2>3
<1>5. ASSUME NEW i \in 0 .. n - 1, i \in I PROVE i + 1 \in I
  <2>1. /\ i + 1 \in 1 .. n /\ (i + 1) - 1 = i /\ i + 1 \in 0 .. n
        /\ g[i] \in RunStates /\ g[i + 1] = Cross(g[i], <<t, i + 1>>, at)
    BY <1>1, <1>3
  <2>2. Underway(r, g[i], t, (i + 1) - 1, at)
    BY <1>5, <2>1
  <2>3. Underway(r, g[i + 1], t, i + 1, at)
    BY <1>1, <2>1, <2>2, CrossNext
  <2> QED
    BY <2>1, <2>3
<1> HIDE DEF I
<1>6. \A i \in 0 .. n : i \in I
  BY <1>1, <1>4, <1>5, CountUp
<1> QED
  BY <1>1, <1>3, <1>6 DEF I

\* A tick after its first k trains: theirs is settled, the others have not moved.
Ticking(q, k, at) ==
    /\ Sound(q, at) /\ Grown(run, q)
    /\ \A j \in 1 .. Len(Order) : IF j <= k
          THEN \A s \in Stops : s[1] = Order[j] => Settled(q, s, at)
          ELSE Order[j] \notin q.waiting

LEMMA OrderTypes ==
    /\ Len(Order) \in Nat /\ \A j \in 1 .. Len(Order) : Order[j] \in Trains
    /\ \A t \in Trains : \E j \in 1 .. Len(Order) : t = Order[j]
    /\ \A i, j \in 1 .. Len(Order) : Order[i] = Order[j] => i = j
BY TwinAssumption DEF IsInjective, Trains, ToSet

LEMMA TickingNext ==
    ASSUME NEW q, NEW at \in Nat, NEW k \in 1 .. Len(Order), Ticking(q, k - 1, at),
           run \in RunStates
    PROVE  Ticking(ProcessCrossings(q, Order[k], at), k, at)
<1> DEFINE t == Order[k]
           p == ProcessCrossings(q, t, at)
<1>1. t \in Trains /\ k \in Nat /\ ~(k <= k - 1)
  BY OrderTypes
<1>2. Sound(q, at) /\ t \notin q.waiting /\ Grown(run, q)
  BY <1>1 DEF Ticking
<1>3. Underway(q, p, t, Len(Route[t]), at)
  BY <1>1, <1>2, ProcessedUnderway
<1> HIDE DEF p
<1>4. Sound(p, at) /\ Grown(q, p) /\ Only(q, p, t)
  BY <1>3 DEF Underway
<1>5. Grown(run, p)
  BY <1>2, <1>4, RunTypes DEF Grown, Sound
<1>6. ASSUME NEW j \in 1 .. Len(Order)
      PROVE  IF j <= k THEN \A s \in Stops : s[1] = Order[j] => Settled(p, s, at)
             ELSE Order[j] \notin p.waiting
  <2>1. CASE j = k
    <3>1. ASSUME NEW s \in Stops, s[1] = t PROVE Settled(p, s, at)
      <4>1. s[2] \in 1 .. Len(Route[s[1]])
        BY StopTypes
      <4> QED
        BY <1>3, <3>1, <4>1 DEF Underway
    <3> QED
      BY <1>1, <2>1, <3>1
  <2>2. CASE j < k
    <3>1. Order[j] # t /\ Order[j] \in Trains
      BY <1>1, <2>2, OrderTypes
    <3>2. ASSUME NEW s \in Stops, s[1] = Order[j] PROVE Settled(p, s, at)
      <4>1. Settled(q, s, at)
        BY <1>1, <2>2, <3>2 DEF Ticking
      <4> QED
        BY <1>4, <3>1, <3>2, <4>1 DEF Only, Settled
    <3> QED
      BY <1>1, <2>2, <3>2
  <2>3. CASE k < j
    <3>1. Order[j] # t /\ Order[j] \notin q.waiting
      BY <1>1, <2>3, OrderTypes DEF Ticking
    <3> QED
      BY <1>1, <1>4, <2>3, <3>1 DEF Only
  <2> QED
    BY <1>1, <2>1, <2>2, <2>3
<1> QED
  BY <1>4, <1>5, <1>6 DEF Ticking, p

LEMMA CrossedStepwise ==
    ASSUME run \in RunStates, NEW at \in Nat
    PROVE  \E g \in [0 .. Len(Order) -> RunStates] :
              /\ g[0] = [run EXCEPT !.waiting = {}] /\ Crossed(at) = g[Len(Order)]
              /\ \A i \in 1 .. Len(Order) : g[i] = ProcessCrossings(g[i - 1], Order[i], at)
<1> DEFINE n == Len(Order)
           F == [i \in 1 .. n |-> [q \in RunStates |-> ProcessCrossings(q, Order[i], at)]]
           r == [run EXCEPT !.waiting = {}]
           P(f) == f = [i \in 0 .. n |-> IF i = 0 THEN r
                                       ELSE ProcessCrossings(f[i - 1], Order[i], at)]
           after == CHOOSE f : P(f)
<1>0. Crossed(at) = after[n]
  BY DEF Crossed
<1>1. n \in Nat
  BY OrderTypes
<1>2. ASSUME NEW q \in RunStates, NEW i \in 1 .. Len(Order)
      PROVE  ProcessCrossings(q, Order[i], at) \in RunStates
  <2> DEFINE t == Order[i]
  <2>1. t \in Trains
    BY OrderTypes
  <2>2. Len(Route[t]) \in Nat
    BY <2>1, RouteTypes
  <2> HIDE DEF t
  <2>3. PICK g \in [0 .. Len(Route[t]) -> RunStates] :
           ProcessCrossings(q, t, at) = g[Len(Route[t])]
    BY <2>1, ProcessedStepwise
  <2> QED
    BY <2>2, <2>3 DEF t
<1>3. r \in RunStates /\ F \in [1 .. n -> [RunStates -> RunStates]]
  <2>1. r \in RunStates
    BY DEF RunStates
  <2>2. F \in [1 .. n -> [RunStates -> RunStates]]
    BY <1>2
  <2> QED
    BY <2>1, <2>2
<1> HIDE DEF n, F, r, P, after
<1>4. Computations(RunStates, r, n, F) # {}
  BY <1>1, <1>3, StepByStep
<1>5. PICK g \in [0 .. n -> RunStates] : g[0] = r /\ \A i \in 1 .. n : g[i] = F[i][g[i - 1]]
  BY <1>4 DEF Computations
<1>6. ASSUME NEW i \in 1 .. n
      PROVE  i - 1 \in 0 .. n /\ g[i] = ProcessCrossings(g[i - 1], Order[i], at)
  <2>1. i - 1 \in 0 .. n
    BY <1>1
  <2> QED
    BY <1>5, <2>1 DEF F
<1>7. P(g)
  BY <1>1, <1>5, <1>6 DEF P
<1>8. P(after)
  BY <1>7 DEF after
<1>9. /\ after[0] = r
      /\ \A i \in 1 .. n : after[i] = ProcessCrossings(after[i - 1], Order[i], at)
  BY <1>1, <1>8 DEF P
<1>10. \A i \in 0 .. n : after[i] = g[i]
  <2>1. \A i \in 1 .. n : after[i - 1] = g[i - 1] => after[i] = g[i]
    BY <1>6, <1>9
  <2>2. after[0] = g[0]
    BY <1>5, <1>9
  <2> QED
    BY <1>1, <2>1, <2>2, SameSteps
<1>11. Crossed(at) = g[n]
  BY <1>0, <1>1, <1>10
<1> QED
  BY <1>5, <1>6, <1>11 DEF n, r

LEMMA SoundLater ==
    ASSUME NEW r, NEW from \in Nat, NEW at \in Nat, from <= at, Sound(r, from)
    PROVE  Sound(r, at)
<1>1. r \in RunStates
  BY DEF Sound
<1> QED
  BY <1>1, RunTypes DEF Sound, Recorded

\* What a tick leaves: every crossing that is due is recorded.
LEMMA CrossedSettles ==
    ASSUME now \in Nat, NEW at \in Nat, now <= at, Sound(run, now)
    PROVE  /\ Sound(Crossed(at), at) /\ Grown(run, Crossed(at))
           /\ \A s \in Stops : Settled(Crossed(at), s, at)
<1> DEFINE n == Len(Order)
           r == [run EXCEPT !.waiting = {}]
<1>1. Sound(run, at) /\ run \in RunStates
  BY SoundLater DEF Sound
<1>2. /\ r \in RunStates /\ r.waiting = {} /\ r.arr = run.arr /\ r.dep = run.dep
      /\ r.delay = run.delay /\ r.platform = run.platform /\ r.blocks = run.blocks
      /\ r.emitted = run.emitted
  BY <1>1 DEF RunStates
<1>3. n \in Nat
  BY OrderTypes
<1>4. PICK g \in [0 .. n -> RunStates] :
         /\ g[0] = r /\ Crossed(at) = g[n]
         /\ \A i \in 1 .. n : g[i] = ProcessCrossings(g[i - 1], Order[i], at)
  BY <1>1, CrossedStepwise
<1> HIDE DEF r
<1>5. Sound(r, at)
  <2>1. Recorded(r, at) /\ InOrder(r)
    BY <1>1, <1>2 DEF Sound, Recorded, InOrder
  <2>2. baseline => Exclusive(r)
    BY <1>1, <1>2 DEF Sound, Exclusive, SamePlatform, Shifted, Stay, DepOf
  <2> QED
    BY <1>2, <2>1, <2>2 DEF Sound
<1>6. Ticking(r, 0, at)
  <2>1. Grown(run, r)
    BY <1>1, <1>2, RunTypes DEF Grown
  <2> QED
    BY <1>2, <1>5, <2>1 DEF Ticking
<1> DEFINE I == {i \in 0 .. n : Ticking(g[i], i, at)}
<1>7. 0 \in I
  BY <1>3, <1>4, <1>6
<1>8. ASSUME NEW i \in 0 .. n - 1, i \in I PROVE i + 1 \in I
  <2>1. /\ i + 1 \in 1 .. n /\ (i + 1) - 1 = i /\ i + 1 \in 0 .. n
        /\ g[i + 1] = ProcessCrossings(g[i], Order[i + 1], at)
    BY <1>3, <1>4
  <2>2. Ticking(g[i], (i + 1) - 1, at)
    BY <1>8, <2>1
  <2>3. Ticking(g[i + 1], i + 1, at)
    BY <1>1, <2>1, <2>2, TickingNext
  <2> QED
    BY <2>1, <2>3
<1> HIDE DEF I
<1>9. \A i \in 0 .. n : i \in I
  BY <1>3, <1>7, <1>8, CountUp
<1>10. Ticking(Crossed(at), n, at)
  BY <1>3, <1>4, <1>9 DEF I
<1>11. ASSUME NEW s \in Stops PROVE Settled(Crossed(at), s, at)
  <2>1. s[1] \in Trains
    BY StopTypes
  <2>2. PICK j \in 1 .. n : s[1] = Order[j]
    BY <2>1, OrderTypes
  <2> QED
    BY <1>3, <1>10, <2>2 DEF Ticking
<1> QED
  BY <1>10, <1>11 DEF Ticking

-----------------------------------------------------------------------------
(* The statuses a tick publishes. *)

LEMMA StatusTypes ==
    ASSUME NEW r \in RunStates, NEW t \in Trains, NEW at
    PROVE  Status(r, t, at) \in Statuses \X Nat /\ Status(r, t, at) # <<>>
<1>1. r.delay[t] \in Nat
  BY RunTypes
<1>2. Locate(r, t, at).status \in Statuses
  BY DEF Locate, Statuses
<1> QED
  BY <1>1, <1>2 DEF Status

EventType == [train : Trains, status : Statuses \X Nat]

\* The events of the first k trains are about some of them, each about another one, and
\* about all that have something to publish.
Announced(r, es, k, at) ==
    /\ es \in Seq(EventType)
    /\ \A i \in 1 .. Len(es) : \E j \in 1 .. k : es[i] = Event(r, Order[j], at)
    /\ \A i, l \in 1 .. Len(es) : es[i].train = es[l].train => i = l
    /\ \A j \in 1 .. k : Published(r, Order[j], at) => \E i \in 1 .. Len(es) : es[i].train = Order[j]

LEMMA AnnouncedNext ==
    ASSUME NEW r \in RunStates, NEW at \in Nat, NEW k \in 1 .. Len(Order), NEW es,
           Announced(r, es, k - 1, at)
    PROVE  Announced(r, IF Published(r, Order[k], at) THEN Append(es, Event(r, Order[k], at))
                        ELSE es, k, at)
<1> DEFINE t == Order[k]
           e == Event(r, t, at)
           fs == Append(es, e)
<1>1. /\ k \in Nat \ {0} /\ k \in 1 .. k /\ \A j \in 1 .. k : j = k \/ j \in 1 .. k - 1
      /\ \A j \in 1 .. k - 1 : j \in 1 .. k /\ j \in 1 .. Len(Order) /\ j # k
  BY OrderTypes
<1>2. t \in Trains /\ \A j \in 1 .. k - 1 : Order[j] # t
  BY <1>1, OrderTypes
<1>3. e \in EventType /\ e.train = t /\ \A j \in 1 .. k : Event(r, Order[j], at).train = Order[j]
  BY <1>2, StatusTypes DEF Event, EventType
<1>4. CASE ~Published(r, t, at)
  BY <1>1, <1>4 DEF Announced
<1>5. CASE Published(r, t, at)
  <2> HIDE DEF t, e
  <2>1. es \in Seq(EventType)
    BY DEF Announced
  <2>2. /\ fs \in Seq(EventType) /\ Len(es) \in Nat /\ Len(fs) = Len(es) + 1
        /\ \A i \in 1 .. Len(es) + 1 : fs[i] = IF i <= Len(es) THEN es[i] ELSE e
    BY <1>3, <2>1, AppendOne
  <2> HIDE DEF fs
  <2>3. /\ \A i \in 1 .. Len(es) : i \in 1 .. Len(fs) /\ fs[i] = es[i]
        /\ Len(fs) \in 1 .. Len(fs) /\ fs[Len(fs)] = e
        /\ \A i \in 1 .. Len(fs) : i = Len(fs) \/ i \in 1 .. Len(es)
    BY <2>2
  <2>4. \A i \in 1 .. Len(es) : \E j \in 1 .. k - 1 : es[i] = Event(r, Order[j], at)
    BY DEF Announced
  <2>5. \A i \in 1 .. Len(es) : es[i].train # t
    BY <1>1, <1>2, <1>3, <2>4
  <2>6. \A i \in 1 .. Len(fs) : \E j \in 1 .. k : fs[i] = Event(r, Order[j], at)
    BY <1>1, <2>3, <2>4 DEF e, t
  <2>7. \A i, l \in 1 .. Len(fs) : fs[i].train = fs[l].train => i = l
    BY <1>3, <2>3, <2>5 DEF Announced
  <2>8. ASSUME NEW j \in 1 .. k, Published(r, Order[j], at)
        PROVE  \E i \in 1 .. Len(fs) : fs[i].train = Order[j]
    BY <1>1, <1>3, <2>3, <2>8 DEF Announced, t
  <2> QED
    BY <1>5, <2>2, <2>6, <2>7, <2>8 DEF Announced, fs, e, t
<1> QED
  BY <1>4, <1>5

LEMMA EventsAnnounced ==
    ASSUME NEW r \in RunStates, NEW at \in Nat
    PROVE  Announced(r, Events(r, at), Len(Order), at)
<1> DEFINE n == Len(Order)
           S == Seq(EventType)
           Step(es, i) == IF Published(r, Order[i], at) THEN Append(es, Event(r, Order[i], at))
                          ELSE es
           F == [i \in 1 .. n |-> [es \in S |-> Step(es, i)]]
           P(f) == f = [i \in 0 .. n |-> IF i = 0 THEN <<>> ELSE Step(f[i - 1], i)]
           events == CHOOSE f : P(f)
<1>0. Events(r, at) = events[n]
  BY DEF Events
<1>1. n \in Nat
  BY OrderTypes
<1>2. ASSUME NEW es \in S, NEW i \in 1 .. n PROVE Step(es, i) \in S
  <2>1. Event(r, Order[i], at) \in EventType
    BY OrderTypes, StatusTypes DEF Event, EventType
  <2> QED
    BY <2>1
<1>3. F \in [1 .. n -> [S -> S]]
  BY <1>2
<1>4. <<>> \in S
  OBVIOUS
<1> HIDE DEF n, S, Step, F, P, events
<1>5. Computations(S, <<>>, n, F) # {}
  BY <1>1, <1>3, <1>4, StepByStep
<1>6. PICK g \in [0 .. n -> S] : g[0] = <<>> /\ \A i \in 1 .. n : g[i] = F[i][g[i - 1]]
  BY <1>5 DEF Computations
<1>7. ASSUME NEW i \in 1 .. n PROVE i - 1 \in 0 .. n /\ g[i] = Step(g[i - 1], i)
  <2>1. i - 1 \in 0 .. n
    BY <1>1
  <2> QED
    BY <1>6, <2>1 DEF F
<1>8. P(g)
  BY <1>1, <1>6, <1>7 DEF P
<1>9. P(events)
  BY <1>8 DEF events
<1>10. /\ events[0] = <<>>
       /\ \A i \in 1 .. n : events[i] = Step(events[i - 1], i)
  BY <1>1, <1>9 DEF P
<1>11. \A i \in 0 .. n : events[i] = g[i]
  <2>1. \A i \in 1 .. n : events[i - 1] = g[i - 1] => events[i] = g[i]
    BY <1>7, <1>10
  <2>2. events[0] = g[0]
    BY <1>6, <1>10
  <2> QED
    BY <1>1, <2>1, <2>2, SameSteps
<1> DEFINE I == {i \in 0 .. n : Announced(r, g[i], i, at)}
<1>12. 0 \in I
  <2>1. Announced(r, <<>>, 0, at)
    BY DEF Announced
  <2> QED
    BY <1>1, <1>6, <2>1
<1>13. ASSUME NEW i \in 0 .. n - 1, i \in I PROVE i + 1 \in I
  <2>1. /\ i + 1 \in 1 .. n /\ (i + 1) - 1 = i /\ i + 1 \in 0 .. n
        /\ g[i + 1] = Step(g[i], i + 1)
    BY <1>1, <1>7
  <2>2. Announced(r, g[i], (i + 1) - 1, at)
    BY <1>13, <2>1
  <2>3. Announced(r, g[i + 1], i + 1, at)
    BY <2>1, <2>2, AnnouncedNext DEF Step, n
  <2> QED
    BY <2>1, <2>3
<1> HIDE DEF I
<1>14. \A i \in 0 .. n : i \in I
  BY <1>1, <1>12, <1>13, CountUp
<1>15. Announced(r, g[n], n, at)
  BY <1>1, <1>14 DEF I
<1> QED
  BY <1>0, <1>1, <1>11, <1>15 DEF n

-----------------------------------------------------------------------------
(* Types and records, as an invariant. *)

\* A longer delay changes nothing of what the records satisfy.
LEMMA SoundFrom ==
    ASSUME NEW r, NEW at \in Nat, Sound(r, at), NEW q \in RunStates,
           q.arr = r.arr, q.dep = r.dep, baseline => q.platform = r.platform,
           \A t \in Trains : r.delay[t] <= q.delay[t]
    PROVE  /\ Sound(q, at)
           /\ \A s \in Stops : Settled(r, s, at) => Settled(q, s, at)
<1>1. r \in RunStates /\ Recorded(r, at) /\ InOrder(r)
  BY DEF Sound
<1>2. ASSUME NEW s \in Stops
      PROVE  /\ s[1] \in Trains /\ r.delay[s[1]] \in Nat /\ q.delay[s[1]] \in Nat
             /\ r.delay[s[1]] <= q.delay[s[1]]
             /\ Sched(s).arr # Absent => Sched(s).arr \in Nat
             /\ Sched(s).dep # Absent => Sched(s).dep \in Nat
             /\ r.arr[s] # Absent => r.arr[s] \in Nat /\ Sched(s).arr # Absent
             /\ r.dep[s] # Absent => r.dep[s] \in Nat /\ Sched(s).dep # Absent
  BY <1>1, AtStop, RunTypes DEF Recorded
<1>3. Recorded(q, at)
  BY <1>1, <1>2 DEF Recorded
<1>4. InOrder(q)
  BY <1>1 DEF InOrder
<1>5. ASSUME baseline PROVE Exclusive(q)
  <2>1. ASSUME NEW u \in Stops, r.arr[u] # Absent, ~Shifted(q, u)
        PROVE  ~Shifted(r, u) /\ Stay(q, u) = Stay(r, u)
    <3>1. CASE r.dep[u] # Absent
      BY <2>1, <3>1 DEF Shifted, Stay, DepOf
    <3>2. CASE r.dep[u] = Absent
      <4>1. Sched(u).arr + q.delay[u[1]] = r.arr[u]
        BY <2>1, <3>2 DEF Shifted
      <4>2. r.arr[u] <= Sched(u).arr + r.delay[u[1]]
        BY <1>1, <2>1 DEF Recorded
      <4>3. q.delay[u[1]] = r.delay[u[1]]
        BY <1>2, <2>1, <4>1, <4>2
      <4> QED
        BY <2>1, <3>2, <4>3 DEF Shifted, Stay, DepOf
    <3> QED
      BY <3>1, <3>2
  <2>2. ASSUME NEW u \in Stops, NEW v \in Stops, SamePlatform(q, u, v),
               q.arr[u] # Absent, q.arr[v] # Absent, ~Shifted(q, u), ~Shifted(q, v)
        PROVE  Stay(q, u).end <= Stay(q, v).start \/ Stay(q, v).end <= Stay(q, u).start
    <3>1. SamePlatform(r, u, v)
      BY <1>5, <2>2 DEF SamePlatform
    <3>2. /\ ~Shifted(r, u) /\ Stay(q, u) = Stay(r, u) /\ r.arr[u] # Absent
          /\ ~Shifted(r, v) /\ Stay(q, v) = Stay(r, v) /\ r.arr[v] # Absent
      BY <2>1, <2>2
    <3> QED
      BY <1>5, <3>1, <3>2 DEF Sound, Exclusive
  <2> QED
    BY <2>2 DEF Exclusive
<1>6. ASSUME NEW s \in Stops, Settled(r, s, at) PROVE Settled(q, s, at)
  BY <1>2, <1>6 DEF Settled
<1> QED
  BY <1>3, <1>4, <1>5, <1>6 DEF Sound

LEMMA LoadedSound ==
    /\ Loaded \in RunStates /\ \A at \in Nat : Sound(Loaded, at)
    /\ \A t \in Trains : Loaded.emitted[t] = <<>>
    /\ Snapshot \in [Trains -> Statuses \X Nat]
<1>1. \A s \in Stops : Route[s[1]][s[2]].platform \in Platforms
  BY StopTypes DEF Sched
<1>2. Loaded \in RunStates
  BY <1>1 DEF Loaded, RunStates, Table
<1>3. \A s \in Stops : Loaded.arr[s] = Absent /\ Loaded.dep[s] = Absent
  BY DEF Loaded
<1>4. \A at \in Nat : Recorded(Loaded, at) /\ InOrder(Loaded) /\ Exclusive(Loaded)
  BY <1>3 DEF Recorded, InOrder, Exclusive
<1> QED
  BY <1>2, <1>4 DEF Sound, Loaded, Snapshot, Statuses

TwinInv == /\ TwinTypeOK /\ Start <= now /\ Sound(run, now)
           /\ now > Start => \A s \in Stops : Settled(run, s, now)

\* After a tick, the statuses of all trains are taken to be known.
LEMMA TickFields ==
    ASSUME TwinInv, NEW k \in TickSizes, Tick(k)
    PROVE  /\ now' = now + k /\ now' \in Nat /\ now' > now /\ now' > Start
           /\ Crossed(now') \in RunStates /\ Grown(run, Crossed(now')) /\ Sound(Crossed(now'), now')
           /\ \A s \in Stops : Settled(Crossed(now'), s, now')
           /\ run' = [Crossed(now') EXCEPT !.emitted = [t \in Trains |-> Status(Crossed(now'), t, now')]]
           /\ run' \in RunStates
           /\ outbox' = Events(Crossed(now'), now')
<1>1. /\ now \in Nat /\ k \in Nat \ {0} /\ Start \in Nat /\ Start <= now /\ Sound(run, now)
      /\ now' = now + k
  BY ConstantTypes DEF TwinInv, TwinTypeOK, Tick
<1>2. now' \in Nat /\ now' > now /\ now' > Start /\ now <= now'
  BY <1>1
<1> DEFINE r == Crossed(now')
<1>3. /\ run' = [r EXCEPT !.emitted = [t \in Trains |-> Status(r, t, now')]]
      /\ outbox' = Events(r, now')
  BY DEF Tick
<1>4. Sound(r, now') /\ Grown(run, r) /\ \A s \in Stops : Settled(r, s, now')
  BY <1>1, <1>2, CrossedSettles
<1> HIDE DEF r
<1>5. r \in RunStates
  BY <1>4 DEF Sound
<1>6. [t \in Trains |-> Status(r, t, now')] \in [Trains -> {<<>>} \cup (Statuses \X Nat)]
  BY <1>5, StatusTypes
<1>7. run' \in RunStates
  BY <1>3, <1>5, <1>6 DEF RunStates
<1> QED
  BY <1>1, <1>2, <1>3, <1>4, <1>5, <1>7 DEF r

LEMMA NextStopIsFirst ==
    ASSUME NEW r, NEW t \in Trains, NEW at
    PROVE  /\ ToCome(r, t, at) \subseteq 1 .. Len(Route[t])
           /\ ToCome(r, t, at) = {} => NextStop(r, t, at) = 0
           /\ ToCome(r, t, at) # {} =>
                 /\ NextStop(r, t, at) \in ToCome(r, t, at)
                 /\ \A i \in ToCome(r, t, at) : NextStop(r, t, at) <= i
<1> DEFINE T == ToCome(r, t, at)
<1>1. T \subseteq 1 .. Len(Route[t])
  BY RouteTypes DEF ToCome
<1>2. ASSUME T # {} PROVE Min(T) \in T /\ \A i \in T : Min(T) <= i
  <2> HIDE DEF T
  <2>1. T \in SUBSET Nat
    BY <1>1
  <2>2. \E m \in T : \A i \in T : m <= i
    BY <1>2, <2>1, SmallestOf
  <2> QED
    BY <2>2 DEF Min
<1> QED
  BY <1>1, <1>2 DEF NextStop

\* Where a train is depends on its own crossings and delay alone.
LEMMA LocateSame ==
    ASSUME NEW r, NEW q, NEW t \in Trains, NEW at, q.delay[t] = r.delay[t],
           \A s \in Stops : s[1] = t => q.arr[s] = r.arr[s] /\ q.dep[s] = r.dep[s]
    PROVE  Locate(q, t, at) = Locate(r, t, at) /\ Status(q, t, at) = Status(r, t, at)
<1>1. ASSUME NEW i \in 1 .. Len(Route[t])
      PROVE  ArrOf(q, <<t, i>>) = ArrOf(r, <<t, i>>) /\ DepOf(q, <<t, i>>) = DepOf(r, <<t, i>>)
  <2>1. <<t, i>> \in Stops /\ <<t, i>>[1] = t
    BY RouteTypes
  <2> DEFINE s == <<t, i>>
  <2> HIDE DEF s
  <2>2. s[1] = t /\ q.arr[s] = r.arr[s] /\ q.dep[s] = r.dep[s]
    BY <2>1 DEF s
  <2>3. ArrOf(q, s) = ArrOf(r, s) /\ DepOf(q, s) = DepOf(r, s)
    BY <2>2 DEF ArrOf, DepOf
  <2> QED
    BY <2>3 DEF s
<1>2. Len(Route[t]) \in 1 .. Len(Route[t]) /\ DOMAIN Route[t] = 1 .. Len(Route[t])
  BY RouteTypes
<1>3. Finished(q, t, at) <=> Finished(r, t, at)
  BY <1>1, <1>2 DEF Finished, Final
<1>4. ToCome(q, t, at) = ToCome(r, t, at)
  BY <1>1, <1>2 DEF ToCome
<1>5. ToCome(r, t, at) \subseteq 1 .. Len(Route[t])
  BY <1>2 DEF ToCome
<1>6. NextStop(q, t, at) = NextStop(r, t, at)
  BY <1>4 DEF NextStop
<1> DEFINE i == NextStop(r, t, at)
<1>7. i = 0 \/ i \in 1 .. Len(Route[t])
  BY NextStopIsFirst
<1>8. i # 0 => ArrOf(q, <<t, i>>) = ArrOf(r, <<t, i>>)
  BY <1>1, <1>7
<1>9. Locate(q, t, at) = Locate(r, t, at)
  <2>1. CASE Finished(r, t, at) \/ i = 0
    BY <1>3, <1>6, <2>1 DEF Locate
  <2>2. CASE ~(Finished(r, t, at) \/ i = 0)
    <3>1. ArrOf(q, <<t, i>>) = ArrOf(r, <<t, i>>)
      BY <1>8, <2>2
    <3> QED
      BY <1>3, <1>6, <2>2, <3>1 DEF Locate
  <2> QED
    BY <2>1, <2>2
<1> QED
  BY <1>9 DEF Status

LEMMA DelayFields ==
    ASSUME run \in RunStates, told \in [Trains -> Statuses \X Nat],
           NEW t \in Trains, NEW m \in DelaySteps, InjectDelay(t, m)
    PROVE  /\ run' \in RunStates /\ run'.arr = run.arr /\ run'.dep = run.dep
           /\ run'.platform = run.platform
           /\ \A u \in Trains : run.delay[u] <= run'.delay[u]
           /\ \A u \in Trains \ {t} : /\ run'.delay[u] = run.delay[u]
                                      /\ run'.emitted[u] = run.emitted[u]
                                      /\ told'[u] = told[u]
           /\ told' \in [Trains -> Statuses \X Nat]
           /\ told'[t] = Status(run', t, now) /\ run'.emitted[t] = told'[t]
<1> DEFINE r == [run EXCEPT !.delay[t] = @ + m]
           delay == [run.delay EXCEPT ![t] = @ + m]
           st == Status(r, t, now)
           emitted == [run.emitted EXCEPT ![t] = st]
<1>1. m \in Nat /\ \A u \in Trains : run.delay[u] \in Nat
  BY ConstantTypes, RunTypes
<1>2. /\ delay \in [Trains -> Nat] /\ delay[t] = run.delay[t] + m
      /\ \A u \in Trains \ {t} : delay[u] = run.delay[u]
  BY <1>1 DEF RunStates
<1>3. \A u \in Trains : run.delay[u] <= delay[u]
  BY <1>1, <1>2
<1>4. r = [run EXCEPT !.delay = delay]
  OBVIOUS
<1> HIDE DEF delay
<1>5. /\ r \in RunStates /\ r.arr = run.arr /\ r.dep = run.dep /\ r.platform = run.platform
      /\ r.delay = delay /\ r.emitted = run.emitted
  BY <1>2, <1>4 DEF RunStates
<1>6. run' = [r EXCEPT !.emitted[t] = st] /\ told' = [told EXCEPT ![t] = st]
  BY DEF InjectDelay
<1> HIDE DEF r
<1>7. st \in Statuses \X Nat
  BY <1>5, StatusTypes
<1>8. run' = [r EXCEPT !.emitted = emitted]
  BY <1>5, <1>6
<1>9. /\ emitted \in [Trains -> {<<>>} \cup (Statuses \X Nat)] /\ emitted[t] = st
      /\ \A u \in Trains \ {t} : emitted[u] = run.emitted[u]
  BY <1>7 DEF RunStates
<1> HIDE DEF emitted, st
<1>10. /\ run' \in RunStates /\ run'.arr = run.arr /\ run'.dep = run.dep
       /\ run'.platform = run.platform /\ run'.delay = delay /\ run'.emitted = emitted
  BY <1>5, <1>8, <1>9 DEF RunStates
<1>11. /\ told' \in [Trains -> Statuses \X Nat] /\ told'[t] = st
       /\ \A u \in Trains \ {t} : told'[u] = told[u]
  BY <1>6, <1>7
<1>12. Status(run', t, now) = st
  BY <1>5, <1>10, LocateSame DEF st
<1> QED
  BY <1>2, <1>3, <1>9, <1>10, <1>11, <1>12

LEMMA TwinInvInit == Init => TwinInv
<1> SUFFICES ASSUME Init PROVE TwinInv
  OBVIOUS
<1>1. /\ baseline \in BOOLEAN /\ now = Start /\ run = Loaded /\ outbox = <<>> /\ overtaken = {}
      /\ scenarios = 0 /\ told = Snapshot /\ lost = {}
  BY DEF Init
<1>2. Start \in Nat
  BY ConstantTypes
<1> QED
  BY <1>1, <1>2, LoadedSound DEF TwinInv, TwinTypeOK

LEMMA TwinInvNext == TwinInv /\ [Next]_vars => TwinInv'
<1> SUFFICES ASSUME TwinInv, [Next]_vars PROVE TwinInv'
  OBVIOUS
<1>1. /\ baseline \in BOOLEAN /\ now \in Nat /\ scenarios \in Nat /\ run \in RunStates
      /\ overtaken \subseteq Trains /\ lost \subseteq Trains
      /\ outbox \in Seq(EventType) /\ told \in [Trains -> Statuses \X Nat]
      /\ Start \in Nat /\ Start <= now /\ Sound(run, now)
      /\ now > Start => \A s \in Stops : Settled(run, s, now)
  BY ConstantTypes DEF TwinInv, TwinTypeOK, EventType
<1>2. ASSUME outbox # <<>>
      PROVE  /\ Head(outbox).train \in Trains /\ Head(outbox).status \in Statuses \X Nat
             /\ Tail(outbox) \in Seq(EventType)
  <2>1. Head(outbox) \in EventType /\ Tail(outbox) \in Seq(EventType)
    BY <1>1, <1>2, TailShifts
  <2> QED
    BY <2>1 DEF EventType
<1>3. Unsent \subseteq Trains
  <2>1. \A i \in DOMAIN outbox : outbox[i] \in EventType
    BY <1>1
  <2> QED
    BY <2>1 DEF Unsent, EventType
<1>4. ASSUME NEW k \in TickSizes, Tick(k) PROVE TwinInv'
  <2> DEFINE r == Crossed(now')
  <2>1. /\ now' \in Nat /\ now' > Start /\ r \in RunStates /\ Sound(r, now')
        /\ \A s \in Stops : Settled(r, s, now')
        /\ run' = [r EXCEPT !.emitted = [t \in Trains |-> Status(r, t, now')]]
        /\ run' \in RunStates /\ outbox' = Events(r, now')
    BY <1>4, TickFields
  <2>2. UNCHANGED <<baseline, told, overtaken, lost, scenarios>>
    BY <1>4 DEF Tick
  <2> HIDE DEF r
  <2>3. outbox' \in Seq(EventType)
    BY <2>1, EventsAnnounced DEF Announced
  <2>4. /\ run'.arr = r.arr /\ run'.dep = r.dep /\ run'.platform = r.platform
        /\ run'.delay = r.delay
    BY <2>1 DEF RunStates
  <2>5. \A t \in Trains : r.delay[t] <= run'.delay[t]
    BY <2>1, <2>4, RunTypes
  <2>6. Sound(run', now') /\ \A s \in Stops : Settled(run', s, now')
    <3> DEFINE q == run'
               at == now'
    <3>1. /\ q \in RunStates /\ q.arr = r.arr /\ q.dep = r.dep /\ q.platform = r.platform
          /\ \A t \in Trains : r.delay[t] <= q.delay[t]
          /\ Sound(r, at) /\ at \in Nat /\ \A s \in Stops : Settled(r, s, at)
      BY <2>1, <2>4, <2>5
    <3> HIDE DEF q, at
    <3>2. Sound(q, at) /\ \A s \in Stops : Settled(q, s, at)
      BY <3>1, SoundFrom
    <3> QED
      BY <3>2 DEF q, at
  <2>7. TwinTypeOK'
    BY <1>1, <2>1, <2>2, <2>3 DEF TwinTypeOK, EventType
  <2>8. Sound(run, now)'
    BY <2>2, <2>6 DEF Sound
  <2> QED
    BY <1>1, <2>1, <2>6, <2>7, <2>8 DEF TwinInv
<1>5. CASE PublishNext
  <2> USE <1>5 DEF PublishNext
  <2>1. TwinTypeOK'
    BY <1>1, <1>2 DEF TwinTypeOK, EventType
  <2>2. Sound(run, now)'
    BY <1>1 DEF Sound
  <2> QED
    BY <1>1, <2>1, <2>2 DEF TwinInv
<1>6. CASE CancelTick
  <2> USE <1>6 DEF CancelTick, Scenario
  <2>1. TwinTypeOK'
    BY <1>1, <1>3 DEF TwinTypeOK
  <2>2. Sound(run, now)'
    BY <1>1 DEF Sound
  <2> QED
    BY <1>1, <2>1, <2>2 DEF TwinInv
<1>7. CASE Reset
  <2>1. /\ now' = Start /\ run' = Loaded /\ outbox' = <<>> /\ overtaken' = {}
        /\ told' = Snapshot /\ lost' = {} /\ UNCHANGED <<baseline, scenarios>>
    BY <1>7 DEF Reset
  <2>2. TwinTypeOK'
    BY <1>1, <2>1, LoadedSound DEF TwinTypeOK
  <2>3. Sound(Loaded, Start)
    BY <1>1, LoadedSound
  <2>4. Sound(run, now)'
    BY <2>1, <2>3 DEF Sound
  <2> QED
    BY <1>1, <2>1, <2>2, <2>4 DEF TwinInv
<1>8. ASSUME NEW t \in Trains, NEW m \in DelaySteps, InjectDelay(t, m) PROVE TwinInv'
  <2>1. /\ run' \in RunStates /\ run'.arr = run.arr /\ run'.dep = run.dep
        /\ run'.platform = run.platform /\ \A u \in Trains : run.delay[u] <= run'.delay[u]
        /\ told' \in [Trains -> Statuses \X Nat]
    BY <1>1, <1>8, DelayFields
  <2>2. /\ UNCHANGED <<baseline, now, outbox>> /\ scenarios' = scenarios + 1
        /\ lost' = lost \ {t} /\ overtaken' = overtaken \cup ({t} \cap Unsent)
    BY <1>8 DEF InjectDelay, Scenario
  <2>3. Sound(run', now) /\ \A s \in Stops : Settled(run, s, now) => Settled(run', s, now)
    <3> DEFINE q == run'
    <3>1. /\ q \in RunStates /\ q.arr = run.arr /\ q.dep = run.dep
          /\ q.platform = run.platform /\ \A u \in Trains : run.delay[u] <= q.delay[u]
      BY <2>1
    <3> HIDE DEF q
    <3>2. Sound(q, now) /\ \A s \in Stops : Settled(run, s, now) => Settled(q, s, now)
      BY <1>1, <3>1, SoundFrom
    <3> QED
      BY <3>2 DEF q
  <2>4. TwinTypeOK'
    BY <1>1, <1>3, <2>1, <2>2 DEF TwinTypeOK, EventType
  <2>5. Sound(run, now)'
    BY <2>2, <2>3 DEF Sound
  <2> QED
    BY <1>1, <2>2, <2>3, <2>4, <2>5 DEF TwinInv
<1>9. ASSUME /\ run' \in RunStates /\ run'.arr = run.arr /\ run'.dep = run.dep
             /\ run'.delay = run.delay /\ (baseline => run'.platform = run.platform),
             UNCHANGED <<baseline, now, outbox, told, overtaken, lost>>, scenarios' \in Nat
      PROVE  TwinInv'
  <2>1. \A u \in Trains : run.delay[u] <= run'.delay[u]
    BY <1>1, <1>9, RunTypes
  <2>2. Sound(run', now) /\ \A s \in Stops : Settled(run, s, now) => Settled(run', s, now)
    <3> DEFINE q == run'
    <3>1. /\ q \in RunStates /\ q.arr = run.arr /\ q.dep = run.dep
          /\ baseline => q.platform = run.platform
          /\ \A u \in Trains : run.delay[u] <= q.delay[u]
      BY <1>9, <2>1
    <3> HIDE DEF q
    <3>2. Sound(q, now) /\ \A s \in Stops : Settled(run, s, now) => Settled(q, s, now)
      BY <1>1, <3>1, SoundFrom
    <3> QED
      BY <3>2 DEF q
  <2>3. TwinTypeOK'
    BY <1>1, <1>9 DEF TwinTypeOK, EventType
  <2>4. Sound(run, now)'
    BY <1>9, <2>2 DEF Sound
  <2> QED
    BY <1>1, <1>9, <2>2, <2>3, <2>4 DEF TwinInv
<1>10. ASSUME NEW st \in Stations, NEW p \in Platforms, InjectBlock(st, p) PROVE TwinInv'
  <2> DEFINE b == [station |-> st, platform |-> p, start |-> now, end |-> now + BlockLength]
  <2>1. /\ run' = [run EXCEPT !.blocks = @ \cup {b}] /\ scenarios' \in Nat
        /\ UNCHANGED <<baseline, now, outbox, told, overtaken, lost>>
    BY <1>1, <1>10 DEF InjectBlock, Scenario
  <2>2. b \in [station : Stations, platform : Platforms, start : Nat, end : Nat]
    BY <1>1, ConstantTypes
  <2> HIDE DEF b
  <2>3. /\ run' \in RunStates /\ run'.arr = run.arr /\ run'.dep = run.dep
        /\ run'.delay = run.delay /\ run'.platform = run.platform
    BY <1>1, <2>1, <2>2 DEF RunStates
  <2> QED
    BY <1>9, <2>1, <2>3
<1>11. ASSUME NEW s \in Stops, NEW p \in Platforms, Reassign(s, p) PROVE TwinInv'
  <2>1. /\ run' = [run EXCEPT !.platform[s] = p] /\ scenarios' \in Nat /\ ~baseline
        /\ UNCHANGED <<baseline, now, outbox, told, overtaken, lost>>
    BY <1>1, <1>11 DEF Reassign, Scenario
  <2>2. /\ run' \in RunStates /\ run'.arr = run.arr /\ run'.dep = run.dep
        /\ run'.delay = run.delay
    BY <1>1, <2>1 DEF RunStates
  <2> QED
    BY <1>9, <2>1, <2>2
<1>12. CASE UNCHANGED vars
  <2> USE <1>12 DEF vars
  <2>1. TwinTypeOK'
    BY <1>1 DEF TwinTypeOK, EventType
  <2>2. Sound(run, now)'
    BY <1>1 DEF Sound
  <2> QED
    BY <1>1, <2>1, <2>2 DEF TwinInv
<1> QED
  BY <1>4, <1>5, <1>6, <1>7, <1>8, <1>10, <1>11, <1>12 DEF Next, Disturbance

LEMMA TwinInvAlways == Spec => []TwinInv
<1> QED
  BY TwinInvInit, TwinInvNext, PTL DEF Spec

\* The types, for every timetable.
THEOREM TwinTypesHold == Spec => []TwinTypeOK
<1>1. TwinInv => TwinTypeOK
  BY DEF TwinInv
<1> QED
  BY <1>1, TwinInvAlways, PTL

\* The crossings recorded are those of trains: in the order of the route, and none in the
\* future, whatever is injected and however long a tick is.
THEOREM CrossingsAreOrdered == Spec => []CrossingsOrdered
<1>1. TwinInv => CrossingsOrdered
  <2> SUFFICES ASSUME TwinInv, NEW s \in Stops
               PROVE  /\ run.arr[s] <= now /\ run.dep[s] <= now
                      /\ run.dep[s] # Absent => run.arr[s] <= run.dep[s]
                      /\ run.dep[s] # Absent /\ Sched(s).arr # Absent => run.arr[s] # Absent
                      /\ s[2] > 1 /\ run.arr[s] # Absent =>
                            /\ run.dep[<<s[1], s[2] - 1>>] # Absent
                            /\ run.dep[<<s[1], s[2] - 1>>] < run.arr[s]
    BY DEF CrossingsOrdered
  <2>1. run \in RunStates /\ now \in Nat /\ Recorded(run, now) /\ InOrder(run)
    BY DEF TwinInv, TwinTypeOK, Sound
  <2>2. /\ run.arr[s] \in Nat \cup {Absent} /\ run.dep[s] \in Nat \cup {Absent}
        /\ run.arr[s] # Absent => run.arr[s] <= now /\ Sched(s).arr # Absent
        /\ run.dep[s] # Absent => run.dep[s] <= now
        /\ run.dep[s] # Absent /\ Sched(s).arr # Absent =>
              run.arr[s] # Absent /\ run.arr[s] <= run.dep[s]
    BY <2>1, RunTypes DEF Recorded
  <2>3. ASSUME s[2] > 1, run.arr[s] # Absent
        PROVE  /\ run.dep[<<s[1], s[2] - 1>>] # Absent
               /\ run.dep[<<s[1], s[2] - 1>>] < run.arr[s]
    <3>1. <<s[1], s[2] - 1>> \in Stops /\ s[2] \in Nat
      BY <2>3, StopTypes
    <3>2. <<s[1], s[2] - 1>>[1] = s[1] /\ <<s[1], s[2] - 1>>[2] < s[2]
      BY <3>1
    <3> QED
      BY <2>1, <2>3, <3>1, <3>2 DEF InOrder
  <2> QED
    BY <2>1, <2>2, <2>3 DEF Absent
<1> QED
  BY <1>1, TwinInvAlways, PTL

\* In baseline mode no two trains are on one platform, for every timetable and any blocks,
\* delays and sizes of the ticks.
THEOREM BaselineIsExclusive == Spec => []BaselineExclusive
<1>1. TwinInv => BaselineExclusive
  BY DEF TwinInv, Sound, BaselineExclusive
<1> QED
  BY <1>1, TwinInvAlways, PTL

-----------------------------------------------------------------------------
(* Where a train is, by its records. *)

\* The stops the train has not left, and whether it has reached the end of its route.
Unleft(r, t) == {i \in 1 .. Len(Route[t]) : r.dep[<<t, i>>] = Absent}
AtEnd(r, t) == IF Sched(Final(t)).arr # Absent THEN r.arr[Final(t)] # Absent
               ELSE r.dep[Final(t)] # Absent

\* A record of r at time at, when all that is due is recorded.
LEMMA ExpectedIsAhead ==
    ASSUME NEW r \in RunStates, NEW s \in Stops, NEW at \in Nat, Recorded(r, at), Settled(r, s, at)
    PROVE  /\ at < ArrOf(r, s) <=> Sched(s).arr # Absent /\ r.arr[s] = Absent
           /\ at < DepOf(r, s) <=> Sched(s).dep # Absent /\ r.dep[s] = Absent
           /\ ArrOf(r, s) = Absent <=> Sched(s).arr = Absent
           /\ DepOf(r, s) = Absent <=> Sched(s).dep = Absent
           /\ ArrOf(r, s) \in Int /\ DepOf(r, s) \in Int
           /\ r.dep[s] # Absent /\ Sched(s).arr # Absent => r.arr[s] # Absent
<1>1. /\ r.delay[s[1]] \in Nat
      /\ Sched(s).arr # Absent => Sched(s).arr \in Nat
      /\ Sched(s).dep # Absent => Sched(s).dep \in Nat
      /\ r.arr[s] # Absent => r.arr[s] \in Nat /\ Sched(s).arr # Absent /\ r.arr[s] <= at
      /\ r.dep[s] # Absent => r.dep[s] \in Nat /\ Sched(s).dep # Absent /\ r.dep[s] <= at
      /\ r.dep[s] # Absent /\ Sched(s).arr # Absent => r.arr[s] # Absent
  BY AtStop, RunTypes DEF Recorded
<1>2. /\ at < ArrOf(r, s) <=> Sched(s).arr # Absent /\ r.arr[s] = Absent
      /\ ArrOf(r, s) = Absent <=> Sched(s).arr = Absent
      /\ ArrOf(r, s) \in Int
  BY <1>1 DEF ArrOf, Settled, Absent
<1>3. /\ at < DepOf(r, s) <=> Sched(s).dep # Absent /\ r.dep[s] = Absent
      /\ DepOf(r, s) = Absent <=> Sched(s).dep = Absent
      /\ DepOf(r, s) \in Int
  BY <1>1 DEF DepOf, Settled, Absent
<1> QED
  BY <1>1, <1>2, <1>3

LEMMA LegOfRecords ==
    ASSUME NEW r \in RunStates, NEW t \in Trains, NEW at \in Nat, Recorded(r, at), InOrder(r),
           \A s \in Stops : Settled(r, s, at)
    PROVE  /\ ToCome(r, t, at) = Unleft(r, t)
           /\ Finished(r, t, at) <=> AtEnd(r, t)
           /\ ~AtEnd(r, t) => Unleft(r, t) # {}
           /\ AtEnd(r, t) => Locate(r, t, at).leg = 2 * Len(Route[t]) + 1
           /\ ~AtEnd(r, t) => \E i \in Unleft(r, t) :
                 /\ \A j \in Unleft(r, t) : i <= j
                 /\ Locate(r, t, at).leg = IF r.arr[<<t, i>>] # Absent THEN 2 * i ELSE 2 * i - 1
<1>1. /\ Len(Route[t]) \in 1 .. Len(Route[t]) /\ Len(Route[t]) \in Nat
      /\ DOMAIN Route[t] = 1 .. Len(Route[t])
      /\ \A i \in 1 .. Len(Route[t]) : <<t, i>> \in Stops
  BY RouteTypes
<1>2. ASSUME NEW i \in 1 .. Len(Route[t])
      PROVE  LET s == <<t, i>>
             IN  /\ at < ArrOf(r, s) <=> Sched(s).arr # Absent /\ r.arr[s] = Absent
                 /\ at < DepOf(r, s) <=> Sched(s).dep # Absent /\ r.dep[s] = Absent
                 /\ ArrOf(r, s) = Absent <=> Sched(s).arr = Absent
                 /\ DepOf(r, s) = Absent <=> Sched(s).dep = Absent
                 /\ ArrOf(r, s) \in Int /\ DepOf(r, s) \in Int
                 /\ r.dep[s] # Absent /\ Sched(s).arr # Absent => r.arr[s] # Absent
                 /\ r.arr[s] # Absent => Sched(s).arr # Absent
                 /\ r.dep[s] # Absent => Sched(s).dep # Absent
                 /\ Sched(s).arr # Absent \/ Sched(s).dep # Absent
  <2> DEFINE s == <<t, i>>
  <2>1. s \in Stops
    BY <1>1
  <2> HIDE DEF s
  <2>2. Sched(s).arr # Absent \/ Sched(s).dep # Absent
    BY <2>1, StopTypes
  <2>3. /\ at < ArrOf(r, s) <=> Sched(s).arr # Absent /\ r.arr[s] = Absent
        /\ at < DepOf(r, s) <=> Sched(s).dep # Absent /\ r.dep[s] = Absent
        /\ ArrOf(r, s) = Absent <=> Sched(s).arr = Absent
        /\ DepOf(r, s) = Absent <=> Sched(s).dep = Absent
        /\ ArrOf(r, s) \in Int /\ DepOf(r, s) \in Int
        /\ r.dep[s] # Absent /\ Sched(s).arr # Absent => r.arr[s] # Absent
    BY <2>1, ExpectedIsAhead
  <2>4. /\ r.arr[s] # Absent => Sched(s).arr # Absent
        /\ r.dep[s] # Absent => Sched(s).dep # Absent
    BY <2>1 DEF Recorded
  <2> QED
    BY <2>2, <2>3, <2>4 DEF s
<1>3. ToCome(r, t, at) = Unleft(r, t)
  <2>1. ASSUME NEW i \in 1 .. Len(Route[t])
        PROVE  (\/ at < ArrOf(r, <<t, i>>) \/ at < DepOf(r, <<t, i>>)
                \/ DepOf(r, <<t, i>>) = Absent) <=> r.dep[<<t, i>>] = Absent
    BY <1>2
  <2> QED
    BY <1>1, <2>1 DEF ToCome, Unleft
<1>4. Finished(r, t, at) <=> AtEnd(r, t)
  <2> DEFINE n == Len(Route[t])
             f == <<t, n>>
  <2>1. /\ at < ArrOf(r, f) <=> Sched(f).arr # Absent /\ r.arr[f] = Absent
        /\ at < DepOf(r, f) <=> Sched(f).dep # Absent /\ r.dep[f] = Absent
        /\ ArrOf(r, f) = Absent <=> Sched(f).arr = Absent
        /\ ArrOf(r, f) \in Int /\ DepOf(r, f) \in Int
        /\ Sched(f).arr # Absent \/ Sched(f).dep # Absent
    BY <1>1, <1>2
  <2>2. Final(t) = f
    BY DEF Final
  <2> HIDE DEF f, n
  <2> QED
    BY <2>1, <2>2 DEF Finished, AtEnd
<1>5. ~AtEnd(r, t) => Unleft(r, t) # {}
  <2> SUFFICES ASSUME ~AtEnd(r, t) PROVE Len(Route[t]) \in Unleft(r, t)
    OBVIOUS
  <2>1. r.dep[<<t, Len(Route[t])>>] = Absent
    BY <1>1, <1>2 DEF AtEnd, Final
  <2> QED
    BY <1>1, <2>1 DEF Unleft
<1>6. AtEnd(r, t) => Locate(r, t, at).leg = 2 * Len(Route[t]) + 1
  BY <1>4 DEF Locate
<1>7. ASSUME ~AtEnd(r, t)
      PROVE  \E i \in Unleft(r, t) :
                 /\ \A j \in Unleft(r, t) : i <= j
                 /\ Locate(r, t, at).leg = IF r.arr[<<t, i>>] # Absent THEN 2 * i ELSE 2 * i - 1
  <2> DEFINE i == NextStop(r, t, at)
  <2>1. /\ i \in Unleft(r, t) /\ \A j \in Unleft(r, t) : i <= j
        /\ i \in 1 .. Len(Route[t])
    BY <1>3, <1>5, <1>7, NextStopIsFirst
  <2>2. i # 0 /\ ~Finished(r, t, at)
    BY <1>4, <1>7, <2>1
  <2>3. /\ at < ArrOf(r, <<t, i>>) <=> Sched(<<t, i>>).arr # Absent /\ r.arr[<<t, i>>] = Absent
        /\ ArrOf(r, <<t, i>>) = Absent <=> Sched(<<t, i>>).arr = Absent
        /\ r.arr[<<t, i>>] # Absent => Sched(<<t, i>>).arr # Absent
    BY <1>2, <2>1
  <2>4. Locate(r, t, at).leg = IF r.arr[<<t, i>>] # Absent THEN 2 * i ELSE 2 * i - 1
    BY <2>2, <2>3 DEF Locate
  <2> QED
    BY <2>1, <2>4
<1> QED
  BY <1>3, <1>4, <1>5, <1>6, <1>7

LEMMA LegGrows ==
    ASSUME NEW r \in RunStates, NEW at \in Nat, Recorded(r, at), InOrder(r),
           \A s \in Stops : Settled(r, s, at),
           NEW q \in RunStates, NEW later \in Nat, Recorded(q, later), InOrder(q),
           \A s \in Stops : Settled(q, s, later),
           \A s \in Stops : /\ r.arr[s] # Absent => q.arr[s] = r.arr[s]
                            /\ r.dep[s] # Absent => q.dep[s] = r.dep[s],
           NEW t \in Trains
    PROVE  Locate(q, t, later).leg >= Locate(r, t, at).leg
<1> DEFINE n == Len(Route[t])
<1>1. n \in Nat /\ \A i \in 1 .. n : <<t, i>> \in Stops
  BY RouteTypes
<1>2. Final(t) \in Stops
  BY RouteTypes DEF Final
<1>3. AtEnd(r, t) => AtEnd(q, t)
  BY <1>2 DEF AtEnd
<1>4. Unleft(q, t) \subseteq Unleft(r, t)
  BY <1>1 DEF Unleft
<1>5. Unleft(r, t) \subseteq 1 .. n
  BY DEF Unleft
<1>6. CASE AtEnd(q, t)
  <2>1. Locate(q, t, later).leg = 2 * n + 1
    BY <1>6, LegOfRecords
  <2>2. CASE AtEnd(r, t)
    <3>1. Locate(r, t, at).leg = 2 * n + 1
      BY <2>2, LegOfRecords
    <3> QED
      BY <1>1, <2>1, <3>1
  <2>3. CASE ~AtEnd(r, t)
    <3>1. PICK i \in Unleft(r, t) :
             Locate(r, t, at).leg = IF r.arr[<<t, i>>] # Absent THEN 2 * i ELSE 2 * i - 1
      BY <2>3, LegOfRecords
    <3>2. i \in 1 .. n
      BY <1>5
    <3> QED
      BY <1>1, <2>1, <3>1, <3>2
  <2> QED
    BY <2>2, <2>3
<1>7. CASE ~AtEnd(q, t)
  <2>1. PICK i \in Unleft(q, t) :
           Locate(q, t, later).leg = IF q.arr[<<t, i>>] # Absent THEN 2 * i ELSE 2 * i - 1
    BY <1>7, LegOfRecords
  <2>2. PICK j \in Unleft(r, t) :
           /\ \A k \in Unleft(r, t) : j <= k
           /\ Locate(r, t, at).leg = IF r.arr[<<t, j>>] # Absent THEN 2 * j ELSE 2 * j - 1
    BY <1>3, <1>7, LegOfRecords
  <2>3. j <= i /\ i \in 1 .. n /\ j \in 1 .. n
    BY <1>4, <1>5, <2>2
  <2>4. CASE j = i
    <3>1. r.arr[<<t, j>>] # Absent => q.arr[<<t, i>>] # Absent
      BY <1>1, <2>3, <2>4
    <3> QED
      BY <1>1, <2>1, <2>2, <2>3, <2>4, <3>1
  <2>5. CASE j # i
    BY <1>1, <2>1, <2>2, <2>3, <2>5
  <2> QED
    BY <2>4, <2>5
<1> QED
  BY <1>6, <1>7

\* Until a reset no recorded crossing changes and no train goes back, whatever is injected.
THEOREM PastStays == Spec => PastIsKept
<1>1. TwinInv /\ TwinInv' /\ [Next]_vars => [now' >= now /\ run' # Loaded => NeverBack]_vars
  <2> SUFFICES ASSUME TwinInv, TwinInv', Next, run' # Loaded PROVE NeverBack
    BY DEF vars, NeverBack
  <2>1. ASSUME TwinInv PROVE run \in RunStates /\ now \in Nat /\ Recorded(run, now) /\ InOrder(run)
    BY <2>1 DEF TwinInv, TwinTypeOK, Sound
  <2>2. /\ \A s \in Stops : /\ run.arr[s] # Absent => run'.arr[s] = run.arr[s]
                            /\ run.dep[s] # Absent => run'.dep[s] = run.dep[s]
        /\ now' >= now
    <3>1. run \in RunStates /\ now \in Nat /\ told \in [Trains -> Statuses \X Nat]
      BY DEF TwinInv, TwinTypeOK
    <3>2. ASSUME NEW k \in TickSizes, Tick(k)
          PROVE  /\ now' > now /\ now' \in Nat
                 /\ \A s \in Stops : /\ run.arr[s] # Absent => run'.arr[s] = run.arr[s]
                                     /\ run.dep[s] # Absent => run'.dep[s] = run.dep[s]
      <4>1. /\ now' > now /\ now' \in Nat
            /\ Crossed(now') \in RunStates /\ Grown(run, Crossed(now'))
            /\ run' = [Crossed(now') EXCEPT !.emitted =
                          [t \in Trains |-> Status(Crossed(now'), t, now')]]
        BY <3>2, TickFields
      <4>2. run'.arr = Crossed(now').arr /\ run'.dep = Crossed(now').dep
        BY <4>1 DEF RunStates
      <4> QED
        BY <4>1, <4>2 DEF Grown
    <3>3. CASE PublishNext \/ CancelTick
      BY <3>1, <3>3 DEF PublishNext, CancelTick
    <3>4. CASE Reset
      BY <3>4 DEF Reset
    <3>5. ASSUME NEW t \in Trains, NEW m \in DelaySteps, InjectDelay(t, m)
          PROVE  run'.arr = run.arr /\ run'.dep = run.dep /\ now' = now
      BY <3>1, <3>5, DelayFields DEF InjectDelay
    <3>6. ASSUME NEW st \in Stations, NEW p \in Platforms, InjectBlock(st, p)
          PROVE  run'.arr = run.arr /\ run'.dep = run.dep /\ now' = now
      BY <3>1, <3>6 DEF InjectBlock, RunStates
    <3>7. ASSUME NEW s \in Stops, NEW p \in Platforms, Reassign(s, p)
          PROVE  run'.arr = run.arr /\ run'.dep = run.dep /\ now' = now
      BY <3>1, <3>7 DEF Reassign, RunStates
    <3> QED
      BY <3>1, <3>2, <3>3, <3>4, <3>5, <3>6, <3>7 DEF Next, Disturbance
  <2>3. ASSUME now > Start, NEW t \in Trains
        PROVE  Locate(run', t, now').leg >= Locate(run, t, now).leg
    <3>1. Start \in Nat /\ now \in Nat /\ now' \in Nat /\ now' > Start
      BY <2>2, <2>3, ConstantTypes DEF TwinInv, TwinTypeOK
    <3>2. /\ run \in RunStates /\ Recorded(run, now) /\ InOrder(run)
          /\ \A s \in Stops : Settled(run, s, now)
      BY <2>1, <2>3 DEF TwinInv
    <3>3. /\ run' \in RunStates /\ Recorded(run', now') /\ InOrder(run')
          /\ \A s \in Stops : Settled(run', s, now')
      BY <3>1 DEF TwinInv, TwinTypeOK, Sound
    <3> DEFINE q == run'
               later == now'
    <3> HIDE DEF q, later
    <3>4. Locate(q, t, later).leg >= Locate(run, t, now).leg
      BY <2>2, <3>1, <3>2, <3>3, LegGrows DEF q, later
    <3> QED
      BY <3>4 DEF q, later
  <2> QED
    BY <2>2, <2>3 DEF NeverBack
<1> QED
  BY <1>1, TwinInvAlways, PTL DEF PastIsKept, Spec

\* What is announced as still to come is what lies ahead of where the train is shown, but
\* for a last stop reached and not left.
THEOREM RemainingAhead == Spec => []RemainingIsAhead
<1>1. TwinInv => RemainingIsAhead
  <2> SUFFICES ASSUME TwinInv, now > Start, NEW t \in Trains
               PROVE  \/ Remaining(t) = Ahead(t)
                      \/ /\ Ahead(t) = {} /\ Remaining(t) = {Len(Route[t])}
                         /\ run.arr[Final(t)] # Absent
    BY DEF RemainingIsAhead
  <2> DEFINE n == Len(Route[t])
  <2>1. /\ run \in RunStates /\ now \in Nat /\ Recorded(run, now) /\ InOrder(run)
        /\ \A s \in Stops : Settled(run, s, now)
    BY DEF TwinInv, TwinTypeOK, Sound
  <2>2. /\ n \in 1 .. n /\ n \in Nat /\ DOMAIN Route[t] = 1 .. n /\ Final(t) = <<t, n>>
        /\ \A i \in 1 .. n : <<t, i>> \in Stops
    BY RouteTypes DEF Final
  <2>3. ASSUME NEW i \in 1 .. n
        PROVE  /\ Sched(<<t, i>>).dep = Absent => i = n /\ Sched(<<t, i>>).arr # Absent
               /\ Sched(<<t, i>>).arr = Absent => i = 1
               /\ run.dep[<<t, i>>] # Absent => Sched(<<t, i>>).dep # Absent
               /\ run.dep[<<t, i>>] # Absent /\ Sched(<<t, i>>).arr # Absent =>
                     run.arr[<<t, i>>] # Absent
    <3> DEFINE s == <<t, i>>
    <3>1. s \in Stops /\ s[1] = t /\ s[2] = i
      BY <2>2
    <3> HIDE DEF s
    <3>2. /\ Sched(s).dep = Absent => s[2] = Len(Route[s[1]]) /\ Sched(s).arr # Absent
          /\ Sched(s).arr = Absent => s[2] = 1
      BY <3>1, StopTypes
    <3>3. /\ run.dep[s] # Absent => Sched(s).dep # Absent
          /\ run.dep[s] # Absent /\ Sched(s).arr # Absent => run.arr[s] # Absent
      BY <2>1, <3>1 DEF Recorded
    <3> QED
      BY <3>1, <3>2, <3>3 DEF s
  <2>4. ASSUME NEW i \in 1 .. n, NEW j \in 1 .. n, i < j, run.arr[<<t, j>>] # Absent
        PROVE  run.dep[<<t, i>>] # Absent
    <3>1. /\ <<t, i>> \in Stops /\ <<t, j>> \in Stops
          /\ <<t, i>>[1] = <<t, j>>[1] /\ <<t, i>>[2] < <<t, j>>[2]
      BY <2>2, <2>4
    <3> QED
      BY <2>1, <2>4, <3>1 DEF InOrder
  <2> HIDE DEF n
  <2>5. CASE AtEnd(run, t)
    <3>1. Ahead(t) = {}
      <4>1. Locate(run, t, now).leg = 2 * n + 1
        BY <2>1, <2>5, LegOfRecords DEF n
      <4> QED
        BY <2>2, <4>1 DEF Ahead
    <3>2. ASSUME NEW i \in 1 .. n, i # n PROVE run.dep[<<t, i>>] # Absent
      <4>1. Sched(<<t, n>>).arr # Absent
        BY <2>2, <2>3, <3>2
      <4>2. run.arr[<<t, n>>] # Absent
        BY <2>2, <2>5, <4>1 DEF AtEnd
      <4> QED
        BY <2>2, <2>4, <3>2, <4>2
    <3>3. \A i \in Remaining(t) : i = n
      BY <2>2, <2>3, <3>2 DEF Remaining
    <3>4. CASE n \notin Remaining(t)
      <4>1. Remaining(t) = {}
        BY <3>3, <3>4
      <4> QED
        BY <3>1, <4>1
    <3>5. CASE n \in Remaining(t)
      <4>1. Remaining(t) = {n}
        BY <3>3, <3>5
      <4>2. run.arr[<<t, n>>] # Absent
        <5>1. CASE Sched(<<t, n>>).arr # Absent
          BY <2>2, <2>5, <5>1 DEF AtEnd
        <5>2. CASE Sched(<<t, n>>).arr = Absent
          <6>1. Sched(<<t, n>>).dep # Absent
            BY <2>2, <2>3, <5>2
          <6>2. run.dep[<<t, n>>] # Absent
            BY <2>2, <2>5, <5>2 DEF AtEnd
          <6> QED
            BY <2>2, <3>5, <6>1, <6>2 DEF Remaining
        <5> QED
          BY <5>1, <5>2
      <4> QED
        BY <2>2, <3>1, <4>1, <4>2 DEF n
    <3> QED
      BY <3>4, <3>5
  <2>6. CASE ~AtEnd(run, t)
    <3>1. PICK i \in Unleft(run, t) :
             /\ \A j \in Unleft(run, t) : i <= j
             /\ Locate(run, t, now).leg = IF run.arr[<<t, i>>] # Absent THEN 2 * i ELSE 2 * i - 1
      BY <2>1, <2>6, LegOfRecords
    <3>2. i \in 1 .. n /\ run.dep[<<t, i>>] = Absent
      BY DEF Unleft, n
    <3>3. ASSUME NEW j \in 1 .. n PROVE j \in Ahead(t) <=> i <= j
      <4>1. i \in Nat /\ j \in Nat
        BY <3>2
      <4>2. Locate(run, t, now).leg <= 2 * j <=> i <= j
        BY <3>1, <4>1
      <4> QED
        BY <2>2, <4>2 DEF Ahead
    <3>4. ASSUME NEW j \in 1 .. n PROVE j \in Unleft(run, t) <=> i <= j
      <4>1. j \in Unleft(run, t) => i <= j
        BY <3>1
      <4>2. ASSUME i <= j, run.dep[<<t, j>>] # Absent PROVE FALSE
        <5>1. i < j
          BY <3>2, <4>2
        <5>2. Sched(<<t, j>>).arr # Absent
          BY <2>3, <3>2, <5>1
        <5>3. run.arr[<<t, j>>] # Absent
          BY <2>3, <4>2, <5>2
        <5> QED
          BY <2>4, <3>2, <5>1, <5>3
      <4> QED
        BY <4>1, <4>2 DEF Unleft, n
    <3>5. ASSUME NEW j \in 1 .. n PROVE j \in Remaining(t) <=> j \in Unleft(run, t)
      <4>1. CASE Sched(<<t, j>>).dep # Absent
        BY <2>2, <4>1 DEF Remaining, Unleft, n
      <4>2. CASE Sched(<<t, j>>).dep = Absent
        <5>1. j = n /\ Sched(<<t, j>>).arr # Absent /\ run.dep[<<t, j>>] = Absent
          BY <2>3, <4>2
        <5>2. run.arr[<<t, j>>] = Absent
          BY <2>2, <2>6, <5>1 DEF AtEnd
        <5> QED
          BY <2>2, <4>2, <5>1, <5>2 DEF Remaining, Unleft, n
      <4> QED
        BY <4>1, <4>2
    <3>6. Remaining(t) \subseteq 1 .. n /\ Ahead(t) \subseteq 1 .. n
      BY <2>2 DEF Remaining, Ahead
    <3>7. Remaining(t) = Ahead(t)
      BY <3>3, <3>4, <3>5, <3>6
    <3> QED
      BY <3>7
  <2> QED
    BY <2>5, <2>6
<1> QED
  BY <1>1, TwinInvAlways, PTL

-----------------------------------------------------------------------------
(* What the clients know. *)

\* The status of a train that was published last, if any was, is its status.
Emitted == \A t \in Trains : run.emitted[t] # <<>> => run.emitted[t] = Status(run, t, now)

ClientsInv ==
    /\ Emitted
    /\ now = Start => outbox = <<>>
    /\ now > Start => \A t \in Trains : run.emitted[t] # <<>>
    /\ \A i, l \in 1 .. Len(outbox) : outbox[i].train = outbox[l].train => i = l
    /\ \A i \in 1 .. Len(outbox) :
          \/ outbox[i].train \in overtaken
          \/ outbox[i].status = Status(run, outbox[i].train, now)
    /\ \A t \in overtaken : t \in Unsent /\ told[t] = Status(run, t, now)
    /\ \A t \in Trains :
          run.emitted[t] # <<>> => t \in Unsent \/ t \in lost \/ told[t] = Status(run, t, now)

LEMMA ClientsInvInit == Init => ClientsInv
<1> SUFFICES ASSUME Init PROVE ClientsInv
  OBVIOUS
<1>1. now = Start /\ run = Loaded /\ outbox = <<>> /\ overtaken = {}
  BY DEF Init
<1>2. \A t \in Trains : run.emitted[t] = <<>>
  BY <1>1, LoadedSound
<1>3. ~(now > Start)
  BY <1>1, ConstantTypes
<1> QED
  BY <1>1, <1>2, <1>3 DEF ClientsInv, Emitted

LEMMA UnsentTrains ==
    ASSUME TwinTypeOK
    PROVE  /\ DOMAIN outbox = 1 .. Len(outbox) /\ Len(outbox) \in Nat
           /\ \A i \in 1 .. Len(outbox) : /\ outbox[i].train \in Trains
                                          /\ outbox[i].status \in Statuses \X Nat
                                          /\ outbox[i].train \in Unsent
           /\ \A t \in Unsent : \E i \in 1 .. Len(outbox) : t = outbox[i].train
<1>1. outbox \in Seq(EventType)
  BY DEF TwinTypeOK, EventType
<1>2. DOMAIN outbox = 1 .. Len(outbox) /\ Len(outbox) \in Nat
  BY <1>1
<1>3. \A i \in 1 .. Len(outbox) : outbox[i] \in EventType
  BY <1>1
<1> QED
  BY <1>2, <1>3 DEF Unsent, EventType

\* A tick: the status of every train is emitted; of those it did not publish, the clients
\* have it already.
LEMMA ClientsTick ==
    ASSUME TwinInv, ClientsInv, NEW k \in TickSizes, Tick(k)
    PROVE  ClientsInv'
<1> DEFINE r == Crossed(now')
           at == now'
           q == run'
           es == outbox'
<1>1. /\ at \in Nat /\ at > Start /\ r \in RunStates /\ Grown(run, r)
      /\ q = [r EXCEPT !.emitted = [t \in Trains |-> Status(r, t, at)]]
      /\ es = Events(r, at) /\ Start \in Nat
  BY TickFields, ConstantTypes
<1>2. outbox = <<>> /\ UNCHANGED <<told, overtaken, lost>>
  BY DEF Tick
<1>3. overtaken = {} /\ Unsent = {}
  BY <1>2 DEF ClientsInv, Unsent
<1> HIDE DEF r, at, q, es
<1>4. /\ q.arr = r.arr /\ q.dep = r.dep /\ q.delay = r.delay
      /\ q.emitted = [t \in Trains |-> Status(r, t, at)]
  BY <1>1 DEF RunStates
<1>5. \A t \in Trains : /\ Status(q, t, at) = Status(r, t, at)
                        /\ q.emitted[t] = Status(q, t, at) /\ q.emitted[t] # <<>>
  <2> TAKE t \in Trains
  <2>1. Status(q, t, at) = Status(r, t, at)
    BY <1>4, LocateSame
  <2>2. Status(r, t, at) # <<>>
    BY <1>1, StatusTypes
  <2>3. q.emitted[t] = Status(r, t, at)
    BY <1>4
  <2> QED
    BY <2>1, <2>2, <2>3
<1>6. Announced(r, es, Len(Order), at)
  BY <1>1, EventsAnnounced
<1>7. DOMAIN es = 1 .. Len(es)
  BY <1>6 DEF Announced
<1>8. \A i \in 1 .. Len(es) : es[i].status = Status(q, es[i].train, at)
  <2> SUFFICES ASSUME NEW i \in 1 .. Len(es) PROVE es[i].status = Status(q, es[i].train, at)
    OBVIOUS
  <2>1. PICK j \in 1 .. Len(Order) : es[i] = Event(r, Order[j], at)
    BY <1>6 DEF Announced
  <2>2. Order[j] \in Trains
    BY OrderTypes
  <2>3. es[i].train = Order[j] /\ es[i].status = Status(r, Order[j], at)
    BY <2>1 DEF Event
  <2> QED
    BY <1>5, <2>2, <2>3
<1>9. ASSUME NEW t \in Trains
      PROVE  \/ t \in {es[i].train : i \in DOMAIN es} \/ t \in lost \/ told[t] = Status(q, t, at)
  <2>1. PICK j \in 1 .. Len(Order) : t = Order[j]
    BY OrderTypes
  <2>2. CASE Published(r, t, at)
    BY <1>6, <1>7, <2>1, <2>2 DEF Announced
  <2>3. CASE ~Published(r, t, at)
    <3>1. r.emitted[t] = Status(r, t, at)
      BY <2>3 DEF Published
    <3>2. run.emitted[t] = Status(r, t, at) /\ run.emitted[t] # <<>>
      BY <1>1, <3>1, StatusTypes DEF Grown
    <3>3. run.emitted[t] = Status(run, t, now)
      BY <3>2 DEF ClientsInv, Emitted
    <3>4. t \in lost \/ told[t] = Status(run, t, now)
      BY <1>3, <3>2 DEF ClientsInv
    <3> QED
      BY <1>5, <3>2, <3>3, <3>4
  <2> QED
    BY <2>2, <2>3
<1>10. Emitted'
  BY <1>5 DEF Emitted, q, at
<1>11. /\ now' # Start
       /\ \A t \in Trains : run'.emitted[t] # <<>>
  <2>1. at # Start
    BY <1>1
  <2> QED
    BY <1>5, <2>1 DEF q, at
<1>12. \A i, l \in 1 .. Len(outbox') : outbox'[i].train = outbox'[l].train => i = l
  BY <1>6 DEF Announced, es
<1>13. \A i \in 1 .. Len(outbox') : outbox'[i].status = Status(run', outbox'[i].train, now')
  BY <1>8 DEF es, q, at
<1>14. \A t \in Trains : t \in Unsent' \/ t \in lost' \/ told'[t] = Status(run', t, now')
  BY <1>2, <1>9 DEF Unsent, es, q, at
<1>15. overtaken' = {}
  BY <1>2, <1>3
<1> QED
  BY <1>10, <1>11, <1>12, <1>13, <1>14, <1>15 DEF ClientsInv

\* The next event reaches the clients; it is wrong if an injected delay overtook it.
LEMMA ClientsPublish ==
    ASSUME TwinInv, ClientsInv, PublishNext
    PROVE  ClientsInv'
<1> DEFINE t == outbox[1].train
           st == outbox[1].status
           es == outbox'
<1>1. TwinTypeOK /\ outbox \in Seq(EventType) /\ outbox # <<>>
  BY DEF TwinInv, TwinTypeOK, EventType, PublishNext
<1>2. /\ Head(outbox) = outbox[1] /\ Len(es) = Len(outbox) - 1 /\ Len(outbox) \in Nat \ {0}
      /\ \A i \in 1 .. Len(outbox) - 1 : es[i] = outbox[i + 1]
      /\ es \in Seq(EventType)
  BY <1>1, TailShifts DEF PublishNext
<1>3. /\ told' = [told EXCEPT ![t] = st] /\ overtaken' = overtaken \ {t}
      /\ lost' = (IF t \in overtaken THEN lost \cup {t} ELSE lost \ {t})
      /\ UNCHANGED <<baseline, now, run, scenarios>>
  BY <1>2 DEF PublishNext
<1>4. told \in [Trains -> Statuses \X Nat]
  BY <1>1 DEF TwinTypeOK
<1>5. /\ 1 \in 1 .. Len(outbox) /\ t \in Trains
      /\ \A u \in Unsent : \E i \in 1 .. Len(outbox) : u = outbox[i].train
      /\ DOMAIN outbox = 1 .. Len(outbox)
  BY <1>1, <1>2, UnsentTrains
<1>6. /\ DOMAIN es = 1 .. Len(es) /\ Len(es) \in Nat
      /\ \A i \in 1 .. Len(es) : i + 1 \in 1 .. Len(outbox) /\ es[i] = outbox[i + 1]
      /\ \A i \in 1 .. Len(outbox) : i # 1 => i - 1 \in 1 .. Len(es) /\ es[i - 1] = outbox[i]
  BY <1>2
<1> HIDE DEF t, st, es
<1>7. /\ told'[t] = st /\ \A u \in Trains \ {t} : told'[u] = told[u]
  BY <1>3, <1>4, <1>5
<1>8. \A i \in 1 .. Len(es) : es[i].train # t
  <2> SUFFICES ASSUME NEW i \in 1 .. Len(es), es[i].train = t PROVE FALSE
    OBVIOUS
  <2>1. i + 1 = 1
    BY <1>5, <1>6 DEF ClientsInv, t
  <2> QED
    BY <2>1
<1>9. ASSUME NEW u \in Unsent, u # t PROVE u \in {es[i].train : i \in DOMAIN es}
  <2>1. PICK i \in 1 .. Len(outbox) : u = outbox[i].train
    BY <1>5
  <2>2. i # 1
    BY <1>9, <2>1 DEF t
  <2>3. i - 1 \in 1 .. Len(es) /\ es[i - 1].train = u
    BY <1>6, <2>1, <2>2
  <2> QED
    BY <1>6, <2>3
<1>10. Emitted'
  BY <1>3 DEF ClientsInv, Emitted
<1>11. now # Start
  BY <1>1 DEF ClientsInv
<1>12. \A i, l \in 1 .. Len(es) : es[i].train = es[l].train => i = l
  <2> SUFFICES ASSUME NEW i \in 1 .. Len(es), NEW l \in 1 .. Len(es), es[i].train = es[l].train
               PROVE  i = l
    OBVIOUS
  <2>1. i + 1 = l + 1
    BY <1>6 DEF ClientsInv
  <2> QED
    BY <1>6, <2>1
<1>13. \A i \in 1 .. Len(es) : \/ es[i].train \in overtaken'
                               \/ es[i].status = Status(run, es[i].train, now)
  BY <1>3, <1>6, <1>8 DEF ClientsInv
<1>14. \A u \in overtaken' : /\ u \in {es[i].train : i \in DOMAIN es}
                             /\ told'[u] = Status(run, u, now)
  <2> SUFFICES ASSUME NEW u \in overtaken, u # t
               PROVE  /\ u \in {es[i].train : i \in DOMAIN es}
                      /\ told'[u] = Status(run, u, now)
    BY <1>3
  <2>1. u \in Unsent /\ told[u] = Status(run, u, now) /\ u \in Trains
    BY <1>1 DEF ClientsInv, TwinTypeOK
  <2> QED
    BY <1>7, <1>9, <2>1
<1>15. ASSUME NEW u \in Trains, run.emitted[u] # <<>>
       PROVE  \/ u \in {es[i].train : i \in DOMAIN es} \/ u \in lost'
              \/ told'[u] = Status(run, u, now)
  <2>1. CASE u = t
    <3>1. t \in overtaken \/ st = Status(run, t, now)
      BY <1>5 DEF ClientsInv, t, st
    <3> QED
      BY <1>3, <1>7, <2>1, <3>1
  <2>2. CASE u # t
    BY <1>3, <1>7, <1>9, <1>15, <2>2 DEF ClientsInv
  <2> QED
    BY <2>1, <2>2
<1> QED
  BY <1>3, <1>10, <1>11, <1>12, <1>13, <1>14, <1>15 DEF ClientsInv, Unsent, es

\* The tick is cancelled: of the trains it had still to publish only those whose event a
\* delay had overtaken are known.
LEMMA ClientsCancel ==
    ASSUME TwinInv, ClientsInv, CancelTick
    PROVE  ClientsInv'
<1>1. /\ outbox' = <<>> /\ lost' = lost \cup (Unsent \ overtaken) /\ overtaken' = {}
      /\ UNCHANGED <<baseline, now, run, told>>
  BY DEF CancelTick
<1>2. Emitted'
  BY <1>1 DEF ClientsInv, Emitted
<1>3. ASSUME NEW t \in Trains, run.emitted[t] # <<>>
      PROVE  t \in lost' \/ told[t] = Status(run, t, now)
  BY <1>1, <1>3 DEF ClientsInv
<1> QED
  BY <1>1, <1>2, <1>3 DEF ClientsInv

\* An injected delay is published at once, and overtakes what the tick has still to say.
LEMMA ClientsDelay ==
    ASSUME TwinInv, ClientsInv, NEW t \in Trains, NEW m \in DelaySteps, InjectDelay(t, m)
    PROVE  ClientsInv'
<1> DEFINE q == run'
<1>1. TwinTypeOK /\ run \in RunStates /\ told \in [Trains -> Statuses \X Nat]
  BY DEF TwinInv, TwinTypeOK
<1>2. /\ q \in RunStates /\ q.arr = run.arr /\ q.dep = run.dep
      /\ \A u \in Trains \ {t} : /\ q.delay[u] = run.delay[u]
                                 /\ q.emitted[u] = run.emitted[u] /\ told'[u] = told[u]
      /\ told'[t] = Status(q, t, now) /\ q.emitted[t] = told'[t]
  BY <1>1, DelayFields
<1>3. /\ UNCHANGED <<baseline, now, outbox>> /\ lost' = lost \ {t}
      /\ overtaken' = overtaken \cup ({t} \cap Unsent)
  BY DEF InjectDelay
<1>4. Unsent' = Unsent
  BY <1>3 DEF Unsent
<1> HIDE DEF q
<1>5. \A u \in Trains \ {t} : Status(q, u, now) = Status(run, u, now)
  BY <1>2, LocateSame
<1>6. q.emitted[t] # <<>>
  BY <1>2, StatusTypes
<1>7. \A u \in Trains : q.emitted[u] # <<>> => q.emitted[u] = Status(q, u, now)
  BY <1>2, <1>5 DEF ClientsInv, Emitted
<1>8. now > Start => \A u \in Trains : q.emitted[u] # <<>>
  BY <1>2, <1>6 DEF ClientsInv
<1>9. \A i \in 1 .. Len(outbox) : \/ outbox[i].train \in overtaken'
                                  \/ outbox[i].status = Status(q, outbox[i].train, now)
  <2> SUFFICES ASSUME NEW i \in 1 .. Len(outbox), outbox[i].train \notin overtaken'
               PROVE  outbox[i].status = Status(q, outbox[i].train, now)
    OBVIOUS
  <2>1. outbox[i].train \in Unsent /\ outbox[i].train \in Trains
    BY <1>1, UnsentTrains
  <2>2. outbox[i].train # t /\ outbox[i].train \notin overtaken
    BY <1>3, <2>1
  <2>3. outbox[i].status = Status(run, outbox[i].train, now)
    BY <2>2 DEF ClientsInv
  <2> QED
    BY <1>5, <2>1, <2>2, <2>3
<1>10. \A u \in overtaken' : u \in Unsent /\ told'[u] = Status(q, u, now)
  <2> SUFFICES ASSUME NEW u \in overtaken' PROVE u \in Unsent /\ told'[u] = Status(q, u, now)
    OBVIOUS
  <2>1. CASE u = t
    BY <1>2, <1>3, <2>1 DEF ClientsInv
  <2>2. CASE u # t
    <3>1. u \in overtaken /\ u \in Trains
      BY <1>1, <1>3, <2>2 DEF TwinTypeOK
    <3> QED
      BY <1>2, <1>5, <2>2, <3>1 DEF ClientsInv
  <2> QED
    BY <2>1, <2>2
<1>11. ASSUME NEW u \in Trains, q.emitted[u] # <<>>
       PROVE  u \in Unsent \/ u \in lost' \/ told'[u] = Status(q, u, now)
  BY <1>2, <1>3, <1>5, <1>11 DEF ClientsInv
<1>12. Emitted'
  BY <1>3, <1>7 DEF Emitted, q
<1> QED
  BY <1>3, <1>4, <1>8, <1>9, <1>10, <1>11, <1>12 DEF ClientsInv, q

\* Blocks and reassignments change no status.
LEMMA ClientsSame ==
    ASSUME TwinInv, ClientsInv, UNCHANGED <<now, outbox, told, overtaken, lost>>,
           run'.arr = run.arr, run'.dep = run.dep, run'.delay = run.delay,
           run'.emitted = run.emitted
    PROVE  ClientsInv'
<1> DEFINE q == run'
<1>1. \A t \in Trains : Status(q, t, now) = Status(run, t, now)
  <2> HIDE DEF q
  <2>1. q.arr = run.arr /\ q.dep = run.dep /\ q.delay = run.delay
    BY DEF q
  <2> QED
    BY <2>1, LocateSame
<1>2. TwinTypeOK
  BY DEF TwinInv
<1>3. Unsent' = Unsent /\ Emitted'
  BY <1>1 DEF Unsent, ClientsInv, Emitted
<1>4. \A i \in 1 .. Len(outbox) : outbox[i].train \in Trains
  BY <1>2, UnsentTrains
<1>5. overtaken \subseteq Trains
  BY <1>2 DEF TwinTypeOK
<1> QED
  BY <1>1, <1>3, <1>4, <1>5 DEF ClientsInv

LEMMA ClientsInvNext == TwinInv /\ ClientsInv /\ [Next]_vars => ClientsInv'
<1> SUFFICES ASSUME TwinInv, ClientsInv, [Next]_vars PROVE ClientsInv'
  OBVIOUS
<1>1. run \in RunStates
  BY DEF TwinInv, TwinTypeOK
<1>2. CASE Reset
  <2>1. /\ now' = Start /\ run' = Loaded /\ outbox' = <<>> /\ overtaken' = {}
    BY <1>2 DEF Reset
  <2>2. \A t \in Trains : run'.emitted[t] = <<>>
    BY <2>1, LoadedSound
  <2>3. ~(now' > Start)
    BY <2>1, ConstantTypes
  <2> QED
    BY <2>1, <2>2, <2>3 DEF ClientsInv, Emitted
<1>3. ASSUME NEW st \in Stations, NEW p \in Platforms, InjectBlock(st, p) PROVE ClientsInv'
  <2>1. /\ UNCHANGED <<now, outbox, told, overtaken, lost>>
        /\ run'.arr = run.arr /\ run'.dep = run.dep /\ run'.delay = run.delay
        /\ run'.emitted = run.emitted
    BY <1>1, <1>3 DEF InjectBlock, RunStates
  <2> QED
    BY <2>1, ClientsSame
<1>4. ASSUME NEW s \in Stops, NEW p \in Platforms, Reassign(s, p) PROVE ClientsInv'
  <2>1. /\ UNCHANGED <<now, outbox, told, overtaken, lost>>
        /\ run'.arr = run.arr /\ run'.dep = run.dep /\ run'.delay = run.delay
        /\ run'.emitted = run.emitted
    BY <1>1, <1>4 DEF Reassign, RunStates
  <2> QED
    BY <2>1, ClientsSame
<1>5. CASE UNCHANGED vars
  BY <1>5, ClientsSame DEF vars
<1> QED
  BY <1>2, <1>3, <1>4, <1>5, ClientsTick, ClientsPublish, ClientsCancel, ClientsDelay
  DEF Next, Disturbance

\* When a tick has published everything the clients know the status and delay of every
\* train, but for one whose event was cancelled or overtaken.
THEOREM ClientsKnow == Spec => []ClientsAgree
<1>1. TwinInv /\ ClientsInv => ClientsAgree
  <2> SUFFICES ASSUME TwinInv, ClientsInv, outbox = <<>>, now > Start, NEW t \in Trains \ lost
               PROVE  told[t] = Status(run, t, now)
    BY DEF ClientsAgree
  <2>1. Unsent = {}
    BY DEF Unsent
  <2> QED
    BY <2>1 DEF ClientsInv
<1> QED
  BY <1>1, TwinInvAlways, ClientsInvInit, ClientsInvNext, PTL DEF Spec
=============================================================================
