----------------------- MODULE PassengerSessions_proofs -----------------------
(***************************************************************************)
(* Proofs about AgentRuntime and PassengerSessions for any providers in    *)
(* any order, any number of runs, requests and sessions and all caps.      *)
(***************************************************************************)
EXTENDS PassengerSessions, FiniteSetTheorems, SequenceLemmas

\* What the next provider is chosen from has a first element.
LEMMA FirstOf ==
    ASSUME NEW n \in Nat, NEW S \in SUBSET (1 .. n), S # {}
    PROVE  Min(S) \in S /\ \A i \in S : Min(S) <= i
<1>1. S \in SUBSET Nat
  OBVIOUS
<1>2. \E m \in S : \A i \in S : m <= i
  BY <1>1, SmallestOf
<1> QED
  BY <1>2, Zenon DEF Min

LEMMA LesserOf ==
    ASSUME NEW a \in Nat, NEW b \in Nat
    PROVE  Min({a, b}) = IF a <= b THEN a ELSE b
<1> DEFINE m == IF a <= b THEN a ELSE b
<1>1. m \in {a, b} /\ \A y \in {a, b} : m =< y
  OBVIOUS
<1>2. \A x \in {a, b} : (\A y \in {a, b} : x =< y) => x = m
  OBVIOUS
<1> HIDE DEF m
<1>3. Min({a, b}) = m
  BY <1>1, <1>2 DEF Min
<1> QED
  BY <1>3 DEF m

\* The providers at the places c of an order, and those before a place.
Named(order, c) == {order[i] : i \in c}
NamedBefore(order, c, at) == Named(order, {i \in c : i < at})

\* Asking goes on: those refused so far are the ones before the next place, and all of them
\* when no place is left.
LEMMA AskedSoFar ==
    ASSUME NEW n \in Nat, NEW f, NEW C, C \subseteq 1 .. n, NEW at \in C,
           NEW later, later = {i \in C : i > at}
    PROVE  /\ later = {} => NamedBefore(f, C, at) \cup {f[at]} = Named(f, C)
           /\ later # {} => /\ Min(later) \in C
                            /\ NamedBefore(f, C, at) \cup {f[at]}
                                  = NamedBefore(f, C, Min(later))
<1> DEFINE before(k) == {f[i] : i \in {j \in C : j < k}}
<1>b. \A k : before(k) = NamedBefore(f, C, k)
  BY DEF NamedBefore, Named
<1>c. Named(f, C) = {f[i] : i \in C}
  BY DEF Named
<1>a. /\ \A i \in C : i \in Int
      /\ at \in Int
  OBVIOUS
<1>1. ASSUME later = {} PROVE before(at) \cup {f[at]} = {f[i] : i \in C}
  <2>1. \A j \in C : j < at \/ j = at
    BY <1>1, <1>a
  <2>2. C = {j \in C : j < at} \cup {at}
    BY <2>1, Zenon
  <2> QED
    BY <2>2
<1>2. ASSUME later # {}
      PROVE  Min(later) \in C /\ before(at) \cup {f[at]} = before(Min(later))
  <2>1. later \subseteq 1 .. n
    OBVIOUS
  <2>2. PICK m \in later : m = Min(later) /\ \A i \in later : m <= i
    BY <1>2, <2>1, FirstOf, Zenon
  <2>3. m \in C /\ m > at /\ m \in Int /\ \A i \in C : i > at => m <= i
    BY <1>a, <2>2
  <2>4. \A j \in C : j < m <=> (j < at \/ j = at)
    BY <1>a, <2>3
  <2>5. {j \in C : j < m} = {j \in C : j < at} \cup {at}
    BY <2>4, Zenon
  <2>6. before(m) = before(at) \cup {f[at]}
    BY <2>5
  <2> QED
    BY <2>2, <2>3, <2>6, Zenon
<1> HIDE DEF before
<1> QED
  BY <1>1, <1>2, <1>b, <1>c

\* Nobody is asked before the first place.
LEMMA NobodyBefore ==
    ASSUME NEW n \in Nat, NEW f, NEW C, C \subseteq 1 .. n, C # {}
    PROVE  Min(C) \in C /\ NamedBefore(f, C, Min(C)) = {}
<1>1. PICK m \in C : m = Min(C) /\ \A i \in C : m <= i
  BY FirstOf, Zenon
<1>2. \A j \in C : j \in Int /\ ~(j < m)
  BY <1>1
<1>3. {j \in C : j < m} = {}
  BY <1>2, Zenon
<1>4. NamedBefore(f, C, m) = {}
  BY <1>3 DEF NamedBefore, Named
<1> QED
  BY <1>1, <1>4, Zenon
-----------------------------------------------------------------------------
(* The runs of an agent. *)

\* A run q over the chain c has been refused by the providers before the one it asks, or,
\* when it ends with the template and the LLM is not off, by all of them.
RunSound(llm, c, q) ==
    /\ q.stage # "done" => q.answer = "none"
    /\ q.stage = "idle" => q.refused = {}
    /\ q.stage = "asking" =>
          c # NotBuilt /\ q.at \in c /\ q.refused = NamedBefore(Tier, c, q.at)
    /\ q.answer = "template" => llm = "off" \/ (c # NotBuilt /\ q.refused = Named(Tier, c))

RunsSound == \A r \in Runs : RunSound(settings.llm, chain, run[r])
RuntimeInv == RTypeOK /\ RunsSound

LEMMA PlacesInTier ==
    ASSUME RTypeOK
    PROVE  /\ Len(Tier) \in Nat /\ WithKey \subseteq 1 .. Len(Tier)
           /\ chain # NotBuilt => chain \in SUBSET WithKey /\ chain \in SUBSET (1 .. Len(Tier))
           /\ \A i \in 1 .. Len(Tier) : Tier[i] \in Providers
           /\ \A c \in SUBSET WithKey : c # NotBuilt
<1>1. Len(Tier) \in Nat /\ DOMAIN Tier = 1 .. Len(Tier)
  BY RuntimeAssumption
<1>2. \A i \in 1 .. Len(Tier) : Tier[i] \in Providers
  BY RuntimeAssumption
<1>3. WithKey \subseteq 1 .. Len(Tier)
  BY <1>1 DEF WithKey
<1>4. \A c \in SUBSET WithKey : c # NotBuilt
  <2>1. 0 \notin WithKey
    BY <1>1 DEF WithKey
  <2> QED
    BY <2>1 DEF NotBuilt
<1>5. chain # NotBuilt => chain \in SUBSET WithKey
  BY DEF RTypeOK
<1> QED
  BY <1>1, <1>2, <1>3, <1>4, <1>5

LEMMA RuntimeInit == RInit => RuntimeInv
<1> SUFFICES ASSUME RInit PROVE RuntimeInv
  OBVIOUS
<1>1. Len(Tier) \in Nat
  BY RuntimeAssumption
<1>2. \A r \in Runs : run[r] = NoRun
  BY DEF RInit
<1> QED
  BY <1>1, <1>2 DEF RInit, RuntimeInv, RunsSound, RTypeOK, RunSound, NoRun

LEMMA RuntimeStep ==
    ASSUME RuntimeInv, UNCHANGED settings, NEW r \in Runs, RNext(r)
    PROVE  RuntimeInv'
<1> DEFINE llm == settings.llm
           q == run[r]
           Records == [stage : {"idle", "asking", "done"}, at : 0 .. Len(Tier),
                       answer : {"none", "provider", "template"}, refused : SUBSET Providers]
<1>a. WithKey' = WithKey /\ UNCHANGED settings
  BY DEF WithKey
<1>b. /\ settings \in Settings
      /\ chain = NotBuilt \/ chain \in SUBSET WithKey
      /\ run \in [Runs -> Records]
  BY DEF RuntimeInv, RTypeOK
<1>c. q \in Records /\ q.at \in 0 .. Len(Tier) /\ q.refused \in SUBSET Providers
  BY <1>b
<1>d. \A x \in Runs : RunSound(llm, chain, run[x])
  BY DEF RuntimeInv, RunsSound
\* What a step of r has to keep: the other runs only see the chain, which a run that finds
\* none builds and which stays then.
<1>e. ASSUME chain = NotBuilt \/ chain' = chain, NEW n, run' = [run EXCEPT ![r] = n],
             RunSound(llm, chain', n), n \in Records,
             chain' = NotBuilt \/ chain' \in SUBSET WithKey
      PROVE  RuntimeInv'
  <2>1. ASSUME NEW x \in Runs PROVE RunSound(llm, chain', run'[x])
    <3>1. CASE x = r
      BY <1>b, <1>e, <3>1
    <3>2. CASE x # r
      <4>1. run'[x] = run[x] /\ RunSound(llm, chain, run[x])
        BY <1>b, <1>d, <1>e, <3>2
      <4>2. CASE chain' = chain
        BY <4>1, <4>2
      <4>3. CASE chain = NotBuilt
        BY <4>1, <4>3 DEF RunSound
      <4> QED
        BY <1>e, <4>2, <4>3
    <3> QED
      BY <3>1, <3>2
  <2> HIDE DEF Records
  <2>2. run' \in [Runs -> Records]
    BY <1>b, <1>e
  <2>3. settings' \in Settings /\ (chain' = NotBuilt \/ chain' \in SUBSET WithKey')
    <3>1. settings' \in Settings
      BY <1>a, <1>b
    <3>2. WithKey' = WithKey
      BY <1>a
    <3>3. chain' = NotBuilt \/ chain' \in SUBSET WithKey
      BY <1>e
    <3> QED
      BY <3>1, <3>2, <3>3, Zenon
  <2>4. RTypeOK'
    BY <2>2, <2>3 DEF RTypeOK, Records
  <2> QED
    BY <1>a, <2>1, <2>4 DEF RuntimeInv, RunsSound
<1>1. CASE Run(r)
  <2>0. q.stage = "idle" /\ q.refused = {} /\ q.answer = "none"
    BY <1>1, <1>d DEF Run, RunSound
  <2>1. CASE llm = "off"
    <3> DEFINE n == [q EXCEPT !.stage = "done", !.answer = "template"]
    <3>1. UNCHANGED chain /\ run' = [run EXCEPT ![r] = n]
      BY <1>1, <2>1 DEF Run, Ended
    <3>2. RunSound(llm, chain', n)
      <4>1. n.stage = "done" /\ n.answer = "template"
        BY <1>c
      <4> QED
        BY <2>1, <4>1 DEF RunSound
    <3>3. n \in Records
      BY <1>c
    <3> HIDE DEF n, Records
    <3> QED
      BY <1>b, <1>e, <3>1, <3>2, <3>3
  <2>2. CASE llm # "off"
    <3>1. PICK c \in Chains :
             /\ chain' = c
             /\ run' = [run EXCEPT ![r] =
                           IF c = {} THEN [q EXCEPT !.stage = "done", !.answer = "template"]
                           ELSE [q EXCEPT !.stage = "asking", !.at = Min(c)]]
      BY <1>1, <2>2 DEF Run, Ended
    <3>2. /\ c \in SUBSET WithKey /\ c \subseteq 1 .. Len(Tier) /\ Len(Tier) \in Nat
          /\ chain = NotBuilt \/ chain' = chain
          /\ c # NotBuilt
      BY <1>b, <3>1, PlacesInTier DEF Chains, RuntimeInv
    <3> DEFINE n == IF c = {} THEN [q EXCEPT !.stage = "done", !.answer = "template"]
                    ELSE [q EXCEPT !.stage = "asking", !.at = Min(c)]
    <3>3. c # {} => Min(c) \in c /\ NamedBefore(Tier, c, Min(c)) = {}
      BY <3>2, NobodyBefore
    <3>4. c # {} => Min(c) \in 0 .. Len(Tier)
      <4>1. \A i \in c : i \in 0 .. Len(Tier)
        BY <3>2
      <4> QED
        BY <3>3, <4>1, Zenon
    <3>5. RunSound(llm, c, n)
      <4>1. CASE c = {}
        <5>1. n.stage = "done" /\ n.refused = {} /\ Named(Tier, c) = {}
          BY <1>c, <2>0, <4>1 DEF Named
        <5> HIDE DEF n
        <5> QED
          BY <3>2, <5>1 DEF RunSound
      <4>2. CASE c # {}
        <5>1. n.stage = "asking" /\ n.at = Min(c) /\ n.refused = {} /\ n.answer = "none"
          BY <1>c, <2>0, <4>2
        <5> HIDE DEF n
        <5> QED
          BY <3>2, <3>3, <4>2, <5>1 DEF RunSound
      <4> QED
        BY <4>1, <4>2
    <3>6. n \in Records
      BY <1>c, <3>4
    <3>7. run' = [run EXCEPT ![r] = n]
      BY <3>1
    <3> HIDE DEF n, Records
    <3> QED
      BY <1>e, <3>1, <3>2, <3>5, <3>6, <3>7
  <2> QED
    BY <2>1, <2>2
<1>2. CASE Answers(r)
  <2> DEFINE n == [q EXCEPT !.stage = "done", !.answer = "provider"]
  <2>1. UNCHANGED chain /\ run' = [run EXCEPT ![r] = n]
    BY <1>2 DEF Answers, Ended
  <2>2. RunSound(llm, chain', n)
    <3>1. n.stage = "done" /\ n.answer = "provider"
      BY <1>c
    <3> QED
      BY <3>1 DEF RunSound
  <2>3. n \in Records
    BY <1>c
  <2> HIDE DEF n, Records
  <2> QED
    BY <1>b, <1>e, <2>1, <2>2, <2>3
<1>3. CASE Raises(r)
  <2> DEFINE refused == q.refused \cup {Tier[q.at]}
             n == IF Later(q.at) = {}
                  THEN [q EXCEPT !.stage = "done", !.answer = "template", !.refused = refused]
                  ELSE [q EXCEPT !.at = Min(Later(q.at)), !.refused = refused]
  <2>1. UNCHANGED chain /\ run' = [run EXCEPT ![r] = n]
    <3>1. Ended(Refused(r), "template")
             = [q EXCEPT !.stage = "done", !.answer = "template", !.refused = refused]
      BY <1>c DEF Ended, Refused
    <3>2. [Refused(r) EXCEPT !.at = Min(Later(q.at))]
             = [q EXCEPT !.at = Min(Later(q.at)), !.refused = refused]
      BY <1>c DEF Refused
    <3> QED
      BY <1>3, <3>1, <3>2 DEF Raises
  <2>2. /\ q.stage = "asking" /\ chain # NotBuilt /\ q.at \in chain /\ q.answer = "none"
        /\ q.refused = NamedBefore(Tier, chain, q.at)
    BY <1>3, <1>d DEF Raises, RunSound
  <2>3. chain \subseteq 1 .. Len(Tier) /\ Len(Tier) \in Nat
    BY <2>2, PlacesInTier DEF RuntimeInv
  <2>4. /\ Later(q.at) = {} => refused = Named(Tier, chain)
        /\ Later(q.at) # {} => /\ Min(Later(q.at)) \in chain
                               /\ refused = NamedBefore(Tier, chain, Min(Later(q.at)))
    <3> DEFINE at == q.at
    <3>1. at \in chain /\ refused = NamedBefore(Tier, chain, at) \cup {Tier[at]}
      BY <2>2
    <3> HIDE DEF at, refused
    <3>2. /\ Later(at) = {} => NamedBefore(Tier, chain, at) \cup {Tier[at]} = Named(Tier, chain)
          /\ Later(at) # {} =>
                /\ Min(Later(at)) \in chain
                /\ NamedBefore(Tier, chain, at) \cup {Tier[at]} = NamedBefore(Tier, chain, Min(Later(at)))
      BY <2>3, <3>1, AskedSoFar DEF Later
    <3> QED
      BY <3>1, <3>2 DEF at
  <2>5. refused \in SUBSET Providers
    BY <1>c, <2>2, <2>3, PlacesInTier DEF RuntimeInv
  <2>6. Later(q.at) # {} => Min(Later(q.at)) \in 0 .. Len(Tier)
    <3>1. \A i \in chain : i \in 0 .. Len(Tier)
      BY <2>3
    <3> QED
      BY <2>4, <3>1, Zenon
  <2> HIDE DEF refused
  <2>7. n \in Records
    BY <1>c, <2>5, <2>6
  <2>8. RunSound(llm, chain', n)
    <3>1. CASE Later(q.at) = {}
      <4>1. n.stage = "done" /\ n.refused = refused
        BY <1>c, <3>1
      <4> HIDE DEF n
      <4> QED
        BY <2>1, <2>2, <2>4, <3>1, <4>1 DEF RunSound
    <3>2. CASE Later(q.at) # {}
      <4>1. /\ n.stage = "asking" /\ n.at = Min(Later(q.at))
            /\ n.refused = refused /\ n.answer = "none"
        BY <1>c, <2>2, <3>2
      <4> HIDE DEF n
      <4> QED
        BY <2>1, <2>2, <2>4, <3>2, <4>1 DEF RunSound
    <3> QED
      BY <3>1, <3>2
  <2> HIDE DEF n, Records
  <2> QED
    BY <1>b, <1>e, <2>1, <2>7, <2>8
<1> QED
  BY <1>1, <1>2, <1>3 DEF RNext
-----------------------------------------------------------------------------
(* The session table. *)

\* The table's types, its caps, and that a session it does not hold has no turns.
TableOK(t) ==
    /\ t.order \in Seq(Sessions) /\ IsInjective(t.order) /\ Len(t.order) <= MaxSessions
    /\ t.turns \in [Sessions -> Seq(Turns)]
    /\ \A s \in Sessions : /\ Len(t.turns[s]) <= 2 * MaxTurns
                           /\ ~Contains(t.order, s) => t.turns[s] = <<>>

LEMMA Caps == MaxTurns \in Nat \ {0} /\ MaxSessions \in Nat \ {0}
BY SessionsAssumption

\* One turn more, and the oldest goes when there are too many.
LEMMA OneTurnMore ==
    ASSUME NEW v \in Seq(Turns), Len(v) <= 2 * MaxTurns, NEW u \in Turns
    PROVE  LET w == Trim(Append(v, u))
           IN  /\ w \in Seq(Turns)
               /\ Len(w) = IF Len(v) < 2 * MaxTurns THEN Len(v) + 1 ELSE 2 * MaxTurns
               /\ w[Len(w)] = u
               /\ \A j \in 1 .. Len(w) - 1 : w[j] = v[j + Len(v) + 1 - Len(w)]
<1> DEFINE x == Append(v, u)
           n == Len(v)
           M == 2 * MaxTurns
<1>1. /\ x \in Seq(Turns) /\ Len(x) = n + 1 /\ n \in Nat
      /\ \A i \in 1 .. n : x[i] = v[i]
      /\ x[n + 1] = u
  BY AppendOne
<1>2. M \in Nat \ {0, 1} /\ n <= M
  BY Caps
<1>3. CASE n < M
  <2>1. Trim(x) = x
    BY <1>1, <1>2, <1>3 DEF Trim
  <2> HIDE DEF x, n, M
  <2>2. \A j \in 1 .. Len(x) - 1 : x[j] = v[j + n + 1 - Len(x)]
    BY <1>1
  <2>3. Len(x) = n + 1 /\ x[Len(x)] = u
    BY <1>1
  <2> QED
    BY <1>1, <1>3, <2>1, <2>2, <2>3 DEF x, n, M
<1>4. CASE n = M
  <2> DEFINE w == Tail(x)
  <2>1. Trim(x) = w
    BY <1>1, <1>2, <1>4 DEF Trim
  <2>2. /\ w \in Seq(Turns) /\ Len(w) = Len(x) - 1
        /\ \A i \in 1 .. Len(x) - 1 : w[i] = x[i + 1]
    <3>1. x # <<>>
      BY <1>1
    <3> HIDE DEF x
    <3> QED
      BY <1>1, <3>1, TailShifts
  <2> HIDE DEF x, n, M, w
  <2>3. Len(w) = n
    BY <1>1, <2>2
  <2>4. n \in 1 .. Len(x) - 1 /\ w[n] = x[n + 1]
    BY <1>1, <1>2, <1>4, <2>2
  <2>5. ASSUME NEW j \in 1 .. n - 1 PROVE w[j] = v[j + n + 1 - n]
    <3>1. j + 1 \in 1 .. n /\ j \in 1 .. Len(x) - 1 /\ j + n + 1 - n = j + 1
      BY <1>1
    <3> QED
      BY <1>1, <2>2, <3>1
  <2> QED
    BY <1>1, <1>4, <2>1, <2>2, <2>3, <2>4, <2>5 DEF x, n, M
<1> QED
  BY <1>1, <1>2, <1>3, <1>4

\* Question and answer: both are there at the end, after what is kept of the rest.
EndsWithPair(w, v, u, a) ==
    /\ w \in Seq(Turns)
    /\ \E n, m \in Nat :
          /\ n = Len(w) /\ m = Len(v)
          /\ n = IF m + 2 <= 2 * MaxTurns THEN m + 2 ELSE 2 * MaxTurns
          /\ w[n] = a /\ w[n - 1] = u
          /\ \A j \in 1 .. n - 2 : w[j] = v[j + m + 2 - n]

LEMMA TwoTurnsMore ==
    ASSUME NEW v \in Seq(Turns), Len(v) <= 2 * MaxTurns, NEW u \in Turns, NEW a \in Turns
    PROVE  EndsWithPair(Trim(Append(Trim(Append(v, u)), a)), v, u, a)
<1> DEFINE x == Trim(Append(v, u))
           z == Trim(Append(x, a))
           M == 2 * MaxTurns
<1>1. M \in Nat \ {0, 1} /\ Len(v) \in Nat /\ Len(v) <= M
  BY Caps
<1>2. /\ x \in Seq(Turns) /\ Len(x) = IF Len(v) < M THEN Len(v) + 1 ELSE M
      /\ x[Len(x)] = u
      /\ \A j \in 1 .. Len(x) - 1 : x[j] = v[j + Len(v) + 1 - Len(x)]
  BY OneTurnMore
<1>3. Len(x) \in Nat \ {0} /\ Len(x) <= M
  BY <1>1, <1>2
<1>4. /\ z \in Seq(Turns) /\ Len(z) = IF Len(x) < M THEN Len(x) + 1 ELSE M
      /\ z[Len(z)] = a
      /\ \A j \in 1 .. Len(z) - 1 : z[j] = x[j + Len(x) + 1 - Len(z)]
  <2> HIDE DEF x
  <2> QED
    BY <1>2, <1>3, OneTurnMore
<1> HIDE DEF x, z, M
<1>5. Len(z) = IF Len(v) + 2 <= M THEN Len(v) + 2 ELSE M
  BY <1>1, <1>2, <1>4
<1>6. z[Len(z) - 1] = u
  <2>1. Len(z) - 1 \in 1 .. Len(z) - 1 /\ (Len(z) - 1) + Len(x) + 1 - Len(z) = Len(x)
    BY <1>1, <1>3, <1>5
  <2> QED
    BY <1>2, <1>4, <2>1
<1>7. ASSUME NEW j \in 1 .. Len(z) - 2 PROVE z[j] = v[j + Len(v) + 2 - Len(z)]
  <2> DEFINE k == j + Len(x) + 1 - Len(z)
  <2>1. /\ j \in 1 .. Len(z) - 1 /\ k \in 1 .. Len(x) - 1
        /\ k + Len(v) + 1 - Len(x) = j + Len(v) + 2 - Len(z)
    <3>1. Len(z) \in Nat /\ Len(x) \in Nat /\ Len(x) + 1 >= Len(z) /\ j \in Nat \ {0}
      BY <1>1, <1>3, <1>4, <1>5
    <3>2. j <= Len(z) - 2 /\ Len(v) \in Nat
      BY <1>1
    <3> QED
      BY <3>1, <3>2
  <2>2. z[j] = x[k]
    BY <1>4, <2>1
  <2> HIDE DEF k
  <2>3. x[k] = v[k + Len(v) + 1 - Len(x)]
    BY <1>2, <2>1
  <2> QED
    BY <2>1, <2>2, <2>3
<1>8. /\ z \in Seq(Turns)
      /\ \E n, m \in Nat :
            /\ n = Len(z) /\ m = Len(v)
            /\ n = IF m + 2 <= 2 * MaxTurns THEN m + 2 ELSE 2 * MaxTurns
            /\ z[n] = a /\ z[n - 1] = u
            /\ \A j \in 1 .. n - 2 : z[j] = v[j + m + 2 - n]
  <2>1. Len(z) \in Nat /\ Len(v) \in Nat
    BY <1>1, <1>5
  <2>2. Len(z) = IF Len(v) + 2 <= 2 * MaxTurns THEN Len(v) + 2 ELSE 2 * MaxTurns
    BY <1>5 DEF M
  <2> QED
    BY <1>4, <1>6, <1>7, <2>1, <2>2, Zenon
<1>9. EndsWithPair(z, v, u, a)
  BY <1>8 DEF EndsWithPair
<1> QED
  BY <1>9 DEF z, x

\* A session enters at the end of the table, and takes the place of the oldest one when the
\* table is full; each of the two calls of _remember adds its turn.
Entered(t, s) ==
    IF Contains(t.order, s) THEN t.order
    ELSE IF Len(t.order) < MaxSessions THEN Append(t.order, s) ELSE Tail(Append(t.order, s))
Leaves(t, s, x) == /\ ~Contains(t.order, s) /\ Len(t.order) = MaxSessions
                   /\ x = Head(t.order)
TurnsAfter(t, s, u, a) ==
    [x \in Sessions |-> IF x = s THEN Trim(Append(Trim(Append(t.turns[s], u)), a))
                       ELSE IF Leaves(t, s, x) THEN <<>> ELSE t.turns[x]]

\* The order of the table with a new session in it.
LEMMA EnteredOrder ==
    ASSUME NEW t, TableOK(t), NEW s \in Sessions
    PROVE  LET o == Entered(t, s)
               gone == Len(t.order) + 1 - Len(o)
           IN  /\ o \in Seq(Sessions) /\ IsInjective(o) /\ Len(o) <= MaxSessions
               /\ Contains(o, s) /\ Len(t.order) \in Nat /\ Len(o) \in Nat \ {0}
               /\ ~Contains(t.order, s) =>
                     /\ gone = IF Len(t.order) < MaxSessions THEN 0 ELSE 1
                     /\ o[Len(o)] = s
                     /\ \A p \in 1 .. Len(o) - 1 : o[p] = t.order[p + gone]
               /\ Len(t.order) = MaxSessions => Head(t.order) = t.order[1]
<1> DEFINE old == t.order
           n == Len(old)
           x == Append(old, s)
           o == Entered(t, s)
<1>1. /\ old \in Seq(Sessions) /\ n \in Nat /\ n <= MaxSessions /\ DOMAIN old = 1 .. n
      /\ \A i, j \in 1 .. n : old[i] = old[j] => i = j
  BY DEF TableOK, IsInjective
<1>2. /\ x \in Seq(Sessions) /\ Len(x) = n + 1 /\ x[n + 1] = s
      /\ \A i \in 1 .. n : x[i] = old[i]
  BY <1>1, AppendOne
<1>3. MaxSessions \in Nat \ {0}
  BY Caps
<1>4. n = MaxSessions => Head(old) = old[1]
  BY <1>1, <1>3
<1>5. CASE Contains(old, s)
  <2>1. o = old
    BY <1>5 DEF Entered
  <2>2. n # 0
    BY <1>1, <1>5 DEF Contains
  <2>3. IsInjective(old)
    BY DEF TableOK
  <2> HIDE DEF o
  <2> QED
    BY <1>1, <1>4, <1>5, <2>1, <2>2, <2>3 DEF o
<1>6. CASE ~Contains(old, s)
  <2>0. \A i \in 1 .. n : old[i] # s
    BY <1>6 DEF Contains
  <2>1. \A i, j \in 1 .. n + 1 : x[i] = x[j] => i = j
    <3> HIDE DEF x
    <3> TAKE i, j \in 1 .. n + 1
    <3>1. (i \in 1 .. n \/ i = n + 1) /\ (j \in 1 .. n \/ j = n + 1)
      BY <1>1
    <3> QED
      BY <1>1, <1>2, <2>0, <3>1
  <2>2. CASE n < MaxSessions
    <3>1. o = x
      BY <1>6, <2>2 DEF Entered
    <3>2. IsInjective(x) /\ Contains(x, s)
      <4>1. DOMAIN x = 1 .. n + 1 /\ n + 1 \in 1 .. Len(x)
        BY <1>1, <1>2
      <4> HIDE DEF x
      <4> QED
        BY <1>2, <2>1, <4>1 DEF IsInjective, Contains
    <3> HIDE DEF x, o
    <3> DEFINE gone == n + 1 - Len(o)
    <3>3. gone = 0 /\ Len(o) = n + 1 /\ n + 1 <= MaxSessions
      BY <1>1, <1>2, <1>3, <2>2, <3>1
    <3>4. o[Len(o)] = s /\ \A p \in 1 .. Len(o) - 1 : o[p] = old[p + gone]
      BY <1>1, <1>2, <3>1, <3>3
    <3> HIDE DEF gone
    <3> QED
      BY <1>1, <1>2, <1>3, <1>4, <1>6, <2>2, <3>1, <3>2, <3>3, <3>4 DEF o, gone
  <2>3. CASE n = MaxSessions
    <3> DEFINE w == Tail(x)
    <3>1. o = w
      BY <1>1, <1>3, <1>6, <2>3 DEF Entered
    <3>2. w \in Seq(Sessions) /\ Len(w) = Len(x) - 1
          /\ \A i \in 1 .. Len(x) - 1 : w[i] = x[i + 1]
      <4>1. x # <<>>
        BY <1>1, <1>2
      <4> HIDE DEF x
      <4> QED
        BY <1>2, <4>1, TailShifts
    <3> HIDE DEF x, w, o
    <3>3. Len(w) = n /\ DOMAIN w = 1 .. n /\ n \in Nat \ {0}
      BY <1>1, <1>2, <1>3, <2>3, <3>2
    <3>4. \A i \in 1 .. n : w[i] = x[i + 1] /\ i + 1 \in 1 .. n + 1
      BY <1>2, <3>2, <3>3
    <3>5. IsInjective(w)
      <4> SUFFICES ASSUME NEW i \in 1 .. n, NEW j \in 1 .. n, w[i] = w[j] PROVE i = j
        BY <3>3 DEF IsInjective
      <4>1. i + 1 = j + 1
        BY <2>1, <3>4
      <4> QED
        BY <4>1
    <3>6. w[n] = s /\ Contains(w, s)
      <4>1. n \in 1 .. n /\ w[n] = s
        BY <1>2, <3>3, <3>4
      <4> QED
        BY <3>3, <4>1 DEF Contains
    <3> DEFINE gone == n + 1 - Len(w)
    <3>7. gone = 1 /\ \A p \in 1 .. n - 1 : w[p] = old[p + gone]
      <4>1. gone = 1
        BY <3>3
      <4> HIDE DEF gone
      <4>2. ASSUME NEW p \in 1 .. n - 1 PROVE w[p] = old[p + 1]
        <5>1. p \in 1 .. n /\ p + 1 \in 1 .. n
          BY <3>3
        <5> QED
          BY <1>2, <3>4, <5>1
      <4> QED
        BY <4>1, <4>2
    <3> HIDE DEF gone
    <3> QED
      BY <1>1, <1>3, <1>4, <1>6, <2>3, <3>1, <3>2, <3>3, <3>5, <3>6, <3>7 DEF o, gone
  <2> QED
    BY <1>1, <1>3, <2>2, <2>3
<1> QED
  BY <1>5, <1>6

\* A call of _remember while there is room, or for a session that is in the table.
LEMMA RememberedPlainly ==
    ASSUME NEW t, NEW s, NEW u, Contains(t.order, s) \/ Len(t.order) < MaxSessions,
           t.order \in Seq(Sessions), s \in Sessions, Len(t.order) <= MaxSessions
    PROVE  Remember(t, s, u) =
              [order |-> IF Contains(t.order, s) THEN t.order ELSE Append(t.order, s),
               turns |-> [t.turns EXCEPT ![s] = Trim(Append(@, u))]]
<1> DEFINE o == IF Contains(t.order, s) THEN t.order ELSE Append(t.order, s)
           m == [order |-> o, turns |-> [t.turns EXCEPT ![s] = Trim(Append(@, u))]]
<1>1. MaxSessions \in Nat
  BY Caps
<1>2. Len(o) <= MaxSessions
  BY <1>1
<1>3. m.order = o
  OBVIOUS
<1>4. Remember(t, s, u) = Evicted(m)
  BY DEF Remember
<1> HIDE DEF m, o
<1>5. Evicted(m) = m
  BY <1>2, <1>3 DEF Evicted
<1> QED
  BY <1>4, <1>5 DEF m, o

\* Both calls of _remember.
LEMMA Remembered ==
    ASSUME NEW t, TableOK(t), NEW s \in Sessions, NEW u, NEW a
    PROVE  Remember(Remember(t, s, u), s, a)
              = [order |-> Entered(t, s), turns |-> TurnsAfter(t, s, u, a)]
<1> DEFINE one == Remember(t, s, u)
           w == Trim(Append(t.turns[s], u))
           o == Entered(t, s)
<1>1. /\ t.order \in Seq(Sessions) /\ Len(t.order) <= MaxSessions /\ Len(t.order) \in Nat
      /\ t.turns \in [Sessions -> Seq(Turns)]
  BY DEF TableOK
<1>2. o \in Seq(Sessions) /\ Len(o) <= MaxSessions /\ Contains(o, s) /\ MaxSessions \in Nat \ {0}
  BY EnteredOrder, Caps
<1>3. /\ one.order = o
      /\ one.turns = [x \in Sessions |-> IF x = s THEN w
                                         ELSE IF Leaves(t, s, x) THEN <<>> ELSE t.turns[x]]
  <2>1. CASE Contains(t.order, s) \/ Len(t.order) < MaxSessions
    <3>1. one = [order |-> IF Contains(t.order, s) THEN t.order ELSE Append(t.order, s),
                 turns |-> [t.turns EXCEPT ![s] = w]]
      BY <1>1, <2>1, RememberedPlainly
    <3>2. o = IF Contains(t.order, s) THEN t.order ELSE Append(t.order, s)
      BY <2>1 DEF Entered
    <3>3. \A x : ~Leaves(t, s, x)
      BY <1>1, <1>2, <2>1 DEF Leaves
    <3> HIDE DEF one, o, w
    <3> QED
      BY <1>1, <3>1, <3>2, <3>3
  <2>2. CASE ~Contains(t.order, s) /\ Len(t.order) = MaxSessions
    <3> DEFINE m == [order |-> Append(t.order, s), turns |-> [t.turns EXCEPT ![s] = w]]
    <3>1. one = Evicted(m)
      BY <2>2 DEF Remember
    <3>2. Len(m.order) = MaxSessions + 1 /\ m.order = Append(t.order, s)
      BY <1>1, <2>2
    <3>3. one = [order |-> Tail(m.order), turns |-> [m.turns EXCEPT ![Head(m.order)] = <<>>]]
      <4>1. ~(Len(m.order) <= MaxSessions)
        BY <1>2, <3>2
      <4> HIDE DEF m, one
      <4>2. Evicted(m) = [order |-> Tail(m.order),
                          turns |-> [m.turns EXCEPT ![Head(m.order)] = <<>>]]
        BY <4>1, Zenon DEF Evicted
      <4> QED
        BY <3>1, <4>2, Zenon
    <3>4. Head(m.order) = Head(t.order) /\ Head(t.order) # s /\ Head(t.order) \in Sessions
      <4>1. Head(t.order) = t.order[1] /\ 1 \in 1 .. Len(t.order)
        BY <1>1, <1>2, <2>2
      <4>2. Head(Append(t.order, s)) = t.order[1]
        BY <1>1, <4>1
      <4>3. t.order[1] # s /\ t.order[1] \in Sessions
        BY <1>1, <2>2, <4>1 DEF Contains
      <4> QED
        BY <3>2, <4>1, <4>2, <4>3
    <3>5. o = Tail(m.order)
      BY <1>2, <2>2, <3>2 DEF Entered
    <3>6. \A x : Leaves(t, s, x) <=> x = Head(t.order)
      BY <2>2 DEF Leaves
    <3>7. m.turns = [t.turns EXCEPT ![s] = w]
      OBVIOUS
    <3> HIDE DEF one, o, w, m
    <3>8. [m.turns EXCEPT ![Head(m.order)] = <<>>]
             = [x \in Sessions |-> IF x = s THEN w
                                  ELSE IF Leaves(t, s, x) THEN <<>> ELSE t.turns[x]]
      BY <1>1, <3>4, <3>6, <3>7
    <3> QED
      BY <3>3, <3>5, <3>8
  <2> QED
    BY <1>1, <1>2, <2>1, <2>2
<1>4. Remember(one, s, a) = [order |-> o, turns |-> [one.turns EXCEPT ![s] = Trim(Append(@, a))]]
  <2> HIDE DEF one, o
  <2> QED
    BY <1>2, <1>3, RememberedPlainly
<1> HIDE DEF one, o
<1>5. [one.turns EXCEPT ![s] = Trim(Append(@, a))] = TurnsAfter(t, s, u, a)
  BY <1>1, <1>3 DEF TurnsAfter
<1> QED
  BY <1>4, <1>5 DEF one, o

\* Who is in the table and then no more is the oldest of a full one.
LEMMA WhoLeaves ==
    ASSUME NEW t, TableOK(t), NEW s \in Sessions, NEW x \in Sessions,
           Contains(t.order, x), ~Contains(Entered(t, s), x)
    PROVE  Leaves(t, s, x)
<1> DEFINE o == Entered(t, s)
<1>a. /\ ~Contains(o, x) /\ Len(o) \in Nat /\ Len(t.order) \in Nat
      /\ ~Contains(t.order, s) => \A p \in 1 .. Len(o) - 1 :
             o[p] = t.order[p + (Len(t.order) + 1 - Len(o))]
  BY EnteredOrder
<1> HIDE DEF o
<1>0. ~Contains(t.order, s)
  BY <1>a DEF Entered, o
<1>1. PICK p \in 1 .. Len(t.order) : t.order[p] = x
  BY DEF Contains
<1>2. CASE Len(t.order) < MaxSessions
  <2>1. o = Append(t.order, s) /\ t.order \in Seq(Sessions)
    BY <1>0, <1>2 DEF Entered, o, TableOK
  <2>2. Len(o) = Len(t.order) + 1 /\ o[p] = x
    BY <1>1, <2>1
  <2>3. p \in 1 .. Len(o)
    BY <1>a, <2>2
  <2> QED
    BY <1>a, <2>2, <2>3 DEF Contains
<1>3. CASE Len(t.order) = MaxSessions
  <2>1. Len(o) = Len(t.order) /\ Head(t.order) = t.order[1]
    <3>1. Len(t.order) + 1 - Len(o) = 1
      <4>1. Len(t.order) + 1 - Len(o) = IF Len(t.order) < MaxSessions THEN 0 ELSE 1
        BY <1>0, EnteredOrder DEF o
      <4>2. ~(Len(t.order) < MaxSessions)
        BY <1>3, Caps
      <4> QED
        BY <4>1, <4>2
    <3> QED
      BY <1>a, <1>3, <3>1, EnteredOrder
  <2>2. CASE p = 1
    BY <1>0, <1>1, <1>3, <2>1, <2>2 DEF Leaves
  <2>3. CASE p # 1
    <3>1. /\ p - 1 \in 1 .. Len(o) - 1 /\ p - 1 \in 1 .. Len(o)
          /\ (p - 1) + (Len(t.order) + 1 - Len(o)) = p
      BY <1>a, <2>1, <2>3
    <3>2. o[p - 1] = x
      BY <1>a, <1>0, <1>1, <3>1
    <3> QED
      BY <1>a, <3>1, <3>2 DEF Contains
  <2> QED
    BY <2>2, <2>3
<1>4. Len(t.order) <= MaxSessions /\ MaxSessions \in Nat
  BY Caps DEF TableOK
<1> QED
  BY <1>a, <1>2, <1>3, <1>4

LEMMA TableStays ==
    ASSUME NEW t, TableOK(t), NEW s \in Sessions, NEW u \in Turns, NEW a \in Turns
    PROVE  TableOK([order |-> Entered(t, s), turns |-> TurnsAfter(t, s, u, a)])
<1> DEFINE o == Entered(t, s)
           w == Trim(Append(Trim(Append(t.turns[s], u)), a))
           after == TurnsAfter(t, s, u, a)
           m == [order |-> o, turns |-> after]
<1>1. t.turns \in [Sessions -> Seq(Turns)] /\ \A x \in Sessions : Len(t.turns[x]) <= 2 * MaxTurns
  BY DEF TableOK
<1>2. w \in Seq(Turns) /\ Len(w) <= 2 * MaxTurns
  <2> DEFINE v == t.turns[s]
  <2>1. v \in Seq(Turns) /\ Len(v) <= 2 * MaxTurns
    BY <1>1
  <2> HIDE DEF v
  <2> DEFINE z == Trim(Append(Trim(Append(v, u)), a))
  <2> HIDE DEF z
  <2>2. /\ z \in Seq(Turns)
        /\ \E n, k \in Nat :
              n = Len(z) /\ n = IF k + 2 <= 2 * MaxTurns THEN k + 2 ELSE 2 * MaxTurns
    <3>1. EndsWithPair(z, v, u, a)
      BY <2>1, TwoTurnsMore, Zenon DEF z
    <3> QED
      BY <3>1 DEF EndsWithPair
  <2>3. Len(z) <= 2 * MaxTurns
    BY <2>2, Caps
  <2> QED
    BY <2>2, <2>3 DEF v, z
<1>3. /\ o \in Seq(Sessions) /\ IsInjective(o) /\ Len(o) <= MaxSessions /\ Contains(o, s)
      /\ Len(o) \in Nat /\ Len(t.order) \in Nat
      /\ ~Contains(t.order, s) => \A p \in 1 .. Len(o) - 1 :
             o[p] = t.order[p + (Len(t.order) + 1 - Len(o))]
  BY EnteredOrder
<1> HIDE DEF o, w
<1>4. after = [x \in Sessions |-> IF x = s THEN w ELSE IF Leaves(t, s, x) THEN <<>> ELSE t.turns[x]]
  BY DEF TurnsAfter, w
<1> HIDE DEF after
<1>5. after \in [Sessions -> Seq(Turns)]
  <2>1. <<>> \in Seq(Turns)
    OBVIOUS
  <2> QED
    BY <1>1, <1>2, <1>4, <2>1
<1>6. ASSUME NEW x \in Sessions PROVE Len(after[x]) <= 2 * MaxTurns
  <2>1. Len(<<>>) = 0 /\ 0 <= 2 * MaxTurns
    BY Caps
  <2>2. CASE x = s
    BY <1>2, <1>4, <2>2
  <2>3. CASE x # s
    <3>1. after[x] = <<>> \/ after[x] = t.turns[x]
      BY <1>4, <2>3
    <3> QED
      BY <1>1, <2>1, <3>1
  <2> QED
    BY <2>2, <2>3
<1>7. ASSUME NEW x \in Sessions, ~Contains(o, x) PROVE after[x] = <<>>
  <2>1. x # s
    BY <1>3, <1>7
  <2>2. CASE ~Contains(t.order, x)
    <3>1. t.turns[x] = <<>>
      BY <2>2 DEF TableOK
    <3> QED
      BY <1>4, <2>1, <3>1
  <2>3. CASE Contains(t.order, x)
    <3>1. Leaves(t, s, x)
      BY <1>7, <2>1, <2>3, WhoLeaves DEF o
    <3> QED
      BY <1>4, <2>1, <3>1
  <2> QED
    BY <2>2, <2>3
<1>8. m.order = o /\ m.turns = after
  OBVIOUS
<1> HIDE DEF m
<1>9. TableOK(m)
  BY <1>3, <1>5, <1>6, <1>7, <1>8 DEF TableOK
<1> QED
  BY <1>9 DEF m, o, after
-----------------------------------------------------------------------------
(* What a session remembers. *)

SaidRecords == [of : Requests, session : Sessions, new : BOOLEAN]

LEMMA CountOneMore ==
    ASSUME NEW n \in Nat, NEW A, A \subseteq 1 .. n
    PROVE  /\ IsFiniteSet(A) /\ Cardinality(A) \in Nat
           /\ Cardinality(A \cup {n + 1}) = Cardinality(A) + 1
<1>1. IsFiniteSet(1 .. n)
  BY FS_Interval
<1>2. IsFiniteSet(A)
  BY <1>1, FS_Subset
<1>3. n + 1 \notin A
  OBVIOUS
<1>4. Cardinality(A \cup {n + 1}) = Cardinality(A) + 1
  BY <1>2, <1>3, FS_AddElement
<1> QED
  BY <1>2, <1>4, FS_CardinalityType

LEMMA SaidPlaces ==
    ASSUME said \in Seq(SaidRecords), NEW s
    PROVE  /\ Len(said) \in Nat /\ DOMAIN said = 1 .. Len(said)
           /\ Births(s) \subseteq 1 .. Len(said) /\ Younger(s) \subseteq 1 .. Len(said)
           /\ Answered(s) \subseteq 1 .. Len(said)
           /\ \A i : {j \in Answered(s) : j >= i} \subseteq 1 .. Len(said)
<1>1. Len(said) \in Nat /\ DOMAIN said = 1 .. Len(said)
  OBVIOUS
<1>2. Answered(s) \subseteq 1 .. Len(said)
  BY <1>1 DEF Answered
<1> QED
  BY <1>1, <1>2 DEF Births, Younger

\* An answer that creates session s.
LEMMA SaidAnew ==
    ASSUME said \in Seq(SaidRecords), NEW x \in SaidRecords, said' = Append(said, x),
           NEW s \in Sessions, x.session = s, x.new
    PROVE  /\ Births(s)' # {} /\ Max(Births(s)') \in Births(s)' /\ Younger(s)' = {}
           /\ Answered(s)' = {Len(said) + 1} /\ said'[Len(said) + 1] = x
<1> DEFINE n == Len(said)
<1>1. /\ n \in Nat /\ DOMAIN said = 1 .. n /\ DOMAIN said' = 1 .. n + 1
      /\ said'[n + 1] = x /\ \A i \in 1 .. n : said'[i] = said[i]
  BY AppendOne
<1> HIDE DEF n
<1>2. Births(s)' = {i \in 1 .. n + 1 : said'[i].session = s /\ said'[i].new}
  BY <1>1 DEF Births
<1>3. n + 1 \in Births(s)' /\ \A i \in Births(s)' : i \in Int /\ n + 1 >= i
  BY <1>1, <1>2
<1>4. Max(Births(s)') = n + 1
  <2> DEFINE B == Births(s)'
  <2>1. n + 1 \in B /\ \A i \in B : i \in Int /\ n + 1 >= i
    BY <1>3
  <2> HIDE DEF B
  <2>2. \A y \in B : (\A i \in B : y >= i) => y = n + 1
    BY <1>1, <2>1
  <2>3. Max(B) = n + 1
    BY <2>1, <2>2 DEF Max
  <2> QED
    BY <2>3 DEF B
<1>5. Younger(s)' = {}
  BY <1>1, <1>4 DEF Younger
<1>6. Answered(s)' = {n + 1}
  BY <1>1, <1>4 DEF Answered
<1> QED
  BY <1>1, <1>3, <1>4, <1>5, <1>6 DEF n

\* An answer that does not create session s.
LEMMA SaidOn ==
    ASSUME said \in Seq(SaidRecords), NEW x \in SaidRecords, said' = Append(said, x),
           NEW s \in Sessions, ~(x.session = s /\ x.new)
    PROVE  /\ Births(s)' = Births(s)
           /\ \A i \in 1 .. Len(said) : said'[i] = said[i]
           /\ said'[Len(said) + 1] = x
           /\ Births(s) # {} /\ Max(Births(s)) \in Births(s) =>
                 /\ Younger(s)' = Younger(s) \cup IF x.new THEN {Len(said) + 1} ELSE {}
                 /\ Answered(s)' = Answered(s) \cup IF x.session = s THEN {Len(said) + 1} ELSE {}
<1> DEFINE n == Len(said)
           new == IF x.new THEN {n + 1} ELSE {}
           mine == IF x.session = s THEN {n + 1} ELSE {}
<1>1. /\ n \in Nat /\ DOMAIN said = 1 .. n /\ DOMAIN said' = 1 .. n + 1
      /\ said'[n + 1] = x /\ \A i \in 1 .. n : said'[i] = said[i]
  BY AppendOne
<1> HIDE DEF n
<1>2. Births(s)' = Births(s)
  <2>1. Births(s)' = {i \in 1 .. n + 1 : said'[i].session = s /\ said'[i].new}
    BY <1>1 DEF Births
  <2>2. Births(s) = {i \in 1 .. n : said[i].session = s /\ said[i].new}
    BY <1>1 DEF Births
  <2>3. \A i \in 1 .. n + 1 : i \in 1 .. n \/ i = n + 1
    BY <1>1
  <2>4. \A i \in 1 .. n : i \in 1 .. n + 1
    BY <1>1
  <2> QED
    BY <1>1, <2>1, <2>2, <2>3, <2>4
<1>3. ASSUME Births(s) # {}, Max(Births(s)) \in Births(s)
      PROVE  Younger(s)' = Younger(s) \cup new /\ Answered(s)' = Answered(s) \cup mine
  <2> DEFINE b == Max(Births(s))
  <2>1. b \in 1 .. n /\ Max(Births(s)') = b
    BY <1>1, <1>2, <1>3 DEF Births
  <2> HIDE DEF b
  <2>2. /\ Younger(s)' = {i \in 1 .. n + 1 : said'[i].new /\ i > b}
        /\ Answered(s)' = {i \in 1 .. n + 1 : said'[i].session = s /\ i >= b}
    BY <1>1, <2>1 DEF Younger, Answered
  <2>3. /\ Younger(s) = {i \in 1 .. n : said[i].new /\ i > b}
        /\ Answered(s) = {i \in 1 .. n : said[i].session = s /\ i >= b}
    BY <1>1 DEF Younger, Answered, b
  <2>4. /\ \A i \in 1 .. n + 1 : i \in 1 .. n \/ i = n + 1
        /\ \A i \in 1 .. n : i \in 1 .. n + 1
        /\ n + 1 \in 1 .. n + 1 /\ n + 1 > b /\ n + 1 >= b
    BY <1>1, <2>1
  <2>5. Younger(s)' = Younger(s) \cup new
    BY <1>1, <2>2, <2>3, <2>4
  <2>6. Answered(s)' = Answered(s) \cup mine
    BY <1>1, <2>2, <2>3, <2>4
  <2> QED
    BY <2>5, <2>6
<1> QED
  BY <1>1, <1>2, <1>3 DEF n

\* A session of the table holds the last MaxTurns pairs of those answered in it.
Recalls(s) ==
    LET v == table.turns[s]
    IN  /\ Len(v) = 2 * Min({Cardinality(Answered(s)), MaxTurns})
        /\ \A i \in Answered(s) :
              FromEnd(s, i) <= MaxTurns => PairIs(v, FromEnd(s, i), said[i].of)

\* Its place in the table tells how many are younger; one that was created and is no more
\* in the table has MaxSessions younger ones.
SessionSound(s) ==
    /\ Births(s) # {} => Max(Births(s)) \in Births(s)
    /\ ~Contains(table.order, s) /\ Births(s) # {} => Cardinality(Younger(s)) >= MaxSessions
    /\ \A p \in 1 .. Len(table.order) : table.order[p] = s =>
          Births(s) # {} /\ Cardinality(Younger(s)) = Len(table.order) - p
    /\ Contains(table.order, s) => Recalls(s)

SessionsInv == /\ TableOK(table) /\ said \in Seq(SaidRecords)
               /\ \A s \in Sessions : SessionSound(s)

LEMMA SessionsInit == SInit => SessionsInv
<1> SUFFICES ASSUME SInit PROVE SessionsInv
  OBVIOUS
<1>1. table = [order |-> <<>>, turns |-> [s \in Sessions |-> <<>>]] /\ said = <<>>
  BY DEF SInit
<1>2. table.order = <<>> /\ table.turns = [s \in Sessions |-> <<>>]
  BY <1>1
<1>3. \A s : ~Contains(table.order, s)
  BY <1>2 DEF Contains
<1>4. TableOK(table)
  BY <1>2, Caps DEF TableOK, IsInjective
<1>5. \A s : Births(s) = {}
  BY <1>1 DEF Births
<1>6. \A s \in Sessions : SessionSound(s)
  BY <1>2, <1>3, <1>5 DEF SessionSound
<1> QED
  BY <1>1, <1>4, <1>6 DEF SessionsInv

\* A pair more: each pair that stays is one further from the end.
LEMMA RecallsOn ==
    ASSUME SessionsInv, NEW s \in Sessions, Contains(table.order, s),
           NEW u \in Turns, NEW a \in Turns, NEW x \in SaidRecords,
           x.session = s, ~x.new, said' = Append(said, x),
           u = [role |-> "user", of |-> x.of], a = [role |-> "assistant", of |-> x.of],
           table'.turns[s] = Trim(Append(Trim(Append(table.turns[s], u)), a))
    PROVE  Recalls(s)'
<1> DEFINE n == Len(said)
           v == table.turns[s]
           w == Trim(Append(Trim(Append(v, u)), a))
           A == Answered(s)
           c == Cardinality(A)
           M == MaxTurns
<1>1. TableOK(table) /\ said \in Seq(SaidRecords) /\ SessionSound(s)
  BY DEF SessionsInv
<1>2. Births(s) # {} /\ Max(Births(s)) \in Births(s)
  BY <1>1 DEF SessionSound, Contains
<1>3. /\ n \in Nat /\ A \subseteq 1 .. n /\ Answered(s)' = A \cup {n + 1}
      /\ said'[n + 1] = x /\ \A i \in 1 .. n : said'[i] = said[i]
  BY <1>1, <1>2, SaidOn, SaidPlaces
<1>4. c \in Nat /\ Cardinality(A \cup {n + 1}) = c + 1 /\ M \in Nat \ {0}
  BY <1>3, CountOneMore, Caps
<1>5. /\ Len(v) = 2 * Min({c, M})
      /\ \A i \in A : FromEnd(s, i) <= M => PairIs(v, FromEnd(s, i), said[i].of)
  BY <1>1 DEF SessionSound, Recalls
<1>6. v \in Seq(Turns) /\ Len(v) <= 2 * M
  BY <1>1 DEF TableOK
<1>7. PICK lw, lv \in Nat :
         /\ lw = Len(w) /\ lv = Len(v)
         /\ lw = IF lv + 2 <= 2 * M THEN lv + 2 ELSE 2 * M
         /\ w[lw] = a /\ w[lw - 1] = u
         /\ \A j \in 1 .. lw - 2 : w[j] = v[j + lv + 2 - lw]
  <2>1. v \in Seq(Turns) /\ Len(v) <= 2 * MaxTurns
    BY <1>6
  <2> HIDE DEF v, w
  <2>2. EndsWithPair(w, v, u, a)
    BY <2>1, TwoTurnsMore, Zenon DEF w
  <2> QED
    BY <2>2 DEF EndsWithPair
<1>8. w = table'.turns[s]
  OBVIOUS
<1> HIDE DEF n, v, w, A, c
<1>9. /\ Min({c, M}) = IF c <= M THEN c ELSE M
      /\ Min({c + 1, M}) = IF c + 1 <= M THEN c + 1 ELSE M
  BY <1>4, LesserOf
<1>10. lw = 2 * Min({c + 1, M}) /\ lv = 2 * Min({c, M})
  BY <1>4, <1>5, <1>7, <1>9
\* How far answer i was from the end, and is now.
<1>11. ASSUME NEW i \in A
       PROVE  FromEnd(s, i) \in 1 .. c /\ FromEnd(s, i)' = FromEnd(s, i) + 1
  <2> DEFINE R == {j \in A : j >= i}
  <2>0. i \in 1 .. n
    BY <1>3
  <2>1. R \subseteq 1 .. n /\ R \subseteq A /\ i \in R
    <3>1. R \subseteq A
      OBVIOUS
    <3>2. R \subseteq 1 .. n
      BY <1>3, <3>1
    <3>3. i \in R
      <4>1. i >= i
        BY <2>0
      <4> QED
        BY <4>1
    <3> QED
      BY <3>1, <3>2, <3>3
  <2>2. {j \in A \cup {n + 1} : j >= i} = R \cup {n + 1}
    <3>1. n + 1 >= i
      <4>1. i \in 1 .. n
        BY <1>3
      <4> QED
        BY <1>3, <4>1
    <3> QED
      BY <3>1, Zenon
  <2>3. FromEnd(s, i) = Cardinality(R) /\ FromEnd(s, i)' = Cardinality(R \cup {n + 1})
    BY <1>3, <2>2 DEF FromEnd, A
  <2> HIDE DEF R
  <2>4. IsFiniteSet(R) /\ Cardinality(R) \in Nat /\ Cardinality(R \cup {n + 1}) = Cardinality(R) + 1
    BY <1>3, <2>1, CountOneMore
  <2>5. Cardinality(R) # 0
    BY <2>1, <2>4, FS_EmptySet
  <2>6. Cardinality(R) <= c
    <3>1. IsFiniteSet(A)
      BY <1>3, CountOneMore
    <3> QED
      BY <2>1, <3>1, FS_Subset DEF c
  <2> QED
    BY <1>4, <2>3, <2>4, <2>5, <2>6
<1>12. ASSUME NEW k, k = n + 1 PROVE FromEnd(s, k)' = 1
  <2>1. {j \in A \cup {k} : j >= k} = {k}
    <3>1. \A j \in A : ~(j >= k)
      BY <1>3, <1>12
    <3>2. k >= k
      BY <1>3, <1>12
    <3> QED
      BY <3>1, <3>2, Zenon
  <2>2. FromEnd(s, k)' = Cardinality({k})
    BY <1>3, <1>12, <2>1 DEF FromEnd
  <2> QED
    BY <2>2, FS_Singleton
<1>13. ASSUME NEW i \in A \cup {n + 1}, NEW k, k = FromEnd(s, i)', k <= M
       PROVE  PairIs(w, k, said'[i].of)
  <2>1. CASE i = n + 1
    <3>1. k = 1 /\ said'[i].of = x.of
      BY <1>3, <1>12, <1>13, <2>1
    <3>2. lw - 2 * 1 + 1 = lw - 1 /\ lw - 2 * 1 + 2 = lw
      OBVIOUS
    <3> QED
      BY <1>7, <3>1, <3>2 DEF PairIs
  <2>2. CASE i \in A
    <3> DEFINE h == FromEnd(s, i)
    <3>1. h \in 1 .. c /\ k = h + 1
      BY <1>11, <1>13, <2>2
    <3> HIDE DEF h
    <3>2. PairIs(v, h, said[i].of)
      <4>1. h <= M
        BY <1>4, <1>13, <3>1
      <4> QED
        BY <1>5, <2>2, <4>1 DEF h
    <3>3. said'[i] = said[i]
      BY <1>3, <2>2
    <3> DEFINE p == lw - 2 * k + 1
    <3>4. p \in 1 .. lw - 2 /\ p + 1 \in 1 .. lw - 2
      <4>1. 2 * k <= lw
        BY <1>4, <1>9, <1>10, <1>13, <3>1
      <4> QED
        BY <1>4, <1>10, <3>1, <4>1
    <3>5. /\ p + lv + 2 - lw = lv - 2 * h + 1
          /\ (p + 1) + lv + 2 - lw = lv - 2 * h + 2
          /\ p + 1 = lw - 2 * k + 2
      BY <1>4, <1>10, <3>1
    <3>6. w[p] = v[p + lv + 2 - lw] /\ w[p + 1] = v[(p + 1) + lv + 2 - lw]
      BY <1>7, <3>4
    <3>7. w[p] = v[lv - 2 * h + 1] /\ w[p + 1] = v[lv - 2 * h + 2]
      BY <3>5, <3>6
    <3> QED
      BY <1>7, <3>2, <3>3, <3>5, <3>7 DEF PairIs
  <2> QED
    BY <1>13, <2>1, <2>2
<1> QED
  <2>1. /\ Len(w) = 2 * Min({Cardinality(Answered(s)'), MaxTurns})
        /\ \A i \in Answered(s)' : FromEnd(s, i)' <= MaxTurns => PairIs(w, FromEnd(s, i)', said'[i].of)
    <3>1. Cardinality(Answered(s)') = c + 1
      BY <1>3, <1>4
    <3> QED
      BY <1>3, <1>7, <1>10, <1>13, <3>1 DEF M
  <2> QED
    BY <1>8, <2>1 DEF Recalls, PairIs
\* Request r is answered in session z.
User(r) == [role |-> "user", of |-> r]
Assistant(r) == [role |-> "assistant", of |-> r]
Saying(r, z) == [of |-> r, session |-> z, new |-> ~Contains(table.order, z)]
Replying(r, z) ==
    /\ table' = [order |-> Entered(table, z), turns |-> TurnsAfter(table, z, User(r), Assistant(r))]
    /\ said' = Append(said, Saying(r, z))

LEMMA ReplyFacts ==
    ASSUME SessionsInv, NEW r \in Requests, NEW z \in Sessions, Replying(r, z)
    PROVE  /\ TableOK(table) /\ said \in Seq(SaidRecords) /\ Len(said) \in Nat
           /\ User(r) \in Turns /\ Assistant(r) \in Turns /\ Saying(r, z) \in SaidRecords
           /\ Saying(r, z).of = r /\ Saying(r, z).session = z
           /\ Saying(r, z).new = ~Contains(table.order, z)
           /\ said' = Append(said, Saying(r, z)) /\ (said \in Seq(SaidRecords))'
           /\ table'.order = Entered(table, z)
           /\ \A s \in Sessions : table'.turns[s] =
                 IF s = z THEN Trim(Append(Trim(Append(table.turns[z], User(r))), Assistant(r)))
                 ELSE IF Leaves(table, z, s) THEN <<>> ELSE table.turns[s]
           /\ TableOK(table)'
<1>1. TableOK(table) /\ said \in Seq(SaidRecords) /\ Len(said) \in Nat
  BY DEF SessionsInv
<1>2. User(r) \in Turns /\ Assistant(r) \in Turns
  BY DEF User, Assistant, Turns
<1>3. /\ Saying(r, z) \in SaidRecords
      /\ Saying(r, z).of = r /\ Saying(r, z).session = z
      /\ Saying(r, z).new = ~Contains(table.order, z)
  BY DEF Saying, SaidRecords, Contains
<1>4. said' = Append(said, Saying(r, z))
  BY DEF Replying
<1>5. said' \in Seq(SaidRecords)
  BY <1>1, <1>3, <1>4, AppendOne
<1>6. /\ table' = [order |-> Entered(table, z),
                   turns |-> TurnsAfter(table, z, User(r), Assistant(r))]
      /\ table'.order = Entered(table, z)
      /\ table'.turns = TurnsAfter(table, z, User(r), Assistant(r))
  BY DEF Replying
<1>7. TableOK(table')
  BY <1>1, <1>2, <1>6, TableStays
<1>8. \A s \in Sessions : table'.turns[s] =
         IF s = z THEN Trim(Append(Trim(Append(table.turns[z], User(r))), Assistant(r)))
         ELSE IF Leaves(table, z, s) THEN <<>> ELSE table.turns[s]
  BY <1>6 DEF TurnsAfter
<1> QED
  BY <1>1, <1>2, <1>3, <1>4, <1>5, <1>6, <1>7, <1>8

\* The session created by the answer.
LEMMA NewSession ==
    ASSUME SessionsInv, NEW r \in Requests, NEW z \in Sessions, Replying(r, z),
           ~Contains(table.order, z)
    PROVE  SessionSound(z)'
<1> DEFINE n == Len(said)
           o == Entered(table, z)
           w == table'.turns[z]
<1>1. /\ TableOK(table) /\ said \in Seq(SaidRecords) /\ n \in Nat
      /\ Saying(r, z) \in SaidRecords /\ Saying(r, z).of = r
      /\ Saying(r, z).session = z /\ Saying(r, z).new
      /\ said' = Append(said, Saying(r, z)) /\ table'.order = o
  BY ReplyFacts
<1>2. /\ Births(z)' # {} /\ Max(Births(z)') \in Births(z)' /\ Younger(z)' = {}
      /\ Answered(z)' = {n + 1} /\ said'[n + 1] = Saying(r, z)
  BY <1>1, SaidAnew
<1>3. /\ Contains(o, z) /\ Len(o) \in Nat \ {0} /\ o[Len(o)] = z
      /\ o \in Seq(Sessions) /\ IsInjective(o)
  BY <1>1, EnteredOrder
<1>4. w = Trim(Append(Trim(Append(<<>>, User(r))), Assistant(r)))
  <2>1. table.turns[z] = <<>>
    BY <1>1 DEF TableOK
  <2>2. w = Trim(Append(Trim(Append(table.turns[z], User(r))), Assistant(r)))
    BY ReplyFacts
  <2> QED
    BY <2>1, <2>2
<1> HIDE DEF n, o, w
<1>5. Len(w) = 2 /\ w[2] = Assistant(r) /\ w[1] = User(r)
  <2> DEFINE e == <<>>
  <2>1. e \in Seq(Turns) /\ Len(e) = 0 /\ Len(e) <= 2 * MaxTurns
    BY Caps
  <2>2. User(r) \in Turns /\ Assistant(r) \in Turns
    BY ReplyFacts
  <2>3. w = Trim(Append(Trim(Append(e, User(r))), Assistant(r)))
    BY <1>4
  <2> HIDE DEF e
  <2>4. EndsWithPair(w, e, User(r), Assistant(r))
    BY <2>1, <2>2, <2>3, TwoTurnsMore, Zenon
  <2>5. PICK lw, le \in Nat :
           /\ lw = Len(w) /\ le = Len(e)
           /\ lw = IF le + 2 <= 2 * MaxTurns THEN le + 2 ELSE 2 * MaxTurns
           /\ w[lw] = Assistant(r) /\ w[lw - 1] = User(r)
    BY <2>4 DEF EndsWithPair
  <2>6. lw = 2
    BY <2>1, <2>5, Caps
  <2>7. lw - 1 = 1
    BY <2>6
  <2> QED
    BY <2>5, <2>6, <2>7
<1>6. Recalls(z)'
  <2>1. Cardinality(Answered(z)') = 1
    BY <1>2, FS_Singleton
  <2>2. Min({1, MaxTurns}) = 1
    BY Caps, LesserOf
  <2>3. ASSUME NEW k, k = n + 1 PROVE FromEnd(z, k)' = 1
    <3>1. {j \in {k} : j >= k} = {k}
      BY <1>1, <2>3
    <3>2. FromEnd(z, k)' = Cardinality({k})
      BY <1>2, <2>3, <3>1 DEF FromEnd
    <3> QED
      BY <3>2, FS_Singleton
  <2>4. PairIs(w, 1, r)
    BY <1>5 DEF PairIs, User, Assistant
  <2>5. /\ Len(w) = 2 * Min({Cardinality(Answered(z)'), MaxTurns})
        /\ \A i \in Answered(z)' : FromEnd(z, i)' <= MaxTurns => PairIs(w, FromEnd(z, i)', said'[i].of)
    <3>1. Len(w) = 2 * Min({Cardinality(Answered(z)'), MaxTurns})
      BY <1>5, <2>1, <2>2
    <3>2. ASSUME NEW k \in Answered(z)' PROVE PairIs(w, FromEnd(z, k)', said'[k].of)
      BY <1>1, <1>2, <2>3, <2>4, <3>2
    <3> QED
      BY <3>1, <3>2
  <2> QED
    BY <2>5 DEF Recalls, PairIs, w
<1>7. ASSUME NEW p \in 1 .. Len(o), o[p] = z PROVE Cardinality(Younger(z)') = Len(o) - p
  <2>1. p = Len(o)
    BY <1>3, <1>7 DEF IsInjective
  <2> QED
    BY <1>2, <1>3, <2>1, FS_EmptySet
<1> QED
  BY <1>1, <1>2, <1>3, <1>6, <1>7 DEF SessionSound

\* The session that was there already.
LEMMA SameSession ==
    ASSUME SessionsInv, NEW r \in Requests, NEW z \in Sessions, Replying(r, z),
           Contains(table.order, z)
    PROVE  SessionSound(z)'
<1>1. /\ TableOK(table) /\ said \in Seq(SaidRecords) /\ User(r) \in Turns /\ Assistant(r) \in Turns
      /\ Saying(r, z) \in SaidRecords /\ Saying(r, z).of = r
      /\ Saying(r, z).session = z /\ ~Saying(r, z).new
      /\ said' = Append(said, Saying(r, z)) /\ table'.order = table.order
      /\ table'.turns[z] = Trim(Append(Trim(Append(table.turns[z], User(r))), Assistant(r)))
  <2>1. /\ TableOK(table) /\ said \in Seq(SaidRecords) /\ User(r) \in Turns /\ Assistant(r) \in Turns
        /\ Saying(r, z) \in SaidRecords /\ Saying(r, z).of = r /\ Saying(r, z).session = z
        /\ Saying(r, z).new = ~Contains(table.order, z)
        /\ said' = Append(said, Saying(r, z)) /\ table'.order = Entered(table, z)
    BY ReplyFacts
  <2>2. table'.turns[z] = Trim(Append(Trim(Append(table.turns[z], User(r))), Assistant(r)))
    BY ReplyFacts
  <2>3. Entered(table, z) = table.order
    BY DEF Entered
  <2>4. ~Saying(r, z).new
    BY <2>1, Zenon
  <2> QED
    BY <2>1, <2>2, <2>3, <2>4, Zenon
<1>2. SessionSound(z)
  BY DEF SessionsInv
<1>3. Births(z) # {} /\ Max(Births(z)) \in Births(z)
  BY <1>2 DEF SessionSound, Contains
<1>4. Births(z)' = Births(z) /\ Younger(z)' = Younger(z)
  BY <1>1, <1>3, SaidOn
<1>5. Recalls(z)'
  <2>1. /\ User(r) = [role |-> "user", of |-> Saying(r, z).of]
        /\ Assistant(r) = [role |-> "assistant", of |-> Saying(r, z).of]
    BY <1>1 DEF User, Assistant
  <2> QED
    BY <1>1, <2>1, RecallsOn
<1> QED
  BY <1>1, <1>2, <1>3, <1>4, <1>5 DEF SessionSound

\* What is said in other sessions does not touch a session but by pushing it out.
LEMMA OtherSession ==
    ASSUME SessionsInv, NEW r \in Requests, NEW z \in Sessions, Replying(r, z),
           NEW s \in Sessions, s # z
    PROVE  SessionSound(s)'
<1> DEFINE n == Len(said)
           x == Saying(r, z)
           old == table.order
           o == Entered(table, z)
           l == Len(old)
           lo == Len(o)
           more == IF x.new THEN 1 ELSE 0
<1>1. /\ TableOK(table) /\ said \in Seq(SaidRecords) /\ n \in Nat
      /\ x \in SaidRecords /\ x.session = z /\ x.new = ~Contains(old, z)
      /\ said' = Append(said, x) /\ table'.order = o
      /\ table'.turns[s] = IF Leaves(table, z, s) THEN <<>> ELSE table.turns[s]
  BY ReplyFacts
<1>2. SessionSound(s)
  BY DEF SessionsInv
<1>3. /\ old \in Seq(Sessions) /\ IsInjective(old) /\ l \in Nat /\ lo \in Nat /\ MaxSessions \in Nat
  BY <1>1, EnteredOrder, Caps DEF TableOK
<1>4. /\ Births(s)' = Births(s)
      /\ \A i \in 1 .. n : said'[i] = said[i]
      /\ Births(s) # {} /\ Max(Births(s)) \in Births(s) =>
            /\ Younger(s)' = Younger(s) \cup IF x.new THEN {n + 1} ELSE {}
            /\ Answered(s)' = Answered(s)
  <2>1. /\ Births(s)' = Births(s)
        /\ \A i \in 1 .. n : said'[i] = said[i]
        /\ Births(s) # {} /\ Max(Births(s)) \in Births(s) =>
            /\ Younger(s)' = Younger(s) \cup IF x.new THEN {n + 1} ELSE {}
            /\ Answered(s)' = Answered(s) \cup IF x.session = s THEN {n + 1} ELSE {}
    <3> HIDE DEF x
    <3> QED
      BY <1>1, SaidOn
  <2> QED
    BY <1>1, <2>1
<1>5. Births(s) # {} => /\ Max(Births(s)) \in Births(s)
                        /\ Cardinality(Younger(s)) \in Nat
                        /\ Cardinality(Younger(s)') = Cardinality(Younger(s)) + more
  <2> SUFFICES ASSUME Births(s) # {}
               PROVE  /\ Max(Births(s)) \in Births(s)
                      /\ Cardinality(Younger(s)) \in Nat
                      /\ Cardinality(Younger(s)') = Cardinality(Younger(s)) + more
    OBVIOUS
  <2>1. Max(Births(s)) \in Births(s)
    BY <1>2 DEF SessionSound
  <2>2. Younger(s) \subseteq 1 .. n
    BY <1>1, SaidPlaces
  <2>3. Cardinality(Younger(s)) \in Nat /\ Cardinality(Younger(s) \cup {n + 1}) = Cardinality(Younger(s)) + 1
    BY <1>1, <2>2, CountOneMore
  <2>4. Younger(s)' = Younger(s) \cup IF x.new THEN {n + 1} ELSE {}
    BY <1>4, <2>1
  <2> HIDE DEF x, n
  <2>5. CASE x.new
    <3>1. Younger(s)' = Younger(s) \cup {n + 1} /\ more = 1
      BY <2>4, <2>5
    <3> QED
      BY <2>1, <2>3, <3>1
  <2>6. CASE ~x.new
    <3>1. Younger(s)' = Younger(s) /\ more = 0
      BY <2>4, <2>6
    <3> QED
      BY <2>1, <2>3, <3>1
  <2> QED
    BY <2>5, <2>6
\* Its place in the table before, and that it has moved one place on when the table is full.
<1>6. ASSUME NEW p \in 1 .. lo, o[p] = s
      PROVE  \E q \in 1 .. l : old[q] = s /\ l - q + more = lo - p /\ ~Leaves(table, z, s)
  <2>1. CASE Contains(old, z)
    <3>1. o = old /\ ~Leaves(table, z, s)
      BY <2>1 DEF Entered, Leaves
    <3>2. more = 0
      <4>1. ~x.new
        BY <1>1, <2>1, Zenon
      <4> QED
        BY <4>1
    <3> HIDE DEF old, o, l, lo, x, more
    <3>3. l = lo
      BY <3>1 DEF l, lo
    <3>4. p \in 1 .. l /\ old[p] = s /\ l - p + 0 = lo - p
      BY <1>3, <1>6, <3>1, <3>3
    <3> QED
      BY <3>1, <3>2, <3>4
  <2>2. CASE ~Contains(old, z)
    <3> DEFINE gone == l + 1 - lo
    <3>1. /\ gone = IF l < MaxSessions THEN 0 ELSE 1
          /\ o[lo] = z /\ \A q \in 1 .. lo - 1 : o[q] = old[q + gone]
          /\ l = MaxSessions => Head(old) = old[1]
      BY <1>1, <2>2, EnteredOrder
    <3>2. more = 1
      BY <1>1, <2>2
    <3> HIDE DEF old, o, l, lo, x, more
    <3>3. p \in 1 .. lo - 1
      BY <1>3, <1>6, <3>1
    <3> DEFINE q == p + gone
    <3>4. q \in 1 .. l /\ l - q + 1 = lo - p
      BY <1>3, <3>1, <3>3
    <3>5. old[q] = s
      BY <1>6, <3>1, <3>3
    <3>6. ~Leaves(table, z, s)
      <4> SUFFICES ASSUME Leaves(table, z, s) PROVE FALSE
        OBVIOUS
      <4>1. l = MaxSessions /\ s = old[1]
        BY <3>1 DEF Leaves, old, l
      <4>2. 1 \in 1 .. l /\ q # 1
        <5>1. gone = 1
          BY <1>3, <3>1, <4>1
        <5>2. p >= 1 /\ p \in Int
          BY <1>3, <3>3
        <5>3. q = p + 1
          BY <5>1
        <5> HIDE DEF q, gone
        <5> QED
          BY <1>3, <3>4, <5>2, <5>3
      <4>3. \A i, j \in 1 .. l : old[i] = old[j] => i = j
        BY <1>3 DEF IsInjective, l
      <4> HIDE DEF q
      <4> QED
        BY <3>4, <3>5, <4>1, <4>2, <4>3
    <3> HIDE DEF q
    <3> QED
      BY <3>2, <3>4, <3>5, <3>6
  <2> QED
    BY <2>1, <2>2
<1> HIDE DEF n, x, old, o, l, lo, more
<1>7. ASSUME NEW p \in 1 .. lo, o[p] = s
      PROVE  Births(s)' # {} /\ Cardinality(Younger(s)') = lo - p
  <2>1. PICK q \in 1 .. l : old[q] = s /\ l - q + more = lo - p
    BY <1>6, <1>7
  <2>2. Births(s) # {} /\ Cardinality(Younger(s)) = l - q
    BY <1>2, <2>1 DEF SessionSound, old, l
  <2> QED
    BY <1>4, <1>5, <2>1, <2>2
<1>8. ASSUME Contains(o, s) PROVE Recalls(s)'
  <2>1. PICK p \in 1 .. lo : o[p] = s
    BY <1>8 DEF Contains, lo
  <2>2. PICK q \in 1 .. l : old[q] = s /\ ~Leaves(table, z, s)
    BY <1>6, <2>1
  <2>3. Contains(old, s) /\ Births(s) # {}
    <3>1. Contains(old, s)
      BY <2>2 DEF Contains, l
    <3> QED
      BY <1>2, <2>2, <3>1 DEF SessionSound, old, l
  <2>4. Recalls(s)
    BY <1>2, <2>3 DEF SessionSound, old
  <2>5. Answered(s)' = Answered(s) /\ table'.turns[s] = table.turns[s]
    BY <1>1, <1>4, <1>5, <2>2, <2>3
  <2>6. \A i \in Answered(s) : said'[i] = said[i]
    <3>1. Answered(s) \subseteq 1 .. n
      BY <1>1, SaidPlaces DEF n
    <3> QED
      BY <1>4, <3>1
  <2>7. ASSUME NEW i PROVE FromEnd(s, i)' = FromEnd(s, i)
    BY <2>5 DEF FromEnd
  <2> DEFINE v == table.turns[s]
  <2>8. /\ Len(v) = 2 * Min({Cardinality(Answered(s)), MaxTurns})
        /\ \A i \in Answered(s) : FromEnd(s, i) <= MaxTurns => PairIs(v, FromEnd(s, i), said[i].of)
    BY <2>4 DEF Recalls
  <2> HIDE DEF v
  <2>9. /\ Len(v) = 2 * Min({Cardinality(Answered(s)'), MaxTurns})
        /\ \A i \in Answered(s)' : FromEnd(s, i)' <= MaxTurns => PairIs(v, FromEnd(s, i)', said'[i].of)
    <3>1. ASSUME NEW i \in Answered(s)', FromEnd(s, i)' <= MaxTurns
          PROVE  PairIs(v, FromEnd(s, i)', said'[i].of)
      <4>1. FromEnd(s, i)' = FromEnd(s, i) /\ said'[i] = said[i] /\ i \in Answered(s)
        BY <2>5, <2>6, <2>7, <3>1
      <4> QED
        BY <2>8, <3>1, <4>1
    <3>2. Len(v) = 2 * Min({Cardinality(Answered(s)'), MaxTurns})
      BY <2>5, <2>8
    <3> QED
      BY <3>1, <3>2
  <2> QED
    BY <2>5, <2>9 DEF Recalls, PairIs, v
<1>9. ASSUME ~Contains(o, s), Births(s)' # {} PROVE Cardinality(Younger(s)') >= MaxSessions
  <2>0. Births(s) # {} /\ more \in {0, 1}
    BY <1>4, <1>9 DEF more
  <2>1. CASE ~Contains(old, s)
    <3>1. Cardinality(Younger(s)) >= MaxSessions
      BY <1>2, <2>0, <2>1 DEF SessionSound, old
    <3> QED
      BY <1>3, <1>5, <2>0, <3>1
  <2>2. CASE Contains(old, s)
    <3>1. Leaves(table, z, s)
      BY <1>1, <1>9, <2>2, WhoLeaves DEF old, o
    <3>2. l = MaxSessions /\ old[1] = s /\ more = 1 /\ 1 \in 1 .. l
      <4>1. l = MaxSessions /\ Head(old) = s /\ ~Contains(old, z)
        BY <3>1 DEF Leaves, old, l
      <4>2. Head(old) = old[1]
        BY <1>1, <4>1, EnteredOrder DEF old, l
      <4>3. l # 0
        BY <4>1, Caps
      <4> QED
        <5>1. x.new
          BY <1>1, <4>1, Zenon
        <5>2. more = 1
          BY <5>1 DEF more
        <5>3. old[1] = s
          BY <4>1, <4>2
        <5> QED
          BY <1>3, <4>1, <4>3, <5>2, <5>3
    <3>3. Cardinality(Younger(s)) = l - 1
      BY <1>2, <3>2 DEF SessionSound, old, l
    <3> QED
      BY <1>3, <1>5, <2>0, <3>2, <3>3
  <2> QED
    BY <2>1, <2>2
<1>10. Births(s)' # {} => Max(Births(s)') \in Births(s)'
  BY <1>4, <1>5
<1>11. table'.order = o /\ Len(o) = lo
  BY <1>1 DEF lo
<1> QED
  BY <1>7, <1>8, <1>9, <1>10, <1>11 DEF SessionSound

LEMMA SessionsKept ==
    ASSUME SessionsInv, UNCHANGED <<table, said>>
    PROVE  SessionsInv'
<1>1. table' = table /\ said' = said
  OBVIOUS
<1>2. ASSUME NEW s \in Sessions PROVE SessionSound(s)'
  <2>1. Births(s)' = Births(s)
    BY <1>1 DEF Births
  <2>2. Younger(s)' = Younger(s) /\ Answered(s)' = Answered(s)
    BY <1>1, <2>1 DEF Younger, Answered
  <2>3. ASSUME NEW i PROVE FromEnd(s, i)' = FromEnd(s, i)
    BY <2>2 DEF FromEnd
  <2>4. Recalls(s) => Recalls(s)'
    <3> SUFFICES ASSUME Recalls(s) PROVE Recalls(s)'
      OBVIOUS
    <3> DEFINE v == table.turns[s]
    <3>1. /\ Len(v) = 2 * Min({Cardinality(Answered(s)), MaxTurns})
          /\ \A i \in Answered(s) :
                FromEnd(s, i) <= MaxTurns => PairIs(v, FromEnd(s, i), said[i].of)
      BY DEF Recalls
    <3>2. v = table'.turns[s]
      BY <1>1
    <3> HIDE DEF v
    <3>3. ASSUME NEW i \in Answered(s)', FromEnd(s, i)' <= MaxTurns
          PROVE  PairIs(v, FromEnd(s, i)', said'[i].of)
      <4>1. FromEnd(s, i)' = FromEnd(s, i) /\ i \in Answered(s)
        BY <2>2, <2>3, <3>3
      <4> QED
        BY <1>1, <3>1, <3>3, <4>1
    <3>4. Len(v) = 2 * Min({Cardinality(Answered(s)'), MaxTurns})
      BY <2>2, <3>1
    <3> QED
      BY <3>2, <3>3, <3>4 DEF Recalls, PairIs
  <2>5. SessionSound(s)
    BY DEF SessionsInv
  <2> QED
    BY <1>1, <2>1, <2>2, <2>4, <2>5 DEF SessionSound
<1> QED
  BY <1>1, <1>2 DEF SessionsInv

LEMMA Replied ==
    ASSUME SessionsInv, NEW r \in Requests, NEW z \in Sessions, Replying(r, z)
    PROVE  SessionsInv'
<1>1. ASSUME NEW s \in Sessions PROVE SessionSound(s)'
  <2>1. CASE s # z
    BY <2>1, OtherSession
  <2>2. CASE s = z
    <3>1. SessionSound(z)'
      <4>1. CASE Contains(table.order, z)
        BY <4>1, SameSession
      <4>2. CASE ~Contains(table.order, z)
        BY <4>2, NewSession
      <4> QED
        BY <4>1, <4>2
    <3> QED
      BY <2>2, <3>1
  <2> QED
    BY <2>1, <2>2
<1>2. TableOK(table)' /\ (said \in Seq(SaidRecords))'
  BY ReplyFacts
<1> QED
  BY <1>1, <1>2 DEF SessionsInv
-----------------------------------------------------------------------------
(* The requests. *)

RequestRecords == [stage : {"idle", "hearing", "asking", "speaking", "done"},
                   session : Sessions \cup {"none"}, voice : BOOLEAN, text : BOOLEAN,
                   at : 0 .. Len(ChatProviders),
                   reply : {"none", "provider", "template", "unheard"}, refused : SUBSET Providers]

\* A request that asks has been refused by the providers before the one it asks, and one
\* that gets the template, while the LLM is on, by all those with a key.
RequestSound(q) ==
    /\ q.stage \in {"hearing", "asking"} => q.session \in Sessions
    /\ q.stage \in {"idle", "hearing", "asking"} <=> q.reply = "none"
    /\ q.stage \in {"idle", "hearing"} => q.refused = {}
    /\ q.stage = "hearing" => q.voice
    /\ q.stage = "asking" =>
          q.at \in Keyed /\ q.refused = NamedBefore(ChatProviders, Keyed, q.at)
    /\ q.reply = "template" => settings.llm # "on" \/ q.refused = Named(ChatProviders, Keyed)
    /\ q.reply = "unheard" => q.voice /\ ~q.text

PassengersInv == /\ SessionsInv
                 /\ request \in [Requests -> RequestRecords]
                 /\ \A r \in Requests : RequestSound(request[r])

LEMMA KeyedPlaces ==
    /\ Len(ChatProviders) \in Nat /\ Keyed \subseteq 1 .. Len(ChatProviders)
    /\ \A i \in 1 .. Len(ChatProviders) : ChatProviders[i] \in Providers
    /\ \A i \in Keyed : i \in 0 .. Len(ChatProviders)
<1>1. /\ Len(ChatProviders) \in Nat /\ DOMAIN ChatProviders = 1 .. Len(ChatProviders)
      /\ \A i \in 1 .. Len(ChatProviders) : ChatProviders[i] \in Providers
  BY SessionsAssumption
<1>2. Keyed \subseteq 1 .. Len(ChatProviders)
  BY <1>1 DEF Keyed
<1>3. \A i \in 1 .. Len(ChatProviders) : i \in 0 .. Len(ChatProviders)
  BY <1>1
<1> QED
  BY <1>1, <1>2, <1>3

LEMMA EmptyRequest ==
    /\ NoRequest \in RequestRecords /\ NoRequest.stage = "idle" /\ NoRequest.session = "none"
    /\ NoRequest.reply = "none" /\ NoRequest.refused = {}
BY KeyedPlaces DEF NoRequest, RequestRecords

LEMMA PassengersInit == SInit => PassengersInv
<1> SUFFICES ASSUME SInit PROVE PassengersInv
  OBVIOUS
<1>1. SessionsInv
  BY SessionsInit
<1>2. NoRequest \in RequestRecords
  BY EmptyRequest
<1>3. RequestSound(NoRequest)
  BY DEF RequestSound, NoRequest
<1>4. request = [r \in Requests |-> NoRequest]
  BY DEF SInit
<1> QED
  BY <1>1, <1>2, <1>3, <1>4 DEF PassengersInv

\* A request that moves on without an answer: the sessions stay as they are.
LEMMA MovesOn ==
    ASSUME PassengersInv, UNCHANGED settings, UNCHANGED <<table, said>>, NEW r \in Requests,
           NEW n \in RequestRecords, RequestSound(n), request' = [request EXCEPT ![r] = n]
    PROVE  PassengersInv'
<1>1. SessionsInv'
  BY SessionsKept DEF PassengersInv
<1>2. request' \in [Requests -> RequestRecords]
  BY DEF PassengersInv
<1>3. Keyed' = Keyed
  BY DEF Keyed
<1>4. ASSUME NEW x \in Requests PROVE RequestSound(request[x])'
  <2>1. RequestSound(request'[x])
    BY DEF PassengersInv
  <2> QED
    BY <1>3, <2>1 DEF RequestSound
<1> QED
  BY <1>1, <1>2, <1>4 DEF PassengersInv

LEMMA ReplyStep ==
    ASSUME PassengersInv, UNCHANGED settings, NEW r \in Requests, NEW q \in RequestRecords,
           q.session \in Sessions, NEW reply \in {"provider", "template"}, Reply(r, q, reply),
           reply = "template" => settings.llm # "on" \/ q.refused = Named(ChatProviders, Keyed)
    PROVE  PassengersInv'
<1> DEFINE n == [NoRequest EXCEPT !.reply = reply, !.refused = q.refused,
                    !.stage = IF q.voice /\ settings.deepgram THEN "speaking" ELSE "done"]
           z == q.session
<1>1. /\ request' = [request EXCEPT ![r] = n]
      /\ table' = Remember(Remember(table, z, User(r)), z, Assistant(r))
      /\ said' = Append(said, Saying(r, z))
  BY DEF Reply, User, Assistant, Saying
<1>2. SessionsInv'
  <2>1. TableOK(table) /\ SessionsInv /\ z \in Sessions
    BY DEF PassengersInv, SessionsInv
  <2> HIDE DEF n, z
  <2>2. Replying(r, z)
    BY <1>1, <2>1, Remembered DEF Replying
  <2> QED
    BY <2>1, <2>2, Replied
<1>3. /\ n.stage \in {"speaking", "done"} /\ n.reply = reply /\ n.refused = q.refused
      /\ n \in RequestRecords
  BY EmptyRequest DEF RequestRecords
<1> HIDE DEF n
<1>4. request' \in [Requests -> RequestRecords]
  BY <1>1, <1>3 DEF PassengersInv
<1>5. Keyed' = Keyed
  BY DEF Keyed
<1>6. RequestSound(n)
  BY <1>3 DEF RequestSound
<1>7. ASSUME NEW x \in Requests PROVE RequestSound(request[x])'
  <2>1. RequestSound(request'[x])
    BY <1>1, <1>6 DEF PassengersInv
  <2> QED
    BY <1>5, <2>1 DEF RequestSound
<1> QED
  BY <1>2, <1>4, <1>7 DEF PassengersInv

LEMMA PipelineStep ==
    ASSUME PassengersInv, UNCHANGED settings, NEW r \in Requests, NEW q \in RequestRecords,
           q.session \in Sessions, q.reply = "none", q.refused = {}, Pipeline(r, q)
    PROVE  PassengersInv'
<1>1. CASE settings.llm # "on" \/ Keyed = {}
  <2>1. Reply(r, q, "template")
    BY <1>1 DEF Pipeline
  <2>2. settings.llm # "on" \/ q.refused = Named(ChatProviders, Keyed)
    BY <1>1 DEF Named
  <2> QED
    BY <2>1, <2>2, ReplyStep
<1>2. CASE ~(settings.llm # "on" \/ Keyed = {})
  <2> DEFINE n == [q EXCEPT !.stage = "asking", !.at = Min(Keyed)]
  <2>1. request' = [request EXCEPT ![r] = n] /\ UNCHANGED <<table, said>>
    BY <1>2 DEF Pipeline
  <2>2. Min(Keyed) \in Keyed /\ NamedBefore(ChatProviders, Keyed, Min(Keyed)) = {}
    BY <1>2, KeyedPlaces, NobodyBefore
  <2>3. Min(Keyed) \in 0 .. Len(ChatProviders)
    BY <2>2, KeyedPlaces
  <2>4. /\ n \in RequestRecords /\ n.stage = "asking" /\ n.at = Min(Keyed)
        /\ n.session \in Sessions /\ n.reply = "none" /\ n.refused = {}
    BY <2>3 DEF RequestRecords
  <2> HIDE DEF n
  <2>5. RequestSound(n)
    BY <2>2, <2>4 DEF RequestSound
  <2> QED
    BY <2>1, <2>4, <2>5, MovesOn
<1> QED
  BY <1>1, <1>2

LEMMA UnheardStep ==
    ASSUME PassengersInv, UNCHANGED settings, NEW r \in Requests, NEW q \in RequestRecords,
           q.voice, ~q.text, Unheard(r, q)
    PROVE  PassengersInv'
<1> DEFINE n == [q EXCEPT !.stage = "done", !.reply = "unheard"]
<1>1. request' = [request EXCEPT ![r] = n] /\ UNCHANGED <<table, said>>
  BY DEF Unheard
<1>2. /\ n \in RequestRecords /\ n.stage = "done" /\ n.reply = "unheard"
      /\ n.voice /\ ~n.text
  BY DEF RequestRecords
<1> HIDE DEF n
<1>3. RequestSound(n)
  BY <1>2 DEF RequestSound
<1> QED
  BY <1>1, <1>2, <1>3, MovesOn

\* What a provider that fails leaves to do.
LEMMA FailedStep ==
    ASSUME PassengersInv, UNCHANGED settings, NEW r \in Requests, Failed(r)
    PROVE  PassengersInv'
<1> DEFINE at == request[r].at
           q == [request[r] EXCEPT !.refused = @ \cup {ChatProviders[at]}]
           later == Left(r)
<1>1. request[r] \in RequestRecords /\ RequestSound(request[r]) /\ request[r].stage = "asking"
  BY DEF PassengersInv, Failed
<1>2. /\ at \in Keyed /\ request[r].refused = NamedBefore(ChatProviders, Keyed, at)
      /\ request[r].session \in Sessions /\ request[r].reply = "none"
  BY <1>1 DEF RequestSound
<1>3. /\ q \in RequestRecords /\ q.session \in Sessions /\ q.stage = "asking" /\ q.reply = "none"
      /\ q.refused = NamedBefore(ChatProviders, Keyed, at) \cup {ChatProviders[at]}
  <2>1. ChatProviders[at] \in Providers
    BY <1>2, KeyedPlaces
  <2> QED
    BY <1>1, <1>2, <2>1 DEF RequestRecords
<1>4. later = {i \in Keyed : i > at}
  BY DEF Left
<1>5. IF later = {} THEN Reply(r, q, "template")
      ELSE /\ request' = [request EXCEPT ![r] = [q EXCEPT !.at = Min(later)]]
           /\ UNCHANGED <<table, said>>
  BY DEF Failed
<1> HIDE DEF at, q, later
<1>6. /\ later = {} => q.refused = Named(ChatProviders, Keyed)
      /\ later # {} => /\ Min(later) \in Keyed
                       /\ q.refused = NamedBefore(ChatProviders, Keyed, Min(later))
  <2>1. Len(ChatProviders) \in Nat /\ Keyed \subseteq 1 .. Len(ChatProviders)
    BY KeyedPlaces
  <2>2. /\ later = {} => NamedBefore(ChatProviders, Keyed, at) \cup {ChatProviders[at]}
                            = Named(ChatProviders, Keyed)
        /\ later # {} => /\ Min(later) \in Keyed
                         /\ NamedBefore(ChatProviders, Keyed, at) \cup {ChatProviders[at]}
                               = NamedBefore(ChatProviders, Keyed, Min(later))
    <3>1. at \in Keyed
      BY <1>2
    <3>2. /\ {i \in Keyed : i > at} = {} =>
                NamedBefore(ChatProviders, Keyed, at) \cup {ChatProviders[at]}
                   = Named(ChatProviders, Keyed)
          /\ {i \in Keyed : i > at} # {} =>
                /\ Min({i \in Keyed : i > at}) \in Keyed
                /\ NamedBefore(ChatProviders, Keyed, at) \cup {ChatProviders[at]}
                      = NamedBefore(ChatProviders, Keyed, Min({i \in Keyed : i > at}))
      BY <2>1, <3>1, AskedSoFar
    <3> QED
      BY <1>4, <3>2, Zenon
  <2> QED
    BY <1>3, <2>2
<1>7. CASE later = {}
  BY <1>3, <1>5, <1>6, <1>7, ReplyStep
<1>8. CASE later # {}
  <2> DEFINE n == [q EXCEPT !.at = Min(later)]
  <2>1. request' = [request EXCEPT ![r] = n] /\ UNCHANGED <<table, said>>
    BY <1>5, <1>8
  <2>2. Min(later) \in 0 .. Len(ChatProviders)
    BY <1>6, <1>8, KeyedPlaces
  <2>3. /\ n \in RequestRecords /\ n.stage = "asking" /\ n.at = Min(later)
        /\ n.session \in Sessions /\ n.reply = "none" /\ n.refused = q.refused
    BY <1>3, <2>2 DEF RequestRecords
  <2> HIDE DEF n
  <2>4. RequestSound(n)
    BY <1>6, <1>8, <2>3 DEF RequestSound
  <2> QED
    BY <2>1, <2>3, <2>4, MovesOn
<1> QED
  BY <1>7, <1>8

LEMMA SessionStep ==
    ASSUME PassengersInv, UNCHANGED settings, NEW r \in Requests, SNext(r)
    PROVE  PassengersInv'
<1> DEFINE q == request[r]
<1>1. q \in RequestRecords /\ RequestSound(q)
  BY DEF PassengersInv
<1>2. CASE Provided(r)
  <2>1. Reply(r, q, "provider") /\ q.stage = "asking"
    BY <1>2 DEF Provided
  <2>2. q.session \in Sessions
    BY <1>1, <2>1 DEF RequestSound
  <2> HIDE DEF q
  <2> QED
    BY <1>1, <2>1, <2>2, ReplyStep
<1>3. CASE Failed(r)
  BY <1>3, FailedStep
<1>4. ASSUME q.stage = "hearing"
      PROVE  q.session \in Sessions /\ q.reply = "none" /\ q.refused = {} /\ q.voice
  BY <1>1, <1>4 DEF RequestSound
<1>5. CASE Heard(r)
  <2>1. q.stage = "hearing" /\ Pipeline(r, q)
    BY <1>5 DEF Heard
  <2> HIDE DEF q
  <2> QED
    BY <1>1, <1>4, <2>1, PipelineStep
<1>6. CASE NotHeard(r)
  <2>1. q.stage = "hearing" /\ IF q.text THEN Pipeline(r, q) ELSE Unheard(r, q)
    BY <1>6 DEF NotHeard
  <2> HIDE DEF q
  <2>2. CASE q.text
    BY <1>1, <1>4, <2>1, <2>2, PipelineStep
  <2>3. CASE ~q.text
    BY <1>1, <1>4, <2>1, <2>3, UnheardStep
  <2> QED
    BY <2>2, <2>3
<1>7. CASE Spoken(r)
  <2> DEFINE n == [q EXCEPT !.stage = "done"]
  <2>1. request' = [request EXCEPT ![r] = n] /\ UNCHANGED <<table, said>> /\ q.stage = "speaking"
    BY <1>7 DEF Spoken
  <2>2. /\ n \in RequestRecords /\ n.stage = "done" /\ n.reply = q.reply
        /\ n.refused = q.refused /\ n.voice = q.voice /\ n.text = q.text
    BY <1>1 DEF RequestRecords
  <2> HIDE DEF n
  <2>3. RequestSound(n)
    BY <1>1, <2>1, <2>2 DEF RequestSound
  <2> QED
    BY <2>1, <2>2, <2>3, MovesOn
<1>8. ASSUME NEW s \in Sessions, Chat(r, s) PROVE PassengersInv'
  <2> DEFINE c == [NoRequest EXCEPT !.session = s]
  <2>1. Pipeline(r, c)
    BY <1>8 DEF Chat
  <2>2. c \in RequestRecords /\ c.session = s /\ c.reply = "none" /\ c.refused = {}
    BY EmptyRequest DEF RequestRecords
  <2> HIDE DEF c
  <2> QED
    BY <2>1, <2>2, PipelineStep
<1>9. ASSUME NEW s \in Sessions, NEW audio \in BOOLEAN, NEW text \in BOOLEAN,
             Voice(r, s, audio, text)
      PROVE  PassengersInv'
  <2> DEFINE c == [NoRequest EXCEPT !.session = s, !.voice = TRUE, !.text = text]
             n == [c EXCEPT !.stage = "hearing"]
  <2>1. IF audio /\ settings.deepgram
        THEN request' = [request EXCEPT ![r] = n] /\ UNCHANGED <<table, said>>
        ELSE IF text THEN Pipeline(r, c) ELSE Unheard(r, c)
    BY <1>9 DEF Voice
  <2>2. /\ c \in RequestRecords /\ c.session = s /\ c.reply = "none" /\ c.refused = {}
        /\ c.voice /\ c.text = text
    BY EmptyRequest DEF RequestRecords
  <2>3. /\ n \in RequestRecords /\ n.stage = "hearing" /\ n.session = s /\ n.reply = "none"
        /\ n.refused = {} /\ n.voice
    BY EmptyRequest DEF RequestRecords
  <2> HIDE DEF c, n
  <2>4. RequestSound(n)
    BY <2>3 DEF RequestSound
  <2>5. CASE audio /\ settings.deepgram
    BY <2>1, <2>3, <2>4, <2>5, MovesOn
  <2>6. CASE ~(audio /\ settings.deepgram) /\ text
    BY <2>1, <2>2, <2>6, PipelineStep
  <2>7. CASE ~(audio /\ settings.deepgram) /\ ~text
    BY <2>1, <2>2, <2>7, UnheardStep
  <2> QED
    BY <2>5, <2>6, <2>7
<1> QED
  BY <1>2, <1>3, <1>5, <1>6, <1>7, <1>8, <1>9 DEF SNext, Goes
-----------------------------------------------------------------------------
(* The whole. *)

SafetyInv == RuntimeInv /\ PassengersInv

LEMMA RuntimeKept ==
    ASSUME RuntimeInv, UNCHANGED <<runtime, settings>>
    PROVE  RuntimeInv'
<1>1. chain' = chain /\ run' = run /\ settings' = settings
  BY DEF runtime
<1> QED
  BY <1>1 DEF RuntimeInv, RTypeOK, RunsSound, RunSound, WithKey

LEMMA PassengersKept ==
    ASSUME PassengersInv, UNCHANGED <<passengers, settings>>
    PROVE  PassengersInv'
<1>1. table' = table /\ said' = said /\ request' = request /\ settings' = settings
  BY DEF passengers
<1>2. SessionsInv'
  BY <1>1, SessionsKept DEF PassengersInv
<1>3. Keyed' = Keyed
  BY <1>1 DEF Keyed
<1>4. ASSUME NEW x \in Requests PROVE RequestSound(request[x])'
  <2>1. RequestSound(request[x])
    BY DEF PassengersInv
  <2> QED
    BY <1>1, <1>3, <2>1 DEF RequestSound
<1> QED
  BY <1>1, <1>2, <1>4 DEF PassengersInv

LEMMA SafetyStep == SafetyInv /\ [Next]_vars => SafetyInv'
<1> SUFFICES ASSUME SafetyInv, [Next]_vars PROVE SafetyInv'
  OBVIOUS
<1>0. RuntimeInv /\ PassengersInv
  BY DEF SafetyInv
<1>1. CASE AgentStep
  <2>1. PICK r \in Runs : RNext(r)
    BY <1>1 DEF AgentStep
  <2>2. UNCHANGED settings /\ UNCHANGED <<passengers, settings>>
    BY <1>1 DEF AgentStep
  <2> QED
    BY <1>0, <2>1, <2>2, RuntimeStep, PassengersKept DEF SafetyInv
<1>2. CASE PassengerStep
  <2>1. PICK r \in Requests : SNext(r)
    BY <1>2 DEF PassengerStep
  <2>2. UNCHANGED settings /\ UNCHANGED <<runtime, settings>>
    BY <1>2 DEF PassengerStep
  <2> QED
    BY <1>0, <2>1, <2>2, SessionStep, RuntimeKept DEF SafetyInv
<1>3. CASE UNCHANGED vars
  <2>1. UNCHANGED <<runtime, settings>> /\ UNCHANGED <<passengers, settings>>
    BY <1>3 DEF vars
  <2> QED
    BY <1>0, <2>1, RuntimeKept, PassengersKept DEF SafetyInv
<1> QED
  BY <1>1, <1>2, <1>3 DEF Next

LEMMA SafetyHolds == Spec => []SafetyInv
<1>1. Init => SafetyInv
  BY RuntimeInit, PassengersInit DEF Init, SafetyInv
<1> QED
  BY <1>1, SafetyStep, PTL DEF Spec

LEMMA TypesFollow == SafetyInv => STypeOK
<1> SUFFICES ASSUME SafetyInv PROVE STypeOK
  OBVIOUS
<1>1. RTypeOK
  BY DEF SafetyInv, RuntimeInv
<1>2. TableOK(table) /\ said \in Seq(SaidRecords) /\ request \in [Requests -> RequestRecords]
  BY DEF SafetyInv, PassengersInv, SessionsInv
<1> QED
  BY <1>1, <1>2, Zenon DEF STypeOK, TableOK, SaidRecords, RequestRecords

\* The table keeps its caps, each session its turns, and every request and run its fields:
\* at most MaxSessions sessions, each once, of at most MaxTurns pairs.
THEOREM SessionTypesHold == Spec => []STypeOK
BY SafetyHolds, TypesFollow, PTL

LEMMA BestFollows == SafetyInv => AnsweredAtBest
<1> SUFFICES ASSUME SafetyInv PROVE AnsweredAtBest
  OBVIOUS
<1>1. RuntimeInv /\ PassengersInv
  BY DEF SafetyInv
<1>2. ASSUME NEW r \in Requests
      PROVE  /\ request[r].reply = "template" =>
                   settings.llm # "on" \/ request[r].refused = settings.keyed
             /\ request[r].reply = "unheard" => request[r].voice /\ ~request[r].text
             /\ request[r].stage = "done" => request[r].reply # "none"
  <2>1. RequestSound(request[r])
    BY <1>1 DEF PassengersInv
  <2>2. Named(ChatProviders, Keyed) = settings.keyed
    <3>1. settings.keyed \subseteq Providers
      BY <1>1, RuntimeAssumption DEF RuntimeInv, RTypeOK
    <3>2. Providers \subseteq ToSet(ChatProviders)
      BY SessionsAssumption
    <3>3. ToSet(ChatProviders) = {ChatProviders[i] : i \in DOMAIN ChatProviders}
      BY DEF ToSet
    <3>4. \A k \in settings.keyed : \E i \in Keyed : k = ChatProviders[i]
      BY <3>1, <3>2, <3>3 DEF Keyed
    <3>5. \A i \in Keyed : ChatProviders[i] \in settings.keyed
      BY DEF Keyed
    <3> QED
      BY <3>4, <3>5 DEF Named
  <2> QED
    BY <2>1, <2>2 DEF RequestSound
<1>3. ASSUME NEW r \in Runs, run[r].answer = "template"
      PROVE  settings.llm = "off" \/ run[r].refused = {Tier[i] : i \in chain}
  <2>1. RunSound(settings.llm, chain, run[r])
    BY <1>1 DEF RuntimeInv, RunsSound
  <2> QED
    BY <1>3, <2>1 DEF RunSound, Named
<1> QED
  BY <1>2, <1>3 DEF AnsweredAtBest

\* The template is the last resort: a passenger gets it only when every provider with a
\* key has failed him, and a run only when every provider of its chain has.
THEOREM TemplateIsLast == Spec => []AnsweredAtBest
BY SafetyHolds, BestFollows, PTL

LEMMA MemoryFollows == SafetyInv => RemembersRecent
<1> SUFFICES ASSUME SafetyInv PROVE RemembersRecent
  OBVIOUS
<1>1. SessionsInv
  BY DEF SafetyInv, PassengersInv
<1> SUFFICES ASSUME NEW s \in Sessions
             PROVE  LET kept == Births(s) # {} /\ Cardinality(Younger(s)) < MaxSessions
                        turns == table.turns[s]
                    IN  /\ Contains(table.order, s) <=> kept
                        /\ Len(turns) = IF kept THEN 2 * Min({Cardinality(Answered(s)), MaxTurns})
                                        ELSE 0
                        /\ kept => \A i \in Answered(s) :
                              FromEnd(s, i) <= MaxTurns => PairIs(turns, FromEnd(s, i), said[i].of)
  BY DEF RemembersRecent
<1> DEFINE kept == Births(s) # {} /\ Cardinality(Younger(s)) < MaxSessions
           turns == table.turns[s]
<1>2. SessionSound(s) /\ TableOK(table) /\ said \in Seq(SaidRecords)
  BY <1>1 DEF SessionsInv
<1>3. CASE Contains(table.order, s)
  <2>1. PICK p \in 1 .. Len(table.order) : table.order[p] = s
    BY <1>3 DEF Contains
  <2>2. Births(s) # {} /\ Cardinality(Younger(s)) = Len(table.order) - p
    BY <1>2, <2>1 DEF SessionSound
  <2>3. Len(table.order) \in Nat /\ Len(table.order) <= MaxSessions /\ MaxSessions \in Nat
    BY <1>2, Caps DEF TableOK
  <2>4. kept
    BY <2>2, <2>3
  <2>5. Recalls(s)
    BY <1>2, <1>3 DEF SessionSound
  <2> HIDE DEF kept
  <2>6. /\ Len(turns) = 2 * Min({Cardinality(Answered(s)), MaxTurns})
        /\ \A i \in Answered(s) :
              FromEnd(s, i) <= MaxTurns => PairIs(turns, FromEnd(s, i), said[i].of)
    BY <2>5 DEF Recalls
  <2> HIDE DEF turns
  <2>7. /\ Contains(table.order, s) <=> kept
        /\ Len(turns) = IF kept THEN 2 * Min({Cardinality(Answered(s)), MaxTurns}) ELSE 0
        /\ kept => \A i \in Answered(s) :
              FromEnd(s, i) <= MaxTurns => PairIs(turns, FromEnd(s, i), said[i].of)
    BY <1>3, <2>4, <2>6
  <2> QED
    BY <2>7 DEF kept, turns
<1>4. CASE ~Contains(table.order, s)
  <2>1. Births(s) # {} => Cardinality(Younger(s)) >= MaxSessions
    BY <1>2, <1>4 DEF SessionSound
  <2>2. Cardinality(Younger(s)) \in Nat /\ MaxSessions \in Nat
    <3>1. Len(said) \in Nat /\ Younger(s) \subseteq 1 .. Len(said)
      BY <1>2, SaidPlaces
    <3> QED
      BY <3>1, CountOneMore, Caps
  <2>3. ~kept
    BY <2>1, <2>2
  <2>4. Len(turns) = 0
    BY <1>2, <1>4 DEF TableOK
  <2> HIDE DEF kept, turns
  <2>5. /\ Contains(table.order, s) <=> kept
        /\ Len(turns) = IF kept THEN 2 * Min({Cardinality(Answered(s)), MaxTurns}) ELSE 0
        /\ kept => \A i \in Answered(s) :
              FromEnd(s, i) <= MaxTurns => PairIs(turns, FromEnd(s, i), said[i].of)
    BY <1>4, <2>3, <2>4
  <2> QED
    BY <2>5 DEF kept, turns
<1> QED
  BY <1>3, <1>4

\* What _remember keeps, in whatever order the answers come: a session stays until
\* MaxSessions newer ones are created, and holds the last MaxTurns whole pairs of question
\* and answer of those given in it since it was created.
THEOREM MemoryOfPassengers == Spec => []RemembersRecent
BY SafetyHolds, MemoryFollows, PTL
=============================================================================
