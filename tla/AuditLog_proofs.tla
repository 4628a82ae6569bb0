--------------------------- MODULE AuditLog_proofs ---------------------------
(***************************************************************************)
(* Proofs about EventFanout and AuditLog for any set of connections, all   *)
(* buffer sizes and all bounds.  First the bus and its connections alone:  *)
(* the bounds and the order of what each of them holds, and that each is a *)
(* LossyStream.  Then, with the audit sink, the ledger and restarts beside *)
(* them: every connection still is one, the decision rows are what the     *)
(* event log says, and verdicts stay.                                      *)
(***************************************************************************)
EXTENDS AuditLog, SequenceTheorems, SequenceLemmas

\* The envelope a connection's client got last, or will have got when the one being sent
\* arrives.
Reached(c) == IF sending[c] = 0 THEN last[c] ELSE sending[c]

\* What the client receives next does not lie before what it has; between the two
\* envelopes are missing only if those after them fill a queue.
NextInOrder(c) ==
    /\ last[c] <= published
    /\ sending[c] # 0 => /\ sending[c] > last[c]
                         /\ sending[c] > last[c] + 1 => sending[c] - 1 + QueueSize <= published

\* The snapshot continues what the client has, the queue ends with the newest envelope,
\* and there is a gap between the two only while the queue is full.
HoldsRest(c) ==
    /\ \A i \in 1 .. Len(history[c]) : history[c][i] = Reached(c) + i
    /\ \A i \in 1 .. Len(queue[c]) : queue[c][i] = published - Len(queue[c]) + i
    /\ Reached(c) + Len(history[c]) <= published - Len(queue[c])
    /\ Reached(c) + Len(history[c]) = published - Len(queue[c]) \/ Len(queue[c]) = QueueSize

\* The replay buffer: the newest envelopes of this process, as many as it can hold.
ReplayIsTail ==
    /\ Len(replay) = IF published - since > ReplaySize THEN ReplaySize ELSE published - since
    /\ \A i \in 1 .. Len(replay) : replay[i] = published - Len(replay) + i

\* Whoever is connected, or gone unnoticed, listens; whoever is not holds nothing.
ListenersLinked ==
    \A c \in Connections :
        /\ Contains(listeners, c) <=> link[c] # "closed"
        /\ link[c] = "closed" => /\ history[c] = <<>> /\ queue[c] = <<>>
                                 /\ sending[c] = 0

StreamsHold == \A c \in Connections : link[c] = "open" => NextInOrder(c) /\ HoldsRest(c)

FanoutInv == FTypeOK /\ ReplayIsTail /\ ListenersLinked /\ StreamsHold
-----------------------------------------------------------------------------
(* Sequences. *)

\* What list.remove leaves of a list without repetitions.
LEMMA RemoveFirstLeaves ==
    ASSUME NEW S, NEW s \in Seq(S), IsInjective(s), NEW e \in S
    PROVE  /\ RemoveFirst(s, e) \in Seq(S) /\ IsInjective(RemoveFirst(s, e))
           /\ \A x : Contains(RemoveFirst(s, e), x) <=> Contains(s, x) /\ x # e
<1>1. CASE ~ \E i \in 1 .. Len(s) : s[i] = e
  BY <1>1 DEF RemoveFirst, Contains
<1>2. CASE \E i \in 1 .. Len(s) : s[i] = e
  <2>1. PICK k \in 1 .. Len(s) : s[k] = e
    BY <1>2
  <2>2. {i \in 1 .. Len(s) : s[i] = e} = {k}
    BY <2>1 DEF IsInjective
  <2>3. Min({k}) = k
    BY DEF Min
  <2>4. RemoveFirst(s, e) = RemoveAt(s, k)
    BY <1>2, <2>2, <2>3 DEF RemoveFirst, SelectInSeq
  <2> DEFINE r == RemoveAt(s, k)
  <2>5. /\ r \in Seq(S) /\ Len(r) = Len(s) - 1
        /\ \A i \in 1 .. Len(s) - 1 : r[i] = IF i < k THEN s[i] ELSE s[i + 1]
    <3> DEFINE a == SubSeq(s, 1, k - 1)
               b == SubSeq(s, k + 1, Len(s))
    <3>1. a \in Seq(S) /\ Len(a) = k - 1 /\ \A i \in 1 .. k - 1 : a[i] = s[i]
      BY <2>1
    <3>2. /\ b \in Seq(S) /\ Len(b) = Len(s) - k
          /\ \A i \in 1 .. Len(s) - k : b[i] = s[k + i]
      BY <2>1
    <3> HIDE DEF a, b
    <3>3. /\ a \o b \in Seq(S) /\ Len(a \o b) = Len(s) - 1
          /\ \A i \in 1 .. Len(s) - 1 : (a \o b)[i] = IF i < k THEN a[i] ELSE b[i - k + 1]
      <4>1. /\ a \o b \in Seq(S) /\ Len(a \o b) = Len(a) + Len(b)
            /\ \A i \in 1 .. Len(a) + Len(b) :
                  (a \o b)[i] = IF i <= Len(a) THEN a[i] ELSE b[i - Len(a)]
        BY <3>1, <3>2, ConcatProperties
      <4>2. Len(s) \in Nat /\ k - 1 + (Len(s) - k) = Len(s) - 1
        BY <2>1
      <4>3. \A i \in 1 .. Len(s) - 1 : (i <= k - 1 <=> i < k) /\ i - (k - 1) = i - k + 1
        BY <2>1
      <4> QED
        BY <3>1, <3>2, <4>1, <4>2, <4>3
    <3>4. \A i \in 1 .. Len(s) - 1 : (a \o b)[i] = IF i < k THEN s[i] ELSE s[i + 1]
      <4> TAKE i \in 1 .. Len(s) - 1
      <4>1. CASE i < k
        BY <2>1, <3>1, <3>3, <4>1
      <4>2. CASE ~ (i < k)
        <5>1. i - k + 1 \in 1 .. Len(s) - k /\ k + (i - k + 1) = i + 1
          BY <2>1, <4>2
        <5> QED
          BY <3>2, <3>3, <4>2, <5>1
      <4> QED
        BY <4>1, <4>2
    <3> QED
      BY <3>3, <3>4 DEF RemoveAt, a, b
  <2> HIDE DEF r
  <2>6. IsInjective(r)
    BY <2>1, <2>5 DEF IsInjective
  <2>7. ASSUME NEW x, Contains(r, x) PROVE Contains(s, x) /\ x # e
    BY <2>1, <2>5, <2>7 DEF Contains, IsInjective
  <2>8. ASSUME NEW x, Contains(s, x), x # e PROVE Contains(r, x)
    <3>1. PICK i \in 1 .. Len(s) : s[i] = x
      BY <2>8 DEF Contains
    <3>2. CASE i < k
      BY <2>1, <2>5, <3>1, <3>2 DEF Contains
    <3>3. CASE i > k
      <4>1. i - 1 \in 1 .. Len(s) - 1 /\ r[i - 1] = s[i]
        BY <2>1, <2>5, <3>3
      <4> QED
        BY <2>5, <3>1, <4>1 DEF Contains
    <3> QED
      BY <2>1, <2>8, <3>1, <3>2, <3>3
  <2> QED
    BY <2>4, <2>5, <2>6, <2>7, <2>8 DEF r
<1> QED
  BY <1>1, <1>2
-----------------------------------------------------------------------------
(* The bounds and the types. *)

LEMMA FanoutTypesInit == FInit => FTypeOK
BY FanoutAssumption DEF FInit, FTypeOK, Silent, Zero, Numbers, IsInjective

\* One more envelope in a buffer of n that is not larger than that.
LEMMA BoundedAppend ==
    ASSUME NEW S, NEW s \in Seq(S), NEW n \in Nat \ {0}, Len(s) <= n, NEW e \in S
    PROVE  LET t == Append(IF Len(s) = n THEN Tail(s) ELSE s, e)
           IN  /\ t \in Seq(S) /\ Len(t) = IF Len(s) = n THEN n ELSE Len(s) + 1
               /\ \A i \in 1 .. Len(t) :
                     t[i] = IF i = Len(t) THEN e ELSE IF Len(s) = n THEN s[i + 1] ELSE s[i]
<1>1. CASE Len(s) = n
  <2>1. s # <<>>
    BY <1>1
  <2> QED
    BY <1>1, <2>1, TailShifts, AppendOne
<1>2. CASE Len(s) # n
  BY <1>2, AppendOne
<1> QED
  BY <1>1, <1>2

\* A buffer that ends with envelope p goes on to end with p + 1.
LEMMA NewestAppended ==
    ASSUME NEW s \in Seq(Nat), NEW n \in Nat \ {0}, Len(s) <= n, NEW p \in Nat,
           \A i \in 1 .. Len(s) : s[i] = p - Len(s) + i
    PROVE  LET t == Append(IF Len(s) = n THEN Tail(s) ELSE s, p + 1)
           IN  \A i \in 1 .. Len(t) : t[i] = p + 1 - Len(t) + i
<1> DEFINE t == Append(IF Len(s) = n THEN Tail(s) ELSE s, p + 1)
<1>1. /\ Len(t) = IF Len(s) = n THEN n ELSE Len(s) + 1
      /\ \A i \in 1 .. Len(t) :
            t[i] = IF i = Len(t) THEN p + 1 ELSE IF Len(s) = n THEN s[i + 1] ELSE s[i]
  BY BoundedAppend
<1>2. Len(s) \in Nat /\ Len(t) \in Nat
  BY <1>1
<1> HIDE DEF t
<1>3. ASSUME NEW i \in 1 .. Len(t) PROVE t[i] = p + 1 - Len(t) + i
  <2>1. CASE i = Len(t)
    BY <1>1, <1>2, <2>1
  <2>2. CASE i # Len(t) /\ Len(s) = n
    <3>1. i + 1 \in 1 .. Len(s) /\ Len(t) = Len(s) /\ t[i] = s[i + 1]
      BY <1>1, <1>2, <2>2
    <3>2. s[i + 1] = p - Len(s) + (i + 1)
      BY <3>1
    <3> QED
      BY <1>2, <3>1, <3>2
  <2>3. CASE i # Len(t) /\ Len(s) # n
    <3>1. i \in 1 .. Len(s) /\ Len(t) = Len(s) + 1 /\ t[i] = s[i]
      BY <1>1, <1>2, <2>3
    <3> QED
      BY <1>2, <3>1
  <2> QED
    BY <2>1, <2>2, <2>3
<1> QED
  BY <1>3 DEF t

\* What is left of such a buffer when its oldest envelope is taken.
LEMMA OldestTaken ==
    ASSUME NEW s \in Seq(Nat), s # <<>>, NEW p \in Int,
           \A i \in 1 .. Len(s) : s[i] = p - Len(s) + i
    PROVE  /\ Head(s) = p - Len(s) + 1
           /\ \A i \in 1 .. Len(Tail(s)) : Tail(s)[i] = p - Len(Tail(s)) + i
<1> DEFINE t == Tail(s)
<1>1. /\ Len(s) \in Nat \ {0} /\ Len(t) = Len(s) - 1 /\ Head(s) = s[1]
      /\ \A i \in 1 .. Len(s) - 1 : t[i] = s[i + 1]
  BY TailShifts
<1> HIDE DEF t
<1>2. ASSUME NEW i \in 1 .. Len(t) PROVE t[i] = p - Len(t) + i
  <2>1. i + 1 \in 1 .. Len(s) /\ t[i] = s[i + 1]
    BY <1>1
  <2>2. s[i + 1] = p - Len(s) + (i + 1)
    BY <2>1
  <2> QED
    BY <1>1, <2>1, <2>2
<1> QED
  BY <1>1, <1>2 DEF t

LEMMA FanoutTypesStep == ASSUME FanoutInv, [FNext]_fanout PROVE FTypeOK'
<1> USE FanoutAssumption DEF FanoutInv
<1>a. published \in Nat /\ \A S : Numbers \subseteq S => Seq(Numbers) \subseteq Seq(S)
  BY SeqMonotonic DEF FTypeOK
<1>1. CASE UNCHANGED fanout
  BY <1>1 DEF FTypeOK, fanout, sockets, Numbers
<1>2. CASE Publish
  <2>1. /\ published' = published + 1 /\ published' \in 0 .. MaxEnvelopes
        /\ UNCHANGED <<since, listeners, link, history, sending, last>>
    BY <1>2 DEF FTypeOK, Publish, sockets
  <2>2. Numbers \subseteq Numbers' /\ published' \in Numbers'
    BY <1>a, <2>1 DEF Numbers
  <2>3. Seq(Numbers) \subseteq Seq(Numbers')
    BY <1>a, <2>2
  <2>4. replay' \in Seq(Numbers') /\ Len(replay') <= ReplaySize
    <3>1. replay \in Seq(Numbers') /\ Len(replay) <= ReplaySize /\ ReplaySize \in Nat \ {0}
      BY <2>3 DEF FTypeOK
    <3> QED
      BY <1>2, <2>2, <3>1, BoundedAppend DEF Publish, Remember
  <2>5. ASSUME NEW c \in Connections
        PROVE  queue'[c] \in Seq(Numbers') /\ Len(queue'[c]) <= QueueSize
    <3>1. queue[c] \in Seq(Numbers') /\ Len(queue[c]) <= QueueSize /\ QueueSize \in Nat \ {0}
      BY <2>3 DEF FTypeOK
    <3>2. queue'[c] = queue[c] \/ queue'[c] = Enqueue(queue[c], published')
      BY <1>2 DEF Publish
    <3>3. /\ Enqueue(queue[c], published') \in Seq(Numbers')
          /\ Len(Enqueue(queue[c], published')) <= QueueSize
      BY <2>2, <3>1, BoundedAppend DEF Enqueue
    <3> QED
      BY <3>1, <3>2, <3>3
  <2>6. queue' \in [Connections -> Seq(Numbers')]
    BY <1>2, <2>5 DEF Publish
  <2>7. history' \in [Connections -> Seq(Numbers')]
    BY <2>1, <2>3 DEF FTypeOK
  <2>8. /\ sending' \in [Connections -> Numbers' \cup {0}]
        /\ last' \in [Connections -> Numbers' \cup {0}]
    BY <2>1, <2>2 DEF FTypeOK
  <2> QED
    BY <2>1, <2>4, <2>5, <2>6, <2>7, <2>8 DEF FTypeOK
<1>3. ASSUME NEW c \in Connections, Connect(c) PROVE FTypeOK'
  <2>1. /\ UNCHANGED <<published, since, replay, queue, sending>> /\ Numbers' = Numbers
        /\ history' = [history EXCEPT ![c] = replay]
        /\ last' = [last EXCEPT ![c] = published - Len(replay)]
        /\ link[c] = "closed" /\ link' = [link EXCEPT ![c] = "open"]
        /\ listeners' = Append(listeners, c)
    BY <1>3 DEF Connect, Numbers
  <2>2. published - Len(replay) \in Numbers \cup {0}
    <3>1. Len(replay) \in Nat /\ Len(replay) <= published
      BY <1>a DEF FTypeOK, ReplayIsTail
    <3> QED
      BY <1>a, <3>1 DEF Numbers
  <2>3. listeners' \in Seq(Connections) /\ IsInjective(listeners')
    <3>1. listeners \in Seq(Connections) /\ IsInjective(listeners) /\ ~ Contains(listeners, c)
      BY <2>1 DEF FTypeOK, ListenersLinked
    <3>2. \A i \in 1 .. Len(listeners) : listeners[i] # c
      BY <3>1 DEF Contains
    <3> QED
      BY <2>1, <3>1, <3>2, AppendOne DEF IsInjective
  <2>4. /\ history' \in [Connections -> Seq(Numbers)]
        /\ \A x \in Connections : Len(history'[x]) <= ReplaySize
    BY <2>1 DEF FTypeOK
  <2> QED
    BY <2>1, <2>2, <2>3, <2>4 DEF FTypeOK
<1>4. ASSUME NEW c \in Connections, Take(c) PROVE FTypeOK'
  <2>1. UNCHANGED <<published, since, replay, listeners, link, last>> /\ Numbers' = Numbers
    BY <1>4 DEF Take, Numbers
  <2>2. CASE history[c] # <<>>
    <3>1. /\ sending' = [sending EXCEPT ![c] = Head(history[c])]
          /\ history' = [history EXCEPT ![c] = Tail(history[c])] /\ queue' = queue
      BY <1>4, <2>2 DEF Take, FromHistory
    <3>2. /\ Tail(history[c]) \in Seq(Numbers) /\ Head(history[c]) \in Numbers
          /\ Len(Tail(history[c])) <= ReplaySize
      BY <2>2, TailShifts DEF FTypeOK
    <3> QED
      BY <2>1, <3>1, <3>2 DEF FTypeOK
  <2>3. CASE history[c] = <<>>
    <3>1. /\ sending' = [sending EXCEPT ![c] = Head(queue[c])] /\ queue[c] # <<>>
          /\ queue' = [queue EXCEPT ![c] = Tail(queue[c])] /\ history' = history
      BY <1>4, <2>3 DEF Take, FromHistory
    <3>2. /\ Tail(queue[c]) \in Seq(Numbers) /\ Head(queue[c]) \in Numbers
          /\ Len(Tail(queue[c])) <= QueueSize
      BY <3>1, TailShifts DEF FTypeOK
    <3> QED
      BY <2>1, <3>1, <3>2 DEF FTypeOK
  <2> QED
    BY <2>2, <2>3
<1>5. ASSUME NEW c \in Connections, Sent(c) \/ Leave(c) PROVE FTypeOK'
  BY <1>5 DEF FTypeOK, Sent, Leave, Numbers
<1>6. ASSUME NEW c \in Connections, Cleanup(c) PROVE FTypeOK'
  <2>1. listeners' \in Seq(Connections) /\ IsInjective(listeners')
    BY <1>6, RemoveFirstLeaves DEF FTypeOK, Cleanup, WithoutListener
  <2>2. /\ UNCHANGED <<published, since, replay, last>> /\ Numbers' = Numbers
        /\ link' = [link EXCEPT ![c] = "closed"] /\ sending' = [sending EXCEPT ![c] = 0]
        /\ history' = [history EXCEPT ![c] = <<>>] /\ queue' = [queue EXCEPT ![c] = <<>>]
    BY <1>6 DEF Cleanup, Numbers
  <2>3. <<>> \in Seq(Numbers) /\ Len(<<>>) <= ReplaySize /\ Len(<<>>) <= QueueSize
    OBVIOUS
  <2> QED
    BY <2>1, <2>2, <2>3 DEF FTypeOK
<1>7. CASE FRestart
  BY <1>7 DEF FTypeOK, FRestart, Silent, Zero, Numbers, IsInjective
<1> QED
  BY <1>1, <1>2, <1>3, <1>4, <1>5, <1>6, <1>7 DEF FNext, Socket
-----------------------------------------------------------------------------
(* The replay buffer and the listeners. *)

LEMMA ReplayStep == ASSUME FanoutInv, [FNext]_fanout PROVE ReplayIsTail'
<1> USE FanoutAssumption DEF FanoutInv
<1>1. published \in Nat /\ since \in 0 .. published /\ replay \in Seq(Numbers)
  BY DEF FTypeOK
<1>2. CASE Publish
  <2>1. /\ published' = published + 1 /\ since' = since
        /\ replay' = Remember(replay, published + 1)
    BY <1>2 DEF Publish, sockets
  <2>2. replay \in Seq(Nat) /\ Len(replay) <= ReplaySize /\ ReplaySize \in Nat \ {0}
    BY <1>1, SeqMonotonic DEF FTypeOK, Numbers
  <2>3. /\ Len(replay) = IF published - since > ReplaySize THEN ReplaySize ELSE published - since
        /\ \A i \in 1 .. Len(replay) : replay[i] = published - Len(replay) + i
        /\ Len(replay) \in Nat
    BY <1>1 DEF ReplayIsTail
  <2>4. Len(replay') = IF Len(replay) = ReplaySize THEN ReplaySize ELSE Len(replay) + 1
    BY <1>1, <2>1, <2>2, BoundedAppend DEF Remember
  <2>5. \A i \in 1 .. Len(replay') : replay'[i] = published' - Len(replay') + i
    <3> DEFINE t == Remember(replay, published + 1)
    <3>1. \A i \in 1 .. Len(t) : t[i] = published + 1 - Len(t) + i
      BY <1>1, <2>2, <2>3, NewestAppended, Zenon DEF Remember
    <3> HIDE DEF t
    <3>2. replay' = t
      BY <2>1 DEF t
    <3> QED
      BY <1>1, <2>1, <3>1, <3>2
  <2>6. Len(replay') = IF published' - since' > ReplaySize THEN ReplaySize ELSE published' - since'
    BY <1>1, <2>1, <2>2, <2>3, <2>4
  <2> QED
    BY <2>5, <2>6 DEF ReplayIsTail
<1>3. CASE FRestart
  BY <1>1, <1>3 DEF FRestart, ReplayIsTail
<1>4. CASE UNCHANGED fanout \/ \E c \in Connections : Socket(c)
  <2>1. UNCHANGED <<published, since, replay>>
    BY <1>4 DEF fanout, Socket, Connect, Take, Sent, Leave, Cleanup
  <2> QED
    BY <2>1 DEF ReplayIsTail
<1> QED
  BY <1>2, <1>3, <1>4 DEF FNext

LEMMA ListenersStep == ASSUME FanoutInv, [FNext]_fanout PROVE ListenersLinked'
<1> USE DEF FanoutInv
<1>1. CASE UNCHANGED fanout
  BY <1>1 DEF ListenersLinked, fanout, sockets
<1>2. CASE Publish
  BY <1>2 DEF ListenersLinked, Publish, sockets
<1>3. ASSUME NEW c \in Connections, Connect(c) PROVE ListenersLinked'
  <2>1. \A x : Contains(listeners', x) <=> Contains(listeners, x) \/ x = c
    <3>1. listeners \in Seq(Connections) /\ listeners' = Append(listeners, c)
      BY <1>3 DEF FTypeOK, Connect
    <3> QED
      BY <3>1, AppendOne DEF Contains
  <2> QED
    BY <1>3, <2>1 DEF ListenersLinked, Connect, FTypeOK
<1>4. ASSUME NEW c \in Connections, Take(c) \/ Sent(c) \/ Leave(c) PROVE ListenersLinked'
  BY <1>4 DEF ListenersLinked, Take, Sent, Leave, FTypeOK
<1>5. ASSUME NEW c \in Connections, Cleanup(c) PROVE ListenersLinked'
  <2>1. \A x : Contains(listeners', x) <=> Contains(listeners, x) /\ x # c
    BY <1>5, RemoveFirstLeaves DEF FTypeOK, Cleanup, WithoutListener
  <2> QED
    BY <1>5, <2>1 DEF ListenersLinked, Cleanup, FTypeOK
<1>6. CASE FRestart
  BY <1>6 DEF ListenersLinked, FRestart, Silent, Zero, Contains
<1> QED
  BY <1>1, <1>2, <1>3, <1>4, <1>5, <1>6 DEF FNext, Socket
-----------------------------------------------------------------------------
(* What a connection holds. *)

LEMMA StreamsStep == ASSUME FanoutInv, [FNext]_fanout PROVE StreamsHold'
<1> USE FanoutAssumption DEF FanoutInv
<1>a. /\ published \in Nat /\ QueueSize \in Nat \ {0}
      /\ \A c \in Connections :
            /\ sending[c] \in Nat /\ last[c] \in Nat /\ Reached(c) \in Nat
            /\ history[c] \in Seq(Nat) /\ queue[c] \in Seq(Nat) /\ Len(queue[c]) <= QueueSize
  <2>1. published \in Nat /\ Numbers \subseteq Nat
    BY DEF FTypeOK, Numbers
  <2>2. Seq(Numbers) \subseteq Seq(Nat)
    BY <2>1, SeqMonotonic
  <2>3. \A c \in Connections : sending[c] \in Nat /\ last[c] \in Nat
    <3>1. sending \in [Connections -> Numbers \cup {0}] /\ last \in [Connections -> Numbers \cup {0}]
      BY DEF FTypeOK
    <3>2. \A c \in Connections : sending[c] \in Numbers \cup {0} /\ last[c] \in Numbers \cup {0}
      BY <3>1
    <3>3. Numbers \cup {0} \subseteq Nat
      BY <2>1
    <3> QED
      BY <3>2, <3>3
  <2>4. \A c \in Connections : history[c] \in Seq(Nat) /\ queue[c] \in Seq(Nat)
    BY <2>2 DEF FTypeOK
  <2> QED
    BY <2>1, <2>3, <2>4 DEF FTypeOK, Reached
<1>b. ASSUME NEW c \in Connections, published' = published, link'[c] = "open" => link[c] = "open",
             history'[c] = history[c], queue'[c] = queue[c], sending'[c] = sending[c],
             link'[c] = "open" => last'[c] = last[c]
      PROVE  link'[c] = "open" => (NextInOrder(c) /\ HoldsRest(c))'
  BY <1>b DEF StreamsHold, NextInOrder, HoldsRest, Reached
<1>1. CASE UNCHANGED fanout
  BY <1>1, <1>b DEF StreamsHold, fanout, sockets
<1>2. CASE Publish
  <2> SUFFICES ASSUME NEW c \in Connections, link'[c] = "open"
               PROVE  (NextInOrder(c) /\ HoldsRest(c))'
    BY DEF StreamsHold
  <2>1. /\ published' = published + 1 /\ link[c] = "open" /\ history' = history
        /\ sending' = sending /\ last' = last /\ Contains(listeners, c)
    BY <1>2 DEF Publish, sockets, ListenersLinked
  <2>2. queue'[c] = Enqueue(queue[c], published + 1)
    BY <1>2, <2>1 DEF Publish
  <2>3. NextInOrder(c) /\ HoldsRest(c)
    BY <2>1 DEF StreamsHold
  <2>4. NextInOrder(c)'
    BY <1>a, <2>1, <2>3 DEF NextInOrder
  <2>5. /\ Len(queue'[c]) = IF Len(queue[c]) = QueueSize THEN QueueSize ELSE Len(queue[c]) + 1
        /\ queue'[c] \in Seq(Nat)
    BY <1>a, <2>2, BoundedAppend DEF Enqueue
  <2>6. \A i \in 1 .. Len(queue'[c]) : queue'[c][i] = published' - Len(queue'[c]) + i
    <3> DEFINE t == Enqueue(queue[c], published + 1)
    <3>1. \A i \in 1 .. Len(queue[c]) : queue[c][i] = published - Len(queue[c]) + i
      BY <2>3 DEF HoldsRest
    <3>2. \A i \in 1 .. Len(t) : t[i] = published + 1 - Len(t) + i
      BY <1>a, <3>1, NewestAppended, Zenon DEF Enqueue
    <3> HIDE DEF t
    <3>3. queue'[c] = t
      BY <2>2 DEF t
    <3> QED
      BY <1>a, <2>1, <3>2, <3>3
  <2>7. Reached(c)' = Reached(c) /\ Len(queue[c]) \in Nat /\ Len(history[c]) \in Nat
    BY <1>a, <2>1 DEF Reached
  <2>8. HoldsRest(c)'
    <3> DEFINE r == Reached(c)
               h == Len(history[c])
               q == Len(queue[c])
               q1 == Len(queue'[c])
    <3>1. r + h <= published - q /\ (r + h = published - q \/ q = QueueSize)
      BY <2>3 DEF HoldsRest
    <3>2. r \in Nat /\ h \in Nat /\ q \in Nat /\ q1 = IF q = QueueSize THEN QueueSize ELSE q + 1
      BY <1>a, <2>5, <2>7
    <3>3. \A i \in 1 .. Len(history'[c]) : history'[c][i] = Reached(c)' + i
      BY <2>1, <2>3, <2>7 DEF HoldsRest
    <3> HIDE DEF r, h, q, q1
    <3>4. r + h <= published + 1 - q1 /\ (r + h = published + 1 - q1 \/ q1 = QueueSize)
      BY <1>a, <3>1, <3>2
    <3>5. Reached(c)' = r /\ Len(history'[c]) = h /\ Len(queue'[c]) = q1
      BY <2>1, <2>7 DEF r, h, q1
    <3>6. /\ Reached(c)' + Len(history'[c]) <= published' - Len(queue'[c])
          /\ \/ Reached(c)' + Len(history'[c]) = published' - Len(queue'[c])
             \/ Len(queue'[c]) = QueueSize
      BY <1>a, <2>1, <3>2, <3>4, <3>5
    <3> QED
      BY <2>6, <3>3, <3>6 DEF HoldsRest
  <2> QED
    BY <2>4, <2>8
<1>3. ASSUME NEW c \in Connections, Connect(c) PROVE StreamsHold'
  <2>1. /\ UNCHANGED <<published, queue, sending>> /\ link[c] = "closed"
        /\ history' = [history EXCEPT ![c] = replay]
        /\ last' = [last EXCEPT ![c] = published - Len(replay)]
        /\ link' = [link EXCEPT ![c] = "open"]
    BY <1>3 DEF Connect
  <2>2. sending'[c] = 0 /\ queue'[c] = <<>> /\ history'[c] = replay
        /\ last'[c] = published - Len(replay)
    BY <2>1 DEF ListenersLinked, FTypeOK
  <2>3. Len(replay) \in Nat /\ Len(replay) <= published
        /\ \A i \in 1 .. Len(replay) : replay[i] = published - Len(replay) + i
    BY DEF ReplayIsTail, FTypeOK
  <2>4. (NextInOrder(c) /\ HoldsRest(c))'
    BY <1>a, <2>1, <2>2, <2>3 DEF NextInOrder, HoldsRest, Reached
  <2>5. ASSUME NEW x \in Connections, x # c
        PROVE  link'[x] = "open" => (NextInOrder(x) /\ HoldsRest(x))'
    BY <1>b, <2>1, <2>5 DEF FTypeOK
  <2> QED
    BY <2>4, <2>5 DEF StreamsHold
<1>4. ASSUME NEW c \in Connections, Take(c) PROVE StreamsHold'
  <2>1. UNCHANGED <<published, link, last>> /\ sending[c] = 0
    BY <1>4 DEF Take
  <2>2. ASSUME NEW x \in Connections, x # c
        PROVE  link'[x] = "open" => (NextInOrder(x) /\ HoldsRest(x))'
    <3>1. history'[x] = history[x] /\ queue'[x] = queue[x] /\ sending'[x] = sending[x]
      BY <1>4, <2>2 DEF Take, FTypeOK
    <3> QED
      BY <1>b, <2>1, <3>1
  <2>3. ASSUME link[c] = "open" PROVE (NextInOrder(c) /\ HoldsRest(c))'
    <3>1. NextInOrder(c) /\ HoldsRest(c) /\ Reached(c) = last[c]
      BY <2>1, <2>3 DEF StreamsHold, Reached
    <3>2. CASE history[c] # <<>>
      <4>1. /\ sending'[c] = history[c][1] /\ history'[c] = Tail(history[c])
            /\ queue'[c] = queue[c]
        BY <1>4, <3>2, TailShifts DEF Take, FromHistory, FTypeOK
      <4>2. /\ Len(history[c]) \in Nat \ {0} /\ Len(history'[c]) = Len(history[c]) - 1
            /\ \A i \in 1 .. Len(history[c]) - 1 : history'[c][i] = history[c][i + 1]
        BY <1>a, <3>2, <4>1, TailShifts
      <4>3. sending'[c] = last[c] + 1 /\ Reached(c)' = last[c] + 1
        BY <1>a, <3>1, <4>1, <4>2 DEF HoldsRest, Reached
      <4>4. \A i \in 1 .. Len(history'[c]) : history'[c][i] = Reached(c)' + i
        BY <1>a, <3>1, <4>2, <4>3 DEF HoldsRest
      <4>5. Len(queue[c]) \in Nat
        BY <1>a
      <4>6. NextInOrder(c)'
        BY <1>a, <2>1, <3>1, <4>2, <4>3, <4>5 DEF HoldsRest, NextInOrder
      <4>7. Reached(c)' + Len(history'[c]) = Reached(c) + Len(history[c])
        BY <1>a, <3>1, <4>2, <4>3
      <4> QED
        BY <2>1, <3>1, <4>1, <4>4, <4>6, <4>7 DEF HoldsRest
    <3>3. CASE history[c] = <<>>
      <4>1. /\ sending'[c] = queue[c][1] /\ queue'[c] = Tail(queue[c])
            /\ history'[c] = history[c] /\ queue[c] # <<>>
        BY <1>4, <3>3, TailShifts DEF Take, FromHistory, FTypeOK
      <4>2. /\ Len(queue[c]) \in Nat \ {0} /\ Len(queue'[c]) = Len(queue[c]) - 1
            /\ \A i \in 1 .. Len(queue[c]) - 1 : queue'[c][i] = queue[c][i + 1]
            /\ Len(history[c]) = 0
        BY <1>a, <3>3, <4>1, TailShifts
      <4> DEFINE n == Len(queue[c])
      <4>3. /\ n \in Nat \ {0} /\ last[c] <= published - n
            /\ last[c] = published - n \/ n = QueueSize
            /\ Len(queue'[c]) = n - 1 /\ Len(history'[c]) = 0
        BY <1>a, <3>1, <4>1, <4>2 DEF HoldsRest
      <4>4. /\ queue[c][1] = published - n + 1
            /\ \A i \in 1 .. Len(queue'[c]) : queue'[c][i] = published - Len(queue'[c]) + i
        <5>1. \A i \in 1 .. Len(queue[c]) : queue[c][i] = published - Len(queue[c]) + i
          BY <3>1 DEF HoldsRest
        <5>2. queue[c] \in Seq(Nat) /\ published \in Int
          BY <1>a
        <5>3. Head(queue[c]) = queue[c][1]
          BY <4>1, <5>2, TailShifts
        <5> QED
          BY <4>1, <5>1, <5>2, <5>3, OldestTaken
      <4> HIDE DEF n
      <4>5. sending'[c] = published - n + 1 /\ sending'[c] # 0
        BY <1>a, <4>1, <4>3, <4>4
      <4>6. NextInOrder(c)'
        BY <1>a, <2>1, <4>3, <4>5 DEF NextInOrder
      <4>7. Reached(c)' = published - Len(queue'[c])
        BY <1>a, <4>3, <4>5 DEF Reached
      <4>8. \A i \in 1 .. Len(history'[c]) : FALSE
        BY <4>3
      <4>9. Reached(c)' + Len(history'[c]) = published - Len(queue'[c])
        BY <1>a, <4>3, <4>7
      <4> QED
        <5>1. published - Len(queue'[c]) <= published - Len(queue'[c])
          BY <1>a, <4>3
        <5> QED
          BY <2>1, <4>4, <4>6, <4>8, <4>9, <5>1 DEF HoldsRest
    <3> QED
      BY <3>2, <3>3
  <2> QED
    BY <2>1, <2>2, <2>3 DEF StreamsHold
<1>5. ASSUME NEW c \in Connections, Sent(c) PROVE StreamsHold'
  <2>1. /\ UNCHANGED <<published, queue, link, history>> /\ sending[c] # 0
        /\ sending' = [sending EXCEPT ![c] = 0]
        /\ last' = IF link[c] = "open" THEN [last EXCEPT ![c] = sending[c]] ELSE last
    BY <1>5 DEF Sent
  <2>2. ASSUME NEW x \in Connections, x # c
        PROVE  link'[x] = "open" => (NextInOrder(x) /\ HoldsRest(x))'
    BY <1>b, <2>1, <2>2 DEF FTypeOK
  <2>3. ASSUME link[c] = "open" PROVE (NextInOrder(c) /\ HoldsRest(c))'
    <3>1. NextInOrder(c) /\ HoldsRest(c)
      BY <2>3 DEF StreamsHold
    <3>2. sending'[c] = 0 /\ last'[c] = sending[c] /\ Reached(c)' = Reached(c)
      BY <2>1, <2>3 DEF FTypeOK, Reached
    <3>3. sending[c] <= published
      BY DEF FTypeOK, Numbers
    <3> QED
      BY <2>1, <3>1, <3>2, <3>3 DEF HoldsRest, NextInOrder
  <2> QED
    BY <2>1, <2>2, <2>3 DEF StreamsHold
<1>6. ASSUME NEW c \in Connections, Leave(c) \/ Cleanup(c) PROVE StreamsHold'
  <2>1. published' = published /\ link'[c] # "open"
    BY <1>6 DEF Leave, Cleanup, FTypeOK
  <2>2. ASSUME NEW x \in Connections, x # c
        PROVE  link'[x] = "open" => (NextInOrder(x) /\ HoldsRest(x))'
    BY <1>b, <1>6, <2>2 DEF FTypeOK, Leave, Cleanup
  <2> QED
    BY <2>1, <2>2 DEF StreamsHold
<1>7. CASE FRestart
  BY <1>7 DEF FRestart, StreamsHold
<1> QED
  BY <1>1, <1>2, <1>3, <1>4, <1>5, <1>6, <1>7 DEF FNext, Socket

\* The invariant holds from the start, and every step keeps it.
LEMMA FanoutInvInit == FInit => FanoutInv
BY FanoutTypesInit, FanoutAssumption
   DEF FInit, FanoutInv, ReplayIsTail, ListenersLinked, StreamsHold, Silent, Zero, Contains

LEMMA FanoutInvStep == ASSUME FanoutInv, [FNext]_fanout PROVE FanoutInv'
BY FanoutTypesStep, ReplayStep, ListenersStep, StreamsStep DEF FanoutInv
-----------------------------------------------------------------------------
(* Each connection is a LossyStream. *)

LEMMA StreamStarts == ASSUME FInit, NEW c \in Connections PROVE Stream(c)!Init
BY DEF FInit, Stream!Init, Zero

LEMMA StreamSteps ==
    ASSUME FanoutInv, [FNext]_fanout, NEW c \in Connections
    PROVE  [Stream(c)!Next]_(Stream(c)!vars)
<1> USE DEF FanoutInv
<1>a. /\ published \in Nat /\ since \in 0 .. published /\ QueueSize \in Nat /\ ReplaySize \in Nat
      /\ last \in [Connections -> Nat] /\ sending \in [Connections -> Nat]
      /\ link \in [Connections -> {"closed", "open", "gone"}]
  BY FanoutAssumption DEF FTypeOK, Numbers
<1>b. ASSUME UNCHANGED <<published, since>>, link'[c] = "open" <=> link[c] = "open",
             last'[c] = last[c]
      PROVE  UNCHANGED Stream(c)!vars
  BY <1>b DEF Stream!vars
<1>1. CASE UNCHANGED fanout
  BY <1>1, <1>b DEF fanout, sockets
<1>2. CASE Publish
  BY <1>2 DEF Publish, sockets, Stream!Next, Stream!Publish
<1>3. ASSUME NEW x \in Connections, Connect(x) PROVE [Stream(c)!Next]_(Stream(c)!vars)
  <2>1. CASE x = c
    <3>1. published - Len(replay) = Stream(c)!ReplayStart
      BY <1>a DEF ReplayIsTail, Stream!ReplayStart
    <3>2. /\ link[c] # "open" /\ link'[c] = "open" /\ UNCHANGED <<published, since>>
          /\ last'[c] = published - Len(replay)
      BY <1>3, <1>a, <2>1 DEF Connect
    <3> QED
      BY <3>1, <3>2 DEF Stream!Next, Stream!Connect
  <2>2. CASE x # c
    BY <1>3, <1>a, <1>b, <2>2 DEF Connect
  <2> QED
    BY <2>1, <2>2
<1>4. ASSUME NEW x \in Connections, Take(x) PROVE UNCHANGED Stream(c)!vars
  BY <1>4, <1>b DEF Take
<1>5. ASSUME NEW x \in Connections, Sent(x) PROVE [Stream(c)!Next]_(Stream(c)!vars)
  <2>1. UNCHANGED <<published, since, link>>
    BY <1>5 DEF Sent
  <2>2. CASE x = c /\ link[c] = "open"
    <3>1. last'[c] = sending[c] /\ sending[c] # 0
      BY <1>5, <1>a, <2>2 DEF Sent
    <3>2. sending[c] > last[c] /\ sending[c] \in Nat /\ sending[c] <= published
          /\ (sending[c] > last[c] + 1 => sending[c] - 1 + QueueSize <= published)
      BY <2>2, <3>1 DEF StreamsHold, NextInOrder, FTypeOK, Numbers
    <3>3. sending[c] \in last[c] + 1 .. published
      BY <1>a, <3>2
    <3> QED
      BY <2>1, <2>2, <3>1, <3>2, <3>3 DEF Stream!Next, Stream!Receive
  <2>3. CASE x # c \/ link[c] # "open"
    BY <1>5, <1>a, <1>b, <2>1, <2>3 DEF Sent
  <2> QED
    BY <2>2, <2>3
<1>6. ASSUME NEW x \in Connections, Leave(x) PROVE [Stream(c)!Next]_(Stream(c)!vars)
  <2>1. CASE x = c
    BY <1>6, <1>a, <2>1 DEF Leave, Stream!Next, Stream!Close
  <2>2. CASE x # c
    BY <1>6, <1>a, <1>b, <2>2 DEF Leave
  <2> QED
    BY <2>1, <2>2
<1>7. ASSUME NEW x \in Connections, Cleanup(x) PROVE UNCHANGED Stream(c)!vars
  BY <1>7, <1>a, <1>b DEF Cleanup
<1>8. CASE FRestart
  BY <1>8 DEF FRestart, Zero, Stream!Next, Stream!Restart
<1> QED
  BY <1>1, <1>2, <1>3, <1>4, <1>5, <1>6, <1>7, <1>8 DEF FNext, Socket
-----------------------------------------------------------------------------
\* An action of the composition is a step of the bus and its connections, or none.
LEMMA StepsOfFanout == [Next]_avars => [FNext]_fanout
BY DEF Next, avars, FNext, Propose, Decide, Resolve, OtherEvent, Emit, ClearLedger, Restart

\* The fairness of the connections' tasks plays no part in safety.
LEMMA SafetyPart == Spec => AInit /\ [][Next]_avars
BY DEF Spec

\* The bus and its connections: the replay buffer is the newest envelopes of this
\* process, every listener belongs to a connection, and what a connection holds continues
\* what its client has.
THEOREM FanoutInvariant == Spec => []FanoutInv
<1>1. AInit => FanoutInv
  BY FanoutInvInit DEF AInit
<1>2. FanoutInv /\ [Next]_avars => FanoutInv'
  BY FanoutInvStep, StepsOfFanout
<1> QED
  BY <1>1, <1>2, SafetyPart, PTL

\* Each connection is the LossyStream it promises: the snapshot, the live queue and the
\* sends of one connection never lose, repeat or reorder an envelope, unless the client is
\* QueueSize behind.
THEOREM ConnectionsKeepOrder == Spec => StreamsInOrder
<1>1. AInit => \A c \in Connections : Stream(c)!Init
  BY StreamStarts DEF AInit
<1>2. FanoutInv /\ [Next]_avars
      => [\A c \in Connections : [Stream(c)!Next]_(Stream(c)!vars)]_fanout
  BY StreamSteps, StepsOfFanout
<1> QED
  BY <1>1, <1>2, SafetyPart, FanoutInvariant, PTL DEF StreamsInOrder
-----------------------------------------------------------------------------
(* Types. *)

LEMMA EventKinds ==
    /\ Other \in Events
    /\ \A d \in Decisions : Proposed(d) \in Events
    /\ \A d \in Decisions, s \in Verdicts, by \in {"orchestrator", "human"} :
          Resolved(d, s, by) \in Events
    /\ \A e \in Events :
          /\ e.topic \in {"other", "decision.proposed", "decision.resolved"}
          /\ e.topic # "other" => e.dec \in Decisions
          /\ e.topic = "decision.resolved" =>
                e.status \in Verdicts /\ e.by \in {"orchestrator", "human"}
<1>1. ASSUME NEW e \in Events
      PROVE  \/ e = Other
             \/ \E d \in Decisions : e = Proposed(d)
             \/ \E d \in Decisions, s \in Verdicts, by \in {"orchestrator", "human"} :
                   e = Resolved(d, s, by)
  <2> DEFINE A == {Proposed(d) : d \in Decisions}
             B == {Resolved(d, s, by) :
                      d \in Decisions, s \in Verdicts, by \in {"orchestrator", "human"}}
  <2>1. e = Other \/ e \in A \/ e \in B
    BY DEF Events
  <2>2. e \in A => \E d \in Decisions : e = Proposed(d)
    OBVIOUS
  <2>3. e \in B => \E d \in Decisions, s \in Verdicts, by \in {"orchestrator", "human"} :
                      e = Resolved(d, s, by)
    OBVIOUS
  <2> QED
    BY <2>1, <2>2, <2>3
<1>2. ASSUME NEW e \in Events
      PROVE  /\ e.topic \in {"other", "decision.proposed", "decision.resolved"}
             /\ e.topic # "other" => e.dec \in Decisions
             /\ e.topic = "decision.resolved" =>
                   e.status \in Verdicts /\ e.by \in {"orchestrator", "human"}
  <2>1. CASE e = Other
    BY <2>1 DEF Other
  <2>2. CASE \E d \in Decisions : e = Proposed(d)
    BY <2>2 DEF Proposed
  <2>3. ASSUME NEW d \in Decisions, NEW s \in Verdicts, NEW by \in {"orchestrator", "human"},
               e = Resolved(d, s, by)
        PROVE  /\ e.topic = "decision.resolved" /\ e.dec \in Decisions
               /\ e.status \in Verdicts /\ e.by \in {"orchestrator", "human"}
    BY <2>3 DEF Resolved
  <2> QED
    BY <1>1, <2>1, <2>2, <2>3
<1>3. Other \in Events /\ \A d \in Decisions : Proposed(d) \in Events
  BY DEF Events
<1>4. ASSUME NEW d \in Decisions, NEW s \in Verdicts, NEW by \in {"orchestrator", "human"}
      PROVE  Resolved(d, s, by) \in Events
  BY DEF Events
<1> QED
  BY <1>2, <1>3, <1>4

Rows == [Decisions -> [status : {"none", "proposed"} \cup Verdicts,
                       by : {"nobody", "orchestrator", "human"}]]

LEMMA HandleTypes == ASSUME rows \in Rows, NEW e \in Events PROVE Handle(e) \in Rows
BY EventKinds DEF Handle, Rows

\* What publishing does to the sink's tables, whoever publishes.
LEMMA EmitTypes ==
    ASSUME ATypeOK, NEW e \in Events, Emit(e)
    PROVE  /\ log' \in Seq(Events) /\ Len(log') + failures' = published'
           /\ rows' \in Rows /\ failures' \in 0 .. MaxFailures
<1>1. log \in Seq(Events) /\ Len(log) \in Nat /\ failures \in Nat /\ published \in Nat
  BY DEF ATypeOK, FTypeOK
<1>2. published' = published + 1
  BY DEF Emit, Publish
<1>3. CASE log' = Append(log, e) /\ rows' = Handle(e) /\ UNCHANGED failures
  <2>1. log' \in Seq(Events) /\ Len(log') = Len(log) + 1
    BY <1>1, <1>3, AppendOne
  <2>2. Len(log) + failures = published
    BY DEF ATypeOK
  <2> QED
    BY <1>1, <1>2, <1>3, <2>1, <2>2, HandleTypes DEF ATypeOK, Rows
<1>4. CASE failures < MaxFailures /\ failures' = failures + 1 /\ UNCHANGED <<log, rows>>
  BY <1>1, <1>2, <1>4, AuditAssumption DEF ATypeOK, Rows
<1> QED
  BY <1>3, <1>4 DEF Emit, Persist

LEMMA AuditTypesInit == AInit => ATypeOK
BY FanoutTypesInit, AuditAssumption DEF AInit, FInit, ATypeOK, Decisions, NoRow

LEMMA AuditTypesStep == ASSUME ATypeOK, FTypeOK', [Next]_avars PROVE ATypeOK'
<1> USE AuditAssumption
<1>1. CASE UNCHANGED <<audit, published>>
  BY <1>1 DEF ATypeOK, audit
<1>2. CASE Propose
  <2>1. counter' \in 0 .. MaxDecisions /\ counter' \in Decisions
    BY <1>2 DEF ATypeOK, Propose, NextId, Decisions
  <2>2. Proposed(counter') \in Events
    BY <2>1, EventKinds
  <2> QED
    BY <1>2, <2>1, <2>2, EmitTypes DEF ATypeOK, Propose, Rows
<1>3. ASSUME NEW d \in Decisions, NEW s \in Verdicts, Decide(d, s) PROVE ATypeOK'
  BY <1>3, EventKinds, EmitTypes DEF ATypeOK, Decide, Rows
<1>4. ASSUME NEW d \in Decisions, NEW s \in Verdicts, Resolve(d, s) PROVE ATypeOK'
  BY <1>4, EventKinds, EmitTypes DEF ATypeOK, Resolve, Rows
<1>5. CASE OtherEvent
  BY <1>5, EventKinds, EmitTypes DEF ATypeOK, OtherEvent, Rows
<1>6. CASE ClearLedger
  BY <1>6 DEF ATypeOK, ClearLedger, fanout
<1>7. CASE Restart
  <2>1. published' = published
    BY <1>7 DEF Restart, FRestart
  <2> QED
    BY <1>7, <2>1 DEF ATypeOK, Restart, Decisions
<1>8. ASSUME NEW c \in Connections, Socket(c), UNCHANGED audit PROVE UNCHANGED <<audit, published>>
  BY <1>8 DEF Socket, Connect, Take, Sent, Leave, Cleanup
<1> QED
  BY <1>1, <1>2, <1>3, <1>4, <1>5, <1>6, <1>7, <1>8 DEF Next, avars, fanout

\* The bounds hold of every buffer and of the tables, and no envelope is logged twice.
THEOREM AuditTypes == Spec => []ATypeOK
<1>1. FanoutInv' => FTypeOK'
  BY DEF FanoutInv
<1> QED
  BY <1>1, AuditTypesInit, AuditTypesStep, SafetyPart, FanoutInvariant, PTL
-----------------------------------------------------------------------------
(* The rows follow the log. *)

\* The last verdict on a decision stands: Max is that of a set which has one.
LastGiven == \A d \in Decisions : Given(log, d) # {} => Max(Given(log, d)) \in Given(log, d)

RowsInv == ATypeOK /\ RowsFollowLog /\ LastGiven

LEMMA MaxOfLater ==
    ASSUME NEW n \in Nat, NEW A, A \subseteq 1 .. n
    PROVE  Max(A \cup {n + 1}) = n + 1
<1>1. \A y \in A \cup {n + 1} : n + 1 >= y
  OBVIOUS
<1>2. \A x \in A \cup {n + 1} : (\A y \in A \cup {n + 1} : x >= y) => x = n + 1
  OBVIOUS
<1> QED
  BY <1>1, <1>2 DEF Max

\* One more entry: it is about a decision if it proposes it, or resolves it after a
\* proposal.
LEMMA AboutAppended ==
    ASSUME NEW l \in Seq(Events), NEW e \in Events, NEW d \in Decisions
    PROVE  LET m == Append(l, e)
               new == /\ e.topic # "other" /\ e.dec = d
                      /\ e.topic = "decision.proposed" \/ About(l, d) # {}
           IN  /\ About(m, d) = About(l, d) \cup IF new THEN {Len(l) + 1} ELSE {}
               /\ Given(m, d) = Given(l, d) \cup IF new /\ e.topic = "decision.resolved"
                                                 THEN {Len(l) + 1} ELSE {}
<1> DEFINE m == Append(l, e)
           n == Len(l)
           proposed(s, i) == s[i].topic = "decision.proposed" /\ s[i].dec = d
           new == /\ e.topic # "other" /\ e.dec = d
                  /\ e.topic = "decision.proposed" \/ About(l, d) # {}
<1>1. n \in Nat /\ Len(m) = n + 1 /\ m[n + 1] = e /\ \A i \in 1 .. n : m[i] = l[i]
  BY AppendOne
<1>2. \A s : About(s, d) = {i \in 1 .. Len(s) : /\ s[i].topic # "other" /\ s[i].dec = d
                                               /\ \E j \in 1 .. i : proposed(s, j)}
  BY DEF About
<1> HIDE DEF m, n
<1>3. (\E j \in 1 .. n : proposed(l, j)) <=> About(l, d) # {}
  <2>1. ASSUME NEW j \in 1 .. n, proposed(l, j) PROVE j \in About(l, d)
    <3>1. j \in 1 .. j /\ l[j].topic # "other" /\ l[j].dec = d
      BY <1>1, <2>1
    <3> QED
      BY <1>2, <2>1, <3>1 DEF n
  <2>2. ASSUME NEW i \in About(l, d) PROVE \E j \in 1 .. n : proposed(l, j)
    BY <1>1, <1>2, <2>2 DEF n
  <2> QED
    BY <2>1, <2>2
<1>4. \A i \in 1 .. n : i \in About(m, d) <=> i \in About(l, d)
  <2> TAKE i \in 1 .. n
  <2>1. i \in 1 .. n + 1 /\ m[i] = l[i] /\ \A j \in 1 .. i : m[j] = l[j]
    BY <1>1
  <2> QED
    BY <1>1, <1>2, <2>1 DEF n
<1>5. n + 1 \in About(m, d) <=> new
  <2>1. (\E j \in 1 .. n + 1 : proposed(m, j))
        <=> (\E j \in 1 .. n : proposed(l, j)) \/ proposed(m, n + 1)
    BY <1>1
  <2>2. n + 1 \in About(m, d) <=> /\ m[n + 1].topic # "other" /\ m[n + 1].dec = d
                                  /\ \E j \in 1 .. n + 1 : proposed(m, j)
    BY <1>1, <1>2
  <2> QED
    BY <1>1, <1>3, <2>1, <2>2
<1>6. About(m, d) \subseteq 1 .. n + 1 /\ About(l, d) \subseteq 1 .. n
  BY <1>1, <1>2 DEF n
<1> HIDE DEF new
<1>7. About(m, d) = About(l, d) \cup IF new THEN {n + 1} ELSE {}
  BY <1>1, <1>4, <1>5, <1>6
<1>8. Given(m, d) = Given(l, d) \cup IF new /\ e.topic = "decision.resolved"
                                     THEN {n + 1} ELSE {}
  BY <1>1, <1>4, <1>5, <1>6 DEF Given
<1> QED
  BY <1>7, <1>8 DEF m, n, new

\* A decision has a row if the log has anything about it.
LEMMA RowIsThere ==
    ASSUME NEW l \in Seq(Events), NEW d \in Decisions
    PROVE  RowIn(l, d) # NoRow <=> About(l, d) # {}
<1>1. ASSUME About(l, d) = {} PROVE RowIn(l, d) = NoRow
  BY <1>1 DEF RowIn, NoRow, Given
<1>2. ASSUME About(l, d) # {} PROVE RowIn(l, d).status # "none"
  <2>1. ASSUME NEW i \in Given(l, d) PROVE l[i].status \in Verdicts
    <3>1. i \in 1 .. Len(l) /\ l[i].topic = "decision.resolved"
      BY DEF Given, About
    <3>2. l[i] \in Events
      BY <3>1
    <3> QED
      BY <3>1, <3>2, EventKinds
  <2>2. "none" \notin Verdicts
    BY DEF Verdicts
  <2> QED
    BY <1>2, <2>1, <2>2 DEF RowIn
<1> QED
  BY <1>1, <1>2 DEF NoRow

\* What one more entry does to what the log tells of a decision is what the sink does to
\* the decision's row.
LEMMA RowAppended ==
    ASSUME NEW l \in Seq(Events), NEW e \in Events, NEW d \in Decisions,
           Given(l, d) # {} => Max(Given(l, d)) \in Given(l, d)
    PROVE  LET m == Append(l, e)
           IN  /\ RowIn(m, d) =
                    IF e.topic = "decision.proposed" /\ e.dec = d
                    THEN [status |-> "proposed", by |-> RowIn(l, d).by]
                    ELSE IF e.topic = "decision.resolved" /\ e.dec = d /\ RowIn(l, d) # NoRow
                    THEN [status |-> e.status, by |-> e.by]
                    ELSE RowIn(l, d)
               /\ Given(m, d) # {} => Max(Given(m, d)) \in Given(m, d)
<1> DEFINE m == Append(l, e)
           n == Len(l)
           A == About(l, d)
           G == Given(l, d)
           new == /\ e.topic # "other" /\ e.dec = d
                  /\ e.topic = "decision.proposed" \/ A # {}
<1>1. n \in Nat /\ m[n + 1] = e /\ \A i \in 1 .. n : m[i] = l[i]
  BY AppendOne
<1>2. /\ About(m, d) = A \cup IF new THEN {n + 1} ELSE {}
      /\ Given(m, d) = G \cup IF new /\ e.topic = "decision.resolved" THEN {n + 1} ELSE {}
  BY AboutAppended
<1>3. A \subseteq 1 .. n /\ G \subseteq 1 .. n /\ n + 1 \notin G
  BY <1>1 DEF About, Given
<1>4. Max(A \cup {n + 1}) = n + 1 /\ Max(G \cup {n + 1}) = n + 1
  BY <1>1, <1>3, MaxOfLater
<1>5. RowIn(l, d) # NoRow <=> A # {}
  BY RowIsThere
<1>6. /\ e.topic \in {"other", "decision.proposed", "decision.resolved"}
      /\ G # {} => Max(G) \in G
  BY EventKinds
<1>7. /\ RowIn(l, d) = [status |-> IF A = {} THEN "none"
                                   ELSE IF Max(A) \in G THEN l[Max(A)].status ELSE "proposed",
                        by |-> IF G = {} THEN "nobody" ELSE l[Max(G)].by]
      /\ RowIn(m, d) =
            [status |-> IF About(m, d) = {} THEN "none"
                        ELSE IF Max(About(m, d)) \in Given(m, d)
                             THEN m[Max(About(m, d))].status ELSE "proposed",
             by |-> IF Given(m, d) = {} THEN "nobody" ELSE m[Max(Given(m, d))].by]
  BY DEF RowIn
<1> HIDE DEF m, n, A, G, new
<1>8. \A i \in G : m[i] = l[i]
  BY <1>1, <1>3
<1>9. CASE ~ new
  <2>1. About(m, d) = A /\ Given(m, d) = G
    BY <1>2, <1>9
  <2>2. /\ Max(A) \in G => m[Max(A)] = l[Max(A)]
        /\ G # {} => m[Max(G)] = l[Max(G)]
    BY <1>6, <1>8
  <2>3. RowIn(m, d) = RowIn(l, d)
    <3>1. (IF Max(A) \in G THEN m[Max(A)].status ELSE "proposed")
          = IF Max(A) \in G THEN l[Max(A)].status ELSE "proposed"
      BY <2>2
    <3>2. (IF G = {} THEN "nobody" ELSE m[Max(G)].by) = IF G = {} THEN "nobody" ELSE l[Max(G)].by
      BY <2>2
    <3> QED
      BY <1>7, <2>1, <3>1, <3>2
  <2>4. ~ (e.topic = "decision.proposed" /\ e.dec = d)
        /\ ~ (e.topic = "decision.resolved" /\ e.dec = d /\ RowIn(l, d) # NoRow)
    BY <1>5, <1>9 DEF new
  <2> QED
    BY <1>6, <2>1, <2>3, <2>4 DEF m
<1>10. CASE new /\ e.topic = "decision.proposed"
  <2>1. About(m, d) = A \cup {n + 1} /\ Given(m, d) = G
    BY <1>2, <1>10
  <2>2. Max(About(m, d)) \notin Given(m, d) /\ About(m, d) # {}
    BY <1>3, <1>4, <2>1
  <2>3. (IF G = {} THEN "nobody" ELSE m[Max(G)].by) = RowIn(l, d).by
    BY <1>6, <1>7, <1>8
  <2>4. RowIn(m, d) = [status |-> "proposed", by |-> RowIn(l, d).by]
    BY <1>7, <2>1, <2>2, <2>3
  <2> QED
    BY <1>6, <1>10, <2>1, <2>4 DEF m, new
<1>11. CASE new /\ e.topic = "decision.resolved"
  <2>1. About(m, d) = A \cup {n + 1} /\ Given(m, d) = G \cup {n + 1}
    BY <1>2, <1>11
  <2>2. Max(About(m, d)) = n + 1 /\ Max(Given(m, d)) = n + 1
    BY <1>4, <2>1
  <2>3. /\ n + 1 \in Given(m, d) /\ About(m, d) # {} /\ Given(m, d) # {}
    BY <2>1
  <2>4. RowIn(m, d) = [status |-> e.status, by |-> e.by]
    BY <1>1, <1>7, <2>2, <2>3
  <2>5. RowIn(l, d) # NoRow
    BY <1>5, <1>11 DEF new
  <2> QED
    BY <1>11, <2>2, <2>3, <2>4, <2>5 DEF m, new
<1> QED
  BY <1>6, <1>9, <1>10, <1>11 DEF m, new

LEMMA RowsKept ==
    ASSUME RowsInv, NEW e \in Events, Emit(e)
    PROVE  (RowsFollowLog /\ LastGiven)'
<1>1. log \in Seq(Events) /\ rows \in Rows
  BY DEF RowsInv, ATypeOK, Rows
<1>2. CASE log' = Append(log, e) /\ rows' = Handle(e)
  <2> SUFFICES ASSUME NEW d \in Decisions
               PROVE  /\ rows'[d] = RowIn(log', d)
                      /\ Given(log', d) # {} => Max(Given(log', d)) \in Given(log', d)
    BY DEF RowsFollowLog, LastGiven
  <2>1. rows[d] = RowIn(log, d)
    BY DEF RowsInv, RowsFollowLog
  <2>2. rows'[d] = IF e.topic = "decision.proposed" /\ e.dec = d
                   THEN [status |-> "proposed", by |-> rows[d].by]
                   ELSE IF e.topic = "decision.resolved" /\ e.dec = d /\ rows[d] # NoRow
                   THEN [status |-> e.status, by |-> e.by]
                   ELSE rows[d]
    BY <1>1, <1>2, EventKinds DEF Handle, Rows
  <2>3. Given(log, d) # {} => Max(Given(log, d)) \in Given(log, d)
    BY DEF RowsInv, LastGiven
  <2> QED
    BY <1>1, <1>2, <2>1, <2>2, <2>3, RowAppended
<1>3. CASE UNCHANGED <<log, rows>>
  BY <1>3 DEF RowsInv, RowsFollowLog, LastGiven
<1> QED
  BY <1>2, <1>3 DEF Emit, Persist

\* The decision rows are what the event log says of each decision, whatever writes fail
\* and however often the process restarts: both tables are written in one transaction.
THEOREM RowsAreTheLog == Spec => []RowsFollowLog
<1>1. AInit => RowsInv
  <2>1. ASSUME NEW d \in Decisions PROVE RowIn(<<>>, d) = NoRow /\ Given(<<>>, d) = {}
    BY DEF RowIn, About, Given, NoRow
  <2> QED
    BY <2>1, AuditTypesInit DEF AInit, RowsInv, RowsFollowLog, LastGiven
<1>2. RowsInv /\ ATypeOK' /\ [Next]_avars => RowsInv'
  <2> SUFFICES ASSUME RowsInv, ATypeOK', [Next]_avars PROVE (RowsFollowLog /\ LastGiven)'
    BY DEF RowsInv
  <2>1. CASE UNCHANGED <<log, rows>>
    BY <2>1 DEF RowsInv, RowsFollowLog, LastGiven
  <2>2. CASE Propose
    <3>1. counter' \in Decisions
      BY <2>2, AuditAssumption DEF Propose, RowsInv, ATypeOK, NextId, Decisions
    <3> QED
      BY <2>2, <3>1, RowsKept, EventKinds DEF Propose
  <2>3. ASSUME NEW d \in Decisions, NEW s \in Verdicts, Decide(d, s) \/ Resolve(d, s)
        PROVE  (RowsFollowLog /\ LastGiven)'
    BY <2>3, RowsKept, EventKinds DEF Decide, Resolve
  <2>4. CASE OtherEvent
    BY <2>4, RowsKept, EventKinds DEF OtherEvent
  <2> QED
    BY <2>1, <2>2, <2>3, <2>4 DEF Next, avars, audit, ClearLedger, Restart
<1>3. RowsInv => RowsFollowLog
  BY DEF RowsInv
<1> QED
  BY <1>1, <1>2, <1>3, SafetyPart, AuditTypes, PTL
-----------------------------------------------------------------------------
(* Verdicts stay. *)

\* Only ids that were handed out have rows.
RowsIssued == \A d \in Decisions : rows[d] # NoRow => d \in old \cup 1 .. counter

LEMMA RowsIssuedStep ==
    ASSUME ATypeOK, RowsIssued, [Next]_avars
    PROVE  RowsIssued'
<1>1. counter \in Nat /\ rows \in Rows
  BY DEF ATypeOK, Rows
<1>2. CASE UNCHANGED <<counter, rows, old>>
  BY <1>2 DEF RowsIssued
<1>3. CASE Propose
  <2>1. counter' = counter + 1 /\ old' = old
    BY <1>3 DEF Propose, NextId
  <2>2. ASSUME NEW d \in Decisions, d # counter' PROVE rows'[d] = rows[d]
    BY <1>1, <1>3, <2>2 DEF Propose, Emit, Persist, Handle, Proposed, Rows
  <2>3. ASSUME NEW d \in Decisions, rows'[d] # NoRow PROVE d \in old \cup 1 .. counter + 1
    BY <1>1, <2>1, <2>2, <2>3 DEF RowsIssued
  <2> QED
    BY <2>1, <2>3 DEF RowsIssued
<1>4. ASSUME NEW x \in Decisions, NEW s \in Verdicts, Decide(x, s) \/ Resolve(x, s)
      PROVE  RowsIssued'
  <2>1. ASSUME NEW d \in Decisions, rows'[d] # rows[d] PROVE rows[d] # NoRow
    BY <1>1, <1>4, <2>1 DEF Decide, Resolve, Emit, Persist, Handle, Resolved, Rows
  <2> QED
    BY <1>4, <2>1 DEF RowsIssued, Decide, Resolve
<1>5. CASE OtherEvent
  BY <1>5 DEF RowsIssued, OtherEvent, Emit, Persist, Handle, Other
<1>6. CASE Restart
  BY <1>1, <1>6 DEF RowsIssued, Restart
<1> QED
  BY <1>2, <1>3, <1>4, <1>5, <1>6 DEF Next, avars, audit, ClearLedger

\* A decision with a verdict is not proposed again under its id, whatever resets and
\* failed writes lie between; only the ids of an earlier process are.
THEOREM VerdictsStay == Spec => VerdictsKept
<1>1. AInit => RowsIssued
  BY DEF AInit, RowsIssued
<1>2. ATypeOK /\ RowsIssued /\ [Next]_avars => RowsIssued'
  BY RowsIssuedStep
<1>3. ASSUME ATypeOK, RowsIssued, [Next]_avars
      PROVE  \A d \in Decisions \ old : rows[d].status \in Verdicts => rows'[d].status \in Verdicts
  <2> SUFFICES ASSUME NEW d \in Decisions \ old, rows[d].status \in Verdicts
               PROVE  rows'[d].status \in Verdicts
    OBVIOUS
  <2>1. rows \in Rows /\ counter \in Nat /\ rows[d] # NoRow /\ d # counter + 1
    <3>1. "none" \notin Verdicts
      BY DEF Verdicts
    <3>2. rows[d] # NoRow
      BY <3>1 DEF NoRow
    <3> QED
      BY <1>3, <3>2 DEF RowsIssued, ATypeOK, Rows
  <2>2. CASE UNCHANGED rows
    BY <2>2
  <2>3. CASE Propose
    BY <2>1, <2>3 DEF Propose, NextId, Emit, Persist, Handle, Proposed, Rows
  <2>4. ASSUME NEW x \in Decisions, NEW s \in Verdicts, Decide(x, s) \/ Resolve(x, s)
        PROVE  rows'[d].status \in Verdicts
    BY <2>1, <2>4 DEF Decide, Resolve, Emit, Persist, Handle, Resolved, Rows
  <2>5. CASE OtherEvent
    BY <2>5 DEF OtherEvent, Emit, Persist, Handle, Other
  <2> QED
    BY <1>3, <2>2, <2>3, <2>4, <2>5 DEF Next, avars, audit, ClearLedger, Restart
<1>4. ATypeOK /\ RowsIssued /\ [Next]_avars
      => [\A d \in Decisions \ old :
             rows[d].status \in Verdicts => rows'[d].status \in Verdicts]_avars
  BY <1>3
<1> QED
  BY <1>1, <1>2, <1>4, SafetyPart, AuditTypes, PTL DEF VerdictsKept
=============================================================================
