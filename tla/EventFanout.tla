----------------------------- MODULE EventFanout -----------------------------
(***************************************************************************)
(* The event bus's replay buffer and envelope listeners, and the WebSocket *)
(* endpoint: a connection snapshots the replay buffer, registers a         *)
(* listener that fills a bounded queue, and a task of its own sends the    *)
(* snapshot and then the queue.  Envelopes are numbered as published.      *)
(* Publish is part of an action of AuditLog, which says what is published. *)
(***************************************************************************)
EXTENDS Integers, SequencesExt

CONSTANTS Connections,
          ReplaySize,       \* REPLAY_SIZE, 200
          QueueSize,        \* Queue(maxsize=500)
          MaxEnvelopes      \* bound

ASSUME FanoutAssumption == {ReplaySize, QueueSize} \subseteq Nat \ {0} /\ MaxEnvelopes \in Nat

VARIABLES published,        \* envelopes published, by this process or earlier ones
          since,            \* those of earlier processes
          replay,           \* EventBus._replay
          listeners,        \* EventBus._envelope_listeners, those of connections
          link,             \* connection: closed, open, or gone and not yet noticed
          history,          \* what is left of the snapshot to be sent
          queue,            \* the connection's asyncio.Queue
          sending,          \* the envelope inside send_text, 0 for none
          last              \* history: the envelope the client received last

sockets == <<listeners, link, history, sending, last>>
fanout == <<published, since, replay, queue, sockets>>

Numbers == 1 .. published

FTypeOK ==
    /\ published \in 0 .. MaxEnvelopes /\ since \in 0 .. published
    /\ replay \in Seq(Numbers) /\ Len(replay) <= ReplaySize
    /\ listeners \in Seq(Connections) /\ IsInjective(listeners)
    /\ link \in [Connections -> {"closed", "open", "gone"}]
    /\ history \in [Connections -> Seq(Numbers)] /\ queue \in [Connections -> Seq(Numbers)]
    /\ \A c \in Connections : Len(history[c]) <= ReplaySize /\ Len(queue[c]) <= QueueSize
    /\ sending \in [Connections -> Numbers \cup {0}] /\ last \in [Connections -> Numbers \cup {0}]

Silent == [c \in Connections |-> <<>>]
Zero == [c \in Connections |-> 0]

FInit ==
    /\ published = 0 /\ since = 0 /\ replay = <<>> /\ listeners = <<>>
    /\ link = [c \in Connections |-> "closed"]
    /\ history = Silent /\ queue = Silent /\ sending = Zero /\ last = Zero
-----------------------------------------------------------------------------
(* EventBus.publish, up to its handlers. *)

Remember(buffer, n) == Append(IF Len(buffer) = ReplaySize THEN Tail(buffer) ELSE buffer, n)

\* The listener of a connection: a full queue loses its oldest envelope.
Enqueue_Grows(q, n) == Append(q, n)
Enqueue(q, n) == Append(IF Len(q) = QueueSize THEN Tail(q) ELSE q, n)

Publish ==
    /\ published < MaxEnvelopes /\ published' = published + 1
    /\ replay' = Remember(replay, published')
    /\ queue' = [c \in Connections |-> IF Contains(listeners, c) THEN Enqueue(queue[c], published')
                                       ELSE queue[c]]
    /\ UNCHANGED <<since, sockets>>
-----------------------------------------------------------------------------
(* ws_events and its two tasks. *)

\* The snapshot and the registration are one step: there is no await between them.
Connect(c) ==
    /\ link[c] = "closed" /\ link' = [link EXCEPT ![c] = "open"]
    /\ history' = [history EXCEPT ![c] = replay]
    /\ listeners' = Append(listeners, c)
    /\ last' = [last EXCEPT ![c] = published - Len(replay)]
    /\ UNCHANGED <<published, since, replay, queue, sending>>

\* _stream hands the next envelope to the socket: all of the snapshot comes first.
FromHistory_IfQuiet(c) == history[c] # <<>> /\ queue[c] = <<>>
FromHistory(c) == history[c] # <<>>

Take(c) ==
    /\ link[c] # "closed" /\ sending[c] = 0
    /\ IF FromHistory(c)
       THEN /\ sending' = [sending EXCEPT ![c] = Head(history[c])]
            /\ history' = [history EXCEPT ![c] = Tail(@)]
            /\ UNCHANGED queue
       ELSE /\ queue[c] # <<>>
            /\ sending' = [sending EXCEPT ![c] = Head(queue[c])]
            /\ queue' = [queue EXCEPT ![c] = Tail(@)]
            /\ UNCHANGED history
    /\ UNCHANGED <<published, since, replay, listeners, link, last>>

\* send_text returns; what is sent to a client that has gone is lost.
Sent(c) ==
    /\ sending[c] # 0 /\ sending' = [sending EXCEPT ![c] = 0]
    /\ last' = IF link[c] = "open" THEN [last EXCEPT ![c] = sending[c]] ELSE last
    /\ UNCHANGED <<published, since, replay, queue, listeners, link, history>>

\* The client goes away, or the connection breaks.
Leave(c) ==
    /\ link[c] = "open" /\ link' = [link EXCEPT ![c] = "gone"]
    /\ last' = [last EXCEPT ![c] = 0]
    /\ UNCHANGED <<published, since, replay, queue, listeners, history, sending>>

\* remove_envelope_listener, by identity.
WithoutListener_Newest(c) == Front(listeners)
WithoutListener(c) == RemoveFirst(listeners, c)

\* _watch_disconnect or a failed send: the listener goes and the tasks are cancelled.
Cleanup(c) ==
    /\ link[c] = "gone" /\ link' = [link EXCEPT ![c] = "closed"]
    /\ listeners' = WithoutListener(c)
    /\ history' = [history EXCEPT ![c] = <<>>] /\ queue' = [queue EXCEPT ![c] = <<>>]
    /\ sending' = [sending EXCEPT ![c] = 0]
    /\ UNCHANGED <<published, since, replay, last>>

\* The process ends and starts again: a new bus.
FRestart ==
    /\ since' = published /\ replay' = <<>> /\ listeners' = <<>>
    /\ link' = [c \in Connections |-> "closed"]
    /\ history' = Silent /\ queue' = Silent /\ sending' = Zero /\ last' = Zero
    /\ UNCHANGED published

Socket(c) == Connect(c) \/ Take(c) \/ Sent(c) \/ Leave(c) \/ Cleanup(c)

FNext == Publish \/ FRestart \/ \E c \in Connections : Socket(c)

\* The stream task goes on, and a send ends: the peer takes the frame or the
\* server's keep-alive breaks the connection.
Flowing(c) == WF_fanout(Take(c)) /\ WF_fanout(sending[c] # 0 /\ (Sent(c) \/ Leave(c)))
-----------------------------------------------------------------------------
(* Properties. *)

\* Each connection keeps the promise of LossyStream (ws.py: "no envelope is missed or
\* duplicated between replay history and the live queue"), although envelopes are
\* published between any two steps of its tasks and its queue drops some.
Stream(c) == INSTANCE LossyStream WITH connected <- link[c] = "open", last <- last[c]
StreamsInOrder ==
    /\ \A c \in Connections : Stream(c)!Init
    /\ [][\A c \in Connections : [Stream(c)!Next]_(Stream(c)!vars)]_fanout

\* A client that stays connected receives every envelope or a later one: what a slow
\* client loses is old, and one client's disconnect does not silence another.
CaughtUp ==
    \A c \in Connections, n \in 1 .. MaxEnvelopes :
        link[c] = "open" /\ published >= n ~> link[c] # "open" \/ last[c] >= n
=============================================================================
