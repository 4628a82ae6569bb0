----------------------------- MODULE LossyStream -----------------------------
(***************************************************************************)
(* What one connection to /ws is promised: the envelopes it receives come  *)
(* in the order they were published, none twice and none missing, except   *)
(* that a client which has fallen QueueSize envelopes behind loses some.   *)
(* It starts with the last ReplaySize envelopes of this process.           *)
(***************************************************************************)
EXTENDS Integers

CONSTANTS ReplaySize, QueueSize

VARIABLES published,        \* envelopes published so far, which also numbers them
          since,            \* the number published when this process started
          connected,
          last              \* number of the envelope received last

vars == <<published, since, connected, last>>

Init == published = 0 /\ since = 0 /\ connected = FALSE /\ last = 0

Publish == /\ published' = published + 1
           /\ UNCHANGED <<since, connected, last>>

\* Before the oldest envelope in the replay buffer.
ReplayStart == IF published - since > ReplaySize THEN published - ReplaySize ELSE since

Connect == /\ ~connected /\ connected' = TRUE
           /\ last' = ReplayStart
           /\ UNCHANGED <<published, since>>

Receive == /\ connected
           /\ \E n \in last + 1 .. published :
                 /\ n > last + 1 => n - 1 + QueueSize <= published
                 /\ last' = n
           /\ UNCHANGED <<published, since, connected>>

Close == connected /\ connected' = FALSE /\ last' = 0 /\ UNCHANGED <<published, since>>

Restart == /\ since' = published /\ connected' = FALSE /\ last' = 0
           /\ UNCHANGED published

Next == Publish \/ Connect \/ Receive \/ Close \/ Restart

Spec == Init /\ [][Next]_vars
=============================================================================
