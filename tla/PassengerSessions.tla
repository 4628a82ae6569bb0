-------------------------- MODULE PassengerSessions --------------------------
(***************************************************************************)
(* The passenger endpoints: /api/chat, and /api/voice, which puts speech   *)
(* recognition before the same pipeline and speech synthesis after it.     *)
(* The pipeline asks the providers that have a key and remembers question  *)
(* and answer in the session, of which the process keeps a bounded number, *)
(* each with a bounded number of turns.  Requests wait for the providers   *)
(* side by side, several of one session too.  What is said is left out.    *)
(***************************************************************************)
EXTENDS AgentRuntime, SequencesExt

CONSTANTS Requests,         \* numbered as they come in
          Sessions,         \* session ids
          ChatProviders,    \* _PROVIDERS
          MaxTurns,         \* MAX_TURNS
          MaxSessions       \* MAX_SESSIONS

ASSUME SessionsAssumption ==
    /\ Requests = 1 .. Cardinality(Requests)
    /\ ChatProviders \in Seq(Providers) /\ Providers \subseteq ToSet(ChatProviders)
    /\ {MaxTurns, MaxSessions} \subseteq Nat \ {0}

VARIABLES table,            \* _sessions: the ids in insertion order, and the turns of each
          request,          \* the calls of the endpoints
          said              \* history: the answers remembered, and whether the session was new

passengers == <<table, request, said>>
vars == <<settings, runtime, passengers>>

Turns == [role : {"user", "assistant"}, of : Requests]
NoRequest == [stage |-> "idle", session |-> "none", voice |-> FALSE, text |-> FALSE,
              at |-> 0, reply |-> "none", refused |-> {}]

STypeOK ==
    /\ RTypeOK
    /\ table.order \in Seq(Sessions) /\ IsInjective(table.order)
    /\ Len(table.order) <= MaxSessions
    /\ table.turns \in [Sessions -> Seq(Turns)]
    /\ \A s \in Sessions : Len(table.turns[s]) <= 2 * MaxTurns
    /\ request \in [Requests ->
          [stage : {"idle", "hearing", "asking", "speaking", "done"},
           session : Sessions \cup {"none"}, voice : BOOLEAN, text : BOOLEAN,
           at : 0 .. Len(ChatProviders),
           reply : {"none", "provider", "template", "unheard"}, refused : SUBSET Providers]]
    /\ said \in Seq([of : Requests, session : Sessions, new : BOOLEAN])

SInit == /\ table = [order |-> <<>>, turns |-> [s \in Sessions |-> <<>>]]
         /\ request = [r \in Requests |-> NoRequest] /\ said = <<>>
-----------------------------------------------------------------------------
(* _remember *)

Trim_Odd(turns) == IF Len(turns) > 2 * MaxTurns - 1 THEN Tail(turns) ELSE turns
Trim(turns) == IF Len(turns) > 2 * MaxTurns THEN Tail(turns) ELSE turns

\* The oldest session is the one inserted first, however recently it was used.
Evicted_Grows(t) == t
Evicted(t) ==
    IF Len(t.order) <= MaxSessions THEN t
    ELSE [order |-> Tail(t.order), turns |-> [t.turns EXCEPT ![Head(t.order)] = <<>>]]

Remember(t, s, turn) ==
    Evicted([order |-> IF Contains(t.order, s) THEN t.order ELSE Append(t.order, s),
             turns |-> [t.turns EXCEPT ![s] = Trim(Append(@, turn))]])
-----------------------------------------------------------------------------
(* _chat_pipeline, for a request q of the table: up to its first provider, and on. *)

\* The places of the providers that have a key; the others are skipped.
Keyed == {i \in DOMAIN ChatProviders : ChatProviders[i] \in settings.keyed}

\* The answer is remembered with its question, without an await in between; a voice
\* request goes on to be spoken.  The rest of the record is done with.
Reply(r, q, reply) ==
    /\ request' = [request EXCEPT ![r] =
          [NoRequest EXCEPT !.reply = reply, !.refused = q.refused,
              !.stage = IF q.voice /\ settings.deepgram THEN "speaking" ELSE "done"]]
    /\ table' = Remember(Remember(table, q.session, [role |-> "user", of |-> r]),
                         q.session, [role |-> "assistant", of |-> r])
    /\ said' = Append(said, [of |-> r, session |-> q.session,
                             new |-> ~Contains(table.order, q.session)])

Pipeline(r, q) ==
    IF settings.llm # "on" \/ Keyed = {}
    THEN Reply(r, q, "template")
    ELSE /\ request' = [request EXCEPT ![r] = [q EXCEPT !.stage = "asking", !.at = Min(Keyed)]]
         /\ UNCHANGED <<table, said>>

Provided(r) == /\ request[r].stage = "asking"
               /\ Reply(r, request[r], "provider")

\* The providers that are left.
Left_None(r) == {}
Left(r) == {i \in Keyed : i > request[r].at}

\* The provider raises or its answer is empty.
Failed(r) ==
    /\ request[r].stage = "asking"
    /\ LET q == [request[r] EXCEPT !.refused = @ \cup {ChatProviders[request[r].at]}]
       IN  IF Left(r) = {} THEN Reply(r, q, "template")
           ELSE /\ request' = [request EXCEPT ![r] = [q EXCEPT !.at = Min(Left(r))]]
                /\ UNCHANGED <<table, said>>
-----------------------------------------------------------------------------
(* The endpoints. *)

\* Bound: requests come in by number.
Arrives(r) == /\ request[r].stage = "idle"
              /\ r > 1 => request[r - 1].stage # "idle"

Chat(r, s) == Arrives(r) /\ Pipeline(r, [NoRequest EXCEPT !.session = s])

\* Nothing to answer: no transcript and no text.
Unheard(r, q) == /\ request' = [request EXCEPT ![r] = [q EXCEPT !.stage = "done",
                                                               !.reply = "unheard"]]
                 /\ UNCHANGED <<table, said>>

Voice(r, s, audio, text) ==
    /\ Arrives(r)
    /\ LET q == [NoRequest EXCEPT !.session = s, !.voice = TRUE, !.text = text]
       IN  IF audio /\ settings.deepgram
           THEN /\ request' = [request EXCEPT ![r] = [q EXCEPT !.stage = "hearing"]]
                /\ UNCHANGED <<table, said>>
           ELSE IF text THEN Pipeline(r, q) ELSE Unheard(r, q)

\* Deepgram returns a transcript, or nothing, or raises: then the text is taken.
Heard(r) == request[r].stage = "hearing" /\ Pipeline(r, request[r])
NotHeard(r) == /\ request[r].stage = "hearing"
               /\ IF request[r].text THEN Pipeline(r, request[r]) ELSE Unheard(r, request[r])

\* With audio or, when the synthesis fails, without it.
Spoken(r) == /\ request[r].stage = "speaking"
             /\ request' = [request EXCEPT ![r].stage = "done"]
             /\ UNCHANGED <<table, said>>

Goes(r) == Provided(r) \/ Failed(r) \/ Heard(r) \/ NotHeard(r) \/ Spoken(r)
SNext(r) == \/ Goes(r)
            \/ \E s \in Sessions : Chat(r, s)
            \/ \E s \in Sessions, audio, text \in BOOLEAN : Voice(r, s, audio, text)

SFairness == \A r \in Requests : WF_passengers(Goes(r))

\* The passengers and one agent's runtime, in a process with one set of settings.
AgentStep == (\E r \in Runs : RNext(r)) /\ UNCHANGED <<passengers, settings>>
PassengerStep == (\E r \in Requests : SNext(r)) /\ UNCHANGED <<runtime, settings>>

Init == RInit /\ SInit
Next == AgentStep \/ PassengerStep
Spec == Init /\ [][Next]_vars /\ RFairness /\ SFairness
-----------------------------------------------------------------------------
(* Properties. *)

\* The answers that created session s; those that have created a session since; and those
\* given in the session since it was created, of which answer i is the k-th from the end.
Births(s) == {i \in DOMAIN said : said[i].session = s /\ said[i].new}
Younger(s) == {i \in DOMAIN said : said[i].new /\ i > Max(Births(s))}
Answered(s) == {i \in DOMAIN said : said[i].session = s /\ i >= Max(Births(s))}
FromEnd(s, i) == Cardinality({j \in Answered(s) : j >= i})

\* The k-th pair of question and answer from the end of the session is that of request r.
PairIs(turns, k, r) ==
    /\ turns[Len(turns) - 2 * k + 1] = [role |-> "user", of |-> r]
    /\ turns[Len(turns) - 2 * k + 2] = [role |-> "assistant", of |-> r]

\* Whatever requests answer first and whatever is evicted while they wait, a session
\* is kept until MaxSessions newer ones are created, and holds whole pairs of question and
\* answer: the last MaxTurns of those answered in it since it was created.
RemembersRecent ==
    \A s \in Sessions :
        LET kept == Births(s) # {} /\ Cardinality(Younger(s)) < MaxSessions
            turns == table.turns[s]
        IN  /\ Contains(table.order, s) <=> kept
            /\ Len(turns) = IF kept THEN 2 * Min({Cardinality(Answered(s)), MaxTurns}) ELSE 0
            /\ kept => \A i \in Answered(s) :
                  FromEnd(s, i) <= MaxTurns => PairIs(turns, FromEnd(s, i), said[i].of)

\* The template speaks only when nobody else does: a passenger gets it when every
\* provider with a key has failed him, an agent when every provider of the chain its
\* runtime could build has, or when the LLM is off (passenger.py, adapter.py: "falls
\* through", "then to template"); a passenger is told he was not heard only without text.
AnsweredAtBest ==
    /\ \A r \in Requests :
          /\ request[r].reply = "template" =>
                settings.llm # "on" \/ request[r].refused = settings.keyed
          /\ request[r].reply = "unheard" => request[r].voice /\ ~request[r].text
          /\ request[r].stage = "done" => request[r].reply # "none"
    /\ \A r \in Runs :
          run[r].answer = "template" => settings.llm = "off" \/ run[r].refused = {Tier[i] : i \in chain}

\* Every passenger and every run of an agent gets an answer, whatever fails.
EveryoneAnswered ==
    /\ \A r \in Requests : request[r].stage # "idle" ~> request[r].stage = "done"
    /\ \A r \in Runs : run[r].stage # "idle" ~> run[r].stage = "done"
=============================================================================
