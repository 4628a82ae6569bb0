------------------------- MODULE MCPassengerSessions -------------------------
(* The agents and the passengers of one process.  They share its settings and nothing
   else, so a behaviour in which both call providers shows no more than one in which only
   the agents do or only the passengers: the others then stay idle. *)
EXTENDS PassengerSessions

MCTier == <<"openai", "groq">>
MCChatProviders == <<"openai", "groq">>

\* All keys, with and without voice; one key; none; the LLM off, written either way.
MCSettings ==
    {[llm |-> "on", keyed |-> Providers, deepgram |-> TRUE],
     [llm |-> "on", keyed |-> {"groq"}, deepgram |-> FALSE],
     [llm |-> "on", keyed |-> {}, deepgram |-> TRUE],
     [llm |-> "OFF", keyed |-> Providers, deepgram |-> FALSE],
     [llm |-> "off", keyed |-> Providers, deepgram |-> TRUE]}

MCNext == \/ request = [r \in Requests |-> NoRequest] /\ AgentStep
          \/ run = [r \in Runs |-> NoRun] /\ PassengerStep

MCSpec == Init /\ [][MCNext]_vars /\ RFairness /\ SFairness
=============================================================================
