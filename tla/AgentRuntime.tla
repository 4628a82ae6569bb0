---------------------------- MODULE AgentRuntime ----------------------------
(***************************************************************************)
(* One agent's AgentRuntime: a run asks the providers of the chain in the  *)
(* order of the agent's model tier and ends with the first answer, or with *)
(* the rule-made template when each has raised.  The first run builds the  *)
(* chain; later ones and those already under way use the same list.        *)
(***************************************************************************)
EXTENDS Integers, Sequences, FiniteSetsExt

CONSTANTS Providers,
          Tier,             \* the order of the agent's tier, over Providers
          Runs,             \* calls of run, numbered as they come
          Settings          \* the configurations the process may be started with

ASSUME RuntimeAssumption ==
    /\ Runs = 1 .. Cardinality(Runs)
    /\ Tier \in Seq(Providers)
    /\ Settings \subseteq [llm : {"on", "off", "OFF"}, keyed : SUBSET Providers, deepgram : BOOLEAN]

VARIABLES settings,         \* app.settings
          chain,            \* AgentRuntime._chain: the places in Tier of its providers
          run               \* the calls: stage, the place of the provider asked, answer

runtime == <<chain, run>>

NotBuilt == {0}             \* _chain = None; 0 is no place in Tier

NoRun == [stage |-> "idle", at |-> 0, answer |-> "none", refused |-> {}]

\* The places of the providers that have a key.
WithKey == {i \in DOMAIN Tier : Tier[i] \in settings.keyed}

RTypeOK ==
    /\ settings \in Settings
    /\ chain = NotBuilt \/ chain \in SUBSET WithKey
    /\ run \in [Runs -> [stage : {"idle", "asking", "done"}, at : 0 .. Len(Tier),
                         answer : {"none", "provider", "template"}, refused : SUBSET Providers]]

RInit == /\ settings \in Settings
         /\ chain = NotBuilt /\ run = [r \in Runs |-> NoRun]
-----------------------------------------------------------------------------
\* _agents: providers without a key are skipped, and so is one that cannot be built.
Chains == IF chain # NotBuilt THEN {chain} ELSE SUBSET WithKey

Ended(c, answer) == [c EXCEPT !.stage = "done", !.answer = answer]

Run(r) ==
    /\ run[r].stage = "idle" /\ (r > 1 => run[r - 1].stage # "idle")   \* numbered so
    /\ IF settings.llm = "off"
       THEN run' = [run EXCEPT ![r] = Ended(@, "template")] /\ UNCHANGED chain
       ELSE \E c \in Chains :
               /\ chain' = c
               /\ run' = [run EXCEPT ![r] = IF c = {} THEN Ended(@, "template")
                                            ELSE [@ EXCEPT !.stage = "asking", !.at = Min(c)]]

\* run_once or run_once_structured returns.
Answers(r) == /\ run[r].stage = "asking" /\ run[r].at \in chain
              /\ run' = [run EXCEPT ![r] = Ended(@, "provider")]
              /\ UNCHANGED chain

\* The rest of the chain.
Later_OfTier(at) == {i \in DOMAIN Tier : i > at}
Later(at) == {i \in chain : i > at}

\* It raises: the next provider, or after the last the template.
Refused(r) == [run[r] EXCEPT !.refused = @ \cup {Tier[run[r].at]}]
Raises(r) ==
    /\ run[r].stage = "asking" /\ run[r].at \in chain
    /\ run' = [run EXCEPT ![r] = IF Later(run[r].at) = {} THEN Ended(Refused(r), "template")
                                 ELSE [Refused(r) EXCEPT !.at = Min(Later(run[r].at))]]
    /\ UNCHANGED chain

RNext(r) == Run(r) \/ Answers(r) \/ Raises(r)

\* A provider's call returns or raises: the clients have timeouts of their own.
RFairness == \A r \in Runs : WF_runtime(Answers(r) \/ Raises(r))
=============================================================================
