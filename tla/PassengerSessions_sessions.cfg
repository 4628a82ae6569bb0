SPECIFICATION MCSpec
CONSTANTS
    Providers = {"openai", "groq"}
    Tier <- MCTier
    ChatProviders <- MCChatProviders
    Runs = {1, 2, 3}
    Settings <- MCSettings
    Requests = {1, 2, 3}
    Sessions = {"s1", "s2"}
    MaxTurns = 1
    MaxSessions = 1
INVARIANTS
    STypeOK
    RemembersRecent
    AnsweredAtBest
PROPERTIES
    EveryoneAnswered
CHECK_DEADLOCK FALSE
