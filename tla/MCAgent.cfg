\* Five commands, one of them blank; queues of two.
CONSTANTS
    MaxCommand = 5
    Blank = {2}
    CommandDepth = 2
    HealthDepth = 2
    LlmAvailable = TRUE
SPECIFICATION AgentSpec
INVARIANTS TypeOK StopBound ExecutingIsExact
PROPERTIES SettledOnce Settles
