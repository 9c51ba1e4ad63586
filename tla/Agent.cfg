\* Two goroutines submit, or one streams and types /clear, /compact and Ctrl-C; two
\* prompts of two turns; compaction asks the summarising model, which may fail.
SPECIFICATION KindSpec
CONSTANTS
    Submitters = {s1, s2}
    Streamers = {t1}
    KeepRecent = 1
    KeepTail = 2
    CompactAt = 4
    HasCompactor = TRUE
    MaxTurns = 2
    InterruptCap = 1
    MaxCalls = 2
    MaxRuns = 2
    MaxInterrupts = 2
    MaxClears = 1
    MaxCompacts = 1
INVARIANTS
    CallsAnswered
    ResultsHaveCalls
    InterruptsAccounted
    CallsWithinTurns
PROPERTIES
    AgentIsShared
    CompactionKeepsEnds
    AgentReleased
\* Nobody has to type a prompt: the agent may stay idle.
CHECK_DEADLOCK FALSE
