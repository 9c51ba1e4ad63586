\* A submitter and a streamer share the agent.
SPECIFICATION Spec
CONSTANTS
    Submitters = {s1}
    Streamers = {t1}
    KeepRecent = 1
    KeepTail = 2
    CompactAt = 4
    HasCompactor = FALSE
    MaxTurns = 2
    InterruptCap = 1
    MaxCalls = 2
    MaxRuns = 2
    MaxInterrupts = 1
    MaxClears = 1
    MaxCompacts = 0
INVARIANTS
    BusyCoversRuns
\* Nobody has to type a prompt: the agent may stay idle.
CHECK_DEADLOCK FALSE
