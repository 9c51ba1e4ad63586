\* Two tokens: two jobs that delegate wait for the tokens they hold themselves.
SPECIFICATION FairSpec
CONSTANTS
    r1 = r1
    NoCall = NoCall
    Roots = {r1}
    MaxConcurrent = 2
    MaxJobs = 4
    MaxCalls = 3
    BatchSize = 2
INVARIANTS
    SlotsHeld
    OrphansCancelled
    RegisteredJobs
PROPERTIES
    CallsReturn
    DispatchImplemented
\* Nobody has to delegate.
CHECK_DEADLOCK FALSE
