\* Three tasks, two of which block the third; one of them may be killed.
\* Each may be started twice.
SPECIFICATION Spec
CONSTANTS
    a = a
    b = b
    t = t
    Tasks = {a, b, t}
    Clients = {c1, c2}
    Workers = {w1, w2}
    MaxConcurrent = 2
    MaxRetries = 0
    Edges <- FanIn
    Killable = {a}
    MaxStarts = 2
    NoTask = NoTask
SYMMETRY Symmetric
INVARIANTS
    SlotsHeld
    RunningHasWorker
    NoLostWakeup
\* Nobody has to call the manager again.
CHECK_DEADLOCK FALSE
