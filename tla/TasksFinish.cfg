\* Two tasks, one of which blocks the other, retries and a kill: liveness.
SPECIFICATION FairSpec
CONSTANTS
    a = a
    b = b
    t = t
    Tasks = {a, t}
    Clients = {c1, c2}
    Workers = {w1, w2}
    MaxConcurrent = 2
    MaxRetries = 1
    Edges <- OneEdge
    Killable = {a}
    MaxStarts = 1
    NoTask = NoTask
PROPERTIES
    WorkersFinish
\* Nobody has to call the manager again.
CHECK_DEADLOCK FALSE
