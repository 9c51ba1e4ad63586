\* As Workspace.cfg: a read, a write of two steps and a read.
SPECIFICATION WorkspaceSpec
CONSTANTS
    Agents = {x, y}
    MaxSnapshots = 1
    MaxConsec = 3
    Contents = {Empty, text}
    Empty = Empty
    Times = {t0, t1, t2}
    FirstTime = t0
    NoTime = NoTime
    MaxChanges = 1
    MaxUses = 3
    MaxTurns = 1
INVARIANTS
    UnchangedIsAlwaysTrue
\* The tools stop at the bound of their uses.
CHECK_DEADLOCK FALSE
