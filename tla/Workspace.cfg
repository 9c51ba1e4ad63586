\* Two agents and three uses of the tools; a change of each kind, but for what
\* fills a file after it was truncated; three times, so that times can be equal,
\* later and earlier; a snapshot over the limit of one; two turns.
SPECIFICATION WorkspaceSpec
CONSTANTS
    Agents = {x, y}
    MaxSnapshots = 1
    MaxConsec = 3
    Contents = {Empty, text}
    Empty = Empty
    Times = {t0, t1, t2}
    FirstTime = t0
    NoTime = NoTime
    MaxChanges = 1
    MaxUses = 3
    MaxTurns = 1
INVARIANTS
    UnchangedIsTrue
    SnapshotsAccounted
\* The tools stop at the bound of their uses.
CHECK_DEADLOCK FALSE
