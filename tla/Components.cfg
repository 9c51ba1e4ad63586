\* Two prompts, the second over the late end of the first, with a scheduled run, a
\* tool each and a queued command; six lines around the window of five that the
\* composer has; a screen of one or two lines of narrow and wide runes.
\* The channel: one code that expires, two logins, two commands, a message each.
\* Three keys for one of three models, two of them in the chain.
\* Two calls of two fragments on a full channel; one skill that two passes age;
\* two processes with two turns each;
\* two starts with two preferences saved and a file changed by hand.
SPECIFICATION Spec
CONSTANTS
    MaxRuns = 2
    MaxCommands = 1
    MaxTools = 1
    Tools = {read}
    NoTool = NoTool
    ComposerLines = 5
    CompLines = 2
    HistoryMax = 1
    MaxRows = 6
    MaxCols = 1
    ItemCounts = {1, 3}
    Lines <- MCLines
    Outputs <- MCOutputs
    Heights = {1, 2}
    MaxMessages = 2
    MaxLines = 2
    MaxCol = 2
    MaxRefreshes = 1
    MaxLogins = 2
    MaxLoginCommands = 2
    MaxWritten = 1
    Names <- MCNames
    Type <- MCType
    HasBase = {"l"}
    Pooled = {"c"}
    NumKeys = 3
    Cooldown = 1
    Configured = "c"
    Chain <- MCChain
    BucketSize = 1
    NoModel = NoModel
    MaxTime = 2
    MaxMarks = 2
    MaxSwitches = 2
    MaxCalls = 3
    Providers = {"openai", "claude", "ollama"}
    NumCalls = 2
    Frags = 2
    EventCap = 2
    MaxText = 1
    MaxReplies = 2
    SkillNames = {k}
    Project = {k}
    User = {}
    Passes = {"ui", "tick"}
    None = None
    MaxCreated = 2
    MaxPasses = 2
    MaxStarts = 2
    MaxSettings = 1
    Writers = {w1, w2}
    Keys = {"a", "A"}
    FileOf <- MCFileOf
    FrontMatter = {1}
    Processes = {p, q}
    Submits = {1, 2}
    KeptSessions = 1
    MaxNotes = 2
    MaxOpened = 2
    MaxStored = 2
    MaxTodos = 2
    MaxValue = 2
    NoWrite = NoWrite
    MaxEdits = 1
    MaxSaves = 2
    MaxLoads = 2
INVARIANTS
    CancelReachesRun
    ShownToolsRun
    CursorShown
    WindowInTranscript
    CopiedIsHighlighted
    PollsAlone
    RotationServes
    WithinRate
    RunsOwnArguments
    SkillsKept
    CountsMessages
PROPERTIES
    BusyEnds
    StopEnds
    PreferenceKept
\* The user may quit, and nobody has to use the terminal; the other parts stop at
\* their bounds.
CHECK_DEADLOCK FALSE
