\* A user event and one without text, ticks; a queue of two.
SPECIFICATION FairSpec
CONSTANTS
    user = user
    blank = blank
    Events = {user, blank}
    Urgent = {user, blank}
    Blank = {blank}
    Tick = Tick
    Wake = Wake
    Capacity = 2
    Interrupts = 1
    MaxTicks = 1
    MaxIdle = 1
INVARIANTS
    QuietAfterStop
PROPERTIES
    HandledOnce
    EventsTaken
    StopTerminates
\* A scheduler that was stopped and has no users left stops.
CHECK_DEADLOCK FALSE
