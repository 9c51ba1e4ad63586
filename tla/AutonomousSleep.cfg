\* A sleep that nothing disturbs.
SPECIFICATION FairSpec
CONSTANTS
    user = user
    blank = blank
    Events = {user}
    Urgent = {user}
    Blank = {}
    Tick = Tick
    Wake = Wake
    Capacity = 2
    Interrupts = 1
    MaxTicks = 0
    MaxIdle = 0
PROPERTIES
    SleepLasts
CHECK_DEADLOCK FALSE
