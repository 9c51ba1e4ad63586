\* Two jobs, one with a script; a year of two months of two days of two hours of
\* two minutes, and a search of one year, as four years of 365 days are not quite
\* the four years after which the 29th of February returns.
SPECIFICATION FairSpec
CONSTANTS
    plain = plain
    scripted = scripted
    NoJob = NoJob
    Jobs = {plain, scripted}
    Scripts = {scripted}
    Runners = {r1, r2}
    Callers = {c1}
    MaxCalls = 1
    MaxTime = 2
    Schedules <- SmallSchedules
    MonthsInYear = 2
    DaysInMonth = 2
    DaysInWeek = 2
    HoursInDay = 2
    MinutesInHour = 2
    Horizon = 16
    Zone <- OneHourEast
    Summer <- EastSummer
INVARIANTS
    NextIsNearest
PROPERTIES
    DueJobsRun
    NoLaunchAfterStop
    StopDrains
\* Nobody has to use the scheduler.
CHECK_DEADLOCK FALSE
