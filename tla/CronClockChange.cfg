\* A job that runs daily in the hour that clocks, west of UTC, are put forward over.
SPECIFICATION Spec
CONSTANTS
    plain = plain
    scripted = scripted
    NoJob = NoJob
    Jobs = {plain}
    Scripts = {}
    Runners = {r1, r2}
    Callers = {c1}
    MaxCalls = 1
    MaxTime = 2
    Schedules <- DailySchedules
    MonthsInYear = 2
    DaysInMonth = 2
    DaysInWeek = 2
    HoursInDay = 2
    MinutesInHour = 2
    Horizon = 16
    Zone <- OneHourWest
    Summer <- WestSummer
INVARIANTS
    SearchEnds
CHECK_DEADLOCK FALSE
