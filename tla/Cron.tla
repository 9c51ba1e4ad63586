--------------------------------- MODULE Cron ---------------------------------
(***************************************************************************)
(* The cron scheduler of internal/cron: jobs with a schedule, the loop that *)
(* looks for due jobs every second, the goroutine that executes a job, and *)
(* the commands run, pause and resume, on an agent of its own.             *)
(*                                                                         *)
(* Time is counted in minutes and advances at any moment; the loop may     *)
(* look any number of times in a minute.  The local calendar, of equal     *)
(* months, is a zone whole hours from the clock, and in the hours of       *)
(* Summer an hour more: clocks are changed on the hour.                    *)
(* A pass of the loop holds the scheduler's read lock, which pause,        *)
(* resume, add and remove wait for; the lock of a job is held for one read *)
(* or one write, which takes the search for its next run.  Prompts,        *)
(* responses, the delivery of results and the statistics LastRun and       *)
(* RunCount are left out.                                                  *)
(***************************************************************************)
EXTENDS Integers, FiniteSets

CONSTANTS
    Jobs,           \* jobs, as objects: a name added again is another job
    Scripts,        \* jobs that have a script
    Runners,        \* bound: goroutines that execute jobs at one time
    Callers,        \* goroutines that may call RunNow
    MaxCalls,       \* bound: calls of RunNow, PauseJob, ResumeJob, RemoveJob
    MaxTime,        \* bound: the last minute
    Schedules,      \* schedules the jobs may have: functions of the jobs
    MonthsInYear, DaysInMonth, DaysInWeek, HoursInDay, MinutesInHour,
    Horizon,        \* minutes that the search looks ahead
    Zone,           \* hours that local time is ahead in winter
    Summer,         \* hours in which clocks are one more hour ahead
    NoJob

ASSUME CronAssumption ==
    /\ Scripts \subseteq Jobs
    /\ NoJob \notin Jobs
    /\ Runners \cap Callers = {}
    /\ {MaxCalls, MaxTime} \subseteq Nat
    /\ {MonthsInYear, DaysInMonth, DaysInWeek, HoursInDay, MinutesInHour, Horizon}
          \subseteq Nat \ {0}
    /\ Zone \in Int /\ Summer \subseteq Int

-----------------------------------------------------------------------------
(***************************************************************************)
(* Schedules (parser.go).  A field is *, a step from a base, or a list.    *)
(***************************************************************************)

Every == [kind |-> "all", base |-> 0, step |-> 0, exact |-> {}]
Step(base, n) == [kind |-> "step", base |-> base, step |-> n, exact |-> {}]
Exact(values) == [kind |-> "exact", base |-> 0, step |-> 0, exact |-> values]

Matches(f, v) ==
    CASE f.kind = "all"   -> TRUE
      [] f.kind = "step"  -> v >= f.base /\ (v - f.base) % f.step = 0
      [] f.kind = "exact" -> v \in f.exact

(* Hours are numbered; the number of the local hour begins the same way.   *)
Ahead(h) == IF h \in Summer THEN Zone + 1 ELSE Zone
Local(h) == h + Ahead(h)

LocalHour(t) == Local(t \div MinutesInHour)

HoursInMonth == DaysInMonth * HoursInDay

Month(t) == ((LocalHour(t) \div HoursInMonth) % MonthsInYear) + 1
Day(t) == ((LocalHour(t) \div HoursInDay) % DaysInMonth) + 1
Weekday(t) == (LocalHour(t) \div HoursInDay) % DaysInWeek
Hour(t) == LocalHour(t) % HoursInDay
Minute(t) == t % MinutesInHour

(* time.Date: a minute that begins local hour l.  The offset is looked up  *)
(* at l, taken for an hour of the clock, and again at what comes of it.    *)
(* For an hour that the clocks are put forward over the result is the hour *)
(* after it or, in the west, the one before; for one that comes twice, the *)
(* second or, in the west, the first.                                      *)
Date(l) == (l - Ahead(l - Ahead(l))) * MinutesInHour

(* The first hour of the period, of that many hours, after that of h. *)
NextStart(h, length) == ((h \div length) + 1) * length

NextMonth(t) == Date(NextStart(LocalHour(t), HoursInMonth))

(* Variant: the next day is looked at from the same hour on. *)
SameHourNextDay(t) == t + HoursInDay * MinutesInHour

NextDay(t) == Date(NextStart(LocalHour(t), HoursInDay))
NextHour(t) == Date(NextStart(LocalHour(t), 1))

(* What the five fields of a schedule say.  Both the day of the month and  *)
(* the day of the week must match.                                         *)
Scheduled(e, t) ==
    /\ Matches(e.months, Month(t)) /\ Matches(e.days, Day(t))
    /\ Matches(e.weekdays, Weekday(t))
    /\ Matches(e.hours, Hour(t)) /\ Matches(e.minutes, Minute(t))

(* Where the search goes on from a minute that is not scheduled: at the    *)
(* next month, day, hour or minute.                                        *)
Jump(e, t) ==
    IF ~Matches(e.months, Month(t)) THEN NextMonth(t)
    ELSE IF ~Matches(e.days, Day(t)) \/ ~Matches(e.weekdays, Weekday(t)) THEN NextDay(t)
    ELSE IF ~Matches(e.hours, Hour(t)) THEN NextHour(t)
    ELSE t + 1

PastDeadline(t, after) == t >= after + Horizon

(* The zero time.  No job is due in minute 0, where the model begins. *)
Never == 0

(* The result of a search that does not end. *)
Endless == -1

(* nextRun.  A jump that does not go forward lands where the next one      *)
(* stays (JumpStands in CronProofs): the search never ends.                *)
NextRun(e, after) ==
    LET from[t \in after .. (after + Horizon + (HoursInMonth + 1) * MinutesInHour)] ==
            IF PastDeadline(t, after) THEN Never
            ELSE IF Scheduled(e, t) THEN t
            ELSE IF Jump(e, t) > t THEN from[Jump(e, t)]
            ELSE Endless
    IN  from[after + 1]

-----------------------------------------------------------------------------

VARIABLES
    clock,          \* the current minute
    schedule,       \* job.Schedule
    known,          \* s.jobs
    removed,        \* jobs that were in s.jobs
    enabled,        \* job.Enabled
    next,           \* job.NextRun
    stuck,          \* who is in an endless search but for the Runners: the
                    \* "adder" or the "resumer", which holds s.mu, of a job
    loop,           \* the loop: "off", "on" or "done"
    todo,           \* jobs the pass in progress has still to look at
    cancelled,      \* s.ctx is cancelled
    stopped,        \* Stop has returned
    pc,             \* where each goroutine is in executeJob or RunNow
    job,            \* the job it executes
    owner,          \* the goroutine that holds the agent's busy flag
    history,        \* jobs with messages in the agent's history
    calls,          \* those calls so far
    set             \* history: when the next run of each job was computed

jobVars == <<schedule, known, removed, enabled, next, stuck, set>>
loopVars == <<loop, todo, cancelled, stopped>>
agentVars == <<owner, history>>
vars == <<clock, jobVars, loopVars, pc, job, agentVars, calls>>

Procs == Runners \cup Callers
NoProc == "nobody"

ASSUME NobodyAssumption == NoProc \notin Procs

Labels == {"idle", "script", "reset", "submit", "running", "finish", "search"}

Goto(p, label) == pc' = [pc EXCEPT ![p] = label]

(* The pass of the loop holds the read lock of s.mu. *)
Checking == todo # {}

Busy == owner # NoProc

(* The program's start and then the user give their commands one after     *)
(* another: one that does not end is the last.  A RunNow that is in a run  *)
(* may go on beside the others.                                            *)
CommandsServed == stuck = NoProc

(* An executing goroutine whose search is endless holds job.mu for ever. *)
Locked(j) == \E r \in Runners : pc[r] = "search" /\ job[r] = j

Call ==
    /\ calls < MaxCalls
    /\ calls' = calls + 1

Init ==
    /\ clock = 0
    /\ schedule \in Schedules
    /\ known = {} /\ removed = {}
    /\ enabled = [j \in Jobs |-> TRUE]
    /\ next = [j \in Jobs |-> Never]
    /\ set = [j \in Jobs |-> 0]
    /\ stuck = NoProc
    /\ loop = "off" /\ todo = {}
    /\ cancelled = FALSE /\ stopped = FALSE
    /\ pc = [p \in Procs |-> "idle"]
    /\ job = [p \in Procs |-> NoJob]
    /\ owner = NoProc /\ history = {}
    /\ calls = 0

-----------------------------------------------------------------------------

Time ==
    /\ clock < MaxTime
    /\ clock' = clock + 1
    /\ UNCHANGED <<jobVars, loopVars, pc, job, agentVars, calls>>

NextRunOf(j) == NextRun(schedule[j], clock)

SetNextRun(j) ==
    /\ next' = [next EXCEPT ![j] = NextRunOf(j)]
    /\ set' = [set EXCEPT ![j] = clock]

(* The next run is computed before the lock is taken. *)
AddJob(j) ==
    /\ CommandsServed
    /\ j \notin known \cup removed
    /\ IF NextRunOf(j) = Endless
       THEN stuck' = "adder" /\ UNCHANGED <<known, next, set>>
       ELSE /\ ~Checking
            /\ known' = known \cup {j}
            /\ SetNextRun(j)
            /\ UNCHANGED stuck
    /\ UNCHANGED <<clock, schedule, removed, enabled, loopVars, pc, job, agentVars, calls>>

RemoveJob(j) ==
    /\ CommandsServed
    /\ j \in known /\ ~Checking
    /\ Call
    /\ known' = known \ {j}
    /\ removed' = removed \cup {j}
    /\ UNCHANGED <<clock, schedule, enabled, next, stuck, set, loopVars, pc, job, agentVars>>

PauseJob(j) ==
    /\ CommandsServed
    /\ j \in known /\ ~Checking
    /\ Call
    /\ enabled' = [enabled EXCEPT ![j] = FALSE]
    /\ UNCHANGED <<clock, schedule, known, removed, next, stuck, set, loopVars, pc, job, agentVars>>

ResumeJob(j) ==
    /\ CommandsServed
    /\ j \in known /\ ~Checking
    /\ Call
    /\ enabled' = [enabled EXCEPT ![j] = TRUE]
    /\ IF NextRunOf(j) = Endless
       THEN stuck' = "resumer" /\ UNCHANGED <<next, set>>
       ELSE SetNextRun(j) /\ UNCHANGED stuck
    /\ UNCHANGED <<clock, schedule, known, removed, loopVars, pc, job, agentVars>>

-----------------------------------------------------------------------------
(***************************************************************************)
(* The loop.                                                               *)
(***************************************************************************)

Start ==
    /\ CommandsServed
    /\ loop = "off"
    /\ loop' = "on"
    /\ UNCHANGED <<clock, jobVars, todo, cancelled, stopped, pc, job, agentVars, calls>>

(* A tick: checkDue goes through the jobs. *)
Tick ==
    /\ loop = "on" /\ ~Checking
    /\ stuck # "resumer"
    /\ todo' = known
    /\ UNCHANGED <<clock, jobVars, loop, cancelled, stopped, pc, job, agentVars, calls>>

(* Variant: a job is due only after its minute. *)
DueAfter(j) == next[j] # Never /\ clock > next[j]

Due(j) == next[j] # Never /\ clock >= next[j]

(* A job that is not due, not enabled, or finds the agent busy has to wait *)
(* for a later pass (so does one beyond the bound of goroutines).  For a   *)
(* job whose lock is never released the pass waits for ever.               *)
Skip(j) ==
    /\ j \in todo /\ ~Locked(j)
    /\ \/ ~Due(j) \/ ~enabled[j] \/ Busy
       \/ \A r \in Runners : pc[r] # "idle"
    /\ todo' = todo \ {j}
    /\ UNCHANGED <<clock, jobVars, loop, cancelled, stopped, pc, job, agentVars, calls>>

(* A goroutine of its own executes a due job.  Its next run stays where it *)
(* is until the execution has ended.                                       *)
Launch(j, r) ==
    /\ j \in todo /\ ~Locked(j)
    /\ Due(j) /\ enabled[j] /\ ~Busy
    /\ r \in Runners /\ pc[r] = "idle"
    /\ todo' = todo \ {j}
    /\ Goto(r, IF j \in Scripts THEN "script" ELSE "reset")
    /\ job' = [job EXCEPT ![r] = j]
    /\ UNCHANGED <<clock, jobVars, loop, cancelled, stopped, agentVars, calls>>

LoopDone ==
    /\ loop = "on" /\ ~Checking /\ cancelled
    /\ loop' = "done"
    /\ UNCHANGED <<clock, jobVars, todo, cancelled, stopped, pc, job, agentVars, calls>>

Stop ==
    /\ CommandsServed
    /\ loop # "off" /\ ~cancelled
    /\ cancelled' = TRUE
    /\ UNCHANGED <<clock, jobVars, loop, todo, stopped, pc, job, agentVars, calls>>

(* Variant: Stop does not wait for the loop. *)
StopReturnsEarly ==
    /\ cancelled /\ ~stopped
    /\ stopped' = TRUE
    /\ UNCHANGED <<clock, jobVars, loop, todo, cancelled, pc, job, agentVars, calls>>

(* Stop waits for the loop, not for the jobs being executed. *)
StopReturns ==
    /\ cancelled /\ ~stopped /\ loop = "done"
    /\ stopped' = TRUE
    /\ UNCHANGED <<clock, jobVars, loop, todo, cancelled, pc, job, agentVars, calls>>

-----------------------------------------------------------------------------
(***************************************************************************)
(* executeJob and RunNow.                                                  *)
(***************************************************************************)

(* Variant: a script that is killed by its timeout is started again. *)
ScriptEndsRetried(r) ==
    /\ pc[r] = "script"
    /\ Goto(r, "script")
    /\ UNCHANGED <<clock, jobVars, loopVars, job, agentVars, calls>>

(* The script succeeds, fails or is killed by its timeout.  One that       *)
(* succeeds may ask not to wake the agent.                                 *)
ScriptEnds(r) ==
    /\ pc[r] = "script"
    /\ Goto(r, "reset") \/ Goto(r, "finish")
    /\ UNCHANGED <<clock, jobVars, loopVars, job, agentVars, calls>>

(* The agent's history is cleared, whoever is using it: the write races    *)
(* with the appends of a run.                                              *)
Reset(r) ==
    /\ pc[r] = "reset"
    /\ \/ history' = {}
       \/ Busy /\ UNCHANGED history
    /\ Goto(r, "submit")
    /\ UNCHANGED <<clock, jobVars, loopVars, job, owner, calls>>

(* RunNow looks the job up, and submits at once. *)
RunNow(c, j) ==
    /\ CommandsServed
    /\ c \in Callers /\ pc[c] = "idle"
    /\ j \in known /\ enabled[j]
    /\ Call
    /\ Goto(c, "submit")
    /\ job' = [job EXCEPT ![c] = j]
    /\ UNCHANGED <<clock, jobVars, loopVars, agentVars>>

Submit(p) ==
    /\ pc[p] = "submit" /\ ~Busy
    /\ owner' = p
    /\ history' = history \cup {job[p]}
    /\ Goto(p, "running")
    /\ UNCHANGED <<clock, jobVars, loopVars, job, calls>>

(* The agent is busy: an error, after which executeJob goes on and RunNow  *)
(* returns.                                                                *)
SubmitRefused(p) ==
    /\ pc[p] = "submit" /\ Busy
    /\ IF p \in Runners
       THEN Goto(p, "finish") /\ UNCHANGED job
       ELSE Goto(p, "idle") /\ job' = [job EXCEPT ![p] = NoJob]
    /\ UNCHANGED <<clock, jobVars, loopVars, agentVars, calls>>

(* The run ends, with the messages it appended in the history. *)
SubmitReturns(p) ==
    /\ pc[p] = "running"
    /\ owner' = NoProc
    /\ history' = history \cup {job[p]}
    /\ IF p \in Runners
       THEN Goto(p, "finish") /\ UNCHANGED job
       ELSE Goto(p, "idle") /\ job' = [job EXCEPT ![p] = NoJob]
    /\ UNCHANGED <<clock, jobVars, loopVars, calls>>

Finish(r) ==
    /\ pc[r] = "finish" /\ ~Locked(job[r])
    /\ IF NextRunOf(job[r]) = Endless
       THEN Goto(r, "search") /\ UNCHANGED <<next, set, job>>
       ELSE /\ SetNextRun(job[r])
            /\ Goto(r, "idle")
            /\ job' = [job EXCEPT ![r] = NoJob]
    /\ UNCHANGED <<clock, schedule, known, removed, enabled, stuck, loopVars, agentVars, calls>>

-----------------------------------------------------------------------------

Command == \E j \in Jobs : AddJob(j) \/ RemoveJob(j) \/ PauseJob(j) \/ ResumeJob(j)

Check == \E j \in Jobs : Skip(j) \/ \E r \in Runners : Launch(j, r)

Execute(p) ==
    ScriptEnds(p) \/ Reset(p) \/ Submit(p) \/ SubmitRefused(p) \/ SubmitReturns(p) \/ Finish(p)

Next ==
    \/ Time \/ Command
    \/ Start \/ Tick \/ Check \/ LoopDone \/ Stop \/ StopReturns
    \/ \E c \in Callers, j \in Jobs : RunNow(c, j)
    \/ \E p \in Procs : Execute(p)

Spec == Init /\ [][Next]_vars

(***************************************************************************)
(* The loop's ticker fires every second, a pass goes on, and a cancelled   *)
(* loop is seen to be cancelled between two ticks (Go picks at random      *)
(* among the ready cases).  The run of a job ends because its context      *)
(* does, after five minutes, and with it a request that waits for the      *)
(* model; that of RunNow has no such context, and the model is assumed to  *)
(* answer it.  A script is killed at its timeout, and is assumed to leave  *)
(* no process behind that keeps its output open.  Time need not pass.      *)
(***************************************************************************)
Fairness ==
    /\ WF_vars(Tick) /\ WF_vars(Check) /\ SF_vars(LoopDone)
    /\ \A p \in Procs : WF_vars(Execute(p))

FairSpec == Spec /\ Fairness

-----------------------------------------------------------------------------
(***************************************************************************)
(* Properties.                                                             *)
(***************************************************************************)

(* The type invariant.  What a next run may be, NextIsNearest says. *)
TypeOK ==
    /\ clock \in 0..MaxTime
    /\ schedule \in Schedules
    /\ known \subseteq Jobs /\ removed \subseteq Jobs
    /\ enabled \in [Jobs -> BOOLEAN]
    /\ set \in [Jobs -> 0..MaxTime]
    /\ DOMAIN next = Jobs
    /\ stuck \in {NoProc, "adder", "resumer"}
    /\ loop \in {"off", "on", "done"}
    /\ todo \subseteq Jobs
    /\ cancelled \in BOOLEAN /\ stopped \in BOOLEAN
    /\ pc \in [Procs -> Labels]
    /\ job \in [Procs -> Jobs \cup {NoJob}]
    /\ owner \in Procs \cup {NoProc}
    /\ history \subseteq Jobs
    /\ calls \in 0..MaxCalls

(* The first pass of an hour that comes twice. *)
FirstPass(t) ==
    LET h == t \div MinutesInHour IN h \in Summer /\ h + 1 \notin Summer

(* Where clocks are put forward, the new local time taken for an hour of   *)
(* the clock is in summer: so it is in the zones east of UTC, at UTC, and  *)
(* wherever clocks are not changed.                                        *)
ForwardInTheEast == \A h \in Summer : h - 1 \notin Summer => h + Zone \in Summer

(* The search jumps over months, days and hours, and yet the next run of a *)
(* job is the first scheduled minute after the moment it was computed, or  *)
(* never when there is none: no occurrence is jumped over, none is run in  *)
(* the minute the last execution ended in.  The first pass of an hour that *)
(* comes twice is excepted: a jump to that hour is to its second pass.     *)
NextIsNearest ==
    \A j \in known :
        LET later == {t \in (set[j] + 1) .. (set[j] + Horizon - 1) :
                        Scheduled(schedule[j], t)}
            owed == {t \in later : ~FirstPass(t)}
        IN  IF next[j] = Never THEN owed = {}
            ELSE next[j] \in later /\ \A t \in owed : next[j] <= t

(* "Search up to 4 years ahead": every search ends.  Not so west of UTC:   *)
(* the hour, or the day, that begins in the hour that clocks are put       *)
(* forward over is taken for the one before it, and the search goes there  *)
(* again and again, in the goroutine that adds or resumes the job, or in   *)
(* the one that executes it, with the job's lock.                          *)
SearchEnds == stuck = NoProc /\ \A r \in Runners : pc[r] # "search"

(* The code's promise to delay a job while the agent is busy: an enabled   *)
(* job that is due is taken up in the end, and its next run moves on, or   *)
(* somebody pauses or removes it or stops the scheduler.                   *)
DueJobsRun ==
    \A j \in Jobs :
        (loop = "on" /\ j \in known /\ enabled[j] /\ next[j] # Never /\ clock >= next[j])
            ~> (cancelled \/ j \notin known \/ ~enabled[j] \/ next[j] = Never \/ clock < next[j])

(* Once Stop has returned no job is started any more. *)
NoLaunchAfterStop ==
    [][stopped => \A r \in Runners : pc[r] = "idle" => pc'[r] = "idle"]_vars

(* The goroutines use the scheduler's agent as SharedAgent allows: those   *)
(* of the jobs and RunNow are in a run one at a time, although checkDue    *)
(* asks IsBusy long before executeJob submits, and two jobs that are due   *)
(* may both be launched.  Nobody interrupts this agent.                    *)
Shared == INSTANCE SharedAgent WITH
    Users <- Procs, Capacity <- 0,
    inside <- {p \in Procs : pc[p] = "running"}, taken <- Busy,
    waiting <- 0

AgentUsed == Shared!Spec

(* The jobs that Stop does not wait for come to an end. *)
StopDrains == cancelled ~> (\A r \in Runners : pc[r] = "idle")

=============================================================================
