------------------------------- MODULE CronProofs ------------------------------
(***************************************************************************)
(* What is proved of Cron for any jobs, schedules, calendar and number of  *)
(* goroutines: its types, that it starts no job once it is stopped and     *)
(* uses its agent one run at a time and, in zones where clocks are not     *)
(* changed or are put forward in the east, that the search for the next    *)
(* run of a job ends and finds the nearest one.                            *)
(***************************************************************************)
EXTENDS Cron, FiniteSetTheorems, WellFoundedInduction, TLAPS

(* A goroutine that is not idle has a job. *)
Assigned == \A p \in Procs : pc[p] # "idle" => job[p] \in Jobs

LEMMA TypesInit == Init => TypeOK /\ Assigned
<1> SUFFICES ASSUME Init PROVE TypeOK /\ Assigned
  OBVIOUS
<1>1. {MaxCalls, MaxTime} \subseteq Nat
  BY CronAssumption
<1>2. pc \in [Procs -> Labels] /\ job \in [Procs -> Jobs \cup {NoJob}] /\ Assigned
  BY DEF Init, Assigned, Labels
<1>3. enabled \in [Jobs -> BOOLEAN] /\ DOMAIN next = Jobs /\ set \in [Jobs -> 0..MaxTime]
  BY <1>1 DEF Init
<1>4. clock \in 0..MaxTime /\ calls \in 0..MaxCalls
  BY <1>1 DEF Init
<1> QED
  BY <1>2, <1>3, <1>4 DEF Init, TypeOK

(* The steps that write the time or a next run. *)
LEMMA SetNextRunTypes ==
  ASSUME TypeOK, NEW j \in Jobs, SetNextRun(j)
  PROVE  DOMAIN next' = Jobs /\ set' \in [Jobs -> 0..MaxTime]
<1>1. clock \in 0..MaxTime /\ set \in [Jobs -> 0..MaxTime] /\ DOMAIN next = Jobs
  BY DEF TypeOK
<1>2. /\ next' = [next EXCEPT ![j] = NextRunOf(j)]
      /\ set' = [set EXCEPT ![j] = clock]
  BY Zenon DEF SetNextRun, NextRunOf
<1>3. DOMAIN next' = Jobs
  BY <1>1, <1>2
<1>4. set' \in [Jobs -> 0..MaxTime]
  BY <1>1, <1>2
<1> QED
  BY <1>3, <1>4

LEMMA CommandTypes == TypeOK /\ Assigned /\ Command => TypeOK' /\ Assigned'
<1> SUFFICES ASSUME TypeOK, Assigned, NEW j \in Jobs,
                    AddJob(j) \/ RemoveJob(j) \/ PauseJob(j) \/ ResumeJob(j)
             PROVE  TypeOK' /\ Assigned'
  BY DEF Command
<1>1. CASE AddJob(j)
  <2>1. UNCHANGED <<next, set>> \/ SetNextRun(j)
    BY <1>1, Zenon DEF AddJob
  <2>2. DOMAIN next' = Jobs /\ set' \in [Jobs -> 0..MaxTime]
    BY <2>1, SetNextRunTypes DEF TypeOK
  <2>3. known' \subseteq Jobs /\ stuck' \in {NoProc, "adder", "resumer"}
    BY <1>1 DEF AddJob, TypeOK
  <2>4. UNCHANGED <<clock, schedule, removed, enabled, loopVars, pc, job, agentVars, calls>>
    BY <1>1, Zenon DEF AddJob
  <2> QED
    BY <2>2, <2>3, <2>4 DEF TypeOK, Assigned, loopVars, agentVars
<1>2. CASE ResumeJob(j)
  <2>1. UNCHANGED <<next, set>> \/ SetNextRun(j)
    BY <1>2, Zenon DEF ResumeJob
  <2>2. DOMAIN next' = Jobs /\ set' \in [Jobs -> 0..MaxTime]
    BY <2>1, SetNextRunTypes DEF TypeOK
  <2>3. stuck' \in {NoProc, "adder", "resumer"} /\ enabled' \in [Jobs -> BOOLEAN]
    BY <1>2 DEF ResumeJob, TypeOK
  <2>4. Call /\ UNCHANGED <<clock, schedule, known, removed, loopVars, pc, job, agentVars>>
    BY <1>2, Zenon DEF ResumeJob
  <2> QED
    BY <2>2, <2>3, <2>4, CronAssumption DEF Call, TypeOK, Assigned, loopVars, agentVars
<1>3. CASE RemoveJob(j)
  BY <1>3, CronAssumption DEF RemoveJob, Call, TypeOK, Assigned, loopVars, agentVars
<1>4. CASE PauseJob(j)
  BY <1>4, CronAssumption DEF PauseJob, Call, TypeOK, Assigned, loopVars, agentVars
<1> QED
  BY <1>1, <1>2, <1>3, <1>4

LEMMA LoopTypes ==
  TypeOK /\ Assigned /\ (Time \/ Start \/ Tick \/ Check \/ LoopDone \/ Stop \/ StopReturns)
    => TypeOK' /\ Assigned'
<1> SUFFICES ASSUME TypeOK, Assigned,
                    Time \/ Start \/ Tick \/ Check \/ LoopDone \/ Stop \/ StopReturns
             PROVE  TypeOK' /\ Assigned'
  OBVIOUS
<1>1. CASE Time
  BY <1>1, CronAssumption DEF Time, TypeOK, Assigned, jobVars, loopVars, agentVars
<1>2. CASE Start \/ Tick \/ LoopDone \/ Stop \/ StopReturns
  BY <1>2 DEF Start, Tick, LoopDone, Stop, StopReturns, TypeOK, Assigned, jobVars, agentVars
<1>3. CASE \E j \in Jobs : Skip(j)
  BY <1>3 DEF Skip, TypeOK, Assigned, jobVars, agentVars
<1>4. ASSUME NEW j \in Jobs, NEW r \in Runners, Launch(j, r)
      PROVE  TypeOK' /\ Assigned'
  <2>1. r \in Procs
    BY DEF Procs
  <2>2. pc' \in [Procs -> Labels] /\ job' \in [Procs -> Jobs \cup {NoJob}]
    BY <1>4, <2>1 DEF Launch, Goto, Labels, TypeOK
  <2>3. Assigned'
    BY <1>4, <2>1 DEF Launch, Goto, Assigned, TypeOK
  <2> QED
    BY <1>4, <2>2, <2>3 DEF Launch, TypeOK, jobVars, agentVars
<1> QED
  BY <1>1, <1>2, <1>3, <1>4 DEF Check

LEMMA RunNowTypes ==
  ASSUME TypeOK, Assigned, NEW c \in Callers, NEW j \in Jobs, RunNow(c, j)
  PROVE  TypeOK' /\ Assigned'
<1>1. c \in Procs
  BY DEF Procs
<1>2. pc' \in [Procs -> Labels] /\ job' \in [Procs -> Jobs \cup {NoJob}]
  BY <1>1 DEF RunNow, Goto, Labels, TypeOK
<1>3. Assigned'
  BY <1>1 DEF RunNow, Goto, Assigned, TypeOK
<1> QED
  BY <1>2, <1>3, CronAssumption DEF RunNow, Call, TypeOK, jobVars, loopVars, agentVars

LEMMA ExecuteTypes ==
  ASSUME TypeOK, Assigned, NEW p \in Procs, Execute(p)
  PROVE  TypeOK' /\ Assigned'
<1>1. CASE ScriptEnds(p)
  BY <1>1 DEF ScriptEnds, Goto, Labels, TypeOK, Assigned, jobVars, loopVars, agentVars
<1>2. CASE Reset(p)
  BY <1>2 DEF Reset, Goto, Labels, TypeOK, Assigned, jobVars, loopVars
<1>3. CASE Submit(p)
  <2>1. job[p] \in Jobs
    BY <1>3 DEF Submit, Assigned
  <2> QED
    BY <1>3, <2>1 DEF Submit, Goto, Labels, TypeOK, Assigned, jobVars, loopVars
<1>4. CASE SubmitRefused(p)
  <2>1. pc' \in [Procs -> Labels] /\ job' \in [Procs -> Jobs \cup {NoJob}]
    BY <1>4 DEF SubmitRefused, Goto, Labels, TypeOK
  <2>2. Assigned'
    BY <1>4 DEF SubmitRefused, Goto, Assigned, TypeOK
  <2> QED
    BY <1>4, <2>1, <2>2 DEF SubmitRefused, TypeOK, jobVars, loopVars, agentVars
<1>5. CASE SubmitReturns(p)
  <2>1. job[p] \in Jobs
    BY <1>5 DEF SubmitReturns, Assigned
  <2>2. pc' \in [Procs -> Labels] /\ job' \in [Procs -> Jobs \cup {NoJob}]
    BY <1>5 DEF SubmitReturns, Goto, Labels, TypeOK
  <2>3. Assigned'
    BY <1>5 DEF SubmitReturns, Goto, Assigned, TypeOK
  <2> QED
    BY <1>5, <2>1, <2>2, <2>3 DEF SubmitReturns, TypeOK, jobVars, loopVars
<1>6. CASE Finish(p)
  <2>1. job[p] \in Jobs
    BY <1>6 DEF Finish, Assigned
  <2>2. \/ Goto(p, "search") /\ UNCHANGED <<next, set, job>>
        \/ SetNextRun(job[p]) /\ Goto(p, "idle") /\ job' = [job EXCEPT ![p] = NoJob]
    BY <1>6, Zenon DEF Finish
  <2>3. DOMAIN next' = Jobs /\ set' \in [Jobs -> 0..MaxTime]
    BY <2>1, <2>2, SetNextRunTypes DEF TypeOK
  <2>4. pc' \in [Procs -> Labels] /\ job' \in [Procs -> Jobs \cup {NoJob}]
    BY <2>2 DEF Goto, Labels, TypeOK
  <2>5. Assigned'
    BY <2>1, <2>2 DEF Goto, Assigned, TypeOK
  <2>6. UNCHANGED <<clock, schedule, known, removed, enabled, stuck, loopVars, agentVars, calls>>
    BY <1>6, Zenon DEF Finish
  <2> QED
    BY <2>3, <2>4, <2>5, <2>6 DEF TypeOK, loopVars, agentVars
<1> QED
  BY <1>1, <1>2, <1>3, <1>4, <1>5, <1>6, Zenon DEF Execute

LEMMA TypesNext == TypeOK /\ Assigned /\ [Next]_vars => TypeOK' /\ Assigned'
<1>1. TypeOK /\ Assigned /\ UNCHANGED vars => TypeOK' /\ Assigned'
  BY DEF vars, jobVars, loopVars, agentVars, TypeOK, Assigned
<1> QED
  BY <1>1, CommandTypes, LoopTypes, RunNowTypes, ExecuteTypes DEF Next

(* The scheduler's type invariant: in particular the history has messages of *)
(* jobs only, because a goroutine that submits has a job (Assigned).         *)
THEOREM CronTypeCorrect == Spec => []TypeOK
  BY TypesInit, TypesNext, PTL DEF Spec

-----------------------------------------------------------------------------
(* A pass is in progress only in a running loop, which Stop has waited for. *)
StopInv ==
    /\ pc \in [Procs -> Labels]
    /\ todo # {} => loop = "on"
    /\ stopped => loop = "done"

(* The action property as a formula of one step. *)
QuietStep == stopped => \A r \in Runners : pc[r] = "idle" => pc'[r] = "idle"

LEMMA StopInvInit == Init => StopInv
  BY DEF Init, StopInv, Procs, Labels

LEMMA StopInvNext == StopInv /\ [Next]_vars => StopInv' /\ QuietStep
<1> SUFFICES ASSUME StopInv, [Next]_vars
             PROVE  StopInv' /\ QuietStep
  OBVIOUS
<1> USE DEF StopInv, QuietStep
<1>1. CASE Time
  BY <1>1 DEF Time, loopVars
<1>2. CASE Command
  <2>1. UNCHANGED <<loopVars, pc>>
    BY <1>2 DEF Command, AddJob, RemoveJob, PauseJob, ResumeJob
  <2> QED
    BY <2>1 DEF loopVars
<1>3. CASE Start \/ Tick \/ LoopDone \/ Stop \/ StopReturns
  BY <1>3 DEF Start, Tick, LoopDone, Stop, StopReturns, Checking
<1>4. CASE Check
  <2>1. CASE \E j \in Jobs : Skip(j)
    BY <2>1 DEF Skip
  <2>2. ASSUME NEW j \in Jobs, NEW r \in Runners, Launch(j, r)
        PROVE  StopInv' /\ QuietStep
    <3>1. loop = "on" /\ ~stopped
      BY <2>2 DEF Launch
    <3>2. pc' \in [Procs -> Labels]
      BY <2>2 DEF Launch, Goto, Labels, Procs
    <3>3. UNCHANGED <<loop, stopped>>
      BY <2>2 DEF Launch
    <3> QED
      BY <3>1, <3>2, <3>3
  <2> QED
    BY <1>4, <2>1, <2>2 DEF Check
<1>5. ASSUME NEW c \in Callers, NEW j \in Jobs, RunNow(c, j)
      PROVE  StopInv' /\ QuietStep
  <2>1. pc' = [pc EXCEPT ![c] = "submit"] /\ UNCHANGED loopVars
    BY <1>5 DEF RunNow, Goto
  <2>2. c \notin Runners
    BY CronAssumption
  <2> QED
    BY <2>1, <2>2 DEF loopVars, Procs, Labels
<1>6. ASSUME NEW p \in Procs, Execute(p)
      PROVE  StopInv' /\ QuietStep
  <2>1. UNCHANGED loopVars
    BY <1>6 DEF Execute, ScriptEnds, Reset, Submit, SubmitRefused, SubmitReturns, Finish
  <2>2. pc[p] # "idle"
    BY <1>6 DEF Execute, ScriptEnds, Reset, Submit, SubmitRefused, SubmitReturns, Finish
  <2>3. \E label \in Labels : pc' = [pc EXCEPT ![p] = label]
    BY <1>6 DEF Execute, ScriptEnds, Reset, Submit, SubmitRefused, SubmitReturns, Finish,
                Goto, Labels
  <2> QED
    BY <2>1, <2>2, <2>3 DEF loopVars, Procs
<1>7. CASE UNCHANGED vars
  BY <1>7 DEF vars, loopVars
<1> QED
  BY <1>1, <1>2, <1>3, <1>4, <1>5, <1>6, <1>7 DEF Next

(* Once Stop has returned no goroutine is given a job any more: Stop waits *)
(* for the loop (wg.Wait), and only a pass of the loop starts jobs.        *)
THEOREM CronNoLaunchAfterStop == Spec => NoLaunchAfterStop
<1>1. Init => StopInv
  BY StopInvInit
<1>2. StopInv /\ [Next]_vars => StopInv'
  BY StopInvNext
<1>3. StopInv /\ [Next]_vars =>
        [stopped => \A r \in Runners : pc[r] = "idle" => pc'[r] = "idle"]_vars
  BY StopInvNext DEF QuietStep
<1> QED
  BY <1>1, <1>2, <1>3, PTL DEF Spec, NoLaunchAfterStop

-----------------------------------------------------------------------------
(***************************************************************************)
(* The search for the next run, for any calendar and any schedule.  A jump *)
(* to the next month, day or hour passes over hours of the same month, day *)
(* or hour, where the field that did not match has the same wrong value,   *)
(* and over no other but the first pass of an hour that comes twice        *)
(* (HourJumps); from each of those hours it goes to the same minute        *)
(* (JumpKinds).  So the minutes that the search may find are the same      *)
(* before a jump and after it (JumpKeeps), and the first of them is what   *)
(* the recursive function finds: the one that gives it is such a function  *)
(* (SearchExists), and of the minutes for which another were wrong the     *)
(* last would jump to one for which it is right (SearchFinds).             *)
(***************************************************************************)

(* A nonempty set of numbers up to n has a greatest one.                   *)
LEMMA GreatestNumber ==
    ASSUME NEW n \in Nat, NEW T \in SUBSET (0..n), T # {}
    PROVE  \E x \in T : \A y \in T : x >= y
  <1> DEFINE above == {i..n : i \in T}
  <1>1. above \subseteq FiniteSubsetsOf(0..n) /\ above # {}
    <2>1. ASSUME NEW i \in T
          PROVE  i..n \in SUBSET (0..n) /\ IsFiniteSet(i..n)
      BY FS_Interval
    <2> QED
      BY <2>1 DEF FiniteSubsetsOf
  <1>2. PICK s \in above : \A t \in above : <<t, s>> \notin StrictSubsetOrdering(0..n)
    BY <1>1, FS_StrictSubsetOrderingWellFounded, WFMin, Zenon
  <1>3. PICK x \in T : s = x..n
    OBVIOUS
  <1>4. ASSUME NEW y \in T, ~(x >= y)
        PROVE  FALSE
    <2>1. y..n \in above /\ y..n \in SUBSET (0..n) /\ s \in SUBSET (0..n)
      BY <1>3
    <2>2. y..n \subseteq s /\ y..n # s
      <3>1. x \in s /\ x \notin y..n
        BY <1>3, <1>4
      <3> QED
        BY <1>3, <1>4, <3>1
    <2> QED
      BY <1>2, <2>1, <2>2 DEF StrictSubsetOrdering
  <1> QED
    BY <1>4

LEMMA Lengths ==
    /\ MinutesInHour \in Nat \ {0} /\ HoursInDay \in Nat \ {0} /\ DaysInMonth \in Nat \ {0}
    /\ HoursInMonth \in Nat \ {0} /\ HoursInDay <= HoursInMonth
    /\ Horizon \in Nat \ {0}
    /\ (HoursInMonth + 1) * MinutesInHour \in Nat
  <1>1. /\ MinutesInHour \in Nat \ {0} /\ HoursInDay \in Nat \ {0} /\ DaysInMonth \in Nat \ {0}
        /\ Horizon \in Nat \ {0}
    BY CronAssumption
  <1>2. HoursInMonth \in Nat \ {0} /\ HoursInDay <= HoursInMonth
    <2>1. \A a, b \in Nat \ {0} : a * b \in Nat \ {0} /\ b <= a * b
      OBVIOUS
    <2> QED
      BY <1>1, <2>1 DEF HoursInMonth
  <1>3. \A a, b \in Nat : a * b \in Nat
    OBVIOUS
  <1> QED
    BY <1>1, <1>2, <1>3

LEMMA Quotient ==
    ASSUME NEW n \in Nat \ {0}, NEW h \in Int
    PROVE  /\ h \div n \in Int /\ n * (h \div n) <= h /\ h < n * (h \div n) + n
           /\ \A a \in Int : n * a <= h /\ h < n * a + n => h \div n = a
  OBVIOUS

(* The next period begins after h, and until then the period is that of h. *)
LEMMA Periods ==
    ASSUME NEW n \in Nat \ {0}, NEW h \in Int
    PROVE  /\ NextStart(h, n) \in Int
           /\ h < NextStart(h, n) /\ NextStart(h, n) <= h + n
           /\ \A u \in Int : h <= u /\ u < NextStart(h, n) => u \div n = h \div n
  <1> DEFINE q == h \div n
  <1>1. q \in Int /\ n * q <= h /\ h < n * q + n
    BY Quotient
  <1>2. NextStart(h, n) = n * q + n /\ n * q \in Int
    <2>1. q \in Int
      BY <1>1
    <2> HIDE DEF q
    <2>2. (q + 1) * n = n * q + n /\ n * q \in Int
      BY <2>1
    <2> USE DEF q
    <2> QED
      BY <2>2 DEF NextStart
  <1> HIDE DEF q
  <1>3. ASSUME NEW u \in Int, h <= u, u < NextStart(h, n)
        PROVE  u \div n = q
    <2>1. n * q <= u /\ u < n * q + n
      BY <1>1, <1>2, <1>3
    <2> QED
      BY <1>1, <2>1, Quotient
  <1> QED
    BY <1>1, <1>2, <1>3 DEF q

(* Hours of one day are hours of one month. *)
LEMMA SameDaySameMonth ==
    ASSUME NEW h \in Int, NEW u \in Int, u \div HoursInDay = h \div HoursInDay
    PROVE  u \div HoursInMonth = h \div HoursInMonth
  <1> DEFINE H == HoursInDay
             D == DaysInMonth
             q == h \div H
             a == q \div D
  <1>1. H \in Nat \ {0} /\ D \in Nat \ {0} /\ HoursInMonth = D * H /\ HoursInMonth \in Nat \ {0}
    BY Lengths DEF HoursInMonth
  <1>2. q \in Int /\ a \in Int /\ D * a <= q /\ q + 1 <= D * a + D
    <2>1. q \in Int
      BY <1>1, Quotient
    <2> HIDE DEF q, D
    <2>2. a \in Int /\ D * a <= q /\ q < D * a + D
      BY <1>1, <2>1, Quotient
    <2> HIDE DEF a
    <2>3. D * a \in Int
      BY <1>1, <2>2
    <2> QED
      BY <1>1, <2>1, <2>2, <2>3
  <1>3. ASSUME NEW v \in Int, v \div H = q
        PROVE  v \div HoursInMonth = a
    <2>1. H * q <= v /\ v < H * q + H
      BY <1>1, <1>3, Quotient
    <2> HIDE DEF H, D, q, a
    <2>2. D * a \in Int
      BY <1>1, <1>2
    <2>3. H * (D * a) <= H * q /\ H * (q + 1) <= H * (D * a + D)
      <3>1. \A x, y \in Int : x <= y => H * x <= H * y
        BY <1>1
      <3> QED
        BY <1>1, <1>2, <2>2, <3>1
    <2>4. /\ H * (q + 1) = H * q + H /\ H * (D * a + D) = H * (D * a) + D * H
          /\ H * (D * a) = (D * H) * a
      BY <1>1, <1>2, <2>2
    <2>5. H * q \in Int /\ (D * H) * a \in Int /\ D * H \in Int
      BY <1>1, <1>2
    <2>6. HoursInMonth * a <= v /\ v < HoursInMonth * a + HoursInMonth
      BY <1>1, <2>1, <2>3, <2>4, <2>5
    <2> QED
      BY <1>1, <1>2, <2>6, Quotient
  <1> QED
    BY <1>3

LEMMA Offsets ==
    /\ Zone \in Int
    /\ \A h \in Int : /\ h \in Summer => Ahead(h) = Zone + 1
                      /\ h \notin Summer => Ahead(h) = Zone
                      /\ Local(h) = h + Ahead(h) /\ Local(h) \in Int
  BY CronAssumption DEF Ahead, Local

(* The hour of the clock that Date finds for local hour l. *)
HourOf(l) == l - Ahead(l - Ahead(l))

(* It is that hour or, for one that is passed over, the first of summer or *)
(* the last before it.                                                     *)
LEMMA Dates ==
    ASSUME NEW l \in Int
    PROVE  /\ HourOf(l) \in Int /\ HourOf(l) <= l - Zone
           /\ \/ Local(HourOf(l)) = l
              \/ /\ HourOf(l) \in Summer /\ HourOf(l) - 1 \notin Summer
                 /\ Local(HourOf(l)) = l + 1
              \/ ~ForwardInTheEast /\ Local(HourOf(l)) = l - 1
  <1> DEFINE a == l - Zone
  <1>1. a \in Int /\ a - 1 \in Int /\ l = a + Zone
    BY Offsets
  <1>2. CASE l \in Summer
    <2>1. HourOf(l) = IF a - 1 \in Summer THEN a - 1 ELSE a
      BY <1>1, <1>2, Offsets DEF HourOf
    <2> HIDE DEF a
    <2> QED
      BY <1>1, <2>1, Offsets
  <1>3. CASE l \notin Summer
    <2>1. HourOf(l) = IF a \in Summer THEN a - 1 ELSE a
      BY <1>1, <1>3, Offsets DEF HourOf
    <2> HIDE DEF a
    <2>2. CASE a \notin Summer
      BY <1>1, <2>1, <2>2, Offsets
    <2>3. CASE a \in Summer /\ a - 1 \in Summer
      BY <1>1, <2>1, <2>3, Offsets
    <2>4. CASE a \in Summer /\ a - 1 \notin Summer
      <3>1. ~ForwardInTheEast
        BY <1>1, <1>3, <2>4 DEF ForwardInTheEast
      <3> QED
        BY <1>1, <2>1, <2>4, <3>1, Offsets
    <2> QED
      BY <2>2, <2>3, <2>4
  <1> QED
    BY <1>2, <1>3

(* From hour h to the next period of that many local hours: forward, over  *)
(* hours of the same period and, at most, a first pass at the end.         *)
LEMMA HourJumps ==
    ASSUME ForwardInTheEast, NEW h \in Int, NEW n \in Nat \ {0}
    PROVE  LET k == HourOf(NextStart(Local(h), n)) IN
           /\ k \in Int /\ h < k /\ k <= h + n + 1
           /\ \A m \in h .. k - 1 :
                 \/ Local(m) \div n = Local(h) \div n
                 \/ m = k - 1 /\ h < m /\ m \in Summer /\ k \notin Summer
  <1> DEFINE l == NextStart(Local(h), n)
             k == HourOf(l)
  <1>1. /\ Local(h) \in Int /\ l \in Int /\ Local(h) < l /\ l <= Local(h) + n
        /\ \A u \in Int : Local(h) <= u /\ u < l => u \div n = Local(h) \div n
    BY Offsets, Periods
  <1>2. /\ k \in Int /\ k <= l - Zone
        /\ \/ Local(k) = l
           \/ k \in Summer /\ k - 1 \notin Summer /\ Local(k) = l + 1
    BY <1>1, Dates
  <1> HIDE DEF l, k
  <1>3. \A x, y \in Int : x <= y => Local(x) <= Local(y)
    BY Offsets
  <1>4. h < k
    <2>1. Local(k) >= l /\ Local(k) \in Int
      BY <1>1, <1>2, Offsets
    <2> QED
      BY <1>1, <1>2, <1>3, <2>1
  <1>5. k <= h + n + 1
    <2>1. Local(h) <= h + Zone + 1 /\ Zone \in Int
      BY Offsets
    <2> QED
      BY <1>1, <1>2, <2>1
  <1>6. ASSUME NEW m \in h .. k - 1
        PROVE  \/ Local(m) \div n = Local(h) \div n
               \/ m = k - 1 /\ h < m /\ m \in Summer /\ k \notin Summer
    <2>1. m \in Int /\ h <= m /\ m < k /\ Local(m) \in Int /\ Local(h) <= Local(m)
      BY <1>2, <1>3, Offsets
    <2>2. CASE Local(m) < l
      BY <1>1, <2>1, <2>2
    <2>3. CASE Local(m) >= l
      <3>1. Local(k) = l
        <4>1. k - 1 \in Int /\ Local(m) <= Local(k - 1)
          BY <1>2, <1>3, <2>1
        <4>2. k \in Summer /\ k - 1 \notin Summer => Local(k - 1) = Local(k) - 2
          BY <1>2, Offsets
        <4> QED
          BY <1>1, <1>2, <2>1, <2>3, <4>1, <4>2, Offsets
      <3>2. m = k - 1 /\ m \in Summer /\ k \notin Summer
        BY <1>1, <1>2, <2>1, <2>3, <3>1, Offsets
      <3>3. m # h
        BY <1>1, <2>3
      <3> QED
        BY <2>1, <3>2, <3>3
    <2> QED
      BY <1>1, <2>1, <2>2, <2>3
  <1> QED
    BY <1>2, <1>4, <1>5, <1>6 DEF k, l

(* A minute that is not scheduled, in an hour whose fields match or not:   *)
(* then the jump is the same from every minute of the period, and none of  *)
(* them is scheduled.                                                      *)
LEMMA JumpKinds ==
    ASSUME NEW e, NEW t \in Int, ~Scheduled(e, t)
    PROVE  \/ Jump(e, t) = t + 1
           \/ \E n \in Nat \ {0} :
                 /\ n <= HoursInMonth
                 /\ Jump(e, t) = Date(NextStart(LocalHour(t), n))
                 /\ \A u \in Int : LocalHour(u) \div n = LocalHour(t) \div n =>
                       ~Scheduled(e, u) /\ Jump(e, u) = Jump(e, t)
  <1>1. \A u \in Int : LocalHour(u) \in Int
    BY Lengths, Quotient, Offsets DEF LocalHour
  <1>2. ASSUME ~Matches(e.months, Month(t))
        PROVE  \A u \in Int : LocalHour(u) \div HoursInMonth = LocalHour(t) \div HoursInMonth =>
                  ~Scheduled(e, u) /\ Jump(e, u) = Jump(e, t)
    <2> SUFFICES ASSUME NEW u \in Int,
                        LocalHour(u) \div HoursInMonth = LocalHour(t) \div HoursInMonth
                 PROVE  ~Scheduled(e, u) /\ Jump(e, u) = Jump(e, t)
      OBVIOUS
    <2>1. Month(u) = Month(t) /\ NextMonth(u) = NextMonth(t)
      BY Zenon DEF Month, NextMonth, NextStart
    <2> QED
      BY <1>2, <2>1, Zenon DEF Scheduled, Jump
  <1>3. ASSUME Matches(e.months, Month(t)),
               ~Matches(e.days, Day(t)) \/ ~Matches(e.weekdays, Weekday(t))
        PROVE  \A u \in Int : LocalHour(u) \div HoursInDay = LocalHour(t) \div HoursInDay =>
                  ~Scheduled(e, u) /\ Jump(e, u) = Jump(e, t)
    <2> SUFFICES ASSUME NEW u \in Int,
                        LocalHour(u) \div HoursInDay = LocalHour(t) \div HoursInDay
                 PROVE  ~Scheduled(e, u) /\ Jump(e, u) = Jump(e, t)
      OBVIOUS
    <2>1. LocalHour(u) \div HoursInMonth = LocalHour(t) \div HoursInMonth
      BY <1>1, SameDaySameMonth
    <2>2. /\ Month(u) = Month(t) /\ Day(u) = Day(t) /\ Weekday(u) = Weekday(t)
          /\ NextDay(u) = NextDay(t)
      BY <2>1, Zenon DEF Month, Day, Weekday, NextDay, NextStart
    <2> QED
      BY <1>3, <2>2, Zenon DEF Scheduled, Jump
  <1>4. ASSUME Matches(e.months, Month(t)),
               Matches(e.days, Day(t)), Matches(e.weekdays, Weekday(t)),
               ~Matches(e.hours, Hour(t))
        PROVE  \A u \in Int : LocalHour(u) \div 1 = LocalHour(t) \div 1 =>
                  ~Scheduled(e, u) /\ Jump(e, u) = Jump(e, t)
    <2> SUFFICES ASSUME NEW u \in Int, LocalHour(u) \div 1 = LocalHour(t) \div 1
                 PROVE  ~Scheduled(e, u) /\ Jump(e, u) = Jump(e, t)
      OBVIOUS
    <2>1. LocalHour(u) = LocalHour(t)
      <3>1. \A x \in Int : x \div 1 = x
        OBVIOUS
      <3> QED
        BY <1>1, <3>1
    <2>2. /\ Month(u) = Month(t) /\ Day(u) = Day(t) /\ Weekday(u) = Weekday(t)
          /\ Hour(u) = Hour(t) /\ NextHour(u) = NextHour(t)
      BY <2>1, Zenon DEF Month, Day, Weekday, Hour, NextHour
    <2> QED
      BY <1>4, <2>2, Zenon DEF Scheduled, Jump
  <1>5. 1 \in Nat \ {0} /\ 1 <= HoursInMonth /\ HoursInMonth <= HoursInMonth
    BY Lengths
  <1>6. CASE ~Matches(e.months, Month(t))
    <2>1. Jump(e, t) = Date(NextStart(LocalHour(t), HoursInMonth))
      BY <1>6 DEF Jump, NextMonth
    <2> QED
      BY <1>2, <1>5, <1>6, <2>1, Lengths
  <1>7. CASE /\ Matches(e.months, Month(t))
             /\ ~Matches(e.days, Day(t)) \/ ~Matches(e.weekdays, Weekday(t))
    <2>1. Jump(e, t) = Date(NextStart(LocalHour(t), HoursInDay))
      BY <1>7 DEF Jump, NextDay
    <2> QED
      BY <1>3, <1>7, <2>1, Lengths
  <1>8. CASE /\ Matches(e.months, Month(t))
             /\ Matches(e.days, Day(t)) /\ Matches(e.weekdays, Weekday(t))
             /\ ~Matches(e.hours, Hour(t))
    <2>1. Jump(e, t) = Date(NextStart(LocalHour(t), 1))
      BY <1>8 DEF Jump, NextHour
    <2> QED
      BY <1>4, <1>5, <1>8, <2>1
  <1>9. CASE /\ Matches(e.months, Month(t))
             /\ Matches(e.days, Day(t)) /\ Matches(e.weekdays, Weekday(t))
             /\ Matches(e.hours, Hour(t))
    BY <1>9 DEF Jump
  <1> QED
    BY <1>6, <1>7, <1>8, <1>9

(* The hour of a minute, and the minute an hour begins with. *)
LEMMA Minutes ==
    ASSUME NEW k \in Int, NEW u \in Int
    PROVE  LET h == u \div MinutesInHour IN
           /\ h \in Int /\ k * MinutesInHour \in Int
           /\ h * MinutesInHour <= u /\ u < (h + 1) * MinutesInHour
           /\ (k * MinutesInHour) \div MinutesInHour = k
           /\ (k * MinutesInHour - 1) \div MinutesInHour = k - 1
           /\ k * MinutesInHour <= u <=> k <= h
           /\ (k + 1) * MinutesInHour = k * MinutesInHour + MinutesInHour
  <1> DEFINE M == MinutesInHour
             h == u \div M
  <1>1. M \in Nat \ {0}
    BY Lengths
  <1>2. h \in Int /\ M * h <= u /\ u < M * h + M
    BY <1>1, Quotient
  <1> HIDE DEF M, h
  <1>3. \A x \in Int : x * M = M * x /\ M * x \in Int /\ (x + 1) * M = M * x + M
                       /\ (x - 1) * M = M * x - M
    BY <1>1
  <1>4. (k * M) \div M = k /\ (k * M - 1) \div M = k - 1
    <2>1. M * k <= k * M /\ k * M < M * k + M /\ k * M \in Int
      BY <1>1, <1>3
    <2>2. M * (k - 1) <= k * M - 1 /\ k * M - 1 < M * (k - 1) + M /\ k - 1 \in Int
      <3>1. M * (k - 1) = M * k - M
        BY <1>1
      <3> QED
        BY <1>1, <1>3, <3>1
    <2>3. k * M - 1 \in Int
      BY <2>1
    <2> QED
      BY <1>1, <2>1, <2>2, <2>3, Quotient
  <1>5. k * M <= u <=> k <= h
    <2>1. \A x, y \in Int : x <= y => M * x <= M * y
      BY <1>1
    <2>2. ASSUME k <= h PROVE k * M <= u
      <3>1. M * k <= M * h
        BY <1>2, <2>1, <2>2
      <3> QED
        BY <1>2, <1>3, <3>1
    <2>3. ASSUME h + 1 <= k PROVE ~(k * M <= u)
      <3>1. M * (h + 1) <= M * k
        BY <1>2, <2>1, <2>3
      <3>2. M * (h + 1) = M * h + M
        BY <1>1, <1>2
      <3> QED
        BY <1>1, <1>2, <1>3, <3>1, <3>2
    <2> QED
      BY <1>2, <2>2, <2>3
  <1>6. h * M <= u /\ u < (h + 1) * M
    BY <1>2, <1>3
  <1> QED
    BY <1>2, <1>3, <1>4, <1>5, <1>6 DEF M, h

(* The search may find a scheduled minute, but of the first pass of an     *)
(* hour only if it is there already or goes there from the hour before.    *)
Begin(u) == (u \div MinutesInHour) * MinutesInHour

Found(e, t, u) ==
    /\ Scheduled(e, u)
    /\ FirstPass(u) /\ t < Begin(u) => Jump(e, Begin(u) - 1) = Begin(u)

LEMMA JumpKeeps ==
    ASSUME ForwardInTheEast, NEW e, NEW t \in Nat, ~Scheduled(e, t)
    PROVE  LET s == Jump(e, t) IN
           /\ s \in Nat /\ t < s /\ s <= t + (HoursInMonth + 1) * MinutesInHour
           /\ \A u \in Int : t <= u => (Found(e, t, u) <=> s <= u /\ Found(e, s, u))
  <1> DEFINE s == Jump(e, t)
             M == MinutesInHour
             h == t \div M
  <1>1. \A u \in Int : Begin(u) \in Int
    BY Minutes DEF Begin
  <1>2. CASE s = t + 1
    <2>1. ASSUME NEW u \in Int, t <= u
          PROVE  Found(e, t, u) <=> s <= u /\ Found(e, s, u)
      <3>1. u = t => ~Found(e, t, u)
        BY DEF Found
      <3>2. ASSUME s <= u, t < Begin(u), ~(s < Begin(u))
            PROVE  Jump(e, Begin(u) - 1) = Begin(u)
        <4> HIDE DEF s
        <4>1. Begin(u) = s /\ Begin(u) - 1 = t
          BY <1>1, <1>2, <2>1, <3>2
        <4> QED
          BY <4>1 DEF s
      <3>3. s < Begin(u) => t < Begin(u)
        BY <1>1, <1>2
      <3>4. u = t \/ s <= u
        BY <1>2, <2>1
      <3>5. u = t => ~(s <= u)
        BY <1>2
      <3> QED
        BY <3>1, <3>2, <3>3, <3>4, <3>5, Zenon DEF Found
    <2> QED
      BY <1>2, <2>1, Lengths
  <1>3. CASE s # t + 1
    <2>1. PICK n \in Nat \ {0} :
             /\ n <= HoursInMonth
             /\ s = Date(NextStart(LocalHour(t), n))
             /\ \A u \in Int : LocalHour(u) \div n = LocalHour(t) \div n =>
                   ~Scheduled(e, u) /\ Jump(e, u) = s
      BY <1>3, JumpKinds
    <2> DEFINE k == HourOf(NextStart(Local(h), n))
    <2>2. s = k * M
      BY <2>1 DEF Date, HourOf, LocalHour
    <2>3. /\ h \in Int /\ t \in Int /\ 0 <= h
      <3>1. 0 * M <= t <=> 0 <= h
        BY Minutes
      <3> QED
        BY <3>1, Minutes, Lengths
    <2>4. /\ k \in Int /\ h < k /\ k <= h + n + 1
          /\ \A m \in h .. k - 1 :
                \/ Local(m) \div n = Local(h) \div n
                \/ m = k - 1 /\ h < m /\ m \in Summer /\ k \notin Summer
      BY <2>3, HourJumps
    <2>5. \A u \in Int : Local(u \div M) \div n = Local(h) \div n =>
             ~Scheduled(e, u) /\ Jump(e, u) = s
      BY <2>1 DEF LocalHour
    <2> HIDE DEF s, k, h, M
    <2>6. s \in Int /\ t < s
      <3>1. k * M \in Int /\ (k * M <= t <=> k <= h)
        BY <2>3, <2>4, Minutes DEF h, M
      <3> QED
        BY <2>2, <2>3, <2>4, <3>1
    <2>7. s <= t + (HoursInMonth + 1) * MinutesInHour
      <3>1. h * M <= t /\ h * M \in Int
        BY <2>3, Minutes DEF h, M
      <3>2. k <= h + (HoursInMonth + 1)
        BY <2>1, <2>3, <2>4, Lengths
      <3>3. \A x, y, z \in Int : x <= y + z => x * M <= y * M + z * M
        <4>1. M \in Nat
          BY Lengths DEF M
        <4>2. \A x, v \in Int : x <= v => x * M <= v * M
          BY <4>1
        <4>3. \A y, z \in Int : y + z \in Int /\ (y + z) * M = y * M + z * M
          BY <4>1
        <4> QED
          BY <4>2, <4>3
      <3>4. k * M <= h * M + (HoursInMonth + 1) * M
        BY <2>3, <2>4, <3>2, <3>3, Lengths
      <3>5. (HoursInMonth + 1) * M \in Int /\ k * M \in Int
        BY <2>2, <2>6, Lengths DEF M
      <3> QED
        BY <2>2, <3>1, <3>4, <3>5 DEF M
    <2>8. ASSUME NEW u \in Int, t <= u
          PROVE  Found(e, t, u) <=> s <= u /\ Found(e, s, u)
      <3> DEFINE m == u \div M
                 b == m * M
      <3>1. /\ m \in Int /\ b \in Int /\ b = Begin(u) /\ b <= u
            /\ (k * M <= u <=> k <= m) /\ (h * M <= u <=> h <= m)
            /\ (b - 1) \div M = m - 1
            /\ (b <= t <=> m <= h)
        <4>1. m \in Int /\ m * M <= u
          BY Minutes DEF M
        <4>2. (k * M <= u <=> k <= m) /\ (h * M <= u <=> h <= m)
          BY <2>3, <2>4, Minutes DEF M
        <4>3. (b - 1) \div M = m - 1 /\ b \in Int /\ (b <= t <=> m <= h)
          <5> HIDE DEF m
          <5> QED
            BY <2>3, <4>1, Minutes DEF M, h
        <4> QED
          BY <4>1, <4>2, <4>3 DEF Begin, M
      <3>2. h <= m
        <4>1. h * M <= t /\ h * M \in Int
          BY <2>3, Minutes DEF h, M
        <4> QED
          BY <2>3, <2>8, <3>1, <4>1
      <3>3. FirstPass(u) <=> m \in Summer /\ m + 1 \notin Summer
        BY DEF FirstPass, M
      <3> HIDE DEF b
      <3>4. CASE ~(s <= u)
        <4>1. m < k
          BY <2>2, <2>4, <3>1, <3>4
        <4>2. CASE Local(m) \div n = Local(h) \div n
          BY <2>5, <3>4, <4>2 DEF Found
        <4>3. CASE Local(m) \div n # Local(h) \div n
          <5>1. m \in h .. k - 1
            BY <2>3, <2>4, <3>1, <3>2, <4>1
          <5>2. m = k - 1 /\ h < m /\ m \in Summer /\ k \notin Summer
            BY <2>4, <4>3, <5>1
          <5>3. FirstPass(u) /\ t < Begin(u)
            BY <2>3, <2>4, <3>1, <3>3, <5>2
          <5>4. m - 1 \in h .. k - 1 /\ m - 1 # k - 1
            BY <2>3, <2>4, <3>1, <5>2
          <5>5. Local(m - 1) \div n = Local(h) \div n
            BY <2>4, <5>4
          <5>6. Jump(e, Begin(u) - 1) = s
            BY <2>5, <3>1, <5>5
          <5>7. Begin(u) # s
            BY <2>6, <3>1, <3>4
          <5> QED
            BY <3>4, <5>3, <5>6, <5>7 DEF Found
        <4> QED
          BY <4>2, <4>3
      <3>5. CASE s <= u
        <4>1. k <= m
          BY <2>2, <3>1, <3>5
        <4>2. t < Begin(u)
          BY <2>3, <2>4, <3>1, <4>1
        <4>3. ASSUME FirstPass(u), ~(s < Begin(u))
              PROVE  Jump(e, Begin(u) - 1) = Begin(u)
          <5>1. Begin(u) <= s /\ Begin(u) \in Int
            BY <2>6, <3>1, <4>3
          <5>2. s <= Begin(u)
            <6>1. k * M <= b <=> k <= b \div M
              BY <2>4, <3>1, Minutes DEF M
            <6>2. b \div M = m
              BY <3>1, Minutes DEF M, b
            <6> QED
              BY <2>2, <3>1, <4>1, <6>1, <6>2
          <5>3. m = k
            <6>1. b = k * M
              BY <2>2, <2>6, <3>1, <5>1, <5>2
            <6>2. b \div M = m /\ (k * M) \div M = k
              BY <2>4, <3>1, Minutes DEF M, b
            <6> QED
              BY <6>1, <6>2
          <5>4. k \in Summer
            BY <3>3, <4>3, <5>3
          <5>5. k - 1 \in h .. k - 1
            BY <2>3, <2>4
          <5>6. Local(k - 1) \div n = Local(h) \div n
            BY <2>4, <5>4, <5>5
          <5>7. Jump(e, Begin(u) - 1) = s
            BY <2>5, <3>1, <5>3, <5>6
          <5> QED
            BY <2>6, <5>1, <5>2, <5>7
        <4> QED
          BY <3>5, <4>2, <4>3 DEF Found
      <3> QED
        BY <3>4, <3>5
    <2> QED
      BY <2>3, <2>6, <2>7, <2>8 DEF s
  <1> QED
    BY <1>2, <1>3

(* In any zone a jump that does not go forward goes to an hour of the      *)
(* period it is to leave, from where the next jump is to the same minute.  *)
LEMMA JumpStands ==
    ASSUME NEW e, NEW t \in Int, Jump(e, t) <= t
    PROVE  Jump(e, Jump(e, t)) = Jump(e, t) /\ ~Scheduled(e, Jump(e, t))
  <1> DEFINE s == Jump(e, t)
             M == MinutesInHour
             h == t \div M
  <1>1. s # t + 1 /\ ~Scheduled(e, t)
    BY DEF Jump, Scheduled
  <1>2. PICK n \in Nat \ {0} :
           /\ s = Date(NextStart(LocalHour(t), n))
           /\ \A u \in Int : LocalHour(u) \div n = LocalHour(t) \div n =>
                 ~Scheduled(e, u) /\ Jump(e, u) = s
    BY <1>1, JumpKinds
  <1> DEFINE l == NextStart(Local(h), n)
             k == HourOf(l)
  <1>3. s = k * M
    BY <1>2 DEF Date, HourOf, LocalHour
  <1>4. h \in Int
    BY Minutes
  <1> HIDE DEF h
  <1>5. /\ Local(h) \in Int /\ l \in Int /\ Local(h) < l
        /\ \A u \in Int : Local(h) <= u /\ u < l => u \div n = Local(h) \div n
    BY <1>4, Offsets, Periods
  <1> HIDE DEF l
  <1>6. k \in Int /\ (Local(k) >= l \/ Local(k) = l - 1)
    BY <1>5, Dates
  <1> HIDE DEF k, s
  <1>7. k <= h /\ k * M \in Int /\ (k * M) \div M = k
    <2>1. k * M \in Int /\ (k * M) \div M = k /\ (k * M <= t <=> k <= h)
      BY <1>6, Minutes DEF h
    <2> QED
      BY <1>3, <2>1 DEF s
  <1>8. Local(k) <= Local(h)
    BY <1>4, <1>6, <1>7, Offsets
  <1>9. Local(k) = l - 1
    BY <1>5, <1>6, <1>8, Offsets
  <1>10. Local(k) \div n = Local(h) \div n
    <2>1. Local(h) <= l - 1 /\ l - 1 < l /\ l - 1 \in Int
      BY <1>5
    <2> QED
      BY <1>5, <1>9, <2>1
  <1>11. LocalHour(s) \div n = LocalHour(t) \div n /\ s \in Int
    BY <1>3, <1>7, <1>10 DEF LocalHour, h
  <1> QED
    BY <1>2, <1>11 DEF s

(***************************************************************************)
(* The recursive function of NextRun, and what it is to compute: the first *)
(* minute from t to the deadline that it may find.                         *)
(***************************************************************************)

Looked(after) == after .. (after + Horizon + (HoursInMonth + 1) * MinutesInHour)

Searches(from, e, after) ==
    from = [t \in Looked(after) |->
               IF PastDeadline(t, after) THEN Never
               ELSE IF Scheduled(e, t) THEN t
               ELSE IF Jump(e, t) > t THEN from[Jump(e, t)]
               ELSE Endless]

LEMMA NextRunSearches ==
    ASSUME NEW e, NEW after
    PROVE  NextRun(e, after) = (CHOOSE from : Searches(from, e, after))[after + 1]
  BY DEF NextRun, Searches, Looked

Later(e, after, t) == {u \in t .. (after + Horizon - 1) : Found(e, t, u)}

First(e, after, t) ==
    IF Later(e, after, t) = {} THEN Never
    ELSE CHOOSE u \in Later(e, after, t) : \A v \in Later(e, after, t) : u <= v

(* The search, by its steps. *)
Steps(from, e, after) ==
    \A t \in Looked(after) :
        from[t] = IF PastDeadline(t, after) THEN Never
                  ELSE IF Scheduled(e, t) THEN t
                  ELSE IF Jump(e, t) > t THEN from[Jump(e, t)]
                  ELSE Endless

LEMMA SearchSteps ==
    ASSUME NEW e, NEW after, NEW from, from = [t \in Looked(after) |-> from[t]]
    PROVE  Searches(from, e, after) <=> Steps(from, e, after)
  <1> DEFINE body(t) ==
               IF PastDeadline(t, after) THEN Never
               ELSE IF Scheduled(e, t) THEN t
               ELSE IF Jump(e, t) > t THEN from[Jump(e, t)]
               ELSE Endless
  <1>1. Searches(from, e, after) <=> from = [t \in Looked(after) |-> body(t)]
    BY DEF Searches
  <1>2. Steps(from, e, after) <=> \A t \in Looked(after) : from[t] = body(t)
    BY DEF Steps
  <1> HIDE DEF body
  <1>3. from = [t \in Looked(after) |-> body(t)] <=> \A t \in Looked(after) : from[t] = body(t)
    OBVIOUS
  <1> QED
    BY <1>1, <1>2, <1>3

LEMMA FirstIsLeast ==
    ASSUME NEW e, NEW after \in Nat, NEW t \in Nat
    PROVE  /\ Later(e, after, t) = {} => First(e, after, t) = Never
           /\ Later(e, after, t) # {} =>
                 /\ First(e, after, t) \in Later(e, after, t)
                 /\ \A v \in Later(e, after, t) : First(e, after, t) <= v
  <1> DEFINE S == Later(e, after, t)
  <1>1. ASSUME S # {}
        PROVE  \E u \in S : \A v \in S : u <= v
    <2> DEFINE n == after + Horizon
               T == {n - u : u \in S}
    <2>1. n \in Nat /\ \A u \in S : u \in Nat /\ u <= n
      BY Lengths DEF Later
    <2>2. T \in SUBSET (0 .. n) /\ T # {}
      <3> HIDE DEF S, n
      <3> QED
        BY <1>1, <2>1
    <2> HIDE DEF T
    <2>3. PICK x \in T : \A y \in T : x >= y
      BY <2>1, <2>2, GreatestNumber
    <2> USE DEF T
    <2>4. PICK u \in S : x = n - u
      BY <2>3
    <2>5. ASSUME NEW v \in S
          PROVE  u <= v
      <3>1. n - v \in T
        OBVIOUS
      <3>2. n - u >= n - v
        BY <2>3, <2>4, <3>1
      <3> HIDE DEF S, n
      <3> QED
        BY <2>1, <3>2
    <2> QED
      BY <2>5
  <1>2. S = {} => First(e, after, t) = Never
    BY DEF First
  <1>3. S # {} => First(e, after, t) = CHOOSE u \in S : \A v \in S : u <= v
    BY DEF First
  <1> HIDE DEF S
  <1>4. S # {} => First(e, after, t) \in S /\ \A v \in S : First(e, after, t) <= v
    BY <1>1, <1>3
  <1> QED
    BY <1>2, <1>4 DEF S

(* The search's steps lead to that minute. *)
LEMMA FirstSteps ==
    ASSUME ForwardInTheEast, NEW e, NEW after \in Nat, NEW t \in Looked(after)
    PROVE  /\ PastDeadline(t, after) => First(e, after, t) = Never
           /\ ~PastDeadline(t, after) /\ Scheduled(e, t) => First(e, after, t) = t
           /\ ~PastDeadline(t, after) /\ ~Scheduled(e, t) =>
                 /\ Jump(e, t) \in Looked(after) /\ t < Jump(e, t)
                 /\ First(e, after, t) = First(e, after, Jump(e, t))
  <1>1. /\ t \in Nat /\ after <= t /\ Horizon \in Nat
        /\ (HoursInMonth + 1) * MinutesInHour \in Nat
    BY Lengths DEF Looked
  <1>2. CASE PastDeadline(t, after)
    <2>1. Later(e, after, t) = {}
      BY <1>1, <1>2 DEF PastDeadline, Later
    <2> QED
      BY <1>1, <1>2, <2>1, FirstIsLeast
  <1>3. CASE ~PastDeadline(t, after) /\ Scheduled(e, t)
    <2>1. Found(e, t, t)
      <3>1. Begin(t) \in Int /\ Begin(t) <= t
        BY <1>1, Minutes DEF Begin
      <3> QED
        BY <1>1, <1>3, <3>1 DEF Found
    <2>2. t \in Later(e, after, t) /\ \A v \in Later(e, after, t) : v \in Nat /\ t <= v
      BY <1>1, <1>3, <2>1 DEF PastDeadline, Later
    <2>3. /\ First(e, after, t) \in Later(e, after, t)
          /\ First(e, after, t) <= t
      BY <1>1, <2>2, FirstIsLeast
    <2> QED
      BY <1>1, <1>3, <2>2, <2>3
  <1>4. CASE ~PastDeadline(t, after) /\ ~Scheduled(e, t)
    <2> DEFINE s == Jump(e, t)
    <2>1. /\ s \in Nat /\ t < s /\ s <= t + (HoursInMonth + 1) * MinutesInHour
          /\ \A u \in Int : t <= u => (Found(e, t, u) <=> s <= u /\ Found(e, s, u))
      BY <1>1, <1>4, JumpKeeps
    <2> HIDE DEF s
    <2>2. s \in Looked(after)
      BY <1>1, <1>4, <2>1 DEF PastDeadline, Looked
    <2>3. Later(e, after, t) = Later(e, after, s)
      BY <1>1, <2>1 DEF Later
    <2>4. First(e, after, t) = First(e, after, s)
      BY <2>3 DEF First
    <2> QED
      BY <1>4, <2>1, <2>2, <2>4 DEF s
  <1> QED
    BY <1>2, <1>3, <1>4

(* So there is a function that searches ... *)
LEMMA SearchExists ==
    ASSUME ForwardInTheEast, NEW e, NEW after \in Nat
    PROVE  \E from : Searches(from, e, after)
  <1> DEFINE g == [t \in Looked(after) |-> First(e, after, t)]
  <1>1. g = [t \in Looked(after) |-> g[t]]
    OBVIOUS
  <1>2. \A t \in Looked(after) : g[t] = First(e, after, t)
    OBVIOUS
  <1> HIDE DEF g
  <1>3. Steps(g, e, after)
    <2> SUFFICES ASSUME NEW t \in Looked(after)
                 PROVE  g[t] = IF PastDeadline(t, after) THEN Never
                               ELSE IF Scheduled(e, t) THEN t
                               ELSE IF Jump(e, t) > t THEN g[Jump(e, t)]
                               ELSE Endless
      BY DEF Steps
    <2>1. CASE ~PastDeadline(t, after) /\ ~Scheduled(e, t)
      <3>1. /\ Jump(e, t) \in Looked(after) /\ t < Jump(e, t)
            /\ First(e, after, t) = First(e, after, Jump(e, t))
        BY <2>1, FirstSteps
      <3>2. Jump(e, t) > t
        BY <3>1, Lengths DEF Looked
      <3> QED
        BY <1>2, <2>1, <3>1, <3>2
    <2> QED
      BY <1>2, <2>1, FirstSteps
  <1> QED
    BY <1>1, <1>3, SearchSteps

(* ... and it is the only one: of the minutes for which another one were   *)
(* wrong, the last one would jump to one for which it is right.            *)
LEMMA SearchFinds ==
    ASSUME ForwardInTheEast, NEW e, NEW after \in Nat, NEW from, Searches(from, e, after),
           NEW t \in Looked(after)
    PROVE  from[t] = First(e, after, t)
  <1>1. from = [s \in Looked(after) |-> from[s]]
    BY DEF Searches
  <1>2. Steps(from, e, after)
    BY <1>1, SearchSteps
  <1> DEFINE n == after + Horizon + (HoursInMonth + 1) * MinutesInHour
             T == {s \in Looked(after) : from[s] # First(e, after, s)}
  <1>3. n \in Nat /\ T \in SUBSET (0 .. n)
    BY Lengths DEF Looked
  <1>4. ASSUME T # {}
        PROVE  FALSE
    <2> HIDE DEF T, n
    <2>1. PICK s \in T : \A y \in T : s >= y
      BY <1>3, <1>4, GreatestNumber
    <2> USE DEF T
    <2>2. s \in Looked(after) /\ from[s] # First(e, after, s)
      BY <2>1
    <2>3. from[s] = IF PastDeadline(s, after) THEN Never
                    ELSE IF Scheduled(e, s) THEN s
                    ELSE IF Jump(e, s) > s THEN from[Jump(e, s)]
                    ELSE Endless
      BY <1>2, <2>2 DEF Steps
    <2>4. /\ ~PastDeadline(s, after) /\ ~Scheduled(e, s)
          /\ Jump(e, s) \in Looked(after) /\ s < Jump(e, s)
          /\ First(e, after, s) = First(e, after, Jump(e, s))
      BY <2>2, <2>3, FirstSteps
    <2>5. Jump(e, s) \in T
      <3>1. Jump(e, s) > s
        BY <2>2, <2>4, Lengths DEF Looked
      <3> QED
        BY <2>2, <2>3, <2>4, <3>1
    <2>6. s >= Jump(e, s) /\ s \in Nat /\ Jump(e, s) \in Nat
      BY <2>1, <2>4, <2>5, Lengths DEF Looked
    <2> QED
      BY <2>4, <2>6
  <1> QED
    BY <1>4

LEMMA NextRunIsFirst ==
    ASSUME ForwardInTheEast, NEW e, NEW after \in Nat
    PROVE  NextRun(e, after) = First(e, after, after + 1)
  <1> DEFINE from == CHOOSE f : Searches(f, e, after)
  <1>1. Searches(from, e, after)
    BY SearchExists
  <1>2. after + 1 \in Looked(after)
    BY Lengths DEF Looked
  <1>3. NextRun(e, after) = from[after + 1]
    BY NextRunSearches
  <1> HIDE DEF from
  <1> QED
    BY <1>1, <1>2, <1>3, SearchFinds

-----------------------------------------------------------------------------
(* Where a next run is from. *)
NextSearched == \A j \in known : next[j] = NextRun(schedule[j], set[j])

LEMMA SetNextRunSearched ==
  ASSUME TypeOK, NEW j \in Jobs, NextSearched, SetNextRun(j), schedule' = schedule,
         known' \subseteq known \cup {j}
  PROVE  NextSearched'
<1>1. /\ next' = [next EXCEPT ![j] = NextRun(schedule[j], clock)]
      /\ set' = [set EXCEPT ![j] = clock]
  BY Zenon DEF SetNextRun, NextRunOf
<1>2. known \subseteq Jobs /\ DOMAIN next = Jobs /\ DOMAIN set = Jobs
  BY DEF TypeOK
<1>3. ASSUME NEW k \in known'
      PROVE  next'[k] = NextRun(schedule'[k], set'[k])
  <2>1. CASE k = j
    <3>1. next'[j] = NextRun(schedule[j], clock) /\ set'[j] = clock
      BY <1>1, <1>2
    <3> QED
      BY <2>1, <3>1
  <2>2. CASE k # j
    <3>1. k \in known /\ k \in Jobs
      BY <1>2, <2>2
    <3>2. next'[k] = next[k] /\ set'[k] = set[k]
      BY <1>1, <1>2, <2>2, <3>1
    <3> QED
      BY <3>1, <3>2 DEF NextSearched
  <2> QED
    BY <2>1, <2>2
<1> QED
  BY <1>3 DEF NextSearched

LEMMA StepNextSearched ==
  ASSUME TypeOK, Assigned, NextSearched, [Next]_vars
  PROVE  NextSearched'
<1>1. CASE known' \subseteq known /\ UNCHANGED <<schedule, next, set>>
  BY <1>1 DEF NextSearched
<1>2. CASE UNCHANGED vars
  BY <1>1, <1>2 DEF vars, jobVars
<1>3. CASE Time \/ Start \/ Tick \/ Check \/ LoopDone \/ Stop \/ StopReturns
  <2>1. UNCHANGED jobVars
    BY <1>3 DEF Time, Start, Tick, Check, Skip, Launch, LoopDone, Stop, StopReturns
  <2> QED
    BY <1>1, <2>1 DEF jobVars
<1>4. ASSUME NEW j \in Jobs, AddJob(j) \/ ResumeJob(j)
      PROVE  NextSearched'
  <2>1. schedule' = schedule /\ known' \subseteq known \cup {j}
    BY <1>4, Zenon DEF AddJob, ResumeJob
  <2>2. CASE AddJob(j)
    <3>1. SetNextRun(j) \/ UNCHANGED <<known, next, set>>
      BY <2>2, Zenon DEF AddJob
    <3> QED
      BY <1>1, <2>1, <3>1, SetNextRunSearched
  <2>3. CASE ResumeJob(j)
    <3>1. SetNextRun(j) \/ UNCHANGED <<next, set>>
      BY <2>3, Zenon DEF ResumeJob
    <3>2. known' = known
      BY <2>3 DEF ResumeJob
    <3> QED
      BY <1>1, <2>1, <3>1, <3>2, SetNextRunSearched
  <2> QED
    BY <1>4, <2>2, <2>3
<1>5. ASSUME NEW j \in Jobs, RemoveJob(j) \/ PauseJob(j)
      PROVE  NextSearched'
  BY <1>1, <1>5 DEF RemoveJob, PauseJob
<1>6. ASSUME NEW c \in Callers, NEW j \in Jobs, RunNow(c, j)
      PROVE  NextSearched'
  BY <1>1, <1>6 DEF RunNow, jobVars
<1>7. ASSUME NEW p \in Procs, Execute(p)
      PROVE  NextSearched'
  <2>1. CASE ScriptEnds(p) \/ Reset(p) \/ Submit(p) \/ SubmitRefused(p) \/ SubmitReturns(p)
    BY <1>1, <2>1 DEF ScriptEnds, Reset, Submit, SubmitRefused, SubmitReturns, jobVars
  <2>2. CASE Finish(p)
    <3>1. pc[p] = "finish" /\ schedule' = schedule /\ known' = known
      BY <2>2 DEF Finish
    <3>2. SetNextRun(job[p]) \/ UNCHANGED <<next, set>>
      BY <2>2, Zenon DEF Finish
    <3>3. job[p] \in Jobs
      BY <3>1 DEF Assigned
    <3> QED
      BY <1>1, <3>1, <3>2, <3>3, SetNextRunSearched
  <2> QED
    BY <1>7, <2>1, <2>2 DEF Execute
<1> QED
  BY <1>2, <1>3, <1>4, <1>5, <1>6, <1>7 DEF Next, Command

(* nextRun (parser.go:210): for any calendar, schedules and moments, where *)
(* clocks are not changed or are put forward in the east, the next run of  *)
(* each job is the first minute after the moment it was computed that the  *)
(* five fields say, and never if there is none before the deadline: a jump *)
(* over a month, a day or an hour misses none but those of the first pass  *)
(* of an hour that comes twice.                                            *)
THEOREM CronNextIsNearest ==
  ASSUME ForwardInTheEast
  PROVE  Spec => []NextIsNearest
<1> DEFINE Inv == TypeOK /\ Assigned /\ NextSearched
<1>1. Init => Inv
  BY TypesInit DEF Init, NextSearched
<1>2. Inv /\ [Next]_vars => Inv'
  BY TypesNext, StepNextSearched
<1>3. Inv => NextIsNearest
  <2> SUFFICES ASSUME Inv, NEW j \in known
               PROVE  LET later == {t \in (set[j] + 1) .. (set[j] + Horizon - 1) :
                                      Scheduled(schedule[j], t)}
                          owed == {t \in later : ~FirstPass(t)}
                      IN  IF next[j] = Never THEN owed = {}
                          ELSE next[j] \in later /\ \A t \in owed : next[j] <= t
    BY DEF NextIsNearest
  <2> DEFINE e == schedule[j]
             after == set[j]
             later == {t \in (after + 1) .. (after + Horizon - 1) : Scheduled(e, t)}
             owed == {t \in later : ~FirstPass(t)}
             found == Later(e, after, after + 1)
  <2>1. after \in Nat
    BY CronAssumption DEF TypeOK
  <2>2. next[j] = NextRun(e, after)
    BY DEF NextSearched
  <2> HIDE DEF e, after
  <2>3. owed \subseteq found /\ found \subseteq later
    BY DEF Later, Found
  <2>4. Never \notin later
    BY <2>1 DEF Never
  <2> HIDE DEF later, owed, found
  <2>5. next[j] = First(e, after, after + 1) /\ after + 1 \in Nat
    BY <2>1, <2>2, NextRunIsFirst
  <2>6. /\ found = {} => next[j] = Never
        /\ found # {} => next[j] \in found /\ \A t \in found : next[j] <= t
    BY <2>1, <2>5, FirstIsLeast DEF found
  <2>7. IF next[j] = Never THEN owed = {}
        ELSE next[j] \in later /\ \A t \in owed : next[j] <= t
    BY <2>3, <2>4, <2>6
  <2> QED
    BY <2>7 DEF e, after, later, owed
<1> QED
  BY <1>1, <1>2, <1>3, PTL DEF Spec

(* Nobody searches. *)
LEMMA SearchFound ==
    ASSUME ForwardInTheEast, NEW e, NEW after \in Nat
    PROVE  NextRun(e, after) # Endless
  <1>1. NextRun(e, after) = First(e, after, after + 1) /\ after + 1 \in Nat
    BY NextRunIsFirst
  <1>2. First(e, after, after + 1) = Never \/ First(e, after, after + 1) \in Nat
    <2>1. \A u \in Later(e, after, after + 1) : u \in Nat
      BY Lengths DEF Later
    <2> QED
      BY <1>1, <2>1, FirstIsLeast
  <1> QED
    BY <1>1, <1>2 DEF Never, Endless

(* "Search up to 4 years ahead" (parser.go:219): where clocks are not      *)
(* changed or are put forward in the east every search ends, and neither   *)
(* the locks nor the commands are held for ever.                           *)
THEOREM CronSearchEnds ==
  ASSUME ForwardInTheEast
  PROVE  Spec => []SearchEnds
<1>1. Init => SearchEnds
  BY DEF Init, SearchEnds, Procs
<1>2. ASSUME TypeOK
      PROVE  \A j : NextRunOf(j) # Endless
  <2>1. clock \in Nat
    BY <1>2, CronAssumption DEF TypeOK
  <2> QED
    BY <2>1, SearchFound DEF NextRunOf
<1>3. ASSUME TypeOK, SearchEnds, [Next]_vars
      PROVE  SearchEnds'
  <2>1. pc \in [Procs -> Labels] /\ \A r \in Runners : r \in Procs
    BY <1>3 DEF TypeOK, Procs
  <2>2. stuck' = stuck
    <3>1. CASE \E j \in Jobs : AddJob(j) \/ ResumeJob(j)
      BY <1>2, <1>3, <3>1 DEF AddJob, ResumeJob
    <3>2. CASE \E j \in Jobs : RemoveJob(j) \/ PauseJob(j)
      BY <3>2 DEF RemoveJob, PauseJob
    <3>3. CASE Time \/ Start \/ Tick \/ Check \/ LoopDone \/ Stop \/ StopReturns \/ UNCHANGED vars
      BY <3>3 DEF Time, Start, Tick, Check, Skip, Launch, LoopDone, Stop, StopReturns, vars,
                  jobVars
    <3>4. CASE \E c \in Callers, j \in Jobs : RunNow(c, j)
      BY <3>4 DEF RunNow, jobVars
    <3>5. CASE \E p \in Procs : Execute(p)
      BY <3>5 DEF Execute, ScriptEnds, Reset, Submit, SubmitRefused, SubmitReturns, Finish,
                  jobVars
    <3> QED
      BY <1>3, <3>1, <3>2, <3>3, <3>4, <3>5 DEF Next, Command
  <2>3. \/ pc' = pc
        \/ \E p \in Procs, label \in Labels \ {"search"} : pc' = [pc EXCEPT ![p] = label]
    <3>1. CASE Command \/ Time \/ Start \/ Tick \/ LoopDone \/ Stop \/ StopReturns
               \/ UNCHANGED vars
      BY <3>1 DEF Command, AddJob, RemoveJob, PauseJob, ResumeJob, Time, Start, Tick, LoopDone,
                  Stop, StopReturns, vars
    <3>2. CASE Check
      <4>1. CASE \E j \in Jobs : Skip(j)
        BY <4>1 DEF Skip
      <4>2. CASE \E j \in Jobs, r \in Runners : Launch(j, r)
        BY <2>1, <4>2 DEF Launch, Goto, Labels
      <4> QED
        BY <3>2, <4>1, <4>2 DEF Check
    <3>3. CASE \E c \in Callers, j \in Jobs : RunNow(c, j)
      BY <3>3 DEF RunNow, Goto, Labels, Procs
    <3>4. ASSUME NEW p \in Procs, Execute(p)
          PROVE  \E label \in Labels \ {"search"} : pc' = [pc EXCEPT ![p] = label]
      <4>1. CASE Finish(p)
        BY <1>2, <1>3, <4>1 DEF Finish, Goto, Labels
      <4>2. CASE ScriptEnds(p) \/ Reset(p) \/ Submit(p) \/ SubmitRefused(p) \/ SubmitReturns(p)
        BY <4>2 DEF ScriptEnds, Reset, Submit, SubmitRefused, SubmitReturns, Goto, Labels
      <4> QED
        BY <3>4, <4>1, <4>2 DEF Execute
    <3> QED
      BY <1>3, <3>1, <3>2, <3>3, <3>4 DEF Next
  <2> QED
    BY <1>3, <2>1, <2>2, <2>3 DEF SearchEnds
<1> QED
  BY <1>1, <1>3, CronTypeCorrect, PTL DEF Spec

-----------------------------------------------------------------------------
(***************************************************************************)
(* The goroutines as users of the agent: its flag is held by the one that  *)
(* is in a run, and by nobody else.                                        *)
(***************************************************************************)
OwnerRuns == \A p \in Procs : pc[p] = "running" <=> owner = p

InRuns == {p \in Procs : pc[p] = "running"}

LEMMA StepOwnerRuns ==
  ASSUME TypeOK, OwnerRuns, [Next]_vars
  PROVE  OwnerRuns' /\ (Shared!Next \/ UNCHANGED Shared!vars)
<1>1. pc \in [Procs -> Labels]
  BY DEF TypeOK
<1>2. ASSUME NEW p \in Procs, NEW label, label # "running", pc[p] # "running",
             Goto(p, label), UNCHANGED owner
      PROVE  OwnerRuns' /\ UNCHANGED Shared!vars
  <2>1. \A q \in Procs : pc'[q] = "running" <=> pc[q] = "running"
    BY <1>1, <1>2 DEF Goto
  <2>2. InRuns' = InRuns
    BY <2>1 DEF InRuns
  <2> QED
    BY <1>2, <2>1, <2>2 DEF OwnerRuns, InRuns, Busy, Shared!vars
<1>3. ASSUME UNCHANGED <<pc, owner>>
      PROVE  OwnerRuns' /\ UNCHANGED Shared!vars
  BY <1>3 DEF OwnerRuns, Busy, Shared!vars
<1>4. ASSUME NEW p \in Procs, Submit(p)
      PROVE  OwnerRuns' /\ Shared!Next
  <2>1. owner = NoProc /\ owner' = p /\ pc' = [pc EXCEPT ![p] = "running"]
    BY <1>4 DEF Submit, Busy, Goto
  <2>2. InRuns = {}
    BY <2>1, NobodyAssumption DEF OwnerRuns, InRuns
  <2>3. OwnerRuns' /\ InRuns' = {p}
    BY <1>1, <2>1, <2>2 DEF OwnerRuns, InRuns
  <2> QED
    BY <2>1, <2>2, <2>3, NobodyAssumption DEF InRuns, Busy, Shared!Next, Shared!Enter
<1>5. ASSUME NEW p \in Procs, SubmitReturns(p)
      PROVE  OwnerRuns' /\ Shared!Next
  <2>1. PICK label \in {"finish", "idle"} : pc' = [pc EXCEPT ![p] = label]
    BY <1>5 DEF SubmitReturns, Goto
  <2>2. owner = p /\ owner' = NoProc
    BY <1>5 DEF SubmitReturns, OwnerRuns
  <2>3. InRuns = {p}
    BY <2>2 DEF OwnerRuns, InRuns
  <2>4. \A q \in Procs : pc'[q] # "running"
    BY <1>1, <2>1, <2>3 DEF InRuns
  <2>5. OwnerRuns' /\ InRuns' = {}
    BY <2>2, <2>4, NobodyAssumption DEF OwnerRuns, InRuns
  <2> QED
    BY <2>2, <2>3, <2>5, NobodyAssumption DEF InRuns, Busy, Shared!Next, Shared!Leave
<1>6. ASSUME NEW p \in Procs, Execute(p)
      PROVE  OwnerRuns' /\ (Shared!Next \/ UNCHANGED Shared!vars)
  <2>1. CASE ScriptEnds(p) \/ Reset(p) \/ SubmitRefused(p) \/ Finish(p)
    <3>1. pc[p] # "running" /\ UNCHANGED owner
      BY <2>1 DEF ScriptEnds, Reset, SubmitRefused, Finish, agentVars
    <3>2. \E label \in {"reset", "finish", "submit", "idle", "search"} : Goto(p, label)
      BY <2>1 DEF ScriptEnds, Reset, SubmitRefused, Finish
    <3> QED
      BY <1>2, <3>1, <3>2
  <2> QED
    BY <1>4, <1>5, <1>6, <2>1 DEF Execute
<1>7. CASE Check
  <2>1. CASE \E j \in Jobs : Skip(j)
    BY <1>3, <2>1 DEF Skip, agentVars
  <2>2. ASSUME NEW j \in Jobs, NEW r \in Runners, Launch(j, r)
        PROVE  OwnerRuns' /\ UNCHANGED Shared!vars
    <3>1. r \in Procs /\ pc[r] # "running" /\ UNCHANGED owner
      BY <2>2 DEF Launch, agentVars, Procs
    <3>2. \E label \in {"script", "reset"} : Goto(r, label)
      BY <2>2 DEF Launch
    <3> QED
      BY <1>2, <3>1, <3>2
  <2> QED
    BY <1>7, <2>1, <2>2 DEF Check
<1>8. ASSUME NEW c \in Callers, NEW j \in Jobs, RunNow(c, j)
      PROVE  OwnerRuns' /\ UNCHANGED Shared!vars
  <2>1. c \in Procs /\ pc[c] # "running" /\ UNCHANGED owner /\ Goto(c, "submit")
    BY <1>8 DEF RunNow, agentVars, Procs
  <2> QED
    BY <1>2, <2>1
<1>9. CASE Time \/ Command \/ Start \/ Tick \/ LoopDone \/ Stop \/ StopReturns
           \/ UNCHANGED vars
  <2>1. UNCHANGED <<pc, owner>>
    BY <1>9 DEF Time, Command, AddJob, RemoveJob, PauseJob, ResumeJob, Start, Tick,
                LoopDone, Stop, StopReturns, vars, agentVars
  <2> QED
    BY <1>3, <2>1
<1> QED
  BY <1>6, <1>7, <1>8, <1>9 DEF Next

(* The jobs and RunNow use the scheduler's agent as the agent's            *)
(* specification allows: one run at a time, whoever launched it and        *)
(* however many due jobs a pass launched at once.                          *)
THEOREM CronUsesAgent == Spec => AgentUsed
<1>1. Init => OwnerRuns /\ Shared!Init
  BY NobodyAssumption DEF Init, OwnerRuns, Busy, Shared!Init
<1>2. TypeOK /\ OwnerRuns /\ [Next]_vars => OwnerRuns' /\ [Shared!Next]_(Shared!vars)
  BY StepOwnerRuns
<1> QED
  BY <1>1, <1>2, CronTypeCorrect, PTL DEF Spec, AgentUsed, Shared!Spec

=============================================================================
