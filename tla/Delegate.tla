-------------------------------- MODULE Delegate --------------------------------
(***************************************************************************)
(* The dispatcher of internal/delegate.  Agents call Delegate (one job) or *)
(* BatchDelegate (a job for each task) through the tool delegate_task; a   *)
(* job runs a fresh agent, which has the same tools and may call the       *)
(* dispatcher again, from inside the job and with the job's context.       *)
(*                                                                         *)
(* A context is done when it, or one it descends from, was cancelled or    *)
(* timed out; Go cancels the descendants in the same moment.  Goals,       *)
(* outputs and the reports of a batch's progress are left out, but for the *)
(* wait of the first report for its reader.  The tool passes depth 1       *)
(* always, so that the check against maxDepth never refuses a call.        *)
(***************************************************************************)
EXTENDS Naturals, FiniteSets

CONSTANTS
    Roots,          \* agents that are not jobs themselves, each with a context
    MaxConcurrent,  \* capacity of d.sem
    MaxJobs,        \* bound: jobs, numbered in the order they are asked for
    MaxCalls,       \* bound: calls, numbered likewise
    BatchSize,      \* tasks of a batch
    NoCall

Jobs == 1..MaxJobs
Calls == 1..MaxCalls
Contexts == Roots \cup Jobs

ASSUME DelegateAssumption ==
    /\ Roots \cap Jobs = {}
    /\ MaxConcurrent \in Nat \ {0}
    /\ {MaxJobs, MaxCalls} \subseteq Nat
    /\ BatchSize \in Nat \ {0, 1}
    /\ NoCall \notin Calls

VARIABLES
    caller,         \* who made each call: an agent or a job
    lineage,        \* the contexts that the context of each call descends from
    call,           \* each call: "none", "open", "returned" or "failed"
    owner,          \* the call that each job belongs to
    pc,             \* where each job is
    result,         \* its outcome
    sem,            \* tokens in d.sem
    registered,     \* d.jobs
    over            \* contexts that were cancelled or timed out themselves

vars == <<caller, lineage, call, owner, pc, result, sem, registered, over>>

Stages == {"none", "announce", "acquire", "run", "done", "ended"}

JobsOf(c) == {j \in Jobs : owner[j] = c}
Batch(c) == Cardinality(JobsOf(c)) > 1

CallDone(c) == lineage[c] \cap over # {}

(* Variant: the job's context descends from none. *)
DetachedLineage(j) == {j}

(* The context of a job: a child of its call's, with a timeout. *)
JobLineage(j) == lineage[owner[j]] \cup {j}

JobDone(j) == JobLineage(j) \cap over # {}

(* An agent executes its tools one by one: it is in one call at a time. *)
Waiting(a) == \E c \in Calls : call[c] = "open" /\ caller[c] = a

Goto(j, label) == pc' = [pc EXCEPT ![j] = label]

Init ==
    /\ caller = [c \in Calls |-> NoCall]
    /\ lineage = [c \in Calls |-> {}]
    /\ call = [c \in Calls |-> "none"]
    /\ owner = [j \in Jobs |-> NoCall]
    /\ pc = [j \in Jobs |-> "none"]
    /\ result = [j \in Jobs |-> "none"]
    /\ sem = 0
    /\ registered = {}
    /\ over = {}

-----------------------------------------------------------------------------
(***************************************************************************)
(* Calls.                                                                  *)
(***************************************************************************)

(* The next call, by a, with a context that descends from those of ctx,    *)
(* for the next n jobs.                                                    *)
Open(a, ctx, n, label) ==
    \E c \in Calls, first \in Jobs :
        LET new == first..(first + n - 1) IN
        /\ call[c] = "none" /\ \A d \in 1..(c - 1) : call[d] # "none"
        /\ new \subseteq Jobs /\ \A j \in new : pc[j] = "none"
        /\ \A j \in 1..(first - 1) : pc[j] # "none"
        /\ caller' = [caller EXCEPT ![c] = a]
        /\ lineage' = [lineage EXCEPT ![c] = ctx]
        /\ call' = [call EXCEPT ![c] = "open"]
        /\ owner' = [j \in Jobs |-> IF j \in new THEN c ELSE owner[j]]
        /\ pc' = [j \in Jobs |-> IF j \in new THEN label ELSE pc[j]]
        /\ registered' = IF n = 1 THEN registered \cup new ELSE registered
        /\ UNCHANGED <<result, sem, over>>

(* Delegate: the job is registered, and waits for a token. *)
Delegate(a, ctx) == Open(a, ctx, 1, "acquire")

(* BatchDelegate: a goroutine for each task. *)
BatchDelegate(a, ctx) == Open(a, ctx, BatchSize, "announce")

RootCalls(r) ==
    /\ ~Waiting(r)
    /\ Delegate(r, {r}) \/ BatchDelegate(r, {r})

(* The agent that works in a job uses the tool with the job's context. *)
JobCalls(j) ==
    /\ pc[j] = "run" /\ ~Waiting(j)
    /\ Delegate(j, JobLineage(j)) \/ BatchDelegate(j, JobLineage(j))

(* Variant: the result is read without waiting for Done. *)
ReceiveAnyway(c) ==
    /\ call[c] = "open" /\ ~Batch(c)
    /\ \A j \in JobsOf(c) : pc[j] \in {"run", "done", "ended"}
    /\ call' = [call EXCEPT ![c] =
          IF \E j \in JobsOf(c) : result[j] = "error" THEN "failed" ELSE "returned"]
    /\ registered' = registered \ JobsOf(c)
    /\ UNCHANGED <<caller, lineage, owner, pc, result, sem, over>>

(* Variant: the job of a call that returned stays in the map. *)
ReceiveKept(c) ==
    /\ call[c] = "open" /\ ~Batch(c)
    /\ \A j \in JobsOf(c) : pc[j] \in {"done", "ended"}
    /\ call' = [call EXCEPT ![c] =
          IF \E j \in JobsOf(c) : result[j] = "error" THEN "failed" ELSE "returned"]
    /\ UNCHANGED <<caller, lineage, owner, pc, result, sem, registered, over>>

(* Done is closed: the result is there. *)
Receive(c) ==
    /\ call[c] = "open" /\ ~Batch(c)
    /\ \A j \in JobsOf(c) : pc[j] \in {"done", "ended"}
    /\ call' = [call EXCEPT ![c] =
          IF \E j \in JobsOf(c) : result[j] = "error" THEN "failed" ELSE "returned"]
    /\ registered' = registered \ JobsOf(c)
    /\ UNCHANGED <<caller, lineage, owner, pc, result, sem, over>>

(* The caller's context is done first: a job that executes goes on, and    *)
(* stays in the map.                                                       *)
GiveUp(c) ==
    /\ call[c] = "open" /\ ~Batch(c) /\ CallDone(c)
    /\ \A j \in JobsOf(c) : pc[j] # "acquire"
    /\ call' = [call EXCEPT ![c] = "failed"]
    /\ UNCHANGED <<caller, lineage, owner, pc, result, sem, registered, over>>

(* wg.Wait: no goroutine of the batch is left. *)
BatchReturns(c) ==
    /\ call[c] = "open" /\ Batch(c)
    /\ \A j \in JobsOf(c) : pc[j] = "ended"
    /\ call' = [call EXCEPT ![c] = "returned"]
    /\ UNCHANGED <<caller, lineage, owner, pc, result, sem, registered, over>>

-----------------------------------------------------------------------------
(***************************************************************************)
(* Jobs.                                                                   *)
(***************************************************************************)

(* The reader takes the report "started", or the context is done. *)
Announce(j) ==
    /\ pc[j] = "announce"
    /\ Goto(j, "acquire")
    /\ UNCHANGED <<caller, lineage, call, owner, result, sem, registered, over>>

Acquire(j) ==
    /\ pc[j] = "acquire" /\ sem < MaxConcurrent
    /\ sem' = sem + 1
    /\ Goto(j, "run")
    /\ UNCHANGED <<caller, lineage, call, owner, result, registered, over>>

(* Variant: a job that waits for a token does not look at its context. *)
AcquireBlindly(j) == Acquire(j)

(* The context is done before a token is free: a task of a batch fails, a  *)
(* single job is taken from the map, and its call gives up.                *)
AcquireCancelled(j) ==
    /\ pc[j] = "acquire" /\ CallDone(owner[j])
    /\ Goto(j, "ended")
    /\ result' = [result EXCEPT ![j] = "error"]
    /\ registered' = registered \ {j}
    /\ UNCHANGED <<caller, lineage, call, owner, sem, over>>

(* The agent's run ends, well or with an error; the context of the job is  *)
(* cancelled, the agent reset, and Done closed.                            *)
RunEnds(j) ==
    /\ pc[j] = "run" /\ ~Waiting(j)
    /\ \E outcome \in {"ok", "error"} : result' = [result EXCEPT ![j] = outcome]
    /\ over' = over \cup {j}
    /\ Goto(j, "done")
    /\ UNCHANGED <<caller, lineage, call, owner, sem, registered>>

(* Variant: only a job that succeeded gives its token back. *)
ReleaseOK(j) ==
    /\ pc[j] = "done"
    /\ sem' = IF result[j] = "ok" THEN sem - 1 ELSE sem
    /\ Goto(j, "ended")
    /\ UNCHANGED <<caller, lineage, call, owner, result, registered, over>>

(* The token goes back after Done was closed, and before wg.Done. *)
Release(j) ==
    /\ pc[j] = "done"
    /\ sem' = sem - 1
    /\ Goto(j, "ended")
    /\ UNCHANGED <<caller, lineage, call, owner, result, registered, over>>

-----------------------------------------------------------------------------

(* The timeout of a job that executes, whether or not it waits for a call. *)
Timeout(j) ==
    /\ pc[j] = "run" /\ j \notin over
    /\ over' = over \cup {j}
    /\ UNCHANGED <<caller, lineage, call, owner, pc, result, sem, registered>>

(* Ctrl-C, or the timeout of a cron job. *)
Cancel(r) ==
    /\ r \in Roots \ over
    /\ over' = over \cup {r}
    /\ UNCHANGED <<caller, lineage, call, owner, pc, result, sem, registered>>

CallStep(c) == Receive(c) \/ GiveUp(c) \/ BatchReturns(c)

JobStep(j) == Announce(j) \/ AcquireCancelled(j) \/ RunEnds(j) \/ Release(j)

Next ==
    \/ \E r \in Roots : RootCalls(r) \/ Cancel(r)
    \/ \E c \in Calls : CallStep(c)
    \/ \E j \in Jobs : JobCalls(j) \/ JobStep(j) \/ Acquire(j) \/ Timeout(j)

Spec == Init /\ [][Next]_vars

(***************************************************************************)
(* Goroutines run; an agent that is not in a call ends its run (AgentLoop: *)
(* AgentReleased); a job's timeout fires; a job that waits for a token     *)
(* while tokens come back gets one (a channel serves its waiters in        *)
(* order); the reader of the reports reads.  Nobody is cancelled by force. *)
(***************************************************************************)
Fairness ==
    /\ \A c \in Calls : WF_vars(CallStep(c))
    /\ \A j \in Jobs : WF_vars(JobStep(j)) /\ SF_vars(Acquire(j)) /\ WF_vars(Timeout(j))

FairSpec == Spec /\ Fairness

-----------------------------------------------------------------------------
(***************************************************************************)
(* Properties.                                                             *)
(***************************************************************************)

(* The type invariant. *)
TypeOK ==
    /\ caller \in [Calls -> Contexts \cup {NoCall}]
    /\ lineage \in [Calls -> SUBSET Contexts]
    /\ call \in [Calls -> {"none", "open", "returned", "failed"}]
    /\ owner \in [Jobs -> Calls \cup {NoCall}]
    /\ pc \in [Jobs -> Stages]
    /\ result \in [Jobs -> {"none", "ok", "error"}]
    /\ sem \in 0..MaxConcurrent
    /\ registered \subseteq Jobs
    /\ over \subseteq Contexts

Executing == {j \in Jobs : pc[j] \in {"run", "done"}}

(* Each token belongs to a job that executes, however it ends. *)
SlotsHeld == sem = Cardinality(Executing)

(* A job whose caller has left is on its way out: a caller leaves before   *)
(* the job has its result only when its own context is done, and with it   *)
(* the job's; nothing goes on working for nobody.                          *)
OrphansCancelled ==
    \A j \in Jobs : pc[j] = "run" /\ call[owner[j]] # "open" => JobDone(j)

(* The map d.jobs, from which Stats counts: a job that waits or works for  *)
(* an open call is in it, and what stays in it for ever are jobs whose     *)
(* caller gave up on them.                                                 *)
RegisteredJobs ==
    \A j \in Jobs : pc[j] # "none" /\ ~Batch(owner[j]) =>
        /\ pc[j] \in {"acquire", "run"} /\ call[owner[j]] = "open" => j \in registered
        /\ j \in registered => call[owner[j]] = "open" \/ CallDone(owner[j])

(* Every call returns, although jobs may wait, inside their calls, for     *)
(* tokens that only they hold: the timeouts undo the embrace.              *)
CallsReturn == \A c \in Calls : call[c] = "open" ~> call[c] \in {"returned", "failed"}

(* What Dispatch sees of a job and of a call. *)
StageOf(label) ==
    IF label \in {"announce", "acquire"} THEN "pending"
    ELSE IF label \in {"run", "done"} THEN "executing" ELSE label

AnswerOf(c) ==
    IF call[c] = "open" THEN (IF Batch(c) THEN "batch" ELSE "asked")
    ELSE IF call[c] = "returned" THEN "answered" ELSE call[c]

Stage == [j \in Jobs |-> StageOf(pc[j])]
Answers == [c \in Calls |-> AnswerOf(c)]

Promise == INSTANCE Dispatch WITH Limit <- MaxConcurrent, stage <- Stage,
                                  outcome <- result, answer <- Answers

(* The dispatcher does what Dispatch promises. *)
DispatchImplemented == Promise!Spec

===============================================================================
