----------------------------- MODULE TaskManager -----------------------------
(***************************************************************************)
(* The background task manager of internal/task: tasks with a status, a    *)
(* semaphore that bounds how many run at once, retries, dependencies and   *)
(* Kill.                                                                   *)
(*                                                                         *)
(* A process is a client goroutine (it calls Create, AddDependency, Start  *)
(* and Kill) or a worker (the goroutine run spawns, which executes a task  *)
(* and then starts its dependents itself).  No lock is held across two     *)
(* steps below: the status of a task sits behind its own mutex, the tasks, *)
(* the dependencies and the executors behind others, and each is taken for *)
(* one read or one write.                                                  *)
(*                                                                         *)
(* All tasks have one type.  The list of dependents is a set: a pair added *)
(* twice is visited twice, and the second visit finds the task started.    *)
(* canStart reads the statuses of the blockers at one moment.              *)
(***************************************************************************)
EXTENDS Naturals, FiniteSets

CONSTANTS
    Tasks,          \* tasks that may be created
    Clients,        \* goroutines that use the manager
    Workers,        \* goroutines run may spawn
    MaxConcurrent,  \* capacity of the semaphore
    MaxRetries,     \* task.MaxRetries (3 in NewState)
    Edges,          \* bound: the dependencies that may be added
    Killable,       \* bound: the tasks a client may kill
    MaxStarts,      \* bound: calls of Start for one task
    NoTask          \* what a process that holds no task holds

ASSUME TaskAssumption ==
    /\ Clients \cap Workers = {}
    /\ IsFiniteSet(Clients) /\ IsFiniteSet(Workers)
    /\ MaxConcurrent \in Nat \ {0}
    /\ MaxRetries \in Nat
    /\ MaxStarts \in Nat
    /\ Edges \subseteq Tasks \X Tasks
    /\ Killable \subseteq Tasks
    /\ NoTask \notin Tasks

VARIABLES
    status,         \* task.Status, "none" before Create
    deps,           \* m.blockedBy and m.blocks: pairs <<blocker, blocked>>
    registered,     \* whether an executor is registered for the type
    sem,            \* tokens in m.sem
    pc,             \* where each process is
    cur,            \* the task a client starts or kills, or a worker executes
    dep,            \* the dependent a worker is starting
    todo,           \* dependents a worker still has to look at
    attempt,        \* attempts a worker has made before this one
    starts,         \* calls of Start so far, for each task
    refused,        \* history: tasks whose Start found an unfinished blocker
    launched,       \* history: tasks run was called for
    succeeded       \* history: tasks some execution of which succeeded

vars == <<status, deps, registered, sem, pc, cur, dep, todo, attempt, starts,
          refused, launched, succeeded>>

hist == <<refused, launched, succeeded>>

-----------------------------------------------------------------------------

Procs == Clients \cup Workers

Status == {"none", "pending", "running", "completed", "failed", "killed"}

IsTerminal(s) == s \in {"completed", "failed", "killed"}

Labels == {"idle", "canStart", "setPending", "acquire", "spawn", "setKilled",
           "execute", "complete", "collect", "unblock", "fail", "release"}

Blockers(t) == {a \in Tasks : <<a, t>> \in deps}

Dependents(t) == {d \in Tasks : <<t, d>> \in deps}

CanStart(t) == \A a \in Blockers(t) : IsTerminal(status[a])

Goto(p, label) == pc' = [pc EXCEPT ![p] = label]

SetStatus(t, s) == status' = [status EXCEPT ![t] = s]

(* The task the process p is about to run: a worker runs a dependent. *)
Target(p) == IF p \in Workers THEN dep[p] ELSE cur[p]

Init ==
    /\ status = [t \in Tasks |-> "none"]
    /\ deps = {}
    /\ registered = FALSE
    /\ sem = 0
    /\ pc = [p \in Procs |-> "idle"]
    /\ cur = [p \in Procs |-> NoTask]
    /\ dep = [p \in Procs |-> NoTask]
    /\ todo = [p \in Procs |-> {}]
    /\ attempt = [p \in Procs |-> 0]
    /\ starts = [t \in Tasks |-> 0]
    /\ refused = {} /\ launched = {} /\ succeeded = {}

-----------------------------------------------------------------------------
(***************************************************************************)
(* Clients.                                                                *)
(***************************************************************************)

RegisterExecutor ==
    /\ ~registered
    /\ registered' = TRUE
    /\ UNCHANGED <<status, deps, sem, pc, cur, dep, todo, attempt, starts, hist>>

Create(t) ==
    /\ status[t] = "none"
    /\ SetStatus(t, "pending")
    /\ UNCHANGED <<deps, registered, sem, pc, cur, dep, todo, attempt, starts, hist>>

(* The dependency is added between two tasks that exist, before the blocked *)
(* one is started.                                                         *)
AddDependency(a, t) ==
    /\ <<a, t>> \in Edges \ deps
    /\ status[a] # "none" /\ status[t] # "none"
    /\ starts[t] = 0
    /\ deps' = deps \cup {<<a, t>>}
    /\ UNCHANGED <<status, registered, sem, pc, cur, dep, todo, attempt, starts, hist>>

(* Start: without an executor the task fails at once. *)
Start(c, t) ==
    /\ pc[c] = "idle"
    /\ status[t] # "none"
    /\ starts[t] < MaxStarts
    /\ starts' = [starts EXCEPT ![t] = @ + 1]
    /\ IF registered
       THEN /\ Goto(c, "canStart")
            /\ cur' = [cur EXCEPT ![c] = t]
            /\ UNCHANGED status
       ELSE /\ SetStatus(t, "failed")
            /\ UNCHANGED <<pc, cur>>
    /\ UNCHANGED <<deps, registered, sem, dep, todo, attempt, hist>>

(* Start and unblockDependents look at the blockers before they call run: *)
(* Start sets a task that is still blocked back to pending, a worker skips *)
(* it.                                                                     *)
CheckDependencies(p) ==
    /\ pc[p] = "canStart"
    /\ \/ /\ CanStart(Target(p))
          /\ Goto(p, "acquire")
          /\ launched' = launched \cup {Target(p)}
          /\ UNCHANGED <<dep, refused>>
       \/ /\ ~CanStart(Target(p)) /\ p \in Clients
          /\ Goto(p, "setPending")
          /\ refused' = refused \cup {cur[p]}
          /\ UNCHANGED <<dep, launched>>
       \/ /\ ~CanStart(Target(p)) /\ p \in Workers
          /\ Goto(p, "unblock")
          /\ dep' = [dep EXCEPT ![p] = NoTask]
          /\ UNCHANGED <<refused, launched>>
    /\ UNCHANGED <<status, deps, registered, sem, cur, todo, attempt, starts,
                   succeeded>>

SetPending(c) ==
    /\ pc[c] = "setPending"
    /\ SetStatus(cur[c], "pending")
    /\ Goto(c, "idle")
    /\ cur' = [cur EXCEPT ![c] = NoTask]
    /\ UNCHANGED <<deps, registered, sem, dep, todo, attempt, starts, hist>>

(* Kill looks at the status, cancels the context and then sets the status. *)
(* The executors ignore the context, and the retry loop does not look at it. *)
Kill(c, t) ==
    /\ pc[c] = "idle"
    /\ t \in Killable
    /\ status[t] # "none" /\ ~IsTerminal(status[t])
    /\ Goto(c, "setKilled")
    /\ cur' = [cur EXCEPT ![c] = t]
    /\ UNCHANGED <<status, deps, registered, sem, dep, todo, attempt, starts, hist>>

SetKilled(c) ==
    /\ pc[c] = "setKilled"
    /\ SetStatus(cur[c], "killed")
    /\ Goto(c, "idle")
    /\ cur' = [cur EXCEPT ![c] = NoTask]
    /\ UNCHANGED <<deps, registered, sem, dep, todo, attempt, starts, hist>>

-----------------------------------------------------------------------------
(***************************************************************************)
(* run, called by a client or by a worker: take a token, waiting for one,  *)
(* mark the task running and spawn the goroutine that executes it.         *)
(***************************************************************************)

Acquire(p) ==
    /\ pc[p] = "acquire"
    /\ sem < MaxConcurrent
    /\ sem' = sem + 1
    /\ Goto(p, "spawn")
    /\ UNCHANGED <<status, deps, registered, cur, dep, todo, attempt, starts, hist>>

Spawn(p, w) ==
    /\ pc[p] = "spawn"
    /\ w \in Workers /\ pc[w] = "idle"
    /\ SetStatus(Target(p), "running")
    /\ pc' = [pc EXCEPT ![p] = IF p \in Workers THEN "unblock" ELSE "idle",
                        ![w] = "execute"]
    /\ cur' = [q \in Procs |-> IF q = w THEN Target(p)
                               ELSE IF q = p /\ p \in Clients THEN NoTask
                               ELSE cur[q]]
    /\ dep' = [dep EXCEPT ![p] = NoTask]
    /\ attempt' = [attempt EXCEPT ![w] = 0]
    /\ UNCHANGED <<deps, registered, sem, todo, starts, hist>>

-----------------------------------------------------------------------------
(***************************************************************************)
(* The worker goroutine.                                                   *)
(***************************************************************************)

ExecuteOK(w) ==
    /\ pc[w] = "execute"
    /\ Goto(w, "complete")
    /\ succeeded' = succeeded \cup {cur[w]}
    /\ UNCHANGED <<status, deps, registered, sem, cur, dep, todo, attempt, starts,
                   refused, launched>>

(* Variant: the retries are not counted. *)
ExecuteErrorForever(w) ==
    /\ pc[w] = "execute"
    /\ UNCHANGED <<status, deps, registered, sem, pc, cur, dep, todo, starts, hist>>
    /\ attempt' = [attempt EXCEPT ![w] = 1 - @]

ExecuteError(w) ==
    /\ pc[w] = "execute"
    /\ IF attempt[w] < MaxRetries
       THEN attempt' = [attempt EXCEPT ![w] = @ + 1] /\ UNCHANGED pc
       ELSE Goto(w, "fail") /\ UNCHANGED attempt
    /\ UNCHANGED <<status, deps, registered, sem, cur, dep, todo, starts, hist>>

(* Variant: the status is left to the executor, which does not set it. *)
CompleteUnmarked(w) ==
    /\ pc[w] = "complete"
    /\ Goto(w, "collect")
    /\ UNCHANGED <<status, deps, registered, sem, cur, dep, todo, attempt, starts, hist>>

Complete(w) ==
    /\ pc[w] = "complete"
    /\ SetStatus(cur[w], "completed")
    /\ Goto(w, "collect")
    /\ UNCHANGED <<deps, registered, sem, cur, dep, todo, attempt, starts, hist>>

(* unblockDependents copies the list of dependents ... *)
Collect(w) ==
    /\ pc[w] = "collect"
    /\ todo' = [todo EXCEPT ![w] = Dependents(cur[w])]
    /\ Goto(w, "unblock")
    /\ UNCHANGED <<status, deps, registered, sem, cur, dep, attempt, starts, hist>>

(* ... and takes those that are pending to CheckDependencies, still holding *)
(* its own token.                                                          *)
Unblock(w) ==
    /\ pc[w] = "unblock"
    /\ \E d \in todo[w] :
          /\ todo' = [todo EXCEPT ![w] = @ \ {d}]
          /\ IF status[d] = "pending"
             THEN /\ Goto(w, "canStart")
                  /\ dep' = [dep EXCEPT ![w] = d]
             ELSE UNCHANGED <<pc, dep>>
    /\ UNCHANGED <<status, deps, registered, sem, cur, attempt, starts, hist>>

UnblockDone(w) ==
    /\ pc[w] = "unblock"
    /\ todo[w] = {}
    /\ Goto(w, "release")
    /\ UNCHANGED <<status, deps, registered, sem, cur, dep, todo, attempt, starts, hist>>

(* Variant: the status of a failed task is left as it is. *)
FailUnmarked(w) ==
    /\ pc[w] = "fail"
    /\ Goto(w, "release")
    /\ UNCHANGED <<status, deps, registered, sem, cur, dep, todo, attempt, starts, hist>>

Fail(w) ==
    /\ pc[w] = "fail"
    /\ SetStatus(cur[w], "failed")
    /\ Goto(w, "release")
    /\ UNCHANGED <<deps, registered, sem, cur, dep, todo, attempt, starts, hist>>

(* Variant: the worker of a task that has failed keeps the token. *)
ReleaseCompleted(w) ==
    /\ pc[w] = "release"
    /\ sem' = IF status[cur[w]] = "failed" THEN sem ELSE sem - 1
    /\ Goto(w, "idle")
    /\ cur' = [cur EXCEPT ![w] = NoTask]
    /\ attempt' = [attempt EXCEPT ![w] = 0]
    /\ UNCHANGED <<status, deps, registered, dep, todo, starts, hist>>

(* The deferred functions: give the token back. *)
Release(w) ==
    /\ pc[w] = "release"
    /\ sem' = sem - 1
    /\ Goto(w, "idle")
    /\ cur' = [cur EXCEPT ![w] = NoTask]
    /\ attempt' = [attempt EXCEPT ![w] = 0]
    /\ UNCHANGED <<status, deps, registered, dep, todo, starts, hist>>

-----------------------------------------------------------------------------

ClientStep(c) == SetPending(c) \/ SetKilled(c)

RunStep(p) == CheckDependencies(p) \/ \E w \in Workers : Spawn(p, w)

WorkerStep(w) ==
    \/ ExecuteOK(w) \/ ExecuteError(w) \/ Complete(w) \/ Collect(w)
    \/ Unblock(w) \/ UnblockDone(w) \/ Fail(w) \/ Release(w)

Next ==
    \/ RegisterExecutor
    \/ \E t \in Tasks : Create(t)
    \/ \E a, t \in Tasks : AddDependency(a, t)
    \/ \E c \in Clients : ClientStep(c) \/ \E t \in Tasks : Start(c, t) \/ Kill(c, t)
    \/ \E p \in Procs : RunStep(p) \/ Acquire(p)
    \/ \E w \in Workers : WorkerStep(w)

Spec == Init /\ [][Next]_vars

(***************************************************************************)
(* Every goroutine that can move does; a goroutine waiting for a token     *)
(* that is free again and again gets one (a Go channel serves its waiters  *)
(* in order).  Nobody is obliged to call the manager.                      *)
(***************************************************************************)
Fairness ==
    /\ \A c \in Clients : WF_vars(ClientStep(c))
    /\ \A w \in Workers : WF_vars(WorkerStep(w))
    /\ \A p \in Procs : SF_vars(Acquire(p)) /\ WF_vars(RunStep(p))

FairSpec == Spec /\ Fairness

-----------------------------------------------------------------------------
(***************************************************************************)
(* Properties.                                                             *)
(***************************************************************************)

(* The type invariant. *)
TypeOK ==
    /\ status \in [Tasks -> Status]
    /\ deps \subseteq Tasks \X Tasks
    /\ registered \in BOOLEAN
    /\ sem \in 0..MaxConcurrent
    /\ pc \in [Procs -> Labels]
    /\ cur \in [Procs -> Tasks \cup {NoTask}]
    /\ dep \in [Procs -> Tasks \cup {NoTask}]
    /\ todo \in [Procs -> SUBSET Tasks]
    /\ attempt \in [Procs -> 0..MaxRetries]
    /\ starts \in [Tasks -> 0..MaxStarts]
    /\ refused \subseteq Tasks /\ launched \subseteq Tasks /\ succeeded \subseteq Tasks

(* The token held by a worker, and the one taken for a worker to come. *)
Active == {w \in Workers : pc[w] # "idle"}
Spawning == {p \in Procs : pc[p] = "spawn"}

(* Each token in the semaphore belongs to one live worker, or to a process *)
(* about to spawn one: no path of the worker (success, failure after the   *)
(* last retry, starting dependents) leaks a token or returns it twice, so  *)
(* at most MaxConcurrent tasks execute at a time.                          *)
SlotsHeld == sem = Cardinality(Active) + Cardinality(Spawning)

(* A task that says it is running is being executed: whatever kills,       *)
(* repeated starts and repeated executions interleave with it, a worker is *)
(* at work that will still write the outcome.                              *)
RunningHasWorker ==
    \A t \in Tasks : status[t] = "running" =>
        \E w \in Workers : cur[w] = t /\ pc[w] \in {"execute", "complete", "fail"}

(* A task that waits for nothing and was started once: it runs at most once. *)
StartedAlone(t) == Blockers(t) = {} /\ starts[t] = 1

(* No wake-up is lost: once nothing moves any more, a task whose Start was *)
(* refused because of its blockers has been run if all of them succeeded,  *)
(* although each of them looks at the others' status without a common lock. *)
(* The task is started once, and so are its blockers, which wait for       *)
(* nothing themselves: a blocker that is run again can fail after it has   *)
(* succeeded, or be set back to pending after it completed, and a task     *)
(* that failed before it was started again is passed over while Start sets *)
(* it back to pending.  There the code does lose the wake-up.              *)
NoLostWakeup ==
    (\A p \in Procs : pc[p] = "idle") =>
        \A t \in refused \ Killable :
            /\ starts[t] = 1
            /\ \A b \in Blockers(t) : b \in succeeded /\ StartedAlone(b)
            => t \in launched

(* Workers come to an end: with tokens to spare for the dependents a       *)
(* worker starts, nobody waits for a token for ever.                       *)
WorkersFinish == \A w \in Workers : pc[w] # "idle" ~> pc[w] = "idle"

=============================================================================
