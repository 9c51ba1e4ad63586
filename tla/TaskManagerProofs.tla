-------------------------- MODULE TaskManagerProofs --------------------------
(***************************************************************************)
(* What is proved of TaskManager for any tasks, goroutines, capacity and   *)
(* bounds.                                                                 *)
(*                                                                         *)
(* The type invariant is not inductive: that Release leaves sem a natural  *)
(* number needs to know that a worker which has not returned its token is  *)
(* counted in sem, and that only tasks are launched needs to know that a   *)
(* goroutine that is not idle has a task.  So the three are proved         *)
(* together.  That a running task has a worker is inductive with the types *)
(* alone.  That no wake-up is lost follows a waiting worker from its check *)
(* of the status to the end of its wait.                                   *)
(***************************************************************************)
EXTENDS TaskManager, FiniteSetTheorems, TLAPS

(* A busy goroutine has a task, and a worker that is running a dependent   *)
(* has that one too.                                                       *)
HasTarget ==
    /\ \A p \in Procs : pc[p] # "idle" => cur[p] \in Tasks
    /\ \A w \in Workers : pc[w] \in {"canStart", "acquire", "spawn"} => dep[w] \in Tasks

IndInv == TypeOK /\ SlotsHeld /\ HasTarget

-----------------------------------------------------------------------------
(***************************************************************************)
(* The two sets SlotsHeld counts.                                          *)
(***************************************************************************)

LEMMA SlotsFinite ==
    /\ IsFiniteSet(Active) /\ IsFiniteSet(Spawning)
    /\ Cardinality(Active) \in Nat /\ Cardinality(Spawning) \in Nat
<1>1. IsFiniteSet(Procs)
  BY TaskAssumption, FS_Union DEF Procs
<1>2. IsFiniteSet(Active)
  BY TaskAssumption, FS_Subset DEF Active
<1>3. IsFiniteSet(Spawning)
  BY <1>1, FS_Subset DEF Spawning
<1> QED BY <1>2, <1>3, FS_CardinalityType

(* A step that takes no process to or from "spawn", and no worker to or    *)
(* from "idle", leaves the count alone.                                    *)
LEMMA SameSlots ==
  ASSUME SlotsHeld, sem' = sem,
         \A p \in Procs : pc'[p] = "spawn" <=> pc[p] = "spawn",
         \A w \in Workers : pc'[w] = "idle" <=> pc[w] = "idle"
  PROVE  SlotsHeld'
<1>1. Active' = Active /\ Spawning' = Spawning BY DEF Active, Spawning
<1> QED BY <1>1 DEF SlotsHeld

LEMMA AcquireSlots ==
  ASSUME IndInv, NEW p \in Procs, Acquire(p)
  PROVE  SlotsHeld'
<1> USE DEF IndInv, TypeOK
<1>1. Active' = Active
  BY DEF Acquire, Goto, Active, Procs
<1>2. Spawning' = Spawning \cup {p} /\ p \notin Spawning
  BY DEF Acquire, Goto, Spawning
<1>3. Cardinality(Spawning') = Cardinality(Spawning) + 1
  BY <1>2, SlotsFinite, FS_AddElement
<1>4. sem' = sem + 1
  BY DEF Acquire
<1> QED BY <1>1, <1>3, <1>4, SlotsFinite DEF SlotsHeld

LEMMA SpawnSlots ==
  ASSUME IndInv, NEW p \in Procs, NEW w \in Workers, Spawn(p, w)
  PROVE  SlotsHeld'
<1> USE DEF IndInv, TypeOK
<1>0. p # w /\ w \in Procs /\ pc[p] = "spawn" /\ pc[w] = "idle"
  BY DEF Spawn, Procs
<1>1. /\ pc'[w] = "execute"
      /\ pc'[p] = IF p \in Workers THEN "unblock" ELSE "idle"
      /\ \A q \in Procs \ {p, w} : pc'[q] = pc[q]
  BY <1>0 DEF Spawn
<1>2. Active' = Active \cup {w} /\ w \notin Active
  BY <1>0, <1>1 DEF Active, Procs
<1>3. Spawning' = Spawning \ {p} /\ p \in Spawning
  BY <1>0, <1>1 DEF Spawning
<1>4. Cardinality(Active') = Cardinality(Active) + 1
  BY <1>2, SlotsFinite, FS_AddElement
<1>5. Cardinality(Spawning') = Cardinality(Spawning) - 1
  BY <1>3, SlotsFinite, FS_RemoveElement
<1>6. sem' = sem
  BY DEF Spawn
<1> QED BY <1>4, <1>5, <1>6, SlotsFinite DEF SlotsHeld

LEMMA ReleaseSlots ==
  ASSUME IndInv, NEW w \in Workers, Release(w)
  PROVE  SlotsHeld' /\ sem' \in 0..MaxConcurrent
<1> USE DEF IndInv, TypeOK
<1>0. w \in Procs BY DEF Procs
<1>1. Active' = Active \ {w} /\ w \in Active
  BY <1>0 DEF Release, Goto, Active, Procs
<1>2. Spawning' = Spawning
  BY <1>0 DEF Release, Goto, Spawning
<1>3. Cardinality(Active') = Cardinality(Active) - 1
  BY <1>1, SlotsFinite, FS_RemoveElement
<1>4. sem' = sem - 1
  BY DEF Release
<1>5. SlotsHeld'
  BY <1>2, <1>3, <1>4, SlotsFinite DEF SlotsHeld
<1>6. Cardinality(Active) # 0
  BY <1>1, SlotsFinite, FS_EmptySet
<1>7. sem \in 1..MaxConcurrent
  BY <1>6, SlotsFinite, TaskAssumption DEF SlotsHeld
<1> QED BY <1>4, <1>5, <1>7, TaskAssumption

-----------------------------------------------------------------------------

LEMMA InitIndInv == Init => IndInv
<1> SUFFICES ASSUME Init PROVE IndInv OBVIOUS
<1>1. TypeOK
  <2>1. sem \in 0..MaxConcurrent
    BY TaskAssumption DEF Init
  <2>2. attempt \in [Procs -> 0..MaxRetries]
    BY TaskAssumption DEF Init
  <2>3. starts \in [Tasks -> 0..MaxStarts]
    BY TaskAssumption DEF Init
  <2>4. status \in [Tasks -> Status] /\ pc \in [Procs -> Labels]
    BY DEF Init, Status, Labels
  <2>5. /\ cur \in [Procs -> Tasks \cup {NoTask}]
        /\ dep \in [Procs -> Tasks \cup {NoTask}]
        /\ todo \in [Procs -> SUBSET Tasks]
    BY DEF Init
  <2> QED BY <2>1, <2>2, <2>3, <2>4, <2>5 DEF Init, TypeOK
<1>2. Active = {} /\ Spawning = {}
  BY DEF Init, Active, Spawning, Procs
<1>3. SlotsHeld
  BY <1>2, FS_EmptySet DEF Init, SlotsHeld
<1>4. HasTarget
  BY DEF Init, HasTarget, Procs
<1> QED BY <1>1, <1>3, <1>4 DEF IndInv

LEMMA StepHasTarget == TypeOK /\ HasTarget /\ [Next]_vars => HasTarget'
<1> SUFFICES ASSUME TypeOK, HasTarget, [Next]_vars PROVE HasTarget' OBVIOUS
<1> USE TaskAssumption DEF TypeOK, HasTarget, Goto, SetStatus, hist
<1>1. CASE RegisterExecutor \/ (\E x \in Tasks : Create(x))
           \/ (\E a, x \in Tasks : AddDependency(a, x)) \/ UNCHANGED vars
  <2>1. UNCHANGED <<pc, cur, dep>>
    BY <1>1 DEF RegisterExecutor, Create, AddDependency, vars
  <2> QED BY <2>1
<1>2. ASSUME NEW c \in Clients,
             ClientStep(c) \/ \E x \in Tasks : Start(c, x) \/ Kill(c, x)
      PROVE  HasTarget'
  <2>0. c \in Procs /\ c \notin Workers /\ Workers \subseteq Procs BY DEF Procs
  <2>1. CASE ClientStep(c)
    BY <2>0, <2>1 DEF ClientStep, SetPending, SetKilled
  <2>2. ASSUME NEW x \in Tasks, Start(c, x) \/ Kill(c, x) PROVE HasTarget'
    BY <2>0, <2>2 DEF Start, Kill
  <2> QED BY <1>2, <2>1, <2>2
<1>3. ASSUME NEW p \in Procs, CheckDependencies(p) \/ Acquire(p)
      PROVE  HasTarget'
  <2>1. CASE CheckDependencies(p) BY <2>1 DEF CheckDependencies, Procs
  <2>2. CASE Acquire(p) BY <2>2 DEF Acquire, Procs
  <2> QED BY <1>3, <2>1, <2>2
<1>4. ASSUME NEW p \in Procs, NEW v \in Workers, Spawn(p, v) PROVE HasTarget'
  <2>0. v \in Procs /\ pc[p] = "spawn" /\ pc[v] = "idle" /\ p # v
    BY <1>4 DEF Spawn, Procs
  <2>1. Target(p) \in Tasks
    BY <2>0 DEF Target, Procs
  <2>2. /\ cur'[v] = Target(p) /\ pc'[v] = "execute"
        /\ p \in Workers => cur'[p] = cur[p] /\ pc'[p] = "unblock"
        /\ p \notin Workers => pc'[p] = "idle"
    BY <1>4, <2>0 DEF Spawn, Procs
  <2>3. \A q \in Procs \ {v, p} :
           cur'[q] = cur[q] /\ pc'[q] = pc[q] /\ dep'[q] = dep[q]
    BY <1>4, <2>0 DEF Spawn
  <2>4. ASSUME NEW q \in Procs, pc'[q] # "idle" PROVE cur'[q] \in Tasks
    BY <2>0, <2>1, <2>2, <2>3, <2>4
  <2>5. ASSUME NEW w \in Workers, pc'[w] \in {"canStart", "acquire", "spawn"}
        PROVE  dep'[w] \in Tasks
    BY <2>0, <2>2, <2>3, <2>5 DEF Procs
  <2> QED BY <2>4, <2>5
<1>5. ASSUME NEW v \in Workers, WorkerStep(v) PROVE HasTarget'
  <2>0. v \in Procs /\ Workers \subseteq Procs BY DEF Procs
  <2>1. CASE ExecuteOK(v) \/ ExecuteError(v) \/ Complete(v) \/ Collect(v)
    BY <2>0, <2>1 DEF ExecuteOK, ExecuteError, Complete, Collect
  <2>2. CASE UnblockDone(v) \/ Fail(v)
    BY <2>0, <2>2 DEF UnblockDone, Fail
  <2>3. CASE Unblock(v)
    <3>1. PICK d \in todo[v] :
            IF status[d] = "pending"
            THEN /\ pc' = [pc EXCEPT ![v] = "canStart"]
                 /\ dep' = [dep EXCEPT ![v] = d]
            ELSE UNCHANGED <<pc, dep>>
      BY <2>3 DEF Unblock
    <3>2. d \in Tasks /\ pc[v] = "unblock" /\ cur' = cur
      BY <2>0, <2>3 DEF Unblock
    <3> QED BY <2>0, <3>1, <3>2
  <2>4. CASE Release(v)
    <3>1. /\ pc'[v] = "idle"
          /\ \A q \in Procs \ {v} : pc'[q] = pc[q] /\ cur'[q] = cur[q]
          /\ dep' = dep
      BY <2>0, <2>4 DEF Release
    <3> QED BY <2>0, <3>1
  <2> QED BY <1>5, <2>1, <2>2, <2>3, <2>4 DEF WorkerStep
<1> QED BY <1>1, <1>2, <1>3, <1>4, <1>5 DEF Next, RunStep

LEMMA StepTyped ==
  IndInv /\ [Next]_vars => TypeOK' /\ SlotsHeld'
<1> DEFINE Goal == TypeOK' /\ SlotsHeld'
<1> SUFFICES ASSUME IndInv, [Next]_vars PROVE Goal OBVIOUS
<1> USE TaskAssumption DEF IndInv, TypeOK, Status, Labels, Goto, SetStatus, hist
<1>1. CASE RegisterExecutor
  BY <1>1, SameSlots DEF RegisterExecutor
<1>2. ASSUME NEW t \in Tasks, Create(t) PROVE Goal
  BY <1>2, SameSlots DEF Create
<1>3. ASSUME NEW a \in Tasks, NEW t \in Tasks, AddDependency(a, t) PROVE Goal
  BY <1>3, SameSlots DEF AddDependency
<1>4. ASSUME NEW c \in Clients, NEW t \in Tasks, Start(c, t) PROVE Goal
  <2>0. c \in Procs BY DEF Procs
  <2>1. TypeOK' BY <1>4, <2>0 DEF Start
  <2>2. SlotsHeld'
    <3>1. /\ sem' = sem
          /\ \A p \in Procs : pc'[p] = "spawn" <=> pc[p] = "spawn"
      BY <1>4, <2>0 DEF Start
    <3>2. \A w \in Workers : pc'[w] = "idle" <=> pc[w] = "idle"
      BY <1>4, <2>0 DEF Start, Procs
    <3> QED BY <3>1, <3>2, SameSlots
  <2> QED BY <2>1, <2>2
<1>5. ASSUME NEW c \in Clients, NEW t \in Tasks, Kill(c, t) PROVE Goal
  <2>0. c \in Procs BY DEF Procs
  <2>1. TypeOK' BY <1>5, <2>0 DEF Kill
  <2>2. /\ sem' = sem
        /\ \A p \in Procs : pc'[p] = "spawn" <=> pc[p] = "spawn"
        /\ \A w \in Workers : pc'[w] = "idle" <=> pc[w] = "idle"
    BY <1>5, <2>0 DEF Kill, Procs
  <2> QED BY <2>1, <2>2, SameSlots
<1>6. ASSUME NEW c \in Clients, ClientStep(c) PROVE Goal
  <2>0. c \in Procs BY DEF Procs
  <2>1. TypeOK' BY <1>6, <2>0 DEF ClientStep, SetPending, SetKilled
  <2>2. /\ sem' = sem
        /\ \A p \in Procs : pc'[p] = "spawn" <=> pc[p] = "spawn"
        /\ \A w \in Workers : pc'[w] = "idle" <=> pc[w] = "idle"
    BY <1>6, <2>0 DEF ClientStep, SetPending, SetKilled, Procs
  <2> QED BY <2>1, <2>2, SameSlots
<1>7. ASSUME NEW p \in Procs, CheckDependencies(p) PROVE Goal
  <2>1. TypeOK'
    <3>1. pc' \in [Procs -> Labels] /\ dep' \in [Procs -> Tasks \cup {NoTask}]
      BY <1>7 DEF CheckDependencies
    <3>2. Target(p) \in Tasks /\ cur[p] \in Tasks
      BY <1>7 DEF CheckDependencies, Target, HasTarget
    <3> QED BY <1>7, <3>1, <3>2 DEF CheckDependencies
  <2>2. /\ sem' = sem
        /\ \A q \in Procs : pc'[q] = "spawn" <=> pc[q] = "spawn"
        /\ \A w \in Workers : pc'[w] = "idle" <=> pc[w] = "idle"
    BY <1>7 DEF CheckDependencies, Procs
  <2> QED BY <2>1, <2>2, SameSlots
<1>8. ASSUME NEW p \in Procs, Acquire(p) PROVE Goal
  <2>1. TypeOK' BY <1>8 DEF Acquire
  <2> QED BY <1>8, <2>1, AcquireSlots
<1>9. ASSUME NEW p \in Procs, NEW w \in Workers, Spawn(p, w) PROVE Goal
  <2>0. w \in Procs BY DEF Procs
  <2>1. status' \in [Tasks -> Status] /\ pc' \in [Procs -> Labels]
    BY <1>9, <2>0 DEF Spawn
  <2>2. /\ cur' \in [Procs -> Tasks \cup {NoTask}]
        /\ dep' \in [Procs -> Tasks \cup {NoTask}]
    BY <1>9, <2>0 DEF Spawn, Target
  <2>3. attempt' \in [Procs -> 0..MaxRetries]
    BY <1>9, <2>0 DEF Spawn
  <2>4. TypeOK' BY <1>9, <2>1, <2>2, <2>3 DEF Spawn
  <2> QED BY <1>9, <2>4, SpawnSlots
<1>10. ASSUME NEW w \in Workers, WorkerStep(w) PROVE Goal
  <2>0. w \in Procs BY DEF Procs
  <2>1. CASE Release(w)
    <3>1. /\ pc' \in [Procs -> Labels]
          /\ cur' \in [Procs -> Tasks \cup {NoTask}]
          /\ attempt' \in [Procs -> 0..MaxRetries]
      BY <2>0, <2>1 DEF Release
    <3>2. TypeOK' BY <2>1, <3>1, ReleaseSlots DEF Release
    <3> QED BY <2>1, <3>2, ReleaseSlots
  <2>2. CASE ExecuteError(w)
    <3>1. attempt' \in [Procs -> 0..MaxRetries] /\ pc' \in [Procs -> Labels]
      BY <2>0, <2>2 DEF ExecuteError
    <3>2. TypeOK' BY <2>2, <3>1 DEF ExecuteError
    <3>3. /\ sem' = sem
          /\ \A q \in Procs : pc'[q] = "spawn" <=> pc[q] = "spawn"
          /\ \A v \in Workers : pc'[v] = "idle" <=> pc[v] = "idle"
      BY <2>0, <2>2 DEF ExecuteError, Procs
    <3> QED BY <3>2, <3>3, SameSlots
  <2>3. CASE Unblock(w)
    <3>1. PICK d \in todo[w] :
            /\ todo' = [todo EXCEPT ![w] = @ \ {d}]
            /\ IF status[d] = "pending"
               THEN /\ pc' = [pc EXCEPT ![w] = "canStart"]
                    /\ dep' = [dep EXCEPT ![w] = d]
               ELSE UNCHANGED <<pc, dep>>
      BY <2>3 DEF Unblock
    <3>2. TypeOK' BY <2>0, <2>3, <3>1 DEF Unblock
    <3>3. /\ sem' = sem
          /\ \A q \in Procs : pc'[q] = "spawn" <=> pc[q] = "spawn"
          /\ \A v \in Workers : pc'[v] = "idle" <=> pc[v] = "idle"
      BY <2>0, <2>3, <3>1 DEF Unblock, Procs
    <3> QED BY <3>2, <3>3, SameSlots
  <2>4. CASE ExecuteOK(w) \/ Complete(w) \/ Collect(w) \/ UnblockDone(w) \/ Fail(w)
    <3>1. TypeOK'
      <4>1. CASE ExecuteOK(w)
        BY <2>0, <4>1 DEF ExecuteOK, HasTarget
      <4>2. CASE Complete(w) \/ UnblockDone(w) \/ Fail(w)
        BY <2>0, <4>2 DEF Complete, UnblockDone, Fail
      <4>3. CASE Collect(w)
        BY <2>0, <4>3 DEF Collect, Dependents
      <4> QED BY <2>4, <4>1, <4>2, <4>3
    <3>2. /\ sem' = sem
          /\ \A q \in Procs : pc'[q] = "spawn" <=> pc[q] = "spawn"
          /\ \A v \in Workers : pc'[v] = "idle" <=> pc[v] = "idle"
      BY <2>0, <2>4
         DEF ExecuteOK, Complete, Collect, UnblockDone, Fail, Procs
    <3> QED BY <3>1, <3>2, SameSlots
  <2> QED BY <1>10, <2>1, <2>2, <2>3, <2>4 DEF WorkerStep
<1>11. CASE UNCHANGED vars
  BY <1>11, SameSlots DEF vars
<1> QED
  BY <1>1, <1>2, <1>3, <1>4, <1>5, <1>6, <1>7, <1>8, <1>9, <1>10, <1>11
     DEF Next, RunStep

LEMMA StepIndInv == IndInv /\ [Next]_vars => IndInv'
BY StepTyped, StepHasTarget DEF IndInv

-----------------------------------------------------------------------------

(* Statuses, tokens, the places of the goroutines and what they hold keep  *)
(* their types; the semaphore never holds more than MaxConcurrent tokens.  *)
THEOREM TaskTypeCorrect == Spec => []TypeOK
<1>1. IndInv => TypeOK BY DEF IndInv
<1> QED BY InitIndInv, StepIndInv, <1>1, PTL DEF Spec

(* Every token belongs to a live worker or to a process about to spawn     *)
(* one, for any number of tasks, goroutines and tokens: the success, the   *)
(* failure and the dependents' path of run return what they took.          *)
THEOREM TaskSlotsHeld == Spec => []SlotsHeld
<1>1. IndInv => SlotsHeld BY DEF IndInv
<1> QED BY InitIndInv, StepIndInv, <1>1, PTL DEF Spec

-----------------------------------------------------------------------------

LEMMA StepRunningHasWorker ==
  TypeOK /\ RunningHasWorker /\ [Next]_vars => RunningHasWorker'
<1> SUFFICES ASSUME TypeOK, RunningHasWorker, [Next]_vars,
                    NEW t \in Tasks, status'[t] = "running"
             PROVE  \E w \in Workers :
                      cur'[w] = t /\ pc'[w] \in {"execute", "complete", "fail"}
  BY DEF RunningHasWorker
<1> USE TaskAssumption DEF TypeOK, Goto, SetStatus, hist
<1> DEFINE At(w) == cur[w] = t /\ pc[w] \in {"execute", "complete", "fail"}
<1>1. ASSUME status[t] = "running",
             \A w \in Workers : At(w) => cur'[w] = cur[w]
                             /\ pc'[w] \in {"execute", "complete", "fail"}
      PROVE  \E w \in Workers :
               cur'[w] = t /\ pc'[w] \in {"execute", "complete", "fail"}
  BY <1>1 DEF RunningHasWorker
<1>2. CASE RegisterExecutor \/ (\E x \in Tasks : Create(x))
           \/ (\E a, x \in Tasks : AddDependency(a, x)) \/ UNCHANGED vars
  <2>1. status[t] = "running" /\ UNCHANGED <<pc, cur>>
    BY <1>2 DEF RegisterExecutor, Create, AddDependency, vars
  <2> QED BY <1>1, <2>1
<1>3. ASSUME NEW c \in Clients,
             ClientStep(c) \/ \E x \in Tasks : Start(c, x) \/ Kill(c, x)
      PROVE  \E w \in Workers :
               cur'[w] = t /\ pc'[w] \in {"execute", "complete", "fail"}
  <2>0. c \in Procs /\ c \notin Workers BY DEF Procs
  <2>1. status[t] = "running"
    BY <1>3 DEF ClientStep, SetPending, SetKilled, Start, Kill
  <2>2. \A w \in Workers : cur'[w] = cur[w] /\ pc'[w] = pc[w]
    BY <1>3, <2>0 DEF ClientStep, SetPending, SetKilled, Start, Kill, Procs
  <2> QED BY <1>1, <2>1, <2>2
<1>4. ASSUME NEW p \in Procs, CheckDependencies(p) \/ Acquire(p)
      PROVE  \E w \in Workers :
               cur'[w] = t /\ pc'[w] \in {"execute", "complete", "fail"}
  <2>1. status[t] = "running" /\ cur' = cur
    BY <1>4 DEF CheckDependencies, Acquire
  <2>2. \A w \in Workers : At(w) => pc'[w] = pc[w]
    BY <1>4 DEF CheckDependencies, Acquire, Procs
  <2> QED BY <1>1, <2>1, <2>2
<1>5. ASSUME NEW p \in Procs, NEW v \in Workers, Spawn(p, v)
      PROVE  \E w \in Workers :
               cur'[w] = t /\ pc'[w] \in {"execute", "complete", "fail"}
  <2>0. v \in Procs /\ pc[p] = "spawn" /\ pc[v] = "idle" /\ p # v
    BY <1>5 DEF Spawn, Procs
  <2>1. CASE t = Target(p)
    BY <1>5, <2>0, <2>1 DEF Spawn
  <2>2. CASE t # Target(p)
    <3>1. status[t] = "running" BY <1>5, <2>2 DEF Spawn
    <3>2. \A w \in Workers : At(w) => w \in Procs /\ w # v /\ w # p
      BY <2>0 DEF Procs
    <3>3. \A w \in Procs \ {v, p} : cur'[w] = cur[w] /\ pc'[w] = pc[w]
      BY <1>5, <2>0 DEF Spawn
    <3> QED BY <1>1, <3>1, <3>2, <3>3
  <2> QED BY <2>1, <2>2
<1>6. ASSUME NEW v \in Workers, WorkerStep(v)
      PROVE  \E w \in Workers :
               cur'[w] = t /\ pc'[w] \in {"execute", "complete", "fail"}
  <2>0. v \in Procs /\ Workers \subseteq Procs BY DEF Procs
  <2>1. CASE ExecuteOK(v) \/ ExecuteError(v)
    <3>1. status[t] = "running" /\ cur' = cur
      BY <2>1 DEF ExecuteOK, ExecuteError
    <3>2. \A w \in Workers : At(w) => pc'[w] \in {"execute", "complete", "fail"}
      BY <2>0, <2>1 DEF ExecuteOK, ExecuteError
    <3> QED BY <1>1, <3>1, <3>2
  <2>2. CASE Complete(v) \/ Fail(v)
    <3>1. status[t] = "running" /\ cur[v] # t /\ cur' = cur
      BY <2>2 DEF Complete, Fail
    <3>2. \A w \in Workers : At(w) => pc'[w] = pc[w]
      BY <2>0, <2>2, <3>1 DEF Complete, Fail
    <3> QED BY <1>1, <3>1, <3>2
  <2>3. CASE Collect(v) \/ Unblock(v) \/ UnblockDone(v) \/ Release(v)
    <3>1. status[t] = "running" /\ pc[v] \in {"collect", "unblock", "release"}
      BY <2>3 DEF Collect, Unblock, UnblockDone, Release
    <3>2. \A w \in Workers : w # v => cur'[w] = cur[w] /\ pc'[w] = pc[w]
      BY <2>0, <2>3 DEF Collect, Unblock, UnblockDone, Release
    <3> QED BY <1>1, <3>1, <3>2
  <2> QED BY <1>6, <2>1, <2>2, <2>3 DEF WorkerStep
<1> QED
  BY <1>2, <1>3, <1>4, <1>5, <1>6 DEF Next, RunStep

(* A task that says it is running has a worker that will still write its   *)
(* outcome, however starts, kills and repeated executions interleave.      *)
THEOREM TaskRunningHasWorker == Spec => []RunningHasWorker
<1>1. Init => RunningHasWorker
  BY DEF Init, RunningHasWorker
<1> QED BY <1>1, TaskTypeCorrect, StepRunningHasWorker, PTL DEF Spec

-----------------------------------------------------------------------------
(***************************************************************************)
(* No wake-up is lost.  A task that was refused and has not run is         *)
(* pending; once its blockers have succeeded, some worker has its name     *)
(* still before it.  The parts below are what that rests on.               *)
(***************************************************************************)

(* A client that starts a task has counted its start; a task that waits    *)
(* for nothing runs only because it was started.                           *)
StartsCounted ==
    /\ \A c \in Clients : pc[c] \in {"canStart", "acquire", "spawn", "setPending"} =>
           starts[cur[c]] >= 1
    /\ \A x \in refused : starts[x] >= 1
    /\ \A x \in launched : Blockers(x) = {} => starts[x] >= 1

(* Only tasks with a blocker are refused, or looked at as dependents. *)
DependentsBlocked ==
    /\ \A c \in Clients : pc[c] = "setPending" => Blockers(cur[c]) # {}
    /\ \A w \in Workers : pc[w] \in {"canStart", "acquire", "spawn"} =>
           Blockers(dep[w]) # {}
    /\ \A w \in Workers : \A d \in todo[w] : Blockers(d) # {}

(* What a goroutine runs, or is about to run, was launched. *)
RunsAreLaunched ==
    /\ succeeded \subseteq launched
    /\ \A w \in Workers : pc[w] # "idle" => cur[w] \in launched
    /\ \A p \in Procs : pc[p] \in {"acquire", "spawn"} => Target(p) \in launched

KillsAllowed == \A c \in Clients : pc[c] = "setKilled" => cur[c] \in Killable

Books == StartsCounted /\ DependentsBlocked /\ RunsAreLaunched /\ KillsAllowed

(***************************************************************************)
(* Who changes what: the steps that move a client, a worker or a status,   *)
(* and those that change what the history says of a task.                  *)
(***************************************************************************)

LEMMA ClientMoves ==
  ASSUME TypeOK, [Next]_vars, NEW c \in Clients
  PROVE  \/ pc'[c] = pc[c] /\ cur'[c] = cur[c]
         \/ ClientStep(c) \/ \E x \in Tasks : Start(c, x) \/ Kill(c, x)
         \/ CheckDependencies(c) \/ Acquire(c) \/ \E w \in Workers : Spawn(c, w)
<1> DEFINE Stays == pc'[c] = pc[c] /\ cur'[c] = cur[c]
<1> USE TaskAssumption DEF TypeOK, Goto, SetStatus, hist
<1>0. c \in Procs /\ c \notin Workers /\ Workers \subseteq Procs BY DEF Procs
<1>1. CASE RegisterExecutor \/ (\E x \in Tasks : Create(x))
           \/ (\E a, x \in Tasks : AddDependency(a, x)) \/ UNCHANGED vars
  BY <1>1 DEF RegisterExecutor, Create, AddDependency, vars
<1>2. ASSUME NEW d \in Clients, d # c,
             ClientStep(d) \/ \E x \in Tasks : Start(d, x) \/ Kill(d, x)
      PROVE  Stays
  BY <1>0, <1>2 DEF Start, Kill, ClientStep, SetPending, SetKilled
<1>3. ASSUME NEW p \in Procs, p # c, CheckDependencies(p) \/ Acquire(p) PROVE Stays
  BY <1>0, <1>3 DEF CheckDependencies, Acquire
<1>4. ASSUME NEW p \in Procs, p # c, NEW w \in Workers, Spawn(p, w) PROVE Stays
  BY <1>0, <1>4 DEF Spawn
<1>5. ASSUME NEW w \in Workers, WorkerStep(w) PROVE Stays
  BY <1>0, <1>5 DEF WorkerStep, ExecuteOK, ExecuteError, Complete, Collect, Unblock,
                    UnblockDone, Fail, Release
<1> QED BY <1>1, <1>2, <1>3, <1>4, <1>5 DEF Next, RunStep

LEMMA WorkerMoves ==
  ASSUME TypeOK, [Next]_vars, NEW v \in Workers
  PROVE  \/ pc'[v] = pc[v] /\ cur'[v] = cur[v] /\ dep'[v] = dep[v] /\ todo'[v] = todo[v]
         \/ WorkerStep(v) \/ CheckDependencies(v) \/ Acquire(v)
         \/ \E w \in Workers : Spawn(v, w)
         \/ \E p \in Procs : Spawn(p, v)
<1> DEFINE Stays == /\ pc'[v] = pc[v] /\ cur'[v] = cur[v]
                    /\ dep'[v] = dep[v] /\ todo'[v] = todo[v]
<1> USE TaskAssumption DEF TypeOK, Goto, SetStatus, hist
<1>0. v \in Procs /\ v \notin Clients /\ Workers \subseteq Procs /\ Clients \subseteq Procs
  BY DEF Procs
<1>1. CASE RegisterExecutor \/ (\E x \in Tasks : Create(x))
           \/ (\E a, x \in Tasks : AddDependency(a, x)) \/ UNCHANGED vars
  BY <1>1 DEF RegisterExecutor, Create, AddDependency, vars
<1>2. ASSUME NEW d \in Clients,
             ClientStep(d) \/ \E x \in Tasks : Start(d, x) \/ Kill(d, x)
      PROVE  Stays
  BY <1>0, <1>2 DEF Start, Kill, ClientStep, SetPending, SetKilled
<1>3. ASSUME NEW p \in Procs, p # v, CheckDependencies(p) \/ Acquire(p) PROVE Stays
  BY <1>0, <1>3 DEF CheckDependencies, Acquire
<1>4. ASSUME NEW p \in Procs, p # v, NEW w \in Workers, w # v, Spawn(p, w) PROVE Stays
  BY <1>0, <1>4 DEF Spawn
<1>5. ASSUME NEW w \in Workers, w # v, WorkerStep(w) PROVE Stays
  BY <1>0, <1>5 DEF WorkerStep, ExecuteOK, ExecuteError, Complete, Collect, Unblock,
                    UnblockDone, Fail, Release
<1> QED BY <1>1, <1>2, <1>3, <1>4, <1>5 DEF Next, RunStep

LEMMA StatusMoves ==
  ASSUME TypeOK, [Next]_vars, NEW x \in Tasks
  PROVE  \/ status'[x] = status[x]
         \/ Create(x)
         \/ \E c \in Clients : Start(c, x) /\ status'[x] = "failed"
         \/ \E c \in Clients : cur[c] = x /\ ClientStep(c)
         \/ \E p \in Procs, w \in Workers : Target(p) = x /\ Spawn(p, w)
         \/ \E w \in Workers : cur[w] = x /\ (Complete(w) \/ Fail(w))
<1> DEFINE Stays == status'[x] = status[x]
<1> USE DEF TypeOK, Goto, SetStatus, hist
<1>1. CASE RegisterExecutor \/ (\E a, y \in Tasks : AddDependency(a, y)) \/ UNCHANGED vars
  BY <1>1 DEF RegisterExecutor, AddDependency, vars
<1>2. ASSUME NEW y \in Tasks, y # x, Create(y) PROVE Stays
  BY <1>2 DEF Create
<1>3. ASSUME NEW c \in Clients, NEW y \in Tasks, Start(c, y)
      PROVE  Stays \/ (y = x /\ status'[x] = "failed")
  BY <1>3 DEF Start
<1>4. ASSUME NEW c \in Clients, NEW y \in Tasks, Kill(c, y) PROVE Stays
  BY <1>4 DEF Kill
<1>5. ASSUME NEW c \in Clients, ClientStep(c), cur[c] # x PROVE Stays
  BY <1>5 DEF ClientStep, SetPending, SetKilled
<1>6. ASSUME NEW p \in Procs, CheckDependencies(p) \/ Acquire(p) PROVE Stays
  BY <1>6 DEF CheckDependencies, Acquire
<1>7. ASSUME NEW p \in Procs, NEW w \in Workers, Spawn(p, w), Target(p) # x PROVE Stays
  BY <1>7 DEF Spawn
<1>8. ASSUME NEW w \in Workers, WorkerStep(w)
      PROVE  Stays \/ (cur[w] = x /\ (Complete(w) \/ Fail(w)))
  <2>1. CASE Complete(w) \/ Fail(w) BY <2>1 DEF Complete, Fail
  <2>2. CASE ExecuteOK(w) \/ ExecuteError(w) \/ Collect(w) \/ Unblock(w)
             \/ UnblockDone(w) \/ Release(w)
    BY <2>2 DEF ExecuteOK, ExecuteError, Collect, Unblock, UnblockDone, Release
  <2> QED BY <1>8, <2>1, <2>2 DEF WorkerStep
<1> QED BY <1>1, <1>2, <1>3, <1>4, <1>5, <1>6, <1>7, <1>8 DEF Next, RunStep

LEMMA HistoryMoves ==
  ASSUME TypeOK, [Next]_vars, NEW x \in Tasks
  PROVE  /\ \/ x \in refused' <=> x \in refused
            \/ \E c \in Clients : cur[c] = x /\ CheckDependencies(c) /\ ~CanStart(x)
         /\ x \in launched => x \in launched'
         /\ \/ x \in launched' => x \in launched
            \/ \E p \in Procs : Target(p) = x /\ CheckDependencies(p)
         /\ \/ x \in succeeded' <=> x \in succeeded
            \/ \E w \in Workers : cur[w] = x /\ ExecuteOK(w)
<1> DEFINE Stays == UNCHANGED <<refused, launched, succeeded>>
<1> USE TaskAssumption DEF TypeOK, Goto, SetStatus, hist
<1>1. CASE RegisterExecutor \/ (\E a, y \in Tasks : AddDependency(a, y))
           \/ (\E y \in Tasks : Create(y)) \/ UNCHANGED vars
  BY <1>1 DEF RegisterExecutor, Create, AddDependency, vars
<1>2. ASSUME NEW c \in Clients, ClientStep(c) \/ \E y \in Tasks : Start(c, y) \/ Kill(c, y)
      PROVE  Stays
  BY <1>2 DEF Start, Kill, ClientStep, SetPending, SetKilled
<1>3. ASSUME NEW p \in Procs, CheckDependencies(p)
      PROVE  /\ \/ x \in refused' <=> x \in refused
                \/ cur[p] = x /\ p \in Clients /\ ~CanStart(x)
             /\ x \in launched => x \in launched'
             /\ (x \in launched' => x \in launched) \/ Target(p) = x
             /\ succeeded' = succeeded
  BY <1>3 DEF CheckDependencies, Target
<1>4. ASSUME NEW p \in Procs, Acquire(p) \/ \E w \in Workers : Spawn(p, w) PROVE Stays
  BY <1>4 DEF Acquire, Spawn
<1>5. ASSUME NEW w \in Workers, WorkerStep(w)
      PROVE  /\ UNCHANGED <<refused, launched>>
             /\ \/ x \in succeeded' <=> x \in succeeded
                \/ cur[w] = x /\ ExecuteOK(w)
  <2>1. CASE ExecuteOK(w) BY <2>1 DEF ExecuteOK
  <2>2. CASE ExecuteError(w) \/ Complete(w) \/ Collect(w) \/ Unblock(w)
             \/ UnblockDone(w) \/ Fail(w) \/ Release(w)
    BY <2>2 DEF ExecuteError, Complete, Collect, Unblock, UnblockDone, Fail, Release
  <2> QED BY <1>5, <2>1, <2>2 DEF WorkerStep
<1> QED BY <1>1, <1>2, <1>3, <1>4, <1>5 DEF Next, RunStep

(* Calls of Start are only counted up, and dependencies only added, to    *)
(* tasks that were not started.                                            *)
LEMMA StartMoves ==
  ASSUME TypeOK, [Next]_vars, NEW x \in Tasks
  PROVE  /\ starts[x] \in Nat /\ starts'[x] \in Nat
         /\ \/ starts'[x] = starts[x]
            \/ starts'[x] = starts[x] + 1 /\ \E c \in Clients : Start(c, x)
         /\ Blockers(x) \subseteq Blockers(x)'
         /\ \/ Blockers(x)' = Blockers(x)
            \/ starts[x] = 0 /\ starts'[x] = 0
<1> DEFINE Stays == UNCHANGED <<deps, starts>>
<1> USE TaskAssumption DEF TypeOK, Goto, SetStatus, hist
<1>0. ASSUME Stays
      PROVE  starts'[x] = starts[x] /\ Blockers(x)' = Blockers(x)
  BY <1>0 DEF Blockers
<1>1. CASE \E a, y \in Tasks : AddDependency(a, y)
  BY <1>1 DEF AddDependency, Blockers
<1>2. ASSUME NEW c \in Clients, NEW y \in Tasks, Start(c, y)
      PROVE  /\ starts'[x] = starts[x] \/ (starts'[x] = starts[x] + 1 /\ y = x)
             /\ Blockers(x)' = Blockers(x)
  <2>1. starts' = [starts EXCEPT ![y] = @ + 1] /\ deps' = deps
    BY <1>2 DEF Start
  <2> QED BY <2>1 DEF Blockers
<1>3. CASE RegisterExecutor \/ (\E y \in Tasks : Create(y)) \/ UNCHANGED vars
  BY <1>0, <1>3 DEF RegisterExecutor, Create, vars
<1>4. CASE \E c \in Clients : ClientStep(c) \/ \E y \in Tasks : Kill(c, y)
  BY <1>0, <1>4 DEF ClientStep, SetPending, SetKilled, Kill
<1>5. CASE \E p \in Procs : RunStep(p) \/ Acquire(p)
  BY <1>0, <1>5 DEF RunStep, CheckDependencies, Spawn, Acquire
<1>6. CASE \E w \in Workers : WorkerStep(w)
  BY <1>0, <1>6 DEF WorkerStep, ExecuteOK, ExecuteError, Complete, Collect, Unblock,
                    UnblockDone, Fail, Release
<1>7. starts[x] \in Nat BY DEF TypeOK
<1> QED BY <1>1, <1>2, <1>3, <1>4, <1>5, <1>6, <1>7 DEF Next

LEMMA StepStartsCounted ==
  IndInv /\ Books /\ [Next]_vars => StartsCounted'
<1> SUFFICES ASSUME IndInv, Books, [Next]_vars PROVE StartsCounted' OBVIOUS
<1> USE TaskAssumption DEF Books, IndInv
<1>1. ASSUME NEW c \in Clients,
             pc'[c] \in {"canStart", "acquire", "spawn", "setPending"}
      PROVE  starts'[cur'[c]] >= 1
  <2>0. c \in Procs /\ c \notin Workers /\ Workers \subseteq Procs BY DEF Procs
  <2>1. CASE \E x \in Tasks : Start(c, x)
    BY <1>1, <2>0, <2>1 DEF TypeOK, Start, Goto
  <2>2. CASE pc[c] \in {"canStart", "acquire", "spawn", "setPending"} /\ cur'[c] = cur[c]
    BY <2>0, <2>2, StartMoves DEF StartsCounted, HasTarget
  <2>3. CASE ClientStep(c) \/ (\E x \in Tasks : Kill(c, x)) \/ \E w \in Workers : Spawn(c, w)
    BY <1>1, <2>0, <2>3 DEF TypeOK, ClientStep, SetPending, SetKilled, Kill, Spawn, Goto
  <2>4. CASE CheckDependencies(c) \/ Acquire(c)
    BY <2>2, <2>4 DEF CheckDependencies, Acquire
  <2> QED BY <1>1, <2>1, <2>2, <2>3, <2>4, ClientMoves
<1>2. ASSUME NEW x \in refused' PROVE starts'[x] >= 1
  <2>1. x \in Tasks BY StepTyped DEF TypeOK
  <2>2. CASE x \in refused BY <2>1, <2>2, StartMoves DEF StartsCounted
  <2>3. ASSUME NEW c \in Clients, cur[c] = x, CheckDependencies(c) PROVE starts'[x] >= 1
    BY <2>1, <2>3, StartMoves DEF CheckDependencies, StartsCounted
  <2> QED BY <2>1, <2>2, <2>3, HistoryMoves
<1>3. ASSUME NEW x \in launched', Blockers(x)' = {} PROVE starts'[x] >= 1
  <2>1. x \in Tasks BY StepTyped DEF TypeOK
  <2>2. Blockers(x) = {} BY <1>3, <2>1, StartMoves
  <2>3. CASE x \in launched BY <2>1, <2>2, <2>3, StartMoves DEF StartsCounted
  <2>4. ASSUME NEW p \in Procs, Target(p) = x, CheckDependencies(p)
        PROVE  starts'[x] >= 1
    <3>1. p \in Clients /\ cur[p] = x
      BY <2>2, <2>4 DEF CheckDependencies, Target, DependentsBlocked, Procs
    <3> QED BY <2>1, <2>4, <3>1, StartMoves DEF CheckDependencies, StartsCounted
  <2> QED BY <2>1, <2>3, <2>4, HistoryMoves
<1> QED BY <1>1, <1>2, <1>3 DEF StartsCounted

LEMMA StepDependentsBlocked ==
  IndInv /\ Books /\ [Next]_vars => DependentsBlocked'
<1> SUFFICES ASSUME IndInv, Books, [Next]_vars PROVE DependentsBlocked' OBVIOUS
<1> USE TaskAssumption DEF Books, IndInv
<1>0. \A x \in Tasks : Blockers(x) # {} => Blockers(x)' # {}
  BY StartMoves
<1>1. ASSUME NEW c \in Clients, pc'[c] = "setPending" PROVE (Blockers(cur[c]) # {})'
  <2>0. c \in Procs /\ c \notin Workers /\ Workers \subseteq Procs BY DEF Procs
  <2>1. pc[c] \in {"setPending", "canStart"} /\ cur'[c] = cur[c]
    BY <1>1, <2>0, ClientMoves
       DEF TypeOK, Start, Kill, ClientStep, SetPending, SetKilled, CheckDependencies,
           Acquire, Spawn, Goto
  <2>2. cur[c] \in Tasks BY <2>0, <2>1 DEF HasTarget
  <2>3. CASE pc[c] = "setPending"
    BY <1>0, <2>1, <2>2, <2>3 DEF DependentsBlocked, Blockers
  <2>4. CASE pc[c] = "canStart"
    <3>1. CheckDependencies(c)
      BY <1>1, <2>0, <2>4, ClientMoves
         DEF TypeOK, Start, Kill, ClientStep, SetPending, SetKilled, Acquire, Spawn, Goto
    <3>2. ~CanStart(cur[c])
      BY <1>1, <2>0, <3>1 DEF CheckDependencies, TypeOK, Goto, Target
    <3>3. Blockers(cur[c]) # {} BY <3>2 DEF CanStart
    <3> QED BY <1>0, <2>1, <2>2, <3>3 DEF Blockers
  <2> QED BY <2>1, <2>3, <2>4
<1>2. ASSUME NEW w \in Workers, NEW d \in todo'[w] PROVE Blockers(d)' # {}
  <2>0. w \in Procs BY DEF Procs
  <2>1. CASE d \in todo[w]
    BY <1>0, <2>0, <2>1 DEF DependentsBlocked, TypeOK
  <2>2. CASE Collect(w)
    <3>1. d \in Dependents(cur[w]) /\ cur[w] \in Tasks
      BY <1>2, <2>0, <2>2 DEF Collect, TypeOK, HasTarget
    <3> QED BY <1>0, <3>1 DEF Dependents, Blockers
  <2>3. ASSUME d \notin todo[w] PROVE Collect(w)
    BY <1>2, <2>0, <2>3, WorkerMoves
       DEF TypeOK, WorkerStep, ExecuteOK, ExecuteError, Complete, Unblock,
           UnblockDone, Fail, Release, CheckDependencies, Acquire, Spawn
  <2> QED BY <2>1, <2>2, <2>3
<1>3. ASSUME NEW w \in Workers, pc'[w] \in {"canStart", "acquire", "spawn"}
      PROVE  (Blockers(dep[w]) # {})'
  <2>0. w \in Procs BY DEF Procs
  <2>1. CASE pc[w] \in {"canStart", "acquire", "spawn"} /\ dep'[w] = dep[w]
    <3>1. dep[w] \in Tasks /\ Blockers(dep[w]) # {}
      BY <2>1 DEF HasTarget, DependentsBlocked
    <3> QED BY <1>0, <2>1, <3>1 DEF Blockers
  <2>2. CASE Unblock(w)
    <3>1. PICK d \in todo[w] : dep' = [dep EXCEPT ![w] = d]
      BY <1>3, <2>0, <2>2 DEF Unblock, TypeOK
    <3>2. dep'[w] = d /\ d \in Tasks /\ Blockers(d) # {}
      BY <2>0, <3>1 DEF TypeOK, DependentsBlocked
    <3> QED BY <1>0, <3>2 DEF Blockers
  <2>3. CASE CheckDependencies(w) \/ Acquire(w)
    BY <1>3, <2>0, <2>1, <2>3 DEF CheckDependencies, Acquire, TypeOK, Goto
  <2>4. CASE (\E v \in Workers : Spawn(w, v)) \/ (\E p \in Procs : Spawn(p, w))
             \/ (WorkerStep(w) /\ ~Unblock(w))
    BY <1>3, <2>0, <2>4
       DEF TypeOK, WorkerStep, ExecuteOK, ExecuteError, Complete, Collect,
           UnblockDone, Fail, Release, Spawn, Goto, Procs
  <2> QED BY <1>3, <2>1, <2>2, <2>3, <2>4, WorkerMoves
<1> QED BY <1>1, <1>2, <1>3 DEF DependentsBlocked

LEMMA StepRunsAreLaunched ==
  IndInv /\ Books /\ [Next]_vars => RunsAreLaunched'
<1> SUFFICES ASSUME IndInv, Books, [Next]_vars PROVE RunsAreLaunched' OBVIOUS
<1> USE TaskAssumption DEF Books, IndInv
<1>0. launched \subseteq launched' BY HistoryMoves DEF TypeOK
<1>1. succeeded' \subseteq launched'
  <2> SUFFICES ASSUME NEW x \in succeeded' PROVE x \in launched' OBVIOUS
  <2>1. x \in Tasks BY StepTyped DEF TypeOK
  <2>2. CASE x \in succeeded BY <1>0, <2>2 DEF RunsAreLaunched
  <2>3. ASSUME NEW w \in Workers, cur[w] = x, ExecuteOK(w) PROVE x \in launched'
    BY <1>0, <2>3 DEF ExecuteOK, RunsAreLaunched
  <2> QED BY <2>1, <2>2, <2>3, HistoryMoves
<1>2. ASSUME NEW w \in Workers, pc'[w] # "idle" PROVE cur'[w] \in launched'
  <2>0. w \in Procs /\ Workers \subseteq Procs BY DEF Procs
  <2>1. CASE pc[w] # "idle" /\ cur'[w] = cur[w]
    BY <1>0, <2>1 DEF RunsAreLaunched
  <2>2. ASSUME NEW p \in Procs, Spawn(p, w) PROVE cur'[w] \in launched'
    BY <1>0, <2>0, <2>2 DEF Spawn, RunsAreLaunched
  <2>3. ASSUME NEW v \in Workers, Spawn(w, v) PROVE pc[w] # "idle" /\ cur'[w] = cur[w]
    BY <2>0, <2>3 DEF Spawn
  <2>4. CASE WorkerStep(w) \/ CheckDependencies(w) \/ Acquire(w)
    BY <1>2, <2>0, <2>1, <2>4
       DEF TypeOK, WorkerStep, ExecuteOK, ExecuteError, Complete, Collect, Unblock,
           UnblockDone, Fail, Release, CheckDependencies, Acquire, Goto
  <2> QED BY <1>2, <2>1, <2>2, <2>3, <2>4, WorkerMoves
<1>3. ASSUME NEW p \in Procs, pc'[p] \in {"acquire", "spawn"}
      PROVE  Target(p)' \in launched'
  <2>0. Workers \subseteq Procs /\ Clients \subseteq Procs BY DEF Procs
  <2>1. CASE CheckDependencies(p)
    <3>1. Target(p)' = Target(p)
      BY <1>3, <2>1 DEF CheckDependencies, Target, TypeOK, Goto
    <3>2. Target(p) \in launched'
      BY <1>3, <2>1 DEF CheckDependencies, TypeOK, Goto
    <3> QED BY <3>1, <3>2
  <2>2. CASE pc[p] \in {"acquire", "spawn"} /\ cur'[p] = cur[p] /\ dep'[p] = dep[p]
    <3>1. Target(p)' = Target(p) BY <2>2 DEF Target
    <3> QED BY <1>0, <2>2, <3>1 DEF RunsAreLaunched
  <2>3. CASE Acquire(p) BY <2>2, <2>3 DEF Acquire
  <2>4. CASE p \in Clients
    <3>1. \/ pc[p] \in {"acquire", "spawn"} /\ cur'[p] = cur[p]
          \/ CheckDependencies(p)
      BY <1>3, <2>0, <2>4, ClientMoves
         DEF TypeOK, Start, Kill, ClientStep, SetPending, SetKilled, Acquire, Spawn, Goto
    <3>2. CASE pc[p] \in {"acquire", "spawn"} /\ cur'[p] = cur[p]
      BY <1>0, <2>4, <3>2 DEF RunsAreLaunched, Target
    <3> QED BY <2>1, <3>1, <3>2
  <2>5. CASE p \in Workers
    <3>1. \/ pc[p] \in {"acquire", "spawn"} /\ cur'[p] = cur[p] /\ dep'[p] = dep[p]
          \/ CheckDependencies(p)
      BY <1>3, <2>0, <2>5, WorkerMoves
         DEF TypeOK, WorkerStep, ExecuteOK, ExecuteError, Complete, Collect, Unblock,
             UnblockDone, Fail, Release, Acquire, Spawn, Goto
    <3> QED BY <2>1, <2>2, <3>1
  <2> QED BY <2>4, <2>5 DEF Procs
<1> QED BY <1>1, <1>2, <1>3 DEF RunsAreLaunched

LEMMA StepKillsAllowed ==
  TypeOK /\ KillsAllowed /\ [Next]_vars => KillsAllowed'
<1> SUFFICES ASSUME TypeOK, KillsAllowed, [Next]_vars, NEW c \in Clients,
                    pc'[c] = "setKilled"
             PROVE  cur'[c] \in Killable
  BY DEF KillsAllowed
<1>0. c \in Procs /\ Workers \subseteq Procs /\ c \notin Workers
  BY TaskAssumption DEF Procs
<1>1. CASE \E x \in Tasks : Kill(c, x) BY <1>0, <1>1 DEF Kill, TypeOK
<1>2. CASE pc'[c] = pc[c] /\ cur'[c] = cur[c] BY <1>2 DEF KillsAllowed
<1> QED
  BY <1>0, <1>1, <1>2, ClientMoves
     DEF TypeOK, Start, ClientStep, SetPending, SetKilled, CheckDependencies, Acquire,
         Spawn, Goto

-----------------------------------------------------------------------------

(* A task that was started once and has not run waits as pending: that is  *)
(* what a worker looks for among the dependents.                           *)
RefusedPending ==
    \A x \in Tasks \ (launched \cup Killable) :
        /\ starts[x] = 0 => status[x] \in {"none", "pending"}
        /\ starts[x] = 1 /\ (x \in refused \/ \E c \in Clients : pc[c] = "canStart" /\ cur[c] = x)
              => status[x] = "pending"

Starting(c, x) == pc[c] \in {"canStart", "acquire", "spawn"} /\ cur[c] = x

Working(w, x) == pc[w] # "idle" /\ cur[w] = x

(* While a task started alone is on its way to its worker, nobody else     *)
(* starts it, executes it or has executed it.                              *)
RunOnce ==
    \A x \in Tasks : \A c \in Clients : StartedAlone(x) /\ Starting(c, x) =>
        /\ x \notin succeeded
        /\ \A w \in Workers : ~Working(w, x)
        /\ \A d \in Clients \ {c} : ~Starting(d, x)

Finishing(w, x) == pc[w] = "complete" /\ cur[w] = x

(* A success is visible in the status, for good, as soon as its worker has *)
(* written it.                                                             *)
SuccessMarked ==
    \A x \in succeeded : StartedAlone(x) =>
        IsTerminal(status[x]) \/ \E w \in Workers : Finishing(w, x)

(* The worker still has to look at x: it has yet to copy the list of       *)
(* dependents, has x on its copy, or is about to ask whether x can start.  *)
Wakes(w, x) ==
    \/ pc[w] \in {"complete", "collect"} /\ cur[w] \in Blockers(x)
    \/ pc[w] \in {"unblock", "canStart", "acquire", "spawn"} /\ x \in todo[w]
    \/ pc[w] = "canStart" /\ dep[w] = x

Waiting(x) == x \in refused /\ x \notin Killable \cup launched /\ starts[x] = 1

WakeupToCome ==
    \A x \in Tasks :
        Waiting(x) /\ (\A y \in Blockers(x) : y \in succeeded /\ StartedAlone(y))
            => \E w \in Workers : Wakes(w, x)

WakeInv ==
    IndInv /\ Books /\ RefusedPending /\ RunOnce /\ SuccessMarked /\ WakeupToCome

LEMMA StepRefusedPending ==
  IndInv /\ Books /\ RefusedPending /\ [Next]_vars => RefusedPending'
<1> SUFFICES ASSUME IndInv, Books, RefusedPending, [Next]_vars,
                    NEW x \in Tasks \ Killable, x \notin launched'
             PROVE  /\ starts'[x] = 0 => status'[x] \in {"none", "pending"}
                    /\ /\ starts'[x] = 1
                       /\ x \in refused' \/ \E c \in Clients : pc'[c] = "canStart" /\ cur'[c] = x
                       => status'[x] = "pending"
  BY StepTyped DEF RefusedPending
<1> USE TaskAssumption DEF IndInv, Books
<1>0. x \notin launched /\ Workers \subseteq Procs /\ Clients \subseteq Procs
  BY HistoryMoves DEF Procs
<1>1. \/ status'[x] = status[x]
      \/ status'[x] = "pending"
      \/ status'[x] = "failed" /\ \E c \in Clients : Start(c, x)
  <2>1. CASE Create(x) BY <2>1 DEF Create, SetStatus, TypeOK
  <2>2. ASSUME NEW c \in Clients, cur[c] = x, ClientStep(c) PROVE status'[x] = "pending"
    BY <1>0, <2>2 DEF ClientStep, SetPending, SetKilled, SetStatus, TypeOK, KillsAllowed
  <2>3. ~ \E p \in Procs, w \in Workers : Target(p) = x /\ Spawn(p, w)
    BY <1>0 DEF Spawn, RunsAreLaunched
  <2>4. ~ \E w \in Workers : cur[w] = x /\ (Complete(w) \/ Fail(w))
    BY <1>0 DEF Complete, Fail, RunsAreLaunched
  <2> QED BY <2>1, <2>2, <2>3, <2>4, StatusMoves
<1>2. ASSUME NEW c \in Clients, Start(c, x) PROVE starts'[x] = starts[x] + 1
  BY <1>2 DEF Start, TypeOK
<1>3. ASSUME starts'[x] = 0 PROVE status'[x] \in {"none", "pending"}
  <2>1. starts[x] = 0 /\ ~ \E c \in Clients : Start(c, x)
    BY <1>2, <1>3, StartMoves
  <2> QED BY <1>0, <1>1, <2>1 DEF RefusedPending
<1>4. ASSUME starts'[x] = 1, starts[x] = 1,
             x \in refused' \/ \E c \in Clients : pc'[c] = "canStart" /\ cur'[c] = x
      PROVE  status'[x] = "pending"
  <2>1. ~ \E c \in Clients : Start(c, x) BY <1>2, <1>4
  <2>2. ASSUME NEW c \in Clients, pc'[c] = "canStart", cur'[c] = x
        PROVE  pc[c] = "canStart" /\ cur[c] = x
    BY <1>0, <2>1, <2>2, ClientMoves
       DEF TypeOK, Start, Kill, ClientStep, SetPending, SetKilled, CheckDependencies,
           Acquire, Spawn, Goto
  <2>3. x \in refused \/ \E c \in Clients : pc[c] = "canStart" /\ cur[c] = x
    BY <1>4, <2>2, HistoryMoves DEF CheckDependencies
  <2> QED BY <1>0, <1>1, <1>4, <2>1, <2>3 DEF RefusedPending
<1>5. ASSUME starts'[x] = 1, starts[x] # 1,
             x \in refused' \/ \E c \in Clients : pc'[c] = "canStart" /\ cur'[c] = x
      PROVE  status'[x] = "pending"
  <2>1. starts[x] = 0 /\ \E c \in Clients : Start(c, x)
    BY <1>5, StartMoves
  <2>2. PICK c \in Clients : Start(c, x) BY <2>1
  <2>3. status[x] = "pending"
    BY <1>0, <2>1, <2>2 DEF RefusedPending, Start
  <2>4. x \notin refused /\ \A d \in Clients : ~(pc[d] = "canStart" /\ cur[d] = x)
    BY <2>1 DEF StartsCounted
  <2>5. CASE registered BY <2>2, <2>3, <2>5 DEF Start
  <2>6. CASE ~registered
    <3>1. UNCHANGED <<pc, cur, refused>> BY <2>2, <2>6 DEF Start, hist
    <3> QED BY <1>5, <2>4, <3>1
  <2> QED BY <2>5, <2>6
<1> QED BY <1>3, <1>4, <1>5

(* A client comes to start a task only by a call of Start for it. *)
LEMMA StartingMoves ==
  ASSUME IndInv, [Next]_vars, NEW x \in Tasks, NEW c \in Clients, Starting(c, x)'
  PROVE  Starting(c, x) \/ Start(c, x)
<1> USE TaskAssumption DEF IndInv
<1>0. c \in Procs /\ c \notin Workers BY DEF Procs
<1>1. ASSUME NEW y \in Tasks, Start(c, y) PROVE Starting(c, x) \/ Start(c, x)
  <2>1. CASE y = x BY <1>1, <2>1
  <2>2. CASE y # x /\ registered
    <3>1. cur'[c] = y BY <1>0, <1>1, <2>2 DEF Start, TypeOK
    <3> QED BY <2>2, <3>1 DEF Starting
  <2>3. CASE ~registered
    <3>1. UNCHANGED <<pc, cur>> BY <1>1, <2>3 DEF Start
    <3> QED BY <3>1 DEF Starting
  <2> QED BY <2>1, <2>2, <2>3
<1> QED
  BY <1>0, <1>1, ClientMoves
     DEF Starting, TypeOK, Kill, ClientStep, SetPending, SetKilled, CheckDependencies,
         Acquire, Spawn, Goto

LEMMA WorkingMoves ==
  ASSUME IndInv, [Next]_vars, NEW x \in Tasks, NEW w \in Workers, Working(w, x)'
  PROVE  Working(w, x) \/ \E p \in Procs : Target(p) = x /\ Spawn(p, w)
<1> USE TaskAssumption DEF IndInv
<1>0. w \in Procs /\ Workers \subseteq Procs BY DEF Procs
<1>1. ASSUME NEW p \in Procs, Spawn(p, w) PROVE Target(p) = x
  BY <1>0, <1>1 DEF Spawn, TypeOK, Working
<1>2. CASE \E v \in Workers : Spawn(w, v)
  BY <1>0, <1>2 DEF Spawn, Working
<1>3. CASE WorkerStep(w) \/ CheckDependencies(w) \/ Acquire(w)
  BY <1>0, <1>3
     DEF Working, TypeOK, WorkerStep, ExecuteOK, ExecuteError, Complete, Collect, Unblock,
         UnblockDone, Fail, Release, CheckDependencies, Acquire, Goto
<1> QED BY <1>1, <1>2, <1>3, WorkerMoves DEF Working

(* What a step that leaves x started alone did not do. *)
LEMMA AloneMoves ==
  ASSUME IndInv, Books, [Next]_vars, NEW x \in Tasks, StartedAlone(x)'
  PROVE  \/ /\ StartedAlone(x) /\ ~ \E c \in Clients : Start(c, x)
            /\ \A p \in Procs, w \in Workers :
                 Target(p) = x /\ Spawn(p, w) => p \in Clients /\ Starting(p, x)
         \/ /\ \E c \in Clients : Start(c, x)
            /\ x \notin launched /\ x \notin succeeded /\ succeeded' = succeeded
            /\ \A w \in Workers : ~Working(w, x) /\ ~Working(w, x)'
            /\ \A d \in Clients : ~Starting(d, x)
<1> USE TaskAssumption DEF IndInv, Books
<1>0. Workers \subseteq Procs /\ Clients \subseteq Procs BY DEF Procs
<1>1. Blockers(x) = {} /\ starts'[x] = 1 BY StartMoves DEF StartedAlone
<1>2. ASSUME NEW c \in Clients, Start(c, x) PROVE starts'[x] = starts[x] + 1
  BY <1>2 DEF Start, TypeOK
<1>3. CASE starts[x] = 1
  <2>1. StartedAlone(x) /\ ~ \E c \in Clients : Start(c, x)
    BY <1>1, <1>2, <1>3 DEF StartedAlone
  <2>2. ASSUME NEW p \in Procs, NEW w \in Workers, Target(p) = x, Spawn(p, w)
        PROVE  p \in Clients /\ Starting(p, x)
    BY <1>1, <2>2 DEF Spawn, Target, DependentsBlocked, Starting, Procs
  <2> QED BY <2>1, <2>2
<1>4. CASE starts[x] # 1
  <2>1. starts[x] = 0 /\ \E c \in Clients : Start(c, x) BY <1>1, <1>4, StartMoves
  <2>2. x \notin launched BY <1>1, <2>1 DEF StartsCounted
  <2>3. x \notin succeeded BY <2>2 DEF RunsAreLaunched
  <2>4. \A w \in Workers : ~Working(w, x)
    BY <2>2 DEF RunsAreLaunched, Working
  <2>5. \A d \in Clients : ~Starting(d, x)
    BY <2>1 DEF StartsCounted, Starting
  <2>6. PICK c \in Clients : Start(c, x) BY <2>1
  <2>7. succeeded' = succeeded BY <2>6 DEF Start, hist
  <2>8. \A w \in Workers : pc'[w] = pc[w] /\ cur'[w] = cur[w]
    BY <1>0, <2>6 DEF Start, TypeOK, Goto
  <2> QED BY <2>1, <2>2, <2>3, <2>4, <2>5, <2>7, <2>8 DEF Working
<1> QED BY <1>3, <1>4

LEMMA StepRunOnce ==
  IndInv /\ Books /\ RunOnce /\ [Next]_vars => RunOnce'
<1> SUFFICES ASSUME IndInv, Books, RunOnce, [Next]_vars,
                    NEW x \in Tasks, NEW c \in Clients,
                    StartedAlone(x)', Starting(c, x)'
             PROVE  /\ x \notin succeeded'
                    /\ \A w \in Workers : ~Working(w, x)'
                    /\ \A d \in Clients \ {c} : ~Starting(d, x)'
  BY DEF RunOnce
<1> USE TaskAssumption DEF IndInv, Books
<1>0. Workers \subseteq Procs /\ Clients \subseteq Procs BY DEF Procs
<1>1. CASE /\ StartedAlone(x) /\ ~ \E d \in Clients : Start(d, x)
           /\ \A p \in Procs, w \in Workers :
                Target(p) = x /\ Spawn(p, w) => p \in Clients /\ Starting(p, x)
  <2>1. Starting(c, x) BY <1>1, StartingMoves
  <2>2. /\ x \notin succeeded
        /\ \A w \in Workers : ~Working(w, x)
        /\ \A d \in Clients \ {c} : ~Starting(d, x)
    BY <1>1, <2>1 DEF RunOnce
  <2>3. x \notin succeeded'
    BY <2>2, HistoryMoves DEF ExecuteOK, Working
  <2>4. ASSUME NEW w \in Workers PROVE ~Working(w, x)'
    <3>1. ASSUME NEW p \in Procs, Target(p) = x, Spawn(p, w) PROVE FALSE
      <4>1. p = c BY <1>1, <2>2, <3>1
      <4>2. pc'[c] = "idle" BY <1>0, <3>1, <4>1 DEF Spawn, TypeOK
      <4> QED BY <4>2 DEF Starting
    <3> QED BY <2>2, <3>1, WorkingMoves
  <2>5. ASSUME NEW d \in Clients \ {c} PROVE ~Starting(d, x)'
    BY <1>1, <2>2, StartingMoves
  <2> QED BY <2>3, <2>4, <2>5
<1>2. CASE /\ \E d \in Clients : Start(d, x)
           /\ x \notin launched /\ x \notin succeeded /\ succeeded' = succeeded
           /\ \A w \in Workers : ~Working(w, x) /\ ~Working(w, x)'
           /\ \A d \in Clients : ~Starting(d, x)
  <2>1. PICK d \in Clients : Start(d, x) BY <1>2
  <2>2. \A e \in Clients \ {d} : pc'[e] = pc[e] /\ cur'[e] = cur[e]
    BY <1>0, <2>1 DEF Start, TypeOK, Goto
  <2>3. \A e \in Clients \ {d} : ~Starting(e, x)'
    BY <1>2, <2>2 DEF Starting
  <2> QED BY <1>2, <2>3
<1> QED BY <1>1, <1>2, AloneMoves

LEMMA StepSuccessMarked ==
  IndInv /\ Books /\ RunOnce /\ SuccessMarked /\ [Next]_vars => SuccessMarked'
<1> SUFFICES ASSUME IndInv, Books, RunOnce, SuccessMarked, [Next]_vars,
                    NEW x \in succeeded', StartedAlone(x)',
                    ~IsTerminal(status'[x])
             PROVE  \E w \in Workers : Finishing(w, x)'
  BY DEF SuccessMarked
<1> USE TaskAssumption DEF IndInv, Books
<1>0. x \in Tasks /\ Workers \subseteq Procs BY StepTyped DEF TypeOK, Procs
<1>1. /\ StartedAlone(x) /\ ~ \E c \in Clients : Start(c, x)
      /\ \A p \in Procs, w \in Workers :
           Target(p) = x /\ Spawn(p, w) => p \in Clients /\ Starting(p, x)
  BY <1>0, AloneMoves
<1>2. ASSUME NEW w \in Workers, cur[w] = x, ExecuteOK(w) PROVE Finishing(w, x)'
  BY <1>0, <1>2 DEF ExecuteOK, Finishing, TypeOK, Goto
<1>3. CASE x \in succeeded
  <2>1. ASSUME NEW w \in Workers, Finishing(w, x) PROVE Finishing(w, x)'
    <3>1. ~Complete(w)
      BY <1>0, <2>1 DEF Complete, Finishing, TypeOK, SetStatus, IsTerminal
    <3> QED
      BY <1>0, <2>1, <3>1, WorkerMoves
         DEF Finishing, WorkerStep, ExecuteOK, ExecuteError, Collect, Unblock,
             UnblockDone, Fail, Release, CheckDependencies, Acquire, Spawn
  <2>2. CASE IsTerminal(status[x])
    <3>1. ~Create(x) BY <2>2 DEF Create, IsTerminal
    <3>2. ~ \E c \in Clients : cur[c] = x /\ ClientStep(c)
      BY <1>0, <1>1, <2>2
         DEF ClientStep, SetPending, SetKilled, SetStatus, DependentsBlocked, StartedAlone,
             TypeOK, IsTerminal
    <3>3. ~ \E p \in Procs, w \in Workers : Target(p) = x /\ Spawn(p, w)
      BY <1>0, <1>1, <1>3 DEF RunOnce
    <3>4. ~ \E w \in Workers : cur[w] = x /\ (Complete(w) \/ Fail(w))
      BY <1>0 DEF Complete, Fail, SetStatus, TypeOK, IsTerminal
    <3> QED BY <1>0, <1>1, <2>2, <3>1, <3>2, <3>3, <3>4, StatusMoves
  <2> QED BY <1>1, <1>3, <2>1, <2>2 DEF SuccessMarked
<1> QED BY <1>0, <1>2, <1>3, HistoryMoves

LEMMA StepWakeupToCome ==
  WakeInv /\ [Next]_vars => WakeupToCome'
<1> SUFFICES ASSUME WakeInv, [Next]_vars, NEW x \in Tasks, Waiting(x)',
                    \A y \in Blockers(x)' : y \in succeeded' /\ StartedAlone(y)'
             PROVE  \E w \in Workers : Wakes(w, x)'
  BY DEF WakeupToCome
<1> USE TaskAssumption DEF WakeInv, IndInv, Books
<1>0. Workers \subseteq Procs /\ Clients \subseteq Procs BY DEF Procs
<1>1. starts[x] = 1 /\ Blockers(x)' = Blockers(x) /\ x \notin launched
  <2>1. starts'[x] = 1 /\ x \in refused' /\ x \notin launched' BY DEF Waiting
  <2>2. x \notin launched BY <2>1, HistoryMoves
  <2>3. ASSUME starts[x] = 0 PROVE FALSE
    <3>1. PICK c \in Clients : Start(c, x) BY <2>1, <2>3, StartMoves
    <3>2. x \in refused BY <2>1, <3>1 DEF Start, hist
    <3> QED BY <2>3, <3>2 DEF StartsCounted
  <2> QED BY <2>1, <2>2, <2>3, StartMoves
<1>2. CASE \E y \in Blockers(x) : \E w \in Workers : Finishing(w, y)'
  BY <1>1, <1>2 DEF Wakes, Finishing
<1>3. CASE \A y \in Blockers(x) : ~ \E w \in Workers : Finishing(w, y)'
  <2>1. \A y \in Blockers(x) : IsTerminal(status'[y])
    BY <1>1, <1>3, StepSuccessMarked DEF SuccessMarked
  <2>2. ASSUME status' = status PROVE CanStart(x)
    BY <2>1, <2>2 DEF CanStart
  <2>3. Waiting(x)
    <3>1. ASSUME NEW c \in Clients, CheckDependencies(c), ~CanStart(x) PROVE FALSE
      BY <2>2, <3>1 DEF CheckDependencies
    <3> QED BY <1>1, <3>1, HistoryMoves DEF Waiting
  <2>4. ASSUME NEW y \in Blockers(x) PROVE y \in succeeded /\ StartedAlone(y)
    <3>0. y \in Tasks /\ y \in succeeded' /\ StartedAlone(y)'
      BY <1>1, <2>4 DEF Blockers
    <3>1. ASSUME NEW w \in Workers, cur[w] = y, ExecuteOK(w) PROVE FALSE
      <4>1. Finishing(w, y)'
        BY <1>0, <3>1 DEF ExecuteOK, Finishing, TypeOK, Goto
      <4> QED BY <1>3, <2>4, <4>1
    <3>2. y \in succeeded BY <3>0, <3>1, HistoryMoves
    <3> QED BY <3>0, <3>2, AloneMoves
  <2>5. PICK w \in Workers : Wakes(w, x)
    BY <2>3, <2>4 DEF WakeupToCome
  <2>6. w \in Procs BY <1>0
  <2>7. status[x] = "pending"
    BY <1>1, <2>3 DEF RefusedPending, Waiting
  <2>8. Wakes(w, x)'
    <3>1. CASE pc[w] \in {"complete", "collect"} /\ cur[w] \in Blockers(x)
      <4>1. CASE Collect(w)
        <5>1. x \in todo'[w] /\ pc'[w] = "unblock"
          BY <2>6, <3>1, <4>1 DEF Collect, Dependents, Blockers, TypeOK, Goto
        <5> QED BY <5>1 DEF Wakes
      <4>2. CASE Complete(w) BY <1>1, <2>6, <3>1, <4>2 DEF Complete, Wakes, TypeOK, Goto
      <4>3. CASE pc'[w] = pc[w] /\ cur'[w] = cur[w] BY <1>1, <3>1, <4>3 DEF Wakes
      <4> QED
        BY <3>1, <4>1, <4>2, <4>3, WorkerMoves
           DEF WorkerStep, ExecuteOK, ExecuteError, Unblock, UnblockDone, Fail, Release,
               CheckDependencies, Acquire, Spawn
    <3>2. CASE pc[w] \in {"unblock", "canStart", "acquire", "spawn"} /\ x \in todo[w]
      <4>1. CASE Unblock(w)
        <5>1. PICK d \in todo[w] :
                /\ todo' = [todo EXCEPT ![w] = @ \ {d}]
                /\ IF status[d] = "pending"
                   THEN /\ Goto(w, "canStart")
                        /\ dep' = [dep EXCEPT ![w] = d]
                   ELSE UNCHANGED <<pc, dep>>
          BY <4>1 DEF Unblock
        <5>2. pc'[w] \in {"unblock", "canStart"}
          BY <2>6, <4>1, <5>1 DEF Unblock, TypeOK, Goto
        <5>3. CASE d = x
          BY <2>6, <2>7, <5>1, <5>3 DEF Wakes, TypeOK, Goto
        <5>4. CASE d # x
          BY <2>6, <3>2, <5>1, <5>2, <5>4 DEF Wakes, TypeOK
        <5> QED BY <5>3, <5>4
      <4>2. CASE CheckDependencies(w) \/ Acquire(w) \/ \E v \in Workers : Spawn(w, v)
        <5>1. todo' = todo /\ pc'[w] \in {"unblock", "acquire", "spawn"}
          BY <2>6, <4>2 DEF CheckDependencies, Acquire, Spawn, TypeOK, Goto
        <5> QED BY <3>2, <5>1 DEF Wakes
      <4>3. CASE pc'[w] = pc[w] /\ todo'[w] = todo[w] BY <3>2, <4>3 DEF Wakes
      <4> QED
        BY <3>2, <4>1, <4>2, <4>3, WorkerMoves
           DEF WorkerStep, ExecuteOK, ExecuteError, Complete, Collect, UnblockDone, Fail,
               Release, Spawn
    <3>3. CASE pc[w] = "canStart" /\ dep[w] = x
      <4>1. ~CheckDependencies(w)
        <5> SUFFICES ASSUME CheckDependencies(w) PROVE FALSE OBVIOUS
        <5>1. Target(w) = x BY <3>3 DEF Target
        <5>2. CanStart(x) BY <2>2 DEF CheckDependencies
        <5>3. x \in launched' BY <5>1, <5>2 DEF CheckDependencies
        <5> QED BY <5>3 DEF Waiting
      <4> QED
        BY <3>3, <4>1, WorkerMoves
           DEF Wakes, WorkerStep, ExecuteOK, ExecuteError, Complete, Collect, Unblock,
               UnblockDone, Fail, Release, Acquire, Spawn
    <3> QED BY <2>5, <3>1, <3>2, <3>3 DEF Wakes
  <2> QED BY <2>8
<1> QED BY <1>2, <1>3

LEMMA InitWakeInv == Init => WakeInv
<1> SUFFICES ASSUME Init PROVE WakeInv OBVIOUS
<1>1. Books
  BY DEF Init, Procs, Books, StartsCounted, DependentsBlocked, RunsAreLaunched, KillsAllowed
<1>2. RefusedPending /\ RunOnce /\ SuccessMarked /\ WakeupToCome
  BY DEF Init, Procs, RefusedPending, RunOnce, Starting, SuccessMarked, WakeupToCome, Waiting
<1> QED BY <1>1, <1>2, InitIndInv DEF WakeInv

LEMMA StepWakeInv == WakeInv /\ [Next]_vars => WakeInv'
<1> SUFFICES ASSUME WakeInv, [Next]_vars PROVE WakeInv' OBVIOUS
<1>1. Books'
  BY StepStartsCounted, StepDependentsBlocked, StepRunsAreLaunched, StepKillsAllowed
     DEF WakeInv, Books, IndInv
<1>2. RefusedPending' /\ RunOnce' /\ SuccessMarked'
  BY StepRefusedPending, StepRunOnce, StepSuccessMarked DEF WakeInv
<1> QED BY <1>1, <1>2, StepIndInv, StepWakeupToCome DEF WakeInv

(* No wake-up is lost, for any tasks, dependencies, goroutines, tokens and *)
(* kills: when the goroutines are at rest, a task that was refused because *)
(* of its blockers has been run if they all succeeded, although canStart,  *)
(* setPending and unblockDependents share no lock.                         *)
THEOREM TaskNoLostWakeup == Spec => []NoLostWakeup
<1>1. WakeInv => NoLostWakeup
  <2> SUFFICES ASSUME WakeInv, \A p \in Procs : pc[p] = "idle",
                      NEW t \in refused \ Killable, starts[t] = 1,
                      \A b \in Blockers(t) : b \in succeeded /\ StartedAlone(b),
                      t \notin launched
               PROVE  FALSE
    BY DEF NoLostWakeup
  <2>1. t \in Tasks BY DEF WakeInv, IndInv, TypeOK
  <2>2. PICK w \in Workers : Wakes(w, t)
    BY <2>1 DEF WakeInv, WakeupToCome, Waiting
  <2> QED BY <2>2 DEF Wakes, Procs
<1> QED BY InitWakeInv, StepWakeInv, <1>1, PTL DEF Spec

=============================================================================
