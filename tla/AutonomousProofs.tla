--------------------------- MODULE AutonomousProofs ---------------------------
(***************************************************************************)
(* What is proved of Autonomous for any events and any buffer sizes.       *)
(*                                                                         *)
(* That the scheduler is quiet after Stop is not inductive alone: the run  *)
(* that holds the agent must be one the loop is still in (OwnerRuns), and  *)
(* a stopped scheduler cannot be started again because its loop is no      *)
(* longer "off".                                                           *)
(***************************************************************************)
EXTENDS Autonomous, TLAPS

OwnerRuns == owner = "loop" <=> loop = "running"

IndInv == TypeOK /\ OwnerRuns /\ QuietAfterStop

-----------------------------------------------------------------------------

(* What the bus puts into the subscription, and that it never overfills it. *)
LEMMA SendTyped ==
  ASSUME TypeOK, NEW e \in AllEvents, Send(e)
  PROVE  queue' \in Seq(AllEvents) /\ Len(queue') <= Capacity
<1>1. CASE HasRoom
  <2>1. Len(queue) + 1 <= Capacity
    BY <1>1, AutonomousAssumption DEF TypeOK, HasRoom
  <2>2. queue' = Append(queue, e) /\ queue \in Seq(AllEvents)
    BY <1>1 DEF Send, TypeOK
  <2> QED BY <2>1, <2>2
<1>2. CASE ~HasRoom
  BY <1>2 DEF Send, TypeOK
<1> QED BY <1>1, <1>2

LEMMA TakeTyped ==
  ASSUME TypeOK, queue # <<>>
  PROVE  /\ Head(queue) \in AllEvents
         /\ Tail(queue) \in Seq(AllEvents) /\ Len(Tail(queue)) <= Capacity
<1>1. queue \in Seq(AllEvents) /\ Len(queue) \in Nat /\ Len(queue) <= Capacity
  BY DEF TypeOK
<1>2. Len(Tail(queue)) = Len(queue) - 1
  BY <1>1
<1> QED BY <1>1, <1>2, AutonomousAssumption

LEMMA FateTyped ==
  ASSUME TypeOK, NEW f \in Fates, SetFate(f)
  PROVE  fate' \in [Events -> Fates]
BY DEF TypeOK, SetFate

-----------------------------------------------------------------------------

LEMMA InitIndInv == Init => IndInv
<1> SUFFICES ASSUME Init PROVE IndInv OBVIOUS
<1>1. queue \in Seq(AllEvents) /\ Len(queue) <= Capacity
  BY AutonomousAssumption DEF Init
<1>2. ticks \in 0..MaxTicks /\ idle \in 0..MaxIdle /\ pending \in 0..Interrupts
  BY AutonomousAssumption DEF Init
<1>3. fate \in [Events -> Fates]
  BY DEF Init, Fates
<1>4. TypeOK
  BY <1>1, <1>2, <1>3 DEF Init, TypeOK, LoopStates, AllEvents
<1> QED BY <1>4 DEF Init, IndInv, OwnerRuns, QuietAfterStop

LEMMA StepIndInv == IndInv /\ [Next]_vars => IndInv'
<1> SUFFICES ASSUME IndInv, [Next]_vars PROVE IndInv' OBVIOUS
<1> USE AutonomousAssumption
    DEF IndInv, OwnerRuns, QuietAfterStop,
        busVars, loopVars, stopVars, sleepVars, agentVars
<1>0. TypeOK OBVIOUS
<1>1. ASSUME NEW e \in Events, Publish(e) PROVE IndInv'
  <2>1. queue' \in Seq(AllEvents) /\ Len(queue') <= Capacity
    BY <1>0, <1>1, SendTyped DEF Publish, AllEvents
  <2>2. fate' \in [Events -> Fates]
    BY <1>1 DEF Publish, TypeOK, Fates
  <2>3. disturbed' \in BOOLEAN
    BY <1>1 DEF Publish, Disturb, TypeOK
  <2> QED BY <1>1, <2>1, <2>2, <2>3 DEF Publish, TypeOK
<1>2. CASE TickerTick
  <2>1. queue' \in Seq(AllEvents) /\ Len(queue') <= Capacity
    BY <1>0, <1>2, SendTyped DEF TickerTick, AllEvents
  <2>2. disturbed' \in BOOLEAN /\ ticks' \in 0..MaxTicks
    BY <1>2 DEF TickerTick, Disturb, TypeOK
  <2> QED BY <1>2, <2>1, <2>2 DEF TickerTick, TypeOK
<1>3. CASE TickerExit
  BY <1>3 DEF TickerExit, TypeOK
<1>4. CASE Start
  BY <1>4 DEF Start, TypeOK, LoopStates
<1>5. CASE TakeEvent
  <2>1. event' \in AllEvents /\ queue' \in Seq(AllEvents) /\ Len(queue') <= Capacity
    BY <1>0, <1>5, TakeTyped DEF TakeEvent
  <2>2. fate' \in [Events -> Fates]
    BY <1>5 DEF TakeEvent, TypeOK, Fates
  <2> QED BY <1>5, <2>1, <2>2 DEF TakeEvent, TypeOK, LoopStates
<1>6. CASE FindBusy
  <2>1. fate' \in [Events -> Fates]
    BY <1>6, FateTyped DEF FindBusy, TypeOK, Fates
  <2> QED BY <1>6, <2>1 DEF FindBusy, TypeOK, LoopStates
<1>7. CASE Interrupt
  <2>1. fate' \in [Events -> Fates]
    BY <1>7, FateTyped DEF Interrupt, Fates
  <2>2. pending' \in 0..Interrupts
    BY <1>7 DEF Interrupt, TypeOK
  <2> QED BY <1>7, <2>1, <2>2 DEF Interrupt, TypeOK, LoopStates
<1>8. CASE FindFree
  BY <1>8 DEF FindFree, TypeOK, LoopStates
<1>9. CASE Submit
  <2>1. fate' \in [Events -> Fates]
    BY <1>9, FateTyped DEF Submit, TypeOK, Fates
  <2> QED BY <1>9, <2>1 DEF Submit, TypeOK, LoopStates
<1>10. CASE SubmitReturns
  BY <1>10 DEF SubmitReturns, TypeOK, LoopStates
<1>11. CASE TakeSleep \/ SleepWoken \/ Finish
  <2>1. CASE TakeSleep BY <2>1 DEF TakeSleep, TypeOK, LoopStates
  <2>2. CASE SleepWoken BY <2>2 DEF SleepWoken, TypeOK, LoopStates
  <2>3. CASE Finish BY <2>3 DEF Finish, TypeOK, LoopStates
  <2> QED BY <1>11, <2>1, <2>2, <2>3
<1>12. CASE SleepCompleted
  <2>1. queue' \in Seq(AllEvents) /\ Len(queue') <= Capacity
    BY <1>0, <1>12, SendTyped DEF SleepCompleted, AllEvents
  <2> QED BY <1>12, <2>1 DEF SleepCompleted, TypeOK, LoopStates
<1>13. CASE Stop \/ StopReturns
  <2>1. CASE Stop BY <2>1 DEF Stop, TypeOK
  <2>2. CASE StopReturns BY <2>2 DEF StopReturns, TypeOK
  <2> QED BY <1>13, <2>1, <2>2
<1>14. CASE OtherSubmit \/ OtherReturns \/ RunStreaming \/ SleepTool
  <2>1. CASE OtherSubmit BY <2>1 DEF OtherSubmit, TypeOK
  <2>2. CASE OtherReturns BY <2>2 DEF OtherReturns, TypeOK
  <2>3. CASE RunStreaming BY <2>3 DEF RunStreaming, TypeOK
  <2>4. CASE SleepTool BY <2>4 DEF SleepTool, TypeOK
  <2> QED BY <1>14, <2>1, <2>2, <2>3, <2>4
<1>15. CASE DrainInterrupts
  BY <1>15 DEF DrainInterrupts, TypeOK
<1>16. CASE UNCHANGED vars
  BY <1>16 DEF vars, TypeOK
<1> QED
  BY <1>1, <1>2, <1>3, <1>4, <1>5, <1>6, <1>7, <1>8, <1>9, <1>10, <1>11, <1>12,
     <1>13, <1>14, <1>15, <1>16 DEF Next, LoopStep

-----------------------------------------------------------------------------

(* The types; the subscription never holds more than its capacity, the     *)
(* agent's interrupt channel neither.                                      *)
THEOREM AutonomousTypeCorrect == Spec => []TypeOK
<1>1. IndInv => TypeOK BY DEF IndInv
<1> QED BY InitIndInv, StepIndInv, <1>1, PTL DEF Spec

(* Once Stop has returned the loop has ended, no run of the scheduler      *)
(* holds the agent and the bus is closed, for good, whatever is published  *)
(* or submitted meanwhile.                                                 *)
THEOREM AutonomousQuietAfterStop == Spec => []QuietAfterStop
<1>1. IndInv => QuietAfterStop BY DEF IndInv
<1> QED BY InitIndInv, StepIndInv, <1>1, PTL DEF Spec

-----------------------------------------------------------------------------
(***************************************************************************)
(* Each external event is handled once.  It stands in the queue at most    *)
(* once, as long as its fate is "queued", and the event the loop works on  *)
(* is one it took from there.                                              *)
(***************************************************************************)

QueuedOnce ==
    /\ \A i \in 1..Len(queue) : queue[i] \in Events => fate[queue[i]] = "queued"
    /\ \A i, k \in 1..Len(queue) : queue[i] = queue[k] /\ queue[i] \in Events => i = k

EventTaken ==
    loop \in {"busy?", "interrupt", "submit"} /\ event \in Events => fate[event] = "taken"

HandledInv == QueuedOnce /\ EventTaken

(* The bus puts an event into the queue that is not in it: a tick, a wake  *)
(* event or one that is new.                                               *)
LEMMA SendOnce ==
  ASSUME TypeOK, HandledInv, NEW e \in AllEvents, Send(e),
         UNCHANGED loop \/ loop' = "select", UNCHANGED event,
         \/ e \notin Events /\ fate' = fate
         \/ e \in Events /\ fate[e] = "new"
            /\ fate' = [fate EXCEPT ![e] = IF HasRoom THEN "queued" ELSE "dropped"]
  PROVE  HandledInv'
<1> USE DEF HandledInv, QueuedOnce, EventTaken
<1>1. \A i \in 1..Len(queue) : queue[i] \in AllEvents BY DEF TypeOK
<1>2. \A i \in 1..Len(queue) : queue[i] # e \/ e \notin Events OBVIOUS
<1>3. CASE HasRoom
  <2>1. queue' = Append(queue, e) /\ queue \in Seq(AllEvents)
    BY <1>3 DEF Send, TypeOK
  <2>2. /\ Len(queue') = Len(queue) + 1 /\ Len(queue) \in Nat
        /\ queue'[Len(queue) + 1] = e
        /\ \A i \in 1..Len(queue) : queue'[i] = queue[i]
    BY <2>1
  <2>3. ASSUME NEW i \in 1..Len(queue'), queue'[i] \in Events
        PROVE  fate'[queue'[i]] = "queued"
    BY <1>1, <1>2, <1>3, <2>2, <2>3 DEF TypeOK
  <2>4. ASSUME NEW i \in 1..Len(queue'), NEW k \in 1..Len(queue'),
               queue'[i] = queue'[k], queue'[i] \in Events
        PROVE  i = k
    BY <1>1, <1>2, <2>2, <2>4
  <2>5. EventTaken' BY DEF TypeOK
  <2> QED BY <2>3, <2>4, <2>5
<1>4. CASE ~HasRoom
  <2>1. queue' = queue BY <1>4 DEF Send
  <2>2. \A i \in 1..Len(queue) : queue[i] \in Events => fate'[queue[i]] = "queued"
    BY <1>1, <1>2 DEF TypeOK
  <2>3. EventTaken' BY DEF TypeOK
  <2> QED BY <2>1, <2>2, <2>3
<1> QED BY <1>3, <1>4

(* The loop takes the event at the head. *)
LEMMA TakeOnce ==
  ASSUME TypeOK, HandledInv, TakeEvent
  PROVE  HandledInv' /\ (event' \in Events => fate[event'] = "queued")
<1> USE DEF HandledInv, QueuedOnce, EventTaken
<1>1. /\ queue \in Seq(AllEvents) /\ queue # <<>>
      /\ event' = queue[1] /\ queue' = Tail(queue)
  BY DEF TypeOK, TakeEvent
<1>2. /\ Len(queue) \in Nat \ {0} /\ Len(queue') = Len(queue) - 1
      /\ \A i \in 1..Len(queue') : queue'[i] = queue[i + 1] /\ i + 1 \in 1..Len(queue)
  BY <1>1
<1>3. event' \in Events => fate[event'] = "queued" /\ fate'[event'] = "taken"
  BY <1>1, <1>2 DEF TakeEvent, TypeOK
<1>4. \A i \in 1..Len(queue') : queue'[i] \in Events => queue'[i] # event'
  BY <1>1, <1>2
<1>5. \A e \in Events : e # event' => fate'[e] = fate[e]
  BY DEF TakeEvent, TypeOK
<1>6. \A i \in 1..Len(queue') : queue'[i] \in Events => fate'[queue'[i]] = "queued"
  BY <1>2, <1>4, <1>5
<1>7. ASSUME NEW i \in 1..Len(queue'), NEW k \in 1..Len(queue'),
             queue'[i] = queue'[k], queue'[i] \in Events
      PROVE  i = k
  <2>1. i + 1 = k + 1 BY <1>2, <1>7
  <2> QED BY <1>2, <2>1
<1> QED BY <1>3, <1>6, <1>7

(* The loop decides what becomes of the event it took. *)
LEMMA DecideOnce ==
  ASSUME TypeOK, HandledInv, NEW f, SetFate(f), loop \in {"busy?", "interrupt", "submit"},
         loop' \in {"select", "running"}, UNCHANGED <<queue, event>>
  PROVE  HandledInv'
BY DEF HandledInv, QueuedOnce, EventTaken, SetFate, TypeOK

LEMMA StepHandledInv == TypeOK /\ HandledInv /\ [Next]_vars => HandledInv'
<1> SUFFICES ASSUME TypeOK, HandledInv, [Next]_vars PROVE HandledInv' OBVIOUS
<1> USE AutonomousAssumption
    DEF busVars, loopVars, stopVars, sleepVars, agentVars
<1>1. ASSUME NEW e \in Events, Publish(e) PROVE HandledInv'
  BY <1>1, SendOnce DEF Publish, AllEvents
<1>2. CASE TickerTick \/ SleepCompleted
  BY <1>2, SendOnce DEF TickerTick, SleepCompleted, AllEvents
<1>3. CASE TakeEvent
  BY <1>3, TakeOnce
<1>4. CASE FindBusy
  <2>1. CASE event \in Urgent
    BY <1>4, <2>1 DEF FindBusy, HandledInv, QueuedOnce, EventTaken
  <2>2. CASE event \notin Urgent
    BY <1>4, <2>2, DecideOnce DEF FindBusy
  <2> QED BY <2>1, <2>2
<1>5. CASE Interrupt \/ Submit
  BY <1>5, DecideOnce DEF Interrupt, Submit
<1>6. CASE FindFree
  BY <1>6 DEF FindFree, HandledInv, QueuedOnce, EventTaken
<1>7. CASE TickerExit \/ Start \/ SubmitReturns \/ TakeSleep \/ SleepWoken \/ Finish
           \/ Stop \/ StopReturns \/ OtherSubmit \/ OtherReturns \/ RunStreaming
           \/ SleepTool \/ DrainInterrupts \/ UNCHANGED vars
  <2>1. UNCHANGED <<queue, event, fate>> /\ (loop' = loop \/ loop' \in {"select", "sleeping", "done"})
    BY <1>7 DEF TickerExit, Start, SubmitReturns, TakeSleep, SleepWoken, Finish, Stop,
                StopReturns, OtherSubmit, OtherReturns, RunStreaming, SleepTool,
                DrainInterrupts, vars
  <2> QED BY <2>1 DEF HandledInv, QueuedOnce, EventTaken
<1> QED
  BY <1>1, <1>2, <1>3, <1>4, <1>5, <1>6, <1>7 DEF Next, LoopStep

(* What has become of an event that is neither new, nor in the queue, nor  *)
(* in the loop's hands stays so in every step.                             *)
LEMMA StepFates ==
  TypeOK /\ HandledInv /\ [Next]_vars =>
      \A e \in Events : fate[e] \notin {"new", "queued", "taken"} => fate'[e] = fate[e]
<1> SUFFICES ASSUME TypeOK, HandledInv, [Next]_vars, NEW e \in Events,
                    fate[e] \notin {"new", "queued", "taken"}
             PROVE  fate'[e] = fate[e]
  OBVIOUS
<1> USE DEF busVars, loopVars, stopVars, sleepVars, agentVars
<1>1. ASSUME NEW d \in Events, Publish(d) PROVE fate'[e] = fate[e]
  BY <1>1 DEF Publish, TypeOK
<1>2. CASE TakeEvent
  BY <1>2, TakeOnce DEF TakeEvent, TypeOK
<1>3. CASE FindBusy \/ Interrupt \/ Submit
  <2>1. event \in Events => event # e
    BY <1>3 DEF FindBusy, Interrupt, Submit, HandledInv, EventTaken
  <2>2. \/ fate' = fate \/ \E f : SetFate(f)
    BY <1>3 DEF FindBusy, Interrupt, Submit
  <2> QED BY <2>1, <2>2 DEF SetFate, TypeOK
<1>4. CASE TickerTick \/ TickerExit \/ Start \/ FindFree \/ SubmitReturns \/ TakeSleep
           \/ SleepCompleted \/ SleepWoken \/ Finish \/ Stop \/ StopReturns
           \/ OtherSubmit \/ OtherReturns \/ RunStreaming \/ SleepTool
           \/ DrainInterrupts \/ UNCHANGED vars
  BY <1>4 DEF TickerTick, TickerExit, Start, FindFree, SubmitReturns, TakeSleep,
              SleepCompleted, SleepWoken, Finish, Stop, StopReturns, OtherSubmit,
              OtherReturns, RunStreaming, SleepTool, DrainInterrupts, vars
<1> QED BY <1>1, <1>2, <1>3, <1>4 DEF Next, LoopStep

(* An external event reaches the agent at most once, whatever is published *)
(* and however the loop, the ticker, the sleeper and other callers         *)
(* interleave.                                                             *)
THEOREM AutonomousHandledOnce == Spec => HandledOnce
<1>1. Init => HandledInv
  BY DEF Init, HandledInv, QueuedOnce, EventTaken
<1>2. TypeOK /\ HandledInv /\ [Next]_vars
        => [\A e \in Events : fate[e] \notin {"new", "queued", "taken"} => fate'[e] = fate[e]]_vars
  BY StepFates
<1> QED BY <1>1, <1>2, StepHandledInv, AutonomousTypeCorrect, PTL DEF Spec, HandledOnce


-----------------------------------------------------------------------------
(***************************************************************************)
(* The scheduler and the other caller, seen as users of the shared agent.  *)
(* Only the steps that take the flag, give it back, interrupt or drain     *)
(* show; OwnerRuns says that the flag is the loop's exactly while it waits *)
(* for its run.                                                            *)
(***************************************************************************)

LEMMA QuietSteps ==
  ASSUME UNCHANGED <<owner, pending>>, (loop = "running") <=> (loop' = "running")
  PROVE  UNCHANGED Shared!vars
BY DEF Shared!vars

LEMMA StepUsesAgent == IndInv /\ [Next]_vars => [Shared!Next]_(Shared!vars)
<1> SUFFICES ASSUME IndInv, [Next]_vars
             PROVE  Shared!Next \/ UNCHANGED Shared!vars
  OBVIOUS
<1> DEFINE Inside == (IF loop = "running" THEN {"loop"} ELSE {}) \cup ({owner} \cap {"other"})
<1>0. owner \in {"none", "loop", "other"} /\ (owner = "loop" <=> loop = "running")
  BY DEF IndInv, TypeOK, OwnerRuns
<1>1. ASSUME NEW u \in {"loop", "other"}, owner = "none", owner' = u, UNCHANGED pending,
             owner' = "loop" <=> loop' = "running"
      PROVE  Shared!Next
  <2>1. Inside = {} /\ Inside' = {u}
    BY <1>0, <1>1
  <2> QED BY <1>1, <2>1 DEF Shared!Next, Shared!Enter
<1>2. ASSUME NEW u \in {"loop", "other"}, owner = u, owner' = "none", UNCHANGED pending,
             loop' # "running"
      PROVE  Shared!Next
  <2>1. Inside = {u} /\ Inside' = {}
    BY <1>0, <1>2
  <2> QED BY <1>2, <2>1 DEF Shared!Next, Shared!Leave
<1> USE DEF busVars, loopVars, stopVars, sleepVars, agentVars
<1>3. CASE Submit
  <2>1. CASE owner = "none"
    BY <1>1, <1>3, <2>1 DEF Submit
  <2>2. CASE owner # "none"
    BY <1>3, <2>2, QuietSteps DEF Submit
  <2> QED BY <2>1, <2>2
<1>4. CASE SubmitReturns \/ OtherReturns
  BY <1>0, <1>2, <1>4 DEF SubmitReturns, OtherReturns
<1>5. CASE OtherSubmit
  BY <1>0, <1>1, <1>5 DEF OtherSubmit
<1>6. CASE Interrupt
  <2>1. Inside' = Inside
    BY <1>6 DEF Interrupt
  <2>2. CASE pending < Interrupts
    BY <1>6, <2>1, <2>2 DEF Interrupt, Shared!Next, Shared!Send
  <2>3. CASE ~(pending < Interrupts)
    BY <1>6, <2>3, QuietSteps DEF Interrupt
  <2> QED BY <2>2, <2>3
<1>7. CASE DrainInterrupts
  BY <1>7 DEF DrainInterrupts, Shared!Next, Shared!TakeOut
<1>8. ASSUME NEW e \in Events, Publish(e) PROVE UNCHANGED Shared!vars
  BY <1>8, QuietSteps DEF Publish
<1>9. CASE TickerTick \/ TickerExit \/ Start \/ Stop \/ StopReturns \/ RunStreaming
           \/ SleepTool \/ UNCHANGED vars
  BY <1>9, QuietSteps DEF TickerTick, TickerExit, Start, Stop, StopReturns, RunStreaming,
                          SleepTool, vars
<1>10. CASE TakeEvent \/ FindBusy \/ FindFree \/ TakeSleep \/ SleepCompleted
            \/ SleepWoken \/ Finish
  <2>1. UNCHANGED <<owner, pending>> /\ loop # "running" /\ loop' # "running"
    BY <1>10 DEF TakeEvent, FindBusy, FindFree, TakeSleep, SleepCompleted, SleepWoken, Finish
  <2> QED BY <2>1, QuietSteps
<1> QED
  BY <1>3, <1>4, <1>5, <1>6, <1>7, <1>8, <1>9, <1>10 DEF Next, LoopStep

(* The scheduler uses the agent as the agent's specification allows, for   *)
(* any events and any capacities.                                          *)
THEOREM AutonomousUsesAgent == Spec => AgentUsed
<1>1. Init => Shared!Init
  BY DEF Init, Shared!Init
<1> QED
  BY <1>1, InitIndInv, StepIndInv, StepUsesAgent, PTL DEF Spec, AgentUsed, Shared!Spec

=============================================================================
