------------------------------ MODULE Autonomous ------------------------------
(***************************************************************************)
(* The autonomous scheduler of internal/autonomous: an event bus with one  *)
(* bounded subscription, a ticker, the loop that hands events to the agent *)
(* and the sleeper that the SleepTool asks to pause that loop.             *)
(*                                                                         *)
(* The agent is seen through the interface AgentLoop: who holds its busy   *)
(* flag, and how many interrupts wait in its channel (module AgentLoop has *)
(* the whole of it).  Besides the scheduler, another caller may Submit,    *)
(* and the terminal runs the agent with RunStreaming, which takes no flag. *)
(*                                                                         *)
(* Events from outside are the members of Events, each published once.     *)
(* Prompts, durations and statistics are left out.  A subscription is      *)
(* closed only after the loop has ended, so the loop never sees it closed. *)
(***************************************************************************)
EXTENDS Naturals, Sequences

CONSTANTS
    Events,         \* external events
    Urgent,         \* those of type EventUser or EventWebhook
    Blank,          \* user events without a payload
    Tick, Wake,     \* the events of the ticker and of the sleeper
    Capacity,       \* buffer of a subscription (64)
    Interrupts,     \* buffer of the agent's interrupt channel (8)
    MaxTicks,       \* bound: ticks the ticker publishes
    MaxIdle         \* bound: empty responses counted in a row

ASSUME AutonomousAssumption ==
    /\ Blank \subseteq Urgent /\ Urgent \subseteq Events
    /\ Tick \notin Events /\ Wake \notin Events /\ Tick # Wake
    /\ Capacity \in Nat \ {0}
    /\ Interrupts \in Nat
    /\ MaxTicks \in Nat
    /\ MaxIdle \in Nat

VARIABLES
    queue,          \* the subscription's channel
    closed,         \* bus.closed
    ticker,         \* the ticker: "off", "on", "stopping" or "stopped"
    ticks,          \* ticks published
    loop,           \* where the scheduler's goroutine is
    event,          \* the event it handles
    idle,           \* ticksSinceLastWork
    cancelled,      \* whether the scheduler's context is cancelled
    stopping,       \* Stop: "no", "waiting" or "returned"
    sleepReq,       \* sleepCh holds a request
    wakeToken,      \* wakeCh holds a signal
    owner,          \* whose Submit holds the agent's busy flag
    streaming,      \* whether the terminal runs the agent
    pending,        \* messages in the agent's interrupt channel
    fate,           \* history: what has become of each external event
    disturbed       \* history: an event came since the sleep began

busVars == <<queue, closed, ticker, ticks>>
loopVars == <<loop, event, idle>>
stopVars == <<cancelled, stopping>>
sleepVars == <<sleepReq, wakeToken>>
agentVars == <<owner, streaming, pending>>
vars == <<busVars, loopVars, stopVars, sleepVars, agentVars, fate, disturbed>>

-----------------------------------------------------------------------------

AllEvents == Events \cup {Tick, Wake}

LoopStates == {"off", "select", "busy?", "interrupt", "submit", "running", "sleeping", "done"}

Fates == {"new", "queued", "dropped", "taken", "skipped", "injected",
          "refused", "submitted"}

Init ==
    /\ queue = <<>> /\ closed = FALSE
    /\ ticker = "off" /\ ticks = 0
    /\ loop = "off" /\ event = Tick /\ idle = 0
    /\ cancelled = FALSE /\ stopping = "no"
    /\ sleepReq = FALSE /\ wakeToken = FALSE
    /\ owner = "none" /\ streaming = FALSE /\ pending = 0
    /\ fate = [e \in Events |-> "new"]
    /\ disturbed = FALSE

-----------------------------------------------------------------------------
(***************************************************************************)
(* The bus.  Publish never waits: with no subscription, or a full one, the *)
(* event is dropped.                                                       *)
(***************************************************************************)

HasRoom == loop # "off" /\ ~closed /\ Len(queue) < Capacity

Send(e) == queue' = IF HasRoom THEN Append(queue, e) ELSE queue

Disturb == disturbed' = (disturbed \/ loop = "sleeping")

Publish(e) ==
    /\ fate[e] = "new"
    /\ Send(e)
    /\ fate' = [fate EXCEPT ![e] = IF HasRoom THEN "queued" ELSE "dropped"]
    /\ Disturb
    /\ UNCHANGED <<closed, ticker, ticks, loopVars, stopVars, sleepVars, agentVars>>

(* The ticker's goroutine may still pick a tick after Stop closed stopCh. *)
TickerTick ==
    /\ ticker \in {"on", "stopping"}
    /\ ticks < MaxTicks
    /\ ticks' = ticks + 1
    /\ Send(Tick)
    /\ Disturb
    /\ UNCHANGED <<closed, ticker, loopVars, stopVars, sleepVars, agentVars, fate>>

TickerExit ==
    /\ ticker = "stopping"
    /\ ticker' = "stopped"
    /\ UNCHANGED <<queue, closed, ticks, loopVars, stopVars, sleepVars, agentVars,
                   fate, disturbed>>

-----------------------------------------------------------------------------
(***************************************************************************)
(* The scheduler's goroutine.                                              *)
(***************************************************************************)

Start ==
    /\ loop = "off" /\ ~closed
    /\ loop' = "select"
    /\ ticker' = "on"
    /\ UNCHANGED <<queue, closed, ticks, event, idle, stopVars, sleepVars, agentVars,
                   fate, disturbed>>

Finish ==
    /\ loop = "select" /\ cancelled
    /\ loop' = "done"
    /\ UNCHANGED <<busVars, event, idle, stopVars, sleepVars, agentVars, fate, disturbed>>

SetFate(f) ==
    fate' = IF event \in Events THEN [fate EXCEPT ![event] = f] ELSE fate

(* Variant: a sleep request goes before the events. *)
TakeEventLast ==
    /\ loop = "select" /\ queue # <<>> /\ ~sleepReq
    /\ event' = Head(queue)
    /\ queue' = Tail(queue)
    /\ loop' = IF event' \in Blank THEN "select" ELSE "busy?"
    /\ fate' = IF event' \in Events THEN [fate EXCEPT ![event'] = "taken"] ELSE fate
    /\ UNCHANGED <<closed, ticker, ticks, idle, stopVars, sleepVars, agentVars, disturbed>>

(* handleEvent up to the prompt: an event without one goes no further. *)
TakeEvent ==
    /\ loop = "select" /\ queue # <<>>
    /\ event' = Head(queue)
    /\ queue' = Tail(queue)
    /\ loop' = IF event' \in Blank THEN "select" ELSE "busy?"
    /\ fate' = IF event' \in Events THEN [fate EXCEPT ![event'] = "taken"] ELSE fate
    /\ UNCHANGED <<closed, ticker, ticks, idle, stopVars, sleepVars, agentVars, disturbed>>

(* Variant: an event that finds the agent busy is published again as well. *)
FindBusyRepublished ==
    /\ loop = "busy?" /\ owner # "none"
    /\ IF event \in Urgent
       THEN loop' = "interrupt" /\ UNCHANGED fate
       ELSE loop' = "select" /\ SetFate("skipped")
    /\ Send(event)
    /\ UNCHANGED <<closed, ticker, ticks, event, idle, stopVars, sleepVars, agentVars, disturbed>>

(* IsBusy: an urgent event is to interrupt the run, another is skipped. *)
FindBusy ==
    /\ loop = "busy?" /\ owner # "none"
    /\ IF event \in Urgent
       THEN loop' = "interrupt" /\ UNCHANGED fate
       ELSE loop' = "select" /\ SetFate("skipped")
    /\ UNCHANGED <<busVars, event, idle, stopVars, sleepVars, agentVars, disturbed>>

(* Interrupt: the message waits in the agent's channel, for the run it was *)
(* meant for or, if that one has ended, for the next; it is lost if the    *)
(* channel is full.                                                        *)
Interrupt ==
    /\ loop = "interrupt"
    /\ loop' = "select"
    /\ pending' = IF pending < Interrupts THEN pending + 1 ELSE pending
    /\ SetFate(IF pending < Interrupts THEN "injected" ELSE "dropped")
    /\ UNCHANGED <<busVars, event, idle, stopVars, sleepVars, owner, streaming, disturbed>>

(* The agent is free: Wake leaves a signal in wakeCh, whether or not       *)
(* anybody sleeps.                                                         *)
FindFree ==
    /\ loop = "busy?" /\ owner = "none"
    /\ loop' = "submit"
    /\ wakeToken' = TRUE
    /\ UNCHANGED <<busVars, event, idle, stopVars, sleepReq, agentVars, fate, disturbed>>

(* Submit fails if somebody else took the agent since IsBusy was asked. *)
Submit ==
    /\ loop = "submit"
    /\ IF owner = "none"
       THEN owner' = "loop" /\ loop' = "running" /\ SetFate("submitted")
       ELSE loop' = "select" /\ SetFate("refused") /\ UNCHANGED owner
    /\ UNCHANGED <<busVars, event, idle, stopVars, sleepVars, streaming, pending, disturbed>>

(* The run ends with an error, with a response or with an empty one.  It   *)
(* always ends: by itself, by its timeout or because the scheduler's       *)
(* context is cancelled.                                                   *)
SubmitReturns ==
    /\ loop = "running"
    /\ owner' = "none"
    /\ loop' = "select"
    /\ idle' \in {idle, 0, idle + 1} \cap 0..MaxIdle
    /\ UNCHANGED <<busVars, event, stopVars, sleepVars, streaming, pending, fate, disturbed>>

TakeSleep ==
    /\ loop = "select" /\ sleepReq
    /\ loop' = "sleeping"
    /\ sleepReq' = FALSE
    /\ disturbed' = FALSE
    /\ UNCHANGED <<busVars, event, idle, stopVars, wakeToken, agentVars, fate>>

(* Variant: only a signal ends a sleep. *)
SleepCompletedNot == FALSE /\ UNCHANGED vars

(* The timer fires, and the sleeper publishes a wake event. *)
SleepCompleted ==
    /\ loop = "sleeping"
    /\ loop' = "select"
    /\ Send(Wake)
    /\ UNCHANGED <<closed, ticker, ticks, event, idle, stopVars, sleepVars, agentVars,
                   fate, disturbed>>

SleepWoken ==
    /\ loop = "sleeping" /\ wakeToken
    /\ loop' = "select"
    /\ wakeToken' = FALSE
    /\ UNCHANGED <<busVars, event, idle, stopVars, sleepReq, agentVars, fate, disturbed>>

-----------------------------------------------------------------------------
(***************************************************************************)
(* Stop: cancel the context, stop the ticker, wait for the loop and close  *)
(* the bus.                                                                *)
(***************************************************************************)

Stop ==
    /\ stopping = "no" /\ loop # "off"
    /\ stopping' = "waiting"
    /\ cancelled' = TRUE
    /\ ticker' = "stopping"
    /\ UNCHANGED <<queue, closed, ticks, loopVars, sleepVars, agentVars, fate, disturbed>>

(* Variant: the loop is not waited for. *)
StopUnwaited ==
    /\ stopping = "waiting"
    /\ stopping' = "returned"
    /\ closed' = TRUE
    /\ UNCHANGED <<queue, ticker, ticks, loopVars, cancelled, sleepVars, agentVars,
                   fate, disturbed>>

StopReturns ==
    /\ stopping = "waiting" /\ loop = "done"
    /\ stopping' = "returned"
    /\ closed' = TRUE
    /\ UNCHANGED <<queue, ticker, ticks, loopVars, cancelled, sleepVars, agentVars,
                   fate, disturbed>>

-----------------------------------------------------------------------------
(***************************************************************************)
(* The agent's other users, and what a run does to the scheduler.          *)
(***************************************************************************)

OtherSubmit ==
    /\ owner = "none"
    /\ owner' = "other"
    /\ UNCHANGED <<busVars, loopVars, stopVars, sleepVars, streaming, pending, fate, disturbed>>

OtherReturns ==
    /\ owner = "other"
    /\ owner' = "none"
    /\ UNCHANGED <<busVars, loopVars, stopVars, sleepVars, streaming, pending, fate, disturbed>>

RunStreaming ==
    /\ streaming' = ~streaming
    /\ UNCHANGED <<busVars, loopVars, stopVars, sleepVars, owner, pending, fate, disturbed>>

Running == owner # "none" \/ streaming

(* A tool call of a run; a second request is dropped. *)
SleepTool ==
    /\ Running /\ loop # "off"
    /\ ~sleepReq
    /\ sleepReq' = TRUE
    /\ UNCHANGED <<busVars, loopVars, stopVars, wakeToken, agentVars, fate, disturbed>>

(* A turn of a run, or /clear, takes the interrupts out. *)
DrainInterrupts ==
    /\ pending > 0
    /\ pending' = 0
    /\ UNCHANGED <<busVars, loopVars, stopVars, sleepVars, owner, streaming, fate, disturbed>>

-----------------------------------------------------------------------------

LoopStep ==
    \/ TakeEvent \/ FindBusy \/ Interrupt \/ FindFree \/ Submit \/ SubmitReturns
    \/ TakeSleep \/ SleepCompleted \/ SleepWoken \/ Finish

Next ==
    \/ \E e \in Events : Publish(e)
    \/ TickerTick \/ TickerExit
    \/ Start \/ LoopStep
    \/ Stop \/ StopReturns
    \/ OtherSubmit \/ OtherReturns \/ RunStreaming
    \/ SleepTool \/ DrainInterrupts

Spec == Init /\ [][Next]_vars

(***************************************************************************)
(* The loop's goroutine is scheduled, a timer fires, a run ends; of the    *)
(* ready cases of a select, each is picked again and again, because Go     *)
(* picks at random.  Nobody has to publish, to submit or to stop.          *)
(***************************************************************************)
Fairness ==
    /\ WF_vars(LoopStep)
    /\ SF_vars(TakeEvent) /\ SF_vars(Finish)
    /\ WF_vars(StopReturns)

FairSpec == Spec /\ Fairness

-----------------------------------------------------------------------------
(***************************************************************************)
(* Properties.                                                             *)
(***************************************************************************)

(* The type invariant. *)
TypeOK ==
    /\ queue \in Seq(AllEvents) /\ Len(queue) <= Capacity
    /\ closed \in BOOLEAN
    /\ ticker \in {"off", "on", "stopping", "stopped"}
    /\ ticks \in 0..MaxTicks
    /\ loop \in LoopStates
    /\ event \in AllEvents
    /\ idle \in 0..MaxIdle
    /\ cancelled \in BOOLEAN
    /\ stopping \in {"no", "waiting", "returned"}
    /\ sleepReq \in BOOLEAN /\ wakeToken \in BOOLEAN
    /\ owner \in {"none", "loop", "other"}
    /\ streaming \in BOOLEAN
    /\ pending \in 0..Interrupts
    /\ fate \in [Events -> Fates]
    /\ disturbed \in BOOLEAN

(* When Stop has returned the scheduler is quiet: its loop has ended, none *)
(* of its runs holds the agent, and what is still published is dropped, a  *)
(* late tick too.                                                          *)
QuietAfterStop ==
    stopping = "returned" => loop = "done" /\ owner # "loop" /\ closed

(* Each external event reaches the agent at most once: once it was         *)
(* submitted, injected, skipped, refused or dropped, nothing the bus, the  *)
(* loop or the sleeper does brings it back.                                *)
HandledOnce ==
    [][\A e \in Events : fate[e] \notin {"new", "queued", "taken"} => fate'[e] = fate[e]]_vars

(* The scheduler and the other caller use the agent as SharedAgent allows, *)
(* which is what AgentLoop provides: the loop is inside a run only while   *)
(* the other caller is not, although it asks IsBusy first and submits      *)
(* later, and it interrupts within the channel's capacity.                 *)
Shared == INSTANCE SharedAgent WITH
    Users <- {"loop", "other"}, Capacity <- Interrupts,
    inside <- (IF loop = "running" THEN {"loop"} ELSE {}) \cup ({owner} \cap {"other"}),
    taken <- (owner # "none"), waiting <- pending

AgentUsed == Shared!Spec

(* An event in the queue is taken, however often a run asks for sleep,     *)
(* unless the scheduler is stopped.                                        *)
EventsTaken ==
    \A e \in Events : fate[e] = "queued" ~> (fate[e] # "queued" \/ cancelled)

(* Stop comes back: from a sleep (after its timer), from a run and from a  *)
(* loop that always has another event to take.                             *)
StopTerminates == stopping = "waiting" ~> stopping = "returned"

(***************************************************************************)
(* What a comment says of the sleeper, and the code does not do.           *)
(***************************************************************************)

(* sleep.go:20: "The agent will wake when the duration expires or    *)
(* when an external event occurs."  The signal that Wake left before the   *)
(* run that asked for the sleep ends that sleep at once.                   *)
SleepLasts ==
    [][loop = "sleeping" /\ wakeToken /\ ~wakeToken' => disturbed]_vars

=============================================================================
