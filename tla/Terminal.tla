------------------------------- MODULE Terminal -------------------------------
(***************************************************************************)
(* The event loop of the terminal (internal/tui/app.go) and the runs it    *)
(* starts: prompts, Ctrl-C, slash commands that wait while a run is busy,  *)
(* the messages that runs send to the loop, and the exit.                  *)
(*                                                                         *)
(* A sender (p.Send, or the goroutine of a command that returns its        *)
(* message) blocks until the loop takes its message, so each run offers at *)
(* most one message.  The loop handles one message at a time, and OnSlash  *)
(* runs inside it.  What is typed is only known by its kind; the editing   *)
(* itself is in Editor, layout and selection in Screen.  Ticks and the     *)
(* status bar are left out.                                                *)
(***************************************************************************)
EXTENDS Integers, Sequences, FiniteSets, SequencesExt

CONSTANTS
    MaxRuns,        \* bound: prompts submitted
    MaxCommands,    \* bound: slash commands that are queued
    MaxTools,       \* bound: tool calls of a run
    Tools,          \* names of tools
    NoTool

ASSUME TerminalAssumption ==
    /\ {MaxRuns, MaxCommands, MaxTools} \subseteq Nat
    /\ NoTool \notin Tools

(* The runs started by prompts are numbered; run 0 is that of the          *)
(* autonomous scheduler on the same agent, whose tool events come here too. *)
Scheduled == 0
Prompts == 1 .. MaxRuns
TuiRuns == {Scheduled} \cup Prompts
NoRun == MaxRuns + 1

VARIABLES
    input,          \* what the composer holds
    busy,           \* a.busy
    cancelFn,       \* the run that a.cancelFn cancels
    submitted,      \* prompts so far
    stage,          \* where each run is
    offer,          \* the message each run waits to have taken
    using,          \* the tool each run uses
    toolsLeft,      \* tool calls each run may still make
    cancelled,      \* runs whose context is cancelled
    queue,          \* a.queue, as numbers of commands
    queued,         \* commands queued so far
    toolEntries,    \* the transcript's tool entries: name and status
    quitConfirm,    \* a.quitConfirm
    interrupted,    \* history: Ctrl-C left a run
    loopState       \* the event loop: "on", "stopping" in /exit, or "gone"

inputVars == <<input, quitConfirm>>
runVars == <<busy, cancelFn, submitted, stage, offer, using, toolsLeft, cancelled, interrupted>>
queueVars == <<queue, queued>>
terminalVars == <<inputVars, runVars, queueVars, toolEntries, loopState>>

Entry == [name : Tools, status : {"running", "done"}]

TerminalTypeOK ==
    /\ input \in {"empty", "prompt", "slash"}
    /\ {busy, quitConfirm, interrupted} \subseteq BOOLEAN
    /\ cancelFn \in Prompts \cup {NoRun}
    /\ submitted \in 0 .. MaxRuns
    /\ stage \in [TuiRuns -> {"none", "model", "tool", "over"}]
    /\ offer \in [TuiRuns -> {"none", "chunk", "start", "end", "response"}]
    /\ using \in [TuiRuns -> Tools \cup {NoTool}]
    /\ toolsLeft \in [TuiRuns -> 0 .. MaxTools]
    /\ cancelled \subseteq Prompts
    /\ queued \in 0 .. MaxCommands
    /\ ToSet(queue) \subseteq 1 .. queued
    /\ ToSet(toolEntries) \subseteq Entry
    /\ loopState \in {"on", "stopping", "gone"}

TerminalInit ==
    /\ input = "empty"
    /\ busy = FALSE
    /\ cancelFn = NoRun
    /\ submitted = 0
    /\ stage = [r \in TuiRuns |-> "none"]
    /\ offer = [r \in TuiRuns |-> "none"]
    /\ using = [r \in TuiRuns |-> NoTool]
    /\ toolsLeft = [r \in TuiRuns |-> MaxTools]
    /\ cancelled = {}
    /\ queue = <<>> /\ queued = 0
    /\ toolEntries = <<>>
    /\ quitConfirm = FALSE
    /\ interrupted = FALSE
    /\ loopState = "on"

-----------------------------------------------------------------------------
(***************************************************************************)
(* Keys (handleKey).  A key other than Ctrl-C takes the confirmation back, *)
(* a paste does not.                                                       *)
(***************************************************************************)

EditInput ==
    /\ loopState = "on"
    /\ input' \in {"empty", "prompt", "slash"}
    /\ quitConfirm' = FALSE
    /\ UNCHANGED <<runVars, queueVars, toolEntries, loopState>>

PasteInput ==
    /\ loopState = "on"
    /\ input' \in {"prompt", "slash"}
    /\ UNCHANGED <<quitConfirm, runVars, queueVars, toolEntries, loopState>>

(* Variant: the cancel function is kept. *)
LeaveRunHalf ==
    /\ cancelled' = IF cancelFn = NoRun THEN cancelled ELSE cancelled \cup {cancelFn}
    /\ UNCHANGED cancelFn
    /\ busy' = FALSE
    /\ interrupted' = TRUE

(* InterruptAndStop cancels the run's context; without a cancel function   *)
(* only the interrupt is sent (AgentLoop).  The terminal is free at once.  *)
LeaveRun ==
    /\ cancelled' = IF cancelFn = NoRun THEN cancelled ELSE cancelled \cup {cancelFn}
    /\ cancelFn' = NoRun
    /\ busy' = FALSE
    /\ interrupted' = TRUE

CtrlCBusy ==
    /\ loopState = "on" /\ busy
    /\ LeaveRun
    /\ UNCHANGED <<inputVars, submitted, stage, offer, using, toolsLeft,
                   queueVars, toolEntries, loopState>>

CtrlCClear ==
    /\ loopState = "on" /\ ~busy
    /\ input # "empty"
    /\ input' = "empty"
    /\ UNCHANGED <<quitConfirm, runVars, queueVars, toolEntries, loopState>>

CtrlCQuit ==
    /\ loopState = "on" /\ ~busy
    /\ input = "empty"
    /\ IF quitConfirm
       THEN loopState' = "gone" /\ UNCHANGED quitConfirm
       ELSE quitConfirm' = TRUE /\ UNCHANGED loopState
    /\ UNCHANGED <<input, runVars, queueVars, toolEntries>>

(* Each confirmation has a timer of its own, which clears a later one too:  *)
(* it may end at any time.                                                 *)
QuitTimeout ==
    /\ loopState = "on" /\ quitConfirm
    /\ quitConfirm' = FALSE
    /\ UNCHANGED <<input, runVars, queueVars, toolEntries, loopState>>

CtrlL ==
    /\ loopState = "on"
    /\ toolEntries' = <<>>
    /\ quitConfirm' = FALSE
    /\ UNCHANGED <<input, runVars, queueVars, loopState>>

(* OnSlash, that is handleCommand.  /exit waits inside the loop for the    *)
(* scheduler to stop.  What the other commands change is in AgentLoop,     *)
(* Cron, Models, Skills and Weixin.                                        *)
OnSlash == loopState' \in {"on", "stopping"}

QueueCommand ==
    /\ loopState = "on" /\ busy
    /\ input = "slash"
    /\ queued < MaxCommands
    /\ queued' = queued + 1
    /\ queue' = Append(queue, queued + 1)
    /\ input' = "empty"
    /\ quitConfirm' = FALSE
    /\ UNCHANGED <<runVars, toolEntries, loopState>>

SubmitCommand ==
    /\ loopState = "on" /\ ~busy
    /\ input = "slash"
    /\ OnSlash
    /\ input' = "empty"
    /\ quitConfirm' = FALSE
    /\ UNCHANGED <<runVars, queueVars, toolEntries>>

SubmitPrompt ==
    LET r == submitted + 1
    IN  /\ loopState = "on" /\ ~busy
        /\ input = "prompt"
        /\ submitted < MaxRuns
        /\ submitted' = r
        /\ busy' = TRUE
        /\ cancelFn' = r
        /\ stage' = [stage EXCEPT ![r] = "model"]
        /\ input' = "empty"
        /\ quitConfirm' = FALSE
        /\ UNCHANGED <<offer, using, toolsLeft, cancelled, interrupted,
                       queueVars, toolEntries, loopState>>

-----------------------------------------------------------------------------
(***************************************************************************)
(* Runs (runAgentCmd, and OnToolStart and OnToolEnd of the agent).  The    *)
(* loop need not be there to hear of it.                                   *)
(***************************************************************************)

ScheduledStart ==
    /\ loopState = "on"
    /\ stage[Scheduled] = "none"
    /\ stage' = [stage EXCEPT ![Scheduled] = "model"]
    /\ UNCHANGED <<inputVars, busy, cancelFn, submitted, offer, using, toolsLeft, cancelled,
                   interrupted, queueVars, toolEntries, loopState>>

OfferMessage(r, m) ==
    /\ offer[r] = "none"
    /\ offer' = [offer EXCEPT ![r] = m]

OfferChunk(r) ==
    /\ r \in Prompts \ cancelled
    /\ stage[r] = "model"
    /\ OfferMessage(r, "chunk")
    /\ UNCHANGED <<inputVars, busy, cancelFn, submitted, stage, using, toolsLeft, cancelled,
                   interrupted, queueVars, toolEntries, loopState>>

OfferToolStart(r) ==
    /\ stage[r] = "model"
    /\ toolsLeft[r] > 0
    /\ OfferMessage(r, "start")
    /\ \E t \in Tools : using' = [using EXCEPT ![r] = t]
    /\ toolsLeft' = [toolsLeft EXCEPT ![r] = @ - 1]
    /\ UNCHANGED <<inputVars, busy, cancelFn, submitted, stage, cancelled, interrupted,
                   queueVars, toolEntries, loopState>>

OfferToolEnd(r) ==
    /\ stage[r] = "tool"
    /\ OfferMessage(r, "end")
    /\ UNCHANGED <<inputVars, busy, cancelFn, submitted, stage, using, toolsLeft, cancelled,
                   interrupted, queueVars, toolEntries, loopState>>

(* With its text or with an error, which a cancelled run ends with. *)
OfferResponse(r) ==
    /\ r \in Prompts
    /\ stage[r] = "model"
    /\ OfferMessage(r, "response")
    /\ UNCHANGED <<inputVars, busy, cancelFn, submitted, stage, using, toolsLeft, cancelled,
                   interrupted, queueVars, toolEntries, loopState>>

ScheduledEnd ==
    /\ stage[Scheduled] = "model"
    /\ offer[Scheduled] = "none"
    /\ stage' = [stage EXCEPT ![Scheduled] = "over"]
    /\ UNCHANGED <<inputVars, busy, cancelFn, submitted, offer, using, toolsLeft, cancelled,
                   interrupted, queueVars, toolEntries, loopState>>

-----------------------------------------------------------------------------
(***************************************************************************)
(* The messages of runs (Update).                                          *)
(***************************************************************************)

Take(r, m) ==
    /\ loopState = "on"
    /\ offer[r] = m
    /\ offer' = [offer EXCEPT ![r] = "none"]

TakeChunk(r) ==
    /\ Take(r, "chunk")
    /\ UNCHANGED <<inputVars, busy, cancelFn, submitted, stage, using, toolsLeft, cancelled,
                   interrupted, queueVars, toolEntries, loopState>>

TakeToolStart(r) ==
    /\ Take(r, "start")
    /\ stage' = [stage EXCEPT ![r] = "tool"]
    /\ toolEntries' = Append(toolEntries, [name |-> using[r], status |-> "running"])
    /\ UNCHANGED <<inputVars, busy, cancelFn, submitted, using, toolsLeft, cancelled,
                   interrupted, queueVars, loopState>>

(* Variant: the status of the entry is not asked for. *)
EndedEntryAny(t) == {i \in DOMAIN toolEntries : toolEntries[i].name = t}

(* The entries that a tool's end may belong to: the last is taken. *)
EndedEntry(t) ==
    {i \in DOMAIN toolEntries : toolEntries[i].name = t /\ toolEntries[i].status = "running"}

TakeToolEnd(r) ==
    LET ended == EndedEntry(using[r])
    IN  /\ Take(r, "end")
        /\ stage' = [stage EXCEPT ![r] = "model"]
        /\ using' = [using EXCEPT ![r] = NoTool]
        /\ toolEntries' = IF ended = {} THEN toolEntries
                          ELSE [toolEntries EXCEPT ![Max(ended)].status = "done"]
        /\ UNCHANGED <<inputVars, busy, cancelFn, submitted, toolsLeft, cancelled, interrupted,
                       queueVars, loopState>>

(* One command of the queue runs, whoever's response this is. *)
RunQueued ==
    /\ queue' = Tail(queue)
    /\ OnSlash

(* Variant: a response that is not the newest run's leaves the terminal as it is. *)
TakeResponseMissed(r) ==
    /\ Take(r, "response")
    /\ stage' = [stage EXCEPT ![r] = "over"]
    /\ UNCHANGED <<busy, cancelFn>>
    /\ IF queue = <<>> THEN UNCHANGED <<queue, loopState>> ELSE RunQueued
    /\ UNCHANGED <<inputVars, submitted, using, toolsLeft, cancelled, interrupted, queued,
                   toolEntries>>

TakeResponse(r) ==
    /\ Take(r, "response")
    /\ stage' = [stage EXCEPT ![r] = "over"]
    /\ cancelFn' = NoRun
    /\ busy' = FALSE
    /\ IF queue = <<>> THEN UNCHANGED <<queue, loopState>> ELSE RunQueued
    /\ UNCHANGED <<inputVars, submitted, using, toolsLeft, cancelled, interrupted, queued,
                   toolEntries>>

(* /exit: scheduler.Stop waits for the scheduled run, which needs the loop *)
(* to take its tool events; then os.Exit.                                  *)
ExitDone ==
    /\ loopState = "stopping"
    /\ stage[Scheduled] \in {"none", "over"}
    /\ loopState' = "gone"
    /\ UNCHANGED <<inputVars, runVars, queueVars, toolEntries>>

-----------------------------------------------------------------------------

KeyPressed ==
    \/ EditInput \/ PasteInput
    \/ CtrlCBusy \/ CtrlCClear \/ CtrlCQuit \/ CtrlL
    \/ QueueCommand \/ SubmitCommand \/ SubmitPrompt

RunStep(r) ==
    \/ OfferChunk(r) \/ OfferToolStart(r) \/ OfferToolEnd(r) \/ OfferResponse(r)

LoopStep(r) ==
    \/ TakeChunk(r) \/ TakeToolStart(r) \/ TakeToolEnd(r) \/ TakeResponse(r)

TerminalNext ==
    \/ KeyPressed
    \/ QuitTimeout
    \/ ScheduledStart \/ ScheduledEnd \/ ExitDone
    \/ \E r \in TuiRuns : RunStep(r) \/ LoopStep(r)

(* A run goes on and ends; the loop takes what is offered to it. *)
TerminalFairness ==
    /\ \A r \in TuiRuns : SF_terminalVars(OfferToolEnd(r) \/ OfferResponse(r))
    /\ \A r \in TuiRuns : WF_terminalVars(LoopStep(r))
    /\ WF_terminalVars(ScheduledEnd) /\ WF_terminalVars(ExitDone)

TerminalSpec == TerminalInit /\ [][TerminalNext]_terminalVars /\ TerminalFairness

-----------------------------------------------------------------------------
(***************************************************************************)
(* Properties.                                                             *)
(***************************************************************************)

(* The cancel function is there exactly while the terminal says busy, and   *)
(* then it is the newest run's, which is still going: Ctrl-C never cancels a *)
(* run that is over, nor an older one.  As long as nobody pressed it, it    *)
(* reaches each run that is going (app.go:301, 623, 826).                  *)
CancelReachesRun ==
    /\ busy <=> cancelFn # NoRun
    /\ busy => cancelFn = submitted /\ stage[cancelFn] \in {"model", "tool"}
    /\ busy => cancelFn \notin cancelled
    /\ ~interrupted => \A r \in Prompts : stage[r] \in {"model", "tool"} => cancelFn = r

(* No tool is shown running but for a call that is still going: what an     *)
(* overlapping run or a cleared transcript leaves behind is settled by the  *)
(* ends that come (app.go:354, 664).                                       *)
ShownToolsRun ==
    \A t \in Tools :
        Cardinality({i \in DOMAIN toolEntries : toolEntries[i] = [name |-> t, status |-> "running"]})
            <= Cardinality({r \in TuiRuns : stage[r] = "tool" /\ using[r] = t})

(* A terminal that is busy gets free again, unless the loop stops in /exit  *)
(* (app.go:301, 685).                                                      *)
BusyEnds == busy ~> (~busy \/ loopState # "on")

=============================================================================
