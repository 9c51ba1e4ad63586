------------------------------ MODULE AgentLoop ------------------------------
(***************************************************************************)
(* The agent of internal/agent/agent.go: one conversation (messages), one  *)
(* context manager, one interrupt channel, shared by every goroutine that  *)
(* holds the *Agent.                                                       *)
(*                                                                         *)
(* Submitters call Submit, which takes the busy flag around Run (the       *)
(* autonomous scheduler on the main agent, cron jobs on theirs, the poll   *)
(* loop of weixin on its own).  Streamers call RunStreaming, or Run, which *)
(* do not (the terminal on the main agent, a delegate on a fresh one).     *)
(* The two loops make the same steps; only the model call differs, and a   *)
(* stream is abstracted to the reply it adds up to.  The user types the    *)
(* commands /interrupt, /clear and /compact, and Ctrl-C.                   *)
(*                                                                         *)
(* Between two steps of a run come the steps of every other goroutine: a   *)
(* run waits for the model and for its tools without holding any lock.     *)
(* Compact holds the lock of the manager for as long as the summarising    *)
(* model takes, and so is one step.                                        *)
(***************************************************************************)
EXTENDS ContextManager, FiniteSets

CONSTANTS
    Submitters,     \* goroutines that call Submit
    Streamers,      \* goroutines that call RunStreaming
    MaxTurns,       \* cfg.MaxTurns
    InterruptCap,   \* capacity of interruptCh (8 in New)
    MaxCalls,       \* bound: tool calls in one reply
    MaxRuns,        \* bound: prompts given to the agent in a behaviour
    MaxInterrupts,  \* bound: interrupts the user sends
    MaxClears,      \* bound: /clear commands
    MaxCompacts     \* bound: /compact commands

Procs == Submitters \cup Streamers

ASSUME AgentAssumption ==
    /\ Submitters \cap Streamers = {}
    /\ MaxTurns \in Nat
    /\ InterruptCap \in Nat \ {0}
    /\ {MaxCalls, MaxRuns, MaxInterrupts, MaxClears, MaxCompacts} \subseteq Nat

VARIABLES
    messages,       \* a.messages
    turnCount,      \* a.turnCount
    loaded,         \* the turnCount a goroutine read and is about to add 1 to
    busy,           \* a.busy
    interruptCh,    \* a.interruptCh: the numbers of the queued interrupts
    cm,             \* a.ctxMgr
    pc,             \* where each goroutine is in Submit / Run / RunStreaming
    todo,           \* tool calls of the last reply not executed yet
    sent,           \* length of the prompt the model is answering
    cancelled,      \* whether the goroutine's context is cancelled
    user,           \* what the user's command does next
    runs,           \* prompts given so far
    issued,         \* interrupts sent so far; they are numbered 1, 2, ...
    clears,         \* /clear commands given so far
    compacts,       \* /compact commands given so far
    seen,           \* history: interrupts some prompt to the model contained
    discarded,      \* history: interrupts dropped on a full channel or by Reset
    asked           \* history: calls to the model since the goroutine's last prompt

vars == <<messages, turnCount, loaded, busy, interruptCh, cm, pc, todo, sent,
          cancelled, user, runs, issued, clears, compacts, seen, discarded, asked>>

histVars == <<seen, discarded>>
userVars == <<user, issued, clears, compacts>>

-----------------------------------------------------------------------------

Labels == {"idle", "begin", "turn", "load", "store", "check", "compacting", "readback",
           "call", "waiting", "tools", "release"}

(* Run is on the stack of p. *)
InRun(p) == pc[p] \notin {"idle", "release"}

(* Some other goroutine is in Run or RunStreaming. *)
Contended(p) == \E q \in Procs \ {p} : InRun(q)

Goto(p, label) == pc' = [pc EXCEPT ![p] = label]

Elements(s) == {s[i] : i \in 1..Len(s)}

Interrupts(msgs) == UNION {Elements(msgs[i].ints) : i \in 1..Len(msgs)}

(***************************************************************************)
(* a.messages = append(a.messages, ...).  The field is not protected: when *)
(* two runs append at the same time, one of the two results is lost.       *)
(***************************************************************************)
AppendMessages(p, new) ==
    \/ messages' = messages \o new
    \/ Contended(p) /\ messages' = messages

(* syncToManager: Reset, then AddMessage for each message of the agent. *)
SyncToManager(msgs) == [EmptyContext EXCEPT !.msgs = msgs]

(* Variant: the flag of a cancelled Submit is not given back. *)
ReturnLeaksBusy(p) ==
    IF p \in Submitters /\ ~cancelled[p]
    THEN Goto(p, "release") /\ UNCHANGED cancelled
    ELSE Goto(p, "idle") /\ cancelled' = [cancelled EXCEPT ![p] = FALSE]

(***************************************************************************)
(* The end of Run.  Submit has a deferred function to release the flag;    *)
(* RunStreaming just returns, and its caller forgets the context.          *)
(***************************************************************************)
Return(p) ==
    IF p \in Submitters
    THEN Goto(p, "release") /\ UNCHANGED cancelled
    ELSE Goto(p, "idle") /\ cancelled' = [cancelled EXCEPT ![p] = FALSE]

-----------------------------------------------------------------------------

Init ==
    /\ messages = <<>>
    /\ turnCount = 0
    /\ loaded = [p \in Procs |-> 0]
    /\ asked = [p \in Procs |-> 0]
    /\ busy = FALSE
    /\ interruptCh = <<>>
    /\ cm = EmptyContext
    /\ pc = [p \in Procs |-> "idle"]
    /\ todo = [p \in Procs |-> 0]
    /\ sent = [p \in Procs |-> 0]
    /\ cancelled = [p \in Procs |-> FALSE]
    /\ user = "prompt"
    /\ runs = 0
    /\ issued = 0
    /\ clears = 0
    /\ compacts = 0
    /\ seen = {}
    /\ discarded = {}

(* Variant: Submit does not look at the flag. *)
SubmitUnchecked(p) ==
    /\ p \in Submitters
    /\ pc[p] = "idle"
    /\ runs < MaxRuns
    /\ busy' = TRUE
    /\ runs' = runs + 1
    /\ Goto(p, "begin")
    /\ UNCHANGED <<messages, turnCount, loaded, asked, interruptCh, cm, todo,
                   sent, cancelled, userVars, histVars>>

(* Submit takes the flag; on a busy agent it returns an error and changes  *)
(* nothing, which is a stuttering step.                                    *)
Submit(p) ==
    /\ p \in Submitters
    /\ pc[p] = "idle"
    /\ runs < MaxRuns
    /\ ~busy
    /\ busy' = TRUE
    /\ runs' = runs + 1
    /\ Goto(p, "begin")
    /\ UNCHANGED <<messages, turnCount, loaded, asked, interruptCh, cm, todo,
                   sent, cancelled, userVars, histVars>>

(* RunStreaming is called on the agent directly. *)
Stream(p) ==
    /\ p \in Streamers
    /\ pc[p] = "idle"
    /\ runs < MaxRuns
    /\ runs' = runs + 1
    /\ Goto(p, "begin")
    /\ UNCHANGED <<messages, turnCount, loaded, asked, busy, interruptCh, cm,
                   todo, sent, cancelled, userVars, histVars>>

(* The prompt joins the history and the turn counter restarts. *)
Begin(p) ==
    /\ pc[p] = "begin"
    /\ AppendMessages(p, <<UserMessage(<<>>)>>)
    /\ turnCount' = 0
    /\ asked' = [asked EXCEPT ![p] = 0]
    /\ Goto(p, "turn")
    /\ UNCHANGED <<loaded, busy, interruptCh, cm, todo, sent, cancelled, runs,
                   userVars, histVars>>

(* Variant: the interrupts are drained before the context is looked at. *)
EndLoopDrains(p) ==
    /\ pc[p] = "turn"
    /\ turnCount >= MaxTurns \/ cancelled[p]
    /\ Return(p)
    /\ interruptCh' = <<>>
    /\ UNCHANGED <<messages, turnCount, loaded, asked, busy, cm, todo, sent,
                   runs, userVars, histVars>>

(* The loop ends: out of turns, or the context is done. *)
EndLoop(p) ==
    /\ pc[p] = "turn"
    /\ turnCount >= MaxTurns \/ cancelled[p]
    /\ Return(p)
    /\ UNCHANGED <<messages, turnCount, loaded, asked, busy, interruptCh, cm,
                   todo, sent, runs, userVars, histVars>>

(* Variant: one more turn is begun. *)
StartTurnOneMore(p) ==
    /\ pc[p] = "turn"
    /\ turnCount <= MaxTurns
    /\ ~cancelled[p]
    /\ Goto(p, "load")
    /\ UNCHANGED <<messages, turnCount, loaded, asked, busy, interruptCh, cm,
                   todo, sent, cancelled, runs, userVars, histVars>>

(* The loop goes on: turns are left and the context is not done. *)
StartTurn(p) ==
    /\ pc[p] = "turn"
    /\ turnCount < MaxTurns
    /\ ~cancelled[p]
    /\ Goto(p, "load")
    /\ UNCHANGED <<messages, turnCount, loaded, asked, busy, interruptCh, cm,
                   todo, sent, cancelled, runs, userVars, histVars>>

(***************************************************************************)
(* a.turnCount++ reads the field and writes it back without a lock: what   *)
(* another run of the same agent counts or resets in between is            *)
(* overwritten, and what it counted after the test above is counted on.    *)
(***************************************************************************)
LoadTurnCount(p) ==
    /\ pc[p] = "load"
    /\ loaded' = [loaded EXCEPT ![p] = turnCount]
    /\ Goto(p, "store")
    /\ UNCHANGED <<messages, turnCount, asked, busy, interruptCh, cm, todo, sent,
                   cancelled, runs, userVars, histVars>>

(* The other half of the increment; then the interrupts are drained. *)
CountTurn(p) ==
    /\ pc[p] = "store"
    /\ turnCount' = loaded[p] + 1
    /\ loaded' = [loaded EXCEPT ![p] = 0]
    /\ interruptCh' = <<>>
    /\ IF interruptCh = <<>>
       THEN UNCHANGED <<messages, cm>>
       ELSE /\ AppendMessages(p, <<UserMessage(interruptCh)>>)
            /\ cm' = SyncToManager(messages')
    /\ Goto(p, "check")
    /\ UNCHANGED <<asked, busy, todo, sent, cancelled, runs, userVars, histVars>>

(* Variant: the manager is taken to be up to date already. *)
CheckContextUnsynced(p) ==
    /\ pc[p] = "check"
    /\ Goto(p, IF ShouldCompact(cm) THEN "compacting" ELSE "call")
    /\ UNCHANGED <<messages, turnCount, loaded, asked, busy, interruptCh, cm,
                   todo, sent, cancelled, runs, userVars, histVars>>

(* The compaction check.  Over the threshold the history is pushed to the  *)
(* manager, which then compacts it.                                        *)
CheckContext(p) ==
    /\ pc[p] = "check"
    /\ IF ShouldCompact(cm)
       THEN cm' = SyncToManager(messages) /\ Goto(p, "compacting")
       ELSE UNCHANGED cm /\ Goto(p, "call")
    /\ UNCHANGED <<messages, turnCount, loaded, asked, busy, interruptCh, todo,
                   sent, cancelled, runs, userVars, histVars>>

Compact(p) ==
    /\ pc[p] = "compacting"
    /\ cm' \in CompactResults(cm)
    /\ Goto(p, "readback")
    /\ UNCHANGED <<messages, turnCount, loaded, asked, busy, interruptCh, todo,
                   sent, cancelled, runs, userVars, histVars>>

ReadBack(p) ==
    /\ pc[p] = "readback"
    /\ messages' = cm.msgs
    /\ Goto(p, "call")
    /\ UNCHANGED <<turnCount, loaded, asked, busy, interruptCh, cm, todo, sent,
                   cancelled, runs, userVars, histVars>>

(* The prompt leaves for the model. *)
CallModel(p) ==
    /\ pc[p] = "call"
    /\ sent' = [sent EXCEPT ![p] = Len(messages)]
    /\ seen' = seen \cup Interrupts(messages)
    /\ asked' = [asked EXCEPT ![p] = @ + 1]
    /\ Goto(p, "waiting")
    /\ UNCHANGED <<messages, turnCount, loaded, busy, interruptCh, cm, todo,
                   cancelled, runs, userVars, discarded>>

(* The call fails, or the stream reports an error: Run returns the error.  *)
ModelError(p) ==
    /\ pc[p] = "waiting"
    /\ Return(p)
    /\ sent' = [sent EXCEPT ![p] = 0]
    /\ UNCHANGED <<messages, turnCount, loaded, asked, busy, interruptCh, cm,
                   todo, runs, userVars, histVars>>

(* The model answers with n tool calls; the input tokens it reports may be *)
(* missing (0), and are otherwise those of the prompt.                     *)
ModelReply(p) ==
    /\ pc[p] = "waiting"
    /\ \E n \in 0..MaxCalls, tokens \in {0, sent[p]} :
          /\ cm' = IF tokens > 0 THEN SetActualTokens(cm, tokens) ELSE cm
          /\ AppendMessages(p, <<AssistantMessage(n)>>)
          /\ IF n = 0
             THEN Return(p) /\ UNCHANGED todo
             ELSE /\ Goto(p, "tools")
                  /\ todo' = [todo EXCEPT ![p] = n]
                  /\ UNCHANGED cancelled
    /\ sent' = [sent EXCEPT ![p] = 0]
    /\ UNCHANGED <<turnCount, loaded, asked, busy, interruptCh, runs, userVars,
                   histVars>>

(* executeTool appends the denial or the result itself; the loop appends   *)
(* the error of an unknown tool or of a failed execution.                  *)
ToolOutcome == {"result", "denied", "unknown", "failed"}

Executed(outcome) == IF outcome \in {"result", "denied"} THEN <<ToolMessage>> ELSE <<>>
ReportedUnknownOnly(outcome) == IF outcome = "unknown" THEN <<ToolMessage>> ELSE <<>>
Reported(outcome) == IF outcome \in {"unknown", "failed"} THEN <<ToolMessage>> ELSE <<>>

ExecuteTool(p) ==
    /\ pc[p] = "tools"
    /\ \E outcome \in ToolOutcome :
          AppendMessages(p, Executed(outcome) \o Reported(outcome))
    /\ todo' = [todo EXCEPT ![p] = @ - 1]
    /\ Goto(p, IF todo[p] = 1 THEN "turn" ELSE "tools")
    /\ UNCHANGED <<turnCount, loaded, asked, busy, interruptCh, cm, sent,
                   cancelled, runs, userVars, histVars>>

(* The deferred function of Submit. *)
Release(p) ==
    /\ pc[p] = "release"
    /\ busy' = FALSE
    /\ Goto(p, "idle")
    /\ cancelled' = [cancelled EXCEPT ![p] = FALSE]
    /\ UNCHANGED <<messages, turnCount, loaded, asked, interruptCh, cm, todo,
                   sent, runs, userVars, histVars>>

(* The caller's context ends: a timeout, or its owner is stopped. *)
Cancel(p) ==
    /\ pc[p] # "idle"
    /\ ~cancelled[p]
    /\ cancelled' = [cancelled EXCEPT ![p] = TRUE]
    /\ UNCHANGED <<messages, turnCount, loaded, asked, busy, interruptCh, cm,
                   pc, todo, sent, runs, userVars, histVars>>

-----------------------------------------------------------------------------

(* Interrupt: queue the message, or drop it when the channel is full. *)
Interrupt ==
    /\ issued' = issued + 1
    /\ IF Len(interruptCh) < InterruptCap
       THEN /\ interruptCh' = Append(interruptCh, issued + 1)
            /\ UNCHANGED discarded
       ELSE /\ discarded' = discarded \cup {issued + 1}
            /\ UNCHANGED interruptCh

(* /interrupt, and the scheduler on a user event: only for a busy agent, and *)
(* the agent is asked first.                                               *)
CheckBusy ==
    /\ user = "prompt"
    /\ issued < MaxInterrupts
    /\ busy
    /\ user' = "interrupt"
    /\ UNCHANGED <<messages, turnCount, loaded, asked, busy, interruptCh, cm,
                   pc, todo, sent, cancelled, runs, issued, clears, compacts,
                   histVars>>

SendInterrupt ==
    /\ user = "interrupt"
    /\ Interrupt
    /\ user' = "prompt"
    /\ UNCHANGED <<messages, turnCount, loaded, asked, busy, cm, pc, todo, sent,
                   cancelled, runs, clears, compacts, seen>>

(* Ctrl-C while a streamed run is on the screen: InterruptAndStop. *)
InterruptAndStop(p) ==
    /\ p \in Streamers
    /\ user = "prompt"
    /\ issued < MaxInterrupts
    /\ InRun(p)
    /\ ~cancelled[p]
    /\ Interrupt
    /\ cancelled' = [cancelled EXCEPT ![p] = TRUE]
    /\ UNCHANGED <<messages, turnCount, loaded, asked, busy, cm, pc, todo, sent,
                   runs, user, clears, compacts, seen>>

(* Reset, with the manager's Reset and the draining loop; /clear resets the *)
(* manager as well.  The write races with the appends of a run, whose      *)
(* result may overwrite it.                                                *)
Clear ==
    /\ clears < MaxClears
    /\ clears' = clears + 1
    /\ \/ messages' = <<>>
       \/ (\E p \in Procs : InRun(p)) /\ messages' = messages
    /\ cm' = EmptyContext
    /\ interruptCh' = <<>>
    /\ discarded' = discarded \cup Elements(interruptCh) \cup Interrupts(messages)
    /\ UNCHANGED <<turnCount, loaded, asked, busy, pc, todo, sent, cancelled,
                   runs, user, issued, compacts, seen>>

(* /compact compacts what the manager holds. *)
CompactCommand ==
    /\ compacts < MaxCompacts
    /\ compacts' = compacts + 1
    /\ cm' \in CompactResults(cm)
    /\ UNCHANGED <<messages, turnCount, loaded, asked, busy, interruptCh, pc,
                   todo, sent, cancelled, runs, user, issued, clears, histVars>>

-----------------------------------------------------------------------------

RunStep(p) ==
    \/ Begin(p) \/ EndLoop(p)
    \/ StartTurn(p) \/ LoadTurnCount(p) \/ CountTurn(p)
    \/ CheckContext(p) \/ Compact(p) \/ ReadBack(p)
    \/ CallModel(p) \/ ModelError(p) \/ ModelReply(p)
    \/ ExecuteTool(p) \/ Release(p)

Next ==
    \/ \E p \in Procs :
          Submit(p) \/ Stream(p) \/ RunStep(p) \/ Cancel(p) \/ InterruptAndStop(p)
    \/ CheckBusy \/ SendInterrupt \/ Clear \/ CompactCommand

Spec == Init /\ [][Next]_vars

(***************************************************************************)
(* A goroutine in a run takes its next step: no lock of the agent is held  *)
(* while the model or a tool works.  That they answer, if only with an     *)
(* error, is an assumption about the outside: the HTTP clients of the      *)
(* providers have no timeout of their own (openai.go, claude.go), and the  *)
(* context of a run by Submit or RunStreaming need not have one.  The      *)
(* arrival of prompts, cancellations and commands is up to the outside.    *)
(***************************************************************************)
Fairness == \A p \in Procs : WF_vars(RunStep(p))

FairSpec == Spec /\ Fairness

-----------------------------------------------------------------------------
(***************************************************************************)
(* Properties.                                                             *)
(***************************************************************************)

(* The type invariant. *)
TypeOK ==
    /\ messages \in Seq(Message)
    /\ turnCount \in Nat
    /\ loaded \in [Procs -> Nat]
    /\ asked \in [Procs -> Nat]
    /\ busy \in BOOLEAN
    /\ interruptCh \in Seq(Nat)
    /\ Len(interruptCh) <= InterruptCap
    /\ cm \in ContextState
    /\ pc \in [Procs -> Labels]
    /\ todo \in [Procs -> 0..MaxCalls]
    /\ sent \in [Procs -> Nat]
    /\ cancelled \in [Procs -> BOOLEAN]
    /\ user \in {"prompt", "interrupt"}
    /\ runs \in 0..MaxRuns
    /\ issued \in 0..MaxInterrupts
    /\ clears \in 0..MaxClears
    /\ compacts \in 0..MaxCompacts
    /\ seen \subseteq Nat
    /\ discarded \subseteq Nat

(* The busy flag of Submit: it is up exactly while a submitted run has not *)
(* returned, and two submitted runs never overlap, whichever way the first *)
(* one ends (answer, model error, cancelled context, out of turns).        *)
SubmitExclusive ==
    /\ busy <=> \E p \in Submitters : pc[p] # "idle"
    /\ \A p, q \in Submitters : pc[p] # "idle" /\ pc[q] # "idle" => p = q

(* What a provider requires of the prompt it is sent: each assistant       *)
(* message with n tool calls is followed by their n results, before        *)
(* anything else.  Every way a tool call can end, interrupts and           *)
(* compaction keep it so.  The exception is the reply that becomes the     *)
(* first message because /clear emptied the history while the model was    *)
(* answering: compaction keeps the first message and drops its results.    *)
CallsAnswered ==
    \A p \in Procs : pc[p] = "call" =>
        \A i \in (IF clears = 0 THEN 1 ELSE 2)..Len(messages) :
            \A k \in 1..messages[i].calls :
                i + k <= Len(messages) /\ messages[i + k].role = "tool"

(* A tool result in a prompt answers a call in the same prompt, unless     *)
(* compaction cut the history between the call and the result, in which    *)
(* case only results stand between it and the boundary message, or /clear  *)
(* emptied the history during the turn.                                    *)
ResultsHaveCalls ==
    \A p \in Procs : pc[p] = "call" =>
        \A j \in 1..Len(messages) : messages[j].role = "tool" =>
            \/ \E i \in 1..(j - 1) :
                  /\ \A k \in (i + 1)..j : messages[k].role = "tool"
                  /\ \/ messages[i].calls >= j - i
                     \/ messages[i].role \in {"boundary", "summary"}
            \/ clears > 0 /\ \A k \in 1..j : messages[k].role = "tool"

(* Automatic compaction drops neither the first message nor the newest     *)
(* ones: what a run reads back from the manager begins and ends like the   *)
(* history it pushed there, however stale the manager was before.  Only a  *)
(* /clear in between may empty it.                                         *)
CompactionKeepsEnds ==
    [][\A p \in Procs : ReadBack(p) /\ clears = 0 =>
          /\ messages' # <<>> /\ messages'[1] = messages[1]
          /\ LET n == IF Len(messages) < KeepRecent THEN Len(messages) ELSE KeepRecent
             IN  LastN(messages', n) = LastN(messages, n)]_vars

(* No accepted interrupt disappears: each one sent so far is queued, or in *)
(* the history, or has been in a prompt, or was dropped on a full channel  *)
(* or by a /clear.  An interrupt that is drained reaches the next model    *)
(* call even when the same turn compacts the history.                      *)
InterruptsAccounted ==
    1..issued \subseteq seen \cup discarded \cup Elements(interruptCh)
                           \cup Interrupts(messages)

(* To the goroutines that submit and interrupt, the agent is the one that  *)
(* SharedAgent describes, which is what the schedulers build on: however   *)
(* the runs, the streams and the user's commands interleave, submitted     *)
(* runs come one after the other, busy is up exactly during them, and the  *)
(* channel loses no interrupt but by being taken out whole.                *)
Shared == INSTANCE SharedAgent WITH
    Users <- Submitters, Capacity <- InterruptCap,
    inside <- {p \in Submitters : pc[p] # "idle"}, taken <- busy,
    waiting <- Len(interruptCh)

AgentIsShared == Shared!Spec

(* A prompt costs at most MaxTurns calls to the model, the limit that      *)
(* config_example.yaml:100 and ARCHITECTURE.md:128 state.  The counter is  *)
(* a field of the agent: it holds while one run goes at a time, whichever  *)
(* way each run ends and however many came before, and fails when two runs *)
(* overlap, one resetting or overwriting the count of the other.           *)
CallsWithinTurns == \A p \in Procs : asked[p] <= MaxTurns

(* A submitted run comes to an end and gives the agent back, whichever way *)
(* it ends, and so does a streamed one, cancelled or not.                  *)
AgentReleased ==
    /\ busy ~> ~busy
    /\ \A p \in Streamers : pc[p] # "idle" ~> pc[p] = "idle"

(***************************************************************************)
(* What a comment says of the agent, and the code does not do.             *)
(***************************************************************************)

(* agent.go:384: "IsBusy returns whether the agent is currently            *)
(* processing."  RunStreaming processes without the flag, so the scheduler *)
(* submits into a run that is streaming, and /interrupt refuses it.        *)
BusyCoversRuns == (\E p \in Procs : InRun(p)) => busy

=============================================================================
