# A TLA+ model of gclaw

gclaw is a Go program that runs language-model agents: an interactive terminal,
an autonomous scheduler, cron jobs, a WeChat (weixin) channel, background tasks
and delegated sub-agents all drive instances of one agent loop. The modules here
model its concurrent core and the stateful services around it, check them with
TLC on small instances, and prove their main safety properties with TLAPS for
every value of the constants.

Run them from this directory:

    tlc -workers 2 -config Agent.cfg MCAgentLoop.tla
    tlapm AgentLoopProofs.tla

Paths below are relative to `src/`; `PROJECT.json` maps each definition to the
lines it models.

## 1. Inventory

### 1.1 The parts

| Part | State it keeps | Operations | Modelled in |
|---|---|---|---|
| Agent loop, `internal/agent/agent.go` | `messages`, `turnCount`, `busy`, `interruptCh` | `Run`, `RunStreaming`, `Submit`, `IsBusy`, `Interrupt`, `Reset` | `AgentLoop` |
| Context manager, `internal/context` | messages, API and estimated tokens, compaction history | sync, `ShouldCompact`, `Compact` (truncating or summarising), `Reset` | `ContextManager` |
| Autonomous scheduler, `internal/autonomous` | event bus, subscription, ticker, sleeper, idle ticks | `Start`, `Publish`, `run`, `handleEvent`, `Sleep`/`Wake`, `Stop` | `Autonomous` |
| Task manager, `internal/task` | tasks with a status, dependencies, semaphore | `Create`, `Start`, `Kill`, `AddDependency`, `run`, `unblockDependents` | `TaskManager` |
| Cron scheduler, `internal/cron` | jobs, next runs, the loop | `AddJob`, `RemoveJob`, `PauseJob`, `ResumeJob`, `RunNow`, `checkDue`, `executeJob`, `Stop`, `nextRun` | `Cron` |
| Sub-agent dispatcher, `internal/delegate` | semaphore, jobs map | `Delegate`, `BatchDelegate` | `Delegate`, `Dispatch` |
| Terminal, `internal/tui` | busy, cancel function, queue of commands, composer, history, completions, transcript, selection | keys, pastes, mouse, messages of runs, slash commands, exit | `Terminal`, `Editor`, `Screen` |
| Weixin channel, `internal/channel/weixin` | account file, client, connection, context, poll loops, cursor | `Start`, QR login, `Login`, `Logout`, `pollLoop`, `handleMessage`, `SaveChatUserID` | `Weixin` |
| Credential pool and factory, `internal/provider` | keys, index, cooldowns, the current model | `Select`, `MarkExhausted`, `Recover`, `Create`, `/model` | `Models` |
| Model router, `internal/model/router.go` | models, token buckets | `Register`, `Complete` with fallback, `allow` | `Models` |
| Providers' streams, `internal/model/{openai,claude,ollama}` | partial calls, event channel | `processStream`, `Call`, `toResponse`, `convertMessage`; the agent's stream loop and `executeTool` | `Streams` |
| Checkpoints, `internal/checkpoint`, and file tools, `internal/tool/builtin/{file,shell}` | mark of the turn, shadow repository, read tracker | `EnsureCheckpoint`, `NewTurn`, `Restore`, `pruneOldest`; read, write, patch, shell | `Workspace` |
| Skills, `internal/skill`, and curator, `internal/curator` | directories, archive, loaded skills, state file | `LoadAll`, `CreateSkill`, `DeleteSkill`, `ArchiveSkill`, `UnarchiveSkill`, `MaybeRun`, `Pause`, `Resume` | `Skills` |
| Memory, sessions, todo list, `internal/{memory,session}`, `internal/tool/builtin/{memory,todo}` | files, entries, SQLite rows and counters, the list | add, replace, remove, load; `CreateSession`, `AddMessage`, prune; `doAdd`, `doUpdate`, `doRemove` | `Notes` |
| Configuration, `internal/config` | files of two layers, the loaded settings | `Load`, `merge`, `applyEnvOverrides`, `SavePreference` | `Settings` |
| `cmd/gclaw/main.go` | wiring | start, slash commands | the commands are actions of the module they act on |
| MCP clients, permissions, tool registry, gateway, browser, search, images, speech | see section 6 | | not modelled |

### 1.2 How they interact

There are several instances of the agent, and what races with what follows from
who holds which:

- the *main agent* (`main.go:265`, with a context manager) is submitted to by
  the autonomous scheduler, streamed by the terminal (`RunStreaming`), and
  cleared, compacted and interrupted by commands;
- the *weixin agent* (`main.go:301`, no context manager) is used by the poll
  loops, which ask `IsBusy` and submit;
- the *cron agent* (`main.go:342`, no context manager) is used by the goroutines
  of `executeJob` and by `RunNow`, called by `/cron run` and the tool `cron_run`;
- each delegated job gets a *fresh agent* (`main.go:415`), which calls `Run`
  directly and has the whole tool registry, `delegate_task` included.

Calls go down (terminal, schedulers and channels call the agent; the agent calls
the model and its tools; tools call the dispatcher, the cron scheduler, the
sleeper, the task manager, the checkpoint manager). Back up come results,
interrupts (`interruptCh`), sleep requests (`sleepCh`), events (the bus) and the
messages to the terminal's loop (`p.Send`, which blocks until the loop takes
them). The shared state that is not behind a lock is `a.messages` and
`a.turnCount`; on disk it is the project's files, the memory files, the skill
directories and the configuration, which tools, passes and people change without
asking each other.

### 1.3 What is hard

- Two goroutines on one agent: `busy` covers `Submit` and not `RunStreaming`;
  `Reset` may come at any moment of a run.
- Check-then-act: `IsBusy` before `Submit`, `Interrupt` or `executeJob`;
  `CanStart` before `run`; the status before `SetStatus`; `Stat` before a read;
  the turn counter, tested and then incremented without a lock.
- Compaction against the well-formedness of the prompt: calls and results,
  interrupts drained in the turn that compacts, a manager that is one sync behind.
- Semaphores: tokens given back on each path, workers that wait for a second
  token while they hold one (tasks), jobs that do so inside their run (delegation).
- Stop and cancel: who is waited for, what still runs afterwards, what is closed;
  in the terminal, the run that Ctrl-C left and that still sends; in the channel,
  a loop that outlives its Stop and finds a fresh context.
- Time: a sleep that is woken by an old signal, due jobs, timeouts that break a
  circular wait, keys that rest, buckets that refill; local time where clocks are
  changed, file times that do not change with the file.
- Two computations of one thing: the cursor's row and the rows drawn, the text
  copied and the text highlighted, the counter of messages and the messages.
- Several steps of which one fails: git commands, the writing of a file, the end
  of a stream.

The complete list, line by line, is `hazards` in `PROJECT.json`. What makes each
part correct is stated by the properties of section 3.

## 2. Modules

Each component module has its state as VARIABLES, an action for each operation or
for each step between two points where another goroutine can interfere, and its
properties. `MC…` modules name the values of a small instance, `…Proofs` modules
hold theorems. Definitions called *Variant* are plausible mistakes: each
property is known to fail for one of them.

- **ContextManager** has no state. It defines the record of
  `context.Manager`, the token count (`tokenCountLocked`: the API's number if
  there is one), `Truncated` and `Summarised` with the anti-thrashing rule, and
  the results `Compact` may have. A message is its role, the number of its tool
  calls and the interrupts in it.
- **AgentLoop** extends it: one agent, submitters that call `Submit`, streamers
  that call `RunStreaming`, and a user. A run is the sequence `Begin`, then per
  turn `StartTurn` (turn limit and context), `LoadTurnCount` and `CountTurn` (the two
  halves of an increment without a lock, and the drained interrupts), `CheckContext`,
  `Compact`, `ReadBack`, `CallModel`, `ModelReply` or `ModelError`,
  `ExecuteTool` for each call, and `EndLoop`; `Release` is the deferred function
  of `Submit`. Streaming is abstracted to the reply it adds up to. Two runs that
  append at once lose one append (`AppendMessages`).
- **SharedAgent** is the abstract specification of that agent as others see it: of
  those that `Submit` one is inside at a time, which is what `IsBusy` tells, and
  interrupts wait in a channel of limited capacity until they are taken out
  together. AgentLoop implements it (`AgentIsShared`), and Autonomous and Cron, which
  know the agent by its interface alone, take no more of it than that (`AgentUsed`).
- **Autonomous** has the bus with its bounded channel, ticker, loop, sleeper and
  `Stop`; it sees the agent through its interface (who holds `busy`, how many
  interrupts wait; `DrainInterrupts` is a run's next turn or a `/clear`). The `fate` of each external event is a history variable.
- **TaskManager** has each lock held for one read or write, as in the code:
  between a check and the write that depends on it others move.
- **Cron** has the loop, the goroutines of `executeJob`, `RunNow` and the
  commands over minutes of a small calendar. `nextRun` is the recursive
  function inside `NextRun`, with the code's jumps over months, days and hours
  (`Jump`). The calendar is local: a `Zone`, an hour more in the hours of `Summer`,
  and `time.Date` as Go looks up the offset (`Date`), which for an hour that clocks
  are put forward over gives the next one or, in the west, the one before. A search
  that does not go forward there never ends, and holds up whoever is in it
  (`stuck`, `"search"`, `Locked`).
- **Dispatch** is the abstract specification of delegation: jobs execute at most
  `Limit` at a time and each at most once, and a call is answered when each of
  its jobs has an outcome. **Delegate** is the code: tokens, contexts with their
  descent, timeouts, the order of the deferred calls, nested calls. It refines
  `Dispatch` under the mapping `Stage`, `Answers` (`Promise` in `Delegate`).

- **Terminal** has the event loop, the runs it starts and the run of the
  scheduler on the same agent, each as what it is waiting to have taken
  (`p.Send`), and `/exit`, which waits for the scheduler inside the loop.
- **Editor** has what the keys do to the composer, the history and the
  completions, and two computations side by side: the rows that `View` draws below
  the transcript (`RowsBelow`) and the row `computeCursorPos` puts the cursor in
  (`CursorRow`).
- **Screen** has the transcript with its window, folding, and the selection: the
  runes of the view that are highlighted and those that are copied. A rune is its
  width.
- **Weixin** has Start's goroutine and the terminal's commands, which may each be
  in a login, any number of poll loops (one for each login that connects), and the
  goroutines that save the user. The server is external: for each token a sequence
  of messages.
- **Models** has the keys of the pools, the choice of a model at the start and by
  `/model`, the router's chain and its token buckets, under one clock. What a call
  still tries are places in the order of names, of which the first is next.
- **Streams** is the way of tool calls from the fragments on the wire, per
  provider, through the event channel and the agent's loop to the tools, the
  replies that come whole (`Call`, which submitted runs use), and what each
  provider's request says of the history.
- **Workspace** has agents that read, write and patch one file, each step between
  two of which another agent can move, the read tracker, and the checkpoint
  manager over a repository whose every command may fail. A change may give the file
  any modification time, the one it has included, and `os.WriteFile` changes it
  twice (`Truncate`, `Fill`).
- **Skills** has the skills of the project, the user and the agent, the archive,
  the manager's map, and curator passes which age and archive one skill at a time.
- **Notes** has three small stores: memory files, the session database under
  several processes, the todo list.
- **Settings** has the files of two layers over several starts of the program:
  `Load`, the commands that save a preference, the two steps of `os.WriteFile`,
  a kill between them, and changes by hand. Beside its settings a file has sections
  that are bare (a key with nothing under it, which `Load` takes for an empty one),
  and may be of another shape than `Load` reads.

**MCAgentLoop** has agents of two kinds, one of which a behaviour explores: those
that are only submitted to (cron's, weixin's), with one interrupt at most and no
`/compact`, and those that one goroutine streams from, with all the user's commands.
The main agent is of both kinds at once, and `AgentBusyFlag` is about it.

**MCComponents** explores the last ten but for Workspace, which has runs of its own,
together with the variable `part`: a
behaviour lets one part move and the others rest in their initial states. They
share no variable, so an interleaving of two of them adds nothing: what a
property that speaks of one part can see is what that part does alone.

No module uses a RECURSIVE operator, so that each can be proved about.

## 3. Runs

| Run | Instance | What it shows |
|---|---|---|
| `Agent` | two submitters or one streamer, a compaction that summarises, may fail and then truncates, interrupts, Ctrl-C, `/clear`, `/compact`, two turns | `AgentIsShared`: the agent implements `SharedAgent`, so `busy` is up exactly during a submitted run, and such runs do not overlap. `CallsAnswered`: in each prompt every tool call is followed by its results. `ResultsHaveCalls`: a tool result has its call, unless the cut or a `/clear` took it. `InterruptsAccounted`: no accepted interrupt disappears. `CompactionKeepsEnds`: compaction loses neither the first message nor the newest. `CallsWithinTurns`: a prompt costs at most `max_turns` calls of the model, whatever the run before it left in the counter. `AgentReleased`: each run ends, and gives the agent back |
| `AgentBusyFlag` | one submitter, one streamer | violation of `BusyCoversRuns` (`agent.go:384`) |
| `Tasks` | two blockers and a dependent, two clients, two workers, two tokens, each task started up to twice | `SlotsHeld`, `RunningHasWorker`, `NoLostWakeup`: two blockers that end together do not both leave the dependent alone |
| `TasksFinish` | one blocker and a dependent, retries, a kill | `WorkersFinish` |
| `Autonomous` | a user event, a blank one, a tick, a queue of two | `QuietAfterStop`, `HandledOnce`, `EventsTaken`, `StopTerminates` |
| `AutonomousSleep` | one event | violation of `SleepLasts` (`sleep.go:20`) |
| `Cron` | two jobs, two executing goroutines, one caller | `NextIsNearest`: the jumping search finds the first scheduled minute, also over hours that are left out or come twice. `DueJobsRun`, `NoLaunchAfterStop`, `StopDrains` |
| `CronClockChange` | one job, daily in an hour that is left out, west of UTC | violation of `SearchEnds` (`parser.go:234`) |
| `Delegate` | one agent, three calls, four jobs, batches of two, two tokens | `SlotsHeld`, `OrphansCancelled`, `RegisteredJobs`, `CallsReturn`, `DispatchImplemented` |
| `Components` | the nine modules of `MCComponents`, one part at a time | the table below |
| `Workspace` | two agents, three uses of the tools, a change of each kind, three file times | `UnchangedIsTrue`: the tracker says unchanged only of a content that the file held since this call's `Stat`, unless the time it has was given to the file more than once. `SnapshotsAccounted`: a tool edits without a snapshot of its own only where this turn's was taken, is being taken by another agent, or failed |
| `SameTick` | as `Workspace` | violation of `UnchangedIsAlwaysTrue`, the same without the exception (`read.go:71`) |

| Property of `Components` | Module | What it says |
|---|---|---|
| `CancelReachesRun` | Terminal | busy, the cancel function and the newest run agree: Ctrl-C never cancels an older run or one that is over, and until it is first pressed it reaches every run |
| `ShownToolsRun` | Terminal | no more tools are shown running than run, whatever overlaps or is cleared |
| `BusyEnds` | Terminal | a busy terminal gets free, unless it is in `/exit` |
| `CursorShown` | Editor | the cursor is in the text, in the row that shows its line, and the chosen completion is shown |
| `WindowInTranscript` | Screen | the window that `Render` cuts out lies in the transcript, but after folding above it (section 5) |
| `CopiedIsHighlighted` | Screen | what is copied is what is highlighted |
| `PollsAlone` | Weixin | a settled channel that is not connected does not poll, and no message is answered twice, unless a command raced with Start's login |
| `StopEnds` | Weixin | login and logout come through the stop, with the same exception |
| `RotationServes` | Models | a healthy key is never passed over `NumKeys` times |
| `WithinRate` | Models | no model gets more calls through than a full bucket and the time since it was made pay for |
| `RunsOwnArguments` | Streams | a tool runs with its own call's arguments, whole, or with none, and once |
| `SkillsKept` | Skills | what an agent wrote is in its directory or in the archive until deleted or rewritten |
| `CountsMessages` | Notes | a session's counter is the number of its messages, but for statements to come or refused |
| `PreferenceKept` | Settings | a preference that was written, and that nobody changed there, is found at each later start, unless its section in the file is bare |

Proved for all values of the constants (section 4), and therefore checked by no run:
the type invariants of all modules, `SubmitExclusive` of AgentLoop, which
`AgentIsShared` contains, and the `AgentUsed` of Autonomous and Cron.

### Bounds

Unbounded behaviour is cut by constants named as bounds in the modules (prompts,
interrupts, clears, calls, starts, ticks, minutes, jobs). They are chosen so that
the interesting case happens, which the mutants confirm:

- *Agent.* Two turns and two calls a reply give a history that is compacted with
  calls pending and a second turn that reads it back; the thresholds
  (`CompactAt`, `KeepRecent`) are small, where the code has tens of thousands of
  tokens and 20 messages, so that compaction happens within them. An interrupt
  channel of one is full at the second interrupt. Two prompts are needed for a
  run to meet the leftovers of the one before.
- *Tasks.* `NoLostWakeup` needs two blockers and a dependent, and a kill. Two
  workers with two tokens let both blockers end at once and find the dependent
  together; a second start of a task shows what the property's hypotheses leave out.
  Retries are in `TasksFinish`.
- *Autonomous.* A queue of two is filled by two events and a tick.
- *Cron.* The calendar has two of everything, so each jump crosses a boundary.
  The search of one year stands to the yearly job as 4·365 days stand to the
  29th of February. In one assignment of schedules both jobs are due in minute
  2, in the other their days and months are jumped to. Within the first four days
  clocks go forward and back once each: the one hour that is left out is one
  that a job is to run in, and the one that comes twice begins a day a job waits for.
- *Delegate.* With two tokens, a batch of two whose jobs both delegate is the
  smallest circular wait; four jobs and three calls allow it.
- *Components.* Two prompts let a late end meet the next run; a scheduled run
  gives `/exit` something to wait for. `ComposerLines` is the code's 5 with texts
  of up to six lines, so that the composer scrolls; `CompLines` is 2 where the code
  has 8 and the lists have 1 or 3, below and above it. Screens of one or two lines
  show less than the transcript has, in runes of width one and two. Two logins and
  two commands allow each to overtake the other; one message is enough to be
  answered twice. Of three keys two can be resting while the third is asked for.
  Two calls of two fragments can be interleaved and cut off. Two passes overlap with
  two creations of one name. Two starts, two saves and a change by hand make a
  save, a shadowing layer and a restart, and a save into a bare section.
- *Workspace.* Two agents and three uses let both halves of a write come between the
  Stat, the read and the record of another, and a read follow. Of three times the
  file can be given a later, an earlier and the same one. A snapshot over a limit of
  one is pruned; a second turn lets an agent commit in a turn that is over.

### Fairness

Nobody is obliged to use the system: prompts, commands, events, delegations and
`Stop` are never fair. Fair is what the Go runtime, the timeouts and an outside that
answers bring about:

- a goroutine that can move does (weak fairness of its step). The run of a cron job
  and a job of the dispatcher end with their contexts, which have timeouts. A request
  to a model has none: the providers use a bare `&http.Client{}`, so that a prompt
  of the terminal, the autonomous scheduler, the channel or `RunNow` ends because the
  server is assumed to answer, if only with an error. A script is killed at its
  timeout, and assumed to leave no process behind that keeps its output open
  (`exec.CommandContext` without `WaitDelay` waits for that, `cron.go:272`); a tool
  is assumed to end;
- `select` picks at random among the ready cases, so a case that is ready again
  and again is taken (strong fairness of `TakeEvent` and `Finish` in
  `Autonomous`, `LoopDone` in `Cron`);
- the terminal's loop takes the message that is offered, a model call and a tool
  of a run end (strong fairness where Ctrl-C and the loop compete for the run), a
  poll of the channel times out and its agent returns (`TerminalFairness`,
  `WeixinFairness`; in a behaviour of `Components` in which the terminal or the
  channel does not move, its actions are never enabled, so that these formulas ask
  nothing);
- a channel serves its waiting senders in order, so one that waits for a token
  gets one if tokens come back again and again (strong fairness of `Acquire`).

Time is not fair in `Cron`; `DueJobsRun` says that a job that is due is taken up
at the present minute. An agent that is busy at each and every look of the loop
would delay a job for ever; the bounds leave out that schedule, as each run ends
and calls are counted.

## 4. Theorems

All are proved by TLAPS for any values of the constants that satisfy the named
assumptions of the modules (`AgentAssumption`, `ContextAssumption`,
`TaskAssumption`, `AutonomousAssumption`, `CronAssumption`, `DelegateAssumption`,
`ModelsAssumption`, `WeixinAssumption`, `StreamsAssumption`, `WorkspaceAssumption`,
`SettingsAssumption`, `NoWriteAssumption`, `SkillsAssumption`, `NotesAssumption`,
`TerminalAssumption`, `EditorAssumption`, `ScreenAssumption`). They say that bounds
are numbers, that sets of goroutines and tasks whose members are counted, and the
heights a screen may have, are finite, and that a value for "none" is not one of the others; TLC evaluates each of them.
What a behaviour does is in the specification alone, but for one hypothesis about
the agent and one about the zone of `Cron`, which are named below. The lemmas about a part stand before its theorems.

- **AgentLoopProofs**: `AgentTypeCorrect`, `AgentSubmitExclusive`. The inductive
  invariant `IndInv` is `TypeOK`, `ToolsLeft` (a run that executes tools has calls
  left, or `todo` would leave its type), `UserSends` (the user's second half of
  `/interrupt` only with an interrupt to spare), `ReleaseOwner` (only submitters
  come to the release of `busy`) and `SubmitExclusive` itself. Compaction is
  dealt with by lemmas on the operators of `ContextManager`.

  The shape of the prompt is proved of every behaviour in which the agent has one
  run at a time (`Spec /\ []OneRun => ...`): two runs share the history and the
  manager, and their messages then really do get between a call and its results.
  `AgentOneRun` proves that hypothesis (`OneAtATime`) of the agents that are only
  submitted to (cron's, weixin's), whatever the number of submitters, and of those
  that one goroutine streams (a delegate's); the agents of the run `Agent` are such. Of the terminal's agent, which is both streamed and submitted to by the
  scheduler, it remains a hypothesis: `AgentBusyFlag` shows that it can fail.
  `AgentInterruptsAccounted` adds `NewestUnseen` (only the newest message, which
  compaction keeps, can have interrupts the model has not seen; and what the history
  has while a run waits for compaction, the manager's copy has too). `AgentCallsAnswered` adds that a
  run owes exactly the results that are missing at the end of the history
  (`TurnsOwe`), and `AgentResultsHaveCalls` that a result has its call or a reason
  for lacking it (`ResultsFounded`); both follow `Truncated` and `Summarised`
  through the cut. `AgentCompactionKeepsEnds` adds `PushedEnds`, about the manager
  between the push and the reading back. `AgentCallsWithinTurns` (`TurnsCounted`): a
  run has asked the model at most as often as the counter says, and between the test
  and the increment it has counted one turn less than it may. That the run is the only one is needed
  here too: two runs that overlap test, overwrite and reset each other's count, and pass
  the limit (section 5). `AgentTypeCorrect` therefore has no bound on it. `AgentImplementsShared`: who has entered
  `Submit` and not returned are those inside, by `SubmitExclusive` one at most; an
  interrupt that is sent or drained is one of `SharedAgent`'s, every other step of a
  run a stutter.
- **TaskManagerProofs**: `TaskTypeCorrect`, `TaskSlotsHeld`,
  `TaskRunningHasWorker`. That `sem` stays a natural number needs the count of
  those who hold tokens, and that only tasks are run needs `HasTarget`; the three
  are inductive together. `TaskNoLostWakeup` follows a wake-up through six steps
  that hold no common lock: `RefusedPending` (what waits is seen as pending),
  `RunOnce` (a blocker started alone is executed by nobody else), `SuccessMarked`
  (its success is visible once written, for good) and `WakeupToCome` (as long as a
  dependent waits for blockers that all succeeded, a worker still has to look at it:
  the last one to write completed finds the others completed).
- **AutonomousProofs**: `AutonomousTypeCorrect`, `AutonomousQuietAfterStop`, with
  `OwnerRuns` (when the loop owns the agent it is in a run), and
  `AutonomousHandledOnce`, an action property, with `QueuedOnce` and `EventTaken` (the
  event at hand came from the queue, where it stood once). `AutonomousUsesAgent`: the
  agent of this module, seen through who owns it and what waits in its channel, is
  one of `SharedAgent`'s.
- **CronProofs**: `CronNoLaunchAfterStop`, an action property, from `StopInv`: a
  pass is in progress only in a running loop, and Stop has waited for the loop.
  `CronTypeCorrect`: the type invariant, with the jobs that goroutines hold.
  `CronNextIsNearest` and `CronSearchEnds` hold in a zone at UTC, east of it, or
  without changes of the clock (`ForwardInTheEast`, their hypothesis). There `time.Date`
  gives the local hour that was asked for or, for one that is left out, the next
  (`Dates`), so a jump goes forward, over minutes of the same month, day or hour, which
  do not match, and at most the first pass of an hour that comes twice (`HourJumps`,
  `JumpKeeps`), which `NextIsNearest` excepts. Each step of the recursive function then goes to at most
  the first match (`SearchSteps`), so the search finds that one, or nothing when none
  comes before the deadline (`SearchFinds`). That the function exists at all is a lemma
  too (`SearchExists`). Without the hypothesis, `JumpStands`: a jump that does not go
  forward lands on a minute that is not scheduled, and whose own jump leads to itself, so that the
  code, once there, goes on for ever, which `CronClockChange` shows to happen.
  `CronUsesAgent` is the theorem about `SharedAgent` for the jobs.
- **DelegateProofs**: `DelegateTypeCorrect`, `DelegateSlotsHeld`,
  `DelegateOrphansCancelled`, `DelegateRegisteredJobs`, and
  `DelegateImplementsDispatch`, the refinement. The inductive invariant adds
  `OwnersCalled` (a job belongs to a call exactly when it was asked for, and the call
  was made), `LateJobsCancelled` (also of jobs that wait) and `ResultsWhenDone`; for
  the table, that only jobs of a batch announce themselves. Each action then maps
  to one of `Dispatch` or to a stutter.
- **ServicesProofs** (Models, Weixin, Streams): `RateLimited` (`WithinRate`). The
  invariant says what the limit rests on: calls let through, tokens left and the time
  a bucket was made never exceed its size and its last refill. `KeysRotate`
  (`RotationServes`): what a healthy key has waited and the distance from the index
  to it, once around the pool, are together less than the number of keys
  (`RotationInv`); an exhausted key that is skipped shortens the distance by at
  least as much as the wait grows. `WeixinPollsAlone`: as long as nothing raced
  with Start's login, one of Start and the commands is at work, and while it waits
  no loop lives (`LoopsAlone`); a message is answered by the one loop that fetched
  it, whose buffer is past it (`Answers`). `StreamsRunOwnArguments`: a call is in
  one place only on its way (`Apart`, `EachOnce`), and carries fragments of its own
  arguments. `WeixinTypeCorrect`, `ModelsTypeCorrect` and `StreamsTypeCorrect`: that a
  message is answered once by each loop at most (`AnsweredByLoops`) is what bounds
  `answers`, where the code has no bound of its own.
- **ComponentsProofs**, on disk (Workspace, Settings, Skills, Notes): `WorkspaceUnchanged`
  from `ReadInv`. A time that is in use was given to the file (`TimesGiven`); the one it
  shows, if given once, stands for the content it has (`OneContent`); and what a reader
  who waits for the tracker allows for has in it what any other reader or the entry found under
  the same time, given once (`Allowed`). Times may repeat and go back, and `SameTick`
  shows that "given once" is needed. `WorkspaceSnapshots`: the agent that marks the
  project is at `stage` or `commit` until git has succeeded or failed. `PreferencesKept`, an
  action property about two moments, a save and a later start. `SettingsInv` says
  what is between them: a file that is read has the preferences saved in it, or has
  their section bare; the one being written is about to have them, all but the setting
  being saved, which counts from the end of the write. `SkillsTypeCorrect` and `SkillsKeptOnDisk`: what each
  method does to the map and to the two directories, under the manager's lock.
  `SessionsCounted`: for each session, its counter, the turns whose count is to come
  and the counts refused add up to its rows (`Balanced`), since a process keeps its
  session (`OneSession`). `WorkspaceTypeCorrect`, `SettingsTypeCorrect`,
  `NotesTypeCorrect`: the last needs that the ids of the todo list grow along it, also
  when an item is taken out of the middle.
- **ComponentsProofs**, all parts: a step of `MCComponents` is a step of each part or
  leaves it alone (`PartsStep`), so that its specification implies that of each of the
  nine (`PartsImplemented`). Hence `ComponentsTypeCorrect`, all their type
  invariants (`TypeOK`), and `ComponentsSafe`, the invariants of the run and `PreferenceKept`, for the
  specification that TLC explores.
- **TerminalProofs** (Terminal, Editor, Screen): `TerminalTypeCorrect`,
  `TerminalCancelReaches` and `TerminalShownTools`, from `OfferFits` (what a run
  offers the loop fits what it is doing) and `NotStarted`. `ScreenWindow`: the offset
  stays within the lines of the transcript unless it was folded while scrolled;
  appending, folding at the bottom and resizing each keep it there. `ScreenCopies`:
  runes begin in columns further and further right (`ColumnsGrow`), so those found by
  their columns, which are highlighted, are those found by searching for the place,
  which are copied (`SameRunes`); this holds of any text and any two places
  (`SameSelected`), hence also when the transcript moves under a selection. `EditorCursor`: after any
  keys the composer's cursor is in its text (`InText`), so that the row computed for
  the cursor is the one drawn. `EditorTypeCorrect`: each key leaves a text that fits
  (`EntryStep`) and a place in the history (`HistoryStep`). `ScreenTypeCorrect`: a row
  past the view is pulled back to one before it, so the selection stays on the screen
  (`ClampedOnScreen`).

Some proofs need an induction over numbers, which the library's theorems offer only
with an operator for a parameter. It is stated over a set instead: a nonempty set
of numbers up to `n` has a greatest or a least one (`GreatestOfFinite`,
`GreatestNumber`, `LeastNumber`), because of its intervals ordered by strict inclusion one is
minimal (`WFMin`); so a set that holds 0, and `i + 1` with each `i`, holds all
(`UpTo`). `ScreenWindow` uses it for the lines of the first messages of a transcript,
`KeysRotate`, `WeixinPollsAlone` and `ScreenCopies` the least number of a set for the
key found first, the message fetched first and the rune a column falls in, and
`CronNextIsNearest` the greatest for the moments from which the search is right. The
widths of a row are folded in an order that is left open; that any order gives the
same sum (`SumIsWidth`) is shown with a smallest set of places of which it would not.

Model-checked only: every liveness property (fairness and ENABLED are outside the
prover). Every invariant and every action property that a passing run checks is
proved, and so is each refinement. A property that a run expects to be
violated is not a theorem.

## 5. Where code and documents disagree

With a violation run (the entries of `findings`): the busy flag and streamed runs,
the sleep, the search for the next run of a job where clocks are put forward, and file
times that do not change with the file. Met while modelling, without a run of their
own:

- **Agent.** The turn limit is tested (`agent.go:132`, `212`) and the turn counted
  (`139`, `219`) in a field that no lock covers and each run resets (`130`, `210`): a
  streamed and a submitted run that overlap overwrite each other's count, and a prompt
  gets more calls than `max_turns` (`.gclaw/config_example.yaml:100`: the greatest
  number of rounds for one response). `AgentLoop` has this, and with a submitter and
  a streamer `CallsWithinTurns` fails in it. An interrupt sent as a run ends stays in the channel and opens the
  next run (`docs/USER_GUIDE.md:766` speaks of the current one). The summary is
  never handed to the next compaction, since each sync resets the manager, which
  also keeps the anti-thrashing rule from ever acting on two compactions of a run
  (`docs/USER_GUIDE.md:735`). A history over the threshold is not compacted until
  the API has reported tokens (`docs/ARCHITECTURE.md:151`). `/compact` compacts
  the manager's copy, which the next sync overwrites (`README.md:143`). `/clear`
  during a run leaves the reply, or tool results, as the first message
  (`agent.go:87`). The manager keeps 20 recent messages, not 10
  (`docs/USER_GUIDE.md:730`).
- **Tasks.** A killed task is overwritten by its worker's completed or failed, and
  `Start` runs a task again that has ended, although `task.go:32` calls these
  statuses terminal. A blocker that fails or is killed lets its dependents be started,
  but never starts them (`manager.go:117`, `137`). A refused `Start` writes
  pending late (`manager.go:80`). In a chain of three tasks, or when a task is
  started a second time, this loses a wake-up: a blocker is set back to pending
  after it completed, or a dependent that failed before is passed over while
  `Start` sets it back. So `NoLostWakeup` speaks of tasks started once whose
  blockers have no blockers and were started once. A
  dependent can be executed twice (`manager.go:246`). Workers that each hold a
  token and wait for another for a dependent deadlock when there are no more
  (`manager.go:89`, `249`), which is why `TasksFinish` has a token to spare. The
  executors map is read without its lock (`manager.go:71`, `247`), which matters
  only if an executor is registered late.
- **Autonomous.** Events do not wake a sleeping loop (`scheduler.go:206`). An
  event that loses the agent between `IsBusy` and `Submit` is dropped
  (`scheduler.go:133`, against `docs/ARCHITECTURE.md:146`); one that finds the
  queue full too (`events.go:93`). `Stop` may wait for a sleep of up to an hour.
- **Cron.** Two goroutines reset the cron agent and then submit to it, so one run
  can begin in the history of the other (`cron.go:317`, against
  `docs/ARCHITECTURE.md:565`). A job whose script still runs is due again at each look, and is
  started again every second (`cron.go:330`): the model allows it with its two
  goroutines. `docs/USER_GUIDE.md:588` says that a trigger is skipped when the
  agent is busy; the code delays it, since the next run stays where it is
  (`cron.go:221`). 4·365 days are less than four years: a job on the 29th of
  February is never due again after it has run (`parser.go:221`). Day of month
  and day of week must both match, where cron usually asks for one of them. Of an
  hour that comes twice the first pass may be jumped over, the exception in
  `NextIsNearest`.
  `PauseJob` and `ResumeJob` write a job under another lock than `executeJob`;
  the model orders the two writes.
- **Delegation.** Workers can delegate further, although the tool says that they
  cannot (`internal/tool/builtin/meta/meta_tools.go:32`,
  `docs/ARCHITECTURE.md:395`): `blockedTools` is never read and the depth passed
  is always 1. A circular wait for tokens ends by timeouts only.
- **Terminal.** The late response of a run that Ctrl-C left frees the terminal and
  takes the cancel function of the next one (`app.go:301`): the second run can then
  not be cancelled. `/exit` waits for the scheduler inside `Update`, and deadlocks
  when the scheduled run has something to send (`main.go:1111`); the history of
  prompts is not saved on this way out (`main.go:693`). Completions stay active
  after a paste, so Tab replaces pasted text; Ctrl with a letter types the letter
  (`app.go:786`); a streamed answer is shown twice (`app.go:307`); a transcript
  that is scrolled up and then folded makes `Render` slice behind its end
  (`transcript.go:142`), which is the exception in `WindowInTranscript`.
- **Weixin.** Two poll loops after a `/weixin login` that races with Start's login;
  a loop started in between has a context that nobody cancels, so that the command
  waits for ever (`weixin.go:255`, `330`): the exceptions in `PollsAlone` and
  `StopEnds`. A message that finds the agent busy is dropped, although the user
  guide says that it is queued. The goroutine that saves the user can write the
  account file back after a logout (`docs/USER_GUIDE.md:613`). `Send` uses the
  context token of whoever wrote last (`weixin.go:280`).
- **Models.** A pool is kept per model name, although its keys are the provider's,
  so two models of one provider do not see each other's exhausted keys. With a base
  URL an exhausted pool gives a client with an empty key. The router, with its
  fallback, and `MarkExhausted` are used by tests only. When every model is rate
  limited the router's error wraps nothing (`router.go:146`). A fallback at the
  start leaves the configured default in `cfg`.
- **Streams.** Claude's stream drops the fragments of a call's input
  (`internal/model/claude/claude.go:354`, `_ = event.Delta.PartialJSON`; the comment two lines above says that
  the input is assembled from them), so a streamed call runs without arguments: the
  "or with none" of `RunsOwnArguments`. OpenAI's `[DONE]` without a usage chunk drops every tool call, and
  the request does not ask for usage. Streamed arguments are parsed in the last step
  before the tool (`agent.go:456`), after permissions were checked on the raw
  input. Claude's and Ollama's requests drop the assistant's tool calls but keep
  the results.
- **Workspace.** The project is marked before git has run (`manager.go:66`): other
  agents edit meanwhile, and when git fails, an error the tools ignore, the later edits
  of the turn have no snapshot, although one is created "if one hasn't been created
  this turn" (`manager.go:51`): the "failed" of `SnapshotsAccounted`. Over the limit `pruneOldest` replaces all
  earlier snapshots by one of the present state (`manager.go:201`), where `max_snapshots`
  suggests that the newest are kept. Nobody calls `NewTurn` or
  `Restore`, so the program takes one snapshot of a project. A patch reads and
  writes without a lock. `code_execute` does not give its timeout to the command.
- **Skills.** `LoadAll` makes a new map (`skill/manager.go:37`), and `main.go` calls it
  (212) after `LoadProject` (200): the project's skills are gone before the first
  prompt, against `docs/USER_GUIDE.md:398`, which names project, user, agent as the
  order. "[stale] " is written without quotes, which is not YAML: the skill is
  not loaded at the next start, and a restored one is archived again because its
  directory keeps its age. The curator's prompt says that `skill_delete` archives
  (`curator.go:248`); it removes, also what is pinned. A pause between the load and
  the save of a pass is lost (`curator.go:182`).
- **Memory and sessions.** The terminal has an agent of its own (`app.go:991`), so
  `OnSubmit`, the only place where memories are recalled and turns stored, is never
  called (`README.md:50`, `docs/USER_GUIDE.md:483`). A memory without front matter
  is loaded with an empty content. Pruned sessions leave their messages, since
  foreign keys are not enabled.
- **Configuration.** Where the section of a preference is in the file with nothing
  under it (`model:`), which `Load` accepts, `SavePreference` writes `default` or
  `theme` beside it, at the top level (`config.go:656`), and the next start does not
  find it: the exception in `PreferenceKept`. `merge` leaves out `agent.idle_sleep`, `agent.browser_enabled`
  (the browser can never be switched on), `context.reserve_ratio`, `tools`,
  `websearch`, `tui.history` and others (`docs/ARCHITECTURE.md:495` says that it
  merges all sections). A boolean can only be turned on. `SavePreference` over a
  file that does not parse drops everything else (`config.go:624`: existing
  settings are preserved), one of another shape stays unreadable, and a kill between the truncation and the write leaves
  an empty file. A saved model is shadowed by `GCLAW_MODEL`.
- **Permissions.** `matchRules` looks at whichever string parameter the map yields
  first; the verdict ask is allowed silently in the default mode.

## 6. What is not modelled, and why

- **MCP clients**: `main.go:491` adds the servers and never connects them; no step
  of the program reaches the transports.
- **Permissions, tool registry, normalisation**: sequential functions without state.
  Their verdicts are the outcomes denied and unknown in `AgentLoop`.
- **Gateway**: not wired in `main.go`. **Browser, search, images, speech, web and
  code tools**: calls of the host or the net without state of their own; a tool
  call is one step with an outcome.
- The text of prompts, outputs, logs and messages; wrapping, Markdown, themes and
  the status bar; usage counters, costs and statistics (no step depends on them);
  the providers' HTTP; SQL search and migrations.
- Executors of tasks are stubs in the repository, so an execution is one step with
  an outcome. Calendar time in `Cron` leaves out leap days, and has zones of
  whole hours whose clocks are changed by one hour, on the hour.

## 7. Plan

Done, in this order of importance: AgentLoop with ContextManager, TaskManager,
Autonomous, Cron, Delegate with Dispatch; then Terminal with Editor and Screen,
Weixin, Models, Streams, Workspace, Skills, Notes, Settings.

What could come next:

1. **Abstract specifications**: a bounded pool that TaskManager refines, as Delegate
   refines Dispatch.
2. **Composition**: Terminal with AgentLoop, so that `Interrupted` runs are the
   agent's; Autonomous with the terminal's `/exit`.
