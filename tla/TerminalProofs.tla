---------------------------- MODULE TerminalProofs ----------------------------
(***************************************************************************)
(* Proofs about the terminal's three parts: the event loop, for any number *)
(* of prompts, queued commands and tool calls and any set of tools; the    *)
(* transcript, for any messages, outputs and heights; and the composer,    *)
(* for texts and windows of any size.                                      *)
(***************************************************************************)
EXTENDS Terminal, Editor, Screen, FiniteSetTheorems, SequenceTheorems, WellFoundedInduction,
        TLAPS

(***************************************************************************)
(* A finite set of numbers has a greatest one: those of its numbers that   *)
(* are not below it are the smallest such set.                             *)
(***************************************************************************)
LEMMA GreatestOfFinite ==
    ASSUME NEW T \in SUBSET Nat, IsFiniteSet(T), T # {}
    PROVE  Max(T) \in T /\ \A y \in T : Max(T) >= y
  <1> DEFINE from(i) == {j \in T : j >= i}
             above == {from(i) : i \in T}
  <1>1. above \subseteq FiniteSubsetsOf(T) /\ above # {}
    <2>1. ASSUME NEW i \in T
          PROVE  from(i) \in SUBSET T /\ IsFiniteSet(from(i))
      BY FS_Subset
    <2> QED
      BY <2>1 DEF FiniteSubsetsOf
  <1>2. PICK s \in above : \A t \in above : <<t, s>> \notin StrictSubsetOrdering(T)
    BY <1>1, FS_StrictSubsetOrderingWellFounded, WFMin, Zenon
  <1>3. PICK x \in T : s = from(x)
    OBVIOUS
  <1>4. ASSUME NEW y \in T, ~(x >= y)
        PROVE  FALSE
    <2>1. from(y) \in above /\ from(y) \in SUBSET T /\ s \in SUBSET T
      BY <1>3
    <2>2. from(y) \subseteq s /\ from(y) # s
      <3>1. x \in s /\ x \notin from(y)
        BY <1>3, <1>4
      <3>2. \A j \in T : j >= y => j >= x
        BY <1>4
      <3>3. from(y) \subseteq from(x)
        BY <3>2
      <3> QED
        BY <1>3, <3>1, <3>3
    <2> QED
      BY <1>2, <2>1, <2>2 DEF StrictSubsetOrdering
  <1> QED
    BY <1>4 DEF Max

(***************************************************************************)
(* A nonempty set of numbers up to n has a greatest one.                   *)
(***************************************************************************)
LEMMA GreatestNumber ==
    ASSUME NEW n \in Nat, NEW T \in SUBSET (0..n), T # {}
    PROVE  \E x \in T : \A y \in T : x >= y
  <1>1. 0 \in Int /\ n \in Int
    OBVIOUS
  <1>2. IsFiniteSet(0 .. n)
    BY <1>1, FS_Interval
  <1>3. IsFiniteSet(T) /\ T \in SUBSET Nat
    <2>1. T \in SUBSET Nat
      OBVIOUS
    <2>2. IsFiniteSet(T)
      BY <1>2, FS_Subset, Zenon
    <2> QED
      BY <2>1, <2>2
  <1>4. Max(T) \in T /\ \A y \in T : Max(T) >= y
    BY <1>3, GreatestOfFinite
  <1> QED
    BY <1>4

(***************************************************************************)
(* The inductive invariant.  A message that a run offers fits what the run *)
(* is doing, a run that was not started yet does nothing, and only started *)
(* runs are cancelled.                                                     *)
(***************************************************************************)
TerminalTypes ==
    /\ input \in {"empty", "prompt", "slash"}
    /\ busy \in BOOLEAN /\ quitConfirm \in BOOLEAN /\ interrupted \in BOOLEAN
    /\ cancelFn \in Prompts \cup {NoRun}
    /\ submitted \in 0 .. MaxRuns
    /\ stage \in [TuiRuns -> {"none", "model", "tool", "over"}]
    /\ offer \in [TuiRuns -> {"none", "chunk", "start", "end", "response"}]
    /\ using \in [TuiRuns -> Tools \cup {NoTool}]
    /\ toolsLeft \in [TuiRuns -> 0 .. MaxTools]
    /\ cancelled \subseteq Prompts
    /\ queued \in 0 .. MaxCommands
    /\ queue \in Seq(1 .. queued)
    /\ toolEntries \in Seq(Entry)
    /\ loopState \in {"on", "stopping", "gone"}

OfferFits ==
    \A r \in TuiRuns :
        /\ offer[r] \in {"chunk", "start", "response"} => stage[r] = "model"
        /\ offer[r] = "end" => stage[r] = "tool"
        /\ offer[r] = "start" \/ stage[r] = "tool" => using[r] \in Tools
        /\ offer[r] = "response" => r \in Prompts

NotStarted ==
    /\ \A r \in Prompts : r > submitted => stage[r] = "none"
    /\ cancelled \subseteq 1 .. submitted

TerminalInd == TerminalTypes /\ OfferFits /\ NotStarted /\ CancelReachesRun

LEMMA RunsFacts ==
    /\ MaxRuns \in Nat /\ MaxCommands \in Nat /\ MaxTools \in Nat
    /\ Prompts \subseteq TuiRuns /\ Scheduled \in TuiRuns /\ Scheduled \notin Prompts
    /\ NoRun \notin Prompts
  BY TerminalAssumption DEF Prompts, TuiRuns, Scheduled, NoRun

(* Keys and the end of the program touch no run. *)
Typed ==
    \/ EditInput \/ PasteInput \/ CtrlCClear \/ CtrlCQuit \/ CtrlL \/ QuitTimeout
    \/ QueueCommand \/ SubmitCommand \/ ExitDone

LEMMA TypedTypes ==
    ASSUME TerminalTypes, Typed
    PROVE  TerminalTypes' /\ UNCHANGED runVars
  <1> USE RunsFacts DEF TerminalTypes, runVars, queueVars, inputVars
  <1>1. CASE EditInput \/ PasteInput \/ CtrlCClear \/ CtrlCQuit \/ QuitTimeout
    BY <1>1 DEF EditInput, PasteInput, CtrlCClear, CtrlCQuit, QuitTimeout
  <1>2. CASE CtrlL
    <2>1. <<>> \in Seq(Entry)
      OBVIOUS
    <2> QED
      BY <1>2, <2>1 DEF CtrlL
  <1>3. CASE QueueCommand
    <2>1. queued \in Nat /\ queued' = queued + 1 /\ queued' \in 0 .. MaxCommands
      BY <1>3 DEF QueueCommand
    <2>2. queue \in Seq(1 .. queued') /\ queued + 1 \in 1 .. queued'
      <3>1. queue \in Seq(1 .. queued) /\ 1 .. queued \subseteq 1 .. queued'
        BY <2>1
      <3>2. queue \in [1 .. Len(queue) -> 1 .. queued'] /\ Len(queue) \in Nat
        BY <3>1
      <3> QED
        BY <2>1, <3>2
    <2>3. queue' \in Seq(1 .. queued')
      <3>1. queue' = Append(queue, queued + 1)
        BY <1>3 DEF QueueCommand
      <3> QED
        BY <2>2, <3>1
    <2> QED
      BY <1>3, <2>1, <2>3 DEF QueueCommand
  <1>4. CASE SubmitCommand \/ ExitDone
    BY <1>4 DEF SubmitCommand, ExitDone, OnSlash
  <1> QED
    BY <1>1, <1>2, <1>3, <1>4 DEF Typed

(* The steps of the runs and of the loop. *)
LEMMA OfferTypes ==
    ASSUME TerminalTypes, NEW r \in TuiRuns, RunStep(r)
    PROVE  TerminalTypes'
  <1> USE RunsFacts DEF TerminalTypes, OfferMessage, queueVars, inputVars
  <1>1. CASE OfferChunk(r)
    BY <1>1 DEF OfferChunk
  <1>2. CASE OfferToolStart(r)
    BY <1>2 DEF OfferToolStart
  <1>3. CASE OfferToolEnd(r)
    BY <1>3 DEF OfferToolEnd
  <1>4. CASE OfferResponse(r)
    BY <1>4 DEF OfferResponse
  <1> QED
    BY <1>1, <1>2, <1>3, <1>4 DEF RunStep

(* The entry that a tool's end settles is one of the transcript's. *)
LEMMA EndedIsShown ==
    ASSUME toolEntries \in Seq(Entry), NEW t, EndedEntry(t) # {}
    PROVE  /\ Max(EndedEntry(t)) \in EndedEntry(t)
           /\ EndedEntry(t) \subseteq DOMAIN toolEntries
  <1>1. EndedEntry(t) \in SUBSET (0 .. Len(toolEntries)) /\ Len(toolEntries) \in Nat
    BY DEF EndedEntry
  <1>2. \E x \in EndedEntry(t) : \A y \in EndedEntry(t) : x >= y
    BY <1>1, GreatestNumber
  <1> QED
    BY <1>2 DEF Max, EndedEntry

LEMMA TakeTypes ==
    ASSUME TerminalTypes, OfferFits, NEW r \in TuiRuns, LoopStep(r)
    PROVE  TerminalTypes'
  <1> USE RunsFacts DEF TerminalTypes, Take, queueVars, inputVars
  <1>1. CASE TakeChunk(r)
    BY <1>1 DEF TakeChunk
  <1>2. CASE TakeToolStart(r)
    <2>1. [name |-> using[r], status |-> "running"] \in Entry
      BY <1>2 DEF TakeToolStart, OfferFits, Entry
    <2>2. toolEntries' \in Seq(Entry)
      BY <1>2, <2>1 DEF TakeToolStart
    <2> QED
      BY <1>2, <2>2 DEF TakeToolStart
  <1>3. CASE TakeToolEnd(r)
    <2>1. toolEntries' \in Seq(Entry)
      <3>1. CASE EndedEntry(using[r]) = {}
        BY <1>3, <3>1 DEF TakeToolEnd
      <3>2. CASE EndedEntry(using[r]) # {}
        <4> DEFINE m == Max(EndedEntry(using[r]))
        <4>1. m \in DOMAIN toolEntries
          BY <3>2, EndedIsShown
        <4>2. toolEntries' = [toolEntries EXCEPT ![m].status = "done"]
          BY <1>3, <3>2 DEF TakeToolEnd
        <4> HIDE DEF m
        <4>3. toolEntries[m] \in Entry
          BY <4>1
        <4>4. [toolEntries[m] EXCEPT !.status = "done"] \in Entry
          BY <4>3 DEF Entry
        <4> QED
          BY <4>1, <4>2, <4>4
      <3> QED
        BY <3>1, <3>2
    <2> QED
      BY <1>3, <2>1 DEF TakeToolEnd
  <1>4. CASE TakeResponse(r)
    <2>1. queue' \in Seq(1 .. queued) /\ loopState' \in {"on", "stopping", "gone"}
      <3>1. CASE queue = <<>>
        BY <1>4, <3>1 DEF TakeResponse
      <3>2. CASE queue # <<>>
        <4>1. Tail(queue) \in Seq(1 .. queued)
          BY <3>2
        <4> QED
          BY <1>4, <3>2, <4>1 DEF TakeResponse, RunQueued, OnSlash
      <3> QED
        BY <3>1, <3>2
    <2> QED
      BY <1>4, <2>1 DEF TakeResponse
  <1> QED
    BY <1>1, <1>2, <1>3, <1>4 DEF LoopStep

LEMMA TypesStep ==
    ASSUME TerminalInd, [TerminalNext]_terminalVars
    PROVE  TerminalTypes'
  <1> USE RunsFacts DEF TerminalInd
  <1>1. CASE Typed
    BY <1>1, TypedTypes
  <1>2. CASE CtrlCBusy
    BY <1>2 DEF CtrlCBusy, LeaveRun, TerminalTypes, queueVars, inputVars
  <1>3. CASE SubmitPrompt
    <2>1. submitted + 1 \in Prompts /\ submitted + 1 \in 0 .. MaxRuns
      BY <1>3 DEF SubmitPrompt, TerminalTypes, Prompts
    <2> QED
      BY <1>3, <2>1 DEF SubmitPrompt, TerminalTypes, queueVars
  <1>4. CASE ScheduledStart \/ ScheduledEnd
    BY <1>4 DEF ScheduledStart, ScheduledEnd, TerminalTypes, queueVars, inputVars
  <1>5. ASSUME NEW r \in TuiRuns, RunStep(r) \/ LoopStep(r)
        PROVE  TerminalTypes'
    BY <1>5, OfferTypes, TakeTypes
  <1>6. CASE UNCHANGED terminalVars
    BY <1>6 DEF terminalVars, inputVars, runVars, queueVars, TerminalTypes
  <1> QED
    BY <1>1, <1>2, <1>3, <1>4, <1>5, <1>6 DEF TerminalNext, KeyPressed, Typed

(***************************************************************************)
(* What a step does to the runs.  One run may offer a message, or go from  *)
(* one stage to another as the loop takes its message.                     *)
(***************************************************************************)
OthersStay(r) ==
    \A q \in TuiRuns : q # r =>
        stage'[q] = stage[q] /\ offer'[q] = offer[q] /\ using'[q] = using[q]

controls == <<busy, cancelFn, submitted, cancelled, interrupted>>

LEMMA OfferMoves ==
    ASSUME TerminalTypes, NEW r \in TuiRuns, RunStep(r)
    PROVE  /\ OthersStay(r) /\ stage' = stage
           /\ UNCHANGED <<controls, toolEntries>>
           /\ offer[r] = "none"
           /\ \/ offer'[r] = "chunk" /\ stage[r] = "model" /\ using' = using
              \/ offer'[r] = "start" /\ stage[r] = "model" /\ using'[r] \in Tools
              \/ offer'[r] = "end" /\ stage[r] = "tool" /\ using' = using
              \/ /\ offer'[r] = "response" /\ stage[r] = "model" /\ using' = using
                 /\ r \in Prompts
  <1> USE DEF TerminalTypes, OfferMessage, OthersStay, controls
  <1>1. CASE OfferChunk(r)
    BY <1>1 DEF OfferChunk
  <1>2. CASE OfferToolStart(r)
    BY <1>2 DEF OfferToolStart
  <1>3. CASE OfferToolEnd(r)
    BY <1>3 DEF OfferToolEnd
  <1>4. CASE OfferResponse(r)
    BY <1>4 DEF OfferResponse
  <1> QED
    BY <1>1, <1>2, <1>3, <1>4 DEF RunStep

LEMMA TakeMoves ==
    ASSUME TerminalTypes, NEW r \in TuiRuns, LoopStep(r)
    PROVE  /\ OthersStay(r) /\ offer'[r] = "none"
           /\ UNCHANGED <<submitted, cancelled, interrupted>>
           /\ \/ /\ TakeChunk(r) /\ offer[r] = "chunk"
                 /\ UNCHANGED <<controls, stage, using, toolEntries>>
              \/ /\ TakeToolStart(r) /\ offer[r] = "start" /\ stage'[r] = "tool"
                 /\ UNCHANGED <<controls, using>>
              \/ /\ TakeToolEnd(r) /\ offer[r] = "end" /\ stage'[r] = "model"
                 /\ UNCHANGED controls
              \/ /\ TakeResponse(r) /\ offer[r] = "response" /\ stage'[r] = "over"
                 /\ cancelFn' = NoRun /\ busy' = FALSE
                 /\ UNCHANGED <<using, toolEntries>>
  <1> USE DEF TerminalTypes, Take, OthersStay, controls
  <1>1. CASE TakeChunk(r)
    BY <1>1 DEF TakeChunk
  <1>2. CASE TakeToolStart(r)
    BY <1>2 DEF TakeToolStart
  <1>3. CASE TakeToolEnd(r)
    BY <1>3 DEF TakeToolEnd
  <1>4. CASE TakeResponse(r)
    BY <1>4 DEF TakeResponse
  <1> QED
    BY <1>1, <1>2, <1>3, <1>4 DEF LoopStep

(* The scheduled run starts and ends without a message. *)
LEMMA ScheduledMoves ==
    ASSUME TerminalTypes, ScheduledStart \/ ScheduledEnd
    PROVE  /\ OthersStay(Scheduled) /\ UNCHANGED <<controls, offer, using, toolEntries>>
           /\ \/ stage[Scheduled] = "none" /\ stage'[Scheduled] = "model"
              \/ /\ stage[Scheduled] = "model" /\ stage'[Scheduled] = "over"
                 /\ offer[Scheduled] = "none"
  BY RunsFacts DEF ScheduledStart, ScheduledEnd, TerminalTypes, OthersStay, controls

LEMMA PromptMoves ==
    ASSUME TerminalTypes, SubmitPrompt
    PROVE  /\ submitted + 1 \in Prompts /\ OthersStay(submitted + 1)
           /\ submitted' = submitted + 1 /\ submitted \in Nat
           /\ stage'[submitted + 1] = "model"
           /\ ~busy /\ busy' = TRUE /\ cancelFn' = submitted + 1
           /\ UNCHANGED <<offer, using, cancelled, interrupted, toolEntries>>
  <1>1. submitted + 1 \in Prompts /\ submitted \in Nat
    BY RunsFacts DEF SubmitPrompt, TerminalTypes, Prompts
  <1> QED
    BY <1>1, RunsFacts DEF SubmitPrompt, TerminalTypes, OthersStay

(* Ctrl-C leaves the run that the cancel function names. *)
LEMMA LeaveMoves ==
    ASSUME CtrlCBusy
    PROVE  /\ busy /\ ~busy' /\ cancelFn' = NoRun /\ interrupted'
           /\ cancelled' = IF cancelFn = NoRun THEN cancelled ELSE cancelled \cup {cancelFn}
           /\ UNCHANGED <<submitted, stage, offer, using, toolEntries>>
  BY DEF CtrlCBusy, LeaveRun

LEMMA StepOfferFits ==
    ASSUME TerminalInd, [TerminalNext]_terminalVars
    PROVE  OfferFits' /\ NotStarted'
  <1> USE RunsFacts DEF TerminalInd
  <1>1. CASE Typed
    BY <1>1, TypedTypes DEF runVars, OfferFits, NotStarted
  <1>2. CASE CtrlCBusy
    <2>1. cancelFn # NoRun => cancelFn \in 1 .. submitted
      BY <1>2, LeaveMoves DEF CancelReachesRun, TerminalTypes, Prompts
    <2> QED
      BY <1>2, <2>1, LeaveMoves DEF OfferFits, NotStarted
  <1>3. CASE SubmitPrompt
    <2>1. stage[submitted + 1] = "none"
      BY <1>3, PromptMoves DEF NotStarted
    <2>2. OfferFits'
      BY <1>3, <2>1, PromptMoves DEF OfferFits, OthersStay, TerminalTypes
    <2>3. NotStarted'
      <3>1. submitted \in Nat /\ submitted' = submitted + 1 /\ cancelled' = cancelled
        BY <1>3, PromptMoves
      <3>2. ASSUME NEW r \in Prompts, r > submitted'
            PROVE  stage'[r] = "none"
        <4>1. r \in TuiRuns /\ r # submitted + 1 /\ r > submitted
          BY <3>1, <3>2 DEF Prompts
        <4> QED
          BY <1>3, <4>1, PromptMoves DEF NotStarted, OthersStay
      <3>3. cancelled' \subseteq 1 .. submitted'
        BY <3>1 DEF NotStarted
      <3> QED
        BY <3>2, <3>3 DEF NotStarted
    <2> QED
      BY <2>2, <2>3
  <1>4. CASE ScheduledStart \/ ScheduledEnd
    <2>1. OfferFits'
      BY <1>4, ScheduledMoves DEF OfferFits, OthersStay
    <2>2. NotStarted'
      BY <1>4, ScheduledMoves DEF NotStarted, OthersStay, controls
    <2> QED
      BY <2>1, <2>2
  <1>5. ASSUME NEW r \in TuiRuns, RunStep(r)
        PROVE  OfferFits' /\ NotStarted'
    <2>1. OfferFits'
      BY <1>5, OfferMoves DEF OfferFits, OthersStay
    <2>2. NotStarted'
      BY <1>5, OfferMoves DEF NotStarted, controls
    <2> QED
      BY <2>1, <2>2
  <1>6. ASSUME NEW r \in TuiRuns, LoopStep(r)
        PROVE  OfferFits' /\ NotStarted'
    <2>1. OfferFits'
      BY <1>6, TakeMoves DEF OfferFits, OthersStay
    <2>2. NotStarted'
      BY <1>6, TakeMoves DEF NotStarted, OfferFits, OthersStay, controls
    <2> QED
      BY <2>1, <2>2
  <1>7. CASE UNCHANGED terminalVars
    BY <1>7 DEF terminalVars, runVars, OfferFits, NotStarted
  <1> QED
    BY <1>1, <1>2, <1>3, <1>4, <1>5, <1>6, <1>7 DEF TerminalNext, KeyPressed, Typed

LEMMA StepCancelReaches ==
    ASSUME TerminalInd, [TerminalNext]_terminalVars
    PROVE  CancelReachesRun'
  <1> USE RunsFacts DEF TerminalInd, CancelReachesRun
  <1>0. cancelFn \in Prompts \cup {NoRun}
    BY DEF TerminalTypes
  <1>1. CASE Typed
    BY <1>1, TypedTypes DEF runVars
  <1>2. CASE CtrlCBusy
    BY <1>2, LeaveMoves
  <1>3. CASE SubmitPrompt
    <2>1. submitted + 1 \notin cancelled
      BY <1>3, PromptMoves DEF NotStarted
    <2>2. ~interrupted => \A r \in Prompts : stage[r] \notin {"model", "tool"}
      BY <1>3, PromptMoves
    <2>3. submitted + 1 # NoRun
      BY <1>3, PromptMoves
    <2> QED
      BY <1>3, <2>1, <2>2, <2>3, PromptMoves DEF OthersStay
  <1>4. CASE ScheduledStart \/ ScheduledEnd
    BY <1>0, <1>4, ScheduledMoves DEF OthersStay, controls
  <1>5. ASSUME NEW r \in TuiRuns, RunStep(r)
        PROVE  CancelReachesRun'
    BY <1>5, OfferMoves DEF controls
  <1>6. ASSUME NEW r \in TuiRuns, LoopStep(r)
        PROVE  CancelReachesRun'
    <2>1. CASE TakeResponse(r)
      <3>1. r \in Prompts /\ stage[r] = "model" /\ stage'[r] = "over"
        BY <1>6, <2>1, TakeMoves DEF OfferFits, TakeResponse, Take
      <3>2. ~interrupted => \A q \in Prompts : stage[q] \in {"model", "tool"} => q = r
        BY <3>1
      <3>3. cancelFn' = NoRun /\ busy' = FALSE /\ interrupted' = interrupted
        BY <2>1 DEF TakeResponse
      <3> QED
        BY <1>6, <3>1, <3>2, <3>3, TakeMoves DEF OthersStay
    <2>2. CASE ~TakeResponse(r)
      <3>1. /\ UNCHANGED controls
            /\ stage'[r] = stage[r] \/ {stage[r], stage'[r]} \subseteq {"model", "tool"}
        BY <1>6, <2>2, TakeMoves DEF OfferFits, controls
      <3> QED
        BY <1>0, <1>6, <3>1, TakeMoves DEF OthersStay, controls
    <2> QED
      BY <2>1, <2>2
  <1>7. CASE UNCHANGED terminalVars
    BY <1>7 DEF terminalVars, runVars
  <1> QED
    BY <1>1, <1>2, <1>3, <1>4, <1>5, <1>6, <1>7 DEF TerminalNext, KeyPressed, Typed

LEMMA TerminalIndInit == TerminalInit => TerminalInd
  <1> SUFFICES ASSUME TerminalInit PROVE TerminalInd
    OBVIOUS
  <1>1. TerminalTypes
    <2>1. <<>> \in Seq(1 .. 0) /\ <<>> \in Seq(Entry)
      OBVIOUS
    <2> QED
      <3>1. queue \in Seq(1 .. queued) /\ toolEntries \in Seq(Entry)
        BY <2>1 DEF TerminalInit
      <3>2. submitted \in 0 .. MaxRuns /\ queued \in 0 .. MaxCommands /\ cancelFn = NoRun
        BY RunsFacts DEF TerminalInit
      <3>3. toolsLeft \in [TuiRuns -> 0 .. MaxTools]
        BY RunsFacts DEF TerminalInit
      <3> QED
        BY <3>1, <3>2, <3>3 DEF TerminalInit, TerminalTypes
  <1>2. OfferFits /\ NotStarted /\ CancelReachesRun
    BY RunsFacts DEF TerminalInit, OfferFits, NotStarted, CancelReachesRun
  <1> QED
    BY <1>1, <1>2 DEF TerminalInd

LEMMA TerminalIndStep == TerminalInd /\ [TerminalNext]_terminalVars => TerminalInd'
  BY TypesStep, StepOfferFits, StepCancelReaches DEF TerminalInd

(***************************************************************************)
(* The variables of the terminal keep their types: in particular the queue *)
(* holds commands that were queued, and the transcript tool entries.       *)
(***************************************************************************)
THEOREM TerminalTypeCorrect == TerminalSpec => []TerminalTypeOK
  <1>1. TerminalInd => TerminalTypeOK
    <2>1. ASSUME NEW S, NEW s \in Seq(S)
          PROVE  ToSet(s) \subseteq S
      BY DEF ToSet
    <2>2. ASSUME TerminalInd
          PROVE  ToSet(queue) \subseteq 1 .. queued /\ ToSet(toolEntries) \subseteq Entry
      BY <2>1, <2>2 DEF TerminalInd, TerminalTypes
    <2> QED
      BY <2>2 DEF TerminalInd, TerminalTypes, TerminalTypeOK
  <1> QED
    BY TerminalIndInit, TerminalIndStep, <1>1, PTL DEF TerminalSpec

(***************************************************************************)
(* app.go:301, 623, 826: whatever prompts, Ctrl-C, late responses and      *)
(* queued commands come in whatever order, the cancel function is there    *)
(* exactly while the terminal is busy, and then it is the newest run's,    *)
(* which is going and not cancelled; until a Ctrl-C it reaches every run   *)
(* that is going.                                                          *)
(***************************************************************************)
THEOREM TerminalCancelReaches == TerminalSpec => []CancelReachesRun
  <1>1. TerminalInd => CancelReachesRun
    BY DEF TerminalInd
  <1> QED
    BY TerminalIndInit, TerminalIndStep, <1>1, PTL DEF TerminalSpec

(***************************************************************************)
(* The tools shown.  Both sides of ShownToolsRun count a finite set; the   *)
(* entries that show t running, and the runs that use t.                   *)
(***************************************************************************)
Shown(t) == {i \in DOMAIN toolEntries : toolEntries[i] = [name |-> t, status |-> "running"]}

Using(t) == {r \in TuiRuns : stage[r] = "tool" /\ using[r] = t}

LEMMA CountsFinite ==
    ASSUME TerminalTypes, NEW t
    PROVE  /\ IsFiniteSet(Shown(t)) /\ IsFiniteSet(Using(t))
           /\ Cardinality(Shown(t)) \in Nat /\ Cardinality(Using(t)) \in Nat
  <1>1. Shown(t) \subseteq 1 .. Len(toolEntries) /\ Len(toolEntries) \in Nat
    BY DEF TerminalTypes, Shown
  <1>2. Using(t) \subseteq 0 .. MaxRuns
    BY RunsFacts DEF Using, TuiRuns, Prompts, Scheduled
  <1>3. IsFiniteSet(1 .. Len(toolEntries)) /\ IsFiniteSet(0 .. MaxRuns)
    BY <1>1, RunsFacts, FS_Interval
  <1> QED
    BY <1>1, <1>2, <1>3, FS_Subset, FS_CardinalityType

(* The end of a tool settles an entry that shows it running, if there is one. *)
LEMMA EndedIsRunning ==
    ASSUME TerminalTypes, NEW t \in Tools
    PROVE  EndedEntry(t) = Shown(t)
  <1>1. ASSUME NEW i \in DOMAIN toolEntries
        PROVE  (toolEntries[i].name = t /\ toolEntries[i].status = "running")
                  <=> toolEntries[i] = [name |-> t, status |-> "running"]
    <2>1. toolEntries[i] \in Entry
      BY DEF TerminalTypes
    <2> QED
      BY <2>1 DEF Entry
  <1> QED
    BY <1>1 DEF EndedEntry, Shown

LEMMA StepShownTools ==
    ASSUME TerminalInd, ShownToolsRun, [TerminalNext]_terminalVars
    PROVE  ShownToolsRun'
  <1> USE RunsFacts DEF TerminalInd
  <1>0. SUFFICES ASSUME NEW t \in Tools
                 PROVE  Cardinality(Shown(t)') <= Cardinality(Using(t)')
    BY DEF ShownToolsRun, Shown, Using
  <1>a. Cardinality(Shown(t)) <= Cardinality(Using(t))
    BY DEF ShownToolsRun, Shown, Using
  <1>b. /\ IsFiniteSet(Shown(t)) /\ IsFiniteSet(Using(t))
        /\ Cardinality(Shown(t)) \in Nat /\ Cardinality(Using(t)) \in Nat
    BY CountsFinite
  <1>c. ASSUME Shown(t)' = Shown(t), Using(t)' = Using(t)
        PROVE  Cardinality(Shown(t)') <= Cardinality(Using(t)')
    BY <1>a, <1>c
  <1>1. CASE Typed /\ ~CtrlL
    <2>1. UNCHANGED <<stage, using, toolEntries>>
      BY <1>1, TypedTypes DEF runVars, Typed, EditInput, PasteInput, CtrlCClear, CtrlCQuit,
                              QuitTimeout, QueueCommand, SubmitCommand, ExitDone
    <2> QED
      BY <1>c, <2>1 DEF Shown, Using
  <1>2. CASE CtrlL
    <2>1. toolEntries' = <<>> /\ UNCHANGED <<stage, using>>
      BY <1>2 DEF CtrlL, runVars
    <2>2. Shown(t)' = {} /\ Using(t)' = Using(t)
      BY <2>1 DEF Shown, Using
    <2> QED
      BY <1>b, <2>2, FS_EmptySet
  <1>3. CASE CtrlCBusy
    BY <1>3, <1>c, LeaveMoves DEF Shown, Using
  <1>4. CASE SubmitPrompt
    <2>1. stage[submitted + 1] = "none" /\ submitted + 1 \in TuiRuns
      BY <1>4, PromptMoves DEF NotStarted
    <2>2. Shown(t)' = Shown(t)
      BY <1>4, PromptMoves DEF Shown
    <2>3. Using(t)' = Using(t)
      BY <1>4, <2>1, PromptMoves DEF Using, OthersStay
    <2> QED
      BY <1>c, <2>2, <2>3
  <1>5. CASE ScheduledStart \/ ScheduledEnd
    <2>1. Shown(t)' = Shown(t)
      BY <1>5, ScheduledMoves DEF Shown
    <2>2. Using(t)' = Using(t)
      BY <1>5, ScheduledMoves DEF Using, OthersStay
    <2> QED
      BY <1>c, <2>1, <2>2
  <1>6. ASSUME NEW r \in TuiRuns, RunStep(r)
        PROVE  Cardinality(Shown(t)') <= Cardinality(Using(t)')
    <2>1. Shown(t)' = Shown(t)
      BY <1>6, OfferMoves DEF Shown
    <2>2. Using(t)' = Using(t)
      BY <1>6, OfferMoves DEF Using, OthersStay
    <2> QED
      BY <1>c, <2>1, <2>2
  <1>7. ASSUME NEW r \in TuiRuns, LoopStep(r)
        PROVE  Cardinality(Shown(t)') <= Cardinality(Using(t)')
    <2>1. CASE TakeToolStart(r) /\ using[r] = t
      <3>1. stage[r] = "model" /\ stage'[r] = "tool" /\ using' = using /\ OthersStay(r)
        BY <1>7, <2>1, TakeMoves DEF OfferFits, TakeToolStart, Take, TerminalTypes
      <3>2. Using(t)' = Using(t) \cup {r} /\ r \notin Using(t)
        BY <2>1, <3>1 DEF Using, OthersStay
      <3>3. toolEntries' = Append(toolEntries, [name |-> t, status |-> "running"])
        BY <2>1 DEF TakeToolStart
      <3>4. /\ Shown(t)' = Shown(t) \cup {Len(toolEntries) + 1}
            /\ Len(toolEntries) + 1 \notin Shown(t)
        BY <3>3 DEF Shown, TerminalTypes
      <3>5. /\ Cardinality(Using(t)') = Cardinality(Using(t)) + 1
            /\ Cardinality(Shown(t)') = Cardinality(Shown(t)) + 1
        BY <1>b, <3>2, <3>4, FS_AddElement
      <3> QED
        BY <1>a, <1>b, <3>5
    <2>2. CASE TakeToolStart(r) /\ using[r] # t
      <3>1. stage[r] = "model" /\ using' = using /\ OthersStay(r)
        BY <1>7, <2>2, TakeMoves DEF OfferFits, TakeToolStart, Take, TerminalTypes
      <3>2. Using(t)' = Using(t)
        BY <2>2, <3>1 DEF Using, OthersStay
      <3>3. toolEntries' = Append(toolEntries, [name |-> using[r], status |-> "running"])
        BY <2>2 DEF TakeToolStart
      <3>4. Shown(t)' = Shown(t)
        BY <2>2, <3>3 DEF Shown, TerminalTypes
      <3> QED
        BY <1>c, <3>2, <3>4
    <2>3. CASE TakeToolEnd(r) /\ using[r] = t
      <3>1. /\ stage[r] = "tool" /\ stage'[r] = "model" /\ OthersStay(r)
        BY <1>7, <2>3, TakeMoves DEF OfferFits, TakeToolEnd, Take, TerminalTypes
      <3>2. Using(t)' = Using(t) \ {r} /\ r \in Using(t)
        BY <2>3, <3>1 DEF Using, OthersStay
      <3>3. Cardinality(Using(t)') = Cardinality(Using(t)) - 1
        BY <1>b, <3>2, FS_RemoveElement
      <3>4. CASE Shown(t) = {}
        <4>1. Shown(t)' = {}
          BY <2>3, <3>4, EndedIsRunning DEF TakeToolEnd, Shown
        <4>2. Cardinality(Using(t)') \in Nat
          BY <1>b, <3>2, FS_RemoveElement, FS_CardinalityType
        <4> QED
          BY <4>1, <4>2, FS_EmptySet
      <3>5. CASE Shown(t) # {}
        <4> DEFINE m == Max(EndedEntry(t))
        <4>1. m \in Shown(t)
          BY <3>5, EndedIsRunning, EndedIsShown DEF TerminalTypes
        <4>2. toolEntries' = [toolEntries EXCEPT ![m].status = "done"]
          BY <2>3, <3>5, EndedIsRunning DEF TakeToolEnd
        <4> HIDE DEF m
        <4>3. Shown(t)' = Shown(t) \ {m}
          BY <4>1, <4>2 DEF Shown, TerminalTypes, Entry
        <4>4. Cardinality(Shown(t)') = Cardinality(Shown(t)) - 1
          BY <1>b, <4>1, <4>3, FS_RemoveElement
        <4> QED
          BY <1>a, <1>b, <3>3, <4>4
      <3> QED
        BY <3>4, <3>5
    <2>4. CASE TakeToolEnd(r) /\ using[r] # t
      <3>1. /\ stage'[r] = "model" /\ OthersStay(r)
        BY <1>7, <2>4, TakeMoves DEF TakeToolEnd, TerminalTypes
      <3>2. Using(t)' = Using(t)
        BY <2>4, <3>1 DEF Using, OthersStay
      <3>3. Shown(t)' = Shown(t)
        <4>1. CASE EndedEntry(using[r]) = {}
          BY <2>4, <4>1 DEF TakeToolEnd, Shown
        <4>2. CASE EndedEntry(using[r]) # {}
          <5> DEFINE m == Max(EndedEntry(using[r]))
          <5>1. m \in DOMAIN toolEntries /\ toolEntries[m].name = using[r]
            BY <4>2, EndedIsShown DEF TerminalTypes, EndedEntry
          <5>2. toolEntries' = [toolEntries EXCEPT ![m].status = "done"]
            BY <2>4, <4>2 DEF TakeToolEnd
          <5> HIDE DEF m
          <5>3. toolEntries[m] \in Entry /\ DOMAIN toolEntries' = DOMAIN toolEntries
            BY <5>1, <5>2 DEF TerminalTypes
          <5>4. toolEntries'[m].name = using[r]
            BY <5>1, <5>2, <5>3 DEF TerminalTypes, Entry
          <5>5. ASSUME NEW i \in DOMAIN toolEntries
                PROVE  toolEntries'[i] = [name |-> t, status |-> "running"]
                          <=> toolEntries[i] = [name |-> t, status |-> "running"]
            <6>1. CASE i = m
              BY <2>4, <5>1, <5>4, <6>1
            <6>2. CASE i # m
              BY <5>2, <6>2 DEF TerminalTypes
            <6> QED
              BY <6>1, <6>2
          <5> QED
            BY <5>3, <5>5 DEF Shown
        <4> QED
          BY <4>1, <4>2
      <3> QED
        BY <1>c, <3>2, <3>3
    <2>5. CASE TakeChunk(r)
      <3>1. UNCHANGED <<stage, using, toolEntries>>
        BY <2>5 DEF TakeChunk
      <3> QED
        BY <1>c, <3>1 DEF Shown, Using
    <2>6. CASE TakeResponse(r)
      <3>1. stage[r] = "model" /\ stage'[r] = "over" /\ OthersStay(r)
        BY <1>7, <2>6, TakeMoves DEF OfferFits, TakeResponse, Take, TerminalTypes
      <3>2. Using(t)' = Using(t)
        BY <3>1 DEF Using, OthersStay
      <3>3. toolEntries' = toolEntries
        BY <2>6 DEF TakeResponse
      <3> QED
        BY <1>c, <3>2, <3>3 DEF Shown
    <2> QED
      BY <1>7, <2>1, <2>2, <2>3, <2>4, <2>5, <2>6 DEF LoopStep
  <1>8. CASE UNCHANGED terminalVars
    BY <1>8, <1>c DEF terminalVars, runVars, Shown, Using
  <1> QED
    BY <1>1, <1>2, <1>3, <1>4, <1>5, <1>6, <1>7, <1>8 DEF TerminalNext, KeyPressed, Typed

(***************************************************************************)
(* app.go:354, 664: the transcript never shows more tools running than     *)
(* there are calls going, for any number of overlapping runs and tools of  *)
(* the same name, and whenever the transcript is cleared.                  *)
(***************************************************************************)
THEOREM TerminalShownTools == TerminalSpec => []ShownToolsRun
  <1>1. TerminalInit => ShownToolsRun
    <2> SUFFICES ASSUME TerminalInit, NEW t \in Tools
                 PROVE  Cardinality(Shown(t)) <= Cardinality(Using(t))
      BY DEF ShownToolsRun, Shown, Using
    <2>1. Shown(t) = {} /\ Using(t) = {}
      BY DEF TerminalInit, Shown, Using
    <2> QED
      BY <2>1, FS_EmptySet
  <1>2. TerminalInd /\ ShownToolsRun /\ [TerminalNext]_terminalVars
           => (TerminalInd /\ ShownToolsRun)'
    BY TerminalIndStep, StepShownTools
  <1> QED
    BY TerminalIndInit, <1>1, <1>2, PTL DEF TerminalSpec

-----------------------------------------------------------------------------
(***************************************************************************)
(* The transcript.  Its lines are those of its messages one after another; *)
(* when messages are added, or get more lines, it does not get shorter, so *)
(* the place it is scrolled to stays inside.  FlattenSeq is recursive; what *)
(* it computes is shown by induction over the messages, where the          *)
(* induction is one over a set of numbers (UpTo).                          *)
(***************************************************************************)

(* What holds a set that 0 is in, and each number's successor, up to n.    *)
LEMMA UpTo ==
    ASSUME NEW n \in Nat, NEW T \in SUBSET (0..n), 0 \in T,
           \A k \in T : k < n => k + 1 \in T
    PROVE  n \in T
  <1>1. PICK k \in T : \A y \in T : k >= y
    BY GreatestNumber
  <1>2. k < n => k + 1 \in T
    OBVIOUS
  <1> QED
    BY <1>1, <1>2

AnyLine == Seq({1, 2})
Texted == Seq(AnyLine)

(* The lines of the first i messages, for i up to n.                       *)
Flattens(f, seqs, n) ==
    f = [i \in 1 .. n |-> IF i = 1 THEN seqs[1] ELSE f[i - 1] \o seqs[i]]

LEMMA SumsGrow ==
    ASSUME NEW w \in Nat, NEW x \in Nat, NEW y \in Nat, NEW z \in Nat, w <= y, x <= z
    PROVE  w + x <= y + z
  OBVIOUS

LEMMA FlattensTo ==
    ASSUME NEW seqs \in Seq(Texted), NEW n \in 1 .. Len(seqs)
    PROVE  \E f : Flattens(f, seqs, n)
  <1> DEFINE T == {k \in 0 .. n : k = 0 \/ \E f : Flattens(f, seqs, k)}
  <1>1. n \in Nat /\ T \in SUBSET (0 .. n) /\ 0 \in T
    OBVIOUS
  <1>2. ASSUME NEW k \in T, k < n
        PROVE  k + 1 \in T
    <2>1. CASE k = 0
      <3>1. Flattens([i \in 1 .. 1 |-> seqs[1]], seqs, 1)
        BY DEF Flattens
      <3> QED
        BY <1>2, <2>1, <3>1
    <2>2. CASE k # 0
      <3>1. PICK f : Flattens(f, seqs, k)
        BY <2>2
      <3> DEFINE g == [i \in 1 .. k + 1 |-> IF i = k + 1 THEN f[k] \o seqs[i] ELSE f[i]]
      <3>2. k \in 1 .. n
        BY <2>2
      <3>3. \A i \in 1 .. k : f[i] = IF i = 1 THEN seqs[1] ELSE f[i - 1] \o seqs[i]
        BY <3>1 DEF Flattens
      <3>4. \A i \in 1 .. k + 1 : g[i] = IF i = 1 THEN seqs[1] ELSE g[i - 1] \o seqs[i]
        <4> SUFFICES ASSUME NEW i \in 1 .. k + 1
                     PROVE  g[i] = IF i = 1 THEN seqs[1] ELSE g[i - 1] \o seqs[i]
          OBVIOUS
        <4>1. CASE i = k + 1
          <5>1. i - 1 = k /\ k \in 1 .. k + 1 /\ k # k + 1 /\ i # 1
            BY <3>2, <4>1
          <5>2. g[k] = f[k] /\ g[i] = f[k] \o seqs[i]
            BY <4>1, <5>1
          <5> HIDE DEF g
          <5> QED
            BY <5>1, <5>2
        <4>2. CASE i # k + 1 /\ i # 1
          <5>1. i \in 1 .. k /\ i - 1 \in 1 .. k /\ i - 1 # k + 1
            BY <3>2, <4>2
          <5>2. g[i - 1] = f[i - 1] /\ g[i] = f[i]
            BY <4>2, <5>1
          <5> HIDE DEF g
          <5> QED
            BY <3>3, <4>2, <5>1, <5>2
        <4>3. CASE i # k + 1 /\ i = 1
          BY <3>2, <3>3, <4>3
        <4> QED
          BY <4>1, <4>2, <4>3
      <3>5. Flattens(g, seqs, k + 1)
        <4>1. g = [i \in 1 .. k + 1 |-> g[i]]
          OBVIOUS
        <4> HIDE DEF g
        <4> QED
          BY <3>4, <4>1 DEF Flattens
      <3>6. k + 1 \in 0 .. n
        BY <1>2, <3>2
      <3> QED
        BY <3>5, <3>6
    <2> QED
      BY <2>1, <2>2
  <1> HIDE DEF T
  <1>3. n \in T
    BY <1>1, <1>2, UpTo
  <1> QED
    BY <1>3 DEF T

LEMMA FlattensStep ==
    ASSUME NEW seqs, NEW n \in Nat, NEW f, Flattens(f, seqs, n)
    PROVE  /\ n > 0 => f[1] = seqs[1]
           /\ \A k \in 1 .. n : k < n => f[k + 1] = f[k] \o seqs[k + 1]
  <1>1. \A i \in 1 .. n : f[i] = IF i = 1 THEN seqs[1] ELSE f[i - 1] \o seqs[i]
    BY DEF Flattens
  <1>2. ASSUME NEW k \in 1 .. n, k < n
        PROVE  f[k + 1] = f[k] \o seqs[k + 1]
    <2>1. k + 1 \in 1 .. n /\ k + 1 # 1 /\ (k + 1) - 1 = k
      BY <1>2
    <2>2. f[k + 1] = f[(k + 1) - 1] \o seqs[k + 1]
      BY <1>1, <2>1
    <2> QED
      BY <2>1, <2>2
  <1>3. n > 0 => f[1] = seqs[1]
    <2>1. n > 0 => 1 \in 1 .. n
      OBVIOUS
    <2> QED
      BY <1>1, <2>1
  <1> QED
    BY <1>2, <1>3

(* So FlattenSeq is the last of them.                                      *)
LEMMA FlattenIsLast ==
    ASSUME NEW seqs \in Seq(Texted), Len(seqs) > 0
    PROVE  \E f : Flattens(f, seqs, Len(seqs)) /\ FlattenSeq(seqs) = f[Len(seqs)]
  <1> DEFINE n == Len(seqs)
             F(f) == f = [i \in 1 .. n |-> IF i = 1 THEN seqs[i] ELSE f[i - 1] \o seqs[i]]
  <1>1. FlattenSeq(seqs) = (CHOOSE f : F(f))[n]
    BY DEF FlattenSeq
  <1>2. \A f : F(f) <=> Flattens(f, seqs, n)
    <2> SUFFICES ASSUME NEW f PROVE F(f) <=> Flattens(f, seqs, n)
      OBVIOUS
    <2>1. [i \in 1 .. n |-> IF i = 1 THEN seqs[i] ELSE f[i - 1] \o seqs[i]]
          = [i \in 1 .. n |-> IF i = 1 THEN seqs[1] ELSE f[i - 1] \o seqs[i]]
      OBVIOUS
    <2> QED
      BY <2>1 DEF Flattens
  <1>3. \E f : F(f)
    <2>1. n \in 1 .. Len(seqs)
      OBVIOUS
    <2> QED
      BY <1>2, <2>1, FlattensTo
  <1> HIDE DEF F
  <1>4. F(CHOOSE f : F(f))
    BY <1>3
  <1> QED
    BY <1>1, <1>2, <1>4

(* A text that has all that another one has, message by message, is as long. *)
LEMMA FlattenGrows ==
    ASSUME NEW a \in Seq(Texted), NEW b \in Seq(Texted), Len(a) <= Len(b),
           \A i \in 1 .. Len(a) : Len(a[i]) <= Len(b[i])
    PROVE  /\ FlattenSeq(a) \in Texted /\ FlattenSeq(b) \in Texted
           /\ Len(FlattenSeq(a)) <= Len(FlattenSeq(b))
  <1>1. CASE Len(b) = 0
    <2>1. Len(a) = 0 /\ a = <<>> /\ b = <<>>
      BY <1>1
    <2> QED
      BY <2>1 DEF FlattenSeq, Texted
  <1>2. CASE Len(b) > 0
    <2> DEFINE m == Len(a)
               n == Len(b)
    <2>1. PICK g : Flattens(g, b, n) /\ FlattenSeq(b) = g[n]
      BY <1>2, FlattenIsLast
    <2>2. PICK f : m > 0 => Flattens(f, a, m) /\ FlattenSeq(a) = f[m]
      BY FlattenIsLast
    <2>3. m \in Nat /\ n \in Nat /\ m <= n
      OBVIOUS
    <2>4. /\ \A i \in 1 .. m : a[i] \in Texted
          /\ \A i \in 1 .. n : b[i] \in Texted
      OBVIOUS
    <2>5. g[1] = b[1] /\ \A k \in 1 .. n : k < n => g[k + 1] = g[k] \o b[k + 1]
      <3>1. n > 0
        BY <1>2
      <3>2. Flattens(g, b, n) /\ n \in Nat
        BY <2>1, <2>3
      <3> HIDE DEF n
      <3> QED
        BY <3>1, <3>2, FlattensStep, ZenonT(60)
    <2>6. /\ m > 0 => f[1] = a[1]
          /\ \A k \in 1 .. m : k < m => f[k + 1] = f[k] \o a[k + 1]
      <3>1. CASE m > 0
        <4>1. Flattens(f, a, m)
          BY <2>2, <3>1
        <4> HIDE DEF m
        <4> QED
          BY <2>3, <3>1, <4>1, FlattensStep
      <3>2. CASE m = 0
        <4>1. \A k \in 1 .. m : k >= 1 /\ k <= 0
          BY <2>3, <3>2
        <4>2. \A k \in 1 .. m : FALSE
          <5> HIDE DEF m
          <5> QED
            BY <4>1
        <4> HIDE DEF m
        <4> QED
          BY <3>2, <4>2
      <3>3. m > 0 \/ m = 0
        BY <2>3
      <3> HIDE DEF m
      <3> QED
        BY <3>1, <3>2, <3>3
    <2> DEFINE Good(k) == /\ g[k] \in Texted
                          /\ k <= m => f[k] \in Texted /\ Len(f[k]) <= Len(g[k])
                          /\ 0 < m /\ m < k => f[m] \in Texted /\ Len(f[m]) <= Len(g[k])
               T == {k \in 0 .. n : k = 0 \/ Good(k)}
    <2>7. ASSUME NEW k \in T, k < n
          PROVE  k + 1 \in T
      <3>1. k \in 0 .. n /\ k + 1 \in 1 .. n
        BY <2>3, <2>7
      <3>2. CASE k = 0
        <4>1. g[1] = b[1] /\ (1 <= m => f[1] = a[1] /\ Len(a[1]) <= Len(b[1]))
          BY <2>3, <2>5, <2>6, <3>1, <3>2
        <4>2. Good(1)
          BY <2>3, <2>4, <3>1, <3>2, <4>1
        <4> QED
          BY <3>1, <3>2, <4>2
      <3>3. CASE k # 0
        <4>1. Good(k) /\ k \in 1 .. n
          BY <3>1, <3>3
        <4>2. g[k + 1] = g[k] \o b[k + 1]
          <5>1. k \in 1 .. n /\ k < n
            BY <2>7, <3>1, <3>3
          <5> QED
            BY <2>5, <5>1
        <4>3. g[k] \in Texted /\ b[k + 1] \in Texted
          BY <2>4, <3>1, <4>1
        <4>4. g[k + 1] \in Texted /\ Len(g[k + 1]) = Len(g[k]) + Len(b[k + 1])
              /\ Len(g[k]) \in Nat /\ Len(b[k + 1]) \in Nat
          BY <4>2, <4>3 DEF Texted
        <4>5. CASE k + 1 <= m
          <5>1. f[k + 1] = f[k] \o a[k + 1] /\ a[k + 1] \in Texted /\ Len(a[k + 1]) <= Len(b[k + 1])
            <6>1. k \in 1 .. m /\ k < m /\ k + 1 \in 1 .. m
              BY <2>3, <3>1, <3>3, <4>5
            <6> QED
              BY <2>4, <2>6, <6>1
          <5>2. f[k] \in Texted /\ Len(f[k]) <= Len(g[k])
            BY <2>3, <3>1, <4>1, <4>5
          <5>3. f[k + 1] \in Texted /\ Len(f[k + 1]) = Len(f[k]) + Len(a[k + 1])
                /\ Len(f[k]) \in Nat /\ Len(a[k + 1]) \in Nat
            BY <5>1, <5>2 DEF Texted
          <5>4. Good(k + 1)
            <6>1. Len(f[k + 1]) <= Len(g[k + 1])
              BY <4>4, <5>1, <5>2, <5>3, SumsGrow
            <6>2. ~(m < k + 1)
              BY <2>3, <3>1, <4>5
            <6> QED
              BY <4>4, <5>3, <6>1, <6>2
          <5> QED
            BY <3>1, <5>4
        <4>6. CASE k + 1 > m
          <5>1. 0 < m => f[m] \in Texted /\ Len(f[m]) <= Len(g[k])
            BY <2>3, <3>1, <4>1, <4>6
          <5>2. 0 < m => Len(f[m]) \in Nat
            BY <5>1 DEF Texted
          <5>3. 0 < m => Len(f[m]) <= Len(g[k + 1])
            <6> HIDE DEF m, n
            <6>1. ASSUME NEW x \in Nat, NEW y \in Nat, NEW z \in Nat, x <= y
                  PROVE  x <= y + z
              BY <6>1
            <6> QED
              BY <4>4, <5>1, <5>2, <6>1
          <5>4. Good(k + 1)
            <6>1. ~(k + 1 <= m)
              BY <2>3, <3>1, <4>6
            <6> QED
              BY <4>4, <5>1, <5>3, <6>1
          <5> QED
            BY <3>1, <5>4
        <4> QED
          BY <2>3, <3>1, <4>5, <4>6
      <3> QED
        BY <3>2, <3>3
    <2>8. n \in T
      <3>1. T \in SUBSET (0 .. n) /\ 0 \in T
        BY <2>3
      <3> HIDE DEF T
      <3> QED
        BY <2>3, <2>7, <3>1, UpTo
    <2>9. Good(n)
      BY <1>2, <2>8
    <2>10. CASE m = 0
      <3>1. FlattenSeq(a) = <<>>
        BY <2>10 DEF FlattenSeq
      <3> QED
        BY <2>1, <2>9, <3>1 DEF Texted
    <2>11. CASE m > 0
      BY <2>1, <2>2, <2>3, <2>9, <2>11
    <2> QED
      BY <2>3, <2>10, <2>11
  <1> QED
    BY <1>1, <1>2

(***************************************************************************)
(* Unless an output was folded while the transcript was scrolled up, the   *)
(* place it is scrolled to is one of its lines, or right after the last.   *)
(***************************************************************************)
ShownMessage == [lines : Texted, output : Texted, collapsed : BOOLEAN]

Total(ms) == Len(FlattenSeq([i \in DOMAIN ms |-> RenderMessage(ms[i])]))

ScreenInd ==
    /\ msgs \in Seq(ShownMessage)
    /\ height \in Heights /\ yOffset \in Nat
    /\ atBottom \in BOOLEAN /\ shrunk \in BOOLEAN
    /\ ~shrunk => yOffset <= Total(msgs)

LEMMA TotalIs == Len(AllLines) = Total(msgs)
  BY DEF AllLines, Total

LEMMA JoinedLength ==
    ASSUME NEW u \in Texted, NEW v \in Texted
    PROVE  Len(u \o v) = Len(u) + Len(v) /\ Len(u) \in Nat /\ Len(v) \in Nat
  BY DEF Texted

LEMMA Rendered == \A m \in ShownMessage : RenderMessage(m) \in Texted
  <1> SUFFICES ASSUME NEW m \in ShownMessage PROVE RenderMessage(m) \in Texted
    OBVIOUS
  <1>1. m.lines \in Texted /\ m.output \in Texted
    BY DEF ShownMessage
  <1>2. Summary \in AnyLine
    BY DEF Summary, AnyLine
  <1>3. <<Summary>> \in Texted /\ <<>> \in Texted
    BY <1>2 DEF Texted
  <1>4. (IF m.output = <<>> THEN <<>> ELSE IF m.collapsed THEN <<Summary>> ELSE m.output) \in Texted
    BY <1>1, <1>3
  <1> QED
    BY <1>1, <1>4 DEF RenderMessage, Texted

(* A transcript with all that another one has is as long.                  *)
LEMMA TotalGrows ==
    ASSUME NEW a \in Seq(ShownMessage), NEW b \in Seq(ShownMessage), Len(a) <= Len(b),
           \A i \in DOMAIN a : Len(RenderMessage(a[i])) <= Len(RenderMessage(b[i]))
    PROVE  Total(a) \in Nat /\ Total(b) \in Nat /\ Total(a) <= Total(b)
  <1> DEFINE p == [i \in DOMAIN a |-> RenderMessage(a[i])]
             q == [i \in DOMAIN b |-> RenderMessage(b[i])]
  <1>1. /\ DOMAIN a = 1 .. Len(a) /\ DOMAIN b = 1 .. Len(b)
        /\ Len(a) \in Nat /\ Len(b) \in Nat
    OBVIOUS
  <1>2. p \in Seq(Texted) /\ Len(p) = Len(a)
    BY <1>1, Rendered
  <1>3. q \in Seq(Texted) /\ Len(q) = Len(b)
    BY <1>1, Rendered
  <1>4. \A i \in 1 .. Len(p) : Len(p[i]) <= Len(q[i])
    BY <1>1, <1>2, <1>3
  <1> HIDE DEF p, q
  <1>5. /\ FlattenSeq(p) \in Texted /\ FlattenSeq(q) \in Texted
        /\ Len(FlattenSeq(p)) <= Len(FlattenSeq(q))
    BY <1>2, <1>3, <1>4, FlattenGrows
  <1>6. Total(a) = Len(FlattenSeq(p)) /\ Total(b) = Len(FlattenSeq(q))
    BY DEF Total, p, q
  <1> QED
    BY <1>5, <1>6 DEF Texted

LEMMA TotalIsNat == ASSUME NEW ms \in Seq(ShownMessage) PROVE Total(ms) \in Nat
  <1>1. Len(ms) <= Len(ms)
    OBVIOUS
  <1>2. \A i \in DOMAIN ms : Len(RenderMessage(ms[i])) <= Len(RenderMessage(ms[i]))
    <2> SUFFICES ASSUME NEW i \in DOMAIN ms
                 PROVE  Len(RenderMessage(ms[i])) <= Len(RenderMessage(ms[i]))
      OBVIOUS
    <2>1. RenderMessage(ms[i]) \in Texted
      BY Rendered
    <2> QED
      BY <2>1 DEF Texted
  <1> QED
    BY <1>1, <1>2, TotalGrows

LEMMA TwoNumbers ==
    \A x \in Int : /\ Max({0, x}) = IF x > 0 THEN x ELSE 0
                   /\ \A y \in Int : Min({x, y}) = IF x <= y THEN x ELSE y
  <1>1. ASSUME NEW x \in Int PROVE Max({0, x}) = IF x > 0 THEN x ELSE 0
    BY DEF Max
  <1>2. ASSUME NEW x \in Int, NEW y \in Int PROVE Min({x, y}) = IF x <= y THEN x ELSE y
    BY DEF Min
  <1> QED
    BY <1>1, <1>2

LEMMA HeightIsNat == height \in Heights => height \in Nat /\ height > 0
  BY ScreenAssumption

(* What Follow leaves: a place that was inside stays inside.               *)
LEMMA FollowInside ==
    ASSUME ScreenInd, Follow, msgs' \in Seq(ShownMessage), height' \in Heights,
           atBottom' \in BOOLEAN, shrunk' \in BOOLEAN,
           ~shrunk' /\ ~atBottom' => ~shrunk /\ Total(msgs) <= Total(msgs')
    PROVE  ScreenInd'
  <1>1. Total(msgs) \in Nat /\ Total(msgs') \in Nat
    BY TotalIsNat DEF ScreenInd
  <1>2. height' \in Nat /\ height' > 0
    BY ScreenAssumption
  <1>3. AllLines' = FlattenSeq([i \in DOMAIN msgs' |-> RenderMessage(msgs'[i])])
    BY DEF AllLines
  <1>4. Len(AllLines') = Total(msgs')
    BY <1>3 DEF Total
  <1>5. yOffset' = IF atBottom' THEN MaxScrollOffset(AllLines', height') ELSE yOffset
    BY DEF Follow
  <1>6. yOffset' = IF atBottom' THEN Max({0, Total(msgs') - height'}) ELSE yOffset
    BY <1>4, <1>5 DEF MaxScrollOffset
  <1>7. Max({0, Total(msgs') - height'})
        = IF Total(msgs') - height' > 0 THEN Total(msgs') - height' ELSE 0
    BY <1>1, <1>2, TwoNumbers
  <1>8. yOffset' \in Nat /\ (~shrunk' => yOffset' <= Total(msgs'))
    <2>1. CASE atBottom'
      BY <1>1, <1>2, <1>6, <1>7, <2>1
    <2>2. CASE ~atBottom'
      BY <1>1, <1>6, <2>2 DEF ScreenInd
    <2> QED
      BY <2>1, <2>2
  <1> QED
    BY <1>8 DEF ScreenInd

LEMMA ScreenStart == ScreenInit => ScreenInd
  <1> SUFFICES ASSUME ScreenInit PROVE ScreenInd
    OBVIOUS
  <1>1. msgs \in Seq(ShownMessage) /\ yOffset = 0
    BY DEF ScreenInit
  <1>2. yOffset <= Total(msgs)
    BY <1>1, TotalIsNat
  <1>3. height \in Heights /\ atBottom \in BOOLEAN /\ shrunk \in BOOLEAN /\ yOffset \in Nat
    BY DEF ScreenInit
  <1> QED
    BY <1>1, <1>2, <1>3 DEF ScreenInd

(* One message more.                                                       *)
LEMMA AppendMessageKeepsPlace == ScreenInd /\ AppendMessage => ScreenInd'
  <1> SUFFICES ASSUME ScreenInd, AppendMessage PROVE ScreenInd'
    OBVIOUS
  <1>1. PICK line \in Lines :
          msgs' = Append(msgs, [lines |-> <<line>>, output |-> <<>>, collapsed |-> FALSE])
    BY DEF AppendMessage
  <1> DEFINE new == [lines |-> <<line>>, output |-> <<>>, collapsed |-> FALSE]
  <1>2. new \in ShownMessage
    <2>1. line \in AnyLine
      BY ScreenAssumption DEF AnyLine
    <2>2. <<line>> \in Texted /\ <<>> \in Texted
      BY <2>1 DEF Texted
    <2> QED
      BY <2>2 DEF ShownMessage
  <1> HIDE DEF new
  <1>3. msgs' = Append(msgs, new)
    BY <1>1 DEF new
  <1>4. msgs \in Seq(ShownMessage)
    BY DEF ScreenInd
  <1>5. /\ msgs' \in Seq(ShownMessage) /\ Len(msgs) <= Len(msgs')
        /\ \A i \in DOMAIN msgs : msgs'[i] = msgs[i] /\ msgs[i] \in ShownMessage
    BY <1>2, <1>3, <1>4
  <1>6. \A i \in DOMAIN msgs : Len(RenderMessage(msgs[i])) <= Len(RenderMessage(msgs'[i]))
    <2> SUFFICES ASSUME NEW i \in DOMAIN msgs
                 PROVE  Len(RenderMessage(msgs[i])) <= Len(RenderMessage(msgs'[i]))
      OBVIOUS
    <2>1. RenderMessage(msgs[i]) \in Texted /\ msgs'[i] = msgs[i]
      BY <1>5, Rendered
    <2>2. Len(RenderMessage(msgs[i])) \in Nat
      BY <2>1 DEF Texted
    <2> QED
      BY <2>1, <2>2
  <1>7. Total(msgs) <= Total(msgs')
    BY <1>4, <1>5, <1>6, TotalGrows
  <1>8. /\ Follow /\ height' \in Heights
        /\ atBottom' \in BOOLEAN /\ shrunk' \in BOOLEAN /\ shrunk' = shrunk
    BY DEF AppendMessage, ScreenInd
  <1> QED
    BY <1>5, <1>7, <1>8, FollowInside

(* One message changed, into one that is as long.                          *)
LEMMA MessageGrows ==
    ASSUME ScreenInd, NEW k \in DOMAIN msgs, NEW new \in ShownMessage,
           msgs' = [msgs EXCEPT ![k] = new],
           Len(RenderMessage(msgs[k])) <= Len(RenderMessage(new))
    PROVE  msgs' \in Seq(ShownMessage) /\ Total(msgs) <= Total(msgs')
  <1>1. msgs \in Seq(ShownMessage)
    BY DEF ScreenInd
  <1>2. /\ msgs' \in Seq(ShownMessage) /\ Len(msgs') = Len(msgs)
        /\ msgs'[k] = new
        /\ \A i \in DOMAIN msgs : i # k => msgs'[i] = msgs[i]
        /\ \A i \in DOMAIN msgs : msgs[i] \in ShownMessage
    BY <1>1
  <1>3. \A i \in DOMAIN msgs : Len(RenderMessage(msgs[i])) <= Len(RenderMessage(msgs'[i]))
    <2> SUFFICES ASSUME NEW i \in DOMAIN msgs
                 PROVE  Len(RenderMessage(msgs[i])) <= Len(RenderMessage(msgs'[i]))
      OBVIOUS
    <2>1. CASE i = k
      BY <1>2, <2>1
    <2>2. CASE i # k
      <3>1. RenderMessage(msgs[i]) \in Texted /\ msgs'[i] = msgs[i]
        BY <1>2, <2>2, Rendered
      <3>2. Len(RenderMessage(msgs[i])) \in Nat
        BY <3>1 DEF Texted
      <3> QED
        BY <3>1, <3>2
    <2> QED
      BY <2>1, <2>2
  <1>4. Len(msgs) <= Len(msgs')
    BY <1>1, <1>2
  <1> QED
    BY <1>1, <1>2, <1>3, <1>4, TotalGrows

LEMMA MessageChanges ==
    ASSUME NEW m \in ShownMessage, NEW x, NEW folded
    PROVE  /\ [m EXCEPT !.lines = x] = [lines |-> x, output |-> m.output, collapsed |-> m.collapsed]
           /\ [[m EXCEPT !.output = x] EXCEPT !.collapsed = folded]
              = [lines |-> m.lines, output |-> x, collapsed |-> folded]
  <1>1. m = [lines |-> m.lines, output |-> m.output, collapsed |-> m.collapsed]
    BY DEF ShownMessage
  <1>2. [m EXCEPT !.lines = x] = [lines |-> x, output |-> m.output, collapsed |-> m.collapsed]
    BY <1>1
  <1>3. [m EXCEPT !.output = x] = [lines |-> m.lines, output |-> x, collapsed |-> m.collapsed]
    BY <1>1
  <1>4. [[lines |-> m.lines, output |-> x, collapsed |-> m.collapsed] EXCEPT !.collapsed = folded]
        = [lines |-> m.lines, output |-> x, collapsed |-> folded]
    OBVIOUS
  <1> QED
    BY <1>2, <1>3, <1>4

LEMMA LastIndex == ASSUME ScreenInd, msgs # <<>> PROVE Len(msgs) \in DOMAIN msgs
  BY DEF ScreenInd

(* A chunk is one line more of the last message.                           *)
LEMMA StreamChunkKeepsPlace == ScreenInd /\ StreamChunk => ScreenInd'
  <1> SUFFICES ASSUME ScreenInd, StreamChunk PROVE ScreenInd'
    OBVIOUS
  <1> DEFINE k == Len(msgs)
  <1>1. k \in DOMAIN msgs
    BY LastIndex DEF StreamChunk
  <1>2. msgs[k] \in ShownMessage
    BY <1>1 DEF ScreenInd
  <1>3. PICK line \in Lines : msgs' = [msgs EXCEPT ![k].lines = Append(@, line)]
    BY DEF StreamChunk
  <1> HIDE DEF k
  <1> DEFINE new == [lines |-> Append(msgs[k].lines, line), output |-> msgs[k].output,
                     collapsed |-> msgs[k].collapsed]
  <1>4. line \in AnyLine
    BY ScreenAssumption DEF AnyLine
  <1>5. new \in ShownMessage
    BY <1>2, <1>4 DEF ShownMessage, Texted
  <1>6. msgs' = [msgs EXCEPT ![k] = new]
    <2>1. msgs' = [msgs EXCEPT ![k] = [msgs[k] EXCEPT !.lines = Append(msgs[k].lines, line)]]
      BY <1>3
    <2>2. [msgs[k] EXCEPT !.lines = Append(msgs[k].lines, line)] = new
      BY <1>2, MessageChanges
    <2> QED
      BY <2>1, <2>2
  <1>7. Len(RenderMessage(msgs[k])) <= Len(RenderMessage(new))
    <2> DEFINE rest == IF msgs[k].output = <<>> THEN <<>>
                       ELSE IF msgs[k].collapsed THEN <<Summary>> ELSE msgs[k].output
    <2>1. rest \in Texted
      <3>1. <<Summary>> \in Texted /\ <<>> \in Texted
        BY DEF Texted, Summary, AnyLine
      <3> QED
        BY <1>2, <3>1 DEF ShownMessage
    <2>2. /\ RenderMessage(msgs[k]) = msgs[k].lines \o rest
          /\ RenderMessage(new) = Append(msgs[k].lines, line) \o rest
      BY DEF RenderMessage
    <2>3. msgs[k].lines \in Texted
      BY <1>2 DEF ShownMessage
    <2> HIDE DEF rest
    <2> QED
      BY <1>4, <2>1, <2>2, <2>3 DEF Texted
  <1> HIDE DEF new
  <1>8. msgs' \in Seq(ShownMessage) /\ Total(msgs) <= Total(msgs')
    BY <1>1, <1>5, <1>6, <1>7, MessageGrows
  <1>9. /\ Follow /\ height' \in Heights
        /\ atBottom' \in BOOLEAN /\ shrunk' \in BOOLEAN /\ shrunk' = shrunk
    BY DEF StreamChunk, ScreenInd
  <1> QED
    BY <1>8, <1>9, FollowInside

(* The output of a tool comes after the lines that are there.              *)
LEMMA ToolEndKeepsPlace == ScreenInd /\ ToolEnd => ScreenInd'
  <1> SUFFICES ASSUME ScreenInd, ToolEnd PROVE ScreenInd'
    OBVIOUS
  <1>1. PICK k \in DOMAIN msgs : /\ msgs[k].output = <<>>
                                 /\ \E out \in Outputs : msgs' = [msgs EXCEPT ![k].output = out, ![k].collapsed = TRUE]
    BY DEF ToolEnd
  <1>2. PICK out \in Outputs : msgs' = [msgs EXCEPT ![k].output = out, ![k].collapsed = TRUE]
    BY <1>1
  <1> DEFINE new == [lines |-> msgs[k].lines, output |-> out, collapsed |-> TRUE]
  <1>3. msgs[k] \in ShownMessage
    BY DEF ScreenInd
  <1>4. out \in Texted
    BY ScreenAssumption DEF Texted, AnyLine
  <1>5. new \in ShownMessage
    BY <1>3, <1>4 DEF ShownMessage
  <1>6. msgs' = [msgs EXCEPT ![k] = new]
    <2>1. msgs \in Seq(ShownMessage)
      BY DEF ScreenInd
    <2>2. msgs' = [msgs EXCEPT ![k] = [[msgs[k] EXCEPT !.output = out] EXCEPT !.collapsed = TRUE]]
      BY <1>2, <2>1
    <2>3. [[msgs[k] EXCEPT !.output = out] EXCEPT !.collapsed = TRUE] = new
      BY <1>3, MessageChanges
    <2> QED
      BY <2>2, <2>3
  <1>7. Len(RenderMessage(msgs[k])) <= Len(RenderMessage(new))
    <2> DEFINE rest == IF out = <<>> THEN <<>> ELSE <<Summary>>
    <2>1. rest \in Texted
      <3>1. <<Summary>> \in Texted /\ <<>> \in Texted
        BY DEF Texted, Summary, AnyLine
      <3> QED
        BY <3>1
    <2>2. RenderMessage(msgs[k]) = msgs[k].lines \o <<>> /\ RenderMessage(new) = msgs[k].lines \o rest
      BY <1>1 DEF RenderMessage
    <2>3. msgs[k].lines \in Texted
      BY <1>3 DEF ShownMessage
    <2> HIDE DEF rest
    <2> QED
      BY <2>1, <2>2, <2>3 DEF Texted
  <1> HIDE DEF new
  <1>8. msgs' \in Seq(ShownMessage) /\ Total(msgs) <= Total(msgs')
    BY <1>5, <1>6, <1>7, MessageGrows
  <1>9. /\ Follow /\ height' \in Heights
        /\ atBottom' \in BOOLEAN /\ shrunk' \in BOOLEAN /\ shrunk' = shrunk
    BY DEF ToolEnd, ScreenInd
  <1> QED
    BY <1>8, <1>9, FollowInside

(* An output unfolded has a line at least; one folded under a scrolled     *)
(* transcript is what shrunk tells.                                        *)
LEMMA ToggleFoldKeepsPlace == ScreenInd /\ ToggleFold => ScreenInd'
  <1> SUFFICES ASSUME ScreenInd, ToggleFold PROVE ScreenInd'
    OBVIOUS
  <1>1. PICK k \in DOMAIN msgs : /\ msgs[k].output # <<>>
                                 /\ msgs' = [msgs EXCEPT ![k].collapsed = ~@]
                                 /\ shrunk' = (shrunk \/ (~atBottom /\ ~msgs[k].collapsed))
    BY DEF ToggleFold
  <1> DEFINE new == [lines |-> msgs[k].lines, output |-> msgs[k].output, collapsed |-> ~msgs[k].collapsed]
  <1>2. msgs[k] \in ShownMessage /\ msgs \in Seq(ShownMessage)
    BY DEF ScreenInd
  <1>3. new \in ShownMessage
    BY <1>2 DEF ShownMessage
  <1>4. msgs' = [msgs EXCEPT ![k] = new]
    <2>1. msgs' = [msgs EXCEPT ![k] = [msgs[k] EXCEPT !.collapsed = ~msgs[k].collapsed]]
      BY <1>1
    <2>2. [msgs[k] EXCEPT !.collapsed = ~msgs[k].collapsed] = new
      BY <1>2 DEF ShownMessage
    <2> QED
      BY <2>1, <2>2
  <1>5. msgs' \in Seq(ShownMessage)
    BY <1>2, <1>3, <1>4
  <1>6. ASSUME msgs[k].collapsed
        PROVE  Total(msgs) <= Total(msgs')
    <2>1. /\ RenderMessage(msgs[k]) = msgs[k].lines \o <<Summary>>
          /\ RenderMessage(new) = msgs[k].lines \o msgs[k].output
      BY <1>1, <1>6 DEF RenderMessage
    <2>2. <<Summary>> \in Texted /\ Len(<<Summary>>) = 1
      BY DEF Texted, Summary, AnyLine
    <2>3. msgs[k].lines \in Texted /\ msgs[k].output \in Texted
      BY <1>2 DEF ShownMessage
    <2>4. Len(msgs[k].output) >= 1
      BY <1>1, <2>3 DEF Texted
    <2>5. Len(RenderMessage(msgs[k])) <= Len(RenderMessage(new))
      <3> HIDE DEF new
      <3>1. /\ Len(RenderMessage(new)) = Len(msgs[k].lines) + Len(msgs[k].output)
            /\ Len(msgs[k].lines) \in Nat /\ Len(msgs[k].output) \in Nat
        BY <2>1, <2>3, JoinedLength
      <3>2. Len(RenderMessage(msgs[k])) = Len(msgs[k].lines) + 1
        BY <2>1, <2>2, <2>3, JoinedLength
      <3> QED
        BY <2>4, <3>1, <3>2
    <2> HIDE DEF new
    <2> QED
      BY <1>3, <1>4, <2>5, MessageGrows
  <1>7. ~shrunk' /\ ~atBottom' => ~shrunk /\ Total(msgs) <= Total(msgs')
    <2>1. atBottom' = atBottom
      BY DEF ToggleFold
    <2> QED
      BY <1>1, <1>6, <2>1
  <1>8. Follow /\ height' \in Heights
    BY DEF ToggleFold, ScreenInd
  <1>9. atBottom' \in BOOLEAN /\ shrunk' \in BOOLEAN
    BY <1>1 DEF ToggleFold, ScreenInd
  <1> QED
    BY <1>5, <1>7, <1>8, <1>9, FollowInside

(* Keys that scroll, and the screen emptied.                               *)
LEMMA ScrollingKeepsPlace ==
    ASSUME ScreenInd, ClearScreen \/ ScrollUp \/ ScrollDown
    PROVE  ScreenInd'
  <1>1. /\ msgs \in Seq(ShownMessage) /\ height \in Nat /\ height > 0 /\ yOffset \in Nat
        /\ Total(msgs) \in Nat
    BY TotalIsNat, HeightIsNat DEF ScreenInd
  <1>2. CASE ClearScreen
    <2>1. msgs' \in Seq(ShownMessage) /\ yOffset' = 0
      BY <1>2 DEF ClearScreen
    <2>2. yOffset' <= Total(msgs') /\ yOffset' \in Nat
      BY <2>1, TotalIsNat
    <2>3. height' \in Heights /\ atBottom' \in BOOLEAN /\ shrunk' \in BOOLEAN
      BY <1>2 DEF ClearScreen, ScreenInd
    <2> QED
      BY <2>1, <2>2, <2>3 DEF ScreenInd
  <1>3. CASE ScrollUp
    <2>1. PICK n \in {1, height} : yOffset' = Max({0, yOffset - n})
      BY <1>3 DEF ScrollUp
    <2>2. n \in Nat /\ yOffset - n \in Int
      BY <1>1
    <2>3. yOffset' \in Nat /\ yOffset' <= yOffset
      BY <1>1, <2>1, <2>2, TwoNumbers
    <2>4. ~shrunk => yOffset' <= Total(msgs)
      BY <1>1, <2>3 DEF ScreenInd
    <2>5. msgs' = msgs /\ height' = height /\ shrunk' = shrunk /\ atBottom' \in BOOLEAN
      BY <1>3 DEF ScrollUp
    <2> QED
      BY <2>3, <2>4, <2>5 DEF ScreenInd
  <1>4. CASE ScrollDown
    <2>1. PICK n \in {1, height} :
            LET max == MaxScrollOffset(AllLines, height)
            IN  /\ yOffset' = Min({yOffset + n, max})
                /\ atBottom' = (atBottom \/ yOffset + n >= max)
                /\ shrunk' = (shrunk /\ ~atBottom')
                /\ UNCHANGED <<msgs, height, sel>>
      BY <1>4 DEF ScrollDown
    <2> DEFINE max == MaxScrollOffset(AllLines, height)
    <2>2. max = Max({0, Total(msgs) - height})
      BY TotalIs DEF MaxScrollOffset
    <2>3. max \in Nat /\ max <= Total(msgs)
      BY <1>1, <2>2, TwoNumbers
    <2>4. /\ yOffset' = Min({yOffset + n, max})
          /\ msgs' = msgs /\ height' = height
      BY <2>1
    <2>5. atBottom' \in BOOLEAN /\ shrunk' \in BOOLEAN
      BY <2>1
    <2> HIDE DEF max
    <2>6. yOffset + n \in Nat
      BY <1>1
    <2>7. yOffset' \in Nat /\ yOffset' <= Total(msgs)
      <3>1. yOffset' = IF yOffset + n <= max THEN yOffset + n ELSE max
        <4>1. ASSUME NEW x \in Int, NEW y \in Int
              PROVE  Min({x, y}) = IF x <= y THEN x ELSE y
          BY TwoNumbers
        <4>2. yOffset + n \in Int /\ max \in Int
          BY <2>3, <2>6
        <4> QED
          BY <2>4, <4>1, <4>2
      <3> QED
        BY <1>1, <2>3, <2>6, <3>1
    <2> QED
      BY <2>4, <2>5, <2>7 DEF ScreenInd
  <1> QED
    BY <1>2, <1>3, <1>4

(* Another height.                                                         *)
LEMMA ResizeKeepsPlace ==
    ASSUME ScreenInd, ResizeTranscript \/ WindowSize
    PROVE  ScreenInd'
  <1>1. /\ msgs' = msgs /\ Follow /\ height' \in Heights
        /\ shrunk' = shrunk
    BY DEF ResizeTranscript, WindowSize
  <1>2. atBottom' \in BOOLEAN /\ shrunk' \in BOOLEAN
    BY DEF ResizeTranscript, WindowSize, ScreenInd
  <1>3. msgs' \in Seq(ShownMessage) /\ Total(msgs) \in Nat
    BY <1>1, TotalIsNat DEF ScreenInd
  <1>4. Total(msgs) <= Total(msgs')
    BY <1>1, <1>3
  <1> QED
    BY <1>1, <1>2, <1>3, <1>4, FollowInside

LEMMA ScreenIndStep == ScreenInd /\ [ScreenNext]_screenVars => ScreenInd'
  <1> SUFFICES ASSUME ScreenInd, [ScreenNext]_screenVars PROVE ScreenInd'
    OBVIOUS
  <1>1. CASE AppendMessage \/ StreamChunk \/ ToolEnd \/ ToggleFold
    BY <1>1, AppendMessageKeepsPlace, StreamChunkKeepsPlace, ToolEndKeepsPlace, ToggleFoldKeepsPlace
  <1>2. CASE ClearScreen \/ ScrollUp \/ ScrollDown
    BY <1>2, ScrollingKeepsPlace
  <1>3. CASE ResizeTranscript \/ WindowSize
    BY <1>3, ResizeKeepsPlace
  <1>4. CASE UNCHANGED transcriptVars
    BY <1>4 DEF transcriptVars, ScreenInd
  <1>5. CASE MouseClick \/ MouseMotion \/ MouseRelease \/ CopyOrDrop
    <2>1. UNCHANGED transcriptVars
      BY <1>5 DEF MouseClick, MouseMotion, MouseRelease, CopyOrDrop
    <2> QED
      BY <1>4, <2>1
  <1> QED
    BY <1>1, <1>2, <1>3, <1>4, <1>5 DEF ScreenNext, screenVars


(* transcript.go:139, 148: unless an output was folded while the transcript was
   scrolled up, the window begins in the transcript, so that Render can cut it out;
   and what follows the newest message shows it (WindowInTranscript). *)
THEOREM ScreenWindow == ScreenSpec => []WindowInTranscript
  <1>1. ScreenInd => WindowInTranscript
    <2> SUFFICES ASSUME ScreenInd PROVE WindowInTranscript
      OBVIOUS
    <2> DEFINE total == Len(AllLines)
    <2>1. /\ total = Total(msgs) /\ total \in Nat
          /\ height \in Nat /\ height > 0 /\ yOffset \in Nat
          /\ ~shrunk => yOffset <= total
      BY TotalIs, TotalIsNat, HeightIsNat DEF ScreenInd
    <2>2. WindowStart = IF total <= height THEN 0 ELSE IF atBottom THEN total - height ELSE yOffset
      BY DEF WindowStart
    <2> HIDE DEF total
    <2>3. ~shrunk => WindowStart <= total
      BY <2>1, <2>2
    <2>4. atBottom /\ total > 0 => WindowStart < total /\ WindowStart + height >= total
      BY <2>1, <2>2
    <2> QED
      BY <2>3, <2>4 DEF WindowInTranscript, total
  <1> QED
    BY ScreenStart, ScreenIndStep, <1>1, PTL DEF ScreenSpec

(***************************************************************************)
(* What is copied.  A rune begins in the column that is the width of those *)
(* before it, and each takes a column or two; so they begin in columns     *)
(* further and further right, and finding them by their columns finds the  *)
(* same ones as searching for the first that is not before a column.       *)
(***************************************************************************)

(* The runes of a set of places, and their width. *)
WidthOf(line, S) == Cardinality(S) + Cardinality({j \in S : line[j] = 2})

SumsTo(iter, u) ==
    iter = [s \in SUBSET (DOMAIN u) |->
               IF s = {} THEN 0
               ELSE u[CHOOSE x \in s : TRUE] + iter[s \ {CHOOSE x \in s : TRUE}]]

LEMMA FoldIs ==
    ASSUME NEW u
    PROVE  FoldSeq(LAMBDA w, acc : w + acc, 0, u) = (CHOOSE iter : SumsTo(iter, u))[DOMAIN u]
  BY DEF FoldSeq, FoldFunction, FoldFunctionOnSet, MapThenFoldSet, SumsTo

LEMMA WidthLess ==
    ASSUME NEW u \in AnyLine, NEW s \in SUBSET (DOMAIN u), NEW x \in s
    PROVE  /\ WidthOf(u, s) = u[x] + WidthOf(u, s \ {x})
           /\ WidthOf(u, s \ {x}) \in Nat
  <1>1. IsFiniteSet(s)
    <2>1. DOMAIN u = 1 .. Len(u) /\ Len(u) \in Nat
      BY DEF AnyLine
    <2>2. IsFiniteSet(DOMAIN u)
      BY <2>1, FS_Interval
    <2> QED
      BY <2>2, FS_Subset
  <1> DEFINE wide == {j \in s : u[j] = 2}
             rest == {j \in s \ {x} : u[j] = 2}
  <1>2. IsFiniteSet(wide) /\ IsFiniteSet(s \ {x})
    BY <1>1, FS_Subset
  <1>3. /\ Cardinality(s \ {x}) \in Nat /\ Cardinality(s) = Cardinality(s \ {x}) + 1
    <2>1. Cardinality(s) \in Nat /\ Cardinality(s \ {x}) = Cardinality(s) - 1
      BY <1>1, FS_RemoveElement, FS_CardinalityType
    <2>2. Cardinality(s \ {x}) \in Nat
      BY <1>2, FS_CardinalityType
    <2> QED
      BY <2>1, <2>2
  <1>4. u[x] \in {1, 2}
    BY DEF AnyLine
  <1>5. /\ WidthOf(u, s) = Cardinality(s) + Cardinality(wide)
        /\ WidthOf(u, s \ {x}) = Cardinality(s \ {x}) + Cardinality(rest)
    BY DEF WidthOf
  <1>6. CASE u[x] = 2
    <2>1. x \in wide /\ rest = wide \ {x}
      BY <1>6
    <2> HIDE DEF wide, rest
    <2>2. Cardinality(wide) \in Nat /\ Cardinality(wide \ {x}) = Cardinality(wide) - 1
      BY <1>2, <2>1, FS_RemoveElement, FS_CardinalityType
    <2>3. Cardinality(rest) \in Nat
      BY <1>2, <2>1, FS_RemoveElement, FS_CardinalityType
    <2>4. Cardinality(wide) = Cardinality(rest) + 1
      BY <2>1, <2>2, <2>3
    <2> QED
      BY <1>3, <1>6, <1>5, <2>3, <2>4
  <1>7. CASE u[x] = 1
    <2>1. rest = wide
      BY <1>7
    <2>2. Cardinality(wide) \in Nat
      BY <1>2, FS_CardinalityType
    <2> HIDE DEF wide, rest
    <2> QED
      BY <1>3, <1>7, <1>5, <2>1, <2>2
  <1> QED
    BY <1>4, <1>6, <1>7

LEMMA NoWidth == ASSUME NEW u PROVE WidthOf(u, {}) = 0
  <1>1. {j \in {} : u[j] = 2} = {} /\ Cardinality({}) = 0
    BY FS_EmptySet
  <1> QED
    BY <1>1 DEF WidthOf

LEMMA SumExists ==
    ASSUME NEW u \in AnyLine
    PROVE  \E iter : SumsTo(iter, u)
  <1> DEFINE g == [s \in SUBSET (DOMAIN u) |-> WidthOf(u, s)]
  <1>1. \A s \in SUBSET (DOMAIN u) : g[s] = WidthOf(u, s)
    OBVIOUS
  <1>2. g = [s \in SUBSET (DOMAIN u) |-> g[s]]
    OBVIOUS
  <1> HIDE DEF g
  <1>3. ASSUME NEW s \in SUBSET (DOMAIN u)
        PROVE  g[s] = IF s = {} THEN 0
                      ELSE u[CHOOSE x \in s : TRUE] + g[s \ {CHOOSE x \in s : TRUE}]
    <2>1. CASE s = {}
      BY <1>1, <2>1, NoWidth
    <2>2. CASE s # {}
      <3> DEFINE x == CHOOSE x \in s : TRUE
      <3>1. x \in s
        BY <2>2
      <3> HIDE DEF x
      <3>2. s \ {x} \in SUBSET (DOMAIN u)
        OBVIOUS
      <3>3. g[s] = u[x] + g[s \ {x}]
        BY <1>1, <3>1, <3>2, WidthLess
      <3> QED
        BY <2>2, <3>3 DEF x
    <2> QED
      BY <2>1, <2>2
  <1>4. SumsTo(g, u)
    BY <1>2, <1>3 DEF SumsTo
  <1> QED
    BY <1>4

LEMMA SumIsWidth ==
    ASSUME NEW u \in AnyLine, NEW iter, SumsTo(iter, u), NEW s \in SUBSET (DOMAIN u)
    PROVE  iter[s] = WidthOf(u, s)
  <1> DEFINE wrong == {r \in SUBSET (DOMAIN u) : iter[r] # WidthOf(u, r)}
  <1>1. IsFiniteSet(DOMAIN u)
    <2>1. DOMAIN u = 1 .. Len(u) /\ Len(u) \in Nat
      BY DEF AnyLine
    <2> QED
      BY <2>1, FS_Interval
  <1>2. wrong \subseteq FiniteSubsetsOf(DOMAIN u)
    BY <1>1, FS_Subset DEF FiniteSubsetsOf
  <1>3. ASSUME wrong # {}
        PROVE  FALSE
    <2> HIDE DEF wrong
    <2>1. PICK r \in wrong : \A t \in wrong : <<t, r>> \notin StrictSubsetOrdering(DOMAIN u)
      BY <1>2, <1>3, FS_StrictSubsetOrderingWellFounded, WFMin, Zenon
    <2> USE DEF wrong
    <2>2. r \in SUBSET (DOMAIN u) /\ iter[r] # WidthOf(u, r)
      BY <2>1
    <2> DEFINE x == CHOOSE x \in r : TRUE
    <2>3. iter[r] = IF r = {} THEN 0 ELSE u[x] + iter[r \ {x}]
      BY <2>2 DEF SumsTo
    <2>4. r # {}
      BY <2>2, <2>3, NoWidth
    <2>5. x \in r
      BY <2>4
    <2> HIDE DEF x
    <2>6. WidthOf(u, r) = u[x] + WidthOf(u, r \ {x})
      BY <2>2, <2>5, WidthLess
    <2>7. r \ {x} \in SUBSET (DOMAIN u) /\ r \ {x} # r /\ r \ {x} \subseteq r
      BY <2>2, <2>5
    <2>8. r \ {x} \in wrong
      BY <2>2, <2>3, <2>4, <2>6, <2>7
    <2>9. <<r \ {x}, r>> \in StrictSubsetOrdering(DOMAIN u)
      BY <2>2, <2>7 DEF StrictSubsetOrdering
    <2> QED
      BY <2>1, <2>8, <2>9
  <1> QED
    BY <1>3

(* How far a rune begins from the left: places on the left are passed, each *)
(* of which takes a column or two.                                         *)
LEMMA Columns ==
    ASSUME NEW line \in AnyLine, NEW i \in 0 .. Len(line)
    PROVE  WidthUpTo(line, i) = WidthOf(line, 1 .. i)
  <1> DEFINE u == SubSeq(line, 1, i)
  <1>1. Len(line) \in Nat /\ i \in Nat /\ i <= Len(line) /\ line \in Seq({1, 2})
    BY DEF AnyLine
  <1>2. /\ u \in Seq({1, 2}) /\ Len(u) = (IF 1 <= i THEN i - 1 + 1 ELSE 0)
        /\ \A j \in 1 .. i : u[j] = line[j]
    BY <1>1, SubSeqProperties
  <1>3. u \in AnyLine /\ DOMAIN u = 1 .. i
    BY <1>1, <1>2 DEF AnyLine
  <1>4. WidthUpTo(line, i) = (CHOOSE iter : SumsTo(iter, u))[DOMAIN u]
    BY FoldIs DEF WidthUpTo
  <1> HIDE DEF u
  <1>5. WidthUpTo(line, i) = WidthOf(u, DOMAIN u)
    BY <1>3, <1>4, SumExists, SumIsWidth
  <1>6. {j \in 1 .. i : u[j] = 2} = {j \in 1 .. i : line[j] = 2}
    BY <1>2
  <1> QED
    BY <1>3, <1>5, <1>6 DEF WidthOf

LEMMA ColumnsGrow ==
    ASSUME NEW line \in AnyLine, NEW i \in 0 .. Len(line), NEW k \in 0 .. Len(line), i < k
    PROVE  /\ WidthUpTo(line, i) \in Nat /\ WidthUpTo(line, k) \in Nat
           /\ WidthUpTo(line, i) < WidthUpTo(line, k)
  <1> DEFINE wi == {j \in 1 .. i : line[j] = 2}
             wk == {j \in 1 .. k : line[j] = 2}
  <1>1. i \in Nat /\ k \in Nat
    OBVIOUS
  <1>2. /\ IsFiniteSet(1 .. i) /\ Cardinality(1 .. i) = i
        /\ IsFiniteSet(1 .. k) /\ Cardinality(1 .. k) = k
    <2>1. ASSUME NEW n \in Nat
          PROVE  IsFiniteSet(1 .. n) /\ Cardinality(1 .. n) = n
      <3>1. 1 \in Int /\ n \in Int
        OBVIOUS
      <3>2. /\ IsFiniteSet(1 .. n)
            /\ Cardinality(1 .. n) = IF 1 > n THEN 0 ELSE n - 1 + 1
        BY <3>1, FS_Interval, Zenon
      <3> QED
        BY <3>2
    <2> QED
      BY <1>1, <2>1
  <1>3. wi \subseteq wk /\ wi \subseteq 1 .. i /\ wk \subseteq 1 .. k
    BY <1>1
  <1> HIDE DEF wi, wk
  <1>4. IsFiniteSet(wi) /\ IsFiniteSet(wk)
    BY <1>2, <1>3, FS_Subset
  <1>5. Cardinality(wi) \in Nat /\ Cardinality(wk) \in Nat
    BY <1>4, FS_CardinalityType
  <1>6. Cardinality(wi) <= Cardinality(wk)
    BY <1>3, <1>4, FS_Subset
  <1>7. /\ WidthUpTo(line, i) = Cardinality(1 .. i) + Cardinality(wi)
        /\ WidthUpTo(line, k) = Cardinality(1 .. k) + Cardinality(wk)
    BY Columns DEF WidthOf, wi, wk
  <1> QED
    BY <1>1, <1>2, <1>5, <1>6, <1>7


LEMMA LeastNumber ==
    ASSUME NEW n \in Nat, NEW T \in SUBSET (0 .. n), T # {}
    PROVE  Min(T) \in T /\ \A y \in T : Min(T) <= y
  <1> DEFINE mirrored == {n - y : y \in T}
  <1>1. mirrored \in SUBSET (0 .. n) /\ mirrored # {}
    <2>1. \A y \in T : n - y \in 0 .. n
      OBVIOUS
    <2>2. mirrored \subseteq 0 .. n
      BY <2>1
    <2>3. PICK y \in T : TRUE
      OBVIOUS
    <2>4. n - y \in mirrored
      BY <2>3
    <2> QED
      BY <2>2, <2>4
  <1>2. PICK m \in mirrored : \A y \in mirrored : m >= y
    <2> HIDE DEF mirrored
    <2> QED
      BY <1>1, GreatestNumber
  <1>3. PICK x \in T : m = n - x
    OBVIOUS
  <1>4. \A y \in T : n - y <= n - x
    BY <1>2, <1>3
  <1>5. \A y \in T : x <= y
    BY <1>4
  <1> QED
    BY <1>3, <1>5 DEF Min

(* The runes before a column are those that begin before it.               *)
LEMMA RunesBeginBefore ==
    ASSUME NEW line \in AnyLine, NEW col \in Nat
    PROVE  /\ RunesBefore(line, col) \in 0 .. Len(line)
           /\ \A i \in 0 .. Len(line) - 1 :
                 i < RunesBefore(line, col) <=> WidthUpTo(line, i) < col
  <1> DEFINE n == Len(line)
             T == {i \in 0 .. n - 1 : WidthUpTo(line, i) >= col} \cup {n}
  <1>1. n \in Nat
    BY DEF AnyLine
  <1>2. T \in SUBSET (0 .. n) /\ T # {}
    BY <1>1
  <1> DEFINE m == RunesBefore(line, col)
  <1>3. m \in T /\ \A y \in T : m <= y
    <2>1. m = Min(T)
      BY DEF RunesBefore
    <2> HIDE DEF T, m, n
    <2> QED
      BY <1>1, <1>2, <2>1, LeastNumber
  <1>4. ASSUME NEW i \in 0 .. n
        PROVE  WidthUpTo(line, i) \in Nat
    <2>1. CASE i < n
      <3>1. n \in 0 .. Len(line) /\ i \in 0 .. Len(line)
        BY <1>1
      <3> HIDE DEF n
      <3> QED
        BY <2>1, <3>1, ColumnsGrow
    <2>2. CASE 0 < i
      <3>1. 0 \in 0 .. Len(line) /\ i \in 0 .. Len(line)
        BY <1>1
      <3> HIDE DEF n
      <3> QED
        BY <2>2, <3>1, ColumnsGrow
    <2>3. CASE i = 0 /\ n = 0
      <3>1. WidthUpTo(line, i) = WidthOf(line, {})
        <4>1. 1 .. i = {} /\ i \in 0 .. Len(line)
          BY <1>1, <2>3
        <4> QED
          BY <4>1, Columns
      <3> QED
        BY <3>1, NoWidth
    <2> QED
      BY <1>1, <2>1, <2>2, <2>3
  <1>5. ASSUME NEW i \in 0 .. n - 1, i < m
        PROVE  WidthUpTo(line, i) < col
    <2>1. i \notin T
      BY <1>1, <1>2, <1>3, <1>5
    <2>2. ~(WidthUpTo(line, i) >= col)
      BY <2>1
    <2>3. WidthUpTo(line, i) \in Nat
      BY <1>1, <1>4
    <2> QED
      BY <2>2, <2>3
  <1>6. ASSUME NEW i \in 0 .. n - 1, m <= i
        PROVE  WidthUpTo(line, i) >= col
    <2>1. m \in 0 .. n - 1 /\ WidthUpTo(line, m) >= col
      BY <1>1, <1>2, <1>3, <1>6
    <2>2. CASE m = i
      BY <2>1, <2>2
    <2>3. CASE m < i
      <3>1. m \in 0 .. Len(line) /\ i \in 0 .. Len(line)
        BY <1>1, <2>1
      <3>2. /\ WidthUpTo(line, m) \in Nat /\ WidthUpTo(line, i) \in Nat
            /\ WidthUpTo(line, m) < WidthUpTo(line, i)
        <4> HIDE DEF m
        <4> QED
          BY <2>3, <3>1, ColumnsGrow
      <3> QED
        BY <2>1, <3>2
    <2> QED
      BY <1>1, <1>6, <2>1, <2>2, <2>3
  <1>7. m \in 0 .. n
    BY <1>2, <1>3
  <1>8. ASSUME NEW i \in 0 .. n - 1
        PROVE  i < m <=> WidthUpTo(line, i) < col
    <2>1. WidthUpTo(line, i) \in Nat
      BY <1>1, <1>4
    <2>2. i \in Nat /\ m \in Nat
      BY <1>1, <1>7
    <2> HIDE DEF m, n
    <2> QED
      BY <1>5, <1>6, <2>1, <2>2
  <1> QED
    BY <1>7, <1>8

(* So the runes from one column up to another are the same, whether they   *)
(* are found by their places or by the columns they begin in.              *)
LEMMA SameRunes ==
    ASSUME NEW line \in AnyLine, NEW a \in Nat, NEW b \in Nat
    PROVE  /\ RunesBefore(line, a) + 1 .. RunesBefore(line, b + 1) = InverseRange(line, a, b)
           /\ 1 .. RunesBefore(line, b + 1) = InverseRange(line, 0, b)
           /\ RunesBefore(line, a) + 1 .. Len(line)
                 = InverseRange(line, a, Max({a, WidthUpTo(line, Len(line)) - 1}))
           /\ 1 .. Len(line) = InverseRange(line, 0, Max({0, WidthUpTo(line, Len(line)) - 1}))
  <1> DEFINE n == Len(line)
             W(i) == WidthUpTo(line, i)
             A == RunesBefore(line, a)
             B == RunesBefore(line, b + 1)
             endA == Max({a, W(n) - 1})
             end0 == Max({0, W(n) - 1})
  <1>1. n \in Nat /\ DOMAIN line = 1 .. n
    BY DEF AnyLine
  <1>2. A \in 0 .. n /\ \A i \in 0 .. n - 1 : i < A <=> W(i) < a
    BY RunesBeginBefore
  <1>3. B \in 0 .. n /\ \A i \in 0 .. n - 1 : i < B <=> W(i) < b + 1
    <2>1. b + 1 \in Nat
      OBVIOUS
    <2> QED
      BY <2>1, RunesBeginBefore
  <1>4. ASSUME NEW i \in 1 .. n
        PROVE  /\ i - 1 \in 0 .. n - 1 /\ i \in Nat
               /\ W(i - 1) \in Nat /\ W(n) \in Nat /\ W(i - 1) <= W(n) - 1
    <2>1. i - 1 \in 0 .. n - 1 /\ i \in Nat /\ i - 1 \in 0 .. Len(line) /\ n \in 0 .. Len(line)
          /\ i - 1 < n
      BY <1>1
    <2>2. W(i - 1) \in Nat /\ W(n) \in Nat /\ W(i - 1) < W(n)
      <3> HIDE DEF n
      <3> QED
        BY <2>1, ColumnsGrow
    <2> QED
      BY <2>1, <2>2
  <1>5. ASSUME NEW i \in 1 .. n
        PROVE  W(i - 1) <= endA /\ W(i - 1) <= end0
    <2>1. W(i - 1) \in Nat /\ W(n) \in Nat /\ W(i - 1) <= W(n) - 1
      BY <1>4
    <2> HIDE DEF W, n
    <2>2. endA >= W(n) - 1 /\ endA \in Int
      <3>1. \A x \in Int : Max({a, x}) = IF x > a THEN x ELSE a
        BY DEF Max
      <3>2. W(n) - 1 \in Int
        BY <2>1
      <3> QED
        BY <3>1, <3>2
    <2>3. end0 >= W(n) - 1 /\ end0 \in Int
      <3>1. W(n) - 1 \in Int
        BY <2>1
      <3>2. end0 = IF W(n) - 1 > 0 THEN W(n) - 1 ELSE 0
        BY <3>1, TwoNumbers
      <3> QED
        BY <3>1, <3>2
    <2> HIDE DEF endA, end0
    <2> QED
      BY <2>1, <2>2, <2>3
  <1>6. \A x, y : InverseRange(line, x, y) = {i \in 1 .. n : x <= W(i - 1) /\ W(i - 1) <= y}
    BY <1>1 DEF InverseRange
  <1> HIDE DEF n, W, A, B, endA, end0
  <1>7. A + 1 .. B = {i \in 1 .. n : a <= W(i - 1) /\ W(i - 1) <= b}
    <2>1. ASSUME NEW i \in A + 1 .. B
          PROVE  i \in 1 .. n /\ a <= W(i - 1) /\ W(i - 1) <= b
      <3>1. i \in 1 .. n /\ ~(i - 1 < A) /\ i - 1 < B
        BY <1>1, <1>2, <1>3
      <3>2. ~(W(i - 1) < a) /\ W(i - 1) < b + 1 /\ W(i - 1) \in Nat
        BY <1>2, <1>3, <1>4, <3>1
      <3> QED
        BY <3>1, <3>2
    <2>2. ASSUME NEW i \in 1 .. n, a <= W(i - 1), W(i - 1) <= b
          PROVE  i \in A + 1 .. B
      <3>1. i - 1 \in 0 .. n - 1 /\ i \in Nat /\ W(i - 1) \in Nat
        BY <1>4
      <3>2. ~(W(i - 1) < a) /\ W(i - 1) < b + 1
        BY <2>2, <3>1
      <3>3. ~(i - 1 < A) /\ i - 1 < B
        BY <1>2, <1>3, <3>1, <3>2
      <3> QED
        BY <1>1, <1>2, <1>3, <3>1, <3>3
    <2> QED
      BY <2>1, <2>2
  <1>8. 1 .. B = {i \in 1 .. n : 0 <= W(i - 1) /\ W(i - 1) <= b}
    <2>1. ASSUME NEW i \in 1 .. B
          PROVE  i \in 1 .. n /\ 0 <= W(i - 1) /\ W(i - 1) <= b
      <3>1. i \in 1 .. n /\ i - 1 < B
        BY <1>1, <1>3
      <3>2. W(i - 1) < b + 1 /\ W(i - 1) \in Nat
        BY <1>3, <1>4, <3>1
      <3> QED
        BY <3>1, <3>2
    <2>2. ASSUME NEW i \in 1 .. n, W(i - 1) <= b
          PROVE  i \in 1 .. B
      <3>1. i - 1 \in 0 .. n - 1 /\ i \in Nat /\ W(i - 1) \in Nat
        BY <1>4
      <3>2. W(i - 1) < b + 1
        BY <2>2, <3>1
      <3>3. i - 1 < B
        BY <1>3, <3>1, <3>2
      <3> QED
        BY <1>1, <1>3, <3>1, <3>3
    <2> QED
      BY <2>1, <2>2
  <1>9. A + 1 .. n = {i \in 1 .. n : a <= W(i - 1) /\ W(i - 1) <= endA}
    <2>1. ASSUME NEW i \in A + 1 .. n
          PROVE  i \in 1 .. n /\ a <= W(i - 1) /\ W(i - 1) <= endA
      <3>1. i \in 1 .. n /\ ~(i - 1 < A)
        BY <1>1, <1>2
      <3>2. ~(W(i - 1) < a) /\ W(i - 1) \in Nat
        BY <1>2, <1>4, <3>1
      <3> QED
        BY <1>5, <3>1, <3>2
    <2>2. ASSUME NEW i \in 1 .. n, a <= W(i - 1)
          PROVE  i \in A + 1 .. n
      <3>1. i - 1 \in 0 .. n - 1 /\ i \in Nat /\ W(i - 1) \in Nat
        BY <1>4
      <3>2. ~(i - 1 < A)
        BY <1>2, <2>2, <3>1
      <3> QED
        BY <1>1, <1>2, <3>1, <3>2
    <2> QED
      BY <2>1, <2>2
  <1>10. 1 .. n = {i \in 1 .. n : 0 <= W(i - 1) /\ W(i - 1) <= end0}
    <2>1. \A i \in 1 .. n : 0 <= W(i - 1) /\ W(i - 1) <= end0
      BY <1>4, <1>5
    <2> QED
      BY <2>1
  <1> QED
    BY <1>6, <1>7, <1>8, <1>9, <1>10 DEF n, W, A, B, endA, end0

LEMMA RunesBetween ==
    ASSUME NEW line \in AnyLine, NEW a \in Nat, NEW b \in Nat
    PROVE  RunesBefore(line, a) + 1 .. RunesBefore(line, b + 1) = InverseRange(line, a, b)
  BY SameRunes

LEMMA RunesToEnd ==
    ASSUME NEW line \in AnyLine, NEW a \in Nat
    PROVE  RunesBefore(line, a) + 1 .. Len(line)
             = InverseRange(line, a, Max({a, WidthUpTo(line, Len(line)) - 1}))
  BY SameRunes

(***************************************************************************)
(* The selection is of places on the screen; of what is in view under it,  *)
(* the same runes are copied and highlighted.                              *)
(***************************************************************************)
Place == [row : Nat, col : Nat]

SelectionInd ==
    /\ ScreenInd
    /\ sel \in [anchor : Place, focus : Place, state : {"none", "drag", "done"}]

LEMMA AllLinesIsText == ASSUME ScreenInd PROVE AllLines \in Texted
  <1> DEFINE lines == [i \in DOMAIN msgs |-> RenderMessage(msgs[i])]
  <1>1. msgs \in Seq(ShownMessage)
    BY DEF ScreenInd
  <1>2. lines \in Seq(Texted)
    BY <1>1, Rendered
  <1>3. Len(lines) <= Len(lines) /\ \A i \in 1 .. Len(lines) : Len(lines[i]) <= Len(lines[i])
    <2>1. Len(lines) \in Nat /\ \A i \in 1 .. Len(lines) : lines[i] \in Texted
      BY <1>2
    <2>2. \A i \in 1 .. Len(lines) : Len(lines[i]) \in Nat
      BY <2>1 DEF Texted
    <2> HIDE DEF lines
    <2> QED
      BY <2>1, <2>2
  <1>4. FlattenSeq(lines) \in Texted
    <2> HIDE DEF lines
    <2> QED
      BY <1>2, <1>3, FlattenGrows
  <1> QED
    BY <1>4 DEF AllLines

LEMMA ViewIsText ==
    ASSUME ScreenInd, WindowStart < Len(AllLines)
    PROVE  View \in Texted
  <1>1. AllLines \in Texted
    BY AllLinesIsText
  <1> DEFINE total == Len(AllLines)
             end == Min({WindowStart + height, total})
  <1>2. total \in Nat
    BY <1>1 DEF Texted
  <1>3. height \in Nat /\ yOffset \in Nat
    BY HeightIsNat DEF ScreenInd
  <1>4. WindowStart \in Nat
    BY <1>2, <1>3 DEF WindowStart
  <1>5. end \in 0 .. total
    <2>1. WindowStart + height \in Int /\ total \in Int
      BY <1>2, <1>3, <1>4
    <2>2. end = IF WindowStart + height <= total THEN WindowStart + height ELSE total
      <3>1. ASSUME NEW x \in Int, NEW y \in Int PROVE Min({x, y}) = IF x <= y THEN x ELSE y
        BY DEF Min
      <3> HIDE DEF total
      <3> QED
        BY <2>1, <3>1
    <2> HIDE DEF total, end
    <2> QED
      BY <1>2, <1>3, <1>4, <2>2
  <1>6. WindowStart + 1 \in 1 .. total + 1
    BY <1>2, <1>4
  <1>7. View = SubSeq(AllLines, WindowStart + 1, end)
    BY DEF View
  <1> HIDE DEF end
  <1> QED
    BY <1>1, <1>5, <1>6, <1>7, SubSeqProperties DEF Texted

LEMMA SameSelected ==
    ASSUME NEW content \in Texted, NEW from \in Place, NEW to \in Place
    PROVE  SelectedText(content, from, to) = Highlighted(content, from, to)
  <1> DEFINE last == LastSelected(content, to)
             line(r) == content[r + 1]
             startRune(r) == IF r = from.row THEN RunesBefore(line(r), from.col) ELSE 0
             endRune(r) == IF r = last THEN RunesBefore(line(r), to.col + 1) ELSE Len(line(r))
             startCol(r) == IF r = from.row THEN from.col ELSE 0
             endCol(r) == IF r = last THEN to.col
                          ELSE Max({startCol(r), WidthUpTo(line(r), Len(line(r))) - 1})
             copied(r) == {<<r, i>> : i \in startRune(r) + 1 .. endRune(r)}
             shown(r) == {<<r, i>> : i \in InverseRange(line(r), startCol(r), endCol(r))}
  <1>1. from.row \in Nat /\ from.col \in Nat /\ to.row \in Nat /\ to.col \in Nat
    BY DEF Place
  <1>2. Len(content) \in Nat
    BY DEF Texted
  <1>3. last \in Int /\ last <= Len(content) - 1
    <2>1. to.row \in Int /\ Len(content) - 1 \in Int
      BY <1>1, <1>2
    <2>2. ASSUME NEW x \in Int, NEW y \in Int PROVE Min({x, y}) = IF x <= y THEN x ELSE y
      BY DEF Min
    <2>3. last = IF to.row <= Len(content) - 1 THEN to.row ELSE Len(content) - 1
      BY <2>1, <2>2 DEF LastSelected
    <2> HIDE DEF last
    <2> QED
      BY <2>1, <2>3
  <1> HIDE DEF last
  <1>4. ASSUME NEW r \in from.row .. last
        PROVE  startRune(r) + 1 .. endRune(r) = InverseRange(line(r), startCol(r), endCol(r))
    <2>1. r + 1 \in 1 .. Len(content)
      BY <1>1, <1>2, <1>3
    <2> DEFINE l == line(r)
    <2>2. l \in AnyLine
      BY <2>1 DEF Texted
    <2>3. CASE r = from.row /\ r = last
      <3>1. /\ startRune(r) = RunesBefore(l, from.col) /\ startCol(r) = from.col
            /\ endRune(r) = RunesBefore(l, to.col + 1) /\ endCol(r) = to.col
        BY <2>3
      <3> HIDE DEF line, l, startRune, endRune, startCol, endCol
      <3>2. RunesBefore(l, from.col) + 1 .. RunesBefore(l, to.col + 1)
              = InverseRange(l, from.col, to.col)
        BY <1>1, <2>2, RunesBetween
      <3> QED
        BY <3>1, <3>2 DEF l
    <2>4. CASE r = from.row /\ r # last
      <3>1. /\ startRune(r) = RunesBefore(l, from.col) /\ startCol(r) = from.col
            /\ endRune(r) = Len(l) /\ endCol(r) = Max({from.col, WidthUpTo(l, Len(l)) - 1})
        BY <2>4
      <3> HIDE DEF line, l, startRune, endRune, startCol, endCol
      <3>2. RunesBefore(l, from.col) + 1 .. Len(l)
              = InverseRange(l, from.col, Max({from.col, WidthUpTo(l, Len(l)) - 1}))
        BY <1>1, <2>2, RunesToEnd
      <3> QED
        BY <3>1, <3>2 DEF l
    <2>5. CASE r # from.row /\ r = last
      <3>1. /\ startRune(r) = 0 /\ startCol(r) = 0
            /\ endRune(r) = RunesBefore(l, to.col + 1) /\ endCol(r) = to.col
        BY <2>5
      <3> HIDE DEF line, l, startRune, endRune, startCol, endCol
      <3>2. 1 .. RunesBefore(l, to.col + 1) = InverseRange(l, 0, to.col)
        BY <1>1, <2>2, SameRunes
      <3>3. 0 + 1 = 1
        OBVIOUS
      <3> QED
        BY <3>1, <3>2, <3>3 DEF l
    <2>6. CASE r # from.row /\ r # last
      <3>1. /\ startRune(r) = 0 /\ startCol(r) = 0
            /\ endRune(r) = Len(l) /\ endCol(r) = Max({0, WidthUpTo(l, Len(l)) - 1})
        BY <2>6
      <3> HIDE DEF line, l, startRune, endRune, startCol, endCol
      <3>2. 1 .. Len(l) = InverseRange(l, 0, Max({0, WidthUpTo(l, Len(l)) - 1}))
        BY <2>2, SameRunes
      <3>3. 0 + 1 = 1
        OBVIOUS
      <3> QED
        BY <3>1, <3>2, <3>3 DEF l
    <2> QED
      BY <2>3, <2>4, <2>5, <2>6
  <1>5. \A r \in from.row .. last : copied(r) = shown(r)
    <2> HIDE DEF startRune, endRune, startCol, endCol, line
    <2> QED
      BY <1>4
  <1>6. {copied(r) : r \in from.row .. last} = {shown(r) : r \in from.row .. last}
    <2> HIDE DEF copied, shown
    <2> QED
      BY <1>5
  <1>7. SelectedText(content, from, to) = UNION {copied(r) : r \in from.row .. last}
    BY DEF SelectedText, last
  <1>8. Highlighted(content, from, to) = UNION {shown(r) : r \in from.row .. last}
    BY DEF Highlighted, last
  <1> QED
    BY <1>6, <1>7, <1>8

LEMMA SelectionStart == ScreenInit => SelectionInd
  BY ScreenStart DEF ScreenInit, SelectionInd, NoSelection, Place

LEMMA ViewLength == ASSUME ScreenInd PROVE Len(View) \in Int
  <1>1. AllLines \in Texted
    BY AllLinesIsText
  <1>2. WindowStart + 1 \in Int /\ Min({WindowStart + height, Len(AllLines)}) \in Int
    <2>1. Len(AllLines) \in Nat /\ height \in Nat /\ yOffset \in Nat
      BY <1>1, HeightIsNat DEF ScreenInd, Texted
    <2>2. WindowStart \in Int
      BY <2>1 DEF WindowStart
    <2>3. ASSUME NEW x \in Int, NEW y \in Int PROVE Min({x, y}) \in Int
      BY DEF Min
    <2>4. WindowStart + height \in Int /\ Len(AllLines) \in Int
      BY <2>1, <2>2
    <2> QED
      BY <2>2, <2>3, <2>4
  <1>3. ASSUME NEW a \in Int, NEW b \in Int
        PROVE  Len(SubSeq(AllLines, a, b)) \in Int
    BY <1>1 DEF Texted
  <1> QED
    BY <1>2, <1>3 DEF View

(* A click or a drag is on the screen, and not below what it shows.        *)
LEMMA ClampedIsPlace ==
    ASSUME ScreenInd, NEW p \in Points
    PROVE  Clamped(p) \in Place
  <1>1. p.row \in Nat /\ p.col \in Nat /\ p = [row |-> p.row, col |-> p.col]
    BY DEF Points
  <1>2. p \in Place
    BY <1>1 DEF Place
  <1>3. CASE p.row < Len(View)
    BY <1>2, <1>3 DEF Clamped
  <1>4. CASE ~(p.row < Len(View))
    <2>1. Len(View) - 1 \in Int
      BY ViewLength
    <2>2. Max({0, Len(View) - 1}) \in Nat
      <3>1. Max({0, Len(View) - 1}) = IF Len(View) - 1 > 0 THEN Len(View) - 1 ELSE 0
        BY <2>1, TwoNumbers
      <3> QED
        BY <2>1, <3>1
    <2> QED
      BY <1>2, <1>4, <2>2 DEF Clamped, Place
  <1> QED
    BY <1>3, <1>4

LEMMA SelectionStep == SelectionInd /\ ScreenInd' /\ [ScreenNext]_screenVars => SelectionInd'
  <1> SUFFICES ASSUME SelectionInd, ScreenInd', [ScreenNext]_screenVars PROVE SelectionInd'
    OBVIOUS
  <1> DEFINE Selections == [anchor : Place, focus : Place, state : {"none", "drag", "done"}]
  <1>1. sel \in Selections /\ ScreenInd
    BY DEF SelectionInd
  <1>2. NoSelection \in Selections
    BY DEF NoSelection, Place
  <1>3. CASE sel' = sel \/ sel' = NoSelection
    BY <1>1, <1>2, <1>3 DEF SelectionInd
  <1>4. CASE MouseClick
    <2>1. PICK p \in Points :
            sel' = [anchor |-> Clamped(p), focus |-> Clamped(p), state |-> "drag"]
      BY <1>4 DEF MouseClick
    <2>2. Clamped(p) \in Place
      BY <1>1, ClampedIsPlace
    <2> QED
      BY <2>1, <2>2 DEF SelectionInd
  <1>5. CASE MouseMotion
    <2>1. PICK p \in Points : sel' = [sel EXCEPT !.focus = Clamped(p)]
      BY <1>5 DEF MouseMotion
    <2>2. Clamped(p) \in Place
      BY <1>1, ClampedIsPlace
    <2> QED
      BY <1>1, <2>1, <2>2 DEF SelectionInd
  <1>6. CASE MouseRelease
    <2>1. sel' = NoSelection \/ sel' = [sel EXCEPT !.state = "done"]
      BY <1>6 DEF MouseRelease
    <2> QED
      BY <1>1, <1>2, <2>1 DEF SelectionInd
  <1>7. CASE AppendMessage \/ StreamChunk \/ ToolEnd \/ ToggleFold \/ ClearScreen
             \/ ScrollUp \/ ScrollDown \/ ResizeTranscript
    <2>1. sel' = sel
      BY <1>7 DEF AppendMessage, StreamChunk, ToolEnd, ToggleFold, ClearScreen, ScrollUp,
                  ScrollDown, ResizeTranscript
    <2> QED
      BY <1>3, <2>1
  <1>8. CASE WindowSize \/ CopyOrDrop
    <2>1. sel' = NoSelection
      BY <1>8 DEF WindowSize, CopyOrDrop
    <2> QED
      BY <1>3, <2>1
  <1>9. CASE UNCHANGED screenVars
    BY <1>3, <1>9 DEF screenVars
  <1> QED
    BY <1>4, <1>5, <1>6, <1>7, <1>8, <1>9 DEF ScreenNext

(* For any texts, with narrow and wide runes, and any two places of the    *)
(* screen: the runes that are copied are those that were highlighted, even *)
(* when the transcript has moved under the selection (SelectedText and     *)
(* applySelectionToContent, selection.go:219, 273).                        *)
THEOREM ScreenCopies == ScreenSpec => []CopiedIsHighlighted
  <1>1. SelectionInd => CopiedIsHighlighted
    <2> SUFFICES ASSUME SelectionInd, WindowStart < Len(AllLines)
                 PROVE  SelectedText(View, Bounds[1], Bounds[2])
                          = Highlighted(View, Bounds[1], Bounds[2])
      BY DEF CopiedIsHighlighted
    <2>1. View \in Texted
      BY ViewIsText DEF SelectionInd
    <2>2. Bounds[1] \in Place /\ Bounds[2] \in Place
      BY DEF SelectionInd, Bounds
    <2> QED
      BY <2>1, <2>2, SameSelected
  <1>2. SelectionInd /\ [ScreenNext]_screenVars => SelectionInd'
    BY ScreenIndStep, SelectionStep DEF SelectionInd
  <1> QED
    BY SelectionStart, <1>1, <1>2, PTL DEF ScreenSpec

LEMMA ScreenBounds ==
    /\ Max(Heights) \in Nat /\ Max(Heights) >= 1
    /\ MaxMessages \in Nat /\ MaxCol \in Nat /\ MaxLines \in Nat /\ MaxLines >= 1
  <1>1. Max(Heights) \in Heights
    BY ScreenAssumption, GreatestOfFinite
  <1>2. Max(Heights) \in Nat \ {0}
    BY <1>1, ScreenAssumption
  <1>3. MaxMessages \in Nat /\ MaxCol \in Nat /\ MaxLines \in Nat \ {0}
    BY ScreenAssumption
  <1> QED
    BY <1>2, <1>3

LEMMA Longer ==
    ASSUME NEW S, NEW n \in Nat
    PROVE  /\ <<>> \in BoundedSeq(S, n)
           /\ n >= 1 => \A e \in S : <<e>> \in BoundedSeq(S, n)
           /\ \A s \in BoundedSeq(S, n) :
                 Len(s) < n => \A e \in S : Append(s, e) \in BoundedSeq(S, n)
  <1>1. BoundedSeq(S, n) = UNION {[1 .. m -> S] : m \in 0 .. n}
    BY DEF BoundedSeq, SeqOf
  <1>2. ASSUME NEW m \in 0 .. n, NEW s \in [1 .. m -> S]
        PROVE  s \in BoundedSeq(S, n)
    BY <1>1
  <1>3. <<>> \in BoundedSeq(S, n)
    <2>1. 0 \in 0 .. n /\ <<>> \in [1 .. 0 -> S]
      OBVIOUS
    <2> QED
      BY <1>2, <2>1
  <1>4. ASSUME n >= 1, NEW e \in S PROVE <<e>> \in BoundedSeq(S, n)
    <2>1. 1 \in 0 .. n /\ <<e>> \in [1 .. 1 -> S]
      BY <1>4
    <2> QED
      BY <1>2, <2>1
  <1>5. ASSUME NEW s \in BoundedSeq(S, n), Len(s) < n, NEW e \in S
        PROVE  Append(s, e) \in BoundedSeq(S, n)
    <2>1. PICK m \in 0 .. n : s \in [1 .. m -> S]
      BY <1>1
    <2>2. s \in Seq(S) /\ Len(s) = m
      BY <2>1
    <2>3. m + 1 \in 0 .. n
      BY <1>5, <2>2
    <2>4. Append(s, e) \in Seq(S) /\ Len(Append(s, e)) = m + 1
      BY <2>2
    <2>5. ASSUME NEW t \in Seq(S) PROVE t \in [1 .. Len(t) -> S]
      OBVIOUS
    <2>6. Append(s, e) \in [1 .. m + 1 -> S]
      BY <2>4, <2>5
    <2> QED
      BY <1>2, <2>3, <2>6
  <1> QED
    BY <1>3, <1>4, <1>5

(***************************************************************************)
(* The types of the transcript and of the selection.                       *)
(***************************************************************************)
MessageTypes == msgs \in Seq(Message) /\ Len(msgs) <= MaxMessages

Selections == [anchor : Points, focus : Points, state : {"none", "drag", "done"}]

LEMMA ClampedOnScreen ==
    ASSUME ScreenInd, NEW p \in Points
    PROVE  Clamped(p) \in Points
  <1>1. p.row \in 0 .. Max(Heights) - 1 /\ p.col \in 0 .. MaxCol
        /\ p = [row |-> p.row, col |-> p.col]
    BY DEF Points
  <1>2. CASE p.row < Len(View)
    BY <1>2 DEF Clamped
  <1>3. CASE ~(p.row < Len(View))
    <2>1. Len(View) \in Int
      BY ViewLength
    <2>2. Max({0, Len(View) - 1}) = IF Len(View) - 1 > 0 THEN Len(View) - 1 ELSE 0
      BY <2>1, TwoNumbers
    <2>3. Max({0, Len(View) - 1}) \in 0 .. Max(Heights) - 1
      BY <1>1, <1>3, <2>1, <2>2, ScreenBounds
    <2>4. Clamped(p) = [row |-> Max({0, Len(View) - 1}), col |-> p.col]
      BY <1>1, <1>3 DEF Clamped
    <2> QED
      BY <1>1, <2>3, <2>4 DEF Points
  <1> QED
    BY <1>2, <1>3

LEMMA SelectionTyped ==
    ASSUME ScreenInd, sel \in Selections, [ScreenNext]_screenVars
    PROVE  sel' \in Selections
  <1>1. NoSelection \in Selections
    <2>1. 0 \in 0 .. Max(Heights) - 1 /\ 0 \in 0 .. MaxCol
      BY ScreenBounds
    <2> QED
      BY <2>1 DEF NoSelection, Selections, Points
  <1>2. CASE sel' = sel \/ sel' = NoSelection
    BY <1>1, <1>2
  <1>3. CASE MouseClick
    <2>1. PICK p \in Points :
            sel' = [anchor |-> Clamped(p), focus |-> Clamped(p), state |-> "drag"]
      BY <1>3 DEF MouseClick
    <2> QED
      BY <2>1, ClampedOnScreen DEF Selections
  <1>4. CASE MouseMotion
    <2>1. PICK p \in Points : sel' = [sel EXCEPT !.focus = Clamped(p)]
      BY <1>4 DEF MouseMotion
    <2>2. Clamped(p) \in Points
      BY ClampedOnScreen
    <2> QED
      BY <2>1, <2>2 DEF Selections
  <1>5. CASE MouseRelease
    <2>1. sel' = NoSelection \/ sel' = [sel EXCEPT !.state = "done"]
      BY <1>5 DEF MouseRelease
    <2> QED
      BY <1>1, <2>1 DEF Selections
  <1> QED
    BY <1>2, <1>3, <1>4, <1>5 DEF ScreenNext, AppendMessage, StreamChunk, ToolEnd, ToggleFold,
       ClearScreen, ScrollUp, ScrollDown, ResizeTranscript, WindowSize, CopyOrDrop, screenVars,
       transcriptVars

LEMMA MessagesTyped ==
    ASSUME ScreenInd, MessageTypes, [ScreenNext]_screenVars
    PROVE  MessageTypes'
  <1>0. msgs \in Seq(Message) /\ Len(msgs) <= MaxMessages
    BY DEF MessageTypes
  <1>1. CASE msgs' = msgs \/ msgs' = <<>>
    <2>1. <<>> \in Seq(Message) /\ Len(<<>>) <= MaxMessages
      BY ScreenBounds
    <2> QED
      BY <1>0, <1>1, <2>1 DEF MessageTypes
  <1>2. CASE AppendMessage
    <2>1. PICK line \in Lines :
            msgs' = Append(msgs, [lines |-> <<line>>, output |-> <<>>, collapsed |-> FALSE])
      BY <1>2 DEF AppendMessage
    <2>2. <<line>> \in BoundedSeq(Lines, MaxLines)
      BY ScreenBounds, Longer
    <2> DEFINE new == [lines |-> <<line>>, output |-> <<>>, collapsed |-> FALSE]
    <2>3. new \in Message
      BY <2>2 DEF Message
    <2>4. msgs' = Append(msgs, new) /\ Len(msgs) < MaxMessages
      BY <1>2, <2>1 DEF AppendMessage
    <2> HIDE DEF new
    <2>5. msgs' \in Seq(Message) /\ Len(msgs') = Len(msgs) + 1 /\ Len(msgs) \in Nat
      BY <1>0, <2>3, <2>4
    <2> QED
      BY <2>4, <2>5, ScreenBounds DEF MessageTypes
  <1>3. ASSUME NEW k \in DOMAIN msgs, NEW new \in Message, msgs' = [msgs EXCEPT ![k] = new]
        PROVE  MessageTypes'
    <2>1. msgs' \in Seq(Message) /\ Len(msgs') = Len(msgs)
      BY <1>0, <1>3
    <2> QED
      BY <1>0, <2>1 DEF MessageTypes
  <1>4. CASE StreamChunk
    <2> DEFINE k == Len(msgs)
    <2>1. k \in DOMAIN msgs
      BY <1>4, LastIndex DEF StreamChunk
    <2>2. PICK line \in Lines : msgs' = [msgs EXCEPT ![k].lines = Append(@, line)]
      BY <1>4 DEF StreamChunk
    <2>3. Len(msgs[k].lines) < MaxLines
      BY <1>4 DEF StreamChunk, Last
    <2> HIDE DEF k
    <2>4. msgs[k] \in Message
      BY <1>0, <2>1
    <2>5. Append(msgs[k].lines, line) \in BoundedSeq(Lines, MaxLines)
      <3>1. msgs[k].lines \in BoundedSeq(Lines, MaxLines)
        BY <2>4 DEF Message
      <3> QED
        BY <2>3, <3>1, ScreenBounds, Longer
    <2> DEFINE new == [msgs[k] EXCEPT !.lines = Append(msgs[k].lines, line)]
    <2>6. new \in Message
      BY <2>4, <2>5 DEF Message
    <2>7. msgs' = [msgs EXCEPT ![k] = new]
      BY <2>2
    <2> HIDE DEF new
    <2> QED
      BY <1>3, <2>1, <2>6, <2>7
  <1>5. CASE ToolEnd
    <2>1. PICK k \in DOMAIN msgs : \E out \in Outputs :
              msgs' = [msgs EXCEPT ![k].output = out, ![k].collapsed = TRUE]
      BY <1>5 DEF ToolEnd
    <2>2. PICK out \in Outputs : msgs' = [msgs EXCEPT ![k].output = out, ![k].collapsed = TRUE]
      BY <2>1
    <2>3. msgs[k] \in Message
      BY <1>0
    <2> DEFINE new == [msgs[k] EXCEPT !.output = out, !.collapsed = TRUE]
    <2>4. new \in Message
      BY <2>3 DEF Message
    <2>5. msgs' = [msgs EXCEPT ![k] = new]
      BY <1>0, <2>2
    <2> HIDE DEF new
    <2> QED
      BY <1>3, <2>4, <2>5
  <1>6. CASE ToggleFold
    <2>1. PICK k \in DOMAIN msgs : msgs' = [msgs EXCEPT ![k].collapsed = ~@]
      BY <1>6 DEF ToggleFold
    <2>2. msgs[k] \in Message
      BY <1>0
    <2> DEFINE new == [msgs[k] EXCEPT !.collapsed = ~msgs[k].collapsed]
    <2>3. new \in Message
      BY <2>2 DEF Message
    <2>4. msgs' = [msgs EXCEPT ![k] = new]
      BY <2>1
    <2> HIDE DEF new
    <2> QED
      BY <1>3, <2>3, <2>4
  <1> QED
    BY <1>1, <1>2, <1>4, <1>5, <1>6 DEF ScreenNext, ClearScreen, ScrollUp, ScrollDown,
       ResizeTranscript, WindowSize, MouseClick, MouseMotion, MouseRelease, CopyOrDrop,
       screenVars, transcriptVars

(***************************************************************************)
(* The transcript holds as many messages, and each as many lines, as it    *)
(* may; and whatever is clicked, and wherever the drag goes, the selection *)
(* is on the screen (selection.go:57).                                     *)
(***************************************************************************)
THEOREM ScreenTypeCorrect == ScreenSpec => []ScreenTypeOK
  <1> DEFINE Inv == ScreenInd /\ MessageTypes /\ sel \in Selections
  <1>1. ScreenInit => Inv
    <2>1. ASSUME ScreenInit PROVE MessageTypes /\ sel \in Selections
      <3>1. <<>> \in Seq(Message) /\ Len(<<>>) <= MaxMessages
        BY ScreenBounds
      <3>2. 0 \in 0 .. Max(Heights) - 1 /\ 0 \in 0 .. MaxCol
        BY ScreenBounds
      <3> QED
        BY <2>1, <3>1, <3>2 DEF ScreenInit, MessageTypes, NoSelection, Selections, Points
    <2> QED
      BY <2>1, ScreenStart
  <1>2. Inv /\ [ScreenNext]_screenVars => Inv'
    <2>1. ASSUME Inv, [ScreenNext]_screenVars PROVE sel' \in Selections'
      BY <2>1, SelectionTyped DEF Selections, Points
    <2> QED
      BY <2>1, ScreenIndStep, MessagesTyped
  <1>3. Inv => ScreenTypeOK
    BY DEF ScreenInd, MessageTypes, Selections, ScreenTypeOK
  <1> QED
    BY <1>1, <1>2, <1>3, PTL DEF ScreenSpec

-----------------------------------------------------------------------------
(***************************************************************************)
(* The composer.  After any edit the cursor is in the text: in one of its  *)
(* lines, and not past the end of that line.  The window of the lines that *)
(* are shown contains the cursor's.                                        *)
(***************************************************************************)
Text == {t \in Seq(Nat) : Len(t) >= 1}

InText(c) ==
    /\ c \in [lines : Text, row : Nat, col : Nat]
    /\ c.row < Len(c.lines) /\ c.col <= c.lines[c.row + 1]

LEMMA InTextRecord ==
    ASSUME NEW lines \in Text, NEW row \in Nat, NEW col \in Nat, NEW at,
           row < Len(lines), at = row + 1, col <= lines[at]
    PROVE  InText([lines |-> lines, row |-> row, col |-> col])
  BY DEF InText

LEMMA InTextParts ==
    ASSUME NEW c, InText(c)
    PROVE  /\ c = [lines |-> c.lines, row |-> c.row, col |-> c.col]
           /\ c.lines \in Seq(Nat) /\ Len(c.lines) \in Nat /\ c.row \in Nat /\ c.col \in Nat
           /\ c.row + 1 \in 1 .. Len(c.lines) /\ c.lines[c.row + 1] \in Nat
           /\ AtCursor(c) = c.lines[c.row + 1] /\ c.col <= AtCursor(c)
           /\ c.row <= LastRow(c)
  BY DEF InText, Text, AtCursor, LineLength, LastRow

LEMMA TextsAreText == Texts \subseteq Text
  <1> SUFFICES ASSUME NEW t \in Texts PROVE t \in Text
    OBVIOUS
  <1>1. PICK n \in 1 .. MaxRows : t \in [1 .. n -> 0 .. MaxCols]
    BY DEF Texts
  <1>2. n \in Nat /\ n >= 1 /\ MaxCols \in Nat
    BY EditorAssumption
  <1>3. t \in Seq(Nat) /\ Len(t) = n
    BY <1>1, <1>2
  <1> QED
    BY <1>2, <1>3 DEF Text

LEMMA ClearedInText == InText(Cleared)
  BY DEF Cleared, NoText, InText, Text

LEMMA SetInputInText ==
    ASSUME NEW text \in Text
    PROVE  InText(SetInput(text)) /\ InText([SetInput(text) EXCEPT !.row = 0, !.col = 0])
  <1>1. /\ text \in Seq(Nat) /\ Len(text) \in Nat /\ Len(text) >= 1
        /\ Len(text) - 1 \in Nat /\ (Len(text) - 1) + 1 = Len(text)
        /\ text[Len(text)] \in Nat /\ text[1] \in Nat
    BY DEF Text
  <1>2. SetInput(text) = [lines |-> text, row |-> Len(text) - 1, col |-> text[Len(text)]]
    BY DEF SetInput, Last
  <1>3. InText([lines |-> text, row |-> Len(text) - 1, col |-> text[Len(text)]])
    <2> DEFINE row == Len(text) - 1
               at == Len(text)
    <2>1. row \in Nat /\ row < Len(text) /\ at = row + 1 /\ text[at] \in Nat /\ text[at] <= text[at]
      BY <1>1
    <2> HIDE DEF row, at
    <2>2. InText([lines |-> text, row |-> row, col |-> text[at]])
      BY <2>1, InTextRecord
    <2> QED
      BY <2>2 DEF row, at
  <1>4. [SetInput(text) EXCEPT !.row = 0, !.col = 0] = [lines |-> text, row |-> 0, col |-> 0]
    <2> DEFINE row == Len(text) - 1
               col == text[Len(text)]
    <2>1. SetInput(text) = [lines |-> text, row |-> row, col |-> col]
      BY <1>2
    <2> HIDE DEF row, col
    <2>2. [SetInput(text) EXCEPT !.row = 0, !.col = 0] = [[SetInput(text) EXCEPT !.row = 0] EXCEPT !.col = 0]
      BY <2>1
    <2>3. [SetInput(text) EXCEPT !.row = 0] = [lines |-> text, row |-> 0, col |-> col]
      BY <2>1
    <2>4. [[lines |-> text, row |-> 0, col |-> col] EXCEPT !.col = 0] = [lines |-> text, row |-> 0, col |-> 0]
      OBVIOUS
    <2> QED
      BY <2>2, <2>3, <2>4
  <1>5. InText([lines |-> text, row |-> 0, col |-> 0])
    <2>1. 0 < Len(text) /\ 1 = 0 + 1 /\ 0 <= text[1]
      BY <1>1
    <2> QED
      BY <2>1, InTextRecord
  <1> QED
    BY <1>2, <1>3, <1>4, <1>5

(* The line that ends the middle of three parts.                           *)
LEMMA ThreeParts ==
    ASSUME NEW pre \in Seq(Nat), NEW mid \in Seq(Nat), NEW post \in Seq(Nat), Len(mid) >= 1
    PROVE  /\ pre \o mid \o post \in Text
           /\ Len(pre) + Len(mid) - 1 < Len(pre \o mid \o post)
           /\ (pre \o mid \o post)[Len(pre) + Len(mid)] = mid[Len(mid)]
  <1>1. /\ Len(pre) \in Nat /\ Len(mid) \in Nat /\ Len(post) \in Nat
    OBVIOUS
  <1>2. /\ pre \o mid \in Seq(Nat) /\ Len(pre \o mid) = Len(pre) + Len(mid)
        /\ (pre \o mid)[Len(pre) + Len(mid)] = mid[Len(mid)]
    <2>1. (pre \o mid)[Len(pre) + Len(mid)]
          = IF Len(pre) + Len(mid) <= Len(pre) THEN pre[Len(pre) + Len(mid)]
            ELSE mid[(Len(pre) + Len(mid)) - Len(pre)]
      BY <1>1, ConcatProperties
    <2>2. ~(Len(pre) + Len(mid) <= Len(pre)) /\ (Len(pre) + Len(mid)) - Len(pre) = Len(mid)
      BY <1>1
    <2> QED
      BY <2>1, <2>2, ConcatProperties
  <1>3. /\ (pre \o mid) \o post \in Seq(Nat)
        /\ Len((pre \o mid) \o post) = Len(pre) + Len(mid) + Len(post)
        /\ ((pre \o mid) \o post)[Len(pre) + Len(mid)] = (pre \o mid)[Len(pre) + Len(mid)]
    <2>1. Len(pre) + Len(mid) \in 1 .. Len(pre \o mid) + Len(post)
      BY <1>1, <1>2
    <2> QED
      BY <1>1, <1>2, <2>1, ConcatProperties
  <1> QED
    BY <1>1, <1>2, <1>3 DEF Text

LEMMA SubLines ==
    ASSUME NEW lines \in Seq(Nat), NEW r \in Nat, r <= Len(lines), NEW q \in Nat, q >= 1
    PROVE  /\ SubSeq(lines, 1, r) \in Seq(Nat) /\ Len(SubSeq(lines, 1, r)) = r
           /\ SubSeq(lines, q, Len(lines)) \in Seq(Nat)
  <1>1. Len(lines) \in Nat /\ \A i \in 1 .. Len(lines) : lines[i] \in Nat
    OBVIOUS
  <1>2. \A i \in 1 .. r : lines[i] \in Nat
    BY <1>1
  <1>3. \A i \in q .. Len(lines) : lines[i] \in Nat
    BY <1>1
  <1>4. /\ SubSeq(lines, 1, r) \in Seq(Nat)
        /\ Len(SubSeq(lines, 1, r)) = IF 1 <= r THEN r - 1 + 1 ELSE 0
    BY <1>2, SubSeqProperties
  <1>5. SubSeq(lines, q, Len(lines)) \in Seq(Nat)
    BY <1>1, <1>3, SubSeqProperties
  <1> QED
    BY <1>4, <1>5

LEMMA InsertRuneInText == ASSUME NEW c, InText(c) PROVE InText(InsertRune(c))
  <1> DEFINE lines == [c.lines EXCEPT ![c.row + 1] = @ + 1]
  <1>1. /\ c.lines \in Seq(Nat) /\ Len(c.lines) \in Nat /\ c.row \in Nat /\ c.col \in Nat
        /\ c.row + 1 \in 1 .. Len(c.lines) /\ c.lines[c.row + 1] \in Nat
        /\ c.col <= c.lines[c.row + 1]
        /\ c = [lines |-> c.lines, row |-> c.row, col |-> c.col]
    BY InTextParts
  <1>2. /\ lines \in Seq(Nat) /\ Len(lines) = Len(c.lines)
        /\ lines[c.row + 1] = c.lines[c.row + 1] + 1
    BY <1>1
  <1>3. InsertRune(c) = [lines |-> lines, row |-> c.row, col |-> c.col + 1]
    <2>1. InsertRune(c) = [[c EXCEPT !.lines = lines] EXCEPT !.col = c.col + 1]
      BY <1>1 DEF InsertRune
    <2> HIDE DEF lines
    <2> QED
      BY <1>1, <2>1
  <1> HIDE DEF lines
  <1>4. lines \in Text /\ c.row < Len(lines) /\ c.col + 1 <= lines[c.row + 1] /\ c.col + 1 \in Nat
    BY <1>1, <1>2 DEF Text
  <1> QED
    BY <1>1, <1>3, <1>4, InTextRecord

LEMMA InsertLinesInText ==
    ASSUME NEW c, InText(c), NEW text \in Text
    PROVE  InText(InsertLines(c, text))
  <1> DEFINE after == AtCursor(c) - c.col
             first == c.col + Head(text)
             pre == SubSeq(c.lines, 1, c.row)
             mid == IF Len(text) = 1 THEN <<first + after>>
                    ELSE <<first>> \o SubSeq(text, 2, Len(text) - 1) \o <<Last(text) + after>>
             post == SubSeq(c.lines, c.row + 2, Len(c.lines))
             col == IF Len(text) = 1 THEN first ELSE Last(text)
  <1>1. /\ c.lines \in Seq(Nat) /\ Len(c.lines) \in Nat /\ c.row \in Nat /\ c.col \in Nat
        /\ c.row <= Len(c.lines) /\ AtCursor(c) \in Nat /\ c.col <= AtCursor(c)
    BY InTextParts
  <1>2. /\ text \in Seq(Nat) /\ Len(text) \in Nat /\ Len(text) >= 1
        /\ Head(text) \in Nat /\ Last(text) \in Nat
    BY DEF Text, Last
  <1>3. after \in Nat /\ first \in Nat
    BY <1>1, <1>2
  <1> HIDE DEF after, first
  <1>4. /\ pre \in Seq(Nat) /\ Len(pre) = c.row /\ post \in Seq(Nat)
    <2>1. c.row + 2 \in Nat /\ c.row + 2 >= 1
      BY <1>1
    <2> QED
      BY <1>1, <2>1, SubLines
  <1>5. /\ mid \in Seq(Nat) /\ Len(mid) = Len(text)
        /\ col \in Nat /\ col <= mid[Len(mid)]
    <2>1. CASE Len(text) = 1
      BY <1>2, <1>3, <2>1
    <2>2. CASE Len(text) # 1
      <3> DEFINE inner == SubSeq(text, 2, Len(text) - 1)
                 end == Last(text) + after
      <3>1. inner \in Seq(Nat) /\ Len(inner) = Len(text) - 2
        <4>1. \A i \in 2 .. Len(text) - 1 : text[i] \in Nat
          BY <1>2
        <4>2. /\ inner \in Seq(Nat)
              /\ Len(inner) = IF 2 <= Len(text) - 1 THEN (Len(text) - 1) - 2 + 1 ELSE 0
          BY <1>2, <4>1, SubSeqProperties
        <4> HIDE DEF inner
        <4>3. ASSUME NEW n \in Nat, n >= 1, n # 1
              PROVE  (IF 2 <= n - 1 THEN (n - 1) - 2 + 1 ELSE 0) = n - 2
          BY <4>3
        <4> QED
          BY <1>2, <2>2, <4>2, <4>3
      <3>2. end \in Nat /\ Last(text) <= end
        BY <1>2, <1>3
      <3> HIDE DEF inner, end
      <3>3. mid = <<first>> \o inner \o <<end>>
        BY <2>2 DEF inner, end
      <3>4. <<first>> \o inner \in Seq(Nat) /\ Len(<<first>> \o inner) = Len(text) - 1
        <4>1. <<first>> \in Seq(Nat) /\ Len(<<first>>) = 1
          BY <1>3
        <4> QED
          BY <1>2, <3>1, <4>1, ConcatProperties
      <3>5. mid = Append(<<first>> \o inner, end)
        BY <3>2, <3>3, <3>4, AppendIsConcat
      <3>6. mid \in Seq(Nat) /\ Len(mid) = Len(text) /\ mid[Len(text)] = end
        <4> HIDE DEF mid
        <4> QED
          BY <1>2, <3>2, <3>4, <3>5
      <3>7. col = Last(text)
        BY <2>2
      <3> HIDE DEF mid, col
      <3> QED
        BY <1>2, <3>2, <3>6, <3>7
    <2> QED
      BY <2>1, <2>2
  <1>6. InsertLines(c, text) = [lines |-> pre \o mid \o post, row |-> c.row + Len(text) - 1, col |-> col]
    BY DEF InsertLines, after, first
  <1> HIDE DEF pre, mid, post, col
  <1>7. /\ pre \o mid \o post \in Text
        /\ c.row + Len(text) - 1 < Len(pre \o mid \o post)
        /\ (pre \o mid \o post)[c.row + Len(text)] = mid[Len(mid)]
    <2>1. /\ pre \o mid \o post \in Text
          /\ Len(pre) + Len(mid) - 1 < Len(pre \o mid \o post)
          /\ (pre \o mid \o post)[Len(pre) + Len(mid)] = mid[Len(mid)]
      <3>1. Len(mid) >= 1
        BY <1>2, <1>5
      <3> QED
        BY <1>4, <1>5, <3>1, ThreeParts
    <2>2. Len(pre) = c.row /\ Len(mid) = Len(text)
      BY <1>4, <1>5
    <2> QED
      BY <2>1, <2>2, Zenon
  <1>8. c.row + Len(text) - 1 \in Nat /\ c.row + Len(text) = (c.row + Len(text) - 1) + 1
    <2>1. ASSUME NEW x \in Nat, NEW y \in Nat, y >= 1
          PROVE  x + y - 1 \in Nat /\ x + y = (x + y - 1) + 1
      BY <2>1
    <2> QED
      BY <1>1, <1>2, <2>1
  <1>9. col <= (pre \o mid \o post)[c.row + Len(text)]
    BY <1>5, <1>7
  <1> QED
    BY <1>5, <1>6, <1>7, <1>8, <1>9, InTextRecord

LEMMA JoinIsText ==
    ASSUME NEW lines \in Seq(Nat), NEW r \in Nat, r + 2 <= Len(lines)
    PROVE  /\ Join(lines, r) \in Text /\ r < Len(Join(lines, r))
           /\ Join(lines, r)[r + 1] = lines[r + 1] + lines[r + 2]
  <1> DEFINE pre == SubSeq(lines, 1, r)
             mid == <<lines[r + 1] + lines[r + 2]>>
             post == SubSeq(lines, r + 3, Len(lines))
  <1>1. Len(lines) \in Nat /\ lines[r + 1] \in Nat /\ lines[r + 2] \in Nat /\ r <= Len(lines)
    OBVIOUS
  <1>2. pre \in Seq(Nat) /\ Len(pre) = r /\ post \in Seq(Nat)
    BY <1>1, SubLines
  <1>3. mid \in Seq(Nat) /\ Len(mid) = 1 /\ mid[1] = lines[r + 1] + lines[r + 2]
    BY <1>1
  <1>4. Join(lines, r) = pre \o mid \o post
    BY DEF Join
  <1> HIDE DEF pre, mid, post
  <1>5. /\ pre \o mid \o post \in Text
        /\ Len(pre) + Len(mid) - 1 < Len(pre \o mid \o post)
        /\ (pre \o mid \o post)[Len(pre) + Len(mid)] = mid[Len(mid)]
    <2>1. Len(mid) >= 1
      BY <1>3
    <2> QED
      BY <1>2, <1>3, <2>1, ThreeParts
  <1> QED
    BY <1>2, <1>3, <1>4, <1>5

(* The cursor moved within the text.                                       *)
LEMMA CursorMoved ==
    ASSUME NEW c, InText(c), NEW row \in Nat, NEW col \in Nat, NEW at,
           row < Len(c.lines), at = row + 1, col <= c.lines[at]
    PROVE  InText([lines |-> c.lines, row |-> row, col |-> col])
  BY DEF InText

LEMMA ColumnMoved ==
    ASSUME NEW c, InText(c), NEW col \in Nat, col <= AtCursor(c)
    PROVE  InText([lines |-> c.lines, row |-> c.row, col |-> col])
  BY InTextParts, InTextRecord DEF InText

LEMMA MovesInText ==
    ASSUME NEW c, InText(c)
    PROVE  /\ InText(MoveLeft(c)) /\ InText(MoveRight(c))
           /\ InText([c EXCEPT !.col = 0]) /\ InText([c EXCEPT !.col = AtCursor(c)])
  <1>1. /\ c.lines \in Seq(Nat) /\ Len(c.lines) \in Nat /\ c.row \in Nat /\ c.col \in Nat
        /\ c.row + 1 \in 1 .. Len(c.lines) /\ AtCursor(c) \in Nat
        /\ AtCursor(c) = c.lines[c.row + 1] /\ c.col <= AtCursor(c)
        /\ c = [lines |-> c.lines, row |-> c.row, col |-> c.col]
    BY InTextParts
  <1>2. InText([c EXCEPT !.col = 0]) /\ InText([c EXCEPT !.col = AtCursor(c)])
    <2>1. [c EXCEPT !.col = 0] = [lines |-> c.lines, row |-> c.row, col |-> 0]
      BY <1>1
    <2>2. [c EXCEPT !.col = AtCursor(c)] = [lines |-> c.lines, row |-> c.row, col |-> AtCursor(c)]
      BY <1>1
    <2>3. InText([lines |-> c.lines, row |-> c.row, col |-> 0])
      BY <1>1, ColumnMoved
    <2>4. InText([lines |-> c.lines, row |-> c.row, col |-> AtCursor(c)])
      BY <1>1, ColumnMoved
    <2> QED
      BY <2>1, <2>2, <2>3, <2>4
  <1>3. InText(MoveLeft(c))
    <2>1. CASE c.col > 0
      <3>1. MoveLeft(c) = [lines |-> c.lines, row |-> c.row, col |-> c.col - 1]
        BY <1>1, <2>1 DEF MoveLeft
      <3>2. c.col - 1 \in Nat /\ c.col - 1 <= AtCursor(c)
        BY <1>1, <2>1
      <3> QED
        BY <3>1, <3>2, ColumnMoved
    <2>2. CASE ~(c.col > 0) /\ c.row > 0
      <3> DEFINE row == c.row - 1
                 col == LineLength(c, row)
      <3>1. MoveLeft(c) = [lines |-> c.lines, row |-> row, col |-> col]
        <4>1. MoveLeft(c) = [[c EXCEPT !.row = row] EXCEPT !.col = col]
          BY <1>1, <2>2 DEF MoveLeft
        <4> HIDE DEF row, col
        <4> QED
          BY <1>1, <4>1
      <3>2. row \in Nat /\ row < Len(c.lines) /\ row + 1 \in 1 .. Len(c.lines)
        BY <1>1, <2>2
      <3> HIDE DEF row
      <3>3. col = c.lines[row + 1] /\ col \in Nat /\ col <= c.lines[row + 1]
        BY <1>1, <3>2 DEF LineLength
      <3> HIDE DEF col
      <3> QED
        BY <3>1, <3>2, <3>3, CursorMoved
    <2>3. CASE ~(c.col > 0) /\ ~(c.row > 0)
      BY <2>3 DEF MoveLeft
    <2> QED
      BY <2>1, <2>2, <2>3
  <1>4. InText(MoveRight(c))
    <2>1. CASE c.col < AtCursor(c)
      <3>1. MoveRight(c) = [lines |-> c.lines, row |-> c.row, col |-> c.col + 1]
        BY <1>1, <2>1 DEF MoveRight
      <3>2. c.col + 1 \in Nat /\ c.col + 1 <= AtCursor(c)
        BY <1>1, <2>1
      <3> QED
        BY <3>1, <3>2, ColumnMoved
    <2>2. CASE ~(c.col < AtCursor(c)) /\ c.row < LastRow(c)
      <3> DEFINE row == c.row + 1
      <3>1. MoveRight(c) = [lines |-> c.lines, row |-> row, col |-> 0]
        <4>1. MoveRight(c) = [[c EXCEPT !.row = row] EXCEPT !.col = 0]
          BY <1>1, <2>2 DEF MoveRight
        <4> HIDE DEF row
        <4> QED
          BY <1>1, <4>1
      <3>2. row \in Nat /\ row < Len(c.lines) /\ row + 1 \in 1 .. Len(c.lines)
        BY <1>1, <2>2 DEF LastRow
      <3> HIDE DEF row
      <3>3. 0 <= c.lines[row + 1]
        BY <1>1, <3>2
      <3> QED
        BY <3>1, <3>2, <3>3, CursorMoved
    <2>3. CASE ~(c.col < AtCursor(c)) /\ ~(c.row < LastRow(c))
      BY <2>3 DEF MoveRight
    <2> QED
      BY <2>1, <2>2, <2>3
  <1> QED
    BY <1>2, <1>3, <1>4

LEMMA MoveToRowInText ==
    ASSUME NEW c, InText(c), NEW row \in Nat, row < Len(c.lines)
    PROVE  InText(MoveToRow(c, row))
  <1> DEFINE col == Least(c.col, LineLength(c, row))
  <1>1. c.lines \in Seq(Nat) /\ c.col \in Nat /\ Len(c.lines) \in Nat
    BY InTextParts
  <1>2. row + 1 \in 1 .. Len(c.lines) /\ c.lines[row + 1] \in Nat
    BY <1>1
  <1>3. col \in Nat /\ col <= c.lines[row + 1]
    BY <1>1, <1>2 DEF Least, LineLength
  <1>4. MoveToRow(c, row) = [lines |-> c.lines, row |-> row, col |-> col]
    <2>1. c = [lines |-> c.lines, row |-> c.row, col |-> c.col]
      BY InTextParts
    <2>2. MoveToRow(c, row) = [[c EXCEPT !.row = row] EXCEPT !.col = col]
      BY <2>1 DEF MoveToRow
    <2> HIDE DEF col
    <2> QED
      BY <2>1, <2>2
  <1> HIDE DEF col
  <1> QED
    BY <1>3, <1>4, CursorMoved

LEMMA RemovalsInText ==
    ASSUME NEW c, InText(c)
    PROVE  InText(Backspace(c)) /\ InText(Delete(c))
  <1> DEFINE shorter == [c.lines EXCEPT ![c.row + 1] = @ - 1]
  <1>1. /\ c.lines \in Seq(Nat) /\ Len(c.lines) \in Nat /\ c.row \in Nat /\ c.col \in Nat
        /\ c.row + 1 \in 1 .. Len(c.lines) /\ c.lines[c.row + 1] \in Nat
        /\ AtCursor(c) = c.lines[c.row + 1] /\ c.col <= AtCursor(c)
        /\ c = [lines |-> c.lines, row |-> c.row, col |-> c.col]
    BY InTextParts
  <1>2. ASSUME c.lines[c.row + 1] > 0
        PROVE  /\ shorter \in Text /\ Len(shorter) = Len(c.lines)
               /\ shorter[c.row + 1] = c.lines[c.row + 1] - 1
    <2>1. c.lines[c.row + 1] - 1 \in Nat
      BY <1>1, <1>2
    <2>2. /\ shorter \in Seq(Nat) /\ Len(shorter) = Len(c.lines)
          /\ shorter[c.row + 1] = c.lines[c.row + 1] - 1
      BY <1>1, <2>1
    <2> QED
      BY <1>1, <2>2 DEF Text
  <1>3. InText(Backspace(c))
    <2>1. CASE c.col > 0
      <3>1. Backspace(c) = [lines |-> shorter, row |-> c.row, col |-> c.col - 1]
        <4>1. Backspace(c) = [[c EXCEPT !.lines = shorter] EXCEPT !.col = c.col - 1]
          BY <1>1, <2>1 DEF Backspace
        <4> HIDE DEF shorter
        <4> QED
          BY <1>1, <4>1
      <3>2. c.lines[c.row + 1] > 0 /\ c.col - 1 \in Nat /\ c.col - 1 <= c.lines[c.row + 1] - 1
        BY <1>1, <2>1
      <3> HIDE DEF shorter
      <3>3. shorter \in Text /\ c.row < Len(shorter) /\ c.col - 1 <= shorter[c.row + 1]
        BY <1>1, <1>2, <3>2
      <3> QED
        BY <1>1, <3>1, <3>2, <3>3, InTextRecord
    <2>2. CASE ~(c.col > 0) /\ c.row > 0
      <3> DEFINE row == c.row - 1
                 col == LineLength(c, row)
      <3>1. Backspace(c) = [lines |-> Join(c.lines, row), row |-> row, col |-> col]
        BY <2>2 DEF Backspace
      <3>2. row \in Nat /\ row + 2 <= Len(c.lines)
        BY <1>1, <2>2
      <3> HIDE DEF row
      <3>3. col = c.lines[row + 1] /\ col \in Nat /\ c.lines[row + 2] \in Nat
        <4>1. row + 1 \in 1 .. Len(c.lines) /\ row + 2 \in 1 .. Len(c.lines)
          BY <1>1, <3>2
        <4> QED
          BY <1>1, <4>1 DEF LineLength
      <3>4. /\ Join(c.lines, row) \in Text /\ row < Len(Join(c.lines, row))
            /\ Join(c.lines, row)[row + 1] = c.lines[row + 1] + c.lines[row + 2]
        BY <1>1, <3>2, JoinIsText
      <3> HIDE DEF col
      <3>5. col <= Join(c.lines, row)[row + 1]
        BY <3>3, <3>4
      <3> QED
        BY <3>1, <3>2, <3>3, <3>4, <3>5, InTextRecord
    <2>3. CASE ~(c.col > 0) /\ ~(c.row > 0)
      BY <2>3 DEF Backspace
    <2> QED
      BY <2>1, <2>2, <2>3
  <1>4. InText(Delete(c))
    <2>1. CASE c.col < AtCursor(c)
      <3>1. Delete(c) = [lines |-> shorter, row |-> c.row, col |-> c.col]
        <4>1. Delete(c) = [c EXCEPT !.lines = shorter]
          BY <1>1, <2>1 DEF Delete
        <4> HIDE DEF shorter
        <4> QED
          BY <1>1, <4>1
      <3>2. c.lines[c.row + 1] > 0 /\ c.col <= c.lines[c.row + 1] - 1
        BY <1>1, <2>1
      <3> HIDE DEF shorter
      <3>3. shorter \in Text /\ c.row < Len(shorter) /\ c.col <= shorter[c.row + 1]
        BY <1>1, <1>2, <3>2
      <3> QED
        BY <1>1, <3>1, <3>2, <3>3, InTextRecord
    <2>2. CASE ~(c.col < AtCursor(c)) /\ c.row < LastRow(c)
      <3>1. Delete(c) = [lines |-> Join(c.lines, c.row), row |-> c.row, col |-> c.col]
        <4>1. Delete(c) = [c EXCEPT !.lines = Join(c.lines, c.row)]
          BY <2>2 DEF Delete
        <4> QED
          BY <1>1, <4>1
      <3>2. c.row + 2 <= Len(c.lines)
        BY <1>1, <2>2 DEF LastRow
      <3>3. /\ Join(c.lines, c.row) \in Text /\ c.row < Len(Join(c.lines, c.row))
            /\ Join(c.lines, c.row)[c.row + 1] = c.lines[c.row + 1] + c.lines[c.row + 2]
        BY <1>1, <3>2, JoinIsText
      <3>4. c.lines[c.row + 2] \in Nat
        BY <1>1, <3>2
      <3>5. c.col <= Join(c.lines, c.row)[c.row + 1]
        BY <1>1, <3>3, <3>4
      <3> QED
        BY <1>1, <3>1, <3>3, <3>5, InTextRecord
    <2>3. CASE ~(c.col < AtCursor(c)) /\ ~(c.row < LastRow(c))
      BY <2>3 DEF Delete
    <2> QED
      BY <2>1, <2>2, <2>3
  <1> QED
    BY <1>3, <1>4

(***************************************************************************)
(* The windows.                                                            *)
(***************************************************************************)
LEMMA Half == ASSUME NEW n \in Nat
              PROVE  n \div 2 \in Nat /\ 2 * (n \div 2) <= n /\ n <= 2 * (n \div 2) + 1
  OBVIOUS

LEMMA WindowHasCursor ==
    ASSUME NEW c, InText(c)
    PROVE  LET start == VisibleStart(c, ComposerLines)
               total == Len(c.lines)
           IN  /\ start \in Nat /\ start <= c.row
               /\ c.row < Least(start + ComposerLines, total)
               /\ total > ComposerLines => start + ComposerLines <= total
  <1> DEFINE start == VisibleStart(c, ComposerLines)
             total == Len(c.lines)
             max == ComposerLines
             half == max \div 2
             row == c.row
  <1>1. total \in Nat /\ row \in Nat /\ row < total
    BY InTextParts DEF InText
  <1>2. max \in Nat /\ max >= 1
    BY EditorAssumption
  <1>3. half \in Nat /\ 2 * half <= max /\ max <= 2 * half + 1
    BY <1>2, Half
  <1>4. start = IF total <= max \/ row < half THEN 0
                ELSE IF row >= total - half THEN total - max ELSE row - half
    BY DEF VisibleStart
  <1> HIDE DEF start, total, max, half, row
  <1>5. start \in Nat /\ start <= row /\ row < start + max
        /\ (total > max => start + max <= total)
    <2>1. CASE total <= max \/ row < half
      BY <1>1, <1>2, <1>3, <1>4, <2>1
    <2>2. CASE ~(total <= max) /\ ~(row < half) /\ row >= total - half
      BY <1>1, <1>2, <1>3, <1>4, <2>2
    <2>3. CASE ~(total <= max) /\ ~(row < half) /\ ~(row >= total - half)
      BY <1>1, <1>2, <1>3, <1>4, <2>3
    <2> QED
      BY <2>1, <2>2, <2>3
  <1>6. row < Least(start + max, total)
    BY <1>1, <1>2, <1>5 DEF Least
  <1> QED
    BY <1>5, <1>6 DEF start, total, max, row

(* The chosen completion is among those shown, and they can be counted.    *)
LEMMA ChosenIsShown ==
    ASSUME comp.items \in Nat, comp.idx \in Nat, comp.idx < comp.items
    PROVE  comp.idx \in CompShown /\ Cardinality(CompShown) \in Nat
  <1> DEFINE idx == comp.idx
             items == comp.items
             max == CompLines
             half == max \div 2
             middle == idx - half
             start == IF middle < 0 THEN 0
                      ELSE IF items > max THEN Least(middle, items - max) ELSE middle
             last == Least(start + max, items) - 1
  <1>1. max \in Nat /\ max >= 1
    BY EditorAssumption
  <1>2. half \in Nat /\ 2 * half <= max
    BY <1>1, Half
  <1>3. CompShown = start .. last
    BY DEF CompShown
  <1>4. idx \in Nat /\ items \in Nat /\ idx < items
    OBVIOUS
  <1> HIDE DEF idx, items, max, half
  <1>5. start \in Nat /\ start <= idx /\ idx < start + max
    BY <1>1, <1>2, <1>4 DEF Least
  <1> HIDE DEF start
  <1>6. last \in Int /\ idx <= last
    BY <1>1, <1>4, <1>5 DEF Least
  <1> HIDE DEF last
  <1>7. idx \in start .. last
    BY <1>4, <1>5, <1>6
  <1>8. IsFiniteSet(start .. last) /\ Cardinality(start .. last) \in Nat
    BY <1>5, <1>6, FS_Interval, FS_CardinalityType
  <1> QED
    BY <1>3, <1>7, <1>8 DEF idx

(***************************************************************************)
(* The inductive invariant.                                                *)
(***************************************************************************)
EditorInd ==
    /\ InText(composer)
    /\ attachments \in 0 .. 1
    /\ comp \in [items : Nat, idx : Nat, active : BOOLEAN]
    /\ comp.active => comp.idx < comp.items

(* The rows of the composer: the cursor's is where computeCursorPos says.  *)
LEMMA CursorRowIsShown ==
    ASSUME EditorInd, NEW b \in BOOLEAN, NEW q \in BOOLEAN
    PROVE  RowsBelow(b, q)[CursorRow(b, q) + 1] = composer.row
  <1> DEFINE start == VisibleStart(composer, ComposerLines)
             total == Len(composer.lines)
             end == Least(start + ComposerLines, total)
             above == If(b) + 1 + If(b /\ q) + CompRows
             up == If(start > 0)
             extra == If(end < total) + attachments
             row == composer.row
             down == IF composer.lines = NoText THEN 0 ELSE up + (row - start)
  <1>1. /\ start \in Nat /\ row \in Nat /\ total \in Nat
        /\ start <= row /\ row < end
    BY WindowHasCursor, InTextParts DEF EditorInd
  <1>2. ComposerLines \in Nat
    BY EditorAssumption
  <1>3. end \in Nat /\ end <= total /\ end <= start + ComposerLines
    BY <1>1, <1>2 DEF Least
  <1>4. up \in Nat /\ extra \in Nat /\ If(b) \in Nat /\ If(b /\ q) \in Nat
    BY DEF If, EditorInd
  <1>5. CompRows \in Nat
    <2>1. comp.active => comp.items \in Nat /\ comp.idx \in Nat /\ comp.idx < comp.items
      BY DEF EditorInd
    <2> QED
      BY <2>1, ChosenIsShown DEF CompRows
  <1>6. above \in Nat
    BY <1>4, <1>5
  <1>7. \A n \in Nat : Rows(n) \in Seq(Int) /\ Len(Rows(n)) = n
    BY DEF Rows, Other
  <1>8. RowsBelow(b, q) = Rows(above) \o RenderComposer
    BY DEF RowsBelow
  <1>9. CursorRow(b, q) = above + down
    <2>1. (IF row >= start THEN row - start ELSE 0) = row - start
          /\ (IF row - start < ComposerLines THEN row - start ELSE 0) = row - start
      BY <1>1, <1>2, <1>3
    <2>2. CursorRow(b, q) = If(b) + (1 + If(b /\ q) + CompRows) + down
      <3> HIDE DEF start
      <3> QED
        BY <2>1 DEF CursorRow, start
    <2>3. down \in Nat
      BY <1>1, <1>4
    <2> HIDE DEF down
    <2> QED
      BY <1>4, <1>5, <2>2, <2>3
  <1>10. /\ RenderComposer \in Seq(Int) /\ down \in Nat
         /\ down + 1 \in 1 .. Len(RenderComposer) /\ RenderComposer[down + 1] = row
    <2>1. CASE composer.lines = NoText
      <3>1. total = 1 /\ row = 0
        <4>1. total = 1
          BY <2>1 DEF NoText
        <4> HIDE DEF total, end
        <4> QED
          BY <1>1, <1>3, <4>1
      <3>2. RenderComposer = <<0>> /\ down = 0
        BY <2>1 DEF RenderComposer
      <3> QED
        BY <3>1, <3>2
    <2>2. CASE composer.lines # NoText
      <3> DEFINE lines == [i \in 1 .. end - start |-> start + i - 1]
                 at == row - start + 1
      <3>1. RenderComposer = Rows(up) \o lines \o Rows(extra)
        BY <2>2 DEF RenderComposer
      <3>2. down = up + (row - start)
        BY <2>2
      <3> HIDE DEF start, end, up, extra, total, row, down
      <3>3. end - start \in Nat /\ at \in 1 .. end - start /\ start + at - 1 = row
        BY <1>1, <1>3
      <3> HIDE DEF at
      <3>4. lines \in Seq(Int) /\ Len(lines) = end - start /\ lines[at] = row
        BY <1>1, <3>3
      <3> HIDE DEF lines
      <3>5. /\ Rows(up) \o lines \in Seq(Int) /\ Len(Rows(up) \o lines) = up + (end - start)
            /\ (Rows(up) \o lines)[up + at] = row
        <4>1. Rows(up) \in Seq(Int) /\ Len(Rows(up)) = up
          BY <1>4, <1>7
        <4>2. up + at \in 1 .. Len(Rows(up)) + Len(lines) /\ ~(up + at <= Len(Rows(up)))
              /\ (up + at) - Len(Rows(up)) = at
          BY <1>4, <3>3, <3>4, <4>1
        <4>3. Rows(up) \o lines \in Seq(Int) /\ Len(Rows(up) \o lines) = Len(Rows(up)) + Len(lines)
          BY <3>4, <4>1, ConcatProperties
        <4>4. (Rows(up) \o lines)[up + at]
              = IF up + at <= Len(Rows(up)) THEN Rows(up)[up + at] ELSE lines[(up + at) - Len(Rows(up))]
          BY <3>4, <4>1, <4>2, ConcatProperties
        <4>5. (Rows(up) \o lines)[up + at] = row
          BY <3>4, <4>2, <4>4
        <4> QED
          BY <3>4, <4>1, <4>3, <4>5
      <3>6. /\ RenderComposer \in Seq(Int)
            /\ up + at \in 1 .. Len(RenderComposer) /\ RenderComposer[up + at] = row
        <4>1. Rows(extra) \in Seq(Int) /\ Len(Rows(extra)) = extra
          BY <1>4, <1>7
        <4>2. /\ up + at \in 1 .. Len(Rows(up) \o lines) + Len(Rows(extra))
              /\ up + at <= Len(Rows(up) \o lines)
          BY <1>4, <3>3, <3>5, <4>1
        <4> QED
          BY <3>1, <3>5, <4>1, <4>2, ConcatProperties
      <3>7. up + at = down + 1 /\ down \in Nat
        BY <1>1, <1>4, <3>2 DEF at
      <3> QED
        BY <3>6, <3>7
    <2> QED
      BY <2>1, <2>2
  <1> HIDE DEF above, down, row
  <1>11. (Rows(above) \o RenderComposer)[above + down + 1] = row
    <2>1. Rows(above) \in Seq(Int) /\ Len(Rows(above)) = above
      BY <1>6, <1>7
    <2>2. /\ above + down + 1 \in 1 .. Len(Rows(above)) + Len(RenderComposer)
          /\ ~(above + down + 1 <= Len(Rows(above)))
          /\ (above + down + 1) - Len(Rows(above)) = down + 1
      BY <1>6, <1>10, <2>1
    <2> QED
      BY <1>10, <2>1, <2>2, ConcatProperties
  <1> QED
    BY <1>8, <1>9, <1>11 DEF row

LEMMA EditorStart == EditorInit => EditorInd
  <1> SUFFICES ASSUME EditorInit PROVE EditorInd
    OBVIOUS
  <1>1. composer = Cleared /\ comp = NoComp /\ attachments = 0
    BY DEF EditorInit, Cleared
  <1>2. /\ comp \in [items : Nat, idx : Nat, active : BOOLEAN] /\ ~comp.active
    BY <1>1 DEF NoComp
  <1> QED
    BY <1>1, <1>2, ClearedInText DEF EditorInd

Chosen(c) == c \in [items : Nat, idx : Nat, active : BOOLEAN] /\ (c.active => c.idx < c.items)

LEMMA EditorIndIs ==
    EditorInd <=> InText(composer) /\ attachments \in 0 .. 1 /\ Chosen(comp)
  BY DEF EditorInd, Chosen

LEMMA EditorIndNext ==
    ASSUME InText(composer'), attachments' \in 0 .. 1, Chosen(comp')
    PROVE  EditorInd'
  BY DEF EditorInd, Chosen, InText

LEMMA NoCompChosen == Chosen(NoComp)
  BY DEF Chosen, NoComp

(* The completions of a text are counted anew.                             *)
LEMMA CompletionsChosen ==
    ASSUME Chosen(comp), NEW c, UpdateCompletions(c)
    PROVE  Chosen(comp')
  <1>1. CASE comp' = NoComp
    BY <1>1, NoCompChosen
  <1>2. CASE comp' # NoComp
    <2>1. PICK n \in ItemCounts :
            comp' = [items |-> n, active |-> TRUE, idx |-> IF comp.idx >= n THEN 0 ELSE comp.idx]
      BY <1>2 DEF UpdateCompletions
    <2> DEFINE idx == IF comp.idx >= n THEN 0 ELSE comp.idx
    <2>2. n \in Nat /\ n >= 1 /\ comp.idx \in Nat
      BY EditorAssumption DEF Chosen
    <2>3. idx \in Nat /\ idx < n
      BY <2>2
    <2> HIDE DEF idx
    <2>4. comp' = [items |-> n, active |-> TRUE, idx |-> idx]
      BY <2>1 DEF idx
    <2>5. comp' \in [items : Nat, idx : Nat, active : BOOLEAN]
      BY <2>2, <2>3, <2>4
    <2>6. comp'.idx = idx /\ comp'.items = n
      BY <2>4
    <2> QED
      BY <2>3, <2>5, <2>6 DEF Chosen
  <1> QED
    BY <1>1, <1>2

(* Keys that edit the text, or only move the cursor.                       *)
LEMMA EditsKeepCursor ==
    ASSUME EditorInd, EditKey \/ ControlKey \/ NewLineKey \/ PasteText \/ MoveKey
    PROVE  EditorInd'
  <1>1. InText(composer) /\ attachments \in 0 .. 1 /\ Chosen(comp)
    BY EditorIndIs
  <1>2. attachments' = attachments
    BY DEF EditKey, ControlKey, NewLineKey, PasteText, MoveKey
  <1>3. CASE EditKey
    <2>1. composer' \in {InsertRune(composer), Backspace(composer), Delete(composer)}
      BY <1>3 DEF EditKey
    <2>2. InText(composer')
      BY <1>1, <2>1, InsertRuneInText, RemovalsInText
    <2>3. Chosen(comp')
      BY <1>1, <1>3, CompletionsChosen DEF EditKey
    <2> QED
      BY <1>1, <1>2, <2>2, <2>3, EditorIndNext
  <1>4. CASE ControlKey
    <2>1. composer' = InsertRune(composer) /\ comp' = comp
      BY <1>4 DEF ControlKey
    <2>2. InText(composer')
      BY <1>1, <2>1, InsertRuneInText
    <2> QED
      BY <1>1, <1>2, <2>1, <2>2, EditorIndNext
  <1>5. CASE NewLineKey
    <2>1. composer' = InsertLines(composer, <<0, 0>>) /\ comp' = comp
      BY <1>5 DEF NewLineKey, InsertNewLine
    <2>2. <<0, 0>> \in Text
      BY DEF Text
    <2>3. InText(composer')
      BY <1>1, <2>1, <2>2, InsertLinesInText
    <2> QED
      BY <1>1, <1>2, <2>1, <2>3, EditorIndNext
  <1>6. CASE PasteText
    <2>1. PICK text \in Pasted : composer' = InsertLines(composer, text)
      BY <1>6 DEF PasteText
    <2>2. text \in Text
      BY TextsAreText DEF Pasted
    <2>3. InText(composer') /\ comp' = comp
      BY <1>1, <1>6, <2>1, <2>2, InsertLinesInText DEF PasteText
    <2> QED
      BY <1>1, <1>2, <2>3, EditorIndNext
  <1>7. CASE MoveKey
    <2>1. /\ comp' = comp
          /\ composer' \in {MoveLeft(composer), MoveRight(composer), [composer EXCEPT !.col = 0],
                            [composer EXCEPT !.col = AtCursor(composer)]}
      BY <1>7 DEF MoveKey
    <2>2. /\ InText(MoveLeft(composer)) /\ InText(MoveRight(composer))
          /\ InText([composer EXCEPT !.col = 0])
          /\ InText([composer EXCEPT !.col = AtCursor(composer)])
      BY <1>1, MovesInText
    <2>3. InText(composer')
      BY <2>1, <2>2
    <2> QED
      BY <1>1, <1>2, <2>1, <2>3, EditorIndNext
  <1> QED
    BY <1>3, <1>4, <1>5, <1>6, <1>7

LEMMA CompletionKeyKeepsCursor == ASSUME EditorInd, CompletionKey PROVE EditorInd'
  <1>1. InText(composer) /\ attachments \in 0 .. 1 /\ Chosen(comp)
    BY EditorIndIs
  <1>2. PICK step \in {1, -1} : comp' = [comp EXCEPT !.idx = (@ + step) % comp.items]
    BY DEF CompletionKey
  <1> DEFINE n == comp.items
             idx == (comp.idx + step) % n
  <1>3. /\ comp = [items |-> comp.items, idx |-> comp.idx, active |-> comp.active]
        /\ n \in Nat /\ comp.idx \in Nat
    BY <1>1 DEF Chosen
  <1>4. n >= 1
    BY <1>1, <1>3 DEF CompletionKey, Chosen
  <1>5. idx \in Nat /\ idx < n
    <2> HIDE DEF n
    <2>1. comp.idx + step \in Int
      BY <1>3
    <2> QED
      BY <1>3, <1>4, <2>1
  <1>6. comp' = [comp EXCEPT !.idx = idx]
    BY <1>2, <1>3
  <1> HIDE DEF idx
  <1>7. comp' = [items |-> comp.items, idx |-> idx, active |-> comp.active]
    BY <1>3, <1>6
  <1>8. comp.active \in BOOLEAN
    BY <1>1 DEF Chosen
  <1>9. comp' \in [items : Nat, idx : Nat, active : BOOLEAN]
    BY <1>3, <1>5, <1>7, <1>8
  <1>10. comp'.idx = idx /\ comp'.items = n
    BY <1>7
  <1>11. Chosen(comp')
    BY <1>5, <1>9, <1>10 DEF Chosen
  <1>12. composer' = composer /\ attachments' = attachments
    BY DEF CompletionKey
  <1> QED
    BY <1>1, <1>11, <1>12, EditorIndNext

(* Up and Down: another row, the end of the line, or an entry.             *)
LEMMA EntryInText ==
    ASSUME NEW found, NEW atStart, NEW none, InText(none), ShowEntry(found, atStart, none)
    PROVE  InText(composer')
  <1>1. CASE ~found
    BY <1>1 DEF ShowEntry
  <1>2. CASE found
    <2>1. PICK text \in Texts :
            composer' = IF atStart THEN [SetInput(text) EXCEPT !.row = 0, !.col = 0] ELSE SetInput(text)
      BY <1>2 DEF ShowEntry
    <2>2. InText(SetInput(text)) /\ InText([SetInput(text) EXCEPT !.row = 0, !.col = 0])
      BY TextsAreText, SetInputInText
    <2>3. CASE atStart
      BY <2>1, <2>2, <2>3
    <2>4. CASE ~atStart
      BY <2>1, <2>2, <2>4
    <2> QED
      BY <2>3, <2>4
  <1> QED
    BY <1>1, <1>2

LEMMA VerticalKeysKeepCursor == ASSUME EditorInd, UpKey \/ DownKey PROVE EditorInd'
  <1>1. InText(composer) /\ attachments \in 0 .. 1 /\ Chosen(comp)
    BY EditorIndIs
  <1>2. /\ composer.row \in Nat /\ Len(composer.lines) \in Nat
        /\ composer.row < Len(composer.lines)
    BY <1>1, InTextParts DEF InText
  <1>3. comp' = comp
    BY DEF UpKey, DownKey
  <1>4. InText([composer EXCEPT !.col = 0]) /\ InText([composer EXCEPT !.col = AtCursor(composer)])
    BY <1>1, MovesInText
  <1>5. CASE UpKey
    <2>1. CASE composer.row > 0
      <3> DEFINE row == composer.row - 1
      <3>1. composer' = MoveToRow(composer, row)
        BY <1>5, <2>1 DEF UpKey
      <3>2. row \in Nat /\ row < Len(composer.lines)
        BY <1>2, <2>1
      <3> HIDE DEF row
      <3> QED
        BY <1>1, <1>3, <1>5, <3>1, <3>2, MoveToRowInText, EditorIndNext DEF UpKey
    <2>2. CASE ~(composer.row > 0) /\ composer.col > 0
      <3>1. composer' = [composer EXCEPT !.col = 0] /\ attachments' = attachments
        BY <1>5, <2>2 DEF UpKey
      <3>2. InText(composer')
        BY <1>4, <3>1
      <3> QED
        BY <1>1, <1>3, <3>1, <3>2, EditorIndNext
    <2>3. CASE ~(composer.row > 0) /\ ~(composer.col > 0)
      <3>1. ShowEntry(histIdx' # histIdx, TRUE, composer) /\ attachments' = attachments
        BY <1>5, <2>3 DEF UpKey
      <3>2. InText(composer')
        BY <1>1, <3>1, EntryInText
      <3> QED
        BY <1>1, <1>3, <3>1, <3>2, EditorIndNext
    <2> QED
      BY <2>1, <2>2, <2>3
  <1>6. CASE DownKey
    <2>1. CASE composer.row < LastRow(composer)
      <3> DEFINE row == composer.row + 1
      <3>1. composer' = MoveToRow(composer, row) /\ attachments' = attachments
        BY <1>6, <2>1 DEF DownKey
      <3>2. row \in Nat /\ row < Len(composer.lines)
        BY <1>2, <2>1 DEF LastRow
      <3> HIDE DEF row
      <3> QED
        BY <1>1, <1>3, <3>1, <3>2, MoveToRowInText, EditorIndNext
    <2>2. CASE ~(composer.row < LastRow(composer)) /\ composer.col < AtCursor(composer)
      <3>1. composer' = [composer EXCEPT !.col = AtCursor(composer)] /\ attachments' = attachments
        BY <1>6, <2>2 DEF DownKey
      <3>2. InText(composer')
        BY <1>4, <3>1
      <3> QED
        BY <1>1, <1>3, <3>1, <3>2, EditorIndNext
    <2>3. CASE ~(composer.row < LastRow(composer)) /\ ~(composer.col < AtCursor(composer))
      <3>1. /\ ShowEntry(histIdx' # -1, FALSE, Cleared)
            /\ attachments' = IF histIdx' = -1 THEN 0 ELSE attachments
        BY <1>6, <2>3 DEF DownKey
      <3>2. InText(composer')
        BY <3>1, ClearedInText, EntryInText
      <3>3. attachments' \in 0 .. 1
        BY <1>1, <3>1
      <3> QED
        BY <1>1, <1>3, <3>2, <3>3, EditorIndNext
    <2> QED
      BY <2>1, <2>2, <2>3
  <1> QED
    BY <1>5, <1>6

(* Keys that take the text away, or another one.                           *)
LEMMA TextTakenKeepsCursor ==
    ASSUME EditorInd, TabKey \/ EscapeKey \/ ClearKey \/ EnterQueues \/ EnterSubmits
    PROVE  EditorInd'
  <1>1. InText(composer) /\ attachments \in 0 .. 1 /\ Chosen(comp)
    BY EditorIndIs
  <1>2. CASE TabKey
    <2>1. PICK n \in 1 .. MaxCols : composer' = SetInput(<<n>>)
      BY <1>2 DEF TabKey
    <2>2. n \in Nat
      BY EditorAssumption
    <2>3. <<n>> \in Text
      BY <2>2 DEF Text
    <2>4. InText(composer')
      BY <2>1, <2>3, SetInputInText
    <2> QED
      BY <1>1, <1>2, <2>4, NoCompChosen, EditorIndNext DEF TabKey
  <1>3. CASE EscapeKey
    <2>1. comp' = NoComp \/ comp' = comp
      BY <1>3 DEF EscapeKey
    <2>2. Chosen(comp')
      BY <1>1, <2>1, NoCompChosen
    <2>3. \/ composer' = composer /\ attachments' = attachments
          \/ composer' = Cleared /\ attachments' = 0
      BY <1>3 DEF EscapeKey
    <2>4. InText(composer') /\ attachments' \in 0 .. 1
      BY <1>1, <2>3, ClearedInText
    <2> QED
      BY <2>2, <2>4, EditorIndNext
  <1>4. CASE ClearKey
    BY <1>1, <1>4, ClearedInText, EditorIndNext DEF ClearKey
  <1>5. CASE EnterQueues
    <2>1. composer' = Cleared /\ attachments' = 0 /\ comp' = [comp EXCEPT !.items = 0, !.active = FALSE]
      BY <1>5 DEF EnterQueues
    <2>2. comp = [items |-> comp.items, idx |-> comp.idx, active |-> comp.active] /\ comp.idx \in Nat
      BY <1>1 DEF Chosen
    <2>3. comp' = [[comp EXCEPT !.items = 0] EXCEPT !.active = FALSE]
      BY <2>1, <2>2
    <2>4. [comp EXCEPT !.items = 0] = [items |-> 0, idx |-> comp.idx, active |-> comp.active]
      BY <2>2
    <2>5. \A no : [[items |-> 0, idx |-> comp.idx, active |-> comp.active] EXCEPT !.active = no]
                  = [items |-> 0, idx |-> comp.idx, active |-> no]
      OBVIOUS
    <2>6. comp' = [items |-> 0, idx |-> comp.idx, active |-> FALSE]
      BY <2>3, <2>4, <2>5
    <2>7. Chosen(comp')
      <3>1. comp' \in [items : Nat, idx : Nat, active : BOOLEAN] /\ ~comp'.active
        BY <2>2, <2>6
      <3> QED
        BY <3>1 DEF Chosen
    <2> QED
      BY <2>1, <2>7, ClearedInText, EditorIndNext
  <1>6. CASE EnterSubmits
    BY <1>6, NoCompChosen, ClearedInText, EditorIndNext DEF EnterSubmits
  <1> QED
    BY <1>2, <1>3, <1>4, <1>5, <1>6

LEMMA EditorStep == EditorInd /\ [EditorNext]_editorVars => EditorInd'
  <1> SUFFICES ASSUME EditorInd, [EditorNext]_editorVars PROVE EditorInd'
    OBVIOUS
  <1>1. CASE EditKey \/ ControlKey \/ NewLineKey \/ PasteText \/ MoveKey
    BY <1>1, EditsKeepCursor
  <1>2. CASE CompletionKey
    BY <1>2, CompletionKeyKeepsCursor
  <1>3. CASE UpKey \/ DownKey
    BY <1>3, VerticalKeysKeepCursor
  <1>4. CASE TabKey \/ EscapeKey \/ ClearKey \/ EnterQueues \/ EnterSubmits
    BY <1>4, TextTakenKeepsCursor
  <1>5. CASE AttachKey \/ PathKey \/ UNCHANGED editorVars
    <2>1. composer' = composer /\ comp' = comp /\ attachments' \in {attachments, 1}
      BY <1>5 DEF AttachKey, PathKey, editorVars
    <2>2. attachments' \in 0 .. 1
      BY <2>1 DEF EditorInd
    <2> QED
      BY <2>1, <2>2, EditorIndIs, EditorIndNext
  <1> QED
    BY <1>1, <1>2, <1>3, <1>4, <1>5 DEF EditorNext

(* app.go:513, 857, 907, composer.go:191: after any edits the cursor is in the text
   and drawn in the row that shows its line, the lines shown are as many as can be,
   and the chosen completion is among those shown (CursorShown). *)
THEOREM EditorCursor == EditorSpec => []CursorShown
  <1>1. EditorInd => CursorShown
    <2> SUFFICES ASSUME EditorInd PROVE CursorShown
      OBVIOUS
    <2>1. composer.row <= LastRow(composer) /\ composer.col <= AtCursor(composer)
      BY InTextParts DEF EditorInd
    <2>2. Len(composer.lines) > ComposerLines =>
            VisibleStart(composer, ComposerLines) + ComposerLines <= Len(composer.lines)
      BY WindowHasCursor DEF EditorInd
    <2>3. comp.active => comp.idx \in CompShown
      <3>1. comp.items \in Nat /\ comp.idx \in Nat /\ (comp.active => comp.idx < comp.items)
        BY DEF EditorInd
      <3> QED
        BY <3>1, ChosenIsShown
    <2> QED
      BY <2>1, <2>2, <2>3, CursorRowIsShown DEF CursorShown
  <1> QED
    BY EditorStart, EditorStep, <1>1, PTL DEF EditorSpec

(***************************************************************************)
(* The other types of Editor: the text fits, the completions are as many   *)
(* as a text may have, and the history is as long as it may be.            *)
(***************************************************************************)
EntryTypes ==
    /\ composer.lines \in Texts
    /\ comp.items \in ItemCounts \cup {0}
    /\ attaching \in BOOLEAN

HistoryTypes == entries \in 0 .. HistoryMax /\ histIdx \in -1 .. HistoryMax - 1

LEMMA EditorBounds ==
    /\ HistoryMax \in Nat /\ HistoryMax >= 1 /\ MaxRows \in Nat /\ MaxRows >= 1
    /\ MaxCols \in Nat /\ MaxCols >= 1 /\ ItemCounts \subseteq Nat
  BY EditorAssumption

LEMMA OneLine == ASSUME NEW n \in 0 .. MaxCols PROVE <<n>> \in Texts
  <1>1. 1 \in 1 .. MaxRows /\ <<n>> \in [1 .. 1 -> 0 .. MaxCols]
    BY EditorBounds
  <1> QED
    BY <1>1 DEF Texts

LEMMA ClearedFits == Cleared.lines \in Texts /\ NoComp.items = 0
  <1>1. 0 \in 0 .. MaxCols
    BY EditorBounds
  <1> QED
    BY <1>1, OneLine DEF Cleared, NoText, NoComp

LEMMA SetInputFits ==
    ASSUME NEW text \in Texts
    PROVE  /\ SetInput(text).lines \in Texts
           /\ [SetInput(text) EXCEPT !.row = 0, !.col = 0].lines \in Texts
  BY DEF SetInput

(* A key that only moves the cursor leaves the lines.                      *)
LEMMA MovesKeepLines ==
    ASSUME NEW c, InText(c), NEW row
    PROVE  /\ MoveLeft(c).lines = c.lines /\ MoveRight(c).lines = c.lines
           /\ MoveToRow(c, row).lines = c.lines
           /\ \A col : [c EXCEPT !.col = col].lines = c.lines
  <1>1. c = [lines |-> c.lines, row |-> c.row, col |-> c.col]
    BY InTextParts
  <1>2. \A col : [c EXCEPT !.col = col].lines = c.lines
    BY <1>1
  <1>3. \A r, col : [c EXCEPT !.row = r, !.col = col].lines = c.lines
    BY <1>1
  <1> QED
    BY <1>2, <1>3 DEF MoveLeft, MoveRight, MoveToRow

LEMMA ShownFits ==
    ASSUME NEW found, NEW atStart, NEW none, none.lines \in Texts,
           ShowEntry(found, atStart, none)
    PROVE  composer'.lines \in Texts
  <1>1. CASE ~found
    BY <1>1 DEF ShowEntry
  <1>2. CASE found
    <2>1. PICK text \in Texts :
            composer' = IF atStart THEN [SetInput(text) EXCEPT !.row = 0, !.col = 0] ELSE SetInput(text)
      BY <1>2 DEF ShowEntry
    <2>2. CASE atStart
      BY <2>1, <2>2, SetInputFits
    <2>3. CASE ~atStart
      BY <2>1, <2>3, SetInputFits
    <2> QED
      BY <2>2, <2>3
  <1> QED
    BY <1>1, <1>2

LEMMA EntryStep ==
    ASSUME EditorInd, EntryTypes, [EditorNext]_editorVars
    PROVE  EntryTypes'
  <1>0. /\ InText(composer) /\ composer.lines \in Texts
        /\ comp.items \in ItemCounts \cup {0} /\ attaching \in BOOLEAN
        /\ comp = [items |-> comp.items, idx |-> comp.idx, active |-> comp.active]
    BY DEF EditorInd, EntryTypes
  <1>1. attaching' \in BOOLEAN
    BY <1>0 DEF EditorNext, EditKey, ControlKey, NewLineKey, PasteText, MoveKey, CompletionKey,
                UpKey, DownKey, TabKey, EscapeKey, ClearKey, EnterQueues, EnterSubmits,
                AttachKey, PathKey, Unattached, editorVars
  <1>2. comp'.items \in ItemCounts \cup {0}
    <2>1. CASE EditKey
      <3>1. comp' = NoComp \/ \E n \in ItemCounts :
               comp' = [items |-> n, active |-> TRUE, idx |-> IF comp.idx >= n THEN 0 ELSE comp.idx]
        BY <2>1 DEF EditKey, UpdateCompletions
      <3> QED
        BY <3>1, ClearedFits
    <2>2. CASE CompletionKey
      <3>1. \E idx : comp' = [comp EXCEPT !.idx = idx]
        BY <2>2 DEF CompletionKey
      <3>2. comp'.items = comp.items
        BY <1>0, <3>1
      <3> QED
        BY <1>0, <3>2
    <2>3. CASE EnterQueues
      <3>1. comp' = [comp EXCEPT !.items = 0, !.active = FALSE]
        BY <2>3 DEF EnterQueues
      <3>2. comp'.items = 0
        BY <1>0, <3>1
      <3> QED
        BY <3>2
    <2>4. CASE comp' = NoComp \/ comp' = comp
      BY <1>0, <2>4, ClearedFits
    <2>5. CASE ControlKey \/ NewLineKey \/ PasteText \/ MoveKey \/ UpKey \/ DownKey \/ TabKey
               \/ EscapeKey \/ ClearKey \/ EnterSubmits \/ AttachKey \/ PathKey
               \/ UNCHANGED editorVars
      BY <2>4, <2>5 DEF ControlKey, NewLineKey, PasteText, MoveKey, UpKey, DownKey, TabKey,
                        EscapeKey, ClearKey, EnterSubmits, AttachKey, PathKey, editorVars
    <2> QED
      BY <2>1, <2>2, <2>3, <2>5 DEF EditorNext
  <1>3. composer'.lines \in Texts
    <2>1. CASE EditKey \/ ControlKey \/ NewLineKey \/ PasteText
      BY <2>1 DEF EditKey, ControlKey, NewLineKey, PasteText, Fits
    <2>2. CASE MoveKey
      <3>1. \/ composer' = MoveLeft(composer) \/ composer' = MoveRight(composer)
            \/ \E col : composer' = [composer EXCEPT !.col = col]
        BY <2>2 DEF MoveKey
      <3>2. MoveLeft(composer).lines = composer.lines /\ MoveRight(composer).lines = composer.lines
        BY <1>0, MovesKeepLines
      <3>3. ASSUME NEW col, composer' = [composer EXCEPT !.col = col]
            PROVE  composer'.lines = composer.lines
        BY <1>0, <3>3, MovesKeepLines
      <3>4. composer'.lines = composer.lines
        BY <3>1, <3>2, <3>3
      <3> QED
        BY <1>0, <3>4
    <2>3. CASE UpKey \/ DownKey
      <3>1. \/ \E row : composer' = MoveToRow(composer, row)
            \/ \E col : composer' = [composer EXCEPT !.col = col]
            \/ ShowEntry(histIdx' # histIdx, TRUE, composer)
            \/ ShowEntry(histIdx' # -1, FALSE, Cleared)
        BY <2>3 DEF UpKey, DownKey
      <3>2. ASSUME NEW row, composer' = MoveToRow(composer, row)
            PROVE  composer'.lines = composer.lines
        BY <1>0, <3>2, MovesKeepLines
      <3>3. ASSUME NEW col, composer' = [composer EXCEPT !.col = col]
            PROVE  composer'.lines = composer.lines
        BY <1>0, <3>3
      <3>4. ASSUME ShowEntry(histIdx' # histIdx, TRUE, composer)
            PROVE  composer'.lines \in Texts
        BY <1>0, <3>4, ShownFits
      <3>5. ASSUME ShowEntry(histIdx' # -1, FALSE, Cleared)
            PROVE  composer'.lines \in Texts
        BY <3>5, ShownFits, ClearedFits
      <3> QED
        BY <1>0, <3>1, <3>2, <3>3, <3>4, <3>5
    <2>4. CASE TabKey
      <3>1. PICK n \in 1 .. MaxCols : composer' = SetInput(<<n>>)
        BY <2>4 DEF TabKey
      <3>2. <<n>> \in Texts
        BY OneLine, EditorBounds
      <3> QED
        BY <3>1, <3>2, SetInputFits
    <2>5. CASE composer' = Cleared \/ composer' = composer
      BY <1>0, <2>5, ClearedFits
    <2>6. CASE CompletionKey \/ EscapeKey \/ ClearKey \/ EnterQueues \/ EnterSubmits
               \/ AttachKey \/ PathKey \/ UNCHANGED editorVars
      BY <2>5, <2>6 DEF CompletionKey, EscapeKey, ClearKey, EnterQueues, EnterSubmits,
                        AttachKey, PathKey, editorVars
    <2> QED
      BY <2>1, <2>2, <2>3, <2>4, <2>6 DEF EditorNext
  <1> QED
    BY <1>1, <1>2, <1>3 DEF EntryTypes

LEMMA HistoryStep ==
    ASSUME HistoryTypes, [EditorNext]_editorVars
    PROVE  HistoryTypes'
  <1>1. CASE UNCHANGED <<entries, histIdx>>
    BY <1>1 DEF HistoryTypes
  <1>2. CASE UpKey
    <2>1. entries' = entries /\ histIdx' \in {histIdx, Older}
      BY <1>2 DEF UpKey
    <2>2. Older \in -1 .. HistoryMax - 1
      BY EditorBounds DEF HistoryTypes, Older
    <2> QED
      BY <2>1, <2>2 DEF HistoryTypes
  <1>3. CASE DownKey
    <2>1. entries' = entries /\ histIdx' \in {histIdx, Newer}
      BY <1>3 DEF DownKey
    <2>2. Newer \in -1 .. HistoryMax - 1
      BY EditorBounds DEF HistoryTypes, Newer
    <2> QED
      BY <2>1, <2>2 DEF HistoryTypes
  <1>4. CASE EnterSubmits
    <2>1. \/ entries' = Least(entries + 1, HistoryMax) /\ histIdx' = -1
          \/ UNCHANGED <<entries, histIdx>>
      BY <1>4 DEF EnterSubmits, AddEntry
    <2>2. Least(entries + 1, HistoryMax) \in 0 .. HistoryMax /\ -1 \in -1 .. HistoryMax - 1
      BY EditorBounds DEF HistoryTypes, Least
    <2> QED
      BY <2>1, <2>2 DEF HistoryTypes
  <1>5. CASE EditKey \/ ControlKey \/ NewLineKey \/ PasteText \/ MoveKey \/ CompletionKey
             \/ TabKey \/ EscapeKey \/ ClearKey \/ EnterQueues \/ AttachKey \/ PathKey
             \/ UNCHANGED editorVars
    BY <1>1, <1>5 DEF EditKey, ControlKey, NewLineKey, PasteText, MoveKey, CompletionKey,
                      TabKey, EscapeKey, ClearKey, EnterQueues, AttachKey, PathKey, editorVars
  <1> QED
    BY <1>2, <1>3, <1>4, <1>5 DEF EditorNext

(* The types of Editor, for texts and histories of any size: after any keys the cursor
   is in a row and a column the text may have, and the entry shown is in the history. *)
THEOREM EditorTypeCorrect == EditorSpec => []EditorTypeOK
  <1>1. EditorInit => EntryTypes /\ HistoryTypes
    <2> SUFFICES ASSUME EditorInit PROVE EntryTypes /\ HistoryTypes
      OBVIOUS
    <2>1. composer = Cleared /\ comp = NoComp /\ attaching = FALSE
      BY DEF EditorInit, Cleared
    <2>2. entries \in 0 .. HistoryMax /\ histIdx = -1 /\ -1 \in -1 .. HistoryMax - 1
      BY EditorBounds DEF EditorInit
    <2> QED
      BY <2>1, <2>2, ClearedFits DEF EntryTypes, HistoryTypes
  <1>2. EditorInd /\ EntryTypes /\ HistoryTypes => EditorTypeOK
    <2> SUFFICES ASSUME EditorInd, EntryTypes, HistoryTypes PROVE EditorTypeOK
      OBVIOUS
    <2>1. PICK n \in 1 .. MaxRows : composer.lines \in [1 .. n -> 0 .. MaxCols]
      BY DEF EntryTypes, Texts
    <2>2. /\ composer.row \in Nat /\ composer.col \in Nat
          /\ composer.row + 1 \in 1 .. Len(composer.lines)
          /\ composer.col <= composer.lines[composer.row + 1]
      BY InTextParts DEF EditorInd, InText
    <2>3. Len(composer.lines) = n
      BY <2>1
    <2>4. composer.lines[composer.row + 1] \in 0 .. MaxCols
      BY <2>1, <2>2, <2>3
    <2>5. composer.row \in 0 .. MaxRows - 1 /\ composer.col \in 0 .. MaxCols
      BY <2>2, <2>3, <2>4, EditorBounds
    <2>6. comp \in [items : ItemCounts \cup {0}, idx : Nat, active : BOOLEAN]
      BY DEF EditorInd, EntryTypes
    <2> QED
      BY <2>5, <2>6 DEF EditorInd, EntryTypes, HistoryTypes, EditorTypeOK
  <1>3. EditorInd /\ EntryTypes /\ HistoryTypes /\ [EditorNext]_editorVars
           => EditorInd' /\ EntryTypes' /\ HistoryTypes'
    BY EditorStep, EntryStep, HistoryStep
  <1> QED
    BY EditorStart, <1>1, <1>2, <1>3, PTL DEF EditorSpec

===============================================================================
