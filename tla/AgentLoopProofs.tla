--------------------------- MODULE AgentLoopProofs ---------------------------
(***************************************************************************)
(* Proofs about AgentLoop, for any set of goroutines and any bounds.       *)
(***************************************************************************)
EXTENDS AgentLoop, TLAPS

(***************************************************************************)
(* The messages built by the agent and by compaction are messages.         *)
(***************************************************************************)
LEMMA MessageTypes ==
    /\ \A s \in Seq(Nat) : UserMessage(s) \in Message
    /\ \A n \in Nat : AssistantMessage(n) \in Message
    /\ {ToolMessage, BoundaryMessage, SummaryMessage} \subseteq Message
  <1>1. <<>> \in Seq(Nat)
    OBVIOUS
  <1> QED
    BY <1>1 DEF Message, Role, UserMessage, AssistantMessage, ToolMessage,
                BoundaryMessage, SummaryMessage

(* The end of a sequence of messages is a sequence of messages. *)
LEMMA LastNType ==
    ASSUME NEW msgs \in Seq(Message), NEW n \in Nat, n < Len(msgs)
    PROVE  LastN(msgs, n) \in Seq(Message)
  <1>1. Len(msgs) \in Nat /\ Len(msgs) - n + 1 \in 1..(Len(msgs) + 1)
    OBVIOUS
  <1> QED
    BY <1>1 DEF LastN

LEMMA TruncatedType ==
    ASSUME NEW c \in ContextState, NEW keep \in Nat
    PROVE  Truncated(c, keep) \in ContextState
  <1>1. c.msgs \in Seq(Message)
    BY DEF ContextState
  <1>2. CASE Len(c.msgs) <= 2 * keep
    BY <1>2 DEF Truncated
  <1>3. CASE ~(Len(c.msgs) <= 2 * keep)
    <2>1. Len(c.msgs) \in Nat /\ keep < Len(c.msgs)
      BY <1>1, <1>3
    <2>2. LastN(c.msgs, keep) \in Seq(Message)
      BY <1>1, <2>1, LastNType
    <2>3. c.msgs[1] \in Message
      BY <1>1, <2>1
    <2>4. <<c.msgs[1], BoundaryMessage>> \o LastN(c.msgs, keep) \in Seq(Message)
      BY <2>2, <2>3, MessageTypes
    <2> QED
      BY <1>3, <2>4 DEF Truncated, ContextState
  <1> QED
    BY <1>2, <1>3

LEMMA SummarisedType ==
    ASSUME NEW c \in ContextState, NEW outcome
    PROVE  Summarised(c, outcome) \in ContextState
  <1>1. c.msgs \in Seq(Message) /\ c.hist \in Seq(BOOLEAN)
    BY DEF ContextState
  <1>2. KeepRecent \in Nat /\ KeepTail \in Nat
    BY ContextAssumption
  <1>3. CASE outcome = "failed"
    BY <1>2, <1>3, TruncatedType DEF Summarised
  <1>4. CASE outcome = "nothing"
    BY <1>4 DEF Summarised
  <1>5. CASE outcome \notin {"failed", "nothing"} /\ Len(c.msgs) <= 1 + KeepTail
    BY <1>5 DEF Summarised
  <1>6. CASE outcome \notin {"failed", "nothing"} /\ ~(Len(c.msgs) <= 1 + KeepTail)
    <2>1. Len(c.msgs) \in Nat /\ KeepTail < Len(c.msgs)
      BY <1>1, <1>2, <1>6
    <2>2. LastN(c.msgs, KeepTail) \in Seq(Message)
      BY <1>1, <1>2, <2>1, LastNType
    <2>3. c.msgs[1] \in Message
      BY <1>1, <1>2, <2>1
    <2>4. <<c.msgs[1], SummaryMessage>> \o LastN(c.msgs, KeepTail) \in Seq(Message)
      BY <2>2, <2>3, MessageTypes
    <2>5. (outcome = "saved") \in BOOLEAN
      OBVIOUS
    <2>6. Append(c.hist, outcome = "saved") \in Seq(BOOLEAN)
      BY <1>1, <2>5
    <2>7. Summarised(c, outcome) =
            [c EXCEPT !.msgs = <<c.msgs[1], SummaryMessage>> \o LastN(c.msgs, KeepTail),
                      !.prev = TRUE,
                      !.hist = Append(c.hist, outcome = "saved")]
      BY <1>6 DEF Summarised
    <2> QED
      BY <2>4, <2>6, <2>7 DEF ContextState
  <1> QED
    BY <1>3, <1>4, <1>5, <1>6

(* Whatever the compactor answers, the manager is left in a legal state. *)
LEMMA CompactType ==
    ASSUME NEW c \in ContextState, NEW d \in CompactResults(c)
    PROVE  d \in ContextState
  <1>1. KeepRecent \in Nat
    BY ContextAssumption
  <1>2. CASE ~HasCompactor
    BY <1>1, <1>2, TruncatedType DEF CompactResults
  <1>3. CASE HasCompactor /\ Thrashing(c)
    BY <1>3 DEF CompactResults
  <1>4. CASE HasCompactor /\ ~Thrashing(c)
    BY <1>4, SummarisedType DEF CompactResults
  <1> QED
    BY <1>2, <1>3, <1>4

LEMMA EmptyContextType == EmptyContext \in ContextState
  BY DEF EmptyContext, ContextState

LEMMA SyncType ==
    ASSUME NEW msgs \in Seq(Message)
    PROVE  SyncToManager(msgs) \in ContextState
  BY EmptyContextType DEF SyncToManager, ContextState

(* The interrupts in a history are numbers. *)
LEMMA InterruptsType ==
    ASSUME NEW msgs \in Seq(Message)
    PROVE  Interrupts(msgs) \subseteq Nat
  <1>1. SUFFICES ASSUME NEW i \in 1..Len(msgs)
                 PROVE  Elements(msgs[i].ints) \subseteq Nat
    BY DEF Interrupts
  <1>2. msgs[i] \in Message
    OBVIOUS
  <1>3. msgs[i].ints \in Seq(Nat)
    BY <1>2 DEF Message
  <1> QED
    BY <1>3 DEF Elements

(***************************************************************************)
(* The inductive invariant.  A run that executes tools has some left, and  *)
(* only a submitted run goes through the release of the busy flag.         *)
(***************************************************************************)
ToolsLeft == \A p \in Procs : pc[p] = "tools" => todo[p] > 0

ReleaseOwner == \A p \in Procs : pc[p] = "release" => p \in Submitters

(* An interrupt that was decided on is within the bound. *)
UserSends == user = "interrupt" => issued < MaxInterrupts

IndInv == TypeOK /\ ToolsLeft /\ UserSends /\ ReleaseOwner /\ SubmitExclusive

(***************************************************************************)
(* Type correctness: one step per action.                                  *)
(***************************************************************************)
LEMMA AppendType ==
    ASSUME messages \in Seq(Message), NEW p, NEW new \in Seq(Message),
           AppendMessages(p, new)
    PROVE  messages' \in Seq(Message)
  <1>1. messages \o new \in Seq(Message)
    OBVIOUS
  <1> QED
    BY <1>1 DEF AppendMessages

LEMMA ReturnType ==
    ASSUME NEW p \in Procs, pc \in [Procs -> Labels],
           cancelled \in [Procs -> BOOLEAN], Return(p)
    PROVE  pc' \in [Procs -> Labels] /\ cancelled' \in [Procs -> BOOLEAN]
  BY DEF Return, Goto, Labels

LEMMA GotoType ==
    ASSUME NEW p \in Procs, pc \in [Procs -> Labels], NEW label \in Labels, Goto(p, label)
    PROVE  pc' \in [Procs -> Labels]
  BY DEF Goto

LEMMA RunStepType ==
    ASSUME TypeOK, ToolsLeft, NEW p \in Procs, RunStep(p)
    PROVE  TypeOK'
  <1> USE AgentAssumption
  <1>1. CASE Begin(p)
    <2>0. <<>> \in Seq(Nat)
      OBVIOUS
    <2>3. UserMessage(<<>>) \in Message
      BY <2>0, MessageTypes
    <2>1. <<UserMessage(<<>>)>> \in Seq(Message)
      BY <2>3
    <2>2. messages' \in Seq(Message)
      BY <1>1, <2>1, AppendType DEF Begin, TypeOK
    <2>4. pc' \in [Procs -> Labels]
      BY <1>1, GotoType DEF Begin, TypeOK, Labels
    <2>5. turnCount' \in Nat /\ asked' \in [Procs -> Nat]
      BY <1>1 DEF Begin, TypeOK
    <2> QED
      BY <1>1, <2>2, <2>4, <2>5 DEF Begin, TypeOK, userVars, histVars
  <1>2. CASE EndLoop(p)
    <2>1. pc' \in [Procs -> Labels] /\ cancelled' \in [Procs -> BOOLEAN]
      BY <1>2, ReturnType DEF EndLoop, TypeOK
    <2> QED
      BY <1>2, <2>1 DEF EndLoop, TypeOK, userVars, histVars
  <1>3. CASE CountTurn(p)
    <2>1. <<UserMessage(interruptCh)>> \in Seq(Message)
      BY MessageTypes DEF TypeOK
    <2>2. messages' \in Seq(Message)
      BY <1>3, <2>1, AppendType DEF CountTurn, TypeOK
    <2>3. cm' \in ContextState
      BY <1>3, <2>2, SyncType DEF CountTurn, TypeOK
    <2>4. interruptCh' \in Seq(Nat) /\ Len(interruptCh') <= InterruptCap
      BY <1>3 DEF CountTurn, TypeOK
    <2>5. turnCount' \in Nat /\ loaded' \in [Procs -> Nat]
      BY <1>3 DEF CountTurn, TypeOK
    <2> QED
      BY <1>3, <2>2, <2>3, <2>4, <2>5
         DEF CountTurn, TypeOK, Goto, Labels, userVars, histVars
  <1>4. CASE CheckContext(p)
    <2>1. cm' \in ContextState
      BY <1>4, SyncType DEF CheckContext, TypeOK
    <2>2. pc' \in [Procs -> Labels]
      BY <1>4 DEF CheckContext, TypeOK, Goto, Labels
    <2> QED
      BY <1>4, <2>1, <2>2 DEF CheckContext, TypeOK, userVars, histVars
  <1>5. CASE Compact(p)
    <2>1. cm' \in ContextState
      BY <1>5, CompactType DEF Compact, TypeOK
    <2> QED
      BY <1>5, <2>1 DEF Compact, TypeOK, Goto, Labels, userVars, histVars
  <1>6. CASE ReadBack(p)
    BY <1>6 DEF ReadBack, TypeOK, ContextState, Goto, Labels, userVars, histVars
  <1>7. CASE CallModel(p)
    <2>1. seen' \subseteq Nat
      BY <1>7, InterruptsType DEF CallModel, TypeOK
    <2>2. Len(messages) \in Nat /\ asked' \in [Procs -> Nat]
      BY <1>7 DEF CallModel, TypeOK
    <2> QED
      BY <1>7, <2>1, <2>2 DEF CallModel, TypeOK, Goto, Labels, userVars
  <1>8. CASE ModelError(p)
    <2>1. pc' \in [Procs -> Labels] /\ cancelled' \in [Procs -> BOOLEAN]
      BY <1>8, ReturnType DEF ModelError, TypeOK
    <2> QED
      BY <1>8, <2>1 DEF ModelError, TypeOK, userVars, histVars
  <1>9. CASE ModelReply(p)
    <2>1. PICK n \in 0..MaxCalls, tokens \in {0, sent[p]} :
             /\ cm' = IF tokens > 0 THEN SetActualTokens(cm, tokens) ELSE cm
             /\ AppendMessages(p, <<AssistantMessage(n)>>)
             /\ IF n = 0
                THEN Return(p) /\ UNCHANGED todo
                ELSE /\ Goto(p, "tools")
                     /\ todo' = [todo EXCEPT ![p] = n]
                     /\ UNCHANGED cancelled
      BY <1>9 DEF ModelReply
    <2>2. <<AssistantMessage(n)>> \in Seq(Message)
      BY MessageTypes
    <2>3. messages' \in Seq(Message)
      BY <2>1, <2>2, AppendType DEF TypeOK
    <2>4. cm' \in ContextState
      <3>1. cm \in ContextState /\ Len(cm.msgs) \in Nat /\ tokens \in Nat
        <4>1. cm \in ContextState
          BY DEF TypeOK
        <4>2. cm.msgs \in Seq(Message)
          BY <4>1 DEF ContextState
        <4>3. sent \in [Procs -> Nat]
          BY DEF TypeOK
        <4> QED
          BY <2>1, <4>1, <4>2, <4>3
      <3>2. SetActualTokens(cm, tokens) \in ContextState
        BY <3>1 DEF SetActualTokens, ContextState
      <3> QED
        BY <2>1, <3>1, <3>2
    <2>5. /\ pc' \in [Procs -> Labels] /\ cancelled' \in [Procs -> BOOLEAN]
          /\ todo' \in [Procs -> 0..MaxCalls]
      BY <2>1, ReturnType DEF TypeOK, Goto, Labels
    <2> QED
      BY <1>9, <2>3, <2>4, <2>5 DEF ModelReply, TypeOK, userVars, histVars
  <1>10. CASE ExecuteTool(p)
    <2>1. \A o : Executed(o) \o Reported(o) \in Seq(Message)
      BY MessageTypes DEF Executed, Reported
    <2>2. messages' \in Seq(Message)
      BY <1>10, <2>1, AppendType DEF ExecuteTool, TypeOK
    <2>3. todo' \in [Procs -> 0..MaxCalls]
      BY <1>10 DEF ExecuteTool, TypeOK, ToolsLeft
    <2> QED
      BY <1>10, <2>2, <2>3 DEF ExecuteTool, TypeOK, Goto, Labels, userVars, histVars
  <1>11. CASE Release(p)
    BY <1>11 DEF Release, TypeOK, Goto, Labels, userVars, histVars
  <1>12. CASE StartTurn(p)
    BY <1>12 DEF StartTurn, TypeOK, Goto, Labels, userVars, histVars
  <1>13. CASE LoadTurnCount(p)
    BY <1>13 DEF LoadTurnCount, TypeOK, Goto, Labels, userVars, histVars
  <1> QED
    BY <1>1, <1>2, <1>3, <1>4, <1>5, <1>6, <1>7, <1>8, <1>9, <1>10, <1>11, <1>12, <1>13
       DEF RunStep

LEMMA InterruptType ==
    ASSUME TypeOK, Interrupt, issued < MaxInterrupts
    PROVE  /\ issued' \in 0..MaxInterrupts
           /\ interruptCh' \in Seq(Nat) /\ Len(interruptCh') <= InterruptCap
           /\ discarded' \subseteq Nat
  <1>1. issued \in Nat /\ issued' = issued + 1 /\ issued' \in 0..MaxInterrupts
    BY AgentAssumption DEF Interrupt, TypeOK
  <1>2. CASE Len(interruptCh) < InterruptCap
    <2>1. interruptCh \in Seq(Nat) /\ InterruptCap \in Nat
      BY AgentAssumption DEF TypeOK
    <2>2. interruptCh' = Append(interruptCh, issued + 1) /\ discarded' = discarded
      BY <1>2 DEF Interrupt
    <2>3. interruptCh' \in Seq(Nat) /\ Len(interruptCh') = Len(interruptCh) + 1
      BY <1>1, <2>1, <2>2
    <2>4. Len(interruptCh) \in Nat /\ Len(interruptCh') <= InterruptCap
      BY <1>2, <2>1, <2>3
    <2>5. discarded' \subseteq Nat
      BY <2>2 DEF TypeOK
    <2> QED
      BY <1>1, <2>3, <2>4, <2>5
  <1>3. CASE ~(Len(interruptCh) < InterruptCap)
    <2>1. interruptCh' = interruptCh /\ discarded' = discarded \cup {issued + 1}
      BY <1>3 DEF Interrupt
    <2>2. /\ interruptCh \in Seq(Nat) /\ Len(interruptCh) <= InterruptCap
          /\ discarded \subseteq Nat
      BY DEF TypeOK
    <2> QED
      BY <1>1, <2>1, <2>2
  <1> QED
    BY <1>1, <1>2, <1>3

LEMMA TypeStep ==
    ASSUME TypeOK, ToolsLeft, UserSends, [Next]_vars
    PROVE  TypeOK'
  <1> USE AgentAssumption
  <1>1. CASE UNCHANGED vars
    BY <1>1 DEF vars, TypeOK
  <1>2. ASSUME NEW p \in Procs, Submit(p)
        PROVE  TypeOK'
    <2>1. pc' \in [Procs -> Labels] /\ runs' \in 0..MaxRuns
      BY <1>2, GotoType DEF Submit, TypeOK, Labels
    <2> QED
      BY <1>2, <2>1 DEF Submit, TypeOK, userVars, histVars
  <1>3. ASSUME NEW p \in Procs, Stream(p)
        PROVE  TypeOK'
    <2>1. pc' \in [Procs -> Labels] /\ runs' \in 0..MaxRuns
      BY <1>3, GotoType DEF Stream, TypeOK, Labels
    <2> QED
      BY <1>3, <2>1 DEF Stream, TypeOK, userVars, histVars
  <1>4. ASSUME NEW p \in Procs, RunStep(p)
        PROVE  TypeOK'
    BY <1>4, RunStepType
  <1>5. ASSUME NEW p \in Procs, Cancel(p)
        PROVE  TypeOK'
    BY <1>5 DEF Cancel, TypeOK, userVars, histVars
  <1>6. ASSUME NEW p \in Procs, InterruptAndStop(p)
        PROVE  TypeOK'
    BY <1>6, InterruptType DEF InterruptAndStop, TypeOK
  <1>7. CASE CheckBusy
    BY <1>7 DEF CheckBusy, TypeOK, histVars
  <1>8. CASE SendInterrupt
    BY <1>8, InterruptType DEF SendInterrupt, UserSends, TypeOK
  <1>9. CASE Clear
    <2>1. messages' \in Seq(Message) /\ cm' \in ContextState
      <3>1. <<>> \in Seq(Message)
        OBVIOUS
      <3> QED
        BY <1>9, <3>1, EmptyContextType DEF Clear, TypeOK
    <2>2. interruptCh' \in Seq(Nat) /\ Len(interruptCh') <= InterruptCap
      BY <1>9 DEF Clear
    <2>3. discarded' \subseteq Nat
      <3>1. Elements(interruptCh) \subseteq Nat
        BY DEF TypeOK, Elements
      <3>2. Interrupts(messages) \subseteq Nat
        BY InterruptsType DEF TypeOK
      <3> QED
        BY <1>9, <3>1, <3>2 DEF Clear, TypeOK
    <2>4. clears' \in 0..MaxClears
      BY <1>9 DEF Clear, TypeOK
    <2>5. UNCHANGED <<turnCount, loaded, asked, busy, pc, todo, sent, cancelled, runs,
                      user, issued, compacts, seen>>
      BY <1>9 DEF Clear
    <2> QED
      BY <2>1, <2>2, <2>3, <2>4, <2>5 DEF TypeOK
  <1>10. CASE CompactCommand
    <2>1. cm' \in ContextState
      BY <1>10, CompactType DEF CompactCommand, TypeOK
    <2>2. compacts' \in 0..MaxCompacts
      BY <1>10 DEF CompactCommand, TypeOK
    <2>3. UNCHANGED <<messages, turnCount, loaded, asked, busy, interruptCh, pc, todo,
                      sent, cancelled, runs, user, issued, clears, seen, discarded>>
      BY <1>10 DEF CompactCommand, histVars
    <2> QED
      BY <2>1, <2>2, <2>3 DEF TypeOK
  <1> QED
    BY <1>1, <1>2, <1>3, <1>4, <1>5, <1>6, <1>7, <1>8, <1>9, <1>10 DEF Next

(***************************************************************************)
(* Control.  Apart from Submit and Release, a step leaves the busy flag    *)
(* alone and takes no submitter into or out of "idle".                     *)
(***************************************************************************)
LEMMA StepInRun ==
    ASSUME TypeOK, ToolsLeft, ReleaseOwner, NEW p \in Procs, RunStep(p), ~Release(p)
    PROVE  /\ busy' = busy
           /\ \A q \in Procs : q # p => pc'[q] = pc[q]
           /\ p \in Submitters => pc[p] # "idle" /\ pc'[p] # "idle"
           /\ pc'[p] = "release" => p \in Submitters
  <1>1. CASE Begin(p)
    BY <1>1 DEF Begin, TypeOK, Goto
  <1>2. CASE EndLoop(p)
    BY <1>2 DEF EndLoop, Return, TypeOK, Goto
  <1>3. CASE StartTurn(p) \/ LoadTurnCount(p) \/ CountTurn(p)
    BY <1>3 DEF StartTurn, LoadTurnCount, CountTurn, TypeOK, Goto
  <1>4. CASE CheckContext(p)
    BY <1>4 DEF CheckContext, TypeOK, Goto
  <1>5. CASE Compact(p)
    BY <1>5 DEF Compact, TypeOK, Goto
  <1>6. CASE ReadBack(p)
    BY <1>6 DEF ReadBack, TypeOK, Goto
  <1>7. CASE CallModel(p)
    BY <1>7 DEF CallModel, TypeOK, Goto
  <1>8. CASE ModelError(p)
    BY <1>8 DEF ModelError, Return, TypeOK, Goto
  <1>9. CASE ModelReply(p)
    BY <1>9 DEF ModelReply, Return, TypeOK, Goto
  <1>10. CASE ExecuteTool(p)
    BY <1>10 DEF ExecuteTool, TypeOK, Goto
  <1> QED
    BY <1>1, <1>2, <1>3, <1>4, <1>5, <1>6, <1>7, <1>8, <1>9, <1>10 DEF RunStep

LEMMA ToolsLeftStep ==
    ASSUME TypeOK, ToolsLeft, [Next]_vars
    PROVE  ToolsLeft'
  <1> SUFFICES ASSUME NEW q \in Procs, pc'[q] = "tools"
               PROVE  todo'[q] > 0
    BY DEF ToolsLeft
  <1> USE AgentAssumption DEF ToolsLeft, TypeOK, Goto
  <1>1. ASSUME NEW p \in Procs, ModelReply(p)
        PROVE  todo'[q] > 0
    BY <1>1 DEF ModelReply, Return
  <1>2. ASSUME NEW p \in Procs, ExecuteTool(p)
        PROVE  todo'[q] > 0
    BY <1>2 DEF ExecuteTool
  <1>3. ASSUME NEW p \in Procs,
               Submit(p) \/ Stream(p) \/ Cancel(p) \/ InterruptAndStop(p)
        PROVE  todo'[q] > 0
    BY <1>3 DEF Submit, Stream, Cancel, InterruptAndStop
  <1>4. ASSUME NEW p \in Procs, Begin(p) \/ EndLoop(p) \/ StartTurn(p)
                                 \/ LoadTurnCount(p) \/ CountTurn(p)
        PROVE  todo'[q] > 0
    BY <1>4 DEF Begin, EndLoop, StartTurn, LoadTurnCount, CountTurn, Return
  <1>5. ASSUME NEW p \in Procs, CheckContext(p) \/ Compact(p) \/ ReadBack(p)
        PROVE  todo'[q] > 0
    BY <1>5 DEF CheckContext, Compact, ReadBack
  <1>6. ASSUME NEW p \in Procs, CallModel(p) \/ ModelError(p) \/ Release(p)
        PROVE  todo'[q] > 0
    BY <1>6 DEF CallModel, ModelError, Release, Return
  <1>7. CASE CheckBusy \/ SendInterrupt \/ Clear \/ CompactCommand \/ UNCHANGED vars
    BY <1>7 DEF CheckBusy, SendInterrupt, Clear, CompactCommand, vars
  <1> QED
    BY <1>1, <1>2, <1>3, <1>4, <1>5, <1>6, <1>7 DEF Next, RunStep

LEMMA ControlStep ==
    ASSUME IndInv, [Next]_vars
    PROVE  ReleaseOwner' /\ SubmitExclusive'
  <1> USE AgentAssumption DEF IndInv, SubmitExclusive, ReleaseOwner
  <1>1. ASSUME NEW p \in Procs, Submit(p)
        PROVE  ReleaseOwner' /\ SubmitExclusive'
    BY <1>1 DEF Submit, TypeOK, Goto, Procs
  <1>2. ASSUME NEW p \in Procs, Stream(p)
        PROVE  ReleaseOwner' /\ SubmitExclusive'
    <2>1. p \notin Submitters /\ busy' = busy /\ pc'[p] = "begin"
      BY <1>2 DEF Stream, TypeOK, Goto
    <2>2. \A q \in Procs : q # p => pc'[q] = pc[q]
      BY <1>2 DEF Stream, TypeOK, Goto
    <2> QED
      BY <2>1, <2>2 DEF Procs
  <1>3. ASSUME NEW p \in Procs, RunStep(p), ~Release(p)
        PROVE  ReleaseOwner' /\ SubmitExclusive'
    BY <1>3, StepInRun DEF Procs
  <1>4. ASSUME NEW p \in Procs, Release(p)
        PROVE  ReleaseOwner' /\ SubmitExclusive'
    <2>1. p \in Submitters /\ pc[p] # "idle" /\ pc'[p] = "idle" /\ busy' = FALSE
      BY <1>4 DEF Release, TypeOK, Goto
    <2>2. \A q \in Procs : q # p => pc'[q] = pc[q]
      BY <1>4 DEF Release, TypeOK, Goto
    <2> QED
      BY <2>1, <2>2 DEF Procs
  <1>5. ASSUME NEW p \in Procs, Cancel(p) \/ InterruptAndStop(p)
        PROVE  ReleaseOwner' /\ SubmitExclusive'
    BY <1>5 DEF Cancel, InterruptAndStop
  <1>6. CASE CheckBusy \/ SendInterrupt \/ Clear \/ CompactCommand \/ UNCHANGED vars
    BY <1>6 DEF CheckBusy, SendInterrupt, Clear, CompactCommand, vars
  <1> QED
    BY <1>1, <1>2, <1>3, <1>4, <1>5, <1>6 DEF Next

LEMMA UserSendsStep ==
    ASSUME IndInv, [Next]_vars
    PROVE  UserSends'
  <1> USE DEF IndInv, UserSends
  <1>1. ASSUME NEW p \in Procs, RunStep(p)
        PROVE  UserSends'
    BY <1>1 DEF RunStep, Begin, EndLoop, StartTurn, LoadTurnCount, CountTurn,
                CheckContext, Compact, ReadBack,
                CallModel, ModelError, ModelReply, ExecuteTool, Release, userVars
  <1>2. ASSUME NEW p \in Procs,
               Submit(p) \/ Stream(p) \/ Cancel(p) \/ InterruptAndStop(p)
        PROVE  UserSends'
    BY <1>2 DEF Submit, Stream, Cancel, InterruptAndStop, userVars
  <1>3. CASE CheckBusy \/ SendInterrupt \/ Clear \/ CompactCommand \/ UNCHANGED vars
    BY <1>3 DEF CheckBusy, SendInterrupt, Clear, CompactCommand, vars
  <1> QED
    BY <1>1, <1>2, <1>3 DEF Next

LEMMA InitInd == Init => IndInv
  <1> SUFFICES ASSUME Init PROVE IndInv
    OBVIOUS
  <1>1. TypeOK
    <2>1. <<>> \in Seq(Message) /\ <<>> \in Seq(Nat) /\ Len(<<>>) = 0
      OBVIOUS
    <2>2. /\ MaxTurns \in Nat /\ InterruptCap \in Nat /\ MaxCalls \in Nat
          /\ MaxRuns \in Nat /\ MaxInterrupts \in Nat
          /\ MaxClears \in Nat /\ MaxCompacts \in Nat
      BY AgentAssumption
    <2>3. /\ pc \in [Procs -> Labels] /\ todo \in [Procs -> 0..MaxCalls]
          /\ sent \in [Procs -> Nat] /\ cancelled \in [Procs -> BOOLEAN]
          /\ loaded \in [Procs -> Nat] /\ asked \in [Procs -> Nat]
      BY <2>2 DEF Init, Labels
    <2>4. /\ messages \in Seq(Message) /\ interruptCh \in Seq(Nat)
          /\ Len(interruptCh) <= InterruptCap /\ turnCount \in Nat
      BY <2>1, <2>2 DEF Init
    <2>5. /\ runs \in 0..MaxRuns /\ issued \in 0..MaxInterrupts
          /\ clears \in 0..MaxClears /\ compacts \in 0..MaxCompacts
      BY <2>2 DEF Init
    <2>6. /\ busy \in BOOLEAN /\ user \in {"prompt", "interrupt"}
          /\ cm \in ContextState /\ seen \subseteq Nat /\ discarded \subseteq Nat
      BY EmptyContextType DEF Init
    <2> QED
      BY <2>3, <2>4, <2>5, <2>6 DEF TypeOK
  <1>2. ToolsLeft /\ UserSends /\ ReleaseOwner /\ SubmitExclusive
    BY DEF Init, ToolsLeft, UserSends, ReleaseOwner, SubmitExclusive, Procs
  <1> QED
    BY <1>1, <1>2 DEF IndInv

LEMMA StepInd == IndInv /\ [Next]_vars => IndInv'
  <1> SUFFICES ASSUME IndInv, [Next]_vars PROVE IndInv'
    OBVIOUS
  <1>1. TypeOK' /\ ToolsLeft'
    BY TypeStep, ToolsLeftStep DEF IndInv
  <1>2. UserSends' /\ ReleaseOwner' /\ SubmitExclusive'
    BY UserSendsStep, ControlStep
  <1> QED
    BY <1>1, <1>2 DEF IndInv

(***************************************************************************)
(* Every variable keeps its type; in particular the interrupt channel      *)
(* never holds more than its capacity.  Of the turn counter nothing more   *)
(* is said than that it is a number: runs that overlap drive it beyond     *)
(* MaxTurns (AgentCallsWithinTurns is about those that do not).            *)
(***************************************************************************)
THEOREM AgentTypeCorrect == Spec => []TypeOK
  <1>1. IndInv => TypeOK
    BY DEF IndInv
  <1> QED
    BY InitInd, StepInd, <1>1, PTL DEF Spec

(***************************************************************************)
(* The busy flag of Submit is held exactly while a submitted run has not   *)
(* returned, and by one run at a time, for any number of submitters and    *)
(* streamers and in every interleaving with cancellations and commands.    *)
(***************************************************************************)
THEOREM AgentSubmitExclusive == Spec => []SubmitExclusive
  <1>1. IndInv => SubmitExclusive
    BY DEF IndInv
  <1> QED
    BY InitInd, StepInd, <1>1, PTL DEF Spec

(***************************************************************************)
(* The agent as SharedAgent describes it.  Between Submit and Release no   *)
(* step changes who is inside (StepInRun); the channel grows by one        *)
(* interrupt at a time and is emptied at once.                             *)
(***************************************************************************)
Inside == {p \in Submitters : pc[p] # "idle"}

(* A step that takes no submitter in or out, by what it does to the channel. *)
LEMMA ChannelStep ==
    ASSUME TypeOK, Inside' = Inside, UNCHANGED busy,
           \/ UNCHANGED interruptCh
           \/ interruptCh' = <<>>
           \/ Interrupt
    PROVE  Shared!Next \/ UNCHANGED Shared!vars
  <1> USE DEF Inside
  <1>1. CASE UNCHANGED interruptCh
    BY <1>1 DEF Shared!vars
  <1>2. CASE interruptCh' = <<>>
    <2>1. Len(interruptCh') = 0
      BY <1>2
    <2> QED
      BY <2>1 DEF Shared!Next, Shared!TakeOut
  <1>3. CASE Interrupt /\ Len(interruptCh) < InterruptCap
    <2>1. interruptCh' = Append(interruptCh, issued + 1)
      BY <1>3 DEF Interrupt
    <2>2. Len(interruptCh') = Len(interruptCh) + 1
      BY <2>1 DEF TypeOK
    <2> QED
      BY <1>3, <2>2 DEF Shared!Next, Shared!Send
  <1>4. CASE Interrupt /\ ~(Len(interruptCh) < InterruptCap)
    BY <1>1, <1>4 DEF Interrupt
  <1> QED
    BY <1>1, <1>2, <1>3, <1>4

LEMMA StepShared == IndInv /\ [Next]_vars => [Shared!Next]_(Shared!vars)
  <1> SUFFICES ASSUME IndInv, [Next]_vars
               PROVE  Shared!Next \/ UNCHANGED Shared!vars
    OBVIOUS
  <1>0. TypeOK /\ ToolsLeft /\ ReleaseOwner /\ SubmitExclusive
    BY DEF IndInv
  <1>1. ASSUME NEW p \in Procs, Submit(p)
        PROVE  Shared!Next
    <2>1. p \in Submitters /\ ~busy /\ busy' = TRUE /\ pc' = [pc EXCEPT ![p] = "begin"]
      BY <1>1 DEF Submit, Goto
    <2>2. Inside = {}
      BY <1>0, <2>1 DEF SubmitExclusive, Inside
    <2>3. Inside' = {p}
      BY <1>0, <2>1, <2>2 DEF TypeOK, Inside, Procs
    <2> QED
      BY <1>1, <2>1, <2>2, <2>3 DEF Submit, Inside, Shared!Next, Shared!Enter
  <1>2. ASSUME NEW p \in Procs, Release(p)
        PROVE  Shared!Next
    <2>1. p \in Submitters /\ pc[p] # "idle" /\ pc' = [pc EXCEPT ![p] = "idle"]
      BY <1>0, <1>2 DEF Release, Goto, ReleaseOwner
    <2>4. busy = TRUE /\ busy' = FALSE
      BY <1>0, <1>2, <2>1 DEF Release, SubmitExclusive, TypeOK
    <2>2. Inside = {p}
      BY <1>0, <2>1 DEF SubmitExclusive, Inside
    <2>3. Inside' = {}
      BY <1>0, <2>1, <2>2 DEF TypeOK, Inside, Procs
    <2> QED
      BY <1>2, <2>1, <2>2, <2>3, <2>4 DEF Release, Inside, Shared!Next, Shared!Leave
  <1>3. ASSUME NEW p \in Procs, RunStep(p), ~Release(p)
        PROVE  Shared!Next \/ UNCHANGED Shared!vars
    <2>1. Inside' = Inside
      BY <1>0, <1>3, StepInRun DEF Inside, Procs
    <2>2. UNCHANGED busy /\ (interruptCh' = interruptCh \/ interruptCh' = <<>>)
      BY <1>3 DEF RunStep, Begin, EndLoop, StartTurn, LoadTurnCount, CountTurn,
                CheckContext, Compact, ReadBack,
                  CallModel, ModelError, ModelReply, ExecuteTool
    <2> QED
      BY <1>0, <2>1, <2>2, ChannelStep
  <1>4. ASSUME NEW p \in Procs, Stream(p)
        PROVE  Shared!Next \/ UNCHANGED Shared!vars
    <2>1. p \notin Submitters /\ pc' = [pc EXCEPT ![p] = "begin"] /\ UNCHANGED <<busy, interruptCh>>
      BY <1>4, AgentAssumption DEF Stream, Goto
    <2>2. Inside' = Inside
      BY <1>0, <2>1 DEF TypeOK, Inside, Procs
    <2> QED
      BY <1>0, <2>1, <2>2, ChannelStep
  <1>5. ASSUME NEW p \in Procs, Cancel(p) \/ InterruptAndStop(p)
        PROVE  Shared!Next \/ UNCHANGED Shared!vars
    <2>1. UNCHANGED <<pc, busy>> /\ (UNCHANGED interruptCh \/ Interrupt)
      BY <1>5 DEF Cancel, InterruptAndStop
    <2> QED
      BY <1>0, <2>1, ChannelStep DEF Inside
  <1>6. CASE CheckBusy \/ SendInterrupt \/ Clear \/ CompactCommand \/ UNCHANGED vars
    <2>1. UNCHANGED <<pc, busy>>
      BY <1>6 DEF CheckBusy, SendInterrupt, Clear, CompactCommand, vars
    <2>2. UNCHANGED interruptCh \/ interruptCh' = <<>> \/ Interrupt
      BY <1>6 DEF CheckBusy, SendInterrupt, Clear, CompactCommand, vars
    <2> QED
      BY <1>0, <2>1, <2>2, ChannelStep DEF Inside
  <1> QED
    BY <1>1, <1>2, <1>3, <1>4, <1>5, <1>6 DEF Next

(***************************************************************************)
(* The agent implements SharedAgent, for any number of goroutines, turns   *)
(* and tool calls: submitted runs follow one another, and the channel is   *)
(* filled one by one up to its capacity and emptied only as a whole.       *)
(***************************************************************************)
THEOREM AgentImplementsShared == Spec => AgentIsShared
  <1>1. Init => Shared!Init
    <2>1. Init => {p \in Submitters : pc[p] # "idle"} = {}
      BY DEF Init, Procs
    <2>2. Init => Len(interruptCh) = 0 /\ busy = FALSE
      BY DEF Init
    <2> QED
      BY <2>1, <2>2 DEF Shared!Init
  <1> QED
    BY <1>1, InitInd, StepInd, StepShared, PTL DEF Spec, AgentIsShared, Shared!Spec

(***************************************************************************)
(* The history of the conversation.  AppendMessages loses messages when    *)
(* two runs overlap, and the properties of the history then fail, as they  *)
(* do in the code: they are about an agent with one run at a time.         *)
(***************************************************************************)
OneRun == \A p, q \in Procs : InRun(p) /\ InRun(q) => p = q

(* p goes from one label to another, and no one else is in a run. *)
Moves(p, from, to) ==
    /\ pc[p] = from /\ pc'[p] = to
    /\ \A q \in Procs : q # p => pc'[q] = pc[q] /\ pc[q] \in {"idle", "release"}

(* Nothing of the history changes, and nobody enters or leaves a turn. *)
Aside ==
    /\ UNCHANGED <<messages, interruptCh, cm, todo, issued, clears, seen, discarded>>
    /\ \A q \in Procs : \/ pc'[q] = pc[q]
                        \/ /\ pc[q] \in {"idle", "release", "turn", "waiting"}
                           /\ pc'[q] \in {"idle", "release", "begin"}
                        \/ pc[q] \in {"turn", "load"} /\ pc'[q] \in {"load", "store"}

(* What a step that is about the history does to it; s are the messages it *)
(* appends.                                                                *)
Appends(p, s) == messages' = messages \o s

(* A goroutine in a run has the history to itself. *)
LEMMA Alone ==
    ASSUME OneRun, NEW p \in Procs, InRun(p)
    PROVE  /\ ~Contended(p)
           /\ \A q \in Procs : q # p => pc[q] \in {"idle", "release"}
  BY DEF OneRun, InRun, Contended

LEMMA AsideMoves ==
    ASSUME IndInv,
           \/ \E p \in Procs : \/ Submit(p) \/ Stream(p) \/ EndLoop(p)
                               \/ StartTurn(p) \/ LoadTurnCount(p)
                               \/ ModelError(p) \/ Release(p) \/ Cancel(p)
           \/ CheckBusy \/ UNCHANGED vars
    PROVE  Aside
  <1> USE DEF IndInv, TypeOK, Aside, Goto, userVars, histVars
  <1>1. ASSUME NEW p \in Procs, Submit(p) \/ Stream(p)
        PROVE  Aside
    BY <1>1 DEF Submit, Stream
  <1>2. ASSUME NEW p \in Procs, EndLoop(p) \/ ModelError(p)
        PROVE  Aside
    BY <1>2 DEF EndLoop, ModelError, Return
  <1>3. ASSUME NEW p \in Procs, Release(p) \/ Cancel(p)
        PROVE  Aside
    BY <1>3 DEF Release, Cancel
  <1>4. CASE CheckBusy \/ UNCHANGED vars
    BY <1>4 DEF CheckBusy, vars
  <1>5. ASSUME NEW p \in Procs, StartTurn(p) \/ LoadTurnCount(p)
        PROVE  Aside
    BY <1>5 DEF StartTurn, LoadTurnCount
  <1> QED
    BY <1>1, <1>2, <1>3, <1>4, <1>5

LEMMA BeginMoves ==
    ASSUME IndInv, OneRun, NEW p \in Procs, Begin(p)
    PROVE  /\ Moves(p, "begin", "turn")
           /\ Appends(p, <<UserMessage(<<>>)>>)
           /\ UNCHANGED <<interruptCh, cm, todo, issued, clears, seen, discarded>>
  <1>1. InRun(p)
    BY DEF Begin, InRun
  <1> QED
    BY <1>1, Alone DEF IndInv, TypeOK, Begin, Moves, Appends, AppendMessages, Goto,
                       userVars, histVars

LEMMA CountMoves ==
    ASSUME IndInv, OneRun, NEW p \in Procs, CountTurn(p)
    PROVE  /\ Moves(p, "store", "check")
           /\ IF interruptCh = <<>> THEN messages' = messages
              ELSE Appends(p, <<UserMessage(interruptCh)>>)
           /\ interruptCh' = <<>>
           /\ UNCHANGED <<todo, issued, clears, seen, discarded>>
  <1>1. InRun(p)
    BY DEF CountTurn, InRun
  <1> QED
    BY <1>1, Alone DEF IndInv, TypeOK, CountTurn, Moves, Appends, AppendMessages, Goto,
                       userVars, histVars

LEMMA CheckMoves ==
    ASSUME IndInv, OneRun, NEW p \in Procs, CheckContext(p)
    PROVE  /\ \/ Moves(p, "check", "call")
              \/ Moves(p, "check", "compacting") /\ cm'.msgs = messages
           /\ UNCHANGED <<messages, interruptCh, todo, issued, clears, seen, discarded>>
  <1>1. InRun(p)
    BY DEF CheckContext, InRun
  <1> QED
    BY <1>1, Alone DEF IndInv, TypeOK, CheckContext, Moves, Goto, userVars, histVars,
                       SyncToManager, EmptyContext

LEMMA CompactMoves ==
    ASSUME IndInv, OneRun, NEW p \in Procs, Compact(p)
    PROVE  /\ Moves(p, "compacting", "readback")
           /\ cm' \in CompactResults(cm)
           /\ UNCHANGED <<messages, interruptCh, todo, issued, clears, seen, discarded>>
  <1>1. InRun(p)
    BY DEF Compact, InRun
  <1> QED
    BY <1>1, Alone DEF IndInv, TypeOK, Compact, Moves, Goto, userVars, histVars

LEMMA ReadBackMoves ==
    ASSUME IndInv, OneRun, NEW p \in Procs, ReadBack(p)
    PROVE  /\ Moves(p, "readback", "call")
           /\ messages' = cm.msgs
           /\ UNCHANGED <<interruptCh, cm, todo, issued, clears, seen, discarded>>
  <1>1. InRun(p)
    BY DEF ReadBack, InRun
  <1> QED
    BY <1>1, Alone DEF IndInv, TypeOK, ReadBack, Moves, Goto, userVars, histVars

LEMMA CallMoves ==
    ASSUME IndInv, OneRun, NEW p \in Procs, CallModel(p)
    PROVE  /\ Moves(p, "call", "waiting")
           /\ seen' = seen \cup Interrupts(messages)
           /\ UNCHANGED <<messages, interruptCh, cm, todo, issued, clears, discarded>>
  <1>1. InRun(p)
    BY DEF CallModel, InRun
  <1> QED
    BY <1>1, Alone DEF IndInv, TypeOK, CallModel, Moves, Goto, userVars

LEMMA ReplyMoves ==
    ASSUME IndInv, OneRun, NEW p \in Procs, ModelReply(p)
    PROVE  /\ \E n \in 0..MaxCalls :
                 /\ Appends(p, <<AssistantMessage(n)>>)
                 /\ \/ /\ n = 0 /\ todo' = todo
                       /\ Moves(p, "waiting", "idle") \/ Moves(p, "waiting", "release")
                    \/ /\ n > 0 /\ todo' = [todo EXCEPT ![p] = n]
                       /\ Moves(p, "waiting", "tools")
           /\ UNCHANGED <<interruptCh, issued, clears, seen, discarded>>
  <1>1. InRun(p)
    BY DEF ModelReply, InRun
  <1>2. PICK n \in 0..MaxCalls :
           /\ AppendMessages(p, <<AssistantMessage(n)>>)
           /\ IF n = 0
              THEN Return(p) /\ UNCHANGED todo
              ELSE Goto(p, "tools") /\ todo' = [todo EXCEPT ![p] = n]
    BY DEF ModelReply
  <1>3. Appends(p, <<AssistantMessage(n)>>)
    BY <1>1, <1>2, Alone DEF AppendMessages, Appends
  <1>4. pc[p] = "waiting" /\ UNCHANGED <<interruptCh, issued, clears, seen, discarded>>
    BY DEF ModelReply, userVars, histVars
  <1>5. CASE n = 0
    <2>1. Moves(p, "waiting", "idle") \/ Moves(p, "waiting", "release")
      BY <1>1, <1>2, <1>4, <1>5, Alone DEF Return, Goto, Moves, IndInv, TypeOK
    <2> QED
      BY <1>2, <1>3, <1>4, <1>5, <2>1
  <1>6. CASE n # 0
    <2>1. Moves(p, "waiting", "tools")
      BY <1>1, <1>2, <1>4, <1>6, Alone DEF Goto, Moves, IndInv, TypeOK
    <2>2. n > 0
      BY <1>6, AgentAssumption
    <2> QED
      BY <1>2, <1>3, <1>4, <1>6, <2>1, <2>2
  <1> QED
    BY <1>5, <1>6

LEMMA ToolMoves ==
    ASSUME IndInv, OneRun, NEW p \in Procs, ExecuteTool(p)
    PROVE  /\ Appends(p, <<ToolMessage>>)
           /\ todo[p] > 0
           /\ todo' = [todo EXCEPT ![p] = @ - 1]
           /\ \/ Moves(p, "tools", "tools")
              \/ Moves(p, "tools", "turn") /\ todo[p] = 1
           /\ UNCHANGED <<interruptCh, cm, issued, clears, seen, discarded>>
  <1>1. InRun(p) /\ todo[p] > 0
    BY DEF ExecuteTool, InRun, IndInv, ToolsLeft
  <1>2. \A o \in ToolOutcome : Executed(o) \o Reported(o) = <<ToolMessage>>
    <2>1. ToolMessage \in Message
      BY MessageTypes
    <2>2. <<>> \o <<ToolMessage>> = <<ToolMessage>> /\ <<ToolMessage>> \o <<>> = <<ToolMessage>>
      BY <2>1
    <2> QED
      BY <2>2 DEF ToolOutcome, Executed, Reported
  <1>3. Appends(p, <<ToolMessage>>)
    BY <1>1, <1>2, Alone DEF ExecuteTool, AppendMessages, Appends
  <1> QED
    BY <1>1, <1>3, Alone DEF IndInv, TypeOK, ExecuteTool, Moves, Goto, userVars, histVars

(* A new interrupt goes to the channel, or to the discarded ones. *)
LEMMA InterruptMoves ==
    ASSUME IndInv, SendInterrupt \/ \E p \in Procs : InterruptAndStop(p)
    PROVE  /\ issued' = issued + 1
           /\ Elements(interruptCh') \cup discarded'
                 = Elements(interruptCh) \cup discarded \cup {issued + 1}
           /\ discarded \subseteq discarded'
           /\ UNCHANGED <<messages, cm, pc, todo, clears, seen>>
  <1>1. Interrupt
    BY DEF SendInterrupt, InterruptAndStop
  <1>2. interruptCh \in Seq(Nat) /\ issued \in Nat
    BY AgentAssumption DEF IndInv, TypeOK
  <1>3. Elements(Append(interruptCh, issued + 1)) = Elements(interruptCh) \cup {issued + 1}
    BY <1>2 DEF Elements
  <1>4. UNCHANGED <<messages, cm, pc, todo, clears, seen>>
    BY DEF SendInterrupt, InterruptAndStop
  <1> QED
    BY <1>1, <1>3, <1>4 DEF Interrupt

(* Every step is one of these. *)
LEMMA StepKinds ==
    ASSUME IndInv, [Next]_vars
    PROVE  \/ Aside
           \/ \E p \in Procs : \/ Begin(p) \/ CountTurn(p) \/ CheckContext(p)
                               \/ Compact(p) \/ ReadBack(p) \/ CallModel(p)
                               \/ ModelReply(p) \/ ExecuteTool(p)
           \/ SendInterrupt \/ (\E p \in Procs : InterruptAndStop(p))
           \/ Clear \/ CompactCommand
  BY AsideMoves DEF Next, RunStep

(***************************************************************************)
(* What compaction makes of a list of messages, whichever way it goes: it  *)
(* leaves it alone, or it keeps the first message and at least KeepRecent  *)
(* of the last ones, and puts one message without calls between them, for  *)
(* the d messages less that the list then has.                             *)
(***************************************************************************)
CutBy(new, old, d) ==
    /\ d <= Len(old) - KeepRecent - 2
    /\ Len(new) = Len(old) - d
    /\ new[1] = old[1]
    /\ new[2] \in {BoundaryMessage, SummaryMessage}
    /\ \A i \in 3..Len(new) : new[i] = old[i + d]

Compacted(new, old) == new = old \/ \E d \in Nat : CutBy(new, old, d)

LEMMA CutOut ==
    ASSUME NEW old \in Seq(Message), NEW keep \in Nat, keep >= KeepRecent,
           keep + 2 <= Len(old), NEW b \in {BoundaryMessage, SummaryMessage}
    PROVE  Compacted(<<old[1], b>> \o LastN(old, keep), old)
  <1> DEFINE d == Len(old) - keep - 2
             tail == LastN(old, keep)
             new == <<old[1], b>> \o tail
  <1>1. d \in Nat /\ d <= Len(old) - KeepRecent - 2
    BY ContextAssumption
  <1>2. tail \in Seq(Message) /\ Len(tail) = keep
        /\ \A i \in 1..keep : tail[i] = old[Len(old) - keep + i]
    BY DEF LastN
  <1>3. old[1] \in Message /\ b \in Message
    BY MessageTypes
  <1>4. Len(new) = keep + 2 /\ new[1] = old[1] /\ new[2] = b
    BY <1>2, <1>3
  <1>5. ASSUME NEW i \in 3..(keep + 2)
        PROVE  new[i] = old[i + d]
    <2>1. new[i] = tail[i - 2] /\ i - 2 \in 1..keep
      BY <1>2, <1>3
    <2>2. Len(old) - keep + (i - 2) = i + d
      OBVIOUS
    <2> QED
      BY <1>2, <2>1, <2>2
  <1>6. Len(new) = Len(old) - d
    BY <1>4
  <1>7. CutBy(new, old, d)
    BY <1>1, <1>4, <1>5, <1>6 DEF CutBy
  <1> QED
    BY <1>1, <1>7 DEF Compacted

LEMMA TruncatedCuts ==
    ASSUME NEW c \in ContextState
    PROVE  Compacted(Truncated(c, KeepRecent).msgs, c.msgs)
  <1>1. c.msgs \in Seq(Message) /\ Len(c.msgs) \in Nat
    BY DEF ContextState
  <1>2. KeepRecent \in Nat /\ KeepRecent > 0
    BY ContextAssumption
  <1>3. CASE Len(c.msgs) <= 2 * KeepRecent
    BY <1>3 DEF Truncated, Compacted
  <1>4. CASE ~(Len(c.msgs) <= 2 * KeepRecent)
    <2>1. KeepRecent + 2 <= Len(c.msgs)
      BY <1>1, <1>2, <1>4
    <2>2. Truncated(c, KeepRecent).msgs =
            <<c.msgs[1], BoundaryMessage>> \o LastN(c.msgs, KeepRecent)
      BY <1>4 DEF Truncated, ContextState
    <2>3. KeepRecent >= KeepRecent /\ BoundaryMessage \in {BoundaryMessage, SummaryMessage}
      BY <1>2
    <2> QED
      BY <1>1, <1>2, <2>1, <2>2, <2>3, CutOut
  <1> QED
    BY <1>3, <1>4

LEMMA SummarisedCuts ==
    ASSUME NEW c \in ContextState, NEW outcome
    PROVE  Compacted(Summarised(c, outcome).msgs, c.msgs)
  <1>1. c.msgs \in Seq(Message) /\ Len(c.msgs) \in Nat
    BY DEF ContextState
  <1>2. KeepTail \in Nat /\ KeepTail >= KeepRecent
    BY ContextAssumption
  <1>3. CASE outcome = "failed"
    BY <1>3, TruncatedCuts DEF Summarised
  <1>4. CASE outcome # "failed" /\ Summarised(c, outcome) = c
    BY <1>4 DEF Compacted
  <1>5. CASE outcome # "failed" /\ Summarised(c, outcome) # c
    <2>1. outcome # "nothing" /\ ~(Len(c.msgs) <= 1 + KeepTail)
      BY <1>5 DEF Summarised
    <2>2. Summarised(c, outcome).msgs =
            <<c.msgs[1], SummaryMessage>> \o LastN(c.msgs, KeepTail)
      BY <1>5, <2>1 DEF Summarised, ContextState
    <2>3. KeepTail + 2 <= Len(c.msgs)
      BY <1>1, <1>2, <2>1
    <2> QED
      BY <1>1, <1>2, <2>2, <2>3, CutOut
  <1> QED
    BY <1>3, <1>4, <1>5

LEMMA CompactionCuts ==
    ASSUME NEW c \in ContextState, NEW r \in CompactResults(c)
    PROVE  Compacted(r.msgs, c.msgs)
  <1>1. CASE ~HasCompactor
    BY <1>1, TruncatedCuts DEF CompactResults
  <1>2. CASE HasCompactor /\ Thrashing(c)
    BY <1>2 DEF CompactResults, Compacted
  <1>3. CASE HasCompactor /\ ~Thrashing(c)
    BY <1>3, SummarisedCuts DEF CompactResults
  <1> QED
    BY <1>1, <1>2, <1>3

(* A list with one more message. *)
LEMMA OneMore ==
    ASSUME NEW ms \in Seq(Message), NEW m \in Message
    PROVE  /\ ms \o <<m>> \in Seq(Message)
           /\ Len(ms \o <<m>>) = Len(ms) + 1
           /\ (ms \o <<m>>)[Len(ms) + 1] = m
           /\ \A i \in 1..Len(ms) : (ms \o <<m>>)[i] = ms[i]
  OBVIOUS

(***************************************************************************)
(* Interrupts.  Those a prompt has shown to the model, or that were        *)
(* dropped, are handled.  Between two turns every interrupt of the history *)
(* is handled; within a turn the last message may carry new ones, which    *)
(* compaction does not touch because it keeps the last message.            *)
(***************************************************************************)
Turning == {"check", "compacting", "readback", "call"}

(* The history has been pushed to the manager and not been read back. *)
Pushed == {"compacting", "readback"}

Handled == seen \cup discarded

OnlyLastNew(ms, old) == \A i \in 1..(Len(ms) - 1) : Elements(ms[i].ints) \subseteq old

NewestUnseen ==
    /\ InterruptsAccounted
    /\ OnlyLastNew(messages, Handled)
    /\ (\A p \in Procs : pc[p] \notin Turning) => Interrupts(messages) \subseteq Handled
    /\ \A p \in Procs : pc[p] \in Pushed =>
          /\ OnlyLastNew(cm.msgs, Handled)
          /\ Interrupts(messages) \subseteq Handled \cup Interrupts(cm.msgs)

(* The messages the agent appends bring the interrupts they carry. *)
LEMMA InterruptsMore ==
    ASSUME NEW ms \in Seq(Message), NEW m \in Message
    PROVE  /\ Interrupts(ms \o <<m>>) = Interrupts(ms) \cup Elements(m.ints)
           /\ \A old : Interrupts(ms) \subseteq old => OnlyLastNew(ms \o <<m>>, old)
  <1> DEFINE longer == ms \o <<m>>
  <1>1. Len(ms) \in Nat /\ Len(longer) = Len(ms) + 1
    BY OneMore
  <1>2. longer[Len(ms) + 1] = m /\ \A i \in 1..Len(ms) : longer[i] = ms[i]
    BY OneMore
  <1> HIDE DEF longer
  <1>3. Interrupts(longer) = Interrupts(ms) \cup Elements(m.ints)
    <2>1. 1..Len(longer) = 1..Len(ms) \cup {Len(ms) + 1}
      BY <1>1
    <2> QED
      BY <1>2, <2>1 DEF Interrupts
  <1>4. ASSUME NEW old, Interrupts(ms) \subseteq old
        PROVE  OnlyLastNew(longer, old)
    BY <1>1, <1>2, <1>4 DEF Interrupts, OnlyLastNew
  <1> QED
    BY <1>3, <1>4 DEF longer

(* Compaction keeps the interrupts that may be new. *)
LEMMA CompactionKeepsNewest ==
    ASSUME NEW new \in Seq(Message), NEW ms \in Seq(Message), Compacted(new, ms),
           NEW old, OnlyLastNew(ms, old)
    PROVE  /\ OnlyLastNew(new, old)
           /\ Interrupts(ms) \subseteq old \cup Interrupts(new)
  <1>1. CASE new = ms
    BY <1>1
  <1>2. CASE \E d \in Nat : CutBy(new, ms, d)
    <2>1. PICK d \in Nat : CutBy(new, ms, d)
      BY <1>2
    <2>2. /\ Len(new) \in Nat /\ Len(ms) \in Nat /\ Len(new) = Len(ms) - d
          /\ KeepRecent \in Nat /\ KeepRecent >= 1
          /\ Len(new) >= 3
      BY <2>1, ContextAssumption DEF CutBy
    <2>3. /\ new[1] = ms[1] /\ Elements(new[2].ints) = {}
          /\ \A i \in 3..Len(new) : new[i] = ms[i + d]
      <3>1. Elements(BoundaryMessage.ints) = {} /\ Elements(SummaryMessage.ints) = {}
        BY DEF Elements, BoundaryMessage, SummaryMessage
      <3> QED
        BY <2>1, <3>1 DEF CutBy
    <2>4. OnlyLastNew(new, old)
      <3> SUFFICES ASSUME NEW i \in 1..(Len(new) - 1)
                   PROVE  Elements(new[i].ints) \subseteq old
        BY DEF OnlyLastNew
      <3>1. CASE i = 1
        BY <2>2, <2>3, <3>1 DEF OnlyLastNew
      <3>2. CASE i = 2
        BY <2>3, <3>2
      <3>3. CASE i > 2
        <4>1. i + d \in 1..(Len(ms) - 1) /\ new[i] = ms[i + d]
          BY <2>2, <2>3, <3>3
        <4> QED
          BY <4>1 DEF OnlyLastNew
      <3> QED
        BY <3>1, <3>2, <3>3
    <2>5. Elements(ms[Len(ms)].ints) \subseteq Interrupts(new)
      <3>1. Len(new) \in 3..Len(new) /\ Len(new) + d = Len(ms)
        BY <2>2
      <3>2. new[Len(new)] = ms[Len(ms)] /\ Len(new) \in 1..Len(new)
        BY <2>3, <3>1
      <3> QED
        BY <3>2 DEF Interrupts
    <2>6. \A i \in 1..Len(ms) : i = Len(ms) \/ i \in 1..(Len(ms) - 1)
      BY <2>2
    <2>7. Interrupts(ms) \subseteq old \cup Elements(ms[Len(ms)].ints)
      BY <2>6 DEF Interrupts, OnlyLastNew
    <2> QED
      BY <2>4, <2>5, <2>7
  <1> QED
    BY <1>1, <1>2 DEF Compacted

(* A step that appends a message without interrupts, from outside a turn. *)
LEMMA PlainAppend ==
    ASSUME TypeOK, NewestUnseen, NEW m \in Message, m.ints = <<>>,
           messages' = messages \o <<m>>,
           \A p \in Procs : pc[p] \notin Turning /\ pc'[p] \notin Turning,
           UNCHANGED <<interruptCh, issued, seen, discarded>>
    PROVE  NewestUnseen'
  <1>1. messages \in Seq(Message) /\ Interrupts(messages) \subseteq Handled
    BY DEF TypeOK, NewestUnseen
  <1>2. Elements(m.ints) = {}
    BY DEF Elements
  <1>3. Interrupts(messages') = Interrupts(messages)
    BY <1>1, <1>2, InterruptsMore
  <1>4. OnlyLastNew(messages', Handled)
    BY <1>1, InterruptsMore
  <1>5. Handled' = Handled /\ Elements(interruptCh)' = Elements(interruptCh)
    BY DEF Handled, Elements
  <1>6. Interrupts(messages)' = Interrupts(messages')
    BY DEF Interrupts
  <1>7. InterruptsAccounted'
    BY <1>3, <1>5 DEF NewestUnseen, InterruptsAccounted, Interrupts, Elements
  <1> QED
    BY <1>1, <1>3, <1>4, <1>5, <1>7 DEF NewestUnseen, Pushed, Turning, OnlyLastNew,
                                      Interrupts, Elements

(* The manager's messages after a compaction, automatic or commanded. *)
LEMMA CompactedManager ==
    ASSUME TypeOK, cm' \in CompactResults(cm)
    PROVE  /\ cm.msgs \in Seq(Message) /\ cm'.msgs \in Seq(Message)
           /\ Compacted(cm'.msgs, cm.msgs)
  BY CompactType, CompactionCuts DEF TypeOK, ContextState

LEMMA StepNewestUnseen ==
    ASSUME IndInv, OneRun, NewestUnseen, [Next]_vars
    PROVE  NewestUnseen'
  <1> USE DEF Handled
  <1>0. TypeOK /\ messages \in Seq(Message) /\ interruptCh \in Seq(Nat)
    BY DEF IndInv, TypeOK
  <1>1. CASE Aside
    <2>1. \A q \in Procs : /\ pc'[q] \in Pushed => pc[q] \in Pushed
                           /\ pc'[q] \notin Turning => pc[q] \notin Turning
      BY <1>1 DEF Aside, Turning, Pushed
    <2>2. UNCHANGED <<messages, interruptCh, cm, issued, seen, discarded>>
      BY <1>1 DEF Aside
    <2>3. InterruptsAccounted' /\ OnlyLastNew(messages, Handled)'
      BY <2>2 DEF NewestUnseen, InterruptsAccounted, OnlyLastNew, Interrupts, Elements
    <2>4. (\A q \in Procs : pc'[q] \notin Turning) => Interrupts(messages') \subseteq Handled'
      BY <2>1, <2>2 DEF NewestUnseen
    <2>5. ASSUME NEW q \in Procs, pc'[q] \in Pushed
          PROVE  /\ OnlyLastNew(cm'.msgs, Handled')
                 /\ Interrupts(messages') \subseteq Handled' \cup Interrupts(cm'.msgs)
      BY <2>1, <2>2, <2>5 DEF NewestUnseen
    <2> QED
      BY <2>3, <2>4, <2>5 DEF NewestUnseen, OnlyLastNew, Interrupts, Elements
  <1>2. ASSUME NEW p \in Procs, Begin(p)
        PROVE  NewestUnseen'
    <2>1. UserMessage(<<>>) \in Message /\ UserMessage(<<>>).ints = <<>>
      <3>1. <<>> \in Seq(Nat)
        OBVIOUS
      <3> QED
        BY <3>1, MessageTypes DEF UserMessage
    <2> QED
      BY <1>0, <1>2, <2>1, BeginMoves, PlainAppend DEF Moves, Appends, Turning
  <1>3. ASSUME NEW p \in Procs, ModelReply(p)
        PROVE  NewestUnseen'
    <2>1. PICK n \in 0..MaxCalls : Appends(p, <<AssistantMessage(n)>>)
      BY <1>3, ReplyMoves
    <2>2. AssistantMessage(n) \in Message /\ AssistantMessage(n).ints = <<>>
      BY MessageTypes, AgentAssumption DEF AssistantMessage
    <2>3. /\ \A q \in Procs : pc[q] \notin Turning /\ pc'[q] \notin Turning
          /\ UNCHANGED <<interruptCh, issued, seen, discarded>>
      BY <1>3, ReplyMoves DEF Moves, Turning
    <2> QED
      BY <1>0, <2>1, <2>2, <2>3, PlainAppend DEF Appends
  <1>4. ASSUME NEW p \in Procs, ExecuteTool(p)
        PROVE  NewestUnseen'
    <2>1. ToolMessage \in Message /\ ToolMessage.ints = <<>>
      BY MessageTypes DEF ToolMessage
    <2> QED
      BY <1>0, <1>4, <2>1, ToolMoves, PlainAppend DEF Moves, Appends, Turning
  <1>5. ASSUME NEW p \in Procs, CountTurn(p)
        PROVE  NewestUnseen'
    <2>1. Interrupts(messages) \subseteq Handled /\ Handled' = Handled
      BY <1>5, CountMoves DEF NewestUnseen, Moves, Turning
    <2>2. \A q \in Procs : pc'[q] \notin Pushed
      BY <1>5, CountMoves DEF Moves, Pushed
    <2>3. pc'[p] \in Turning
      BY <1>5, CountMoves DEF Moves, Turning
    <2>4. CASE interruptCh = <<>>
      BY <1>5, <2>2, <2>3, <2>4, CountMoves
         DEF NewestUnseen, InterruptsAccounted, OnlyLastNew, Interrupts, Elements
    <2>5. CASE interruptCh # <<>>
      <3>1. UserMessage(interruptCh) \in Message /\ UserMessage(interruptCh).ints = interruptCh
        BY <1>0, MessageTypes DEF UserMessage
      <3>2. messages' = messages \o <<UserMessage(interruptCh)>>
        BY <1>5, <2>5, CountMoves DEF Appends
      <3>3. /\ Interrupts(messages') = Interrupts(messages) \cup Elements(interruptCh)
            /\ OnlyLastNew(messages', Handled)
        BY <1>0, <2>1, <3>1, <3>2, InterruptsMore
      <3>4. InterruptsAccounted'
        BY <1>5, <3>3, CountMoves DEF NewestUnseen, InterruptsAccounted, Interrupts, Elements
      <3> QED
        BY <2>1, <2>2, <2>3, <3>3, <3>4 DEF NewestUnseen, OnlyLastNew, Elements
    <2> QED
      BY <2>4, <2>5
  <1>6. ASSUME NEW p \in Procs, CheckContext(p)
        PROVE  NewestUnseen'
    <2>1. \A q \in Procs : pc'[q] \in Pushed => cm'.msgs = messages
      BY <1>6, CheckMoves DEF Moves, Pushed
    <2>2. pc'[p] \in Turning
      BY <1>6, CheckMoves DEF Moves, Turning
    <2>3. UNCHANGED <<messages, interruptCh, issued, seen, discarded>>
      BY <1>6, CheckMoves
    <2> QED
      BY <2>1, <2>2, <2>3 DEF NewestUnseen, InterruptsAccounted, OnlyLastNew, Interrupts,
                              Elements
  <1>7. ASSUME CompactCommand \/ \E p \in Procs : Compact(p)
        PROVE  NewestUnseen'
    <2>1. /\ cm' \in CompactResults(cm)
          /\ UNCHANGED <<messages, interruptCh, issued, seen, discarded>>
      BY <1>7 DEF CompactCommand, Compact, userVars, histVars
    <2>2. \A q \in Procs : /\ pc'[q] \in Pushed => pc[q] \in Pushed
                           /\ pc'[q] \notin Turning => pc[q] \notin Turning
      BY <1>7, CompactMoves DEF Moves, CompactCommand, Pushed, Turning
    <2>3. OnlyLastNew(cm.msgs, Handled) =>
             /\ OnlyLastNew(cm'.msgs, Handled)
             /\ Interrupts(cm.msgs) \subseteq Handled \cup Interrupts(cm'.msgs)
      BY <1>0, <2>1, CompactedManager, CompactionKeepsNewest
    <2>4. ASSUME NEW q \in Procs, pc'[q] \in Pushed
          PROVE  /\ OnlyLastNew(cm'.msgs, Handled)
                 /\ Interrupts(messages) \subseteq Handled \cup Interrupts(cm'.msgs)
      BY <2>2, <2>3, <2>4 DEF NewestUnseen
    <2>5. Handled' = Handled /\ Interrupts(messages)' = Interrupts(messages)
      BY <2>1 DEF Handled, Interrupts
    <2>6. InterruptsAccounted'
      BY <2>1, <2>5 DEF NewestUnseen, InterruptsAccounted, Elements
    <2>7. \A ms : OnlyLastNew(ms, Handled) <=> OnlyLastNew(ms, Handled')
      BY <2>5
    <2> HIDE DEF Handled
    <2> QED
      BY <2>1, <2>2, <2>4, <2>5, <2>6 DEF NewestUnseen, OnlyLastNew, Interrupts
  <1>8. ASSUME NEW p \in Procs, ReadBack(p)
        PROVE  NewestUnseen'
    <2>1. /\ messages' = cm.msgs /\ OnlyLastNew(cm.msgs, Handled)
          /\ Interrupts(messages) \subseteq Handled \cup Interrupts(cm.msgs)
      BY <1>8, ReadBackMoves DEF NewestUnseen, Moves, Pushed
    <2>2. pc'[p] \in Turning /\ \A q \in Procs : pc'[q] \notin Pushed
      BY <1>8, ReadBackMoves DEF Moves, Turning, Pushed
    <2>3. UNCHANGED <<interruptCh, issued, seen, discarded>>
      BY <1>8, ReadBackMoves
    <2> QED
      BY <2>1, <2>2, <2>3 DEF NewestUnseen, InterruptsAccounted, OnlyLastNew, Interrupts,
                              Elements
  <1>9. ASSUME NEW p \in Procs, CallModel(p)
        PROVE  NewestUnseen'
    <2>1. /\ seen' = seen \cup Interrupts(messages)
          /\ UNCHANGED <<messages, interruptCh, issued, discarded>>
      BY <1>9, CallMoves
    <2>2. \A q \in Procs : pc'[q] \notin Pushed
      BY <1>9, CallMoves DEF Moves, Pushed
    <2> QED
      BY <2>1, <2>2 DEF NewestUnseen, InterruptsAccounted, OnlyLastNew, Interrupts, Elements
  <1>10. ASSUME SendInterrupt \/ \E p \in Procs : InterruptAndStop(p)
         PROVE  NewestUnseen'
    <2>1. 1..(issued + 1) = 1..issued \cup {issued + 1}
      BY AgentAssumption DEF IndInv, TypeOK
    <2>2. /\ issued' = issued + 1 /\ Handled \subseteq Handled'
          /\ Elements(interruptCh') \cup discarded'
                = Elements(interruptCh) \cup discarded \cup {issued + 1}
          /\ UNCHANGED <<messages, cm, pc, seen>>
      BY <1>10, InterruptMoves
    <2>3. InterruptsAccounted'
      BY <2>1, <2>2 DEF NewestUnseen, InterruptsAccounted, Interrupts, Elements
    <2>4. /\ OnlyLastNew(messages, Handled')
          /\ (\A q \in Procs : pc[q] \notin Turning) => Interrupts(messages) \subseteq Handled'
      BY <2>2 DEF NewestUnseen, OnlyLastNew
    <2>5. ASSUME NEW q \in Procs, pc[q] \in Pushed
          PROVE  /\ OnlyLastNew(cm.msgs, Handled')
                 /\ Interrupts(messages) \subseteq Handled' \cup Interrupts(cm.msgs)
      BY <2>2, <2>5 DEF NewestUnseen, OnlyLastNew
    <2> QED
      BY <2>2, <2>3, <2>4, <2>5 DEF NewestUnseen, OnlyLastNew, Interrupts, Elements
  <1>11. CASE Clear
    <2>1. /\ messages' = <<>> \/ messages' = messages
          /\ cm'.msgs = <<>> /\ interruptCh' = <<>>
          /\ discarded' = discarded \cup Elements(interruptCh) \cup Interrupts(messages)
          /\ UNCHANGED <<issued, seen, pc>>
      BY <1>11 DEF Clear, EmptyContext
    <2>2. Interrupts(messages') \subseteq Interrupts(messages)
      BY <2>1 DEF Interrupts
    <2>3. Interrupts(messages') \subseteq Handled'
      BY <2>1, <2>2
    <2>4. OnlyLastNew(messages', Handled') /\ OnlyLastNew(cm'.msgs, Handled')
      BY <1>0, <2>1, <2>3 DEF OnlyLastNew, Interrupts
    <2>5. InterruptsAccounted'
      BY <2>1 DEF NewestUnseen, InterruptsAccounted
    <2> QED
      BY <2>3, <2>4, <2>5 DEF NewestUnseen, OnlyLastNew, Interrupts, Elements
  <1> QED
    BY <1>1, <1>2, <1>3, <1>4, <1>5, <1>6, <1>7, <1>8, <1>9, <1>10, <1>11, StepKinds

LEMMA InitNewestUnseen == Init => NewestUnseen
  <1>1. ASSUME Init PROVE NewestUnseen
    <2>1. Interrupts(<<>>) = {} /\ OnlyLastNew(<<>>, Handled)
      BY DEF Interrupts, OnlyLastNew
    <2>2. 1..issued = {}
      BY <1>1 DEF Init
    <2> QED
      BY <1>1, <2>1, <2>2 DEF Init, NewestUnseen, InterruptsAccounted, Pushed
  <1> QED
    BY <1>1

(***************************************************************************)
(* No accepted interrupt disappears, for any number of goroutines, any     *)
(* channel capacity and whatever compaction does, as long as one run goes  *)
(* at a time: it is queued, in the history, has been shown to the model,   *)
(* or was dropped on a full channel or by a /clear.                        *)
(***************************************************************************)
THEOREM AgentInterruptsAccounted == Spec /\ []OneRun => []InterruptsAccounted
  <1>1. NewestUnseen => InterruptsAccounted
    BY DEF NewestUnseen
  <1>2. IndInv /\ NewestUnseen /\ OneRun /\ [Next]_vars => (IndInv /\ NewestUnseen)'
    BY StepInd, StepNewestUnseen
  <1> QED
    BY InitInd, InitNewestUnseen, <1>1, <1>2, PTL DEF Spec

(***************************************************************************)
(* Which agents have one run at a time: those that are only submitted to   *)
(* (a cron job's, weixin's), and those that a single goroutine streams (a  *)
(* delegate's).  Of the main agent it is a hypothesis: the terminal and    *)
(* the scheduler both run it, and only the scheduler looks at the flag.    *)
(***************************************************************************)
OneAtATime ==
    \/ Streamers = {}
    \/ Submitters = {} /\ \A p, q \in Streamers : p = q

THEOREM AgentOneRun ==
    ASSUME OneAtATime
    PROVE  Spec => []OneRun
  <1>1. IndInv => OneRun
    BY DEF OneAtATime, IndInv, SubmitExclusive, OneRun, InRun, Procs
  <1> QED
    BY InitInd, StepInd, <1>1, PTL DEF Spec

(***************************************************************************)
(* Tool calls.  Each message with calls is followed by its results, except *)
(* that the last one is still owed the r calls the running turn has left.  *)
(* The first message is a prompt, and makes no calls, until a /clear.      *)
(***************************************************************************)
Owed(ms, r) ==
    \A i \in 2..Len(ms) : \A k \in 1..ms[i].calls :
        IF i + k <= Len(ms) THEN ms[i + k].role = "tool" ELSE i + k <= Len(ms) + r

FirstQuiet(ms) == ms # <<>> /\ ms[1].calls = 0

Started(p) == InRun(p) /\ pc[p] # "begin"

TurnsOwe ==
    /\ \A p \in Procs : pc[p] = "tools" => Owed(messages, todo[p])
    /\ (\A p \in Procs : pc[p] # "tools") => Owed(messages, 0)
    /\ clears = 0 => messages = <<>> \/ FirstQuiet(messages)
    /\ \A p \in Procs : Started(p) /\ clears = 0 => messages # <<>>
    /\ \A p \in Procs : pc[p] \in Pushed =>
          /\ Owed(cm.msgs, 0)
          /\ clears = 0 => FirstQuiet(cm.msgs)

LEMMA CallsNumber ==
    ASSUME NEW ms \in Seq(Message), NEW i \in 1..Len(ms)
    PROVE  ms[i] \in Message /\ ms[i].calls \in Nat
  <1>1. ms[i] \in Message
    OBVIOUS
  <1> QED
    BY <1>1 DEF Message

(* What the messages the agent appends owe. *)
LEMMA OwedMore ==
    ASSUME NEW ms \in Seq(Message), NEW m \in Message, NEW r \in Nat, Owed(ms, r)
    PROVE  /\ r = 0 => Owed(ms \o <<m>>, m.calls)
           /\ r > 0 /\ m.role = "tool" /\ m.calls = 0 => Owed(ms \o <<m>>, r - 1)
  <1> DEFINE longer == ms \o <<m>>
  <1>1. Len(ms) \in Nat /\ Len(longer) = Len(ms) + 1 /\ m.calls \in Nat
    BY OneMore DEF Message
  <1>2. longer[Len(ms) + 1] = m /\ \A i \in 1..Len(ms) : longer[i] = ms[i]
    BY OneMore
  <1>3. \A i \in 1..Len(ms) : ms[i].calls \in Nat
    BY CallsNumber
  <1> HIDE DEF longer
  <1>4. ASSUME r = 0
        PROVE  Owed(longer, m.calls)
    <2> SUFFICES ASSUME NEW i \in 2..Len(longer), NEW k \in 1..longer[i].calls
                 PROVE  IF i + k <= Len(longer) THEN longer[i + k].role = "tool"
                        ELSE i + k <= Len(longer) + m.calls
      BY DEF Owed
    <2>1. CASE i = Len(ms) + 1
      BY <1>1, <1>2, <2>1
    <2>2. CASE i # Len(ms) + 1
      <3>1. i \in 2..Len(ms) /\ longer[i] = ms[i] /\ k \in 1..ms[i].calls /\ k \in Nat
        BY <1>1, <1>2, <1>3, <2>2
      <3>2. i + k <= Len(ms) /\ ms[i + k].role = "tool"
        BY <1>1, <1>4, <3>1 DEF Owed
      <3>3. i + k \in 1..Len(ms) /\ i + k <= Len(longer)
        BY <1>1, <3>1, <3>2
      <3> QED
        BY <1>2, <3>2, <3>3
    <2> QED
      BY <2>1, <2>2
  <1>5. ASSUME r > 0, m.role = "tool", m.calls = 0
        PROVE  Owed(longer, r - 1)
    <2> SUFFICES ASSUME NEW i \in 2..Len(longer), NEW k \in 1..longer[i].calls
                 PROVE  IF i + k <= Len(longer) THEN longer[i + k].role = "tool"
                        ELSE i + k <= Len(longer) + (r - 1)
      BY DEF Owed
    <2>1. i # Len(ms) + 1
      BY <1>2, <1>5
    <2>2. i \in 2..Len(ms) /\ longer[i] = ms[i] /\ k \in 1..ms[i].calls /\ k \in Nat
      BY <1>1, <1>2, <1>3, <2>1
    <2>3. CASE i + k <= Len(ms)
      <3>1. ms[i + k].role = "tool" /\ i + k \in 1..Len(ms)
        BY <1>1, <2>2, <2>3 DEF Owed
      <3> QED
        BY <1>1, <1>2, <2>3, <3>1
    <2>4. CASE i + k = Len(ms) + 1
      BY <1>1, <1>2, <1>5, <2>4
    <2>5. CASE i + k > Len(ms) + 1
      <3>1. i + k <= Len(ms) + r
        BY <1>1, <2>2, <2>5 DEF Owed
      <3> QED
        BY <1>1, <2>2, <2>5, <3>1
    <2> QED
      BY <1>1, <2>2, <2>3, <2>4, <2>5
  <1> QED
    BY <1>4, <1>5 DEF longer

LEMMA CompactionOwesNothing ==
    ASSUME NEW new \in Seq(Message), NEW ms \in Seq(Message), Compacted(new, ms)
    PROVE  /\ Owed(ms, 0) => Owed(new, 0)
           /\ FirstQuiet(ms) => FirstQuiet(new)
  <1>1. CASE new = ms
    BY <1>1
  <1>2. CASE \E d \in Nat : CutBy(new, ms, d)
    <2>1. PICK d \in Nat : CutBy(new, ms, d)
      BY <1>2
    <2>2. /\ Len(new) \in Nat /\ Len(ms) \in Nat /\ Len(new) = Len(ms) - d
          /\ Len(new) >= 3
      BY <2>1, ContextAssumption DEF CutBy
    <2>3. /\ new[1] = ms[1] /\ new[2].calls = 0
          /\ \A i \in 3..Len(new) : new[i] = ms[i + d]
      BY <2>1 DEF CutBy, BoundaryMessage, SummaryMessage
    <2>4. ASSUME Owed(ms, 0)
          PROVE  Owed(new, 0)
      <3> SUFFICES ASSUME NEW i \in 2..Len(new), NEW k \in 1..new[i].calls
                   PROVE  i + k <= Len(new) /\ new[i + k].role = "tool"
        BY DEF Owed
      <3>1. i # 2
        BY <2>3
      <3>2. i + d \in 2..Len(ms) /\ i \in 3..Len(new) /\ new[i] = ms[i + d]
        BY <2>2, <2>3, <3>1
      <3>3. k \in 1..ms[i + d].calls /\ ms[i + d].calls \in Nat /\ k \in Nat
        BY <2>2, <3>2, CallsNumber
      <3>4. (i + d) + k <= Len(ms) /\ ms[(i + d) + k].role = "tool"
        BY <2>2, <2>4, <3>2, <3>3 DEF Owed
      <3>5. i + k \in 3..Len(new) /\ (i + k) + d = (i + d) + k
        BY <2>2, <3>2, <3>3, <3>4
      <3> QED
        BY <2>3, <3>4, <3>5
    <2>5. new # <<>>
      BY <2>2
    <2> QED
      BY <2>3, <2>4, <2>5 DEF FirstQuiet
  <1> QED
    BY <1>1, <1>2 DEF Compacted

(* The first message stays the first. *)
LEMMA FirstMore ==
    ASSUME NEW ms \in Seq(Message), NEW m \in Message
    PROVE  /\ ms \o <<m>> # <<>>
           /\ FirstQuiet(ms) => FirstQuiet(ms \o <<m>>)
           /\ ms = <<>> /\ m.calls = 0 => FirstQuiet(ms \o <<m>>)
  <1>1. Len(ms \o <<m>>) = Len(ms) + 1 /\ Len(ms) \in Nat
    BY OneMore
  <1>2. ms # <<>> => (ms \o <<m>>)[1] = ms[1]
    BY OneMore
  <1>3. ms = <<>> => (ms \o <<m>>)[1] = m
    BY OneMore
  <1> QED
    BY <1>1, <1>2, <1>3 DEF FirstQuiet

(* A run appends its prompt, or the interrupts, between two turns. *)
LEMMA PromptAppend ==
    ASSUME TypeOK, TurnsOwe, NEW m \in Message, m.calls = 0,
           messages' = messages \o <<m>>,
           \A p \in Procs : pc[p] # "tools" /\ pc'[p] # "tools" /\ pc'[p] \notin Pushed,
           clears' = clears
    PROVE  TurnsOwe'
  <1>1. messages \in Seq(Message) /\ Owed(messages, 0)
    BY DEF TypeOK, TurnsOwe
  <1>2. Owed(messages', 0)
    BY <1>1, OwedMore
  <1>3. messages' # <<>> /\ (clears = 0 => FirstQuiet(messages'))
    BY <1>1, FirstMore DEF TurnsOwe
  <1> QED
    BY <1>2, <1>3 DEF TurnsOwe, Owed, FirstQuiet

LEMMA StepTurnsOwe ==
    ASSUME IndInv, OneRun, TurnsOwe, [Next]_vars
    PROVE  TurnsOwe'
  <1>0. /\ TypeOK /\ messages \in Seq(Message) /\ todo \in [Procs -> 0..MaxCalls]
        /\ MaxCalls \in Nat /\ clears \in Nat
    BY AgentAssumption DEF IndInv, TypeOK
  <1>1. CASE Aside
    <2>1. \A q \in Procs : /\ pc'[q] \in Pushed => pc[q] \in Pushed
                           /\ pc'[q] = "tools" <=> pc[q] = "tools"
                           /\ Started(q)' => Started(q)
      BY <1>1 DEF Aside, Pushed, Started, InRun
    <2>2. UNCHANGED <<messages, cm, todo, clears>>
      BY <1>1 DEF Aside
    <2> QED
      BY <2>1, <2>2 DEF TurnsOwe, Owed, FirstQuiet
  <1>2. ASSUME NEW p \in Procs, Begin(p)
        PROVE  TurnsOwe'
    <2>1. UserMessage(<<>>) \in Message /\ UserMessage(<<>>).calls = 0
      <3>1. <<>> \in Seq(Nat)
        OBVIOUS
      <3> QED
        BY <3>1, MessageTypes DEF UserMessage
    <2> QED
      BY <1>0, <1>2, <2>1, BeginMoves, PromptAppend DEF Moves, Appends, Pushed
  <1>3. ASSUME NEW p \in Procs, CountTurn(p)
        PROVE  TurnsOwe'
    <2>1. /\ \A q \in Procs : pc[q] # "tools" /\ pc'[q] # "tools" /\ pc'[q] \notin Pushed
          /\ clears' = clears
      BY <1>3, CountMoves DEF Moves, Pushed
    <2>2. CASE interruptCh # <<>>
      <3>1. UserMessage(interruptCh) \in Message /\ UserMessage(interruptCh).calls = 0
        BY <1>0, MessageTypes DEF UserMessage, TypeOK
      <3> QED
        BY <1>0, <1>3, <2>1, <2>2, <3>1, CountMoves, PromptAppend DEF Appends
    <2>3. CASE interruptCh = <<>>
      <3>1. messages' = messages
        BY <1>3, <2>3, CountMoves
      <3>2. clears = 0 => messages # <<>>
        BY <1>3, CountMoves DEF TurnsOwe, Moves, Started, InRun
      <3> QED
        BY <2>1, <3>1, <3>2 DEF TurnsOwe, Owed, FirstQuiet
    <2> QED
      BY <2>2, <2>3
  <1>4. ASSUME NEW p \in Procs, CheckContext(p)
        PROVE  TurnsOwe'
    <2>1. /\ \A q \in Procs : pc[q] # "tools" /\ pc'[q] # "tools"
          /\ \A q \in Procs : pc'[q] \in Pushed => cm'.msgs = messages
          /\ UNCHANGED <<messages, clears>>
      BY <1>4, CheckMoves DEF Moves, Pushed
    <2>2. clears = 0 => messages # <<>>
      BY <1>4, CheckMoves DEF TurnsOwe, Moves, Started, InRun
    <2> QED
      BY <2>1, <2>2 DEF TurnsOwe, Owed, FirstQuiet
  <1>5. ASSUME CompactCommand \/ \E p \in Procs : Compact(p)
        PROVE  TurnsOwe'
    <2>1. cm' \in CompactResults(cm) /\ UNCHANGED <<messages, todo, clears>>
      BY <1>5 DEF CompactCommand, Compact, userVars, histVars
    <2>2. \A q \in Procs : /\ pc'[q] \in Pushed => pc[q] \in Pushed
                           /\ pc'[q] = "tools" <=> pc[q] = "tools"
                           /\ Started(q)' => Started(q)
      BY <1>5, CompactMoves DEF Moves, CompactCommand, Pushed, Started, InRun
    <2>3. /\ Owed(cm.msgs, 0) => Owed(cm'.msgs, 0)
          /\ FirstQuiet(cm.msgs) => FirstQuiet(cm'.msgs)
      BY <1>0, <2>1, CompactedManager, CompactionOwesNothing
    <2>4. ASSUME NEW q \in Procs, pc'[q] \in Pushed
          PROVE  Owed(cm'.msgs, 0) /\ (clears = 0 => FirstQuiet(cm'.msgs))
      BY <2>2, <2>3, <2>4 DEF TurnsOwe
    <2> QED
      BY <2>1, <2>2, <2>4 DEF TurnsOwe, Owed, FirstQuiet
  <1>6. ASSUME NEW p \in Procs, ReadBack(p)
        PROVE  TurnsOwe'
    <2>1. /\ messages' = cm.msgs /\ Owed(cm.msgs, 0) /\ clears' = clears
          /\ clears = 0 => FirstQuiet(cm.msgs)
      BY <1>6, ReadBackMoves DEF TurnsOwe, Moves, Pushed
    <2>2. \A q \in Procs : pc'[q] # "tools" /\ pc'[q] \notin Pushed
      BY <1>6, ReadBackMoves DEF Moves, Pushed
    <2> QED
      BY <2>1, <2>2 DEF TurnsOwe, Owed, FirstQuiet
  <1>7. ASSUME NEW p \in Procs, CallModel(p)
        PROVE  TurnsOwe'
    <2>1. UNCHANGED <<messages, clears>>
      BY <1>7, CallMoves
    <2>2. /\ \A q \in Procs : pc[q] # "tools" /\ pc'[q] # "tools" /\ pc'[q] \notin Pushed
          /\ clears = 0 => messages # <<>>
      BY <1>7, CallMoves DEF TurnsOwe, Moves, Started, InRun, Pushed
    <2> QED
      BY <2>1, <2>2 DEF TurnsOwe, Owed, FirstQuiet
  <1>8. ASSUME NEW p \in Procs, ModelReply(p)
        PROVE  TurnsOwe'
    <2>1. PICK n \in 0..MaxCalls :
             /\ Appends(p, <<AssistantMessage(n)>>)
             /\ \/ /\ n = 0 /\ todo' = todo
                   /\ Moves(p, "waiting", "idle") \/ Moves(p, "waiting", "release")
                \/ /\ n > 0 /\ todo' = [todo EXCEPT ![p] = n]
                   /\ Moves(p, "waiting", "tools")
      BY <1>8, ReplyMoves
    <2>2. AssistantMessage(n) \in Message /\ AssistantMessage(n).calls = n
      BY <1>0, MessageTypes DEF AssistantMessage
    <2>3. Owed(messages, 0) /\ (clears = 0 => FirstQuiet(messages)) /\ clears' = clears
      BY <1>8, <2>1, ReplyMoves DEF TurnsOwe, Moves, Started, InRun
    <2>4. /\ Owed(messages', n) /\ messages' # <<>>
          /\ clears = 0 => FirstQuiet(messages')
      BY <1>0, <2>1, <2>2, <2>3, OwedMore, FirstMore DEF Appends
    <2>5. \A q \in Procs : pc'[q] \notin Pushed
      BY <2>1 DEF Moves, Pushed
    <2>6. \A q \in Procs : pc'[q] = "tools" => todo'[q] = n
      BY <1>0, <2>1 DEF Moves
    <2>7. (\A q \in Procs : pc'[q] # "tools") => n = 0
      BY <2>1 DEF Moves
    <2> QED
      BY <2>3, <2>4, <2>5, <2>6, <2>7 DEF TurnsOwe, Owed, FirstQuiet
  <1>9. ASSUME NEW p \in Procs, ExecuteTool(p)
        PROVE  TurnsOwe'
    <2>1. ToolMessage \in Message /\ ToolMessage.calls = 0 /\ ToolMessage.role = "tool"
      BY MessageTypes DEF ToolMessage
    <2>2. /\ todo[p] > 0 /\ Owed(messages, todo[p]) /\ clears' = clears
          /\ clears = 0 => FirstQuiet(messages)
          /\ messages' = messages \o <<ToolMessage>>
      BY <1>9, ToolMoves DEF TurnsOwe, Moves, Started, InRun, Appends
    <2>3. /\ Owed(messages', todo[p] - 1) /\ messages' # <<>>
          /\ clears = 0 => FirstQuiet(messages')
      BY <1>0, <2>1, <2>2, OwedMore, FirstMore
    <2>4. \A q \in Procs : pc'[q] \notin Pushed /\ (pc'[q] = "tools" => q = p)
      BY <1>9, ToolMoves DEF Moves, Pushed
    <2>5. todo'[p] = todo[p] - 1 /\ (pc'[p] # "tools" => todo[p] = 1)
      BY <1>0, <1>9, ToolMoves DEF Moves
    <2> QED
      BY <2>2, <2>3, <2>4, <2>5 DEF TurnsOwe, Owed, FirstQuiet
  <1>10. ASSUME SendInterrupt \/ \E p \in Procs : InterruptAndStop(p)
         PROVE  TurnsOwe'
    BY <1>10, InterruptMoves DEF TurnsOwe, Owed, FirstQuiet, Started, InRun
  <1>11. CASE Clear
    <2>1. /\ messages' = <<>> \/ messages' = messages
          /\ cm'.msgs = <<>> /\ clears' # 0 /\ UNCHANGED <<pc, todo>>
      BY <1>0, <1>11 DEF Clear, EmptyContext
    <2>2. \A r : Owed(<<>>, r)
      BY DEF Owed
    <2> QED
      BY <2>1, <2>2 DEF TurnsOwe, Owed, FirstQuiet
  <1> QED
    BY <1>1, <1>2, <1>3, <1>4, <1>5, <1>6, <1>7, <1>8, <1>9, <1>10, <1>11, StepKinds

LEMMA InitTurnsOwe == Init => TurnsOwe
  <1>1. \A r : Owed(<<>>, r)
    BY DEF Owed
  <1> QED
    BY <1>1 DEF Init, TurnsOwe, Pushed, Started, InRun

(***************************************************************************)
(* Every prompt that goes to the model has the results of the tool calls   *)
(* it contains, each right after its call, whatever way the tools end and  *)
(* whatever compaction cuts, as long as one run goes at a time.            *)
(***************************************************************************)
THEOREM AgentCallsAnswered == Spec /\ []OneRun => []CallsAnswered
  <1>1. ASSUME IndInv, OneRun, TurnsOwe
        PROVE  CallsAnswered
    <2> SUFFICES ASSUME NEW p \in Procs, pc[p] = "call",
                        NEW i \in (IF clears = 0 THEN 1 ELSE 2)..Len(messages),
                        NEW k \in 1..messages[i].calls
                 PROVE  i + k <= Len(messages) /\ messages[i + k].role = "tool"
      BY DEF CallsAnswered
    <2>1. \A q \in Procs : pc[q] # "tools"
      BY <1>1, Alone DEF InRun
    <2>2. Owed(messages, 0) /\ (clears = 0 => FirstQuiet(messages))
      BY <1>1, <2>1 DEF TurnsOwe, Started, InRun
    <2>3. i # 1
      BY <2>2 DEF FirstQuiet
    <2>4. i \in 2..Len(messages) /\ Len(messages) \in Nat
      BY <1>1, <2>3 DEF IndInv, TypeOK
    <2> QED
      BY <2>2, <2>4 DEF Owed
  <1>2. IndInv /\ TurnsOwe /\ OneRun /\ [Next]_vars => (IndInv /\ TurnsOwe)'
    BY StepInd, StepTurnsOwe
  <1> QED
    BY InitInd, InitTurnsOwe, <1>1, <1>2, PTL DEF Spec

(***************************************************************************)
(* Tool results.  A result has its call in the same list (anchored), or    *)
(* only results before it once a /clear has cut the list in a turn; while  *)
(* a turn has r calls left, so has the place after the last message.       *)
(***************************************************************************)
Anchored(ms, j) ==
    \E i \in 1..(j - 1) :
       /\ \A k \in (i + 1)..j : ms[k].role = "tool"
       /\ ms[i].calls >= j - i \/ ms[i].role \in {"boundary", "summary"}

Founded(ms, cut) ==
    \A j \in 1..Len(ms) : ms[j].role = "tool" =>
       Anchored(ms, j) \/ (cut /\ \A k \in 1..j : ms[k].role = "tool")

Expects(ms, r, cut) ==
    \/ \E i \in 1..Len(ms) :
          /\ \A k \in (i + 1)..Len(ms) : ms[k].role = "tool"
          /\ ms[i].calls >= Len(ms) - i + r
    \/ cut /\ \A k \in 1..Len(ms) : ms[k].role = "tool"

ResultsFounded ==
    /\ Founded(messages, clears > 0)
    /\ \A p \in Procs : pc[p] = "tools" => Expects(messages, todo[p], clears > 0)
    /\ \A p \in Procs : pc[p] \in Pushed => Founded(cm.msgs, clears > 0)

(* A message that is no result leaves the others their calls, and a reply  *)
(* with n calls expects n results; a result that is expected is founded.   *)
LEMMA FoundedMore ==
    ASSUME NEW ms \in Seq(Message), NEW m \in Message, NEW cut \in BOOLEAN,
           Founded(ms, cut)
    PROVE  /\ m.role # "tool" => Founded(ms \o <<m>>, cut) /\ Expects(ms \o <<m>>, m.calls, cut)
           /\ \A r \in Nat : r > 0 /\ m.role = "tool" /\ Expects(ms, r, cut)
                 => Founded(ms \o <<m>>, cut) /\ Expects(ms \o <<m>>, r - 1, cut)
  <1> DEFINE longer == ms \o <<m>>
  <1>1. Len(ms) \in Nat /\ Len(longer) = Len(ms) + 1 /\ m.calls \in Nat
    BY OneMore DEF Message
  <1>2. longer[Len(ms) + 1] = m /\ \A i \in 1..Len(ms) : longer[i] = ms[i]
    BY OneMore
  <1> HIDE DEF longer
  <1>3. ASSUME NEW j \in 1..Len(ms), longer[j].role = "tool"
        PROVE  Anchored(longer, j) \/ (cut /\ \A k \in 1..j : longer[k].role = "tool")
    <2>1. Anchored(ms, j) \/ (cut /\ \A k \in 1..j : ms[k].role = "tool")
      BY <1>2, <1>3 DEF Founded
    <2>2. CASE Anchored(ms, j)
      <3>1. PICK i \in 1..(j - 1) :
               /\ \A k \in (i + 1)..j : ms[k].role = "tool"
               /\ ms[i].calls >= j - i \/ ms[i].role \in {"boundary", "summary"}
        BY <2>2 DEF Anchored
      <3>2. i \in 1..Len(ms) /\ \A k \in (i + 1)..j : k \in 1..Len(ms)
        BY <1>1
      <3> QED
        BY <1>2, <3>1, <3>2 DEF Anchored
    <2>3. CASE cut /\ \A k \in 1..j : ms[k].role = "tool"
      BY <1>1, <1>2, <2>3
    <2> QED
      BY <2>1, <2>2, <2>3
  <1>4. ASSUME m.role # "tool"
        PROVE  Founded(longer, cut) /\ Expects(longer, m.calls, cut)
    <2>1. Founded(longer, cut)
      BY <1>1, <1>2, <1>3, <1>4 DEF Founded
    <2>2. Expects(longer, m.calls, cut)
      <3>1. Len(longer) \in 1..Len(longer) /\ longer[Len(longer)] = m
        BY <1>1, <1>2
      <3>2. (Len(longer) + 1)..Len(longer) = {} /\ m.calls >= Len(longer) - Len(longer) + m.calls
        BY <1>1
      <3> QED
        BY <3>1, <3>2 DEF Expects
    <2> QED
      BY <2>1, <2>2
  <1>5. ASSUME NEW r \in Nat, r > 0, m.role = "tool", Expects(ms, r, cut)
        PROVE  Founded(longer, cut) /\ Expects(longer, r - 1, cut)
    <2>1. CASE \E i \in 1..Len(ms) :
                  /\ \A k \in (i + 1)..Len(ms) : ms[k].role = "tool"
                  /\ ms[i].calls >= Len(ms) - i + r
      <3>1. PICK i \in 1..Len(ms) :
               /\ \A k \in (i + 1)..Len(ms) : ms[k].role = "tool"
               /\ ms[i].calls >= Len(ms) - i + r
        BY <2>1
      <3>2. \A k \in (i + 1)..Len(longer) : longer[k].role = "tool"
        <4> TAKE k \in (i + 1)..Len(longer)
        <4>1. CASE k = Len(ms) + 1
          BY <1>2, <1>5, <4>1
        <4>2. CASE k # Len(ms) + 1
          <5>1. k \in (i + 1)..Len(ms) /\ k \in 1..Len(ms)
            BY <1>1, <4>2
          <5> QED
            BY <1>2, <3>1, <5>1
        <4> QED
          BY <4>1, <4>2
      <3>3. /\ i \in 1..Len(longer) /\ i \in 1..((Len(ms) + 1) - 1) /\ longer[i] = ms[i]
            /\ longer[i].calls \in Nat
        BY <1>1, <1>2, CallsNumber
      <3>4. /\ longer[i].calls >= (Len(ms) + 1) - i
            /\ longer[i].calls >= Len(longer) - i + (r - 1)
        BY <1>1, <1>5, <3>1, <3>3
      <3>5. Anchored(longer, Len(ms) + 1)
        BY <1>1, <3>2, <3>3, <3>4 DEF Anchored
      <3>6. Founded(longer, cut)
        <4> SUFFICES ASSUME NEW j \in 1..Len(longer), longer[j].role = "tool"
                     PROVE  Anchored(longer, j) \/ (cut /\ \A k \in 1..j : longer[k].role = "tool")
          BY DEF Founded
        <4>1. CASE j = Len(ms) + 1
          BY <3>5, <4>1
        <4>2. CASE j # Len(ms) + 1
          BY <1>1, <1>3, <4>2
        <4> QED
          BY <4>1, <4>2
      <3>7. Expects(longer, r - 1, cut)
        BY <3>2, <3>3, <3>4 DEF Expects
      <3> QED
        BY <3>6, <3>7
    <2>2. CASE cut /\ \A k \in 1..Len(ms) : ms[k].role = "tool"
      <3>1. \A k \in 1..Len(longer) : longer[k].role = "tool"
        BY <1>1, <1>2, <1>5, <2>2
      <3> QED
        BY <1>1, <2>2, <3>1 DEF Founded, Expects
    <2> QED
      BY <1>5, <2>1, <2>2 DEF Expects
  <1> QED
    BY <1>4, <1>5 DEF longer

LEMMA CompactionFounded ==
    ASSUME NEW new \in Seq(Message), NEW ms \in Seq(Message), Compacted(new, ms),
           NEW cut \in BOOLEAN, Founded(ms, cut)
    PROVE  Founded(new, cut)
  <1>1. CASE new = ms
    BY <1>1
  <1>2. CASE \E d \in Nat : CutBy(new, ms, d)
    <2>1. PICK d \in Nat : CutBy(new, ms, d)
      BY <1>2
    <2>2. /\ Len(new) \in Nat /\ Len(ms) \in Nat /\ Len(new) = Len(ms) - d
          /\ Len(new) >= 3
      BY <2>1, ContextAssumption DEF CutBy
    <2>3. /\ new[1] = ms[1] /\ new[2].role \in {"boundary", "summary"}
          /\ \A i \in 3..Len(new) : new[i] = ms[i + d]
      BY <2>1 DEF CutBy, BoundaryMessage, SummaryMessage
    <2> SUFFICES ASSUME NEW j \in 1..Len(new), new[j].role = "tool"
                 PROVE  Anchored(new, j) \/ (cut /\ \A k \in 1..j : new[k].role = "tool")
      BY DEF Founded
    <2>4. CASE j = 1
      <3>1. 1 \in 1..Len(ms) /\ ms[1].role = "tool" /\ ~Anchored(ms, 1)
        BY <2>2, <2>3, <2>4 DEF Anchored
      <3> QED
        BY <2>3, <2>4, <3>1 DEF Founded
    <2>5. CASE j = 2
      BY <2>3, <2>5
    <2>6. CASE j > 2 /\ \A k \in 3..j : new[k].role = "tool"
      <3>1. 2 \in 1..(j - 1) /\ \A k \in (2 + 1)..j : new[k].role = "tool"
        BY <2>6
      <3> QED
        BY <2>3, <3>1 DEF Anchored
    <2>7. CASE j > 2 /\ \E k \in 3..j : new[k].role # "tool"
      <3>1. PICK l \in 3..j : new[l].role # "tool"
        BY <2>7
      <3>2. /\ l + d \in 1..(j + d) /\ ms[l + d].role # "tool"
            /\ j + d \in 1..Len(ms) /\ ms[j + d].role = "tool"
        BY <2>2, <2>3, <2>7, <3>1
      <3>3. Anchored(ms, j + d)
        BY <3>2 DEF Founded
      <3>4. PICK i \in 1..((j + d) - 1) :
               /\ \A k \in (i + 1)..(j + d) : ms[k].role = "tool"
               /\ ms[i].calls >= (j + d) - i \/ ms[i].role \in {"boundary", "summary"}
        BY <3>3 DEF Anchored
      <3>5. l + d <= i
        BY <3>2, <3>4
      <3>6. i - d \in 1..(j - 1) /\ i - d \in 3..Len(new) /\ new[i - d] = ms[i]
        BY <2>2, <2>3, <3>1, <3>5
      <3>7. ASSUME NEW k \in ((i - d) + 1)..j
            PROVE  new[k].role = "tool"
        <4>1. Len(new) \in Nat /\ j \in 1..Len(new) /\ d \in Nat
          BY <2>2
        <4>2. i \in Nat /\ 3 <= i - d
          BY <3>4, <3>6, <4>1
        <4>3. k \in 3..Len(new) /\ k + d \in (i + 1)..(j + d)
          BY <4>1, <4>2
        <4> QED
          BY <2>3, <3>4, <4>3
      <3>8. new[i - d].calls >= j - (i - d) \/ new[i - d].role \in {"boundary", "summary"}
        <4>1. (j + d) - i = j - (i - d)
          OBVIOUS
        <4> QED
          BY <3>4, <3>6, <4>1
      <3> QED
        BY <3>6, <3>7, <3>8 DEF Anchored
    <2> QED
      BY <2>4, <2>5, <2>6, <2>7
  <1> QED
    BY <1>1, <1>2 DEF Compacted

(* A step that appends a message which is no result and makes no calls. *)
LEMMA QuietAppend ==
    ASSUME TypeOK, ResultsFounded, NEW m \in Message, m.role # "tool",
           messages' = messages \o <<m>>,
           \A p \in Procs : pc'[p] # "tools" /\ pc'[p] \notin Pushed,
           clears' = clears
    PROVE  ResultsFounded'
  <1>1. messages \in Seq(Message) /\ Founded(messages, clears > 0)
    BY DEF TypeOK, ResultsFounded
  <1>2. (clears > 0) \in BOOLEAN
    OBVIOUS
  <1>3. Founded(messages', clears > 0)
    BY <1>1, <1>2, FoundedMore
  <1> QED
    BY <1>3 DEF ResultsFounded, Founded, Anchored

LEMMA StepResultsFounded ==
    ASSUME IndInv, OneRun, ResultsFounded, [Next]_vars
    PROVE  ResultsFounded'
  <1>0. /\ TypeOK /\ messages \in Seq(Message) /\ todo \in [Procs -> 0..MaxCalls]
        /\ MaxCalls \in Nat /\ clears \in Nat
    BY AgentAssumption DEF IndInv, TypeOK
  <1>1. CASE Aside
    <2>1. \A q \in Procs : /\ pc'[q] \in Pushed => pc[q] \in Pushed
                           /\ pc'[q] = "tools" <=> pc[q] = "tools"
      BY <1>1 DEF Aside, Pushed
    <2>2. UNCHANGED <<messages, cm, todo, clears>>
      BY <1>1 DEF Aside
    <2>3. Founded(messages', clears' > 0)
      BY <2>2 DEF ResultsFounded
    <2>4. ASSUME NEW q \in Procs, pc'[q] = "tools"
          PROVE  Expects(messages', todo'[q], clears' > 0)
      BY <2>1, <2>2, <2>4 DEF ResultsFounded
    <2>5. ASSUME NEW q \in Procs, pc'[q] \in Pushed
          PROVE  Founded(cm'.msgs, clears' > 0)
      BY <2>1, <2>2, <2>5 DEF ResultsFounded
    <2> QED
      BY <2>3, <2>4, <2>5 DEF ResultsFounded
  <1>2. ASSUME NEW p \in Procs, Begin(p)
        PROVE  ResultsFounded'
    <2>1. UserMessage(<<>>) \in Message /\ UserMessage(<<>>).role # "tool"
      <3>1. <<>> \in Seq(Nat)
        OBVIOUS
      <3> QED
        BY <3>1, MessageTypes DEF UserMessage
    <2> QED
      BY <1>0, <1>2, <2>1, BeginMoves, QuietAppend DEF Moves, Appends, Pushed
  <1>3. ASSUME NEW p \in Procs, CountTurn(p)
        PROVE  ResultsFounded'
    <2>1. /\ \A q \in Procs : pc'[q] # "tools" /\ pc'[q] \notin Pushed
          /\ clears' = clears
      BY <1>3, CountMoves DEF Moves, Pushed
    <2>2. CASE interruptCh # <<>>
      <3>1. UserMessage(interruptCh) \in Message /\ UserMessage(interruptCh).role # "tool"
        BY <1>0, MessageTypes DEF UserMessage, TypeOK
      <3> QED
        BY <1>0, <1>3, <2>1, <2>2, <3>1, CountMoves, QuietAppend DEF Appends
    <2>3. CASE interruptCh = <<>>
      <3>1. messages' = messages
        BY <1>3, <2>3, CountMoves
      <3> QED
        BY <2>1, <3>1 DEF ResultsFounded, Founded, Anchored
    <2> QED
      BY <2>2, <2>3
  <1>4. ASSUME NEW p \in Procs, CheckContext(p)
        PROVE  ResultsFounded'
    <2>1. /\ \A q \in Procs : pc'[q] # "tools"
          /\ \A q \in Procs : pc'[q] \in Pushed => cm'.msgs = messages
          /\ UNCHANGED <<messages, clears>>
      BY <1>4, CheckMoves DEF Moves, Pushed
    <2> QED
      BY <2>1 DEF ResultsFounded, Founded, Anchored
  <1>5. ASSUME CompactCommand \/ \E p \in Procs : Compact(p)
        PROVE  ResultsFounded'
    <2>1. cm' \in CompactResults(cm) /\ UNCHANGED <<messages, todo, clears>>
      BY <1>5 DEF CompactCommand, Compact, userVars, histVars
    <2>2. \A q \in Procs : /\ pc'[q] \in Pushed => pc[q] \in Pushed
                           /\ pc'[q] = "tools" <=> pc[q] = "tools"
      BY <1>5, CompactMoves DEF Moves, CompactCommand, Pushed
    <2>3. Founded(cm.msgs, clears > 0) => Founded(cm'.msgs, clears > 0)
      <3> DEFINE cut == clears > 0
      <3>1. cut \in BOOLEAN
        BY <1>0
      <3>2. /\ cm.msgs \in Seq(Message) /\ cm'.msgs \in Seq(Message)
            /\ Compacted(cm'.msgs, cm.msgs)
        BY <1>0, <2>1, CompactedManager
      <3> HIDE DEF cut
      <3>3. Founded(cm.msgs, cut) => Founded(cm'.msgs, cut)
        BY <3>1, <3>2, CompactionFounded
      <3> QED
        BY <3>3 DEF cut
    <2>4. ASSUME NEW q \in Procs, pc'[q] \in Pushed
          PROVE  Founded(cm'.msgs, clears > 0)
      BY <2>2, <2>3, <2>4 DEF ResultsFounded
    <2> QED
      BY <2>1, <2>2, <2>4 DEF ResultsFounded, Founded, Anchored, Expects
  <1>6. ASSUME NEW p \in Procs, ReadBack(p)
        PROVE  ResultsFounded'
    <2>1. messages' = cm.msgs /\ Founded(cm.msgs, clears > 0) /\ clears' = clears
      BY <1>6, ReadBackMoves DEF ResultsFounded, Moves, Pushed
    <2>2. \A q \in Procs : pc'[q] # "tools" /\ pc'[q] \notin Pushed
      BY <1>6, ReadBackMoves DEF Moves, Pushed
    <2> QED
      BY <2>1, <2>2 DEF ResultsFounded, Founded, Anchored
  <1>7. ASSUME NEW p \in Procs, CallModel(p)
        PROVE  ResultsFounded'
    <2>1. /\ UNCHANGED <<messages, clears>>
          /\ \A q \in Procs : pc'[q] # "tools" /\ pc'[q] \notin Pushed
      BY <1>7, CallMoves DEF Moves, Pushed
    <2> QED
      BY <2>1 DEF ResultsFounded, Founded, Anchored
  <1>8. ASSUME NEW p \in Procs, ModelReply(p)
        PROVE  ResultsFounded'
    <2>1. PICK n \in 0..MaxCalls :
             /\ Appends(p, <<AssistantMessage(n)>>)
             /\ \/ /\ n = 0 /\ todo' = todo
                   /\ Moves(p, "waiting", "idle") \/ Moves(p, "waiting", "release")
                \/ /\ n > 0 /\ todo' = [todo EXCEPT ![p] = n]
                   /\ Moves(p, "waiting", "tools")
      BY <1>8, ReplyMoves
    <2>2. /\ AssistantMessage(n) \in Message /\ AssistantMessage(n).calls = n
          /\ AssistantMessage(n).role # "tool"
      BY <1>0, MessageTypes DEF AssistantMessage
    <2>3. Founded(messages, clears > 0) /\ clears' = clears /\ (clears > 0) \in BOOLEAN
      BY <1>0, <1>8, ReplyMoves DEF ResultsFounded
    <2>4. Founded(messages', clears > 0) /\ Expects(messages', n, clears > 0)
      BY <1>0, <2>1, <2>2, <2>3, FoundedMore DEF Appends
    <2>5. \A q \in Procs : pc'[q] \notin Pushed /\ (pc'[q] = "tools" => todo'[q] = n)
      BY <1>0, <2>1 DEF Moves, Pushed
    <2> QED
      BY <2>3, <2>4, <2>5 DEF ResultsFounded, Founded, Anchored, Expects
  <1>9. ASSUME NEW p \in Procs, ExecuteTool(p)
        PROVE  ResultsFounded'
    <2>1. ToolMessage \in Message /\ ToolMessage.role = "tool"
      BY MessageTypes DEF ToolMessage
    <2>2. /\ todo[p] > 0 /\ todo[p] \in Nat /\ clears' = clears /\ (clears > 0) \in BOOLEAN
          /\ Founded(messages, clears > 0) /\ Expects(messages, todo[p], clears > 0)
          /\ messages' = messages \o <<ToolMessage>>
      BY <1>0, <1>9, ToolMoves DEF ResultsFounded, Moves, Appends
    <2>3. Founded(messages', clears > 0) /\ Expects(messages', todo[p] - 1, clears > 0)
      BY <1>0, <2>1, <2>2, FoundedMore
    <2>4. \A q \in Procs : /\ pc'[q] \notin Pushed
                           /\ pc'[q] = "tools" => q = p /\ todo'[q] = todo[p] - 1
      BY <1>0, <1>9, ToolMoves DEF Moves, Pushed
    <2> QED
      BY <2>2, <2>3, <2>4 DEF ResultsFounded, Founded, Anchored, Expects
  <1>10. ASSUME SendInterrupt \/ \E p \in Procs : InterruptAndStop(p)
         PROVE  ResultsFounded'
    BY <1>10, InterruptMoves DEF ResultsFounded, Founded, Anchored, Expects
  <1>11. CASE Clear
    <2>1. /\ messages' = <<>> \/ messages' = messages
          /\ cm'.msgs = <<>> /\ clears' > 0 /\ UNCHANGED <<pc, todo>>
      BY <1>0, <1>11 DEF Clear, EmptyContext
    <2>2. Founded(<<>>, TRUE) /\ \A r : Expects(<<>>, r, TRUE)
      BY DEF Founded, Expects
    <2>3. /\ Founded(messages, clears > 0) => Founded(messages, TRUE)
          /\ \A r : Expects(messages, r, clears > 0) => Expects(messages, r, TRUE)
      BY DEF Founded, Expects
    <2>4. Founded(messages', TRUE) /\ Founded(cm'.msgs, TRUE)
      BY <2>1, <2>2, <2>3 DEF ResultsFounded
    <2>5. \A q \in Procs : pc'[q] = "tools" => Expects(messages', todo'[q], TRUE)
      BY <2>1, <2>2, <2>3 DEF ResultsFounded
    <2>6. (clears' > 0) = TRUE
      BY <2>1
    <2> QED
      BY <2>4, <2>5, <2>6 DEF ResultsFounded, Founded, Anchored, Expects
  <1> QED
    BY <1>1, <1>2, <1>3, <1>4, <1>5, <1>6, <1>7, <1>8, <1>9, <1>10, <1>11, StepKinds

(***************************************************************************)
(* No prompt contains a tool result without its call, unless compaction    *)
(* cut between them (the boundary or the summary then stands where the     *)
(* call was) or a /clear did, as long as one run goes at a time.           *)
(***************************************************************************)
THEOREM AgentResultsHaveCalls == Spec /\ []OneRun => []ResultsHaveCalls
  <1>1. Init => ResultsFounded
    <2>1. \A cut : Founded(<<>>, cut)
      BY DEF Founded
    <2> QED
      BY <2>1 DEF Init, ResultsFounded, Pushed
  <1>2. ResultsFounded => ResultsHaveCalls
    BY DEF ResultsFounded, Founded, Anchored, ResultsHaveCalls
  <1>3. IndInv /\ ResultsFounded /\ OneRun /\ [Next]_vars => (IndInv /\ ResultsFounded)'
    BY StepInd, StepResultsFounded
  <1> QED
    BY InitInd, <1>1, <1>2, <1>3, PTL DEF Spec

(***************************************************************************)
(* The ends of the history.  What the manager holds from the push to the   *)
(* reading back starts with the same message as the history, and ends with *)
(* the same KeepRecent ones, or all of them when there are fewer.          *)
(***************************************************************************)
SameEnds(new, old) ==
    /\ new # <<>> /\ old # <<>> /\ new[1] = old[1]
    /\ \A k \in 0..(KeepRecent - 1) : k < Len(old) =>
          k < Len(new) /\ new[Len(new) - k] = old[Len(old) - k]

PushedEnds == \A p \in Procs : pc[p] \in Pushed /\ clears = 0 => SameEnds(cm.msgs, messages)

LEMMA CompactionSameEnds ==
    ASSUME NEW new \in Seq(Message), NEW ms \in Seq(Message), NEW old \in Seq(Message),
           Compacted(new, ms), SameEnds(ms, old)
    PROVE  SameEnds(new, old)
  <1>1. CASE new = ms
    BY <1>1
  <1>2. CASE \E d \in Nat : CutBy(new, ms, d)
    <2>1. PICK d \in Nat : CutBy(new, ms, d)
      BY <1>2
    <2>2. /\ Len(new) \in Nat /\ Len(ms) \in Nat /\ Len(new) = Len(ms) - d
          /\ KeepRecent \in Nat /\ Len(new) >= KeepRecent + 2
      BY <2>1, ContextAssumption DEF CutBy
    <2>3. new # <<>> /\ new[1] = ms[1]
      BY <2>1, <2>2 DEF CutBy
    <2>4. ASSUME NEW k \in 0..(KeepRecent - 1), k < Len(old)
          PROVE  k < Len(new) /\ new[Len(new) - k] = old[Len(old) - k]
      <3>1. ms[Len(ms) - k] = old[Len(old) - k]
        BY <2>4 DEF SameEnds
      <3>2. k < Len(new) /\ Len(new) - k \in 3..Len(new) /\ (Len(new) - k) + d = Len(ms) - k
        BY <2>2
      <3> QED
        BY <2>1, <3>1, <3>2 DEF CutBy
    <2> QED
      BY <2>3, <2>4 DEF SameEnds
  <1> QED
    BY <1>1, <1>2 DEF Compacted

LEMMA StepPushedEnds ==
    ASSUME IndInv, OneRun, TurnsOwe, PushedEnds, [Next]_vars
    PROVE  PushedEnds'
  <1> SUFFICES ASSUME NEW q \in Procs, pc'[q] \in Pushed, clears' = 0
               PROVE  SameEnds(cm'.msgs, messages')
    BY DEF PushedEnds, SameEnds
  <1>0. TypeOK /\ messages \in Seq(Message) /\ clears \in Nat
    BY DEF IndInv, TypeOK
  <1>1. CASE Aside
    BY <1>1 DEF Aside, PushedEnds, Pushed
  <1>2. ASSUME NEW p \in Procs, CheckContext(p)
        PROVE  SameEnds(cm'.msgs, messages')
    <2>1. cm'.msgs = messages /\ messages' = messages /\ clears = 0
      BY <1>2, CheckMoves DEF Moves, Pushed
    <2>2. messages # <<>>
      BY <1>2, <2>1, CheckMoves DEF TurnsOwe, Moves, Started, InRun
    <2> QED
      BY <2>1, <2>2 DEF SameEnds
  <1>3. ASSUME CompactCommand \/ \E p \in Procs : Compact(p)
        PROVE  SameEnds(cm'.msgs, messages')
    <2>1. cm' \in CompactResults(cm) /\ UNCHANGED <<messages, clears>>
      BY <1>3 DEF CompactCommand, Compact, userVars, histVars
    <2>2. pc[q] \in Pushed
      BY <1>3, CompactMoves DEF Moves, CompactCommand, Pushed
    <2>3. SameEnds(cm.msgs, messages)
      BY <2>1, <2>2 DEF PushedEnds
    <2> QED
      BY <1>0, <2>1, <2>3, CompactedManager, CompactionSameEnds
  <1>4. ASSUME NEW p \in Procs,
               \/ Begin(p) \/ CountTurn(p) \/ ReadBack(p)
               \/ CallModel(p) \/ ModelReply(p) \/ ExecuteTool(p)
        PROVE  FALSE
    BY <1>4, BeginMoves, CountMoves, ReadBackMoves, CallMoves, ReplyMoves, ToolMoves
       DEF Moves, Pushed
  <1>5. CASE SendInterrupt \/ \E p \in Procs : InterruptAndStop(p)
    BY <1>5, InterruptMoves DEF PushedEnds
  <1>6. ~Clear
    BY <1>0 DEF Clear
  <1> QED
    BY <1>1, <1>2, <1>3, <1>4, <1>5, <1>6, StepKinds

(***************************************************************************)
(* Automatic compaction keeps the first message of the history and its     *)
(* last ones, whatever the manager held before, whichever compactor        *)
(* answers and however often /compact is typed, as long as one run goes at *)
(* a time.                                                                 *)
(***************************************************************************)
THEOREM AgentCompactionKeepsEnds == Spec /\ []OneRun => CompactionKeepsEnds
  <1>1. ASSUME IndInv, OneRun, PushedEnds, NEW p \in Procs, ReadBack(p), clears = 0
        PROVE  /\ messages' # <<>> /\ messages'[1] = messages[1]
               /\ LET n == IF Len(messages) < KeepRecent THEN Len(messages) ELSE KeepRecent
                  IN  LastN(messages', n) = LastN(messages, n)
    <2> DEFINE n == IF Len(messages) < KeepRecent THEN Len(messages) ELSE KeepRecent
    <2>1. messages' = cm.msgs /\ SameEnds(cm.msgs, messages)
      BY <1>1, ReadBackMoves DEF Moves, Pushed, PushedEnds
    <2>2. messages \in Seq(Message) /\ messages' \in Seq(Message)
      BY <1>1, <2>1 DEF IndInv, TypeOK, ContextState
    <2>3. /\ n \in Nat /\ n <= Len(messages) /\ n <= KeepRecent /\ KeepRecent \in Nat
          /\ Len(messages) \in Nat /\ Len(messages') \in Nat
      BY <2>2, ContextAssumption
    <2> HIDE DEF n
    <2>4. \A k \in 0..(n - 1) : /\ k < Len(messages')
                                /\ messages'[Len(messages') - k] = messages[Len(messages) - k]
      <3> TAKE k \in 0..(n - 1)
      <3>1. k \in 0..(KeepRecent - 1) /\ k < Len(messages)
        BY <2>3
      <3> QED
        BY <2>1, <3>1 DEF SameEnds
    <2>5. n <= Len(messages')
      <3>1. CASE n = 0
        BY <2>3, <3>1
      <3>2. CASE n > 0
        <4>1. n - 1 \in 0..(n - 1)
          BY <2>3, <3>2
        <4> QED
          BY <2>3, <2>4, <4>1
      <3> QED
        BY <2>3, <3>1, <3>2
    <2>6. /\ LastN(messages, n) \in Seq(Message) /\ Len(LastN(messages, n)) = n
          /\ \A i \in 1..n : LastN(messages, n)[i] = messages[Len(messages) - (n - i)]
      BY <2>2, <2>3 DEF LastN
    <2>7. /\ LastN(messages', n) \in Seq(Message) /\ Len(LastN(messages', n)) = n
          /\ \A i \in 1..n : LastN(messages', n)[i] = messages'[Len(messages') - (n - i)]
      BY <2>2, <2>3, <2>5 DEF LastN
    <2>8. \A i \in 1..n : n - i \in 0..(n - 1)
      BY <2>3
    <2>9. \A i \in 1..n : LastN(messages', n)[i] = LastN(messages, n)[i]
      BY <2>4, <2>6, <2>7, <2>8
    <2>10. LastN(messages', n) = LastN(messages, n)
      BY <2>3, <2>6, <2>7, <2>9
    <2> QED
      BY <2>1, <2>10 DEF n, SameEnds
  <1>2. Init => PushedEnds
    BY DEF Init, PushedEnds, Pushed
  <1>3. IndInv /\ TurnsOwe /\ PushedEnds /\ OneRun /\ [Next]_vars
           => (IndInv /\ TurnsOwe /\ PushedEnds)'
    BY StepInd, StepTurnsOwe, StepPushedEnds
  <1>4. IndInv /\ OneRun /\ PushedEnds =>
           [\A p \in Procs : ReadBack(p) /\ clears = 0 =>
               /\ messages' # <<>> /\ messages'[1] = messages[1]
               /\ LET n == IF Len(messages) < KeepRecent THEN Len(messages) ELSE KeepRecent
                  IN  LastN(messages', n) = LastN(messages, n)]_vars
    BY <1>1
  <1> QED
    BY InitInd, InitTurnsOwe, <1>2, <1>3, <1>4, PTL DEF Spec, CompactionKeepsEnds

(***************************************************************************)
(* The turns of a run.  From the increment to the call the counter is one  *)
(* ahead of the calls made for the prompt; between the test and the        *)
(* increment a turn is left, and what was read is still the counter's      *)
(* value, because no other run is there to write it.                       *)
(***************************************************************************)
TurnsCounted ==
    /\ turnCount <= MaxTurns
    /\ \A p \in Procs :
          /\ asked[p] <= MaxTurns
          /\ Started(p) => asked[p] <= turnCount
          /\ pc[p] \in Turning => asked[p] < turnCount
          /\ pc[p] \in {"load", "store"} => turnCount < MaxTurns
          /\ pc[p] = "store" => loaded[p] = turnCount

(* The counters stay and nobody gets into the part of the loop that counts. *)
CountsAside ==
    /\ UNCHANGED <<turnCount, loaded, asked>>
    /\ \A q \in Procs : \/ pc'[q] = pc[q]
                        \/ pc'[q] \in {"idle", "release", "begin"}
                        \/ Started(q) /\ pc'[q] \in {"turn", "waiting", "tools"}
                        \/ pc[q] \in Turning /\ pc'[q] \in Turning

LEMMA CountsAsideSteps ==
    ASSUME IndInv, [Next]_vars,
           \A p \in Procs : ~Begin(p) /\ ~StartTurn(p) /\ ~LoadTurnCount(p)
                            /\ ~CountTurn(p) /\ ~CallModel(p)
    PROVE  CountsAside
  <1> USE DEF IndInv, TypeOK, CountsAside, Goto, Started, InRun, Turning, userVars, histVars
  <1>1. ASSUME NEW p \in Procs,
               Submit(p) \/ Stream(p) \/ EndLoop(p) \/ ModelError(p) \/ Release(p)
        PROVE  CountsAside
    BY <1>1 DEF Submit, Stream, EndLoop, ModelError, Release, Return
  <1>2. ASSUME NEW p \in Procs, CheckContext(p) \/ Compact(p) \/ ReadBack(p)
        PROVE  CountsAside
    BY <1>2 DEF CheckContext, Compact, ReadBack
  <1>3. ASSUME NEW p \in Procs, ModelReply(p) \/ ExecuteTool(p)
        PROVE  CountsAside
    BY <1>3 DEF ModelReply, ExecuteTool, Return
  <1>4. ASSUME NEW p \in Procs, Cancel(p) \/ InterruptAndStop(p)
        PROVE  CountsAside
    BY <1>4 DEF Cancel, InterruptAndStop
  <1>5. CASE CheckBusy \/ SendInterrupt \/ Clear \/ CompactCommand \/ UNCHANGED vars
    BY <1>5 DEF CheckBusy, SendInterrupt, Clear, CompactCommand, vars
  <1> QED
    BY <1>1, <1>2, <1>3, <1>4, <1>5 DEF Next, RunStep

LEMMA StepTurnsCounted ==
    ASSUME IndInv, OneRun, TurnsCounted, [Next]_vars
    PROVE  TurnsCounted'
  <1> USE DEF Started, InRun, Turning
  <1>0. /\ turnCount \in Nat /\ MaxTurns \in Nat /\ pc \in [Procs -> Labels]
        /\ asked \in [Procs -> Nat] /\ loaded \in [Procs -> Nat]
    BY AgentAssumption DEF IndInv, TypeOK
  <1>1. CASE CountsAside
    <2>1. /\ UNCHANGED <<turnCount, loaded, asked>>
          /\ \A q \in Procs : /\ Started(q)' => Started(q)
                              /\ pc'[q] \in Turning => pc[q] \in Turning
                              /\ pc'[q] \in {"load", "store"} => pc'[q] = pc[q]
      BY <1>1 DEF CountsAside
    <2> QED
      BY <2>1 DEF TurnsCounted
  <1>2. ASSUME NEW p \in Procs, Begin(p) \/ CountTurn(p) \/ CallModel(p)
                                \/ StartTurn(p) \/ LoadTurnCount(p)
        PROVE  TurnsCounted'
    <2>1. InRun(p)
      BY <1>2 DEF Begin, StartTurn, LoadTurnCount, CountTurn, CallModel
    <2>2. \A q \in Procs : q # p => pc'[q] = pc[q] /\ pc[q] \in {"idle", "release"}
      BY <1>0, <1>2, <2>1, Alone DEF Begin, StartTurn, LoadTurnCount, CountTurn, CallModel, Goto
    <2>3. \A q \in Procs : q # p => ~Started(q)' /\ pc'[q] \notin Turning \cup {"load", "store"}
      BY <2>2
    <2>4. CASE Begin(p)
      <3>1. turnCount' = 0 /\ asked' = [asked EXCEPT ![p] = 0] /\ pc'[p] = "turn"
        BY <1>0, <2>4 DEF Begin, Goto
      <3>2. asked'[p] = 0 /\ \A q \in Procs : q # p => asked'[q] = asked[q]
        BY <1>0, <3>1
      <3> QED
        BY <1>0, <2>3, <3>1, <3>2 DEF TurnsCounted
    <2>5. CASE StartTurn(p)
      <3>1. /\ pc'[p] = "load" /\ turnCount < MaxTurns /\ Started(p)
            /\ UNCHANGED <<turnCount, loaded, asked>>
        BY <1>0, <2>5 DEF StartTurn, Goto
      <3> QED
        BY <1>0, <2>3, <3>1 DEF TurnsCounted
    <2>6. CASE LoadTurnCount(p)
      <3>1. /\ pc[p] = "load" /\ pc'[p] = "store" /\ loaded' = [loaded EXCEPT ![p] = turnCount]
            /\ UNCHANGED <<turnCount, asked>>
        BY <1>0, <2>6 DEF LoadTurnCount, Goto
      <3> QED
        BY <1>0, <2>3, <3>1 DEF TurnsCounted
    <2>7. CASE CountTurn(p)
      <3>1. /\ pc[p] = "store" /\ pc'[p] = "check" /\ turnCount' = loaded[p] + 1
            /\ UNCHANGED asked
        BY <1>0, <2>7 DEF CountTurn, Goto, histVars
      <3>2. /\ loaded[p] = turnCount /\ turnCount < MaxTurns
            /\ asked[p] <= turnCount
        BY <3>1 DEF TurnsCounted
      <3> QED
        BY <1>0, <2>3, <3>1, <3>2 DEF TurnsCounted
    <2>8. CASE CallModel(p)
      <3>1. /\ pc[p] = "call" /\ pc'[p] = "waiting" /\ UNCHANGED <<turnCount, loaded>>
            /\ asked' = [asked EXCEPT ![p] = asked[p] + 1]
        BY <1>0, <2>8 DEF CallModel, Goto
      <3>2. asked'[p] = asked[p] + 1 /\ \A q \in Procs : q # p => asked'[q] = asked[q]
        BY <1>0, <3>1
      <3>3. asked[p] < turnCount /\ turnCount <= MaxTurns
        BY <3>1 DEF TurnsCounted
      <3> QED
        BY <1>0, <2>3, <3>1, <3>2, <3>3 DEF TurnsCounted
    <2> QED
      BY <1>2, <2>4, <2>5, <2>6, <2>7, <2>8
  <1> QED
    BY <1>1, <1>2, CountsAsideSteps

(***************************************************************************)
(* A prompt costs at most MaxTurns calls to the model, for any number of   *)
(* goroutines and prompts and whatever ends the runs, as long as one run   *)
(* goes at a time.  The hypothesis is needed: of two runs that overlap one *)
(* resets or overwrites what the other counted.                            *)
(***************************************************************************)
THEOREM AgentCallsWithinTurns == Spec /\ []OneRun => []CallsWithinTurns
  <1>1. Init => TurnsCounted
    BY AgentAssumption DEF Init, TurnsCounted, Started, InRun, Turning
  <1>2. TurnsCounted => CallsWithinTurns
    BY DEF TurnsCounted, CallsWithinTurns
  <1>3. IndInv /\ TurnsCounted /\ OneRun /\ [Next]_vars => (IndInv /\ TurnsCounted)'
    BY StepInd, StepTurnsCounted
  <1> QED
    BY InitInd, <1>1, <1>2, <1>3, PTL DEF Spec

=============================================================================
