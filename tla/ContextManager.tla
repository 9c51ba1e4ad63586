--------------------------- MODULE ContextManager ---------------------------
(***************************************************************************)
(* The context window manager of internal/context: the value one Manager   *)
(* holds, and what each of its methods makes of that value.  The manager   *)
(* has no thread of its own; every method runs under its mutex, so a       *)
(* method is an operator from the old value to the new one (or to the set  *)
(* of new ones, where the summarising model decides).  AgentLoop calls     *)
(* these operators the way the agent calls the methods.                    *)
(*                                                                         *)
(* Contents are abstracted to what the properties tell apart: the role of  *)
(* a message, how many tool calls an assistant message makes, and which    *)
(* interrupts a user message carries.  One message weighs one token.       *)
(***************************************************************************)
EXTENDS Naturals, Sequences

CONSTANTS
    KeepRecent,     \* compactTruncation(10), NewLLMCompactor(.., 1, 10, ..), Compact(10)
    KeepTail,       \* keepRecent := 20 in compactWithLLM
    CompactAt,      \* cfg.CompactAt * cfg.MaxTokens, in messages
    HasCompactor    \* whether an LLM compactor is configured

ASSUME ContextAssumption ==
    /\ KeepRecent \in Nat \ {0}
    /\ KeepTail \in Nat
    /\ KeepTail >= KeepRecent
    /\ CompactAt \in Nat
    /\ HasCompactor \in BOOLEAN

(***************************************************************************)
(* Messages.  "boundary" and "summary" are the user messages compaction    *)
(* puts in place of what it removed: the notice of a truncation, and the   *)
(* summary the compactor wrote.                                            *)
(***************************************************************************)
Role == {"user", "assistant", "tool", "boundary", "summary"}
Message == [role : Role, calls : Nat, ints : Seq(Nat)]

UserMessage(ints) == [role |-> "user", calls |-> 0, ints |-> ints]
AssistantMessage(n) == [role |-> "assistant", calls |-> n, ints |-> <<>>]
ToolMessage == [role |-> "tool", calls |-> 0, ints |-> <<>>]
BoundaryMessage == [role |-> "boundary", calls |-> 0, ints |-> <<>>]
SummaryMessage == [role |-> "summary", calls |-> 0, ints |-> <<>>]

(***************************************************************************)
(* The manager: its copy of the messages, the token count the API last     *)
(* reported and the length of msgs at that moment, whether a summary is    *)
(* kept for the next compression, and for each recorded compression        *)
(* whether it saved at least a tenth of the tokens.                        *)
(***************************************************************************)
ContextState == [msgs : Seq(Message), actual : Nat, idx : Nat,
                 prev : BOOLEAN, hist : Seq(BOOLEAN)]

EmptyContext ==
    [msgs |-> <<>>, actual |-> 0, idx |-> 0, prev |-> FALSE, hist |-> <<>>]

SetActualTokens(cm, count) ==
    [cm EXCEPT !.actual = count, !.idx = Len(cm.msgs)]

TokenCount(cm) ==
    IF cm.actual > 0 /\ cm.idx <= Len(cm.msgs)
    THEN cm.actual + (Len(cm.msgs) - cm.idx)
    ELSE Len(cm.msgs)

ShouldCompact(cm) == TokenCount(cm) >= CompactAt

LastN(msgs, n) == SubSeq(msgs, Len(msgs) - n + 1, Len(msgs))

(* Variant: no boundary message. *)
TruncatedSilently(cm, keep) ==
    IF Len(cm.msgs) <= 2 * keep
    THEN cm
    ELSE [cm EXCEPT !.msgs = <<cm.msgs[1]>> \o LastN(cm.msgs, keep)]

(* compactTruncation: the first message, the boundary, the last ones. *)
Truncated(cm, keep) ==
    IF Len(cm.msgs) <= 2 * keep
    THEN cm
    ELSE [cm EXCEPT !.msgs = <<cm.msgs[1], BoundaryMessage>> \o LastN(cm.msgs, keep)]

(* What LLMCompactor.Compact may return for a list of messages. *)
CompactorOutcome(msgs) ==
    IF Len(msgs) <= 1 + KeepRecent
    THEN {"nothing"}
    ELSE {"failed", "saved", "savedLittle"}

(* The last two recorded compressions both saved less than 10%. *)
Thrashing(cm) ==
    LET n == Len(cm.hist)
    IN  n >= 2 /\ ~cm.hist[n] /\ ~cm.hist[n - 1]

(* compactWithLLM, once the compactor has answered. *)
Summarised(cm, outcome) ==
    CASE outcome = "failed"  -> Truncated(cm, KeepRecent)
      [] outcome = "nothing" -> cm
      [] OTHER ->
            IF Len(cm.msgs) <= 1 + KeepTail
            THEN cm
            ELSE [cm EXCEPT
                    !.msgs = <<cm.msgs[1], SummaryMessage>> \o LastN(cm.msgs, KeepTail),
                    !.prev = TRUE,
                    !.hist = Append(@, outcome = "saved")]

CompactResults(cm) ==
    IF ~HasCompactor
    THEN {Truncated(cm, KeepRecent)}
    ELSE IF Thrashing(cm)
         THEN {cm}
         ELSE {Summarised(cm, o) : o \in CompactorOutcome(cm.msgs)}

=============================================================================
