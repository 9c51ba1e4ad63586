-------------------------------- MODULE Screen --------------------------------
(***************************************************************************)
(* What the terminal shows of the transcript, scrolled and folded          *)
(* (internal/tui/transcript.go), and the part of it that is selected with  *)
(* the mouse, highlighted and copied (selection.go, app.go).               *)
(*                                                                         *)
(* A line is the sequence of the widths of its runes; styles, markdown and *)
(* the escape sequences among the runes are left out, and so are runes of  *)
(* no width.  A rendered message keeps the lines it has.  The lines below  *)
(* the transcript only take their share of the height.                     *)
(***************************************************************************)
EXTENDS Integers, Sequences, FiniteSets, FiniteSetsExt, SequencesExt

CONSTANTS
    Lines,          \* the lines that messages consist of, as widths of runes
    Outputs,        \* the outputs of tools, as sequences of lines
    Heights,        \* bound: heights of the transcript
    MaxMessages,    \* bound: messages of the transcript
    MaxLines,       \* bound: lines of a message, output aside
    MaxCol          \* bound: columns of the mouse

ASSUME ScreenAssumption ==
    /\ \A line \in Lines : line \in Seq({1, 2})
    /\ \A out \in Outputs : out \in Seq(Seq({1, 2}))
    /\ Heights \subseteq Nat \ {0} /\ IsFiniteSet(Heights) /\ Heights # {}
    /\ {MaxMessages, MaxCol} \subseteq Nat /\ MaxLines \in Nat \ {0}

VARIABLES
    msgs,           \* the transcript: lines, output and whether it is collapsed
    height,         \* tr.height
    yOffset,        \* tr.yOffset
    atBottom,       \* tr.atBottom
    sel,            \* anchor and focus of the selection, and what state it is in
    shrunk          \* history: an output was folded while the transcript was scrolled

transcriptVars == <<msgs, height, yOffset, atBottom, shrunk>>
screenVars == <<transcriptVars, sel>>

Points == [row : 0 .. Max(Heights) - 1, col : 0 .. MaxCol]
NoSelection == [anchor |-> [row |-> 0, col |-> 0], focus |-> [row |-> 0, col |-> 0], state |-> "none"]
Message == [lines : BoundedSeq(Lines, MaxLines), output : Outputs \cup {<<>>}, collapsed : BOOLEAN]

ScreenTypeOK ==
    /\ msgs \in Seq(Message) /\ Len(msgs) <= MaxMessages
    /\ height \in Heights
    /\ yOffset \in Nat
    /\ {atBottom, shrunk} \subseteq BOOLEAN
    /\ sel \in [anchor : Points, focus : Points, state : {"none", "drag", "done"}]

-----------------------------------------------------------------------------
(***************************************************************************)
(* The lines that are shown.                                               *)
(***************************************************************************)

(* A collapsed output is one line that says so. *)
Summary == <<1>>

RenderMessage(m) ==
    m.lines \o (IF m.output = <<>> THEN <<>> ELSE IF m.collapsed THEN <<Summary>> ELSE m.output)

AllLines == FlattenSeq([i \in DOMAIN msgs |-> RenderMessage(msgs[i])])

MaxScrollOffset(all, h) == Max({0, Len(all) - h})

(* The first line shown; scrolled past the end, Render fails. *)
WindowStart ==
    IF Len(AllLines) <= height THEN 0
    ELSE IF atBottom THEN Len(AllLines) - height ELSE yOffset

(* The view, which the renderer asks for after each message. *)
View == SubSeq(AllLines, WindowStart + 1, Min({WindowStart + height, Len(AllLines)}))

(* Resize, Append and the like end with the last lines in view, if they    *)
(* were before; View resizes the transcript each time.                     *)
Follow ==
    yOffset' = IF atBottom' THEN MaxScrollOffset(AllLines', height') ELSE yOffset

ScreenInit ==
    /\ msgs = <<>>
    /\ height \in Heights
    /\ yOffset = 0
    /\ atBottom = TRUE
    /\ sel = NoSelection
    /\ shrunk = FALSE

-----------------------------------------------------------------------------
(***************************************************************************)
(* Messages and keys that change the transcript.                           *)
(***************************************************************************)

AppendMessage ==
    /\ Len(msgs) < MaxMessages
    /\ \E line \in Lines :
           msgs' = Append(msgs, [lines |-> <<line>>, output |-> <<>>, collapsed |-> FALSE])
    /\ UNCHANGED <<height, atBottom, sel, shrunk>>
    /\ Follow

(* A chunk: the last message gets another line. *)
StreamChunk ==
    /\ msgs # <<>>
    /\ Last(msgs).output = <<>> /\ Len(Last(msgs).lines) < MaxLines
    /\ \E line \in Lines : msgs' = [msgs EXCEPT ![Len(msgs)].lines = Append(@, line)]
    /\ UNCHANGED <<height, atBottom, sel, shrunk>>
    /\ Follow

(* A tool's end: its entry gets the output, collapsed. *)
ToolEnd ==
    /\ \E i \in DOMAIN msgs :
           /\ msgs[i].output = <<>>
           /\ \E out \in Outputs : msgs' = [msgs EXCEPT ![i].output = out, ![i].collapsed = TRUE]
    /\ UNCHANGED <<height, atBottom, sel, shrunk>>
    /\ Follow

(* Ctrl-O turns the last output over.  What the transcript is scrolled to  *)
(* stays as it is.                                                         *)
ToggleFold ==
    /\ \E i \in DOMAIN msgs :
           /\ msgs[i].output # <<>>
           /\ \A j \in DOMAIN msgs : j > i => msgs[j].output = <<>>
           /\ msgs' = [msgs EXCEPT ![i].collapsed = ~@]
           /\ shrunk' = (shrunk \/ (~atBottom /\ ~msgs[i].collapsed))
    /\ UNCHANGED <<height, atBottom, sel>>
    /\ Follow

(* Variant: the transcript is emptied and its place kept. *)
ClearScreenInPlace ==
    /\ msgs' = <<>>
    /\ UNCHANGED <<height, yOffset, atBottom, sel, shrunk>>

(* Ctrl-L *)
ClearScreen ==
    /\ msgs' = <<>>
    /\ atBottom' = TRUE
    /\ yOffset' = 0
    /\ shrunk' = FALSE
    /\ UNCHANGED <<height, sel>>

ScrollUp ==
    /\ yOffset' \in {Max({0, yOffset - n}) : n \in {1, height}}
    /\ atBottom' = FALSE
    /\ UNCHANGED <<msgs, height, sel, shrunk>>

(* Down to the end, where the transcript follows again. *)
ScrollDown ==
    \E n \in {1, height} :
        LET max == MaxScrollOffset(AllLines, height)
        IN  /\ yOffset' = Min({yOffset + n, max})
            /\ atBottom' = (atBottom \/ yOffset + n >= max)
            /\ shrunk' = (shrunk /\ ~atBottom')
            /\ UNCHANGED <<msgs, height, sel>>

(* The lines below the transcript are more or fewer. *)
ResizeTranscript ==
    /\ height' \in Heights
    /\ UNCHANGED <<msgs, atBottom, sel, shrunk>>
    /\ Follow

(* WindowSizeMsg, which an edited prompt causes too. *)
WindowSize ==
    /\ height' \in Heights
    /\ sel' = NoSelection
    /\ UNCHANGED <<msgs, atBottom, shrunk>>
    /\ Follow

-----------------------------------------------------------------------------
(***************************************************************************)
(* The mouse.  Rows past the end are those of the last line.               *)
(***************************************************************************)

Clamped(p) == IF p.row < Len(View) THEN p ELSE [p EXCEPT !.row = Max({0, Len(View) - 1})]

MouseClick ==
    /\ \E p \in Points : sel' = [anchor |-> Clamped(p), focus |-> Clamped(p), state |-> "drag"]
    /\ UNCHANGED transcriptVars

MouseMotion ==
    /\ sel.state = "drag"
    /\ \E p \in Points : sel' = [sel EXCEPT !.focus = Clamped(p)]
    /\ UNCHANGED transcriptVars

MouseRelease ==
    /\ sel.state = "drag"
    /\ sel' = IF sel.anchor = sel.focus THEN NoSelection ELSE [sel EXCEPT !.state = "done"]
    /\ UNCHANGED transcriptVars

(* The right button, Ctrl-C and Escape.  None of them goes on to the agent. *)
CopyOrDrop ==
    /\ sel.state # "none"
    /\ sel' = NoSelection
    /\ UNCHANGED transcriptVars

Before(p, q) == p.row < q.row \/ (p.row = q.row /\ p.col <= q.col)

Bounds == IF Before(sel.anchor, sel.focus) THEN <<sel.anchor, sel.focus>> ELSE <<sel.focus, sel.anchor>>

WidthUpTo(line, i) == FoldSeq(LAMBDA w, acc : w + acc, 0, SubSeq(line, 1, i))

(* visualColToRuneIdx: how many runes lie before the column. *)
RunesBefore(line, col) ==
    Min({i \in 0 .. Len(line) - 1 : WidthUpTo(line, i) >= col} \cup {Len(line)})

(* applyInverseRange: the runes that begin in the columns from a to b. *)
InverseRange(line, a, b) ==
    {i \in DOMAIN line : a <= WidthUpTo(line, i - 1) /\ WidthUpTo(line, i - 1) <= b}

LastSelected(content, to) == Min({to.row, Len(content) - 1})

(* Variant: the last column is left out. *)
SelectedTextShort(content, from, to) ==
    LET last == LastSelected(content, to)
    IN  UNION {LET line == content[r + 1]
                   a == IF r = from.row THEN RunesBefore(line, from.col) ELSE 0
                   b == IF r = last THEN RunesBefore(line, to.col) ELSE Len(line)
               IN  {<<r, i>> : i \in a + 1 .. b}
               : r \in from.row .. last}

(* SelectedText: rows and runes of what is copied. *)
SelectedText(content, from, to) ==
    LET last == LastSelected(content, to)
    IN  UNION {LET line == content[r + 1]
                   a == IF r = from.row THEN RunesBefore(line, from.col) ELSE 0
                   b == IF r = last THEN RunesBefore(line, to.col + 1) ELSE Len(line)
               IN  {<<r, i>> : i \in a + 1 .. b}
               : r \in from.row .. last}

(* applySelectionToContent: rows and runes of what is highlighted.  Of a   *)
(* line that goes on in the next one, all columns are.                     *)
Highlighted(content, from, to) ==
    LET last == LastSelected(content, to)
    IN  UNION {LET line == content[r + 1]
                   a == IF r = from.row THEN from.col ELSE 0
                   b == IF r = last THEN to.col ELSE Max({a, WidthUpTo(line, Len(line)) - 1})
               IN  {<<r, i>> : i \in InverseRange(line, a, b)}
               : r \in from.row .. last}

ScreenNext ==
    \/ AppendMessage \/ StreamChunk \/ ToolEnd \/ ToggleFold \/ ClearScreen
    \/ ScrollUp \/ ScrollDown \/ ResizeTranscript \/ WindowSize
    \/ MouseClick \/ MouseMotion \/ MouseRelease \/ CopyOrDrop

ScreenSpec == ScreenInit /\ [][ScreenNext]_screenVars

-----------------------------------------------------------------------------

(* Unless an output was folded while the transcript was scrolled up, the    *)
(* window begins in the transcript, so that Render can cut it out; and what *)
(* follows the newest message shows it (transcript.go:139, 148).           *)
WindowInTranscript ==
    LET total == Len(AllLines)
    IN  /\ ~shrunk => WindowStart <= total
        /\ atBottom /\ total > 0 => WindowStart < total /\ WindowStart + height >= total

(* What is copied is what is highlighted, for narrow and wide runes, in one *)
(* line or several, dragged forwards or backwards, and when the transcript  *)
(* moved or got shorter under the selection (selection.go:219, 273).       *)
CopiedIsHighlighted ==
    sel.state # "none" /\ WindowStart < Len(AllLines) =>
        SelectedText(View, Bounds[1], Bounds[2]) = Highlighted(View, Bounds[1], Bounds[2])

=============================================================================
