-------------------------------- MODULE Editor --------------------------------
(***************************************************************************)
(* What the keys that reach the composer do (internal/tui): the text and   *)
(* its cursor (composer.go), the prompts of before (history.go), the list  *)
(* of completions and the mode in which the path of an attachment is typed *)
(* (app.go).  Of a line only its length is kept, of a text only the lengths *)
(* of its lines; whether a text has completions is left open.  Rows and    *)
(* columns count from 0, as in the code.                                   *)
(*                                                                         *)
(* The approval dialog is left out: nothing sets a.approval.  Keys that    *)
(* scroll, interrupt or quit are in Terminal and Screen.                   *)
(***************************************************************************)
EXTENDS Integers, Sequences, FiniteSets, SequencesExt

CONSTANTS
    ComposerLines,  \* maxComposerLines
    CompLines,      \* maxVisible, of the completions
    HistoryMax,     \* entries the history keeps
    MaxRows,        \* bound: lines of the text
    MaxCols,        \* bound: runes of a line
    ItemCounts      \* bound: how many completions a text may have

ASSUME EditorAssumption ==
    {ComposerLines, CompLines, HistoryMax, MaxRows, MaxCols} \cup ItemCounts \subseteq Nat \ {0}

VARIABLES
    composer,       \* lines, and the row and the column of the cursor
    attachments,    \* how many files are attached
    comp,           \* completions: how many, which one, whether they are shown
    attaching,      \* the path of an attachment is being typed
    entries,        \* entries of the history
    histIdx         \* the entry shown, or -1

editorVars == <<composer, attachments, comp, attaching, entries, histIdx>>

Texts == UNION {[1 .. n -> 0 .. MaxCols] : n \in 1 .. MaxRows}
NoText == <<0>>
SlashTexts == {t \in Texts : t[1] > 0}
NoComp == [items |-> 0, idx |-> 0, active |-> FALSE]

EditorTypeOK ==
    /\ composer.lines \in Texts
    /\ composer.row \in 0 .. MaxRows - 1
    /\ composer.col \in 0 .. MaxCols
    /\ attachments \in 0 .. 1
    /\ comp \in [items : ItemCounts \cup {0}, idx : Nat, active : BOOLEAN]
    /\ attaching \in BOOLEAN
    /\ entries \in 0 .. HistoryMax
    /\ histIdx \in -1 .. HistoryMax - 1

EditorInit ==
    /\ composer = [lines |-> NoText, row |-> 0, col |-> 0]
    /\ attachments = 0
    /\ comp = NoComp
    /\ attaching = FALSE
    /\ entries \in 0 .. HistoryMax
    /\ histIdx = -1

-----------------------------------------------------------------------------
(***************************************************************************)
(* The composer.                                                           *)
(***************************************************************************)

Cleared == [lines |-> NoText, row |-> 0, col |-> 0]
LineLength(c, row) == c.lines[row + 1]
LastRow(c) == Len(c.lines) - 1
AtCursor(c) == LineLength(c, c.row)

SetInput(text) == [lines |-> text, row |-> Len(text) - 1, col |-> Last(text)]

InsertRune(c) == [c EXCEPT !.lines[c.row + 1] = @ + 1, !.col = @ + 1]

(* The lines of text come between what is left and right of the cursor.    *)
InsertLines(c, text) ==
    LET after == AtCursor(c) - c.col
        first == c.col + Head(text)
    IN  [lines |-> SubSeq(c.lines, 1, c.row)
                   \o (IF Len(text) = 1 THEN <<first + after>>
                       ELSE <<first>> \o SubSeq(text, 2, Len(text) - 1) \o <<Last(text) + after>>)
                   \o SubSeq(c.lines, c.row + 2, Len(c.lines)),
         row |-> c.row + Len(text) - 1,
         col |-> IF Len(text) = 1 THEN first ELSE Last(text)]

InsertNewLine(c) == InsertLines(c, <<0, 0>>)

(* The line of row r + 1 joins that of row r. *)
Join(lines, r) ==
    SubSeq(lines, 1, r) \o <<lines[r + 1] + lines[r + 2]>> \o SubSeq(lines, r + 3, Len(lines))

Backspace(c) ==
    IF c.col > 0 THEN [c EXCEPT !.lines[c.row + 1] = @ - 1, !.col = @ - 1]
    ELSE IF c.row > 0
    THEN [lines |-> Join(c.lines, c.row - 1), row |-> c.row - 1, col |-> LineLength(c, c.row - 1)]
    ELSE c

Delete(c) ==
    IF c.col < AtCursor(c) THEN [c EXCEPT !.lines[c.row + 1] = @ - 1]
    ELSE IF c.row < LastRow(c) THEN [c EXCEPT !.lines = Join(c.lines, c.row)]
    ELSE c

MoveLeft(c) ==
    IF c.col > 0 THEN [c EXCEPT !.col = @ - 1]
    ELSE IF c.row > 0 THEN [c EXCEPT !.row = @ - 1, !.col = LineLength(c, c.row - 1)]
    ELSE c

MoveRight(c) ==
    IF c.col < AtCursor(c) THEN [c EXCEPT !.col = @ + 1]
    ELSE IF c.row < LastRow(c) THEN [c EXCEPT !.row = @ + 1, !.col = 0]
    ELSE c

Least(a, b) == IF a < b THEN a ELSE b

MoveToRow(c, row) == [c EXCEPT !.row = row, !.col = Least(@, LineLength(c, row))]

(* Variant: the last lines are asked for one row too late. *)
VisibleStartLate(c, max) ==
    LET total == Len(c.lines)
    IN  IF total <= max \/ c.row < max \div 2 THEN 0
        ELSE IF c.row > total - max \div 2 THEN total - max
        ELSE c.row - max \div 2

(* The first line shown of at most max. *)
VisibleStart(c, max) ==
    LET total == Len(c.lines)
    IN  IF total <= max \/ c.row < max \div 2 THEN 0
        ELSE IF c.row >= total - max \div 2 THEN total - max
        ELSE c.row - max \div 2

-----------------------------------------------------------------------------
(***************************************************************************)
(* Keys (handleKey, handleAttachKey).                                      *)
(***************************************************************************)

Fits(c) == c.lines \in Texts

Unattached == ~attaching /\ UNCHANGED attaching

(* After an edit: one line that starts with "/" may have completions; the  *)
(* one chosen stays chosen while there are so many.                        *)
UpdateCompletions(c) ==
    \/ comp' = NoComp
    \/ /\ Len(c.lines) = 1 /\ c.lines # NoText
       /\ \E n \in ItemCounts :
              comp' = [items |-> n, active |-> TRUE, idx |-> IF comp.idx >= n THEN 0 ELSE comp.idx]

EditKey ==
    /\ Unattached
    /\ composer' \in {InsertRune(composer), Backspace(composer), Delete(composer)}
    /\ Fits(composer')
    /\ UpdateCompletions(composer')
    /\ UNCHANGED <<attachments, entries, histIdx>>

(* A letter with Ctrl that has no other meaning is typed as it is; the     *)
(* completions stay.                                                       *)
ControlKey ==
    /\ Unattached
    /\ composer' = InsertRune(composer)
    /\ Fits(composer')
    /\ UNCHANGED <<attachments, comp, entries, histIdx>>

(* Ctrl-Enter or Ctrl-J, in either mode; the completions stay. *)
NewLineKey ==
    /\ composer' = InsertNewLine(composer)
    /\ Fits(composer')
    /\ UNCHANGED <<attachments, comp, attaching, entries, histIdx>>

(* InsertText strips the newlines a text ends with, unless it has nothing   *)
(* else.                                                                   *)
Pasted == {t \in Texts : Len(t) <= 3 /\ (Last(t) > 0 \/ t = [i \in DOMAIN t |-> 0])}

PasteText ==
    /\ \E text \in Pasted : composer' = InsertLines(composer, text)
    /\ Fits(composer')
    /\ UNCHANGED <<attachments, comp, attaching, entries, histIdx>>

MoveKey ==
    /\ Unattached
    /\ composer' \in {MoveLeft(composer), MoveRight(composer), [composer EXCEPT !.col = 0],
                      [composer EXCEPT !.col = AtCursor(composer)]}
    /\ UNCHANGED <<attachments, comp, entries, histIdx>>

CompletionKey ==
    /\ Unattached
    /\ comp.active
    /\ \E step \in {1, -1} : comp' = [comp EXCEPT !.idx = (@ + step) % comp.items]
    /\ UNCHANGED <<composer, attachments, entries, histIdx>>

(* The composer takes an entry of the history, or what is there if it has none. *)
ShowEntry(found, atStart, none) ==
    IF found
    THEN \E text \in {t \in Texts \ {NoText} : Len(t) <= 2} :
             composer' = IF atStart THEN [SetInput(text) EXCEPT !.row = 0, !.col = 0] ELSE SetInput(text)
    ELSE composer' = none

(* Older and Newer: the index of the entry shown.  The oldest is shown once; past
   the newest comes the draft, which is never anything but empty. *)
Older == IF entries = 0 THEN -1
         ELSE IF histIdx = -1 THEN entries - 1
         ELSE IF histIdx > 0 THEN histIdx - 1 ELSE histIdx

Newer == IF histIdx = -1 \/ histIdx + 1 >= entries THEN -1 ELSE histIdx + 1

(* Add: the newest HistoryMax entries, none of them twice in a row; an entry that
   is there already leaves the index where it was. *)
AddEntry ==
    \/ entries' = Least(entries + 1, HistoryMax) /\ histIdx' = -1
    \/ entries > 0 /\ UNCHANGED <<entries, histIdx>>

(* Up to the row above, else to the start of the line, else Older. *)
UpKey ==
    /\ Unattached /\ ~comp.active
    /\ IF composer.row > 0
       THEN composer' = MoveToRow(composer, composer.row - 1) /\ UNCHANGED histIdx
       ELSE IF composer.col > 0
       THEN composer' = [composer EXCEPT !.col = 0] /\ UNCHANGED histIdx
       ELSE /\ histIdx' = Older
            /\ ShowEntry(histIdx' # histIdx, TRUE, composer)
    /\ UNCHANGED <<attachments, comp, entries>>

(* Down to the row below, else to the end of the line, else Newer. *)
DownKey ==
    /\ Unattached /\ ~comp.active
    /\ IF composer.row < LastRow(composer)
       THEN composer' = MoveToRow(composer, composer.row + 1) /\ UNCHANGED <<histIdx, attachments>>
       ELSE IF composer.col < AtCursor(composer)
       THEN composer' = [composer EXCEPT !.col = AtCursor(composer)] /\ UNCHANGED <<histIdx, attachments>>
       ELSE /\ histIdx' = Newer
            /\ ShowEntry(histIdx' # -1, FALSE, Cleared)
            /\ attachments' = IF histIdx' = -1 THEN 0 ELSE attachments
    /\ UNCHANGED <<comp, entries>>

TabKey ==
    /\ Unattached
    /\ comp.active
    /\ \E n \in 1 .. MaxCols : composer' = SetInput(<<n>>)
    /\ comp' = NoComp
    /\ UNCHANGED <<attachments, entries, histIdx>>

EscapeKey ==
    /\ Unattached
    /\ comp' = IF comp.active THEN NoComp ELSE comp
    /\ IF comp.active THEN UNCHANGED <<composer, attachments>> ELSE composer' = Cleared /\ attachments' = 0
    /\ UNCHANGED <<entries, histIdx>>

(* Ctrl-C on a terminal that is not busy; the completions stay. *)
ClearKey ==
    /\ composer.lines # NoText
    /\ composer' = Cleared
    /\ attachments' = 0
    /\ UNCHANGED <<comp, attaching, entries, histIdx>>

(* While a run is busy a slash command goes to the queue; the choice among *)
(* the completions is not reset.                                           *)
EnterQueues ==
    /\ Unattached
    /\ composer.lines \in SlashTexts
    /\ composer' = Cleared
    /\ attachments' = 0
    /\ comp' = [comp EXCEPT !.items = 0, !.active = FALSE]
    /\ UNCHANGED <<entries, histIdx>>

(* submitInput: a prompt goes to the history, a command does not. *)
EnterSubmits ==
    /\ Unattached
    /\ composer.lines # NoText
    /\ composer' = Cleared
    /\ attachments' = 0
    /\ comp' = NoComp
    /\ \/ AddEntry
       \/ composer.lines \in SlashTexts /\ UNCHANGED <<entries, histIdx>>

AttachKey ==
    /\ ~attaching
    /\ attaching' = TRUE
    /\ UNCHANGED <<composer, attachments, comp, entries, histIdx>>

(* handleAttachKey: the path is typed, until Enter attaches it or Escape, or
   Backspace before its first rune, gives it up. *)
PathKey ==
    /\ attaching
    /\ \/ UNCHANGED <<attaching, attachments>>
       \/ attaching' = FALSE /\ attachments' \in {attachments, 1}
    /\ UNCHANGED <<composer, comp, entries, histIdx>>

EditorNext ==
    \/ EditKey \/ ControlKey \/ NewLineKey \/ PasteText \/ MoveKey
    \/ CompletionKey \/ UpKey \/ DownKey \/ TabKey \/ EscapeKey \/ ClearKey
    \/ EnterQueues \/ EnterSubmits
    \/ AttachKey \/ PathKey

EditorSpec == EditorInit /\ [][EditorNext]_editorVars

-----------------------------------------------------------------------------
(***************************************************************************)
(* The rows of the screen below the transcript.  A row of the composer is  *)
(* the number of the line it shows; Other is any other row.                *)
(***************************************************************************)

Other == -1
Rows(n) == [i \in 1 .. n |-> Other]
If(b) == IF b THEN 1 ELSE 0

(* renderCompletions: those shown, the chosen one in the middle; where they all
   fit, too. *)
CompShown ==
    LET middle == comp.idx - CompLines \div 2
        start == IF middle < 0 THEN 0
                 ELSE IF comp.items > CompLines THEN Least(middle, comp.items - CompLines)
                 ELSE middle
    IN  start .. Least(start + CompLines, comp.items) - 1

CompRows == IF comp.active THEN Cardinality(CompShown) ELSE 0

(* renderComposer: the window, rows that say how much is above and below, and the
   attachments, which an empty text does not show. *)
RenderComposer ==
    LET start == VisibleStart(composer, ComposerLines)
        end == Least(start + ComposerLines, Len(composer.lines))
    IN  IF composer.lines = NoText THEN <<0>>
        ELSE Rows(If(start > 0)) \o [i \in 1 .. end - start |-> start + i - 1]
             \o Rows(If(end < Len(composer.lines)) + attachments)

(* View: "agent busy", the divider, the queue, the completions, the composer. *)
RowsBelow(busy, queued) ==
    Rows(If(busy) + 1 + If(busy /\ queued) + CompRows) \o RenderComposer

(* computeCursorPos, and View, which adds the row of "agent busy" to it; the rows
   are counted anew. *)
CursorRow(busy, queued) ==
    LET start == VisibleStart(composer, ComposerLines)
        first == 1 + If(busy /\ queued) + CompRows
        row == IF composer.row >= start THEN composer.row - start ELSE 0
    IN  If(busy) + first
        + IF composer.lines = NoText THEN 0
          ELSE If(start > 0) + (IF row < ComposerLines THEN row ELSE 0)

-----------------------------------------------------------------------------

(* After any edits the cursor is in the text; it is drawn in the row that shows
   its line, although drawing the rows and finding the row are two computations
   (app.go:513, 907); the lines shown are as many as can be (composer.go:191); and
   the chosen completion is among those shown (app.go:857). *)
CursorShown ==
    LET start == VisibleStart(composer, ComposerLines)
        total == Len(composer.lines)
    IN  /\ composer.row <= LastRow(composer) /\ composer.col <= AtCursor(composer)
        /\ \A busy, queued \in BOOLEAN :
              RowsBelow(busy, queued)[CursorRow(busy, queued) + 1] = composer.row
        /\ total > ComposerLines => start + ComposerLines <= total
        /\ comp.active => comp.idx \in CompShown

=============================================================================
