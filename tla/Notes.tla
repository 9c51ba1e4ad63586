-------------------------------- MODULE Notes --------------------------------
(***************************************************************************)
(* What the program writes down: memory files and the entries loaded from  *)
(* them (internal/memory, the Memory tool), the session store              *)
(* (internal/session) and the Todo list (internal/tool/builtin/todo).      *)
(*                                                                         *)
(* The tools are used by agents that run at the same time; the Memory tool *)
(* looks at its file and then writes it, without a lock.  The session      *)
(* database is one file that several processes may have open; a turn is    *)
(* stored by the function main.go gives the terminal as OnSubmit, in four  *)
(* statements whose errors nobody looks at.  The terminal calls it only    *)
(* when it has no agent of its own.                                        *)
(*                                                                         *)
(* A memory's content is a number, 0 for no file; those of FrontMatter     *)
(* begin with a frontmatter.                                               *)
(***************************************************************************)
EXTENDS Naturals, Sequences, FiniteSets, SequencesExt

CONSTANTS
    Writers,        \* agents that use the tools
    Keys,           \* keys the models choose
    FileOf,         \* [Keys -> file]: sanitizeKey
    FrontMatter,    \* contents with a frontmatter
    Processes,      \* processes with the database open
    Submits,        \* goroutines of a process that end a turn
    KeptSessions,   \* session.max_sessions
    MaxNotes,       \* bound: memories written
    MaxOpened,      \* bound: sessions created
    MaxStored,      \* bound: turns stored
    MaxTodos        \* bound: items added

ASSUME NotesAssumption ==
    /\ FileOf \in [Keys -> Range(FileOf)] /\ KeptSessions \in Nat \ {0}
    /\ {MaxNotes, MaxOpened, MaxStored, MaxTodos} \subseteq Nat

VARIABLES
    memories,   \* the files: file -> content
    memoryUse,  \* what each agent's Memory tool has looked up and not yet done
    noted,      \* contents written so far
    recalled,   \* FileProvider.entries
    openedBy,   \* the process of each session ever created, in order
    stored,     \* the rows of the table sessions
    msgCount,   \* msg_count of each session
    rows,       \* the table messages: <<session, role>>
    storing,    \* the next statement of each turn that is being stored
    turns,      \* turns stored so far
    missed,     \* history: sessions of messages whose count was not updated
    todos,      \* store of the Todo tool
    nextID      \* its counter

memoryVars == <<memories, memoryUse, noted, recalled>>
sessionVars == <<openedBy, stored, msgCount, rows, storing, turns, missed>>
todoVars == <<todos, nextID>>
notesVars == <<memoryVars, sessionVars, todoVars>>

Files == Range(FileOf)
Sessions == 1..MaxOpened
NoUse == [action |-> "none"]

-----------------------------------------------------------------------------
(* The Memory tool *)

(* add is refused when the file exists, replace and remove when it does not. *)
StatMemory(w, action, k) ==
    /\ memoryUse[w] = NoUse
    /\ action = "add" <=> memories[FileOf[k]] = 0
    /\ memoryUse' = [memoryUse EXCEPT ![w] = [action |-> action, file |-> FileOf[k]]]
    /\ UNCHANGED <<memories, noted, recalled, sessionVars, todoVars>>

(* add and replace end alike. *)
WriteMemory(w) ==
    /\ memoryUse[w].action \in {"add", "replace"} /\ noted < MaxNotes
    /\ noted' = noted + 1
    /\ memories' = [memories EXCEPT ![memoryUse[w].file] = noted']
    /\ memoryUse' = [memoryUse EXCEPT ![w] = NoUse]
    /\ UNCHANGED <<recalled, sessionVars, todoVars>>

RemoveMemory(w) ==
    /\ memoryUse[w].action = "remove"
    /\ memories' = [memories EXCEPT ![memoryUse[w].file] = 0]
    /\ memoryUse' = [memoryUse EXCEPT ![w] = NoUse]
    /\ UNCHANGED <<noted, recalled, sessionVars, todoVars>>

(* /memory clear: the files, not the entries. *)
ClearMemories ==
    /\ memories' = [f \in Files |-> 0]
    /\ UNCHANGED <<memoryUse, noted, recalled, sessionVars, todoVars>>

(* parseEntry: without a frontmatter an entry has a title and no content. *)
ParseEntry(f) == [file |-> f, content |-> IF memories[f] \in FrontMatter
                                          THEN memories[f] ELSE 0]

(* Initialize, once, at the start of the program. *)
LoadEntries ==
    /\ recalled' = {ParseEntry(f) : f \in {g \in Files : memories[g] # 0}}
    /\ UNCHANGED <<memories, memoryUse, noted, sessionVars, todoVars>>

-----------------------------------------------------------------------------
(* The session store *)

SessionOf(p) == CHOOSE s \in DOMAIN openedBy :
    openedBy[s] = p /\ \A t \in DOMAIN openedBy : openedBy[t] = p => t <= s

HasSession(p) == p \in Range(openedBy)

(* The rows left by the pruning: the newest ones. *)
Newest(set) == {s \in set : Cardinality({t \in set : t > s}) < KeptSessions}

(* CreateSession: the row, then the pruning, whose error is ignored.  The
   messages of a pruned session stay: SQLite does not look at foreign keys
   unless it is told to. *)
CreateSession(p) ==
    /\ Len(openedBy) < MaxOpened /\ ~HasSession(p)
    /\ openedBy' = Append(openedBy, p)
    /\ LET all == stored \cup {Len(openedBy')} IN stored' \in {all, Newest(all)}
    /\ UNCHANGED <<msgCount, rows, storing, turns, missed, memoryVars, todoVars>>

(* The end of OnSubmit: two calls of AddMessage, of two statements each. *)
EndTurn(p, g) ==
    /\ HasSession(p) /\ storing[<<p, g>>] = "none" /\ turns < MaxStored
    /\ turns' = turns + 1
    /\ storing' = [storing EXCEPT ![<<p, g>>] = "user"]
    /\ UNCHANGED <<openedBy, stored, msgCount, rows, missed, memoryVars, todoVars>>

Inserts == {"user", "assistant"}

(* What follows a statement; an insert that fails skips its count. *)
After(at, ok) ==
    CASE at = "user" -> IF ok THEN "userCount" ELSE "assistant"
      [] at = "userCount" -> "assistant"
      [] at = "assistant" -> IF ok THEN "assistantCount" ELSE "none"
      [] OTHER -> "none"

InsertMessage(p, g) ==
    /\ storing[<<p, g>>] \in Inserts
    /\ \E ok \in BOOLEAN :
          /\ rows' = IF ok THEN Append(rows, <<SessionOf(p), storing[<<p, g>>]>>) ELSE rows
          /\ storing' = [storing EXCEPT ![<<p, g>>] = After(storing[<<p, g>>], ok)]
    /\ UNCHANGED <<openedBy, stored, msgCount, turns, missed, memoryVars, todoVars>>

(* A count without its WHERE. *)
CountedAll(p) == [s \in Sessions |-> msgCount[s] + 1]

(* UPDATE ... SET msg_count = msg_count + 1 WHERE id = session. *)
Counted(p) ==
    [s \in Sessions |-> IF s = SessionOf(p) /\ s \in stored THEN msgCount[s] + 1
                        ELSE msgCount[s]]

CountMessage(p, g) ==
    /\ storing[<<p, g>>] \in {"userCount", "assistantCount"}
    /\ \/ msgCount' = Counted(p) /\ UNCHANGED missed
       \/ missed' = Append(missed, SessionOf(p)) /\ UNCHANGED msgCount
    /\ storing' = [storing EXCEPT ![<<p, g>>] = After(@, TRUE)]
    /\ UNCHANGED <<openedBy, stored, rows, turns, memoryVars, todoVars>>

-----------------------------------------------------------------------------
(* The Todo tool; each operation holds storeMu. *)

DoAdd ==
    /\ nextID < MaxTodos
    /\ nextID' = nextID + 1
    /\ todos' = Append(todos, [id |-> nextID', status |-> "pending"])
    /\ UNCHANGED <<memoryVars, sessionVars>>

DoUpdate(i, status) ==
    /\ todos' = [todos EXCEPT ![i].status = status]
    /\ UNCHANGED <<nextID, memoryVars, sessionVars>>

DoRemove(i) ==
    /\ todos' = RemoveAt(todos, i)
    /\ UNCHANGED <<nextID, memoryVars, sessionVars>>

-----------------------------------------------------------------------------
NotesInit ==
    /\ memories = [f \in Files |-> 0] /\ memoryUse = [w \in Writers |-> NoUse]
    /\ noted = 0 /\ recalled = {}
    /\ openedBy = <<>> /\ stored = {} /\ msgCount = [s \in Sessions |-> 0] /\ rows = <<>>
    /\ storing = [t \in Processes \X Submits |-> "none"] /\ turns = 0 /\ missed = <<>>
    /\ todos = <<>> /\ nextID = 0

MemoryNext ==
    \/ \E w \in Writers, k \in Keys, action \in {"add", "replace", "remove"} :
          StatMemory(w, action, k)
    \/ \E w \in Writers : WriteMemory(w) \/ RemoveMemory(w)
    \/ ClearMemories \/ LoadEntries

StoreNext ==
    \/ \E p \in Processes : CreateSession(p)
    \/ \E p \in Processes, g \in Submits :
          EndTurn(p, g) \/ InsertMessage(p, g) \/ CountMessage(p, g)

TodoNext ==
    \/ DoAdd
    \/ \E i \in DOMAIN todos : DoRemove(i)
    \/ \E i \in DOMAIN todos, status \in {"pending", "in_progress", "completed", "cancelled"} :
          DoUpdate(i, status)

NotesNext == MemoryNext \/ StoreNext \/ TodoNext
NotesSpec == NotesInit /\ [][NotesNext]_notesVars

-----------------------------------------------------------------------------
(* Types of the variables; the items of the list are in the order of their ids. *)
NotesTypeOK ==
    /\ memories \in [Files -> 0..MaxNotes] /\ noted \in 0..MaxNotes
    /\ recalled \subseteq [file : Files, content : 0..MaxNotes]
    /\ stored \subseteq DOMAIN openedBy
    /\ \A i \in DOMAIN rows : rows[i] \in Sessions \X Inserts
    /\ turns \in 0..MaxStored /\ nextID \in 0..MaxTodos
    /\ \A i \in DOMAIN todos : todos[i].id \in 1..nextID
    /\ \A i, j \in DOMAIN todos : i < j => todos[i].id < todos[j].id

(* AddMessage (store.go:107): however the turns of one process and the sessions of
   several overlap, the counter of a stored session is the number of its messages,
   but for those whose count is still to come or was refused. *)
CountsMessages ==
    \A s \in stored :
        msgCount[s]
        + Cardinality({t \in Processes \X Submits :
                          /\ storing[t] \in {"userCount", "assistantCount"}
                          /\ SessionOf(t[1]) = s})
        + Cardinality({i \in DOMAIN missed : missed[i] = s})
        = Cardinality({i \in DOMAIN rows : rows[i][1] = s})

=============================================================================
