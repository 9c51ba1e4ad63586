----------------------------- MODULE Workspace -----------------------------
(***************************************************************************)
(* The file tools of several agents on one file of one project             *)
(* (internal/tool/builtin/file and shell) and the checkpoint manager that  *)
(* snapshots the project before it is changed (internal/checkpoint).       *)
(*                                                                         *)
(* The checkpoint manager and the read tracker are one for the whole       *)
(* process; each tool call is a goroutine of its own.  Of a modification   *)
(* time matters only whether it is another's: a change may give the file   *)
(* any of them, the one it has as well (two changes in one tick of the     *)
(* file system's clock) and an earlier one (cp -p or touch in a shell).    *)
(* Each git command may fail; the tools ignore that.                       *)
(***************************************************************************)
EXTENDS Naturals, Sequences

CONSTANTS
    Agents,         \* agents that use the tools
    MaxSnapshots,   \* checkpoint.max_snapshots
    MaxConsec,      \* maxConsecutiveReads (4)
    Contents, Empty,    \* what the file may hold, and the empty file
    Times, FirstTime,   \* modification times, and the first one
    NoTime,         \* no entry of the read tracker
    MaxChanges,     \* bound: changes of the file
    MaxUses,        \* bound: uses of the tools
    MaxTurns        \* bound: calls of NewTurn

ASSUME WorkspaceAssumption ==
    /\ MaxSnapshots \in Nat \ {0} /\ MaxConsec \in Nat \ {0}
    /\ {MaxChanges, MaxUses, MaxTurns} \subseteq Nat
    /\ Empty \in Contents
    /\ FirstTime \in Times /\ NoTime \notin Times

VARIABLES
    content,        \* what the file holds
    mtime,          \* its modification time
    stamped,        \* history: how often the file was given each time
    changes,        \* changes so far
    uses,           \* uses so far
    marked,         \* checkpointed[projectRoot]
    turn,           \* calls of NewTurn so far
    staged,         \* the content in the shadow repository's index
    commits,        \* the contents of the shadow repository's commits
    taken,          \* history: there has been a commit since the turn began
    failed,         \* history: git failed to make one since the turn began
    pc,             \* per agent, what its tool does next
    tool,           \* per agent, the tool: "write", "patch", "bash", "read"
    since,          \* per agent, the contents the file had since its Stat (a read that waits)
    statTime,       \* per agent, the modification time it saw
    got,            \* per agent, the content it read
    entryTime,      \* tracker.mtimes of the file's entry
    seen,           \* history: the content of the read that was recorded last
    consec          \* tracker.consecCount of the file, 0 when another was read last

fileVars == <<content, mtime, stamped, changes>>
gitVars == <<marked, turn, staged, commits, taken, failed>>
trackerVars == <<entryTime, seen, consec>>
agentVars == <<pc, tool, since, statTime, got>>
workspaceVars == <<fileVars, gitVars, trackerVars, agentVars, uses>>

Goto(a, step) == pc' = [pc EXCEPT ![a] = step]

(* The file gets the content c, and a time. *)
ChangeFile(c) ==
    \E t \in Times :
        /\ content' = c /\ mtime' = t
        /\ stamped' = [stamped EXCEPT ![t] = @ + 1]
        /\ since' = [b \in Agents |-> IF since[b] = {} THEN {} ELSE since[b] \cup {c}]

OneMoreChange == changes < MaxChanges /\ changes' = changes + 1

-----------------------------------------------------------------------------
(* Execute of a tool begins. *)
UseTool(a, t) ==
    /\ pc[a] = "idle" /\ uses < MaxUses
    /\ uses' = uses + 1
    /\ tool' = [tool EXCEPT ![a] = t]
    /\ Goto(a, IF t = "read" THEN "stat" ELSE "ensure")
    /\ UNCHANGED <<fileVars, gitVars, trackerVars, since, statTime, got>>

(* m.checkpointed[projectRoot] = true, under the lock and before git runs. *)
Mark == marked' = TRUE

(* EnsureCheckpoint: somebody has marked the project in this turn, or this agent
   does.  A shell command that is not destructive asks for none. *)
EnsureCheckpoint(a) ==
    /\ pc[a] = "ensure"
    /\ \/ /\ marked \/ tool[a] = "bash"
          /\ Goto(a, "edit")
          /\ UNCHANGED marked
       \/ /\ ~marked
          /\ Mark
          /\ Goto(a, "stage")
    /\ UNCHANGED <<fileVars, turn, staged, commits, taken, failed, trackerVars, tool, since,
                   statTime, got, uses>>

(* init and add -A: without a repository the checkpoint is given up; a failed add
   is passed over. *)
Stage(a) ==
    /\ pc[a] = "stage"
    /\ \/ Goto(a, "commit") /\ staged' \in {staged, content} /\ UNCHANGED failed
       \/ Goto(a, "edit") /\ commits = <<>> /\ failed' = TRUE /\ UNCHANGED staged
    /\ UNCHANGED <<fileVars, marked, turn, commits, taken, trackerVars, tool, since,
                   statTime, got, uses>>

(* commit --allow-empty *)
Commit(a) ==
    /\ pc[a] = "commit"
    /\ \/ /\ commits' = Append(commits, staged)
          /\ taken' = TRUE
          /\ Goto(a, "prune") /\ UNCHANGED failed
       \/ Goto(a, "edit") /\ failed' = TRUE /\ UNCHANGED <<commits, taken>>
    /\ UNCHANGED <<fileVars, marked, turn, staged, trackerVars, tool, since,
                   statTime, got, uses>>

(* pruneOldest: too many commits become one without a parent, of the index. *)
Prune(a) ==
    /\ pc[a] = "prune"
    /\ commits' \in {commits} \cup
                    (IF Len(commits) > MaxSnapshots THEN {<<staged>>} ELSE {})
    /\ Goto(a, "edit")
    /\ UNCHANGED <<fileVars, marked, turn, staged, taken, failed, trackerVars, tool, since,
                   statTime, got, uses>>

(* os.WriteFile truncates the file and then writes it. *)
Truncate(a) == OneMoreChange /\ ChangeFile(Empty) /\ Goto(a, "fill")

(* The change itself: a write, a shell command that changes the file, its time or
   nothing, or a patch, which reads first and gives up on a file it cannot patch. *)
Edit(a) ==
    /\ pc[a] = "edit"
    /\ \/ tool[a] = "write" /\ Truncate(a) /\ UNCHANGED got
       \/ /\ tool[a] = "bash"
          /\ OneMoreChange
          /\ \E c \in Contents : ChangeFile(c)
          /\ Goto(a, "idle") /\ UNCHANGED got
       \/ Goto(a, "idle") /\ UNCHANGED <<fileVars, since, got>>
       \/ /\ tool[a] = "patch"
          /\ got' = [got EXCEPT ![a] = content]
          /\ Goto(a, "patch") /\ UNCHANGED <<fileVars, since>>
    /\ UNCHANGED <<gitVars, trackerVars, tool, statTime, uses>>

(* A patch writes what it read with the replacement, whatever the file holds. *)
WritePatch(a) ==
    /\ pc[a] = "patch"
    /\ \/ Truncate(a)
       \/ Goto(a, "idle") /\ UNCHANGED <<fileVars, since>>
    /\ UNCHANGED <<gitVars, trackerVars, tool, statTime, got, uses>>

(* The second half of os.WriteFile, which may fail. *)
Fill(a) ==
    /\ pc[a] = "fill"
    /\ \/ (\E c \in Contents : ChangeFile(c)) /\ UNCHANGED changes
       \/ UNCHANGED <<fileVars, since>>
    /\ Goto(a, "idle")
    /\ UNCHANGED <<gitVars, trackerVars, tool, statTime, got, uses>>

(* A turn that leaves the marks of the last one. *)
NewTurnForgets ==
    /\ turn < MaxTurns
    /\ turn' = turn + 1 /\ taken' = FALSE /\ failed' = FALSE
    /\ UNCHANGED <<fileVars, marked, staged, commits, trackerVars, agentVars, uses>>

(* NewTurn and Restore are not called by the program, so far; tests do. *)
NewTurn ==
    /\ turn < MaxTurns
    /\ turn' = turn + 1 /\ marked' = FALSE /\ taken' = FALSE /\ failed' = FALSE
    /\ UNCHANGED <<fileVars, staged, commits, trackerVars, agentVars, uses>>

(* checkout commit -- . sets the index as well. *)
Restore ==
    /\ OneMoreChange
    /\ \E i \in DOMAIN commits : ChangeFile(commits[i]) /\ staged' = commits[i]
    /\ UNCHANGED <<marked, turn, commits, taken, failed, trackerVars, pc, tool, statTime,
                   got, uses>>

-----------------------------------------------------------------------------
(* ReadFile: Stat, then the tracker, then the file, then the tracker again *)

Stat(a) ==
    /\ pc[a] = "stat"
    /\ statTime' = [statTime EXCEPT ![a] = mtime]
    /\ since' = [since EXCEPT ![a] = {content}]
    /\ Goto(a, "check")
    /\ UNCHANGED <<fileVars, gitVars, entryTime, seen, consec, tool, got, uses>>

(* check: the fourth read in a row is blocked; a known time means unchanged. *)
Verdict(a) ==
    IF consec + 1 >= MaxConsec THEN "blocked"
    ELSE IF entryTime = statTime[a] THEN "unchanged" ELSE "new"

CheckTracker(a) ==
    /\ pc[a] = "check"
    /\ consec' = IF consec < MaxConsec THEN consec + 1 ELSE consec
    /\ since' = [since EXCEPT ![a] = {}]
    /\ Goto(a, IF Verdict(a) = "new" THEN "load" ELSE "idle")
    /\ UNCHANGED <<fileVars, gitVars, entryTime, seen, tool, statTime, got, uses>>

Load(a) ==
    /\ pc[a] = "load"
    /\ \/ got' = [got EXCEPT ![a] = content] /\ Goto(a, "record")
       \/ Goto(a, "idle") /\ UNCHANGED got
    /\ UNCHANGED <<fileVars, gitVars, trackerVars, tool, since, statTime, uses>>

(* A tracker that asks for the time of the file once it has been read. *)
RecordedTimeLate(a) == mtime

(* tracker.record(entry, mtime): the time that Stat returned before the read. *)
RecordedTime(a) == statTime[a]

Record(a) ==
    /\ pc[a] = "record"
    /\ entryTime' = RecordedTime(a) /\ seen' = got[a]
    /\ Goto(a, "idle")
    /\ UNCHANGED <<fileVars, gitVars, consec, tool, since, statTime, got, uses>>

(* Reads of other files: the count starts over; many of them evict the entry. *)
ReadOthers ==
    /\ consec > 0
    /\ consec' = 0
    /\ entryTime' \in {entryTime, NoTime}
    /\ UNCHANGED <<fileVars, gitVars, seen, agentVars, uses>>

-----------------------------------------------------------------------------
WorkspaceInit ==
    /\ content \in Contents \ {Empty} /\ mtime = FirstTime
    /\ stamped = [t \in Times |-> IF t = FirstTime THEN 1 ELSE 0]
    /\ changes = 0 /\ uses = 0
    /\ marked = FALSE /\ turn = 0 /\ staged = Empty /\ commits = <<>>
    /\ taken = FALSE /\ failed = FALSE
    /\ pc = [a \in Agents |-> "idle"] /\ tool = [a \in Agents |-> "read"]
    /\ since = [a \in Agents |-> {}] /\ statTime = [a \in Agents |-> FirstTime]
    /\ got = [a \in Agents |-> Empty]
    /\ entryTime = NoTime /\ seen = Empty /\ consec = 0

WorkspaceNext ==
    \/ \E a \in Agents :
          \/ \E t \in {"write", "patch", "bash", "read"} : UseTool(a, t)
          \/ EnsureCheckpoint(a) \/ Stage(a) \/ Commit(a) \/ Prune(a)
          \/ Edit(a) \/ WritePatch(a) \/ Fill(a)
          \/ Stat(a) \/ CheckTracker(a) \/ Load(a) \/ Record(a)
    \/ NewTurn \/ Restore \/ ReadOthers

WorkspaceSpec == WorkspaceInit /\ [][WorkspaceNext]_workspaceVars

-----------------------------------------------------------------------------
(* Types of the variables. *)
WorkspaceTypeOK ==
    /\ content \in Contents /\ mtime \in Times /\ stamped \in [Times -> Nat]
    /\ changes \in 0..MaxChanges /\ uses \in 0..MaxUses /\ turn \in 0..MaxTurns
    /\ marked \in BOOLEAN /\ staged \in Contents
    /\ commits \in Seq(Contents) /\ taken \in BOOLEAN /\ failed \in BOOLEAN
    /\ pc \in [Agents -> {"idle", "ensure", "stage", "commit", "prune", "edit", "patch",
                          "fill", "stat", "check", "load", "record"}]
    /\ tool \in [Agents -> {"write", "patch", "bash", "read"}]
    /\ since \in [Agents -> SUBSET Contents]
    /\ statTime \in [Agents -> Times] /\ got \in [Agents -> Contents]
    /\ entryTime \in Times \cup {NoTime} /\ seen \in Contents
    /\ consec \in 0..MaxConsec

(* What a tool relies on that finds the project marked and edits without a snapshot
   of its own (EnsureCheckpoint, manager.go:51-66): since the turn began one was
   taken, or another agent's git is at it, or git has failed, which is never tried
   again before the next turn. *)
SnapshotsAccounted ==
    marked => taken \/ failed \/ \E b \in Agents : pc[b] \in {"stage", "commit"}

(* ReadFile (read.go:132): when the tracker answers that the file is unchanged
   since the last read, and the file was given the time it has compared only once,
   then the content that read returned is one the file has held since this call's
   Stat, whoever wrote and read at the same time. *)
UnchangedIsTrue ==
    \A a \in Agents :
        pc[a] = "check" /\ Verdict(a) = "unchanged" /\ stamped[statTime[a]] = 1
            => seen \in since[a]

(* "file unchanged since last read" (read.go:18), of any file: the same without the
   exception.  Not so when two changes have the same time, as the truncation and
   the write of one os.WriteFile may have. *)
UnchangedIsAlwaysTrue ==
    \A a \in Agents :
        pc[a] = "check" /\ Verdict(a) = "unchanged" => seen \in since[a]

=============================================================================
