--------------------------- MODULE ComponentsProofs ---------------------------
(***************************************************************************)
(* Proofs about what the program keeps on disk: the project that agents    *)
(* read and change (Workspace), the saved preferences (Settings), the      *)
(* skills that agents write (Skills), and memory, sessions and todos       *)
(* (Notes).  At the end, all parts together: what is proved here, in       *)
(* TerminalProofs and in ServicesProofs of one part at a time holds of the *)
(* specification that MCComponents gives to TLC.                           *)
(***************************************************************************)
EXTENDS MCComponents, Workspace, TerminalProofs, ServicesProofs, FiniteSetTheorems, SequenceTheorems, TLAPS

(***************************************************************************)
(* Workspace, for any number of agents, turns, changes and times.          *)
(*                                                                         *)
(* UnchangedIsTrue: a modification time that the file was given only once  *)
(* stands for one content or for a content that came later, so what an     *)
(* agent read under it is among the contents that any other reader with    *)
(* that time has to allow for.  A time in use was given at least once, so  *)
(* that a change which gives it again takes it out of the claim (ReadInv). *)
(***************************************************************************)

ReadTypes ==
    /\ mtime \in Times /\ entryTime \in Times \cup {NoTime}
    /\ stamped \in [Times -> Nat]
    /\ statTime \in [Agents -> Times]
    /\ pc \in [Agents -> {"idle", "ensure", "stage", "commit", "prune", "edit", "patch",
                          "fill", "stat", "check", "load", "record"}]
    /\ DOMAIN since = Agents /\ DOMAIN got = Agents

Reading(a) == pc[a] \in {"check", "load", "record"}

(* The times in use: the file's, those of the reads and the entry's.           *)
TimesGiven ==
    /\ stamped[mtime] >= 1
    /\ \A a \in Agents : Reading(a) => stamped[statTime[a]] >= 1
    /\ entryTime # NoTime => stamped[entryTime] >= 1

(* One that is the file's and was given once has the file's content.           *)
OneContent ==
    stamped[mtime] = 1 =>
        /\ \A a \in Agents : pc[a] = "record" /\ statTime[a] = mtime => got[a] = content
        /\ entryTime = mtime => seen = content

(* A read that waits for the tracker allows for what the file holds, for what  *)
(* another read found under the same time, and for what the entry found.     *)
Allowed ==
    \A b \in Agents : pc[b] = "check" =>
        /\ content \in since[b]
        /\ stamped[statTime[b]] = 1 =>
              /\ \A a \in Agents :
                    pc[a] = "record" /\ statTime[a] = statTime[b] => got[a] \in since[b]
              /\ entryTime = statTime[b] => seen \in since[b]

ReadInv == ReadTypes /\ TimesGiven /\ OneContent /\ Allowed

LEMMA ReadInit == WorkspaceInit => ReadInv
  BY WorkspaceAssumption
  DEF WorkspaceInit, ReadInv, ReadTypes, TimesGiven, OneContent, Allowed, Reading

(* A change of the file by a tool that does not read: the time it gives was    *)
(* given before, and now twice, or nobody has it.                            *)
LEMMA ReadChange ==
  ASSUME ReadInv, NEW c, ChangeFile(c), UNCHANGED <<entryTime, seen, statTime>>,
         pc' \in [Agents -> {"idle", "ensure", "stage", "commit", "prune", "edit", "patch",
                             "fill", "stat", "check", "load", "record"}],
         \A a \in Agents : Reading(a)' => pc'[a] = pc[a] /\ got'[a] = got[a],
         DOMAIN got' = Agents
  PROVE  ReadInv'
<1>1. PICK t \in Times : /\ content' = c /\ mtime' = t
                         /\ stamped' = [stamped EXCEPT ![t] = @ + 1]
                         /\ since' = [b \in Agents |-> IF since[b] = {} THEN {} ELSE since[b] \cup {c}]
  BY DEF ChangeFile
<1>2. ReadTypes'
  BY <1>1 DEF ReadInv, ReadTypes
<1>3. /\ stamped'[t] = stamped[t] + 1 /\ stamped[t] \in Nat
      /\ \A u \in Times \ {t} : stamped'[u] = stamped[u]
      /\ \A u \in Times : stamped[u] \in Nat
  BY <1>1 DEF ReadInv, ReadTypes
<1>4. \A a \in Agents : Reading(a)' => Reading(a)
  BY DEF Reading
<1>5. TimesGiven'
  <2>1. \A u \in Times : stamped[u] >= 1 => stamped'[u] >= 1
    BY <1>3
  <2>2. stamped'[mtime'] >= 1
    BY <1>1, <1>3
  <2> QED
    BY <1>4, <2>1, <2>2 DEF ReadInv, ReadTypes, TimesGiven
<1>6. stamped'[t] = 1 => entryTime # t /\ \A a \in Agents : Reading(a) => statTime[a] # t
  <2>1. stamped'[t] = 1 => ~(stamped[t] >= 1)
    BY <1>3
  <2>2. t # NoTime
    BY WorkspaceAssumption
  <2> QED
    BY <2>1, <2>2 DEF ReadInv, TimesGiven
<1>7. OneContent'
  BY <1>1, <1>4, <1>6 DEF OneContent, Reading
<1>8. Allowed'
  <2> SUFFICES ASSUME NEW b \in Agents, pc'[b] = "check"
               PROVE  /\ content' \in since'[b]
                      /\ stamped'[statTime[b]] = 1 =>
                            /\ \A a \in Agents : pc'[a] = "record" /\ statTime[a] = statTime[b]
                                                    => got'[a] \in since'[b]
                            /\ entryTime = statTime[b] => seen \in since'[b]
    BY DEF Allowed
  <2>1. pc[b] = "check" /\ content \in since[b] /\ Reading(b) /\ statTime[b] \in Times
    BY DEF Reading, ReadInv, ReadTypes, Allowed
  <2>2. since'[b] = since[b] \cup {c}
    BY <1>1, <2>1
  <2>3. stamped'[statTime[b]] = 1 => stamped[statTime[b]] = 1
    BY <1>3, <1>6, <2>1
  <2>4. \A a \in Agents : pc'[a] = "record" => pc[a] = "record" /\ got'[a] = got[a]
    BY DEF Reading
  <2> QED
    BY <1>1, <2>1, <2>2, <2>3, <2>4 DEF ReadInv, Allowed
<1> QED
  BY <1>2, <1>5, <1>7, <1>8 DEF ReadInv

(* The steps of the other tools that leave the file alone.                     *)
LEMMA ReadSame ==
  ASSUME ReadInv, ReadTypes',
         UNCHANGED <<content, mtime, stamped, since, entryTime, seen, statTime>>,
         \A a \in Agents : Reading(a)' => pc'[a] = pc[a] /\ got'[a] = got[a]
  PROVE  ReadInv'
<1>1. \A a \in Agents : Reading(a)' => Reading(a)
  BY DEF Reading
<1>2. \A a \in Agents : (pc'[a] = "record" => pc[a] = "record" /\ got'[a] = got[a])
                        /\ (pc'[a] = "check" => pc[a] = "check")
  BY DEF Reading
<1> QED
  BY <1>1, <1>2 DEF ReadInv, TimesGiven, OneContent, Allowed

LEMMA ReadTool ==
  ASSUME ReadInv, NEW a \in Agents,
         \/ \E t \in {"write", "patch", "bash", "read"} : UseTool(a, t)
         \/ EnsureCheckpoint(a) \/ Stage(a) \/ Commit(a) \/ Prune(a)
         \/ Edit(a) \/ WritePatch(a) \/ Fill(a)
  PROVE  ReadInv'
<1>1. /\ UNCHANGED <<entryTime, seen, statTime>>
      /\ \E step \in {"idle", "ensure", "stage", "commit", "prune", "edit", "patch", "fill",
                      "stat"} : Goto(a, step)
      /\ UNCHANGED got \/ got' = [got EXCEPT ![a] = content]
      /\ UNCHANGED <<content, mtime, stamped, since>> \/ \E c : ChangeFile(c)
  <2>1. CASE \/ \E t \in {"write", "patch", "bash", "read"} : UseTool(a, t)
             \/ EnsureCheckpoint(a) \/ Stage(a) \/ Commit(a) \/ Prune(a)
    BY <2>1 DEF UseTool, EnsureCheckpoint, Stage, Commit, Prune, trackerVars, fileVars
  <2>2. CASE Edit(a)
    BY <2>2 DEF Edit, Truncate, trackerVars, fileVars
  <2>3. CASE WritePatch(a) \/ Fill(a)
    BY <2>3 DEF WritePatch, Fill, Truncate, trackerVars, fileVars
  <2> QED
    BY <2>1, <2>2, <2>3
<1>2. /\ pc' \in [Agents -> {"idle", "ensure", "stage", "commit", "prune", "edit", "patch",
                             "fill", "stat", "check", "load", "record"}]
      /\ \A b \in Agents : Reading(b)' => pc'[b] = pc[b] /\ got'[b] = got[b]
      /\ DOMAIN got' = Agents
  BY <1>1 DEF Goto, Reading, ReadInv, ReadTypes
<1>3. CASE UNCHANGED <<content, mtime, stamped, since>>
  <2>1. ReadTypes'
    BY <1>1, <1>2, <1>3 DEF ReadInv, ReadTypes
  <2> QED
    BY <1>1, <1>2, <1>3, <2>1, ReadSame
<1>4. CASE \E c : ChangeFile(c)
  BY <1>1, <1>2, <1>4, ReadChange
<1> QED
  BY <1>1, <1>3, <1>4

LEMMA ReadStat ==
  ASSUME ReadInv, NEW a \in Agents, Stat(a) PROVE ReadInv'
<1>1. /\ statTime' = [statTime EXCEPT ![a] = mtime] /\ since' = [since EXCEPT ![a] = {content}]
      /\ pc' = [pc EXCEPT ![a] = "check"]
      /\ UNCHANGED <<content, mtime, stamped, entryTime, seen, got>>
  BY DEF Stat, Goto, fileVars
<1>2. ReadTypes'
  BY <1>1 DEF ReadInv, ReadTypes
<1>3. TimesGiven' /\ OneContent'
  BY <1>1 DEF ReadInv, ReadTypes, TimesGiven, OneContent, Reading
<1>4. Allowed'
  BY <1>1 DEF ReadInv, ReadTypes, OneContent, Allowed
<1> QED
  BY <1>2, <1>3, <1>4 DEF ReadInv

LEMMA ReadCheck ==
  ASSUME ReadInv, NEW a \in Agents, CheckTracker(a) PROVE ReadInv'
<1>1. /\ since' = [since EXCEPT ![a] = {}]
      /\ pc' = [pc EXCEPT ![a] = "load"] \/ pc' = [pc EXCEPT ![a] = "idle"]
      /\ pc[a] = "check"
      /\ UNCHANGED <<content, mtime, stamped, entryTime, seen, got, statTime>>
  BY DEF CheckTracker, Goto, fileVars
<1> QED
  BY <1>1 DEF ReadInv, ReadTypes, TimesGiven, OneContent, Allowed, Reading

LEMMA ReadLoad ==
  ASSUME ReadInv, NEW a \in Agents, Load(a) PROVE ReadInv'
<1>1. /\ pc[a] = "load"
      /\ UNCHANGED <<content, mtime, stamped, entryTime, seen, statTime, since>>
      /\ \/ got' = [got EXCEPT ![a] = content] /\ pc' = [pc EXCEPT ![a] = "record"]
         \/ pc' = [pc EXCEPT ![a] = "idle"] /\ UNCHANGED got
  BY DEF Load, Goto, fileVars, trackerVars
<1> QED
  BY <1>1 DEF ReadInv, ReadTypes, TimesGiven, OneContent, Allowed, Reading

LEMMA ReadRecord ==
  ASSUME ReadInv, NEW a \in Agents, Record(a) PROVE ReadInv'
<1>1. /\ pc[a] = "record" /\ pc' = [pc EXCEPT ![a] = "idle"]
      /\ entryTime' = statTime[a] /\ seen' = got[a]
      /\ UNCHANGED <<content, mtime, stamped, got, statTime, since>>
  BY DEF Record, RecordedTime, Goto, fileVars
<1> QED
  BY <1>1, WorkspaceAssumption
  DEF ReadInv, ReadTypes, TimesGiven, OneContent, Allowed, Reading

LEMMA ReadNext == ReadInv /\ [WorkspaceNext]_workspaceVars => ReadInv'
<1> SUFFICES ASSUME ReadInv, [WorkspaceNext]_workspaceVars PROVE ReadInv'
  OBVIOUS
<1>1. ASSUME NEW a \in Agents,
             \/ \E t \in {"write", "patch", "bash", "read"} : UseTool(a, t)
             \/ EnsureCheckpoint(a) \/ Stage(a) \/ Commit(a) \/ Prune(a)
             \/ Edit(a) \/ WritePatch(a) \/ Fill(a)
      PROVE  ReadInv'
  BY <1>1, ReadTool
<1>2. ASSUME NEW a \in Agents, Stat(a) \/ CheckTracker(a) \/ Load(a) \/ Record(a)
      PROVE ReadInv'
  BY <1>2, ReadStat, ReadCheck, ReadLoad, ReadRecord
<1>3. CASE NewTurn \/ UNCHANGED workspaceVars
  <2>1. UNCHANGED <<content, mtime, stamped, since, entryTime, seen, statTime, pc, got>>
    BY <1>3 DEF NewTurn, fileVars, trackerVars, agentVars, workspaceVars
  <2> QED
    BY <2>1, ReadSame DEF ReadInv, ReadTypes
<1>4. CASE Restore
  <2>1. (\E c : ChangeFile(c)) /\ UNCHANGED <<entryTime, seen, statTime, pc, got>>
    BY <1>4 DEF Restore, trackerVars
  <2> QED
    BY <2>1, ReadChange DEF ReadInv, ReadTypes
<1>5. CASE ReadOthers
  <2>1. /\ entryTime' = entryTime \/ entryTime' = NoTime
        /\ UNCHANGED <<content, mtime, stamped, seen, pc, statTime, since, got>>
    BY <1>5 DEF ReadOthers, fileVars, agentVars
  <2> QED
    BY <2>1, WorkspaceAssumption
    DEF ReadInv, ReadTypes, TimesGiven, OneContent, Allowed, Reading
<1> QED
  BY <1>1, <1>2, <1>3, <1>4, <1>5 DEF WorkspaceNext

(* ReadFile (read.go:132): for any agents that read and write and any times that  *)
(* the file system and the shell give the file, "unchanged" is answered for a    *)
(* time that the file was given once only when the last recorded read returned a *)
(* content the file has held since this call looked at its time.  A time given   *)
(* twice is what UnchangedIsAlwaysTrue is violated by.                            *)
THEOREM WorkspaceUnchanged == WorkspaceSpec => []UnchangedIsTrue
<1>1. ReadInv => UnchangedIsTrue
  BY DEF ReadInv, Allowed, UnchangedIsTrue, Verdict
<1> QED
  BY <1>1, ReadInit, ReadNext, PTL DEF WorkspaceSpec

-----------------------------------------------------------------------------
(***************************************************************************)
(* Settings: what becomes of a saved preference, for any values and any    *)
(* number of starts, edits and saves.  The property speaks of two moments, *)
(* a save and a later start; the invariant of what is between: a file that *)
(* nobody writes has the preferences saved in it, or has their section     *)
(* bare, and the one being written is about to have them, but for the      *)
(* setting being saved, which counts from the end of the write.            *)
(***************************************************************************)

(* The file as it will be once the write in progress has ended. *)
Coming(f) == IF writing # NoWrite /\ path = f THEN writing.file ELSE disk[f]

Has(fs, s, v) == fs.status = "read" /\ (s \in fs.bare \/ fs.value[s] = v)

Kept(f, s) ==
    wish[f][s] # 0 =>
        \/ Has(Coming(f), s, wish[f][s])
        \/ writing # NoWrite /\ path = f /\ writing.setting = s

SettingsInv ==
    /\ disk \in [ConfigFiles -> FileStates]
    /\ path \in ConfigFiles
    /\ alive \in BOOLEAN
    /\ writing \in Writes \cup {NoWrite}
    /\ writing # NoWrite =>
          /\ alive
          /\ writing.file = Broken \/ Has(writing.file, writing.setting, writing.value)
    /\ wish \in [ConfigFiles -> [Settings -> Values]]
    /\ \A f \in ConfigFiles, s \in Settings : Kept(f, s)

(* The action property as a formula of one step. *)
KeptStep ==
    alive' /\ ~alive =>
        \A s \in Saved \ (overridden' \cup disk[path'].bare) :
            wish[path'][s] # 0 => cfg'[s] = wish[path'][s]

LEMMA FilesAreTyped ==
  /\ Absent \in FileStates /\ Broken \in FileStates
  /\ \A value \in [Settings -> Values], bare \in SUBSET Saved :
        Written(value, bare) \in FileStates
<1>1. Nothing \in [Settings -> Values]
  BY SettingsAssumption DEF Nothing, Values
<1> QED
  BY <1>1 DEF Absent, Broken, Written, FileStates

LEMMA NothingIsTyped == Nothing \in [Settings -> Values] /\ \A s \in Settings : Nothing[s] = 0
  BY SettingsAssumption DEF Nothing, Values

LEMMA SettingsInitInv == SettingsInit => SettingsInv
<1> SUFFICES ASSUME SettingsInit PROVE SettingsInv
  OBVIOUS
<1>1. /\ disk \in [ConfigFiles -> FileStates]
      /\ wish \in [ConfigFiles -> [Settings -> Values]]
      /\ \A f \in ConfigFiles, s \in Settings : wish[f][s] = 0
  BY NothingIsTyped, FilesAreTyped DEF SettingsInit
<1> QED
  BY <1>1 DEF SettingsInit, SettingsInv, Kept, ConfigFiles

(* The last layer that has a value gives it. *)
LEMMA LayersGive ==
  ASSUME SettingsInv, writing = NoWrite, NEW env \in [FromEnvironment -> Values],
         NEW s \in Saved, s \in FromEnvironment => env[s] = 0,
         s \notin disk[FindConfig].bare, wish[FindConfig][s] # 0
  PROVE  LoadConfig(env)[s] = wish[FindConfig][s]
<1> DEFINE f == FindConfig
           fromUser == MergeFile(Defaults, "user")
           fromBoth == MergeFile(fromUser, "project")
<1>1. s \in Settings /\ s # "idle" /\ DOMAIN env = FromEnvironment
  BY DEF Saved, Settings
<1>2. f \in ConfigFiles
  BY DEF FindConfig, ConfigFiles
<1>3. /\ disk[f].status = "read" /\ disk[f].value[s] = wish[f][s]
      /\ disk[f].value[s] # 0
  BY <1>1, <1>2 DEF SettingsInv, Kept, Coming, Has
<1>4. LoadConfig(env)[s] = fromBoth[s]
  BY <1>1 DEF LoadConfig, ApplyEnvOverrides
<1>5. CASE f = "project"
  <2>1. fromBoth[s] = disk["project"].value[s]
    BY <1>1, <1>3, <1>5 DEF MergeFile, Merge
  <2> QED
    BY <1>3, <1>4, <1>5, <2>1
<1>6. CASE f = "user"
  <2>1. disk["project"].status = "absent"
    BY <1>6 DEF FindConfig
  <2>2. fromBoth[s] = fromUser[s]
    BY <2>1 DEF MergeFile
  <2>3. fromUser[s] = disk["user"].value[s]
    BY <1>1, <1>3, <1>6 DEF MergeFile, Merge
  <2> QED
    BY <1>3, <1>4, <1>6, <2>2, <2>3
<1> QED
  BY <1>2, <1>5, <1>6 DEF ConfigFiles

LEMMA StartKeeps == SettingsInv /\ StartUp => SettingsInv' /\ KeptStep
<1> SUFFICES ASSUME SettingsInv, StartUp PROVE SettingsInv' /\ KeptStep
  OBVIOUS
<1>1. ~alive /\ writing = NoWrite /\ writing' = NoWrite /\ path' = FindConfig
      /\ disk' = disk /\ wish' = wish
  BY DEF SettingsInv, StartUp
<1>2. PICK env \in [FromEnvironment -> Values] :
        LET layered == LoadConfig(env)
            good == Valid(layered) /\ \A f \in ConfigFiles : disk[f].status # "broken"
        IN  /\ alive' = good
            /\ cfg' = IF good THEN layered ELSE Nothing
            /\ overridden' = IF good THEN {s \in DOMAIN env : env[s] # 0} ELSE {}
  BY DEF StartUp
<1>3. alive' \in BOOLEAN
  BY <1>2
<1>4. path' \in ConfigFiles
  BY <1>1 DEF FindConfig, ConfigFiles
<1>5. SettingsInv'
  BY <1>1, <1>3, <1>4 DEF SettingsInv, Kept, Coming, Has
<1>6. KeptStep
  <2> SUFFICES ASSUME alive', NEW s \in Saved, s \notin overridden', s \notin disk[path'].bare,
                      wish[path'][s] # 0
               PROVE  cfg'[s] = wish[path'][s]
    BY DEF KeptStep
  <2>1. cfg' = LoadConfig(env) /\ overridden' = {t \in DOMAIN env : env[t] # 0}
    BY <1>2
  <2>2. s \in FromEnvironment => env[s] = 0
    BY <2>1
  <2> QED
    BY <1>1, <2>1, <2>2, LayersGive
<1> QED
  BY <1>5, <1>6

(* What SavePreference writes has the preference, unless it stays broken, and  *)
(* what a file that can be loaded had of the others.                        *)
LEMMA ToWriteHas ==
  ASSUME SettingsInv, NEW s \in Saved, NEW v \in Values, NEW fs \in ToWrite(s, v)
  PROVE  /\ fs \in FileStates
         /\ fs = Broken \/ Has(fs, s, v)
         /\ \A t \in Settings \ {s}, w \in Values :
               Has(disk[path], t, w) => Has(fs, t, w)
<1>1. s \in Settings /\ disk[path] \in FileStates
  BY DEF SettingsInv, Saved, Settings
<1>2. ASSUME NEW old \in FileStates, old.status = "read"
      PROVE  LET new == WithKey(old, s, v)
             IN  /\ new \in FileStates /\ Has(new, s, v)
                 /\ \A t \in Settings \ {s}, w \in Values : Has(old, t, w) => Has(new, t, w)
  BY <1>1, <1>2 DEF WithKey, FileStates, Has
<1>3. CASE disk[path].status = "read"
  BY <1>1, <1>2, <1>3 DEF ToWrite
<1>4. CASE disk[path].status # "read"
  <2>1. Written(Nothing, {}) \in FileStates /\ Written(Nothing, {}).status = "read"
    BY NothingIsTyped, FilesAreTyped DEF Written
  <2>2. fs = Broken \/ fs = WithKey(Written(Nothing, {}), s, v)
    BY <1>4 DEF ToWrite
  <2>3. \A t \in Settings, w \in Values : ~Has(disk[path], t, w)
    BY <1>4 DEF Has
  <2> QED
    BY <1>2, <2>1, <2>2, <2>3, FilesAreTyped
<1> QED
  BY <1>3, <1>4

LEMMA PreferKeeps ==
  ASSUME SettingsInv, NEW s \in Saved, NEW v \in Values, Prefer(s, v)
  PROVE  SettingsInv'
<1>1. alive /\ alive' = alive /\ writing = NoWrite /\ path' = path /\ wish' = wish
  BY DEF Prefer
<1>2. CASE UNCHANGED <<writing, disk>>
  BY <1>1, <1>2 DEF SettingsInv, Kept, Coming, Has
<1>3. ASSUME NEW fs \in ToWrite(s, v),
             writing' = [setting |-> s, value |-> v, file |-> fs],
             disk' = [disk EXCEPT ![path] = Written(Nothing, {})]
      PROVE  SettingsInv'
  <2>1. /\ fs \in FileStates
        /\ fs = Broken \/ Has(fs, s, v)
        /\ \A t \in Settings \ {s}, w \in Values : Has(disk[path], t, w) => Has(fs, t, w)
    BY ToWriteHas
  <2>2. writing' \in Writes /\ writing' # NoWrite
    BY <1>3, <2>1, NoWriteAssumption DEF Writes
  <2>3. disk' \in [ConfigFiles -> FileStates]
    BY <1>3, NothingIsTyped, FilesAreTyped DEF SettingsInv
  <2>4. ASSUME NEW f \in ConfigFiles, NEW t \in Settings PROVE Kept(f, t)'
    <3>1. CASE f # path
      <4>1. Coming(f)' = disk[f] /\ Coming(f) = disk[f]
        BY <1>1, <1>3, <3>1 DEF Coming, SettingsInv
      <4> QED
        BY <1>1, <3>1, <4>1 DEF SettingsInv, Kept, Has
    <3>2. CASE f = path /\ t = s
      BY <1>1, <1>3, <2>2, <3>2 DEF Kept
    <3>3. CASE f = path /\ t # s
      <4>1. Coming(f) = disk[path] /\ Coming(f)' = fs
        BY <1>1, <1>3, <2>2, <3>3 DEF Coming
      <4>2. wish[f][t] \in Values /\ wish'[f][t] = wish[f][t]
        BY <1>1 DEF SettingsInv
      <4>3. wish[f][t] # 0 => Has(disk[path], t, wish[f][t])
        BY <1>1, <3>3, <4>1 DEF SettingsInv, Kept
      <4>4. wish'[f][t] # 0 => Has(fs, t, wish'[f][t])
        BY <2>1, <3>3, <4>2, <4>3
      <4> QED
        BY <4>1, <4>4 DEF Kept, Has
    <3> QED
      BY <3>1, <3>2, <3>3
  <2>5. alive' /\ (writing'.file = Broken \/ Has(writing'.file, writing'.setting, writing'.value))
    BY <1>1, <1>3, <2>1
  <2> QED
    BY <1>1, <2>2, <2>3, <2>4, <2>5 DEF SettingsInv, Has
<1> QED
  BY <1>2, <1>3 DEF Prefer

LEMMA WriteKeeps ==
  ASSUME SettingsInv, FinishWrite \/ WriteFails
  PROVE  SettingsInv'
<1>1. /\ writing # NoWrite /\ writing \in Writes /\ path \in ConfigFiles
      /\ writing' = NoWrite /\ path' = path /\ alive' = alive
  BY DEF SettingsInv, FinishWrite, WriteFails
<1>2. writing.setting \in Settings /\ writing.value \in Values /\ writing.file \in FileStates
  BY <1>1 DEF Writes, Saved, Settings
<1>3. \A f \in ConfigFiles : Coming(f)' = disk'[f]
  BY <1>1 DEF Coming
<1>4. ASSUME NEW f \in ConfigFiles \ {path}, NEW t \in Settings,
             disk'[f] = disk[f], wish'[f] = wish[f]
      PROVE  Kept(f, t)'
  <2>1. Coming(f) = disk[f] /\ Coming(f)' = disk[f]
    BY <1>1, <1>3, <1>4 DEF Coming
  <2> QED
    BY <1>4, <2>1 DEF SettingsInv, Kept, Has
<1>5. ASSUME NEW f \in ConfigFiles, NEW t \in Settings, wish'[f] = Nothing
      PROVE  Kept(f, t)'
  BY <1>1, <1>5, NothingIsTyped DEF Kept
<1>6. CASE FinishWrite
  <2>1. /\ disk' = [disk EXCEPT ![path] = writing.file]
        /\ wish' = IF writing.file = Broken THEN [wish EXCEPT ![path] = Nothing]
                   ELSE [wish EXCEPT ![path][writing.setting] = writing.value]
    BY <1>6 DEF FinishWrite
  <2>2. disk' \in [ConfigFiles -> FileStates] /\ wish' \in [ConfigFiles -> [Settings -> Values]]
    BY <1>1, <1>2, <2>1, NothingIsTyped DEF SettingsInv
  <2>3. ASSUME NEW f \in ConfigFiles, NEW t \in Settings PROVE Kept(f, t)'
    <3>1. CASE f # path
      BY <1>1, <1>4, <2>1, <3>1 DEF SettingsInv
    <3>2. CASE f = path /\ writing.file = Broken
      <4>1. wish'[f] = Nothing
        BY <1>1, <2>1, <3>2 DEF SettingsInv
      <4> QED
        BY <1>5, <4>1
    <3>3. CASE f = path /\ writing.file # Broken
      <4>1. Coming(f)' = writing.file /\ Coming(f) = writing.file
        BY <1>1, <1>3, <2>1, <3>3 DEF SettingsInv, Coming
      <4>2. wish'[f][t] # 0 => Has(writing.file, t, wish'[f][t])
        <5>1. CASE t = writing.setting
          <6>1. wish'[f][t] = writing.value
            BY <1>1, <1>2, <2>1, <3>3, <5>1 DEF SettingsInv
          <6> QED
            BY <1>1, <3>3, <5>1, <6>1 DEF SettingsInv
        <5>2. CASE t # writing.setting
          <6>1. wish'[f][t] = wish[f][t]
            BY <1>1, <1>2, <2>1, <3>3, <5>2 DEF SettingsInv
          <6> QED
            BY <3>3, <4>1, <5>2, <6>1 DEF SettingsInv, Kept
        <5> QED
          BY <5>1, <5>2
      <4> QED
        BY <4>1, <4>2 DEF Kept, Has
    <3> QED
      BY <3>1, <3>2, <3>3
  <2> QED
    BY <1>1, <2>2, <2>3 DEF SettingsInv, Has
<1>7. CASE WriteFails
  <2>1. /\ disk' \in {disk, [disk EXCEPT ![path] = Broken]}
        /\ wish' = [wish EXCEPT ![path] = Nothing]
    BY <1>7 DEF WriteFails
  <2>2. disk' \in [ConfigFiles -> FileStates] /\ wish' \in [ConfigFiles -> [Settings -> Values]]
    BY <1>1, <2>1, NothingIsTyped, FilesAreTyped DEF SettingsInv
  <2>3. ASSUME NEW f \in ConfigFiles, NEW t \in Settings PROVE Kept(f, t)'
    <3>1. CASE f # path
      BY <1>1, <1>4, <2>1, <3>1 DEF SettingsInv
    <3>2. CASE f = path
      <4>1. wish'[f] = Nothing
        BY <1>1, <2>1, <3>2 DEF SettingsInv
      <4> QED
        BY <1>5, <4>1
    <3> QED
      BY <3>1, <3>2
  <2> QED
    BY <1>1, <2>2, <2>3 DEF SettingsInv, Has
<1> QED
  BY <1>6, <1>7

LEMMA ShutDownKeeps ==
  ASSUME SettingsInv, ShutDown
  PROVE  SettingsInv'
<1>1. /\ alive' = FALSE /\ writing' = NoWrite /\ disk' = disk /\ path' = path
      /\ wish' = IF writing = NoWrite THEN wish ELSE [wish EXCEPT ![path] = Nothing]
  BY DEF ShutDown
<1>2. wish' \in [ConfigFiles -> [Settings -> Values]]
  BY <1>1, NothingIsTyped DEF SettingsInv
<1>3. ASSUME NEW f \in ConfigFiles, NEW t \in Settings PROVE Kept(f, t)'
  <2>1. CASE writing = NoWrite \/ f # path
    <3>1. Coming(f) = disk[f] /\ Coming(f)' = disk[f]
      BY <1>1, <2>1 DEF Coming
    <3>2. wish'[f][t] = wish[f][t]
      BY <1>1, <2>1 DEF SettingsInv
    <3> QED
      BY <2>1, <3>1, <3>2 DEF SettingsInv, Kept, Has
  <2>2. CASE writing # NoWrite /\ f = path
    BY <1>1, <2>2, NothingIsTyped DEF SettingsInv, Kept
  <2> QED
    BY <2>1, <2>2
<1> QED
  BY <1>1, <1>2, <1>3 DEF SettingsInv

LEMMA EditKeeps ==
  ASSUME SettingsInv, NEW f \in ConfigFiles, EditFile(f)
  PROVE  SettingsInv'
<1>1. writing = NoWrite /\ writing' = NoWrite /\ path' = path /\ alive' = alive
  BY DEF EditFile
<1>2. \A g \in ConfigFiles : Coming(g) = disk[g] /\ Coming(g)' = disk'[g]
  BY <1>1 DEF Coming
<1>3. ASSUME NEW g \in ConfigFiles \ {f}, NEW t \in Settings,
             disk'[g] = disk[g], wish'[g] = wish[g]
      PROVE  Kept(g, t)'
  BY <1>1, <1>2, <1>3 DEF SettingsInv, Kept, Has
<1>4. ASSUME NEW s \in Settings, NEW v \in Values, NEW bare \in SUBSET (Saved \cap {s}),
             disk' = [disk EXCEPT ![f] = Written([@.value EXCEPT ![s] = v],
                                                 (@.bare \ {s}) \cup bare)],
             wish' = [wish EXCEPT ![f][s] = 0]
      PROVE  SettingsInv'
  <2>1. 0 \in Values /\ disk[f] \in FileStates
    BY SettingsAssumption DEF Values, SettingsInv
  <2> DEFINE value == [disk[f].value EXCEPT ![s] = v]
             sections == (disk[f].bare \ {s}) \cup bare
  <2>2. value \in [Settings -> Values] /\ sections \in SUBSET Saved
    BY <2>1 DEF FileStates
  <2>3. disk' = [disk EXCEPT ![f] = Written(value, sections)]
    BY <1>4
  <2>4. disk' \in [ConfigFiles -> FileStates] /\ wish' \in [ConfigFiles -> [Settings -> Values]]
    BY <1>4, <2>1, <2>2, <2>3, FilesAreTyped DEF SettingsInv
  <2>5. ASSUME NEW g \in ConfigFiles, NEW t \in Settings PROVE Kept(g, t)'
    <3>1. CASE g # f
      BY <1>3, <1>4, <2>3, <3>1 DEF SettingsInv
    <3>2. CASE g = f /\ t = s
      BY <1>1, <1>4, <3>2 DEF SettingsInv, Kept
    <3>3. CASE g = f /\ t # s
      <4>1. disk'[f] = Written(value, sections)
        BY <2>3 DEF SettingsInv
      <4>2. wish'[f][t] = wish[f][t]
        BY <1>4, <3>3 DEF SettingsInv
      <4>3. wish[f][t] # 0 => Has(disk[f], t, wish[f][t])
        BY <1>1, <1>2, <3>3 DEF SettingsInv, Kept
      <4>4. wish[f][t] # 0 => Has(Written(value, sections), t, wish[f][t])
        BY <2>1, <3>3, <4>3 DEF Has, Written, FileStates
      <4> QED
        BY <1>2, <3>3, <4>1, <4>2, <4>4 DEF Kept, Has
    <3> QED
      BY <3>1, <3>2, <3>3
  <2> QED
    BY <1>1, <2>4, <2>5 DEF SettingsInv
<1>5. ASSUME NEW spoiled \in {Absent, Broken},
             disk' = [disk EXCEPT ![f] = spoiled], wish' = [wish EXCEPT ![f] = Nothing]
      PROVE  SettingsInv'
  <2>1. disk' \in [ConfigFiles -> FileStates] /\ wish' \in [ConfigFiles -> [Settings -> Values]]
    BY <1>5, NothingIsTyped, FilesAreTyped DEF SettingsInv
  <2>2. ASSUME NEW g \in ConfigFiles, NEW t \in Settings PROVE Kept(g, t)'
    <3>1. CASE g # f
      BY <1>3, <1>5, <3>1 DEF SettingsInv
    <3>2. CASE g = f
      BY <1>1, <1>5, <3>2, NothingIsTyped DEF SettingsInv, Kept
    <3> QED
      BY <3>1, <3>2
  <2> QED
    BY <1>1, <2>1, <2>2 DEF SettingsInv
<1>6. \/ \E s \in Settings, v \in Values : \E bare \in SUBSET (Saved \cap {s}) :
            /\ disk' = [disk EXCEPT ![f] = Written([@.value EXCEPT ![s] = v],
                                                   (@.bare \ {s}) \cup bare)]
            /\ wish' = [wish EXCEPT ![f][s] = 0]
      \/ \E spoiled \in {Absent, Broken} :
            disk' = [disk EXCEPT ![f] = spoiled] /\ wish' = [wish EXCEPT ![f] = Nothing]
  <2>1. CASE \E s \in Settings, v \in Values :
                /\ \E bare \in IF v = 0 /\ s \in Saved THEN {{}, {s}} ELSE {{}} :
                      disk' = [disk EXCEPT ![f] = Written([@.value EXCEPT ![s] = v],
                                                          (@.bare \ {s}) \cup bare)]
                /\ wish' = [wish EXCEPT ![f][s] = 0]
    <3>1. PICK s \in Settings, v \in Values :
             /\ \E bare \in IF v = 0 /\ s \in Saved THEN {{}, {s}} ELSE {{}} :
                   disk' = [disk EXCEPT ![f] = Written([@.value EXCEPT ![s] = v],
                                                       (@.bare \ {s}) \cup bare)]
             /\ wish' = [wish EXCEPT ![f][s] = 0]
      BY <2>1
    <3>2. PICK bare \in IF v = 0 /\ s \in Saved THEN {{}, {s}} ELSE {{}} :
             disk' = [disk EXCEPT ![f] = Written([@.value EXCEPT ![s] = v],
                                                 (@.bare \ {s}) \cup bare)]
      BY <3>1
    <3>3. bare \in SUBSET (Saved \cap {s})
      OBVIOUS
    <3> QED
      BY <3>1, <3>2, <3>3
  <2> QED
    BY <2>1 DEF EditFile
<1> QED
  BY <1>4, <1>5, <1>6

LEMMA SettingsKeep == SettingsInv /\ [SettingsNext]_settingsVars => SettingsInv' /\ KeptStep
<1> SUFFICES ASSUME SettingsInv, [SettingsNext]_settingsVars PROVE SettingsInv' /\ KeptStep
  OBVIOUS
<1>1. CASE StartUp
  BY <1>1, StartKeeps
<1>2. CASE ~StartUp
  <2>1. SettingsInv'
    <3>1. CASE UNCHANGED settingsVars
      BY <3>1 DEF settingsVars, SettingsInv, Kept, Coming
    <3>2. ASSUME NEW s \in Saved, NEW v \in Values \ {0}, Prefer(s, v) PROVE SettingsInv'
      BY <3>2, PreferKeeps
    <3> QED
      BY <1>2, <3>1, <3>2, WriteKeeps, ShutDownKeeps, EditKeeps DEF SettingsNext
  <2>2. KeptStep
    \* only StartUp makes the program run
    <3>1. alive' => alive
      BY <1>2 DEF SettingsNext, FinishWrite, WriteFails, ShutDown, Prefer, EditFile, settingsVars
    <3> QED
      BY <3>1 DEF KeptStep
  <2> QED
    BY <2>1, <2>2
<1> QED
  BY <1>1, <1>2

(* SavePreference and Load (config.go:625, 333): a preference that was written and *)
(* that nobody changed in its file since is the one the program has after each    *)
(* start that takes its settings from that file, but for the environment's and    *)
(* where the file has its section bare, as PreferenceKept says: for any number of *)
(* values, starts, edits and saves.                                                *)
THEOREM PreferencesKept == SettingsSpec => PreferenceKept
<1>1. SettingsInv /\ [SettingsNext]_settingsVars => [KeptStep]_settingsVars
  BY SettingsKeep
<1>2. SettingsInv /\ [SettingsNext]_settingsVars => SettingsInv'
  BY SettingsKeep
<1>3. SettingsSpec => [][KeptStep]_settingsVars
  BY <1>1, <1>2, SettingsInitInv, PTL DEF SettingsSpec
<1> QED
  BY <1>3 DEF PreferenceKept, KeptStep

-----------------------------------------------------------------------------
(***************************************************************************)
(* Skills, for any names, creations and passes.  The manager holds its     *)
(* lock in each method, so the map and the two directories change          *)
(* together, and a rename moves a directory only where there is none.      *)
(***************************************************************************)

SkillsTypes ==
    /\ skills \in [SkillNames -> SkillRecords \cup {None}]
    /\ agentDir \in [SkillNames -> Dirs \cup {None}]
    /\ archive \in [SkillNames -> Dirs \cup {None}]
    /\ created \in 0..MaxCreated /\ gone \subseteq 1..MaxCreated
    /\ todo \in [Passes -> SUBSET (SkillNames \X SkillRecords)]

RestTypes ==
    /\ up \in BOOLEAN /\ starts \in 0..MaxStarts
    /\ pass \in [Passes -> {"idle", "auto", "review", "save"}]
    /\ passes \in 0..MaxPasses /\ loaded \in [Passes -> BOOLEAN]
    /\ paused \in BOOLEAN /\ recent \in BOOLEAN /\ settings \in 0..MaxSettings

SkillsInd == SkillsTypes /\ RestTypes /\ SkillsKept

(* A creation is somewhere. *)
Somewhere(i) ==
    \/ \E n \in SkillNames : agentDir[n] # None /\ agentDir[n].id = i
    \/ \E n \in SkillNames : archive[n] # None /\ archive[n].id = i

HeldOnDisk(n) == IsAgents(n) => (agentDir[n] # None /\ agentDir[n].id = skills[n].id)

LEMMA KeptMeans ==
    SkillsKept <=> /\ \A i \in (1..created) \ gone : Somewhere(i)
                   /\ \A n \in SkillNames : HeldOnDisk(n)
  BY DEF SkillsKept, Somewhere, HeldOnDisk

LEMMA KeptNext ==
    ASSUME \A i \in ((1..created) \ gone)' : Somewhere(i)',
           \A n \in SkillNames : HeldOnDisk(n)'
    PROVE  SkillsKept'
  BY DEF SkillsKept, Somewhere, HeldOnDisk

LEMMA NoneIsNoRecord ==
    /\ \A d \in Dirs : d # None
    /\ \A r \in SkillRecords : r # None
    /\ MaxCreated \in Nat /\ MaxPasses \in Nat /\ MaxStarts \in Nat /\ MaxSettings \in Nat
  BY SkillsAssumption

(* What Transition does to the skill it is about: the archive gets the     *)
(* directory, the directory and the map keep what was created, or nothing. *)
LEMMA TransitionMoves ==
    ASSUME SkillsInd, NEW s \in SkillNames \X SkillRecords, Transition(s)
    PROVE  \/ UNCHANGED <<skills, agentDir, archive>>
           \/ \E n \in SkillNames :
                 /\ agentDir[n] # None /\ archive[n] = None
                 /\ archive' = [archive EXCEPT ![n] = agentDir[n]]
                 /\ agentDir' = [agentDir EXCEPT ![n] = None]
                 /\ skills' = [skills EXCEPT ![n] = None]
           \/ \E n \in SkillNames, k \in SkillRecords, d \in Dirs :
                 /\ skills[n] # None /\ agentDir[n] # None
                 /\ k.id = skills[n].id /\ k.source = skills[n].source
                 /\ d.id = agentDir[n].id
                 /\ skills' = [skills EXCEPT ![n] = k]
                 /\ agentDir' = [agentDir EXCEPT ![n] = d]
                 /\ archive' = archive
  <1> DEFINE n == s[1]
             stale == agentDir[n].age = "stale"
  <1>1. n \in SkillNames /\ s[2] \in SkillRecords
    OBVIOUS
  <1>2. CASE s[2].pinned \/ agentDir[n] = None
    BY <1>2 DEF Transition
  <1>3. CASE ~(s[2].pinned \/ agentDir[n] = None) /\ agentDir[n].age = "old"
    BY <1>1, <1>3 DEF Transition, ArchiveSkill, CanRename
  <1>4. CASE ~(s[2].pinned \/ agentDir[n] = None) /\ agentDir[n].age # "old"
    <2>1. \/ SetStale(n, stale, s[2].parses)
          \/ UNCHANGED <<archive, agentDir, skills>>
      BY <1>4 DEF Transition
    <2>2. CASE ~IsAgents(n) \/ UNCHANGED <<archive, agentDir, skills>>
      BY <2>1, <2>2 DEF SetStale
    <2>3. CASE SetStale(n, stale, s[2].parses) /\ IsAgents(n)
      <3> DEFINE k == [skills[n] EXCEPT !.stale = stale, !.parses = s[2].parses]
                 d == [agentDir[n] EXCEPT !.stale = stale, !.parses = s[2].parses,
                                          !.pinned = skills[n].pinned]
      <3>1. skills[n] \in SkillRecords /\ agentDir[n] \in Dirs /\ skills[n] # None
        BY <1>1, <1>4, <2>3 DEF SkillsInd, SkillsTypes, IsAgents
      <3>2. stale \in BOOLEAN /\ s[2].parses \in BOOLEAN /\ skills[n].pinned \in BOOLEAN
        BY <1>1, <3>1 DEF SkillRecords
      <3>3. k \in SkillRecords /\ k.id = skills[n].id /\ k.source = skills[n].source
        BY <3>1, <3>2 DEF SkillRecords
      <3>4. d \in Dirs /\ d.id = agentDir[n].id
        BY <3>1, <3>2 DEF Dirs
      <3>5. skills' = [skills EXCEPT ![n] = k]
        BY <1>1, <2>3 DEF SetStale, SkillsInd, SkillsTypes
      <3>6. agentDir' = [agentDir EXCEPT ![n] = d] /\ archive' = archive
        BY <1>1, <2>3 DEF SetStale, SkillsInd, SkillsTypes
      <3> QED
        BY <1>1, <1>4, <3>1, <3>3, <3>4, <3>5, <3>6
    <2> QED
      BY <2>1, <2>2, <2>3
  <1> QED
    BY <1>2, <1>3, <1>4

LEMMA LoadedIsRecord ==
    /\ \A d \in Dirs : Loaded("agent", d) \in SkillRecords /\ Loaded("agent", d).id = d.id
    /\ \A src \in {"project", "user"} :
          Foreign(src) \in SkillRecords /\ Foreign(src).source # "agent"
  BY NoneIsNoRecord DEF Loaded, Foreign, SkillRecords, Dirs

(* The map a start makes holds as the agent's only what is on disk.        *)
LEMMA LoadKeepsSkills ==
    ASSUME SkillsInd, LoadSkills
    PROVE  SkillsInd'
  <1>1. /\ up' = TRUE /\ starts' = starts + 1 /\ starts < MaxStarts
        /\ UNCHANGED <<agentDir, archive, created, gone, pass, todo, passes, loaded,
                       paused, recent, settings>>
    BY DEF LoadSkills, diskVars, passVars, stateVars
  <1>2. skills' = [n \in SkillNames |->
                     IF agentDir[n] # None /\ Parses(agentDir[n]) THEN Loaded("agent", agentDir[n])
                     ELSE IF n \in User THEN Foreign("user") ELSE None]
    BY DEF LoadSkills, LoadAll
  <1>3. SkillsTypes'
    <2>1. skills' \in [SkillNames -> SkillRecords \cup {None}]
      BY <1>2, LoadedIsRecord DEF SkillsInd, SkillsTypes
    <2> QED
      BY <1>1, <2>1 DEF SkillsInd, SkillsTypes
  <1>4. RestTypes'
    BY <1>1, NoneIsNoRecord DEF SkillsInd, RestTypes
  <1>5. ASSUME NEW n \in SkillNames PROVE HeldOnDisk(n)'
    <2>1. CASE agentDir[n] # None /\ Parses(agentDir[n])
      BY <1>1, <1>2, <2>1, LoadedIsRecord DEF HeldOnDisk, SkillsInd, SkillsTypes
    <2>2. CASE ~(agentDir[n] # None /\ Parses(agentDir[n]))
      <3>1. skills'[n] = None \/ skills'[n] = Foreign("user")
        BY <1>2, <2>2
      <3> QED
        BY <3>1, LoadedIsRecord DEF HeldOnDisk, IsAgents
    <2> QED
      BY <2>1, <2>2
  <1>6. ASSUME NEW i \in ((1..created) \ gone)' PROVE Somewhere(i)'
    BY <1>1, KeptMeans DEF SkillsInd, Somewhere
  <1> QED
    BY <1>3, <1>4, <1>5, <1>6, KeptNext DEF SkillsInd

LEMMA ForgetKeepsSkills ==
    ASSUME SkillsInd, ForgetSkills
    PROVE  SkillsInd'
  <1>1. /\ up' = FALSE /\ skills' = [n \in SkillNames |-> None]
        /\ pass' = [p \in Passes |-> "idle"] /\ todo' = [p \in Passes |-> {}]
        /\ UNCHANGED <<starts, agentDir, archive, created, gone, passes, loaded,
                       paused, recent, settings>>
    BY DEF ForgetSkills, diskVars, stateVars
  <1>2. SkillsTypes' /\ RestTypes'
    BY <1>1 DEF SkillsInd, SkillsTypes, RestTypes
  <1>3. SkillsKept'
    BY <1>1 DEF SkillsInd, SkillsKept, IsAgents
  <1> QED
    BY <1>2, <1>3 DEF SkillsInd

(* Steps that leave the map and the directories alone.                     *)
LEMMA AsideKeepsSkills ==
    ASSUME SkillsInd, UNCHANGED <<skills, agentDir, archive, created, gone>>
    PROVE  SkillsKept'
  BY DEF SkillsInd, SkillsKept, IsAgents

LEMMA CreateKeepsSkills ==
    ASSUME SkillsInd, NEW m \in SkillNames, CreateSkill(m)
    PROVE  SkillsInd'
  <1>1. /\ created < MaxCreated /\ created' = created + 1
        /\ gone' = IF agentDir[m] = None THEN gone ELSE gone \cup {agentDir[m].id}
        /\ UNCHANGED <<up, starts, archive, pass, todo, passes, loaded, paused, recent, settings>>
    BY DEF CreateSkill, passVars, stateVars
  <1>2. PICK parses \in BOOLEAN :
          LET d == Dir(created', parses,
                       IF agentDir[m] = None THEN "fresh" ELSE agentDir[m].age)
          IN  /\ agentDir' = [agentDir EXCEPT ![m] = d]
              /\ skills' = [skills EXCEPT ![m] = Loaded("agent", d)]
    BY DEF CreateSkill
  <1> DEFINE d == Dir(created', parses, IF agentDir[m] = None THEN "fresh" ELSE agentDir[m].age)
  <1>3. d \in Dirs /\ d.id = created'
    <2>1. created' \in 1..MaxCreated
      BY <1>1, NoneIsNoRecord DEF SkillsInd, SkillsTypes
    <2>2. (IF agentDir[m] = None THEN "fresh" ELSE agentDir[m].age) \in Ages
      BY DEF SkillsInd, SkillsTypes, Dirs, Ages
    <2> QED
      BY <2>1, <2>2 DEF Dir, Dirs
  <1>4. agentDir' = [agentDir EXCEPT ![m] = d] /\ skills' = [skills EXCEPT ![m] = Loaded("agent", d)]
    BY <1>2
  <1>5. Loaded("agent", d) \in SkillRecords /\ Loaded("agent", d).id = d.id /\ d # None
    BY <1>3, LoadedIsRecord, NoneIsNoRecord
  <1> HIDE DEF d
  <1>6. SkillsTypes'
    <2>1. created' \in 0..MaxCreated
      BY <1>1, NoneIsNoRecord DEF SkillsInd, SkillsTypes
    <2>2. agentDir[m] # None => agentDir[m].id \in 1..MaxCreated
      BY DEF SkillsInd, SkillsTypes, Dirs
    <2>3. gone' \subseteq 1..MaxCreated
      BY <1>1, <2>2 DEF SkillsInd, SkillsTypes
    <2> QED
      BY <1>1, <1>3, <1>4, <1>5, <2>1, <2>3 DEF SkillsInd, SkillsTypes
  <1>7. RestTypes'
    BY <1>1 DEF SkillsInd, RestTypes
  <1>8. ASSUME NEW n \in SkillNames PROVE HeldOnDisk(n)'
    <2>1. CASE n = m
      BY <1>3, <1>4, <1>5, <2>1 DEF HeldOnDisk, SkillsInd, SkillsTypes
    <2>2. CASE n # m
      BY <1>4, <2>2, KeptMeans DEF HeldOnDisk, IsAgents, SkillsInd, SkillsTypes
    <2> QED
      BY <2>1, <2>2
  <1>9. ASSUME NEW i \in ((1..created) \ gone)' PROVE Somewhere(i)'
    <2>1. CASE i = created'
      BY <1>3, <1>4, <1>5, <2>1 DEF Somewhere, SkillsInd, SkillsTypes
    <2>2. CASE i # created'
      <3>1. i \in (1..created) \ gone
        BY <1>1, <1>9, <2>2 DEF SkillsInd, SkillsTypes
      <3>2. \A n \in SkillNames : n = m /\ agentDir[n] # None => agentDir[n].id # i
        BY <1>1, <1>9
      <3> QED
        BY <1>1, <1>4, <3>1, <3>2, KeptMeans DEF Somewhere, SkillsInd, SkillsTypes
    <2> QED
      BY <2>1, <2>2
  <1> QED
    BY <1>6, <1>7, <1>8, <1>9, KeptNext DEF SkillsInd

LEMMA DeleteKeepsSkills ==
    ASSUME SkillsInd, NEW m \in SkillNames, DeleteSkill(m)
    PROVE  SkillsInd'
  <1>1. /\ IsAgents(m)
        /\ gone' = gone \cup {agentDir[m].id}
        /\ agentDir' = [agentDir EXCEPT ![m] = None]
        /\ skills' = [skills EXCEPT ![m] = None]
        /\ UNCHANGED <<up, starts, archive, created, pass, todo, passes, loaded,
                       paused, recent, settings>>
    BY DEF DeleteSkill, passVars, stateVars
  <1>2. agentDir[m] # None /\ agentDir[m] \in Dirs
    BY <1>1, KeptMeans DEF HeldOnDisk, SkillsInd, SkillsTypes
  <1>3. SkillsTypes' /\ RestTypes'
    BY <1>1, <1>2 DEF SkillsInd, SkillsTypes, RestTypes, Dirs
  <1>4. ASSUME NEW n \in SkillNames PROVE HeldOnDisk(n)'
    BY <1>1, KeptMeans DEF HeldOnDisk, IsAgents, SkillsInd, SkillsTypes
  <1>5. ASSUME NEW i \in ((1..created) \ gone)' PROVE Somewhere(i)'
    BY <1>1, <1>5, KeptMeans DEF Somewhere, SkillsInd, SkillsTypes
  <1> QED
    BY <1>3, <1>4, <1>5, KeptNext DEF SkillsInd

LEMMA UnarchiveKeepsSkills ==
    ASSUME SkillsInd, NEW m \in SkillNames, UnarchiveSkill(m)
    PROVE  SkillsInd'
  <1>1. /\ archive[m] # None /\ agentDir[m] = None
        /\ agentDir' = [agentDir EXCEPT ![m] = archive[m]]
        /\ archive' = [archive EXCEPT ![m] = None]
        /\ skills' \in {skills, [skills EXCEPT ![m] = Loaded("agent", archive[m])]}
        /\ UNCHANGED <<up, starts, created, gone, pass, todo, passes, loaded,
                       paused, recent, settings>>
    BY DEF UnarchiveSkill, CanRename, passVars, stateVars
  <1>2. archive[m] \in Dirs
    BY <1>1 DEF SkillsInd, SkillsTypes
  <1>3. Loaded("agent", archive[m]) \in SkillRecords /\ Loaded("agent", archive[m]).id = archive[m].id
    BY <1>2, LoadedIsRecord
  <1>4. SkillsTypes' /\ RestTypes'
    BY <1>1, <1>2, <1>3 DEF SkillsInd, SkillsTypes, RestTypes
  <1>5. ASSUME NEW n \in SkillNames PROVE HeldOnDisk(n)'
    <2>1. CASE n = m
      <3>1. ~IsAgents(m)
        BY <1>1, KeptMeans DEF HeldOnDisk, SkillsInd
      <3> QED
        BY <1>1, <1>3, <2>1, <3>1 DEF HeldOnDisk, IsAgents, SkillsInd, SkillsTypes
    <2>2. CASE n # m
      BY <1>1, <2>2, KeptMeans DEF HeldOnDisk, IsAgents, SkillsInd, SkillsTypes
    <2> QED
      BY <2>1, <2>2
  <1>6. ASSUME NEW i \in ((1..created) \ gone)' PROVE Somewhere(i)'
    BY <1>1, <1>6, KeptMeans DEF Somewhere, SkillsInd, SkillsTypes
  <1> QED
    BY <1>4, <1>5, <1>6, KeptNext DEF SkillsInd

LEMMA PinKeepsSkills ==
    ASSUME SkillsInd, NEW m \in SkillNames, PinByHand(m)
    PROVE  SkillsInd'
  <1> DEFINE d == [agentDir[m] EXCEPT !.pinned = TRUE]
  <1>1. /\ agentDir[m] # None /\ settings < MaxSettings /\ settings' = settings + 1
        /\ agentDir' = [agentDir EXCEPT ![m].pinned = TRUE]
        /\ UNCHANGED <<up, starts, skills, archive, created, gone, pass, todo, passes, loaded,
                       paused, recent>>
    BY DEF PinByHand, passVars
  <1>2. agentDir' = [agentDir EXCEPT ![m] = d] /\ d \in Dirs /\ d.id = agentDir[m].id
    BY <1>1 DEF SkillsInd, SkillsTypes, Dirs
  <1>3. d # None
    BY <1>2, NoneIsNoRecord
  <1> HIDE DEF d
  <1>4. SkillsTypes' /\ RestTypes'
    <2>1. SkillsTypes'
      BY <1>1, <1>2 DEF SkillsInd, SkillsTypes
    <2>2. RestTypes'
      BY <1>1, NoneIsNoRecord DEF SkillsInd, RestTypes
    <2> QED
      BY <2>1, <2>2
  <1>5. ASSUME NEW n \in SkillNames PROVE HeldOnDisk(n)'
    BY <1>1, <1>2, <1>3, KeptMeans DEF HeldOnDisk, IsAgents, SkillsInd, SkillsTypes
  <1>6. ASSUME NEW i \in ((1..created) \ gone)' PROVE Somewhere(i)'
    <2>1. i \in (1..created) \ gone /\ archive' = archive
      BY <1>1, <1>6
    <2>2. Somewhere(i)
      BY <2>1, KeptMeans DEF SkillsInd
    <2>3. agentDir \in [SkillNames -> Dirs \cup {None}]
      BY DEF SkillsInd, SkillsTypes
    <2> QED
      BY <1>1, <1>2, <1>3, <2>1, <2>2, <2>3 DEF Somewhere
  <1> QED
    BY <1>4, <1>5, <1>6, KeptNext DEF SkillsInd

LEMMA AgedMeans ==
    /\ Aged(None) = None
    /\ \A d \in Dirs : Aged(d) \in Dirs /\ Aged(d) # None /\ Aged(d).id = d.id
  BY NoneIsNoRecord DEF Aged, Dirs, Ages

LEMMA TimeKeepsSkills ==
    ASSUME SkillsInd, TimePasses
    PROVE  SkillsInd'
  <1>1. /\ agentDir' = [n \in SkillNames |-> Aged(agentDir[n])]
        /\ archive' = [n \in SkillNames |-> Aged(archive[n])]
        /\ recent' = FALSE
        /\ UNCHANGED <<up, starts, skills, created, gone, pass, todo, passes, loaded,
                       paused, settings>>
    BY DEF TimePasses, passVars
  <1>2. SkillsTypes' /\ RestTypes'
    BY <1>1, AgedMeans DEF SkillsInd, SkillsTypes, RestTypes
  <1>3. \A n \in SkillNames :
           /\ agentDir[n] # None => agentDir'[n] # None /\ agentDir'[n].id = agentDir[n].id
           /\ archive[n] # None => archive'[n] # None /\ archive'[n].id = archive[n].id
    BY <1>1, AgedMeans DEF SkillsInd, SkillsTypes
  <1>4. ASSUME NEW n \in SkillNames PROVE HeldOnDisk(n)'
    BY <1>1, <1>3, KeptMeans DEF HeldOnDisk, IsAgents, SkillsInd
  <1>5. ASSUME NEW i \in ((1..created) \ gone)' PROVE Somewhere(i)'
    BY <1>1, <1>3, <1>5, KeptMeans DEF Somewhere, SkillsInd
  <1> QED
    BY <1>2, <1>4, <1>5, KeptNext DEF SkillsInd

(* A transition of the curator moves a skill and loses none.               *)
LEMMA AutoKeepsSkills ==
    ASSUME SkillsInd, NEW p \in Passes, AutoStep(p)
    PROVE  SkillsInd'
  <1>1. PICK s \in todo[p] : Transition(s) /\ todo' = [todo EXCEPT ![p] = @ \ {s}]
    BY DEF AutoStep
  <1>2. UNCHANGED <<up, starts, created, gone, pass, passes, loaded, paused, recent, settings>>
    BY DEF AutoStep, stateVars
  <1>3. s \in SkillNames \X SkillRecords /\ todo' \in [Passes -> SUBSET (SkillNames \X SkillRecords)]
    BY <1>1 DEF SkillsInd, SkillsTypes
  <1>4. RestTypes'
    BY <1>2 DEF SkillsInd, RestTypes
  <1>5. CASE UNCHANGED <<skills, agentDir, archive>>
    <2>1. SkillsTypes'
      BY <1>2, <1>3, <1>5 DEF SkillsInd, SkillsTypes
    <2> QED
      BY <1>2, <1>4, <1>5, <2>1, AsideKeepsSkills DEF SkillsInd
  <1>6. ASSUME NEW m \in SkillNames, agentDir[m] # None, archive[m] = None,
               archive' = [archive EXCEPT ![m] = agentDir[m]],
               agentDir' = [agentDir EXCEPT ![m] = None],
               skills' = [skills EXCEPT ![m] = None]
        PROVE  SkillsInd'
    <2>1. SkillsTypes'
      BY <1>2, <1>3, <1>6 DEF SkillsInd, SkillsTypes
    <2>2. ASSUME NEW n \in SkillNames PROVE HeldOnDisk(n)'
      BY <1>6, KeptMeans DEF HeldOnDisk, IsAgents, SkillsInd, SkillsTypes
    <2>3. ASSUME NEW i \in ((1..created) \ gone)' PROVE Somewhere(i)'
      BY <1>2, <1>6, <2>3, KeptMeans DEF Somewhere, SkillsInd, SkillsTypes
    <2> QED
      BY <1>4, <2>1, <2>2, <2>3, KeptNext DEF SkillsInd
  <1>7. ASSUME NEW m \in SkillNames, NEW k \in SkillRecords, NEW d \in Dirs,
               skills[m] # None, agentDir[m] # None,
               k.id = skills[m].id, k.source = skills[m].source, d.id = agentDir[m].id,
               skills' = [skills EXCEPT ![m] = k],
               agentDir' = [agentDir EXCEPT ![m] = d], archive' = archive
        PROVE  SkillsInd'
    <2>1. SkillsTypes'
      BY <1>2, <1>3, <1>7 DEF SkillsInd, SkillsTypes
    <2>2. d # None
      BY NoneIsNoRecord
    <2>3. ASSUME NEW n \in SkillNames PROVE HeldOnDisk(n)'
      BY <1>7, <2>2, KeptMeans DEF HeldOnDisk, IsAgents, SkillsInd, SkillsTypes
    <2>4. ASSUME NEW i \in ((1..created) \ gone)' PROVE Somewhere(i)'
      BY <1>2, <1>7, <2>2, <2>4, KeptMeans DEF Somewhere, SkillsInd, SkillsTypes
    <2> QED
      BY <1>4, <2>1, <2>3, <2>4, KeptNext DEF SkillsInd
  <1> QED
    BY <1>1, <1>3, <1>5, <1>6, <1>7, TransitionMoves

(* What begins and ends a pass, and /curator: the map and the directories  *)
(* stay as they are.                                                       *)
LEMMA PassKeepsSkills ==
    ASSUME SkillsInd,
           \/ \E p \in Passes : BeginPass(p) \/ AutoDone(p) \/ LoadState(p) \/ SaveState(p)
           \/ \E v \in BOOLEAN : SetPaused(v)
    PROVE  SkillsInd'
  <1>1. ASSUME NEW p \in Passes, BeginPass(p) PROVE SkillsInd'
    <2>1. /\ passes < MaxPasses /\ passes' = passes + 1 /\ pass' = [pass EXCEPT ![p] = "auto"]
          /\ todo' = [todo EXCEPT ![p] = {<<n, skills[n]>> : n \in {m \in SkillNames : IsAgents(m)}}]
          /\ UNCHANGED <<up, starts, skills, agentDir, archive, created, gone, loaded,
                         paused, recent, settings>>
      BY <1>1 DEF BeginPass, diskVars, stateVars
    <2>2. {<<n, skills[n]>> : n \in {m \in SkillNames : IsAgents(m)}}
              \subseteq SkillNames \X SkillRecords
      BY DEF SkillsInd, SkillsTypes, IsAgents
    <2>3. SkillsTypes'
      BY <2>1, <2>2 DEF SkillsInd, SkillsTypes
    <2>4. RestTypes'
      BY <2>1, NoneIsNoRecord DEF SkillsInd, RestTypes
    <2> QED
      BY <2>1, <2>3, <2>4, AsideKeepsSkills DEF SkillsInd
  <1>2. ASSUME NEW p \in Passes, AutoDone(p) \/ LoadState(p) \/ SaveState(p) PROVE SkillsInd'
    <2>1. UNCHANGED <<up, starts, skills, agentDir, archive, created, gone, todo, passes, settings>>
      BY <1>2 DEF AutoDone, LoadState, SaveState, diskVars, stateVars
    <2>2. SkillsTypes'
      BY <2>1 DEF SkillsInd, SkillsTypes
    <2>3. RestTypes'
      BY <1>2, <2>1 DEF SkillsInd, RestTypes, AutoDone, LoadState, SaveState, stateVars
    <2> QED
      BY <2>1, <2>2, <2>3, AsideKeepsSkills DEF SkillsInd
  <1>3. ASSUME NEW v \in BOOLEAN, SetPaused(v) PROVE SkillsInd'
    <2>1. /\ settings < MaxSettings /\ settings' = settings + 1 /\ paused' = v
          /\ UNCHANGED <<up, starts, skills, agentDir, archive, created, gone,
                         pass, todo, passes, loaded, recent>>
      BY <1>3 DEF SetPaused, diskVars, passVars
    <2>2. SkillsTypes' /\ RestTypes'
      BY <2>1, NoneIsNoRecord DEF SkillsInd, SkillsTypes, RestTypes
    <2> QED
      BY <2>1, <2>2, AsideKeepsSkills DEF SkillsInd
  <1> QED
    BY <1>1, <1>2, <1>3

LEMMA SkillsStep == SkillsInd /\ [SkillsNext]_skillsVars => SkillsInd'
  <1> SUFFICES ASSUME SkillsInd, [SkillsNext]_skillsVars PROVE SkillsInd'
    OBVIOUS
  <1>1. CASE UNCHANGED skillsVars
    <2>1. UNCHANGED <<up, starts, skills, agentDir, archive, created, gone, pass, todo, passes,
                      loaded, paused, recent, settings>>
      BY <1>1 DEF skillsVars, diskVars, passVars, stateVars
    <2>2. SkillsTypes' /\ RestTypes'
      BY <2>1 DEF SkillsInd, SkillsTypes, RestTypes
    <2> QED
      BY <2>1, <2>2, AsideKeepsSkills DEF SkillsInd
  <1>2. CASE LoadSkills \/ ForgetSkills \/ TimePasses
    BY <1>2, LoadKeepsSkills, ForgetKeepsSkills, TimeKeepsSkills
  <1>3. ASSUME NEW n \in SkillNames,
               CreateSkill(n) \/ DeleteSkill(n) \/ UnarchiveSkill(n) \/ PinByHand(n)
        PROVE  SkillsInd'
    BY <1>3, CreateKeepsSkills, DeleteKeepsSkills, UnarchiveKeepsSkills, PinKeepsSkills
  <1>4. ASSUME NEW p \in Passes, AutoStep(p) PROVE SkillsInd'
    BY <1>4, AutoKeepsSkills
  <1> QED
    BY <1>1, <1>2, <1>3, <1>4, PassKeepsSkills DEF SkillsNext

LEMMA SkillsAlways == SkillsSpec => []SkillsInd
  <1>1. SkillsInit => SkillsInd
    <2> SUFFICES ASSUME SkillsInit PROVE SkillsInd
      OBVIOUS
    <2>1. SkillsTypes
      BY NoneIsNoRecord DEF SkillsInit, SkillsTypes
    <2>2. RestTypes
      <3>1. up \in BOOLEAN /\ paused \in BOOLEAN /\ recent \in BOOLEAN
        BY DEF SkillsInit
      <3>2. starts \in 0..MaxStarts /\ passes \in 0..MaxPasses /\ settings \in 0..MaxSettings
        BY NoneIsNoRecord DEF SkillsInit
      <3>3. pass \in [Passes -> {"idle", "auto", "review", "save"}] /\ loaded \in [Passes -> BOOLEAN]
        BY DEF SkillsInit
      <3> QED
        BY <3>1, <3>2, <3>3 DEF RestTypes
    <2>3. SkillsKept
      BY DEF SkillsInit, SkillsKept, IsAgents
    <2> QED
      BY <2>1, <2>2, <2>3 DEF SkillsInd
  <1> QED
    BY <1>1, SkillsStep, PTL DEF SkillsSpec

(* The types of the manager, the directories and the curator, for any      *)
(* number of skills and passes.                                            *)
THEOREM SkillsTypeCorrect == SkillsSpec => []SkillsTypeOK
  <1>1. SkillsInd => SkillsTypeOK
    BY DEF SkillsInd, SkillsTypes, RestTypes, SkillsTypeOK
  <1> QED
    BY <1>1, SkillsAlways, PTL

(* ArchiveSkill and UnarchiveSkill (manager.go:312, 339): however passes   *)
(* overlap with creations, deletions, restores and restarts, what an agent *)
(* wrote is in the agent directory or in the archive until somebody        *)
(* deletes or rewrites it, and the manager's own copy is the one on disk.  *)
THEOREM SkillsKeptOnDisk == SkillsSpec => []SkillsKept
  <1>1. SkillsInd => SkillsKept
    BY DEF SkillsInd
  <1> QED
    BY <1>1, SkillsAlways, PTL

-----------------------------------------------------------------------------
(***************************************************************************)
(* The counters of the session store, for any number of processes, turns   *)
(* and sessions.  A process keeps the one session it has opened, so the    *)
(* session of a turn that is being stored stays the same between its four  *)
(* statements; what each of them does to the two tables balances.          *)
(***************************************************************************)

Counts == {"userCount", "assistantCount"}

Counting == {t \in Processes \X Submits : storing[t] \in Counts}
CountingFor(s) == {t \in Processes \X Submits : storing[t] \in Counts /\ SessionOf(t[1]) = s}
MissedFor(s) == {i \in DOMAIN missed : missed[i] = s}
RowsFor(s) == {i \in DOMAIN rows : rows[i][1] = s}

Balanced(s) ==
    msgCount[s] + Cardinality(CountingFor(s)) + Cardinality(MissedFor(s)) = Cardinality(RowsFor(s))

StoreTypes ==
    /\ openedBy \in Seq(Processes) /\ Len(openedBy) <= MaxOpened
    /\ stored \subseteq DOMAIN openedBy
    /\ msgCount \in [Sessions -> Nat]
    /\ rows \in Seq(Sessions \X Inserts) /\ missed \in Seq(Sessions)
    /\ storing \in [Processes \X Submits -> {"none"} \cup Inserts \cup Counts]

(* A session for each process, and nothing for a session there is not yet. *)
OneSession ==
    /\ \A i, j \in DOMAIN openedBy : openedBy[i] = openedBy[j] => i = j
    /\ \A t \in Processes \X Submits : storing[t] # "none" => HasSession(t[1])
    /\ \A s \in Sessions \ DOMAIN openedBy : msgCount[s] = 0
    /\ \A i \in DOMAIN rows : rows[i][1] \in DOMAIN openedBy
    /\ \A i \in DOMAIN missed : missed[i] \in DOMAIN openedBy

NotesInd ==
    /\ StoreTypes /\ OneSession
    /\ IsFiniteSet(Counting)
    /\ \A s \in stored : Balanced(s)

(* SessionOf, as an operator of the sequence of processes.                 *)
SessionIn(by, p) == CHOOSE s \in DOMAIN by : by[s] = p /\ \A t \in DOMAIN by : by[t] = p => t <= s

LEMMA SessionIsIn == \A p : SessionOf(p) = SessionIn(openedBy, p)
  BY DEF SessionOf, SessionIn

LEMMA OnlySession ==
    ASSUME NEW by \in Seq(Processes), \A i, j \in DOMAIN by : by[i] = by[j] => i = j,
           NEW i \in DOMAIN by
    PROVE  SessionIn(by, by[i]) = i
  <1>1. by[i] = by[i] /\ \A t \in DOMAIN by : by[t] = by[i] => t <= i
    OBVIOUS
  <1>2. \E s \in DOMAIN by : by[s] = by[i] /\ \A t \in DOMAIN by : by[t] = by[i] => t <= s
    BY <1>1
  <1> QED
    BY <1>2 DEF SessionIn

LEMMA HasSessionIn ==
    ASSUME StoreTypes, OneSession, NEW p, HasSession(p)
    PROVE  SessionOf(p) \in DOMAIN openedBy /\ openedBy[SessionOf(p)] = p /\ SessionOf(p) \in Sessions
  <1>1. PICK i \in DOMAIN openedBy : openedBy[i] = p
    BY DEF HasSession, Range
  <1>2. SessionOf(p) = i
    BY <1>1, SessionIsIn, OnlySession DEF StoreTypes, OneSession
  <1>3. i \in Sessions
    BY NotesAssumption DEF StoreTypes, Sessions
  <1> QED
    BY <1>1, <1>2, <1>3

LEMMA FiniteCounts ==
    ASSUME NotesInd, NEW s
    PROVE  /\ IsFiniteSet(CountingFor(s)) /\ Cardinality(CountingFor(s)) \in Nat
           /\ IsFiniteSet(MissedFor(s)) /\ Cardinality(MissedFor(s)) \in Nat
           /\ IsFiniteSet(RowsFor(s)) /\ Cardinality(RowsFor(s)) \in Nat
  <1>1. IsFiniteSet(CountingFor(s))
    <2>1. CountingFor(s) \subseteq Counting
      BY DEF CountingFor, Counting
    <2> QED
      BY <2>1, FS_Subset DEF NotesInd
  <1>2. IsFiniteSet(MissedFor(s)) /\ IsFiniteSet(RowsFor(s))
    <2>1. DOMAIN missed = 1 .. Len(missed) /\ DOMAIN rows = 1 .. Len(rows)
          /\ Len(missed) \in Nat /\ Len(rows) \in Nat
      BY DEF NotesInd, StoreTypes
    <2>2. IsFiniteSet(DOMAIN missed) /\ IsFiniteSet(DOMAIN rows)
      BY <2>1, FS_Interval
    <2>3. MissedFor(s) \subseteq DOMAIN missed /\ RowsFor(s) \subseteq DOMAIN rows
      BY DEF MissedFor, RowsFor
    <2> QED
      BY <2>2, <2>3, FS_Subset
  <1> QED
    BY <1>1, <1>2, FS_CardinalityType

LEMMA NotesStart == NotesInit => NotesInd
  <1> SUFFICES ASSUME NotesInit PROVE NotesInd
    OBVIOUS
  <1>1. StoreTypes
    BY NotesAssumption DEF NotesInit, StoreTypes
  <1>2. OneSession
    BY DEF NotesInit, OneSession
  <1>3. Counting = {}
    BY DEF NotesInit, Counting, Counts
  <1>4. stored = {}
    BY DEF NotesInit
  <1> QED
    BY <1>1, <1>2, <1>3, <1>4, FS_EmptySet DEF NotesInd

(* The first statement of a turn is nobody's count yet.                    *)
LEMMA EndTurnKeepsNotes ==
    ASSUME NotesInd, NEW p \in Processes, NEW g \in Submits, EndTurn(p, g)
    PROVE  NotesInd'
  <1>1. /\ HasSession(p) /\ storing[<<p, g>>] = "none" /\ storing' = [storing EXCEPT ![<<p, g>>] = "user"]
        /\ UNCHANGED <<openedBy, stored, msgCount, rows, missed>>
    BY DEF EndTurn
  <1>2. storing' = [storing EXCEPT ![<<p, g>>] = "user"] /\ storing[<<p, g>>] = "none"
    BY <1>1
  <1>3. StoreTypes'
    BY <1>1, <1>2 DEF NotesInd, StoreTypes, Inserts
  <1>4. OneSession'
    BY <1>1, <1>2 DEF NotesInd, OneSession, StoreTypes, HasSession
  <1>5. /\ Counting' = Counting
        /\ \A s : /\ CountingFor(s)' = CountingFor(s)
                  /\ MissedFor(s)' = MissedFor(s) /\ RowsFor(s)' = RowsFor(s)
    <2>1. \A t \in Processes \X Submits : storing'[t] \in Counts <=> storing[t] \in Counts
      BY <1>2 DEF NotesInd, StoreTypes, Counts
    <2>2. \A q : SessionOf(q)' = SessionOf(q)
      BY <1>1 DEF SessionOf
    <2> QED
      BY <1>1, <2>1, <2>2 DEF Counting, CountingFor, MissedFor, RowsFor
  <1>6. \A s \in stored' : Balanced(s)'
    BY <1>1, <1>5 DEF NotesInd, Balanced
  <1> QED
    BY <1>3, <1>4, <1>5, <1>6 DEF NotesInd

(* A new session: nothing is recorded for it, and those of the others stay. *)
LEMMA CreateSessionKeepsNotes ==
    ASSUME NotesInd, NEW p \in Processes, CreateSession(p)
    PROVE  NotesInd'
  <1> DEFINE new == Len(openedBy) + 1
  <1>1. /\ Len(openedBy) < MaxOpened /\ ~HasSession(p) /\ openedBy' = Append(openedBy, p)
        /\ UNCHANGED <<msgCount, rows, storing, missed>>
    BY DEF CreateSession
  <1>2. /\ openedBy \in Seq(Processes) /\ Len(openedBy) \in Nat
        /\ DOMAIN openedBy = 1 .. Len(openedBy) /\ stored \subseteq DOMAIN openedBy
    BY DEF NotesInd, StoreTypes
  <1>3. /\ openedBy' \in Seq(Processes) /\ Len(openedBy') = new /\ new \in Nat
        /\ DOMAIN openedBy' = 1 .. new /\ openedBy'[new] = p
        /\ \A i \in DOMAIN openedBy : i \in DOMAIN openedBy' /\ openedBy'[i] = openedBy[i] /\ i # new
        /\ \A i \in DOMAIN openedBy' : i \in DOMAIN openedBy \/ i = new
    BY <1>1, <1>2
  <1>4. \A i \in DOMAIN openedBy : openedBy[i] # p
    BY <1>1 DEF HasSession, Range
  <1>5. \A i, j \in DOMAIN openedBy' : openedBy'[i] = openedBy'[j] => i = j
    BY <1>3, <1>4 DEF NotesInd, OneSession
  <1>6. stored' \subseteq stored \cup {new}
    BY <1>3 DEF CreateSession, Newest
  <1>7. StoreTypes'
    <2>1. Len(openedBy') <= MaxOpened
      BY <1>1, <1>2, <1>3, NotesAssumption
    <2>2. stored' \subseteq DOMAIN openedBy'
      BY <1>2, <1>3, <1>6
    <2> QED
      BY <1>1, <1>3, <2>1, <2>2 DEF NotesInd, StoreTypes, Sessions
  <1>8. \A q : HasSession(q) => HasSession(q)' /\ SessionOf(q)' = SessionOf(q)
    <2> SUFFICES ASSUME NEW q, HasSession(q) PROVE HasSession(q)' /\ SessionOf(q)' = SessionOf(q)
      OBVIOUS
    <2>1. SessionOf(q) \in DOMAIN openedBy /\ openedBy[SessionOf(q)] = q
      BY HasSessionIn DEF NotesInd
    <2>2. SessionOf(q) \in DOMAIN openedBy' /\ openedBy'[SessionOf(q)] = q
      BY <2>1, <1>3
    <2>3. HasSession(q)'
      BY <2>2 DEF HasSession, Range
    <2>4. SessionIn(openedBy', q) = SessionOf(q)
      BY <2>2, <1>3, <1>5, OnlySession
    <2>5. SessionOf(q)' = SessionIn(openedBy', q)
      BY DEF SessionOf, SessionIn
    <2> QED
      BY <2>3, <2>4, <2>5
  <1>9. OneSession'
    <2>1. \A t \in Processes \X Submits : storing'[t] # "none" => HasSession(t[1])'
      BY <1>1, <1>8 DEF NotesInd, OneSession
    <2>2. \A s \in Sessions \ DOMAIN openedBy' : msgCount'[s] = 0
      BY <1>1, <1>3 DEF NotesInd, OneSession
    <2>3. /\ \A i \in DOMAIN rows' : rows'[i][1] \in DOMAIN openedBy'
          /\ \A i \in DOMAIN missed' : missed'[i] \in DOMAIN openedBy'
      BY <1>1, <1>3 DEF NotesInd, OneSession
    <2> QED
      BY <1>5, <2>1, <2>2, <2>3 DEF OneSession
  <1>10. Counting' = Counting
    BY <1>1 DEF Counting
  <1>11. \A s : /\ CountingFor(s)' = CountingFor(s)
                /\ MissedFor(s)' = MissedFor(s) /\ RowsFor(s)' = RowsFor(s)
    <2>1. \A t \in Processes \X Submits : storing[t] \in Counts => SessionOf(t[1])' = SessionOf(t[1])
      BY <1>8 DEF NotesInd, OneSession, Counts
    <2> QED
      BY <1>1, <2>1 DEF CountingFor, MissedFor, RowsFor
  <1>12. Balanced(new)
    <2>1. new \in Sessions /\ new \notin DOMAIN openedBy
      BY <1>1, <1>2, NotesAssumption DEF Sessions
    <2>2. msgCount[new] = 0 /\ MissedFor(new) = {} /\ RowsFor(new) = {}
      BY <2>1 DEF NotesInd, OneSession, MissedFor, RowsFor
    <2>3. \A t \in Processes \X Submits : storing[t] \in Counts => SessionOf(t[1]) \in DOMAIN openedBy
      BY HasSessionIn DEF NotesInd, OneSession, Counts
    <2>4. CountingFor(new) = {}
      BY <2>1, <2>3 DEF CountingFor
    <2>5. Cardinality(MissedFor(new)) = 0 /\ Cardinality(RowsFor(new)) = 0 /\ Cardinality(CountingFor(new)) = 0
      BY <2>2, <2>4, FS_EmptySet
    <2> HIDE DEF new
    <2> QED
      BY <2>2, <2>5 DEF Balanced
  <1>13. \A s \in stored' : Balanced(s)'
    BY <1>1, <1>6, <1>11, <1>12 DEF NotesInd, Balanced
  <1> QED
    BY <1>7, <1>9, <1>10, <1>13 DEF NotesInd

(* What an insert or a count changes of a turn leaves the sessions alone.  *)
LEMMA SessionsStay ==
    ASSUME UNCHANGED openedBy
    PROVE  \A q : SessionOf(q)' = SessionOf(q) /\ HasSession(q)' = HasSession(q)
  BY DEF SessionOf, HasSession

(* A row more, and its count to come.                                      *)
LEMMA InsertKeepsNotes ==
    ASSUME NotesInd, NEW p \in Processes, NEW g \in Submits, InsertMessage(p, g)
    PROVE  NotesInd'
  <1> DEFINE me == <<p, g>>
             own == SessionOf(p)
  <1>1. /\ me \in Processes \X Submits /\ me[1] = p
        /\ storing[me] \in Inserts
        /\ UNCHANGED <<openedBy, stored, msgCount, missed>>
    BY DEF InsertMessage
  <1>2. PICK ok \in BOOLEAN :
          /\ rows' = IF ok THEN Append(rows, <<own, storing[me]>>) ELSE rows
          /\ storing' = [storing EXCEPT ![me] = After(storing[me], ok)]
    BY DEF InsertMessage
  <1>3. HasSession(p) /\ own \in DOMAIN openedBy /\ own \in Sessions
    <2>1. HasSession(p)
      BY <1>1 DEF NotesInd, OneSession, Inserts
    <2> QED
      BY <2>1, HasSessionIn DEF NotesInd
  <1>4. \A q : SessionOf(q)' = SessionOf(q) /\ HasSession(q)' = HasSession(q)
    BY <1>1, SessionsStay
  <1>5. /\ ok => After(storing[me], ok) \in Counts
        /\ ~ok => After(storing[me], ok) \in {"none"} \cup Inserts
        /\ storing[me] \notin Counts /\ storing[me] # "none"
    BY <1>1 DEF After, Counts, Inserts
  <1>6. /\ storing' \in [Processes \X Submits -> {"none"} \cup Inserts \cup Counts]
        /\ storing'[me] = After(storing[me], ok)
        /\ \A t \in Processes \X Submits : t # me => storing'[t] = storing[t]
    BY <1>1, <1>2, <1>5 DEF NotesInd, StoreTypes
  <1>7. rows \in Seq(Sessions \X Inserts) /\ <<own, storing[me]>> \in Sessions \X Inserts
    BY <1>1, <1>3 DEF NotesInd, StoreTypes
  <1>8. StoreTypes'
    BY <1>1, <1>2, <1>6, <1>7 DEF NotesInd, StoreTypes
  <1>9. OneSession'
    <2>1. \A t \in Processes \X Submits : storing'[t] # "none" => HasSession(t[1])'
      BY <1>1, <1>3, <1>4, <1>6 DEF NotesInd, OneSession
    <2>2. \A i \in DOMAIN rows' : rows'[i][1] \in DOMAIN openedBy
      <3>1. CASE ok
        BY <1>2, <1>3, <1>7, <3>1 DEF NotesInd, OneSession
      <3>2. CASE ~ok
        BY <1>2, <3>2 DEF NotesInd, OneSession
      <3> QED
        BY <3>1, <3>2
    <2> QED
      BY <1>1, <2>1, <2>2 DEF NotesInd, OneSession
  <1>10. CASE ok
    <2>1. Counting' = Counting \cup {me}
      BY <1>1, <1>5, <1>6, <1>10 DEF Counting
    <2>2. ASSUME NEW s
          PROVE  CountingFor(s)' = IF s = own THEN CountingFor(s) \cup {me} ELSE CountingFor(s)
      <3>1. \A t \in Processes \X Submits : SessionOf(t[1])' = SessionOf(t[1])
        BY <1>4
      <3>2. me \in Processes \X Submits /\ storing'[me] \in Counts /\ SessionOf(me[1]) = own
        BY <1>1, <1>5, <1>6, <1>10
      <3> QED
        BY <1>6, <3>1, <3>2 DEF CountingFor
    <2>3. me \notin CountingFor(own)
      BY <1>5 DEF CountingFor
    <2>4. /\ rows' = Append(rows, <<own, storing[me]>>) /\ Len(rows) \in Nat
          /\ DOMAIN rows = 1 .. Len(rows) /\ DOMAIN rows' = 1 .. Len(rows) + 1
          /\ rows'[Len(rows) + 1][1] = own
          /\ \A i \in DOMAIN rows : rows'[i] = rows[i]
      BY <1>2, <1>7, <1>10
    <2>5. \A s : RowsFor(s)' = IF s = own THEN RowsFor(s) \cup {Len(rows) + 1} ELSE RowsFor(s)
      BY <2>4 DEF RowsFor
    <2>6. Len(rows) + 1 \notin RowsFor(own)
      BY <2>4 DEF RowsFor
    <2>7. IsFiniteSet(Counting')
      BY <2>1, FS_AddElement DEF NotesInd
    <2>8. ASSUME NEW s \in stored PROVE Balanced(s)'
      <3>1. MissedFor(s)' = MissedFor(s) /\ msgCount' = msgCount
        BY <1>1 DEF MissedFor
      <3>2. msgCount[s] \in Nat
        BY NotesAssumption DEF NotesInd, StoreTypes, Sessions
      <3>3. Balanced(s)
        BY DEF NotesInd
      <3>4. CASE s # own
        BY <2>2, <2>5, <3>1, <3>3, <3>4 DEF Balanced
      <3>5. CASE s = own
        <4>1. Cardinality(CountingFor(s)') = Cardinality(CountingFor(s)) + 1
          BY <2>2, <2>3, <3>5, FiniteCounts, FS_AddElement
        <4>2. Cardinality(RowsFor(s)') = Cardinality(RowsFor(s)) + 1
          BY <2>5, <2>6, <3>5, FiniteCounts, FS_AddElement
        <4>3. /\ Cardinality(CountingFor(s)) \in Nat /\ Cardinality(MissedFor(s)) \in Nat
              /\ Cardinality(RowsFor(s)) \in Nat
          BY FiniteCounts
        <4> QED
          BY <3>1, <3>2, <3>3, <4>1, <4>2, <4>3 DEF Balanced
      <3> QED
        BY <3>4, <3>5
    <2> QED
      BY <1>1, <1>8, <1>9, <2>7, <2>8 DEF NotesInd
  <1>11. CASE ~ok
    <2>1. \A t \in Processes \X Submits : storing'[t] \in Counts <=> storing[t] \in Counts
      <3>1. After(storing[me], ok) \notin Counts
        BY <1>5, <1>11 DEF Counts, Inserts
      <3> QED
        BY <1>5, <1>6, <3>1
    <2>2. rows' = rows
      BY <1>2, <1>11
    <2>3. /\ Counting' = Counting
          /\ \A s : /\ CountingFor(s)' = CountingFor(s)
                    /\ MissedFor(s)' = MissedFor(s) /\ RowsFor(s)' = RowsFor(s)
      BY <1>1, <1>4, <2>1, <2>2 DEF Counting, CountingFor, MissedFor, RowsFor
    <2>4. \A s \in stored' : Balanced(s)'
      BY <1>1, <2>3 DEF NotesInd, Balanced
    <2> QED
      BY <1>8, <1>9, <2>3, <2>4 DEF NotesInd
  <1> QED
    BY <1>10, <1>11

(* The count that was to come: made, refused by the table, or failed.      *)
LEMMA CountKeepsNotes ==
    ASSUME NotesInd, NEW p \in Processes, NEW g \in Submits, CountMessage(p, g)
    PROVE  NotesInd'
  <1> DEFINE me == <<p, g>>
             own == SessionOf(p)
  <1>1. /\ me \in Processes \X Submits /\ me[1] = p
        /\ storing[me] \in Counts
        /\ storing' = [storing EXCEPT ![me] = After(storing[me], TRUE)]
        /\ UNCHANGED <<openedBy, stored, rows>>
    BY DEF CountMessage, Counts
  <1>2. \/ msgCount' = Counted(p) /\ UNCHANGED missed
        \/ missed' = Append(missed, own) /\ UNCHANGED msgCount
    BY DEF CountMessage
  <1>3. HasSession(p) /\ own \in DOMAIN openedBy /\ own \in Sessions
    <2>1. HasSession(p)
      BY <1>1 DEF NotesInd, OneSession, Counts
    <2> QED
      BY <2>1, HasSessionIn DEF NotesInd
  <1>4. \A q : SessionOf(q)' = SessionOf(q) /\ HasSession(q)' = HasSession(q)
    BY <1>1, SessionsStay
  <1>5. After(storing[me], TRUE) \in {"none"} \cup Inserts /\ After(storing[me], TRUE) \notin Counts
    BY <1>1 DEF After, Counts, Inserts
  <1>6. /\ storing' \in [Processes \X Submits -> {"none"} \cup Inserts \cup Counts]
        /\ storing'[me] = After(storing[me], TRUE)
        /\ \A t \in Processes \X Submits : t # me => storing'[t] = storing[t]
    BY <1>1, <1>5 DEF NotesInd, StoreTypes
  <1>7. /\ missed \in Seq(Sessions) /\ msgCount \in [Sessions -> Nat]
        /\ stored \subseteq Sessions /\ DOMAIN openedBy \subseteq Sessions
    BY NotesAssumption DEF NotesInd, StoreTypes, Sessions
  <1>8. Counting' = Counting \ {me}
    BY <1>1, <1>5, <1>6 DEF Counting
  <1>9. \A s : CountingFor(s)' = IF s = own THEN CountingFor(s) \ {me} ELSE CountingFor(s)
    BY <1>1, <1>4, <1>5, <1>6 DEF CountingFor
  <1>10. me \in CountingFor(own)
    BY <1>1 DEF CountingFor
  <1>11. \A s : RowsFor(s)' = RowsFor(s)
    BY <1>1 DEF RowsFor
  <1>12. IsFiniteSet(Counting')
    BY <1>8, FS_RemoveElement DEF NotesInd
  <1>13. \A t \in Processes \X Submits : storing'[t] # "none" => HasSession(t[1])'
    BY <1>1, <1>3, <1>4, <1>6 DEF NotesInd, OneSession
  <1>14. /\ \A i, j \in DOMAIN openedBy' : openedBy'[i] = openedBy'[j] => i = j
         /\ \A i \in DOMAIN rows' : rows'[i][1] \in DOMAIN openedBy'
    BY <1>1 DEF NotesInd, OneSession
  <1>15. ASSUME NEW s, s = own
         PROVE  /\ Cardinality(CountingFor(s)') + 1 = Cardinality(CountingFor(s))
                /\ Cardinality(CountingFor(s)') \in Nat
    <2>1. IsFiniteSet(CountingFor(s)) /\ Cardinality(CountingFor(s)) \in Nat
      BY FiniteCounts
    <2>2. CountingFor(s)' = CountingFor(s) \ {me}
      BY <1>9, <1>15
    <2>3. IsFiniteSet(CountingFor(s) \ {me})
          /\ Cardinality(CountingFor(s) \ {me}) = Cardinality(CountingFor(s)) - 1
      BY <1>10, <1>15, <2>1, FS_RemoveElement
    <2>4. Cardinality(CountingFor(s) \ {me}) \in Nat
      BY <2>3, FS_CardinalityType
    <2> QED
      BY <2>1, <2>2, <2>3, <2>4
  <1> HIDE DEF me, own
  <1>16. CASE msgCount' = Counted(p) /\ UNCHANGED missed
    <2>1. \A s \in Sessions : msgCount'[s] = IF s = own /\ s \in stored THEN msgCount[s] + 1 ELSE msgCount[s]
      BY <1>16 DEF Counted, own
    <2>2. msgCount' \in [Sessions -> Nat]
      <3>1. msgCount' = [s \in Sessions |-> IF s = own /\ s \in stored THEN msgCount[s] + 1 ELSE msgCount[s]]
        BY <1>16 DEF Counted, own
      <3> QED
        BY <1>7, <3>1
    <2>3. StoreTypes'
      BY <1>1, <1>6, <1>16, <2>2 DEF NotesInd, StoreTypes
    <2>4. \A s \in Sessions \ DOMAIN openedBy' : msgCount'[s] = 0
      BY <1>1, <1>3, <2>1 DEF NotesInd, OneSession
    <2>5. OneSession'
      BY <1>1, <1>13, <1>14, <1>16, <2>4 DEF NotesInd, OneSession
    <2>6. ASSUME NEW s \in stored PROVE Balanced(s)'
      <3>1. MissedFor(s)' = MissedFor(s) /\ RowsFor(s)' = RowsFor(s)
        BY <1>11, <1>16 DEF MissedFor
      <3>2. Balanced(s) /\ msgCount[s] \in Nat /\ s \in Sessions
        BY <1>7 DEF NotesInd
      <3>3. CASE s # own
        BY <1>9, <2>1, <3>1, <3>2, <3>3 DEF Balanced
      <3>4. CASE s = own
        <4>1. msgCount'[s] = msgCount[s] + 1
          BY <2>1, <3>2, <3>4
        <4>2. Cardinality(CountingFor(s)') + 1 = Cardinality(CountingFor(s))
              /\ Cardinality(CountingFor(s)') \in Nat
          BY <1>15, <3>4
        <4>3. Cardinality(MissedFor(s)) \in Nat /\ Cardinality(RowsFor(s)) \in Nat
          BY FiniteCounts
        <4> QED
          BY <3>1, <3>2, <4>1, <4>2, <4>3 DEF Balanced
      <3> QED
        BY <3>3, <3>4
    <2> QED
      BY <1>1, <1>12, <2>3, <2>5, <2>6 DEF NotesInd
  <1>17. CASE missed' = Append(missed, own) /\ UNCHANGED msgCount
    <2>1. /\ Len(missed) \in Nat /\ DOMAIN missed = 1 .. Len(missed)
          /\ DOMAIN missed' = 1 .. Len(missed) + 1 /\ missed'[Len(missed) + 1] = own
          /\ \A i \in DOMAIN missed : missed'[i] = missed[i]
      BY <1>3, <1>7, <1>17
    <2>2. missed' \in Seq(Sessions)
      BY <1>3, <1>7, <1>17
    <2>3. StoreTypes'
      BY <1>1, <1>6, <1>17, <2>2 DEF NotesInd, StoreTypes
    <2>4. \A i \in DOMAIN missed' : missed'[i] \in DOMAIN openedBy'
      BY <1>1, <1>3, <2>1 DEF NotesInd, OneSession
    <2>5. OneSession'
      BY <1>1, <1>13, <1>14, <1>17, <2>4 DEF NotesInd, OneSession
    <2>6. \A s : MissedFor(s)' = IF s = own THEN MissedFor(s) \cup {Len(missed) + 1} ELSE MissedFor(s)
      BY <2>1 DEF MissedFor
    <2>7. Len(missed) + 1 \notin MissedFor(own)
      BY <2>1 DEF MissedFor
    <2>8. ASSUME NEW s \in stored PROVE Balanced(s)'
      <3>1. RowsFor(s)' = RowsFor(s) /\ msgCount' = msgCount
        BY <1>11, <1>17
      <3>2. Balanced(s) /\ msgCount[s] \in Nat
        BY <1>7 DEF NotesInd
      <3>3. CASE s # own
        BY <1>9, <2>6, <3>1, <3>2, <3>3 DEF Balanced
      <3>4. CASE s = own
        <4>1. Cardinality(MissedFor(s)') = Cardinality(MissedFor(s)) + 1
          BY <2>6, <2>7, <3>4, FiniteCounts, FS_AddElement
        <4>2. Cardinality(CountingFor(s)') + 1 = Cardinality(CountingFor(s))
              /\ Cardinality(CountingFor(s)') \in Nat
          BY <1>15, <3>4
        <4>3. Cardinality(MissedFor(s)) \in Nat /\ Cardinality(RowsFor(s)) \in Nat
          BY FiniteCounts
        <4> QED
          BY <3>1, <3>2, <4>1, <4>2, <4>3 DEF Balanced
      <3> QED
        BY <3>3, <3>4
    <2> QED
      BY <1>1, <1>12, <2>3, <2>5, <2>8 DEF NotesInd
  <1> QED
    BY <1>2, <1>16, <1>17 DEF own

(* A step that does not touch the session store.                           *)
LEMMA OtherKeepsNotes ==
    ASSUME NotesInd, UNCHANGED sessionVars
    PROVE  NotesInd'
  <1>1. UNCHANGED <<openedBy, stored, msgCount, rows, storing, missed>>
    BY DEF sessionVars
  <1>2. \A q : SessionOf(q)' = SessionOf(q) /\ HasSession(q)' = HasSession(q)
    BY <1>1, SessionsStay
  <1>3. StoreTypes' /\ OneSession'
    BY <1>1, <1>2 DEF NotesInd, StoreTypes, OneSession
  <1>4. /\ Counting' = Counting
        /\ \A s : /\ CountingFor(s)' = CountingFor(s)
                  /\ MissedFor(s)' = MissedFor(s) /\ RowsFor(s)' = RowsFor(s)
    BY <1>1, <1>2 DEF Counting, CountingFor, MissedFor, RowsFor
  <1>5. \A s \in stored' : Balanced(s)'
    BY <1>1, <1>4 DEF NotesInd, Balanced
  <1> QED
    BY <1>3, <1>4, <1>5 DEF NotesInd

LEMMA NotesStep == NotesInd /\ [NotesNext]_notesVars => NotesInd'
  <1> SUFFICES ASSUME NotesInd, [NotesNext]_notesVars PROVE NotesInd'
    OBVIOUS
  <1>1. CASE MemoryNext
    <2>1. UNCHANGED sessionVars
      BY <1>1 DEF MemoryNext, StatMemory, WriteMemory, RemoveMemory, ClearMemories, LoadEntries
    <2> QED
      BY <2>1, OtherKeepsNotes
  <1>2. CASE TodoNext
    <2>1. UNCHANGED sessionVars
      BY <1>2 DEF TodoNext, DoAdd, DoUpdate, DoRemove
    <2> QED
      BY <2>1, OtherKeepsNotes
  <1>3. CASE StoreNext
    BY <1>3, CreateSessionKeepsNotes, EndTurnKeepsNotes, InsertKeepsNotes, CountKeepsNotes
       DEF StoreNext
  <1>4. CASE UNCHANGED notesVars
    BY <1>4, OtherKeepsNotes DEF notesVars
  <1> QED
    BY <1>1, <1>2, <1>3, <1>4 DEF NotesNext

(* AddMessage (store.go:107): the counter of a stored session is the number of its
   messages, but for those whose count is still to come or failed, for any number of
   processes, sessions and turns that overlap (CountsMessages). *)
THEOREM SessionsCounted == NotesSpec => []CountsMessages
  <1>1. NotesInd => CountsMessages
    BY DEF NotesInd, CountsMessages, Balanced, CountingFor, Counts, MissedFor, RowsFor
  <1> QED
    BY <1>1, NotesStart, NotesStep, PTL DEF NotesSpec

-----------------------------------------------------------------------------
(* Sequences over any set *)
LEMMA AppendIsTyped ==
    ASSUME NEW S, NEW s \in Seq(S), NEW e \in S
    PROVE  Append(s, e) \in Seq(S) /\ <<e>> \in Seq(S)
  OBVIOUS

LEMMA ElementIsTyped ==
    ASSUME NEW S, NEW s \in Seq(S), NEW i \in DOMAIN s
    PROVE  s[i] \in S
  OBVIOUS

(***************************************************************************)
(* The other types of Workspace: ReadInv has those of the times and of     *)
(* what each agent does next.                                              *)
(***************************************************************************)
FileTypes ==
    /\ changes \in 0..MaxChanges /\ content \in Contents
    /\ since \in [Agents -> SUBSET Contents]

ShadowTypes == staged \in Contents /\ commits \in Seq(Contents)

TurnTypes ==
    /\ turn \in 0..MaxTurns
    /\ marked \in BOOLEAN /\ taken \in BOOLEAN /\ failed \in BOOLEAN

UseTypes ==
    /\ uses \in 0..MaxUses
    /\ tool \in [Agents -> {"write", "patch", "bash", "read"}]
    /\ got \in [Agents -> Contents]

TrackerTypes ==
    seen \in Contents /\ consec \in 0..MaxConsec

WorkspaceInd ==
    ReadInv /\ FileTypes /\ ShadowTypes /\ TurnTypes /\ UseTypes /\ TrackerTypes

LEMMA WorkspaceStarts == WorkspaceInit => WorkspaceInd
  <1> SUFFICES ASSUME WorkspaceInit PROVE WorkspaceInd
    OBVIOUS
  <1> USE WorkspaceAssumption DEF WorkspaceInit
  <1>1. ReadInv
    BY ReadInit
  <1>2. FileTypes
    BY DEF FileTypes
  <1>3. ShadowTypes
    BY DEF ShadowTypes
  <1>4. UseTypes
    BY DEF UseTypes
  <1>5. TrackerTypes
    BY DEF TrackerTypes
  <1>6. TurnTypes
    <2>1. turn \in 0..MaxTurns
      OBVIOUS
    <2> QED
      BY <2>1, Zenon DEF TurnTypes
  <1> QED
    BY <1>1, <1>2, <1>3, <1>4, <1>5, <1>6 DEF WorkspaceInd

LEMMA ChangeFileTypes ==
    ASSUME FileTypes, NEW c \in Contents, ChangeFile(c)
    PROVE  content' \in Contents /\ since' \in [Agents -> SUBSET Contents]
  BY DEF ChangeFile, FileTypes

LEMMA OneMoreChangeTypes ==
    ASSUME FileTypes, OneMoreChange
    PROVE  changes' \in 0..MaxChanges
  BY WorkspaceAssumption DEF OneMoreChange, FileTypes

LEMMA FileStep ==
    ASSUME FileTypes, ShadowTypes, [WorkspaceNext]_workspaceVars
    PROVE  FileTypes'
  <1>0. Empty \in Contents
    BY WorkspaceAssumption
  <1>1. CASE UNCHANGED <<changes, content, since>>
    BY <1>1 DEF FileTypes
  <1>2. ASSUME NEW c \in Contents, ChangeFile(c), OneMoreChange \/ UNCHANGED changes
        PROVE  FileTypes'
    <2>1. changes' \in 0..MaxChanges
      BY <1>2, OneMoreChangeTypes DEF FileTypes
    <2> QED
      BY <1>2, <2>1, ChangeFileTypes DEF FileTypes
  <1>3. ASSUME NEW a \in Agents, Edit(a) \/ WritePatch(a) \/ Fill(a) PROVE FileTypes'
    <2>1. \/ UNCHANGED <<changes, content, since>>
          \/ \E c \in Contents : ChangeFile(c) /\ (OneMoreChange \/ UNCHANGED changes)
      BY <1>0, <1>3 DEF Edit, WritePatch, Fill, Truncate, fileVars
    <2> QED
      BY <1>1, <1>2, <2>1
  <1>4. CASE Restore
    <2>1. PICK i \in DOMAIN commits : ChangeFile(commits[i])
      BY <1>4 DEF Restore
    <2>2. commits[i] \in Contents /\ OneMoreChange
      BY <1>4, <2>1, ElementIsTyped DEF Restore, ShadowTypes
    <2> QED
      BY <1>2, <2>1, <2>2
  <1>5. ASSUME NEW a \in Agents, Stat(a) \/ CheckTracker(a) PROVE FileTypes'
    <2>1. since' \in [Agents -> SUBSET Contents]
      BY <1>5 DEF Stat, CheckTracker, FileTypes
    <2>2. UNCHANGED <<changes, content>>
      BY <1>5 DEF Stat, CheckTracker, fileVars
    <2> QED
      BY <2>1, <2>2 DEF FileTypes
  <1>6. ASSUME NEW a \in Agents,
               \/ \E t \in {"write", "patch", "bash", "read"} : UseTool(a, t)
               \/ EnsureCheckpoint(a) \/ Stage(a) \/ Commit(a) \/ Prune(a) \/ Load(a) \/ Record(a)
        PROVE  UNCHANGED <<changes, content, since>>
    BY <1>6 DEF UseTool, EnsureCheckpoint, Stage, Commit, Prune, Load, Record, fileVars
  <1>7. CASE NewTurn \/ ReadOthers \/ UNCHANGED workspaceVars
    BY <1>1, <1>7 DEF NewTurn, ReadOthers, agentVars, workspaceVars, fileVars
  <1> QED
    BY <1>1, <1>3, <1>4, <1>5, <1>6, <1>7 DEF WorkspaceNext

LEMMA ShadowStep ==
    ASSUME FileTypes, ShadowTypes, [WorkspaceNext]_workspaceVars
    PROVE  ShadowTypes'
  <1>1. CASE UNCHANGED <<staged, commits>>
    BY <1>1 DEF ShadowTypes
  <1>2. ASSUME NEW a \in Agents, Stage(a) PROVE ShadowTypes'
    BY <1>2 DEF Stage, ShadowTypes, FileTypes
  <1>3. ASSUME NEW a \in Agents, Commit(a) \/ Prune(a) PROVE ShadowTypes'
    <2>1. staged' = staged /\ commits' \in {commits, Append(commits, staged), <<staged>>}
      BY <1>3 DEF Commit, Prune
    <2>2. Append(commits, staged) \in Seq(Contents) /\ <<staged>> \in Seq(Contents)
      BY AppendIsTyped DEF ShadowTypes
    <2> QED
      BY <2>1, <2>2 DEF ShadowTypes
  <1>4. CASE Restore
    <2>1. PICK i \in DOMAIN commits : staged' = commits[i]
      BY <1>4 DEF Restore
    <2>2. commits[i] \in Contents
      BY <2>1, ElementIsTyped DEF ShadowTypes
    <2>3. commits' = commits
      BY <1>4 DEF Restore
    <2> QED
      BY <2>1, <2>2, <2>3 DEF ShadowTypes
  <1>5. ASSUME NEW a \in Agents,
               \/ \E t \in {"write", "patch", "bash", "read"} : UseTool(a, t)
               \/ EnsureCheckpoint(a) \/ Edit(a) \/ WritePatch(a) \/ Fill(a)
               \/ Stat(a) \/ CheckTracker(a) \/ Load(a) \/ Record(a)
        PROVE  UNCHANGED <<staged, commits>>
    BY <1>5 DEF UseTool, EnsureCheckpoint, Edit, WritePatch, Fill, Stat, CheckTracker, Load, Record, gitVars
  <1>6. CASE NewTurn \/ ReadOthers \/ UNCHANGED workspaceVars
    BY <1>1, <1>6 DEF NewTurn, ReadOthers, gitVars, workspaceVars
  <1> QED
    BY <1>1, <1>2, <1>3, <1>4, <1>5, <1>6 DEF WorkspaceNext

LEMMA TurnStep ==
    ASSUME TurnTypes, [WorkspaceNext]_workspaceVars
    PROVE  TurnTypes'
  <1>1. CASE UNCHANGED <<turn, marked, taken, failed>>
    BY <1>1 DEF TurnTypes
  <1>2. CASE NewTurn
    <2>1. turn' \in 0..MaxTurns
      BY <1>2, WorkspaceAssumption DEF NewTurn, TurnTypes
    <2>2. marked' = FALSE /\ taken' = FALSE /\ failed' = FALSE
      BY <1>2 DEF NewTurn
    <2> QED
      BY <2>1, <2>2, Zenon DEF TurnTypes
  <1>3. ASSUME NEW a \in Agents, EnsureCheckpoint(a) \/ Stage(a) \/ Commit(a)
        PROVE  TurnTypes'
    BY <1>3 DEF EnsureCheckpoint, Mark, Stage, Commit, TurnTypes
  <1>4. ASSUME NEW a \in Agents,
               \/ \E t \in {"write", "patch", "bash", "read"} : UseTool(a, t)
               \/ Prune(a) \/ Edit(a) \/ WritePatch(a) \/ Fill(a)
               \/ Stat(a) \/ CheckTracker(a) \/ Load(a) \/ Record(a)
        PROVE  UNCHANGED <<turn, marked, taken, failed>>
    BY <1>4 DEF UseTool, Prune, Edit, WritePatch, Fill, Stat, CheckTracker, Load, Record, gitVars
  <1>5. CASE Restore \/ ReadOthers \/ UNCHANGED workspaceVars
    BY <1>1, <1>5 DEF Restore, ReadOthers, gitVars, workspaceVars
  <1> QED
    BY <1>1, <1>2, <1>3, <1>4, <1>5 DEF WorkspaceNext

LEMMA UseStep ==
    ASSUME FileTypes, UseTypes, [WorkspaceNext]_workspaceVars
    PROVE  UseTypes'
  <1> USE WorkspaceAssumption
  <1>1. CASE UNCHANGED <<uses, tool, got>>
    BY <1>1 DEF UseTypes
  <1>2. ASSUME NEW a \in Agents, NEW t \in {"write", "patch", "bash", "read"}, UseTool(a, t)
        PROVE  UseTypes'
    BY <1>2 DEF UseTool, UseTypes
  <1>3. ASSUME NEW a \in Agents, Edit(a) \/ Load(a) PROVE UseTypes'
    <2>1. got' \in {got, [got EXCEPT ![a] = content]} /\ UNCHANGED <<uses, tool>>
      BY <1>3 DEF Edit, Load
    <2> QED
      BY <2>1 DEF UseTypes, FileTypes
  <1>4. ASSUME NEW a \in Agents,
               \/ EnsureCheckpoint(a) \/ Stage(a) \/ Commit(a) \/ Prune(a) \/ WritePatch(a)
               \/ Fill(a) \/ Stat(a) \/ CheckTracker(a) \/ Record(a)
        PROVE  UNCHANGED <<uses, tool, got>>
    BY <1>4 DEF EnsureCheckpoint, Stage, Commit, Prune, WritePatch, Fill, Stat, CheckTracker, Record
  <1>5. CASE NewTurn \/ Restore \/ ReadOthers \/ UNCHANGED workspaceVars
    BY <1>1, <1>5 DEF NewTurn, Restore, ReadOthers, agentVars, workspaceVars
  <1> QED
    BY <1>1, <1>2, <1>3, <1>4, <1>5 DEF WorkspaceNext

LEMMA TrackerStep ==
    ASSUME UseTypes, TrackerTypes, [WorkspaceNext]_workspaceVars
    PROVE  TrackerTypes'
  <1>1. CASE UNCHANGED <<seen, consec>>
    BY <1>1 DEF TrackerTypes
  <1>2. ASSUME NEW a \in Agents, CheckTracker(a) PROVE TrackerTypes'
    BY <1>2, WorkspaceAssumption DEF CheckTracker, TrackerTypes
  <1>3. ASSUME NEW a \in Agents, Record(a) PROVE TrackerTypes'
    BY <1>3 DEF Record, TrackerTypes, UseTypes
  <1>4. CASE ReadOthers
    BY <1>4, WorkspaceAssumption DEF ReadOthers, TrackerTypes
  <1>5. ASSUME NEW a \in Agents,
               \/ \E t \in {"write", "patch", "bash", "read"} : UseTool(a, t)
               \/ EnsureCheckpoint(a) \/ Stage(a) \/ Commit(a) \/ Prune(a)
               \/ Edit(a) \/ WritePatch(a) \/ Fill(a) \/ Stat(a) \/ Load(a)
        PROVE  UNCHANGED <<seen, consec>>
    BY <1>5 DEF UseTool, EnsureCheckpoint, Stage, Commit, Prune, Edit, WritePatch, Fill, Stat, Load, trackerVars
  <1>6. CASE NewTurn \/ Restore \/ UNCHANGED workspaceVars
    BY <1>1, <1>6 DEF NewTurn, Restore, workspaceVars, trackerVars
  <1> QED
    BY <1>1, <1>2, <1>3, <1>4, <1>5, <1>6 DEF WorkspaceNext

(* The types of Workspace, for any number of agents, turns, changes and times: *)
(* the shadow repository and the reads have contents of the file only.     *)
THEOREM WorkspaceTypeCorrect == WorkspaceSpec => []WorkspaceTypeOK
  <1>1. WorkspaceInd /\ [WorkspaceNext]_workspaceVars => WorkspaceInd'
    BY ReadNext, FileStep, ShadowStep, TurnStep, UseStep, TrackerStep DEF WorkspaceInd
  <1>2. WorkspaceInd => WorkspaceTypeOK
    BY DEF WorkspaceInd, ReadInv, ReadTypes, FileTypes, ShadowTypes, TurnTypes, UseTypes,
           TrackerTypes, WorkspaceTypeOK
  <1> QED
    BY WorkspaceStarts, <1>1, <1>2, PTL DEF WorkspaceSpec

(***************************************************************************)
(* SnapshotsAccounted.  The tool that marks the project goes to stage; it  *)
(* leaves stage and commit by taking the snapshot or by giving it up.      *)
(***************************************************************************)
AtWork(a) == pc[a] \in {"stage", "commit"}

LEMMA SnapshotsKept ==
    ASSUME SnapshotsAccounted, UNCHANGED <<marked, taken, failed>>,
           \A b \in Agents : AtWork(b) => AtWork(b)'
    PROVE  SnapshotsAccounted'
  BY DEF SnapshotsAccounted, AtWork

LEMMA SnapshotsStep ==
    ASSUME ReadInv, SnapshotsAccounted, [WorkspaceNext]_workspaceVars
    PROVE  SnapshotsAccounted'
  <1>0. DOMAIN pc = Agents
    BY DEF ReadInv, ReadTypes
  <1>1. CASE NewTurn
    BY <1>1 DEF NewTurn, SnapshotsAccounted
  <1>2. ASSUME NEW a \in Agents, EnsureCheckpoint(a) PROVE SnapshotsAccounted'
    <2>1. CASE UNCHANGED marked /\ Goto(a, "edit")
      <3>1. \A b \in Agents : AtWork(b) => AtWork(b)'
        BY <1>0, <1>2, <2>1 DEF EnsureCheckpoint, Goto, AtWork
      <3> QED
        BY <1>2, <2>1, <3>1, SnapshotsKept DEF EnsureCheckpoint
    <2>2. CASE Goto(a, "stage")
      BY <1>0, <2>2 DEF Goto, SnapshotsAccounted
    <2> QED
      BY <1>2, <2>1, <2>2 DEF EnsureCheckpoint
  <1>3. ASSUME NEW a \in Agents, Stage(a) PROVE SnapshotsAccounted'
    <2>1. CASE Goto(a, "commit")
      BY <1>0, <2>1 DEF Goto, SnapshotsAccounted
    <2>2. CASE failed' = TRUE
      BY <2>2 DEF SnapshotsAccounted
    <2> QED
      BY <1>3, <2>1, <2>2 DEF Stage
  <1>4. ASSUME NEW a \in Agents, Commit(a) PROVE SnapshotsAccounted'
    BY <1>4 DEF Commit, SnapshotsAccounted
  <1>5. ASSUME NEW a \in Agents,
               \/ \E t \in {"write", "patch", "bash", "read"} : UseTool(a, t)
               \/ Prune(a) \/ Edit(a) \/ WritePatch(a) \/ Fill(a)
               \/ Stat(a) \/ CheckTracker(a) \/ Load(a) \/ Record(a)
        PROVE  SnapshotsAccounted'
    <2>1. UNCHANGED <<marked, taken, failed>>
      BY <1>5 DEF UseTool, Prune, Edit, WritePatch, Fill, Stat, CheckTracker, Load, Record, gitVars
    <2>2. ~AtWork(a) /\ \E step : Goto(a, step)
      BY <1>5 DEF UseTool, Prune, Edit, WritePatch, Fill, Truncate, Stat, CheckTracker,
                  Load, Record, AtWork
    <2>3. \A b \in Agents : AtWork(b) => AtWork(b)'
      BY <1>0, <2>2 DEF Goto, AtWork
    <2> QED
      BY <2>1, <2>3, SnapshotsKept
  <1>6. CASE Restore \/ ReadOthers \/ UNCHANGED workspaceVars
    <2>1. UNCHANGED <<marked, taken, failed, pc>>
      BY <1>6 DEF Restore, ReadOthers, gitVars, agentVars, workspaceVars
    <2> QED
      BY <2>1, SnapshotsKept DEF AtWork
  <1> QED
    BY <1>1, <1>2, <1>3, <1>4, <1>5, <1>6 DEF WorkspaceNext

(* EnsureCheckpoint (manager.go:51-66), for any agents at work at once: a tool  *)
(* that finds the project marked finds that this turn's snapshot was taken, is  *)
(* being taken by another agent, or failed.                                     *)
THEOREM WorkspaceSnapshots == WorkspaceSpec => []SnapshotsAccounted
  <1>1. WorkspaceInit => SnapshotsAccounted
    BY DEF WorkspaceInit, SnapshotsAccounted
  <1>2. ReadInv /\ SnapshotsAccounted /\ [WorkspaceNext]_workspaceVars => SnapshotsAccounted'
    BY SnapshotsStep
  <1> QED
    BY ReadInit, ReadNext, <1>1, <1>2, PTL DEF WorkspaceSpec

-----------------------------------------------------------------------------
(***************************************************************************)
(* The other types of Settings: the loaded configuration, which takes each *)
(* setting from one layer, and the counters.                               *)
(***************************************************************************)
LoadedTypes ==
    /\ cfg \in [Settings -> Values] /\ overridden \subseteq FromEnvironment
    /\ edits \in 0..MaxEdits /\ saves \in 0..MaxSaves /\ loads \in 0..MaxLoads

LEMMA LoadConfigTypes ==
    ASSUME SettingsInv, NEW env \in [FromEnvironment -> Values]
    PROVE  LoadConfig(env) \in [Settings -> Values]
  <1> DEFINE Configs == [Settings -> Values]
  <1>1. Defaults \in Configs
    BY SettingsAssumption DEF Defaults, Values
  <1>2. ASSUME NEW c \in Configs, NEW f \in ConfigFiles PROVE MergeFile(c, f) \in Configs
    <2>1. disk[f].value \in Configs
      BY DEF SettingsInv, FileStates
    <2>2. Merge(c, disk[f].value) \in Configs
      BY <2>1 DEF Merge
    <2> QED
      BY <2>2 DEF MergeFile
  <1>3. MergeFile(Defaults, "user") \in Configs
    BY <1>1, <1>2 DEF ConfigFiles
  <1>4. MergeFile(MergeFile(Defaults, "user"), "project") \in Configs
    BY <1>2, <1>3 DEF ConfigFiles
  <1>5. ASSUME NEW c \in Configs PROVE ApplyEnvOverrides(c, env) \in Configs
    BY DEF ApplyEnvOverrides
  <1> QED
    BY <1>4, <1>5 DEF LoadConfig

LEMMA LoadedStep ==
    ASSUME SettingsInv, LoadedTypes, [SettingsNext]_settingsVars
    PROVE  LoadedTypes'
  <1> USE SettingsAssumption
  <1>1. CASE StartUp
    <2>1. PICK env \in [FromEnvironment -> Values] :
             /\ cfg' \in {LoadConfig(env), Nothing}
             /\ overridden' \in {{s \in DOMAIN env : env[s] # 0}, {}}
      BY <1>1 DEF StartUp
    <2>2. cfg' \in [Settings -> Values]
      BY <2>1, LoadConfigTypes, NothingIsTyped
    <2>3. overridden' \subseteq FromEnvironment
      BY <2>1
    <2>4. loads' \in 0..MaxLoads /\ UNCHANGED <<edits, saves>>
      BY <1>1 DEF StartUp, LoadedTypes
    <2> QED
      BY <2>2, <2>3, <2>4 DEF LoadedTypes
  <1>2. ASSUME NEW s \in Saved, NEW v \in Values \ {0}, Prefer(s, v) PROVE LoadedTypes'
    <2>1. cfg' \in [Settings -> Values]
      BY <1>2 DEF Prefer, LoadedTypes
    <2>2. saves' \in 0..MaxSaves /\ UNCHANGED <<overridden, edits, loads>>
      BY <1>2 DEF Prefer, LoadedTypes
    <2> QED
      BY <2>1, <2>2 DEF LoadedTypes
  <1>3. CASE ShutDown
    BY <1>3, NothingIsTyped DEF ShutDown, LoadedTypes
  <1>4. ASSUME NEW f \in ConfigFiles, EditFile(f) PROVE LoadedTypes'
    <2>1. edits' \in 0..MaxEdits /\ UNCHANGED <<cfg, overridden, saves, loads>>
      BY <1>4 DEF EditFile, LoadedTypes
    <2> QED
      BY <2>1 DEF LoadedTypes
  <1>5. CASE FinishWrite \/ WriteFails \/ UNCHANGED settingsVars
    BY <1>5 DEF FinishWrite, WriteFails, settingsVars, LoadedTypes
  <1> QED
    BY <1>1, <1>2, <1>3, <1>4, <1>5 DEF SettingsNext

(* The types of Settings, for any number of values, starts and edits: what *)
(* the layers give is a configuration with a value for each setting.       *)
THEOREM SettingsTypeCorrect == SettingsSpec => []SettingsTypeOK
  <1>1. SettingsInit => LoadedTypes
    BY NothingIsTyped, SettingsAssumption DEF SettingsInit, LoadedTypes
  <1>2. SettingsInv /\ LoadedTypes /\ [SettingsNext]_settingsVars => SettingsInv' /\ LoadedTypes'
    BY SettingsKeep, LoadedStep
  <1>3. SettingsInv /\ LoadedTypes => SettingsTypeOK
    BY DEF SettingsInv, LoadedTypes, SettingsTypeOK
  <1> QED
    BY SettingsInitInv, <1>1, <1>2, <1>3, PTL DEF SettingsSpec

-----------------------------------------------------------------------------
(***************************************************************************)
(* The other types of Notes: NotesInd has those of the session store.      *)
(***************************************************************************)
MemoryTypes ==
    /\ memories \in [Files -> 0..MaxNotes] /\ noted \in 0..MaxNotes
    /\ recalled \subseteq [file : Files, content : 0..MaxNotes]

Todos == [id : Nat, status : {"pending", "in_progress", "completed", "cancelled"}]

InOrder(items) == \A i, j \in DOMAIN items : i < j => items[i].id < items[j].id

TodoTypes ==
    /\ nextID \in 0..MaxTodos /\ todos \in Seq(Todos)
    /\ \A i \in DOMAIN todos : todos[i].id \in 1..nextID
    /\ InOrder(todos)

LEMMA MemoryStep ==
    ASSUME MemoryTypes, [NotesNext]_notesVars
    PROVE  MemoryTypes'
  <1> USE NotesAssumption
  <1>1. CASE UNCHANGED memoryVars
    BY <1>1 DEF memoryVars, MemoryTypes, Files
  <1>2. ASSUME NEW w \in Writers, NEW k \in Keys, NEW action \in {"add", "replace", "remove"},
               StatMemory(w, action, k)
        PROVE  MemoryTypes'
    BY <1>2 DEF StatMemory, MemoryTypes, Files
  <1>3. ASSUME NEW w \in Writers, WriteMemory(w) PROVE MemoryTypes'
    <2>1. noted' \in 0..MaxNotes /\ recalled' = recalled
          /\ memories' = [memories EXCEPT ![memoryUse[w].file] = noted']
      BY <1>3 DEF WriteMemory, MemoryTypes
    <2>2. memories' \in [Files -> 0..MaxNotes]
      BY <2>1 DEF MemoryTypes
    <2> QED
      BY <2>1, <2>2 DEF MemoryTypes, Files
  <1>4. ASSUME NEW w \in Writers, RemoveMemory(w) PROVE MemoryTypes'
    <2>1. memories' = [memories EXCEPT ![memoryUse[w].file] = 0] /\ UNCHANGED <<noted, recalled>>
      BY <1>4 DEF RemoveMemory
    <2>0. 0 \in 0..MaxNotes
      OBVIOUS
    <2>2. memories' \in [Files -> 0..MaxNotes]
      BY <2>0, <2>1 DEF MemoryTypes
    <2> QED
      BY <2>1, <2>2 DEF MemoryTypes, Files
  <1>5. CASE ClearMemories
    BY <1>5 DEF ClearMemories, MemoryTypes, Files
  <1>6. CASE LoadEntries
    <2>1. ASSUME NEW f \in Files PROVE ParseEntry(f) \in [file : Files, content : 0..MaxNotes]
      BY DEF ParseEntry, MemoryTypes
    <2>2. recalled' \subseteq [file : Files, content : 0..MaxNotes]
      BY <1>6, <2>1 DEF LoadEntries
    <2>3. UNCHANGED <<memories, noted>>
      BY <1>6 DEF LoadEntries
    <2> QED
      BY <2>2, <2>3 DEF MemoryTypes, Files
  <1>7. CASE StoreNext \/ TodoNext
    BY <1>1, <1>7 DEF StoreNext, CreateSession, EndTurn, InsertMessage, CountMessage,
                      TodoNext, DoAdd, DoUpdate, DoRemove
  <1>8. CASE UNCHANGED notesVars
    BY <1>1, <1>8 DEF notesVars
  <1> QED
    BY <1>2, <1>3, <1>4, <1>5, <1>6, <1>7, <1>8 DEF NotesNext, MemoryNext

(* The list without its i-th item is the list up to there and after. *)
LEMMA RemoveAtGives ==
    ASSUME NEW S, NEW s \in Seq(S), NEW i \in DOMAIN s
    PROVE  /\ RemoveAt(s, i) \in Seq(S) /\ Len(RemoveAt(s, i)) = Len(s) - 1
           /\ \A j \in DOMAIN RemoveAt(s, i) :
                 RemoveAt(s, i)[j] = IF j < i THEN s[j] ELSE s[j + 1]
  <1>1. i \in 1..Len(s) /\ Len(s) \in Nat /\ DOMAIN s = 1..Len(s)
    OBVIOUS
  <1> DEFINE before == SubSeq(s, 1, i - 1)
             behind == SubSeq(s, i + 1, Len(s))
  <1>2. before \in Seq(S) /\ Len(before) = i - 1 /\ \A j \in 1..(i - 1) : before[j] = s[j]
    BY <1>1, SubSeqProperties
  <1>3. behind \in Seq(S) /\ Len(behind) = Len(s) - i /\ \A j \in 1..(Len(s) - i) : behind[j] = s[i + j]
    BY <1>1, SubSeqProperties
  <1>4. RemoveAt(s, i) = before \o behind
    BY DEF RemoveAt
  <1> HIDE DEF before, behind
  <1>5. /\ before \o behind \in Seq(S) /\ Len(before \o behind) = Len(before) + Len(behind)
        /\ \A j \in 1..(Len(before) + Len(behind)) :
              (before \o behind)[j] = IF j <= Len(before) THEN before[j] ELSE behind[j - Len(before)]
    BY <1>2, <1>3, ConcatProperties
  <1>6. Len(before \o behind) = Len(s) - 1 /\ DOMAIN (before \o behind) = 1..(Len(s) - 1)
    <2>1. Len(before \o behind) = Len(s) - 1
      BY <1>1, <1>2, <1>3, <1>5
    <2>2. DOMAIN (before \o behind) = 1..Len(before \o behind)
      BY <1>5
    <2> QED
      BY <2>1, <2>2
  <1>7. ASSUME NEW j \in 1..(Len(s) - 1)
        PROVE  (before \o behind)[j] = IF j < i THEN s[j] ELSE s[j + 1]
    <2>1. CASE j < i
      <3>1. j \in 1..(i - 1) /\ j <= Len(before) /\ j \in 1..(Len(before) + Len(behind))
        BY <1>1, <1>2, <1>3, <2>1
      <3>2. (before \o behind)[j] = before[j] /\ before[j] = s[j]
        BY <1>2, <1>5, <3>1
      <3> QED
        BY <2>1, <3>2
    <2>2. CASE ~(j < i)
      <3>1. j - (i - 1) \in 1..(Len(s) - i)
        BY <1>1, <2>2
      <3>2. behind[j - (i - 1)] = s[i + (j - (i - 1))] /\ i + (j - (i - 1)) = j + 1
        BY <1>1, <1>3, <3>1
      <3>3. j \in 1..(Len(before) + Len(behind)) /\ ~(j <= Len(before))
        BY <1>1, <1>2, <1>3, <2>2
      <3>4. (before \o behind)[j] = behind[j - Len(before)]
        BY <1>5, <3>3
      <3>5. (before \o behind)[j] = behind[j - (i - 1)]
        BY <1>2, <3>4
      <3> QED
        BY <2>2, <3>2, <3>5
    <2> QED
      BY <2>1, <2>2
  <1> QED
    BY <1>4, <1>5, <1>6, <1>7

LEMMA TodoStep ==
    ASSUME TodoTypes, [NotesNext]_notesVars
    PROVE  TodoTypes'
  <1> USE NotesAssumption
  <1>1. CASE UNCHANGED todoVars
    BY <1>1 DEF todoVars, TodoTypes, InOrder
  <1>2. CASE DoAdd
    <2> DEFINE item == [id |-> nextID + 1, status |-> "pending"]
    <2>1. nextID' = nextID + 1 /\ nextID' \in 0..MaxTodos /\ todos' = Append(todos, item)
      BY <1>2 DEF DoAdd, TodoTypes
    <2>2. item \in Todos /\ item.id = nextID + 1
      BY DEF Todos, TodoTypes
    <2> HIDE DEF item
    <2>3. /\ todos' \in Seq(Todos) /\ DOMAIN todos' = 1..(Len(todos) + 1)
          /\ \A j \in DOMAIN todos' : todos'[j] = IF j \in DOMAIN todos THEN todos[j] ELSE item
          /\ DOMAIN todos = 1..Len(todos) /\ Len(todos) \in Nat
      BY <2>1, <2>2 DEF TodoTypes
    <2>4. \A j \in DOMAIN todos' : todos'[j].id \in 1..nextID'
      BY <2>1, <2>2, <2>3 DEF TodoTypes
    <2>5. ASSUME NEW j \in DOMAIN todos', NEW k \in DOMAIN todos', j < k
          PROVE  todos'[j].id < todos'[k].id
      <3>1. j \in DOMAIN todos /\ todos'[j] = todos[j] /\ todos[j].id \in 1..nextID
        BY <2>3, <2>5 DEF TodoTypes
      <3>2. CASE k \in DOMAIN todos
        BY <2>3, <2>5, <3>1, <3>2 DEF TodoTypes, InOrder
      <3>3. CASE k \notin DOMAIN todos
        BY <2>2, <2>3, <3>1, <3>3 DEF TodoTypes
      <3> QED
        BY <3>2, <3>3
    <2> QED
      BY <2>1, <2>3, <2>4, <2>5 DEF TodoTypes, InOrder
  <1>3. ASSUME NEW i \in DOMAIN todos, DoRemove(i) PROVE TodoTypes'
    <2>1. todos' = RemoveAt(todos, i) /\ nextID' = nextID
      BY <1>3 DEF DoRemove
    <2>2. /\ todos' \in Seq(Todos) /\ Len(todos') = Len(todos) - 1
          /\ \A j \in DOMAIN todos' : todos'[j] = IF j < i THEN todos[j] ELSE todos[j + 1]
      BY <2>1, RemoveAtGives DEF TodoTypes
    <2>3. /\ DOMAIN todos' = 1..(Len(todos) - 1) /\ DOMAIN todos = 1..Len(todos)
          /\ Len(todos) \in Nat /\ i \in 1..Len(todos)
      BY <2>2 DEF TodoTypes
    <2>4. \A j \in DOMAIN todos' : \E k \in DOMAIN todos :
             todos'[j] = todos[k] /\ k = IF j < i THEN j ELSE j + 1
      BY <2>2, <2>3
    <2>5. \A j \in DOMAIN todos' : todos'[j].id \in 1..nextID'
      BY <2>1, <2>4 DEF TodoTypes
    <2>6. ASSUME NEW j \in DOMAIN todos', NEW k \in DOMAIN todos', j < k
          PROVE  todos'[j].id < todos'[k].id
      <3>1. PICK x \in DOMAIN todos : todos'[j] = todos[x] /\ x = IF j < i THEN j ELSE j + 1
        BY <2>4
      <3>2. PICK y \in DOMAIN todos : todos'[k] = todos[y] /\ y = IF k < i THEN k ELSE k + 1
        BY <2>4
      <3>3. x < y
        BY <2>3, <2>6, <3>1, <3>2
      <3> QED
        BY <3>1, <3>2, <3>3 DEF TodoTypes, InOrder
    <2> QED
      BY <2>1, <2>2, <2>5, <2>6 DEF TodoTypes, InOrder
  <1>4. ASSUME NEW i \in DOMAIN todos,
               NEW status \in {"pending", "in_progress", "completed", "cancelled"}, DoUpdate(i, status)
        PROVE  TodoTypes'
    <2>1. todos' = [todos EXCEPT ![i].status = status] /\ nextID' = nextID
      BY <1>4 DEF DoUpdate
    <2>2. todos[i] \in Todos
      BY ElementIsTyped DEF TodoTypes
    <2>. [todos[i] EXCEPT !.status = status] \in Todos
      BY <2>2 DEF Todos
    <2>3. DOMAIN todos' = DOMAIN todos /\ \A j \in DOMAIN todos : todos'[j].id = todos[j].id
      BY <2>1, <2>2 DEF TodoTypes, Todos
    <2>4. todos' \in Seq(Todos)
      BY <2>1, <2>2 DEF TodoTypes
    <2> QED
      BY <2>1, <2>3, <2>4 DEF TodoTypes, InOrder
  <1>5. CASE MemoryNext \/ StoreNext
    BY <1>1, <1>5 DEF StoreNext, CreateSession, EndTurn, InsertMessage, CountMessage,
                      MemoryNext, StatMemory, WriteMemory, RemoveMemory, ClearMemories, LoadEntries
  <1>6. CASE UNCHANGED notesVars
    BY <1>1, <1>6 DEF notesVars
  <1> QED
    BY <1>2, <1>3, <1>4, <1>5, <1>6 DEF NotesNext, TodoNext


LEMMA TurnsStep ==
    ASSUME turns \in 0..MaxStored, [NotesNext]_notesVars
    PROVE  turns' \in 0..MaxStored
  <1>1. turns' = turns \/ (turns' = turns + 1 /\ turns < MaxStored)
    BY DEF NotesNext, StoreNext, CreateSession, EndTurn, InsertMessage, CountMessage,
           MemoryNext, StatMemory, WriteMemory, RemoveMemory, ClearMemories, LoadEntries,
           TodoNext, DoAdd, DoUpdate, DoRemove, notesVars, sessionVars
  <1> QED
    BY <1>1, NotesAssumption

(* The types of Notes, for any number of memories, sessions, turns and items: the
   items of the Todo list stay in the order of their ids. *)
THEOREM NotesTypeCorrect == NotesSpec => []NotesTypeOK
  <1> DEFINE Ind == NotesInd /\ MemoryTypes /\ TodoTypes /\ turns \in 0..MaxStored
  <1>1. NotesInit => Ind
    <2> SUFFICES ASSUME NotesInit PROVE Ind
      OBVIOUS
    <2>1. MemoryTypes /\ turns \in 0..MaxStored
      BY NotesAssumption DEF NotesInit, MemoryTypes
    <2>2. TodoTypes
      BY NotesAssumption DEF NotesInit, TodoTypes, InOrder
    <2> QED
      BY <2>1, <2>2, NotesStart
  <1>2. Ind /\ [NotesNext]_notesVars => Ind'
    BY NotesStep, MemoryStep, TodoStep, TurnsStep
  <1>3. Ind => NotesTypeOK
    <2> SUFFICES ASSUME Ind PROVE NotesTypeOK
      OBVIOUS
    <2>1. \A i \in DOMAIN rows : rows[i] \in Sessions \X Inserts
      BY ElementIsTyped DEF NotesInd, StoreTypes
    <2> QED
      BY <2>1 DEF NotesInd, StoreTypes, MemoryTypes, TodoTypes, InOrder, NotesTypeOK
  <1> HIDE DEF Ind
  <1> QED
    BY <1>1, <1>2, <1>3, PTL DEF NotesSpec

-----------------------------------------------------------------------------
(***************************************************************************)
(* All parts together, as MCComponents explores them: one part moves and   *)
(* the others stand still.  A step of the composition is a step of each    *)
(* part or leaves that part's variables as they are, so that a behaviour   *)
(* of the composition is one of each part.                                 *)
(***************************************************************************)
LEMMA PartsStart ==
    Init => /\ TerminalInit /\ EditorInit /\ ScreenInit /\ WeixinInit /\ ModelsInit
            /\ StreamsInit /\ SkillsInit /\ NotesInit /\ SettingsInit
  BY DEF Init

OnScreenSteps ==
    [TerminalNext]_terminalVars /\ [EditorNext]_editorVars /\ [ScreenNext]_screenVars
ModelSteps == [ModelsNext]_modelsVars /\ [StreamsNext]_streamsVars
DiskSteps ==
    /\ [SkillsNext]_skillsVars /\ [NotesNext]_notesVars /\ [SettingsNext]_settingsVars

LEMMA PartsStandStill ==
    /\ UNCHANGED screenParts => OnScreenSteps
    /\ UNCHANGED modelVars => ModelSteps
    /\ UNCHANGED diskParts => DiskSteps
  BY DEF screenParts, modelVars, diskParts, OnScreenSteps, ModelSteps, DiskSteps

LEMMA OnePartMoves ==
    /\ OnScreen => OnScreenSteps
    /\ InModels => ModelSteps
    /\ OnDisk => DiskSteps
  <1>1. OnScreen => OnScreenSteps
    BY DEF OnScreen, OnScreenSteps
  <1>2. InModels => ModelSteps
    BY DEF InModels, ModelSteps, ModelsNext
  <1>3. OnDisk => DiskSteps
    BY DEF OnDisk, DiskSteps, NotesNext
  <1> QED
    BY <1>1, <1>2, <1>3

LEMMA PartsStep ==
    [Next]_mcVars => OnScreenSteps /\ [WeixinNext]_weixinVars /\ ModelSteps /\ DiskSteps
  <1> SUFFICES ASSUME [Next]_mcVars
               PROVE  OnScreenSteps /\ [WeixinNext]_weixinVars /\ ModelSteps /\ DiskSteps
    OBVIOUS
  <1>1. CASE Screens
    BY <1>1, OnePartMoves, PartsStandStill DEF Screens
  <1>2. CASE Channel
    BY <1>2, PartsStandStill DEF Channel
  <1>3. CASE Providing
    BY <1>3, OnePartMoves, PartsStandStill DEF Providing
  <1>4. CASE Disk
    BY <1>4, OnePartMoves, PartsStandStill DEF Disk
  <1>5. CASE UNCHANGED mcVars
    BY <1>5, PartsStandStill DEF mcVars
  <1> QED
    BY <1>1, <1>2, <1>3, <1>4, <1>5 DEF Next

(***************************************************************************)
(* A behaviour of the composition is a behaviour of each of its parts,     *)
(* with the fairness of the two parts that have any: what is proved of a   *)
(* part holds when the run explores them together.                         *)
(***************************************************************************)
THEOREM PartsImplemented ==
    Spec => /\ TerminalSpec /\ EditorSpec /\ ScreenSpec /\ WeixinSpec /\ ModelsSpec
            /\ StreamsSpec /\ SkillsSpec /\ NotesSpec /\ SettingsSpec
  <1>1. [Next]_mcVars => [TerminalNext]_terminalVars /\ [EditorNext]_editorVars
                         /\ [ScreenNext]_screenVars
    BY PartsStep DEF OnScreenSteps
  <1>2. [Next]_mcVars => [WeixinNext]_weixinVars /\ [ModelsNext]_modelsVars
                         /\ [StreamsNext]_streamsVars
    BY PartsStep DEF ModelSteps
  <1>3. [Next]_mcVars => [SkillsNext]_skillsVars /\ [NotesNext]_notesVars
                         /\ [SettingsNext]_settingsVars
    BY PartsStep DEF DiskSteps
  <1> QED
    BY PartsStart, <1>1, <1>2, <1>3, PTL
       DEF Spec, TerminalSpec, EditorSpec, ScreenSpec, WeixinSpec, ModelsSpec, StreamsSpec,
           SkillsSpec, NotesSpec, SettingsSpec

(***************************************************************************)
(* The variables of all parts keep their types, however far each part goes. *)
(***************************************************************************)
THEOREM ComponentsTypeCorrect == Spec => []TypeOK
  <1>1. TypeOK <=> /\ TerminalTypeOK /\ EditorTypeOK /\ ScreenTypeOK /\ WeixinTypeOK
                   /\ ModelsTypeOK /\ StreamsTypeOK /\ SkillsTypeOK
                   /\ NotesTypeOK /\ SettingsTypeOK
    BY DEF TypeOK
  <1> QED
    BY PartsImplemented, <1>1, TerminalTypeCorrect, EditorTypeCorrect, ScreenTypeCorrect,
       WeixinTypeCorrect, ModelsTypeCorrect, StreamsTypeCorrect,
       SkillsTypeCorrect, NotesTypeCorrect, SettingsTypeCorrect, PTL
(***************************************************************************)
(* And so does every invariant that the run checks of a part: the cancel   *)
(* function and the tools of the terminal, the cursor, the window and the  *)
(* selection, the one poll loop of WeChat, the keys that rotate and the    *)
(* arguments that a call runs with, the skills, the counted messages and   *)
(* the saved preferences.                                                  *)
(***************************************************************************)
THEOREM ComponentsSafe ==
    Spec => /\ []CancelReachesRun /\ []ShownToolsRun /\ []CursorShown /\ []WindowInTranscript
            /\ []CopiedIsHighlighted /\ []PollsAlone /\ []RotationServes /\ []WithinRate
            /\ []RunsOwnArguments /\ []SkillsKept /\ []CountsMessages /\ PreferenceKept
  BY PartsImplemented, TerminalCancelReaches, TerminalShownTools, EditorCursor, ScreenWindow,
     ScreenCopies, WeixinPollsAlone, KeysRotate, RateLimited, StreamsRunOwnArguments,
     SkillsKeptOnDisk, SessionsCounted,
     PreferencesKept, PTL

===============================================================================
