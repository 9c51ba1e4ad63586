------------------------------ MODULE Settings ------------------------------
(***************************************************************************)
(* The configuration (internal/config) from one start of the program to    *)
(* the next: layers are loaded when it starts, /model, /fallback and       *)
(* /theme write one setting back into a file, and people edit the files.   *)
(*                                                                         *)
(* Settings are told apart by what the code does with them:                *)
(*   model    merged, overridden by an environment variable, saved         *)
(*   theme    merged and saved (/fallback is treated alike)                *)
(*   mode     merged, overridden by an environment variable, and validated *)
(*   switch   a boolean, which a layer can only turn on                    *)
(*   idle     in the structure and in the default, but not in merge        *)
(*            (agent.idle_sleep, context.reserve_ratio, tools, websearch,  *)
(*            tui.history, agent.browser_enabled and others)               *)
(*                                                                         *)
(* A value is a number; 0 is the zero value, in a file the same as no      *)
(* value.  A file is there or not, and can be loaded or is "broken": no    *)
(* YAML, or YAML of another shape.  A section may be bare, a key with      *)
(* nothing under it; Load takes it for an empty one.                       *)
(***************************************************************************)
EXTENDS Naturals

CONSTANTS
    MaxValue,       \* values of a setting, but for 0
    NoWrite,        \* no write is in progress
    MaxEdits,       \* bound: changes of the files by hand
    MaxSaves,       \* bound: preferences saved
    MaxLoads        \* bound: starts of the program

ASSUME SettingsAssumption ==
    /\ MaxValue \in Nat \ {0}
    /\ {MaxEdits, MaxSaves, MaxLoads} \subseteq Nat

VARIABLES
    disk,           \* the two files
    alive,          \* the program runs
    path,           \* configPath: the file preferences are written to
    cfg,            \* the loaded configuration
    overridden,     \* settings the environment had when the program started
    writing,        \* what os.WriteFile is about to write
    wish,           \* history: preferences saved in each file, and not undone by hand
    edits, saves, loads     \* counters for the bounds

settingsVars == <<disk, alive, path, cfg, overridden, writing, wish, edits, saves, loads>>

ConfigFiles == {"project", "user"}
Settings == {"model", "theme", "mode", "switch", "idle"}
Saved == {"model", "theme"}
FromEnvironment == {"model", "mode"}

Values == 0 .. MaxValue
Nothing == [s \in Settings |-> 0]
FileStates == [status : {"absent", "broken", "read"},
          value : [Settings -> Values],
          bare : SUBSET Saved]      \* settings whose section is bare
Absent == [status |-> "absent", value |-> Nothing, bare |-> {}]
Broken == [status |-> "broken", value |-> Nothing, bare |-> {}]
Written(value, bare) == [status |-> "read", value |-> value, bare |-> bare]
Writes == [setting : Saved, value : Values, file : FileStates]

ASSUME NoWriteAssumption == NoWrite \notin Writes

-----------------------------------------------------------------------------
(* Loading *)

Defaults == [s \in Settings |-> IF s = "switch" THEN 0 ELSE 1]

(* merge as it was before the section tui was added to it. *)
MergeWithoutTheme(dst, src) ==
    [s \in Settings |-> IF s \notin {"idle", "theme"} /\ src[s] # 0 THEN src[s] ELSE dst[s]]

(* Non-zero fields replace, in the sections that merge goes through. *)
Merge(dst, src) ==
    [s \in Settings |-> IF s # "idle" /\ src[s] # 0 THEN src[s] ELSE dst[s]]

(* mergeFile; a file that is not there changes nothing. *)
MergeFile(dst, f) == IF disk[f].status = "read" THEN Merge(dst, disk[f].value) ELSE dst

ApplyEnvOverrides(dst, env) ==
    [s \in Settings |-> IF s \in DOMAIN env /\ env[s] # 0 THEN env[s] ELSE dst[s]]

(* The one mode that is known. *)
Valid(c) == c["mode"] = 1

(* Load: the user's file, the project's, the environment. *)
LoadConfig(env) ==
    ApplyEnvOverrides(MergeFile(MergeFile(Defaults, "user"), "project"), env)

(* FindProjectConfig finds a file that is there; without one SavePreference
   takes the user's. *)
FindConfig == IF disk["project"].status # "absent" THEN "project" ELSE "user"

(* runREPL's beginning; with a broken file or a wrong value the program ends. *)
StartUp ==
    /\ ~alive /\ loads < MaxLoads
    /\ loads' = loads + 1
    /\ \E env \in [FromEnvironment -> Values] :
          LET loaded == LoadConfig(env)
              good == Valid(loaded) /\ \A f \in ConfigFiles : disk[f].status # "broken"
          IN  /\ alive' = good
              /\ cfg' = IF good THEN loaded ELSE Nothing
              /\ overridden' = IF good THEN {s \in DOMAIN env : env[s] # 0} ELSE {}
    /\ path' = FindConfig
    /\ UNCHANGED <<disk, writing, wish, edits, saves>>

-----------------------------------------------------------------------------
(* Saving *)

(* SavePreference sets the key in its section; where the section is bare it sets a
   key of the file's top level instead, which Load does not know. *)
WithKey(file, s, v) ==
    IF s \in file.bare THEN file ELSE [file EXCEPT !.value[s] = v]

(* What SavePreference writes.  A file that is absent or no YAML is taken for an
   empty one; one of another shape keeps its shape. *)
ToWrite(s, v) ==
    IF disk[path].status = "read" THEN {WithKey(disk[path], s, v)}
    ELSE {WithKey(Written(Nothing, {}), s, v)}
             \cup (IF disk[path].status = "broken" THEN {Broken} ELSE {})

(* /model, /fallback, /theme: the value in memory, then SavePreference.
   os.WriteFile empties the file first, unless it cannot be opened. *)
Prefer(s, v) ==
    /\ alive /\ writing = NoWrite /\ saves < MaxSaves
    /\ saves' = saves + 1
    /\ cfg' = [cfg EXCEPT ![s] = v]
    /\ \/ /\ \E file \in ToWrite(s, v) :
                writing' = [setting |-> s, value |-> v, file |-> file]
          /\ disk' = [disk EXCEPT ![path] = Written(Nothing, {})]
       \/ UNCHANGED <<writing, disk>>
    /\ UNCHANGED <<alive, path, overridden, wish, edits, loads>>

(* A file that stays broken has no preferences. *)
FinishWrite ==
    /\ writing # NoWrite
    /\ disk' = [disk EXCEPT ![path] = writing.file]
    /\ wish' = IF writing.file = Broken THEN [wish EXCEPT ![path] = Nothing]
               ELSE [wish EXCEPT ![path][writing.setting] = writing.value]
    /\ writing' = NoWrite
    /\ UNCHANGED <<alive, path, cfg, overridden, edits, saves, loads>>

(* The disk is full: what was written of the file can be loaded or not.  /model
   and /fallback do not look at the error. *)
WriteFails ==
    /\ writing # NoWrite
    /\ disk' \in {disk, [disk EXCEPT ![path] = Broken]}
    /\ wish' = [wish EXCEPT ![path] = Nothing]
    /\ writing' = NoWrite
    /\ UNCHANGED <<alive, path, cfg, overridden, edits, saves, loads>>

(* The program ends, or is killed while it writes. *)
ShutDown ==
    /\ alive
    /\ alive' = FALSE
    /\ cfg' = Nothing /\ overridden' = {}
    /\ writing' = NoWrite
    /\ wish' = IF writing = NoWrite THEN wish ELSE [wish EXCEPT ![path] = Nothing]
    /\ UNCHANGED <<disk, path, edits, saves, loads>>

(* Somebody changes a setting in a file or leaves its section bare, breaks the
   file, or removes it. *)
EditFile(f) ==
    /\ writing = NoWrite /\ edits < MaxEdits
    /\ edits' = edits + 1
    /\ \/ \E s \in Settings, v \in Values :
             /\ s = "switch" => v <= 1
             /\ \E bare \in IF v = 0 /\ s \in Saved THEN {{}, {s}} ELSE {{}} :
                   disk' = [disk EXCEPT ![f] = Written([@.value EXCEPT ![s] = v],
                                                       (@.bare \ {s}) \cup bare)]
             /\ wish' = [wish EXCEPT ![f][s] = 0]
       \/ \E content \in {Absent, Broken} :
             /\ disk' = [disk EXCEPT ![f] = content]
             /\ wish' = [wish EXCEPT ![f] = Nothing]
    /\ UNCHANGED <<alive, path, cfg, overridden, writing, saves, loads>>

-----------------------------------------------------------------------------
SettingsInit ==
    /\ disk = [f \in ConfigFiles |-> Absent]
    /\ alive = FALSE /\ path = "user"
    /\ cfg = Nothing /\ overridden = {} /\ writing = NoWrite
    /\ wish = [f \in ConfigFiles |-> Nothing]
    /\ edits = 0 /\ saves = 0 /\ loads = 0

SettingsNext ==
    \/ StartUp \/ FinishWrite \/ WriteFails \/ ShutDown
    \/ \E s \in Saved, v \in Values \ {0} : Prefer(s, v)
    \/ \E f \in ConfigFiles : EditFile(f)

SettingsSpec == SettingsInit /\ [][SettingsNext]_settingsVars

-----------------------------------------------------------------------------
(* Types of the variables. *)
SettingsTypeOK ==
    /\ disk \in [ConfigFiles -> FileStates]
    /\ alive \in BOOLEAN /\ path \in ConfigFiles
    /\ cfg \in [Settings -> Values] /\ overridden \subseteq FromEnvironment
    /\ writing \in Writes \cup {NoWrite}
    /\ wish \in [ConfigFiles -> [Settings -> Values]]
    /\ edits \in 0..MaxEdits /\ saves \in 0..MaxSaves /\ loads \in 0..MaxLoads

(* SavePreference (config.go:625) and Load (config.go:333): a preference that
   was written into a file, and that nobody changed there since, is the one the
   program has after each start that takes its settings from that file, unless
   the environment has another; whatever was saved, edited or layered between.
   Where the section is in the file with nothing under it the key is written
   beside it, and is lost (config.go:656). *)
PreferenceKept ==
    [][alive' /\ ~alive =>
          \A s \in Saved \ (overridden' \cup disk[path'].bare) :
             wish[path'][s] # 0 => cfg'[s] = wish[path'][s]]_settingsVars

=============================================================================
