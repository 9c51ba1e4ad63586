------------------------------- MODULE Skills -------------------------------
(***************************************************************************)
(* Skills on disk and in memory, the tools that create and delete them,    *)
(* and the curator that ages them (internal/skill, internal/curator,       *)
(* internal/tool/builtin/skill_tools, /curator in cmd/gclaw/main.go).      *)
(*                                                                         *)
(* A skill directory is a record: what the agent wrote (a number per       *)
(* creation), whether its frontmatter parses, whether the description is   *)
(* marked "[stale] ", whether it is pinned, and the age of the directory.  *)
(* The manager's methods hold its lock and are single steps; a curator     *)
(* pass is a goroutine that works through a snapshot, one skill at a time. *)
(***************************************************************************)
EXTENDS Naturals, FiniteSets

CONSTANTS
    SkillNames,          \* names of skills
    Project,        \* names in .gclaw/skills of the project
    User,           \* names in skills/user, the built-in ones included
    Passes,         \* goroutines that may run a curator pass
    None,           \* no skill
    MaxCreated,     \* bound: skills created
    MaxPasses,      \* bound: passes begun
    MaxStarts,      \* bound: starts of the program
    MaxSettings     \* bound: /curator pause and resume, and skills pinned by hand

Ages == {"fresh", "stale", "old"}
Dirs == [id : 1..MaxCreated, parses : BOOLEAN, stale : BOOLEAN, pinned : BOOLEAN, age : Ages]
SkillRecords == [source : {"project", "user", "agent"}, id : 0..MaxCreated, parses : BOOLEAN,
                 stale : BOOLEAN, pinned : BOOLEAN]

ASSUME SkillsAssumption ==
    /\ Project \subseteq SkillNames /\ User \subseteq SkillNames
    /\ {MaxCreated, MaxPasses, MaxStarts, MaxSettings} \subseteq Nat
    /\ None \notin Dirs /\ None \notin SkillRecords

VARIABLES
    up,             \* the program runs
    starts,         \* how often it has been started
    skills,         \* the manager's map: None, or a skill with its source
    agentDir,       \* skills/agent
    archive,        \* skills/.archive
    created,        \* skills created so far
    gone,           \* history: creations deleted or overwritten on purpose
    pass,           \* per pass: "idle", "auto", "review", "save"
    todo,           \* per pass, what is left of its snapshot
    passes,         \* passes begun so far
    paused,         \* Paused in .curator_state
    recent,         \* LastRunAt in .curator_state is less than an interval ago
    loaded,         \* per pass, the Paused it loaded before it saves
    settings        \* settings changed so far

diskVars == <<agentDir, archive, created, gone>>
passVars == <<pass, todo, passes, loaded>>
stateVars == <<paused, recent, settings>>
skillsVars == <<up, starts, skills, diskVars, passVars, stateVars>>

Dir(id, parses, age) ==
    [id |-> id, parses |-> parses, stale |-> FALSE, pinned |-> FALSE, age |-> age]

(* Parse: "description: [stale] ..." is no YAML string. *)
Parses(d) == d.parses /\ ~d.stale

Loaded(src, d) == [source |-> src, id |-> d.id, parses |-> d.parses,
                   stale |-> d.stale, pinned |-> d.pinned]
Foreign(src) == [source |-> src, id |-> 0, parses |-> TRUE, stale |-> FALSE, pinned |-> FALSE]

-----------------------------------------------------------------------------
(* LoadProject puts the project's skills into the map. *)
LoadProject(map) == [n \in SkillNames |-> IF n \in Project THEN Foreign("project") ELSE map[n]]

(* LoadAll makes a new map, of skills/user and then skills/agent. *)
LoadAll(map) ==
    [n \in SkillNames |->
        IF agentDir[n] # None /\ Parses(agentDir[n]) THEN Loaded("agent", agentDir[n])
        ELSE IF n \in User THEN Foreign("user") ELSE None]

(* runREPL: the project's skills first, then the others. *)
LoadSkills ==
    /\ ~up /\ starts < MaxStarts
    /\ up' = TRUE /\ starts' = starts + 1
    /\ skills' = LoadAll(LoadProject([n \in SkillNames |-> None]))
    /\ UNCHANGED <<diskVars, passVars, stateVars>>

ForgetSkills ==
    /\ up
    /\ up' = FALSE
    /\ skills' = [n \in SkillNames |-> None]
    /\ pass' = [p \in Passes |-> "idle"] /\ todo' = [p \in Passes |-> {}]
    /\ UNCHANGED <<starts, diskVars, passes, loaded, stateVars>>

-----------------------------------------------------------------------------
(* CreateSkill: an agent directory of that name is written over, and its age is
   the directory's. *)
CreateSkill(n) ==
    /\ up /\ created < MaxCreated
    /\ created' = created + 1
    /\ \E parses \in BOOLEAN :
          LET d == Dir(created', parses,
                       IF agentDir[n] = None THEN "fresh" ELSE agentDir[n].age)
          IN  /\ agentDir' = [agentDir EXCEPT ![n] = d]
              /\ skills' = [skills EXCEPT ![n] = Loaded("agent", d)]
    /\ gone' = IF agentDir[n] = None THEN gone ELSE gone \cup {agentDir[n].id}
    /\ UNCHANGED <<up, starts, archive, passVars, stateVars>>

IsAgents(n) == skills[n] # None /\ skills[n].source = "agent"

(* DeleteSkill removes the directory; skill_delete calls nothing else. *)
DeleteSkill(n) ==
    /\ up /\ IsAgents(n)
    /\ gone' = gone \cup {agentDir[n].id}
    /\ agentDir' = [agentDir EXCEPT ![n] = None]
    /\ skills' = [skills EXCEPT ![n] = None]
    /\ UNCHANGED <<up, starts, archive, created, passVars, stateVars>>

(* An archive that makes room for the directory. *)
CanRenameOver(dest) == TRUE

(* os.Rename of a directory fails when the destination exists. *)
CanRename(dest) == dest = None

ArchiveSkill(n) ==
    IF IsAgents(n) /\ CanRename(archive[n])
    THEN /\ archive' = [archive EXCEPT ![n] = agentDir[n]]
         /\ agentDir' = [agentDir EXCEPT ![n] = None]
         /\ skills' = [skills EXCEPT ![n] = None]
    ELSE UNCHANGED <<archive, agentDir, skills>>

(* /curator restore n: what does not parse is moved and not loaded. *)
UnarchiveSkill(n) ==
    /\ up /\ archive[n] # None /\ CanRename(agentDir[n])
    /\ agentDir' = [agentDir EXCEPT ![n] = archive[n]]
    /\ archive' = [archive EXCEPT ![n] = None]
    /\ skills' = IF Parses(archive[n])
                 THEN [skills EXCEPT ![n] = Loaded("agent", archive[n])] ELSE skills
    /\ UNCHANGED <<up, starts, created, gone, passVars, stateVars>>

(* SetDescription: the skill in memory, then the file, in the directory it came
   from.  The description is that of the snapshot, parses says whether it does. *)
SetStale(n, stale, parses) ==
    IF IsAgents(n)
    THEN /\ skills' = [skills EXCEPT ![n].stale = stale, ![n].parses = parses]
         /\ agentDir' = [agentDir EXCEPT ![n].stale = stale, ![n].parses = parses,
                                         ![n].pinned = skills[n].pinned]
         /\ UNCHANGED archive
    ELSE UNCHANGED <<skills, agentDir, archive>>

-----------------------------------------------------------------------------
(* MaybeRun when neither paused nor too early, RunNow always: the pass begins
   with a snapshot of the agent's skills. *)
BeginPass(p) ==
    /\ up /\ pass[p] = "idle" /\ passes < MaxPasses
    /\ \/ ~paused /\ ~recent        \* MaybeRun
       \/ p = "ui"                  \* /curator run
    /\ passes' = passes + 1
    /\ pass' = [pass EXCEPT ![p] = "auto"]
    /\ todo' = [todo EXCEPT ![p] = {<<n, skills[n]>> : n \in {m \in SkillNames : IsAgents(m)}}]
    /\ UNCHANGED <<up, starts, skills, diskVars, loaded, stateVars>>

(* autoTransitions on one skill of the snapshot, by the age of its directory. *)
Transition(s) ==
    LET n == s[1] IN
    IF s[2].pinned \/ agentDir[n] = None THEN UNCHANGED <<archive, agentDir, skills>>
    ELSE IF agentDir[n].age = "old" THEN ArchiveSkill(n)
    ELSE IF (agentDir[n].age = "stale") # s[2].stale
         THEN SetStale(n, agentDir[n].age = "stale", s[2].parses)
         ELSE UNCHANGED <<archive, agentDir, skills>>

AutoStep(p) ==
    /\ pass[p] = "auto"
    /\ \E s \in todo[p] : Transition(s) /\ todo' = [todo EXCEPT ![p] = @ \ {s}]
    /\ UNCHANGED <<up, starts, created, gone, pass, passes, loaded, stateVars>>

(* llmReview: an agent with the skill tools, which are actions of their own. *)
AutoDone(p) ==
    /\ pass[p] = "auto" /\ todo[p] = {}
    /\ pass' = [pass EXCEPT ![p] = "review"]
    /\ UNCHANGED <<up, starts, skills, diskVars, todo, passes, loaded, stateVars>>

(* loadState and saveState at the end of the pass, two steps. *)
LoadState(p) ==
    /\ pass[p] = "review"
    /\ loaded' = [loaded EXCEPT ![p] = paused]
    /\ pass' = [pass EXCEPT ![p] = "save"]
    /\ UNCHANGED <<up, starts, skills, diskVars, todo, passes, stateVars>>

SaveState(p) ==
    /\ pass[p] = "save"
    /\ paused' = loaded[p] /\ recent' = TRUE
    /\ pass' = [pass EXCEPT ![p] = "idle"]
    /\ UNCHANGED <<up, starts, skills, diskVars, todo, passes, loaded, settings>>

(* /curator pause and resume; they run in the terminal, as /curator run does. *)
SetPaused(v) ==
    /\ up /\ settings < MaxSettings
    /\ \A p \in Passes : p = "ui" => pass[p] = "idle"
    /\ settings' = settings + 1
    /\ paused' = v
    /\ UNCHANGED <<up, starts, skills, diskVars, passVars, recent>>

(* Outside the program: directories age, an interval passes, a user pins a skill
   in its file. *)
Aged(d) ==
    IF d = None THEN None
    ELSE [d EXCEPT !.age = IF d.age = "fresh" THEN "stale" ELSE "old"]

TimePasses ==
    /\ \E n \in SkillNames : agentDir[n] # None /\ agentDir[n].age # "old"
    /\ agentDir' = [n \in SkillNames |-> Aged(agentDir[n])]
    /\ archive' = [n \in SkillNames |-> Aged(archive[n])]
    /\ recent' = FALSE
    /\ UNCHANGED <<up, starts, skills, created, gone, passVars, paused, settings>>

PinByHand(n) ==
    /\ agentDir[n] # None /\ settings < MaxSettings
    /\ settings' = settings + 1
    /\ agentDir' = [agentDir EXCEPT ![n].pinned = TRUE]
    /\ UNCHANGED <<up, starts, skills, archive, created, gone, passVars, paused, recent>>

-----------------------------------------------------------------------------
SkillsInit ==
    /\ up = FALSE /\ starts = 0
    /\ skills = [n \in SkillNames |-> None]
    /\ agentDir = [n \in SkillNames |-> None] /\ archive = [n \in SkillNames |-> None]
    /\ created = 0 /\ gone = {}
    /\ pass = [p \in Passes |-> "idle"] /\ todo = [p \in Passes |-> {}]
    /\ passes = 0 /\ loaded = [p \in Passes |-> FALSE]
    /\ paused = FALSE /\ recent = FALSE /\ settings = 0

SkillsNext ==
    \/ LoadSkills \/ ForgetSkills \/ TimePasses
    \/ \E n \in SkillNames : CreateSkill(n) \/ DeleteSkill(n) \/ UnarchiveSkill(n) \/ PinByHand(n)
    \/ \E p \in Passes : BeginPass(p) \/ AutoStep(p) \/ AutoDone(p) \/ LoadState(p)
                         \/ SaveState(p)
    \/ \E v \in BOOLEAN : SetPaused(v)

SkillsSpec == SkillsInit /\ [][SkillsNext]_skillsVars

-----------------------------------------------------------------------------
(* Types of the variables. *)
SkillsTypeOK ==
    /\ up \in BOOLEAN /\ starts \in 0..MaxStarts
    /\ skills \in [SkillNames -> SkillRecords \cup {None}]
    /\ agentDir \in [SkillNames -> Dirs \cup {None}] /\ archive \in [SkillNames -> Dirs \cup {None}]
    /\ created \in 0..MaxCreated /\ gone \subseteq 1..MaxCreated
    /\ pass \in [Passes -> {"idle", "auto", "review", "save"}]
    /\ \A p \in Passes : todo[p] \subseteq SkillNames \X SkillRecords
    /\ passes \in 0..MaxPasses /\ loaded \in [Passes -> BOOLEAN]
    /\ paused \in BOOLEAN /\ recent \in BOOLEAN /\ settings \in 0..MaxSettings

(* ArchiveSkill and UnarchiveSkill (manager.go:312, 339): whatever passes overlap
   with creations, deletions and restores, what an agent wrote stays in the agent
   directory or in the archive until somebody deletes or rewrites it, and a skill
   the manager holds as the agent's is the one on disk. *)
SkillsKept ==
    /\ \A i \in (1..created) \ gone :
          \E n \in SkillNames, place \in {agentDir, archive} : place[n] # None /\ place[n].id = i
    /\ \A n \in SkillNames : IsAgents(n) => (agentDir[n] # None /\ agentDir[n].id = skills[n].id)

=============================================================================
