------------------------------- MODULE Models -------------------------------
(***************************************************************************)
(* Where the program's models come from (internal/provider, the model part *)
(* of cmd/gclaw/main.go and internal/model/router.go).                     *)
(*                                                                         *)
(*   - a credential pool rotates the keys of a provider and lets an        *)
(*     exhausted key rest (pool.go);                                       *)
(*   - the factory builds a model by name, with a key of the provider's    *)
(*     pool when it has one (factory.go);                                  *)
(*   - the program resolves its model when it starts, /model switches it   *)
(*     and writes the choice into the configuration file (main.go);        *)
(*   - the router calls the first model of its chain that its token        *)
(*     bucket lets through and that answers (router.go).                   *)
(*                                                                         *)
(* Time is a clock of whole ticks.  A key and an error are abstracted to   *)
(* their identity; a token bucket gains one token per tick.                *)
(***************************************************************************)
EXTENDS Naturals, Sequences, FiniteSets, SequencesExt

CONSTANTS
    Names,          \* the names the factory has a configuration for
    Type,           \* [Names -> provider type]
    HasBase,        \* the names with a base URL
    Pooled,         \* the names with a list of keys
    NumKeys,        \* length of that list
    Cooldown,       \* how long an exhausted key rests
    Configured,     \* cfg.Model.Default of the file at the first start
    Chain,          \* cfg.Model.Fallback
    BucketSize,     \* tokens of a full bucket
    NoModel,        \* no model, no name
    MaxTime,        \* bound: ticks of the clock
    MaxMarks,       \* bound: keys reported exhausted
    MaxSwitches,    \* bound: /model commands
    MaxCalls        \* bound: calls of the router

ASSUME ModelsAssumption ==
    /\ Pooled \subseteq Names /\ HasBase \subseteq Names
    /\ NumKeys \in Nat \ {0} /\ Cooldown \in Nat \ {0}
    /\ BucketSize \in Nat /\ NoModel \notin Names
    /\ Configured \in Names \cup {NoModel} /\ Chain \in Seq(Names)
    /\ {MaxTime, MaxMarks, MaxSwitches, MaxCalls} \subseteq Nat

VARIABLES
    clock,          \* the time
    exhausted,      \* per pooled name, the keys with status KeyExhausted
    until,          \* per pooled name and key, CooldownUntil
    index,          \* per pooled name, where the next search starts
    waited,         \* history: selections since the key was chosen or became healthy
    marks,          \* calls of MarkExhausted so far
    running,        \* the program runs
    default,        \* cfg.Model.Default in memory
    saved,          \* model.default in the configuration file
    agentModel,     \* the name the terminal agent's model was built from
    switches,       \* /model commands so far
    registered,     \* models the router knows
    tokens,         \* per model, the tokens of its bucket
    lastRefill,     \* per model, when the bucket was refilled
    granted,        \* history: calls let through since the bucket was made
    made,           \* history: when the bucket was made
    left,           \* the places of the candidates the running call has not tried
    outcome,        \* of the last call: "idle", "busy", "ok", "failed", "none"
    hasCause,       \* lastErr # nil
    calls           \* calls of the router so far

poolVars == <<exhausted, until, index, waited, marks>>
choiceVars == <<running, default, saved, agentModel, switches>>
routerVars == <<registered, tokens, lastRefill, granted, made, left, outcome, hasCause,
                calls>>
modelsVars == <<clock, poolVars, choiceVars, routerVars>>

KeyIds == 0..NumKeys - 1
NoKey == NumKeys

-----------------------------------------------------------------------------
(* The credential pool *)

(* now.After(CooldownUntil): strictly later. *)
Rested(n, k, t) == t > until[n][k]

(* recoverLocked at time t: the keys that stay exhausted. *)
StillExhausted(n, t) == {k \in exhausted[n] : ~Rested(n, k, t)}

(* Select's loop at time t: the first healthy or rested key from index on. *)
KeyAt(n, i) == (index[n] + i) % NumKeys

Choice(n, t) ==
    LET tired == StillExhausted(n, t)
        good == {i \in KeyIds : KeyAt(n, i) \notin tired}
    IN  IF good = {} THEN NoKey
        ELSE KeyAt(n, CHOOSE i \in good : \A j \in good : i <= j)

(* A rotation that restarts at the key that was just used. *)
NextIndexStays(k) == k

(* p.index = (idx + 1) % len *)
NextIndex(k) == (k + 1) % NumKeys

Bump(n, k, tired) ==
    [x \in KeyIds |-> IF x = k \/ x \in tired \/ x \in exhausted[n] THEN 0
                      ELSE waited[n][x] + 1]

(* Select: keys that have rested by `first` recover, then the loop looks at
   the clock again and takes a key that has rested by `then`. *)
Select(n, first, then, k) ==
    LET tired == StillExhausted(n, first)
    IN  /\ k = Choice(n, then)
        /\ exhausted' = [exhausted EXCEPT ![n] = tired \ {k}]
        /\ index' = [index EXCEPT ![n] = IF k = NoKey THEN @ ELSE NextIndex(k)]
        /\ waited' = [waited EXCEPT ![n] = IF k = NoKey THEN @ ELSE Bump(n, k, tired)]
        /\ UNCHANGED <<until, marks>>

(* MarkExhausted, called by whoever saw the key refused (tests only, so far). *)
MarkExhausted(n, k) ==
    /\ marks < MaxMarks
    /\ exhausted' = [exhausted EXCEPT ![n] = @ \cup {k}]
    /\ until' = [until EXCEPT ![n][k] = clock + Cooldown]
    /\ waited' = [waited EXCEPT ![n][k] = 0]
    /\ marks' = marks + 1
    /\ UNCHANGED <<clock, index, choiceVars, routerVars>>

Recover(n) ==
    /\ exhausted' = [exhausted EXCEPT ![n] = StillExhausted(n, clock)]
    /\ UNCHANGED <<clock, until, index, waited, marks, choiceVars, routerVars>>

-----------------------------------------------------------------------------
(* The factory and the program's choice *)

(* BuildWithPool with a key or without one. *)
Builds(n, hasKey) ==
    \/ Type[n] = "claude" /\ hasKey
    \/ Type[n] = "openai" /\ (hasKey \/ n \in HasBase)
    \/ Type[n] \in {"ollama", "mock"}

(* Build(n): the pool moves when there is one, whether or not the model is
   built in the end. *)
Build(n, ok) ==
    IF n \notin Names THEN ok = FALSE /\ UNCHANGED <<clock, poolVars>>
    ELSE IF n \notin Pooled
    THEN ok = Builds(n, FALSE) /\ UNCHANGED <<clock, poolVars>>
    ELSE \E then \in {clock, clock + 1} \cap 0..MaxTime, k \in 0..NumKeys :
            /\ Select(n, clock, then, k)
            /\ clock' = then
            /\ ok = Builds(n, k # NoKey)

(* What resolveModel takes when the default cannot be built: the first of the
   chain that can, or any other registered name (the order of a map).  Only the
   pool of the name that is taken is followed. *)
ResolveOrder(d) == <<d>> \o Chain

FirstPlace(places) == CHOOSE i \in places : \A j \in places : i <= j

Startable(n) == n \in Names /\ Builds(n, n \in Pooled)

StartChoice(d) ==
    LET order == ResolveOrder(d)
        startable == {i \in DOMAIN order : Startable(order[i])}
    IN  IF startable # {} THEN {order[FirstPlace(startable)]}
        ELSE {n \in Names \ Range(ResolveOrder(d)) : Startable(n)}

(* runREPL: Load, setupProviders and resolveModel; the pools are new ones. *)
StartProgram ==
    /\ ~running
    /\ running' = TRUE
    /\ default' = saved
    /\ \E n \in StartChoice(saved) :
          /\ agentModel' = n
          /\ index' = [m \in Pooled |-> IF m = n THEN NextIndex(0) ELSE 0]
          /\ waited' = [m \in Pooled |-> [k \in KeyIds |->
                           IF m = n /\ k # 0 THEN 1 ELSE 0]]
    /\ exhausted' = [m \in Pooled |-> {}]
    /\ until' = [m \in Pooled |-> [k \in KeyIds |-> 0]]
    /\ UNCHANGED <<clock, marks, saved, switches, routerVars>>

(* /model n: Build, SetModel, cfg.Model.Default, SavePreference (whose error is
   ignored). *)
SwitchModel(n) ==
    /\ running /\ switches < MaxSwitches
    /\ switches' = switches + 1
    /\ \E ok \in BOOLEAN :
          /\ Build(n, ok)
          /\ IF ok
             THEN /\ agentModel' = n /\ default' = n
                  /\ saved' \in {saved, n}
             ELSE UNCHANGED <<agentModel, default, saved>>
    /\ UNCHANGED <<running, routerVars>>

(* The program ends; only the configuration file is kept. *)
StopProgram ==
    /\ running
    /\ running' = FALSE
    /\ agentModel' = NoModel /\ default' = NoModel
    /\ UNCHANGED <<clock, poolVars, saved, switches, routerVars>>

-----------------------------------------------------------------------------
(* The router *)

(* The default, then the chain. *)
Order == ResolveOrder(Configured)

(* candidateModels: the places of the models that are known, each once. *)
Candidates ==
    {i \in DOMAIN Order : Order[i] \in registered /\ \A j \in 1..i - 1 : Order[j] # Order[i]}

(* Resolve: the name asked for, or the first candidate. *)
Resolve(n) ==
    IF n \in registered THEN n
    ELSE IF Candidates = {} THEN NoModel ELSE Order[FirstPlace(Candidates)]

(* Register: the model gets a new bucket, whatever is left in the old one. *)
Register(n) ==
    /\ registered' = registered \cup {n}
    /\ tokens' = [tokens EXCEPT ![n] = BucketSize]
    /\ lastRefill' = [lastRefill EXCEPT ![n] = clock]
    /\ granted' = [granted EXCEPT ![n] = 0]
    /\ made' = [made EXCEPT ![n] = clock]
    /\ UNCHANGED <<clock, poolVars, choiceVars, left, outcome, hasCause, calls>>

(* allow: refill by the time since the last refill, then take a token. *)
Filled(n) ==
    LET sum == tokens[n] + (clock - lastRefill[n])
    IN  IF sum > BucketSize THEN BucketSize ELSE sum

(* A refill that does not note its time. *)
AllowOldRefill(n, yes) ==
    /\ yes = (Filled(n) >= 1)
    /\ tokens' = [tokens EXCEPT ![n] = IF yes THEN Filled(n) - 1 ELSE Filled(n)]
    /\ granted' = [granted EXCEPT ![n] = IF yes THEN @ + 1 ELSE @]
    /\ UNCHANGED lastRefill

Allow(n, yes) ==
    /\ yes = (Filled(n) >= 1)
    /\ tokens' = [tokens EXCEPT ![n] = IF yes THEN Filled(n) - 1 ELSE Filled(n)]
    /\ lastRefill' = [lastRefill EXCEPT ![n] = clock]
    /\ granted' = [granted EXCEPT ![n] = IF yes THEN @ + 1 ELSE @]

(* CallWithFallback or StreamWithFallback begins. *)
BeginCall ==
    /\ outcome # "busy" /\ calls < MaxCalls
    /\ left' = Candidates
    /\ outcome' = IF Candidates = {} THEN "none" ELSE "busy"
    /\ hasCause' = FALSE
    /\ calls' = calls + 1
    /\ UNCHANGED <<clock, poolVars, choiceVars, registered, tokens, lastRefill, granted,
                   made>>

(* The next candidate: refused by its bucket, called and failed, or answered. *)
TryCandidate ==
    /\ outcome = "busy" /\ left # {}
    /\ left' = left \ {FirstPlace(left)}
    /\ \E yes, answers \in BOOLEAN :
          /\ Allow(Order[FirstPlace(left)], yes)
          /\ outcome' = IF yes /\ answers THEN "ok"
                        ELSE IF left' = {} THEN "failed" ELSE "busy"
          /\ hasCause' = (hasCause \/ (yes /\ ~answers))
    /\ UNCHANGED <<clock, poolVars, choiceVars, registered, made, calls>>

-----------------------------------------------------------------------------
AdvanceClock ==
    /\ clock < MaxTime
    /\ clock' = clock + 1
    /\ UNCHANGED <<poolVars, choiceVars, routerVars>>

ModelsInit ==
    /\ clock = 0
    /\ exhausted = [n \in Pooled |-> {}]
    /\ until = [n \in Pooled |-> [k \in KeyIds |-> 0]]
    /\ index = [n \in Pooled |-> 0]
    /\ waited = [n \in Pooled |-> [k \in KeyIds |-> 0]]
    /\ marks = 0
    /\ running = FALSE /\ saved = Configured
    /\ default = NoModel /\ agentModel = NoModel /\ switches = 0
    /\ registered = {}
    /\ tokens = [n \in Names |-> BucketSize]
    /\ lastRefill = [n \in Names |-> 0]
    /\ granted = [n \in Names |-> 0]
    /\ made = [n \in Names |-> 0]
    /\ left = {} /\ outcome = "idle" /\ hasCause = FALSE /\ calls = 0

KeysNext ==
    \/ \E n \in Pooled, k \in KeyIds : running /\ MarkExhausted(n, k)
    \/ \E n \in Pooled : running /\ Recover(n)
    \/ StartProgram
    \/ \E n \in Names \cup {NoModel} : SwitchModel(n)
    \/ StopProgram

RouterNext ==
    \/ \E n \in Names : calls < MaxCalls /\ Register(n)
    \/ BeginCall
    \/ TryCandidate

(* The keys and the router share the clock and nothing else. *)
ModelsNext == AdvanceClock \/ KeysNext \/ RouterNext

ModelsSpec == ModelsInit /\ [][ModelsNext]_modelsVars

-----------------------------------------------------------------------------
(* Types of the variables. *)
ModelsTypeOK ==
    /\ clock \in 0..MaxTime
    /\ exhausted \in [Pooled -> SUBSET KeyIds]
    /\ until \in [Pooled -> [KeyIds -> 0..MaxTime + Cooldown]]
    /\ index \in [Pooled -> KeyIds]
    /\ waited \in [Pooled -> [KeyIds -> Nat]]
    /\ marks \in 0..MaxMarks
    /\ running \in BOOLEAN
    /\ default \in Names \cup {NoModel} /\ agentModel \in Names \cup {NoModel}
    /\ saved \in Names \cup {NoModel} /\ switches \in 0..MaxSwitches
    /\ registered \subseteq Names
    /\ tokens \in [Names -> 0..BucketSize]
    /\ lastRefill \in [Names -> 0..MaxTime] /\ made \in [Names -> 0..MaxTime]
    /\ granted \in [Names -> Nat]
    /\ left \subseteq DOMAIN Order
    /\ outcome \in {"idle", "busy", "ok", "failed", "none"}
    /\ hasCause \in BOOLEAN /\ calls \in 0..MaxCalls

(* Select (pool.go:53): however keys tire and recover between the selections,
   a key that stays healthy is chosen again before every other key of the pool
   has been chosen twice: it is never passed over NumKeys times. *)
RotationServes == \A n \in Pooled, k \in KeyIds : waited[n][k] < NumKeys

(* allow (router.go:46): since a model's bucket was made, no more calls were let
   through than a full bucket and the time that has passed pay for. *)
WithinRate == \A n \in Names : granted[n] <= BucketSize + (clock - made[n])

=============================================================================
