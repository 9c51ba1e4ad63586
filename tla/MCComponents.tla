---------------------------- MODULE MCComponents ----------------------------
(***************************************************************************)
(* The components that share no variable with any other: the terminal's    *)
(* three parts, the WeChat channel, the credential pool with the choice of *)
(* a model, the router, the streams, the skills, the three of Notes, and   *)
(* the settings.  They are explored one at a time: a behaviour lets one    *)
(* part move, and a property that speaks of one part needs the moves of    *)
(* that part only.                                                         *)
(***************************************************************************)
EXTENDS Terminal, Editor, Screen, Weixin, Models, Streams, Skills, Notes,
        Settings

MCLines == {<<2, 1>>}
MCOutputs == {<<<<1, 2>>, <<>>>>}

(* One provider of each kind that resolveModel and the factory tell apart. *)
MCNames == {"c", "o", "l"}
MCType == [n \in MCNames |-> CASE n = "c" -> "claude" [] n = "o" -> "openai"
                               [] n = "l" -> "ollama"]
MCChain == <<"o", "l">>

MCFileOf == [k \in Keys |-> "a"]

VARIABLE part       \* the part that moves

modelVars == <<modelsVars, streamsVars>>
diskParts == <<skillsVars, notesVars, settingsVars>>
screenParts == <<terminalVars, editorVars, screenVars>>
mcVars == <<part, screenParts, weixinVars, modelVars, diskParts>>

(* The type invariants of the components. *)
TypeOK ==
    /\ TerminalTypeOK /\ EditorTypeOK /\ ScreenTypeOK /\ WeixinTypeOK
    /\ ModelsTypeOK /\ StreamsTypeOK /\ SkillsTypeOK /\ NotesTypeOK
    /\ SettingsTypeOK

Parts == {"loop", "editor", "screen", "weixin", "keys", "router", "streams",
          "skills", "memory", "store", "todo", "settings"}

Init ==
    /\ part \in Parts
    /\ TerminalInit /\ EditorInit /\ ScreenInit /\ WeixinInit /\ ModelsInit
    /\ StreamsInit /\ SkillsInit /\ NotesInit /\ SettingsInit
    \* a part that does not move has one initial state
    /\ part # "editor" => entries = 0
    /\ part # "screen" => height = 1
    /\ part # "weixin" => file = NoToken
    /\ part # "streams" => kind = "openai"

OnScreen ==
    \/ part = "loop" /\ TerminalNext /\ UNCHANGED <<editorVars, screenVars>>
    \/ part = "editor" /\ EditorNext /\ UNCHANGED <<terminalVars, screenVars>>
    \/ part = "screen" /\ ScreenNext /\ UNCHANGED <<terminalVars, editorVars>>

InModels ==
    \/ part = "keys" /\ (AdvanceClock \/ KeysNext) /\ UNCHANGED streamsVars
    \/ part = "router" /\ (AdvanceClock \/ RouterNext) /\ UNCHANGED streamsVars
    \/ part = "streams" /\ StreamsNext /\ UNCHANGED modelsVars

OnDisk ==
    \/ part = "skills" /\ SkillsNext /\ UNCHANGED <<notesVars, settingsVars>>
    \/ part = "memory" /\ MemoryNext /\ UNCHANGED <<skillsVars, settingsVars>>
    \/ part = "store" /\ StoreNext /\ UNCHANGED <<skillsVars, settingsVars>>
    \/ part = "todo" /\ TodoNext /\ UNCHANGED <<skillsVars, settingsVars>>
    \/ part = "settings" /\ SettingsNext /\ UNCHANGED <<skillsVars, notesVars>>

Screens == OnScreen /\ UNCHANGED <<part, weixinVars, modelVars, diskParts>>
Channel == part = "weixin" /\ WeixinNext /\ UNCHANGED <<part, screenParts, modelVars, diskParts>>
Providing == InModels /\ UNCHANGED <<part, screenParts, weixinVars, diskParts>>
Disk == OnDisk /\ UNCHANGED <<part, screenParts, weixinVars, modelVars>>

Next == Screens \/ Channel \/ Providing \/ Disk

Spec == Init /\ [][Next]_mcVars /\ TerminalFairness /\ WeixinFairness

=============================================================================
