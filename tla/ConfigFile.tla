----------------------------- MODULE ConfigFile -----------------------------
(***************************************************************************)
(* The configuration file config.toml and the functions of package config  *)
(* that edit it.  Every editing function takes configMu, reads the file,   *)
(* changes what it read and replaces the file by renaming a temporary one; *)
(* FormatConfigFile does the same without the lock, and a ConfigRepository *)
(* writes the file in place under a mutex of its own.  A function that     *)
(* returns an error has no result here: an edit is the set of contents it  *)
(* can leave behind, empty when it refuses.                                *)
(* Text (comments, quoting, blank lines) is left out: surgical edits of    *)
(* lines and the re-encoding of the whole file act alike on the content.   *)
(***************************************************************************)
EXTENDS Naturals, Sequences, SequencesExt, FiniteSets, Lists

CONSTANTS
    ProjectNames,   \* names a [[projects]] entry may have
    ProviderNames,  \* names of providers, global or inline
    Words,          \* names of custom commands and of aliases
    Users,          \* platform user ids that allow_from may list
    Writers,        \* goroutines that edit the file
    Formatters,     \* callers of FormatConfigFile, which takes no lock
    RawWriters,     \* callers that read, change and WriteRaw through a ConfigRepository
    MaxEdits        \* bound on the number of edits begun

AgentTypes == {"claudecode", "codex"}
PlatformTypes == {"feishu", "weixin"}
SettingKeys == {"language", "thinking_messages", "tool_messages", "tts_mode", "queue", "attachment_send"}
Services == {"management", "bridge"}
NoProvider == "none"    \* the option is not in the file
NoType == "none"        \* an empty agent or platform type; no agent type is asked for
NoName == "unnamed"     \* an empty project name
Names == ProjectNames \cup {NoName}

ASSUME ConfigAssumption ==
    /\ NoProvider \notin ProviderNames /\ NoName \notin ProjectNames
    /\ Writers \cap Formatters = {} /\ RawWriters \cap (Writers \cup Formatters) = {}
    /\ MaxEdits \in Nat

VARIABLES
    file,       \* the content of config.toml
    configMu,   \* the holders of the mutex: {} or one writer
    edit,       \* what each caller has in hand between its read and its rename
    edits,      \* number of edits begun
    inputs      \* "checked" until an edit is given what Load refuses, or the file is written in place

configVars == <<file, configMu, edit, edits, inputs>>

(* Entries of the file; ProjectConfig, AgentConfig, PlatformConfig.        *)
Platform == [type : PlatformTypes \cup {NoType}, cred : BOOLEAN, allow : SUBSET (Users \cup {"*"})]
Inline   == [name : ProviderNames, model : BOOLEAN]
Agent    == [type : AgentTypes \cup {NoType}, work_dir : BOOLEAN, provider : ProviderNames \cup {NoProvider},
             model : BOOLEAN, refs : Seq(ProviderNames), providers : Seq(Inline)]
Project  == [name : Names, multi : BOOLEAN, agent : Agent, platforms : Seq(Platform)]
Global   == [name : ProviderNames, types : SUBSET AgentTypes, model : BOOLEAN]
Content  == [projects : Seq(Project), providers : Seq(Global), commands : Seq(Words),
             aliases : Seq(Words), settings : [SettingKeys -> 0..1],   \* attachment_send = 1: not on or off
             services : SUBSET Services]

NewPlatform(t) == [type |-> t, cred |-> FALSE, allow |-> {}]
NewAgent(t) == [type |-> t, work_dir |-> FALSE, provider |-> NoProvider, model |-> FALSE,
                refs |-> <<>>, providers |-> <<>>]

-----------------------------------------------------------------------------
(* Lookups: the loops over cfg.Projects and cfg.Providers stop at the      *)
(* first entry of the name; the index serves for the raw file as well,     *)
(* whose n-th [[projects]] header opens the n-th project.                  *)
Named(seq, n) == {i \in DOMAIN seq : seq[i].name = n}
First(idx) == {i \in idx : \A j \in idx : i <= j}
ProjectIndex(f, p) == First(Named(f.projects, p))
RawSpan(f, i, q) == [f EXCEPT !.projects[i] = q]
Taken(seq, n) == Named(seq, n) # {}
Without(seq, i) == RemoveAt(seq, i)
Strip(refs, n) ==       \* the loops over provider_refs drop the first match only
    IF n \in ToSet(refs) THEN RemoveFirst(refs, n) ELSE refs
Compatible(f, n, t) ==  \* a reference the agent type may use
    \E i \in DOMAIN f.providers : /\ f.providers[i].name = n
                                  /\ f.providers[i].types = {} \/ t \in f.providers[i].types
                                  /\ \A j \in DOMAIN f.providers : f.providers[j].name = n => j <= i

(* Load: the checks of what the functions below can change.                *)
AgentLoads(multi, a) == a.type # NoType /\ ~(multi /\ a.work_dir)
PlatformsLoad(ps) == ps # <<>> /\ \A j \in DOMAIN ps : ps[j].type # NoType
ProjectLoads(q) == q.name # NoName /\ AgentLoads(q.multi, q.agent) /\ PlatformsLoad(q.platforms)
Validate(f) ==
    /\ f.settings["attachment_send"] = 0
    /\ f.projects # <<>>
    /\ \A i \in DOMAIN f.projects : ProjectLoads(f.projects[i])

(* ResolveProviderRefs: what a project is offered, references first.       *)
Offered(f, q) ==
    LET inline == {q.agent.providers[i].name : i \in DOMAIN q.agent.providers}
    IN  IF f.providers = <<>> THEN [i \in DOMAIN q.agent.providers |-> q.agent.providers[i].name]
        ELSE KeptAt(q.agent.refs, {i \in DOMAIN q.agent.refs :
                                    /\ q.agent.refs[i] \notin inline
                                    /\ Compatible(f, q.agent.refs[i], q.agent.type)})
             \o [i \in DOMAIN q.agent.providers |-> q.agent.providers[i].name]

-----------------------------------------------------------------------------
(* Providers of a project.                                                 *)
SaveAgentOption(f, p, key, v) ==    \* patchProjectAgentOption: "provider" or "model"
    {RawSpan(f, i, IF key = "provider" THEN [f.projects[i] EXCEPT !.agent.provider = v]
                                       ELSE [f.projects[i] EXCEPT !.agent.model = v]) :
     i \in ProjectIndex(f, p)}

PatchGlobalProvider(f, n) ==
    {[f EXCEPT !.providers[k].model = TRUE] : k \in First(Named(f.providers, n))}

SaveActiveProvider(f, p, n) == SaveAgentOption(f, p, "provider", n)
SaveAgentModel(f, p) == SaveAgentOption(f, p, "model", TRUE)

SaveProviderModel(f, p, n) ==
    UNION {LET a == f.projects[i].agent
               hit == First(Named(a.providers, n))
           IN  IF hit # {} THEN {[f EXCEPT !.projects[i].agent.providers[j].model = TRUE] : j \in hit}
               ELSE IF n \in ToSet(a.refs) THEN PatchGlobalProvider(f, n) ELSE {} :
           i \in ProjectIndex(f, p)}

AddProviderToConfig(f, p, n) ==
    {[f EXCEPT !.projects[i].agent.providers = Append(@, [name |-> n, model |-> FALSE])] :
     i \in {k \in ProjectIndex(f, p) : ~Taken(f.projects[k].agent.providers, n)}}

RemoveProviderFromConfig(f, p, n) ==
    {LET a == f.projects[i].agent
         inline == First(Named(a.providers, n))
     IN  [f EXCEPT !.projects[i].agent.providers =
                        IF inline = {} THEN @ ELSE Without(@, CHOOSE j \in inline : TRUE),
                   !.projects[i].agent.refs = Strip(@, n)] :
     i \in {k \in ProjectIndex(f, p) : \/ Taken(f.projects[k].agent.providers, n)
                                       \/ n \in ToSet(f.projects[k].agent.refs)}}

SaveProviderRefs(f, p, refs) ==
    {[f EXCEPT !.projects[i].agent.refs = refs] : i \in ProjectIndex(f, p)}

(* Global providers.                                                       *)
AddGlobalProvider(f, n, types) ==
    IF Taken(f.providers, n) THEN {}
    ELSE {[f EXCEPT !.providers = Append(@, [name |-> n, types |-> types, model |-> FALSE])]}

UpdateGlobalProvider(f, n, types) ==
    {[f EXCEPT !.providers[k] = [name |-> n, types |-> types, model |-> FALSE]] :
     k \in First(Named(f.providers, n))}

RemoveGlobalProvider(f, n) ==
    {[f EXCEPT !.providers = Without(@, k),
               !.projects = [i \in DOMAIN f.projects |->
                                [f.projects[i] EXCEPT !.agent.refs = Strip(@, n)]]] :
     k \in First(Named(f.providers, n))}

(* Commands and aliases: a command is refused when it exists, an alias     *)
(* replaces its namesake, a removal takes all entries of the name.         *)
AddCommand(f, w) == IF Contains(f.commands, w) THEN {}
                    ELSE {[f EXCEPT !.commands = Append(@, w)]}
RemoveCommand(f, w) == IF ~Contains(f.commands, w) THEN {}
                       ELSE {[f EXCEPT !.commands = KeptAt(@, {i \in DOMAIN @ : @[i] # w})]}
AddAlias(f, w) == {IF Contains(f.aliases, w) THEN f ELSE [f EXCEPT !.aliases = Append(@, w)]}
RemoveAlias(f, w) == IF ~Contains(f.aliases, w) THEN {}
                     ELSE {[f EXCEPT !.aliases = KeptAt(@, {i \in DOMAIN @ : @[i] # w})]}

(* Settings.  SaveLanguage and SaveTTSMode patch one key, SaveGlobal-      *)
(* Settings re-encodes the file with all the keys it was given.            *)
PatchTopLevelField(f, v) == {[f EXCEPT !.settings["language"] = v]}
PatchSectionField(f, key, v) == [f EXCEPT !.settings[key] = v]
SaveTTSMode(f, v) == {PatchSectionField(f, "tts_mode", v)}
SaveGlobalSettings(f, keys, v) ==
    {[f EXCEPT !.settings = [k \in SettingKeys |-> IF k \in keys THEN v ELSE @[k]]]}
EnableWebAdmin(f) ==
    IF f.services = Services THEN {} ELSE {[f EXCEPT !.services = Services]}

(* Projects and platforms.                                                 *)
PickAgentTemplate(f, type) ==   \* clone the first project unless a type is given
    IF type \in AgentTypes THEN NewAgent(type)
    ELSE IF f.projects # <<>> THEN [f.projects[1].agent EXCEPT !.refs = <<>>]
    ELSE NewAgent("codex")

EnsureProjectWithPlatform(f, p, t, type) ==
    IF ProjectIndex(f, p) # {}
    THEN {[f EXCEPT !.projects[i].platforms = Append(@, NewPlatform(t))] :
          i \in {k \in ProjectIndex(f, p) :
                 \A j \in DOMAIN f.projects[k].platforms : f.projects[k].platforms[j].type # t}}
    ELSE LET a == PickAgentTemplate(f, type)    \* only type, work_dir and mode are written
             at == IF a.type = NoType THEN "codex" ELSE a.type
         IN  {[f EXCEPT !.projects =
                 Append(@, [name |-> p, multi |-> FALSE,
                            agent |-> [NewAgent(at) EXCEPT !.work_dir = a.work_dir],
                            platforms |-> <<NewPlatform(t)>>])]}

EnsureProjectWithFeishuPlatform(f, p, type) == EnsureProjectWithPlatform(f, p, "feishu", type)
EnsureProjectWithWeixinPlatform(f, p, type) == EnsureProjectWithPlatform(f, p, "weixin", type)

MergeAllowFrom(cur, u) == IF "*" \in cur THEN {"*"} ELSE cur \cup {u}

(* The n-th platform of the type, the first for n = 0.                     *)
SavePlatformCredentials(f, p, t, n, u) ==
    UNION {LET ps == f.projects[i].platforms
               cand == {j \in DOMAIN ps : ps[j].type = t}
               nth == {j \in cand : Cardinality({k \in cand : k < j}) = (IF n = 0 THEN 0 ELSE n - 1)}
           IN  {[f EXCEPT !.projects[i].platforms[j].cred = TRUE,
                          !.projects[i].platforms[j].allow = MergeAllowFrom(@, u)] : j \in nth} :
           i \in ProjectIndex(f, p)}

SaveFeishuPlatformCredentials(f, p, n, u) == SavePlatformCredentials(f, p, "feishu", n, u)
SaveWeixinPlatformCredentials(f, p, n, u) == SavePlatformCredentials(f, p, "weixin", n, u)

AddPlatformToProject(f, p, t, type) ==
    IF ProjectIndex(f, p) # {}
    THEN {[f EXCEPT !.projects[i].platforms = Append(@, NewPlatform(t))] : i \in ProjectIndex(f, p)}
    ELSE {[f EXCEPT !.projects = Append(@, [name |-> p, multi |-> FALSE,
                                            agent |-> PickAgentTemplate(f, type),
                                            platforms |-> <<NewPlatform(t)>>])]}

RemoveProject(f, p) ==
    {[f EXCEPT !.projects = Without(@, i)] : i \in ProjectIndex(f, p)}

(* An agent type that changes drops the references it cannot use, and the  *)
(* active provider unless it is among those that are left; allow_from is   *)
(* set on the platforms of the given type.                                 *)
SaveProjectSettings(f, p, type, work_dir, t, allow) ==
    {LET a == f.projects[i].agent
         ps == f.projects[i].platforms
         kept == KeptAt(a.refs, {j \in DOMAIN a.refs : Compatible(f, a.refs[j], type)})
         b == IF a.type = type THEN a
              ELSE [a EXCEPT !.type = type, !.refs = kept,
                             !.provider = IF @ \in ToSet(kept) THEN @ ELSE NoProvider]
     IN  [f EXCEPT !.projects[i].agent = [b EXCEPT !.work_dir = work_dir],
                   !.projects[i].platforms =
                        [j \in DOMAIN ps |-> IF ps[j].type = t THEN [ps[j] EXCEPT !.allow = allow]
                                                               ELSE ps[j]]] :
     i \in ProjectIndex(f, p)}

-----------------------------------------------------------------------------
(* The edits of a content by every function but SaveDisplayConfig, with    *)
(* arguments that Load accepts.                                            *)
ProviderEdits(f) ==
    UNION {   SaveActiveProvider(f, p, n) \cup SaveAgentModel(f, p)
         \cup SaveProviderModel(f, p, n)
         \cup AddProviderToConfig(f, p, n) \cup RemoveProviderFromConfig(f, p, n)
         \cup SaveProviderRefs(f, p, <<n>>) \cup SaveProviderRefs(f, p, <<n, n>>) :
         p \in Names, n \in ProviderNames}
GlobalEdits(f) ==
    UNION {   AddGlobalProvider(f, n, {}) \cup AddGlobalProvider(f, n, {"codex"})
         \cup UpdateGlobalProvider(f, n, {"claudecode"}) \cup RemoveGlobalProvider(f, n) :
         n \in ProviderNames}
SettingEdits(f) ==
    PatchTopLevelField(f, 1) \cup SaveTTSMode(f, 1) \cup EnableWebAdmin(f)
    \cup SaveGlobalSettings(f, {"language", "queue", "attachment_send"}, 0)
    \cup UNION {AddCommand(f, w) \cup RemoveCommand(f, w) \cup AddAlias(f, w) \cup RemoveAlias(f, w) :
                w \in Words}
ProjectEdits(f) ==
    (UNION {   EnsureProjectWithFeishuPlatform(f, p, type) \cup EnsureProjectWithWeixinPlatform(f, p, type)
          \cup AddPlatformToProject(f, p, t, type) :
          p \in ProjectNames, t \in PlatformTypes, type \in {NoType, "codex"}})
    \cup (UNION {RemoveProject(f, p) : p \in {q \in Names : Len(f.projects) > 1}})
PlatformEdits(f) ==
    (UNION {   SaveFeishuPlatformCredentials(f, p, n, u) \cup SaveWeixinPlatformCredentials(f, p, n, u) :
          p \in ProjectNames, n \in {0, 2}, u \in Users})
    \cup (UNION {IF work_dir /\ \E i \in ProjectIndex(f, p) : f.projects[i].multi THEN {}
                 ELSE SaveProjectSettings(f, p, "codex", work_dir, t, {"*"}) :
                 p \in Names, work_dir \in BOOLEAN, t \in PlatformTypes})
Edits(f) ==
    ProviderEdits(f) \cup GlobalEdits(f) \cup SettingEdits(f) \cup ProjectEdits(f) \cup PlatformEdits(f)

(* With arguments that Load refuses and these functions do not: any text   *)
(* for attachment_send, empty names and types, a work_dir for a multi-     *)
(* workspace project, the removal of the last project.                     *)
UncheckedEdits(f) ==
    SaveGlobalSettings(f, {"attachment_send"}, 1)
    \cup (UNION {AddPlatformToProject(f, p, t, type) :
                 p \in Names, t \in PlatformTypes \cup {NoType}, type \in {NoType, "codex"}})
    \cup (UNION {RemoveProject(f, p) : p \in Names})
    \cup (UNION {SaveProjectSettings(f, p, type, work_dir, "feishu", {"*"}) :
                 p \in Names, type \in {NoType, "codex"}, work_dir \in BOOLEAN})

Idle == [pc |-> "idle"]
Callers == Writers \cup Formatters \cup RawWriters

(* A file of no bytes.                                                     *)
EmptyContent ==
    [projects |-> <<>>, providers |-> <<>>, commands |-> <<>>, aliases |-> <<>>,
     settings |-> [k \in SettingKeys |-> 0], services |-> {}]

(* The file as a user wrote it: one project, with or without a platform    *)
(* of each type, a shared and an inline provider.                          *)
InitialContent(p, n, multi) ==
    [projects |-> <<[name |-> p, multi |-> multi,
                     agent |-> [NewAgent("claudecode") EXCEPT !.refs = <<n>>, !.provider = n],
                     platforms |-> <<NewPlatform("feishu")>>]>>,
     providers |-> <<[name |-> n, types |-> {"claudecode"}, model |-> FALSE]>>,
     commands |-> <<>>, aliases |-> <<>>, settings |-> [k \in SettingKeys |-> 0],
     services |-> {}]

ConfigInit ==
    /\ \E p \in ProjectNames, n \in ProviderNames, multi \in BOOLEAN : file = InitialContent(p, n, multi)
    /\ configMu = {}
    /\ edit = [c \in Callers |-> Idle]
    /\ edits = 0 /\ inputs = "checked"

Edited(g, todo) == [pc |-> "write", base |-> file, new |-> g, todo |-> todo, raced |-> FALSE]

BeginUnlocked(w) ==     \* a function that forgets the lock
    /\ edit[w] = Idle /\ edits < MaxEdits
    /\ \E g \in Edits(file) : edit' = [edit EXCEPT ![w] = Edited(g, <<>>)]
    /\ edits' = edits + 1 /\ UNCHANGED <<configMu, file, inputs>>

(* A function takes the lock, reads the file and changes what it read.     *)
Begin(w) ==
    /\ configMu = {} /\ edit[w] = Idle /\ edits < MaxEdits
    /\ \/ /\ \E g \in Edits(file) : edit' = [edit EXCEPT ![w] = Edited(g, <<>>)]
          /\ UNCHANGED inputs
       \/ /\ \E g \in UncheckedEdits(file) : edit' = [edit EXCEPT ![w] = Edited(g, <<>>)]
          /\ inputs' = "unchecked"
    /\ configMu' = {w} /\ edits' = edits + 1 /\ UNCHANGED file

(* SaveDisplayConfig patches its keys one by one, each a write of its own. *)
BeginSaveDisplayConfig(w) ==
    /\ configMu = {} /\ edit[w] = Idle /\ edits < MaxEdits
    /\ edit' = [edit EXCEPT ![w] = Edited(PatchSectionField(file, "thinking_messages", 1),
                                          <<"tool_messages">>)]
    /\ configMu' = {w} /\ edits' = edits + 1 /\ UNCHANGED <<file, inputs>>

(* The edits in hand when c writes the file and goes on to e: `raced' says *)
(* of an edit that the file it read was replaced by a caller that does not *)
(* hold configMu; `linked' of a WriteRaw that no rename has put another    *)
(* file in the place of the one it writes to.                              *)
Beside(c, e, raced, unlinked) ==
    [d \in Callers |->
        IF d = c THEN e
        ELSE IF edit[d].pc = "write" THEN [edit[d] EXCEPT !.raced = @ \/ raced]
        ELSE IF edit[d].pc = "rewrite" THEN [edit[d] EXCEPT !.linked = @ /\ ~unlinked]
        ELSE edit[d]]

(* saveConfig and writeRawConfig: the temporary file is renamed.           *)
Write(w) ==
    /\ edit[w].pc = "write"
    /\ file' = edit[w].new
    /\ IF edit[w].todo = <<>>
       THEN edit' = Beside(w, Idle, FALSE, TRUE) /\ configMu' = configMu \ {w}
       ELSE /\ edit' = Beside(w, [edit[w] EXCEPT !.base = edit[w].new, !.todo = Tail(@),
                                      !.new = PatchSectionField(edit[w].new, Head(edit[w].todo), 1)],
                              FALSE, TRUE)
            /\ UNCHANGED configMu
    /\ UNCHANGED <<edits, inputs>>

(* Any step of the write fails: the temporary file is removed, the rest of *)
(* the patches is given up and the error returned.                         *)
WriteFails(w) ==
    /\ edit[w].pc = "write"
    /\ edit' = [edit EXCEPT ![w] = Idle]
    /\ configMu' = configMu \ {w}
    /\ UNCHANGED <<file, edits, inputs>>

(* The process ends; the file is what the last write to it left.           *)
Crash ==
    /\ edit # [c \in Callers |-> Idle]
    /\ edit' = [c \in Callers |-> Idle] /\ configMu' = {}
    /\ UNCHANGED <<file, edits, inputs>>

(* FormatConfigFile reads the file, and renames its text over the file     *)
(* whatever was written meanwhile.                                         *)
FormatReads(c) ==
    /\ edit[c] = Idle /\ edits < MaxEdits
    /\ edit' = [edit EXCEPT ![c] = [pc |-> "format", new |-> file]]
    /\ edits' = edits + 1 /\ UNCHANGED <<file, configMu, inputs>>
FormatWrites(c) ==
    /\ edit[c].pc = "format"
    /\ file' = edit[c].new /\ edit' = Beside(c, Idle, TRUE, TRUE)
    /\ UNCHANGED <<configMu, edits, inputs>>

(* A caller of a ConfigRepository reads the file and changes it; WriteRaw, *)
(* alone under the repository's mutex, empties the file and then writes,   *)
(* unless that fails.                                                      *)
RawReads(c) ==
    /\ edit[c] = Idle /\ edits < MaxEdits
    /\ \E g \in Edits(file) : edit' = [edit EXCEPT ![c] = [pc |-> "raw", new |-> g]]
    /\ edits' = edits + 1 /\ UNCHANGED <<file, configMu, inputs>>
WriteRaw(c) ==
    /\ edit[c].pc = "raw" /\ \A d \in Callers : edit[d].pc # "rewrite"
    /\ file' = EmptyContent /\ inputs' = "unchecked"
    /\ edit' = Beside(c, [pc |-> "rewrite", new |-> edit[c].new, linked |-> TRUE], TRUE, FALSE)
    /\ UNCHANGED <<configMu, edits>>
WriteRawEnds(c) ==
    /\ edit[c].pc = "rewrite"
    /\ file' \in {file} \cup (IF edit[c].linked THEN {edit[c].new} ELSE {})
    /\ edit' = Beside(c, Idle, edit[c].linked, FALSE)
    /\ UNCHANGED <<configMu, edits, inputs>>

ConfigNext ==
    \/ \E w \in Writers : Begin(w) \/ BeginSaveDisplayConfig(w) \/ Write(w) \/ WriteFails(w)
    \/ \E c \in Formatters : FormatReads(c) \/ FormatWrites(c)
    \/ \E c \in RawWriters : RawReads(c) \/ WriteRaw(c) \/ WriteRawEnds(c)
    \/ Crash

ConfigSpec == ConfigInit /\ [][ConfigNext]_configVars

-----------------------------------------------------------------------------
ConfigTypeOK ==
    /\ file \in Content
    /\ configMu \subseteq Writers /\ Cardinality(configMu) <= 1
    /\ DOMAIN edit = Callers
    /\ edits \in 0..MaxEdits /\ inputs \in {"checked", "unchecked"}

Distinct(seq) == \A i, j \in DOMAIN seq : seq[i].name = seq[j].name => i = j

(* However the edits of several callers, crashes, failed writes and an     *)
(* unlocked FormatConfigFile mix, Load accepts the file as long as no      *)
(* function was given what it refuses and no ConfigRepository wrote in     *)
(* place.  Even then the lookups read it without ambiguity: no two         *)
(* projects, shared providers, inline providers of a project, commands or  *)
(* aliases have one name, every project has a platform, and no provider is *)
(* offered twice, by reference and inline, to a project whose references   *)
(* are distinct.                                                           *)
FileSound ==
    /\ inputs = "checked" => Validate(file)
    /\ Distinct(file.projects) /\ Distinct(file.providers)
    /\ IsInjective(file.commands) /\ IsInjective(file.aliases)
    /\ \A i \in DOMAIN file.projects :
          LET q == file.projects[i] IN
          /\ q.platforms # <<>>
          /\ Distinct(q.agent.providers)
          /\ IsInjective(q.agent.refs) => IsInjective(Offered(file, q))

(* A function replaces exactly the content it has read: between its read   *)
(* and its rename no other function writes, so that no acknowledged edit   *)
(* is lost, but by FormatConfigFile and WriteRaw, which do not take        *)
(* configMu.                                                               *)
SerialEdits ==
    \A w \in Writers : edit[w].pc = "write" => edit[w].base = file \/ edit[w].raced

(* Both: the edits are serial, and each leaves a file that can be loaded.  *)
ConfigSound == FileSound /\ SerialEdits

(* What does not hold: that every edit leaves a file that Load accepts     *)
(* (SaveGlobalSettings, SaveProjectSettings, AddPlatformToProject and      *)
(* RemoveProject do not look), and that WriteRaw leaves the old content or *)
(* the new one (a crash leaves it empty).                                  *)
EditsLoad == Validate(file) \/ \E c \in RawWriters : edit[c].pc = "rewrite"
RawAtomic ==
    [][\A c \in RawWriters : edit[c].pc = "rewrite" /\ edit'[c] = Idle => file' = edit[c].new]_configVars
=============================================================================
