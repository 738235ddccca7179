---------------------------- MODULE AgentSettings ----------------------------
(***************************************************************************)
(* The settings of an agent and the requests that use them.  An agent      *)
(* (claudecode or codex) holds one working directory, model, effort,       *)
(* permission mode and active provider for all phones; a request sets some *)
(* of them under the agent's lock, one at a time, and StartSession copies  *)
(* what it then finds.  Claude's provider may be reached through a local   *)
(* proxy that the agent owns; Codex reads the provider's key from a file.  *)
(***************************************************************************)
EXTENDS Naturals, Sequences

CONSTANTS
    Backends,       \* the agents under study: a subset of {"claudecode", "codex"}
    Reqs,           \* the connections, each with one request at a time
    Dirs, Models,   \* the directories and models there are
    Efforts,        \* efforts that normalise to themselves
    ProviderSpecs,  \* provider name -> [proxied, model]: whether it has a thinking
                    \* override, and the model it forces ("" for none)
    SettingsEffort, \* effortLevel of ~/.claude/settings.json
    OpScenarios     \* bounds: the requests made (ops), the directories, models and efforts
                    \* they name, "" for none, and how many there are (max)

AllOps == {"send", "set_provider", "set_mode", "switch_model", "other"}
Providers == DOMAIN ProviderSpecs

ASSUME SettingsAssumption ==
    /\ Backends \subseteq {"claudecode", "codex"}
    /\ "" \notin Providers /\ "unknown" \notin Providers
    /\ SettingsEffort \in Efforts \cup {""}
    /\ \A p \in Providers : ProviderSpecs[p] \in [proxied : BOOLEAN, model : Models \cup {""}]
    /\ \A c \in OpScenarios :
         /\ c.ops \subseteq AllOps /\ c.max \in Nat
         /\ c.dirs \subseteq Dirs \cup {""} /\ c.models \subseteq Models \cup {""}
         /\ c.efforts \subseteq Efforts \cup {"", "junk"}

VARIABLES
    backend,        \* which agent this is; never changes
    bounds,         \* the bounds in force; never change
    agent,          \* Agent: dir, model, effort, mode, provider and proxy (0 for none)
    proxies,        \* every proxy started: its target and whether it is open
    override,       \* claude-effort.json: a sequence of at most one effort
    auth,           \* auth.json of Codex: the provider whose key it holds
    request,        \* per connection: the request at hand and how far it is
    session,        \* the live session with what it was started with, if any
    sidecar,        \* the model and effort recorded for the session
    ops,            \* how many requests were made, for the bound
    overlapped,     \* whether two requests were ever at hand at once
    unsavedEffort         \* whether writing the override failed

settingsVars == <<backend, bounds, agent, proxies, override, auth, request, session, sidecar, ops,
                  overlapped, unsavedEffort>>

NoRequest == [op |-> "none", st |-> "idle", dir |-> "", model |-> "", effort |-> "", name |-> "",
              prev |-> "", chosen |-> [model |-> "", effort |-> ""], snap |-> {}, alone |-> TRUE]

(* normalizeEffort and normalizeClaudeRuntimeEffort: an unknown name is no effort. *)
Normal(e) == IF e \in Efforts THEN e ELSE ""

(* GetModel: the active provider's model comes before the agent's own. *)
GetModel(a) ==
    IF a.provider # "" /\ ProviderSpecs[a.provider].model # ""
    THEN ProviderSpecs[a.provider].model ELSE a.model

(* resolveClaudeDefaultEffort: the stored override, else the Mac's own settings. *)
DefaultEffort ==
    IF override # <<>> /\ Normal(override[1]) # "" THEN Normal(override[1]) ELSE SettingsEffort

SettingsInit ==
    /\ backend \in Backends /\ bounds \in OpScenarios
    /\ agent = [dir |-> "", model |-> "", mode |-> "default",
                effort |-> IF backend = "claudecode" THEN SettingsEffort ELSE "",
                provider |-> "", proxy |-> 0]
    /\ proxies = <<>> /\ override = <<>> /\ auth = "" /\ session = {} /\ sidecar = {}
    /\ request = [r \in Reqs |-> NoRequest]
    /\ ops = 0 /\ overlapped = FALSE /\ unsavedEffort = FALSE

Asked(r) == [dir |-> request[r].dir, model |-> request[r].model, effort |-> request[r].effort]
Busy == {r \in Reqs : request[r].op # "none"}
At(r, op, st) == request[r].op = op /\ request[r].st = st
Step(r, st) == request' = [request EXCEPT ![r].st = st]
Finish(r) == request' = [request EXCEPT ![r] = NoRequest]
StopProxy == IF agent.proxy = 0 THEN proxies ELSE [proxies EXCEPT ![agent.proxy].open = FALSE]

-----------------------------------------------------------------------------
(* A request arrives on a connection that has none at hand. *)
Arrive(r, op, dir, model, effort, name) ==
    /\ r \notin Busy /\ ops < bounds.max /\ op \in bounds.ops
    /\ ops' = ops + 1
    /\ overlapped' = (overlapped \/ Busy # {})
    /\ request' = [q \in Reqs |->
         IF q = r THEN [NoRequest EXCEPT !.op = op, !.st = "new", !.dir = dir, !.model = model,
                                         !.effort = effort, !.name = name, !.alone = Busy = {}]
         ELSE [request[q] EXCEPT !.alone = FALSE]]
    /\ UNCHANGED <<backend, bounds, agent, proxies, override, auth, session, sidecar, unsavedEffort>>

(* dispatchRPC: a request that names a directory moves the agent there, whatever it asks. *)
SwitchDir(r) ==
    /\ request[r].st = "new"
    /\ agent' = IF request[r].dir = "" THEN agent ELSE [agent EXCEPT !.dir = request[r].dir]
    /\ IF request[r].op = "other" THEN Finish(r) ELSE Step(r, "dispatched")
    /\ UNCHANGED <<backend, bounds, proxies, override, auth, session, sidecar, ops, overlapped, unsavedEffort>>

(* handleSwitchModel. *)
HandleSwitchModel(r) ==
    /\ At(r, "switch_model", "dispatched")
    /\ agent' = [agent EXCEPT !.model = request[r].model]
    /\ Finish(r)
    /\ UNCHANGED <<backend, bounds, proxies, override, auth, session, sidecar, ops, overlapped, unsavedEffort>>

SetActiveKeepingProxy(name) ==
    /\ proxies' = proxies
    /\ agent' = IF name \in Providers THEN [agent EXCEPT !.provider = name] ELSE agent

(* SetActiveProvider: Claude's proxy is stopped first, also when the name is not known. *)
SetActiveProvider(name) ==
    /\ proxies' = StopProxy
    /\ agent' = IF name \in Providers THEN [agent EXCEPT !.provider = name, !.proxy = 0]
                ELSE [agent EXCEPT !.proxy = 0]

HandleSetProvider(r) ==
    /\ At(r, "set_provider", "dispatched")
    /\ SetActiveProvider(request[r].name)
    /\ Finish(r)
    /\ UNCHANGED <<backend, bounds, override, auth, session, sidecar, ops, overlapped, unsavedEffort>>

(* handleSetPermissionMode: SetMode, then the live session takes the agent's mode unless one *)
(* of the two is "auto". *)
HandleSetPermissionMode(r) ==
    /\ At(r, "set_mode", "dispatched")
    /\ agent' = [agent EXCEPT !.mode = request[r].name]
    /\ Step(r, "mode_set")
    /\ UNCHANGED <<backend, bounds, proxies, override, auth, session, sidecar, ops, overlapped, unsavedEffort>>

SetLiveMode(r) ==
    /\ At(r, "set_mode", "mode_set")
    /\ session' = IF backend = "codex" THEN session
                  ELSE {IF "auto" \in {agent.mode, s.mode} THEN s
                        ELSE [s EXCEPT !.mode = agent.mode] : s \in session}
    /\ Finish(r)
    /\ UNCHANGED <<backend, bounds, agent, proxies, override, auth, sidecar, ops, overlapped, unsavedEffort>>

-----------------------------------------------------------------------------
(* applySendMessageRuntimeOptions: the model. *)
ApplyModel(r) ==
    /\ At(r, "send", "dispatched")
    /\ agent' = IF request[r].model = "" THEN agent ELSE [agent EXCEPT !.model = request[r].model]
    /\ Step(r, IF request[r].effort = "" THEN "applied" ELSE "model_set")
    /\ UNCHANGED <<backend, bounds, proxies, override, auth, session, sidecar, ops, overlapped, unsavedEffort>>

ReadEffortItself(r) ==
    /\ At(r, "send", "model_set")
    /\ request' = [request EXCEPT ![r].st = "prev_read", ![r].prev = request[r].effort]
    /\ UNCHANGED <<backend, bounds, agent, proxies, override, auth, session, sidecar, ops, overlapped, unsavedEffort>>

(* The effort: what it was is read before it is set. *)
ReadPreviousEffort(r) ==
    /\ At(r, "send", "model_set")
    /\ request' = [request EXCEPT ![r].st = "prev_read", ![r].prev = agent.effort]
    /\ UNCHANGED <<backend, bounds, agent, proxies, override, auth, session, sidecar, ops, overlapped, unsavedEffort>>

SetReasoningEffort(r) ==
    /\ At(r, "send", "prev_read")
    /\ agent' = [agent EXCEPT !.effort = Normal(request[r].effort)]
    /\ Step(r, IF backend = "claudecode" /\ Normal(request[r].effort) # Normal(request[r].prev)
               THEN "to_save" ELSE "applied")
    /\ UNCHANGED <<backend, bounds, proxies, override, auth, session, sidecar, ops, overlapped, unsavedEffort>>

(* saveClaudeEffortOverride: a failed write is only logged. *)
SaveEffortOverride(r) ==
    /\ At(r, "send", "to_save")
    /\ \/ override' = <<Normal(request[r].effort)>> /\ unsavedEffort' = unsavedEffort
       \/ override' = override /\ unsavedEffort' = TRUE
    /\ Step(r, "applied")
    /\ UNCHANGED <<backend, bounds, agent, proxies, auth, session, sidecar, ops, overlapped>>

(* claudeRuntimeSelectionFromAgent, and the lookup of the session in the registry. *)
Select(r) ==
    /\ At(r, "send", "applied")
    /\ request' = [request EXCEPT
         ![r].chosen = [model  |-> IF request[r].model # "" THEN request[r].model ELSE GetModel(agent),
                        effort |-> IF request[r].effort # "" THEN Normal(request[r].effort)
                                   ELSE agent.effort],
         ![r].st = IF session = {} THEN "to_start" ELSE "recorded"]
    /\ UNCHANGED <<backend, bounds, agent, proxies, override, auth, session, sidecar, ops, overlapped, unsavedEffort>>

(* providerEnvLocked of Claude: the proxy is kept when one runs, started when the provider *)
(* needs one, and stopped when it needs none.  NewProviderProxy may fail. *)
EnvProxy ==
    IF agent.provider = "" \/ ~ ProviderSpecs[agent.provider].proxied
    THEN proxies' = StopProxy /\ agent' = [agent EXCEPT !.proxy = 0]
    ELSE \/ agent.proxy # 0 /\ UNCHANGED <<agent, proxies>>
         \/ agent.proxy = 0 /\ UNCHANGED <<agent, proxies>>       \* could not be started
         \/ /\ agent.proxy = 0
            /\ proxies' = Append(proxies, [target |-> agent.provider, open |-> TRUE])
            /\ agent' = [agent EXCEPT !.proxy = Len(proxies) + 1]

(* StartSession copies the settings under the agent's lock. *)
Copied(r, px) ==
    {[dir |-> agent.dir, model |-> GetModel(agent), effort |-> agent.effort, mode |-> agent.mode,
      provider |-> agent.provider, proxy |-> px, by |-> r]}

StartSession(r) ==
    /\ At(r, "send", "to_start") /\ backend = "claudecode"
    /\ EnvProxy
    /\ request' = [request EXCEPT ![r].snap = Copied(r, agent'.proxy), ![r].st = "started"]
    /\ UNCHANGED <<backend, bounds, override, auth, session, sidecar, ops, overlapped, unsavedEffort>>

(* Codex goes on to write the provider's files once the lock is released. *)
CodexStartSession(r) ==
    /\ At(r, "send", "to_start") /\ backend = "codex"
    /\ request' = [request EXCEPT ![r].snap = Copied(r, 0),
                                  ![r].st = IF agent.provider = "" THEN "started" ELSE "snapped"]
    /\ UNCHANGED <<backend, bounds, agent, proxies, override, auth, session, sidecar, ops, overlapped,
                   unsavedEffort>>

(* Codex: ensureCodexAuth writes the provider's key where every Codex process reads it. *)
EnsureCodexAuth(r) ==
    /\ At(r, "send", "snapped")
    /\ auth' = (CHOOSE s \in request[r].snap : TRUE).provider
    /\ Step(r, "started")
    /\ UNCHANGED <<backend, bounds, agent, proxies, override, session, sidecar, ops, overlapped, unsavedEffort>>

(* The process starts and the session is put under its id unless another request was first. *)
PutSession(r) ==
    /\ At(r, "send", "started")
    /\ session' = IF session # {} THEN session
                  ELSE {[dir |-> s.dir, model |-> s.model, effort |-> s.effort, mode |-> s.mode,
                         provider |-> s.provider, proxy |-> s.proxy, by |-> s.by, key |-> auth,
                         alone |-> request[r].alone, asked |-> Asked(r)] : s \in request[r].snap}
    /\ Step(r, "recorded")
    /\ UNCHANGED <<backend, bounds, agent, proxies, override, auth, sidecar, ops, overlapped, unsavedEffort>>

(* writeClaudeRuntimeSidecar, then the message goes to the session. *)
RecordAndSend(r) ==
    /\ At(r, "send", "recorded")
    /\ sidecar' = IF backend = "claudecode" THEN {request[r].chosen} ELSE sidecar
    /\ Finish(r)
    /\ UNCHANGED <<backend, bounds, agent, proxies, override, auth, session, ops, overlapped, unsavedEffort>>

-----------------------------------------------------------------------------
(* The session ends: closed when idle, aborted, or its process is gone. *)
SessionEnds ==
    /\ session # {} /\ session' = {}
    /\ UNCHANGED <<backend, bounds, agent, proxies, override, auth, request, sidecar, ops, overlapped, unsavedEffort>>

(* The bridge restarts: the agent is made anew with the effort that was stored. *)
SettingsRestart ==
    /\ ops > 0
    /\ agent' = [dir |-> "", model |-> "", mode |-> "default", provider |-> "", proxy |-> 0,
                 effort |-> IF backend = "claudecode" THEN DefaultEffort ELSE ""]
    /\ proxies' = <<>> /\ session' = {}
    /\ request' = [r \in Reqs |-> NoRequest]
    /\ UNCHANGED <<backend, bounds, override, auth, sidecar, ops, overlapped, unsavedEffort>>

SendSteps(r) ==
    \/ ApplyModel(r) \/ ReadPreviousEffort(r) \/ SetReasoningEffort(r) \/ SaveEffortOverride(r)
    \/ Select(r) \/ StartSession(r) \/ CodexStartSession(r) \/ EnsureCodexAuth(r)
    \/ PutSession(r) \/ RecordAndSend(r)

SettingsNext ==
    \/ \E r \in Reqs, d \in bounds.dirs :
         \/ \E m \in bounds.models, e \in bounds.efforts : Arrive(r, "send", d, m, e, "")
         \/ \E p \in Providers \cup {"unknown"} : Arrive(r, "set_provider", d, "", "", p)
         \/ \E k \in {"default", "yolo", "auto"} : Arrive(r, "set_mode", d, "", "", k)
         \/ \E m \in bounds.models : Arrive(r, "switch_model", d, m, "", "")
         \/ Arrive(r, "other", d, "", "", "")
    \/ \E r \in Reqs :
         \/ SwitchDir(r) \/ HandleSwitchModel(r) \/ HandleSetProvider(r)
         \/ HandleSetPermissionMode(r) \/ SetLiveMode(r) \/ SendSteps(r)
    \/ SessionEnds \/ SettingsRestart

SettingsSpec == SettingsInit /\ [][SettingsNext]_settingsVars

-----------------------------------------------------------------------------
(* A proxy outlives no change of provider, and none is left behind: the one *)
(* open proxy is the agent's, and it leads to the active provider.  So a    *)
(* session that shares it, for ensureProviderProxyLocked reuses whatever    *)
(* proxy runs, is led to no provider but the one it was started with.       *)
ProxyFollowsProvider ==
    /\ agent.proxy # 0 => proxies[agent.proxy].open /\ proxies[agent.proxy].target = agent.provider
    /\ \A i \in 1..Len(proxies) : proxies[i].open => i = agent.proxy
    /\ \A s \in session : s.proxy # 0 /\ proxies[s.proxy].open => proxies[s.proxy].target = s.provider

(* set_provider answers appliesTo "new_sessions": the session that runs     *)
(* keeps its way to its provider.  It does not hold: SetActiveProvider      *)
(* closes the proxy that session talks through.                             *)
LiveSessionKeepsProxy == \A s \in session : s.proxy # 0 => proxies[s.proxy].open

(* A message that no other request ran beside starts its session with what *)
(* it asked for: its directory, its effort, and its model unless the        *)
(* provider forces one.  (Beside another request it may get that one's.)    *)
UndisturbedSend ==
    \A s \in session : s.alone =>
        /\ s.asked.dir \in {"", s.dir}
        /\ s.asked.effort # "" => s.effort = Normal(s.asked.effort)
        /\ s.asked.model = "" \/ s.model = s.asked.model
           \/ (s.provider # "" /\ s.model = ProviderSpecs[s.provider].model)

(* While requests came one at a time, the effort the next start of the      *)
(* bridge would give Claude is the one the last message used.               *)
EffortSurvivesRestart ==
    (backend = "claudecode" /\ ~overlapped /\ ~unsavedEffort /\ Busy = {} /\ agent.effort # "")
        => DefaultEffort = agent.effort

(* What a message asks for takes effect, for its session and, the effort,   *)
(* for the next start, as long as no other request runs beside it.          *)
SettingsTakeEffect == UndisturbedSend /\ EffortSurvivesRestart

SettingsTypeOK ==
    /\ agent.dir \in Dirs \cup {""} /\ agent.model \in Models \cup {""}
    /\ agent.effort \in Efforts \cup {""} /\ agent.provider \in Providers \cup {""}
    /\ agent.proxy \in 0..Len(proxies)
=============================================================================
