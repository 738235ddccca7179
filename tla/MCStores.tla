------------------------------ MODULE MCStores ------------------------------
(***************************************************************************)
(* What the bridge keeps, in memory and on disk: the configuration file,   *)
(* the sessions of the core, the state of a Codex app-server session, the  *)
(* settings of the agents, the in-process relay hub, the files written at  *)
(* start and the index of a transcript.  They share no state, so a         *)
(* behaviour is one of one of them, chosen at the start.                   *)
(***************************************************************************)
EXTENDS ConfigFile, CoreSessions, CodexAppServer, AgentSettings, RelayHub, Boot, TranscriptPages

VARIABLE part

\* Two providers that need a proxy and one that does not; one of them brings
\* its own model.
MCProviders ==
    [a |-> [proxied |-> TRUE, model |-> ""], b |-> [proxied |-> TRUE, model |-> "m2"],
     c |-> [proxied |-> FALSE, model |-> ""]]

\* Any two operations; efforts one after the other; provider switches while
\* messages are sent.
MCOpScenarios ==
    {[ops |-> AllOps, dirs |-> {"", "d1", "d2"}, models |-> {"", "m1"}, efforts |-> {"low"}, max |-> 2],
     [ops |-> {"send"}, dirs |-> {""}, models |-> {""}, efforts |-> {"high", "junk"}, max |-> 3],
     [ops |-> {"send", "set_provider"}, dirs |-> {"d1"}, models |-> {"m1"}, efforts |-> {""}, max |-> 4]}

Parts == {"config", "core", "appserver", "settings", "hub", "boot", "pages"}

MCInit ==
    /\ part \in Parts
    /\ ConfigInit /\ CoreInit /\ AppInit /\ SettingsInit /\ HubInit /\ BootInit /\ PagesInit
    /\ part # "config" => file = InitialContent(CHOOSE p \in ProjectNames : TRUE, CHOOSE n \in ProviderNames : TRUE, FALSE)
    /\ part # "core" => disk = Empty
    /\ part # "appserver" => ~websocket
    /\ part # "settings" => backend = "codex" /\ bounds = (CHOOSE b \in MCOpScenarios : TRUE)
    /\ part # "pages" => source = "codex"

\* A second registration, or a second frame; a cut transcript, or a restart.
HubBound == \A d \in HubDevices : device'[d].reg < MaxRegistrations \/ sent' < MaxHubFrames
PagesBound == spent'.changes = 0 \/ spent'.restarts = 0
\* A file that cannot be read, a rotation, or an agent process that is left running.
BootBound == faults' + rotations' + Cardinality(agents') <= 1

MCNext ==
    \/ /\ part = "config" /\ ConfigNext
       /\ UNCHANGED <<part, coreVars, appVars, settingsVars, hubVars, bootVars, pageVars>>
    \/ /\ part = "core" /\ CoreNext
       /\ UNCHANGED <<part, configVars, appVars, settingsVars, hubVars, bootVars, pageVars>>
    \/ /\ part = "appserver" /\ AppNext
       /\ UNCHANGED <<part, configVars, coreVars, settingsVars, hubVars, bootVars, pageVars>>
    \/ /\ part = "settings" /\ SettingsNext
       /\ UNCHANGED <<part, configVars, coreVars, appVars, hubVars, bootVars, pageVars>>
    \/ /\ part = "hub" /\ HubNext /\ HubBound
       /\ UNCHANGED <<part, configVars, coreVars, appVars, settingsVars, bootVars, pageVars>>
    \/ /\ part = "boot" /\ BootNext /\ BootBound
       /\ UNCHANGED <<part, configVars, coreVars, appVars, settingsVars, hubVars, pageVars>>
    \/ /\ part = "pages" /\ PagesNext /\ PagesBound
       /\ UNCHANGED <<part, configVars, coreVars, appVars, settingsVars, hubVars, bootVars>>

MCSpec ==
    MCInit /\ [][MCNext]_<<part, configVars, coreVars, appVars, settingsVars, hubVars, bootVars, pageVars>>
=============================================================================
