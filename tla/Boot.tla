-------------------------------- MODULE Boot --------------------------------
(***************************************************************************)
(* The start and the end of a bridge process: Main, the files of the data  *)
(* directory it loads or creates (identity.json, tls-cert.json,            *)
(* relay_identity.key, display-name.json, management-token, runtime.json), *)
(* the ports it binds, and the shutdown.  Product mode: a data directory   *)
(* and a management token are given.                                       *)
(*                                                                         *)
(* Incarnation n is the n-th process started; what it generates (an id, a  *)
(* key, a certificate, its token) is named n.  A write to a file may fail  *)
(* and the process may die anywhere; a file written atomically is old or   *)
(* new, one written by os.WriteFile may also be torn.                      *)
(***************************************************************************)
EXTENDS Naturals, FiniteSets

CONSTANTS MaxStarts, MaxRotations, MaxFaults     \* bounds; faults are files that exist but cannot be read

ASSUME BootAssumption == MaxStarts \in Nat \ {0} /\ MaxRotations \in Nat /\ MaxFaults \in Nat

Procs == 1 .. MaxStarts

VARIABLES
    dataDir,        \* identity, config, cert, key, name, token, runtime; 0 or "none" when absent
    proc,       \* each incarnation: pc, and what it has loaded
    port,       \* the processes that hold the listening port, at most one
    agents,     \* incarnations whose agent processes run
    ended,      \* incarnations that left through the shutdown
    rotations, faults, unsaved,     \* unsaved: a served certificate whose save failed
    given,      \* what the phones hold: identity, relay key, pin and its generation
    renamed     \* a name the user gave was stored, while no start was about to store a default

bootVars == <<dataDir, proc, port, agents, ended, rotations, faults, unsaved, given, renamed>>

NoCert == [spki |-> 0, gen |-> 0]
EmptyDisk == [identity |-> 0, config |-> FALSE, cert |-> NoCert, key |-> [st |-> "none", by |-> 0],
              name |-> "none", token |-> 0, runtime |-> 0]
NotStarted == [pc |-> "off", id |-> 0, cert |-> NoCert, key |-> 0, todo |-> "none"]

Alive(n) == proc[n].pc \notin {"off", "gone"}

BootInit ==
    /\ dataDir = EmptyDisk
    /\ proc = [n \in Procs |-> NotStarted]
    /\ port = {} /\ agents = {} /\ ended = {}
    /\ rotations = 0 /\ faults = 0 /\ unsaved = FALSE /\ renamed = FALSE
    /\ given = [id |-> 0, key |-> 0, cert |-> NoCert]

\* The shutdown of n has begun; what is left of it is in todo.
Stopping(n) == proc[n].todo \in {"handlers", "servers", "stopped"}

\* The process ends: the port is free again, its agents are not.
Exits(n) ==
    /\ proc' = [proc EXCEPT ![n] = [NotStarted EXCEPT !.pc = "gone"]]
    /\ port' = port \ {n}

\* WriteErrorFrame and os.Exit(1).
FailFast(n) == Exits(n) /\ UNCHANGED <<dataDir, agents, ended, rotations, faults, unsaved, given, renamed>>

GoesTo(n, pc) == proc' = [proc EXCEPT ![n].pc = pc]

\* A file that is there cannot be read, or was damaged.
ReadFault == faults < MaxFaults /\ faults' = faults + 1

-----------------------------------------------------------------------------
(* Main, in its order. *)

\* A process is started, while others serve or stop but not while another
\* starts; the Mac app removes runtime.json before it starts one.
Start(n) ==
    /\ proc[n].pc = "off" /\ \A m \in 1 .. n - 1 : proc[m].pc \in {"serving", "gone"}
    /\ GoesTo(n, "agents")
    /\ dataDir' \in {dataDir, [dataDir EXCEPT !.runtime = 0]}
    /\ UNCHANGED <<port, agents, ended, rotations, faults, unsaved, given, renamed>>

\* Agents are created, each of which may fail; none at all is an error.
CreateAgents(n) ==
    /\ proc[n].pc = "agents"
    /\ \/ /\ GoesTo(n, "identity")
          /\ UNCHANGED <<dataDir, port, agents, ended, rotations, faults, unsaved, given, renamed>>
       \/ FailFast(n)

\* DataDir.Initialize: identity.json, then config.json, each if it is absent.
Initialize(n) ==
    /\ proc[n].pc = "identity"
    /\ \/ /\ dataDir' = [dataDir EXCEPT !.identity = IF @ = 0 THEN n ELSE @]
          /\ GoesTo(n, "config")
          /\ UNCHANGED <<port, agents, ended, rotations, faults, unsaved, given, renamed>>
       \/ dataDir.identity = 0 /\ FailFast(n)

InitializeConfig(n) ==
    /\ proc[n].pc = "config"
    /\ \/ /\ dataDir' = [dataDir EXCEPT !.config = TRUE]
          /\ GoesTo(n, "bridgeId")
          /\ UNCHANGED <<port, agents, ended, rotations, faults, unsaved, given, renamed>>
       \/ ~dataDir.config /\ FailFast(n)

\* loadStableBridgeID: a file that cannot be read is an error, never a new identity.
LoadStableBridgeID(n) ==
    /\ proc[n].pc = "bridgeId"
    /\ \/ /\ proc' = [proc EXCEPT ![n].id = dataDir.identity, ![n].pc = "tls"]
          /\ UNCHANGED <<dataDir, port, agents, ended, rotations, faults, unsaved, given, renamed>>
       \/ ReadFault /\ Exits(n) /\ UNCHANGED <<dataDir, agents, ended, rotations, unsaved, given, renamed>>

\* resolveTailscaleRemote: without a Tailscale address or a TLS port no
\* candidate; otherwise the stored certificate, or a new one of generation 1
\* when there is none or it cannot be read.
ResolveTailscaleRemote(n) ==
    /\ proc[n].pc = "tls"
    /\ \/ GoesTo(n, "relay") /\ UNCHANGED faults
       \/ /\ dataDir.cert # NoCert
          /\ proc' = [proc EXCEPT ![n].cert = dataDir.cert, ![n].pc = "relay"] /\ UNCHANGED faults
       \/ dataDir.cert = NoCert /\ GoesTo(n, "newCert") /\ UNCHANGED faults
       \/ dataDir.cert # NoCert /\ ReadFault /\ GoesTo(n, "newCert")
    /\ UNCHANGED <<dataDir, port, agents, ended, rotations, unsaved, given, renamed>>

\* A save that fails is logged and the certificate used all the same.
CreateTLSCert(n) ==
    /\ proc[n].pc = "newCert"
    /\ proc' = [proc EXCEPT ![n].cert = [spki |-> n, gen |-> 1], ![n].pc = "relay"]
    /\ \/ dataDir' = [dataDir EXCEPT !.cert = [spki |-> n, gen |-> 1]] /\ UNCHANGED unsaved
       \/ UNCHANGED dataDir /\ unsaved' = TRUE
    /\ UNCHANGED <<port, agents, ended, rotations, faults, given, renamed>>

\* LoadOrCreateRelayCryptoIdentity: any failure to read the key makes a new one.
LoadRelayIdentity(n) ==
    /\ proc[n].pc = "relay"
    /\ \/ GoesTo(n, "management") /\ UNCHANGED faults       \* relay not configured
       \/ /\ dataDir.key.st = "ok"
          /\ proc' = [proc EXCEPT ![n].key = dataDir.key.by, ![n].pc = "management"] /\ UNCHANGED faults
       \/ dataDir.key.st # "ok" /\ GoesTo(n, "newKey") /\ UNCHANGED faults
       \/ dataDir.key.st = "ok" /\ ReadFault /\ GoesTo(n, "newKey")
    /\ UNCHANGED <<dataDir, port, agents, ended, rotations, unsaved, given, renamed>>

\* generateAndSaveX25519PrivateKey: os.WriteFile truncates the file and fills it.
TruncateKey(n) ==
    /\ proc[n].pc = "newKey" /\ proc[n].todo = "none"
    /\ dataDir' = [dataDir EXCEPT !.key = [st |-> "torn", by |-> n]]
    /\ proc' = [proc EXCEPT ![n].todo = "fill"]
    /\ UNCHANGED <<port, agents, ended, rotations, faults, unsaved, given, renamed>>

\* A key that is used whether or not its file was written.
FillKeyOrNot(n) ==
    /\ proc[n].pc = "newKey" /\ proc[n].todo = "fill"
    /\ \/ dataDir' = [dataDir EXCEPT !.key = [st |-> "ok", by |-> n]]
       \/ UNCHANGED dataDir
    /\ proc' = [proc EXCEPT ![n].key = n, ![n].pc = "management", ![n].todo = "none"]
    /\ UNCHANGED <<port, agents, ended, rotations, faults, unsaved, given, renamed>>

\* A failed write leaves the relay disabled.
FillKey(n) ==
    /\ proc[n].pc = "newKey" /\ proc[n].todo = "fill"
    /\ \/ /\ dataDir' = [dataDir EXCEPT !.key = [st |-> "ok", by |-> n]]
          /\ proc' = [proc EXCEPT ![n].key = n, ![n].pc = "management", ![n].todo = "none"]
       \/ /\ UNCHANGED dataDir
          /\ proc' = [proc EXCEPT ![n].pc = "management", ![n].todo = "none"]
    /\ UNCHANGED <<port, agents, ended, rotations, faults, unsaved, given, renamed>>

\* loadOrCreateDisplayName: the stored name is read; when none can be, the
\* host's name is stored, in a second step.
LoadOrCreateDisplayName(n) ==
    /\ proc[n].pc = "management"
    /\ \/ dataDir.name # "none" /\ GoesTo(n, "bindManagement") /\ UNCHANGED faults
       \/ dataDir.name = "none" /\ GoesTo(n, "newName") /\ UNCHANGED faults
       \/ dataDir.name # "none" /\ ReadFault /\ GoesTo(n, "newName")
    /\ UNCHANGED <<dataDir, port, agents, ended, rotations, unsaved, given, renamed>>

\* saveDisplayNameToDir: a write that fails is only logged.
SaveDefaultName(n) ==
    /\ proc[n].pc = "newName"
    /\ dataDir' \in {dataDir, [dataDir EXCEPT !.name = "host"]}
    /\ GoesTo(n, "bindManagement")
    /\ UNCHANGED <<port, agents, ended, rotations, faults, unsaved, given, renamed>>

\* ManagementServer.Start on a port of its own.
StartManagement(n) ==
    /\ proc[n].pc = "bindManagement"
    /\ \/ /\ GoesTo(n, "listen")
          /\ UNCHANGED <<dataDir, port, agents, ended, rotations, faults, unsaved, given, renamed>>
       \/ FailFast(n)

\* net.Listen of the bridge port, before any file another process is found by
\* is written.
Listen(n) ==
    /\ proc[n].pc = "listen"
    /\ \/ /\ port = {} /\ port' = {n}
          /\ GoesTo(n, "token")
          /\ UNCHANGED <<dataDir, agents, ended, rotations, faults, unsaved, given, renamed>>
       \/ FailFast(n)

\* The relay client and the TLS server are started; then the token is stored.
PersistToken(n) ==
    /\ proc[n].pc = "token"
    /\ \/ /\ dataDir' = [dataDir EXCEPT !.token = n]
          /\ GoesTo(n, "ready")
          /\ UNCHANGED <<port, agents, ended, rotations, faults, unsaved, given, renamed>>
       \/ FailFast(n)

\* WriteReadyFrame: the frame on stdout, then runtime.json.  From here on
\* phones are served and pair with what the process has loaded; what it did
\* not offer they keep from before.  If the shutdown has begun, Serve closes
\* the listener at once.
WriteReadyFrame(n) ==
    /\ proc[n].pc = "ready"
    /\ \/ /\ dataDir' = [dataDir EXCEPT !.runtime = n]
          /\ GoesTo(n, "serving")
          /\ port' = IF Stopping(n) THEN port \ {n} ELSE port
          /\ given' = [id |-> proc[n].id, key |-> IF proc[n].key = 0 THEN given.key ELSE proc[n].key,
                       cert |-> IF proc[n].cert = NoCert THEN given.cert ELSE proc[n].cert]
          /\ UNCHANGED <<agents, ended, rotations, faults, unsaved, renamed>>
       \/ FailFast(n)

-----------------------------------------------------------------------------
(* While it serves. *)

StartAgent(n) ==
    /\ proc[n].pc = "serving" /\ n \notin agents
    /\ agents' = agents \cup {n}
    /\ UNCHANGED <<dataDir, proc, port, ended, rotations, faults, unsaved, given, renamed>>

\* handleSetDisplayName, which the management API serves to the last; a write
\* that fails is only logged.
SetDisplayName(n) ==
    /\ proc[n].pc = "serving" /\ proc[n].todo # "stopped" /\ ~renamed
    /\ dataDir' = [dataDir EXCEPT !.name = "user"]
    /\ renamed' = \A m \in Procs : proc[m].pc # "newName"
    /\ UNCHANGED <<proc, port, agents, ended, rotations, faults, unsaved, given>>

\* RotateTLSCert, for whoever calls it: the next generation replaces the stored one.
RotateTLSCert(n) ==
    /\ proc[n].pc = "serving" /\ rotations < MaxRotations /\ dataDir.cert # NoCert
    /\ rotations' = rotations + 1
    /\ dataDir' = [dataDir EXCEPT !.cert = [spki |-> MaxStarts + rotations', gen |-> @.gen + 1]]
    /\ UNCHANGED <<proc, port, agents, ended, faults, unsaved, given, renamed>>

-----------------------------------------------------------------------------
(* Shutdown and death. *)

\* shutdown(), from a signal or the management API once both lead to it, beside
\* whatever Main still has to do: the context is cancelled and the HTTP server
\* told to stop, which closes the listener it serves.
BeginShutdown(n) ==
    /\ proc[n].pc \in {"token", "ready", "serving"} /\ ~Stopping(n)
    /\ proc' = [proc EXCEPT ![n].todo = "handlers"]
    /\ port' = IF proc[n].pc = "serving" THEN port \ {n} ELSE port
    /\ UNCHANGED <<dataDir, agents, ended, rotations, faults, unsaved, given, renamed>>

\* Handlers.Shutdown closes the sessions; an agent that has not ended within
\* the deadline is left running.
ShutdownHandlers(n) ==
    /\ proc[n].todo = "handlers"
    /\ proc' = [proc EXCEPT ![n].todo = "servers"]
    /\ agents' \in {agents \ {n}, agents}
    /\ UNCHANGED <<dataDir, port, ended, rotations, faults, unsaved, given, renamed>>

\* Connections, the relay client and the other servers.
ShutdownServers(n) ==
    /\ proc[n].todo = "servers"
    /\ proc' = [proc EXCEPT ![n].todo = "stopped"]
    /\ UNCHANGED <<dataDir, port, agents, ended, rotations, faults, unsaved, given, renamed>>

\* Serve returns ErrServerClosed: so does Main, whatever the goroutine that
\* runs shutdown still has to do.
MainReturns(n) ==
    /\ proc[n].pc = "serving" /\ Stopping(n)
    /\ Exits(n)
    /\ ended' = ended \cup {n}
    /\ UNCHANGED <<dataDir, agents, rotations, faults, unsaved, given, renamed>>

Dies(n) ==
    /\ Alive(n)
    /\ Exits(n)
    /\ UNCHANGED <<dataDir, agents, ended, rotations, faults, unsaved, given, renamed>>

BootNext ==
    \E n \in Procs :
      \/ Start(n) \/ CreateAgents(n) \/ Initialize(n) \/ InitializeConfig(n) \/ LoadStableBridgeID(n)
      \/ ResolveTailscaleRemote(n) \/ CreateTLSCert(n) \/ LoadRelayIdentity(n) \/ TruncateKey(n) \/ FillKey(n)
      \/ LoadOrCreateDisplayName(n) \/ SaveDefaultName(n) \/ StartManagement(n) \/ Listen(n) \/ PersistToken(n) \/ WriteReadyFrame(n)
      \/ StartAgent(n) \/ SetDisplayName(n) \/ RotateTLSCert(n)
      \/ BeginShutdown(n) \/ ShutdownHandlers(n) \/ ShutdownServers(n) \/ MainReturns(n) \/ Dies(n)

BootSpec == BootInit /\ [][BootNext]_bootVars

-----------------------------------------------------------------------------
(* Properties. *)

BootTypeOK ==
    /\ dataDir.identity \in 0 .. MaxStarts /\ dataDir.token \in 0 .. MaxStarts /\ dataDir.runtime \in 0 .. MaxStarts
    /\ dataDir.name \in {"none", "host", "user"} /\ dataDir.key.st \in {"none", "torn", "ok"}
    /\ Cardinality(port) <= 1 /\ agents \subseteq Procs /\ ended \subseteq Procs

\* What phones pinned when they paired stays good over restarts, crashes at
\* any step and failed writes, as long as every stored file could be read: the
\* bridge id and the relay key are the stored ones; the certificate is the
\* same or of a later generation, unless its save had failed; and a name the
\* user gave is not replaced by the host's, unless he gave it while another
\* start was between its read and its write of that file.
PublishedIsKept ==
    faults = 0 =>
      /\ given.id # 0 => dataDir.identity = given.id
      /\ given.key # 0 => dataDir.key = [st |-> "ok", by |-> given.key]
      /\ given.cert # NoCert /\ ~unsaved => dataDir.cert = given.cert \/ dataDir.cert.gen > given.cert.gen
      /\ renamed => dataDir.name = "user"

\* Whoever finds a live process through runtime.json can manage it with the
\* stored token and reaches it at its port, until its shutdown begins: also
\* after a start that failed half way, and with a second process started
\* meanwhile, beside this one or one that stops.
RuntimeFileUsable ==
    \A n \in Procs : dataDir.runtime = n /\ Alive(n) /\ ~Stopping(n) => dataDir.token = n /\ n \in port

\* What a start leaves behind can be relied on: by the phones that paired, and
\* by the Mac application that looks for the process.
BootSound == PublishedIsKept /\ RuntimeFileUsable

\* BUILD_INSTALL_AND_RUNTIME.md: runtime.json has the pid and the port of the
\* runtime.  A process that stops has closed its listener, and its file stays.
RuntimeFileExact ==
    \A n \in Procs : dataDir.runtime = n /\ Alive(n) => n \in port

\* The host's name is stored at the first start only.  It does not hold: the
\* read and the write of a start are two steps.
NameNeverReset == [][faults = 0 /\ dataDir.name = "user" => dataDir'.name = "user"]_bootVars

\* The documented order of the shutdown: the agent processes are closed before
\* the bridge ends.  It does not hold: Main returns once Serve does.
ShutdownReapsAgents == ended \cap agents = {}
=============================================================================
