---------------------------- MODULE StoresProofs ----------------------------
(***************************************************************************)
(* Theorems about parts of the bridge that keep state of their own: the    *)
(* files and ports of a start (Boot), the settings of an agent             *)
(* (AgentSettings), a Codex app-server session (CodexAppServer), the       *)
(* configuration file (ConfigFile), the sessions of the core               *)
(* (CoreSessions), the relay inside the bridge (RelayHub) and the pages of *)
(* a transcript (TranscriptPages).  They share no state; each has its      *)
(* inductive invariant here.                                               *)
(***************************************************************************)
EXTENDS Boot, AgentSettings, CodexAppServer, ConfigFile, CoreSessions, RelayHub, TranscriptPages,
        SequenceTheorems, ListsProofs, TLAPS

-----------------------------------------------------------------------------
(* The start of a bridge process.                                          *)

Starting == {"agents", "identity", "config", "bridgeId", "tls", "newCert", "relay", "newKey", "management",
             "newName", "bindManagement", "listen", "token", "ready"}
Stages == Starting \cup {"off", "serving", "gone"}
Identified == Stages \ {"off", "agents", "identity", "gone"}
Configured == Identified \ {"config", "bridgeId"}
Holding == {"token", "ready", "serving"}

Certs == [spki : Nat, gen : Nat]
Disks == [identity : Nat, config : BOOLEAN, cert : Certs, key : [st : {"none", "torn", "ok"}, by : Nat],
          name : {"none", "host", "user"}, token : Nat, runtime : Nat]
Processes == [pc : Stages, id : Nat, cert : Certs, key : Nat,
              todo : {"none", "fill", "handlers", "servers", "stopped"}]

BootTypes ==
    /\ dataDir \in Disks /\ proc \in [Procs -> Processes] /\ given \in [id : Nat, key : Nat, cert : Certs]
    /\ faults \in Nat /\ rotations \in Nat /\ unsaved \in BOOLEAN /\ renamed \in BOOLEAN

(* A process starts only when all before it serve, stop or are gone.        *)
OneStarts ==
    \A m, n \in Procs : m < n /\ proc[n].pc # "off" => proc[m].pc \in {"serving", "gone"}

(* A process has the port from Listen to its shutdown, or until Serve sees  *)
(* the shutdown.                                                            *)
Holds(n) == proc[n].pc \in {"token", "ready"} \/ (proc[n].pc = "serving" /\ ~Stopping(n))

(* The process runtime.json names is the one that holds the port, and its   *)
(* token was stored before, unless it stops.                                *)
RuntimeInv ==
    \A n \in Procs :
      /\ Holds(n) => port = {n}
      /\ proc[n].pc = "ready" => dataDir.token = n
      /\ dataDir.runtime = n => proc[n].pc \in {"serving", "gone"}
      /\ dataDir.runtime = n /\ Holds(n) => dataDir.token = n

(* The identity a process read is the stored one, and the one given to the *)
(* phone.                                                                  *)
IdInv ==
    /\ \A n \in Procs : /\ proc[n].pc \in Identified => dataDir.identity # 0
                        /\ proc[n].pc \in Configured => proc[n].id = dataDir.identity
    /\ given.id # 0 => dataDir.identity = given.id

(* Without a read fault a new key is made only when none is stored, and a   *)
(* key in use is the stored one.                                            *)
KeyInv ==
    faults = 0 =>
      /\ \A n \in Procs : /\ proc[n].pc = "newKey" => dataDir.key.st # "ok"
                          /\ proc[n].key # 0 => dataDir.key = [st |-> "ok", by |-> proc[n].key]
      /\ given.key # 0 => dataDir.key = [st |-> "ok", by |-> given.key]

(* A certificate is another one that was stored later, or the same.        *)
Follows(c, d) == c = d \/ c.gen > d.gen

(* Without a read fault or a failed write, the stored certificate is the   *)
(* served one, or came after it.                                           *)
CertInv ==
    faults = 0 /\ ~unsaved =>
      /\ \A n \in Procs : /\ proc[n].pc = "newCert" => dataDir.cert = NoCert
                          /\ proc[n].cert # NoCert => Follows(dataDir.cert, proc[n].cert)
      /\ given.cert # NoCert => Follows(dataDir.cert, given.cert)

(* A name the user gave is the stored one, and no start is about to store   *)
(* another.                                                                 *)
NameInv == faults = 0 /\ renamed => dataDir.name = "user" /\ \A n \in Procs : proc[n].pc # "newName"

(* The inductive invariant of the start.                                   *)
BootInv == BootTypes /\ OneStarts /\ RuntimeInv /\ IdInv /\ KeyInv /\ CertInv /\ NameInv

(* Only the process of n differs, and it is as q says.                      *)
Others(n) == proc' \in [Procs -> Processes] /\ \A m \in Procs : m # n => proc'[m] = proc[m]

(* A process at its next stage is otherwise what it was.                   *)
LEMMA MoveFacts ==
    ASSUME proc \in [Procs -> Processes], NEW n \in Procs, NEW pc \in Stages, GoesTo(n, pc)
    PROVE  /\ Others(n) /\ proc'[n].pc = pc /\ proc'[n].id = proc[n].id /\ proc'[n].key = proc[n].key
           /\ proc'[n].cert = proc[n].cert /\ proc'[n].todo = proc[n].todo
<1>1. proc[n] \in Processes
  OBVIOUS
<1> DEFINE p == [proc[n] EXCEPT !.pc = pc]
<1>2. /\ p \in Processes /\ p.pc = pc /\ p.id = proc[n].id /\ p.key = proc[n].key /\ p.cert = proc[n].cert
      /\ p.todo = proc[n].todo
  BY <1>1 DEF Processes
<1>3. proc' = [proc EXCEPT ![n] = p]
  BY DEF GoesTo
<1> HIDE DEF p
<1>4. proc'[n] = p /\ Others(n)
  BY <1>2, <1>3 DEF Others
<1> QED BY <1>2, <1>4

(* A process that leaves gives the port up.                                *)
LEMMA ExitFacts ==
    ASSUME proc \in [Procs -> Processes], NEW n \in Procs, Exits(n)
    PROVE  /\ Others(n) /\ proc'[n].pc = "gone" /\ proc'[n].key = 0 /\ proc'[n].cert = NoCert
           /\ port' = port \ {n}
<1> DEFINE p == [NotStarted EXCEPT !.pc = "gone"]
<1>1. p = [pc |-> "gone", id |-> 0, cert |-> NoCert, key |-> 0, todo |-> "none"]
  BY DEF NotStarted
<1>2. p \in Processes /\ p.pc = "gone" /\ p.key = 0 /\ p.cert = NoCert
  BY <1>1 DEF Processes, Stages, Certs, NoCert
<1>3. proc' = [proc EXCEPT ![n] = p] /\ port' = port \ {n}
  BY DEF Exits
<1> HIDE DEF p
<1>4. proc'[n] = p /\ Others(n)
  BY <1>2, <1>3 DEF Others
<1> QED BY <1>2, <1>3, <1>4

(* A process leaves, at whatever step it was.                               *)
LEMMA ExitKeeps ==
    ASSUME BootInv, NEW n \in Procs, proc[n].pc # "off", Exits(n), faults' \in Nat, faults' = 0 => faults = 0,
           UNCHANGED <<dataDir, rotations, unsaved, given, renamed>>
    PROVE  BootInv'
<1>1. /\ Others(n) /\ proc'[n].pc = "gone" /\ proc'[n].key = 0 /\ proc'[n].cert = NoCert
      /\ port' = port \ {n}
  BY ExitFacts DEF BootInv, BootTypes
<1>2. BootTypes'
  BY <1>1 DEF BootInv, BootTypes, Others
<1>3. OneStarts'
  BY <1>1 DEF BootInv, OneStarts, Others
<1>4. RuntimeInv'
  BY <1>1 DEF BootInv, RuntimeInv, Others, Holds, Stopping
<1>5. IdInv'
  BY <1>1 DEF BootInv, IdInv, Others, Identified, Configured
<1>6. KeyInv'
  BY <1>1 DEF BootInv, KeyInv, Others
<1>7. CertInv'
  BY <1>1 DEF BootInv, CertInv, Others
<1>8. NameInv'
  BY <1>1 DEF BootInv, NameInv, Others
<1> QED BY <1>2, <1>3, <1>4, <1>5, <1>6, <1>7, <1>8 DEF BootInv

(* A process that starts goes one step further and may load what is stored. *)
LEMMA LoadKeeps ==
    ASSUME BootInv, NEW n \in Procs, Others(n), faults' \in Nat, faults' = 0 => faults = 0,
           UNCHANGED <<dataDir, port, rotations, unsaved, given, renamed>>,
           proc[n].pc \in Starting \ Holding, proc'[n].pc \in Starting \ Holding,
           proc'[n].pc \in Identified => proc[n].pc \in Identified,
           proc'[n].pc \in Configured => proc'[n].id = dataDir.identity,
           proc'[n].pc = "newKey" /\ faults' = 0 => dataDir.key.st # "ok",
           proc'[n].pc = "newCert" /\ faults' = 0 => dataDir.cert = NoCert,
           proc'[n].pc = "newName" /\ faults' = 0 => dataDir.name = "none",
           \/ proc'[n].key = proc[n].key
           \/ dataDir.key = [st |-> "ok", by |-> proc'[n].key],
           proc'[n].cert = proc[n].cert \/ proc'[n].cert = dataDir.cert
    PROVE  BootInv'
<1>2. BootTypes'
  BY DEF BootInv, BootTypes, Others
<1>3. OneStarts'
  BY DEF BootInv, OneStarts, Others, Starting, Holding
<1>4. RuntimeInv'
  BY DEF BootInv, RuntimeInv, Others, Holds, Holding, Stopping, Starting
<1>5. IdInv'
  BY DEF BootInv, IdInv, Others
<1>6. KeyInv'
  BY DEF BootInv, KeyInv, Others
<1>7. CertInv'
  BY DEF BootInv, CertInv, Others, Follows
<1>8. NameInv'
  BY DEF BootInv, NameInv, Others
<1> QED BY <1>2, <1>3, <1>4, <1>5, <1>6, <1>7, <1>8 DEF BootInv

(* The shutdown begins, or goes on: the port may be given up.               *)
LEMMA StopKeeps ==
    ASSUME BootInv, NEW n \in Procs, Others(n), UNCHANGED <<dataDir, rotations, faults, unsaved, given, renamed>>,
           proc'[n].pc = proc[n].pc, Stopping(n)',
           port' = port \/ (proc[n].pc = "serving" /\ port' = port \ {n}),
           proc'[n].id = proc[n].id, proc'[n].key = proc[n].key, proc'[n].cert = proc[n].cert
    PROVE  BootInv'
<1>2. BootTypes'
  BY DEF BootInv, BootTypes, Others
<1>3. OneStarts'
  BY DEF BootInv, OneStarts, Others
<1>4. RuntimeInv'
  <2>1. \A m \in Procs : Holds(m)' => Holds(m) /\ (m = n => proc[m].pc # "serving")
    BY DEF Holds, Stopping, Others
  <2>2. ASSUME NEW m \in Procs, Holds(m)' PROVE port' = {m}
    BY <2>1, <2>2 DEF BootInv, RuntimeInv
  <2> QED BY <2>1, <2>2 DEF BootInv, RuntimeInv, Others
<1>5. IdInv'
  BY DEF BootInv, IdInv, Others, Identified, Configured, Stages
<1>6. KeyInv'
  BY DEF BootInv, KeyInv, Others
<1>7. CertInv'
  BY DEF BootInv, CertInv, Others
<1>8. NameInv'
  BY DEF BootInv, NameInv, Others
<1> QED BY <1>2, <1>3, <1>4, <1>5, <1>6, <1>7, <1>8 DEF BootInv

(* Every step keeps the invariant.                                         *)
LEMMA BootStep == BootInv /\ [BootNext]_bootVars => BootInv'
<1> SUFFICES ASSUME BootInv, [BootNext]_bootVars PROVE BootInv'
  OBVIOUS
<1> USE DEF BootInv
<1>1. CASE UNCHANGED bootVars
  BY <1>1 DEF bootVars, BootTypes, OneStarts, RuntimeInv, Holds, Stopping, IdInv, KeyInv, CertInv, NameInv
<1>2. proc \in [Procs -> Processes] /\ dataDir \in Disks /\ faults \in Nat
  BY DEF BootTypes
<1>3. ASSUME NEW n \in Procs, FailFast(n), proc[n].pc # "off" PROVE BootInv'
  BY <1>2, <1>3, ExitKeeps DEF FailFast
<1>4. ASSUME NEW n \in Procs, Start(n) PROVE BootInv'
  <2>1. /\ proc[n].pc = "off" /\ \A m \in 1 .. n - 1 : proc[m].pc \in {"serving", "gone"}
        /\ GoesTo(n, "agents")
        /\ dataDir' \in {dataDir, [dataDir EXCEPT !.runtime = 0]}
        /\ UNCHANGED <<port, agents, ended, rotations, faults, unsaved, given, renamed>>
    BY <1>4, Zenon DEF Start
  <2>7. /\ dataDir' \in Disks /\ dataDir'.identity = dataDir.identity
        /\ dataDir'.cert = dataDir.cert /\ dataDir'.key = dataDir.key /\ dataDir'.name = dataDir.name
        /\ dataDir'.token = dataDir.token /\ dataDir'.runtime \in {dataDir.runtime, 0}
    BY <1>2, <2>1 DEF Disks
  <2>8. 0 \notin Procs
    BY DEF Procs
  <2>2. /\ Others(n) /\ proc'[n].pc = "agents" /\ proc'[n].id = proc[n].id /\ proc'[n].key = proc[n].key
        /\ proc'[n].cert = proc[n].cert
    BY <1>2, <2>1, MoveFacts DEF Stages, Starting
  <2>3. BootTypes'
    BY <2>1, <2>2, <2>7 DEF BootTypes, Others
  <2>4. OneStarts'
    BY <2>1, <2>2, BootAssumption DEF OneStarts, Others, Procs
  <2>5. RuntimeInv' /\ IdInv'
    BY <2>1, <2>2, <2>7, <2>8 DEF RuntimeInv, IdInv, Others, Holds, Stopping, Identified, Configured
  <2>6. KeyInv' /\ CertInv' /\ NameInv'
    BY <2>1, <2>2, <2>7 DEF KeyInv, CertInv, NameInv, Others
  <2> QED BY <2>3, <2>4, <2>5, <2>6
<1>5. ASSUME NEW n \in Procs, CreateAgents(n) PROVE BootInv'
  <2>1. CASE FailFast(n)
    BY <1>3, <1>5, <2>1 DEF CreateAgents
  <2>2. CASE /\ GoesTo(n, "identity")
             /\ UNCHANGED <<dataDir, port, agents, ended, rotations, faults, unsaved, given, renamed>>
    <3>1. Others(n) /\ proc'[n].pc = "identity" /\ proc'[n].key = proc[n].key /\ proc'[n].cert = proc[n].cert
      BY <1>2, <2>2, MoveFacts DEF Stages, Starting
    <3>2. proc[n].pc = "agents"
      BY <1>5 DEF CreateAgents
    <3> QED BY <1>2, <2>2, <3>1, <3>2, LoadKeeps DEF Starting, Holding, Identified, Configured
  <2> QED BY <1>5, <2>1, <2>2, Zenon DEF CreateAgents
<1>6. ASSUME NEW n \in Procs, Initialize(n) PROVE BootInv'
  <2>1. CASE FailFast(n)
    BY <1>3, <1>6, <2>1 DEF Initialize
  <2>2. CASE /\ dataDir' = [dataDir EXCEPT !.identity = IF @ = 0 THEN n ELSE @]
             /\ GoesTo(n, "config")
             /\ UNCHANGED <<port, agents, ended, rotations, faults, unsaved, given, renamed>>
    <3>1. /\ Others(n) /\ proc'[n].pc = "config" /\ proc'[n].id = proc[n].id /\ proc'[n].key = proc[n].key
          /\ proc'[n].cert = proc[n].cert
      BY <1>2, <2>2, MoveFacts DEF Stages, Starting
    <3>2. proc[n].pc = "identity" /\ n \in Nat \ {0}
      BY <1>6, BootAssumption DEF Initialize, Procs
    <3>3. /\ dataDir' \in Disks /\ dataDir'.identity = (IF dataDir.identity = 0 THEN n ELSE dataDir.identity)
          /\ dataDir'.cert = dataDir.cert /\ dataDir'.key = dataDir.key /\ dataDir'.name = dataDir.name
          /\ dataDir'.token = dataDir.token /\ dataDir'.runtime = dataDir.runtime
      BY <1>2, <2>2, <3>2 DEF Disks
    <3>4. BootTypes'
      BY <2>2, <3>1, <3>3 DEF BootTypes, Others
    <3>5. OneStarts' /\ RuntimeInv'
      BY <2>2, <3>1, <3>2, <3>3 DEF OneStarts, RuntimeInv, Others, Holds, Stopping
    <3>6. IdInv'
      BY <2>2, <3>1, <3>2, <3>3 DEF IdInv, Others, Configured, Identified
    <3>7. KeyInv' /\ CertInv' /\ NameInv'
      BY <2>2, <3>1, <3>3 DEF KeyInv, CertInv, NameInv, Others
    <3> QED BY <3>4, <3>5, <3>6, <3>7
  <2> QED BY <1>6, <2>1, <2>2, Zenon DEF Initialize
<1>7. ASSUME NEW n \in Procs, InitializeConfig(n) PROVE BootInv'
  <2>1. CASE FailFast(n)
    BY <1>3, <1>7, <2>1 DEF InitializeConfig
  <2>2. CASE /\ dataDir' = [dataDir EXCEPT !.config = TRUE]
             /\ GoesTo(n, "bridgeId")
             /\ UNCHANGED <<port, agents, ended, rotations, faults, unsaved, given, renamed>>
    <3>1. /\ Others(n) /\ proc'[n].pc = "bridgeId" /\ proc'[n].id = proc[n].id /\ proc'[n].key = proc[n].key
          /\ proc'[n].cert = proc[n].cert
      BY <1>2, <2>2, MoveFacts DEF Stages, Starting
    <3>2. proc[n].pc = "config"
      BY <1>7 DEF InitializeConfig
    <3>3. /\ dataDir' \in Disks /\ dataDir'.identity = dataDir.identity
          /\ dataDir'.cert = dataDir.cert /\ dataDir'.key = dataDir.key /\ dataDir'.name = dataDir.name
          /\ dataDir'.token = dataDir.token /\ dataDir'.runtime = dataDir.runtime
      BY <1>2, <2>2 DEF Disks
    <3>4. BootTypes'
      BY <2>2, <3>1, <3>3 DEF BootTypes, Others
    <3>5. OneStarts' /\ RuntimeInv'
      BY <2>2, <3>1, <3>2, <3>3 DEF OneStarts, RuntimeInv, Others, Holds, Stopping
    <3>6. IdInv'
      BY <2>2, <3>1, <3>2, <3>3 DEF IdInv, Others, Configured, Identified, Stages, Starting
    <3>7. KeyInv' /\ CertInv' /\ NameInv'
      BY <2>2, <3>1, <3>3, SMTT(30) DEF KeyInv, CertInv, NameInv, Others
    <3> QED BY <3>4, <3>5, <3>6, <3>7
  <2> QED BY <1>7, <2>1, <2>2, Zenon DEF InitializeConfig
<1>8. ASSUME NEW n \in Procs, LoadStableBridgeID(n) PROVE BootInv'
  <2>1. proc[n].pc = "bridgeId" /\ UNCHANGED <<dataDir, rotations, unsaved, given, renamed>>
    BY <1>8, Zenon DEF LoadStableBridgeID, FailFast
  <2>2. CASE ReadFault /\ Exits(n)
    BY <1>2, <2>1, <2>2, ExitKeeps DEF ReadFault
  <2>3. CASE proc' = [proc EXCEPT ![n].id = dataDir.identity, ![n].pc = "tls"] /\ UNCHANGED <<port, faults>>
    <3> DEFINE p == [proc[n] EXCEPT !.id = dataDir.identity, !.pc = "tls"]
    <3>1. /\ p \in Processes /\ p.pc = "tls" /\ p.id = dataDir.identity /\ p.key = proc[n].key
          /\ p.cert = proc[n].cert
      BY <1>2, ZenonT(60) DEF Processes, Disks, Stages, Starting
    <3>2. proc' = [proc EXCEPT ![n] = p]
      BY <1>2, <2>3
    <3> HIDE DEF p
    <3>3. proc'[n] = p /\ Others(n)
      BY <1>2, <3>1, <3>2 DEF Others
    <3> QED BY <1>2, <2>1, <2>3, <3>1, <3>3, LoadKeeps DEF Starting, Holding, Identified, Configured, Stages
  <2> QED BY <1>8, <2>2, <2>3, Zenon DEF LoadStableBridgeID
<1>9. ASSUME NEW n \in Procs, ResolveTailscaleRemote(n) PROVE BootInv'
  <2>1. proc[n].pc = "tls" /\ UNCHANGED <<dataDir, port, rotations, unsaved, given, renamed>>
    BY <1>9, Zenon DEF ResolveTailscaleRemote
  <2>2. faults' \in Nat /\ (faults' = 0 => faults = 0)
    BY <1>2, <1>9 DEF ResolveTailscaleRemote, ReadFault
  <2>3. proc[n].id = dataDir.identity
    BY <2>1 DEF IdInv, Configured, Identified, Stages, Starting
  <2>4. ASSUME NEW pc \in {"relay", "newCert"}, GoesTo(n, pc), pc = "newCert" /\ faults' = 0 => dataDir.cert = NoCert
        PROVE  BootInv'
    <3>1. /\ Others(n) /\ proc'[n].pc = pc /\ proc'[n].id = proc[n].id /\ proc'[n].key = proc[n].key
          /\ proc'[n].cert = proc[n].cert
      BY <1>2, <2>4, MoveFacts DEF Stages, Starting
    <3> QED BY <2>1, <2>2, <2>3, <2>4, <3>1, LoadKeeps DEF Starting, Holding, Identified, Configured, Stages
  <2>5. CASE proc' = [proc EXCEPT ![n].cert = dataDir.cert, ![n].pc = "relay"]
    <3> DEFINE p == [proc[n] EXCEPT !.cert = dataDir.cert, !.pc = "relay"]
    <3>1. /\ p \in Processes /\ p.pc = "relay" /\ p.id = proc[n].id /\ p.key = proc[n].key
          /\ p.cert = dataDir.cert
      BY <1>2, ZenonT(60) DEF Processes, Disks, Stages, Starting
    <3>2. proc' = [proc EXCEPT ![n] = p]
      BY <1>2, <2>5
    <3> HIDE DEF p
    <3>3. proc'[n] = p /\ Others(n)
      BY <1>2, <3>1, <3>2 DEF Others
    <3> QED BY <2>1, <2>2, <2>3, <3>1, <3>3, LoadKeeps DEF Starting, Holding, Identified, Configured, Stages
  <2>6. \/ GoesTo(n, "relay")
        \/ proc' = [proc EXCEPT ![n].cert = dataDir.cert, ![n].pc = "relay"]
        \/ GoesTo(n, "newCert") /\ (dataDir.cert = NoCert \/ ReadFault)
    BY <1>9, Zenon DEF ResolveTailscaleRemote
  <2>7. ReadFault => faults' # 0
    BY <1>2 DEF ReadFault
  <2> QED BY <2>4, <2>5, <2>6, <2>7
<1>10. ASSUME NEW n \in Procs, LoadRelayIdentity(n) PROVE BootInv'
  <2>1. proc[n].pc = "relay" /\ UNCHANGED <<dataDir, port, rotations, unsaved, given, renamed>>
    BY <1>10, Zenon DEF LoadRelayIdentity
  <2>2. faults' \in Nat /\ (faults' = 0 => faults = 0)
    BY <1>2, <1>10 DEF LoadRelayIdentity, ReadFault
  <2>3. proc[n].id = dataDir.identity
    BY <2>1 DEF IdInv, Configured, Identified, Stages, Starting
  <2>4. ASSUME NEW pc \in {"management", "newKey"}, GoesTo(n, pc), pc = "newKey" /\ faults' = 0 => dataDir.key.st # "ok"
        PROVE  BootInv'
    <3>1. /\ Others(n) /\ proc'[n].pc = pc /\ proc'[n].id = proc[n].id /\ proc'[n].key = proc[n].key
          /\ proc'[n].cert = proc[n].cert
      BY <1>2, <2>4, MoveFacts DEF Stages, Starting
    <3> QED BY <2>1, <2>2, <2>3, <2>4, <3>1, LoadKeeps DEF Starting, Holding, Identified, Configured, Stages
  <2>5. CASE dataDir.key.st = "ok" /\ proc' = [proc EXCEPT ![n].key = dataDir.key.by, ![n].pc = "management"]
    <3> DEFINE p == [proc[n] EXCEPT !.key = dataDir.key.by, !.pc = "management"]
    <3>1. /\ p \in Processes /\ p.pc = "management" /\ p.id = proc[n].id /\ p.key = dataDir.key.by
          /\ p.cert = proc[n].cert
      BY <1>2, ZenonT(60) DEF Processes, Disks, Stages, Starting
    <3>2. proc' = [proc EXCEPT ![n] = p] /\ dataDir.key = [st |-> "ok", by |-> dataDir.key.by]
      BY <1>2, <2>5 DEF Disks
    <3> HIDE DEF p
    <3>3. proc'[n] = p /\ Others(n)
      BY <1>2, <3>1, <3>2 DEF Others
    <3> QED BY <2>1, <2>2, <2>3, <3>1, <3>2, <3>3, LoadKeeps DEF Starting, Holding, Identified, Configured, Stages
  <2>6. \/ GoesTo(n, "management")
        \/ dataDir.key.st = "ok" /\ proc' = [proc EXCEPT ![n].key = dataDir.key.by, ![n].pc = "management"]
        \/ GoesTo(n, "newKey") /\ (dataDir.key.st # "ok" \/ ReadFault)
    BY <1>10, Zenon DEF LoadRelayIdentity
  <2>7. ReadFault => faults' # 0
    BY <1>2 DEF ReadFault
  <2> QED BY <2>4, <2>5, <2>6, <2>7
<1>11. ASSUME NEW n \in Procs, StartManagement(n) PROVE BootInv'
  <2>1. CASE FailFast(n)
    BY <1>3, <1>11, <2>1 DEF StartManagement
  <2>2. CASE /\ GoesTo(n, "listen")
             /\ UNCHANGED <<dataDir, port, agents, ended, rotations, faults, unsaved, given, renamed>>
    <3>1. /\ Others(n) /\ proc'[n].pc = "listen" /\ proc'[n].id = proc[n].id /\ proc'[n].key = proc[n].key
          /\ proc'[n].cert = proc[n].cert
      BY <1>2, <2>2, MoveFacts DEF Stages, Starting
    <3>2. proc[n].pc = "bindManagement"
      BY <1>11 DEF StartManagement
    <3>3. proc[n].id = dataDir.identity
      BY <3>2 DEF IdInv, Configured, Identified, Stages, Starting
    <3> QED BY <1>2, <2>2, <3>1, <3>2, <3>3, LoadKeeps DEF Starting, Holding, Identified, Configured, Stages
  <2> QED BY <1>11, <2>1, <2>2, Zenon DEF StartManagement
<1>12. ASSUME NEW n \in Procs, CreateTLSCert(n) PROVE BootInv'
  <2> DEFINE c == [spki |-> n, gen |-> 1]
  <2>1. /\ proc[n].pc = "newCert" /\ proc' = [proc EXCEPT ![n].cert = c, ![n].pc = "relay"]
        /\ UNCHANGED <<port, rotations, faults, given, renamed>>
        /\ \/ dataDir' = [dataDir EXCEPT !.cert = c] /\ UNCHANGED unsaved
           \/ UNCHANGED dataDir /\ unsaved' = TRUE
    BY <1>12, Zenon DEF CreateTLSCert
  <2>2. c \in Certs /\ c # NoCert
    BY BootAssumption DEF Certs, NoCert, Procs
  <2> HIDE DEF c
  <2> DEFINE p == [proc[n] EXCEPT !.cert = c, !.pc = "relay"]
  <2>3. p \in Processes /\ p.pc = "relay" /\ p.id = proc[n].id /\ p.key = proc[n].key /\ p.cert = c
    BY <1>2, <2>2 DEF Processes, Stages, Starting
  <2>4. proc' = [proc EXCEPT ![n] = p]
    BY <1>2, <2>1
  <2> HIDE DEF p
  <2>5. proc'[n] = p /\ Others(n)
    BY <1>2, <2>3, <2>4 DEF Others
  <2>6. /\ dataDir' \in Disks /\ dataDir'.identity = dataDir.identity
        /\ dataDir'.key = dataDir.key /\ dataDir'.name = dataDir.name
        /\ dataDir'.token = dataDir.token /\ dataDir'.runtime = dataDir.runtime
    BY <1>2, <2>1, <2>2 DEF Disks
  <2>7. unsaved' \in BOOLEAN /\ (~unsaved' => ~unsaved /\ dataDir'.cert = c)
    BY <1>2, <2>1 DEF BootTypes, Disks
  <2>8. BootTypes'
    BY <2>1, <2>5, <2>6, <2>7 DEF BootTypes, Others
  <2>9. OneStarts' /\ RuntimeInv'
    BY <2>1, <2>3, <2>5, <2>6 DEF OneStarts, RuntimeInv, Others, Holds, Stopping
  <2>10. IdInv'
    BY <2>1, <2>3, <2>5, <2>6 DEF IdInv, Others, Configured, Identified, Stages, Starting
  <2>11. KeyInv' /\ NameInv'
    BY <2>1, <2>3, <2>5, <2>6 DEF KeyInv, NameInv, Others
  <2>12. CertInv'
    <3> SUFFICES ASSUME faults' = 0, ~unsaved' PROVE CertInv'
      BY DEF CertInv
    <3>1. /\ dataDir.cert = NoCert
          /\ \A m \in Procs : proc[m].cert # NoCert => Follows(NoCert, proc[m].cert)
          /\ given.cert # NoCert => Follows(NoCert, given.cert)
      BY <2>1, <2>7 DEF CertInv
    <3>2. \A d \in Certs : d # NoCert => ~Follows(NoCert, d)
      BY DEF Certs, NoCert, Follows
    <3>3. \A m \in Procs : proc[m].cert \in Certs
      BY <1>2 DEF Processes
    <3>4. given.cert = NoCert /\ \A m \in Procs : proc[m].cert = NoCert
      BY <3>1, <3>2, <3>3 DEF BootTypes
    <3>5. \A m \in Procs : m # n => proc[m].pc # "newCert"
      BY <2>1, BootAssumption DEF OneStarts, Procs
    <3> QED BY <2>1, <2>3, <2>5, <2>7, <3>4, <3>5 DEF CertInv, Follows, Others
  <2> QED BY <2>8, <2>9, <2>10, <2>11, <2>12
<1>13. ASSUME NEW n \in Procs, TruncateKey(n) \/ FillKey(n) PROVE BootInv'
  <2>1. /\ proc[n].pc = "newKey" /\ UNCHANGED <<port, rotations, faults, unsaved, given, renamed>>
    BY <1>13, Zenon DEF TruncateKey, FillKey
  <2>2. n \in Nat \ {0}
    BY BootAssumption DEF Procs
  <2>3. \/ /\ proc' = [proc EXCEPT ![n].todo = "fill"] /\ dataDir' = [dataDir EXCEPT !.key = [st |-> "torn", by |-> n]]
        \/ /\ proc' = [proc EXCEPT ![n].key = n, ![n].pc = "management", ![n].todo = "none"]
           /\ dataDir' = [dataDir EXCEPT !.key = [st |-> "ok", by |-> n]]
        \/ proc' = [proc EXCEPT ![n].pc = "management", ![n].todo = "none"] /\ dataDir' = dataDir
    BY <1>13, Zenon DEF TruncateKey, FillKey
  <2>4. PICK p \in Processes : /\ proc' = [proc EXCEPT ![n] = p] /\ p.id = proc[n].id /\ p.cert = proc[n].cert
                               /\ \/ /\ p.pc = "newKey" /\ p.key = proc[n].key
                                     /\ dataDir' = [dataDir EXCEPT !.key = [st |-> "torn", by |-> n]]
                                  \/ /\ p.pc = "management" /\ p.key = n
                                     /\ dataDir' = [dataDir EXCEPT !.key = [st |-> "ok", by |-> n]]
                                  \/ p.pc = "management" /\ p.key = proc[n].key /\ dataDir' = dataDir
    <3>1. CASE /\ proc' = [proc EXCEPT ![n].todo = "fill"]
               /\ dataDir' = [dataDir EXCEPT !.key = [st |-> "torn", by |-> n]]
      <4> DEFINE p == [proc[n] EXCEPT !.todo = "fill"]
      <4>1. /\ p \in Processes /\ p.pc = proc[n].pc /\ p.id = proc[n].id /\ p.cert = proc[n].cert
            /\ p.key = proc[n].key
        BY <1>2 DEF Processes
      <4>2. proc' = [proc EXCEPT ![n] = p]
        BY <1>2, <3>1
      <4> HIDE DEF p
      <4> QED BY <2>1, <3>1, <4>1, <4>2
    <3>2. CASE /\ proc' = [proc EXCEPT ![n].key = n, ![n].pc = "management", ![n].todo = "none"]
               /\ dataDir' = [dataDir EXCEPT !.key = [st |-> "ok", by |-> n]]
      <4> DEFINE p == [proc[n] EXCEPT !.key = n, !.pc = "management", !.todo = "none"]
      <4>1. p \in Processes /\ p.pc = "management" /\ p.id = proc[n].id /\ p.cert = proc[n].cert /\ p.key = n
        BY <1>2, <2>2 DEF Processes, Stages, Starting
      <4>2. proc' = [proc EXCEPT ![n] = p]
        BY <1>2, <3>2
      <4> HIDE DEF p
      <4> QED BY <3>2, <4>1, <4>2
    <3>3. CASE proc' = [proc EXCEPT ![n].pc = "management", ![n].todo = "none"] /\ dataDir' = dataDir
      <4> DEFINE p == [proc[n] EXCEPT !.pc = "management", !.todo = "none"]
      <4>1. /\ p \in Processes /\ p.pc = "management" /\ p.id = proc[n].id /\ p.cert = proc[n].cert
            /\ p.key = proc[n].key
        BY <1>2 DEF Processes, Stages, Starting
      <4>2. proc' = [proc EXCEPT ![n] = p]
        BY <1>2, <3>3
      <4> HIDE DEF p
      <4> QED BY <3>3, <4>1, <4>2
    <3> QED BY <2>3, <3>1, <3>2, <3>3
  <2>5. proc'[n] = p /\ Others(n)
    BY <1>2, <2>4 DEF Others
  <2>6. /\ dataDir' \in Disks /\ dataDir'.identity = dataDir.identity
        /\ dataDir'.cert = dataDir.cert /\ dataDir'.name = dataDir.name
        /\ dataDir'.token = dataDir.token /\ dataDir'.runtime = dataDir.runtime
    BY <1>2, <2>2, <2>4 DEF Disks
  <2>7. \/ p.pc = "newKey" /\ p.key = proc[n].key /\ dataDir'.key.st # "ok"
        \/ p.pc = "management" /\ p.key = n /\ dataDir'.key = [st |-> "ok", by |-> n]
        \/ p.pc = "management" /\ p.key = proc[n].key /\ dataDir'.key = dataDir.key
    BY <1>2, <2>4 DEF Disks
  <2>8. BootTypes'
    BY <2>1, <2>5, <2>6 DEF BootTypes, Others
  <2>9. OneStarts' /\ RuntimeInv'
    BY <2>1, <2>5, <2>6, <2>7 DEF OneStarts, RuntimeInv, Others, Holds, Stopping
  <2>10. IdInv'
    BY <2>1, <2>4, <2>5, <2>6, <2>7 DEF IdInv, Others, Configured, Identified, Stages, Starting
  <2>11. CertInv' /\ NameInv'
    BY <2>1, <2>4, <2>5, <2>6, <2>7 DEF CertInv, NameInv, Others
  <2>12. KeyInv'
    <3> SUFFICES ASSUME faults' = 0 PROVE KeyInv'
      BY DEF KeyInv
    <3>1. dataDir.key.st # "ok"
      BY <2>1 DEF KeyInv
    <3>2. given.key = 0 /\ \A m \in Procs : proc[m].key = 0
      <4>1. /\ \A m \in Procs : proc[m].key # 0 => dataDir.key = [st |-> "ok", by |-> proc[m].key]
            /\ given.key # 0 => dataDir.key = [st |-> "ok", by |-> given.key]
        BY <2>1 DEF KeyInv
      <4>2. \A x : dataDir.key # [st |-> "ok", by |-> x]
        BY <3>1
      <4> QED BY <4>1, <4>2, Zenon
    <3>3. \A m \in Procs : m # n => proc[m].pc # "newKey"
      BY <2>1, BootAssumption DEF OneStarts, Procs
    <3> QED BY <2>1, <2>5, <2>7, <3>1, <3>2, <3>3 DEF KeyInv, Others
  <2> QED BY <2>8, <2>9, <2>10, <2>11, <2>12
<1>14. ASSUME NEW n \in Procs, LoadOrCreateDisplayName(n) PROVE BootInv'
  <2>1. proc[n].pc = "management" /\ UNCHANGED <<dataDir, port, rotations, unsaved, given, renamed>>
    BY <1>14, Zenon DEF LoadOrCreateDisplayName
  <2>2. faults' \in Nat /\ (faults' = 0 => faults = 0)
    BY <1>2, <1>14 DEF LoadOrCreateDisplayName, ReadFault
  <2>3. proc[n].id = dataDir.identity
    BY <2>1 DEF IdInv, Configured, Identified, Stages, Starting
  <2>4. PICK pc \in {"newName", "bindManagement"} :
          GoesTo(n, pc) /\ (pc = "newName" /\ faults' = 0 => dataDir.name = "none")
    BY <1>2, <1>14 DEF LoadOrCreateDisplayName, ReadFault
  <2>5. /\ Others(n) /\ proc'[n].pc = pc /\ proc'[n].id = proc[n].id /\ proc'[n].key = proc[n].key
        /\ proc'[n].cert = proc[n].cert
    BY <1>2, <2>4, MoveFacts DEF Stages, Starting
  <2> QED BY <2>1, <2>2, <2>3, <2>4, <2>5, LoadKeeps DEF Starting, Holding, Identified, Configured, Stages
<1>23. ASSUME NEW n \in Procs, SaveDefaultName(n) PROVE BootInv'
  <2>1. /\ proc[n].pc = "newName" /\ GoesTo(n, "bindManagement")
        /\ dataDir' \in {dataDir, [dataDir EXCEPT !.name = "host"]}
        /\ UNCHANGED <<port, rotations, faults, unsaved, given, renamed>>
    BY <1>23, Zenon DEF SaveDefaultName
  <2>2. /\ Others(n) /\ proc'[n].pc = "bindManagement" /\ proc'[n].id = proc[n].id /\ proc'[n].key = proc[n].key
        /\ proc'[n].cert = proc[n].cert
    BY <1>2, <2>1, MoveFacts DEF Stages, Starting
  <2>3. /\ dataDir' \in Disks /\ dataDir'.identity = dataDir.identity
        /\ dataDir'.cert = dataDir.cert /\ dataDir'.key = dataDir.key
        /\ dataDir'.token = dataDir.token /\ dataDir'.runtime = dataDir.runtime
    BY <1>2, <2>1 DEF Disks
  <2>5. BootTypes'
    BY <2>1, <2>2, <2>3 DEF BootTypes, Others
  <2>6. OneStarts' /\ RuntimeInv'
    BY <2>1, <2>2, <2>3 DEF OneStarts, RuntimeInv, Others, Holds, Stopping
  <2>7. IdInv'
    BY <2>1, <2>2, <2>3 DEF IdInv, Others, Configured, Identified, Stages, Starting
  <2>8. KeyInv' /\ CertInv' /\ NameInv'
    BY <2>1, <2>2, <2>3 DEF KeyInv, CertInv, NameInv, Others
  <2> QED BY <2>5, <2>6, <2>7, <2>8
<1>15. ASSUME NEW n \in Procs, Listen(n) PROVE BootInv'
  <2>1. CASE FailFast(n)
    BY <1>3, <1>15, <2>1 DEF Listen
  <2>2. CASE /\ port = {} /\ port' = {n} /\ GoesTo(n, "token")
             /\ UNCHANGED <<dataDir, agents, ended, rotations, faults, unsaved, given, renamed>>
    <3>1. /\ Others(n) /\ proc'[n].pc = "token" /\ proc'[n].id = proc[n].id /\ proc'[n].key = proc[n].key
          /\ proc'[n].cert = proc[n].cert
      BY <1>2, <2>2, MoveFacts DEF Stages, Starting
    <3>2. proc[n].pc = "listen"
      BY <1>15 DEF Listen
    <3>3. BootTypes' /\ OneStarts'
      BY <2>2, <3>1, <3>2 DEF BootTypes, OneStarts, Others
    <3>4. RuntimeInv'
      BY <2>2, <3>1, <3>2 DEF RuntimeInv, Others, Holds, Stopping
    <3>5. IdInv'
      BY <2>2, <3>1, <3>2 DEF IdInv, Others, Configured, Identified, Stages, Starting
    <3>6. KeyInv' /\ CertInv' /\ NameInv'
      BY <2>2, <3>1 DEF KeyInv, CertInv, NameInv, Others
    <3> QED BY <3>3, <3>4, <3>5, <3>6
  <2> QED BY <1>15, <2>1, <2>2, Zenon DEF Listen
<1>16. ASSUME NEW n \in Procs, PersistToken(n) PROVE BootInv'
  <2>1. CASE FailFast(n)
    BY <1>3, <1>16, <2>1 DEF PersistToken
  <2>2. CASE /\ dataDir' = [dataDir EXCEPT !.token = n] /\ GoesTo(n, "ready")
             /\ UNCHANGED <<port, agents, ended, rotations, faults, unsaved, given, renamed>>
    <3>1. /\ Others(n) /\ proc'[n].pc = "ready" /\ proc'[n].id = proc[n].id /\ proc'[n].key = proc[n].key
          /\ proc'[n].cert = proc[n].cert
      BY <1>2, <2>2, MoveFacts DEF Stages, Starting
    <3>2. proc[n].pc = "token" /\ n \in Nat
      BY <1>16, BootAssumption DEF PersistToken, Procs
    <3>3. /\ dataDir' \in Disks /\ dataDir'.identity = dataDir.identity
          /\ dataDir'.cert = dataDir.cert /\ dataDir'.key = dataDir.key /\ dataDir'.name = dataDir.name
          /\ dataDir'.token = n /\ dataDir'.runtime = dataDir.runtime
      BY <1>2, <2>2, <3>2 DEF Disks
    <3>4. BootTypes' /\ OneStarts'
      BY <2>2, <3>1, <3>2, <3>3 DEF BootTypes, OneStarts, Others
    <3>5. \A m \in Procs : m # n => ~Holds(m)
      BY <3>2 DEF RuntimeInv, Holds
    <3>6. RuntimeInv'
      BY <2>2, <3>1, <3>2, <3>3, <3>5 DEF RuntimeInv, Others, Holds, Stopping
    <3>7. IdInv'
      BY <2>2, <3>1, <3>2, <3>3 DEF IdInv, Others, Configured, Identified, Stages, Starting
    <3>8. KeyInv' /\ CertInv' /\ NameInv'
      BY <2>2, <3>1, <3>3, SMTT(30) DEF KeyInv, CertInv, NameInv, Others
    <3> QED BY <3>4, <3>6, <3>7, <3>8
  <2> QED BY <1>16, <2>1, <2>2, Zenon DEF PersistToken
<1>17. ASSUME NEW n \in Procs, WriteReadyFrame(n) PROVE BootInv'
  <2>1. CASE FailFast(n)
    BY <1>3, <1>17, <2>1 DEF WriteReadyFrame
  <2> DEFINE g == [id |-> proc[n].id, key |-> IF proc[n].key = 0 THEN given.key ELSE proc[n].key,
                   cert |-> IF proc[n].cert = NoCert THEN given.cert ELSE proc[n].cert]
  <2>2. CASE /\ dataDir' = [dataDir EXCEPT !.runtime = n] /\ GoesTo(n, "serving") /\ given' = g
             /\ port' = (IF Stopping(n) THEN port \ {n} ELSE port)
             /\ UNCHANGED <<agents, ended, rotations, faults, unsaved, renamed>>
    <3>1. /\ Others(n) /\ proc'[n].pc = "serving" /\ proc'[n].id = proc[n].id /\ proc'[n].key = proc[n].key
          /\ proc'[n].cert = proc[n].cert /\ proc'[n].todo = proc[n].todo
      BY <1>2, <2>2, MoveFacts DEF Stages
    <3>2. proc[n].pc = "ready" /\ n \in Nat
      BY <1>17, BootAssumption DEF WriteReadyFrame, Procs
    <3>3. /\ dataDir' \in Disks /\ dataDir'.identity = dataDir.identity
          /\ dataDir'.cert = dataDir.cert /\ dataDir'.key = dataDir.key /\ dataDir'.name = dataDir.name
          /\ dataDir'.token = dataDir.token /\ dataDir'.runtime = n
      BY <1>2, <2>2, <3>2 DEF Disks
    <3>4. /\ g \in [id : Nat, key : Nat, cert : Certs] /\ g.id = proc[n].id
          /\ g.key = given.key \/ g.key = proc[n].key
          /\ g.cert = given.cert \/ g.cert = proc[n].cert
      BY <1>2 DEF BootTypes, Processes
    <3> HIDE DEF g
    <3>5. BootTypes' /\ OneStarts'
      BY <2>2, <3>1, <3>2, <3>3, <3>4 DEF BootTypes, OneStarts, Others
    <3>6. \A m \in Procs : m # n => ~Holds(m)
      BY <3>2 DEF RuntimeInv, Holds
    <3>7. RuntimeInv'
      BY <2>2, <3>1, <3>2, <3>3, <3>6 DEF RuntimeInv, Others, Holds, Stopping
    <3>8. IdInv'
      BY <2>2, <3>1, <3>2, <3>3, <3>4
      DEF IdInv, Others, Configured, Identified, Stages, Starting
    <3>9. KeyInv' /\ CertInv' /\ NameInv'
      BY <2>2, <3>1, <3>2, <3>3, <3>4 DEF KeyInv, CertInv, NameInv, Others
    <3> QED BY <3>5, <3>7, <3>8, <3>9
  <2> QED BY <1>17, <2>1, <2>2, Zenon DEF WriteReadyFrame
<1>18. ASSUME NEW n \in Procs, StartAgent(n) PROVE BootInv'
  <2>1. UNCHANGED <<dataDir, proc, port, rotations, faults, unsaved, given, renamed>>
    BY <1>18, Zenon DEF StartAgent
  <2> QED BY <2>1 DEF BootTypes, OneStarts, RuntimeInv, Holds, Stopping, IdInv, KeyInv, CertInv, NameInv
<1>19. ASSUME NEW n \in Procs, SetDisplayName(n) PROVE BootInv'
  <2>1. /\ dataDir' = [dataDir EXCEPT !.name = "user"]
        /\ renamed' = \A m \in Procs : proc[m].pc # "newName"
        /\ UNCHANGED <<proc, port, rotations, faults, unsaved, given>>
    BY <1>19, Zenon DEF SetDisplayName
  <2>2. /\ dataDir' \in Disks /\ dataDir'.identity = dataDir.identity
        /\ dataDir'.cert = dataDir.cert /\ dataDir'.key = dataDir.key /\ dataDir'.name = "user"
        /\ dataDir'.token = dataDir.token /\ dataDir'.runtime = dataDir.runtime
    BY <1>2, <2>1 DEF Disks
  <2>3. renamed' \in BOOLEAN /\ NameInv'
    BY <2>1, <2>2, Zenon DEF NameInv
  <2> QED BY <2>1, <2>2, <2>3 DEF BootTypes, OneStarts, RuntimeInv, Holds, Stopping, IdInv, KeyInv, CertInv
<1>20. ASSUME NEW n \in Procs, RotateTLSCert(n) PROVE BootInv'
  <2> DEFINE c == [spki |-> MaxStarts + rotations', gen |-> dataDir.cert.gen + 1]
  <2>1. /\ dataDir' = [dataDir EXCEPT !.cert = c] /\ dataDir.cert # NoCert /\ rotations' = rotations + 1
        /\ UNCHANGED <<proc, port, faults, unsaved, given, renamed>>
    BY <1>20 DEF RotateTLSCert
  <2>2. rotations' \in Nat /\ dataDir.cert \in Certs
    BY <1>2, <2>1 DEF BootTypes, Disks
  <2>3. c \in Certs /\ c.gen = dataDir.cert.gen + 1
    <3>1. dataDir.cert.gen \in Nat
      BY <2>2 DEF Certs
    <3>2. MaxStarts \in Nat
      BY BootAssumption
    <3>3. \A k \in Nat : MaxStarts + k \in Nat
      BY <3>2
    <3>4. MaxStarts + rotations' \in Nat
      BY <2>2, <3>3, Zenon
    <3> QED BY <3>1, <3>4 DEF Certs
  <2> HIDE DEF c
  <2>4. /\ dataDir' \in Disks /\ dataDir'.identity = dataDir.identity
        /\ dataDir'.cert = c /\ dataDir'.key = dataDir.key /\ dataDir'.name = dataDir.name
        /\ dataDir'.token = dataDir.token /\ dataDir'.runtime = dataDir.runtime
    BY <1>2, <2>1, <2>3 DEF Disks
  <2>5. \A d \in Certs : Follows(dataDir.cert, d) => Follows(c, d)
    BY <2>2, <2>3 DEF Follows, Certs
  <2>6. given.cert \in Certs /\ \A m \in Procs : proc[m].cert \in Certs
    BY <1>2 DEF BootTypes, Processes
  <2>7. CertInv'
    BY <2>1, <2>4, <2>5, <2>6 DEF CertInv
  <2> QED BY <2>1, <2>2, <2>4, <2>7 DEF BootTypes, OneStarts, RuntimeInv, Holds, Stopping, IdInv, KeyInv, NameInv
<1>21. ASSUME NEW n \in Procs, BeginShutdown(n) \/ ShutdownHandlers(n) \/ ShutdownServers(n) PROVE BootInv'
  <2>1. PICK t \in {"handlers", "servers", "stopped"} :
          /\ proc' = [proc EXCEPT ![n].todo = t]
          /\ port' = port \/ (proc[n].pc = "serving" /\ port' = port \ {n})
          /\ UNCHANGED <<dataDir, rotations, faults, unsaved, given, renamed>>
    BY <1>21, Zenon DEF BeginShutdown, ShutdownHandlers, ShutdownServers
  <2> DEFINE p == [proc[n] EXCEPT !.todo = t]
  <2>2. /\ p \in Processes /\ p.pc = proc[n].pc /\ p.id = proc[n].id /\ p.cert = proc[n].cert
        /\ p.key = proc[n].key /\ p.todo = t
    BY <1>2 DEF Processes
  <2>3. proc' = [proc EXCEPT ![n] = p]
    BY <1>2, <2>1
  <2> HIDE DEF p
  <2>4. proc'[n] = p /\ Others(n) /\ Stopping(n)'
    BY <1>2, <2>2, <2>3 DEF Others, Stopping
  <2> QED BY <2>1, <2>2, <2>4, StopKeeps
<1>22. ASSUME NEW n \in Procs, MainReturns(n) \/ Dies(n) PROVE BootInv'
  <2>1. Exits(n) /\ UNCHANGED <<dataDir, rotations, faults, unsaved, given, renamed>> /\ proc[n].pc # "off"
    BY <1>22 DEF MainReturns, Dies, Alive
  <2> QED BY <1>2, <2>1, ExitKeeps
<1> QED
  BY <1>1, <1>4, <1>5, <1>6, <1>7, <1>8, <1>9, <1>10, <1>11, <1>12, <1>13, <1>14, <1>15, <1>16,
     <1>17, <1>18, <1>19, <1>20, <1>21, <1>22, <1>23, Zenon DEF BootNext

(* What phones pinned when they paired stays good, and runtime.json leads,  *)
(* until its shutdown begins, to a process that can be managed, over any    *)
(* number of starts, crashes at any step, failed writes, rotations and      *)
(* overlapping processes (Main, DataDir.Initialize, resolveTailscaleRemote, *)
(* LoadOrCreateRelayCryptoIdentity, WriteReadyFrame).                       *)
THEOREM BootKeepsWhatIsPublished == BootSpec => []BootSound
<1>1. BootInit => BootInv
  <2> SUFFICES ASSUME BootInit PROVE BootInv
    OBVIOUS
  <2>1. /\ dataDir = EmptyDisk /\ proc = [n \in Procs |-> NotStarted] /\ port = {} /\ rotations = 0 /\ faults = 0
        /\ unsaved = FALSE /\ renamed = FALSE /\ given = [id |-> 0, key |-> 0, cert |-> NoCert]
    BY Zenon DEF BootInit
  <2>2. NoCert \in Certs
    BY DEF NoCert, Certs
  <2>3. NotStarted \in Processes /\ NotStarted.pc = "off" /\ NotStarted.key = 0 /\ NotStarted.cert = NoCert
    BY <2>2 DEF NotStarted, Processes, Stages
  <2>4. EmptyDisk \in Disks /\ EmptyDisk.runtime = 0
    BY <2>2 DEF EmptyDisk, Disks
  <2>5. 0 \notin Procs
    BY DEF Procs
  <2>6. given \in [id : Nat, key : Nat, cert : Certs] /\ given.id = 0 /\ given.key = 0 /\ given.cert = NoCert
    BY <2>1, <2>2
  <2>7. BootTypes
    BY <2>1, <2>3, <2>4, <2>6 DEF BootTypes
  <2>8. \A n \in Procs : proc[n] = NotStarted
    BY <2>1
  <2>9. OneStarts /\ RuntimeInv /\ IdInv
    BY <2>1, <2>3, <2>4, <2>5, <2>6, <2>8
    DEF OneStarts, RuntimeInv, IdInv, Holds, Stopping, Identified, Configured
  <2>10. KeyInv /\ CertInv /\ NameInv
    BY <2>1, <2>3, <2>6, <2>8 DEF KeyInv, CertInv, NameInv
  <2> QED BY <2>7, <2>9, <2>10 DEF BootInv
<1>2. BootInv => BootSound
  <2> SUFFICES ASSUME BootInv PROVE BootSound
    OBVIOUS
  <2>1. PublishedIsKept
    BY DEF BootInv, PublishedIsKept, IdInv, KeyInv, CertInv, NameInv, Follows
  <2>2. RuntimeFileUsable
    BY DEF BootInv, RuntimeFileUsable, RuntimeInv, Alive, Holds
  <2> QED BY <2>1, <2>2 DEF BootSound
<1> QED BY <1>1, <1>2, BootStep, PTL DEF BootSpec

-----------------------------------------------------------------------------
(* The settings of an agent.                                               *)

SendStages == {"idle", "new", "dispatched", "mode_set", "model_set", "prev_read", "to_save", "applied", "to_start",
               "snapped", "started", "recorded"}
SettingNames == Providers \cup {"", "unknown", "default", "yolo", "auto"}
AgentStates == [dir : Dirs \cup {""}, model : Models \cup {""}, mode : SettingNames, effort : Efforts \cup {""},
                provider : Providers \cup {""}, proxy : Nat]
Snaps == [dir : Dirs \cup {""}, model : Models \cup {""}, effort : Efforts \cup {""}, mode : SettingNames,
          provider : Providers \cup {""}, proxy : Nat, by : Reqs]
Requests == [op : AllOps \cup {"none"}, st : SendStages, dir : Dirs \cup {""}, model : Models \cup {""},
             effort : Efforts \cup {"", "junk"}, name : SettingNames, prev : Efforts \cup {""},
             chosen : [model : Models \cup {""}, effort : Efforts \cup {""}], snap : SUBSET Snaps, alone : BOOLEAN]
ProxyStates == [target : Providers, open : BOOLEAN]

(* The types of the agent, its sessions and the requests.                  *)
SettingsTypes ==
    /\ backend \in {"claudecode", "codex"} /\ bounds \in OpScenarios
    /\ agent \in AgentStates /\ proxies \in Seq(ProxyStates) /\ request \in [Reqs -> Requests]
    /\ override = <<>> \/ (\E e \in Efforts \cup {""} : override = <<e>>)
    /\ overlapped \in BOOLEAN /\ unsavedEffort \in BOOLEAN
    /\ \A r \in Reqs : request[r].op = "none" => request[r].st = "idle"

(* A proxy in use has the provider it was started for as its target.        *)
Talks(s) == s.proxy \in 0..Len(proxies) /\ (s.proxy # 0 => proxies[s.proxy].target = s.provider)

(* Agent, sessions and snapshots talk to the proxy of their own provider.  *)
ProxyInv ==
    /\ Talks(agent) /\ \A s \in session : Talks(s)
    /\ \A r \in Reqs : \A s \in request[r].snap : Talks(s)

(* A request that is alone is the only one at hand.                         *)
AloneInv ==
    /\ \A r \in Busy : request[r].alone => Busy = {r}
    /\ ~overlapped => \A r, q \in Busy : r = q

(* A session has what the request that made it asked for.                  *)
Undisturbed(s, asked) ==
    /\ asked.dir \in {"", s.dir}
    /\ asked.effort # "" => s.effort = Normal(asked.effort)
    /\ asked.model = "" \/ s.model = asked.model \/ (s.provider # "" /\ s.model = ProviderSpecs[s.provider].model)

(* How much of what it asked for the agent has taken over.                  *)
Applied(r) ==
    request[r].op = "send" /\ request[r].alone =>
      /\ request[r].st # "new" => request[r].dir \in {"", agent.dir}
      /\ request[r].st \notin {"new", "dispatched"} => request[r].model \in {"", agent.model}
      /\ request[r].st \notin {"new", "dispatched", "model_set", "prev_read"} /\ request[r].effort # ""
            => agent.effort = Normal(request[r].effort)
      /\ \A s \in request[r].snap : Undisturbed(s, Asked(r))

(* What a request that is alone asked for is in the session it made, and   *)
(* in the agent as far as it got.                                          *)
SendInv == UndisturbedSend /\ \A r \in Reqs : Applied(r)

(* The stored effort lags behind the agent's only while it is being saved.  *)
EffortInv ==
    backend = "claudecode" /\ ~overlapped /\ ~unsavedEffort =>
      /\ (\A r \in Reqs : ~At(r, "send", "to_save")) /\ agent.effort # "" => DefaultEffort = agent.effort
      /\ \A r \in Reqs : /\ At(r, "send", "prev_read") => request[r].prev = agent.effort
                         /\ At(r, "send", "to_save") => agent.effort = Normal(request[r].effort)

(* The inductive invariant of the settings.                                *)
SettingsInv == SettingsTypes /\ ProxyInv /\ AloneInv /\ SendInv /\ EffortInv

(* Only the request r differs.                                             *)
Only(r) == request' \in [Reqs -> Requests] /\ \A q \in Reqs : q # r => request'[q] = request[q]

(* The request still asks for the same.                                    *)
SameAsk(r) ==
    /\ request'[r].op = request[r].op /\ request'[r].dir = request[r].dir /\ request'[r].model = request[r].model
    /\ request'[r].effort = request[r].effort /\ request'[r].alone = request[r].alone

(* A request that a step updates is one of the requests.                   *)
LEMMA RequestUpdated ==
    ASSUME NEW q \in Requests, NEW st \in SendStages
    PROVE  /\ \A x \in Efforts \cup {""} : [q EXCEPT !.st = st, !.prev = x] \in Requests
           /\ \A x \in [model : Models \cup {""}, effort : Efforts \cup {""}] :
                [q EXCEPT !.chosen = x, !.st = st] \in Requests
           /\ \A x \in SUBSET Snaps : [q EXCEPT !.snap = x, !.st = st] \in Requests
<1>1. \A p \in Requests : [p EXCEPT !.st = st] \in Requests
  BY DEF Requests
<1>2. \A x \in Efforts \cup {""} : [q EXCEPT !.st = st, !.prev = x] \in Requests
  <2>1. \A p \in Requests, x \in Efforts \cup {""} : [p EXCEPT !.prev = x] \in Requests
    BY DEF Requests
  <2>2. \A x : [q EXCEPT !.st = st, !.prev = x] = [[q EXCEPT !.st = st] EXCEPT !.prev = x]
    OBVIOUS
  <2> QED BY <1>1, <2>1, <2>2, Zenon
<1>3. \A x \in [model : Models \cup {""}, effort : Efforts \cup {""}] :
        [q EXCEPT !.chosen = x, !.st = st] \in Requests
  <2>1. \A x \in [model : Models \cup {""}, effort : Efforts \cup {""}] : [q EXCEPT !.chosen = x] \in Requests
    BY DEF Requests
  <2>2. \A x : [q EXCEPT !.chosen = x, !.st = st] = [[q EXCEPT !.chosen = x] EXCEPT !.st = st]
    OBVIOUS
  <2> QED BY <1>1, <2>1, <2>2, Zenon
<1>4. \A x \in SUBSET Snaps : [q EXCEPT !.snap = x, !.st = st] \in Requests
  <2>1. \A x \in SUBSET Snaps : [q EXCEPT !.snap = x] \in Requests
    BY DEF Requests
  <2>2. \A x : [q EXCEPT !.snap = x, !.st = st] = [[q EXCEPT !.snap = x] EXCEPT !.st = st]
    OBVIOUS
  <2> QED BY <1>1, <2>1, <2>2, Zenon
<1> QED BY <1>2, <1>3, <1>4

(* A request at its next stage asks for what it asked for.                 *)
LEMMA StepFacts ==
    ASSUME request \in [Reqs -> Requests], NEW r \in Reqs, NEW st \in SendStages, Step(r, st)
    PROVE  /\ Only(r) /\ SameAsk(r) /\ request'[r].st = st /\ request'[r].snap = request[r].snap
           /\ request'[r].prev = request[r].prev
<1> DEFINE p == [request[r] EXCEPT !.st = st]
<1>0. request[r] \in Requests
  OBVIOUS
<1>1. p \in Requests
  BY <1>0 DEF Requests
<1>2. /\ p.st = st /\ p.op = request[r].op /\ p.dir = request[r].dir /\ p.model = request[r].model
      /\ p.effort = request[r].effort /\ p.alone = request[r].alone /\ p.snap = request[r].snap
      /\ p.prev = request[r].prev
  BY <1>0 DEF Requests
<1>3. request' = [request EXCEPT ![r] = p]
  BY DEF Step
<1> HIDE DEF p
<1>4. request'[r] = p /\ Only(r)
  BY <1>1, <1>3 DEF Only
<1> QED BY <1>2, <1>4 DEF SameAsk

(* The place of a request that is over.                                    *)
LEMMA NoRequestFacts ==
    NoRequest \in Requests /\ NoRequest.op = "none" /\ NoRequest.st = "idle" /\ NoRequest.snap = {}
BY DEF NoRequest, Requests, SendStages, SettingNames

(* A request that is over leaves the others alone.                         *)
LEMMA FinishFacts ==
    ASSUME request \in [Reqs -> Requests], NEW r \in Reqs, Finish(r)
    PROVE  Only(r) /\ request'[r].op = "none" /\ request'[r].st = "idle" /\ request'[r].snap = {}
<1>1. request' = [request EXCEPT ![r] = NoRequest]
  BY DEF Finish
<1>2. request'[r] = NoRequest /\ Only(r)
  BY <1>1, NoRequestFacts DEF Only
<1> QED BY <1>2, NoRequestFacts

(* What a step of the request r has to keep itself; the others are idle or  *)
(* claim nothing.                                                           *)
OwnEffort(r) ==
    backend = "claudecode" /\ ~overlapped /\ ~unsavedEffort =>
      /\ ~At(r, "send", "to_save") /\ agent.effort # "" => DefaultEffort = agent.effort
      /\ At(r, "send", "prev_read") => request[r].prev = agent.effort
      /\ At(r, "send", "to_save") => agent.effort = Normal(request[r].effort)

(* A step of one request keeps the invariant when it keeps the parts of it *)
(* that the request can disturb.                                           *)
LEMMA RequestKeeps ==
    ASSUME SettingsInv, NEW r \in Busy, Only(r), UNCHANGED <<backend, bounds, overlapped>>,
           SameAsk(r) \/ (request'[r].op = "none" /\ request'[r].st = "idle"),
           agent' \in AgentStates, proxies' \in Seq(ProxyStates), unsavedEffort' \in BOOLEAN,
           override' = <<>> \/ (\E e \in Efforts \cup {""} : override' = <<e>>),
           ProxyInv', UndisturbedSend', Applied(r)', OwnEffort(r)'
    PROVE  SettingsInv'
<1>1. r \in Reqs /\ request[r].op # "none"
  BY DEF Busy
<1>2. Busy' \subseteq Busy /\ \A q \in Busy' : request'[q].alone = request[q].alone
  BY <1>1 DEF Busy, Only, SameAsk
<1>3. SettingsTypes'
  BY <1>1 DEF SettingsInv, SettingsTypes, Only, SameAsk
<1>4. AloneInv'
  BY <1>2 DEF SettingsInv, AloneInv
<1>5. ASSUME NEW q \in Reqs, q # r PROVE Applied(q)'
  <2>1. request'[q] = request[q]
    BY <1>5 DEF Only
  <2>2. ~(request[q].op = "send" /\ request[q].alone)
    <3> SUFFICES ASSUME request[q].op = "send", request[q].alone PROVE FALSE
      OBVIOUS
    <3>1. q \in Busy
      BY DEF Busy
    <3>2. Busy = {q}
      BY <3>1, Zenon DEF SettingsInv, AloneInv
    <3> QED BY <1>5, <3>2
  <2> QED BY <2>1, <2>2 DEF Applied
<1>6. SendInv'
  BY <1>5 DEF SendInv
<1>7. ASSUME ~overlapped, NEW q \in Reqs, q # r PROVE ~At(q, "send", "to_save")' /\ ~At(q, "send", "prev_read")'
  <2>1. request'[q] = request[q]
    BY <1>7 DEF Only
  <2>2. request[q].op = "none"
    BY <1>1, <1>7 DEF SettingsInv, AloneInv, Busy
  <2> QED BY <2>1, <2>2 DEF At
<1>8. EffortInv'
  BY <1>1, <1>7 DEF EffortInv, OwnEffort
<1> QED BY <1>3, <1>4, <1>6, <1>8 DEF SettingsInv

(* A proxy that is added, or none, leaves the talks of a session as they   *)
(* were.                                                                   *)
LEMMA TalksKept ==
    ASSUME NEW s, Talks(s), Len(proxies) \in Nat, Len(proxies') \in Nat, Len(proxies) <= Len(proxies'),
           \A i \in 1..Len(proxies) : proxies'[i].target = proxies[i].target
    PROVE  s.proxy \in 0..Len(proxies') /\ (s.proxy # 0 => proxies'[s.proxy].target = s.provider)
BY DEF Talks

(* A step that gives no one another proxy keeps the part of the proxies.   *)
LEMMA ProxyKept ==
    ASSUME SettingsInv, UNCHANGED proxies, agent'.provider = agent.provider, agent'.proxy = agent.proxy,
           \A t \in session' : \E s \in session : t.proxy = s.proxy /\ t.provider = s.provider,
           \A q \in Reqs : request'[q].snap \subseteq request[q].snap
    PROVE  ProxyInv'
BY DEF SettingsInv, ProxyInv, Talks

(* A request that is not saving an effort and sets none.                    *)
LEMMA EffortKept ==
    ASSUME SettingsInv, NEW r \in Busy, ~At(r, "send", "to_save"), agent'.effort = agent.effort,
           UNCHANGED <<backend, override, overlapped, unsavedEffort>>, ~At(r, "send", "to_save")',
           At(r, "send", "prev_read")' => request'[r].prev = agent.effort
    PROVE  OwnEffort(r)'
<1> SUFFICES ASSUME backend = "claudecode", ~overlapped, ~unsavedEffort
             PROVE  agent.effort # "" => DefaultEffort' = agent.effort
  BY DEF OwnEffort
<1>1. \A q \in Reqs : q # r => request[q].op = "none"
  BY DEF SettingsInv, AloneInv, Busy
<1>2. \A q \in Reqs : ~At(q, "send", "to_save")
  BY <1>1 DEF At
<1>3. DefaultEffort' = DefaultEffort
  BY DEF DefaultEffort
<1> QED BY <1>2, <1>3 DEF SettingsInv, EffortInv

(* Such a request that leaves provider, proxies and session alone.          *)
LEMMA QuietKeeps ==
    ASSUME SettingsInv, NEW r \in Busy, Only(r),
           UNCHANGED <<backend, bounds, proxies, override, session, overlapped, unsavedEffort>>,
           SameAsk(r) \/ (request'[r].op = "none" /\ request'[r].st = "idle"),
           agent' \in AgentStates, agent'.provider = agent.provider, agent'.proxy = agent.proxy,
           agent'.effort = agent.effort, request'[r].snap \subseteq request[r].snap,
           ~At(r, "send", "to_save"), ~At(r, "send", "to_save")',
           At(r, "send", "prev_read")' => request'[r].prev = agent.effort, Applied(r)'
    PROVE  SettingsInv'
<1>1. ProxyInv'
  <2>1. \A q \in Reqs : request'[q].snap \subseteq request[q].snap
    BY DEF Only
  <2> QED BY <2>1, ProxyKept
<1>2. OwnEffort(r)'
  BY EffortKept
<1>3. UndisturbedSend'
  BY DEF SettingsInv, SendInv, UndisturbedSend
<1>4. /\ proxies' \in Seq(ProxyStates) /\ unsavedEffort' \in BOOLEAN
      /\ override' = <<>> \/ (\E e \in Efforts \cup {""} : override' = <<e>>)
  <2>1. /\ proxies' = proxies /\ unsavedEffort' = unsavedEffort /\ override' = override
    OBVIOUS
  <2> QED BY <2>1, Zenon DEF SettingsInv, SettingsTypes
<1> QED BY <1>1, <1>2, <1>3, <1>4, RequestKeeps

(* The sequence of proxies only grows, and a proxy keeps its target.        *)
LEMMA StopProxyFacts ==
    ASSUME SettingsInv
    PROVE  /\ StopProxy \in Seq(ProxyStates) /\ Len(StopProxy) = Len(proxies) /\ Len(proxies) \in Nat
           /\ \A i \in 1..Len(proxies) : StopProxy[i].target = proxies[i].target
<1>1. proxies \in Seq(ProxyStates) /\ Len(proxies) \in Nat
  <2>1. proxies \in Seq(ProxyStates)
    BY Zenon DEF SettingsInv, SettingsTypes
  <2> QED BY <2>1
<1>2. CASE agent.proxy = 0
  BY <1>1, <1>2 DEF StopProxy
<1>3. CASE agent.proxy # 0
  <2>1. agent.proxy \in 1..Len(proxies)
    BY <1>3 DEF SettingsInv, ProxyInv, Talks
  <2> DEFINE x == [proxies[agent.proxy] EXCEPT !.open = FALSE]
  <2>2. proxies[agent.proxy] \in ProxyStates
    BY <1>1, <2>1
  <2>3. x \in ProxyStates /\ x.target = proxies[agent.proxy].target
    BY <2>2 DEF ProxyStates
  <2>4. StopProxy = [proxies EXCEPT ![agent.proxy] = x]
    BY <1>3 DEF StopProxy
  <2> HIDE DEF x
  <2> QED BY <1>1, <2>1, <2>3, <2>4
<1> QED BY <1>2, <1>3

(* What the invariant says of the types of the agent and the requests.     *)
LEMMA AgentFacts ==
    ASSUME SettingsInv
    PROVE  /\ agent \in AgentStates /\ request \in [Reqs -> Requests] /\ proxies \in Seq(ProxyStates)
           /\ backend \in {"claudecode", "codex"} /\ unsavedEffort \in BOOLEAN
           /\ override = <<>> \/ (\E e \in Efforts \cup {""} : override = <<e>>)
           /\ GetModel(agent) \in Models \cup {""}
<1>1. /\ agent \in AgentStates /\ request \in [Reqs -> Requests] /\ proxies \in Seq(ProxyStates)
      /\ backend \in {"claudecode", "codex"} /\ unsavedEffort \in BOOLEAN
      /\ override = <<>> \/ (\E e \in Efforts \cup {""} : override = <<e>>)
  BY Zenon DEF SettingsInv, SettingsTypes
<1>2. GetModel(agent) \in Models \cup {""}
  <2>1. agent.model \in Models \cup {""} /\ agent.provider \in Providers \cup {""}
    BY <1>1 DEF AgentStates
  <2>2. \A q \in Providers : ProviderSpecs[q].model \in Models \cup {""}
    BY SettingsAssumption
  <2> QED BY <2>1, <2>2 DEF GetModel
<1> QED BY <1>1, <1>2

(* An agent that gets another directory, model or mode.                     *)
LEMMA AgentMoved ==
    ASSUME agent \in AgentStates
    PROVE  /\ \A x \in Dirs \cup {""} : LET a == [agent EXCEPT !.dir = x] IN
                /\ a \in AgentStates /\ a.dir = x /\ a.model = agent.model /\ a.provider = agent.provider
                /\ a.proxy = agent.proxy /\ a.effort = agent.effort
           /\ \A x \in Models \cup {""} : LET a == [agent EXCEPT !.model = x] IN
                /\ a \in AgentStates /\ a.dir = agent.dir /\ a.model = x /\ a.provider = agent.provider
                /\ a.proxy = agent.proxy /\ a.effort = agent.effort
           /\ \A x \in SettingNames : LET a == [agent EXCEPT !.mode = x] IN
                /\ a \in AgentStates /\ a.dir = agent.dir /\ a.model = agent.model /\ a.provider = agent.provider
                /\ a.proxy = agent.proxy /\ a.effort = agent.effort
           /\ \A x \in Efforts \cup {""} : LET a == [agent EXCEPT !.effort = x] IN
                /\ a \in AgentStates /\ a.dir = agent.dir /\ a.model = agent.model /\ a.provider = agent.provider
                /\ a.proxy = agent.proxy /\ a.effort = x
           /\ \A x \in Nat : LET a == [agent EXCEPT !.proxy = x] IN
                /\ a \in AgentStates /\ a.dir = agent.dir /\ a.model = agent.model /\ a.provider = agent.provider
                /\ a.proxy = x /\ a.effort = agent.effort /\ a.mode = agent.mode
BY DEF AgentStates

(* What a request asked for is read from the request.                      *)
LEMMA AskedKept == ASSUME NEW r, SameAsk(r) PROVE Asked(r)' = Asked(r)
BY DEF SameAsk, Asked

(* The sessions of requests that were alone are what these asked for.      *)
LEMMA SessionsUndisturbed == SettingsInv => \A s \in session : s.alone => Undisturbed(s, s.asked)
BY DEF SettingsInv, SendInv, UndisturbedSend, Undisturbed

(* normalizeReasoningEffort is idempotent, and returns an effort or none.  *)
LEMMA NormalFacts ==
    /\ \A e : Normal(e) \in Efforts \cup {""}
    /\ \A e \in Efforts \cup {""} : Normal(e) = e
BY DEF Normal

(* providerEnvLocked leaves the agent with the proxy of its provider or none. *)
LEMMA EnvFacts ==
    ASSUME SettingsInv, EnvProxy
    PROVE  /\ agent' \in AgentStates /\ agent'.dir = agent.dir /\ agent'.model = agent.model
           /\ agent'.effort = agent.effort /\ agent'.provider = agent.provider /\ agent'.mode = agent.mode
           /\ proxies' \in Seq(ProxyStates) /\ Len(proxies) \in Nat /\ Len(proxies') \in Nat
           /\ Len(proxies) <= Len(proxies')
           /\ \A i \in 1..Len(proxies) : proxies'[i].target = proxies[i].target
           /\ agent'.proxy \in 0..Len(proxies')
           /\ agent'.proxy # 0 => proxies'[agent'.proxy].target = agent.provider
<1>1. agent \in AgentStates /\ proxies \in Seq(ProxyStates)
  BY AgentFacts
<1>2. CASE proxies' = StopProxy /\ agent' = [agent EXCEPT !.proxy = 0]
  <2>1. /\ agent' \in AgentStates /\ agent'.dir = agent.dir /\ agent'.model = agent.model
        /\ agent'.effort = agent.effort /\ agent'.provider = agent.provider /\ agent'.mode = agent.mode
        /\ agent'.proxy = 0
    BY <1>1, <1>2 DEF AgentStates
  <2> QED BY <1>2, <2>1, StopProxyFacts
<1>3. CASE UNCHANGED <<agent, proxies>>
  BY <1>1, <1>3 DEF SettingsInv, ProxyInv, Talks
<1>4. CASE /\ agent.provider # "" /\ proxies' = Append(proxies, [target |-> agent.provider, open |-> TRUE])
           /\ agent' = [agent EXCEPT !.proxy = Len(proxies) + 1]
  <2>0. agent.provider \in Providers
    BY <1>1, <1>4 DEF AgentStates
  <2>1. Len(proxies) \in Nat /\ Len(proxies) + 1 \in Nat
    BY <1>1
  <2>2. /\ agent' \in AgentStates /\ agent'.dir = agent.dir /\ agent'.model = agent.model
        /\ agent'.effort = agent.effort /\ agent'.provider = agent.provider /\ agent'.mode = agent.mode
        /\ agent'.proxy = Len(proxies) + 1
    BY <1>1, <1>4, <2>1, AgentMoved
  <2> DEFINE x == [target |-> agent.provider, open |-> TRUE]
  <2>3. x \in ProxyStates /\ x.target = agent.provider
    BY <2>0 DEF ProxyStates
  <2>4. proxies' = Append(proxies, x)
    BY <1>4
  <2> HIDE DEF x
  <2>5. /\ proxies' \in Seq(ProxyStates) /\ Len(proxies') = Len(proxies) + 1 /\ proxies'[Len(proxies) + 1] = x
        /\ \A i \in 1..Len(proxies) : proxies'[i] = proxies[i]
    BY <1>1, <2>3, <2>4
  <2> QED BY <2>1, <2>2, <2>3, <2>5
<1> QED BY <1>2, <1>3, <1>4 DEF EnvProxy

(* StartSession of either agent.                                            *)
LEMMA StartKeeps ==
    ASSUME SettingsInv, NEW r \in Reqs, At(r, "send", "to_start"),
           NEW px \in Nat, NEW st \in {"started", "snapped"},
           request' = [request EXCEPT ![r].snap = Copied(r, px), ![r].st = st],
           UNCHANGED <<backend, bounds, override, session, overlapped, unsavedEffort>>,
           agent' \in AgentStates, agent'.dir = agent.dir, agent'.model = agent.model,
           agent'.effort = agent.effort, agent'.provider = agent.provider,
           proxies' \in Seq(ProxyStates), Len(proxies) \in Nat, Len(proxies') \in Nat, Len(proxies) <= Len(proxies'),
           \A i \in 1..Len(proxies) : proxies'[i].target = proxies[i].target,
           agent'.proxy \in 0..Len(proxies'),
           agent'.proxy # 0 => proxies'[agent'.proxy].target = agent.provider,
           px = 0 \/ px = agent'.proxy
    PROVE  SettingsInv'
<1>1. /\ agent \in AgentStates /\ request \in [Reqs -> Requests] /\ request[r] \in Requests
      /\ GetModel(agent) \in Models \cup {""}
  BY AgentFacts
<1>2. r \in Busy /\ request[r].op = "send" /\ request[r].st = "to_start" /\ Applied(r)
  BY DEF At, Busy, SettingsInv, SendInv
<1> DEFINE x == [dir |-> agent.dir, model |-> GetModel(agent), effort |-> agent.effort, mode |-> agent.mode,
                 provider |-> agent.provider, proxy |-> px, by |-> r]
<1>3. x \in Snaps
  BY <1>1 DEF Snaps, AgentStates
<1>4. /\ x.dir = agent.dir /\ x.model = GetModel(agent) /\ x.effort = agent.effort /\ x.provider = agent.provider
      /\ x.proxy = px /\ Copied(r, px) = {x}
  BY DEF Copied
<1> HIDE DEF x
<1> DEFINE p == [request[r] EXCEPT !.snap = {x}, !.st = st]
<1>5. p \in Requests
  <2>1. {x} \in SUBSET Snaps /\ st \in SendStages
    BY <1>3 DEF SendStages
  <2> QED BY <1>1, <2>1, RequestUpdated
<1>6. /\ p.st = st /\ p.op = request[r].op /\ p.dir = request[r].dir /\ p.model = request[r].model
      /\ p.effort = request[r].effort /\ p.alone = request[r].alone /\ p.snap = {x}
  BY <1>1 DEF Requests
<1>7. request' = [request EXCEPT ![r] = p]
  BY <1>1, <1>4
<1> HIDE DEF p
<1>8. request'[r] = p /\ Only(r) /\ SameAsk(r)
  BY <1>1, <1>5, <1>6, <1>7 DEF Only, SameAsk
<1>9. ProxyInv'
  <2>1. \A s : Talks(s) => s.proxy \in 0..Len(proxies') /\ (s.proxy # 0 => proxies'[s.proxy].target = s.provider)
    BY TalksKept
  <2>2. \A s \in session : Talks(s)'
    BY <2>1 DEF SettingsInv, ProxyInv, Talks
  <2>3. \A q \in Reqs : q # r => \A s \in request'[q].snap : Talks(s)'
    BY <1>8, <2>1 DEF SettingsInv, ProxyInv, Talks, Only
  <2>4. \A s \in request'[r].snap : Talks(s)'
    BY <1>4, <1>6, <1>8 DEF Talks
  <2>5. Talks(agent)'
    BY DEF Talks
  <2> QED BY <2>2, <2>3, <2>4, <2>5 DEF ProxyInv
<1>10. Applied(r)'
  <2> SUFFICES ASSUME request[r].alone PROVE Applied(r)'
    BY <1>8 DEF Applied, SameAsk
  <2>1. /\ request[r].dir \in {"", agent.dir} /\ request[r].model \in {"", agent.model}
        /\ request[r].effort # "" => agent.effort = Normal(request[r].effort)
    BY <1>2 DEF Applied
  <2>2. GetModel(agent) = agent.model
        \/ (agent.provider # "" /\ GetModel(agent) = ProviderSpecs[agent.provider].model)
    BY DEF GetModel
  <2>3. Asked(r).dir = request[r].dir /\ Asked(r).model = request[r].model /\ Asked(r).effort = request[r].effort
    BY DEF Asked
  <2>4. Undisturbed(x, Asked(r))
    BY <1>4, <2>1, <2>2, <2>3 DEF Undisturbed
  <2>5. Asked(r)' = Asked(r)
    BY <1>8, AskedKept
  <2>6. \A s \in request'[r].snap : Undisturbed(s, Asked(r)')
    BY <1>6, <1>8, <2>4, <2>5
  <2> QED BY <1>8, <2>1, <2>6 DEF Applied, SameAsk
<1>11. OwnEffort(r)'
  <2>1. ~At(r, "send", "to_save") /\ ~At(r, "send", "to_save")' /\ ~At(r, "send", "prev_read")'
    BY <1>2, <1>6, <1>8 DEF At
  <2> QED BY <1>2, <2>1, EffortKept
<1>12. UndisturbedSend'
  BY DEF SettingsInv, SendInv, UndisturbedSend
<1>13. unsavedEffort' \in BOOLEAN /\ (override' = <<>> \/ (\E e \in Efforts \cup {""} : override' = <<e>>))
  <2>1. unsavedEffort' = unsavedEffort /\ override' = override
    OBVIOUS
  <2> QED BY <2>1, AgentFacts, Zenon
<1> QED BY <1>2, <1>8, <1>9, <1>10, <1>11, <1>12, <1>13, RequestKeeps

(* Every step keeps the invariant.                                         *)
LEMMA SettingsStep == SettingsInv /\ [SettingsNext]_settingsVars => SettingsInv'
<1> SUFFICES ASSUME SettingsInv, [SettingsNext]_settingsVars PROVE SettingsInv'
  OBVIOUS
<1>1. CASE UNCHANGED settingsVars
  BY <1>1
  DEF settingsVars, SettingsInv, SettingsTypes, ProxyInv, Talks, AloneInv, Busy, SendInv,
      UndisturbedSend,
     Applied, Asked, EffortInv, At, DefaultEffort
<1>2. /\ agent \in AgentStates /\ request \in [Reqs -> Requests] /\ proxies \in Seq(ProxyStates)
      /\ GetModel(agent) \in Models \cup {""} /\ \A r \in Reqs : request[r] \in Requests
  BY AgentFacts
<1>3. \A r \in Reqs : Applied(r)
  BY DEF SettingsInv, SendInv
<1>4. ASSUME NEW r \in Reqs, request'[r].op = "none"
      PROVE  Applied(r)' /\ ~At(r, "send", "to_save")' /\ ~At(r, "send", "prev_read")'
  BY <1>4 DEF Applied, At
<1>5. ASSUME NEW r \in Reqs, SwitchDir(r) PROVE SettingsInv'
  <2>1. /\ request[r].st = "new"
        /\ agent' = IF request[r].dir = "" THEN agent ELSE [agent EXCEPT !.dir = request[r].dir]
        /\ UNCHANGED <<backend, bounds, proxies, override, session, overlapped, unsavedEffort>>
        /\ Finish(r) \/ Step(r, "dispatched")
    BY <1>5, Zenon DEF SwitchDir
  <2>2. r \in Busy /\ ~At(r, "send", "to_save")
    BY <2>1 DEF SettingsInv, SettingsTypes, Busy, At
  <2>3. request[r].dir \in Dirs \cup {""}
    BY <1>2 DEF Requests
  <2>4. /\ agent' \in AgentStates /\ agent'.model = agent.model /\ agent'.provider = agent.provider
        /\ agent'.proxy = agent.proxy /\ agent'.effort = agent.effort /\ request[r].dir \in {"", agent'.dir}
    BY <1>2, <2>1, <2>3, AgentMoved
  <2>5. CASE Finish(r)
    <3>1. Only(r) /\ request'[r].op = "none" /\ request'[r].st = "idle" /\ request'[r].snap = {}
      BY <1>2, <2>5, FinishFacts
    <3>2. Applied(r)' /\ ~At(r, "send", "to_save")' /\ ~At(r, "send", "prev_read")'
      BY <1>4, <3>1
    <3> QED BY <2>1, <2>2, <2>4, <3>1, <3>2, QuietKeeps
  <2>6. CASE Step(r, "dispatched")
    <3>1. Only(r) /\ SameAsk(r) /\ request'[r].st = "dispatched" /\ request'[r].snap = request[r].snap
      BY <1>2, <2>6, StepFacts DEF SendStages
    <3>2. ~At(r, "send", "to_save")' /\ ~At(r, "send", "prev_read")'
      BY <3>1 DEF At
    <3>3. Applied(r)'
      BY <1>3, <2>1, <2>4, <3>1, AskedKept DEF Applied, SameAsk
    <3> QED BY <2>1, <2>2, <2>4, <3>1, <3>2, <3>3, QuietKeeps
  <2> QED BY <2>1, <2>5, <2>6
<1>6. ASSUME NEW r \in Reqs, HandleSwitchModel(r) PROVE SettingsInv'
  <2>1. /\ At(r, "switch_model", "dispatched") /\ agent' = [agent EXCEPT !.model = request[r].model] /\ Finish(r)
        /\ UNCHANGED <<backend, bounds, proxies, override, session, overlapped, unsavedEffort>>
    BY <1>6, Zenon DEF HandleSwitchModel
  <2>2. r \in Busy /\ ~At(r, "send", "to_save")
    BY <2>1 DEF Busy, At
  <2>3. request[r].model \in Models \cup {""}
    BY <1>2 DEF Requests
  <2>4. /\ agent' \in AgentStates /\ agent'.provider = agent.provider
        /\ agent'.proxy = agent.proxy /\ agent'.effort = agent.effort
    BY <1>2, <2>1, <2>3, AgentMoved
  <2>5. Only(r) /\ request'[r].op = "none" /\ request'[r].st = "idle" /\ request'[r].snap = {}
    BY <1>2, <2>1, FinishFacts
  <2>6. Applied(r)' /\ ~At(r, "send", "to_save")' /\ ~At(r, "send", "prev_read")'
    BY <1>4, <2>5
  <2> QED BY <2>1, <2>2, <2>4, <2>5, <2>6, QuietKeeps
<1>7. ASSUME NEW r \in Reqs, HandleSetProvider(r) PROVE SettingsInv'
  <2>1. /\ At(r, "set_provider", "dispatched") /\ SetActiveProvider(request[r].name) /\ Finish(r)
        /\ UNCHANGED <<backend, bounds, override, session, overlapped, unsavedEffort>>
    BY <1>7, Zenon DEF HandleSetProvider
  <2>2. r \in Busy /\ ~At(r, "send", "to_save")
    BY <2>1 DEF Busy, At
  <2>3. Only(r) /\ request'[r].op = "none" /\ request'[r].st = "idle" /\ request'[r].snap = {}
    BY <1>2, <2>1, FinishFacts
  <2>4. Applied(r)' /\ ~At(r, "send", "to_save")' /\ ~At(r, "send", "prev_read")'
    BY <1>4, <2>3
  <2>5. agent' \in AgentStates /\ agent'.proxy = 0 /\ agent'.effort = agent.effort
    BY <1>2, <2>1 DEF SetActiveProvider, AgentStates
  <2>6. proxies' = StopProxy
    BY <2>1 DEF SetActiveProvider
  <2>7. /\ proxies' \in Seq(ProxyStates) /\ Len(proxies') = Len(proxies) /\ Len(proxies) \in Nat
        /\ \A i \in 1..Len(proxies) : proxies'[i].target = proxies[i].target
    BY <2>6, StopProxyFacts
  <2>8. ProxyInv'
    <3>1. \A s : Talks(s) => s.proxy \in 0..Len(proxies') /\ (s.proxy # 0 => proxies'[s.proxy].target = s.provider)
      BY <2>7, TalksKept
    <3>2. \A q \in Reqs : request'[q].snap \subseteq request[q].snap
      BY <2>3 DEF Only
    <3> QED BY <2>1, <2>5, <2>7, <3>1, <3>2 DEF SettingsInv, ProxyInv, Talks
  <2>9. OwnEffort(r)'
    BY <2>1, <2>2, <2>4, <2>5, EffortKept
  <2>10. UndisturbedSend'
    BY <2>1 DEF SettingsInv, SendInv, UndisturbedSend
  <2>11. unsavedEffort' \in BOOLEAN /\ (override' = <<>> \/ (\E e \in Efforts \cup {""} : override' = <<e>>))
    <3>1. unsavedEffort' = unsavedEffort /\ override' = override
      BY <2>1
    <3> QED BY <3>1, AgentFacts, Zenon
  <2> QED BY <2>1, <2>2, <2>3, <2>4, <2>5, <2>7, <2>8, <2>9, <2>10, <2>11, RequestKeeps
<1>8. ASSUME NEW r \in Reqs, HandleSetPermissionMode(r) PROVE SettingsInv'
  <2>1. /\ At(r, "set_mode", "dispatched") /\ agent' = [agent EXCEPT !.mode = request[r].name] /\ Step(r, "mode_set")
        /\ UNCHANGED <<backend, bounds, proxies, override, session, overlapped, unsavedEffort>>
    BY <1>8, Zenon DEF HandleSetPermissionMode
  <2>2. r \in Busy /\ ~At(r, "send", "to_save")
    BY <2>1 DEF Busy, At
  <2>3. request[r].name \in SettingNames
    BY <1>2 DEF Requests
  <2>4. /\ agent' \in AgentStates /\ agent'.provider = agent.provider
        /\ agent'.proxy = agent.proxy /\ agent'.effort = agent.effort
    BY <1>2, <2>1, <2>3, AgentMoved
  <2>5. Only(r) /\ SameAsk(r) /\ request'[r].st = "mode_set" /\ request'[r].snap = request[r].snap
    BY <1>2, <2>1, StepFacts DEF SendStages
  <2>6. Applied(r)' /\ ~At(r, "send", "to_save")' /\ ~At(r, "send", "prev_read")'
    BY <2>1, <2>5 DEF Applied, At, SameAsk
  <2> QED BY <2>1, <2>2, <2>4, <2>5, <2>6, QuietKeeps
<1>9. ASSUME NEW r \in Reqs, SetLiveMode(r) PROVE SettingsInv'
  <2>1. /\ At(r, "set_mode", "mode_set") /\ Finish(r)
        /\ UNCHANGED <<backend, bounds, agent, proxies, override, overlapped, unsavedEffort>>
        /\ session' = IF backend = "codex" THEN session
                      ELSE {IF "auto" \in {agent.mode, s.mode} THEN s
                            ELSE [s EXCEPT !.mode = agent.mode] : s \in session}
    BY <1>9, Zenon DEF SetLiveMode
  <2>2. r \in Busy /\ ~At(r, "send", "to_save")
    BY <2>1 DEF Busy, At
  <2>3. Only(r) /\ request'[r].op = "none" /\ request'[r].st = "idle" /\ request'[r].snap = {}
    BY <1>2, <2>1, FinishFacts
  <2>4. Applied(r)' /\ ~At(r, "send", "to_save")' /\ ~At(r, "send", "prev_read")'
    BY <1>4, <2>3
  <2>5. \A s : LET t == [s EXCEPT !.mode = agent.mode] IN
          /\ t.proxy = s.proxy /\ t.provider = s.provider /\ (t.alone <=> s.alone) /\ t.asked = s.asked
          /\ t.dir = s.dir /\ t.effort = s.effort /\ t.model = s.model
    OBVIOUS
  <2>6. \A t \in session' : \E s \in session :
          /\ t.proxy = s.proxy /\ t.provider = s.provider /\ (t.alone <=> s.alone) /\ t.asked = s.asked
          /\ t.dir = s.dir /\ t.effort = s.effort /\ t.model = s.model
    <3> SUFFICES ASSUME NEW t \in session'
                 PROVE  \E s \in session :
                          /\ t.proxy = s.proxy /\ t.provider = s.provider /\ (t.alone <=> s.alone) /\ t.asked = s.asked
                          /\ t.dir = s.dir /\ t.effort = s.effort /\ t.model = s.model
      OBVIOUS
    <3>1. \E s \in session : t = s \/ t = [s EXCEPT !.mode = agent.mode]
      BY <2>1
    <3> QED BY <2>5, <3>1, ZenonT(60)
  <2>7. ProxyInv'
    <3>1. \A q \in Reqs : request'[q].snap \subseteq request[q].snap
      BY <2>3 DEF Only
    <3> QED BY <2>1, <2>6, <3>1, ProxyKept
  <2>8. OwnEffort(r)'
    BY <2>1, <2>2, <2>4, EffortKept
  <2>9. UndisturbedSend'
    <3> SUFFICES ASSUME NEW t \in session', t.alone PROVE Undisturbed(t, t.asked)
      BY DEF UndisturbedSend, Undisturbed
    <3>1. PICK s \in session :
            /\ t.proxy = s.proxy /\ t.provider = s.provider /\ (t.alone <=> s.alone) /\ t.asked = s.asked
            /\ t.dir = s.dir /\ t.effort = s.effort /\ t.model = s.model
      BY <2>6, Zenon
    <3>2. Undisturbed(s, s.asked)
      BY <3>1, SessionsUndisturbed, Zenon
    <3> QED BY <3>1, <3>2 DEF Undisturbed
  <2>10. /\ agent' \in AgentStates /\ proxies' \in Seq(ProxyStates) /\ unsavedEffort' \in BOOLEAN
         /\ override' = <<>> \/ (\E e \in Efforts \cup {""} : override' = <<e>>)
    <3>1. agent' = agent /\ proxies' = proxies /\ unsavedEffort' = unsavedEffort /\ override' = override
      BY <2>1
    <3> QED BY <3>1, AgentFacts, Zenon
  <2> QED BY <2>1, <2>2, <2>3, <2>4, <2>7, <2>8, <2>9, <2>10, RequestKeeps
<1>10. ASSUME NEW r \in Reqs, ApplyModel(r) PROVE SettingsInv'
  <2>1. /\ At(r, "send", "dispatched")
        /\ agent' = IF request[r].model = "" THEN agent ELSE [agent EXCEPT !.model = request[r].model]
        /\ Step(r, IF request[r].effort = "" THEN "applied" ELSE "model_set")
        /\ UNCHANGED <<backend, bounds, proxies, override, session, overlapped, unsavedEffort>>
    BY <1>10, Zenon DEF ApplyModel
  <2>2. r \in Busy /\ ~At(r, "send", "to_save")
    BY <2>1 DEF Busy, At
  <2>3. request[r].model \in Models \cup {""}
    BY <1>2 DEF Requests
  <2>4. /\ agent' \in AgentStates /\ agent'.dir = agent.dir /\ agent'.provider = agent.provider
        /\ agent'.proxy = agent.proxy /\ agent'.effort = agent.effort /\ request[r].model \in {"", agent'.model}
    BY <1>2, <2>1, <2>3, AgentMoved
  <2>5. /\ Only(r) /\ SameAsk(r) /\ request'[r].snap = request[r].snap
        /\ request'[r].st = IF request[r].effort = "" THEN "applied" ELSE "model_set"
    BY <1>2, <2>1, StepFacts DEF SendStages
  <2>6. ~At(r, "send", "to_save")' /\ ~At(r, "send", "prev_read")'
    BY <2>5 DEF At
  <2>7. Applied(r)'
    BY <1>3, <2>1, <2>4, <2>5, AskedKept, ZenonT(60) DEF Applied, SameAsk, At
  <2> QED BY <2>1, <2>2, <2>4, <2>5, <2>6, <2>7, QuietKeeps
<1>11. ASSUME NEW r \in Reqs, ReadPreviousEffort(r) PROVE SettingsInv'
  <2>1. /\ At(r, "send", "model_set")
        /\ request' = [request EXCEPT ![r].st = "prev_read", ![r].prev = agent.effort]
        /\ UNCHANGED <<backend, bounds, agent, proxies, override, session, overlapped, unsavedEffort>>
    BY <1>11, Zenon DEF ReadPreviousEffort
  <2>2. r \in Busy /\ ~At(r, "send", "to_save")
    BY <2>1 DEF Busy, At
  <2> DEFINE p == [request[r] EXCEPT !.st = "prev_read", !.prev = agent.effort]
  <2>3. p \in Requests
    <3>1. agent.effort \in Efforts \cup {""} /\ "prev_read" \in SendStages
      BY <1>2 DEF AgentStates, SendStages
    <3> QED BY <1>2, <3>1, RequestUpdated
  <2>4. /\ p.st = "prev_read" /\ p.prev = agent.effort /\ p.op = request[r].op /\ p.dir = request[r].dir
        /\ p.model = request[r].model /\ p.effort = request[r].effort /\ p.alone = request[r].alone
        /\ p.snap = request[r].snap
    BY <1>2, ZenonT(60) DEF Requests
  <2>5. request' = [request EXCEPT ![r] = p]
    BY <1>2, <2>1
  <2> HIDE DEF p
  <2>6. request'[r] = p /\ Only(r) /\ SameAsk(r)
    BY <1>2, <2>3, <2>4, <2>5 DEF Only, SameAsk
  <2>7. ~At(r, "send", "to_save")' /\ request'[r].prev = agent.effort
    BY <2>4, <2>6 DEF At
  <2>8. Applied(r)'
    BY <1>3, <2>1, <2>4, <2>6, AskedKept, ZenonT(60) DEF Applied, At
  <2>9. agent' \in AgentStates /\ request'[r].snap \subseteq request[r].snap
    BY <1>2, <2>1, <2>4, <2>6
  <2> QED BY <2>1, <2>2, <2>6, <2>7, <2>8, <2>9, QuietKeeps
<1>12. ASSUME NEW r \in Reqs, SetReasoningEffort(r) PROVE SettingsInv'
  <2> DEFINE e == Normal(request[r].effort)
             saves == backend = "claudecode" /\ e # Normal(request[r].prev)
  <2>1. /\ At(r, "send", "prev_read") /\ agent' = [agent EXCEPT !.effort = e]
        /\ Step(r, IF saves THEN "to_save" ELSE "applied")
        /\ UNCHANGED <<backend, bounds, proxies, override, session, overlapped, unsavedEffort>>
    BY <1>12, Zenon DEF SetReasoningEffort
  <2>2. r \in Busy
    BY <2>1 DEF Busy, At
  <2>3. /\ agent' \in AgentStates /\ agent'.dir = agent.dir /\ agent'.model = agent.model
        /\ agent'.provider = agent.provider /\ agent'.proxy = agent.proxy /\ agent'.effort = e
    BY <1>2, <2>1, NormalFacts, AgentMoved
  <2>4. /\ Only(r) /\ SameAsk(r) /\ request'[r].snap = request[r].snap
        /\ request'[r].st = IF saves THEN "to_save" ELSE "applied"
    BY <1>2, <2>1, StepFacts DEF SendStages
  <2>5. Applied(r)'
    BY ZenonT(60), <1>3, <2>1, <2>3, <2>4, AskedKept DEF Applied, SameAsk, At
  <2>6. OwnEffort(r)'
    <3> SUFFICES ASSUME backend = "claudecode", ~overlapped, ~unsavedEffort
                 PROVE  /\ ~At(r, "send", "to_save")' /\ agent'.effort # "" => DefaultEffort' = agent'.effort
                        /\ ~At(r, "send", "prev_read")'
                        /\ At(r, "send", "to_save")' => agent'.effort = Normal(request[r].effort)
      BY <2>1, <2>4 DEF OwnEffort, SameAsk
    <3>1. request[r].prev = agent.effort
      BY <2>1 DEF SettingsInv, EffortInv
    <3>2. \A q \in Reqs : ~At(q, "send", "to_save")
      BY <2>1, <2>2 DEF SettingsInv, AloneInv, Busy, At
    <3>3. agent.effort # "" => DefaultEffort = agent.effort
      BY <3>2 DEF SettingsInv, EffortInv
    <3>4. Normal(agent.effort) = agent.effort
      BY <1>2, NormalFacts DEF AgentStates
    <3>5. ~At(r, "send", "to_save")' => agent'.effort = agent.effort
      BY <2>1, <2>3, <2>4, <3>1, <3>4 DEF At, SameAsk
    <3>6. DefaultEffort' = DefaultEffort
      BY <2>1 DEF DefaultEffort
    <3>7. ~At(r, "send", "prev_read")'
      BY <2>4 DEF At
    <3> QED BY <2>3, <3>3, <3>5, <3>6, <3>7
  <2> HIDE DEF e, saves
  <2>7. ProxyInv'
    <3>1. \A q \in Reqs : request'[q].snap \subseteq request[q].snap
      BY <2>4 DEF Only
    <3> QED BY <2>1, <2>3, <3>1, ProxyKept
  <2>8. UndisturbedSend'
    BY <2>1 DEF SettingsInv, SendInv, UndisturbedSend
  <2>9. /\ proxies' \in Seq(ProxyStates) /\ unsavedEffort' \in BOOLEAN
        /\ override' = <<>> \/ (\E f \in Efforts \cup {""} : override' = <<f>>)
    <3>1. proxies' = proxies /\ unsavedEffort' = unsavedEffort /\ override' = override
      BY <2>1
    <3> QED BY <3>1, AgentFacts, Zenon
  <2> QED BY <2>1, <2>2, <2>3, <2>4, <2>5, <2>6, <2>7, <2>8, <2>9, RequestKeeps
<1>13. ASSUME NEW r \in Reqs, SaveEffortOverride(r) PROVE SettingsInv'
  <2>1. /\ At(r, "send", "to_save") /\ Step(r, "applied")
        /\ \/ override' = <<Normal(request[r].effort)>> /\ unsavedEffort' = unsavedEffort
           \/ override' = override /\ unsavedEffort' = TRUE
        /\ UNCHANGED <<backend, bounds, agent, proxies, session, overlapped>>
    BY <1>13, Zenon DEF SaveEffortOverride
  <2>2. r \in Busy
    BY <2>1 DEF Busy, At
  <2>3. /\ Only(r) /\ SameAsk(r) /\ request'[r].snap = request[r].snap /\ request'[r].st = "applied"
    BY <1>2, <2>1, StepFacts DEF SendStages
  <2>4. Applied(r)'
    BY <1>3, <2>1, <2>3, AskedKept DEF Applied, SameAsk, At
  <2>5. OwnEffort(r)'
    <3> SUFFICES ASSUME backend = "claudecode", ~overlapped, ~unsavedEffort'
                 PROVE  agent.effort # "" => DefaultEffort' = agent.effort
      BY <2>1, <2>3 DEF OwnEffort, At
    <3>0. unsavedEffort' # TRUE
      OBVIOUS
    <3>1. override' = <<Normal(request[r].effort)>> /\ ~unsavedEffort
      BY <2>1, <3>0, Zenon
    <3>2. agent.effort = Normal(request[r].effort)
      BY <2>1, <3>1 DEF SettingsInv, EffortInv
    <3>3. override' # <<>> /\ override'[1] = agent.effort
      BY <3>1, <3>2
    <3>4. Normal(agent.effort) = agent.effort
      BY <1>2, NormalFacts DEF AgentStates
    <3> QED BY <3>3, <3>4 DEF DefaultEffort
  <2>6. ProxyInv'
    <3>1. \A q \in Reqs : request'[q].snap \subseteq request[q].snap
      BY <2>3 DEF Only
    <3> QED BY <2>1, <3>1, ProxyKept
  <2>7. UndisturbedSend'
    BY <2>1 DEF SettingsInv, SendInv, UndisturbedSend
  <2>8. agent' \in AgentStates /\ proxies' \in Seq(ProxyStates)
    BY <1>2, <2>1, Zenon
  <2>9. unsavedEffort' \in BOOLEAN
    BY <2>1, AgentFacts
  <2>10. override' = <<>> \/ (\E f \in Efforts \cup {""} : override' = <<f>>)
    BY <2>1, AgentFacts, NormalFacts, Zenon
  <2> QED BY <2>1, <2>2, <2>3, <2>4, <2>5, <2>6, <2>7, <2>8, <2>9, <2>10, RequestKeeps
<1>14. ASSUME NEW r \in Reqs, Select(r) PROVE SettingsInv'
  <2> DEFINE c == [model  |-> IF request[r].model # "" THEN request[r].model ELSE GetModel(agent),
                   effort |-> IF request[r].effort # "" THEN Normal(request[r].effort) ELSE agent.effort]
             st == IF session = {} THEN "to_start" ELSE "recorded"
  <2>1. /\ At(r, "send", "applied") /\ request' = [request EXCEPT ![r].chosen = c, ![r].st = st]
        /\ UNCHANGED <<backend, bounds, agent, proxies, override, session, overlapped, unsavedEffort>>
    BY <1>14, Zenon DEF Select
  <2>2. r \in Busy /\ ~At(r, "send", "to_save")
    BY <2>1 DEF Busy, At
  <2>3. c \in [model : Models \cup {""}, effort : Efforts \cup {""}] /\ st \in SendStages
    <3>1. agent.effort \in Efforts \cup {""} /\ request[r].model \in Models \cup {""}
      BY <1>2 DEF AgentStates, Requests
    <3> QED BY <1>2, <3>1, NormalFacts DEF SendStages
  <2>4. st \in {"to_start", "recorded"}
    OBVIOUS
  <2> HIDE DEF c, st
  <2> DEFINE p == [request[r] EXCEPT !.chosen = c, !.st = st]
  <2>5. p \in Requests
    BY <1>2, <2>3, RequestUpdated
  <2>6. /\ p.st = st /\ p.op = request[r].op /\ p.dir = request[r].dir
        /\ p.model = request[r].model /\ p.effort = request[r].effort /\ p.alone = request[r].alone
        /\ p.snap = request[r].snap
    BY <1>2, ZenonT(60) DEF Requests
  <2>7. request' = [request EXCEPT ![r] = p]
    BY <1>2, <2>1
  <2> HIDE DEF p
  <2>8. request'[r] = p /\ Only(r) /\ SameAsk(r)
    BY <1>2, <2>5, <2>6, <2>7 DEF Only, SameAsk
  <2>9. ~At(r, "send", "to_save")' /\ ~At(r, "send", "prev_read")'
    BY <2>4, <2>6, <2>8 DEF At
  <2>10. Applied(r)'
    BY <1>3, <2>1, <2>4, <2>6, <2>8, AskedKept, ZenonT(60) DEF Applied, At
  <2>11. agent' \in AgentStates /\ request'[r].snap \subseteq request[r].snap
    BY <1>2, <2>1, <2>6, <2>8
  <2> QED BY <2>1, <2>2, <2>8, <2>9, <2>10, <2>11, QuietKeeps
<1>15. ASSUME NEW r \in Reqs, StartSession(r) PROVE SettingsInv'
  <2>1. /\ At(r, "send", "to_start") /\ EnvProxy
        /\ request' = [request EXCEPT ![r].snap = Copied(r, agent'.proxy), ![r].st = "started"]
        /\ UNCHANGED <<backend, bounds, override, session, overlapped, unsavedEffort>>
    BY <1>15, Zenon DEF StartSession
  <2>2. agent'.proxy \in Nat
    BY <2>1, EnvFacts DEF AgentStates
  <2> QED BY <2>1, <2>2, EnvFacts, StartKeeps
<1>16. ASSUME NEW r \in Reqs, CodexStartSession(r) PROVE SettingsInv'
  <2>1. /\ At(r, "send", "to_start")
        /\ request' = [request EXCEPT ![r].snap = Copied(r, 0),
                                      ![r].st = IF agent.provider = "" THEN "started" ELSE "snapped"]
        /\ UNCHANGED <<backend, bounds, agent, proxies, override, session, overlapped, unsavedEffort>>
    BY <1>16, Zenon DEF CodexStartSession
  <2>2. /\ Len(proxies) \in Nat /\ agent.proxy \in 0..Len(proxies)
        /\ agent.proxy # 0 => proxies[agent.proxy].target = agent.provider
    <3>0. proxies \in Seq(ProxyStates)
      BY <1>2, Zenon
    <3>1. Len(proxies) \in Nat
      BY <3>0
    <3> QED BY <3>1 DEF SettingsInv, ProxyInv, Talks
  <2> DEFINE st == IF agent.provider = "" THEN "started" ELSE "snapped"
  <2>3. st \in {"started", "snapped"}
    OBVIOUS
  <2>4. request' = [request EXCEPT ![r].snap = Copied(r, 0), ![r].st = st]
    BY <2>1
  <2> HIDE DEF st
  <2>5. /\ agent' = agent /\ proxies' = proxies
        /\ UNCHANGED <<backend, bounds, override, session, overlapped, unsavedEffort>>
    BY <2>1
  <2>6. /\ agent' \in AgentStates /\ agent'.dir = agent.dir /\ agent'.model = agent.model
        /\ agent'.effort = agent.effort /\ agent'.provider = agent.provider /\ proxies' \in Seq(ProxyStates)
        /\ Len(proxies') = Len(proxies) /\ \A i \in 1..Len(proxies) : proxies'[i].target = proxies[i].target
    BY <1>2, <2>5
  <2>7. /\ agent'.proxy \in 0..Len(proxies')
        /\ agent'.proxy # 0 => proxies'[agent'.proxy].target = agent.provider
    BY <2>2, <2>5
  <2>8. 0 \in Nat /\ Len(proxies) <= Len(proxies') /\ Len(proxies') \in Nat
    BY <2>2, <2>6
  <2> QED BY <2>1, <2>2, <2>3, <2>4, <2>5, <2>6, <2>7, <2>8, StartKeeps
<1>17. ASSUME NEW r \in Reqs, EnsureCodexAuth(r) PROVE SettingsInv'
  <2>1. /\ At(r, "send", "snapped") /\ Step(r, "started")
        /\ UNCHANGED <<backend, bounds, agent, proxies, override, session, overlapped, unsavedEffort>>
    BY <1>17, Zenon DEF EnsureCodexAuth
  <2>2. r \in Busy /\ ~At(r, "send", "to_save")
    BY <2>1 DEF Busy, At
  <2>3. Only(r) /\ SameAsk(r) /\ request'[r].st = "started" /\ request'[r].snap = request[r].snap
    BY <1>2, <2>1, StepFacts DEF SendStages
  <2>4. ~At(r, "send", "to_save")' /\ ~At(r, "send", "prev_read")'
    BY <2>3 DEF At
  <2>5. Applied(r)'
    BY <1>3, <2>1, <2>3, AskedKept DEF Applied, SameAsk, At
  <2>6. agent' \in AgentStates /\ request'[r].snap \subseteq request[r].snap
    BY <1>2, <2>1, <2>3
  <2> QED BY <2>1, <2>2, <2>3, <2>4, <2>5, <2>6, QuietKeeps
<1>18. ASSUME NEW r \in Reqs, PutSession(r) PROVE SettingsInv'
  <2> DEFINE Put(s) == [dir |-> s.dir, model |-> s.model, effort |-> s.effort, mode |-> s.mode,
                        provider |-> s.provider, proxy |-> s.proxy, by |-> s.by, key |-> auth,
                        alone |-> request[r].alone, asked |-> Asked(r)]
  <2>1. /\ At(r, "send", "started") /\ Step(r, "recorded")
        /\ session' = IF session # {} THEN session ELSE {Put(s) : s \in request[r].snap}
        /\ UNCHANGED <<backend, bounds, agent, proxies, override, overlapped, unsavedEffort>>
    BY <1>18, Zenon DEF PutSession
  <2>2. r \in Busy /\ ~At(r, "send", "to_save") /\ request[r].op = "send"
    BY <2>1 DEF Busy, At
  <2>3. Only(r) /\ SameAsk(r) /\ request'[r].st = "recorded" /\ request'[r].snap = request[r].snap
    BY <1>2, <2>1, StepFacts DEF SendStages
  <2>4. ~At(r, "send", "to_save")' /\ ~At(r, "send", "prev_read")'
    BY <2>3 DEF At
  <2>5. Applied(r)'
    BY <1>3, <2>1, <2>3, AskedKept DEF Applied, SameAsk, At
  <2>6. \A s : /\ Put(s).proxy = s.proxy /\ Put(s).provider = s.provider /\ Put(s).dir = s.dir
               /\ Put(s).effort = s.effort /\ Put(s).model = s.model /\ Put(s).asked = Asked(r)
               /\ Put(s).alone <=> request[r].alone
    OBVIOUS
  <2> HIDE DEF Put
  <2>7. ProxyInv'
    <3>1. \A q \in Reqs : request'[q].snap \subseteq request[q].snap
      BY <2>3 DEF Only
    <3>2. \A s \in session' : Talks(s)
      <4> SUFFICES ASSUME NEW t \in session' PROVE Talks(t)
        OBVIOUS
      <4>1. t \in session \/ \E s \in request[r].snap : t = Put(s)
        BY <2>1
      <4> QED BY <2>6, <4>1 DEF SettingsInv, ProxyInv, Talks
    <3> QED BY <2>1, <3>1, <3>2 DEF SettingsInv, ProxyInv, Talks
  <2>8. UndisturbedSend'
    <3> SUFFICES ASSUME NEW t \in session', t.alone PROVE Undisturbed(t, t.asked)
      BY DEF UndisturbedSend, Undisturbed
    <3>1. CASE t \in session
      BY <3>1, SessionsUndisturbed, Zenon
    <3>2. ASSUME NEW s \in request[r].snap, t = Put(s) PROVE Undisturbed(t, t.asked)
      <4>1. request[r].alone
        BY <2>6, <3>2
      <4>2. Undisturbed(s, Asked(r))
        BY <1>3, <2>2, <4>1, Zenon DEF Applied
      <4> QED BY <2>6, <3>2, <4>2 DEF Undisturbed
    <3>3. t \in session \/ \E s \in request[r].snap : t = Put(s)
      BY <2>1
    <3> QED BY <3>1, <3>2, <3>3
  <2>9. OwnEffort(r)'
    BY <2>1, <2>2, <2>4, EffortKept
  <2>10. /\ agent' \in AgentStates /\ proxies' \in Seq(ProxyStates) /\ unsavedEffort' \in BOOLEAN
         /\ override' = <<>> \/ (\E e \in Efforts \cup {""} : override' = <<e>>)
    <3>1. agent' = agent /\ proxies' = proxies /\ unsavedEffort' = unsavedEffort /\ override' = override
      BY <2>1
    <3> QED BY <3>1, AgentFacts, Zenon
  <2> QED BY <2>1, <2>2, <2>3, <2>5, <2>7, <2>8, <2>9, <2>10, RequestKeeps
<1>19. ASSUME NEW r \in Reqs, RecordAndSend(r) PROVE SettingsInv'
  <2>1. /\ At(r, "send", "recorded") /\ Finish(r)
        /\ UNCHANGED <<backend, bounds, agent, proxies, override, session, overlapped, unsavedEffort>>
    BY <1>19, Zenon DEF RecordAndSend
  <2>2. r \in Busy /\ ~At(r, "send", "to_save")
    BY <2>1 DEF Busy, At
  <2>3. Only(r) /\ request'[r].op = "none" /\ request'[r].st = "idle" /\ request'[r].snap = {}
    BY <1>2, <2>1, FinishFacts
  <2>4. Applied(r)' /\ ~At(r, "send", "to_save")' /\ ~At(r, "send", "prev_read")'
    BY <1>4, <2>3
  <2> QED BY <1>2, <2>1, <2>2, <2>3, <2>4, QuietKeeps
<1>20. ASSUME NEW r \in Reqs, NEW op \in AllOps, NEW dir \in Dirs \cup {""}, NEW model \in Models \cup {""},
              NEW effort \in Efforts \cup {"", "junk"}, NEW name \in SettingNames,
              Arrive(r, op, dir, model, effort, name)
       PROVE  SettingsInv'
  <2> DEFINE n == [NoRequest EXCEPT !.op = op, !.st = "new", !.dir = dir, !.model = model,
                                    !.effort = effort, !.name = name, !.alone = Busy = {}]
  <2>1. /\ r \notin Busy /\ overlapped' = (overlapped \/ Busy # {})
        /\ request' = [q \in Reqs |-> IF q = r THEN n ELSE [request[q] EXCEPT !.alone = FALSE]]
        /\ UNCHANGED <<backend, bounds, agent, proxies, override, session, unsavedEffort>>
    BY <1>20, Zenon DEF Arrive
  <2>2. n.op = op /\ n.st = "new" /\ n.snap = {} /\ n.alone = (Busy = {})
    BY DEF NoRequest
  <2>3. n \in Requests
    <3> DEFINE n1 == [NoRequest EXCEPT !.op = op]
               n2 == [n1 EXCEPT !.st = "new"]
               n3 == [n2 EXCEPT !.dir = dir]
               n4 == [n3 EXCEPT !.model = model]
               n5 == [n4 EXCEPT !.effort = effort]
               n6 == [n5 EXCEPT !.name = name]
    <3>1. n = [n6 EXCEPT !.alone = Busy = {}]
      OBVIOUS
    <3>2. n1 \in Requests
      BY NoRequestFacts DEF Requests
    <3> HIDE DEF n1
    <3>3. n2 \in Requests
      BY <3>2 DEF Requests, SendStages
    <3> HIDE DEF n2
    <3>4. n3 \in Requests
      BY <3>3 DEF Requests
    <3> HIDE DEF n3
    <3>5. n4 \in Requests
      BY <3>4 DEF Requests
    <3> HIDE DEF n4
    <3>6. n5 \in Requests
      BY <3>5 DEF Requests
    <3> HIDE DEF n5
    <3>7. n6 \in Requests
      BY <3>6 DEF Requests
    <3> HIDE DEF n6
    <3>8. [n6 EXCEPT !.alone = Busy = {}] \in Requests
      BY <3>7 DEF Requests
    <3> QED BY <3>1, <3>8
  <2> HIDE DEF n
  <2>4. \A q \in Reqs : LET p == [request[q] EXCEPT !.alone = FALSE] IN
          /\ p \in Requests /\ p.op = request[q].op /\ p.st = request[q].st /\ p.snap = request[q].snap
          /\ p.prev = request[q].prev /\ p.effort = request[q].effort /\ ~p.alone
    <3>1. \A p \in Requests : [p EXCEPT !.alone = FALSE] \in Requests /\ ~[p EXCEPT !.alone = FALSE].alone
      BY DEF Requests
    <3>2. \A p \in Requests : LET x == [p EXCEPT !.alone = FALSE] IN
            x.op = p.op /\ x.st = p.st /\ x.snap = p.snap /\ x.prev = p.prev /\ x.effort = p.effort
      BY DEF Requests
    <3> QED BY <1>2, <3>1, <3>2
  <2>5. /\ request'[r] = n /\ request' \in [Reqs -> Requests]
        /\ \A q \in Reqs : q # r =>
             /\ request'[q].op = request[q].op /\ request'[q].st = request[q].st
             /\ request'[q].snap = request[q].snap /\ request'[q].prev = request[q].prev
             /\ request'[q].effort = request[q].effort /\ ~request'[q].alone
    BY <2>1, <2>3, <2>4
  <2>6. Busy' = Busy \cup {r}
    BY <2>2, <2>5 DEF Busy, AllOps
  <2>7. SettingsTypes'
    <3>1. overlapped' \in BOOLEAN
      BY <2>1, Zenon DEF SettingsInv, SettingsTypes
    <3>2. \A q \in Reqs : request'[q].op = "none" => request'[q].st = "idle"
      BY <2>2, <2>5 DEF SettingsInv, SettingsTypes, AllOps
    <3>3. UNCHANGED <<backend, bounds, agent, proxies, override, unsavedEffort>>
      BY <2>1
    <3> QED BY <2>5, <3>1, <3>2, <3>3, Zenon DEF SettingsInv, SettingsTypes
  <2>8. ProxyInv'
    BY <2>1, <2>2, <2>5 DEF SettingsInv, ProxyInv, Talks
  <2>9. AloneInv'
    BY <2>1, <2>2, <2>5, <2>6 DEF AloneInv, Busy
  <2>10. SendInv'
    <3>1. UndisturbedSend'
      BY <2>1 DEF SettingsInv, SendInv, UndisturbedSend
    <3>2. Applied(r)'
      BY <2>2, <2>5 DEF Applied
    <3>3. \A q \in Reqs : q # r => Applied(q)'
      BY <2>5 DEF Applied
    <3> QED BY <3>1, <3>2, <3>3 DEF SendInv
  <2>11. EffortInv'
    <3>1. ~At(r, "send", "to_save")' /\ ~At(r, "send", "prev_read")'
      BY <2>2, <2>5 DEF At
    <3>2. ~At(r, "send", "to_save") /\ ~At(r, "send", "prev_read")
      BY <2>1 DEF Busy, At
    <3>3. \A q \in Reqs : q # r => /\ At(q, "send", "to_save")' <=> At(q, "send", "to_save")
                                   /\ At(q, "send", "prev_read")' <=> At(q, "send", "prev_read")
      BY <2>5 DEF At
    <3>4. DefaultEffort' = DefaultEffort /\ (~overlapped' => ~overlapped)
      BY <2>1 DEF DefaultEffort
    <3> QED BY <2>1, <2>5, <3>1, <3>2, <3>3, <3>4, ZenonT(60) DEF SettingsInv, EffortInv
  <2> QED BY <2>7, <2>8, <2>9, <2>10, <2>11 DEF SettingsInv
<1>21. CASE SessionEnds
  <2>1. session' = {} /\ UNCHANGED <<backend, bounds, agent, proxies, override, request, overlapped, unsavedEffort>>
    BY <1>21, Zenon DEF SessionEnds
  <2>2. SettingsTypes' /\ ProxyInv'
    BY <2>1 DEF SettingsInv, SettingsTypes, ProxyInv, Talks
  <2>3. AloneInv' /\ SendInv'
    BY <2>1 DEF SettingsInv, AloneInv, Busy, SendInv, UndisturbedSend, Applied, Asked
  <2>4. EffortInv'
    BY <2>1 DEF SettingsInv, EffortInv, At, DefaultEffort
  <2> QED BY <2>2, <2>3, <2>4 DEF SettingsInv
<1>22. CASE SettingsRestart
  <2>1. /\ agent' = [dir |-> "", model |-> "", mode |-> "default", provider |-> "", proxy |-> 0,
                     effort |-> IF backend = "claudecode" THEN DefaultEffort ELSE ""]
        /\ proxies' = <<>> /\ session' = {} /\ request' = [r \in Reqs |-> NoRequest]
        /\ UNCHANGED <<backend, bounds, override, overlapped, unsavedEffort>>
    BY <1>22, Zenon DEF SettingsRestart
  <2>2. DefaultEffort \in Efforts \cup {""} /\ DefaultEffort' = DefaultEffort
    BY <2>1, NormalFacts, SettingsAssumption DEF DefaultEffort
  <2>3. /\ agent' \in AgentStates /\ agent'.proxy = 0
        /\ backend = "claudecode" => agent'.effort = DefaultEffort
    BY <2>1, <2>2 DEF AgentStates, SettingNames
  <2>4. proxies' \in Seq(ProxyStates)
    <3>1. <<>> \in Seq(ProxyStates)
      OBVIOUS
    <3> QED BY <2>1, <3>1, Zenon
  <2>5. request' \in [Reqs -> Requests] /\ \A r \in Reqs : request'[r] = NoRequest
    BY <2>1, NoRequestFacts
  <2>6. SettingsTypes'
    <3>1. UNCHANGED <<backend, bounds, override, overlapped, unsavedEffort>>
      BY <2>1
    <3>2. \A r \in Reqs : request'[r].st = "idle"
      BY <2>5, NoRequestFacts
    <3> QED BY <2>3, <2>4, <2>5, <3>1, <3>2, Zenon DEF SettingsInv, SettingsTypes
  <2>7. ProxyInv'
    <3>1. 0 \in 0..Len(<<>>)
      OBVIOUS
    <3>2. Talks(agent)'
      BY <2>1, <2>3, <3>1, Zenon DEF Talks
    <3> QED BY <2>1, <2>5, <3>2, NoRequestFacts DEF ProxyInv
  <2>8. AloneInv' /\ SendInv'
    BY <2>1, <2>5, NoRequestFacts DEF AloneInv, Busy, SendInv, UndisturbedSend, Applied
  <2>9. EffortInv'
    BY <2>1, <2>2, <2>3, <2>5, NoRequestFacts DEF EffortInv, At
  <2> QED BY <2>6, <2>7, <2>8, <2>9 DEF SettingsInv
<1>23. ASSUME NEW r \in Reqs, NEW d \in bounds.dirs,
              \/ \E m \in bounds.models, e \in bounds.efforts : Arrive(r, "send", d, m, e, "")
              \/ \E p \in Providers \cup {"unknown"} : Arrive(r, "set_provider", d, "", "", p)
              \/ \E k \in {"default", "yolo", "auto"} : Arrive(r, "set_mode", d, "", "", k)
              \/ \E m \in bounds.models : Arrive(r, "switch_model", d, m, "", "")
              \/ Arrive(r, "other", d, "", "", "")
       PROVE  SettingsInv'
  <2>1. bounds \in OpScenarios
    BY Zenon DEF SettingsInv, SettingsTypes
  <2>2. /\ bounds.dirs \subseteq Dirs \cup {""} /\ bounds.models \subseteq Models \cup {""}
        /\ bounds.efforts \subseteq Efforts \cup {"", "junk"}
    BY <2>1, SettingsAssumption
  <2>3. /\ {"send", "set_provider", "set_mode", "switch_model", "other"} \subseteq AllOps
        /\ Providers \cup {"", "unknown", "default", "yolo", "auto"} \subseteq SettingNames
    BY DEF AllOps, SettingNames
  <2> QED BY <1>20, <1>23, <2>2, <2>3
<1> QED
  BY <1>1, <1>5, <1>6, <1>7, <1>8, <1>9, <1>10, <1>11, <1>12, <1>13, <1>14, <1>15, <1>16,
     <1>17, <1>18, <1>19, <1>21,
     <1>22, <1>23, Zenon DEF SettingsNext, SendSteps

(* The agent at its start, under either backend.                           *)
LEMMA SettingsStart == SettingsInit => SettingsInv
<1> SUFFICES ASSUME SettingsInit PROVE SettingsInv
  OBVIOUS
<1>1. /\ backend \in Backends /\ bounds \in OpScenarios
      /\ agent = [dir |-> "", model |-> "", mode |-> "default",
                  effort |-> IF backend = "claudecode" THEN SettingsEffort ELSE "", provider |-> "", proxy |-> 0]
      /\ proxies = <<>> /\ override = <<>> /\ session = {} /\ request = [r \in Reqs |-> NoRequest]
      /\ overlapped = FALSE /\ unsavedEffort = FALSE
  BY Zenon DEF SettingsInit
<1>2. DefaultEffort = SettingsEffort /\ SettingsEffort \in Efforts \cup {""}
  BY <1>1, SettingsAssumption DEF DefaultEffort
<1>3. /\ agent \in AgentStates /\ agent.proxy = 0
      /\ backend = "claudecode" => agent.effort = DefaultEffort
  BY <1>1, <1>2 DEF AgentStates, SettingNames
<1>4. proxies \in Seq(ProxyStates)
  <2>1. <<>> \in Seq(ProxyStates)
    OBVIOUS
  <2> QED BY <1>1, <2>1, Zenon
<1>5. request \in [Reqs -> Requests] /\ \A r \in Reqs : request[r] = NoRequest
  BY <1>1, NoRequestFacts
<1>6. SettingsTypes
  <2>1. backend \in {"claudecode", "codex"}
    BY <1>1, SettingsAssumption
  <2>2. \A r \in Reqs : request[r].st = "idle"
    BY <1>5, NoRequestFacts
  <2>3. overlapped \in BOOLEAN /\ unsavedEffort \in BOOLEAN
    BY <1>1
  <2> QED BY <1>1, <1>3, <1>4, <1>5, <2>1, <2>2, <2>3, Zenon DEF SettingsTypes
<1>7. ProxyInv
  <2>1. 0 \in 0..Len(<<>>)
    OBVIOUS
  <2>2. Talks(agent)
    BY <1>1, <1>3, <2>1, Zenon DEF Talks
  <2> QED BY <1>1, <1>5, <2>2, NoRequestFacts DEF ProxyInv
<1>8. AloneInv /\ SendInv
  BY <1>1, <1>5, NoRequestFacts DEF AloneInv, Busy, SendInv, UndisturbedSend, Applied
<1>9. EffortInv
  BY <1>1, <1>2, <1>3, <1>5, NoRequestFacts DEF EffortInv, At
<1> QED BY <1>6, <1>7, <1>8, <1>9 DEF SettingsInv

(* The agent's proxy is open, and no other is.                             *)
PoolInv ==
    /\ agent.proxy # 0 => proxies[agent.proxy].open
    /\ \A i \in 1..Len(proxies) : proxies[i].open => i = agent.proxy

(* Stopping the agent's proxy leaves none open.                             *)
LEMMA NoneOpen ==
    ASSUME SettingsInv, PoolInv, proxies' = StopProxy, agent'.proxy = 0
    PROVE  PoolInv'
<1>1. proxies \in Seq(ProxyStates) /\ agent.proxy \in 0..Len(proxies)
  BY DEF SettingsInv, SettingsTypes, ProxyInv, Talks
<1>2. CASE agent.proxy = 0
  BY <1>2 DEF PoolInv, StopProxy
<1>3. CASE agent.proxy # 0
  <2>1. proxies' = [proxies EXCEPT ![agent.proxy].open = FALSE]
    BY <1>3 DEF StopProxy
  <2>2. Len(proxies') = Len(proxies) /\ \A i \in 1..Len(proxies) : ~proxies'[i].open
    BY <1>1, <1>3, <2>1 DEF PoolInv, ProxyStates
  <2> QED BY <2>2 DEF PoolInv
<1> QED BY <1>2, <1>3

(* Every step keeps the pool.                                               *)
LEMMA PoolStep == SettingsInv /\ PoolInv /\ [SettingsNext]_settingsVars => PoolInv'
<1> SUFFICES ASSUME SettingsInv, PoolInv, [SettingsNext]_settingsVars PROVE PoolInv'
  OBVIOUS
<1>1. agent \in AgentStates /\ proxies \in Seq(ProxyStates)
  BY DEF SettingsInv, SettingsTypes
<1>2. ASSUME proxies' = proxies, agent'.proxy = agent.proxy PROVE PoolInv'
  BY <1>2 DEF PoolInv
<1>3. CASE UNCHANGED settingsVars
  BY <1>2, <1>3 DEF settingsVars
<1>4. ASSUME NEW r \in Reqs, HandleSetProvider(r) PROVE PoolInv'
  <2>1. SetActiveProvider(request[r].name)
    BY <1>4, Zenon DEF HandleSetProvider
  <2>2. proxies' = StopProxy /\ agent'.proxy = 0
    BY <1>1, <2>1 DEF SetActiveProvider, AgentStates
  <2> QED BY <2>2, NoneOpen
<1>5. ASSUME NEW r \in Reqs, StartSession(r) PROVE PoolInv'
  <2>1. EnvProxy
    BY <1>5, Zenon DEF StartSession
  <2>2. CASE agent.provider = "" \/ ~ ProviderSpecs[agent.provider].proxied
    <3>1. proxies' = StopProxy /\ agent'.proxy = 0
      BY <1>1, <2>1, <2>2 DEF EnvProxy, AgentStates
    <3> QED BY <3>1, NoneOpen
  <2>3. CASE ~(agent.provider = "" \/ ~ ProviderSpecs[agent.provider].proxied) /\ UNCHANGED <<agent, proxies>>
    BY <1>2, <2>3
  <2>4. CASE /\ agent.proxy = 0 /\ agent.provider # "" /\ proxies' = Append(proxies, [target |-> agent.provider, open |-> TRUE])
             /\ agent' = [agent EXCEPT !.proxy = Len(proxies) + 1]
    <3>1. /\ agent'.proxy = Len(proxies) + 1 /\ Len(proxies') = Len(proxies) + 1
          /\ proxies'[Len(proxies) + 1].open /\ \A i \in 1..Len(proxies) : proxies'[i] = proxies[i]
      <4>1. agent'.proxy = Len(proxies) + 1
        BY <1>1, <2>4 DEF AgentStates
      <4>2. agent.provider \in Providers
        BY <1>1, <2>4 DEF AgentStates
      <4> DEFINE e == [target |-> agent.provider, open |-> TRUE]
      <4>3. e \in ProxyStates /\ e.open
        BY <4>2 DEF ProxyStates
      <4>4. proxies' = Append(proxies, e)
        BY <2>4
      <4> HIDE DEF e
      <4> QED BY <1>1, <4>1, <4>3, <4>4
    <3>2. \A i \in 1..Len(proxies) : ~proxies[i].open
      <4>1. \A i \in 1..Len(proxies) : i # 0
        BY <1>1
      <4> QED BY <2>4, <4>1 DEF PoolInv
    <3>3. Len(proxies) \in Nat
      BY <1>1
    <3> QED BY <3>1, <3>2, <3>3 DEF PoolInv
  <2> QED BY <2>1, <2>2, <2>3, <2>4, Zenon DEF EnvProxy
<1>6. CASE SettingsRestart
  <2>1. agent'.proxy = 0 /\ proxies' = <<>>
    BY <1>6 DEF SettingsRestart
  <2> QED BY <2>1 DEF PoolInv
<1>7. ASSUME NEW r \in Reqs, SwitchDir(r) \/ HandleSwitchModel(r) \/ HandleSetPermissionMode(r) \/ ApplyModel(r)
                              \/ SetReasoningEffort(r)
      PROVE PoolInv'
  <2>1. proxies' = proxies /\ agent'.proxy = agent.proxy
    BY <1>1, <1>7
    DEF SwitchDir, HandleSwitchModel, HandleSetPermissionMode, ApplyModel, SetReasoningEffort, AgentStates
  <2> QED BY <1>2, <2>1
<1>8. CASE UNCHANGED <<agent, proxies>>
  BY <1>2, <1>8
<1>9. ASSUME SettingsNext, ~SettingsRestart, \A r \in Reqs : ~HandleSetProvider(r) /\ ~StartSession(r)
                /\ ~(SwitchDir(r) \/ HandleSwitchModel(r) \/ HandleSetPermissionMode(r) \/ ApplyModel(r)
                        \/ SetReasoningEffort(r))
      PROVE UNCHANGED <<agent, proxies>>
  <2>1. CASE SessionEnds
    BY <2>1, Zenon DEF SessionEnds
  <2>2. ASSUME NEW r \in Reqs, SetLiveMode(r) \/ SaveEffortOverride(r) \/ ReadPreviousEffort(r) \/ Select(r)
                 \/ CodexStartSession(r) \/ EnsureCodexAuth(r) \/ PutSession(r) \/ RecordAndSend(r)
        PROVE UNCHANGED <<agent, proxies>>
    BY <2>2, Zenon DEF SetLiveMode, SaveEffortOverride, ReadPreviousEffort, Select, CodexStartSession, EnsureCodexAuth,
                       PutSession, RecordAndSend
  <2>3. ASSUME NEW r \in Reqs, NEW op, NEW d, NEW m, NEW e, NEW x, Arrive(r, op, d, m, e, x)
        PROVE UNCHANGED <<agent, proxies>>
    BY <2>3, Zenon DEF Arrive
  <2> QED BY <1>9, <2>1, <2>2, <2>3, Zenon DEF SettingsNext, SendSteps
<1> QED BY <1>3, <1>4, <1>5, <1>6, <1>7, <1>8, <1>9, Zenon

(* However requests of several phones interleave, provider switches, failed *)
(* proxy starts and restarts of the bridge included, the one open proxy is  *)
(* the agent's and leads to the active provider, and no session is led to   *)
(* a provider it was not started with (SetActiveProvider,                   *)
(* ensureProviderProxyLocked, StartSession).                                *)
THEOREM SettingsProxyFollows == SettingsSpec => []ProxyFollowsProvider
<1>1. SettingsInv /\ PoolInv => ProxyFollowsProvider
  BY DEF SettingsInv, ProxyInv, PoolInv, Talks, ProxyFollowsProvider
<1>2. SettingsInit => PoolInv
  <2>1. ASSUME SettingsInit PROVE proxies = <<>> /\ agent.proxy = 0
    <3>1. PICK e : agent = [dir |-> "", model |-> "", mode |-> "default", effort |-> e, provider |-> "", proxy |-> 0]
      BY <2>1, Zenon DEF SettingsInit
    <3>2. agent.proxy = 0
      BY <3>1
    <3>3. proxies = <<>>
      BY <2>1, Zenon DEF SettingsInit
    <3> QED BY <3>2, <3>3
  <2> QED BY <2>1 DEF PoolInv
<1> QED BY <1>1, <1>2, SettingsStart, SettingsStep, PoolStep, PTL DEF SettingsSpec

(* A message no other request ran beside gets what it asked for, and the    *)
(* effort it used survives a restart unless its save failed                 *)
(* (applySendMessageRuntimeOptions, saveClaudeEffortOverride).              *)
THEOREM SettingsAreTakenOver == SettingsSpec => []SettingsTakeEffect
<1>1. SettingsInv => SettingsTakeEffect
  <2> SUFFICES ASSUME SettingsInv PROVE EffortSurvivesRestart
    BY DEF SettingsInv, SendInv, SettingsTakeEffect
  <2>1. Busy = {} => \A r \in Reqs : ~At(r, "send", "to_save")
    BY DEF Busy, At
  <2> QED BY <2>1 DEF SettingsInv, EffortInv, EffortSurvivesRestart
<1> QED BY <1>1, SettingsStart, SettingsStep, PTL DEF SettingsSpec

-----------------------------------------------------------------------------
(* The Codex app-server session: the end of its event channel.             *)

(* The channel is closed by whoever was first to use closeOnce, at once or  *)
(* after it waited, and only when no loop runs.                             *)
CloseInv ==
    /\ eventsClosed \in {0, 1} /\ once \in BOOLEAN /\ deferred \in BOOLEAN
    /\ ~once => eventsClosed = 0 /\ ~deferred
    /\ deferred => eventsClosed = 0
    /\ eventsClosed = 1 => loops = {}
    /\ "loop" \notin panicked

(* Emitting on a channel that is open does not panic.                      *)
LEMMA EmitQuiet ==
    ASSUME NEW n, NEW who, eventsClosed = 0, EmitN(n, who)
    PROVE  panicked' = panicked
BY DEF EmitN

(* Nor does handling a message while it is open.                           *)
LEMMA HandledQuietly ==
    ASSUME NEW n, eventsClosed = 0, HandleRPCMessage(n)
    PROVE  panicked' = panicked
<1>1. CASE HandleResponse(n)
  BY <1>1, Zenon DEF HandleResponse
<1>2. CASE TurnStarted(n)
  BY <1>2, EmitQuiet DEF TurnStarted
<1>3. CASE ItemStarted
  BY <1>3, EmitQuiet DEF ItemStarted
<1>4. CASE AgentMessageDelta(n)
  BY <1>4, EmitQuiet DEF AgentMessageDelta
<1>5. CASE AgentMessageCompleted(n)
  BY <1>5, EmitQuiet DEF AgentMessageCompleted
<1>6. CASE OtherItemCompleted
  BY <1>6, EmitQuiet DEF OtherItemCompleted
<1>7. CASE TurnCompleted(n)
  BY <1>7, EmitQuiet DEF TurnCompleted
<1> QED BY <1>1, <1>2, <1>3, <1>4, <1>5, <1>6, <1>7, Zenon DEF HandleRPCMessage

(* Every step keeps the invariant.                                         *)
LEMMA CloseStep == CloseInv /\ [AppNext]_appVars => CloseInv'
<1> SUFFICES ASSUME CloseInv, [AppNext]_appVars PROVE CloseInv'
  OBVIOUS
<1> USE DEF CloseInv, ending, link
<1>1. ASSUME "read" \in loops \/ "wait" \in loops \/ "stderr" \in loops
      PROVE  eventsClosed = 0
  BY <1>1
<1>2. ASSUME loops' \subseteq loops, panicked' = panicked, UNCHANGED ending
      PROVE  CloseInv'
  BY <1>2
<1>3. CASE ReadsMessage
  <2>1. UNCHANGED ending /\ loops' \subseteq loops
    BY <1>3, Zenon DEF ReadsMessage
  <2>2. "read" \in loops /\ (panicked' = panicked \/ HandleRPCMessage(Head(inbound)))
    BY <1>3, Zenon DEF ReadsMessage
  <2> QED BY <1>1, <1>2, <2>1, <2>2, HandledQuietly
<1>4. CASE ReadLoopEnds
  <2>1. UNCHANGED ending /\ loops' \subseteq loops /\ "read" \in loops
    BY <1>4, Zenon DEF ReadLoopEnds
  <2>2. PICK err \in BOOLEAN : EmitN(IF err /\ ~cancelled THEN 1 ELSE 0, "loop")
    BY <1>4, Zenon DEF ReadLoopEnds
  <2> QED BY <1>1, <1>2, <2>1, <2>2, EmitQuiet
<1>5. CASE StderrLoopEnds
  BY <1>2, <1>5 DEF StderrLoopEnds
<1>6. CASE WaitLoopEnds
  <2>1. UNCHANGED ending /\ loops' \subseteq loops /\ "wait" \in loops
    BY <1>6, Zenon DEF WaitLoopEnds
  <2>2. PICK err \in BOOLEAN : EmitN(IF err /\ ~cancelled THEN 1 ELSE 0, "loop")
    BY <1>6, Zenon DEF WaitLoopEnds
  <2> QED BY <1>1, <1>2, <2>1, <2>2, EmitQuiet
<1>7. CASE QuestionResolved
  BY <1>7 DEF QuestionResolved, EmitN
<1>8. ASSUME NEW c \in Closers, CloseWaits(c) PROVE CloseInv'
  <2>1. loops' = loops /\ panicked' = panicked
    BY <1>8 DEF CloseWaits
  <2>2. CASE /\ loops = {} /\ eventsClosed' = IF once THEN eventsClosed ELSE eventsClosed + 1
             /\ once' = TRUE /\ UNCHANGED deferred
    BY <2>1, <2>2
  <2>3. CASE CloseTimesOut
    BY <2>1, <2>3 DEF CloseTimesOut
  <2> QED BY <1>8, <2>2, <2>3, Zenon DEF CloseWaits
<1>9. CASE DeferredClose
  <2>1. /\ deferred /\ loops = {} /\ eventsClosed' = eventsClosed + 1 /\ deferred' = FALSE
        /\ UNCHANGED <<once, loops, panicked>>
    BY <1>9, Zenon DEF DeferredClose
  <2>2. eventsClosed' = 1 /\ once
    BY <2>1
  <2> QED BY <2>1, <2>2
<1>10. CASE \/ Request \/ WriteMessage \/ RequestEnds \/ NewAppServerSession \/ SendReturns \/ QuestionWritten
            \/ AppConsume \/ ServerAnswers \/ ServerRunsTurn \/ ServerStops \/ UNCHANGED appVars
  <2>1. UNCHANGED <<ending, panicked, loops>>
    BY <1>10, Zenon
    DEF Request, WriteMessage, RequestEnds, NewAppServerSession, SendReturns, QuestionWritten,
       AppConsume, ServerAnswers, ServerRunsTurn, ServerStops, Says, appVars
  <2> QED BY <1>2, <2>1
<1>11. ASSUME NEW c \in Closers, CloseBegins(c) \/ CloseKills(c) PROVE CloseInv'
  <2>1. UNCHANGED <<eventsClosed, once, deferred, panicked, loops>>
    BY <1>11, Zenon DEF CloseBegins, CloseKills
  <2> QED BY <2>1
<1> QED BY <1>3, <1>4, <1>5, <1>6, <1>7, <1>8, <1>9, <1>10, <1>11, Zenon DEF AppNext

(* However Close is called and however late the loops end, the channel is   *)
(* closed at most once and no loop sends on it afterwards                   *)
(* (appServerSession.Close, its closeOnce and its deferred close).          *)
THEOREM CodexLoopsNeverSendOnClosed == AppSpec => []LoopsNeverSendOnClosed
<1>1. AppInit => CloseInv
  <2> SUFFICES ASSUME AppInit PROVE CloseInv
    OBVIOUS
  <2>1. eventsClosed = 0 /\ once = FALSE /\ deferred = FALSE /\ panicked = {}
    BY Zenon DEF AppInit
  <2>2. eventsClosed \in {0, 1} /\ eventsClosed # 1
    BY <2>1
  <2> QED BY <2>1, <2>2, Zenon DEF CloseInv
<1>2. CloseInv => LoopsNeverSendOnClosed
  BY DEF CloseInv, LoopsNeverSendOnClosed
<1> QED BY <1>1, <1>2, CloseStep, PTL DEF AppSpec

-----------------------------------------------------------------------------
(* The Codex app-server session: the texts of the agent messages.          *)

NoteKinds == {"ok", "error", "turn/started", "item/started", "delta", "agentMessage", "other", "turn/completed",
              "turn/question"}
Notes == [kind : NoteKinds, turn : Nat, item : Items \cup {NoItem}]
ItemFates == [emits : Nat, lost : BOOLEAN]
Servers == [asked : Nat, starts : BOOLEAN, turn : Nat, started : BOOLEAN, streamed : SUBSET Items,
            said : SUBSET Items, notes : Nat]

AppTypes ==
    /\ inbound \in Seq(Notes) /\ srv \in Servers /\ rpc.id \in Nat
    /\ pendingMsgs \in Seq(Items) /\ sawDelta \subseteq Items /\ item \in [Items -> ItemFates]

(* The server runs no turn before the session is ready, answers no other    *)
(* request while it runs one, and leaves no message open between turns.     *)
ServerInv ==
    /\ boot # "ready" => srv.turn = 0 /\ srv.starts = FALSE
    /\ srv.asked > 0 /\ srv.starts = FALSE => srv.turn = 0
    /\ ~(srv.streamed \subseteq srv.said) => srv.turn > 0 /\ srv.started = TRUE

Resets(n) == n.kind \in {"turn/started", "turn/completed"}
InTurn == srv.turn > 0 /\ srv.started = TRUE

(* What is on its way from the server: at most one delta and one text of    *)
(* each item, in this order and in one turn; a turn starts only after the   *)
(* one before was completed.                                                *)
NotesKnown ==
    \A p \in DOMAIN inbound :
        /\ inbound[p].kind = "delta" => inbound[p].item \in srv.streamed
        /\ inbound[p].kind = "agentMessage" => inbound[p].item \in srv.said
NotesOnce ==
    \A p, q \in DOMAIN inbound : inbound[p].item = inbound[q].item =>
        /\ inbound[p].kind = "delta" /\ inbound[q].kind = "delta" => p = q
        /\ inbound[p].kind = "agentMessage" /\ inbound[q].kind = "agentMessage" => p = q
        /\ inbound[p].kind = "delta" /\ inbound[q].kind = "agentMessage" =>
             p < q /\ \A r \in DOMAIN inbound : p < r /\ r < q => ~Resets(inbound[r])
OpenDeltas ==
    \A p, r \in DOMAIN inbound :
        inbound[p].kind = "delta" /\ inbound[p].item \notin srv.said /\ p < r => ~Resets(inbound[r])
StartsAfterTexts ==
    \A p, r \in DOMAIN inbound :
        inbound[p].kind = "turn/started" /\ inbound[r].kind = "agentMessage" /\ r < p =>
            \E q \in DOMAIN inbound : r < q /\ q < p /\ inbound[q].kind = "turn/completed"
TextsInTurn ==
    \A r \in DOMAIN inbound : peer = TRUE /\ inbound[r].kind = "agentMessage" =>
        InTurn \/ \E q \in DOMAIN inbound : r < q /\ inbound[q].kind = "turn/completed"

(* What is on the wire: known notifications, none twice, and those of a    *)
(* turn in the order of its items.                                         *)
WireInv == NotesKnown /\ NotesOnce /\ OpenDeltas /\ StartsAfterTexts /\ TextsInTurn

(* What the session made of it: a text was emitted, is held back or is      *)
(* still on its way, and an item that was streamed is known until its text  *)
(* has come or the turn is over.                                            *)
DeltasNew ==
    \A p \in DOMAIN inbound : inbound[p].kind = "delta" =>
        LET i == inbound[p].item IN item[i].emits = 0 /\ i \notin sawDelta /\ i \notin ToSet(pendingMsgs)
TextsNew ==
    \A p \in DOMAIN inbound : inbound[p].kind = "agentMessage" =>
        LET i == inbound[p].item
        IN  /\ i \notin ToSet(pendingMsgs)
            /\ item[i].emits # 0 => i \in sawDelta /\ \A q \in DOMAIN inbound : q < p => ~Resets(inbound[q])
StreamedKnown ==
    \A i \in sawDelta :
        /\ item[i].emits = 1 /\ i \in srv.streamed
        /\ i \notin srv.said => \A q \in DOMAIN inbound : ~Resets(inbound[q])
HeldKnown == \A i \in ToSet(pendingMsgs) : i \in Items /\ item[i].emits = 0 /\ i \in srv.said
EmittedKnown == \A i \in Items : item[i].emits = 1 => i \in srv.said \/ i \in sawDelta
HeldInTurn ==
    pendingMsgs # <<>> =>
        /\ \A p \in DOMAIN inbound : inbound[p].kind = "turn/started" =>
             \E q \in DOMAIN inbound : q < p /\ inbound[q].kind = "turn/completed"
        /\ peer = TRUE => InTurn \/ \E q \in DOMAIN inbound : inbound[q].kind = "turn/completed"
HeldInv == DeltasNew /\ TextsNew /\ StreamedKnown /\ HeldKnown /\ EmittedKnown /\ HeldInTurn

(* Once the read loop has ended, nothing of this is acted upon any more.    *)
TextInv ==
    /\ AppTypes /\ ServerInv /\ MessageOnce
    /\ "read" \in loops => WireInv /\ HeldInv

(* The places of a list without its first entry.                           *)
LEMMA TailShifts ==
    ASSUME NEW S, NEW s \in Seq(S), s # <<>>
    PROVE  /\ Tail(s) \in Seq(S) /\ Head(s) = s[1] /\ 1 \in DOMAIN s
           /\ \A p \in DOMAIN Tail(s) : p \in Nat /\ p >= 1 /\ p + 1 \in DOMAIN s /\ Tail(s)[p] = s[p + 1]
           /\ \A q \in DOMAIN s : /\ q \in Nat /\ q >= 1 /\ s[q] \in S
                                  /\ q > 1 => q - 1 \in DOMAIN Tail(s) /\ Tail(s)[q - 1] = s[q]
OBVIOUS

(* The places of a list with one more entry.                               *)
LEMMA AppendShifts ==
    ASSUME NEW S, NEW s \in Seq(S), NEW n \in S
    PROVE  LET last == Len(s) + 1
           IN  /\ Append(s, n) \in Seq(S) /\ last \in DOMAIN Append(s, n) /\ Append(s, n)[last] = n
               /\ \A p \in DOMAIN s : p \in DOMAIN Append(s, n) /\ p < last /\ Append(s, n)[p] = s[p]
               /\ \A p \in DOMAIN Append(s, n) : p \in Nat /\ p <= last /\ (p = last \/ p \in DOMAIN s)
OBVIOUS

(* Reading the first notification leaves the wire in order.                *)
LEMMA WireTail ==
    ASSUME AppTypes, WireInv, inbound # <<>>, inbound' = Tail(inbound), srv' = srv, peer' = peer
    PROVE  WireInv'
<1>1. /\ \A p \in DOMAIN inbound' : p \in Nat /\ p + 1 \in DOMAIN inbound /\ inbound'[p] = inbound[p + 1]
      /\ \A q \in DOMAIN inbound : q \in Nat /\ (q > 1 => q - 1 \in DOMAIN inbound' /\ inbound'[q - 1] = inbound[q])
  BY TailShifts DEF AppTypes
<1>2. NotesKnown'
  BY <1>1 DEF WireInv, NotesKnown
<1>3. NotesOnce'
  <2>1. ASSUME NEW p \in DOMAIN inbound', NEW q \in DOMAIN inbound', inbound'[p].item = inbound'[q].item
        PROVE  /\ inbound'[p].kind = "delta" /\ inbound'[q].kind = "delta" => p = q
               /\ inbound'[p].kind = "agentMessage" /\ inbound'[q].kind = "agentMessage" => p = q
               /\ inbound'[p].kind = "delta" /\ inbound'[q].kind = "agentMessage" =>
                    p < q /\ \A r \in DOMAIN inbound' : p < r /\ r < q => ~Resets(inbound'[r])
    <3>1. /\ p \in Nat /\ q \in Nat /\ p + 1 \in DOMAIN inbound /\ q + 1 \in DOMAIN inbound
          /\ inbound'[p] = inbound[p + 1] /\ inbound'[q] = inbound[q + 1]
      BY <1>1
    <3>2. /\ inbound[p + 1].kind = "delta" /\ inbound[q + 1].kind = "delta" => p + 1 = q + 1
          /\ inbound[p + 1].kind = "agentMessage" /\ inbound[q + 1].kind = "agentMessage" => p + 1 = q + 1
          /\ inbound[p + 1].kind = "delta" /\ inbound[q + 1].kind = "agentMessage" =>
               p + 1 < q + 1 /\ \A r \in DOMAIN inbound : p + 1 < r /\ r < q + 1 => ~Resets(inbound[r])
      BY <2>1, <3>1, Zenon DEF WireInv, NotesOnce
    <3>3. ASSUME inbound'[p].kind = "delta", inbound'[q].kind = "agentMessage", NEW r \in DOMAIN inbound', p < r, r < q
          PROVE  ~Resets(inbound'[r])
      <4>1. r \in Nat /\ r + 1 \in DOMAIN inbound /\ inbound'[r] = inbound[r + 1] /\ p + 1 < r + 1 /\ r + 1 < q + 1
        BY <1>1, <3>1, <3>3
      <4>2. ~Resets(inbound[r + 1])
        BY <3>1, <3>2, <3>3, <4>1, Zenon
      <4> QED BY <4>1, <4>2
    <3> QED BY <3>1, <3>2, <3>3
  <2> QED BY <2>1 DEF NotesOnce, Resets
<1>4. OpenDeltas'
  <2>1. ASSUME NEW p \in DOMAIN inbound', NEW r \in DOMAIN inbound', inbound'[p].kind = "delta",
               inbound'[p].item \notin srv.said, p < r
        PROVE  ~Resets(inbound'[r])
    <3>1. /\ p \in Nat /\ r \in Nat /\ p + 1 \in DOMAIN inbound /\ r + 1 \in DOMAIN inbound
          /\ inbound'[p] = inbound[p + 1] /\ inbound'[r] = inbound[r + 1]
      BY <1>1
    <3>2. p + 1 < r + 1
      BY <2>1, <3>1
    <3> QED BY <2>1, <3>1, <3>2 DEF WireInv, OpenDeltas
  <2> QED BY <2>1 DEF OpenDeltas, Resets
<1>5. StartsAfterTexts'
  <2>1. ASSUME NEW p \in DOMAIN inbound', NEW r \in DOMAIN inbound', inbound'[p].kind = "turn/started",
               inbound'[r].kind = "agentMessage", r < p
        PROVE  \E q \in DOMAIN inbound' : r < q /\ q < p /\ inbound'[q].kind = "turn/completed"
    <3>1. /\ p \in Nat /\ r \in Nat /\ p + 1 \in DOMAIN inbound /\ r + 1 \in DOMAIN inbound
          /\ inbound'[p] = inbound[p + 1] /\ inbound'[r] = inbound[r + 1] /\ r + 1 < p + 1
      BY <1>1, <2>1
    <3>2. PICK q \in DOMAIN inbound : r + 1 < q /\ q < p + 1 /\ inbound[q].kind = "turn/completed"
      <4>1. inbound[p + 1].kind = "turn/started" /\ inbound[r + 1].kind = "agentMessage"
        BY <2>1, <3>1
      <4> QED BY <3>1, <4>1 DEF WireInv, StartsAfterTexts
    <3>3. q \in Nat /\ q - 1 \in DOMAIN inbound' /\ inbound'[q - 1] = inbound[q] /\ r < q - 1 /\ q - 1 < p
      BY <1>1, <3>1, <3>2
    <3> QED BY <3>2, <3>3
  <2> QED BY <2>1 DEF StartsAfterTexts
<1>6. TextsInTurn'
  <2>1. ASSUME NEW r \in DOMAIN inbound', peer = TRUE, inbound'[r].kind = "agentMessage", ~InTurn
        PROVE  \E q \in DOMAIN inbound' : r < q /\ inbound'[q].kind = "turn/completed"
    <3>1. r \in Nat /\ r + 1 \in DOMAIN inbound /\ inbound'[r] = inbound[r + 1]
      BY <1>1
    <3>2. PICK q \in DOMAIN inbound : r + 1 < q /\ inbound[q].kind = "turn/completed"
      BY <2>1, <3>1, Zenon DEF WireInv, TextsInTurn
    <3>3. q \in Nat /\ q - 1 \in DOMAIN inbound' /\ inbound'[q - 1] = inbound[q] /\ r < q - 1
      BY <1>1, <3>1, <3>2
    <3> QED BY <3>2, <3>3
  <2>2. InTurn' <=> InTurn
    BY DEF InTurn
  <2> QED BY <2>1, <2>2 DEF TextsInTurn
<1> QED BY <1>2, <1>3, <1>4, <1>5, <1>6 DEF WireInv

(* HeldInv loses nothing when its head is taken that is no end of a turn.   *)
LEMMA HeldTail ==
    ASSUME AppTypes, HeldInv, inbound # <<>>, inbound' = Tail(inbound), Head(inbound).kind # "turn/completed",
           UNCHANGED <<srv, peer, pendingMsgs, sawDelta, item>>
    PROVE  HeldInv'
<1>1. /\ \A p \in DOMAIN inbound' : p \in Nat /\ p + 1 \in DOMAIN inbound /\ inbound'[p] = inbound[p + 1]
      /\ \A q \in DOMAIN inbound :
           /\ q \in Nat /\ q >= 1
           /\ q > 1 => q - 1 \in DOMAIN inbound' /\ inbound'[q - 1] = inbound[q]
      /\ 1 \in DOMAIN inbound /\ Head(inbound) = inbound[1]
  BY TailShifts DEF AppTypes
<1>2. DeltasNew'
  BY <1>1 DEF HeldInv, DeltasNew
<1>3. TextsNew'
  <2>1. ASSUME NEW p \in DOMAIN inbound', inbound'[p].kind = "agentMessage"
        PROVE  /\ inbound'[p].item \notin ToSet(pendingMsgs)
               /\ item[inbound'[p].item].emits # 0 =>
                    inbound'[p].item \in sawDelta /\ \A q \in DOMAIN inbound' : q < p => ~Resets(inbound'[q])
    <3>1. p \in Nat /\ p + 1 \in DOMAIN inbound /\ inbound'[p] = inbound[p + 1]
      BY <1>1
    <3>2. /\ inbound[p + 1].item \notin ToSet(pendingMsgs)
          /\ item[inbound[p + 1].item].emits # 0 =>
               inbound[p + 1].item \in sawDelta /\ \A q \in DOMAIN inbound : q < p + 1 => ~Resets(inbound[q])
      BY <2>1, <3>1, Zenon DEF HeldInv, TextsNew
    <3>3. \A q \in DOMAIN inbound' : q < p => q + 1 \in DOMAIN inbound /\ q + 1 < p + 1 /\ inbound'[q] = inbound[q + 1]
      BY <1>1, <3>1
    <3> QED BY <3>1, <3>2, <3>3
  <2> QED BY <2>1 DEF TextsNew, Resets
<1>4. StreamedKnown'
  BY <1>1 DEF HeldInv, StreamedKnown, Resets
<1>5. HeldKnown' /\ EmittedKnown'
  BY DEF HeldInv, HeldKnown, EmittedKnown
<1>6. HeldInTurn'
  <2>1. ASSUME NEW q \in DOMAIN inbound, inbound[q].kind = "turn/completed"
        PROVE  q \in Nat /\ q > 1 /\ q - 1 \in DOMAIN inbound' /\ inbound'[q - 1].kind = "turn/completed"
    BY <1>1, <2>1
  <2>2. ASSUME pendingMsgs # <<>>, NEW p \in DOMAIN inbound', inbound'[p].kind = "turn/started"
        PROVE  \E q \in DOMAIN inbound' : q < p /\ inbound'[q].kind = "turn/completed"
    <3>1. p \in Nat /\ p + 1 \in DOMAIN inbound /\ inbound'[p] = inbound[p + 1]
      BY <1>1
    <3>2. PICK q \in DOMAIN inbound : q < p + 1 /\ inbound[q].kind = "turn/completed"
      BY <2>2, <3>1 DEF HeldInv, HeldInTurn
    <3>3. q - 1 < p
      BY <2>1, <3>1, <3>2
    <3> QED BY <2>1, <3>2, <3>3
  <2>3. ASSUME pendingMsgs # <<>>, peer = TRUE, ~InTurn
        PROVE  \E q \in DOMAIN inbound' : inbound'[q].kind = "turn/completed"
    BY <2>1, <2>3 DEF HeldInv, HeldInTurn
  <2>4. InTurn' <=> InTurn
    BY DEF InTurn
  <2> QED BY <2>2, <2>3, <2>4 DEF HeldInTurn
<1> QED BY <1>2, <1>3, <1>4, <1>5, <1>6 DEF HeldInv

LEMMA EmittedFacts ==
    ASSUME item \in [Items -> ItemFates], NEW s
    PROVE  /\ EmittedItems(s) \in [Items -> ItemFates]
           /\ \A i \in Items :
                /\ EmittedItems(s)[i].lost = item[i].lost
                /\ i \in ToSet(s) => EmittedItems(s)[i].emits = item[i].emits + 1
                /\ i \notin ToSet(s) => EmittedItems(s)[i].emits = item[i].emits
<1> DEFINE more(i) == [item[i] EXCEPT !.emits = @ + 1]
<1>1. \A i \in Items : more(i) \in ItemFates /\ more(i).lost = item[i].lost /\ more(i).emits = item[i].emits + 1
  BY DEF ItemFates
<1>2. EmittedItems(s) = [i \in Items |-> IF i \in ToSet(s) THEN more(i) ELSE item[i]]
  BY DEF EmittedItems
<1> HIDE DEF more
<1> QED BY <1>1, <1>2

LEMMA NoneHeld == ToSet(<<>>) = {}
BY DEF ToSet

(* What was held back is shown: when a tool starts and when a turn ends; a  *)
(* turn that starts finds nothing held back.                                *)
LEMMA FlushKeeps ==
    ASSUME AppTypes, MessageOnce, WireInv, HeldInv, inbound # <<>>, inbound' = Tail(inbound), UNCHANGED srv,
           pendingMsgs' = <<>>, item' = EmittedItems(pendingMsgs),
           sawDelta' = sawDelta \/ (sawDelta' = {} /\ Resets(Head(inbound)))
    PROVE  HeldInv' /\ MessageOnce' /\ item' \in [Items -> ItemFates] /\ sawDelta' \subseteq Items
<1>1. /\ \A p \in DOMAIN inbound' : p \in Nat /\ p >= 1 /\ p + 1 \in DOMAIN inbound /\ inbound'[p] = inbound[p + 1]
      /\ 1 \in DOMAIN inbound /\ Head(inbound) = inbound[1]
  BY TailShifts DEF AppTypes
<1>2. /\ item' \in [Items -> ItemFates]
      /\ \A i \in Items :
           /\ item'[i].lost = item[i].lost
           /\ i \in ToSet(pendingMsgs) => item'[i].emits = item[i].emits + 1
           /\ i \notin ToSet(pendingMsgs) => item'[i].emits = item[i].emits
  BY EmittedFacts DEF AppTypes
<1>3. srv.streamed \subseteq Items /\ srv.said \subseteq Items /\ sawDelta \subseteq Items
  BY DEF AppTypes, Servers
<1>4. ToSet(pendingMsgs') = {}
  BY NoneHeld
<1>5. DeltasNew'
  <2>1. ASSUME NEW p \in DOMAIN inbound', inbound'[p].kind = "delta"
        PROVE  LET i == inbound'[p].item IN item'[i].emits = 0 /\ i \notin sawDelta'
    <3>1. p + 1 \in DOMAIN inbound /\ inbound'[p] = inbound[p + 1]
      BY <1>1
    <3>2. LET i == inbound[p + 1].item
          IN  i \in Items /\ item[i].emits = 0 /\ i \notin sawDelta /\ i \notin ToSet(pendingMsgs)
      BY <2>1, <3>1, <1>3 DEF WireInv, NotesKnown, HeldInv, DeltasNew
    <3> QED BY <3>1, <3>2, <1>2
  <2> QED BY <2>1, <1>4 DEF DeltasNew
<1>6. TextsNew'
  <2>1. ASSUME NEW p \in DOMAIN inbound', inbound'[p].kind = "agentMessage", item'[inbound'[p].item].emits # 0
        PROVE  inbound'[p].item \in sawDelta' /\ \A q \in DOMAIN inbound' : q < p => ~Resets(inbound'[q])
    <3> DEFINE i == inbound[p + 1].item
    <3>1. p + 1 \in DOMAIN inbound /\ inbound'[p] = inbound[p + 1] /\ p \in Nat /\ p >= 1
      BY <1>1
    <3>2. /\ i \in Items /\ i \notin ToSet(pendingMsgs)
          /\ item[i].emits # 0 => i \in sawDelta /\ \A q \in DOMAIN inbound : q < p + 1 => ~Resets(inbound[q])
      <4>1. inbound[p + 1].kind = "agentMessage"
        BY <2>1, <3>1
      <4> QED BY <4>1, <3>1, <1>3 DEF WireInv, NotesKnown, HeldInv, TextsNew
    <3>3. item[i].emits # 0
      BY <2>1, <3>1, <3>2, <1>2
    <3>4. ~Resets(inbound[1])
      BY <3>1, <3>2, <3>3, <1>1
    <3>5. i \in sawDelta'
      BY <3>2, <3>3, <3>4, <1>1
    <3>6. ASSUME NEW q \in DOMAIN inbound', q < p PROVE ~Resets(inbound'[q])
      <4>1. q + 1 \in DOMAIN inbound /\ q + 1 < p + 1 /\ inbound'[q] = inbound[q + 1]
        BY <1>1, <3>1, <3>6
      <4> QED BY <4>1, <3>2, <3>3
    <3> QED BY <3>1, <3>5, <3>6
  <2> QED BY <2>1, <1>4 DEF TextsNew, Resets
<1>7. StreamedKnown'
  <2>1. ASSUME NEW i \in sawDelta'
        PROVE  /\ item'[i].emits = 1 /\ i \in srv.streamed
               /\ i \notin srv.said => \A q \in DOMAIN inbound' : ~Resets(inbound'[q])
    <3>1. /\ i \in sawDelta /\ i \in Items /\ item[i].emits = 1 /\ i \in srv.streamed
          /\ i \notin srv.said => \A q \in DOMAIN inbound : ~Resets(inbound[q])
      BY <1>3 DEF HeldInv, StreamedKnown
    <3>2. i \notin ToSet(pendingMsgs)
      BY <3>1 DEF HeldInv, HeldKnown
    <3> QED BY <3>1, <3>2, <1>1, <1>2
  <2> QED BY <2>1 DEF StreamedKnown, Resets
<1>8. HeldKnown' /\ HeldInTurn'
  BY <1>4 DEF HeldKnown, HeldInTurn
<1>9. EmittedKnown'
  <2>1. ASSUME NEW i \in Items, item'[i].emits = 1 PROVE i \in srv.said \/ i \in sawDelta'
    <3>1. CASE i \in ToSet(pendingMsgs)
      BY <3>1 DEF HeldInv, HeldKnown
    <3>2. CASE i \notin ToSet(pendingMsgs)
      <4>1. i \in srv.said \/ i \in sawDelta
        BY <3>2, <2>1, <1>2 DEF HeldInv, EmittedKnown
      <4>2. CASE i \in sawDelta /\ i \notin srv.said
        <5>1. ~Resets(inbound[1])
          BY <4>2, <1>1 DEF HeldInv, StreamedKnown
        <5> QED BY <4>2, <5>1, <1>1
      <4> QED BY <4>1, <4>2
    <3> QED BY <3>1, <3>2
  <2> QED BY <2>1 DEF EmittedKnown
<1>10. MessageOnce'
  <2>1. ASSUME NEW i \in Items PROVE item'[i].emits <= 1 /\ ~item'[i].lost
    <3>1. item[i].emits <= 1 /\ ~item[i].lost
      BY DEF MessageOnce
    <3>2. i \in ToSet(pendingMsgs) => item[i].emits = 0
      BY DEF HeldInv, HeldKnown
    <3> QED BY <3>1, <3>2, <1>2
  <2> QED BY <2>1 DEF MessageOnce
<1>11. sawDelta' \subseteq Items
  BY <1>3
<1> QED BY <1>2, <1>5, <1>6, <1>7, <1>8, <1>9, <1>10, <1>11 DEF HeldInv

(* A delta is the first of its item, and is shown.                          *)
LEMMA DeltaKeeps ==
    ASSUME AppTypes, MessageOnce, WireInv, HeldInv, inbound # <<>>, inbound' = Tail(inbound), UNCHANGED <<srv, peer>>,
           Head(inbound).kind = "delta", AgentMessageDelta(Head(inbound))
    PROVE  HeldInv' /\ MessageOnce' /\ item' \in [Items -> ItemFates] /\ sawDelta' \subseteq Items
<1> DEFINE i == inbound[1].item
<1>1. /\ \A p \in DOMAIN inbound' : p \in Nat /\ p >= 1 /\ p + 1 \in DOMAIN inbound /\ inbound'[p] = inbound[p + 1]
      /\ \A q \in DOMAIN inbound :
           /\ q \in Nat /\ q >= 1
           /\ q > 1 => q - 1 \in DOMAIN inbound' /\ inbound'[q - 1] = inbound[q]
      /\ 1 \in DOMAIN inbound /\ Head(inbound) = inbound[1]
  BY TailShifts DEF AppTypes
<1>2. srv.streamed \subseteq Items /\ srv.said \subseteq Items /\ sawDelta \subseteq Items
  BY DEF AppTypes, Servers
<1>3. inbound[1].kind = "delta" /\ i \in srv.streamed /\ i \in Items /\ i \notin sawDelta /\ item[i].emits = 0
      /\ i \notin ToSet(pendingMsgs)
  BY <1>1, <1>2 DEF WireInv, NotesKnown, HeldInv, DeltasNew
<1>4. sawDelta' = sawDelta \cup {i} /\ item' = EmittedItems(<<i>>) /\ pendingMsgs' = pendingMsgs
  BY <1>1, <1>3 DEF AgentMessageDelta
<1>5. ToSet(<<i>>) = {i}
  BY DEF ToSet
<1>6. /\ item' \in [Items -> ItemFates] /\ item'[i].emits = 1
      /\ \A j \in Items : item'[j].lost = item[j].lost /\ (j # i => item'[j].emits = item[j].emits)
  <2>1. item \in [Items -> ItemFates]
    BY DEF AppTypes
  <2>2. /\ EmittedItems(<<i>>) \in [Items -> ItemFates]
        /\ \A j \in Items :
             /\ EmittedItems(<<i>>)[j].lost = item[j].lost
             /\ j \in ToSet(<<i>>) => EmittedItems(<<i>>)[j].emits = item[j].emits + 1
             /\ j \notin ToSet(<<i>>) => EmittedItems(<<i>>)[j].emits = item[j].emits
    BY <2>1, EmittedFacts
  <2> HIDE DEF i
  <2> QED BY <2>2, <1>3, <1>4, <1>5
<1> HIDE DEF i
<1>7. ASSUME NEW p \in DOMAIN inbound', inbound'[p].item = i, inbound'[p].kind \in {"delta", "agentMessage"}
      PROVE  inbound'[p].kind = "agentMessage" /\ \A q \in DOMAIN inbound' : q < p => ~Resets(inbound'[q])
  <2>1. p + 1 \in DOMAIN inbound /\ inbound'[p] = inbound[p + 1] /\ p \in Nat /\ p >= 1 /\ 1 \in DOMAIN inbound
    BY <1>1
  <2>2. inbound[p + 1].item = inbound[1].item
    BY <1>7, <2>1 DEF i
  <2>3. /\ inbound[1].kind = "delta" /\ inbound[p + 1].kind = "delta" => 1 = p + 1
        /\ inbound[1].kind = "delta" /\ inbound[p + 1].kind = "agentMessage" =>
             \A r \in DOMAIN inbound : 1 < r /\ r < p + 1 => ~Resets(inbound[r])
    BY <2>1, <2>2 DEF WireInv, NotesOnce
  <2>4. inbound'[p].kind = "agentMessage"
    BY <1>3, <1>7, <2>1, <2>3
  <2>5. ASSUME NEW q \in DOMAIN inbound', q < p PROVE ~Resets(inbound'[q])
    <3>1. q + 1 \in DOMAIN inbound /\ 1 < q + 1 /\ q + 1 < p + 1 /\ inbound'[q] = inbound[q + 1]
      BY <1>1, <2>1, <2>5
    <3> QED BY <3>1, <2>1, <2>3, <2>4, <1>3
  <2> QED BY <2>4, <2>5
<1>8. DeltasNew'
  <2>1. ASSUME NEW p \in DOMAIN inbound', inbound'[p].kind = "delta"
        PROVE  LET j == inbound'[p].item
               IN  item'[j].emits = 0 /\ j \notin sawDelta' /\ j \notin ToSet(pendingMsgs)
    <3> DEFINE j == inbound[p + 1].item
    <3>1. p + 1 \in DOMAIN inbound /\ inbound'[p] = inbound[p + 1]
      BY <1>1
    <3>2. j \in Items /\ item[j].emits = 0 /\ j \notin sawDelta /\ j \notin ToSet(pendingMsgs)
      BY <2>1, <3>1, <1>2 DEF WireInv, NotesKnown, HeldInv, DeltasNew
    <3>3. j # i
      BY <2>1, <3>1, <1>7
    <3> QED BY <3>1, <3>2, <3>3, <1>4, <1>6
  <2> QED BY <2>1, <1>4 DEF DeltasNew
<1>9. TextsNew'
  <2>1. ASSUME NEW p \in DOMAIN inbound', inbound'[p].kind = "agentMessage"
        PROVE  /\ inbound'[p].item \notin ToSet(pendingMsgs)
               /\ item'[inbound'[p].item].emits # 0 =>
                    inbound'[p].item \in sawDelta' /\ \A q \in DOMAIN inbound' : q < p => ~Resets(inbound'[q])
    <3> DEFINE j == inbound[p + 1].item
    <3>1. p + 1 \in DOMAIN inbound /\ inbound'[p] = inbound[p + 1] /\ p \in Nat
      BY <1>1
    <3>2. /\ j \in Items /\ j \notin ToSet(pendingMsgs)
          /\ item[j].emits # 0 => j \in sawDelta /\ \A q \in DOMAIN inbound : q < p + 1 => ~Resets(inbound[q])
      <4>1. inbound[p + 1].kind = "agentMessage"
        BY <2>1, <3>1
      <4> QED BY <4>1, <3>1, <1>2 DEF WireInv, NotesKnown, HeldInv, TextsNew
    <3>3. CASE j = i
      BY <3>1, <3>2, <3>3, <2>1, <1>4, <1>7
    <3>4. CASE j # i
      <4>1. \A q \in DOMAIN inbound' : q < p => q + 1 \in DOMAIN inbound /\ q + 1 < p + 1 /\ inbound'[q] = inbound[q + 1]
        BY <1>1, <3>1
      <4>2. item'[j].emits = item[j].emits
        BY <3>2, <3>4, <1>6
      <4> QED BY <4>1, <4>2, <3>1, <3>2, <1>4
    <3> QED BY <3>3, <3>4
  <2> QED BY <2>1, <1>4 DEF TextsNew, Resets
<1>10. StreamedKnown'
  <2>1. ASSUME NEW j \in sawDelta'
        PROVE  /\ item'[j].emits = 1 /\ j \in srv.streamed
               /\ j \notin srv.said => \A q \in DOMAIN inbound' : ~Resets(inbound'[q])
    <3>1. CASE j = i
      <4>1. ASSUME i \notin srv.said, NEW q \in DOMAIN inbound' PROVE ~Resets(inbound'[q])
        <5>1. q + 1 \in DOMAIN inbound /\ inbound'[q] = inbound[q + 1] /\ 1 < q + 1
          BY <1>1
        <5> QED BY <5>1, <4>1, <1>1, <1>3 DEF WireInv, OpenDeltas, i
      <4> QED BY <4>1, <3>1, <1>3, <1>6
    <3>2. CASE j # i
      <4>1. /\ j \in sawDelta /\ j \in Items /\ item[j].emits = 1 /\ j \in srv.streamed
            /\ j \notin srv.said => \A q \in DOMAIN inbound : ~Resets(inbound[q])
        BY <3>2, <1>2, <1>4 DEF HeldInv, StreamedKnown
      <4> QED BY <4>1, <3>2, <1>1, <1>6
    <3> QED BY <3>1, <3>2
  <2> QED BY <2>1 DEF StreamedKnown, Resets
<1>11. HeldKnown' /\ EmittedKnown'
  BY <1>3, <1>4, <1>6 DEF HeldInv, HeldKnown, EmittedKnown
<1>12. HeldInTurn'
  <2>1. ASSUME NEW q \in DOMAIN inbound, inbound[q].kind = "turn/completed"
        PROVE  q \in Nat /\ q > 1 /\ q - 1 \in DOMAIN inbound' /\ inbound'[q - 1].kind = "turn/completed"
    BY <1>1, <1>3, <2>1
  <2>2. ASSUME pendingMsgs # <<>>, NEW p \in DOMAIN inbound', inbound'[p].kind = "turn/started"
        PROVE  \E q \in DOMAIN inbound' : q < p /\ inbound'[q].kind = "turn/completed"
    <3>1. p \in Nat /\ p + 1 \in DOMAIN inbound /\ inbound'[p] = inbound[p + 1]
      BY <1>1
    <3>2. PICK q \in DOMAIN inbound : q < p + 1 /\ inbound[q].kind = "turn/completed"
      BY <2>2, <3>1 DEF HeldInv, HeldInTurn
    <3>3. q - 1 < p
      BY <2>1, <3>1, <3>2
    <3> QED BY <2>1, <3>2, <3>3
  <2>3. ASSUME pendingMsgs # <<>>, peer = TRUE, ~InTurn
        PROVE  \E q \in DOMAIN inbound' : inbound'[q].kind = "turn/completed"
    BY <2>1, <2>3 DEF HeldInv, HeldInTurn
  <2>4. InTurn' <=> InTurn
    BY DEF InTurn
  <2> QED BY <2>2, <2>3, <2>4, <1>4 DEF HeldInTurn
<1>13. MessageOnce'
  BY <1>3, <1>6 DEF MessageOnce
<1>14. sawDelta' \subseteq Items
  BY <1>2, <1>3, <1>4
<1> QED BY <1>6, <1>8, <1>9, <1>10, <1>11, <1>12, <1>13, <1>14 DEF HeldInv

LEMMA HeldAppend ==
    ASSUME NEW S, NEW s \in Seq(S), NEW x \in S
    PROVE  Append(s, x) \in Seq(S) /\ Append(s, x) # <<>> /\ ToSet(Append(s, x)) = ToSet(s) \cup {x}
<1>1. \A p \in DOMAIN Append(s, x) : Append(s, x)[p] = IF p \in DOMAIN s THEN s[p] ELSE x
  OBVIOUS
<1>2. DOMAIN Append(s, x) = DOMAIN s \cup {Len(s) + 1} /\ Len(s) + 1 \notin DOMAIN s
  OBVIOUS
<1> QED BY <1>1, <1>2 DEF ToSet

(* A text that was not streamed is held back; it is the last of its item.   *)
LEMMA TextKeeps ==
    ASSUME AppTypes, MessageOnce, WireInv, HeldInv, inbound # <<>>, inbound' = Tail(inbound), UNCHANGED <<srv, peer>>,
           Head(inbound).kind = "agentMessage", AgentMessageCompleted(Head(inbound))
    PROVE  HeldInv' /\ MessageOnce' /\ pendingMsgs' \in Seq(Items)
<1> DEFINE i == inbound[1].item
<1>1. /\ \A p \in DOMAIN inbound' : p \in Nat /\ p >= 1 /\ p + 1 \in DOMAIN inbound /\ inbound'[p] = inbound[p + 1]
      /\ \A q \in DOMAIN inbound :
           /\ q \in Nat /\ q >= 1
           /\ q > 1 => q - 1 \in DOMAIN inbound' /\ inbound'[q - 1] = inbound[q]
      /\ 1 \in DOMAIN inbound /\ Head(inbound) = inbound[1]
  BY TailShifts DEF AppTypes
<1>2. UNCHANGED <<sawDelta, item>>
  BY DEF AgentMessageCompleted
<1>3. CASE i \in sawDelta
  <2>1. pendingMsgs' = pendingMsgs
    BY <1>1, <1>3 DEF AgentMessageCompleted
  <2>2. HeldInv'
    BY <2>1, <1>2, HeldTail
  <2> QED BY <2>1, <2>2, <1>2 DEF MessageOnce, AppTypes
<1>4. CASE i \notin sawDelta
  <2>1. inbound[1].kind = "agentMessage" /\ i \in srv.said /\ i \in Items /\ i \notin ToSet(pendingMsgs)
    BY <1>1 DEF WireInv, NotesKnown, HeldInv, TextsNew, AppTypes, Servers
  <2>2. item[i].emits = 0
    BY <1>1, <1>4, <2>1 DEF HeldInv, TextsNew
  <2>3. pendingMsgs' = Append(pendingMsgs, i)
    BY <1>1, <1>4 DEF AgentMessageCompleted
  <2>4. /\ pendingMsgs' \in Seq(Items) /\ pendingMsgs' # <<>>
        /\ ToSet(pendingMsgs') = ToSet(pendingMsgs) \cup {i}
    BY <2>1, <2>3, HeldAppend DEF AppTypes
  <2> HIDE DEF i
  <2>5. ASSUME NEW p \in DOMAIN inbound', inbound'[p].kind \in {"delta", "agentMessage"} PROVE inbound'[p].item # i
    <3>1. p + 1 \in DOMAIN inbound /\ inbound'[p] = inbound[p + 1] /\ p \in Nat /\ p >= 1 /\ 1 \in DOMAIN inbound
      BY <1>1
    <3>2. inbound[p + 1].item = inbound[1].item =>
            /\ inbound[p + 1].kind = "agentMessage" /\ inbound[1].kind = "agentMessage" => p + 1 = 1
            /\ inbound[p + 1].kind = "delta" /\ inbound[1].kind = "agentMessage" => p + 1 < 1
      BY <3>1 DEF WireInv, NotesOnce
    <3> QED BY <2>1, <2>5, <3>1, <3>2 DEF i
  <2>6. DeltasNew'
    <3>1. ASSUME NEW p \in DOMAIN inbound', inbound'[p].kind = "delta"
          PROVE  LET j == inbound'[p].item
                 IN  item[j].emits = 0 /\ j \notin sawDelta /\ j \notin ToSet(pendingMsgs')
      BY <3>1, <2>4, <2>5, <1>1 DEF HeldInv, DeltasNew
    <3> QED BY <3>1, <1>2 DEF DeltasNew
  <2>7. TextsNew'
    <3>1. ASSUME NEW p \in DOMAIN inbound', inbound'[p].kind = "agentMessage"
          PROVE  /\ inbound'[p].item \notin ToSet(pendingMsgs')
                 /\ item[inbound'[p].item].emits # 0 =>
                      inbound'[p].item \in sawDelta /\ \A q \in DOMAIN inbound' : q < p => ~Resets(inbound'[q])
      <4>1. p \in Nat /\ p + 1 \in DOMAIN inbound /\ inbound'[p] = inbound[p + 1]
        BY <1>1
      <4>2. inbound[p + 1].kind = "agentMessage"
        BY <3>1, <4>1
      <4>3. /\ inbound[p + 1].item \notin ToSet(pendingMsgs)
            /\ item[inbound[p + 1].item].emits # 0 =>
                 inbound[p + 1].item \in sawDelta /\ \A q \in DOMAIN inbound : q < p + 1 => ~Resets(inbound[q])
        BY <4>1, <4>2, Zenon DEF HeldInv, TextsNew
      <4>4. \A q \in DOMAIN inbound' : q < p => q + 1 \in DOMAIN inbound /\ q + 1 < p + 1 /\ inbound'[q] = inbound[q + 1]
        BY <1>1, <4>1
      <4> QED BY <4>1, <4>3, <4>4, <3>1, <2>4, <2>5
    <3> QED BY <3>1, <1>2 DEF TextsNew, Resets
  <2>8. StreamedKnown'
    BY <1>1, <1>2 DEF HeldInv, StreamedKnown, Resets
  <2>9. HeldKnown' /\ EmittedKnown'
    BY <2>1, <2>2, <2>4, <1>2 DEF HeldInv, HeldKnown, EmittedKnown
  <2>10. HeldInTurn'
    <3>1. ASSUME NEW p \in DOMAIN inbound', inbound'[p].kind = "turn/started"
          PROVE  \E q \in DOMAIN inbound' : q < p /\ inbound'[q].kind = "turn/completed"
      <4>1. p \in Nat /\ p >= 1 /\ p + 1 \in DOMAIN inbound /\ inbound[p + 1].kind = "turn/started" /\ 1 < p + 1
        BY <1>1, <3>1
      <4>2. PICK q \in DOMAIN inbound : 1 < q /\ q < p + 1 /\ inbound[q].kind = "turn/completed"
        BY <4>1, <2>1, <1>1 DEF WireInv, StartsAfterTexts
      <4>3. q - 1 \in DOMAIN inbound' /\ inbound'[q - 1] = inbound[q] /\ q - 1 < p
        BY <4>1, <4>2, <1>1
      <4> QED BY <4>2, <4>3
    <3>2. ASSUME peer = TRUE, ~InTurn
          PROVE  \E q \in DOMAIN inbound' : inbound'[q].kind = "turn/completed"
      <4>1. PICK q \in DOMAIN inbound : 1 < q /\ inbound[q].kind = "turn/completed"
        BY <3>2, <2>1, <1>1 DEF WireInv, TextsInTurn
      <4> QED BY <4>1, <1>1
    <3>3. InTurn' <=> InTurn
      BY DEF InTurn
    <3> QED BY <3>1, <3>2, <3>3 DEF HeldInTurn
  <2>11. MessageOnce'
    BY <1>2 DEF MessageOnce
  <2> QED BY <2>4, <2>6, <2>7, <2>8, <2>9, <2>10, <2>11 DEF HeldInv
<1> QED BY <1>3, <1>4

(* The read loop handles one message.                                       *)
LEMMA HandledKeeps ==
    ASSUME TextInv, "read" \in loops, inbound # <<>>, inbound' = Tail(inbound), HandleRPCMessage(Head(inbound)),
           UNCHANGED <<srv, peer, boot>>
    PROVE  TextInv'
<1> DEFINE n == Head(inbound)
<1>1. AppTypes /\ ServerInv /\ MessageOnce /\ WireInv /\ HeldInv
  BY DEF TextInv
<1>2. WireInv'
  BY <1>1, WireTail
<1>3. inbound' \in Seq(Notes) /\ n \in Notes
  <2>1. inbound \in Seq(Notes)
    BY <1>1 DEF AppTypes
  <2> QED BY <2>1, TailShifts
<1>4. ServerInv'
  BY <1>1 DEF ServerInv
<1>5. rpc'.id = rpc.id
  <2>1. rpc' = rpc \/ HandleResponse(n)
    BY Zenon DEF HandleRPCMessage
  <2>2. HandleResponse(n) => rpc' = rpc \/ rpc' = [rpc EXCEPT !.box = n.kind]
    BY Zenon DEF HandleResponse
  <2>3. [rpc EXCEPT !.box = n.kind].id = rpc.id
    OBVIOUS
  <2> QED BY <2>1, <2>2, <2>3
<1>6. ASSUME HeldInv', MessageOnce', item' \in [Items -> ItemFates], sawDelta' \subseteq Items, pendingMsgs' \in Seq(Items)
      PROVE  TextInv'
  <2>1. AppTypes'
    BY <1>1, <1>3, <1>5, <1>6 DEF AppTypes
  <2> QED BY <2>1, <1>2, <1>4, <1>6 DEF TextInv
<1>7. /\ item \in [Items -> ItemFates] /\ sawDelta \subseteq Items /\ pendingMsgs \in Seq(Items) /\ <<>> \in Seq(Items)
  BY <1>1 DEF AppTypes
<1>8. CASE n.kind # "turn/completed" /\ UNCHANGED turnVars
  <2>1. UNCHANGED <<pendingMsgs, sawDelta, item>>
    BY <1>8 DEF turnVars
  <2>2. HeldInv'
    BY <2>1, <1>1, <1>8, HeldTail
  <2>3. MessageOnce'
    BY <2>1, <1>1 DEF MessageOnce
  <2> QED BY <2>1, <2>2, <2>3, <1>6, <1>7
<1>9. CASE n.kind = "turn/started" /\ TurnStarted(n)
  <2>1. /\ pendingMsgs' = <<>> /\ sawDelta' = {} /\ Resets(n)
        /\ item' = [i \in Items |-> IF i \in ToSet(pendingMsgs)
                                    THEN [item[i] EXCEPT !.lost = @ \/ rpc.state # "answered"] ELSE item[i]]
    BY <1>9 DEF TurnStarted, ResetTurn, Resets
  <2>2. pendingMsgs = <<>>
    <3>1. 1 \in DOMAIN inbound /\ inbound[1].kind = "turn/started" /\ \A q \in DOMAIN inbound : ~(q < 1)
      <4>1. inbound \in Seq(Notes)
        BY <1>1 DEF AppTypes
      <4> QED BY <4>1, <1>9, TailShifts
    <3> QED BY <3>1, <1>1 DEF HeldInv, HeldInTurn
  <2>3. item' = EmittedItems(pendingMsgs)
    <3>1. ToSet(pendingMsgs) = {}
      BY <2>2, NoneHeld
    <3>2. item' = [i \in Items |-> item[i]]
      BY <2>1, <3>1
    <3>3. EmittedItems(pendingMsgs) = [i \in Items |-> item[i]]
      BY <3>1 DEF EmittedItems
    <3> QED BY <3>2, <3>3
  <2> QED BY <2>1, <2>3, <1>1, <1>6, <1>7, FlushKeeps
<1>10. CASE n.kind = "item/started" /\ ItemStarted
  <2>1. pendingMsgs' = <<>> /\ item' = EmittedItems(pendingMsgs) /\ sawDelta' = sawDelta
    BY <1>10, Zenon DEF ItemStarted, FlushPendingAsThinking
  <2> QED BY <2>1, <1>1, <1>6, <1>7, FlushKeeps
<1>11. CASE n.kind = "turn/completed" /\ TurnCompleted(n)
  <2>1. pendingMsgs' = <<>> /\ item' = EmittedItems(pendingMsgs) /\ sawDelta' = {} /\ Resets(n)
    BY <1>11 DEF TurnCompleted, Resets
  <2> QED BY <2>1, <1>1, <1>6, <1>7, FlushKeeps
<1>12. CASE n.kind = "delta" /\ AgentMessageDelta(n)
  <2>1. pendingMsgs' = pendingMsgs
    BY <1>12, Zenon DEF AgentMessageDelta
  <2> QED BY <2>1, <1>1, <1>6, <1>7, <1>12, DeltaKeeps
<1>13. CASE n.kind = "agentMessage" /\ AgentMessageCompleted(n)
  <2>1. UNCHANGED <<item, sawDelta>>
    BY <1>13, Zenon DEF AgentMessageCompleted
  <2> QED BY <2>1, <1>1, <1>6, <1>7, <1>13, TextKeeps
<1>14. \/ n.kind \in {"ok", "error", "other", "turn/question"} /\ UNCHANGED turnVars
       \/ n.kind = "turn/started" /\ TurnStarted(n)
       \/ n.kind = "item/started" /\ ItemStarted
       \/ n.kind = "turn/completed" /\ TurnCompleted(n)
       \/ n.kind = "delta" /\ AgentMessageDelta(n)
       \/ n.kind = "agentMessage" /\ AgentMessageCompleted(n)
  <2>1. HandleResponse(n) => UNCHANGED turnVars
    BY Zenon DEF HandleResponse
  <2>2. OtherItemCompleted => UNCHANGED turnVars
    BY Zenon DEF OtherItemCompleted
  <2>3. n.kind \in {"ok", "error"} \/ n.kind = "other" \/ n.kind = "turn/question"
        => n.kind \in {"ok", "error", "other", "turn/question"}
    OBVIOUS
  <2> HIDE DEF n
  <2> QED BY <2>1, <2>2, <2>3, Zenon DEF HandleRPCMessage, n
<1> QED BY <1>8, <1>9, <1>10, <1>11, <1>12, <1>13, <1>14

(* The server adds a message.                                               *)
LEMMA SaidKeeps ==
    ASSUME AppTypes, WireInv, HeldInv, NEW n \in Notes, inbound' = Append(inbound, n), peer = TRUE,
           UNCHANGED <<peer, pendingMsgs, sawDelta, item>>,
           \A i \in Items : item[i].emits <= 1,
           srv.streamed \subseteq srv'.streamed, srv.said \subseteq srv'.said,
           n.kind = "delta" => /\ n.item \in Items /\ n.item \notin srv.said /\ n.item \notin srv.streamed
                               /\ n.item \in srv'.streamed,
           n.kind = "agentMessage" => n.item \in Items /\ n.item \notin srv.said /\ n.item \in srv'.said /\ InTurn',
           Resets(n) => srv.streamed \subseteq srv'.said,
           n.kind = "turn/started" => ~InTurn,
           InTurn => InTurn' \/ n.kind = "turn/completed"
    PROVE  WireInv' /\ HeldInv'
<1> DEFINE last == Len(inbound) + 1
<1>1. /\ last \in DOMAIN inbound' /\ inbound'[last] = n
      /\ \A p \in DOMAIN inbound : p \in Nat /\ p \in DOMAIN inbound' /\ p < last /\ inbound'[p] = inbound[p]
      /\ \A p \in DOMAIN inbound' : p \in Nat /\ p <= last /\ (p = last \/ p \in DOMAIN inbound)
      /\ last \in Nat
  <2>1. inbound \in Seq(Notes)
    BY DEF AppTypes
  <2> QED BY <2>1, AppendShifts
<1> HIDE DEF last
<1>2. \A i \in Items : item[i].emits \in Nat
  BY DEF AppTypes, ItemFates
<1>3. NotesKnown'
  BY <1>1 DEF WireInv, NotesKnown
<1>4. NotesOnce'
  <2>1. ASSUME NEW p \in DOMAIN inbound', NEW q \in DOMAIN inbound', inbound'[p].item = inbound'[q].item
        PROVE  /\ inbound'[p].kind = "delta" /\ inbound'[q].kind = "delta" => p = q
               /\ inbound'[p].kind = "agentMessage" /\ inbound'[q].kind = "agentMessage" => p = q
               /\ inbound'[p].kind = "delta" /\ inbound'[q].kind = "agentMessage" =>
                    p < q /\ \A r \in DOMAIN inbound' : p < r /\ r < q => ~Resets(inbound'[r])
    <3>1. CASE p = last /\ q = last
      BY <3>1, <1>1
    <3>2. CASE p = last /\ q # last
      <4>1. q \in DOMAIN inbound /\ inbound'[q] = inbound[q] /\ inbound'[p] = n
        BY <3>2, <1>1
      <4>2. /\ inbound[q].kind = "delta" => inbound[q].item \in srv.streamed
            /\ inbound[q].kind = "agentMessage" => inbound[q].item \in srv.said
        BY <4>1 DEF WireInv, NotesKnown
      <4> QED BY <2>1, <4>1, <4>2
    <3>3. CASE p # last /\ q = last
      <4>1. p \in DOMAIN inbound /\ inbound'[p] = inbound[p] /\ inbound'[q] = n /\ p < q
        BY <3>3, <1>1
      <4>2. /\ inbound[p].kind = "delta" => inbound[p].item \in srv.streamed
            /\ inbound[p].kind = "agentMessage" => inbound[p].item \in srv.said
        BY <4>1 DEF WireInv, NotesKnown
      <4>3. ASSUME inbound[p].kind = "delta", n.kind = "agentMessage", NEW r \in DOMAIN inbound', p < r, r < q
            PROVE  ~Resets(inbound'[r])
        <5>1. r \in DOMAIN inbound /\ inbound'[r] = inbound[r]
          BY <4>3, <3>3, <1>1
        <5>2. inbound[p].item \notin srv.said
          BY <4>1, <4>3, <2>1
        <5> QED BY <4>1, <4>3, <5>1, <5>2 DEF WireInv, OpenDeltas
      <4> QED BY <2>1, <4>1, <4>2, <4>3
    <3>4. CASE p # last /\ q # last
      <4>1. p \in DOMAIN inbound /\ inbound'[p] = inbound[p] /\ q \in DOMAIN inbound /\ inbound'[q] = inbound[q]
        BY <3>4, <1>1
      <4>2. \A r \in DOMAIN inbound' : r < q => r \in DOMAIN inbound /\ inbound'[r] = inbound[r]
        BY <4>1, <1>1
      <4>3. /\ inbound[p].kind = "delta" /\ inbound[q].kind = "delta" => p = q
            /\ inbound[p].kind = "agentMessage" /\ inbound[q].kind = "agentMessage" => p = q
            /\ inbound[p].kind = "delta" /\ inbound[q].kind = "agentMessage" =>
                 p < q /\ \A r \in DOMAIN inbound : p < r /\ r < q => ~Resets(inbound[r])
        BY <2>1, <4>1, Zenon DEF WireInv, NotesOnce
      <4> QED BY <4>1, <4>2, <4>3
    <3> QED BY <3>1, <3>2, <3>3, <3>4
  <2> QED BY <2>1 DEF NotesOnce, Resets
<1>5. OpenDeltas'
  <2>1. ASSUME NEW p \in DOMAIN inbound', NEW r \in DOMAIN inbound', inbound'[p].kind = "delta",
               inbound'[p].item \notin srv'.said, p < r
        PROVE  ~Resets(inbound'[r])
    <3>1. p \in DOMAIN inbound /\ inbound'[p] = inbound[p]
      BY <2>1, <1>1
    <3>2. CASE r = last
      BY <2>1, <3>1, <3>2, <1>1 DEF WireInv, NotesKnown
    <3>3. CASE r \in DOMAIN inbound
      BY <2>1, <3>1, <3>3, <1>1 DEF WireInv, OpenDeltas
    <3> QED BY <3>2, <3>3, <1>1
  <2> QED BY <2>1 DEF OpenDeltas, Resets
<1>6. StartsAfterTexts'
  <2>1. ASSUME NEW p \in DOMAIN inbound', NEW r \in DOMAIN inbound', inbound'[p].kind = "turn/started",
               inbound'[r].kind = "agentMessage", r < p
        PROVE  \E q \in DOMAIN inbound' : r < q /\ q < p /\ inbound'[q].kind = "turn/completed"
    <3>1. r \in DOMAIN inbound /\ inbound'[r] = inbound[r]
      BY <2>1, <1>1
    <3>2. CASE p = last
      <4>1. PICK q \in DOMAIN inbound : r < q /\ inbound[q].kind = "turn/completed"
        BY <2>1, <3>1, <3>2, <1>1 DEF WireInv, TextsInTurn
      <4> QED BY <4>1, <3>2, <1>1
    <3>3. CASE p \in DOMAIN inbound
      <4>1. PICK q \in DOMAIN inbound : r < q /\ q < p /\ inbound[q].kind = "turn/completed"
        BY <2>1, <3>1, <3>3, <1>1 DEF WireInv, StartsAfterTexts
      <4> QED BY <4>1, <1>1
    <3> QED BY <3>2, <3>3, <1>1
  <2> QED BY <2>1 DEF StartsAfterTexts
<1>7. ASSUME InTurn \/ (\E q \in DOMAIN inbound : inbound[q].kind = "turn/completed")
      PROVE  InTurn' \/ (\E q \in DOMAIN inbound' : inbound'[q].kind = "turn/completed")
  BY <1>1, <1>7
<1>8. TextsInTurn'
  <2>1. ASSUME NEW r \in DOMAIN inbound', inbound'[r].kind = "agentMessage"
        PROVE  InTurn' \/ \E q \in DOMAIN inbound' : r < q /\ inbound'[q].kind = "turn/completed"
    <3>1. CASE r = last
      BY <2>1, <3>1, <1>1
    <3>2. CASE r \in DOMAIN inbound
      <4>1. InTurn \/ \E q \in DOMAIN inbound : r < q /\ inbound[q].kind = "turn/completed"
        BY <2>1, <3>2, <1>1 DEF WireInv, TextsInTurn
      <4> QED BY <4>1, <3>2, <1>1
    <3> QED BY <3>1, <3>2, <1>1
  <2> QED BY <2>1 DEF TextsInTurn
<1>9. \A i \in sawDelta : i \in srv.streamed
  BY DEF HeldInv, StreamedKnown
<1>10. DeltasNew'
  <2>1. ASSUME NEW p \in DOMAIN inbound', inbound'[p].kind = "delta"
        PROVE  LET i == inbound'[p].item
               IN  item[i].emits = 0 /\ i \notin sawDelta /\ i \notin ToSet(pendingMsgs)
    <3>1. CASE p \in DOMAIN inbound
      BY <2>1, <3>1, <1>1 DEF HeldInv, DeltasNew
    <3>2. CASE p = last
      <4>1. n.item \in Items /\ n.item \notin srv.said /\ n.item \notin sawDelta /\ inbound'[p] = n
        BY <2>1, <3>2, <1>1, <1>9
      <4>2. item[n.item].emits # 1
        BY <4>1 DEF HeldInv, EmittedKnown
      <4>3. item[n.item].emits = 0
        BY <4>1, <4>2, <1>2
      <4>4. n.item \notin ToSet(pendingMsgs)
        BY <4>1 DEF HeldInv, HeldKnown
      <4> QED BY <4>1, <4>3, <4>4
    <3> QED BY <3>1, <3>2, <1>1
  <2> QED BY <2>1 DEF DeltasNew
<1>11. TextsNew'
  <2>1. ASSUME NEW p \in DOMAIN inbound', inbound'[p].kind = "agentMessage"
        PROVE  /\ inbound'[p].item \notin ToSet(pendingMsgs)
               /\ item[inbound'[p].item].emits # 0 =>
                    inbound'[p].item \in sawDelta /\ \A q \in DOMAIN inbound' : q < p => ~Resets(inbound'[q])
    <3>0. \A q \in DOMAIN inbound' : q < p => q \in DOMAIN inbound /\ inbound'[q] = inbound[q]
      BY <1>1
    <3>1. CASE p \in DOMAIN inbound
      <4>1. inbound[p].kind = "agentMessage" /\ inbound'[p] = inbound[p]
        BY <2>1, <3>1, <1>1
      <4>2. /\ inbound[p].item \notin ToSet(pendingMsgs)
            /\ item[inbound[p].item].emits # 0 =>
                 inbound[p].item \in sawDelta /\ \A q \in DOMAIN inbound : q < p => ~Resets(inbound[q])
        BY <3>1, <4>1, Zenon DEF HeldInv, TextsNew
      <4> QED BY <4>1, <4>2, <3>0
    <3>2. CASE p = last
      <4>1. n.item \in Items /\ n.item \notin srv.said /\ inbound'[p] = n
        BY <2>1, <3>2, <1>1
      <4>2. n.item \notin ToSet(pendingMsgs)
        BY <4>1 DEF HeldInv, HeldKnown
      <4>3. item[n.item].emits # 0 => n.item \in sawDelta
        BY <4>1, <1>2 DEF HeldInv, EmittedKnown
      <4>4. n.item \in sawDelta => \A q \in DOMAIN inbound : ~Resets(inbound[q])
        BY <4>1 DEF HeldInv, StreamedKnown
      <4> QED BY <4>1, <4>2, <4>3, <4>4, <3>0
    <3> QED BY <3>1, <3>2, <1>1
  <2> QED BY <2>1 DEF TextsNew, Resets
<1>12. StreamedKnown'
  <2>1. ASSUME NEW i \in sawDelta
        PROVE  /\ item[i].emits = 1 /\ i \in srv'.streamed
               /\ i \notin srv'.said => \A q \in DOMAIN inbound' : ~Resets(inbound'[q])
    <3>1. /\ item[i].emits = 1 /\ i \in srv.streamed
          /\ i \notin srv.said => \A q \in DOMAIN inbound : ~Resets(inbound[q])
      BY DEF HeldInv, StreamedKnown
    <3>2. ASSUME i \notin srv'.said, NEW q \in DOMAIN inbound' PROVE ~Resets(inbound'[q])
      <4>1. ~Resets(n)
        BY <3>1, <3>2
      <4> QED BY <4>1, <3>1, <3>2, <1>1
    <3> QED BY <3>1, <3>2
  <2> QED BY <2>1 DEF StreamedKnown, Resets
<1>13. HeldKnown' /\ EmittedKnown'
  BY DEF HeldInv, HeldKnown, EmittedKnown
<1>14. HeldInTurn'
  <2>1. ASSUME pendingMsgs # <<>>, NEW p \in DOMAIN inbound', inbound'[p].kind = "turn/started"
        PROVE  \E q \in DOMAIN inbound' : q < p /\ inbound'[q].kind = "turn/completed"
    <3>1. CASE p = last
      <4>1. PICK q \in DOMAIN inbound : inbound[q].kind = "turn/completed"
        BY <2>1, <3>1, <1>1 DEF HeldInv, HeldInTurn
      <4> QED BY <4>1, <3>1, <1>1
    <3>2. CASE p \in DOMAIN inbound
      <4>1. PICK q \in DOMAIN inbound : q < p /\ inbound[q].kind = "turn/completed"
        BY <2>1, <3>2, <1>1 DEF HeldInv, HeldInTurn
      <4> QED BY <4>1, <1>1
    <3> QED BY <3>1, <3>2, <1>1
  <2>2. pendingMsgs # <<>> => InTurn' \/ (\E q \in DOMAIN inbound' : inbound'[q].kind = "turn/completed")
    BY <1>7 DEF HeldInv, HeldInTurn
  <2> QED BY <2>1, <2>2 DEF HeldInTurn
<1> QED BY <1>3, <1>4, <1>5, <1>6, <1>8, <1>10, <1>11, <1>12, <1>13, <1>14 DEF WireInv, HeldInv

(* Every step keeps the invariant.                                         *)
LEMMA TextStep == TextInv /\ [AppNext]_appVars => TextInv'
<1> SUFFICES ASSUME TextInv, [AppNext]_appVars PROVE TextInv'
  OBVIOUS
<1>1. AppTypes /\ ServerInv /\ MessageOnce /\ ("read" \in loops => WireInv /\ HeldInv)
  BY DEF TextInv
<1>2. ASSUME UNCHANGED <<boot, inbound, srv, pendingMsgs, sawDelta, item>>, loops' \subseteq loops, rpc'.id \in Nat,
             peer' = peer \/ peer' = FALSE
      PROVE  TextInv'
  <2>1. AppTypes' /\ ServerInv' /\ MessageOnce'
    BY <1>1, <1>2 DEF AppTypes, ServerInv, MessageOnce
  <2>2. WireInv => WireInv'
    BY <1>2
    DEF WireInv, NotesKnown, NotesOnce, OpenDeltas, StartsAfterTexts, TextsInTurn, InTurn,
        Resets
  <2>3. HeldInv => HeldInv'
    BY <1>2
    DEF HeldInv, DeltasNew, TextsNew, StreamedKnown, HeldKnown, EmittedKnown, HeldInTurn,
        InTurn, Resets
  <2> QED BY <1>1, <1>2, <2>1, <2>2, <2>3 DEF TextInv
<1>3. rpc.id \in Nat /\ inbound \in Seq(Notes) /\ srv \in Servers
  BY <1>1 DEF AppTypes
<1>4. RejectPending => rpc'.id \in Nat
  <2>1. RejectPending => rpc' = rpc \/ rpc' = [rpc EXCEPT !.box = "error"]
    BY Zenon DEF RejectPending
  <2>2. [rpc EXCEPT !.box = "error"].id = rpc.id
    OBVIOUS
  <2> QED BY <2>1, <2>2, <1>3, Zenon
<1>5. ASSUME "read" \notin loops', UNCHANGED <<boot, srv, pendingMsgs, sawDelta, item>>, rpc'.id \in Nat,
             inbound' \in Seq(Notes)
      PROVE  TextInv'
  BY <1>1, <1>5 DEF TextInv, AppTypes, ServerInv, MessageOnce
<1>6. CASE ReadsMessage
  <2>1. inbound # <<>> /\ inbound' = Tail(inbound) /\ "read" \in loops /\ UNCHANGED <<boot, srv, peer>>
    BY <1>6, Zenon DEF ReadsMessage
  <2>2. CASE loops' = loops \ {"read"} /\ UNCHANGED <<turnVars, rpc>>
    <3>1. inbound' \in Seq(Notes)
      BY <2>1, <1>3, TailShifts
    <3> QED BY <2>1, <2>2, <3>1, <1>3, <1>5 DEF turnVars
  <2>3. CASE HandleRPCMessage(Head(inbound))
    BY <2>1, <2>3, HandledKeeps
  <2>4. (loops' = loops \ {"read"} /\ UNCHANGED <<turnVars, rpc>>) \/ HandleRPCMessage(Head(inbound))
    BY <1>6, Zenon DEF ReadsMessage
  <2> QED BY <2>2, <2>3, <2>4
<1>7. CASE ReadLoopEnds
  <2>1. loops' = loops \ {"read"} /\ UNCHANGED <<boot, inbound, turnVars, srv>> /\ RejectPending
    BY <1>7, Zenon DEF ReadLoopEnds
  <2> QED BY <2>1, <1>3, <1>4, <1>5 DEF turnVars
<1>8. CASE WaitLoopEnds
  <2>1. /\ ~peer /\ loops' = loops \ {"wait"} /\ UNCHANGED <<boot, peer, turnVars, srv>> /\ RejectPending
        /\ inbound' = inbound \/ inbound' = <<>>
    BY <1>8, Zenon DEF WaitLoopEnds
  <2>2. CASE inbound' = inbound
    BY <2>1, <2>2, <1>2, <1>4 DEF turnVars
  <2>3. CASE inbound' = <<>>
    <3>0. DOMAIN <<>> = {} /\ <<>> \in Seq(Notes)
      OBVIOUS
    <3>1. DOMAIN inbound' = {} /\ inbound' \in Seq(Notes) /\ peer' # TRUE
      BY <2>1, <2>3, <3>0, Zenon
    <3>2. UNCHANGED <<pendingMsgs, sawDelta, item>>
      BY <2>1 DEF turnVars
    <3>3. AppTypes' /\ ServerInv' /\ MessageOnce'
      BY <2>1, <3>1, <3>2, <1>1, <1>4 DEF AppTypes, ServerInv, MessageOnce
    <3>4. WireInv'
      BY <3>1 DEF WireInv, NotesKnown, NotesOnce, OpenDeltas, StartsAfterTexts, TextsInTurn
    <3>5. HeldInv => HeldInv'
      BY <2>1, <3>1, <3>2
      DEF HeldInv, DeltasNew, TextsNew, StreamedKnown, HeldKnown, EmittedKnown, HeldInTurn
    <3> QED BY <2>1, <3>3, <3>4, <3>5, <1>1 DEF TextInv
  <2> QED BY <2>1, <2>2, <2>3
<1>9. CASE WriteMessage
  <2>1. /\ UNCHANGED <<boot, link, inbound, turnVars>>
        /\ \/ /\ rpc' = [rpc EXCEPT !.state = "waiting"]
              /\ srv' = [srv EXCEPT !.asked = rpc.id, !.starts = boot = "ready"]
           \/ rpc' = [rpc EXCEPT !.state = "failed"] /\ UNCHANGED srv
    BY <1>9, Zenon DEF WriteMessage
  <2>2. UNCHANGED <<peer, loops, pendingMsgs, sawDelta, item>>
    BY <2>1 DEF link, turnVars
  <2>3. CASE rpc' = [rpc EXCEPT !.state = "failed"] /\ UNCHANGED srv
    BY <2>1, <2>2, <2>3, <1>2, <1>3
  <2>4. CASE /\ rpc' = [rpc EXCEPT !.state = "waiting"]
             /\ srv' = [srv EXCEPT !.asked = rpc.id, !.starts = boot = "ready"]
    <3>1. /\ srv' \in Servers /\ srv'.starts = (boot = "ready") /\ srv'.turn = srv.turn /\ srv'.started = srv.started
          /\ srv'.streamed = srv.streamed /\ srv'.said = srv.said /\ srv'.asked = rpc.id
      BY <2>4, <1>3 DEF Servers
    <3>2. rpc'.id = rpc.id
      BY <2>4
    <3>3. ServerInv'
      BY <2>1, <3>1, <1>1 DEF ServerInv
    <3>4. InTurn' <=> InTurn
      BY <3>1 DEF InTurn
    <3>5. AppTypes' /\ MessageOnce'
      BY <2>1, <2>2, <3>1, <3>2, <1>1 DEF AppTypes, MessageOnce
    <3>6. WireInv => WireInv'
      BY <2>1, <2>2, <3>1, <3>4
      DEF WireInv, NotesKnown, NotesOnce, OpenDeltas, StartsAfterTexts, TextsInTurn, Resets
    <3>7. HeldInv => HeldInv'
      BY <2>1, <2>2, <3>1, <3>4
      DEF HeldInv, DeltasNew, TextsNew, StreamedKnown, HeldKnown, EmittedKnown, HeldInTurn,
         Resets
    <3> QED BY <2>2, <3>3, <3>5, <3>6, <3>7, <1>1 DEF TextInv
  <2> QED BY <2>1, <2>3, <2>4
<1>10. CASE Request \/ RequestEnds
  <2>1. UNCHANGED <<boot, link, inbound, turnVars, srv>>
    BY <1>10, Zenon DEF Request, RequestEnds
  <2>2. /\ RequestEnds => \E st \in {"answered", "failed"} : rpc' = [rpc EXCEPT !.state = st]
        /\ Request => rpc' = [state |-> "writing", box |-> "none", id |-> rpc.id + 1]
    BY DEF Request, RequestEnds
  <2>3. CASE Request
    <3>1. [state |-> "writing", box |-> "none", id |-> rpc.id + 1].id \in Nat
      BY <1>3
    <3> QED BY <2>1, <2>2, <2>3, <3>1, <1>2, Zenon DEF link, turnVars
  <2>4. CASE RequestEnds
    <3>1. \A st : [rpc EXCEPT !.state = st].id = rpc.id
      OBVIOUS
    <3>2. rpc'.id = rpc.id
      BY <2>2, <2>4, <3>1, Zenon
    <3> QED BY <2>1, <3>2, <1>2, <1>3 DEF link, turnVars
  <2> QED BY <1>10, <2>3, <2>4
<1>11. CASE NewAppServerSession
  <2>1. boot \notin {"ready", "failed"} /\ rpc' = [rpc EXCEPT !.state = "idle"] /\ UNCHANGED <<link, inbound, turnVars, srv>>
    BY <1>11, Zenon DEF NewAppServerSession
  <2>2. UNCHANGED <<peer, loops, pendingMsgs, sawDelta, item>> /\ rpc'.id = rpc.id /\ boot # "ready"
    BY <2>1 DEF link, turnVars
  <2>3. ServerInv'
    BY <2>1, <2>2, <1>1 DEF ServerInv
  <2>4. AppTypes' /\ MessageOnce'
    BY <2>1, <2>2, <1>1 DEF AppTypes, MessageOnce
  <2>5. WireInv => WireInv'
    BY <2>1, <2>2
    DEF WireInv, NotesKnown, NotesOnce, OpenDeltas, StartsAfterTexts, TextsInTurn, InTurn,
        Resets
  <2>6. HeldInv => HeldInv'
    BY <2>1, <2>2
    DEF HeldInv, DeltasNew, TextsNew, StreamedKnown, HeldKnown, EmittedKnown, HeldInTurn,
        InTurn, Resets
  <2> QED BY <2>2, <2>3, <2>4, <2>5, <2>6, <1>1 DEF TextInv
<1>12. CASE SendReturns
  <2>1. /\ rpc' = [rpc EXCEPT !.state = "idle"] /\ UNCHANGED <<boot, link, inbound, srv>>
        /\ \/ rpc.state = "answered" /\ ResetTurn(rpc.id) /\ UNCHANGED sawDelta
           \/ UNCHANGED turnVars
    BY <1>12, Zenon DEF SendReturns
  <2>2. UNCHANGED <<peer, loops>> /\ rpc'.id = rpc.id
    BY <2>1 DEF link
  <2>3. CASE UNCHANGED turnVars
    BY <2>1, <2>2, <2>3, <1>2, <1>3 DEF turnVars
  <2>4. CASE rpc.state = "answered" /\ ResetTurn(rpc.id) /\ UNCHANGED sawDelta
    <3>1. /\ pendingMsgs' = <<>>
          /\ item' = [i \in Items |-> IF i \in ToSet(pendingMsgs)
                                      THEN [item[i] EXCEPT !.lost = @ \/ rpc.state # "answered"] ELSE item[i]]
      BY <2>4 DEF ResetTurn
    <3>2. item \in [Items -> ItemFates]
      BY <1>1 DEF AppTypes
    <3>3. \A i \in Items : [item[i] EXCEPT !.lost = @ \/ rpc.state # "answered"] = item[i]
      BY <2>4, <3>2 DEF ItemFates
    <3>4. item' = item
      BY <3>1, <3>2, <3>3
    <3>5. ToSet(pendingMsgs') = {} /\ pendingMsgs' \in Seq(Items)
      BY <3>1, NoneHeld
    <3>6. AppTypes' /\ MessageOnce' /\ ServerInv'
      BY <2>1, <2>2, <2>4, <3>4, <3>5, <1>1 DEF AppTypes, MessageOnce, ServerInv
    <3>7. WireInv => WireInv'
      BY <2>1, <2>2
      DEF WireInv, NotesKnown, NotesOnce, OpenDeltas, StartsAfterTexts, TextsInTurn, InTurn,
          Resets
    <3>8. HeldInv => HeldInv'
      BY <2>1, <2>2, <2>4, <3>1, <3>4, <3>5
         DEF HeldInv, DeltasNew, TextsNew, StreamedKnown, HeldKnown, EmittedKnown, HeldInTurn,
             Resets
    <3> QED BY <2>2, <3>6, <3>7, <3>8, <1>1 DEF TextInv
  <2> QED BY <2>1, <2>3, <2>4
<1>13. CASE \/ StderrLoopEnds \/ QuestionWritten \/ QuestionResolved \/ DeferredClose \/ AppConsume \/ ServerStops
            \/ UNCHANGED appVars \/ \E c \in Closers : CloseBegins(c) \/ CloseKills(c) \/ CloseWaits(c)
  <2>1. UNCHANGED <<boot, inbound, srv, turnVars, rpc>> /\ loops' \subseteq loops /\ (peer' = peer \/ peer' = FALSE)
    BY <1>13
    DEF StderrLoopEnds, QuestionWritten, QuestionResolved, DeferredClose, AppConsume,
        ServerStops, appVars,
       CloseBegins, CloseKills, CloseWaits, link, turnVars
  <2> QED BY <2>1, <1>2, <1>3 DEF turnVars
<1>14. ASSUME NEW n \in Notes, Says(n), srv' \in Servers, ServerInv',
              srv.streamed \subseteq srv'.streamed, srv.said \subseteq srv'.said,
              n.kind = "delta" => /\ n.item \in Items /\ n.item \notin srv.said /\ n.item \notin srv.streamed
                                  /\ n.item \in srv'.streamed,
              n.kind = "agentMessage" => n.item \in Items /\ n.item \notin srv.said /\ n.item \in srv'.said /\ InTurn',
              Resets(n) => srv.streamed \subseteq srv'.said,
              n.kind = "turn/started" => ~InTurn,
              InTurn => InTurn' \/ n.kind = "turn/completed"
       PROVE  TextInv'
  <2>1. /\ peer /\ inbound' = Append(inbound, n) /\ UNCHANGED <<peer, loops, rpc, pendingMsgs, sawDelta, item>>
    BY <1>14 DEF Says, link, turnVars
  <2>2. AppTypes' /\ MessageOnce'
    BY <2>1, <1>1, <1>14 DEF AppTypes, MessageOnce
  <2>3. CASE "read" \in loops
    <3>1. \A i \in Items : item[i].emits <= 1
      BY <1>1 DEF MessageOnce
    <3>2. WireInv' /\ HeldInv'
      BY <2>1, <2>3, <3>1, <1>1, <1>14, SaidKeeps
    <3> QED BY <2>2, <3>2, <1>14 DEF TextInv
  <2>4. CASE "read" \notin loops
    BY <2>1, <2>2, <2>4, <1>14 DEF TextInv
  <2> QED BY <2>3, <2>4
<1>15. CASE ServerAnswers
  <2> DEFINE n(k) == Note(k, srv.asked, NoItem)
             after(k) == [srv EXCEPT !.asked = 0, !.started = FALSE,
                                     !.turn = IF srv.starts /\ k = "ok" THEN srv.asked ELSE @]
  <2>1. PICK k \in {"ok", "error"} : Says(n(k)) /\ srv' = after(k)
    BY <1>15, Zenon DEF ServerAnswers
  <2>2. srv.asked > 0 /\ (srv.starts => srv.turn = 0)
    BY <1>15, Zenon DEF ServerAnswers
  <2>3. srv.turn = 0
    BY <2>2, <1>1, <1>3 DEF ServerInv, Servers
  <2>4. n(k) \in Notes /\ n(k).kind = k
    BY <1>3 DEF Notes, Note, NoteKinds, Servers
  <2>5. /\ srv' \in Servers /\ srv'.asked = 0 /\ srv'.started = FALSE /\ srv'.streamed = srv.streamed
        /\ srv'.said = srv.said /\ srv'.starts = srv.starts /\ (srv.starts = FALSE => srv'.turn = srv.turn)
    BY <2>1, <1>3 DEF Servers
  <2>6. boot' = boot
    BY <2>1 DEF Says
  <2>7. srv.streamed \subseteq srv.said
    BY <2>3, <1>1 DEF ServerInv
  <2>8. ServerInv'
    BY <2>3, <2>5, <2>6, <2>7, <1>1 DEF ServerInv
  <2>9. ~InTurn
    BY <2>3 DEF InTurn
  <2> HIDE DEF n, after
  <2>10. n(k).kind # "delta" /\ n(k).kind # "agentMessage" /\ n(k).kind # "turn/started" /\ ~Resets(n(k))
    BY <2>4 DEF Resets
  <2> QED BY <2>1, <2>4, <2>5, <2>8, <2>9, <2>10, <1>14
<1>16. ASSUME ServerRunsTurn PROVE TextInv'
  <2>1. srv.turn > 0 /\ srv.turn \in Nat /\ boot = "ready"
    <3>1. srv.turn > 0
      BY <1>16, Zenon DEF ServerRunsTurn
    <3>2. srv.turn \in Nat
      BY <1>3 DEF Servers
    <3> QED BY <3>1, <3>2, <1>1 DEF ServerInv
  <2>2. \A k \in NoteKinds, i \in Items \cup {NoItem} :
          /\ Note(k, srv.turn, i) \in Notes /\ Note(k, srv.turn, i).kind = k /\ Note(k, srv.turn, i).item = i
    BY <2>1 DEF Notes, Note
  <2>3. \A k, i : Says(Note(k, srv.turn, i)) => boot' = boot
    BY DEF Says
  <2>4. ASSUME ~srv.started, Says(Note("turn/started", srv.turn, NoItem)), srv' = [srv EXCEPT !.started = TRUE]
        PROVE  TextInv'
    <3>1. /\ srv' \in Servers /\ srv'.asked = srv.asked /\ srv'.starts = srv.starts /\ srv'.turn = srv.turn
          /\ srv'.streamed = srv.streamed /\ srv'.said = srv.said /\ srv'.started = TRUE
      BY <2>4, <1>3 DEF Servers
    <3>2. srv.started = FALSE /\ srv.streamed \subseteq srv.said
      BY <2>4, <1>1, <1>3 DEF ServerInv, Servers
    <3>3. ServerInv'
      BY <2>1, <2>3, <2>4, <3>1, <1>1 DEF ServerInv
    <3>4. ~InTurn
      BY <3>2 DEF InTurn
    <3>5. "turn/started" \in NoteKinds
      BY DEF NoteKinds
    <3> DEFINE n == Note("turn/started", srv.turn, NoItem)
    <3>6. n \in Notes /\ n.kind = "turn/started" /\ Says(n)
      BY <2>2, <2>4, <3>5
    <3> HIDE DEF n
    <3> QED BY <3>1, <3>2, <3>3, <3>4, <3>6, <1>14
  <2>5. ASSUME NEW i \in Items \ srv.said, srv.started, Says(Note("delta", srv.turn, i)), i \notin srv.streamed,
               srv' = [srv EXCEPT !.streamed = @ \cup {i}]
        PROVE  TextInv'
    <3>1. /\ srv' \in Servers /\ srv'.asked = srv.asked /\ srv'.starts = srv.starts /\ srv'.turn = srv.turn
          /\ srv'.streamed = srv.streamed \cup {i} /\ srv'.said = srv.said /\ srv'.started = srv.started
      BY <2>5, <1>3 DEF Servers
    <3>2. srv.started = TRUE
      BY <2>5, <1>3 DEF Servers
    <3>3. ServerInv'
      BY <2>1, <2>3, <2>5, <3>1, <3>2, <1>1 DEF ServerInv
    <3>4. InTurn'
      BY <2>1, <3>1, <3>2 DEF InTurn
    <3>5. "delta" \in NoteKinds
      BY DEF NoteKinds
    <3> DEFINE n == Note("delta", srv.turn, i)
    <3>6. n \in Notes /\ n.kind = "delta" /\ n.item = i /\ Says(n)
      BY <2>2, <2>5, <3>5
    <3> HIDE DEF n
    <3>7. ~Resets(n)
      BY <3>6 DEF Resets
    <3> QED BY <2>5, <3>1, <3>3, <3>4, <3>6, <3>7, <1>14
  <2>6. ASSUME NEW i \in Items \ srv.said, srv.started, Says(Note("agentMessage", srv.turn, i)),
               srv' = [srv EXCEPT !.said = @ \cup {i}]
        PROVE  TextInv'
    <3>1. /\ srv' \in Servers /\ srv'.asked = srv.asked /\ srv'.starts = srv.starts /\ srv'.turn = srv.turn
          /\ srv'.streamed = srv.streamed /\ srv'.said = srv.said \cup {i} /\ srv'.started = srv.started
      BY <2>6, <1>3 DEF Servers
    <3>2. srv.started = TRUE
      BY <2>6, <1>3 DEF Servers
    <3>3. ServerInv'
      BY <2>1, <2>3, <2>6, <3>1, <3>2, <1>1 DEF ServerInv
    <3>4. InTurn'
      BY <2>1, <3>1, <3>2 DEF InTurn
    <3>5. "agentMessage" \in NoteKinds
      BY DEF NoteKinds
    <3> DEFINE n == Note("agentMessage", srv.turn, i)
    <3>6. n \in Notes /\ n.kind = "agentMessage" /\ n.item = i /\ Says(n)
      BY <2>2, <2>6, <3>5
    <3> HIDE DEF n
    <3>7. ~Resets(n)
      BY <3>6 DEF Resets
    <3> QED BY <2>6, <3>1, <3>3, <3>4, <3>6, <3>7, <1>14
  <2>7. ASSUME NEW k \in {"item/started", "other", "turn/question"}, srv.started,
               Says(Note(k, srv.turn, NoItem)), srv' = [srv EXCEPT !.notes = @ + 1]
        PROVE  TextInv'
    <3>0. srv.notes + 1 \in Nat
      BY <1>3 DEF Servers
    <3>1. /\ srv' \in Servers /\ srv'.asked = srv.asked /\ srv'.starts = srv.starts /\ srv'.turn = srv.turn
          /\ srv'.streamed = srv.streamed /\ srv'.said = srv.said /\ srv'.started = srv.started
      BY <2>7, <3>0, <1>3 DEF Servers
    <3>2. ServerInv' /\ (InTurn' <=> InTurn)
      BY <2>1, <2>3, <2>7, <3>1, <1>1 DEF ServerInv, InTurn
    <3>3. k \in NoteKinds
      BY DEF NoteKinds
    <3> DEFINE n == Note(k, srv.turn, NoItem)
    <3>4. n \in Notes /\ n.kind = k /\ Says(n)
      BY <2>2, <2>7, <3>3
    <3> HIDE DEF n
    <3>5. ~Resets(n) /\ n.kind # "delta" /\ n.kind # "agentMessage" /\ n.kind # "turn/started"
      BY <3>4 DEF Resets
    <3> QED BY <3>1, <3>2, <3>4, <3>5, <1>14
  <2>8. ASSUME srv.started, Says(Note("turn/completed", srv.turn, NoItem)),
               srv' = [srv EXCEPT !.turn = 0, !.said = @ \cup srv.streamed]
        PROVE  TextInv'
    <3>1. /\ srv' \in Servers /\ srv'.asked = srv.asked /\ srv'.starts = srv.starts /\ srv'.turn = 0
          /\ srv'.streamed = srv.streamed /\ srv'.said = srv.said \cup srv.streamed /\ srv'.started = srv.started
      BY <2>8, <1>3 DEF Servers
    <3>2. ServerInv'
      BY <2>1, <2>3, <2>8, <3>1, <1>1 DEF ServerInv
    <3>3. "turn/completed" \in NoteKinds
      BY DEF NoteKinds
    <3> DEFINE n == Note("turn/completed", srv.turn, NoItem)
    <3>4. n \in Notes /\ n.kind = "turn/completed" /\ Says(n)
      BY <2>2, <2>8, <3>3
    <3> HIDE DEF n
    <3> QED BY <3>1, <3>2, <3>4, <1>14
  <2> QED BY <1>16, <2>4, <2>5, <2>6, <2>7, <2>8, Zenon DEF ServerRunsTurn
<1> QED BY <1>6, <1>7, <1>8, <1>9, <1>10, <1>11, <1>12, <1>13, <1>15, <1>16, Zenon DEF AppNext

(* The text of an agent message reaches the consumer at most once, and what *)
(* is held back is never dropped by what the server says (handleRPCMessage  *)
(* and its handlers), for any number of messages on their way, closes,      *)
(* timeouts and lost connections.                                           *)
THEOREM CodexMessageOnce == AppSpec => []MessageOnce
<1>1. AppInit => TextInv
  <2> SUFFICES ASSUME AppInit PROVE TextInv
    OBVIOUS
  <2>1. /\ boot = "initialize" /\ inbound = <<>> /\ rpc = [state |-> "idle", box |-> "none", id |-> 0]
        /\ pendingMsgs = <<>> /\ sawDelta = {} /\ item = [i \in Items |-> [emits |-> 0, lost |-> FALSE]]
        /\ srv = [asked |-> 0, starts |-> FALSE, turn |-> 0, started |-> FALSE, streamed |-> {}, said |-> {},
                  notes |-> 0]
    BY Zenon DEF AppInit
  <2>2. AppTypes
    BY <2>1 DEF AppTypes, Servers, ItemFates
  <2>3. ServerInv /\ MessageOnce
    BY <2>1 DEF ServerInv, MessageOnce
  <2>4. DOMAIN inbound = {} /\ ToSet(pendingMsgs) = {}
    BY <2>1, NoneHeld
  <2>5. WireInv
    BY <2>4 DEF WireInv, NotesKnown, NotesOnce, OpenDeltas, StartsAfterTexts, TextsInTurn
  <2>6. HeldInv
    BY <2>1, <2>4
    DEF HeldInv, DeltasNew, TextsNew, StreamedKnown, HeldKnown, EmittedKnown, HeldInTurn
  <2> QED BY <2>2, <2>3, <2>5, <2>6 DEF TextInv
<1>2. TextInv => MessageOnce
  BY DEF TextInv
<1> QED BY <1>1, <1>2, TextStep, PTL DEF AppSpec

-----------------------------------------------------------------------------
(* The configuration file.  First the lists it is made of.                 *)

(* The first of several entries.                                           *)
LEMMA FirstOf ==
    ASSUME NEW I \in SUBSET Nat
    PROVE  First(I) \subseteq I /\ (I # {} => First(I) # {})
BY LeastOf DEF First

(* A list without one of its entries.                                      *)
LEMMA WithoutOne ==
    ASSUME NEW S, NEW s \in Seq(S), NEW i \in DOMAIN s
    PROVE  /\ Without(s, i) \in Seq(S)
           /\ DOMAIN Without(s, i) = 1..(Len(s) - 1)
           /\ \A k \in 1..(Len(s) - 1) :
                 Without(s, i)[k] = IF k < i THEN s[k] ELSE s[k + 1]
<1> DEFINE a == SubSeq(s, 1, i - 1)
           b == SubSeq(s, i + 1, Len(s))
<1>1. i \in 1..Len(s) /\ Len(s) \in Nat
  OBVIOUS
<1>2. a \in Seq(S) /\ Len(a) = i - 1 /\ \A k \in 1..(i - 1) : a[k] = s[k]
  BY <1>1
<1>3. b \in Seq(S) /\ Len(b) = Len(s) - i /\ \A k \in 1..(Len(s) - i) : b[k] = s[i + k]
  BY <1>1
<1>4. Without(s, i) = a \o b
  BY DEF Without, RemoveAt
<1> HIDE DEF a, b
<1>5. a \o b \in Seq(S) /\ Len(a \o b) = Len(s) - 1
  BY <1>1, <1>2, <1>3
<1>6. \A k \in 1..(Len(s) - 1) : (a \o b)[k] = IF k < i THEN s[k] ELSE s[k + 1]
  <2> TAKE k \in 1..(Len(s) - 1)
  <2>1. CASE k < i
    <3>1. k \in 1..Len(a) /\ k \in 1..(i - 1)
      BY <1>1, <1>2, <2>1
    <3> QED
      BY <1>2, <1>3, <2>1, <3>1
  <2>2. CASE ~(k < i)
    <3>1. k - Len(a) \in 1..Len(b) /\ k - Len(a) \in 1..(Len(s) - i) /\ i + (k - Len(a)) = k + 1
      BY <1>1, <1>2, <1>3, <2>2
    <3>2. \A l \in 1..Len(b) : (a \o b)[Len(a) + l] = b[l]
      BY SMTT(40), <1>2, <1>3
    <3>3. k = Len(a) + (k - Len(a))
      BY <1>1, <1>2
    <3>4. (a \o b)[k] = b[k - Len(a)]
      BY <3>1, <3>2, <3>3
    <3> QED
      BY <1>3, <2>2, <3>1, <3>4
  <2> QED
    BY <2>1, <2>2
<1> QED
  BY <1>4, <1>5, <1>6

(* A list whose entries have distinct names keeps that when one is         *)
(* removed.                                                                *)
LEMMA WithoutDistinct ==
    ASSUME NEW S, NEW s \in Seq(S), NEW i \in DOMAIN s, Distinct(s)
    PROVE  Distinct(Without(s, i))
<1> DEFINE at(k) == IF k < i THEN k ELSE k + 1
<1>1. \A k \in 1..(Len(s) - 1) : at(k) \in DOMAIN s /\ Without(s, i)[k] = s[at(k)]
  <2>1. i \in 1..Len(s) /\ DOMAIN s = 1..Len(s) /\ Len(s) \in Nat
    OBVIOUS
  <2> QED
    BY <2>1, WithoutOne
<1>2. \A j, k \in 1..(Len(s) - 1) : at(j) = at(k) => j = k
  OBVIOUS
<1>3. DOMAIN Without(s, i) = 1..(Len(s) - 1)
  BY WithoutOne
<1> HIDE DEF at
<1> QED
  BY <1>1, <1>2, <1>3 DEF Distinct

(* References without one.                                                 *)
LEMMA StripTyped ==
    ASSUME NEW S, NEW s \in Seq(S), NEW x
    PROVE  Strip(s, x) \in Seq(S)
<1> DEFINE I == {i \in 1..Len(s) : s[i] = x}
           m == Min(I)
<1>1. CASE x \notin ToSet(s)
  BY <1>1 DEF Strip
<1>2. CASE x \in ToSet(s)
  <2>1. I \in SUBSET Nat /\ I # {}
    BY <1>2 DEF ToSet
  <2>2. m \in I
    BY <2>1, LeastOf DEF Min
  <2>3. Strip(s, x) = Without(s, m)
    BY <1>2, <2>1 DEF Strip, RemoveFirst, SelectInSeq, Without
  <2> HIDE DEF m
  <2>4. m \in DOMAIN s
    BY <2>2
  <2> QED
    BY <2>3, <2>4, WithoutOne
<1> QED
  BY <1>1, <1>2

-----------------------------------------------------------------------------
(* What every content the file ever has is: typed, and without two entries *)
(* of a name; and, while all was checked that the edits were given, one    *)
(* that Load accepts.                                                      *)
ProjectSound(how, q) ==
    /\ q \in Project /\ q.platforms # <<>> /\ Distinct(q.agent.providers)
    /\ (how = "checked" => ProjectLoads(q))

(* The content of the file as every edit leaves it.                        *)
ContentSound(how, f) ==
    /\ f \in Content
    /\ Distinct(f.projects) /\ Distinct(f.providers)
    /\ IsInjective(f.commands) /\ IsInjective(f.aliases)
    /\ \A i \in DOMAIN f.projects : ProjectSound(how, f.projects[i])
    /\ (how = "checked" => f.projects # <<>> /\ f.settings["attachment_send"] = 0)

(* The fields of a content, and what is left of them when its projects or  *)
(* its shared providers are replaced.                                      *)
LEMMA ContentFields ==
    ASSUME NEW f \in Content
    PROVE  /\ f.projects \in Seq(Project) /\ f.providers \in Seq(Global)
           /\ f.commands \in Seq(Words) /\ f.aliases \in Seq(Words)
           /\ f.settings \in [SettingKeys -> 0..1] /\ f.services \in SUBSET Services
           /\ \A ps \in Seq(Project) : [f EXCEPT !.projects = ps] \in Content
           /\ \A gs \in Seq(Global) : [f EXCEPT !.providers = gs] \in Content
           /\ \A ps \in Seq(Project) : /\ [f EXCEPT !.projects = ps].projects = ps
                                       /\ [f EXCEPT !.projects = ps].providers = f.providers
                                       /\ [f EXCEPT !.projects = ps].commands = f.commands
                                       /\ [f EXCEPT !.projects = ps].aliases = f.aliases
                                       /\ [f EXCEPT !.projects = ps].settings = f.settings
           /\ \A gs \in Seq(Global) : /\ [f EXCEPT !.providers = gs].projects = f.projects
                                      /\ [f EXCEPT !.providers = gs].providers = gs
                                      /\ [f EXCEPT !.providers = gs].commands = f.commands
                                      /\ [f EXCEPT !.providers = gs].aliases = f.aliases
                                      /\ [f EXCEPT !.providers = gs].settings = f.settings
BY DEF Content

(* The three ways the list of projects changes.                            *)
LEMMA ProjectChanged ==
    ASSUME NEW how, NEW f, ContentSound(how, f), NEW i \in DOMAIN f.projects, NEW q, ProjectSound(how, q),
           q.name = f.projects[i].name
    PROVE  ContentSound(how, [f EXCEPT !.projects[i] = q])
<1> DEFINE ps == [f.projects EXCEPT ![i] = q]
<1>1. f \in Content /\ f.projects \in Seq(Project) /\ q \in Project
  BY ContentFields DEF ContentSound, ProjectSound
<1>2. ps \in Seq(Project) /\ DOMAIN ps = DOMAIN f.projects
  BY <1>1
<1>3. \A k \in DOMAIN f.projects : ps[k] = IF k = i THEN q ELSE f.projects[k]
  BY <1>1
<1>4. [f EXCEPT !.projects[i] = q] = [f EXCEPT !.projects = ps]
  BY <1>1
<1> HIDE DEF ps
<1>5. Distinct(ps) /\ \A k \in DOMAIN ps : ProjectSound(how, ps[k])
  BY <1>2, <1>3 DEF Distinct, ContentSound
<1>6. ps # <<>>
  BY <1>2
<1> QED
  <2> DEFINE g == [f EXCEPT !.projects = ps]
  <2>1. /\ g \in Content /\ g.projects = ps /\ g.providers = f.providers
        /\ g.commands = f.commands /\ g.aliases = f.aliases /\ g.settings = f.settings
    BY <1>1, <1>2, ContentFields
  <2> HIDE DEF g
  <2>2. ContentSound(how, g)
    BY <1>5, <1>6, <2>1 DEF ContentSound
  <2> QED
    BY <1>4, <2>2 DEF g

(* A project of a name that is not taken is appended.                      *)
LEMMA ProjectAppended ==
    ASSUME NEW how, NEW f, ContentSound(how, f), NEW q, ProjectSound(how, q),
           ProjectIndex(f, q.name) = {}
    PROVE  ContentSound(how, [f EXCEPT !.projects = Append(@, q)])
<1> DEFINE ps == Append(f.projects, q)
<1>1. f \in Content /\ f.projects \in Seq(Project) /\ q \in Project
  BY ContentFields DEF ContentSound, ProjectSound
<1>2. \A i \in DOMAIN f.projects : f.projects[i].name # q.name
  <2>1. Named(f.projects, q.name) \in SUBSET Nat
    BY <1>1 DEF Named
  <2> QED
    BY <2>1, FirstOf DEF ProjectIndex, Named
<1>3. /\ ps \in Seq(Project) /\ DOMAIN ps = DOMAIN f.projects \cup {Len(f.projects) + 1}
      /\ Len(f.projects) + 1 \notin DOMAIN f.projects
      /\ ps[Len(f.projects) + 1] = q
      /\ \A k \in DOMAIN f.projects : ps[k] = f.projects[k]
  BY <1>1
<1>4. [f EXCEPT !.projects = Append(@, q)] = [f EXCEPT !.projects = ps]
  BY <1>1
<1> HIDE DEF ps
<1>5. Distinct(ps)
  BY <1>2, <1>3 DEF Distinct, ContentSound
<1>6. ps # <<>> /\ \A k \in DOMAIN ps : ProjectSound(how, ps[k])
  <2>1. ps # <<>>
    <3>1. Len(f.projects) + 1 \in DOMAIN ps
      BY <1>3
    <3> QED
      BY <3>1
  <2> QED
    BY <1>3, <2>1 DEF ContentSound
<1> QED
  <2> DEFINE g == [f EXCEPT !.projects = ps]
  <2>1. /\ g \in Content /\ g.projects = ps /\ g.providers = f.providers
        /\ g.commands = f.commands /\ g.aliases = f.aliases /\ g.settings = f.settings
    BY <1>1, <1>3, ContentFields
  <2> HIDE DEF g
  <2>2. ContentSound(how, g)
    BY <1>5, <1>6, <2>1 DEF ContentSound
  <2> QED
    BY <1>4, <2>2 DEF g

(* A project is removed.                                                   *)
LEMMA ProjectRemoved ==
    ASSUME NEW how, NEW f, ContentSound(how, f), NEW i \in DOMAIN f.projects,
           how = "checked" => Len(f.projects) > 1
    PROVE  ContentSound(how, [f EXCEPT !.projects = Without(@, i)])
<1> DEFINE ps == Without(f.projects, i)
<1>1. f \in Content /\ f.projects \in Seq(Project) /\ Distinct(f.projects)
  BY ContentFields DEF ContentSound
<1>2. ps \in Seq(Project) /\ Distinct(ps)
  BY <1>1, WithoutOne, WithoutDistinct
<1>3. \A k \in DOMAIN ps : ProjectSound(how, ps[k])
  <2> TAKE k \in DOMAIN ps
  <2>1. \E j \in DOMAIN f.projects : ps[k] = f.projects[j]
    <3>1. k \in 1..(Len(f.projects) - 1) /\ ps[k] = IF k < i THEN f.projects[k] ELSE f.projects[k + 1]
      BY <1>1, WithoutOne
    <3> QED
      BY <1>1, <3>1
  <2> QED
    BY <2>1 DEF ContentSound
<1>4. [f EXCEPT !.projects = Without(@, i)] = [f EXCEPT !.projects = ps]
  BY <1>1
<1>5. how = "checked" => ps # <<>>
  <2>1. DOMAIN ps = 1..(Len(f.projects) - 1)
    BY <1>1, WithoutOne
  <2> HIDE DEF ps
  <2>2. ASSUME Len(f.projects) > 1 PROVE 1 \in DOMAIN ps
    BY <1>1, <2>1, <2>2
  <2> QED
    BY <1>2, <2>2
<1> HIDE DEF ps
<1> QED
  <2> DEFINE g == [f EXCEPT !.projects = ps]
  <2>1. /\ g \in Content /\ g.projects = ps /\ g.providers = f.providers
        /\ g.commands = f.commands /\ g.aliases = f.aliases /\ g.settings = f.settings
    BY <1>1, <1>2, ContentFields
  <2> HIDE DEF g
  <2>2. ContentSound(how, g)
    BY <1>2, <1>3, <1>5, <2>1 DEF ContentSound
  <2> QED
    BY <1>4, <2>2 DEF g

(* The shared providers change.                                            *)
LEMMA ProvidersChanged ==
    ASSUME NEW how, NEW f, ContentSound(how, f), NEW gs \in Seq(Global), Distinct(gs)
    PROVE  ContentSound(how, [f EXCEPT !.providers = gs])
<1>1. f \in Content
  BY DEF ContentSound
<1> QED
  BY <1>1, ContentFields DEF ContentSound

(* The projects an edit looks up, and what they hold.                      *)
LEMMA ProjectFound ==
    ASSUME NEW f, NEW p, NEW i \in ProjectIndex(f, p)
    PROVE  i \in DOMAIN f.projects /\ f.projects[i].name = p
BY DEF ProjectIndex, Named, First

(* What a project of a sound content is made of.                           *)
LEMMA ProjectAt ==
    ASSUME NEW how, NEW f, ContentSound(how, f), NEW i \in DOMAIN f.projects
    PROVE  /\ ProjectSound(how, f.projects[i]) /\ f.projects[i] \in Project
           /\ f.projects[i].agent \in Agent /\ Distinct(f.projects[i].agent.providers)
           /\ f.projects[i].agent.providers \in Seq(Inline)
           /\ f.projects[i].agent.refs \in Seq(ProviderNames)
           /\ f.projects[i].platforms \in Seq(Platform) /\ f.projects[i].platforms # <<>>
           /\ (how = "checked" => ProjectLoads(f.projects[i]))
<1>1. ProjectSound(how, f.projects[i])
  BY DEF ContentSound
<1> QED
  BY <1>1 DEF ProjectSound, Project, Agent

(* The agent of a project is replaced.                                     *)
LEMMA AgentReplaced ==
    ASSUME NEW how, NEW f, ContentSound(how, f), NEW i \in DOMAIN f.projects,
           NEW a \in Agent, Distinct(a.providers),
           how = "checked" => AgentLoads(f.projects[i].multi, a)
    PROVE  ContentSound(how, [f EXCEPT !.projects[i].agent = a])
<1> DEFINE q == [f.projects[i] EXCEPT !.agent = a]
<1>1. q.name = f.projects[i].name /\ ProjectSound(how, q)
  <2>1. PICK b \in Project : b = f.projects[i] /\ b.platforms # <<>>
                            /\ (how = "checked" => ProjectLoads(b))
    BY ProjectAt
  <2>2. /\ q \in Project /\ q.name = b.name /\ q.agent = a
        /\ q.multi = b.multi /\ q.platforms = b.platforms
    BY <2>1 DEF Project
  <2> HIDE DEF q
  <2> QED
    BY <2>1, <2>2 DEF ProjectSound, ProjectLoads
<1>2. [f EXCEPT !.projects[i].agent = a] = [f EXCEPT !.projects[i] = q]
  OBVIOUS
<1> HIDE DEF q
<1> QED
  BY <1>1, <1>2, ProjectChanged

(* The agent of a project changes, in neither type nor work_dir.           *)
LEMMA AgentChanged ==
    ASSUME NEW how, NEW f, ContentSound(how, f), NEW i \in DOMAIN f.projects,
           NEW a \in Agent, Distinct(a.providers),
           a.type = f.projects[i].agent.type, a.work_dir = f.projects[i].agent.work_dir
    PROVE  ContentSound(how, [f EXCEPT !.projects[i].agent = a])
<1>1. how = "checked" => AgentLoads(f.projects[i].multi, a)
  BY ProjectAt DEF ProjectLoads, AgentLoads
<1> QED
  BY <1>1, AgentReplaced

(* The platforms of a project are replaced by others, at least one.        *)
LEMMA PlatformsChanged ==
    ASSUME NEW how, NEW f, ContentSound(how, f), NEW i \in DOMAIN f.projects,
           NEW ps \in Seq(Platform), ps # <<>>, how = "checked" => PlatformsLoad(ps)
    PROVE  ContentSound(how, [f EXCEPT !.projects[i].platforms = ps])
<1> DEFINE q == [f.projects[i] EXCEPT !.platforms = ps]
<1>0. PICK b \in Project : /\ b = f.projects[i] /\ Distinct(b.agent.providers)
                           /\ (how = "checked" => ProjectLoads(b))
  BY ProjectAt
<1>1. q.name = f.projects[i].name /\ ProjectSound(how, q)
  <2>1. /\ q \in Project /\ q.name = b.name /\ q.platforms = ps
        /\ q.agent = b.agent /\ q.multi = b.multi
    BY <1>0 DEF Project
  <2> HIDE DEF q
  <2> QED
    BY <1>0, <2>1 DEF ProjectSound, ProjectLoads
<1>2. [f EXCEPT !.projects[i].platforms = ps] = [f EXCEPT !.projects[i] = q]
  OBVIOUS
<1> HIDE DEF q
<1> QED
  BY <1>1, <1>2, ProjectChanged

(* One field of an agent's entry changes.                                  *)
LEMMA InlineChanged ==
    ASSUME NEW how, NEW f, ContentSound(how, f), NEW i \in DOMAIN f.projects,
           NEW t \in Seq(Inline), Distinct(t)
    PROVE  LET h == [f EXCEPT !.projects[i].agent.providers = t] IN
           ContentSound(how, h) /\ i \in DOMAIN h.projects
<1>b. PICK b \in Agent : b = f.projects[i].agent
  BY ProjectAt
<1> DEFINE a == [b EXCEPT !.providers = t]
           h == [f EXCEPT !.projects[i].agent.providers = t]
<1>1. h = [f EXCEPT !.projects[i].agent = a]
  BY <1>b
<1>2. a \in Agent /\ a.providers = t /\ a.type = b.type /\ a.work_dir = b.work_dir
  BY DEF Agent
<1> HIDE DEF a
<1>3. ContentSound(how, h)
  BY <1>1, <1>2, <1>b, AgentChanged
<1>4. f \in Content /\ h = [f EXCEPT !.projects = [f.projects EXCEPT ![i] = [f.projects[i] EXCEPT !.agent = a]]]
  BY <1>1 DEF ContentSound
<1>5. h.projects = [f.projects EXCEPT ![i] = [f.projects[i] EXCEPT !.agent = a]]
  BY <1>4 DEF Content
<1> QED
  BY <1>3, <1>5

(* The references of a project's agent are replaced.                       *)
LEMMA RefsChanged ==
    ASSUME NEW how, NEW f, ContentSound(how, f), NEW i \in DOMAIN f.projects, NEW rs \in Seq(ProviderNames)
    PROVE  ContentSound(how, [f EXCEPT !.projects[i].agent.refs = rs])
<1>b. PICK b \in Agent : b = f.projects[i].agent /\ Distinct(b.providers)
  BY ProjectAt
<1> DEFINE a == [b EXCEPT !.refs = rs]
<1>2. a \in Agent /\ a.providers = b.providers /\ a.type = b.type /\ a.work_dir = b.work_dir
  BY DEF Agent
<1>3. [f EXCEPT !.projects[i].agent.refs = rs] = [f EXCEPT !.projects[i].agent = a]
  BY <1>b
<1> HIDE DEF a
<1> QED
  BY <1>2, <1>3, <1>b, AgentChanged

(* SaveActiveProvider and SaveAgentModel leave a sound content.            *)
LEMMA SaveAgentOptionKeeps ==
    ASSUME NEW how, NEW f, ContentSound(how, f), NEW p, NEW n \in ProviderNames,
           NEW g \in SaveActiveProvider(f, p, n) \cup SaveAgentModel(f, p)
    PROVE  ContentSound(how, g)
<1>1. CASE g \in SaveActiveProvider(f, p, n)
  <2>1. PICK i \in DOMAIN f.projects :
              g = RawSpan(f, i, [f.projects[i] EXCEPT !.agent.provider = n])
    BY <1>1, ProjectFound DEF SaveActiveProvider, SaveAgentOption
  <2>b. PICK b \in Agent : b = f.projects[i].agent /\ Distinct(b.providers)
    BY ProjectAt
  <2> DEFINE a == [b EXCEPT !.provider = n]
  <2>2. a \in Agent /\ a.providers = b.providers /\ a.type = b.type /\ a.work_dir = b.work_dir
    BY DEF Agent
  <2>3. g = [f EXCEPT !.projects[i].agent = a]
    BY <2>1, <2>b DEF RawSpan
  <2> HIDE DEF a
  <2> QED
    BY <2>2, <2>3, <2>b, AgentChanged
<1>2. CASE g \in SaveAgentModel(f, p)
  <2>1. PICK i \in DOMAIN f.projects :
              g = RawSpan(f, i, [f.projects[i] EXCEPT !.agent.model = TRUE])
    BY <1>2, ProjectFound DEF SaveAgentModel, SaveAgentOption
  <2>b. PICK b \in Agent : b = f.projects[i].agent /\ Distinct(b.providers)
    BY ProjectAt
  <2> DEFINE a == [b EXCEPT !.model = TRUE]
  <2>2. a \in Agent /\ a.providers = b.providers /\ a.type = b.type /\ a.work_dir = b.work_dir
    BY DEF Agent
  <2>3. g = [f EXCEPT !.projects[i].agent = a]
    BY <2>1, <2>b DEF RawSpan
  <2> HIDE DEF a
  <2> QED
    BY <2>2, <2>3, <2>b, AgentChanged
<1> QED
  BY <1>1, <1>2

(* An entry changes, its name does not.                                    *)
LEMMA EntryChanged ==
    ASSUME NEW S, NEW s \in Seq(S), NEW j \in DOMAIN s, Distinct(s), NEW x \in S, x.name = s[j].name
    PROVE  [s EXCEPT ![j] = x] \in Seq(S) /\ Distinct([s EXCEPT ![j] = x])
<1> DEFINE t == [s EXCEPT ![j] = x]
<1>1. /\ t \in Seq(S) /\ DOMAIN t = DOMAIN s
      /\ \A k \in DOMAIN s : t[k] = IF k = j THEN x ELSE s[k]
  OBVIOUS
<1> HIDE DEF t
<1>2. Distinct(t)
  BY <1>1 DEF Distinct
<1> QED
  BY <1>1, <1>2 DEF t

(* The model of a shared provider is set.                                  *)
LEMMA PatchGlobalKeeps ==
    ASSUME NEW how, NEW f, ContentSound(how, f), NEW n, NEW g \in PatchGlobalProvider(f, n)
    PROVE  ContentSound(how, g)
<1>1. f.providers \in Seq(Global) /\ Distinct(f.providers)
  BY ContentFields DEF ContentSound
<1>2. PICK k \in DOMAIN f.providers : g = [f EXCEPT !.providers[k].model = TRUE]
  BY DEF PatchGlobalProvider, First, Named
<1>b. PICK b \in Global : b = f.providers[k]
  BY <1>1
<1> DEFINE x == [b EXCEPT !.model = TRUE]
           t == [f.providers EXCEPT ![k] = x]
<1>x. x \in Global /\ x.name = b.name
  BY DEF Global
<1>4. g = [f EXCEPT !.providers = t]
  BY <1>2, <1>b
<1> HIDE DEF x
<1>3. t \in Seq(Global) /\ Distinct(t)
  BY <1>1, <1>b, <1>x, EntryChanged
<1> HIDE DEF t
<1> QED
  BY <1>3, <1>4, ProvidersChanged

(* SaveProviderModel leaves a sound content, inline or shared.             *)
LEMMA SaveProviderModelKeeps ==
    ASSUME NEW how, NEW f, ContentSound(how, f), NEW p, NEW n, NEW g \in SaveProviderModel(f, p, n)
    PROVE  ContentSound(how, g)
<1>1. PICK i \in DOMAIN f.projects :
            \/ \E j \in DOMAIN f.projects[i].agent.providers :
                  g = [f EXCEPT !.projects[i].agent.providers[j].model = TRUE]
            \/ g \in PatchGlobalProvider(f, n)
  <2>1. PICK i \in DOMAIN f.projects :
            g \in LET a == f.projects[i].agent
                      hit == First(Named(a.providers, n))
                  IN  IF hit # {}
                      THEN {[f EXCEPT !.projects[i].agent.providers[j].model = TRUE] : j \in hit}
                      ELSE IF n \in ToSet(a.refs) THEN PatchGlobalProvider(f, n) ELSE {}
    BY ProjectFound, Zenon DEF SaveProviderModel
  <2> DEFINE hit == First(Named(f.projects[i].agent.providers, n))
  <2>2. hit \subseteq DOMAIN f.projects[i].agent.providers
    BY DEF First, Named
  <2>3. \/ \E j \in hit : g = [f EXCEPT !.projects[i].agent.providers[j].model = TRUE]
        \/ g \in PatchGlobalProvider(f, n)
    BY <2>1
  <2> HIDE DEF hit
  <2> QED
    BY <2>2, <2>3, Zenon
<1>2. ASSUME NEW j \in DOMAIN f.projects[i].agent.providers,
             g = [f EXCEPT !.projects[i].agent.providers[j].model = TRUE]
      PROVE  ContentSound(how, g)
  <2>c. PICK c \in Inline : c = f.projects[i].agent.providers[j]
    BY ProjectAt
  <2> DEFINE x == [c EXCEPT !.model = TRUE]
             t == [f.projects[i].agent.providers EXCEPT ![j] = x]
  <2>x. x \in Inline /\ x.name = c.name
    BY DEF Inline
  <2>t. [f.projects[i].agent.providers EXCEPT ![j].model = TRUE] = t
    BY <2>c
  <2> HIDE DEF x
  <2>1. t \in Seq(Inline) /\ Distinct(t)
    BY <2>c, <2>x, ProjectAt, EntryChanged
  <2> HIDE DEF t
  <2>b. PICK b \in Agent : b = f.projects[i].agent
    BY ProjectAt
  <2> DEFINE a == [b EXCEPT !.providers = t]
  <2>2. a \in Agent /\ a.providers = t /\ a.type = b.type /\ a.work_dir = b.work_dir
    BY <2>1 DEF Agent
  <2>3. g = [f EXCEPT !.projects[i].agent = a]
    BY <1>2, <2>b, <2>t
  <2> HIDE DEF a
  <2> QED
    BY <2>1, <2>2, <2>3, <2>b, AgentChanged
<1> QED
  BY <1>1, <1>2, PatchGlobalKeeps

(* A new entry of a name that is not taken.                                *)
LEMMA EntryAdded ==
    ASSUME NEW S, NEW s \in Seq(S), Distinct(s), NEW x \in S, ~Taken(s, x.name)
    PROVE  Append(s, x) \in Seq(S) /\ Distinct(Append(s, x))
<1> DEFINE t == Append(s, x)
<1>1. /\ t \in Seq(S) /\ DOMAIN t = DOMAIN s \cup {Len(s) + 1} /\ Len(s) + 1 \notin DOMAIN s
      /\ t[Len(s) + 1] = x /\ \A k \in DOMAIN s : t[k] = s[k]
  OBVIOUS
<1>2. \A k \in DOMAIN s : s[k].name # x.name
  BY DEF Taken, Named
<1> HIDE DEF t
<1>3. Distinct(t)
  BY <1>1, <1>2 DEF Distinct
<1> QED
  BY <1>1, <1>3 DEF t

(* AddProviderToConfig refuses a name that is taken, so that inline        *)
(* providers keep distinct names.                                          *)
LEMMA AddProviderKeeps ==
    ASSUME NEW how, NEW f, ContentSound(how, f), NEW p, NEW n \in ProviderNames,
           NEW g \in AddProviderToConfig(f, p, n)
    PROVE  ContentSound(how, g)
<1> DEFINE x == [name |-> n, model |-> FALSE]
<1>1. PICK i \in DOMAIN f.projects :
            /\ ~Taken(f.projects[i].agent.providers, n)
            /\ g = [f EXCEPT !.projects[i].agent.providers = Append(@, x)]
  BY ProjectFound, Zenon DEF AddProviderToConfig
<1>2. x \in Inline /\ x.name = n
  BY DEF Inline
<1> HIDE DEF x
<1> DEFINE t == Append(f.projects[i].agent.providers, x)
<1>3. t \in Seq(Inline) /\ Distinct(t)
  BY <1>1, <1>2, ProjectAt, EntryAdded
<1>4. g = [f EXCEPT !.projects[i].agent.providers = t]
  BY <1>1
<1> HIDE DEF t
<1> QED
  BY <1>3, <1>4, InlineChanged

(* RemoveProviderFromConfig drops an inline entry, a reference or both.    *)
LEMMA RemoveProviderKeeps ==
    ASSUME NEW how, NEW f, ContentSound(how, f), NEW p, NEW n, NEW g \in RemoveProviderFromConfig(f, p, n)
    PROVE  ContentSound(how, g)
<1>1. PICK i \in DOMAIN f.projects :
            LET inline == First(Named(f.projects[i].agent.providers, n)) IN
            g = [f EXCEPT !.projects[i].agent.providers =
                              IF inline = {} THEN @ ELSE Without(@, CHOOSE j \in inline : TRUE),
                          !.projects[i].agent.refs = Strip(@, n)]
  BY ProjectFound, Zenon DEF RemoveProviderFromConfig
<1>2. f.projects[i].agent.providers \in Seq(Inline) /\ Distinct(f.projects[i].agent.providers)
  BY ProjectAt
<1> DEFINE ps == f.projects[i].agent.providers
           inline == First(Named(ps, n))
           t == IF inline = {} THEN ps ELSE Without(ps, CHOOSE j \in inline : TRUE)
           h == [f EXCEPT !.projects[i].agent.providers = t]
           r == Strip(f.projects[i].agent.refs, n)
<1>3. g = [h EXCEPT !.projects[i].agent.refs = r]
  BY <1>1
<1>4. inline \subseteq DOMAIN ps
  BY DEF First, Named
<1> HIDE DEF inline
<1>5. t \in Seq(Inline) /\ Distinct(t)
  BY <1>2, <1>4, WithoutOne, WithoutDistinct
<1> HIDE DEF ps, t, r
<1>6. ContentSound(how, h) /\ i \in DOMAIN h.projects
  BY <1>5, InlineChanged
<1> HIDE DEF h
<1>8. r \in Seq(ProviderNames)
  BY ProjectAt, StripTyped DEF r
<1> QED
  BY <1>3, <1>6, <1>8, RefsChanged

(* SaveProviderRefs leaves a sound content.                                *)
LEMMA SaveProviderRefsKeeps ==
    ASSUME NEW how, NEW f, ContentSound(how, f), NEW p, NEW rs \in Seq(ProviderNames),
           NEW g \in SaveProviderRefs(f, p, rs)
    PROVE  ContentSound(how, g)
BY ProjectFound, RefsChanged DEF SaveProviderRefs

(* The shared providers.                                                   *)
LEMMA AddGlobalKeeps ==
    ASSUME NEW how, NEW f, ContentSound(how, f), NEW n \in ProviderNames, NEW types \in SUBSET AgentTypes,
           NEW g \in AddGlobalProvider(f, n, types)
    PROVE  ContentSound(how, g)
<1> DEFINE x == [name |-> n, types |-> types, model |-> FALSE]
           t == Append(f.providers, x)
<1>1. ~Taken(f.providers, n) /\ g = [f EXCEPT !.providers = t]
  BY DEF AddGlobalProvider
<1>2. x \in Global /\ x.name = n
  BY DEF Global
<1>3. f.providers \in Seq(Global) /\ Distinct(f.providers)
  BY ContentFields DEF ContentSound
<1> HIDE DEF x
<1>4. t \in Seq(Global) /\ Distinct(t)
  BY <1>1, <1>2, <1>3, EntryAdded
<1> HIDE DEF t
<1> QED
  BY <1>1, <1>4, ProvidersChanged

(* UpdateGlobalProvider keeps the name of the entry it replaces.           *)
LEMMA UpdateGlobalKeeps ==
    ASSUME NEW how, NEW f, ContentSound(how, f), NEW n \in ProviderNames, NEW types \in SUBSET AgentTypes,
           NEW g \in UpdateGlobalProvider(f, n, types)
    PROVE  ContentSound(how, g)
<1> DEFINE x == [name |-> n, types |-> types, model |-> FALSE]
<1>1. PICK k \in DOMAIN f.providers :
            f.providers[k].name = n /\ g = [f EXCEPT !.providers[k] = x]
  BY DEF UpdateGlobalProvider, First, Named
<1> DEFINE t == [f.providers EXCEPT ![k] = x]
<1>2. x \in Global /\ x.name = n
  BY DEF Global
<1>3. f.providers \in Seq(Global) /\ Distinct(f.providers)
  BY ContentFields DEF ContentSound
<1>4. g = [f EXCEPT !.providers = t]
  BY <1>1
<1> HIDE DEF x
<1>5. t \in Seq(Global) /\ Distinct(t)
  BY <1>1, <1>2, <1>3, EntryChanged
<1> HIDE DEF t
<1> QED
  BY <1>4, <1>5, ProvidersChanged

(* Every project is replaced by one of its name.                           *)
LEMMA ProjectsMapped ==
    ASSUME NEW how, NEW f, ContentSound(how, f), NEW ps, DOMAIN ps = DOMAIN f.projects, ps \in Seq(Project),
           \A i \in DOMAIN f.projects : ProjectSound(how, ps[i]) /\ ps[i].name = f.projects[i].name
    PROVE  ContentSound(how, [f EXCEPT !.projects = ps])
<1> DEFINE g == [f EXCEPT !.projects = ps]
<1>0. f \in Content /\ Distinct(f.projects)
  BY DEF ContentSound
<1>1. /\ g \in Content /\ g.projects = ps /\ g.providers = f.providers
      /\ g.commands = f.commands /\ g.aliases = f.aliases /\ g.settings = f.settings
  BY <1>0, ContentFields
<1>2. Distinct(ps) /\ (f.projects # <<>> => ps # <<>>)
  <2>1. Distinct(ps)
    BY <1>0 DEF Distinct
  <2>2. f.projects \in Seq(Project)
    BY <1>0, ContentFields
  <2>3. ASSUME f.projects # <<>> PROVE ps # <<>>
    <3>1. 1 \in DOMAIN f.projects
      BY <2>2, <2>3
    <3> QED
      BY <3>1
  <2> QED
    BY <2>1, <2>3
<1> HIDE DEF g
<1>3. ContentSound(how, g)
  BY <1>1, <1>2 DEF ContentSound
<1> QED
  BY <1>3 DEF g

(* RemoveGlobalProvider drops the entry and the references of every        *)
(* project to it.                                                          *)
LEMMA RemoveGlobalKeeps ==
    ASSUME NEW how, NEW f, ContentSound(how, f), NEW n, NEW g \in RemoveGlobalProvider(f, n)
    PROVE  ContentSound(how, g)
<1> DEFINE ps == [i \in DOMAIN f.projects |->
                     [f.projects[i] EXCEPT !.agent.refs = Strip(f.projects[i].agent.refs, n)]]
<1>1. PICK k \in DOMAIN f.providers :
            g = [f EXCEPT !.providers = Without(f.providers, k), !.projects = ps]
  BY DEF RemoveGlobalProvider, First, Named
<1> DEFINE t == Without(f.providers, k)
           h == [f EXCEPT !.providers = t]
<1>2. f.providers \in Seq(Global) /\ Distinct(f.providers) /\ f \in Content
      /\ f.projects \in Seq(Project)
  BY ContentFields DEF ContentSound
<1>3. t \in Seq(Global) /\ Distinct(t)
  BY <1>2, WithoutOne, WithoutDistinct
<1>4. \A i \in DOMAIN f.projects :
         ps[i] \in Project /\ ProjectSound(how, ps[i]) /\ ps[i].name = f.projects[i].name
  <2> TAKE i \in DOMAIN f.projects
  <2>1. PICK q \in Project : q = f.projects[i] /\ ProjectSound(how, q)
    BY ProjectAt
  <2>2. PICK b \in Agent : b = q.agent
    BY <2>1 DEF Project
  <2>3. PICK rs \in Seq(ProviderNames) : rs = Strip(f.projects[i].agent.refs, n)
    BY ProjectAt, StripTyped
  <2> DEFINE a == [b EXCEPT !.refs = rs]
             z == [q EXCEPT !.agent = a]
  <2>4. a \in Agent /\ a.providers = b.providers /\ a.type = b.type /\ a.work_dir = b.work_dir
    BY DEF Agent
  <2>5. ps[i] = z
    BY <2>1, <2>2, <2>3
  <2> HIDE DEF a
  <2>6. /\ z \in Project /\ z.name = q.name /\ z.platforms = q.platforms /\ z.agent = a
        /\ z.multi = q.multi
    BY <2>4 DEF Project
  <2>7. /\ a.providers = q.agent.providers /\ a.type = q.agent.type
        /\ a.work_dir = q.agent.work_dir
    BY <2>2, <2>4
  <2> HIDE DEF z
  <2> QED
    BY <2>1, <2>5, <2>6, <2>7 DEF ProjectSound, ProjectLoads, AgentLoads
<1>5. ps \in Seq(Project) /\ DOMAIN ps = DOMAIN f.projects
  <2>1. PICK m \in Nat : DOMAIN f.projects = 1..m
    BY <1>2
  <2>2. ps \in [1..m -> Project]
    BY <1>4, <2>1
  <2> QED
    BY <2>1, <2>2
<1>6. g = [h EXCEPT !.projects = ps]
  BY <1>1
<1> HIDE DEF ps, t
<1>7. ContentSound(how, h) /\ h.projects = f.projects
  BY <1>2, <1>3, ProvidersChanged, ContentFields
<1> HIDE DEF h
<1>8. ContentSound(how, [h EXCEPT !.projects = ps])
  BY <1>4, <1>5, <1>7, ProjectsMapped
<1> QED
  BY <1>6, <1>8

(* Every edit of the shared providers leaves a sound content.              *)
LEMMA GlobalEditsKeep ==
    ASSUME NEW how, NEW f, ContentSound(how, f), NEW g \in GlobalEdits(f)
    PROVE  ContentSound(how, g)
<1>1. {} \in SUBSET AgentTypes /\ {"codex"} \in SUBSET AgentTypes
      /\ {"claudecode"} \in SUBSET AgentTypes
  BY DEF AgentTypes
<1>2. PICK n \in ProviderNames :
         \/ g \in AddGlobalProvider(f, n, {}) \/ g \in AddGlobalProvider(f, n, {"codex"})
         \/ g \in UpdateGlobalProvider(f, n, {"claudecode"}) \/ g \in RemoveGlobalProvider(f, n)
  BY Zenon DEF GlobalEdits
<1> QED
  BY <1>1, <1>2, AddGlobalKeeps, UpdateGlobalKeeps, RemoveGlobalKeeps

(* Every edit of a project's providers leaves a sound content.             *)
LEMMA ProviderEditsKeep ==
    ASSUME NEW how, NEW f, ContentSound(how, f), NEW g \in ProviderEdits(f)
    PROVE  ContentSound(how, g)
<1>1. PICK p \in Names, n \in ProviderNames :
         \/ g \in SaveActiveProvider(f, p, n) \/ g \in SaveAgentModel(f, p)
         \/ g \in SaveProviderModel(f, p, n)
         \/ g \in AddProviderToConfig(f, p, n) \/ g \in RemoveProviderFromConfig(f, p, n)
         \/ g \in SaveProviderRefs(f, p, <<n>>) \/ g \in SaveProviderRefs(f, p, <<n, n>>)
  <2>1. PICK p \in Names, n \in ProviderNames :
           g \in SaveActiveProvider(f, p, n) \cup SaveAgentModel(f, p)
                \cup SaveProviderModel(f, p, n)
                \cup AddProviderToConfig(f, p, n) \cup RemoveProviderFromConfig(f, p, n)
                \cup SaveProviderRefs(f, p, <<n>>) \cup SaveProviderRefs(f, p, <<n, n>>)
    BY DEF ProviderEdits
  <2> QED
    BY <2>1
<1>2. <<n>> \in Seq(ProviderNames) /\ <<n, n>> \in Seq(ProviderNames)
  OBVIOUS
<1> QED
  BY <1>1, <1>2, SaveAgentOptionKeeps, SaveProviderModelKeeps, AddProviderKeeps,
     RemoveProviderKeeps, SaveProviderRefsKeeps, Zenon

-----------------------------------------------------------------------------
(* What is neither a project nor a provider.                               *)
LEMMA OthersChanged ==
    ASSUME NEW how, NEW f, ContentSound(how, f), NEW g \in Content,
           g.projects = f.projects, g.providers = f.providers,
           IsInjective(g.commands), IsInjective(g.aliases),
           how = "checked" => g.settings["attachment_send"] = 0
    PROVE  ContentSound(how, g)
BY DEF ContentSound

(* The commands or the aliases are replaced by others without a            *)
(* repetition.                                                             *)
LEMMA CommandsChanged ==
    ASSUME NEW how, NEW f, ContentSound(how, f), NEW cs \in Seq(Words), IsInjective(cs)
    PROVE  ContentSound(how, [f EXCEPT !.commands = cs]) /\ ContentSound(how, [f EXCEPT !.aliases = cs])
<1>0. /\ f \in Content /\ IsInjective(f.commands) /\ IsInjective(f.aliases)
      /\ (how = "checked" => f.settings["attachment_send"] = 0)
  BY DEF ContentSound
<1> DEFINE g == [f EXCEPT !.commands = cs]
           h == [f EXCEPT !.aliases = cs]
<1>1. /\ g \in Content /\ g.projects = f.projects /\ g.providers = f.providers
      /\ g.commands = cs /\ g.aliases = f.aliases /\ g.settings = f.settings
  BY <1>0 DEF Content
<1>2. /\ h \in Content /\ h.projects = f.projects /\ h.providers = f.providers
      /\ h.commands = f.commands /\ h.aliases = cs /\ h.settings = f.settings
  BY <1>0 DEF Content
<1> HIDE DEF g, h
<1>3. ContentSound(how, g) /\ ContentSound(how, h)
  BY <1>0, <1>1, <1>2, OthersChanged
<1> QED
  BY <1>3 DEF g, h

(* The settings are replaced.                                              *)
LEMMA SettingsChanged ==
    ASSUME NEW how, NEW f, ContentSound(how, f), NEW t \in [SettingKeys -> 0..1],
           how = "checked" => t["attachment_send"] = 0
    PROVE  ContentSound(how, [f EXCEPT !.settings = t])
<1>0. f \in Content /\ IsInjective(f.commands) /\ IsInjective(f.aliases)
  BY DEF ContentSound
<1> DEFINE g == [f EXCEPT !.settings = t]
<1>1. /\ g \in Content /\ g.projects = f.projects /\ g.providers = f.providers
      /\ g.commands = f.commands /\ g.aliases = f.aliases /\ g.settings = t
  BY <1>0 DEF Content
<1> HIDE DEF g
<1>2. ContentSound(how, g)
  BY <1>0, <1>1, OthersChanged
<1> QED
  BY <1>2 DEF g

(* One setting is patched, as SaveDisplayConfig does for each of its keys. *)
LEMMA PatchSectionKeeps ==
    ASSUME NEW how, NEW f, ContentSound(how, f), NEW key \in SettingKeys \ {"attachment_send"}
    PROVE  ContentSound(how, PatchSectionField(f, key, 1))
<1> DEFINE t == [f.settings EXCEPT ![key] = 1]
<1>1. /\ f.settings \in [SettingKeys -> 0..1]
      /\ (how = "checked" => f.settings["attachment_send"] = 0)
  BY ContentFields DEF ContentSound
<1>2. t \in [SettingKeys -> 0..1] /\ (how = "checked" => t["attachment_send"] = 0)
  BY <1>1
<1>3. PatchSectionField(f, key, 1) = [f EXCEPT !.settings = t]
  BY DEF PatchSectionField
<1> HIDE DEF t
<1> QED
  BY <1>2, <1>3, SettingsChanged

(* A command or an alias that is not there yet is appended.                *)
LEMMA WordAdded ==
    ASSUME NEW s \in Seq(Words), IsInjective(s), NEW w \in Words, ~Contains(s, w)
    PROVE  Append(s, w) \in Seq(Words) /\ IsInjective(Append(s, w))
<1> DEFINE t == Append(s, w)
<1>1. /\ t \in Seq(Words) /\ DOMAIN t = DOMAIN s \cup {Len(s) + 1} /\ Len(s) + 1 \notin DOMAIN s
      /\ t[Len(s) + 1] = w /\ \A k \in DOMAIN s : t[k] = s[k]
  OBVIOUS
<1>2. \A k \in DOMAIN s : s[k] # w
  BY DEF Contains
<1> HIDE DEF t
<1>3. IsInjective(t)
  BY <1>1, <1>2 DEF IsInjective
<1> QED
  BY <1>1, <1>3 DEF t

(* AddCommand, RemoveCommand, AddAlias and RemoveAlias leave no name       *)
(* twice.                                                                  *)
LEMMA WordsEdited ==
    ASSUME NEW how, NEW f, ContentSound(how, f), NEW w \in Words,
           NEW g \in AddCommand(f, w) \cup RemoveCommand(f, w) \cup AddAlias(f, w) \cup RemoveAlias(f, w)
    PROVE  ContentSound(how, g)
<1>0. /\ f.commands \in Seq(Words) /\ f.aliases \in Seq(Words)
      /\ IsInjective(f.commands) /\ IsInjective(f.aliases)
  BY ContentFields DEF ContentSound
<1>1. CASE g \in AddCommand(f, w)
  <2>1. ~Contains(f.commands, w) /\ g = [f EXCEPT !.commands = Append(f.commands, w)]
    BY <1>1 DEF AddCommand
  <2> QED
    BY <1>0, <2>1, WordAdded, CommandsChanged
<1>2. CASE g \in AddAlias(f, w)
  <2>1. \/ g = f
        \/ ~Contains(f.aliases, w) /\ g = [f EXCEPT !.aliases = Append(f.aliases, w)]
    BY <1>2, Zenon DEF AddAlias
  <2>2. CASE ~Contains(f.aliases, w) /\ g = [f EXCEPT !.aliases = Append(f.aliases, w)]
    <3> DEFINE t == Append(f.aliases, w)
    <3>1. t \in Seq(Words) /\ IsInjective(t)
      BY <1>0, <2>2, WordAdded
    <3> HIDE DEF t
    <3>2. ContentSound(how, [f EXCEPT !.aliases = t])
      BY <3>1, CommandsChanged
    <3> QED
      BY <2>2, <3>2 DEF t
  <2> QED
    BY <2>1, <2>2
<1>3. CASE g \in RemoveCommand(f, w)
  <2> DEFINE I == {i \in DOMAIN f.commands : f.commands[i] # w}
  <2>1. g = [f EXCEPT !.commands = KeptAt(f.commands, I)]
    BY <1>3 DEF RemoveCommand
  <2>2. I \in SUBSET (DOMAIN f.commands)
    OBVIOUS
  <2> HIDE DEF I
  <2>3. KeptAt(f.commands, I) \in Seq(Words) /\ IsInjective(KeptAt(f.commands, I))
    BY <1>0, <2>2, KeptAtFacts
  <2> QED
    BY <2>1, <2>3, CommandsChanged
<1>4. CASE g \in RemoveAlias(f, w)
  <2> DEFINE I == {i \in DOMAIN f.aliases : f.aliases[i] # w}
  <2>1. g = [f EXCEPT !.aliases = KeptAt(f.aliases, I)]
    BY <1>4 DEF RemoveAlias
  <2>2. I \in SUBSET (DOMAIN f.aliases)
    OBVIOUS
  <2> HIDE DEF I
  <2>3. KeptAt(f.aliases, I) \in Seq(Words) /\ IsInjective(KeptAt(f.aliases, I))
    BY <1>0, <2>2, KeptAtFacts
  <2> QED
    BY <2>1, <2>3, CommandsChanged
<1> QED
  BY <1>1, <1>2, <1>3, <1>4

(* Every edit of settings, commands and aliases leaves a sound content.    *)
LEMMA SettingEditsKeep ==
    ASSUME NEW how, NEW f, ContentSound(how, f), NEW g \in SettingEdits(f)
    PROVE  ContentSound(how, g)
<1>s. f.settings \in [SettingKeys -> 0..1] /\ f \in Content
  BY ContentFields DEF ContentSound
<1>1. \/ g \in PatchTopLevelField(f, 1) \/ g \in SaveTTSMode(f, 1) \/ g \in EnableWebAdmin(f)
      \/ g \in SaveGlobalSettings(f, {"language", "queue", "attachment_send"}, 0)
      \/ \E w \in Words : g \in AddCommand(f, w) \cup RemoveCommand(f, w) \cup AddAlias(f, w) \cup RemoveAlias(f, w)
  BY Zenon DEF SettingEdits
<1>2. CASE g \in PatchTopLevelField(f, 1)
  <2>1. "language" \in SettingKeys \ {"attachment_send"} /\ g = PatchSectionField(f, "language", 1)
    BY <1>2 DEF PatchTopLevelField, PatchSectionField, SettingKeys
  <2> QED
    BY <2>1, PatchSectionKeeps
<1>3. CASE g \in SaveTTSMode(f, 1)
  <2>1. "tts_mode" \in SettingKeys \ {"attachment_send"} /\ g = PatchSectionField(f, "tts_mode", 1)
    BY <1>3 DEF SaveTTSMode, SettingKeys
  <2> QED
    BY <2>1, PatchSectionKeeps
<1>4. CASE g \in EnableWebAdmin(f)
  <2>1. g = [f EXCEPT !.services = Services]
    BY <1>4 DEF EnableWebAdmin
  <2>2. /\ g \in Content /\ g.projects = f.projects /\ g.providers = f.providers
        /\ g.commands = f.commands /\ g.aliases = f.aliases /\ g.settings = f.settings
    BY <1>s, <2>1 DEF Content
  <2> QED
    BY <2>2, OthersChanged DEF ContentSound
<1>5. CASE g \in SaveGlobalSettings(f, {"language", "queue", "attachment_send"}, 0)
  <2> DEFINE t == [k \in SettingKeys |-> IF k \in {"language", "queue", "attachment_send"} THEN 0 ELSE f.settings[k]]
  <2>1. g = [f EXCEPT !.settings = t]
    BY <1>5 DEF SaveGlobalSettings
  <2>2. t \in [SettingKeys -> 0..1] /\ t["attachment_send"] = 0
    BY <1>s DEF SettingKeys
  <2> HIDE DEF t
  <2> QED
    BY <2>1, <2>2, SettingsChanged
<1> QED
  BY <1>1, <1>2, <1>3, <1>4, <1>5, WordsEdited

-----------------------------------------------------------------------------
(* Projects and their platforms.                                           *)
LEMMA NewEntries ==
    /\ \A t \in PlatformTypes \cup {NoType} : NewPlatform(t) \in Platform /\ NewPlatform(t).type = t
    /\ \A t \in AgentTypes : NewAgent(t) \in Agent /\ Distinct(NewAgent(t).providers)
                            /\ NewAgent(t).type # NoType
    /\ \A t \in AgentTypes, d \in BOOLEAN :
          [NewAgent(t) EXCEPT !.work_dir = d] \in Agent
          /\ Distinct([NewAgent(t) EXCEPT !.work_dir = d].providers)
          /\ [NewAgent(t) EXCEPT !.work_dir = d].type # NoType
<1>1. /\ <<>> \in Seq(ProviderNames) /\ <<>> \in Seq(Inline) /\ Distinct(<<>>)
  BY DEF Distinct
<1>2. NoType \notin AgentTypes
  BY DEF NoType, AgentTypes
<1> QED
  BY <1>1, <1>2 DEF NewPlatform, NewAgent, Platform, Agent

(* A new project with its one platform.                                    *)
LEMMA ProjectEntry ==
    ASSUME NEW how, NEW p \in Names, NEW a \in Agent, Distinct(a.providers),
           NEW t \in PlatformTypes \cup {NoType},
           how = "checked" => p # NoName /\ a.type # NoType /\ t # NoType
    PROVE  LET q == [name |-> p, multi |-> FALSE, agent |-> a, platforms |-> <<NewPlatform(t)>>] IN
           ProjectSound(how, q) /\ q.name = p
<1> DEFINE ps == <<NewPlatform(t)>>
           q == [name |-> p, multi |-> FALSE, agent |-> a, platforms |-> ps]
<1>1. /\ ps \in Seq(Platform) /\ ps # <<>>
      /\ (how = "checked" => PlatformsLoad(ps))
  <2>1. NewPlatform(t) \in Platform /\ NewPlatform(t).type = t
    BY NewEntries
  <2> QED
    BY <2>1 DEF PlatformsLoad
<1> HIDE DEF ps
<1>2. /\ q \in Project /\ q.name = p /\ q.multi = FALSE /\ q.agent = a /\ q.platforms = ps
  BY <1>1 DEF Project
<1> HIDE DEF q
<1>3. ProjectSound(how, q)
  BY <1>1, <1>2 DEF ProjectSound, ProjectLoads, AgentLoads
<1> QED
  BY <1>2, <1>3 DEF q, ps

(* The agent a new project gets, from the first project or from its type.  *)
LEMMA TemplateSound ==
    ASSUME NEW how, NEW f, ContentSound(how, f), NEW type
    PROVE  /\ PickAgentTemplate(f, type) \in Agent
           /\ Distinct(PickAgentTemplate(f, type).providers)
           /\ (how = "checked" => PickAgentTemplate(f, type).type # NoType)
<1>1. CASE type \in AgentTypes
  BY <1>1, NewEntries DEF PickAgentTemplate
<1>2. CASE type \notin AgentTypes /\ f.projects # <<>>
  <2>1. f.projects \in Seq(Project)
    BY ContentFields DEF ContentSound
  <2>2. 1 \in DOMAIN f.projects
    BY <1>2, <2>1
  <2>3. PICK b \in Agent : /\ b = f.projects[1].agent /\ Distinct(b.providers)
                           /\ (how = "checked" => b.type # NoType)
    BY <2>2, ProjectAt DEF ProjectLoads, AgentLoads
  <2>4. /\ [b EXCEPT !.refs = <<>>] \in Agent /\ [b EXCEPT !.refs = <<>>].providers = b.providers
        /\ [b EXCEPT !.refs = <<>>].type = b.type
    <3>1. <<>> \in Seq(ProviderNames)
      OBVIOUS
    <3> QED
      BY <3>1 DEF Agent
  <2>5. PickAgentTemplate(f, type) = [b EXCEPT !.refs = <<>>]
    BY <1>2, <2>3 DEF PickAgentTemplate
  <2> QED
    BY <2>3, <2>4, <2>5
<1>3. CASE type \notin AgentTypes /\ ~(f.projects # <<>>)
  <2>1. "codex" \in AgentTypes
    BY DEF AgentTypes
  <2> QED
    BY <1>3, <2>1, NewEntries DEF PickAgentTemplate
<1> QED
  BY <1>1, <1>2, <1>3

(* A platform is added to a project.                                       *)
LEMMA PlatformAdded ==
    ASSUME NEW how, NEW f, ContentSound(how, f), NEW i \in DOMAIN f.projects,
           NEW t \in PlatformTypes \cup {NoType}, how = "checked" => t # NoType,
           NEW g, g = [f EXCEPT !.projects[i].platforms = Append(@, NewPlatform(t))]
    PROVE  ContentSound(how, g)
<1> DEFINE ps == Append(f.projects[i].platforms, NewPlatform(t))
<1>1. /\ f.projects[i].platforms \in Seq(Platform)
      /\ NewPlatform(t) \in Platform /\ NewPlatform(t).type = t
      /\ (how = "checked" => PlatformsLoad(f.projects[i].platforms))
  BY ProjectAt, NewEntries DEF ProjectLoads
<1>2. ps \in Seq(Platform) /\ Len(ps) > 0
  BY <1>1
<1>5. how = "checked" => PlatformsLoad(ps)
  <2>1. PICK old \in Seq(Platform), x \in Platform :
              old = f.projects[i].platforms /\ x = NewPlatform(t)
    BY <1>1
  <2>2. /\ DOMAIN ps = DOMAIN old \cup {Len(old) + 1} /\ ps[Len(old) + 1] = x
        /\ \A k \in DOMAIN old : ps[k] = old[k]
    BY <2>1
  <2>3. ps # <<>>
    BY <1>2
  <2> HIDE DEF ps
  <2> QED
    BY <1>1, <2>1, <2>2, <2>3 DEF PlatformsLoad
<1>3. ps # <<>>
  BY <1>2
<1>4. g = [f EXCEPT !.projects[i].platforms = ps]
  OBVIOUS
<1> HIDE DEF ps
<1>6. ContentSound(how, [f EXCEPT !.projects[i].platforms = ps])
  BY <1>2, <1>3, <1>5, PlatformsChanged
<1> QED
  BY <1>4, <1>6

(* EnsureProjectWithPlatform appends a project only when no project has    *)
(* the name.                                                               *)
LEMMA EnsureProjectKeeps ==
    ASSUME NEW how, NEW f, ContentSound(how, f), NEW p \in ProjectNames, NEW t \in PlatformTypes, NEW type,
           NEW g \in EnsureProjectWithPlatform(f, p, t, type)
    PROVE  ContentSound(how, g)
<1>1. CASE ProjectIndex(f, p) # {}
  <2>1. PICK i \in DOMAIN f.projects :
              g = [f EXCEPT !.projects[i].platforms = Append(@, NewPlatform(t))]
    BY <1>1, ProjectFound DEF EnsureProjectWithPlatform
  <2>2. t # NoType
    BY DEF PlatformTypes, NoType
  <2> QED
    BY <2>1, <2>2, PlatformAdded
<1>2. CASE ProjectIndex(f, p) = {}
  <2> DEFINE a == PickAgentTemplate(f, type)
             at == IF a.type = NoType THEN "codex" ELSE a.type
             b == [NewAgent(at) EXCEPT !.work_dir = a.work_dir]
             q == [name |-> p, multi |-> FALSE, agent |-> b, platforms |-> <<NewPlatform(t)>>]
  <2>1. g = [f EXCEPT !.projects = Append(@, q)]
    BY <1>2 DEF EnsureProjectWithPlatform
  <2>2. at \in AgentTypes /\ a.work_dir \in BOOLEAN
    <3>1. a \in Agent /\ "codex" \in AgentTypes
      BY TemplateSound DEF AgentTypes
    <3> QED
      BY <3>1 DEF Agent
  <2> HIDE DEF a, at
  <2>3. b \in Agent /\ Distinct(b.providers) /\ b.type # NoType
    BY <2>2, NewEntries
  <2> HIDE DEF b
  <2>4. ProjectSound(how, q) /\ q.name = p
    <3>1. p # NoName /\ p \in Names /\ t # NoType
      BY ConfigAssumption DEF Names, PlatformTypes, NoType
    <3> QED
      BY <2>3, <3>1, ProjectEntry
  <2> HIDE DEF q
  <2> QED
    BY <1>2, <2>1, <2>4, ProjectAppended
<1> QED
  BY <1>1, <1>2

(* AddPlatformToProject adds a platform or a project of a new name.        *)
LEMMA AddPlatformKeeps ==
    ASSUME NEW how, NEW f, ContentSound(how, f), NEW p \in Names,
           NEW t \in PlatformTypes \cup {NoType}, NEW type,
           how = "checked" => p # NoName /\ t # NoType,
           NEW g \in AddPlatformToProject(f, p, t, type)
    PROVE  ContentSound(how, g)
<1>1. CASE ProjectIndex(f, p) # {}
  <2>1. PICK i \in DOMAIN f.projects :
              g = [f EXCEPT !.projects[i].platforms = Append(@, NewPlatform(t))]
    BY <1>1, ProjectFound DEF AddPlatformToProject
  <2> QED
    BY <2>1, PlatformAdded
<1>2. CASE ProjectIndex(f, p) = {}
  <2> DEFINE b == PickAgentTemplate(f, type)
             q == [name |-> p, multi |-> FALSE, agent |-> b, platforms |-> <<NewPlatform(t)>>]
  <2>1. g = [f EXCEPT !.projects = Append(@, q)]
    BY <1>2 DEF AddPlatformToProject
  <2>2. b \in Agent /\ Distinct(b.providers) /\ (how = "checked" => b.type # NoType)
    BY TemplateSound
  <2> HIDE DEF b
  <2>3. ProjectSound(how, q) /\ q.name = p
    BY <2>2, ProjectEntry
  <2> HIDE DEF q
  <2> QED
    BY <1>2, <2>1, <2>3, ProjectAppended
<1> QED
  BY <1>1, <1>2

(* RemoveProject leaves a sound content, which may be without a project.   *)
LEMMA RemoveProjectKeeps ==
    ASSUME NEW how, NEW f, ContentSound(how, f), NEW p, NEW g \in RemoveProject(f, p),
           how = "checked" => Len(f.projects) > 1
    PROVE  ContentSound(how, g)
BY ProjectFound, ProjectRemoved DEF RemoveProject

(* The credentials of a platform: two fields of one entry.                 *)
LEMMA PlatformChanged ==
    ASSUME NEW how, NEW f, ContentSound(how, f), NEW i \in DOMAIN f.projects,
           NEW j \in DOMAIN f.projects[i].platforms, NEW x \in Platform,
           x.type = f.projects[i].platforms[j].type
    PROVE  LET h == [f EXCEPT !.projects[i].platforms[j] = x] IN
           /\ ContentSound(how, h) /\ i \in DOMAIN h.projects
           /\ j \in DOMAIN h.projects[i].platforms /\ h.projects[i].platforms[j] = x
<1>1. PICK ps \in Seq(Platform) : ps = f.projects[i].platforms /\ ps # <<>>
  BY ProjectAt
<1>p. (how = "checked") => PlatformsLoad(ps)
  BY <1>1, ProjectAt DEF ProjectLoads
<1> DEFINE qs == [ps EXCEPT ![j] = x]
           h == [f EXCEPT !.projects[i].platforms = qs]
<1>2. [f EXCEPT !.projects[i].platforms[j] = x] = h
  BY <1>1
<1>3. qs \in Seq(Platform) /\ qs # <<>> /\ j \in DOMAIN qs /\ qs[j] = x
  BY <1>1
<1>6. DOMAIN qs = DOMAIN ps /\ \A k \in DOMAIN ps : qs[k] = IF k = j THEN x ELSE ps[k]
  BY <1>1
<1> HIDE DEF qs
<1>7. (how = "checked") => PlatformsLoad(qs)
  BY <1>p, <1>1, <1>3, <1>6 DEF PlatformsLoad
<1>4. ContentSound(how, h)
  BY <1>3, <1>7, PlatformsChanged
<1>5. i \in DOMAIN h.projects /\ h.projects[i].platforms = qs
  <2>1. PICK q \in Project : q = f.projects[i]
    BY ProjectAt
  <2>2. f \in Content
    BY DEF ContentSound
  <2> DEFINE r == [q EXCEPT !.platforms = qs]
             ss == [f.projects EXCEPT ![i] = r]
  <2>3. h = [f EXCEPT !.projects = ss]
    BY <2>1
  <2>4. r.platforms = qs
    BY DEF Project
  <2> HIDE DEF r
  <2>5. i \in DOMAIN ss /\ ss[i] = r
    OBVIOUS
  <2> HIDE DEF ss, h
  <2>6. h.projects = ss
    BY <2>2, <2>3 DEF Content
  <2> QED
    BY <2>4, <2>5, <2>6
<1> HIDE DEF h
<1> QED
  BY <1>2, <1>3, <1>4, <1>5

(* The credentials of a platform and the user it allows are saved.         *)
LEMMA CredentialsKeep ==
    ASSUME NEW how, NEW f, ContentSound(how, f), NEW p, NEW t, NEW n, NEW u \in Users,
           NEW g \in SavePlatformCredentials(f, p, t, n, u)
    PROVE  ContentSound(how, g)
<1>0. PICK i \in ProjectIndex(f, p) :
          g \in LET ps == f.projects[i].platforms
                    cand == {j \in DOMAIN ps : ps[j].type = t}
                    nth == {j \in cand : Cardinality({k \in cand : k < j})
                                          = (IF n = 0 THEN 0 ELSE n - 1)}
                IN  {[f EXCEPT !.projects[i].platforms[j].cred = TRUE,
                               !.projects[i].platforms[j].allow = MergeAllowFrom(@, u)] : j \in nth}
  BY Zenon DEF SavePlatformCredentials
<1>1. PICK j \in DOMAIN f.projects[i].platforms :
            g = [f EXCEPT !.projects[i].platforms[j].cred = TRUE,
                          !.projects[i].platforms[j].allow = MergeAllowFrom(@, u)]
  BY <1>0, Zenon
<1>2. i \in DOMAIN f.projects
  BY ProjectFound
<1>3. PICK b \in Platform : b = f.projects[i].platforms[j]
  BY <1>2, ProjectAt
<1> DEFINE x == [b EXCEPT !.cred = TRUE]
           h == [f EXCEPT !.projects[i].platforms[j] = x]
           v == MergeAllowFrom(b.allow, u)
           y == [x EXCEPT !.allow = v]
<1>4. v \in SUBSET (Users \cup {"*"})
  BY DEF MergeAllowFrom, Platform
<1>5. x \in Platform /\ x.allow = b.allow /\ x.type = b.type
  BY DEF Platform
<1>6. [f EXCEPT !.projects[i].platforms[j].cred = TRUE] = h
  BY <1>3
<1>7. g = [h EXCEPT !.projects[i].platforms[j].allow = v]
  BY <1>1, <1>3, <1>6
<1> HIDE DEF x, v
<1>8. y \in Platform /\ y.type = x.type
  BY <1>4, <1>5 DEF Platform
<1>9. /\ ContentSound(how, h) /\ i \in DOMAIN h.projects
      /\ j \in DOMAIN h.projects[i].platforms /\ h.projects[i].platforms[j] = x
  BY <1>2, <1>3, <1>5, PlatformChanged
<1> HIDE DEF h
<1>10. g = [h EXCEPT !.projects[i].platforms[j] = y]
  BY <1>7, <1>9
<1> HIDE DEF y
<1> QED
  BY <1>8, <1>9, <1>10, PlatformChanged

(* The settings of a project: its agent's entry, then its platforms.       *)
LEMMA ProjectSettingsKeep ==
    ASSUME NEW how, NEW f, ContentSound(how, f), NEW p, NEW type \in AgentTypes \cup {NoType}, NEW work_dir \in BOOLEAN,
           NEW t, NEW allow \in SUBSET (Users \cup {"*"}),
           how = "checked" => /\ type # NoType
                              /\ \A i \in ProjectIndex(f, p) : ~(f.projects[i].multi /\ work_dir),
           NEW g \in SaveProjectSettings(f, p, type, work_dir, t, allow)
    PROVE  ContentSound(how, g)
<1>1. PICK i \in ProjectIndex(f, p) :
          g = LET a == f.projects[i].agent
                  ps == f.projects[i].platforms
                  kept == KeptAt(a.refs, {j \in DOMAIN a.refs : Compatible(f, a.refs[j], type)})
                  b == IF a.type = type THEN a
                       ELSE [a EXCEPT !.type = type, !.refs = kept,
                                      !.provider = IF @ \in ToSet(kept) THEN @ ELSE NoProvider]
              IN  [f EXCEPT !.projects[i].agent = [b EXCEPT !.work_dir = work_dir],
                            !.projects[i].platforms =
                               [j \in DOMAIN ps |-> IF ps[j].type = t THEN [ps[j] EXCEPT !.allow = allow]
                                                    ELSE ps[j]]]
  BY Zenon DEF SaveProjectSettings
<1>2. i \in DOMAIN f.projects
  BY ProjectFound
<1>3. PICK a \in Agent : a = f.projects[i].agent /\ Distinct(a.providers)
  BY <1>2, ProjectAt
<1>4. PICK ps \in Seq(Platform) : ps = f.projects[i].platforms /\ ps # <<>>
  BY <1>2, ProjectAt
<1>p. (how = "checked") => PlatformsLoad(ps)
  BY <1>2, <1>4, ProjectAt DEF ProjectLoads
<1>5. PICK kept \in Seq(ProviderNames) :
            kept = KeptAt(a.refs, {j \in DOMAIN a.refs : Compatible(f, a.refs[j], type)})
  <2>1. a.refs \in Seq(ProviderNames)
    BY DEF Agent
  <2> QED
    BY <2>1, KeptAtFacts
<1> DEFINE v == IF a.provider \in ToSet(kept) THEN a.provider ELSE NoProvider
           b == IF a.type = type THEN a
                ELSE [a EXCEPT !.type = type, !.refs = kept, !.provider = v]
           c == [b EXCEPT !.work_dir = work_dir]
           qs == [j \in DOMAIN ps |-> IF ps[j].type = t THEN [ps[j] EXCEPT !.allow = allow] ELSE ps[j]]
           h == [f EXCEPT !.projects[i].agent = c]
<1>6. b \in Agent /\ b.providers = a.providers /\ b.type = type
  <2>1. v \in ProviderNames \cup {NoProvider}
    BY DEF Agent
  <2> HIDE DEF v
  <2>2. CASE a.type = type
    BY <2>2
  <2>3. CASE a.type # type
    <3> DEFINE d == [a EXCEPT !.type = type, !.refs = kept, !.provider = v]
    <3>1. d \in Agent /\ d.providers = a.providers /\ d.type = type
      BY <2>1 DEF Agent
    <3> HIDE DEF d
    <3>2. b = d
      BY <2>3 DEF d
    <3> HIDE DEF b
    <3> QED
      BY <3>1, <3>2
  <2> QED
    BY <2>2, <2>3
<1>7. g = [h EXCEPT !.projects[i].platforms = qs]
  BY <1>1, <1>3, <1>4, <1>5
<1> HIDE DEF b
<1>8. c \in Agent /\ c.providers = b.providers /\ c.type = type /\ c.work_dir = work_dir
  BY <1>6 DEF Agent
<1> HIDE DEF c
<1>12. (how = "checked") => AgentLoads(f.projects[i].multi, c)
  BY <1>8, ProjectAt DEF AgentLoads
<1>9. ContentSound(how, h)
  BY <1>2, <1>3, <1>6, <1>8, <1>12, AgentReplaced
<1>10. i \in DOMAIN h.projects
  BY <1>2 DEF ContentSound, Content
<1>11. qs \in Seq(Platform) /\ qs # <<>>
  <2>1. ASSUME NEW j \in DOMAIN ps PROVE qs[j] \in Platform
    <3>1. PICK x \in Platform : x = ps[j]
      OBVIOUS
    <3>2. [x EXCEPT !.allow = allow] \in Platform
      BY DEF Platform
    <3> QED
      BY <3>1, <3>2
  <2>2. PICK m \in Nat : m > 0 /\ DOMAIN ps = 1..m
    BY <1>4
  <2>3. qs \in [1..m -> Platform]
    BY <2>1, <2>2
  <2> HIDE DEF qs
  <2>4. qs \in Seq(Platform) /\ Len(qs) > 0
    BY <2>2, <2>3
  <2> QED
    BY <2>4
<1>13. DOMAIN qs = DOMAIN ps /\ \A j \in DOMAIN ps : qs[j].type = ps[j].type
  <2>1. ASSUME NEW j \in DOMAIN ps PROVE qs[j].type = ps[j].type
    <3>1. PICK x \in Platform : x = ps[j]
      OBVIOUS
    <3>2. [x EXCEPT !.allow = allow].type = x.type
      BY DEF Platform
    <3> QED
      BY <3>1, <3>2
  <2> QED
    BY <2>1
<1> HIDE DEF h, qs
<1>14. (how = "checked") => PlatformsLoad(qs)
  BY <1>p, <1>11, <1>13 DEF PlatformsLoad
<1> QED
  BY <1>7, <1>9, <1>10, <1>11, <1>14, PlatformsChanged

(* Every edit that adds or removes a project leaves a sound content.       *)
LEMMA ProjectEditsKeep ==
    ASSUME NEW how, NEW f, ContentSound(how, f), NEW g \in ProjectEdits(f)
    PROVE  ContentSound(how, g)
<1> DEFINE added ==
             UNION {EnsureProjectWithFeishuPlatform(f, p, type) \cup EnsureProjectWithWeixinPlatform(f, p, type)
                      \cup AddPlatformToProject(f, p, t, type) :
                    p \in ProjectNames, t \in PlatformTypes, type \in {NoType, "codex"}}
           removed == UNION {RemoveProject(f, p) : p \in {q \in Names : Len(f.projects) > 1}}
<1>1. g \in added \/ g \in removed
  BY DEF ProjectEdits
<1>2. CASE g \in added
  <2>1. PICK p \in ProjectNames, t \in PlatformTypes, type \in {NoType, "codex"} :
           g \in EnsureProjectWithFeishuPlatform(f, p, type)
                \cup EnsureProjectWithWeixinPlatform(f, p, type)
                \cup AddPlatformToProject(f, p, t, type)
    BY <1>2
  <2>2. "feishu" \in PlatformTypes /\ "weixin" \in PlatformTypes
    BY DEF PlatformTypes
  <2>3. CASE g \in EnsureProjectWithFeishuPlatform(f, p, type)
    BY <2>2, <2>3, EnsureProjectKeeps DEF EnsureProjectWithFeishuPlatform
  <2>4. CASE g \in EnsureProjectWithWeixinPlatform(f, p, type)
    BY <2>2, <2>4, EnsureProjectKeeps DEF EnsureProjectWithWeixinPlatform
  <2>5. CASE g \in AddPlatformToProject(f, p, t, type)
    <3>1. p \in Names /\ p # NoName /\ t # NoType /\ t \in PlatformTypes \cup {NoType}
      BY ConfigAssumption DEF Names, PlatformTypes, NoType
    <3> QED
      BY <2>5, <3>1, AddPlatformKeeps
  <2> QED
    BY <2>1, <2>3, <2>4, <2>5
<1>3. CASE g \in removed
  <2>1. PICK p \in Names : g \in RemoveProject(f, p) /\ Len(f.projects) > 1
    BY <1>3
  <2> QED
    BY <2>1, RemoveProjectKeeps
<1> QED
  BY <1>1, <1>2, <1>3

(* Every edit of platforms and project settings leaves a sound content.    *)
LEMMA PlatformEditsKeep ==
    ASSUME NEW how, NEW f, ContentSound(how, f), NEW g \in PlatformEdits(f)
    PROVE  ContentSound(how, g)
<1> DEFINE credentials ==
             UNION {SaveFeishuPlatformCredentials(f, p, n, u) \cup SaveWeixinPlatformCredentials(f, p, n, u) :
                    p \in ProjectNames, n \in {0, 2}, u \in Users}
           settings ==
             UNION {IF work_dir /\ \E i \in ProjectIndex(f, p) : f.projects[i].multi THEN {}
                    ELSE SaveProjectSettings(f, p, "codex", work_dir, t, {"*"}) :
                    p \in Names, work_dir \in BOOLEAN, t \in PlatformTypes}
<1>1. g \in credentials \/ g \in settings
  BY DEF PlatformEdits
<1>2. CASE g \in credentials
  <2>1. PICK p \in ProjectNames, n \in {0, 2}, u \in Users :
              g \in SaveFeishuPlatformCredentials(f, p, n, u) \cup SaveWeixinPlatformCredentials(f, p, n, u)
    BY <1>2
  <2> QED
    BY <2>1, CredentialsKeep DEF SaveFeishuPlatformCredentials, SaveWeixinPlatformCredentials
<1>3. CASE g \in settings
  <2>1. PICK p \in Names, work_dir \in BOOLEAN, t \in PlatformTypes :
              g \in IF work_dir /\ \E i \in ProjectIndex(f, p) : f.projects[i].multi THEN {}
                    ELSE SaveProjectSettings(f, p, "codex", work_dir, t, {"*"})
    BY <1>3
  <2>2. /\ g \in SaveProjectSettings(f, p, "codex", work_dir, t, {"*"})
        /\ \A i \in ProjectIndex(f, p) : ~(f.projects[i].multi /\ work_dir)
    BY <2>1, Zenon
  <2>3. "codex" \in AgentTypes /\ "codex" # NoType /\ {"*"} \in SUBSET (Users \cup {"*"})
    BY DEF AgentTypes, NoType
  <2> QED
    BY <2>2, <2>3, ProjectSettingsKeep
<1> QED
  BY <1>1, <1>2, <1>3

(* Whatever function of the package edits a sound content, a sound content *)
(* results.                                                                *)
LEMMA EditsKeep ==
    ASSUME NEW how, NEW f, ContentSound(how, f), NEW g \in Edits(f)
    PROVE  ContentSound(how, g)
BY ProviderEditsKeep, GlobalEditsKeep, SettingEditsKeep, ProjectEditsKeep, PlatformEditsKeep
   DEF Edits

(* A function that does not check what it is given keeps the rest.         *)
LEMMA UncheckedEditsKeep ==
    ASSUME NEW f, ContentSound("unchecked", f), NEW g \in UncheckedEdits(f)
    PROVE  ContentSound("unchecked", g)
<1> DEFINE added ==
             UNION {AddPlatformToProject(f, p, t, type) :
                    p \in Names, t \in PlatformTypes \cup {NoType}, type \in {NoType, "codex"}}
           removed == UNION {RemoveProject(f, p) : p \in Names}
           settings ==
             UNION {SaveProjectSettings(f, p, type, work_dir, "feishu", {"*"}) :
                    p \in Names, type \in {NoType, "codex"}, work_dir \in BOOLEAN}
<1>0. "unchecked" # "checked"
  OBVIOUS
<1>1. \/ g \in SaveGlobalSettings(f, {"attachment_send"}, 1)
      \/ g \in added \/ g \in removed \/ g \in settings
  BY DEF UncheckedEdits
<1>2. CASE g \in SaveGlobalSettings(f, {"attachment_send"}, 1)
  <2> DEFINE t == [k \in SettingKeys |-> IF k \in {"attachment_send"} THEN 1 ELSE f.settings[k]]
  <2>1. g = [f EXCEPT !.settings = t]
    BY <1>2 DEF SaveGlobalSettings
  <2>2. t \in [SettingKeys -> 0..1]
    BY ContentFields DEF ContentSound
  <2> HIDE DEF t
  <2> QED
    BY <1>0, <2>1, <2>2, SettingsChanged
<1>3. CASE g \in added
  <2>1. PICK p \in Names, t \in PlatformTypes \cup {NoType}, type \in {NoType, "codex"} :
              g \in AddPlatformToProject(f, p, t, type)
    BY <1>3
  <2> QED
    BY <1>0, <2>1, AddPlatformKeeps
<1>4. CASE g \in removed
  <2>1. PICK p \in Names : g \in RemoveProject(f, p)
    BY <1>4
  <2> QED
    BY <1>0, <2>1, RemoveProjectKeeps
<1>5. CASE g \in settings
  <2>1. PICK p \in Names, type \in {NoType, "codex"}, work_dir \in BOOLEAN :
              g \in SaveProjectSettings(f, p, type, work_dir, "feishu", {"*"})
    BY <1>5
  <2>2. type \in AgentTypes \cup {NoType} /\ {"*"} \in SUBSET (Users \cup {"*"})
    BY DEF AgentTypes
  <2> QED
    BY <1>0, <2>1, <2>2, ProjectSettingsKeep
<1> QED
  BY <1>1, <1>2, <1>3, <1>4, <1>5

(* What holds of a checked content holds of an unchecked one.              *)
LEMMA SoundUnchecked ==
    ASSUME NEW how, NEW f, ContentSound(how, f)
    PROVE  ContentSound("unchecked", f)
BY DEF ContentSound, ProjectSound

-----------------------------------------------------------------------------
(* What a project is offered.                                              *)
LEMMA JoinInjective ==
    ASSUME NEW S, NEW s \in Seq(S), NEW t \in Seq(S), IsInjective(s), IsInjective(t),
           \A i \in DOMAIN s, j \in DOMAIN t : s[i] # t[j]
    PROVE  IsInjective(s \o t)
<1>1. PICK m \in Nat, n \in Nat : m = Len(s) /\ n = Len(t)
  OBVIOUS
<1>2. DOMAIN s = 1..m /\ DOMAIN t = 1..n /\ DOMAIN (s \o t) = 1..(m + n)
  BY <1>1
<1>3. \A k \in 1..(m + n) :
         \/ k \in 1..m /\ (s \o t)[k] = s[k]
         \/ k - m \in 1..n /\ (s \o t)[k] = t[k - m]
  <2> TAKE k \in 1..(m + n)
  <2>1. CASE k <= m
    <3>1. k \in 1..Len(s)
      BY <1>1, <2>1
    <3>2. \A l \in 1..Len(s) : (s \o t)[l] = s[l]
      OBVIOUS
    <3>3. k \in 1..m
      BY <1>1, <2>1
    <3>4. (s \o t)[k] = s[k]
      BY <3>1, <3>2, Zenon
    <3> QED
      BY <3>3, <3>4
  <2>2. CASE ~(k <= m)
    <3>1. k - m \in 1..Len(t)
      BY <1>1, <2>2
    <3>2. \A l \in 1..Len(t) : (s \o t)[Len(s) + l] = t[l]
      OBVIOUS
    <3>3. k = Len(s) + (k - m)
      BY <1>1
    <3> QED
      BY <1>1, <3>1, <3>2, <3>3
  <2> QED
    BY <2>1, <2>2
<1> DEFINE st == s \o t
<1> HIDE DEF st
<1>4. ASSUME NEW j \in 1..(m + n), NEW k \in 1..(m + n), st[j] = st[k] PROVE j = k
  <2>1. \/ j \in 1..m /\ st[j] = s[j]
        \/ j - m \in 1..n /\ st[j] = t[j - m]
    BY <1>3 DEF st
  <2>2. \/ k \in 1..m /\ st[k] = s[k]
        \/ k - m \in 1..n /\ st[k] = t[k - m]
    BY <1>3 DEF st
  <2>3. CASE j \in 1..m /\ st[j] = s[j] /\ k \in 1..m /\ st[k] = s[k]
    BY <1>2, <1>4, <2>3 DEF IsInjective
  <2>4. CASE j - m \in 1..n /\ st[j] = t[j - m] /\ k - m \in 1..n /\ st[k] = t[k - m]
    <3>1. j - m = k - m
      BY <1>2, <1>4, <2>4 DEF IsInjective
    <3> QED
      BY <3>1
  <2> QED
    BY <1>2, <1>4, <2>1, <2>2, <2>3, <2>4
<1> QED
  BY <1>2, <1>4 DEF IsInjective, st

(* A project with distinct references is offered no provider twice: a      *)
(* reference that has an inline namesake is left out.                      *)
LEMMA OfferedInjective ==
    ASSUME NEW f, NEW q \in Project, Distinct(q.agent.providers), IsInjective(q.agent.refs)
    PROVE  IsInjective(Offered(f, q))
<1>1. PICK refs \in Seq(ProviderNames) : refs = q.agent.refs
  BY DEF Project, Agent
<1>2. PICK ps \in Seq(Inline) : ps = q.agent.providers
  BY DEF Project, Agent
<1> DEFINE names == [i \in DOMAIN ps |-> ps[i].name]
           inline == {ps[i].name : i \in DOMAIN ps}
           I == {i \in DOMAIN refs : refs[i] \notin inline /\ Compatible(f, refs[i], q.agent.type)}
           o == KeptAt(refs, I)
<1>3. Offered(f, q) = names \/ Offered(f, q) = o \o names
  BY <1>1, <1>2, Zenon DEF Offered
<1>4. names \in Seq(ProviderNames) /\ DOMAIN names = DOMAIN ps
  <2>1. \A i \in DOMAIN ps : ps[i].name \in ProviderNames
    <3>1. \A x \in Inline : x.name \in ProviderNames
      BY DEF Inline
    <3> QED
      BY <3>1
  <2>2. PICK m \in Nat : DOMAIN ps = 1..m
    OBVIOUS
  <2>3. names \in [1..m -> ProviderNames]
    BY <2>1, <2>2
  <2> QED
    BY <2>2, <2>3
<1>5. IsInjective(names)
  BY <1>2 DEF IsInjective, Distinct
<1>6. I \in SUBSET (DOMAIN refs) /\ \A i \in I, j \in DOMAIN names : refs[i] # names[j]
  OBVIOUS
<1> HIDE DEF names, inline, I
<1>7. /\ o \in Seq(ProviderNames) /\ IsInjective(o)
      /\ \A k \in DOMAIN o : \E i \in I : o[k] = refs[i]
  BY <1>1, <1>6, KeptAtFacts
<1> HIDE DEF o
<1>8. \A k \in DOMAIN o, j \in DOMAIN names : o[k] # names[j]
  BY <1>6, <1>7
<1> QED
  BY <1>3, <1>4, <1>5, <1>7, <1>8, JoinInjective

(* What every content the file ever has is has the property.               *)
LEMMA SoundContentLoads == ContentSound(inputs, file) => FileSound
<1> SUFFICES ASSUME ContentSound(inputs, file) PROVE FileSound
  OBVIOUS
<1>1. \A i \in DOMAIN file.projects : ProjectSound(inputs, file.projects[i])
  BY DEF ContentSound
<1>2. (inputs = "checked") => Validate(file)
  BY <1>1, Zenon DEF Validate, ProjectSound, ContentSound
<1>3. ASSUME NEW i \in DOMAIN file.projects
      PROVE  LET q == file.projects[i] IN
             /\ q.platforms # <<>>
             /\ Distinct(q.agent.providers)
             /\ IsInjective(q.agent.refs) => IsInjective(Offered(file, q))
  BY <1>1, OfferedInjective DEF ProjectSound
<1> QED
  BY <1>2, <1>3, Zenon DEF FileSound, ContentSound

-----------------------------------------------------------------------------
(* What a caller has in hand.                                              *)
WriteEdit == [pc : {"write"}, base : Content, new : Content,
              todo : {<<>>, <<"tool_messages">>}, raced : BOOLEAN]

(* What a caller without the mutex holds between its read and its write.    *)
LooseEdit == [pc : {"format", "raw"}, new : Content]

(* What WriteRaw holds while it writes in place.                            *)
RawEdit == [pc : {"rewrite"}, new : Content, linked : BOOLEAN]

(* The states of a caller.                                                 *)
HasNothing(c) == edit[c] = Idle

(* A formatter with a text it has read, a caller of a ConfigRepository with *)
(* one it has changed, or writes.                                          *)
Beyond(c) ==
    /\ c \in Formatters \cup RawWriters
    /\ edit[c] \in LooseEdit \/ (edit[c] \in RawEdit /\ inputs = "unchecked")
    /\ ContentSound(inputs, edit[c].new)

(* A writer at work holds the mutex alone, and what it read is still the   *)
(* file unless a caller without the mutex wrote meanwhile.                 *)
Writing(c) ==
    /\ c \in Writers /\ configMu = {c} /\ edit[c] \in WriteEdit /\ ContentSound(inputs, edit[c].new)
    /\ edit[c].base = file \/ edit[c].raced

(* Every caller is in one of these states.                                 *)
InHand(c) == HasNothing(c) \/ Beyond(c) \/ Writing(c)

(* The inductive invariant: the file is sound, and so is every content     *)
(* that is about to replace it.                                            *)
ConfigInv ==
    /\ ContentSound(inputs, file)
    /\ inputs \in {"checked", "unchecked"}
    /\ DOMAIN edit = Callers
    /\ \A c \in Callers : InHand(c)

(* The state of a caller is known from the step it is at.                  *)
LEMMA InHandKinds ==
    ASSUME ConfigInv, NEW c \in Callers
    PROVE  /\ edit[c].pc = "write" => Writing(c)
           /\ edit[c].pc \in {"format", "raw", "rewrite"} => Beyond(c)
           /\ edit[c].pc # "write" => ~Writing(c)
           /\ edit[c].pc = "rewrite" => edit[c] \in RawEdit /\ inputs = "unchecked"
           /\ edit[c].pc # "rewrite" => edit[c] \notin RawEdit
<1>1. InHand(c)
  BY DEF ConfigInv
<1>2. HasNothing(c) => edit[c].pc = "idle"
  BY DEF HasNothing, Idle
<1>3. edit[c] \in LooseEdit => edit[c].pc \in {"format", "raw"}
  BY DEF LooseEdit
<1>4. edit[c] \in RawEdit => edit[c].pc = "rewrite"
  BY DEF RawEdit
<1>5. Writing(c) => edit[c].pc = "write"
  BY DEF Writing, WriteEdit
<1>6. Beyond(c) => \/ edit[c].pc \in {"format", "raw"}
                   \/ (edit[c].pc = "rewrite" /\ edit[c] \in RawEdit /\ inputs = "unchecked")
  BY <1>3, <1>4 DEF Beyond
<1> QED
  BY <1>1, <1>2, <1>4, <1>5, <1>6 DEF InHand

(* The invariant has the property as a consequence.                        *)
LEMMA ConfigInvImplies == ConfigInv => ConfigSound
<1> SUFFICES ASSUME ConfigInv PROVE ConfigSound
  OBVIOUS
<1>1. FileSound
  BY SoundContentLoads DEF ConfigInv
<1>2. SerialEdits
  BY InHandKinds DEF SerialEdits, Writing, Callers
<1> QED
  BY <1>1, <1>2 DEF ConfigSound

(* The file a user wrote is sound.                                         *)
LEMMA ConfigInvInit == ConfigInit => ConfigInv
<1> SUFFICES ASSUME ConfigInit PROVE ConfigInv
  OBVIOUS
<1>1. PICK p \in ProjectNames, n \in ProviderNames, multi \in BOOLEAN : file = InitialContent(p, n, multi)
  BY DEF ConfigInit
<1> DEFINE b == NewAgent("claudecode")
           a == [b EXCEPT !.refs = <<n>>, !.provider = n]
           q == [name |-> p, multi |-> multi, agent |-> a, platforms |-> <<NewPlatform("feishu")>>]
           gp == [name |-> n, types |-> {"claudecode"}, model |-> FALSE]
           st == [k \in SettingKeys |-> 0]
<1>2. a \in Agent /\ a.providers = <<>> /\ a.type = "claudecode" /\ a.work_dir = FALSE
  <2>1. b \in Agent /\ b.providers = <<>> /\ b.type = "claudecode" /\ b.work_dir = FALSE
    BY NewEntries DEF NewAgent, AgentTypes
  <2> HIDE DEF b
  <2>2. <<n>> \in Seq(ProviderNames)
    OBVIOUS
  <2> QED
    BY <2>1, <2>2 DEF Agent
<1> HIDE DEF b, a
<1>3. ProjectSound(inputs, q)
  <2>1. <<NewPlatform("feishu")>> \in Seq(Platform) /\ <<NewPlatform("feishu")>> # <<>>
    BY NewEntries DEF PlatformTypes
  <2>2. Distinct(a.providers)
    BY <1>2 DEF Distinct
  <2>3. q \in Project /\ p # NoName
    BY <1>2, <2>1, ConfigAssumption DEF Project, Names
  <2>4. PlatformsLoad(<<NewPlatform("feishu")>>)
    BY DEF PlatformsLoad, NewPlatform, NoType
  <2>5. AgentLoads(multi, a)
    BY <1>2 DEF AgentLoads, NoType
  <2>6. ProjectLoads(q)
    BY <2>3, <2>4, <2>5 DEF ProjectLoads
  <2> QED
    BY <2>1, <2>2, <2>3, <2>6 DEF ProjectSound
<1> HIDE DEF q
<1>4. gp \in Global
  BY DEF Global, AgentTypes
<1> HIDE DEF gp
<1>5. st \in [SettingKeys -> 0..1] /\ st["attachment_send"] = 0
  BY DEF SettingKeys
<1> HIDE DEF st
<1>6. file = [projects |-> <<q>>, providers |-> <<gp>>, commands |-> <<>>, aliases |-> <<>>,
              settings |-> st, services |-> {}]
  BY <1>1 DEF InitialContent, q, a, b, gp, st
<1>7. /\ <<q>> \in Seq(Project) /\ <<gp>> \in Seq(Global) /\ <<>> \in Seq(Words)
      /\ {} \in SUBSET Services
  BY <1>3, <1>4 DEF ProjectSound
<1>8. file \in Content
  BY <1>5, <1>6, <1>7 DEF Content
<1>9. /\ Distinct(<<q>>) /\ Distinct(<<gp>>) /\ IsInjective(<<>>)
      /\ \A i \in DOMAIN <<q>> : ProjectSound(inputs, <<q>>[i])
  BY <1>3 DEF Distinct, IsInjective
<1>10. ContentSound(inputs, file)
  <2>1. <<q>> # <<>>
    OBVIOUS
  <2> QED
    BY <1>5, <1>6, <1>8, <1>9, <2>1 DEF ContentSound
<1>11. DOMAIN edit = Callers /\ (\A c \in Callers : edit[c] = Idle) /\ inputs = "checked"
  BY DEF ConfigInit
<1> QED
  BY <1>10, <1>11 DEF ConfigInv, InHand, HasNothing

(* What a caller without the mutex has in hand stays sound when less is    *)
(* checked.                                                                *)
LEMMA StaysInHand ==
    ASSUME NEW c, HasNothing(c) \/ Beyond(c), inputs' \in {inputs, "unchecked"}, edit'[c] = edit[c]
    PROVE  HasNothing(c)' \/ Beyond(c)'
<1>1. ASSUME HasNothing(c) PROVE HasNothing(c)'
  BY <1>1 DEF HasNothing
<1>2. ASSUME Beyond(c) PROVE Beyond(c)'
  <2>1. ContentSound(inputs', edit[c].new)
    BY <1>2, SoundUnchecked DEF Beyond
  <2>2. inputs = "unchecked" => inputs' = "unchecked"
    OBVIOUS
  <2> QED
    BY <1>2, <2>1, <2>2 DEF Beyond
<1> QED
  BY <1>1, <1>2

(* A writer begins with an edit of what it reads: no other writer is at    *)
(* work.                                                                   *)
LEMMA WriterBegins ==
    ASSUME ConfigInv, NEW w \in Writers, configMu = {}, NEW g, ContentSound(inputs', g),
           NEW todo \in {<<>>, <<"tool_messages">>},
           edit' = [edit EXCEPT ![w] = [pc |-> "write", base |-> file, new |-> g, todo |-> todo, raced |-> FALSE]],
           configMu' = {w}, file' = file, inputs' \in {inputs, "unchecked"}
    PROVE  ConfigInv'
<1>1. ContentSound(inputs, file) /\ DOMAIN edit = Callers /\ \A c \in Callers : InHand(c)
  BY DEF ConfigInv
<1>2. w \in Callers
  BY DEF Callers
<1> DEFINE e == [pc |-> "write", base |-> file, new |-> g, todo |-> todo, raced |-> FALSE]
<1>3. edit'[w] = e
  BY <1>1, <1>2
<1>4. e \in WriteEdit /\ e.new = g /\ e.base = file
  BY <1>1 DEF ContentSound, WriteEdit
<1> HIDE DEF e
<1>5. Writing(w)'
  BY <1>3, <1>4 DEF Writing
<1>6. ASSUME NEW c \in Callers, c # w PROVE InHand(c)'
  <2>1. edit'[c] = edit[c]
    BY <1>1, <1>6
  <2>2. HasNothing(c) \/ Beyond(c)
    BY <1>1 DEF InHand, Writing
  <2> QED
    BY <2>1, <2>2, StaysInHand DEF InHand
<1>7. DOMAIN edit' = Callers /\ ContentSound(inputs, file)' /\ inputs' \in {"checked", "unchecked"}
  <2>1. ContentSound(inputs', file)
    BY <1>1, SoundUnchecked
  <2> QED
    BY <1>1, <2>1 DEF ConfigInv
<1> QED
  BY <1>5, <1>6, <1>7 DEF ConfigInv, InHand

(* When a caller writes, the others are left with what they had.           *)
LEMMA BesideKeeps ==
    ASSUME ConfigInv, NEW c \in Callers, NEW e, NEW raced \in BOOLEAN, NEW unlinked \in BOOLEAN,
           edit' = Beside(c, e, raced, unlinked), inputs' \in {inputs, "unchecked"},
           NEW d \in Callers, d # c,
           edit[d].pc = "write" => configMu' = configMu /\ (raced \/ file' = file)
    PROVE  InHand(d)'
<1>i. InHand(d)
  BY DEF ConfigInv
<1>1. CASE edit[d].pc = "write"
  <2>1. Writing(d) /\ edit[d] \in WriteEdit /\ ContentSound(inputs', edit[d].new)
    BY <1>1, InHandKinds, SoundUnchecked DEF Writing
  <2>2. PICK b \in WriteEdit : b = edit[d]
    BY <2>1
  <2>3. PICK x \in BOOLEAN : x = (b.raced \/ raced)
    OBVIOUS
  <2> DEFINE r == [b EXCEPT !.raced = x]
  <2>4. edit'[d] = r
    BY <1>1, <2>2, <2>3, ZenonT(30) DEF Beside
  <2>5. r \in WriteEdit /\ r.new = b.new /\ r.base = b.base /\ r.raced = x
    BY DEF WriteEdit
  <2> HIDE DEF r
  <2>6. edit'[d].base = file' \/ edit'[d].raced
    <3>1. CASE raced
      <4>1. x = TRUE
        BY <2>3, <3>1
      <4> QED
        BY <2>4, <2>5, <4>1
    <3>2. CASE ~raced
      <4>1. file' = file
        BY <1>1, <3>2
      <4>2. CASE b.base = file
        BY <2>4, <2>5, <4>1, <4>2
      <4>3. CASE b.raced
        <5>1. x = TRUE
          BY <2>3, <4>3
        <5> QED
          BY <2>4, <2>5, <5>1
      <4> QED
        BY <2>1, <2>2, <4>2, <4>3 DEF Writing
    <3> QED
      BY <3>1, <3>2
  <2>7. edit'[d] \in WriteEdit /\ edit'[d].new = edit[d].new
    BY <2>2, <2>4, <2>5
  <2>8. d \in Writers /\ configMu' = {d}
    BY <1>1, <2>1 DEF Writing
  <2>9. ContentSound(inputs, edit[d].new)'
    BY <2>1, <2>7
  <2>10. Writing(d)'
    BY <2>6, <2>7, <2>8, <2>9 DEF Writing
  <2> QED
    BY <2>10 DEF InHand
<1>2. CASE edit[d].pc = "rewrite"
  <2>1. Beyond(d) /\ edit[d] \in RawEdit /\ inputs = "unchecked" /\ ContentSound(inputs', edit[d].new)
    BY <1>2, InHandKinds, SoundUnchecked DEF Beyond
  <2>2. PICK b \in RawEdit : b = edit[d]
    BY <2>1
  <2>3. PICK x \in BOOLEAN : x = (b.linked /\ ~unlinked)
    OBVIOUS
  <2> DEFINE r == [b EXCEPT !.linked = x]
  <2>4. edit'[d] = r
    BY <1>2, <2>2, <2>3, ZenonT(30) DEF Beside
  <2>5. r \in RawEdit /\ r.new = b.new
    BY DEF RawEdit
  <2> HIDE DEF r
  <2>6. edit'[d] \in RawEdit /\ edit'[d].new = edit[d].new /\ inputs' = "unchecked"
    BY <2>1, <2>2, <2>4, <2>5
  <2>7. ContentSound(inputs, edit[d].new)' /\ d \in Formatters \cup RawWriters
    BY <2>1, <2>6 DEF Beyond
  <2>8. Beyond(d)'
    BY <2>6, <2>7 DEF Beyond
  <2> QED
    BY <2>8 DEF InHand
<1>3. CASE edit[d].pc # "write" /\ edit[d].pc # "rewrite"
  <2>1. HasNothing(d) \/ Beyond(d)
    BY <1>i, <1>3, InHandKinds DEF InHand
  <2>2. edit'[d] = edit[d]
    BY <1>3, ZenonT(30) DEF Beside
  <2> QED
    BY <2>1, <2>2, StaysInHand DEF InHand
<1> QED
  BY <1>1, <1>2, <1>3

(* Who writes has afterwards what e says.                                  *)
LEMMA BesideOwn ==
    ASSUME NEW c \in Callers, NEW e, NEW raced, NEW unlinked, edit' = Beside(c, e, raced, unlinked)
    PROVE  edit'[c] = e /\ DOMAIN edit' = Callers
<1>1. DOMAIN edit' = Callers /\ edit'[c] = Beside(c, e, raced, unlinked)[c]
  BY DEF Beside
<1>2. Beside(c, e, raced, unlinked)[c] = e
  BY Zenon DEF Beside
<1> QED
  BY <1>1, <1>2

(* Every step keeps the invariant: a writer replaces the file by a sound   *)
(* content and is alone to do so, the others mark what they race with.     *)
LEMMA ConfigInvStep == ConfigInv /\ [ConfigNext]_configVars => ConfigInv'
<1> SUFFICES ASSUME ConfigInv, [ConfigNext]_configVars PROVE ConfigInv'
  OBVIOUS
<1>i. /\ ContentSound(inputs, file) /\ DOMAIN edit = Callers
      /\ inputs \in {"checked", "unchecked"} /\ \A c \in Callers : InHand(c)
  BY DEF ConfigInv
<1>w. /\ Writers \subseteq Callers /\ Formatters \subseteq Callers /\ RawWriters \subseteq Callers
      /\ Writers \cap Formatters = {} /\ Writers \cap RawWriters = {}
  BY ConfigAssumption DEF Callers
<1>1. ASSUME NEW w \in Writers, Begin(w) PROVE ConfigInv'
  <2>1. configMu = {} /\ configMu' = {w} /\ file' = file
    BY <1>1 DEF Begin
  <2>2. CASE (\E g \in Edits(file) : edit' = [edit EXCEPT ![w] = Edited(g, <<>>)]) /\ inputs' = inputs
    <3>1. PICK g \in Edits(file) : edit' = [edit EXCEPT ![w] = Edited(g, <<>>)]
      BY <2>2
    <3>2. ContentSound(inputs', g)
      BY <1>i, <2>2, EditsKeep
    <3> QED
      BY <2>1, <2>2, <3>1, <3>2, WriterBegins DEF Edited
  <2>3. CASE (\E g \in UncheckedEdits(file) : edit' = [edit EXCEPT ![w] = Edited(g, <<>>)]) /\ inputs' = "unchecked"
    <3>1. PICK g \in UncheckedEdits(file) : edit' = [edit EXCEPT ![w] = Edited(g, <<>>)]
      BY <2>3
    <3>2. ContentSound("unchecked", g)
      BY <1>i, SoundUnchecked, UncheckedEditsKeep
    <3> QED
      BY <2>1, <2>3, <3>1, <3>2, WriterBegins DEF Edited
  <2> QED
    BY <1>1, <2>2, <2>3, Zenon DEF Begin
<1>2. ASSUME NEW w \in Writers, BeginSaveDisplayConfig(w) PROVE ConfigInv'
  <2> DEFINE g == PatchSectionField(file, "thinking_messages", 1)
  <2>1. edit' = [edit EXCEPT ![w] = [pc |-> "write", base |-> file, new |-> g,
                                     todo |-> <<"tool_messages">>, raced |-> FALSE]]
    BY <1>2 DEF BeginSaveDisplayConfig, Edited
  <2>2. configMu = {} /\ configMu' = {w} /\ file' = file /\ inputs' = inputs
    BY <1>2 DEF BeginSaveDisplayConfig
  <2>3. ContentSound(inputs', g)
    BY <1>i, <2>2, PatchSectionKeeps DEF SettingKeys
  <2> HIDE DEF g
  <2> QED
    BY <2>1, <2>2, <2>3, WriterBegins
<1>3. ASSUME NEW w \in Writers, Write(w) PROVE ConfigInv'
  <2>1. Writing(w) /\ file' = edit[w].new /\ inputs' = inputs /\ w \in Callers
    BY <1>3, <1>w, InHandKinds DEF Write
  <2>2. ContentSound(inputs, file)'
    BY <2>1 DEF Writing
  <2>3. ASSUME NEW c \in Callers, c # w PROVE edit[c].pc # "write"
    BY <2>1, <2>3, InHandKinds DEF Writing
  <2>4. CASE edit[w].todo = <<>>
    <3>1. edit' = Beside(w, Idle, FALSE, TRUE)
      BY <1>3, <2>4 DEF Write
    <3>2. InHand(w)' /\ DOMAIN edit' = Callers
      BY <2>1, <3>1, BesideOwn DEF InHand, HasNothing
    <3>3. ASSUME NEW c \in Callers, c # w PROVE InHand(c)'
      BY <2>1, <2>3, <3>1, <3>3, BesideKeeps
    <3> QED
      BY <1>i, <2>1, <2>2, <3>2, <3>3 DEF ConfigInv
  <2>5. CASE edit[w].todo # <<>>
    <3>1. PICK e \in WriteEdit : e = edit[w]
      BY <2>1 DEF Writing
    <3>2. e.todo = <<"tool_messages">> /\ Head(e.todo) = "tool_messages" /\ Tail(e.todo) = <<>>
      <4>1. e.todo = <<"tool_messages">>
        BY <2>5, <3>1 DEF WriteEdit
      <4>2. Head(<<"tool_messages">>) = "tool_messages" /\ Tail(<<"tool_messages">>) = <<>>
        OBVIOUS
      <4> QED
        BY <4>1, <4>2
    <3> DEFINE g == PatchSectionField(e.new, "tool_messages", 1)
               d == [e EXCEPT !.base = e.new, !.todo = <<>>, !.new = g]
               d0 == [edit[w] EXCEPT !.base = edit[w].new, !.todo = Tail(@),
                                     !.new = PatchSectionField(edit[w].new, Head(edit[w].todo), 1)]
    <3>3. edit' = Beside(w, d0, FALSE, TRUE) /\ configMu' = configMu
      BY <1>3, <2>5 DEF Write
    <3>4. d0 = d
      BY <3>1, <3>2
    <3>5. ContentSound(inputs, g)
      BY <2>1, <3>1, PatchSectionKeeps DEF SettingKeys, Writing
    <3> HIDE DEF g
    <3>6. d \in WriteEdit /\ d.new = g /\ d.base = e.new
      BY <3>5 DEF WriteEdit, ContentSound
    <3> HIDE DEF d, d0
    <3>7. edit'[w] = d /\ DOMAIN edit' = Callers
      BY <2>1, <3>3, <3>4, BesideOwn
    <3>8. Writing(w)'
      BY <2>1, <3>1, <3>3, <3>5, <3>6, <3>7 DEF Writing
    <3>9. ASSUME NEW c \in Callers, c # w PROVE InHand(c)'
      BY <2>1, <2>3, <3>3, <3>9, BesideKeeps
    <3> QED
      BY <1>i, <2>1, <2>2, <3>7, <3>8, <3>9 DEF ConfigInv, InHand
  <2> QED
    BY <2>4, <2>5
<1>4. ASSUME NEW w \in Writers, WriteFails(w) PROVE ConfigInv'
  <2>1. Writing(w) /\ w \in Callers
    BY <1>4, <1>w, InHandKinds DEF WriteFails
  <2>2. ASSUME NEW c \in Callers, c # w PROVE HasNothing(c) \/ Beyond(c)
    BY <1>i, <2>1, <2>2 DEF InHand, Writing
  <2>3. edit' = [edit EXCEPT ![w] = Idle] /\ file' = file /\ inputs' = inputs
    BY <1>4 DEF WriteFails
  <2>4. ASSUME NEW c \in Callers PROVE InHand(c)'
    <3>1. CASE c = w
      BY <1>i, <2>3, <3>1 DEF InHand, HasNothing
    <3>2. CASE c # w
      <4>1. edit'[c] = edit[c]
        BY <1>i, <2>3, <3>2
      <4> QED
        BY <2>2, <2>3, <3>2, <4>1, StaysInHand DEF InHand
    <3> QED
      BY <3>1, <3>2
  <2> QED
    BY <1>i, <2>3, <2>4 DEF ConfigInv
<1>5. ASSUME NEW c \in Formatters \cup RawWriters, NEW g, ContentSound(inputs, g), NEW pc \in {"format", "raw"},
             edit' = [edit EXCEPT ![c] = [pc |-> pc, new |-> g]],
             file' = file, configMu' = configMu, inputs' = inputs
      PROVE  ConfigInv'
  <2> DEFINE e == [pc |-> pc, new |-> g]
  <2>1. e \in LooseEdit /\ e.new = g
    BY <1>5 DEF LooseEdit, ContentSound
  <2> HIDE DEF e
  <2>2. edit'[c] = e /\ DOMAIN edit' = Callers
    BY <1>i, <1>w, <1>5 DEF e
  <2>3. Beyond(c)'
    BY <1>5, <2>1, <2>2 DEF Beyond
  <2>4. ASSUME NEW d \in Callers, d # c PROVE InHand(d)'
    <3>1. edit'[d] = edit[d]
      BY <1>i, <1>5, <2>4
    <3> QED
      BY <1>i, <1>5, <3>1 DEF InHand, HasNothing, Beyond, Writing
  <2> QED
    BY <1>i, <1>5, <2>2, <2>3, <2>4 DEF ConfigInv, InHand
<1>6. ASSUME NEW c \in Formatters, FormatReads(c) PROVE ConfigInv'
  BY <1>i, <1>5, <1>6 DEF FormatReads
<1>7. ASSUME NEW c \in RawWriters, RawReads(c) PROVE ConfigInv'
  <2>1. PICK g \in Edits(file) : edit' = [edit EXCEPT ![c] = [pc |-> "raw", new |-> g]]
    BY <1>7 DEF RawReads
  <2>2. ContentSound(inputs, g)
    BY <1>i, EditsKeep
  <2>3. file' = file /\ configMu' = configMu /\ inputs' = inputs
    BY <1>7 DEF RawReads
  <2> QED
    BY <1>5, <2>1, <2>2, <2>3
<1>8. ASSUME NEW c \in Formatters, FormatWrites(c) PROVE ConfigInv'
  <2>1. /\ Beyond(c) /\ file' = edit[c].new /\ configMu' = configMu /\ inputs' = inputs
        /\ edit' = Beside(c, Idle, TRUE, TRUE) /\ c \in Callers
    BY <1>8, <1>w, InHandKinds DEF FormatWrites
  <2>2. ContentSound(inputs, file)'
    BY <2>1 DEF Beyond
  <2>3. InHand(c)' /\ DOMAIN edit' = Callers
    BY <2>1, BesideOwn DEF InHand, HasNothing
  <2>4. ASSUME NEW d \in Callers, d # c PROVE InHand(d)'
    BY <2>1, <2>4, BesideKeeps
  <2> QED
    BY <1>i, <2>1, <2>2, <2>3, <2>4 DEF ConfigInv
<1>9. ASSUME NEW c \in RawWriters, WriteRaw(c) PROVE ConfigInv'
  <2> DEFINE e == [pc |-> "rewrite", new |-> edit[c].new, linked |-> TRUE]
  <2>1. /\ Beyond(c) /\ file' = EmptyContent /\ configMu' = configMu /\ inputs' = "unchecked"
        /\ edit' = Beside(c, e, TRUE, FALSE) /\ c \in Callers
    BY <1>9, <1>w, InHandKinds DEF WriteRaw
  <2>2. ContentSound(inputs, file)'
    <3>1. EmptyContent \in Content
      <4>1. /\ <<>> \in Seq(Project) /\ <<>> \in Seq(Global) /\ <<>> \in Seq(Words)
            /\ {} \in SUBSET Services /\ [k \in SettingKeys |-> 0] \in [SettingKeys -> 0..1]
        OBVIOUS
      <4> QED
        BY <4>1 DEF EmptyContent, Content
    <3>2. ContentSound("unchecked", EmptyContent)
      BY <3>1 DEF ContentSound, EmptyContent, Distinct, IsInjective
    <3> QED
      BY <2>1, <3>2
  <2>3. e \in RawEdit /\ e.new = edit[c].new
    BY <2>1 DEF Beyond, ContentSound, RawEdit
  <2> HIDE DEF e
  <2>4. edit'[c] = e /\ DOMAIN edit' = Callers
    BY <2>1, BesideOwn
  <2>5. Beyond(c)'
    BY <2>1, <2>3, <2>4, SoundUnchecked DEF Beyond
  <2>6. ASSUME NEW d \in Callers, d # c PROVE InHand(d)'
    BY <2>1, <2>6, BesideKeeps
  <2> QED
    BY <2>1, <2>2, <2>4, <2>5, <2>6 DEF ConfigInv, InHand
<1>10. ASSUME NEW c \in RawWriters, WriteRawEnds(c) PROVE ConfigInv'
  <2>1. /\ Beyond(c) /\ edit[c] \in RawEdit /\ configMu' = configMu /\ inputs' = inputs
        /\ edit' = Beside(c, Idle, edit[c].linked, FALSE) /\ c \in Callers
    BY <1>10, <1>w, InHandKinds DEF WriteRawEnds
  <2>2. PICK linked \in BOOLEAN : linked = edit[c].linked
    BY <2>1 DEF RawEdit
  <2>3. file' = file \/ (linked = TRUE /\ file' = edit[c].new)
    BY <1>10, <2>2, Zenon DEF WriteRawEnds
  <2>4. ContentSound(inputs, file)'
    BY <1>i, <2>1, <2>3 DEF Beyond
  <2>5. InHand(c)' /\ DOMAIN edit' = Callers
    BY <2>1, BesideOwn DEF InHand, HasNothing
  <2>6. ASSUME NEW d \in Callers, d # c PROVE InHand(d)'
    BY <2>1, <2>2, <2>3, <2>6, BesideKeeps
  <2> QED
    BY <1>i, <2>1, <2>4, <2>5, <2>6 DEF ConfigInv
<1>11. ASSUME Crash PROVE ConfigInv'
  <2>1. edit' = [c \in Callers |-> Idle] /\ file' = file /\ inputs' = inputs
    BY <1>11 DEF Crash
  <2> QED
    BY <1>i, <2>1 DEF ConfigInv, InHand, HasNothing
<1>12. ASSUME UNCHANGED configVars PROVE ConfigInv'
  <2>1. file' = file /\ configMu' = configMu /\ edit' = edit /\ inputs' = inputs
    BY <1>12 DEF configVars
  <2> QED
    BY <1>i, <2>1 DEF ConfigInv, InHand, HasNothing, Beyond, Writing
<1>13. \/ \E w \in Writers : Begin(w) \/ BeginSaveDisplayConfig(w) \/ Write(w) \/ WriteFails(w)
       \/ \E c \in Formatters : FormatReads(c) \/ FormatWrites(c)
       \/ \E c \in RawWriters : RawReads(c) \/ WriteRaw(c) \/ WriteRawEnds(c)
       \/ Crash \/ UNCHANGED configVars
  BY Zenon DEF ConfigNext
<1> QED
  BY <1>1, <1>2, <1>3, <1>4, <1>6, <1>7, <1>8, <1>9, <1>10, <1>11, <1>12, <1>13

(* However the edits of several callers, failed writes, crashes and an     *)
(* unlocked FormatConfigFile mix, config.toml stays a file that Load       *)
(* accepts until a function is given what Load refuses or a                *)
(* ConfigRepository writes in place, and even then one the lookups read    *)
(* without ambiguity; and no function but FormatConfigFile and WriteRaw    *)
(* loses an edit of another (package config: configMu, saveConfig,         *)
(* writeRawConfig, WriteRaw).                                              *)
THEOREM ConfigFileSound == ConfigSpec => []ConfigSound
<1>1. ConfigInit => ConfigInv
  BY ConfigInvInit
<1>2. ConfigInv /\ [ConfigNext]_configVars => ConfigInv'
  BY ConfigInvStep
<1>3. ConfigInv => ConfigSound
  BY ConfigInvImplies
<1> QED
  BY <1>1, <1>2, <1>3, PTL DEF ConfigSpec

-----------------------------------------------------------------------------
(* The sessions of the core.  First the lists of ids a user owns.          *)

(* An id is appended to the ids a user owns.                               *)
LEMMA IdAppended ==
    ASSUME NEW s \in Seq(Nat), IsInjective(s), NEW x \in Nat, x \notin ToSet(s)
    PROVE  /\ Append(s, x) \in Seq(Nat) /\ IsInjective(Append(s, x))
           /\ ToSet(Append(s, x)) = ToSet(s) \cup {x}
<1> DEFINE t == Append(s, x)
<1>1. /\ t \in Seq(Nat) /\ DOMAIN t = DOMAIN s \cup {Len(s) + 1} /\ Len(s) + 1 \notin DOMAIN s
      /\ t[Len(s) + 1] = x /\ \A k \in DOMAIN s : t[k] = s[k]
  OBVIOUS
<1>2. \A k \in DOMAIN s : s[k] # x
  BY DEF ToSet
<1> HIDE DEF t
<1>3. IsInjective(t)
  BY <1>1, <1>2 DEF IsInjective
<1>4. ToSet(t) = ToSet(s) \cup {x}
  BY <1>1 DEF ToSet
<1> QED
  BY <1>1, <1>3, <1>4 DEF t

(* The ids that are left after a deletion.                                 *)
LEMMA IdsRemain ==
    ASSUME NEW s \in Seq(Nat), IsInjective(s), NEW removed
    PROVE  /\ Remaining(s, removed) \in Seq(Nat) /\ IsInjective(Remaining(s, removed))
           /\ ToSet(Remaining(s, removed)) = ToSet(s) \ removed
<1> DEFINE I == {k \in DOMAIN s : s[k] \notin removed}
           t == KeptAt(s, I)
<1>1. I \in SUBSET (DOMAIN s) /\ Remaining(s, removed) = t
  BY DEF Remaining
<1>2. /\ t \in Seq(Nat) /\ IsInjective(t)
      /\ \A k \in DOMAIN t : \E i \in I : t[k] = s[i]
  <2> HIDE DEF I
  <2> QED
    BY <1>1, KeptAtFacts
<1>3. \A i \in I : \E k \in DOMAIN t : t[k] = s[i]
  BY <1>1, KeptAtAll
<1>4. \A i : i \in I <=> i \in DOMAIN s /\ s[i] \notin removed
  OBVIOUS
<1> HIDE DEF I, t
<1>5. ToSet(t) = ToSet(s) \ removed
  BY SMTT(40), <1>2, <1>3, <1>4 DEF ToSet
<1> QED
  BY <1>1, <1>2, <1>5

-----------------------------------------------------------------------------
(* A typed snapshot that fits together, and what an operation makes of it. *)
SnapshotSound(ss, ac, ow, ct) ==
    /\ DOMAIN ss \subseteq Nat /\ ac \in [UserKeys -> Nat]
    /\ ow \in [UserKeys -> Seq(Nat)] /\ ct \in Nat
    /\ Sound(ss, ac, ow, ct)

(* Only the ids matter, not what the conversations hold.                   *)
LEMMA SoundByIds ==
    ASSUME NEW ss, NEW tt, NEW ac, NEW ow, NEW ct, SnapshotSound(ss, ac, ow, ct), DOMAIN tt = DOMAIN ss
    PROVE  SnapshotSound(tt, ac, ow, ct)
BY DEF SnapshotSound, Sound

(* A conversation with the next id, made the active one of its user.       *)
LEMMA CreatedSound ==
    ASSUME NEW ss, NEW ac, NEW ow, NEW ct, SnapshotSound(ss, ac, ow, ct), NEW u \in UserKeys,
           NEW tt, DOMAIN tt = DOMAIN ss \cup {ct + 1},
           NEW bc, bc = ac \/ bc = [ac EXCEPT ![u] = ct + 1]
    PROVE  SnapshotSound(tt, bc, [ow EXCEPT ![u] = Append(@, ct + 1)], ct + 1)
<1> DEFINE n == ct + 1
           pw == [ow EXCEPT ![u] = Append(ow[u], n)]
<1>1. /\ DOMAIN ss \subseteq Nat /\ ac \in [UserKeys -> Nat]
      /\ ow \in [UserKeys -> Seq(Nat)] /\ ct \in Nat /\ n \in Nat
  BY DEF SnapshotSound
<1>2. /\ \A i \in DOMAIN ss : i <= ct /\ \E v \in UserKeys : i \in ToSet(ow[v])
      /\ \A v \in UserKeys : /\ ToSet(ow[v]) \subseteq DOMAIN ss /\ IsInjective(ow[v])
                             /\ ac[v] # 0 => ac[v] \in ToSet(ow[v])
      /\ \A v, w \in UserKeys : v # w => ToSet(ow[v]) \cap ToSet(ow[w]) = {}
  BY DEF SnapshotSound, Sound
<1>3. n \notin DOMAIN ss
  BY <1>1, <1>2
<1>4. /\ Append(ow[u], n) \in Seq(Nat) /\ IsInjective(Append(ow[u], n))
      /\ ToSet(Append(ow[u], n)) = ToSet(ow[u]) \cup {n}
  BY <1>1, <1>2, <1>3, IdAppended
<1>5. /\ pw \in [UserKeys -> Seq(Nat)] /\ pw[u] = Append(ow[u], n)
      /\ \A v \in UserKeys : v # u => pw[v] = ow[v]
  BY <1>1, <1>4
<1>6. /\ \A v \in UserKeys : ToSet(pw[v]) = IF v = u THEN ToSet(ow[v]) \cup {n} ELSE ToSet(ow[v])
      /\ \A v \in UserKeys : IsInjective(pw[v])
  BY <1>2, <1>4, <1>5
<1>7. bc \in [UserKeys -> Nat] /\ \A v \in UserKeys : bc[v] = ac[v] \/ (v = u /\ bc[v] = n)
  BY <1>1
<1>8. [ow EXCEPT ![u] = Append(@, ct + 1)] = pw
  OBVIOUS
<1>9. DOMAIN tt = DOMAIN ss \cup {n} /\ DOMAIN tt \subseteq Nat /\ \A i \in DOMAIN tt : i <= n
  BY <1>1, <1>2
<1> HIDE DEF pw, n
<1>10. /\ \A i \in DOMAIN tt : i <= n /\ \E v \in UserKeys : i \in ToSet(pw[v])
       /\ \A v \in UserKeys : /\ ToSet(pw[v]) \subseteq DOMAIN tt /\ IsInjective(pw[v])
                              /\ bc[v] # 0 => bc[v] \in ToSet(pw[v])
       /\ \A v, w \in UserKeys : v # w => ToSet(pw[v]) \cap ToSet(pw[w]) = {}
  <2>1. \A i \in DOMAIN tt : i <= n /\ \E v \in UserKeys : i \in ToSet(pw[v])
    BY <1>2, <1>6, <1>9
  <2>2. \A v \in UserKeys : ToSet(pw[v]) \subseteq DOMAIN tt /\ IsInjective(pw[v])
    BY ZenonT(60), <1>2, <1>6, <1>9
  <2>3. ASSUME NEW v \in UserKeys, bc[v] # 0 PROVE bc[v] \in ToSet(pw[v])
    <3>1. ToSet(pw[v]) = IF v = u THEN ToSet(ow[v]) \cup {n} ELSE ToSet(ow[v])
      BY <1>6
    <3>2. CASE bc[v] = ac[v]
      BY <1>2, <2>3, <3>1, <3>2
    <3>3. CASE v = u /\ bc[v] = n
      BY <3>1, <3>3
    <3> QED
      BY <1>7, <3>2, <3>3
  <2>4. ASSUME NEW v \in UserKeys, NEW w \in UserKeys, v # w PROVE ToSet(pw[v]) \cap ToSet(pw[w]) = {}
    <3>1. n \notin ToSet(ow[v]) /\ n \notin ToSet(ow[w]) /\ ToSet(ow[v]) \cap ToSet(ow[w]) = {}
      BY <1>2, <1>3, <2>4
    <3>2. /\ ToSet(pw[v]) = IF v = u THEN ToSet(ow[v]) \cup {n} ELSE ToSet(ow[v])
          /\ ToSet(pw[w]) = IF w = u THEN ToSet(ow[w]) \cup {n} ELSE ToSet(ow[w])
      BY <1>6
    <3> QED
      BY <2>4, <3>1, <3>2
  <2> QED
    BY <2>1, <2>2, <2>3, <2>4, Zenon
<1> QED
  BY <1>1, <1>5, <1>7, <1>8, <1>9, <1>10 DEF SnapshotSound, Sound, n

(* A user switches to a conversation of its own.                           *)
LEMMA SwitchedSound ==
    ASSUME NEW ss, NEW ac, NEW ow, NEW ct, SnapshotSound(ss, ac, ow, ct),
           NEW u \in UserKeys, NEW i \in ToSet(ow[u])
    PROVE  SnapshotSound(ss, [ac EXCEPT ![u] = i], ow, ct)
<1>1. i \in Nat
  BY DEF SnapshotSound, Sound
<1> QED
  BY <1>1 DEF SnapshotSound, Sound

(* Conversations are deleted: no user keeps an id, as active or as owned.  *)
LEMMA DeletedSound ==
    ASSUME NEW ss, NEW ac, NEW ow, NEW ct, SnapshotSound(ss, ac, ow, ct), NEW removed
    PROVE  SnapshotSound([i \in DOMAIN ss \ removed |-> ss[i]],
                         [u \in UserKeys |-> IF ac[u] \in removed THEN 0 ELSE ac[u]],
                         [u \in UserKeys |-> Remaining(ow[u], removed)], ct)
<1> DEFINE tt == [i \in DOMAIN ss \ removed |-> ss[i]]
           bc == [u \in UserKeys |-> IF ac[u] \in removed THEN 0 ELSE ac[u]]
           pw == [u \in UserKeys |-> Remaining(ow[u], removed)]
<1>1. /\ DOMAIN ss \subseteq Nat /\ ac \in [UserKeys -> Nat]
      /\ ow \in [UserKeys -> Seq(Nat)] /\ ct \in Nat
  BY DEF SnapshotSound
<1>2. /\ \A i \in DOMAIN ss : i <= ct /\ \E v \in UserKeys : i \in ToSet(ow[v])
      /\ \A v \in UserKeys : /\ ToSet(ow[v]) \subseteq DOMAIN ss /\ IsInjective(ow[v])
                             /\ ac[v] # 0 => ac[v] \in ToSet(ow[v])
      /\ \A v, w \in UserKeys : v # w => ToSet(ow[v]) \cap ToSet(ow[w]) = {}
  BY DEF SnapshotSound, Sound
<1>3. \A u \in UserKeys : /\ pw[u] \in Seq(Nat) /\ IsInjective(pw[u])
                          /\ ToSet(pw[u]) = ToSet(ow[u]) \ removed
  BY <1>1, <1>2, IdsRemain
<1>4. pw \in [UserKeys -> Seq(Nat)]
  BY <1>3
<1>5. bc \in [UserKeys -> Nat] /\ \A u \in UserKeys : bc[u] # 0 => bc[u] = ac[u] /\ bc[u] \notin removed
  BY <1>1
<1>6. DOMAIN tt = DOMAIN ss \ removed
  OBVIOUS
<1> HIDE DEF tt, bc, pw
<1>7. /\ \A i \in DOMAIN tt : i <= ct /\ \E v \in UserKeys : i \in ToSet(pw[v])
      /\ \A v \in UserKeys : /\ ToSet(pw[v]) \subseteq DOMAIN tt /\ IsInjective(pw[v])
                             /\ bc[v] # 0 => bc[v] \in ToSet(pw[v])
      /\ \A v, w \in UserKeys : v # w => ToSet(pw[v]) \cap ToSet(pw[w]) = {}
  <2>1. ASSUME NEW i \in DOMAIN tt PROVE i <= ct /\ \E v \in UserKeys : i \in ToSet(pw[v])
    <3>1. i \in DOMAIN ss /\ i \notin removed
      BY <1>6
    <3>2. PICK v \in UserKeys : i \in ToSet(ow[v])
      BY <1>2, <3>1
    <3> QED
      BY <1>2, <1>3, <3>1, <3>2
  <2>2. ASSUME NEW v \in UserKeys PROVE ToSet(pw[v]) \subseteq DOMAIN tt /\ IsInjective(pw[v])
    <3>1. /\ ToSet(pw[v]) = ToSet(ow[v]) \ removed /\ IsInjective(pw[v])
          /\ ToSet(ow[v]) \subseteq DOMAIN ss
      BY <1>2, <1>3
    <3> QED
      BY <1>6, <3>1
  <2>3. \A v \in UserKeys : bc[v] # 0 => bc[v] \in ToSet(pw[v])
    BY <1>2, <1>3, <1>5
  <2>4. \A v, w \in UserKeys : v # w => ToSet(pw[v]) \cap ToSet(pw[w]) = {}
    BY <1>2, <1>3
  <2> QED
    BY <2>1, <2>2, <2>3, <2>4, Zenon
<1>8. SnapshotSound(tt, bc, pw, ct)
  BY <1>1, <1>4, <1>5, <1>6, <1>7 DEF SnapshotSound, Sound
<1> QED
  BY <1>8 DEF tt, bc, pw

-----------------------------------------------------------------------------
(* A snapshot on disk, or on its way there, is sound.                      *)
SavedSound(snap) == SnapshotSound(snap.sessions, snap.active, snap.owned, snap.counter)

(* The inductive invariant: the manager, the file and every snapshot that  *)
(* is being saved are sound.                                               *)
CoreInv ==
    /\ SnapshotSound(sessions, active, owned, counter)
    /\ SavedSound(disk)
    /\ DOMAIN saving = Savers
    /\ \A c \in Savers : \A snap \in saving[c] : SavedSound(snap)

(* An operation that leaves a sound manager and saves it, or fails to.     *)
LEMMA CommitKeeps ==
    ASSUME CoreInv, NEW ss, NEW ac, NEW ow, NEW ct, SnapshotSound(ss, ac, ow, ct),
           Commit(ss, ac, ow, ct)
    PROVE  CoreInv'
<1> DEFINE snap == Snapshot(ss, ac, ow, ct, legacy)
<1>1. /\ sessions' = ss /\ active' = ac /\ owned' = ow /\ counter' = ct
      /\ disk' \in {disk, snap} /\ saving' = saving
  BY DEF Commit
<1>2. SavedSound(snap)
  BY DEF SavedSound, Snapshot
<1> HIDE DEF snap
<1>3. SavedSound(disk')
  BY <1>1, <1>2 DEF CoreInv
<1> QED
  BY <1>1, <1>3 DEF CoreInv, SavedSound

(* A new session is the current one of its user, or a side session.        *)
LEMMA CreateKeeps ==
    ASSUME CoreInv, NEW u \in UserKeys, NEW s,
           NEW bc, bc = active \/ bc = [active EXCEPT ![u] = counter + 1],
           Commit([i \in DOMAIN sessions \cup {counter + 1} |-> IF i = counter + 1 THEN s ELSE sessions[i]],
                  bc, [owned EXCEPT ![u] = Append(@, counter + 1)], counter + 1)
    PROVE  CoreInv'
<1> DEFINE tt == [i \in DOMAIN sessions \cup {counter + 1} |-> IF i = counter + 1 THEN s ELSE sessions[i]]
           pw == [owned EXCEPT ![u] = Append(@, counter + 1)]
<1>1. DOMAIN tt = DOMAIN sessions \cup {counter + 1}
  OBVIOUS
<1>2. Commit(tt, bc, pw, counter + 1)
  OBVIOUS
<1> HIDE DEF tt
<1>3. SnapshotSound(sessions, active, owned, counter)
  BY DEF CoreInv
<1>4. SnapshotSound(tt, bc, pw, counter + 1)
  BY <1>1, <1>3, CreatedSound
<1> HIDE DEF pw
<1> QED
  BY <1>2, <1>4, CommitKeeps

(* Every step keeps the invariant.                                         *)
LEMMA CoreStep == CoreInv /\ [CoreNext]_coreVars => CoreInv'
<1> SUFFICES ASSUME CoreInv, [CoreNext]_coreVars PROVE CoreInv'
  OBVIOUS
<1>i. SnapshotSound(sessions, active, owned, counter) /\ SavedSound(disk)
  BY DEF CoreInv
<1>1. ASSUME NEW u \in UserKeys, CreateLocked(u) PROVE CoreInv'
  BY <1>1, CreateKeeps DEF CreateLocked
<1>2. ASSUME NEW u \in UserKeys, NewSideSession(u) PROVE CoreInv'
  BY <1>2, CreateKeeps DEF NewSideSession
<1>3. ASSUME NEW u \in UserKeys, SwitchSession(u) PROVE CoreInv'
  <2>1. PICK i \in ToSet(owned[u]) \cap DOMAIN sessions :
              Commit(sessions, [active EXCEPT ![u] = i], owned, counter)
    BY <1>3, Zenon DEF SwitchSession
  <2>2. SnapshotSound(sessions, [active EXCEPT ![u] = i], owned, counter)
    BY <1>i, SwitchedSound
  <2> QED
    BY <2>1, <2>2, CommitKeeps
<1>4. ASSUME NEW u \in UserKeys, NEW a \in AgentIDs, SwitchToAgentSession(u, a) PROVE CoreInv'
  <2>1. \/ \E i \in ToSet(owned[u]) : Commit(sessions, [active EXCEPT ![u] = i], owned, counter)
        \/ Commit([i \in DOMAIN sessions \cup {counter + 1} |->
                        IF i = counter + 1 THEN [Fresh EXCEPT !.agent = a] ELSE sessions[i]],
                    [active EXCEPT ![u] = counter + 1],
                    [owned EXCEPT ![u] = Append(@, counter + 1)], counter + 1)
    BY <1>4, Zenon DEF SwitchToAgentSession
  <2>2. ASSUME NEW i \in ToSet(owned[u]), Commit(sessions, [active EXCEPT ![u] = i], owned, counter)
        PROVE  CoreInv'
    BY <1>i, <2>2, SwitchedSound, CommitKeeps
  <2> QED
    BY <2>1, <2>2, CreateKeeps
<1>5. ASSUME NEW removed, DeleteLocked(removed) PROVE CoreInv'
  <2>1. SnapshotSound([i \in DOMAIN sessions \ removed |-> sessions[i]],
                      [u \in UserKeys |-> IF active[u] \in removed THEN 0 ELSE active[u]],
                      [u \in UserKeys |-> Remaining(owned[u], removed)], counter)
    BY <1>i, DeletedSound
  <2> QED
    BY <1>5, <2>1, CommitKeeps DEF DeleteLocked
<1>6. ASSUME NEW k \in Kinds, InvalidateForAgent(k) PROVE CoreInv'
  <2> DEFINE stale == {i \in DOMAIN sessions : sessions[i].agent # NoID /\ sessions[i].kind # k}
             tt == [i \in DOMAIN sessions |->
                       IF i \in stale THEN [Recorded(sessions[i]) EXCEPT !.agent = NoID, !.kind = k]
                       ELSE sessions[i]]
  <2>1. Commit(tt, active, owned, counter)
    BY <1>6, Zenon DEF InvalidateForAgent
  <2>2. DOMAIN tt = DOMAIN sessions
    OBVIOUS
  <2> HIDE DEF tt
  <2>3. SnapshotSound(tt, active, owned, counter)
    BY <1>i, <2>2, SoundByIds
  <2> QED
    BY <2>1, <2>3, CommitKeeps
<1>7. ASSUME NEW i, NEW s, Change(i, s) PROVE CoreInv'
  <2>1. /\ DOMAIN sessions' = DOMAIN sessions
        /\ active' = active /\ owned' = owned /\ counter' = counter /\ disk' = disk /\ saving' = saving
    BY <1>7 DEF Change
  <2>2. SnapshotSound(sessions', active, owned, counter)
    BY <1>i, <2>1, SoundByIds
  <2> QED
    BY <2>1, <2>2 DEF CoreInv, SavedSound
<1>8. ASSUME NEW c \in Savers, SaveReads(c) PROVE CoreInv'
  <2> DEFINE snap == Snapshot(sessions, active, owned, counter, legacy)
  <2>1. /\ saving' = [saving EXCEPT ![c] = {snap}]
        /\ sessions' = sessions /\ active' = active /\ owned' = owned /\ counter' = counter /\ disk' = disk
    BY <1>8 DEF SaveReads
  <2>2. SavedSound(snap)
    BY <1>i DEF SavedSound, Snapshot
  <2> HIDE DEF snap
  <2>3. \A d \in Savers : \A x \in saving'[d] : SavedSound(x)
    BY <2>1, <2>2 DEF CoreInv
  <2>4. DOMAIN saving' = Savers
    BY <2>1 DEF CoreInv
  <2> QED
    BY <1>i, <2>1, <2>3, <2>4 DEF CoreInv, SavedSound
<1>9. ASSUME NEW c \in Savers, SaveWrites(c) PROVE CoreInv'
  <2>1. PICK snap \in saving[c] : disk' \in {disk, snap} /\ saving' = [saving EXCEPT ![c] = {}]
                                  /\ UNCHANGED manager
    BY <1>9 DEF SaveWrites
  <2>2. SavedSound(snap)
    BY DEF CoreInv
  <2>3. SavedSound(disk')
    BY <1>i, <2>1, <2>2
  <2>4. DOMAIN saving' = Savers /\ \A d \in Savers : \A x \in saving'[d] : SavedSound(x)
    BY <2>1 DEF CoreInv
  <2> QED
    BY <1>i, <2>1, <2>3, <2>4 DEF CoreInv, SavedSound, manager
<1>10. ASSUME Restart PROVE CoreInv'
  <2>1. /\ DOMAIN sessions' = DOMAIN disk.sessions /\ active' = disk.active /\ owned' = disk.owned
        /\ counter' = disk.counter /\ disk' = disk /\ saving' = [c \in Savers |-> {}]
    BY <1>10 DEF Restart, Loaded
  <2>2. SnapshotSound(sessions', disk.active, disk.owned, disk.counter)
    BY <1>i, <2>1, SoundByIds DEF SavedSound
  <2> QED
    BY <1>i, <2>1, <2>2 DEF CoreInv, SavedSound
<1>11. ASSUME UNCHANGED coreVars PROVE CoreInv'
  BY <1>11 DEF CoreInv, SavedSound, coreVars, manager
<1>12. \/ \E u \in UserKeys : CreateLocked(u) \/ NewSideSession(u) \/ SwitchSession(u)
       \/ \E u \in UserKeys, a \in AgentIDs : SwitchToAgentSession(u, a)
       \/ \E removed : DeleteLocked(removed)
       \/ \E k \in Kinds : InvalidateForAgent(k)
       \/ \E i, s : Change(i, s)
       \/ \E c \in Savers : SaveReads(c) \/ SaveWrites(c)
       \/ Restart \/ UNCHANGED coreVars
  BY Zenon DEF CoreNext, GetOrCreateActive, NewSession, DeleteByID, DeleteByAgentSessionID,
               SetAgentSessionID, CompareAndSetAgentSessionID
<1> QED
  BY <1>1, <1>2, <1>3, <1>4, <1>5, <1>6, <1>7, <1>8, <1>9, <1>10, <1>11, <1>12

(* The manager starts from no file, or from one that an older version      *)
(* wrote.                                                                  *)
LEMMA CoreStarts == CoreInit => CoreInv
<1> SUFFICES ASSUME CoreInit PROVE CoreInv
  OBVIOUS
<1>1. /\ DOMAIN sessions = DOMAIN disk.sessions /\ active = disk.active /\ owned = disk.owned
      /\ counter = disk.counter /\ saving = [c \in Savers |-> {}]
  BY DEF CoreInit, Loaded
<1>2. SavedSound(disk)
  <2>1. CASE disk = Empty
    <3>1. <<>> \in Seq(Nat) /\ ToSet(<<>>) = {} /\ IsInjective(<<>>)
      BY DEF ToSet, IsInjective
    <3> QED
      BY <2>1, <3>1 DEF SavedSound, SnapshotSound, Sound, Empty
  <2>2. ASSUME NEW u \in UserKeys, NEW a, disk = OldFile(u, a) PROVE SavedSound(disk)
    <3>1. /\ <<1>> \in Seq(Nat) /\ ToSet(<<1>>) = {1} /\ IsInjective(<<1>>)
          /\ <<>> \in Seq(Nat) /\ ToSet(<<>>) = {} /\ IsInjective(<<>>)
      BY DEF ToSet, IsInjective
    <3>2. /\ DOMAIN disk.sessions = {1} /\ disk.counter = 1
          /\ disk.active = [v \in UserKeys |-> IF v = u THEN 1 ELSE 0]
          /\ disk.owned = [v \in UserKeys |-> IF v = u THEN <<1>> ELSE <<>>]
      BY <2>2 DEF OldFile, Empty
    <3> QED
      BY <3>1, <3>2 DEF SavedSound, SnapshotSound, Sound
  <2> QED
    BY <2>1, <2>2 DEF CoreInit
<1>3. SnapshotSound(sessions, active, owned, counter)
  BY <1>1, <1>2, SoundByIds DEF SavedSound
<1> QED
  BY <1>1, <1>2, <1>3 DEF CoreInv

(* Memory and the file a crash would bring back are sound whatever         *)
(* deletions, overlapping saves, failed writes and restarts came before    *)
(* (core.SessionManager: deleteByIDLocked, Save, saveLocked, load).        *)
THEOREM CoreRegistrySound == CoreSpec => []RegistrySound
<1>1. CoreInv => RegistrySound
  BY DEF CoreInv, RegistrySound, SavedSound, SnapshotSound
<1> QED
  BY <1>1, CoreStarts, CoreStep, PTL DEF CoreSpec

-----------------------------------------------------------------------------
(* The relay inside the bridge.  First the mailbox of one device.          *)
Stored == [cursor : Nat \ {0}, size : Sizes, acked : BOOLEAN]

(* The byte count of a mailbox is that of the frames that wait, and within *)
(* the capacity unless one frame waits that alone exceeds it.              *)
QueueSound(frames, bytes) ==
    /\ frames \in Seq(Stored)
    /\ bytes = FrameBytes(frames, Waiting(frames))
    /\ bytes <= HubCap \/ Cardinality(Waiting(frames)) = 1

(* Sizes of frames, and the bytes of some of them, are numbers.            *)
LEMMA FrameFacts ==
    ASSUME NEW frames \in Seq(Stored)
    PROVE  /\ IsFiniteSet(DOMAIN frames) /\ IsFiniteSet(Waiting(frames))
           /\ Waiting(frames) \in SUBSET (DOMAIN frames)
           /\ \A i \in DOMAIN frames : frames[i] \in Stored /\ frames[i].size \in Nat \ {0}
           /\ \A I \in SUBSET (DOMAIN frames) : /\ IsFiniteSet(I) /\ Cardinality(I) \in Nat
                                                /\ FrameBytes(frames, I) \in Nat
<1>1. PICK n \in Nat : DOMAIN frames = 1..n
  OBVIOUS
<1>2. IsFiniteSet(DOMAIN frames)
  BY <1>1, FS_Interval
<1>3. Waiting(frames) \in SUBSET (DOMAIN frames)
  BY DEF Waiting
<1>4. \A i \in DOMAIN frames : frames[i] \in Stored /\ frames[i].size \in Nat \ {0}
  <2>1. \A f \in Stored : f.size \in Nat \ {0}
    BY HubAssumption DEF Stored
  <2> QED
    BY <2>1
<1>5. ASSUME NEW I \in SUBSET (DOMAIN frames)
      PROVE  IsFiniteSet(I) /\ Cardinality(I) \in Nat /\ FrameBytes(frames, I) \in Nat
  <2> DEFINE a == [i \in DOMAIN frames |-> frames[i].size]
  <2>1. IsFiniteSet(I)
    BY <1>2, FS_Subset
  <2>2. \A i \in I : a[i] \in Nat
    BY <1>4
  <2> HIDE DEF a
  <2>3. Total(a, I) \in Nat
    BY <2>1, <2>2, TotalType
  <2> QED
    BY <2>1, <2>3, FS_CardinalityType DEF FrameBytes, a
<1> QED
  BY <1>2, <1>3, <1>4, <1>5

(* The bytes of some frames and of the rest of a set of frames.            *)
LEMMA BytesSplit ==
    ASSUME NEW frames \in Seq(Stored), NEW I \in SUBSET (DOMAIN frames), NEW J \in SUBSET I
    PROVE  /\ FrameBytes(frames, I) = FrameBytes(frames, J) + FrameBytes(frames, I \ J)
           /\ FrameBytes(frames, J) \in Nat /\ FrameBytes(frames, I \ J) \in Nat
<1> DEFINE a == [i \in DOMAIN frames |-> frames[i].size]
<1>1. IsFiniteSet(I) /\ \A i \in I : a[i] \in Nat
  BY FrameFacts
<1> HIDE DEF a
<1>2. /\ Total(a, J) \in Nat /\ Total(a, I \ J) \in Nat
      /\ Total(a, I) = Total(a, J) + Total(a, I \ J)
  <2>1. /\ Total(a, J) \in Nat /\ Total(a, I \ J) \in Nat
    BY <1>1, TotalSplit
  <2>2. Total(a, I) = Total(a, J) + Total(a, I \ J)
    BY <1>1, TotalSplit
  <2> QED
    BY <2>1, <2>2
<1> QED
  BY <1>2 DEF FrameBytes, a

(* Frames are acknowledged: the count loses what they count.               *)
LEMMA FramesAcked ==
    ASSUME NEW frames \in Seq(Stored), NEW I \in SUBSET Waiting(frames)
    PROVE  /\ Acked(frames, I) \in Seq(Stored) /\ Len(Acked(frames, I)) = Len(frames)
           /\ Waiting(Acked(frames, I)) = Waiting(frames) \ I
           /\ \A J : FrameBytes(Acked(frames, I), J) = FrameBytes(frames, J)
           /\ FrameBytes(Acked(frames, I), Waiting(frames) \ I)
                = FrameBytes(frames, Waiting(frames)) - FrameBytes(frames, I)
<1> DEFINE g == Acked(frames, I)
<1>1. PICK n \in Nat : DOMAIN frames = 1..n /\ Len(frames) = n
  OBVIOUS
<1>2. ASSUME NEW i \in DOMAIN frames
      PROVE  /\ g[i] \in Stored /\ g[i].size = frames[i].size
             /\ g[i].acked <=> frames[i].acked \/ i \in I
  <2>1. PICK f \in Stored : f = frames[i]
    BY FrameFacts
  <2>2. g[i] = IF i \in I THEN [f EXCEPT !.acked = TRUE] ELSE f
    BY <2>1 DEF Acked
  <2>3. /\ [f EXCEPT !.acked = TRUE] \in Stored /\ [f EXCEPT !.acked = TRUE].size = f.size
        /\ [f EXCEPT !.acked = TRUE].acked
    BY DEF Stored
  <2> QED
    BY <2>1, <2>2, <2>3
<1>3. DOMAIN g = DOMAIN frames
  BY DEF Acked
<1>4. g \in [1..n -> Stored]
  BY <1>1, <1>2, <1>3 DEF Acked
<1>5. g \in Seq(Stored) /\ Len(g) = Len(frames)
  BY <1>1, <1>4
<1> HIDE DEF g
<1>6. Waiting(g) = Waiting(frames) \ I
  BY <1>2, <1>3 DEF Waiting
<1>7. [i \in DOMAIN g |-> g[i].size] = [i \in DOMAIN frames |-> frames[i].size]
  BY <1>2, <1>3
<1>8. \A J : FrameBytes(g, J) = FrameBytes(frames, J)
  BY <1>7 DEF FrameBytes
<1>9. /\ FrameBytes(frames, Waiting(frames))
           = FrameBytes(frames, I) + FrameBytes(frames, Waiting(frames) \ I)
      /\ FrameBytes(frames, I) \in Nat /\ FrameBytes(frames, Waiting(frames) \ I) \in Nat
  BY FrameFacts, BytesSplit
<1>10. FrameBytes(g, Waiting(frames) \ I) = FrameBytes(frames, Waiting(frames) \ I)
  BY <1>8
<1>11. FrameBytes(g, Waiting(frames) \ I)
         = FrameBytes(frames, Waiting(frames)) - FrameBytes(frames, I)
  BY <1>9, <1>10
<1> QED
  BY <1>5, <1>6, <1>8, <1>11 DEF g

(* Frames that are acknowledged leave the count with the frames that wait. *)
LEMMA AckedQueueSound ==
    ASSUME NEW frames, NEW bytes, QueueSound(frames, bytes), NEW I \in SUBSET Waiting(frames)
    PROVE  QueueSound(Acked(frames, I), bytes - FrameBytes(frames, I))
<1> DEFINE W == Waiting(frames)
           g == Acked(frames, I)
<1>1. frames \in Seq(Stored) /\ bytes = FrameBytes(frames, W) /\ (bytes <= HubCap \/ Cardinality(W) = 1)
  BY DEF QueueSound
<1>2. /\ g \in Seq(Stored) /\ Waiting(g) = W \ I
      /\ FrameBytes(g, W \ I) = bytes - FrameBytes(frames, I)
  BY <1>1, FramesAcked
<1>3. IsFiniteSet(W) /\ W \in SUBSET (DOMAIN frames) /\ I \in SUBSET (DOMAIN frames)
  BY <1>1, FrameFacts
<1>4. bytes \in Nat /\ FrameBytes(frames, I) \in Nat /\ HubCap \in Nat
  BY <1>1, <1>3, FrameFacts, HubAssumption
<1>5. bytes - FrameBytes(frames, I) <= HubCap \/ Cardinality(W \ I) = 1
  <2>1. CASE bytes <= HubCap
    BY <1>4, <2>1
  <2>2. CASE Cardinality(W) = 1
    <3>1. PICK x : W = {x}
      BY <1>3, <2>2, FS_Singleton
    <3>2. CASE I = {}
      <4>1. W \ I = W
        BY <3>2
      <4> QED
        BY <2>2, <4>1
    <3>3. CASE I = W
      BY <1>1, <1>4, <3>3
    <3> QED
      BY <3>1, <3>2, <3>3
  <2> QED
    BY <1>1, <2>1, <2>2
<1> QED
  BY <1>2, <1>5 DEF QueueSound

(* A frame is appended: it waits, and the count gains its size.            *)
LEMMA FrameAppended ==
    ASSUME NEW frames \in Seq(Stored), NEW f \in Stored, ~f.acked
    PROVE  LET g == Append(frames, f) IN
           /\ g \in Seq(Stored)
           /\ Waiting(g) = Waiting(frames) \cup {Len(frames) + 1}
           /\ Cardinality(Waiting(g)) = Cardinality(Waiting(frames)) + 1
           /\ FrameBytes(g, Waiting(g)) = FrameBytes(frames, Waiting(frames)) + f.size
<1> DEFINE g == Append(frames, f)
           l == Len(frames) + 1
           W == Waiting(frames)
           a == [i \in DOMAIN frames |-> frames[i].size]
           b == [i \in DOMAIN g |-> g[i].size]
<1>1. /\ g \in Seq(Stored) /\ DOMAIN g = DOMAIN frames \cup {l} /\ l \notin DOMAIN frames
      /\ g[l] = f /\ \A i \in DOMAIN frames : g[i] = frames[i]
  OBVIOUS
<1>2. IsFiniteSet(W) /\ W \in SUBSET (DOMAIN frames) /\ l \notin W
  BY <1>1, FrameFacts
<1>3. Waiting(g) = W \cup {l}
  BY <1>1 DEF Waiting
<1>4. Cardinality(W \cup {l}) = Cardinality(W) + 1
  BY <1>2, FS_AddElement
<1>5. \A i \in W \cup {l} : b[i] \in Nat
  <2>1. \A i \in DOMAIN g : g[i].size \in Nat
    BY <1>1, FrameFacts
  <2> QED
    BY <1>1, <1>2, <2>1
<1>6. (\A i \in W : a[i] = b[i]) /\ b[l] = f.size
  BY <1>1, <1>2
<1> HIDE DEF a, b, W, l, g
<1>7. Total(b, W \cup {l}) = Total(b, W) + b[l]
  BY <1>2, <1>5, TotalAdd
<1>8. Total(a, W) = Total(b, W)
  BY <1>6, TotalSame
<1>9. FrameBytes(g, W \cup {l}) = FrameBytes(frames, W) + f.size
  BY <1>6, <1>7, <1>8 DEF FrameBytes, a, b
<1> QED
  BY <1>1, <1>3, <1>4, <1>9 DEF g, l, W

(* The eviction frees the bytes needed or every frame that waits: the      *)
(* first one it leaves is preceded by frames of that many bytes.           *)
LEMMA EvictionFrees ==
    ASSUME NEW frames \in Seq(Stored), NEW need \in Nat
    PROVE  /\ Evicted(frames, need) \in SUBSET Waiting(frames)
           /\ \/ FrameBytes(frames, Evicted(frames, need)) >= need
              \/ Evicted(frames, need) = Waiting(frames)
<1> DEFINE W == Waiting(frames)
           out == Evicted(frames, need)
           left == W \ out
           before(i) == {j \in W : j < i}
<1>1. out \in SUBSET W /\ \A i \in W : i \in out <=> FrameBytes(frames, before(i)) < need
  BY DEF Evicted
<1>2. W \in SUBSET (DOMAIN frames) /\ W \in SUBSET Nat
  BY FrameFacts
<1> HIDE DEF out, W
<1>3. CASE left # {}
  <2>1. PICK i \in left : \A j \in left : i <= j
    <3>1. left \in SUBSET Nat
      BY <1>2
    <3> HIDE DEF left
    <3> QED
      BY <1>3, <3>1, LeastOf
  <2>2. before(i) \in SUBSET out
    <3>1. ASSUME NEW j \in W, j < i PROVE j \in out
      <4>1. j \in Nat /\ i \in Nat
        BY <1>2
      <4>2. j \notin left
        BY <2>1, <3>1, <4>1
      <4> QED
        BY <4>2
    <3> QED
      BY <3>1
  <2>3. i \in W /\ i \notin out
    BY <2>1
  <2>4. ~(FrameBytes(frames, before(i)) < need)
    BY <1>1, <2>3
  <2> DEFINE B == before(i)
  <2>5. B \in SUBSET out /\ ~(FrameBytes(frames, B) < need)
    BY <2>2, <2>4
  <2> HIDE DEF B
  <2>6. out \in SUBSET (DOMAIN frames)
    BY <1>1, <1>2
  <2>7. /\ FrameBytes(frames, out) = FrameBytes(frames, B) + FrameBytes(frames, out \ B)
        /\ FrameBytes(frames, B) \in Nat /\ FrameBytes(frames, out \ B) \in Nat
    BY <2>5, <2>6, BytesSplit
  <2>8. FrameBytes(frames, out) >= need
    BY <2>5, <2>7
  <2> QED
    BY <1>1, <2>8 DEF out, W
<1>4. CASE left = {}
  <2>1. out = W
    BY <1>1, <1>4
  <2> QED
    BY <1>1, <2>1 DEF out, W
<1> QED
  BY <1>3, <1>4

(* enqueueMailbox: evict when the frame does not fit, then append it.      *)
LEMMA StoredQueueSound ==
    ASSUME NEW frames, NEW bytes, QueueSound(frames, bytes), NEW f \in Stored, ~f.acked,
           NEW out, out = IF bytes + f.size > HubCap THEN Evicted(frames, f.size) ELSE {}
    PROVE  QueueSound(Append(Acked(frames, out), f), bytes - FrameBytes(frames, out) + f.size)
<1> DEFINE W == Waiting(frames)
           g == Acked(frames, out)
           h == Append(g, f)
           freed == FrameBytes(frames, out)
<1>1. frames \in Seq(Stored) /\ bytes = FrameBytes(frames, W) /\ (bytes <= HubCap \/ Cardinality(W) = 1)
  BY DEF QueueSound
<1>2. f.size \in Nat \ {0} /\ HubCap \in Nat
  BY HubAssumption DEF Stored
<1>3. /\ out \in SUBSET W
      /\ bytes + f.size > HubCap => freed >= f.size \/ out = W
  BY <1>1, <1>2, EvictionFrees
<1>4. /\ g \in Seq(Stored) /\ Waiting(g) = W \ out
      /\ FrameBytes(g, W \ out) = bytes - freed
  BY <1>1, <1>3, FramesAcked
<1>5. /\ h \in Seq(Stored) /\ Cardinality(Waiting(h)) = Cardinality(W \ out) + 1
      /\ FrameBytes(h, Waiting(h)) = bytes - freed + f.size
  BY ZenonT(60), <1>4, FrameAppended
<1>6. bytes \in Nat /\ freed \in Nat /\ IsFiniteSet(W)
  <2>1. W \in SUBSET (DOMAIN frames) /\ out \in SUBSET (DOMAIN frames)
    BY <1>1, <1>3, FrameFacts
  <2> QED
    BY <1>1, <2>1, FrameFacts
<1>7. bytes - freed + f.size <= HubCap \/ Cardinality(W \ out) = 0
  <2>1. CASE out = W
    <3>1. W \ out = {}
      BY <2>1
    <3> QED
      BY <3>1, FS_EmptySet
  <2>2. CASE ~(bytes + f.size > HubCap)
    <3>1. freed \in Nat /\ bytes + f.size <= HubCap
      BY <1>2, <1>6, <2>2
    <3> QED
      BY <1>2, <1>6, <3>1
  <2>3. CASE freed >= f.size /\ bytes <= HubCap
    BY <1>2, <1>6, <2>3
  <2>4. CASE freed >= f.size /\ Cardinality(W) = 1
    <3>1. PICK x : W = {x}
      BY <1>6, <2>4, FS_Singleton
    <3>2. out # {}
      <4>1. ASSUME out = {} PROVE FALSE
        <5>1. freed = 0
          BY <4>1, TotalSmall DEF FrameBytes
        <5> QED
          BY <1>2, <2>4, <5>1
      <4> QED
        BY <4>1
    <3>3. W \ out = {}
      BY <1>3, <3>1, <3>2
    <3> QED
      BY <3>3, FS_EmptySet
  <2> QED
    BY <1>1, <1>3, <2>1, <2>2, <2>3, <2>4
<1> HIDE DEF h
<1>8. bytes - freed + f.size <= HubCap \/ Cardinality(Waiting(h)) = 1
  BY <1>5, <1>7
<1> QED
  BY <1>5, <1>8 DEF QueueSound, h

-----------------------------------------------------------------------------
(* The sockets of the devices, and the frames between the hub's two locks. *)
DeviceRecord == [reg : Nat, revoked : BOOLEAN, conn : SUBSET Sockets]
SocketRecord == [dev : SUBSET HubDevices, cred : Nat, stage : {"none", "upgraded", "reading", "gone"},
                 closed : BOOLEAN, marked : BOOLEAN]
FrameInHand == [dev : HubDevices, size : Sizes, to : SUBSET Sockets]

(* A device's newest socket is its own, and while it reads the hub has it. *)
NewestSound(d) ==
    \A s \in newest[d] :
        /\ s \in Sockets /\ sock[s].dev = {d} /\ sock[s].stage \in {"reading", "gone"}
        /\ sock[s].stage = "reading" => device[d].conn = {s}

(* The inductive invariant: every mailbox is counted exactly, every newest *)
(* socket is the one of its device.                                        *)
HubInv ==
    /\ device \in [HubDevices -> DeviceRecord]
    /\ sock \in [Sockets -> SocketRecord]
    /\ fwd \in [MacSockets -> SUBSET FrameInHand]
    /\ mailboxSeq \in Nat
    /\ DOMAIN mailbox = HubDevices /\ DOMAIN mailboxBytes = HubDevices /\ DOMAIN newest = HubDevices
    /\ \A d \in HubDevices : QueueSound(mailbox[d], mailboxBytes[d])
    /\ \A d \in HubDevices : NewestSound(d)

(* The invariant has the property as a consequence.                        *)
LEMMA HubInvImplies == HubInv => HubSound
<1> SUFFICES ASSUME HubInv PROVE HubSound
  OBVIOUS
<1>1. NewestSocketReached
  BY DEF HubInv, NewestSound, NewestSocketReached
<1>2. ASSUME NEW d \in HubDevices
      PROVE  /\ mailboxBytes[d] = FrameBytes(mailbox[d], FetchMailbox(d, 0))
             /\ mailboxBytes[d] <= HubCap \/ Cardinality(FetchMailbox(d, 0)) = 1
  <2>1. QueueSound(mailbox[d], mailboxBytes[d])
    BY DEF HubInv
  <2>2. \A f \in Stored : f.cursor > 0
    BY DEF Stored
  <2>3. FetchMailbox(d, 0) = Waiting(mailbox[d])
    BY <2>1, <2>2, FrameFacts DEF FetchMailbox, QueueSound
  <2> QED
    BY <2>1, <2>3 DEF QueueSound
<1> QED
  BY <1>1, <1>2 DEF HubSound, HubBytesExact

(* The mailbox before its first frame, and after a revocation.             *)
LEMMA EmptyQueueSound == QueueSound(<<>>, 0)
<1>1. <<>> \in Seq(Stored) /\ Waiting(<<>>) = {}
  BY DEF Waiting
<1>2. FrameBytes(<<>>, {}) = 0
  BY TotalSmall DEF FrameBytes
<1>3. 0 <= HubCap
  BY HubAssumption
<1> HIDE DEF Stored
<1> QED
  BY <1>1, <1>2, <1>3 DEF QueueSound

(* No device is registered at the start.                                   *)
LEMMA HubStarts == HubInit => HubInv
<1> SUFFICES ASSUME HubInit PROVE HubInv
  OBVIOUS
<1>1. QueueSound(<<>>, 0)
  BY EmptyQueueSound
<1>2. device \in [HubDevices -> DeviceRecord] /\ sock \in [Sockets -> SocketRecord]
  BY DEF HubInit, DeviceRecord, SocketRecord
<1>3. /\ fwd \in [MacSockets -> SUBSET FrameInHand] /\ mailboxSeq \in Nat
      /\ DOMAIN mailbox = HubDevices /\ DOMAIN mailboxBytes = HubDevices /\ DOMAIN newest = HubDevices
  BY DEF HubInit
<1>4. \A d \in HubDevices : mailbox[d] = <<>> /\ mailboxBytes[d] = 0 /\ newest[d] = {}
  BY DEF HubInit
<1> QED
  BY <1>1, <1>2, <1>3, <1>4 DEF HubInv, NewestSound

(* A step that leaves the mailboxes alone.                                 *)
LEMMA SocketsMove ==
    ASSUME HubInv, mailbox' = mailbox, mailboxBytes' = mailboxBytes, mailboxSeq' = mailboxSeq,
           device' \in [HubDevices -> DeviceRecord], sock' \in [Sockets -> SocketRecord],
           fwd' \in [MacSockets -> SUBSET FrameInHand], DOMAIN newest' = HubDevices,
           \A d \in HubDevices : NewestSound(d)'
    PROVE  HubInv'
BY DEF HubInv

(* A step that leaves the sockets, and what the devices have of them.      *)
LEMMA SocketsStay ==
    ASSUME HubInv, newest' = newest, UNCHANGED <<sock, device>>
    PROVE  \A d \in HubDevices : NewestSound(d)'
BY DEF HubInv, NewestSound

(* RevokeDevice empties the mailbox, and marks the socket but leaves it    *)
(* with its device.                                                        *)
LEMMA RevokeKeepsHub ==
    ASSUME HubInv, NEW d \in HubDevices, RevokeDevice(d)
    PROVE  HubInv'
<1>1. /\ device' = [device EXCEPT ![d].revoked = TRUE]
      /\ mailbox' = [mailbox EXCEPT ![d] = <<>>] /\ mailboxBytes' = [mailboxBytes EXCEPT ![d] = 0]
      /\ sock' = [s \in Sockets |-> IF s \in device[d].conn
                                    THEN [sock[s] EXCEPT !.closed = TRUE, !.marked = TRUE] ELSE sock[s]]
      /\ UNCHANGED <<fwd, mailboxSeq, newest>>
  BY DEF RevokeDevice
<1>2. QueueSound(<<>>, 0)
  BY EmptyQueueSound
<1>3. /\ device' \in [HubDevices -> DeviceRecord]
      /\ \A e \in HubDevices : device'[e].conn = device[e].conn
  BY <1>1 DEF HubInv, DeviceRecord
<1>4. ASSUME NEW s \in Sockets
      PROVE  sock'[s] \in SocketRecord /\ sock'[s].dev = sock[s].dev /\ sock'[s].stage = sock[s].stage
  <2>1. PICK r \in SocketRecord : r = sock[s]
    BY DEF HubInv
  <2>2. sock'[s] = r \/ sock'[s] = [r EXCEPT !.closed = TRUE, !.marked = TRUE]
    BY <1>1, <2>1
  <2> QED
    BY <2>1, <2>2 DEF SocketRecord
<1>5. sock' \in [Sockets -> SocketRecord]
  BY <1>1, <1>4
<1>6. \A e \in HubDevices : NewestSound(e)'
  BY ZenonT(60), <1>1, <1>3, <1>4 DEF HubInv, NewestSound
<1>7. /\ DOMAIN mailbox' = HubDevices /\ DOMAIN mailboxBytes' = HubDevices
      /\ \A e \in HubDevices : QueueSound(mailbox'[e], mailboxBytes'[e])
  BY <1>1, <1>2 DEF HubInv
<1> QED
  BY <1>1, <1>3, <1>5, <1>6, <1>7 DEF HubInv

(* ConnectDevice makes the socket the newest and the one of its device, or *)
(* turns it away.                                                          *)
LEMMA ConnectKeepsHub ==
    ASSUME HubInv, NEW s \in Sockets, NEW d \in HubDevices, ConnectDevice(s, d)
    PROVE  HubInv'
<1>1. sock[s].stage = "upgraded" /\ sock[s].dev = {d}
  BY DEF ConnectDevice
<1>2. UNCHANGED <<fwd, mailbox, mailboxBytes, mailboxSeq>>
  BY DEF ConnectDevice
<1>3. PICK r \in SocketRecord : r = sock[s]
  BY DEF HubInv
<1>4. CASE /\ device' = [device EXCEPT ![d].conn = {s}]
           /\ sock' = [sock EXCEPT ![s].stage = "reading"]
           /\ newest' = [newest EXCEPT ![d] = {s}]
  <2> DEFINE q == [r EXCEPT !.stage = "reading"]
  <2>1. q \in SocketRecord /\ q.stage = "reading" /\ q.dev = {d}
    BY <1>1, <1>3 DEF SocketRecord
  <2>2. sock' = [sock EXCEPT ![s] = q]
    BY <1>3, <1>4
  <2> HIDE DEF q
  <2>3. sock' \in [Sockets -> SocketRecord] /\ sock'[s] = q /\ \A t \in Sockets : t # s => sock'[t] = sock[t]
    BY <2>1, <2>2 DEF HubInv
  <2>4. /\ device' \in [HubDevices -> DeviceRecord] /\ device'[d].conn = {s}
        /\ \A e \in HubDevices : e # d => device'[e] = device[e]
    BY <1>4 DEF HubInv, DeviceRecord
  <2>5. DOMAIN newest' = HubDevices /\ newest'[d] = {s} /\ \A e \in HubDevices : e # d => newest'[e] = newest[e]
    BY <1>4 DEF HubInv
  <2>6. ASSUME NEW e \in HubDevices PROVE NewestSound(e)'
    <3>1. CASE e = d
      BY <2>1, <2>3, <2>4, <2>5, <3>1 DEF NewestSound
    <3>2. CASE e # d
      <4>1. s \notin newest[e]
        BY <1>1 DEF HubInv, NewestSound
      <4> QED
        BY <2>3, <2>4, <2>5, <3>2, <4>1 DEF HubInv, NewestSound
    <3> QED
      BY <3>1, <3>2
  <2>7. fwd' \in [MacSockets -> SUBSET FrameInHand]
    BY <1>2 DEF HubInv
  <2> QED
    BY <1>2, <2>3, <2>4, <2>5, <2>6, <2>7, SocketsMove
<1>5. CASE /\ sock' = [sock EXCEPT ![s].stage = "gone", ![s].closed = TRUE]
           /\ UNCHANGED <<device, newest>>
  <2> DEFINE q == [r EXCEPT !.stage = "gone", !.closed = TRUE]
  <2>1. q \in SocketRecord
    BY DEF SocketRecord
  <2>2. sock' = [sock EXCEPT ![s] = q]
    BY <1>3, <1>5
  <2> HIDE DEF q
  <2>3. sock' \in [Sockets -> SocketRecord] /\ \A t \in Sockets : t # s => sock'[t] = sock[t]
    BY <2>1, <2>2 DEF HubInv
  <2>4. ASSUME NEW e \in HubDevices PROVE NewestSound(e)'
    <3>1. s \notin newest[e]
      BY <1>1 DEF HubInv, NewestSound
    <3> QED
      BY <1>5, <2>3, <3>1 DEF HubInv, NewestSound
  <2>5. /\ fwd' \in [MacSockets -> SUBSET FrameInHand] /\ device' \in [HubDevices -> DeviceRecord]
        /\ DOMAIN newest' = HubDevices
    BY <1>2, <1>5 DEF HubInv
  <2> QED
    BY <1>2, <2>3, <2>4, <2>5, SocketsMove
<1> QED
  BY <1>4, <1>5, Zenon DEF ConnectDevice

(* A socket that belongs to nobody's newest place, or keeps its stage.     *)
LEMMA SocketChanges ==
    ASSUME HubInv, NEW s \in Sockets, NEW q \in SocketRecord, sock' = [sock EXCEPT ![s] = q],
           (q.dev = sock[s].dev /\ q.stage = sock[s].stage) \/ sock[s].stage = "none",
           UNCHANGED <<device, fwd, mailbox, mailboxBytes, mailboxSeq, newest>>
    PROVE  HubInv'
<1>1. sock' \in [Sockets -> SocketRecord] /\ sock'[s] = q /\ \A t \in Sockets : t # s => sock'[t] = sock[t]
  BY DEF HubInv
<1>2. ASSUME NEW e \in HubDevices PROVE NewestSound(e)'
  <2>1. NewestSound(e)
    BY DEF HubInv
  <2>2. ASSUME NEW t \in newest[e]
        PROVE  /\ t \in Sockets /\ sock'[t].dev = {e} /\ sock'[t].stage \in {"reading", "gone"}
               /\ sock'[t].stage = "reading" => device[e].conn = {t}
    <3>1. CASE t # s
      BY <1>1, <2>1, <3>1 DEF NewestSound
    <3>2. CASE t = s
      BY <1>1, <2>1, <3>2 DEF NewestSound
    <3> QED
      BY <3>1, <3>2
  <2> QED
    BY <2>2 DEF NewestSound
<1>3. /\ fwd' \in [MacSockets -> SUBSET FrameInHand] /\ device' \in [HubDevices -> DeviceRecord]
      /\ DOMAIN newest' = HubDevices
  BY DEF HubInv
<1> QED
  BY <1>1, <1>2, <1>3, SocketsMove

(* DisconnectDevice takes the connection away only from its own socket.    *)
LEMMA HandlerEndKeepsHub ==
    ASSUME HubInv, NEW s \in Sockets, NEW d \in HubDevices, DeviceHandlerEnds(s, d)
    PROVE  HubInv'
<1>1. sock[s].dev = {d} /\ UNCHANGED <<fwd, mailbox, mailboxBytes, mailboxSeq, newest>>
  BY DEF DeviceHandlerEnds
<1>2. PICK r \in SocketRecord : r = sock[s]
  BY DEF HubInv
<1>3. PICK q \in SocketRecord : /\ sock' = [sock EXCEPT ![s] = q] /\ q.stage = "gone" /\ q.dev = {d}
  <2>1. \/ sock' = [sock EXCEPT ![s].stage = "gone", ![s].marked = TRUE]
        \/ sock' = [sock EXCEPT ![s].stage = "gone"]
    BY Zenon DEF DeviceHandlerEnds, DisconnectDevice
  <2> DEFINE a == [r EXCEPT !.stage = "gone", !.marked = TRUE]
             b == [r EXCEPT !.stage = "gone"]
  <2>2. /\ a \in SocketRecord /\ a.stage = "gone" /\ a.dev = {d}
        /\ b \in SocketRecord /\ b.stage = "gone" /\ b.dev = {d}
    BY <1>1, <1>2 DEF SocketRecord
  <2>3. sock' = [sock EXCEPT ![s] = a] \/ sock' = [sock EXCEPT ![s] = b]
    BY <1>2, <2>1
  <2> HIDE DEF a, b
  <2> QED
    BY <2>2, <2>3
<1>4. sock' \in [Sockets -> SocketRecord] /\ sock'[s] = q /\ \A t \in Sockets : t # s => sock'[t] = sock[t]
  BY <1>3 DEF HubInv
<1>5. /\ device' \in [HubDevices -> DeviceRecord]
      /\ \A e \in HubDevices : device'[e].conn = device[e].conn \/ (e = d /\ s \in device[d].conn)
  <2>1. CASE s \in device[d].conn /\ device' = [device EXCEPT ![d].conn = {}]
    BY <2>1 DEF HubInv, DeviceRecord
  <2>2. CASE device' = device
    BY <2>2 DEF HubInv
  <2> QED
    BY <2>1, <2>2, Zenon DEF DeviceHandlerEnds, DisconnectDevice
<1>6. ASSUME NEW e \in HubDevices PROVE NewestSound(e)'
  <2>1. NewestSound(e) /\ newest' = newest
    BY <1>1 DEF HubInv
  <2>2. ASSUME NEW t \in newest[e]
        PROVE  /\ t \in Sockets /\ sock'[t].dev = {e} /\ sock'[t].stage \in {"reading", "gone"}
               /\ sock'[t].stage = "reading" => device'[e].conn = {t}
    <3>1. /\ t \in Sockets /\ sock[t].dev = {e} /\ sock[t].stage \in {"reading", "gone"}
          /\ sock[t].stage = "reading" => device[e].conn = {t}
      BY <2>1 DEF NewestSound
    <3>2. CASE t = s
      BY <1>1, <1>3, <1>4, <3>1, <3>2
    <3>3. CASE t # s
      <4>1. sock'[t] = sock[t]
        BY <1>4, <3>1, <3>3
      <4>2. sock[t].stage = "reading" => device'[e].conn = {t}
        BY <1>5, <3>1, <3>3
      <4> QED
        BY <3>1, <4>1, <4>2
    <3> QED
      BY <3>2, <3>3
  <2> QED
    BY <2>1, <2>2 DEF NewestSound
<1>7. fwd' \in [MacSockets -> SUBSET FrameInHand] /\ DOMAIN newest' = HubDevices
  BY <1>1 DEF HubInv
<1> QED
  BY <1>1, <1>4, <1>5, <1>6, <1>7, SocketsMove

(* A frame in hand is stored, whatever became of its device.               *)
LEMMA StoreKeepsHub ==
    ASSUME HubInv, NEW b \in MacSockets, ForwardStores(b)
    PROVE  HubInv'
<1>1. PICK f \in fwd[b] :
        LET frames == mailbox[f.dev]
            full == mailboxBytes[f.dev] + f.size > HubCap
            out == IF full THEN Evicted(frames, f.size) ELSE {}
        IN  /\ f.to = {}
            /\ fwd' = [fwd EXCEPT ![b] = {}]
            /\ mailboxSeq' = mailboxSeq + 1
            /\ mailbox' = [mailbox EXCEPT ![f.dev] =
                             Append(Acked(frames, out), [cursor |-> mailboxSeq', size |-> f.size, acked |-> FALSE])]
            /\ mailboxBytes' = [mailboxBytes EXCEPT ![f.dev] = @ - FrameBytes(frames, out) + f.size]
            /\ UNCHANGED <<device, bridgeConn, sock, mac, deliveries, sent, newest>>
  BY Zenon DEF ForwardStores
<1>2. f \in FrameInHand /\ f.dev \in HubDevices /\ f.size \in Sizes
  BY DEF HubInv, FrameInHand
<1> DEFINE d == f.dev
           frames == mailbox[d]
           out == IF mailboxBytes[d] + f.size > HubCap THEN Evicted(frames, f.size) ELSE {}
           g == [cursor |-> mailboxSeq + 1, size |-> f.size, acked |-> FALSE]
           ms == Append(Acked(frames, out), g)
           n == mailboxBytes[d] - FrameBytes(frames, out) + f.size
<1>3. g \in Stored /\ ~g.acked /\ g.size = f.size
  BY <1>2 DEF HubInv, Stored
<1>4. /\ mailbox' = [mailbox EXCEPT ![d] = ms] /\ mailboxBytes' = [mailboxBytes EXCEPT ![d] = n]
      /\ mailboxSeq' = mailboxSeq + 1 /\ fwd' = [fwd EXCEPT ![b] = {}]
      /\ UNCHANGED <<device, sock, newest>>
  BY <1>1
<1>5. QueueSound(frames, mailboxBytes[d])
  BY <1>2 DEF HubInv
<1>6. QueueSound(ms, n)
  <2>1. out = IF mailboxBytes[d] + g.size > HubCap THEN Evicted(frames, g.size) ELSE {}
    BY <1>3
  <2>2. n = mailboxBytes[d] - FrameBytes(frames, out) + g.size
    BY <1>3
  <2> HIDE DEF frames, out, g, n
  <2> QED
    BY <1>3, <1>5, <2>1, <2>2, StoredQueueSound
<1> HIDE DEF ms, n
<1>7. /\ DOMAIN mailbox' = HubDevices /\ DOMAIN mailboxBytes' = HubDevices
      /\ \A e \in HubDevices : QueueSound(mailbox'[e], mailboxBytes'[e])
  BY <1>2, <1>4, <1>6 DEF HubInv
<1>8. mailboxSeq' \in Nat /\ fwd' \in [MacSockets -> SUBSET FrameInHand]
  BY <1>4 DEF HubInv
<1>9. \A e \in HubDevices : NewestSound(e)'
  BY <1>4, SocketsStay
<1> QED
  BY <1>4, <1>7, <1>8, <1>9 DEF HubInv

(* AckMailbox takes the bytes of what it marks off the count.              *)
LEMMA AckKeepsHub ==
    ASSUME HubInv, NEW d \in HubDevices, NEW c, AckMailbox(d, c)
    PROVE  HubInv'
<1> DEFINE frames == mailbox[d]
           I == AckedNow(frames, c)
           ms == Acked(frames, I)
           n == mailboxBytes[d] - FrameBytes(frames, I)
<1>1. /\ mailbox' = [mailbox EXCEPT ![d] = ms] /\ mailboxBytes' = [mailboxBytes EXCEPT ![d] = n]
      /\ UNCHANGED <<device, sock, fwd, mailboxSeq, newest>>
  BY DEF AckMailbox
<1>2. QueueSound(frames, mailboxBytes[d]) /\ I \in SUBSET Waiting(frames)
  BY DEF HubInv, AckedNow
<1>3. QueueSound(ms, n)
  <2> HIDE DEF frames, I
  <2> QED
    BY <1>2, AckedQueueSound
<1> HIDE DEF ms, n
<1>4. /\ DOMAIN mailbox' = HubDevices /\ DOMAIN mailboxBytes' = HubDevices
      /\ \A e \in HubDevices : QueueSound(mailbox'[e], mailboxBytes'[e])
  BY <1>1, <1>3 DEF HubInv
<1>5. \A e \in HubDevices : NewestSound(e)'
  BY <1>1, SocketsStay
<1> QED
  BY <1>1, <1>4, <1>5 DEF HubInv

(* Every step keeps the invariant.                                         *)
LEMMA HubStep == HubInv /\ [HubNext]_hubVars => HubInv'
<1> SUFFICES ASSUME HubInv, [HubNext]_hubVars PROVE HubInv'
  OBVIOUS
<1> DEFINE Still == UNCHANGED <<device, sock, mailbox, mailboxBytes, mailboxSeq, newest>>
<1>0. ASSUME Still, fwd' \in [MacSockets -> SUBSET FrameInHand] PROVE HubInv'
  <2>1. \A d \in HubDevices : NewestSound(d)'
    BY <1>0, SocketsStay
  <2> QED
    BY <1>0, <2>1 DEF HubInv
<1>1. ASSUME NEW d \in HubDevices, RegisterDevice(d) PROVE HubInv'
  <2> DEFINE r == [reg |-> device[d].reg + 1, revoked |-> FALSE, conn |-> {}]
  <2>1. /\ device' = [device EXCEPT ![d] = r]
        /\ newest' = [newest EXCEPT ![d] = {}]
        /\ UNCHANGED <<sock, fwd, mailbox, mailboxBytes, mailboxSeq>>
    BY <1>1 DEF RegisterDevice
  <2>2. r \in DeviceRecord
    BY DEF HubInv, DeviceRecord
  <2> HIDE DEF r
  <2>3. device' \in [HubDevices -> DeviceRecord] /\ \A e \in HubDevices : e # d => device'[e] = device[e]
    BY <2>1, <2>2 DEF HubInv
  <2>4. DOMAIN newest' = HubDevices /\ newest'[d] = {} /\ \A e \in HubDevices : e # d => newest'[e] = newest[e]
    BY <2>1 DEF HubInv
  <2>5. \A e \in HubDevices : NewestSound(e)'
    BY <2>1, <2>3, <2>4 DEF HubInv, NewestSound
  <2>6. sock' \in [Sockets -> SocketRecord] /\ fwd' \in [MacSockets -> SUBSET FrameInHand]
    BY <2>1 DEF HubInv
  <2> QED
    BY <2>1, <2>3, <2>4, <2>5, <2>6, SocketsMove
<1>2. ASSUME NEW s \in Sockets, NEW d \in HubDevices, UpgradeDevice(s, d) PROVE HubInv'
  <2>1. PICK r \in SocketRecord : r = sock[s]
    BY DEF HubInv
  <2> DEFINE q == [r EXCEPT !.dev = {d}, !.cred = device[d].reg, !.stage = "upgraded"]
  <2>2. sock' = [sock EXCEPT ![s] = q] /\ sock[s].stage = "none"
        /\ UNCHANGED <<device, fwd, mailbox, mailboxBytes, mailboxSeq, newest>>
    BY <1>2, <2>1 DEF UpgradeDevice
  <2>3. device[d].reg \in Nat
    BY DEF HubInv, DeviceRecord
  <2>4. q \in SocketRecord
    BY <2>3 DEF SocketRecord
  <2> HIDE DEF q
  <2> QED
    BY <2>2, <2>4, SocketChanges
<1>3. ASSUME NEW s \in Sockets, sock' = [sock EXCEPT ![s].closed = TRUE],
             UNCHANGED <<device, fwd, mailbox, mailboxBytes, mailboxSeq, newest>>
      PROVE  HubInv'
  <2>1. PICK r \in SocketRecord : r = sock[s]
    BY DEF HubInv
  <2> DEFINE q == [r EXCEPT !.closed = TRUE]
  <2>2. sock' = [sock EXCEPT ![s] = q]
    BY <1>3, <2>1
  <2>3. q \in SocketRecord /\ q.dev = r.dev /\ q.stage = r.stage
    BY DEF SocketRecord
  <2> HIDE DEF q
  <2> QED
    BY <1>3, <2>1, <2>2, <2>3, SocketChanges
<1>4. ASSUME NEW b \in MacSockets, NEW d \in HubDevices, NEW size \in Sizes, ForwardFromBridge(b, d, size)
      PROVE  HubInv'
  <2> DEFINE to == {c \in device[d].conn : ~sock[c].marked}
             f == [dev |-> d, size |-> size, to |-> to]
  <2>1. Still /\ (fwd' = fwd \/ fwd' = [fwd EXCEPT ![b] = {f}])
    BY <1>4 DEF ForwardFromBridge
  <2>2. to \in SUBSET Sockets
    BY DEF HubInv, DeviceRecord
  <2> HIDE DEF to
  <2>3. f \in FrameInHand
    BY <2>2 DEF FrameInHand
  <2> HIDE DEF f
  <2>4. fwd' \in [MacSockets -> SUBSET FrameInHand]
    BY <2>1, <2>3 DEF HubInv
  <2> QED
    BY <1>0, <2>1, <2>4
<1>5. ASSUME NEW b \in MacSockets, ForwardWrites(b) PROVE HubInv'
  <2>1. Still /\ fwd' = [fwd EXCEPT ![b] = {}]
    BY <1>5 DEF ForwardWrites
  <2> QED
    BY <1>0, <2>1 DEF HubInv
<1>6. ASSUME Still, fwd' = fwd PROVE HubInv'
  BY <1>0, <1>6 DEF HubInv
<1>7. ASSUME NEW s \in Sockets, SocketBreaks(s) \/ \E d \in HubDevices : DeviceSends(s, d) PROVE HubInv'
  BY <1>3, <1>7 DEF SocketBreaks, DeviceSends
<1>8. ASSUME \/ \E s \in Sockets, d \in HubDevices : DeliverSnapshot(s, d)
             \/ \E s \in Sockets : DeliverWrite(s)
             \/ \E b \in MacSockets : ConnectBridge(b) \/ MacSocketBreaks(b) \/ DisconnectBridge(b)
             \/ UNCHANGED hubVars
      PROVE  HubInv'
  <2>1. Still /\ fwd' = fwd
    BY <1>8
    DEF DeliverSnapshot, DeliverWrite, ConnectBridge, MacSocketBreaks, DisconnectBridge,
        hubVars
  <2> QED
    BY <1>6, <2>1
<1>9. \/ \E d \in HubDevices : RegisterDevice(d) \/ RevokeDevice(d)
      \/ \E d \in HubDevices, c \in 1 .. mailboxSeq : AckMailbox(d, c)
      \/ \E s \in Sockets, d \in HubDevices : \/ UpgradeDevice(s, d) \/ ConnectDevice(s, d)
                                               \/ DeviceHandlerEnds(s, d)
      \/ \E s \in Sockets : SocketBreaks(s) \/ \E d \in HubDevices : DeviceSends(s, d)
      \/ \E b \in MacSockets : \/ ForwardWrites(b) \/ ForwardStores(b)
                                \/ \E d \in HubDevices, size \in Sizes : ForwardFromBridge(b, d, size)
      \/ \E s \in Sockets, d \in HubDevices : DeliverSnapshot(s, d)
      \/ \E s \in Sockets : DeliverWrite(s)
      \/ \E b \in MacSockets : ConnectBridge(b) \/ MacSocketBreaks(b) \/ DisconnectBridge(b)
      \/ UNCHANGED hubVars
  BY Zenon DEF HubNext
<1> HIDE DEF Still
<1> QED
  BY <1>1, <1>2, <1>4, <1>5, <1>7, <1>8, <1>9, RevokeKeepsHub, ConnectKeepsHub,
     HandlerEndKeepsHub,
     StoreKeepsHub, AckKeepsHub

(* What the hub keeps of its devices, frames and sockets alike, is exact   *)
(* however the goroutines of their handlers interleave: the bytes it       *)
(* counts are those of the frames that wait, within the capacity, and a    *)
(* device whose newest socket reads is reached through that socket         *)
(* (RelayHub: enqueueMailbox, AckMailbox, ConnectDevice, DisconnectDevice).*)
THEOREM RelayHubSound == HubSpec => []HubSound
BY HubInvImplies, HubStarts, HubStep, PTL DEF HubSpec

-----------------------------------------------------------------------------
(* The pages of a transcript.  What a record holds and where messages      *)
(* begin does not matter here, only that a record is written once.         *)
PageRecord == [kind : RecordKinds, key : MsgKeys, serial : Nat]

(* The indexes at hand.                                                    *)
Indexes == savedIndex \cup (UNION {asking[r].index : r \in Readers})

(* What names a generation: the indexes, and the cursors of the readers.   *)
Marks == Indexes \cup (UNION {asking[r].cursor : r \in Readers}) \cup (UNION {walk[r].cursor : r \in Readers})

(* Two contents of the transcript that have a record in the same place     *)
(* have all records before it in common: what is cut off does not return.  *)
Agrees(seen, recs) ==
    \A p \in DOMAIN seen : p \in DOMAIN recs /\ seen[p] = recs[p] => \A q \in 1..p : seen[q] = recs[q]

(* A content that the transcript has had.                                  *)
WasSeen(seen) ==
    /\ seen \in Seq(PageRecord)
    /\ \A p \in DOMAIN seen : seen[p].serial < spent.records
    /\ Agrees(seen, transcript.recs)

(* An index is of a content, and its lineage of generations that were.     *)
IndexOfContent(i) ==
    /\ i.lineage \in Seq(0..gens)
    /\ i.parseOffset = Len(i.seen)
    /\ i.anchor = anchorFor(i.seen, Len(i.seen))

(* What the variables hold.                                                *)
PagesTypes ==
    /\ transcript \in [recs : Seq(PageRecord), inode : Nat, mtime : Nat] /\ gens \in Nat
    /\ spent \in [records : Nat, changes : Nat, requests : Nat, restarts : Nat]
    /\ DOMAIN asking = Readers /\ \A r \in Readers : DOMAIN asking[r] = {"stage", "cursor", "index"}
    /\ DOMAIN walk = Readers /\ \A r \in Readers : {"cursor", "stitched"} \subseteq DOMAIN walk[r]

(* The inductive invariant: a generation in the lineage of an index is of  *)
(* a content that the content of the index begins with.                    *)
PagesInv ==
    /\ PagesTypes
    /\ \A p \in DOMAIN transcript.recs : transcript.recs[p].serial < spent.records
    /\ \A k \in Marks : k.gen \in 0..gens /\ WasSeen(k.seen)
    /\ \A i \in Indexes : IndexOfContent(i)
    /\ \A i \in Indexes, k \in Marks : k.gen \in ToSet(i.lineage) => IsPrefix(k.seen, i.seen)
    /\ NoStitching

(* A piece of a sequence.                                                  *)
LEMMA PieceFacts ==
    ASSUME NEW S, NEW s \in Seq(S), NEW m \in Nat \ {0}, NEW n \in Nat, n <= Len(s)
    PROVE  /\ SubSeq(s, m, n) \in Seq(S)
           /\ m <= n => Len(SubSeq(s, m, n)) = n - m + 1 /\ SubSeq(s, m, n)[n - m + 1] = s[n]
           /\ \A i \in DOMAIN SubSeq(s, m, n) : m + i - 1 \in DOMAIN s /\ SubSeq(s, m, n)[i] = s[m + i - 1]
<1>1. \A i \in m .. n : s[i] \in S
  OBVIOUS
<1>2. /\ SubSeq(s, m, n) \in Seq(S)
      /\ Len(SubSeq(s, m, n)) = IF m <= n THEN n - m + 1 ELSE 0
      /\ \A i \in 1 .. n - m + 1 : SubSeq(s, m, n)[i] = s[m + i - 1]
  BY <1>1, SubSeqProperties
<1> DEFINE t == SubSeq(s, m, n)
<1> HIDE DEF t
<1>3. t \in Seq(S) /\ Len(t) = (IF m <= n THEN n - m + 1 ELSE 0) /\ \A i \in 1 .. n - m + 1 : t[i] = s[m + i - 1]
  BY <1>2 DEF t
<1>4. m <= n => Len(t) = n - m + 1 /\ t[n - m + 1] = s[n]
  BY <1>3
<1>5. \A i \in DOMAIN t : m + i - 1 \in DOMAIN s /\ t[i] = s[m + i - 1]
  BY <1>3
<1> QED
  BY <1>3, <1>4, <1>5 DEF t

(* A sequence begins with another one when they agree at its places.       *)
LEMMA BeginsWith ==
    ASSUME NEW S, NEW s \in Seq(S), NEW t \in Seq(S), Len(s) <= Len(t)
    PROVE  IsPrefix(s, t) <=> \A q \in 1 .. Len(s) : s[q] = t[q]
<1> DEFINE a == SubSeq(s, 1, Len(s))
           b == SubSeq(t, 1, Len(s))
<1>1. /\ a \in Seq(S) /\ Len(a) = Len(s) /\ \A q \in 1 .. Len(s) : a[q] = s[q]
      /\ b \in Seq(S) /\ Len(b) = Len(s) /\ \A q \in 1 .. Len(s) : b[q] = t[q]
  <2>1. \A q \in 1 .. Len(s) : s[q] \in S /\ t[q] \in S
    OBVIOUS
  <2>2. /\ a \in Seq(S) /\ Len(a) = (IF 1 <= Len(s) THEN Len(s) - 1 + 1 ELSE 0)
        /\ \A q \in 1 .. Len(s) - 1 + 1 : a[q] = s[1 + q - 1]
    BY <2>1, SubSeqProperties
  <2>3. /\ b \in Seq(S) /\ Len(b) = (IF 1 <= Len(s) THEN Len(s) - 1 + 1 ELSE 0)
        /\ \A q \in 1 .. Len(s) - 1 + 1 : b[q] = t[1 + q - 1]
    BY <2>1, SubSeqProperties
  <2> HIDE DEF a, b
  <2> QED
    BY <2>2, <2>3
<1>2. IsPrefix(s, t) <=> a = b
  BY DEF IsPrefix
<1> HIDE DEF a, b
<1>3. a = b <=> \A q \in 1 .. Len(s) : s[q] = t[q]
  BY <1>1
<1> QED
  BY <1>2, <1>3

(* To begin with is transitive.                                            *)
LEMMA BeginsTransitively ==
    ASSUME NEW S, NEW s \in Seq(S), NEW t \in Seq(S), NEW u \in Seq(S), IsPrefix(s, t), IsPrefix(t, u)
    PROVE  IsPrefix(s, u)
<1>1. Len(s) <= Len(t) /\ Len(t) <= Len(u)
  BY DEF IsPrefix
<1>2. \A q \in 1 .. Len(s) : s[q] = t[q]
  BY <1>1, BeginsWith
<1>3. \A q \in 1 .. Len(t) : t[q] = u[q]
  BY <1>1, BeginsWith
<1>4. Len(s) <= Len(u) /\ \A q \in 1 .. Len(s) : s[q] = u[q]
  BY <1>1, <1>2, <1>3
<1> QED
  BY <1>4, BeginsWith

(* The lineage that a refresh keeps has no other generation than its own   *)
(* and those of the index it refreshes.                                    *)
LEMMA LineageKept ==
    ASSUME NEW G, NEW l \in Seq(G), NEW g \in G
    PROVE  /\ foldLineage(Append(l, g)) \in Seq(G)
           /\ \A x \in ToSet(foldLineage(Append(l, g))) : x \in ToSet(l) \/ x = g
<1> DEFINE a == Append(l, g)
           t == foldLineage(a)
<1>1. a \in Seq(G) /\ \A j \in DOMAIN a : (j \in DOMAIN l /\ a[j] = l[j]) \/ a[j] = g
  OBVIOUS
<1> HIDE DEF a
<1>2. t \in Seq(G) /\ \A i \in DOMAIN t : \E j \in DOMAIN a : t[i] = a[j]
  <2>1. CASE Len(a) <= LineageDepth
    BY <1>1, <2>1 DEF foldLineage
  <2>2. CASE ~(Len(a) <= LineageDepth)
    <3> DEFINE m == Len(a) - LineageDepth + 1
    <3>1. Len(a) \in Nat /\ LineageDepth \in Nat /\ t = SubSeq(a, m, Len(a))
      <4>1. LineageDepth \in Nat
        BY PagesAssumption
      <4>2. t = SubSeq(a, m, Len(a))
        BY <2>2 DEF foldLineage
      <4> QED
        BY <1>1, <4>1, <4>2
    <3>2. m \in Nat \ {0}
      BY <2>2, <3>1
    <3> HIDE DEF m
    <3>3. SubSeq(a, m, Len(a)) \in Seq(G)
          /\ \A i \in DOMAIN SubSeq(a, m, Len(a)) : m + i - 1 \in DOMAIN a /\ SubSeq(a, m, Len(a))[i] = a[m + i - 1]
      BY <1>1, <3>1, <3>2, PieceFacts
    <3> QED
      BY <3>1, <3>3
  <2> QED
    BY <2>1, <2>2
<1> HIDE DEF t
<1>3. \A x \in ToSet(t) : x \in ToSet(l) \/ x = g
  BY <1>1, <1>2 DEF ToSet
<1> QED
  BY <1>2, <1>3 DEF t, a

(* The anchor of an index is that of the transcript only if the content    *)
(* of the index is what the transcript begins with: they have the last     *)
(* record of the index in common.                                          *)
LEMMA AnchorVerifies ==
    ASSUME PagesInv, NEW i \in Indexes, Continues(i)
    PROVE  IsPrefix(i.seen, transcript.recs)
<1> DEFINE s == i.seen
           t == transcript.recs
           n == Len(s)
<1>1. s \in Seq(PageRecord) /\ t \in Seq(PageRecord) /\ Agrees(s, t)
  BY DEF PagesInv, PagesTypes, Marks, WasSeen
<1>2. i.parseOffset = n /\ i.anchor = anchorFor(s, n)
  BY DEF PagesInv, IndexOfContent
<1>3. n \in Nat /\ n <= Len(t) /\ anchorFor(t, n) = anchorFor(s, n)
  BY <1>1, <1>2 DEF Continues, verifyAnchorAt
<1> HIDE DEF s, t
<1>4. \A q \in 1 .. n : s[q] = t[q]
  <2>1. CASE n = 0
    BY <2>1
  <2>2. CASE n # 0
    <3> DEFINE m == IF n > AnchorWindow THEN n - AnchorWindow + 1 ELSE 1
    <3>1. m \in Nat \ {0} /\ m <= n
      BY <1>3, <2>2, PagesAssumption
    <3>2. SubSeq(t, m, n) = SubSeq(s, m, n)
      BY <1>3 DEF anchorFor
    <3> HIDE DEF m
    <3>3. SubSeq(s, m, n)[n - m + 1] = s[n]
      BY <1>1, <1>3, <3>1, PieceFacts
    <3>4. SubSeq(t, m, n)[n - m + 1] = t[n]
      BY <1>1, <1>3, <3>1, PieceFacts
    <3>5. s[n] = t[n]
      BY <3>2, <3>3, <3>4
    <3>6. n \in DOMAIN s /\ n \in DOMAIN t
      BY <1>1, <1>3, <2>2
    <3> QED
      BY <1>1, <3>5, <3>6 DEF Agrees
  <2> QED
    BY <2>1, <2>2
<1> HIDE DEF n
<1>5. IsPrefix(s, t)
  BY <1>1, <1>3, <1>4, BeginsWith DEF n
<1> QED
  BY <1>5 DEF s, t

(* A step that brings no index and no mark of another content.             *)
LEMMA NoNewContent ==
    ASSUME PagesInv, UNCHANGED <<transcript, gens>>, spent'.records = spent.records, PagesTypes',
           Indexes' \subseteq Indexes,
           \A k \in Marks' : \E m \in Marks : k.gen = m.gen /\ k.seen = m.seen,
           NoStitching'
    PROVE  PagesInv'
<1>1. \A k \in Marks' : \E m \in Marks : k.gen = m.gen /\ k.seen = m.seen
  OBVIOUS
<1>2. \A s : WasSeen(s) <=> WasSeen(s)'
  BY DEF WasSeen
<1>3. \A i : IndexOfContent(i) <=> IndexOfContent(i)'
  BY DEF IndexOfContent
<1>4. \A k \in Marks' : k.gen \in 0..gens' /\ WasSeen(k.seen)'
  BY <1>1, <1>2 DEF PagesInv
<1>5. ASSUME NEW i \in Indexes' PROVE IndexOfContent(i)'
  <2>1. i \in Indexes
    OBVIOUS
  <2>2. IndexOfContent(i)
    BY <2>1 DEF PagesInv
  <2> QED
    BY <2>2, <1>3
<1>6. \A i \in Indexes', k \in Marks' : k.gen \in ToSet(i.lineage) => IsPrefix(k.seen, i.seen)
  BY <1>1 DEF PagesInv
<1>7. \A p \in DOMAIN transcript'.recs : transcript'.recs[p].serial < spent'.records
  BY DEF PagesInv
<1> QED
  BY <1>4, <1>5, <1>6, <1>7 DEF PagesInv

(* The index that a build or a refresh makes.                              *)
LEMMA NewIndex ==
    ASSUME PagesInv, NEW idx, UNCHANGED <<transcript, spent, walk>>, gens' = gens + 1, PagesTypes',
           idx.gen = gens + 1, idx.seen = transcript.recs, IndexOfContent(idx)',
           \A i \in Indexes' : i \in Indexes \/ i = idx,
           \A k \in Marks' : k \in Marks \/ k = idx,
           \A k \in Marks : k.gen \in ToSet(idx.lineage) => IsPrefix(k.seen, idx.seen)
    PROVE  PagesInv'
<1>1. transcript.recs \in Seq(PageRecord) /\ gens \in Nat
  BY DEF PagesInv, PagesTypes
<1>2. \A s : WasSeen(s) <=> WasSeen(s)'
  BY DEF WasSeen
<1>3. WasSeen(transcript.recs)
  <2>1. \A p \in DOMAIN transcript.recs : transcript.recs[p].serial < spent.records
    BY DEF PagesInv
  <2>2. Agrees(transcript.recs, transcript.recs)
    BY Zenon DEF Agrees
  <2> QED
    BY <1>1, <2>1, <2>2 DEF WasSeen
<1>4. ASSUME NEW k \in Marks' PROVE k.gen \in 0..gens' /\ WasSeen(k.seen)'
  <2>1. CASE k \in Marks
    BY <1>1, <1>2, <2>1 DEF PagesInv
  <2>2. CASE k = idx
    BY <1>1, <1>2, <1>3, <2>2
  <2> QED
    BY <2>1, <2>2
<1>5. ASSUME NEW i \in Indexes' PROVE IndexOfContent(i)'
  <2>1. CASE i \in Indexes
    <3>1. IndexOfContent(i)
      BY <2>1 DEF PagesInv
    <3>2. Seq(0..gens) \subseteq Seq(0..gens')
      BY <1>1
    <3> QED
      BY <3>1, <3>2 DEF IndexOfContent
  <2> QED
    BY <2>1
<1>6. ASSUME NEW i \in Indexes', NEW k \in Marks', k.gen \in ToSet(i.lineage) PROVE IsPrefix(k.seen, i.seen)
  <2>1. CASE i \in Indexes /\ k \in Marks
    BY <1>6, <2>1 DEF PagesInv
  <2>2. CASE i \in Indexes /\ k = idx
    <3>1. i.lineage \in Seq(0..gens)
      BY <2>2 DEF PagesInv, IndexOfContent
    <3>2. \A x \in ToSet(i.lineage) : x \in 0..gens
      <4> DEFINE l == i.lineage
      <4>1. l \in Seq(0..gens)
        BY <3>1
      <4> HIDE DEF l
      <4>2. \A j \in DOMAIN l : l[j] \in 0..gens
        <5> DEFINE G == 0..gens
        <5>1. l \in Seq(G)
          BY <4>1
        <5> HIDE DEF G
        <5>2. \A j \in DOMAIN l : l[j] \in G
          BY <5>1
        <5> QED
          BY <5>2 DEF G
      <4>3. \A x \in ToSet(l) : x \in 0..gens
        BY Zenon, <4>2 DEF ToSet
      <4> QED
        BY <4>3 DEF l
    <3> QED
      BY <1>1, <1>6, <2>2, <3>2
  <2>3. CASE i = idx /\ k \in Marks
    BY <1>6, <2>3
  <2>4. CASE i = idx /\ k = idx
    BY <1>1, <2>4, BeginsWith
  <2> QED
    BY <2>1, <2>2, <2>3, <2>4
<1>7. NoStitching'
  BY DEF PagesInv, NoStitching
<1> QED
  BY <1>1, <1>4, <1>5, <1>6, <1>7 DEF PagesInv
(* A record that the agent writes is new: no earlier content has it.       *)
LEMMA AppendsStep ==
    ASSUME PagesInv, NEW kind \in RecordKinds, NEW key \in MsgKeys, AgentAppends(kind, key)
    PROVE  PagesInv'
<1> DEFINE r == [kind |-> kind, key |-> key, serial |-> spent.records]
           t == transcript.recs
           u == transcript'.recs
<1>1. /\ transcript' = [transcript EXCEPT !.recs = Append(@, r), !.mtime = @ + 1]
      /\ spent' = [spent EXCEPT !.records = @ + 1]
      /\ UNCHANGED <<source, savedIndex, inFlight, asking, walk, gens>>
  BY Zenon DEF AgentAppends
<1>2. t \in Seq(PageRecord) /\ spent.records \in Nat
  BY DEF PagesInv, PagesTypes
<1>3. r \in PageRecord /\ r.serial = spent.records
  BY <1>2 DEF PageRecord
<1> HIDE DEF r
<1>4. transcript' \in [recs : Seq(PageRecord), inode : Nat, mtime : Nat] /\ u = Append(t, r)
  <2>1. transcript \in [recs : Seq(PageRecord), inode : Nat, mtime : Nat]
    BY DEF PagesInv, PagesTypes
  <2> DEFINE v == Append(transcript.recs, r)
  <2>2. v \in Seq(PageRecord)
    BY <1>2, <1>3
  <2>3. transcript' = [transcript EXCEPT !.recs = v, !.mtime = transcript.mtime + 1]
    BY <1>1
  <2> HIDE DEF v
  <2> DEFINE mt == transcript.mtime + 1
             R == Seq(PageRecord)
  <2>4. mt \in Nat
    BY <2>1
  <2> HIDE DEF mt, R
  <2>5. /\ transcript \in [recs : R, inode : Nat, mtime : Nat] /\ v \in R
        /\ transcript' = [transcript EXCEPT !.recs = v, !.mtime = mt]
    BY <2>1, <2>2, <2>3 DEF mt, R
  <2>6. transcript' = [recs |-> v, inode |-> transcript.inode, mtime |-> mt] /\ transcript.inode \in Nat
    BY <2>5
  <2>7. transcript'.recs = v /\ transcript' \in [recs : R, inode : Nat, mtime : Nat]
    BY <2>4, <2>5, <2>6
  <2> QED
    BY <2>7 DEF v, R
<1>5. spent' \in [records : Nat, changes : Nat, requests : Nat, restarts : Nat] /\ spent'.records = spent.records + 1
  <2>1. spent \in [records : Nat, changes : Nat, requests : Nat, restarts : Nat]
    BY DEF PagesInv, PagesTypes
  <2> QED
    BY <1>1, <2>1
<1>6. PagesTypes'
  BY <1>1, <1>4, <1>5 DEF PagesInv, PagesTypes
<1> HIDE DEF t, u
<1>7. Indexes' = Indexes /\ Marks' = Marks /\ NoStitching'
  BY <1>1 DEF Indexes, Marks, PagesInv, NoStitching
<1>8. DOMAIN u = 1 .. Len(t) + 1 /\ DOMAIN t = 1 .. Len(t) /\ Len(t) \in Nat
  BY <1>2, <1>3, <1>4
<1>9. (\A q \in DOMAIN t : u[q] = t[q]) /\ u[Len(t) + 1] = r
  BY <1>2, <1>3, <1>4
<1>10. ASSUME NEW s, WasSeen(s) PROVE WasSeen(s)'
  <2>1. s \in Seq(PageRecord) /\ Agrees(s, t) /\ \A p \in DOMAIN s : s[p].serial < spent.records
    BY <1>10 DEF WasSeen, t
  <2>2. Agrees(s, u)
    <3> SUFFICES ASSUME NEW p \in DOMAIN s, p \in DOMAIN u, s[p] = u[p], NEW q \in 1 .. p
                 PROVE  s[q] = u[q]
      BY DEF Agrees
    <3>1. p \in DOMAIN t
      <4>1. s[p].serial # r.serial
        BY <1>2, <1>3, <2>1
      <4> QED
        BY <1>8, <1>9, <4>1
    <3>2. q \in DOMAIN t
      BY <1>8, <3>1
    <3> QED
      BY <1>9, <2>1, <3>1, <3>2 DEF Agrees
  <2>3. \A p \in DOMAIN s : s[p].serial < spent'.records
    <3>1. \A p \in DOMAIN s : s[p].serial \in Nat
      <4>1. \A p \in DOMAIN s : s[p] \in PageRecord
        BY <2>1
      <4> QED
        BY <4>1 DEF PageRecord
    <3> QED
      BY <1>2, <1>5, <2>1, <3>1
  <2> QED
    BY <2>1, <2>2, <2>3 DEF WasSeen, u
<1>11. \A p \in DOMAIN u : u[p].serial < spent'.records
  <2>1. \A p \in DOMAIN t : t[p].serial \in Nat /\ t[p].serial < spent.records
    <3>1. \A p \in DOMAIN t : t[p] \in PageRecord
      BY <1>2
    <3>2. \A p \in DOMAIN t : t[p].serial < spent.records
      BY DEF PagesInv, t
    <3> QED
      BY <3>1, <3>2 DEF PageRecord
  <2> QED
    BY <1>2, <1>3, <1>5, <1>8, <1>9, <2>1
<1>12. \A k \in Marks' : k.gen \in 0..gens' /\ WasSeen(k.seen)'
  BY <1>1, <1>7, <1>10 DEF PagesInv
<1>13. \A i \in Indexes' : IndexOfContent(i)'
  BY <1>1, <1>7 DEF PagesInv, IndexOfContent
<1>14. \A i \in Indexes', k \in Marks' : k.gen \in ToSet(i.lineage) => IsPrefix(k.seen, i.seen)
  BY <1>7 DEF PagesInv
<1> QED
  BY <1>6, <1>7, <1>11, <1>12, <1>13, <1>14 DEF PagesInv, u

(* What a cut leaves agrees with every content as before.                  *)
LEMMA CutsStep ==
    ASSUME PagesInv, NEW n \in 0..MaxRecords, NEW inode \in {transcript.inode, transcript.inode + 1}, AgentCuts(n, inode)
    PROVE  PagesInv'
<1> DEFINE t == transcript.recs
           u == transcript'.recs
<1>1. /\ n < Len(t)
      /\ transcript' = [recs |-> SubSeq(t, 1, n), inode |-> inode, mtime |-> transcript.mtime + 1]
      /\ spent' = [spent EXCEPT !.changes = @ + 1]
      /\ UNCHANGED <<source, savedIndex, inFlight, asking, walk, gens>>
  BY Zenon DEF AgentCuts
<1>2. t \in Seq(PageRecord) /\ spent.records \in Nat /\ n \in Nat /\ n <= Len(t)
  BY <1>1, PagesAssumption DEF PagesInv, PagesTypes
<1>3. u = SubSeq(t, 1, n) /\ inode \in Nat /\ transcript.mtime + 1 \in Nat
  BY <1>1 DEF PagesInv, PagesTypes
<1>4. u \in Seq(PageRecord) /\ \A q \in DOMAIN u : q \in DOMAIN t /\ u[q] = t[q]
  <2>1. SubSeq(t, 1, n) \in Seq(PageRecord)
    BY <1>2, PieceFacts
  <2>2. \A q \in DOMAIN SubSeq(t, 1, n) : 1 + q - 1 \in DOMAIN t /\ SubSeq(t, 1, n)[q] = t[1 + q - 1]
    BY <1>2, PieceFacts
  <2>3. \A q \in DOMAIN u : q \in Int /\ 1 + q - 1 = q
    BY <1>3, <2>1
  <2> QED
    BY <1>3, <2>1, <2>2, <2>3
<1>5. spent' \in [records : Nat, changes : Nat, requests : Nat, restarts : Nat] /\ spent'.records = spent.records
  <2>1. spent \in [records : Nat, changes : Nat, requests : Nat, restarts : Nat]
    BY DEF PagesInv, PagesTypes
  <2> QED
    BY <1>1, <2>1
<1>6. PagesTypes'
  <2>1. transcript' \in [recs : Seq(PageRecord), inode : Nat, mtime : Nat]
    BY <1>1, <1>3, <1>4
  <2> QED
    BY <1>1, <1>5, <2>1 DEF PagesInv, PagesTypes
<1> HIDE DEF t, u
<1>7. Indexes' = Indexes /\ Marks' = Marks /\ NoStitching'
  BY <1>1 DEF Indexes, Marks, PagesInv, NoStitching
<1>8. ASSUME NEW s, WasSeen(s) PROVE WasSeen(s)'
  <2>1. s \in Seq(PageRecord) /\ Agrees(s, t) /\ \A p \in DOMAIN s : s[p].serial < spent.records
    BY <1>8 DEF WasSeen, t
  <2>2. Agrees(s, u)
    <3> SUFFICES ASSUME NEW p \in DOMAIN s, p \in DOMAIN u, s[p] = u[p], NEW q \in 1 .. p
                 PROVE  s[q] = u[q]
      BY DEF Agrees
    <3>1. q \in DOMAIN u
      BY <1>4
    <3>2. p \in DOMAIN t /\ s[p] = t[p]
      BY <1>4
    <3> QED
      BY <1>4, <2>1, <3>1, <3>2 DEF Agrees
  <2> QED
    BY <1>5, <2>1, <2>2 DEF WasSeen, u
<1>9. \A p \in DOMAIN u : u[p].serial < spent'.records
  BY <1>4, <1>5 DEF PagesInv, t
<1>10. \A k \in Marks' : k.gen \in 0..gens' /\ WasSeen(k.seen)'
  BY <1>1, <1>7, <1>8 DEF PagesInv
<1>11. \A i \in Indexes' : IndexOfContent(i)'
  BY <1>1, <1>7 DEF PagesInv, IndexOfContent
<1>12. \A i \in Indexes', k \in Marks' : k.gen \in ToSet(i.lineage) => IsPrefix(k.seen, i.seen)
  BY <1>7 DEF PagesInv
<1> QED
  BY <1>6, <1>7, <1>9, <1>10, <1>11, <1>12 DEF PagesInv, u
(* A request brings a mark only if the reader has it.                      *)
LEMMA AsksStep ==
    ASSUME PagesInv, NEW r \in Readers, NEW older \in BOOLEAN, GetSessionMessages(r, older)
    PROVE  PagesInv'
<1> DEFINE a == [stage |-> IF inFlight = {} THEN "building" ELSE "waiting",
                 cursor |-> IF older THEN walk[r].cursor ELSE {}, index |-> {}]
<1>1. /\ asking' = [asking EXCEPT ![r] = a]
      /\ walk' = IF older THEN walk ELSE [walk EXCEPT ![r] = Unread]
      /\ spent' = [spent EXCEPT !.requests = @ + 1]
      /\ UNCHANGED <<source, transcript, savedIndex, gens>>
  BY Zenon DEF GetSessionMessages
<1>2. DOMAIN a = {"stage", "cursor", "index"} /\ a.index = {} /\ a.cursor \subseteq walk[r].cursor
  OBVIOUS
<1> HIDE DEF a
<1>3. spent' \in [records : Nat, changes : Nat, requests : Nat, restarts : Nat] /\ spent'.records = spent.records
  BY <1>1 DEF PagesInv, PagesTypes
<1> DEFINE u == Unread
<1> HIDE DEF u
<1>4. DOMAIN walk' = Readers /\ \A x \in Readers : walk'[x] = walk[x] \/ walk'[x] = u
  <2>1. walk' = walk \/ walk' = [walk EXCEPT ![r] = u]
    BY <1>1 DEF u
  <2>2. DOMAIN walk = Readers
    BY DEF PagesInv, PagesTypes
  <2> QED
    BY <2>1, <2>2
<1>5. \A x \in Readers : asking'[x] = asking[x] \/ (x = r /\ asking'[x] = a)
  <2>1. DOMAIN asking = Readers
    BY DEF PagesInv, PagesTypes
  <2>2. asking' = [asking EXCEPT ![r] = a]
    BY <1>1
  <2> QED
    BY <2>1, <2>2
<1>6. DOMAIN walk' = Readers /\ DOMAIN asking' = Readers
  BY <1>1, <1>4 DEF PagesInv, PagesTypes
<1>7. {"cursor", "stitched"} \subseteq DOMAIN u /\ u.cursor = {} /\ u.stitched = FALSE
  BY DEF Unread, u
<1>8. PagesTypes'
  BY <1>1, <1>2, <1>3, <1>4, <1>5, <1>6, <1>7 DEF PagesInv, PagesTypes
<1>9. Indexes' \subseteq Indexes
  BY <1>1, <1>2, <1>5 DEF Indexes
<1>10. \A k \in Marks' : k \in Marks
  BY <1>2, <1>4, <1>5, <1>7, <1>9 DEF Marks
<1>11. NoStitching'
  BY <1>4, <1>7 DEF PagesInv, NoStitching
<1> QED
  BY <1>1, <1>3, <1>8, <1>9, <1>10, <1>11, NoNewContent

(* Who waited gets the index.                                              *)
LEMMA GetsIndex ==
    ASSUME PagesInv, NEW idx, Indexed(idx)
    PROVE  /\ DOMAIN asking' = Readers /\ \A r \in Readers : DOMAIN asking'[r] = {"stage", "cursor", "index"}
           /\ \A r \in Readers : asking'[r].cursor = asking[r].cursor
           /\ \A r \in Readers : asking'[r].index = asking[r].index \/ asking'[r].index = idx
<1>1. asking' = [r \in Readers |-> IF asking[r].stage \in {"building", "waiting"}
                                   THEN [asking[r] EXCEPT !.stage = "indexed", !.index = idx] ELSE asking[r]]
  BY Zenon DEF Indexed
<1>2. \A r \in Readers : DOMAIN asking[r] = {"stage", "cursor", "index"}
  BY DEF PagesInv, PagesTypes
<1> QED
  BY <1>1, <1>2

(* A build or a refresh is of the content that the transcript has, and     *)
(* keeps a lineage only if it continues the content of the index.          *)
LEMMA BuildsStep ==
    ASSUME PagesInv, NEW saves \in BOOLEAN, EnsureBuilds(saves)
    PROVE  PagesInv'
<1>1. PICK idx, old :
            /\ \/ idx = Build(gens + 1)
               \/ old \in Indexes /\ idx = old
               \/ /\ old \in Indexes /\ Continues(old)
                  /\ \E spans : idx = IndexOf(spans, gens + 1, foldLineage(Append(old.lineage, gens + 1)))
            /\ Indexed({idx})
            /\ gens' = IF idx.gen = gens + 1 THEN gens + 1 ELSE gens
            /\ SaveIndex(saves, idx)
            /\ UNCHANGED <<source, transcript, walk, spent>>
  <2> DEFINE o == CHOOSE i \in LoadIndex : TRUE
             x == IF LoadIndex = {} THEN Build(gens + 1) ELSE Refresh(o, gens + 1)
  <2>1. /\ Indexed({x})
        /\ gens' = IF x.gen = gens + 1 THEN gens + 1 ELSE gens
        /\ SaveIndex(saves, x)
        /\ UNCHANGED <<source, transcript, walk, spent>>
    BY Zenon DEF EnsureBuilds
  <2>2. LoadIndex # {} => o \in Indexes
    BY DEF LoadIndex, Indexes
  <2> HIDE DEF o
  <2>3. LoadIndex # {} => x = Refresh(o, gens + 1)
    OBVIOUS
  <2>4. \/ Refresh(o, gens + 1) = o
        \/ Refresh(o, gens + 1) = Build(gens + 1)
        \/ /\ Continues(o)
           /\ \E spans : Refresh(o, gens + 1) = IndexOf(spans, gens + 1, foldLineage(Append(o.lineage, gens + 1)))
    BY Zenon DEF Refresh
  <2>5. \/ x = Build(gens + 1)
        \/ o \in Indexes /\ x = o
        \/ /\ o \in Indexes /\ Continues(o)
           /\ \E spans : x = IndexOf(spans, gens + 1, foldLineage(Append(o.lineage, gens + 1)))
    BY <2>2, <2>3, <2>4
  <2> HIDE DEF x
  <2> QED
    BY Zenon, <2>1, <2>5
<1>2. \/ idx = Build(gens + 1)
      \/ old \in Indexes /\ idx = old
      \/ /\ old \in Indexes /\ Continues(old)
         /\ \E spans : idx = IndexOf(spans, gens + 1, foldLineage(Append(old.lineage, gens + 1)))
  BY <1>1
<1>3. /\ DOMAIN asking' = Readers /\ \A r \in Readers : DOMAIN asking'[r] = {"stage", "cursor", "index"}
      /\ \A r \in Readers : asking'[r].cursor = asking[r].cursor
      /\ \A r \in Readers : asking'[r].index = asking[r].index \/ asking'[r].index = {idx}
  BY <1>1, GetsIndex
<1>4. savedIndex' = savedIndex \/ savedIndex' = {idx}
  BY <1>1 DEF SaveIndex
<1>5. \A i \in Indexes' : i \in Indexes \/ i = idx
  BY <1>3, <1>4 DEF Indexes
<1>6. \A k \in Marks' : k \in Marks \/ k = idx
  BY <1>1, <1>3, <1>5 DEF Marks
<1>7. gens \in Nat /\ transcript.recs \in Seq(PageRecord)
  BY DEF PagesInv, PagesTypes
<1>8. gens' \in Nat
  BY <1>1, <1>7
<1>9. PagesTypes'
  BY <1>1, <1>3, <1>8 DEF PagesInv, PagesTypes
<1>10. NoStitching'
  BY <1>1 DEF PagesInv, NoStitching
<1>11. CASE old \in Indexes /\ idx = old
  <2>1. Indexes' \subseteq Indexes
    BY <1>5, <1>11
  <2>2. \A k \in Marks' : k \in Marks
    BY <1>6, <1>11 DEF Marks
  <2>3. gens' = gens
    <3>1. old.gen \in 0..gens
      BY <1>11 DEF PagesInv, Marks
    <3> QED
      BY <1>1, <1>7, <1>11, <3>1
  <2> QED
    BY <1>1, <1>9, <1>10, <2>1, <2>2, <2>3, NoNewContent
<1>12. ASSUME NEW spans, NEW l, idx = IndexOf(spans, gens + 1, l), l \in Seq(0..gens + 1),
              \A k \in Marks : k.gen \in ToSet(l) => IsPrefix(k.seen, transcript.recs)
       PROVE  PagesInv'
  <2>1. /\ idx.gen = gens + 1 /\ idx.seen = transcript.recs /\ idx.lineage = l
        /\ idx.parseOffset = Len(transcript.recs) /\ idx.anchor = anchorFor(transcript.recs, Len(transcript.recs))
    BY <1>12 DEF IndexOf
  <2>2. gens' = gens + 1
    BY <1>1, <2>1
  <2>3. IndexOfContent(idx)'
    BY <1>12, <2>1, <2>2 DEF IndexOfContent
  <2>4. \A k \in Marks : k.gen \in ToSet(idx.lineage) => IsPrefix(k.seen, idx.seen)
    BY <1>12, <2>1
  <2> QED
    BY <1>1, <1>5, <1>6, <1>9, <2>1, <2>2, <2>3, <2>4, NewIndex
<1>13. CASE idx = Build(gens + 1)
  <2>1. idx = IndexOf(ScanSpans(transcript.recs), gens + 1, <<gens + 1>>)
    BY <1>13 DEF Build
  <2>2. <<gens + 1>> \in Seq(0..gens + 1)
    BY <1>7
  <2>3. \A k \in Marks : k.gen \notin ToSet(<<gens + 1>>)
    <3>1. ToSet(<<gens + 1>>) = {gens + 1}
      BY DEF ToSet
    <3>2. \A k \in Marks : k.gen \in 0..gens
      BY DEF PagesInv
    <3> QED
      BY <1>7, <3>1, <3>2
  <2> QED
    BY <1>12, <2>1, <2>2, <2>3
<1>14. CASE old \in Indexes /\ Continues(old)
            /\ \E spans : idx = IndexOf(spans, gens + 1, foldLineage(Append(old.lineage, gens + 1)))
  <2> DEFINE l == foldLineage(Append(old.lineage, gens + 1))
  <2>1. PICK spans : idx = IndexOf(spans, gens + 1, l)
    BY <1>14
  <2>2. old.lineage \in Seq(0..gens + 1) /\ gens + 1 \in 0..gens + 1
    <3>1. old.lineage \in Seq(0..gens)
      BY <1>14 DEF PagesInv, IndexOfContent
    <3> QED
      BY <1>7, <3>1
  <2>3. l \in Seq(0..gens + 1) /\ \A x \in ToSet(l) : x \in ToSet(old.lineage) \/ x = gens + 1
    BY <2>2, LineageKept
  <2> HIDE DEF l
  <2>4. ASSUME NEW k \in Marks, k.gen \in ToSet(l) PROVE IsPrefix(k.seen, transcript.recs)
    <3>1. k.gen \in 0..gens /\ k.seen \in Seq(PageRecord) /\ old.seen \in Seq(PageRecord)
      BY <1>14 DEF PagesInv, Marks, WasSeen
    <3>2. k.gen \in ToSet(old.lineage)
      BY <1>7, <2>3, <2>4, <3>1
    <3>3. IsPrefix(k.seen, old.seen)
      BY <1>14, <3>2 DEF PagesInv
    <3>4. IsPrefix(old.seen, transcript.recs)
      BY <1>14, AnchorVerifies
    <3> QED
      BY <1>7, <3>1, <3>3, <3>4, BeginsTransitively
  <2> QED
    BY <1>12, <2>1, <2>3, <2>4
<1> QED
  BY <1>2, <1>11, <1>13, <1>14
(* Over the byte budget nothing is indexed for who waits.                 *)
LEMMA OverBudgetStep ==
    ASSUME PagesInv, EnsureOverBudget
    PROVE  PagesInv'
<1>1. Indexed({}) /\ UNCHANGED <<source, transcript, savedIndex, walk, gens, spent>>
  BY Zenon DEF EnsureOverBudget
<1>2. /\ DOMAIN asking' = Readers /\ \A r \in Readers : DOMAIN asking'[r] = {"stage", "cursor", "index"}
      /\ \A r \in Readers : asking'[r].cursor = asking[r].cursor
      /\ \A r \in Readers : asking'[r].index = asking[r].index \/ asking'[r].index = {}
  BY <1>1, GetsIndex
<1>3. PagesTypes'
  BY <1>1, <1>2 DEF PagesInv, PagesTypes
<1>4. Indexes' \subseteq Indexes
  BY <1>1, <1>2 DEF Indexes
<1>5. \A k \in Marks' : k \in Marks
  BY <1>1, <1>2, <1>4 DEF Marks
<1>6. NoStitching'
  BY <1>1 DEF PagesInv, NoStitching
<1> QED
  BY <1>1, <1>3, <1>4, <1>5, <1>6, NoNewContent

(* What an answer leaves with the reader: no mark of another content than  *)
(* those of his walk and of the index, and nothing stitched.               *)
LEMMA AnsweredStep ==
    ASSUME PagesInv, NEW r \in Readers, NEW w, Answered(r, w), {"cursor", "stitched"} \subseteq DOMAIN w,
           \A c \in w.cursor : \E m \in Marks : c.gen = m.gen /\ c.seen = m.seen,
           ~w.stitched
    PROVE  PagesInv'
<1>1. /\ asking' = [asking EXCEPT ![r] = Unasked] /\ walk' = [walk EXCEPT ![r] = w]
      /\ UNCHANGED <<source, transcript, savedIndex, inFlight, gens, spent>>
  BY Zenon DEF Answered
<1> DEFINE u == Unasked
<1>2. DOMAIN u = {"stage", "cursor", "index"} /\ u.cursor = {} /\ u.index = {}
  BY DEF Unasked
<1>3. asking' = [asking EXCEPT ![r] = u]
  BY <1>1
<1> HIDE DEF u
<1>4. DOMAIN asking = Readers /\ DOMAIN walk = Readers
  BY DEF PagesInv, PagesTypes
<1>5. DOMAIN asking' = Readers /\ \A x \in Readers : asking'[x] = asking[x] \/ asking'[x] = u
  BY <1>3, <1>4
<1>6. DOMAIN walk' = Readers /\ \A x \in Readers : walk'[x] = walk[x] \/ walk'[x] = w
  BY <1>1, <1>4
<1>7. PagesTypes'
  BY <1>1, <1>2, <1>5, <1>6 DEF PagesInv, PagesTypes
<1>8. Indexes' \subseteq Indexes
  BY <1>1, <1>2, <1>5 DEF Indexes
<1>9. ASSUME NEW k \in Marks' PROVE \E m \in Marks : k.gen = m.gen /\ k.seen = m.seen
  <2>1. k \in Marks \/ k \in w.cursor
    BY <1>2, <1>5, <1>6, <1>8 DEF Marks
  <2> QED
    BY <2>1
<1>10. NoStitching'
  BY <1>6 DEF PagesInv, NoStitching
<1> QED
  BY <1>1, <1>7, <1>8, <1>9, <1>10, NoNewContent

(* A page is served for a cursor only from an index that has the           *)
(* generation of the cursor in its lineage.                                *)
LEMMA ServesStep ==
    ASSUME PagesInv, NEW r \in Readers, ServePage(r)
    PROVE  PagesInv'
<1>1. PICK idx, page, wire :
         /\ idx \in asking[r].index
         /\ ~\E c \in asking[r].cursor : IsCursorStale(idx, c)
         /\ Answered(r, paginatedEnvelope(r, idx, page, wire))
  BY Zenon DEF ServePage
<1> DEFINE w == paginatedEnvelope(r, idx, page, wire)
<1>2. /\ {"cursor", "stitched"} \subseteq DOMAIN w
      /\ \A c \in w.cursor : c.gen = idx.gen /\ c.seen = idx.seen
      /\ w.stitched = (walk[r].stitched \/ \E c \in asking[r].cursor : ~IsPrefix(c.seen, idx.seen))
  BY DEF paginatedEnvelope
<1>3. Answered(r, w)
  BY <1>1
<1> HIDE DEF w
<1>4. idx \in Indexes /\ idx \in Marks /\ \A c \in asking[r].cursor : c \in Marks
  BY <1>1 DEF Indexes, Marks
<1>5. \A c \in asking[r].cursor : IsPrefix(c.seen, idx.seen)
  <2>1. \A c \in asking[r].cursor : c.gen \in ToSet(idx.lineage)
    BY <1>1 DEF IsCursorStale
  <2> QED
    BY <1>4, <2>1 DEF PagesInv
<1>6. ~w.stitched
  BY <1>2, <1>5 DEF PagesInv, NoStitching
<1>7. \A c \in w.cursor : \E m \in Marks : c.gen = m.gen /\ c.seen = m.seen
  BY <1>2, <1>4
<1> QED
  BY <1>2, <1>3, <1>6, <1>7, AnsweredStep

(* The other answers start the reader again or leave him what he has.      *)
LEMMA OtherAnswersStep ==
    ASSUME PagesInv, NEW r \in Readers, CursorStale(r) \/ EmptyPage(r) \/ FallBack(r)
    PROVE  PagesInv'
<1>1. PICK w : Answered(r, w) /\ (w = Unread \/ w = [walk[r] EXCEPT !.more = FALSE])
  BY Zenon DEF CursorStale, EmptyPage, FallBack
<1>2. CASE w = Unread
  <2>1. {"cursor", "stitched"} \subseteq DOMAIN w /\ w.cursor = {} /\ ~w.stitched
    BY <1>2 DEF Unread
  <2> QED
    BY <1>1, <2>1, AnsweredStep
<1>3. CASE w = [walk[r] EXCEPT !.more = FALSE]
  <2>1. {"cursor", "stitched"} \subseteq DOMAIN walk[r]
    BY DEF PagesInv, PagesTypes
  <2>2. {"cursor", "stitched"} \subseteq DOMAIN w /\ w.cursor = walk[r].cursor /\ w.stitched = walk[r].stitched
    BY <1>3, <2>1
  <2>3. ~w.stitched
    BY <2>2 DEF PagesInv, NoStitching
  <2>4. \A c \in w.cursor : c \in Marks
    BY <2>2 DEF Marks
  <2> QED
    BY <1>1, <2>2, <2>3, <2>4, AnsweredStep
<1> QED
  BY <1>1, <1>2, <1>3

(* A restart forgets the requests.                                         *)
LEMMA RestartsStep ==
    ASSUME PagesInv, BridgeRestarts
    PROVE  PagesInv'
<1> DEFINE u == Unasked
<1>1. /\ asking' = [r \in Readers |-> u]
      /\ spent' = [spent EXCEPT !.restarts = @ + 1]
      /\ UNCHANGED <<source, transcript, savedIndex, walk, gens>>
  BY Zenon DEF BridgeRestarts
<1>2. DOMAIN u = {"stage", "cursor", "index"} /\ u.cursor = {} /\ u.index = {}
  BY DEF Unasked
<1> HIDE DEF u
<1>3. spent' \in [records : Nat, changes : Nat, requests : Nat, restarts : Nat] /\ spent'.records = spent.records
  <2>1. spent \in [records : Nat, changes : Nat, requests : Nat, restarts : Nat]
    BY DEF PagesInv, PagesTypes
  <2> QED
    BY <1>1, <2>1
<1>4. PagesTypes'
  BY <1>1, <1>2, <1>3 DEF PagesInv, PagesTypes
<1>5. Indexes' \subseteq Indexes
  BY <1>1, <1>2 DEF Indexes
<1>6. \A k \in Marks' : k \in Marks
  BY <1>1, <1>2, <1>5 DEF Marks
<1>7. NoStitching'
  BY <1>1 DEF PagesInv, NoStitching
<1> QED
  BY <1>1, <1>3, <1>4, <1>5, <1>6, <1>7, NoNewContent

(* At the start there is no index, no request and no cursor.               *)
LEMMA PagesStarts == PagesInit => PagesInv
<1> SUFFICES ASSUME PagesInit PROVE PagesInv
  OBVIOUS
<1> DEFINE a == Unasked
           u == Unread
<1>1. /\ transcript = [recs |-> <<>>, inode |-> 0, mtime |-> 0] /\ savedIndex = {} /\ gens = 0
      /\ spent = [records |-> 0, changes |-> 0, requests |-> 0, restarts |-> 0]
      /\ asking = [r \in Readers |-> a] /\ walk = [r \in Readers |-> u]
  BY DEF PagesInit
<1>2. DOMAIN a = {"stage", "cursor", "index"} /\ a.cursor = {} /\ a.index = {}
  BY DEF Unasked
<1>3. {"cursor", "stitched"} \subseteq DOMAIN u /\ u.cursor = {} /\ u.stitched = FALSE
  BY DEF Unread
<1> HIDE DEF a, u
<1>4. PagesTypes
  BY <1>1, <1>2, <1>3 DEF PagesTypes
<1>5. Indexes = {} /\ Marks = {}
  BY <1>1, <1>2, <1>3 DEF Indexes, Marks
<1>6. NoStitching
  BY <1>1, <1>3 DEF NoStitching
<1>7. DOMAIN transcript.recs = {}
  BY <1>1
<1> QED
  BY <1>4, <1>5, <1>6, <1>7 DEF PagesInv

(* Every step of the reader, the agent and the bridge keeps the invariant. *)
LEMMA PagesStep == PagesInv /\ [PagesNext]_pageVars => PagesInv'
<1> SUFFICES ASSUME PagesInv, [PagesNext]_pageVars PROVE PagesInv'
  OBVIOUS
<1>1. ASSUME NEW kind \in RecordKinds, NEW key \in MsgKeys, AgentAppends(kind, key) PROVE PagesInv'
  BY <1>1, AppendsStep
<1>2. ASSUME NEW n \in 0..MaxRecords, NEW i \in {transcript.inode, transcript.inode + 1}, AgentCuts(n, i) PROVE PagesInv'
  BY <1>2, CutsStep
<1>3. ASSUME NEW r \in Readers, NEW older \in BOOLEAN, GetSessionMessages(r, older) PROVE PagesInv'
  BY <1>3, AsksStep
<1>4. ASSUME NEW saves \in BOOLEAN, EnsureBuilds(saves) PROVE PagesInv'
  BY <1>4, BuildsStep
<1>5. CASE EnsureOverBudget
  BY <1>5, OverBudgetStep
<1>6. ASSUME NEW r \in Readers, ServePage(r) PROVE PagesInv'
  BY <1>6, ServesStep
<1>7. ASSUME NEW r \in Readers, CursorStale(r) \/ EmptyPage(r) \/ FallBack(r) PROVE PagesInv'
  BY <1>7, OtherAnswersStep
<1>8. CASE BridgeRestarts
  BY <1>8, RestartsStep
<1>9. CASE UNCHANGED pageVars
  <2>1. UNCHANGED <<transcript, savedIndex, asking, walk, gens, spent>>
    BY <1>9 DEF pageVars
  <2>2. PagesTypes'
    BY <2>1 DEF PagesInv, PagesTypes
  <2>3. Indexes' = Indexes /\ Marks' = Marks /\ NoStitching'
    BY <2>1 DEF Indexes, Marks, PagesInv, NoStitching
  <2> QED
    BY <2>1, <2>2, <2>3, NoNewContent
<1> QED
  BY Zenon, <1>1, <1>2, <1>3, <1>4, <1>5, <1>6, <1>7, <1>8, <1>9 DEF PagesNext

(* A cursor never leads into another history, however the agent appends to *)
(* its transcript and cuts it, and whenever the bridge restarts: a page is *)
(* served for a cursor only if the transcript then began with all that was *)
(* indexed when the cursor was given (Refresh, verifyAnchorAt, foldLineage,*)
(* IsCursorStale).                                                         *)
THEOREM PagesNeverStitched == PagesSpec => []NoStitching
<1>1. PagesInv => NoStitching
  BY DEF PagesInv
<1> QED
  BY <1>1, PagesStarts, PagesStep, PTL DEF PagesSpec
=============================================================================
