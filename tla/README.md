# TLA+ models of CCCode MacBridge

MacBridge lets a phone follow and drive coding agents (Claude Code, Codex,
OpenCode) that run on a Mac. A Go process on the Mac, the *bridge*, talks to the
phone over a WebSocket, directly or through a *relay server* that only sees
encrypted envelopes. This directory holds TLA+ models of both programs and of the
agents' sessions, TLC configurations that check them on small instances, and proofs
that TLAPS checks for instances of any size. All paths below are relative to the
root of the repository.

Contents

1. Inventory of the system
2. Modules and how they correspond to the code
3. Runs, bounds, fairness
4. Proofs
5. Where code and documents disagree
6. What is only model-checked, what is left out
7. Plan
8. How to run

## 1. Inventory of the system

### Relay server (`relay-server/internal/relay`)

| Part | State | Operations | Correct when |
|---|---|---|---|
| Mailbox store, `store.go` | SQLite tables `route_devices` (credential, `next_cursor`, `revoked_at`) and `mailbox_frames` (cursor, size, expiry, `acked_at`) | register, revoke, append with eviction, fetch after a cursor, acknowledge through a cursor, expire | a device that fetches from where it stopped misses nothing that is stored; a cursor is never reused; losses are prefixes; capacity is respected; revoked devices get nothing |
| Sockets, `server.go` | maps of bridges and devices, a bounded queue and a writer goroutine per device socket | connect (replacing an older socket), read and forward, overflow, revoke, cleanup | the maps hold exactly the live sockets; what dies is forgotten; what is not delivered live goes to the mailbox |
| Routes and pairing claims, `store.go`, `server.go` | tables `routes`, `pending_pairing_claims` | activate, claim, complete, fetch and consume the result | a result is handed out once, to the claimant, in time |
| Rate limiter and nonces, `limiter.go` | buckets per key, a cache of nonces | allow, clean up | limits hold per key; memory is bounded |

Every store method is atomic because the store has one SQLite connection. An HTTP
or socket handler makes several store calls, and takes and releases the server's
mutex between them. This is where the difficulty lies: what a handler read may be
stale when it acts.

### Bridge (`go-bridge`)

| Part | State | Operations | Correct when |
|---|---|---|---|
| Direct connections, `server.go` | one goroutine each, `closed`, `onCleanup` | authenticate, accept, register, read requests, ping, close | a closed connection disappears from every table |
| `Broadcaster`, `types.go` | `allConns`, `subscribers` by key, `connSubs` by connection | register, subscribe, unregister, rebind, send | the indexes agree; a subscriber gets its session's events |
| `PendingNotificationStore`, `types.go` | up to 50 notes per device | record, consume | a device that was away finds what it missed |
| `DeviceConnRegistry` | connections by device | register, unregister, disconnect a device | a revoked device has no working connection |
| `RelayBridgeClient`, `relay_bridge_client.go` | the bridge's socket, a map of device connections | hello, replace, prune, reconnect | the map finds the connection that works |
| `sessionRegistry` and session handlers, `types.go`, `handlers.go` | entries by id with agent, state, alias; `relayRunning`; watchers | create, send, open, abort, clean up, relay events, rebind | one agent per session, no orphan process, one relay per agent, every turn reported |
| Offline delivery, `relay_prekey.go`, `relay_offline.go`, `relay_observation.go`, `relay_reconcile.go` | prekey pool, delivery epochs, outbox, the device's delivery state | upload, consume, reserve a counter, queue, flush, apply, reconcile | a nonce is used once; a loss is noticed; nothing is repeated |
| Observation scopes | scope and lease per device | set, query | an expired lease degrades to milestones |
| Encrypted channel, `relay_conn.go` | send and receive counters | send, receive | counters stay in step |
| Pairing, `pairing_*.go`, `relay_first_pairing.go` | pairing sessions, attempt limits, pending connections | create, claim, approve, reject, complete | a token that reaches a phone is trusted; attempts are bounded |
| Trusted devices, `trusted_device_store.go` | file and memory image | add, replace, enable the relay, revoke | a change that was confirmed stays, one that failed did not happen |
| In-process relay, `relay_hub.go`, `relay_service.go` | devices, sockets, mailboxes with their bytes | register, connect, forward, fetch, acknowledge, revoke | the newest socket is reached; the byte count is exact |
| Start-up, `main.go`, `runtime_startup.go`, `tls_*.go`, `relay_identity.go` | files of the data directory, ports | load or create, bind, publish, rotate, shut down | what phones pinned is kept; `runtime.json` can be used |
| Settings, `handlers.go`, `provider_switch.go`, `claude_effort_prefs.go` | directory, model, effort, mode and provider of an agent, the provider proxy | send, set provider, mode, model | a session gets what its request asked for |
| History, `pagination.go` | cursors held by phones | page | the pages add up to the history |
| Management API, hello, OpenCode proxy | little or none | | |

### Agents, core, index, configuration, application

| Part | State | Operations | Correct when |
|---|---|---|---|
| `agent/claudecode` | one process per session with pipes, a reader, streaming state, history drain | send, stream, change mode, end, close | the phone has the text the agent said; Close returns |
| `agent/codex` | app-server sessions (requests, held texts, questions), exec sessions (one process per message), passive subscriber | send, read, answer, close | a text is told once; the channel is closed once, after the last event |
| `agent/opencode` | run sessions, event stream subscriber | send, read, reconnect | as above; the results are those the server announced |
| `core/session.go` | conversations, active ones, a file | create, switch, delete, save, load | memory and file agree on what exists |
| `config` | `config.toml` | about forty editing functions | no edit is lost; the file can be loaded |
| `transcriptindex` | spans, anchors and lineage of a transcript, a saved copy | build, refresh, page, replay | a cursor is never used on another file; pages are exact |
| `MacBridge` | the Swift application that supervises the bridge | | |

### How the parts interact

    phone --- WebSocket ------------------------> bridge: Conn ---> handlers ---> agents
      |                                             ^                  |            |
      |                                             |                  |   events channel
      +-- relay: device socket -> bridge socket --> RelayBridgeClient  |            v
                      ^                             |            relayEvents --> Broadcaster
                      |  mailbox  <--- outbox <-----+--- offline router <-------/

Requests of one connection are handled one after the other; all relay devices
share one read loop. Every session has one goroutine that relays its events. They
share the registry, the broadcaster and the stores, each with its own lock, and
most operations use several of them in turn.

### What is hard

The list with source lines is `hazards` in `PROJECT.json`; in short: cleanups that
run after a successor has taken over; values checked under one lock and used under
another; ids that change while goroutines hold the old one; queues at their limit;
a flush that fails in the middle; acknowledgements and fetches around a
revocation; turns that must be reported although the reader has just gone; texts
that arrive as deltas, snapshots and replays; channels that are closed while
somebody still sends; files that are written while the process dies.

## 2. Modules and how they correspond to the code

`PROJECT.json` (`map`) gives the source lines of every definition. The control of
a handler is kept step by step, at the granularity of its locks and store calls;
payloads, texts, keys and times are reduced to numbers and model values.

**`RelayMailbox`**: the mailbox of the devices of one route. `status`, `next`,
`mail` are the tables; `request` is a handler between `authenticateDevice` and the
store; `position` is the cursor the device itself keeps; `served` and `evicted` are
history. `AppendFrame` is the whole transaction: drop expired and acknowledged rows,
evict, insert, advance the cursor. Time is a counter. `FetchFrames` runs two
statements, but its SELECT repeats the expiry condition, so it is one step.

**`RelayServer`** extends it with the sockets. A handler goes through `phase`:
authenticated, in the map but with the displaced socket not yet closed
(`displacing`), reading, its deferred `shutdownWriter` done (`shutdown`), gone. A
bridge's reader goes through looking the device up, enqueueing, and, when the queue
is full, removing, closing and appending to the mailbox. `RevokeLooksUp`,
`RevokeCloses`, `RevokeRemoves` are `disconnectDevice`. `NetworkClose` and
`ReadGivesUp` are the two ways a read loop ends; `Restart` is the end of the process.

**`OfflineDelivery`**: one device, several session goroutines (`Routers`) of the
bridge, the link to the relay, and the device's `DeliveryState`. A router's steps
are those of `routeOfflineEvent`: look for an epoch, consume a prekey, reserve a
counter (from here on the frame is encrypted), enqueue, flush. `wire` holds what
was written to the connection and is lost with it; what the relay reads it stores in
order, which is what `RelayMailbox` establishes. `DeliveryState` is the reference
for a device's behaviour; in this repository only tests execute it.

**`Connections`**: direct and relay connections with the tables that list them.
The cleanup of a closed connection is a step of its own because it runs outside the
connection's lock. The subscription a request makes is `EndRequest`: between the two
steps anybody may close the connection. `Rebind` is the broadcaster's, on sets of
pairs in place of nested maps. `IsRevoked` always answers false, because nothing
sets `conn.revoked`, and is left out.

**`SessionLifecycle`**: the registry and the code around it, for one pending id and the
real ids of the agents started for it. A `trackedSession` is an object that two ids may
share; an agent has a queue of accepted turns and a channel of events. A request, a
relay goroutine and the cleanup take one step per lock. Events are reduced to what the
relay distinguishes: progress, a result, the end of the channel (an error at an abnormal
exit is folded into the end). `mode`, fixed by `Init`, is the installation a behaviour
is about: the backend, the clients and what they do. The relays' idle timer is off for
Claude and Codex, the two backends modelled. The broadcaster subscription of
`handleSendMessage` is in `Connections`. A bare stub, the entry `markRunning` creates
for an id without a session, is an object without an agent.

**`Pairing`**: the phone's handler of `/pairing` with the gate that counts attempts,
the pending connection and its push, the management API's create, poll, approve and
reject, and the claim that goes through the relay. The approval is taken apart where
the code can fail or be overtaken: state, store, relay, push, completion. A pairing that
is never created is an id that a phone made up; it takes one of the gate's
`maxPairingBuckets` buckets all the same, and `RecordFailure` does not count when there
is none left (`NoRoom`).

**`DeviceRecords`, `DeviceRegistry`, `FileDeviceStore`**: the trusted devices.
`DeviceRegistry` is the abstract specification, one table and one atomic operation at
a time, confirmed, declined or cut off by a crash. `FileDeviceStore` clones, changes,
writes and swaps under `commitMu`, with failing writes, crashes between any two steps
and readers that take the snapshot; its refinement mapping shows the readers'
snapshot as the table.

**`RelayRoutes`**: how routes come to exist at the relay server: both rate limiters
with their bounded buckets, the time window, the nonce cache, the transaction of an
activation, provisioned registration, and the pairing claims with their two-step poll.
The clock counts minutes.

**`ClaudeProcess`**: one Claude process behind pipes: the reader with its bounded event
channel, history drain and its watchdog, streaming with checkpoints that repair lost,
altered or repeated deltas, permission modes, the goroutines that wait, Send and Close.
A write to the CLI's standard input, by a message, an answer of the phone or the answer
the reader itself gives to a permission request, holds `stdinMu` until the CLI takes it.
The CLI is external: a delta it writes says any token while its text grows by none, one
or two. **`CliSession`**: codex exec and opencode run, one process and one
goroutine per message, texts held until a tool or the end of the turn classifies them,
Close with its kill of process groups. **`PassiveStream`**: the subscriptions to
sessions other programs run, with their reconnect loop and each way a server announces an end;
OpenCode's top-level `text` and `reasoning` events, each a whole text emitted as it comes, are left
out: `PassiveTextExact` is about a server that streams parts. **`CodexAppServer`**: one
app-server session over stdio or a WebSocket: requests, notifications, the turn they
build, questions, Close with its deferred close of the channel.

**`AgentSettings`**: the settings of an agent that all phones share, the requests that
set them one lock at a time, `StartSession` that copies them, and the provider proxy.
**`ConfigFile`**: the content of `config.toml` as projects, providers, references,
commands, aliases and settings; each editing function is the set of contents it may
leave. `Edits` are those with arguments that `Load` accepts, `UncheckedEdits` those with
arguments that it refuses and the function does not. `FormatConfigFile` and
`ConfigRepository.WriteRaw` (which nothing but tests calls) are the two writers without
`configMu`. `Validate` leaves out the checks of fields that no function edits. **`CoreSessions`**: `core.SessionManager` and its file. **`RelayHub`**: the
in-process relay. **`Boot`**: a sequence of bridge processes over one data
directory; a shutdown runs beside `Main`, and the next process may start during it.

**`TranscriptPages`**: a transcript as a sequence of records one byte long; the
extractor's spans and the builder's messages are two folds over them, as
in the code, and a page is exact when the bytes of its spans give the messages of the
history. `walk` is a phone that pages back from the newest message.

**`Lists`** has what the loops over slices and tables compute: the entries at given
places of a list, in their order (`KeptAt`), and the sum of their sizes (`Total`).

The eight `*Proofs` modules hold the theorems (section 4). The `MC*` modules
name model values, symmetry sets and scenarios. `MCAgents`, `MCPairing` and `MCStores`
put components that share no state into one specification: `part`, fixed by `Init`,
says which of them moves; the others stand still in one initial state.

An operator placed in front of a definition with a similar name and the same
parameters (`EvictNewestFirst` before `KeptAfterEviction`, `CloseEarly`
before `CloseTimesOut`) is a plausible mistake in that code; `PROJECT.json` (`mutants`) says
which property each one violates when it takes the definition's place. They are
not used otherwise.

## 3. Runs, bounds, fairness

Distinct states are those TLC reports on the configuration in the file.

| Run | Configuration | States | Shows |
|---|---|---|---|
| `mailbox` | 1 device, capacity 3, sizes 1-2, limits 1-2, lifetime 2 ticks, 4 appends | 203 k | Five properties of the mailbox under all orders of two-step requests, eviction, expiry, revocation |
| `server` | 2 device sockets, 1 bridge socket, queue of 1, 2 envelopes | 288 k | `ServerSound`: no orphan socket, no dead entry, no row of an inactive device |
| `server_live` | 1 device and 2 bridge sockets, 1 envelope | 74 k | Dead sockets leave the maps |
| `delivery` | 2 sessions, 3 events, 1 restart; or 1 session, 4 events; 3 prekeys in overlapping batches, pool and outbox of 2 | 800 k | Counters dense, prekeys used once, flush exact, the outbox drains; within one epoch: reconcile exactly when something was lost |
| `conn` | 2 direct connections, keys with and without directory; or 2 relay connections of a device, a rebind, 3 turns | 790 k | Indexes agree; subscribers are reached; the map finds what works |
| `session` | 2 clients, 2 agents, Claude and Codex; 2 messages with aborts, deaths and cleanup, or 3 messages with opened histories | 1.2 M | No message to an entry without an agent and no orphan from concurrent first messages (`SendsSound`); relay flags have owners |
| `session_live` | Claude, 2 clients, 3 messages, nothing ends | 14 k | Every accepted message's result is forwarded |
| `agents` | channels and pipes of 1; Claude: 2 tokens, 2 message ids, up to 5 lines, 2 sends; exec: 2 messages and 2 items one after the other, 1 item overlapping, or a Close; passive: 2 turns, up to 2 deltas or 2 steps, 1 loss | 583 k | Told text is said text; every run reports its end; results are exact; Close and lost streams let go (`AgentsLetGo`, liveness) |
| `pairing` | 1 pairing and 1 made-up id, 1 failure bucket, 3 phones, 3 requests, limits of 1 and 2; 2 devices, tokens, names, keys, 2 callers, 3 changes; 2 installations, 1 address, 2 buckets of 2, 3 minutes, 2 pollers | 567 k | `FileDeviceStore` implements `DeviceRegistry`; delivered tokens are trusted; limits hold; an activation is accepted once |
| `stores` | `ConfigFile`: 2 writers, a formatter and a raw writer, 2 edits; `CoreSessions`: 2 users, 2 sessions, 2 savers; `CodexAppServer`: 1 item, 4 requests, 1 Close; `AgentSettings`: 2 connections, up to 4 requests, 3 providers; `RelayHub`: 1 device, 2 sockets, 2 frames; `Boot`: 2 starts, and a fault, a rotation or an agent; `TranscriptPages`: 3 records, 2 readers, 2 requests, 1 change or restart | 980 k | Ten properties, one or two per component |

`transcript_pages` and `appserver_close` expect a violation; see section 5. A
property that bundles named parts (`ServerSound`, `EpochsSound`, `SendsSound`,
`PairingLimits`, `RoutesSound`, `ConfigSound`, `SettingsTakeEffect`, `HubSound`,
`BootSound`) is their conjunction; the parts are defined next to it. The type
invariants of the modules hold in the same configurations (put `TypeOK`,
`ServerTypeOK`, `StoreTypeOK`, `RoutesTypeOK`, `CliTypeOK`, `PassiveTypeOK`,
`ConfigTypeOK`, `SettingsTypeOK`, `HubTypeOK`, `BootTypeOK`, `PagesTypeOK` in the
place of the properties); they say nothing beyond the shape of the state and are no
runs of their own.

*Excused cases.* Some properties name a case in which the code does not keep them, so
that they say what holds otherwise: `ActivationOnce` a timestamp ahead of the relay's
clock, and a restart of the relay, which forgets the nonces; `EveryRunReports` a codex
process that dies without a word; `PassiveTextExact` a Codex subscription that begins
in the middle of an item; `SerialEdits` the edits raced by `FormatConfigFile` or
`WriteRaw`, which do not take the lock; `FileSound` lets `Load` refuse a file for which a
function was given what `Load` refuses, or which was written in place; `PairingLimits` the
codes compared while the gate has no bucket to count them; `StreamedTextExact` a text
that equals a stream which an earlier checkpoint replaced although it had its whole text
and more; `ResultsExact` says which results are due of the two subscribers as they are;
`MessageOnce` the texts that `Send` clears when the answer to
`turn/start` comes late; `UndisturbedSend` a request with another one beside it;
`PublishedIsKept` a file that exists and cannot be read, and a name given while a start
was between its read and its write; `RuntimeFileUsable` a process whose shutdown has
begun; `ProxyFollowsProvider` sessions whose proxy was closed; `WalkExact` an index whose spans
`Refresh` misplaced (section 5); `AgentsLetGo` a Claude process that runs and never takes
what is being written to it, an OpenCode process whose child holds its pipes, and a lost
OpenCode stream, whose reader leaves without cancelling. Section 5 has the statement
without the exception for those that a comment or a document makes.

*Why these bounds.* The hazards concern pairs: a socket and its successor, a check and a
change by another goroutine, a pending and a real id. Two of each actor, and one more
step than the limit of each queue, reach them. Capacity 3 with sizes 1 and 2 makes an
append evict none, one or two rows. Four appends allow a fetch in the middle of an
eviction. Three events overflow an outbox of two. A third prekey in an overlapping batch
reaches the refusal of a duplicate and of a batch that is too large. Channels and pipes
of one make every send a possible wait. Two pollers, two callers, two connections or two
processes are what a check and a use in different critical sections need. The agents'
and the stores' scenarios split what would multiply: long texts without sends, sends
without text, ends without either; texts that are shorter in the later turn, or steps; a
cut transcript or a restart. Every bound is a
constant named with its meaning, and each one is a guard of the action that would exceed
it; the mutants confirm that the cases are reached. Larger instances, too slow to be
kept as runs, agree: two device and two bridge sockets with two envelopes (3.0 M
states), six events of one session (400 k), three messages of one client with aborts and
cleanup (2.6 M). `CHECK_DEADLOCK FALSE` is set where connections are used once, where
events and messages are bounded: then the model may stop.

*Symmetry* is used for device sockets, clients, phones and signing keys, in runs
without liveness properties. These identities occur in no ordering.

*Fairness.* `RelayServer` assumes weak fairness of the goroutines of handlers that have
started (a handler's next step, its writer, the revocation); peers need not connect,
send or stay. Each is a goroutine with no unbounded wait: reads and writes have
deadlines, and a closed connection ends both. `OfflineDelivery` assumes that a router
continues and that the client keeps reconnecting and then flushes:
`relay_bridge_client.go` retries for ever with a bounded backoff.
`SessionLifecycle!LiveSpec` assumes that a request and a relay continue, that an agent
with work emits its events, and that a session told to close does. The last two are the
agents' part of `core.AgentSession`; they are assumptions about processes outside this
repository. `AgentsLetGo` assumes of `ClaudeProcess`, `CliSession` and `PassiveStream`
that goroutines continue when they can, that timers fire, that a process that was
killed ends and that its end fails a write to its standard input (`WriteFails`). Nothing
is assumed of a process that runs: it need not read its input.
In `MCAgents` each of these holds for the behaviours of its own `part`. No strong
fairness is used, and no client is assumed to send anything.

## 4. Proofs

TLAPS checks the theorems with no bound on the numbers of devices, connections,
keys, sessions, messages, restarts or starts. Every constant that is a number in
section 3 is arbitrary here. They rest on the assumptions named in the modules, and
those say no more than: limits and bounds are naturals (positive where the code's
constant is), identities that play different roles are different (a direct and a
relay connection, a device's and a bridge's socket, a phone and the relay, `None`,
`NoKey`, `Nil` and a real value), the sets of callers and of phones that are counted
are finite, and the scenarios a run picks from have the right shape. Two are about
the program: a connection authenticates as one device and an id is not rebound to
itself (`ConnectionsAssumption`); no provider is called "" or "unknown"
(`SettingsAssumption`). TLC evaluates all of them in the runs.

| Module | Theorem | Property |
|---|---|---|
| `RelayServerProofs` | `MailboxTypeCorrect` | `TypeOK` |
| | `MailboxNoFrameSkipped` | `NoFrameSkipped` |
| | `MailboxCursorIdentity` | `CursorNamesOneEnvelope` |
| | `MailboxLossDiscipline` | `EvictionIsAPrefix`, and acknowledged rows were served |
| | `MailboxRevokedServesNothing` | `RevokedServesNothing`, an action property |
| | `MailboxWithinCapacity` | `WithinCapacity` |
| | `RelayServerSound` | `ServerSound` |
| `OfflineDeliveryProofs` | `DeliveryEpochsSound` | `EpochsSound` |
| | `DeliveryFlushExactlyOnce` | `FlushExactlyOnce` |
| | `DeliveryReconcileExact` | `ReconcileExact` |
| `ConnectionsProofs` | `BroadcasterIndexSound` | `IndexSound` |
| | `RelayMapSound` | `WorkingIsMapped` |
| | `BroadcastReachesSubscribers` | `SubscribersReached` |
| `SessionLifecycleProofs` | `SessionSendsSound` | `SendsSound` |
| | `SessionFlagHasOwner` | `FlagHasOwner` |
| `PairingProofs` | `PairingDeliveredIsTrusted` | `DeliveredIsTrusted` |
| | `PairingLimitsHold` | `PairingLimits` |
| | `RelayActivationOnce` | `ActivationOnce` |
| | `RelayRoutesSound` | `RoutesSound` |
| | `StoreTokenIndexSound` | `TokenIndexSound` |
| | `StoreImplementsRegistry` | `ImplementsRegistry`: the refinement of `DeviceRegistry` |
| `AgentsProofs` | `ClaudeStreamedTextExact` | `StreamedTextExact` |
| | `ClaudeResultNotSwallowed` | `ResultNotSwallowed` |
| | `CliTurnTextExact` | `TurnTextExact` |
| | `CliEveryRunReports` | `EveryRunReports` |
| | `PassiveTextIsExact` | `PassiveTextExact` |
| | `PassiveResultsAreExact` | `ResultsExact` |
| `StoresProofs` | `BootKeepsWhatIsPublished` | `BootSound` |
| | `SettingsProxyFollows` | `ProxyFollowsProvider` |
| | `SettingsAreTakenOver` | `SettingsTakeEffect` |
| | `CodexLoopsNeverSendOnClosed` | `LoopsNeverSendOnClosed` |
| | `CodexMessageOnce` | `MessageOnce` |
| | `ConfigFileSound` | `ConfigSound` |
| | `CoreRegistrySound` | `RegistrySound` |
| | `RelayHubSound` | `HubSound` |
| | `PagesNeverStitched` | `NoStitching` |

The eighth module, `ListsProofs`, has the lemmas about `Lists`.

Hardly one of the properties is inductive. Each proof has an inductive invariant, a
conjunction of named parts, most of which TLC checked as invariants of a run before
they were proved; a lemma per action, or per kind of action, says that it is kept.

**`RelayServerProofs`**, the mailbox. `IInv` conjoins the types, the properties themselves and
four facts:

- `RowsBelongToActive`: a device that is not active has no rows. Without it a fetch
  authenticated before a revocation could return something after it.
- `NextIsFresh`: every cursor stored, served, evicted or held by a device is below
  `next`, so that a new row cannot collide with anything known.
- `AckIsCovered`: an acknowledgement under way names a cursor no greater than the
  device's position. Together with `NoFrameSkipped` everything at or below it has
  been served, whatever arrived since.
- `MailboxesFinite`, needed because the query's LIMIT counts rows.

The central lemma, `FirstByCursorIsAPrefix`, says that an ordered, limited selection
contains with a row every smaller one; hence a device that moves to the largest
cursor of a batch skips nothing. `DroppingRows` covers the steps that only delete.

For `WithinCapacity` only an append matters, since the others make the set of pending
rows smaller (`FewerPending`). What an eviction keeps are the rows from some cursor on.
They fit beside the new frame (`EvictionMakesRoom`; a frame larger than the mailbox is
refused before), and a set with one row more has the sum of both sizes
(`BytesAppended`).

**`RelayServerProofs`**, the sockets: every step of the server is a step of the store or
leaves the tables alone (`ServerStepKeepsMailbox`), so the rows stay those of active
devices. For the sockets `SocketInv` adds to the two parts of `ServerSound`:
`HeldOrDoomed`, which is `NoOrphanSocket` also for a handler that is in the map and
does not read yet, because closing the displaced socket makes a reader of it without
another look at the map; `DebtsOfDisplacing`, a handler owes at most the one close it
took over; `ReaderCarries`, what the bridge's reader took from its lookup is still a
device and a device's socket when it uses it.

**`OfflineDeliveryProofs`.** `KeysSound` ties the counter of an epoch to the number of
frames encrypted under its key, which makes `CountersDense` inductive; `PoolSound`
keeps the prekeys that are offered apart from those an epoch has used; `ReserveHasEpoch`
is what a router relies on between two locks. `FramesSealed` says that whatever is in
the outbox, on the wire or in the mailbox was encrypted, and `DeviceExact` what the
device's state says about the counters it saw; with dense counters both give
`ReconcileExact`: the device asks only after a frame missed its turn, and what it
commits without asking is what was encrypted first.

**`ConnectionsProofs`.** `IndexSound` is inductive by itself, with one lemma for each of
the four updates of the broadcaster; `Rebind`, which rewrites both indexes, is the one
with content. `RelayMapSound` needs the shapes of the maps. `ReachInv` is the other
direction of the indexes, which only holds until an id is rebound: every key in the
record of a connection lists it. A listener is then among the first choice of `Send`
(`ListedIsReached`).

**`SessionLifecycleProofs`.** The registry is seen through `getSession` (`Found`): `Only`
is the agent behind the pending id. As long as nothing closes, `OneSession` says that
every id which leads anywhere leads to it, and that every request past its checks,
every relay and every open agent is `Only`'s, or is in the hands of a request that will
close it. The lemmas about `putSession`, `rebind` and the stubs say what each does to
`Found`. `FlagHasOwner` needs `AgentsKnown` and the types.

**`PairingProofs`**, in five parts with an invariant each. `TrustInv` follows a claim:
whoever is past it owns it, a request of the Mac has done what its step says, a token
is stored for an approved session only. `GateInv` counts wrong codes: while the session
is in the store they are counted failures save those of handlers about to delete it;
once it is deleted only handlers that had looked it up can try another, and the slots
bound them. A guess that finds no bucket changes neither side of this. `ActivationInv`: an accepted message is remembered since a time not before
its timestamp, or its window is over. `BindingInv` and `ClaimInv`: one row each, the row
says what was signed or decided, and a poll between its two steps has seen the decision.
`RateInv`: a bucket counts the last requests of its key, those before lie before its
window, and a key without a bucket was not let through for an interval. That no more
than twice the limit passes in an interval follows from `Spaced`.

The trusted devices, in the same module. `StoreInv`: the records have different tokens
(`SnapshotSound`), the token of a pairing under way is nobody else's (`PendingTokens`),
one caller at a time is between clone and swap (`LockSound`), its clone is the snapshot
with its change applied (`CopySound`), and the file is the one or the other
(`FileSound`). The refinement follows step by step: the write of the file and the clone
are stutters, the swap is the atomic operation, a failed write declines it, a crash
ends it with the change or without.

**`AgentsProofs`.** An agent writes into a pipe or a connection and the bridge reads
from it, so that neither side's state says anything about the other's at the same
moment. The invariants tie them together by what is on the way: there is a run `h` of
the sender, as many states long as there are lines in between, which begins where the
reader stands (`h[0]`) and ends where the sender is, unless the pipe is broken, and
whose steps emit the lines (`Leads` of Claude, `Delivers` of a subscription; `Utters`
and `Plays` are the steps of the two senders). A step of the sender extends the run at
its end, a line read takes its first state away, and only the relation between the
reader and `h[0]` (`Follows`, `Hears`) has to be shown again. A stream that is no prefix
of what the CLI said when the reader's place in it was written, differs from it at a place
that both have (`Parted`) or has run ahead of it; the first stays so while the text
grows, the second is remembered (`ahead`). `ClaudeInv` adds to the
types and this that history is only drained while nothing was sent since (`Drains`),
`PassiveInv` the text told so far,
`ResultsInv` the count of results. `CliInv` needs no run: the process of a
message hands its output over in a list `todo` of what the goroutine has to do. A
message with instructions left has a goroutine at work on them, and one that read alone
so far is the only one at work (`Order`), a goroutine that is gone has reported
(`EndsReported`), and what a message said is what was told, what is held back, and what
`todo` will tell (`TextsOwed`), separately for the two kinds of command.

**`StoresProofs`.** `BootInv`: one process starts at a time while others serve, stop or
are gone; a process holds the port from `Listen` to its shutdown, or until `Serve` sees a
shutdown that began earlier (`Holds`), and the token is its own while `runtime.json` names
it and it holds the port; a name the user gave is stored and no start is about to replace
it; and what a process has loaded and
what the phones were given is what the disk holds, for the certificate up to a later
generation. `SettingsInv`: a proxy in use has its provider as target; `PoolInv`:
the agent's proxy is open and no other is, since every change of provider has stopped the
one before; a request that is
alone is the only one at hand (`AloneInv`), which makes what the agent has taken over
of it so far (`Applied`) stable; the stored effort lags behind only while it is being
saved. `CloseInv`: the channel is closed by the first user of `closeOnce`, when no loop
runs. `TextInv`, for `MessageOnce`: what is on its way from the server is one delta and
one text of an item at most, in this order and within a turn (`WireInv`), and a text is
either emitted, held back or on its way (`HeldInv`); once the read loop has ended
nothing of this is acted upon.

`ConfigInv`: the file is sound, and so is every content that a caller has in hand to
replace it, where sound includes that `Load` accepts it as long as every input was checked
(`ContentSound`); a caller that writes holds the mutex alone, and what it changed is the
file, unless a caller without the lock wrote in between (`Writing`, `Beyond`). `CoreInv`: what is in memory, on disk and
in the snapshot of every save under way is sound (`SnapshotSound`), hence also what a
crash brings back. `HubInv`: the byte count of a mailbox is the total of the frames that
wait in it, within the capacity unless one frame alone is larger, and the newest socket
of a device is the one it is mapped to while it reads.
`PagesInv`: whatever content the transcript has had agrees with its present one before
any record they share (`WasSeen`), because each record the agent writes is a new one; a
generation in the lineage of an index is of a content that the content of the index
begins with. A refresh that finds its anchor shares the last record of the anchor with
the transcript, so the transcript begins with all that was indexed (`AnchorVerifies`),
however short the anchor is. This is the step that a refresh which trusts size and
inode breaks. That no two records have the same bytes is an abstraction: an anchor of
some kilobytes that recurs after a cut is left out.

**`ListsProofs`.** What holds of every finite set or list by induction cannot be proved
by induction here, because the library's theorems take an operator. It is proved by the
least counterexample instead (`LeastOf`, from `WFMin`): of the finite sets without an
enumeration in increasing order take one of least size, remove its greatest element.
A sum is the size of a disjoint union (`Total`), which turns facts about sums into
facts about cardinalities.

Some definitions of the models were changed for the proofs, none of them in what it says
of the code: `CASE` guards that overlapped were made exclusive, records that `@@` put
together are written out, `CountersDense` counts the frames with `Cardinality`, and
lists that were filtered or summed up with `SelectSeq` and `MapThenSumSet`, which the
provers do not look into, use the operators of `Lists`. Two were sharpened.
`ReconcileExact` used to be stated for a run with one session and no restart; the
condition it needs is that one epoch has begun, and it is now checked in every
configuration. `SessionLifecycle` has one entry more than there are ids, without which a
put might have found none that is free.

## 5. Where code and documents disagree

Two runs expect a violation; `PROJECT.json` (`findings`) quotes both sides.

| Run, property | Statement | What happens |
|---|---|---|
| `transcript_pages`, `PagesExact` | a mismatch is an error, pages are never silently misaligned (`transcriptindex/index.go:261`) | `Refresh` reads the tail from `replayFrom` on, but `scanTranscript` counts its offsets from 0 and nobody adds `replayFrom`: after an append the newest spans name bytes at the beginning of the file, and a page whose count happens to fit shows other messages. Where the count does not fit the handler falls back to the whole history, which `pagination.go:217-225` mentions as a replay mismatch whose root cause is to be fixed |
| `appserver_close`, `NoSendOnClosed` | the channel may be closed because the loops have exited (`agent/codex/appserver_session.go:733`) | `RespondQuestion` and `RejectQuestion` emit from their caller's goroutine, which nobody waits for; a Close in between makes the send panic |

Each of the following is stated as a property as well, and TLC finds it violated when
it takes the place of the properties in the configuration named.

| Configuration, property | Statement | What happens |
|---|---|---|
| `MCRelayServer`, `PROPERTY NoEnqueueAfterShutdown` | no enqueue after `shutdownWriter` (`relay/server.go:122`) | the bridge's reader uses a socket it looked up before; the frame is neither delivered nor stored |
| `MCRelayServer`, `INVARIANT HandlerExitCloses` | the read loop's exit tears the connection down (`relay/server.go:113`) | on a deadline it only unregisters it |
| `MCOfflineDelivery`, `INVARIANT NoFrameAfterGap` | no ordinary frames after a counter gap (`relay-v1.md:428`) | a flush clears the overflow and the epoch goes on |
| `MCOfflineDelivery`, `INVARIANT OutboxInCounterOrder` | the outbox is sorted by counter (`relay_observation.go:337`) | reservation and queueing use different locks |
| `MCOfflineDelivery`, `PROPERTY ConsumesOnlyWithoutEpoch` | a prekey is consumed only without an epoch (`relay_prekey.go:449`) | two sessions both find none |
| `MCOfflineDelivery`, `PROPERTY EpochImmutableOnceSubmitted` | an epoch is immutable once submitted (`relay-v1.md:343`) | nothing calls `SealEpoch` |
| `MCConnections`, `INVARIANT ClosedIsForgotten` | a closed connection is unsubscribed (`GO_BRIDGE_ARCHITECTURE.md:100`) | it may close before its cleanup is set (`server.go:292`), or subscribe after it |
| `MCConnections`, `INVARIANT SubscribersReachedAfterRebind` | online subscribers get the event (`GO_BRIDGE_ARCHITECTURE.md:102`) | `Rebind` overwrites the subscribers of the real id (`types.go:452`) |
| `MCConnections`, `PROPERTY OfflineDeviceNotified` | devices that are offline get a note (`GO_BRIDGE_ARCHITECTURE.md:102`) | notes go to the subscribers of that moment (`handlers.go:2911`) |
| `MCConnections`, `INVARIANT RevokedIsDisconnected` | revocation takes effect at once (`device_conn_registry.go:51`) | a connection being set up escapes it |
| `MCSession`, `INVARIANT OneRelayPerAgent` | a relay is started if none runs (`handlers.go:2024`) | the flag is kept under the pending id only |
| `MCSession`, `PROPERTY CleanupSparesTurns` | a running session is not cleaned up as idle (`GO_BRIDGE_ARCHITECTURE.md:94`) | the first result marks it idle while a second message is running |
| `MCSession`, `INVARIANT RealIdNamesItsAgent` | the real id resolves to its session (`GO_BRIDGE_ARCHITECTURE.md:89`) | a late event of an aborted agent binds its successor |
| `MCSession`, `INVARIANT NoOrphanAgent` | no orphan processes (`GO_BRIDGE_ARCHITECTURE.md:66`) | deleting an aliased stub drops another agent's entry (`types.go:299`) |
| `MCSessionLive` with `Modes <- CodexSending`, `PROPERTY TurnReported` | a turn's end reaches the subscribers (`GO_BRIDGE_ARCHITECTURE.md:102`) | a Codex relay exits with a further turn accepted |
| `MCStores`, `INVARIANT ShutdownReapsAgents` | the shutdown closes the agents' processes (`main.go:412-416`, `handlers.go:258-260`) | `Serve` returns as soon as the listener closes, and `Main` with it, while the shutdown still runs |
| `MCStores`, `INVARIANT RuntimeFileExact` | `runtime.json` has the runtime's pid and port (`BUILD_INSTALL_AND_RUNTIME.md:112`) | the shutdown closes the listener first and leaves the file, which then names a live process that does not listen |
| `MCStores`, `PROPERTY NameNeverReset` | the host's name is stored at the first start (`management_api.go:851`) | a start reads the name and writes the default in two steps; a name the user gives through a process that still serves is replaced in between |
| `MCStores`, `INVARIANT LiveSessionKeepsProxy` | a new provider applies to new sessions (`handlers.go:1299`) | `SetActiveProvider` closes the proxy that the running session talks through (`claudecode.go:1586`) |
| `MCStores`, `INVARIANT EditsLoad` | `attachment_send` is on or off, names and types are not empty (`config.go:622`, 633-644) | `SaveGlobalSettings` (3111), `SaveProjectSettings` (2676) and `AddPlatformToProject` (2911, 2930) write what they are given, `RemoveProject` removes the last project; `Load` refuses the file at the next start |
| `MCStores`, `PROPERTY RawAtomic` | `WriteRaw` persists atomically-ish (`config_repository.go:77`) | `os.WriteFile` truncates the file first; a crash leaves it empty, and an edit under `configMu` may be undone |
| `MCAgents`, `INVARIANT RepairedTextExact` | a checkpoint that diverges replaces the text with the full one (`claudecode/session.go:465`) | the stream on record stays as it was: after a repeated delta (streamed `aa`, checkpoint `a`) a later checkpoint `aa` equals it and is skipped, and the phone keeps `a` |
| `MCAgents`, `PROPERTY CloseAlwaysReturns` | SIGTERM and SIGKILL follow when a process does not stop (`claudecode/session.go:1072`, 1087) | `Close` takes `stdinMu` first, which a write holds that the process never reads |
| `MCAgents`, `INVARIANT NoMoreResultsThanTurns` | `step_finish` means that a turn is complete (`opencode/sse_subscriber.go:298`) | a turn has several steps, and its end is told in other ways too; each step is a result |
| `MCAgents`, `INVARIANT EndedTurnHasResult` | one result for every turn whose end is told (`emitResultOnce`, `opencode/sse_subscriber.go:563`) | `completed` is never reset: without `step_finish` a subscription tells the result of its first turn only |
| `MCPairing`, `PROPERTY FailClosed` | beyond `maxPairingBuckets` a new key is refused with rate_limited (`pairing_hardening.go:56-57`) | `recordPairingFailure` returns without counting (158-160), and the guess is answered like any wrong one |
| `MCPairing`, `PROPERTY PushFindsClaimer` | the pending connection is registered before an approval can be pushed (`pairing_handler.go:229-231`) | the session is claimed, and visible to the Mac, before the registration |

## 6. What is only model-checked, what is left out

*Only by TLC*, because the provers cannot: liveness and everything that depends on
fairness (`DeadSocketForgotten`, `OutboxDrains`, `TurnReported`, `AgentsLetGo`); and
`WalkExact`, which compares what two folds over a transcript, the history builder and
the span extractor, make of a part and of the whole: that is induction over data. Every
other property of a passing run is a theorem.

*Left out of the modelled parts.* Cryptography: a frame is a key and a counter, a
signature its key. Frames of an old bridge socket still handled by the client while
the new one sends. Expiry of prekeys. More than one pending id at a time: entries of
different pending ids share only the lock. Text, comments and quoting of `config.toml`.
Usage figures, images and tool details of the agents' events. The content of
certificates.

*Parts not modelled* are listed in `components` with a reason: message construction,
the OpenCode proxy, attachments and the Swift views are input and output or stateless;
the cryptographic primitives are out of a model checker's reach; observation leases,
the counters of the online channel and the presentation states are single short
critical sections, the last one used by tests only. The lines of the source that no
definition stands for are mostly of this kind: listing and reading old sessions, JSON
shapes, logging, command lines, accessors.

## 7. Plan

Done: the modules of section 2 and the theorems of section 4. Next, in this order:

1. Composition of `Pairing` with `FileDeviceStore` and `RelayRoutes`, now checked apart
   with the store and the relay reduced to what `Pairing` uses of them.
2. Observation leases and the counters of the online channel.
3. For `WalkExact`, lemmas that say what a single record adds to the builder's and to
   the extractor's state; they need no induction and would leave only the last step,
   from one record to all, to TLC.

## 8. How to run

    tlc -workers 2 -config MCRelayMailbox.cfg MCRelayMailbox
    tlapm RelayServerProofs.tla

Each run's module and configuration are in `PROJECT.json`. The longest run takes
about four minutes with two workers; the proofs take from one minute to about
ten, `StoresProofs` the longest.
