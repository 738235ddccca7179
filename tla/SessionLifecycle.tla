-------------------------- MODULE SessionLifecycle --------------------------
(***************************************************************************)
(* Sessions of an agent backend in go-bridge: the sessionRegistry of         *)
(* types.go and the code of handlers.go that fills, uses and empties it.     *)
(*                                                                         *)
(* A client gets a pending id from create_session.  The first send_message   *)
(* starts the agent; the agent's first event names its real id, and the      *)
(* relay goroutine that forwards its events binds that id to the session.    *)
(* Requests of different connections, relay goroutines, transcript watchers, *)
(* the idle cleanup and the agents run concurrently.  Handlers.mu makes a    *)
(* lookup or a check-and-put atomic; the state changes of the registry only  *)
(* hold the registry's own mutex.                                            *)
(***************************************************************************)
EXTENDS Integers, Sequences, FiniteSets

CONSTANTS
    Clients,     \* connections; each handles one request at a time
    Modes,       \* the installations considered, one of which Init picks
    MaxAgents,   \* bound: agent sessions started
    MaxTurns,    \* bound: messages sent
    MaxRelays    \* bound: relayEvents goroutines alive at a time

Pending == 0                     \* the id "pending-..."
Ids == 0..MaxAgents              \* n > 0: the real id of the n-th agent
Agents == 1..MaxAgents
Objects == 1..(MaxAgents + 2)    \* more than ids, so that a put finds a fresh one
RelaySlots == 1..MaxRelays
Nil == 0                         \* no object, no agent

ASSUME SessionAssumption ==
    /\ Modes \subseteq [backend : {"claude", "codex"}, clients : SUBSET Clients,
                        turns : 0..MaxTurns, views : BOOLEAN, closes : BOOLEAN]
    /\ MaxAgents \in Nat \ {0} /\ MaxTurns \in Nat /\ MaxRelays \in Nat \ {0}

VARIABLES
    mode,        \* the installation: fixed from the start
    registry,    \* sessionRegistry.sessions: id -> trackedSession or Nil
    object,      \* trackedSession -> its fields
    agent,       \* agent session -> process, real id, queued turns, events
    running,     \* Handlers.relayRunning
    relay,       \* relay slot -> goroutine
    watcher,     \* ids whose transcript is being watched
    request,     \* client -> the request it handles
    sweep,       \* ids the cleanup collected and has yet to delete
    started,     \* number of agents started
    sent,        \* number of messages accepted by Send
    told,        \* real ids the clients have seen in an event
    relayed      \* history: agent -> events forwarded, in order

vars == <<mode, registry, object, agent, running, relay, watcher, request, sweep,
          started, sent, told, relayed>>

Backend == mode.backend          \* the agent behind the sessions
Views == mode.views              \* clients open histories and lists
Closes == mode.closes            \* sessions are aborted, cleaned up or die

Blank == [agent |-> Nil, state |-> "idle", sid |-> Pending, aliased |-> FALSE, old |-> FALSE]
NoAgent == [st |-> "none", rid |-> Nil, known |-> FALSE, begun |-> FALSE, turns |-> <<>>, events |-> <<>>]
NoRelay == [at |-> "none", agent |-> Nil, orig |-> Pending, cur |-> Pending, ev |-> <<>>]
NoRequest == [at |-> "none", id |-> Pending, agent |-> Nil, dup |-> Nil]

Init ==
    /\ mode \in Modes
    /\ registry = [i \in Ids |-> Nil]
    /\ object = [o \in Objects |-> Blank]
    /\ agent = [a \in Agents |-> NoAgent]
    /\ running = {}
    /\ relay = [r \in RelaySlots |-> NoRelay]
    /\ watcher = {}
    /\ request = [c \in Clients |-> NoRequest]
    /\ sweep = {}
    /\ started = 0 /\ sent = 0
    /\ told = {}
    /\ relayed = [a \in Agents |-> <<>>]

-----------------------------------------------------------------------------
(* The registry.  Two ids may hold the same trackedSession.                   *)

(* getSession: the agent of an id; Nil without an entry or for a bare stub.   *)
SessionOf(i) == IF registry[i] = Nil THEN Nil ELSE object[registry[i]].agent

(* A fresh trackedSession: one no id holds.                                  *)
Fresh == CHOOSE o \in Objects : \A i \in Ids : registry[i] # o

(* Unreferenced objects are blanked.                                         *)
Collected(reg, obj) ==
    [o \in Objects |-> IF \E i \in Ids : reg[i] = o THEN obj[o] ELSE Blank]
Store(reg, obj) == registry' = reg /\ object' = Collected(reg, obj)

Entry(i, a, state) == [agent |-> a, state |-> state, sid |-> i, aliased |-> FALSE, old |-> FALSE]

(* put: replaces what the id held.                                           *)
Put(i, a) ==
    LET o == Fresh
    IN  Store([registry EXCEPT ![i] = o], [object EXCEPT ![o] = Entry(i, a, "idle")])

(* markRunning, markIdle: a stub is made when the id is unknown.              *)
MarkRunning(i) ==
    IF registry[i] # Nil
    THEN Store(registry, [object EXCEPT ![registry[i]].state = "running"])
    ELSE LET o == Fresh
         IN  Store([registry EXCEPT ![i] = o],
                   [object EXCEPT ![o] = Entry(i, Nil, "running")])
MarkedIdle(reg, obj, i) ==
    IF reg[i] # Nil
    THEN <<reg, [obj EXCEPT ![reg[i]].state = "idle", ![reg[i]].old = FALSE]>>
    ELSE LET o == CHOOSE o \in Objects : \A j \in Ids : reg[j] # o
         IN  <<[reg EXCEPT ![i] = o], [obj EXCEPT ![o] = Entry(i, Nil, "idle")]>>
MarkIdle(i) == LET s == MarkedIdle(registry, object, i) IN Store(s[1], s[2])
IsIdle(i) == registry[i] = Nil \/ object[registry[i]].state = "idle"

(* delete: the id, and the session and pending ids of its trackedSession.     *)
Deleted(i) ==
    LET t == object[registry[i]]
    IN  [j \in Ids |-> IF j = i \/ j = t.sid \/ (t.aliased /\ j = Pending)
                       THEN Nil ELSE registry[j]]

(* rebind: the same trackedSession under both ids; pendingID is set.          *)
Rebound(real) ==
    IF registry[Pending] = Nil THEN <<registry, object>>
    ELSE LET o == registry[Pending]
         IN  <<[registry EXCEPT ![real] = o],
               [object EXCEPT ![o].sid = real, ![o].aliased = TRUE]>>

-----------------------------------------------------------------------------
(* The agents (external processes behind core.AgentSession).                  *)

(* A turn gives a first event, which names the session, and a result.  A      *)
(* process that is being closed may still write.                              *)
AgentEmits(a) ==
    LET ag == agent[a]
        t == Head(ag.turns)
    IN  /\ ag.st \in {"open", "condemned", "closing"}
        /\ ag.turns # <<>>
        /\ agent' = [agent EXCEPT ![a] =
              IF ag.begun
              THEN [ag EXCEPT !.events = Append(@, <<t, "result">>),
                              !.turns = Tail(@), !.begun = FALSE]
              ELSE [ag EXCEPT !.events = Append(@, <<t, "start">>),
                              !.begun = TRUE, !.known = TRUE]]
        /\ UNCHANGED <<mode, registry, object, running, relay, watcher, request, sweep,
                       started, sent, told, relayed>>

(* Close, called outside the locks, and the end of the process.  The events   *)
(* already in the channel stay readable.                                      *)
SetAgent(a, st) ==
    /\ agent' = [agent EXCEPT ![a].st = st,
                              ![a].turns = IF st = "closed" THEN <<>> ELSE @,
                              ![a].begun = @ /\ st # "closed"]
    /\ UNCHANGED <<mode, registry, object, running, relay, watcher, request, sweep,
                   started, sent, told, relayed>>
BeginClose(a) == agent[a].st = "condemned" /\ SetAgent(a, "closing")
AgentEnds(a) ==
    /\ agent[a].st = "closing" \/ (Closes /\ agent[a].st = "open")
    /\ SetAgent(a, "closed")

(* What is left of the agents when a session is taken from the registry.      *)
Condemned(a) == [agent EXCEPT ![a].st = IF @ = "open" THEN "condemned" ELSE @]

-----------------------------------------------------------------------------
(* handleSendMessage.                                                        *)

(* Handlers.mu is free: the cleanup holds it while it sweeps.                 *)
MutexFree == sweep = {}

InSend(c) == request[c].at \in {"lookup", "start", "check", "mark", "send"}

BeginSend(c, i) ==
    /\ request[c].at = "none"
    /\ i \in told \union {Pending}
    /\ sent + Cardinality({x \in Clients : InSend(x)}) < mode.turns
    /\ request' = [request EXCEPT ![c] = [NoRequest EXCEPT !.at = "lookup", !.id = i]]
    /\ UNCHANGED <<mode, registry, object, agent, running, relay, watcher, sweep, started,
                   sent, told, relayed>>

(* A stub without an agent counts as not found.                              *)
Lookup(c) ==
    LET a == SessionOf(request[c].id)
    IN  /\ request[c].at = "lookup"
        /\ MutexFree
        /\ request' = [request EXCEPT ![c] =
              [@ EXCEPT !.at = IF a # Nil THEN "mark" ELSE "start", !.agent = a]]
        /\ UNCHANGED <<mode, registry, object, agent, running, relay, watcher, sweep,
                       started, sent, told, relayed>>

(* StartSession: a fresh session for the pending id, else --resume.           *)
StartAgent(c) ==
    LET a == started + 1
        i == request[c].id
    IN  /\ request[c].at = "start"
        /\ started < MaxAgents
        /\ started' = a
        /\ agent' = [agent EXCEPT ![a] =
              [NoAgent EXCEPT !.st = "open", !.rid = IF i = Pending THEN a ELSE i,
                              !.known = (i # Pending)]]
        /\ request' = [request EXCEPT ![c] = [@ EXCEPT !.at = "check", !.agent = a]]
        /\ UNCHANGED <<mode, registry, object, running, relay, watcher, sweep, sent, told,
                       relayed>>

StartFails(c) ==
    /\ request[c].at = "start"
    /\ request' = [request EXCEPT ![c] = NoRequest]
    /\ UNCHANGED <<mode, registry, object, agent, running, relay, watcher, sweep, started,
                   sent, told, relayed>>

(* The second check: use and keep the session a concurrent send registered,   *)
(* and close the new one; else register the new one.                          *)
CheckWithoutRecheck(c) ==
    LET q == request[c]
    IN  /\ q.at = "check"
        /\ MutexFree
        /\ Put(q.id, q.agent)
        /\ request' = [request EXCEPT ![c] = [q EXCEPT !.at = "mark"]]
        /\ UNCHANGED <<mode, agent, running, relay, watcher, sweep, started, sent, told,
                       relayed>>
Check(c) ==
    LET q == request[c]
        existing == SessionOf(q.id)
    IN  /\ q.at = "check"
        /\ MutexFree
        /\ IF existing # Nil
           THEN /\ agent' = Condemned(q.agent)
                /\ request' = [request EXCEPT ![c] =
                      [q EXCEPT !.at = "mark", !.agent = existing, !.dup = q.agent]]
                /\ UNCHANGED <<registry, object>>
           ELSE /\ Put(q.id, q.agent)
                /\ request' = [request EXCEPT ![c] = [q EXCEPT !.at = "mark"]]
                /\ UNCHANGED agent
        /\ UNCHANGED <<mode, running, relay, watcher, sweep, started, sent, told, relayed>>

(* markRunning, once Close of the duplicate has returned; the subscription    *)
(* that follows is part of Connections.                                       *)
Mark(c) ==
    /\ request[c].at = "mark"
    /\ request[c].dup # Nil => agent[request[c].dup].st = "closed"
    /\ MarkRunning(request[c].id)
    /\ request' = [request EXCEPT ![c].at = "send", ![c].dup = Nil]
    /\ UNCHANGED <<mode, agent, running, relay, watcher, sweep, started, sent, told, relayed>>

(* sess.Send: fails when the process is gone, and then nothing is undone.     *)
Send(c) ==
    LET a == request[c].agent
    IN  /\ request[c].at = "send"
        /\ a # Nil
        /\ IF agent[a].st \in {"open", "condemned"}
           THEN /\ agent' = [agent EXCEPT ![a].turns = Append(@, sent + 1)]
                /\ sent' = sent + 1
                /\ request' = [request EXCEPT ![c].at = "relay"]
           ELSE /\ request' = [request EXCEPT ![c] = NoRequest]
                /\ UNCHANGED <<agent, sent>>
        /\ UNCHANGED <<mode, registry, object, running, relay, watcher, sweep, started,
                       told, relayed>>

(* startRelayIfNotRunning.                                                   *)
StartRelay(c) ==
    LET q == request[c]
    IN  /\ q.at = "relay"
        /\ MutexFree
        /\ IF q.id \in running THEN UNCHANGED <<running, relay>>
           ELSE \E r \in RelaySlots :
                    /\ relay[r].at = "none"
                    /\ \A x \in RelaySlots : relay[x].at = "none" => r <= x
                    /\ relay' = [relay EXCEPT ![r] =
                          [at |-> "run", agent |-> q.agent, orig |-> q.id, cur |-> q.id,
                           ev |-> <<>>]]
                    /\ running' = running \union {q.id}
        /\ request' = [request EXCEPT ![c] = NoRequest]
        /\ UNCHANGED <<mode, registry, object, agent, watcher, sweep, started, sent, told,
                       relayed>>

-----------------------------------------------------------------------------
(* relayEvents.                                                              *)

RelayTakes(r) ==
    LET a == relay[r].agent
    IN  /\ relay[r].at = "run"
        /\ agent[a].events # <<>>
        /\ relay' = [relay EXCEPT ![r].at = "hand", ![r].ev = Head(agent[a].events)]
        /\ agent' = [agent EXCEPT ![a].events = Tail(@)]
        /\ UNCHANGED <<mode, registry, object, running, watcher, request, sweep, started,
                       sent, told, relayed>>

(* rebindSessionIDIfResolved, the state the event implies, the broadcast,     *)
(* touch; a result ends the goroutine except for Claude.                      *)
AlwaysExits == "exit"
AfterResult == IF Backend = "claude" THEN "run" ELSE "exit"
RelayForwards(r) ==
    LET g == relay[r]
        real == agent[g.agent].rid
        cur == IF g.cur = Pending THEN real ELSE g.cur
        bound == IF g.cur = Pending THEN Rebound(real) ELSE <<registry, object>>
        done == g.ev[2] = "result"
        reg == IF done THEN MarkedIdle(bound[1], bound[2], cur) ELSE bound
        o == reg[1][cur]
    IN  /\ g.at = "hand"
        /\ IF Backend = "codex" /\ ~ done /\ o = Nil
           THEN LET n == Fresh
                IN  Store([reg[1] EXCEPT ![cur] = n],
                          [reg[2] EXCEPT ![n] = Entry(cur, Nil, "running")])
           ELSE Store(reg[1],
                      IF o = Nil THEN reg[2]
                      ELSE [reg[2] EXCEPT ![o].old = FALSE,
                                          ![o].state = IF Backend = "codex" /\ ~ done
                                                       THEN "running" ELSE @])
        /\ told' = told \union {cur}
        /\ relayed' = [relayed EXCEPT ![g.agent] = Append(@, g.ev)]
        /\ relay' = [relay EXCEPT ![r] =
              [g EXCEPT !.at = IF done THEN AfterResult ELSE "run", !.cur = cur,
                        !.ev = <<>>]]
        /\ UNCHANGED <<mode, agent, running, watcher, request, sweep, started, sent>>

(* The events channel is closed: a turn still shown as running is completed.  *)
RelaySeesClose(r) ==
    LET g == relay[r]
    IN  /\ g.at = "run"
        /\ agent[g.agent].st = "closed" /\ agent[g.agent].events = <<>>
        /\ IF IsIdle(g.cur) THEN UNCHANGED <<registry, object>> ELSE MarkIdle(g.cur)
        /\ relay' = [relay EXCEPT ![r].at = "exit"]
        /\ UNCHANGED <<mode, agent, running, watcher, request, sweep, started, sent, told,
                       relayed>>

(* The deferred function: both the original and the current id are released.  *)
RelayExitsForgetting(r) ==
    /\ relay[r].at = "exit"
    /\ MutexFree
    /\ running' = running \ {relay[r].cur}
    /\ relay' = [relay EXCEPT ![r] = NoRelay]
    /\ UNCHANGED <<mode, registry, object, agent, watcher, request, sweep, started, sent,
                   told, relayed>>
RelayExits(r) ==
    /\ relay[r].at = "exit"
    /\ MutexFree
    /\ running' = running \ {relay[r].orig, relay[r].cur}
    /\ relay' = [relay EXCEPT ![r] = NoRelay]
    /\ UNCHANGED <<mode, registry, object, agent, watcher, request, sweep, started, sent,
                   told, relayed>>

-----------------------------------------------------------------------------
(* get_session_messages: the id is resolved, an agent gets its relay, and a   *)
(* transcript watcher is started: for Claude in place of a relay and under    *)
(* the same flag, for Codex next to it under a key of its own.                *)
Resolve(i) ==
    LET a == SessionOf(i)
    IN  IF i = Pending /\ a # Nil /\ agent[a].known THEN agent[a].rid ELSE i

View(c, i) ==
    LET j == Resolve(i)
        a == SessionOf(j)
    IN  /\ Views
        /\ request[c].at = "none"
        /\ MutexFree
        /\ i \in told \union {Pending}
        /\ request' = IF a = Nil THEN request
                      ELSE [request EXCEPT ![c] = [NoRequest EXCEPT !.at = "relay", !.id = j, !.agent = a]]
        /\ watcher' = IF Backend = "codex" \/ (a = Nil /\ j \notin running)
                      THEN watcher \union {j} ELSE watcher
        /\ running' = IF Backend = "claude" /\ a = Nil THEN running \union {j} ELSE running
        /\ UNCHANGED <<mode, registry, object, agent, relay, sweep, started, sent, told, relayed>>

(* The transcript, which other processes write too, shows a new turn ...      *)
WatcherSeesTurn(i) ==
    /\ i \in watcher \ {Pending}
    /\ MarkRunning(i)
    /\ UNCHANGED <<mode, agent, running, relay, watcher, request, sweep, started, sent, told,
                   relayed>>

(* ... an interruption (the Claude watcher goes on) ...                       *)
WatcherSeesInterrupt(i) ==
    /\ Backend = "claude"
    /\ i \in watcher \ {Pending}
    /\ MarkIdle(i)
    /\ UNCHANGED <<mode, agent, running, relay, watcher, request, sweep, started, sent, told,
                   relayed>>

(* ... or the end of the last turn, which also ends the watcher; a pending id *)
(* has no transcript, and its watcher ends at once.                           *)
WatcherEnds(i) ==
    /\ i \in watcher
    /\ MutexFree
    /\ watcher' = watcher \ {i}
    /\ running' = IF Backend = "claude" THEN running \ {i} ELSE running
    /\ IF i = Pending THEN UNCHANGED <<registry, object>> ELSE MarkIdle(i)
    /\ UNCHANGED <<mode, agent, relay, request, sweep, started, sent, told, relayed>>

(* enrichSessionState of a listing: a session no process runs becomes idle.   *)
Enrich(i) ==
    /\ Views
    /\ \E a \in Agents : agent[a].rid = i /\ agent[a].known
    /\ \A a \in Agents : agent[a].rid = i => agent[a].turns = <<>>
    /\ MarkIdle(i)
    /\ UNCHANGED <<mode, agent, running, relay, watcher, request, sweep, started, sent, told,
                   relayed>>

-----------------------------------------------------------------------------
(* handleAbortGeneration: deleteSession, then Close, for which it waits.      *)
Abort(c, i) ==
    LET a == SessionOf(i)
    IN  /\ Closes
        /\ request[c].at = "none"
        /\ MutexFree
        /\ i \in told \union {Pending}
        /\ registry[i] # Nil
        /\ Store(Deleted(i), object)
        /\ IF a = Nil THEN UNCHANGED <<agent, request>>
           ELSE /\ agent' = Condemned(a)
                /\ request' = [request EXCEPT ![c] = [NoRequest EXCEPT !.at = "closing", !.id = i, !.agent = a]]
        /\ UNCHANGED <<mode, running, relay, watcher, sweep, started, sent, told, relayed>>

AbortReturns(c) ==
    /\ request[c].at = "closing"
    /\ agent[request[c].agent].st = "closed"
    /\ request' = [request EXCEPT ![c] = NoRequest]
    /\ UNCHANGED <<mode, registry, object, agent, running, relay, watcher, sweep, started,
                   sent, told, relayed>>

(* Time: no event for longer than idleTTL.                                    *)
Age(o) ==
    /\ Closes
    /\ \E i \in Ids : registry[i] = o
    /\ ~ object[o].old
    /\ object' = [object EXCEPT ![o].old = TRUE]
    /\ UNCHANGED <<mode, registry, agent, running, relay, watcher, request, sweep, started,
                   sent, told, relayed>>

(* cleanupIdleSessions: the scan, then the deletions, under Handlers.mu.      *)
Cleanable(i) ==
    /\ i # Pending
    /\ registry[i] # Nil
    /\ object[registry[i]].state = "idle" /\ object[registry[i]].old

CleanupScans ==
    /\ Closes
    /\ sweep = {}
    /\ sweep' = {i \in Ids : Cleanable(i)}
    /\ sweep' # {}
    /\ UNCHANGED <<mode, registry, object, agent, running, relay, watcher, request, started,
                   sent, told, relayed>>

CleanupDeletes(i) ==
    LET a == SessionOf(i)
    IN  /\ i \in sweep
        /\ sweep' = sweep \ {i}
        /\ IF registry[i] = Nil THEN UNCHANGED <<registry, object>>
           ELSE Store(Deleted(i), object)
        /\ agent' = IF a = Nil THEN agent ELSE Condemned(a)
        /\ UNCHANGED <<mode, running, relay, watcher, request, started, sent, told, relayed>>

-----------------------------------------------------------------------------
RequestStep(c) ==
    \/ Lookup(c) \/ StartAgent(c) \/ StartFails(c) \/ Check(c) \/ Mark(c) \/ Send(c)
    \/ StartRelay(c) \/ AbortReturns(c)
RelayStep(r) == RelayTakes(r) \/ RelayForwards(r) \/ RelaySeesClose(r) \/ RelayExits(r)
AgentStep(a) == AgentEmits(a) \/ BeginClose(a) \/ AgentEnds(a)

Next ==
    \/ \E c \in mode.clients : RequestStep(c)
    \/ \E c \in mode.clients, i \in Ids : BeginSend(c, i) \/ View(c, i) \/ Abort(c, i)
    \/ \E r \in RelaySlots : RelayStep(r)
    \/ \E a \in Agents : AgentStep(a)
    \/ \E i \in Ids :
        \/ WatcherSeesTurn(i) \/ WatcherSeesInterrupt(i) \/ WatcherEnds(i)
        \/ Enrich(i) \/ CleanupDeletes(i)
    \/ \E o \in Objects : Age(o)
    \/ CleanupScans

Spec == Init /\ [][Next]_vars

(* Goroutines run, agents work on the turns they accepted, Close returns;     *)
(* nobody has to send another message.                                        *)
LiveSpec ==
    /\ Spec
    /\ \A c \in Clients : WF_vars(RequestStep(c))
    /\ \A r \in RelaySlots : WF_vars(RelayStep(r))
    /\ \A a \in Agents :
          /\ WF_vars(AgentEmits(a)) /\ WF_vars(BeginClose(a))
          /\ WF_vars(agent[a].st = "closing" /\ AgentEnds(a))

-----------------------------------------------------------------------------
(* Every variable has its type; unreferenced objects are blank.               *)
TypeOK ==
    /\ registry \in [Ids -> Objects \union {Nil}]
    /\ object \in [Objects -> [agent : Agents \union {Nil}, state : {"idle", "running"},
                               sid : Ids, aliased : BOOLEAN, old : BOOLEAN]]
    /\ running \subseteq Ids /\ watcher \subseteq Ids /\ sweep \subseteq Ids /\ told \subseteq Ids
    /\ \A c \in Clients : request[c].at = "none" => request[c] = NoRequest
    /\ started \in 0..MaxAgents /\ sent \in 0..MaxTurns

(* An agent that runs and that nobody is about to close or register can be    *)
(* reached: some id of the registry holds it, so abort, cleanup or shutdown   *)
(* can end its process (the double-checked start of handleSendMessage).       *)
NoOrphanAgent ==
    \A a \in Agents :
        agent[a].st = "open" =>
            \/ \E i \in Ids : SessionOf(i) = a
            \/ \E c \in Clients : request[c].at = "check" /\ request[c].agent = a

(* As long as no session ends this holds: of two first messages that both      *)
(* start an agent, the second check keeps one and closes the other.            *)
FirstSendsLeaveNoOrphan == ~ Closes => NoOrphanAgent

(* No send goes to a missing session: the entry may be a stub that            *)
(* markRunning or markIdle left (handleSendMessage, handlers.go:1828-1830).   *)
SendHasSession ==
    \A c \in Clients : request[c].at \in {"mark", "send", "relay"} => request[c].agent # Nil

(* Both: racing first messages and stub entries leave every accepted send with *)
(* an agent, and every agent with an entry.                                    *)
SendsSound == SendHasSession /\ FirstSendsLeaveNoOrphan

(* relayRunning never outlives the goroutine that set it, so an id cannot be  *)
(* barred from being relayed for good (the deferred deletes of relayEvents).  *)
FlagHasOwner ==
    \A i \in running :
        \/ \E r \in RelaySlots : relay[r].at # "none" /\ relay[r].orig = i
        \/ Backend = "claude" /\ i \in watcher

(* Every accepted message has its result forwarded.                           *)
Reported(t) == \E a \in Agents : \E n \in DOMAIN relayed[a] : relayed[a][n] = <<t, "result">>
TurnReported == \A t \in 1..MaxTurns : sent >= t ~> Reported(t)

-----------------------------------------------------------------------------
(* What documents and comments state and the code does not keep (README,      *)
(* section 5).                                                               *)

(* One relay goroutine at a time reads the events of an agent.                *)
OneRelayPerAgent ==
    \A r, x \in RelaySlots :
        relay[r].at # "none" /\ relay[x].at # "none" /\ relay[r].agent = relay[x].agent => r = x

(* The idle cleanup never ends an agent that is working on a message.         *)
SparesTurns ==
    \A a \in Agents :
        sweep # {} /\ agent[a].st = "open" /\ agent'[a].st = "condemned" => agent[a].turns = <<>>
CleanupSparesTurns == [][SparesTurns]_vars

(* A real id leads to the agent session that has this id.                     *)
RealIdNamesItsAgent ==
    \A i \in Ids \ {Pending} : SessionOf(i) # Nil => agent[SessionOf(i)].rid = i

=============================================================================
