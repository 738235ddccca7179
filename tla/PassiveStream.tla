---------------------------- MODULE PassiveStream ----------------------------
(***************************************************************************)
(* The passive subscription of the bridge to the events of an agent's own  *)
(* server: the reconnect loop of startPassiveSubscription, and the two     *)
(* subscribers, passiveSubscriber (Codex, a WebSocket) and sseSubscriber   *)
(* (OpenCode, an SSE stream).  The server (external) plays one             *)
(* conversation: a turn streams one item as deltas, may rewrite it         *)
(* (OpenCode), sends snapshots of it and says that the turn ended,         *)
(* OpenCode in two ways, and after each of its steps (step_finish).  A     *)
(* text is the sequence of its deltas.                                     *)
(***************************************************************************)
EXTENDS Naturals, Sequences, FiniteSets, SequencesExt

CONSTANTS
    Subscribers,    \* the subscribers under study: a subset of {"codex", "opencode"}
    PassiveCap,     \* capacity of the event channel (128 in the code)
    NetCap,         \* messages in flight from the server
    MaxText,        \* deltas of an item
    MaxTurns,       \* turns of the conversation
    MaxSteps,       \* steps of a turn
    MaxLosses       \* connections lost, dials and handshakes that fail

ASSUME PassiveAssumption ==
    /\ Subscribers \subseteq {"codex", "opencode"}
    /\ PassiveCap \in Nat \ {0} /\ NetCap \in Nat \ {0}
    /\ MaxText \in Nat /\ MaxTurns \in Nat /\ MaxSteps \in Nat /\ MaxLosses \in Nat

VARIABLES
    agent,          \* which subscriber; never changes
    bridge,         \* the loop: "subscribe", "init", "backoff", "range", "pause", "stopped"
    stop,           \* whether the bridge's context was cancelled
    sub,            \* the subscription: whether its context was cancelled (ctx), the
                    \* connection (conn), readLoop (reader), Close (close)
    net,            \* messages of the server not yet read
    server,         \* the server: turn number, whether it runs, the text of its item,
                    \* the steps of the turn that ended
    mem,            \* the subscriber's maps: the turn they are about, partContent,
                    \* sawDelta, completed
    evq,            \* how many events the channel holds
    shut,           \* whether the channel is closed
    heard,          \* the text of the item as the events of this subscription tell it
    dropped,        \* whether an event of the item found the channel full
    missed,         \* whether the subscription began after the item did
    settled,        \* the last snapshot handled, if no delta came since: at most one
    results,        \* result events of this subscription
    refused,        \* whether a result found the channel full, or the context done
    steps,          \* ends of steps this subscription was told
    ended,          \* the turns whose end this subscription was told
    losses          \* counter of the bound

resultVars == <<results, refused, steps, ended>>
toldVars == <<heard, dropped, missed, settled, resultVars>>
passiveVars == <<agent, bridge, stop, sub, net, server, mem, evq, shut, losses, toldVars>>

NoSub == [ctx |-> FALSE, conn |-> "none", reader |-> "none", close |-> "idle"]
NoMem == [turn |-> 0, content |-> <<>>, saw |-> FALSE, completed |-> FALSE]

-----------------------------------------------------------------------------
(* The server (external).                                                  *)
ServerSends(m) ==
    /\ IF sub.conn = "up" THEN Len(net) < NetCap /\ net' = Append(net, m) ELSE UNCHANGED net
    /\ UNCHANGED <<agent, bridge, stop, sub, mem, evq, shut, losses, toldVars>>

Msg(k) == [kind |-> k, turn |-> server.turn, text |-> server.text]

ServerStartsTurn ==
    /\ ~server.busy /\ server.turn < MaxTurns
    /\ server' = [turn |-> server.turn + 1, busy |-> TRUE, text |-> <<>>, steps |-> 0]
    /\ ServerSends([Msg("started") EXCEPT !.turn = server.turn + 1, !.text = <<>>])

ServerSaysDelta ==
    /\ server.busy /\ Len(server.text) < MaxText
    /\ LET text == Append(server.text, Len(server.text) + 1) IN
       /\ server' = [server EXCEPT !.text = text]
       /\ ServerSends([Msg("delta") EXCEPT !.text = text])

(* OpenCode may rewrite a part; its length marks the new text.             *)
ServerRewrites ==
    /\ agent = "opencode" /\ server.busy /\ server.text # <<>> /\ Head(server.text) = 1
    /\ LET text == [server.text EXCEPT ![1] = 0] IN
       /\ server' = [server EXCEPT !.text = text]
       /\ ServerSends([Msg("snapshot") EXCEPT !.text = text])

ServerSnapshot ==
    /\ server.busy /\ server.text # <<>>
    /\ agent = "opencode"
    /\ ServerSends(Msg("snapshot")) /\ UNCHANGED server

(* A tool, a plan, a permission request: one event, no text.               *)
ServerSaysOther ==
    /\ server.busy /\ server.text = <<>>
    /\ ServerSends(Msg("other")) /\ UNCHANGED server

(* step_finish, of OpenCode: a turn has several steps.                     *)
ServerEndsStep ==
    /\ agent = "opencode" /\ server.busy /\ server.steps < MaxSteps
    /\ server' = [server EXCEPT !.steps = @ + 1]
    /\ ServerSends(Msg("step"))

ServerEndsTurn ==
    /\ server.busy
    /\ server' = [server EXCEPT !.busy = FALSE]
    /\ ServerSends(Msg("completed"))

ServerSaysIdle ==
    /\ agent = "opencode" /\ ~server.busy /\ server.turn > 0
    /\ ServerSends(Msg("idle")) /\ UNCHANGED server

Lost ==
    /\ sub.conn = "up" /\ losses < MaxLosses
    /\ losses' = losses + 1
    /\ sub' = [sub EXCEPT !.conn = "down"]
    /\ \E n \in 0..Len(net) : net' = SubSeq(net, 1, n)
    /\ UNCHANGED <<agent, bridge, stop, server, mem, evq, shut, toldVars>>

-----------------------------------------------------------------------------
(* connect, and startPassiveSubscription's loop around it.  Codex has to   *)
(* say initialize and wait for the answer; when that fails it closes the   *)
(* connection.                                                             *)
Connect ==
    /\ bridge = "subscribe" /\ ~stop
    /\ bridge' = IF agent = "codex" THEN "init" ELSE "range"
    /\ sub' = [NoSub EXCEPT !.conn = "up", !.reader = "reading"]
    /\ net' = <<>> /\ mem' = NoMem /\ evq' = 0 /\ shut' = FALSE
    /\ heard' = <<>> /\ dropped' = FALSE /\ settled' = {}
    /\ results' = 0 /\ refused' = FALSE /\ steps' = 0 /\ ended' = {}
    /\ missed' = (server.text # <<>>)
    /\ UNCHANGED <<agent, stop, server, losses>>

SubscribeFails ==
    /\ \/ bridge = "subscribe" /\ (stop \/ losses < MaxLosses)
       \/ bridge = "init" /\ (stop \/ sub.ctx \/ losses < MaxLosses)
    /\ losses' = IF losses < MaxLosses /\ ~stop /\ ~sub.ctx THEN losses + 1 ELSE losses
    /\ bridge' = "backoff" /\ sub' = NoSub /\ net' = <<>>
    /\ UNCHANGED <<agent, stop, server, mem, evq, shut, toldVars>>

Initialized ==
    /\ bridge = "init" /\ sub.conn = "up"
    /\ bridge' = "range"
    /\ UNCHANGED <<agent, stop, sub, net, server, mem, evq, shut, losses, toldVars>>

(* The wait before the next try: 2 s, or the backoff.                      *)
Waited ==
    /\ bridge \in {"backoff", "pause"}
    /\ bridge' = IF stop THEN "stopped" ELSE "subscribe"
    /\ UNCHANGED <<agent, stop, sub, net, server, mem, evq, shut, losses, toldVars>>

RangeEvent ==
    /\ bridge = "range" /\ evq > 0
    /\ evq' = evq - 1
    /\ UNCHANGED <<agent, bridge, stop, sub, net, server, mem, shut, losses, toldVars>>

RangeEnds ==
    /\ bridge = "range" /\ evq = 0 /\ shut
    /\ bridge' = "pause"
    /\ UNCHANGED <<agent, stop, sub, net, server, mem, evq, shut, losses, toldVars>>

Stop ==
    /\ ~stop /\ stop' = TRUE
    /\ sub' = [sub EXCEPT !.ctx = TRUE]
    /\ UNCHANGED <<agent, bridge, net, server, mem, evq, shut, losses, toldVars>>

-----------------------------------------------------------------------------
(* emit: the event is dropped when the channel is full, and may be once    *)
(* the context is done.                                                    *)
Emit(text) ==
    \/ /\ evq < PassiveCap /\ evq' = evq + 1
       /\ heard' = text /\ UNCHANGED dropped
    \/ /\ evq = PassiveCap \/ sub.ctx
       /\ dropped' = TRUE /\ UNCHANGED <<evq, heard>>
Silent == UNCHANGED <<evq, heard, dropped>>

(* What the maps hold for the item of a message.                           *)
Content(m) == IF mem.turn = m.turn THEN mem.content ELSE <<>>
Token(m) == Last(m.text)

(* turn/started.  The maps and the texts of the events are about the new   *)
(* item.                                                                   *)
HandleStarted(m) ==
    /\ mem' = [mem EXCEPT !.turn = m.turn, !.content = <<>>, !.saw = FALSE]
    /\ heard' = <<>> /\ dropped' = FALSE /\ missed' = FALSE /\ settled' = {}
    /\ evq' = IF agent = "codex" /\ evq < PassiveCap THEN evq + 1 ELSE evq
    /\ UNCHANGED resultVars

(* A delta is told as it is.  OpenCode keeps the text of the part, Codex   *)
(* that the item had a delta.                                              *)
AppendPartContent(m) ==
    mem' = [mem EXCEPT !.turn = m.turn, !.content = Append(Content(m), Token(m))]
StoreSawDelta(m) == mem' = [mem EXCEPT !.turn = m.turn, !.saw = TRUE]

HandlePartDelta(m) ==
    /\ IF agent = "opencode" THEN AppendPartContent(m) ELSE StoreSawDelta(m)
    /\ Emit(Append(heard, Token(m)))
    /\ settled' = {}
    /\ UNCHANGED <<missed, resultVars>>

(* Tools, plans, permission requests and errors are told as they are.      *)
HandleOther(m) ==
    /\ Emit(heard)
    /\ UNCHANGED <<mem, missed, settled, resultVars>>

(* deltaForPartSnapshot: the rest after what the maps hold, or the whole   *)
(* text in place of it.                                                    *)
SnapshotAppends(m) ==
    /\ mem' = [mem EXCEPT !.turn = m.turn, !.content = m.text]
    /\ IF m.text = Content(m) THEN Silent
       ELSE Emit(heard \o SubSeq(m.text, Len(Content(m)) + 1, Len(m.text)))

DeltaForPartSnapshot(m) ==
    /\ mem' = [mem EXCEPT !.turn = m.turn, !.content = m.text]
    /\ IF m.text = Content(m) THEN Silent
       ELSE IF IsPrefix(Content(m), m.text)
       THEN Emit(heard \o SubSeq(m.text, Len(Content(m)) + 1, Len(m.text)))
       ELSE Emit(m.text)

HandlePartUpdated(m) ==
    /\ DeltaForPartSnapshot(m)
    /\ settled' = {m.text}
    /\ UNCHANGED <<missed, resultVars>>

(* emit, of a result.                                                      *)
EmitResult ==
    \/ /\ evq < PassiveCap /\ evq' = evq + 1
       /\ results' = results + 1 /\ UNCHANGED refused
    \/ /\ evq = PassiveCap \/ sub.ctx
       /\ refused' = TRUE /\ UNCHANGED <<evq, results>>

EmitResultAlways == EmitResult /\ mem' = [mem EXCEPT !.completed = TRUE]

(* emitResultOnce: completed is set for the session and stays.             *)
EmitResultOnce ==
    IF mem.completed THEN UNCHANGED <<mem, results, refused, evq>>
    ELSE EmitResult /\ mem' = [mem EXCEPT !.completed = TRUE]

(* handleStepFinish: a result for every step, whatever completed holds.    *)
HandleStepFinish ==
    /\ EmitResult
    /\ steps' = steps + 1
    /\ UNCHANGED <<mem, heard, dropped, missed, settled, ended>>

(* The end of a turn.  Codex: item/completed, whose text is told unless a  *)
(* delta of the item was, then turn/completed.  OpenCode: message.updated  *)
(* of a completed message, and session.status or session.updated idle.     *)
ItemTexts(m) == IF mem.saw \/ m.text = <<>> THEN 0 ELSE 1

ItemThenTurnCompleted(m) ==
    LET n == ItemTexts(m) IN
    /\ mem' = [mem EXCEPT !.saw = FALSE]
    /\ heard' = IF n = 1 /\ evq < PassiveCap THEN m.text ELSE heard
    /\ dropped' = (dropped \/ (n = 1 /\ evq = PassiveCap))
    /\ results' = IF evq + n < PassiveCap THEN results + 1 ELSE results
    /\ refused' = (refused \/ evq + n >= PassiveCap)
    /\ evq' = IF evq + n < PassiveCap THEN evq + n + 1 ELSE PassiveCap
    /\ ended' = ended \cup {m.turn}
    /\ settled' = {m.text}
    /\ UNCHANGED <<missed, steps>>

MessageUpdated(m) ==
    /\ EmitResultOnce
    /\ ended' = ended \cup {m.turn}
    /\ UNCHANGED <<heard, dropped, missed, settled, steps>>

SessionIdle(m) ==
    /\ EmitResultOnce
    /\ ended' = ended \cup {m.turn}
    /\ UNCHANGED <<heard, dropped, missed, settled, steps>>

(* readLoop takes one message; Codex looks at its context first.           *)
ReadMessage ==
    LET m == Head(net) IN
    /\ sub.reader = "reading" /\ net # <<>>
    /\ agent = "codex" => ~sub.ctx
    /\ net' = Tail(net)
    /\ \/ m.kind = "started" /\ HandleStarted(m)
       \/ m.kind = "delta" /\ HandlePartDelta(m)
       \/ m.kind = "other" /\ HandleOther(m)
       \/ m.kind = "snapshot" /\ HandlePartUpdated(m)
       \/ m.kind = "completed" /\ agent = "codex" /\ ItemThenTurnCompleted(m)
       \/ m.kind = "completed" /\ agent = "opencode" /\ MessageUpdated(m)
       \/ m.kind = "idle" /\ SessionIdle(m)
       \/ m.kind = "step" /\ HandleStepFinish
    /\ UNCHANGED <<agent, bridge, stop, sub, server, shut, losses>>

(* The read fails.  Codex cancels the context so that Close runs; OpenCode *)
(* just leaves.                                                            *)
FailRead == sub' = [sub EXCEPT !.reader = "gone", !.ctx = @ \/ agent = "codex"]

ReadFails ==
    /\ sub.reader = "reading"
    /\ \/ sub.conn = "down" /\ net = <<>>
       \/ sub.ctx /\ (agent = "opencode" \/ sub.conn = "down" \/ net # <<>>)
    /\ FailRead
    /\ UNCHANGED <<agent, bridge, stop, net, server, mem, evq, shut, losses, toldVars>>

-----------------------------------------------------------------------------
(* Close, called by Subscribe's goroutine once the context is done.        *)
CloseCalled ==
    /\ sub.ctx /\ sub.close = "idle" /\ bridge = "range"
    /\ sub' = [sub EXCEPT !.close = "waiting"]
    /\ UNCHANGED <<agent, bridge, stop, net, server, mem, evq, shut, losses, toldVars>>

CloseFinds ==
    /\ sub.close \in {"waiting", "deferred"} /\ sub.reader = "gone"
    /\ sub' = [sub EXCEPT !.close = "done", !.conn = "down"]
    /\ shut' = TRUE
    /\ UNCHANGED <<agent, bridge, stop, net, server, mem, evq, losses, toldVars>>

(* 3 s passed: Codex closes the connection, which ends the reader.         *)
CloseGivesTime ==
    /\ sub.close = "waiting" /\ sub.reader = "reading"
    /\ sub' = [sub EXCEPT !.close = "deferred",
                          !.conn = IF agent = "codex" THEN "down" ELSE @]
    /\ UNCHANGED <<agent, bridge, stop, net, server, mem, evq, shut, losses, toldVars>>

-----------------------------------------------------------------------------
PassiveInit ==
    /\ agent \in Subscribers
    /\ bridge = "subscribe" /\ stop = FALSE /\ sub = NoSub /\ net = <<>>
    /\ server = [turn |-> 0, busy |-> FALSE, text |-> <<>>, steps |-> 0]
    /\ mem = NoMem /\ evq = 0 /\ shut = FALSE /\ heard = <<>> /\ dropped = FALSE
    /\ missed = FALSE /\ settled = {} /\ losses = 0
    /\ results = 0 /\ refused = FALSE /\ steps = 0 /\ ended = {}

PassiveNext ==
    \/ ServerStartsTurn \/ ServerSaysDelta \/ ServerSaysOther \/ ServerRewrites \/ ServerSnapshot
    \/ ServerEndsStep \/ ServerEndsTurn \/ ServerSaysIdle \/ Lost
    \/ Connect \/ SubscribeFails \/ Initialized \/ Waited \/ RangeEvent \/ RangeEnds \/ Stop
    \/ ReadMessage \/ ReadFails
    \/ CloseCalled \/ CloseFinds \/ CloseGivesTime

(* Goroutines run and timers fire: the loop, the reader once its           *)
(* connection is gone or its context done, Close.                          *)
PassiveFair ==
    /\ WF_passiveVars(RangeEvent) /\ WF_passiveVars(RangeEnds) /\ WF_passiveVars(Waited)
    /\ WF_passiveVars(Connect) /\ WF_passiveVars(SubscribeFails) /\ WF_passiveVars(Initialized)
    /\ WF_passiveVars(ReadMessage) /\ WF_passiveVars(ReadFails)
    /\ WF_passiveVars(CloseCalled) /\ WF_passiveVars(CloseFinds) /\ WF_passiveVars(CloseGivesTime)
PassiveSpec == PassiveInit /\ [][PassiveNext]_passiveVars /\ PassiveFair

-----------------------------------------------------------------------------
PassiveTypeOK ==
    /\ agent \in Subscribers /\ evq \in 0..PassiveCap
    /\ bridge \in {"subscribe", "init", "backoff", "range", "pause", "stopped"}
    /\ sub.conn \in {"none", "up", "down"} /\ sub.reader \in {"none", "reading", "gone"}
    /\ sub.close \in {"idle", "waiting", "deferred", "done"}
    /\ Len(net) <= NetCap

(* deltaForPartSnapshot, sawDelta: once a snapshot of the item was handled *)
(* and no event was dropped, the events of this subscription tell exactly  *)
(* that text, whatever mix of deltas, snapshots and rewrites came before,  *)
(* and although the subscription may have begun in the middle of the item. *)
(* Codex does not heal that last case: it tells no text once it saw a      *)
(* delta.                                                                  *)
PassiveTextExact ==
    settled # {} /\ ~dropped /\ (agent = "opencode" \/ ~missed) => heard \in settled

(* The results that are due: of Codex one for each turn whose end was told; *)
(* of OpenCode one for each step_finish, and one for all the other ways it  *)
(* says that a turn ended, since completed stays set.                       *)
ResultsDue ==
    steps + (IF agent = "codex" THEN Cardinality(ended) ELSE IF ended = {} THEN 0 ELSE 1)

(* emitResultOnce, handleStepFinish, turn/completed: the ways a server says *)
(* that a turn ended, repeated and mixed, over reconnects in the middle of  *)
(* a turn, add up to exactly the results that are due, less those that find *)
(* the channel full.                                                        *)
ResultsExact == results <= ResultsDue /\ (~refused => results = ResultsDue)

(* "step_finish means one turn has ended".  It does not hold: a turn has    *)
(* several steps, and message.updated tells its end once more.              *)
NoMoreResultsThanTurns == results <= server.turn

(* Every turn whose end was told has its result.  It does not hold: of a    *)
(* second turn OpenCode's subscription tells none, completed being set.     *)
EndedTurnHasResult == ~refused => results >= Cardinality(ended)

(* readLoop's cancel and the loop of startPassiveSubscription: when the    *)
(* connection to the Codex server is lost, or the bridge stops, the loop   *)
(* leaves the dead subscription.  The SSE subscriber does not cancel, so   *)
(* that nothing is promised when its stream ends.                          *)
LoopLeavesDeadStream ==
    (sub.conn = "down" /\ agent = "codex") \/ stop ~> bridge # "range"
=============================================================================
