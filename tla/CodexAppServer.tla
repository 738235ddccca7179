--------------------------- MODULE CodexAppServer ---------------------------
(***************************************************************************)
(* One appServerSession: JSON-RPC requests to a codex app-server over its  *)
(* stdio or a websocket, the loops that read its answers and its           *)
(* notifications, the turn they build up, questions, and Close.  The       *)
(* server is external.  An agent message is either streamed by deltas or   *)
(* held back until the next tool (then it is shown as thinking) or the end *)
(* of the turn (then as text).                                             *)
(***************************************************************************)
EXTENDS Naturals, Sequences, SequencesExt, FiniteSets

CONSTANTS
    Closers,        \* goroutines that call Close
    Items,          \* agent messages, over all turns
    AppEventCap,    \* capacity of the event channel (128 in the code)
    MaxRequests,    \* bound: requests
    MaxInbound,     \* bound: messages of the server under way
    MaxNotes        \* bound: notifications that are no part of a turn's messages

ASSUME AppServerAssumption ==
    MaxRequests \in Nat /\ MaxInbound \in Nat /\ AppEventCap \in Nat /\ MaxNotes \in Nat

VARIABLES
    boot,           \* newAppServerSession: the request it is at, "ready" or "failed"
    websocket,      \* the transport: a websocket, or the stdio of a process
    peer,           \* whether the process runs, or the websocket is connected
    gone,           \* s.conn and s.stdin are nil
    alive,          \* alive
    cancelled,      \* ctx
    loops,          \* the goroutines of wg that still run
    inbound,        \* messages of the server, not yet read
    rpc,            \* the caller of request: state and what its channel holds
    pending,        \* whether its id is in the pending map
    turn,           \* currentTurn
    pendingMsgs,    \* agent messages held back
    sawDelta,       \* items of which a delta came
    events,         \* how many events the channel holds
    eventsClosed,   \* how often the channel was closed
    once,           \* closeOnce was used
    deferred,       \* a goroutine waits for the loops to close the channel
    closing,        \* Closer -> "idle", "killing", "waiting", "returned"
    question,       \* RespondQuestion: "none", "asked", "written"
    srv,            \* the server: turn it runs, its messages under way
    item,           \* Item -> what became of its text
    panicked        \* who sent on the closed channel
appVars == <<boot, websocket, peer, gone, alive, cancelled, loops, inbound, rpc, pending, turn,
             pendingMsgs, sawDelta, events, eventsClosed, once, deferred, closing, question, srv,
             item, panicked>>

link == <<websocket, peer, gone, alive, cancelled, loops>>
turnVars == <<turn, pendingMsgs, sawDelta, item>>
ending == <<eventsClosed, once, deferred, closing>>

WebsocketLoops == {"read"}
StdioLoops == {"read", "stderr", "wait"}

(* emit: dropped when the channel is full; on a closed channel it panics.  *)
EmitN(n, who) ==
    /\ events' = IF events + n > AppEventCap THEN AppEventCap ELSE events + n
    /\ panicked' = IF n > 0 /\ eventsClosed > 0 THEN panicked \cup {who} ELSE panicked

(* What emit does to the texts of a sequence of items.                     *)
EmittedItems(s) ==
    [i \in Items |-> IF i \in ToSet(s) THEN [item[i] EXCEPT !.emits = @ + 1] ELSE item[i]]

RejectPending == pending' = FALSE /\ rpc' = IF pending THEN [rpc EXCEPT !.box = "error"] ELSE rpc

-----------------------------------------------------------------------------
(* The notifications.                                                      *)
(* Texts held back are dropped; lost marks those that were not dropped by a *)
(* Send that returns late.                                                 *)
ResetTurn(t) ==
    /\ turn' = t /\ pendingMsgs' = <<>>
    /\ item' = [i \in Items |-> IF i \in ToSet(pendingMsgs)
                                THEN [item[i] EXCEPT !.lost = @ \/ rpc.state # "answered"] ELSE item[i]]

TurnStarted(n) ==
    /\ ResetTurn(n.turn) /\ sawDelta' = {}
    /\ EmitN(1, "loop")

FlushPendingAsThinking ==
    /\ pendingMsgs' = <<>> /\ item' = EmittedItems(pendingMsgs)

ItemStarted ==      \* a tool: what was held back was thinking
    /\ FlushPendingAsThinking
    /\ EmitN(Len(pendingMsgs) + 1, "loop")
    /\ UNCHANGED <<turn, sawDelta>>

AgentMessageDelta(n) ==
    /\ sawDelta' = sawDelta \cup {n.item}
    /\ item' = IF n.item \in sawDelta THEN item ELSE EmittedItems(<<n.item>>)
    /\ EmitN(1, "loop")
    /\ UNCHANGED <<turn, pendingMsgs>>

MessageHeldAlways(n) ==
    /\ pendingMsgs' = Append(pendingMsgs, n.item)
    /\ EmitN(0, "loop")
    /\ UNCHANGED <<turn, sawDelta, item>>

AgentMessageCompleted(n) ==
    /\ pendingMsgs' = IF n.item \in sawDelta THEN pendingMsgs ELSE Append(pendingMsgs, n.item)
    /\ EmitN(0, "loop")
    /\ UNCHANGED <<turn, sawDelta, item>>

OtherItemCompleted ==   \* tools, patches, reasoning, compaction; plans, usage and errors
    EmitN(1, "loop") /\ UNCHANGED turnVars

TurnCompleted(n) ==     \* flushPendingAsText, then the result
    /\ pendingMsgs' = <<>> /\ sawDelta' = {}
    /\ item' = EmittedItems(pendingMsgs)
    /\ EmitN(Len(pendingMsgs) + 1, "loop")
    /\ UNCHANGED turn

HandleResponse(n) ==    \* an answer nobody waits for any more is dropped
    LET waited == pending /\ n.turn = rpc.id IN
    /\ pending' = (pending /\ ~waited)
    /\ rpc' = IF waited THEN [rpc EXCEPT !.box = n.kind] ELSE rpc
    /\ UNCHANGED <<turnVars, events, panicked, question>>

HandleRPCMessage(n) ==
    \/ n.kind \in {"ok", "error"} /\ HandleResponse(n)
    \/ /\ UNCHANGED <<rpc, pending>>
       /\ \/ n.kind = "turn/started" /\ TurnStarted(n) /\ UNCHANGED question
          \/ n.kind = "item/started" /\ ItemStarted /\ UNCHANGED question
          \/ n.kind = "delta" /\ AgentMessageDelta(n) /\ UNCHANGED question
          \/ n.kind = "agentMessage" /\ AgentMessageCompleted(n) /\ UNCHANGED question
          \/ n.kind = "other" /\ OtherItemCompleted /\ UNCHANGED question
          \/ n.kind = "turn/completed" /\ TurnCompleted(n) /\ UNCHANGED question
          \/ n.kind = "turn/question" /\ OtherItemCompleted /\ question' = "asked"

-----------------------------------------------------------------------------
(* The loops.  The stdio reader looks at the context after it has read a   *)
(* line, the websocket reader before it reads; both then end silently.     *)
ReadsMessage ==
    /\ "read" \in loops /\ inbound # <<>>
    /\ inbound' = Tail(inbound)
    /\ \/ /\ cancelled /\ loops' = loops \ {"read"}
          /\ UNCHANGED <<turnVars, events, panicked, rpc, pending, question>>
       \/ /\ ~cancelled \/ websocket
          /\ UNCHANGED loops /\ HandleRPCMessage(Head(inbound))
    /\ UNCHANGED <<boot, websocket, peer, gone, alive, cancelled, ending, srv>>

ReadLoopEnds ==
    /\ "read" \in loops /\ inbound = <<>> /\ (~peer \/ gone)
    /\ loops' = loops \ {"read"}
    /\ alive' = FALSE /\ RejectPending
    /\ \E err \in BOOLEAN : EmitN(IF err /\ ~cancelled THEN 1 ELSE 0, "loop")
    /\ UNCHANGED <<boot, websocket, peer, gone, cancelled, inbound, turnVars, ending, question, srv>>

StderrLoopEnds ==
    /\ "stderr" \in loops /\ ~peer
    /\ loops' = loops \ {"stderr"}
    /\ UNCHANGED <<boot, websocket, peer, gone, alive, cancelled, inbound, rpc, pending, turnVars,
                   events, panicked, ending, question, srv>>

WaitLoopEnds ==     \* Wait also closes stdout: what was not read is lost
    /\ "wait" \in loops /\ ~peer
    /\ loops' = loops \ {"wait"}
    /\ inbound' \in {inbound, <<>>}
    /\ alive' = FALSE /\ RejectPending
    /\ \E err \in BOOLEAN : EmitN(IF err /\ ~cancelled THEN 1 ELSE 0, "loop")
    /\ UNCHANGED <<boot, websocket, peer, gone, cancelled, turnVars, ending, question, srv>>

-----------------------------------------------------------------------------
(* requestWithTimeout, one caller at a time (Send, or the start of the     *)
(* session).                                                               *)
Request ==
    /\ rpc.state = "idle" /\ rpc.id < MaxRequests
    /\ \/ boot \in {"initialize", "resume", "start", "usage"}
       \/ boot = "ready" /\ alive      \* Send
    /\ rpc' = [state |-> "writing", box |-> "none", id |-> rpc.id + 1]
    /\ pending' = TRUE
    /\ UNCHANGED <<boot, link, inbound, turnVars, events, panicked, ending, question, srv>>

WriteMessage ==
    /\ rpc.state = "writing"
    /\ \/ /\ ~gone /\ peer
          /\ rpc' = [rpc EXCEPT !.state = "waiting"]
          /\ srv' = [srv EXCEPT !.asked = rpc.id, !.starts = boot = "ready"]
          /\ UNCHANGED pending
       \/ /\ gone \/ ~peer
          /\ rpc' = [rpc EXCEPT !.state = "failed"] /\ pending' = FALSE
          /\ UNCHANGED srv
    /\ UNCHANGED <<boot, link, inbound, turnVars, events, panicked, ending, question>>

RequestEnds ==      \* the answer, the end of the session, or the timeout
    /\ rpc.state = "waiting"
    /\ \/ /\ rpc.box # "none"
          /\ rpc' = [rpc EXCEPT !.state = IF rpc.box = "ok" THEN "answered" ELSE "failed"]
          /\ UNCHANGED pending
       \/ cancelled /\ rpc' = [rpc EXCEPT !.state = "failed"] /\ UNCHANGED pending
       \/ rpc' = [rpc EXCEPT !.state = "failed"] /\ pending' = FALSE
    /\ UNCHANGED <<boot, link, inbound, turnVars, events, panicked, ending, question, srv>>

(* What the caller does with the outcome.  A thread that cannot be resumed *)
(* is replaced by a new one; a session that cannot start is closed.        *)
AfterBoot(ok) ==
    CASE boot = "initialize" -> IF ok THEN {"resume", "start"} ELSE {"failed"}
      [] boot = "resume"     -> IF ok THEN {"usage"} ELSE {"start"}
      [] boot = "start"      -> IF ok THEN {"usage"} ELSE {"failed"}
      [] boot = "usage"      -> {"ready"}

NewAppServerSession ==
    /\ rpc.state \in {"answered", "failed"} /\ boot \notin {"ready", "failed"}
    /\ boot' \in AfterBoot(rpc.state = "answered")
    /\ rpc' = [rpc EXCEPT !.state = "idle"]
    /\ UNCHANGED <<link, inbound, pending, turnVars, events, panicked, ending, question, srv>>

(* The end of Send: it makes the turn of the answer the current one, even  *)
(* when messages of that turn were handled before it got to run.           *)
SendReturns ==
    /\ rpc.state \in {"answered", "failed"} /\ boot = "ready"
    /\ IF rpc.state = "answered" THEN ResetTurn(rpc.id) /\ UNCHANGED sawDelta
       ELSE UNCHANGED turnVars
    /\ rpc' = [rpc EXCEPT !.state = "idle"]
    /\ UNCHANGED <<boot, link, inbound, pending, events, panicked, ending, question, srv>>

(* RespondQuestion and RejectQuestion, from a handler's goroutine.         *)
QuestionWritten ==
    /\ question = "asked" /\ ~gone /\ peer
    /\ question' = "written"
    /\ UNCHANGED <<boot, link, inbound, rpc, pending, turnVars, events, panicked, ending, srv>>

QuestionResolved ==
    /\ question = "written"
    /\ question' = "none" /\ EmitN(1, "handler")
    /\ UNCHANGED <<boot, link, inbound, rpc, pending, turnVars, ending, srv>>

-----------------------------------------------------------------------------
CloseBegins(c) ==
    /\ closing[c] = "idle" /\ boot \in {"ready", "failed"}
    /\ alive' = FALSE /\ cancelled' = TRUE
    /\ closing' = [closing EXCEPT ![c] = "killing"]
    /\ UNCHANGED <<boot, websocket, peer, gone, loops, inbound, rpc, pending, turnVars, events,
                   panicked, eventsClosed, once, deferred, question, srv>>

CloseKills(c) ==
    /\ closing[c] = "killing"
    /\ gone' = TRUE /\ peer' = FALSE
    /\ closing' = [closing EXCEPT ![c] = "waiting"]
    /\ UNCHANGED <<boot, websocket, alive, cancelled, loops, inbound, rpc, pending, turnVars, events,
                   panicked, eventsClosed, once, deferred, question, srv>>

CloseEarly ==       \* the channel is closed, whether or not the loops ended
    /\ eventsClosed' = IF once THEN eventsClosed ELSE eventsClosed + 1
    /\ once' = TRUE /\ UNCHANGED deferred

CloseTimesOut ==
    /\ deferred' = (deferred \/ ~once) /\ once' = TRUE
    /\ UNCHANGED eventsClosed

CloseWaits(c) ==
    /\ closing[c] = "waiting"
    /\ \/ /\ loops = {}
          /\ eventsClosed' = IF once THEN eventsClosed ELSE eventsClosed + 1
          /\ once' = TRUE /\ UNCHANGED deferred
       \/ CloseTimesOut
    /\ closing' = [closing EXCEPT ![c] = "returned"]
    /\ UNCHANGED <<boot, link, inbound, rpc, pending, turnVars, events, panicked, question, srv>>

DeferredClose ==
    /\ deferred /\ loops = {}
    /\ eventsClosed' = eventsClosed + 1 /\ deferred' = FALSE
    /\ UNCHANGED <<boot, link, inbound, rpc, pending, turnVars, events, panicked, once, closing,
                   question, srv>>

-----------------------------------------------------------------------------
(* The consumer of the events, and the server.                             *)
AppConsume ==
    /\ events > 0 /\ events' = 0
    /\ UNCHANGED <<boot, link, inbound, rpc, pending, turnVars, panicked, ending, question, srv>>

Says(n) ==
    /\ peer /\ Len(inbound) < MaxInbound
    /\ inbound' = Append(inbound, n)
    /\ UNCHANGED <<boot, link, rpc, pending, turnVars, events, panicked, ending, question>>
Note(k, t, i) == [kind |-> k, turn |-> t, item |-> i]
NoItem == "no item"

ServerAnswers ==    \* one turn at a time
    /\ srv.asked > 0
    /\ srv.starts => srv.turn = 0
    /\ \E k \in {"ok", "error"} :
          /\ Says(Note(k, srv.asked, NoItem))
          /\ srv' = [srv EXCEPT !.asked = 0, !.started = FALSE,
                                !.turn = IF srv.starts /\ k = "ok" THEN srv.asked ELSE @]

ServerRunsTurn ==
    /\ srv.turn > 0
    /\ \/ ~srv.started /\ Says(Note("turn/started", srv.turn, NoItem))
          /\ srv' = [srv EXCEPT !.started = TRUE]
       \/ srv.started /\ \E i \in Items \ srv.said :
             \/ Says(Note("delta", srv.turn, i)) /\ i \notin srv.streamed
                /\ srv' = [srv EXCEPT !.streamed = @ \cup {i}]
             \/ Says(Note("agentMessage", srv.turn, i))
                /\ srv' = [srv EXCEPT !.said = @ \cup {i}]
       \/ srv.started /\ srv.notes < MaxNotes /\ \E k \in {"item/started", "other", "turn/question"} :
             Says(Note(k, srv.turn, NoItem)) /\ srv' = [srv EXCEPT !.notes = @ + 1]
       \/ srv.started /\ Says(Note("turn/completed", srv.turn, NoItem))
          /\ srv' = [srv EXCEPT !.turn = 0, !.said = @ \cup srv.streamed]

ServerStops ==
    /\ peer /\ peer' = FALSE
    /\ UNCHANGED <<boot, websocket, gone, alive, cancelled, loops, inbound, rpc, pending, turnVars,
                   events, panicked, ending, question, srv>>

AppInit ==
    /\ websocket \in BOOLEAN /\ loops = IF websocket THEN WebsocketLoops ELSE StdioLoops
    /\ boot = "initialize" /\ peer = TRUE /\ gone = FALSE /\ alive = TRUE /\ cancelled = FALSE
    /\ inbound = <<>> /\ rpc = [state |-> "idle", box |-> "none", id |-> 0] /\ pending = FALSE
    /\ turn = 0 /\ pendingMsgs = <<>> /\ sawDelta = {} /\ events = 0 /\ eventsClosed = 0
    /\ once = FALSE /\ deferred = FALSE /\ closing = [c \in Closers |-> "idle"]
    /\ question = "none" /\ panicked = {}
    /\ item = [i \in Items |-> [emits |-> 0, lost |-> FALSE]]
    /\ srv = [asked |-> 0, starts |-> FALSE, turn |-> 0, started |-> FALSE, streamed |-> {},
              said |-> {}, notes |-> 0]

AppNext ==
    \/ ReadsMessage \/ ReadLoopEnds \/ StderrLoopEnds \/ WaitLoopEnds
    \/ Request \/ WriteMessage \/ RequestEnds \/ NewAppServerSession \/ SendReturns
    \/ QuestionWritten \/ QuestionResolved
    \/ \E c \in Closers : CloseBegins(c) \/ CloseKills(c) \/ CloseWaits(c)
    \/ DeferredClose \/ AppConsume
    \/ ServerAnswers \/ ServerRunsTurn \/ ServerStops

AppSpec == AppInit /\ [][AppNext]_appVars

-----------------------------------------------------------------------------
(* However Close is called, and however late the loops end: the channel is *)
(* closed at most once, and none of the loops sends an event afterwards,   *)
(* which would panic and take the bridge down.                             *)
LoopsNeverSendOnClosed == eventsClosed <= 1 /\ "loop" \notin panicked

(* The text of an agent message reaches the consumer once: streamed, or as *)
(* thinking, or at the end of the turn, never twice; and a text held back  *)
(* is never dropped by what the server says.  (A Send that returns when    *)
(* messages of its own turn were already handled does drop them.)          *)
MessageOnce == \A i \in Items : item[i].emits <= 1 /\ ~item[i].lost

(* Close says of its close of the channel that it is safe once the loops   *)
(* have exited: nobody at all sends an event on the closed channel.        *)
NoSendOnClosed == panicked = {}
=============================================================================
