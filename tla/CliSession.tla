----------------------------- MODULE CliSession -----------------------------
(***************************************************************************)
(* The sessions that start one CLI process per message: codexSession       *)
(* (codex exec) and opencodeSession (opencode run).  Send starts the       *)
(* process and a goroutine that reads its lines; the goroutine turns them  *)
(* into events, waits for the process and reports its failure; Close       *)
(* cancels the context, which kills the process but not the children it    *)
(* left behind, and closes the event channel once the goroutines ended.    *)
(* What the goroutine of a message still has to do for the line at hand is *)
(* a list of instructions: sends, which wait for room in the channel, and  *)
(* the two halves of a flush of pendingMsgs, which all goroutines share.   *)
(***************************************************************************)
EXTENDS Naturals, Sequences, SequencesExt, FiniteSets

CONSTANTS
    Kinds,          \* the sessions under study: a subset of {"codex", "opencode"}
    Prompts,        \* the messages, each sent at most once
    CliClosers,     \* the calls of Close
    CliEventCap,    \* capacity of the event channel (64 in the code)
    CliScenarios    \* bounds: whether Sends overlap (overlap), the items the runs say
                    \* (items), whether Close is called (closes)

ASSUME CliAssumption ==
    /\ Kinds \subseteq {"codex", "opencode"}
    /\ CliEventCap \in Nat \ {0}
    /\ CliScenarios \subseteq [overlap : BOOLEAN, items : Nat, closes : BOOLEAN]

VARIABLES
    kind,           \* which of the two sessions this is; never changes
    scenario,       \* the bounds in force; never change
    alive,          \* alive
    cancelled,      \* whether the context was cancelled
    known,          \* whether threadID / chatID holds the id to resume with
    sending,        \* Send: "idle", "checked", "started", "ended"
    proc,           \* the processes (external): whether the CLI runs, whether a child of
                    \* it holds the pipes, what it said, and its stderr
    loop,           \* the goroutine of each message: "none", "reading", "waiting", "done"
    todo,           \* what it has left to do for the line at hand
    pendingMsgs,    \* the texts of agent messages not yet classified
    queued,         \* how many events the channel holds
    closed,         \* whether the channel is closed
    closing,        \* each Close: "idle", "waiting", "killed", "deferred", "ended"
    said, told,     \* per message: the texts its CLI said, and those sent as events,
                    \* each with its class
    alone,          \* whether no other goroutine read while this one did
    items,          \* how many items the CLIs said, for the bound
    reported        \* whether an event told the end or the failure of this message

cliVars == <<kind, scenario, alive, cancelled, known, sending, proc, loop, todo, pendingMsgs, queued,
             closed, closing, said, told, alone, items, reported>>

NoProc == [up |-> FALSE, child |-> FALSE, stage |-> "none", stderr |-> FALSE]
Put(e) == [op |-> "send", event |-> e, text |-> <<>>]
PutText(as, x) == [op |-> "send", event |-> as, text |-> x]
Flush(as) == [op |-> "flush", event |-> as, text |-> <<>>]
Clear == [op |-> "clear", event |-> "none", text |-> <<>>]
Terminal == {"result", "error"}
Active == {p \in Prompts : loop[p] \in {"reading", "waiting"}}

-----------------------------------------------------------------------------
(* Send, up to the alive check; the start of the process; wg.Add and the   *)
(* goroutine.  Start fails once the context is cancelled.                  *)
Checked(p) ==
    /\ sending[p] = "idle"
    /\ scenario.overlap \/ \A q \in Prompts : sending[q] \in {"idle", "ended"} /\ q \notin Active
    /\ sending' = [sending EXCEPT ![p] = IF alive THEN "checked" ELSE "ended"]
    /\ UNCHANGED <<kind, scenario, alive, cancelled, known, proc, loop, todo, pendingMsgs, queued, closed,
                   closing, said, told, alone, items, reported>>

(* The images of the message cannot be written to the work directory.      *)
StageImagesFails(p) ==
    /\ sending' = [sending EXCEPT ![p] = "ended"]
    /\ UNCHANGED proc

StartProcess(p) ==
    \/ /\ ~cancelled
       /\ sending' = [sending EXCEPT ![p] = "started"]
       /\ proc' = [proc EXCEPT ![p] = [NoProc EXCEPT !.up = TRUE, !.stage = "new"]]
    \/ /\ sending' = [sending EXCEPT ![p] = "ended"]
       /\ UNCHANGED proc

Started(p) ==
    /\ sending[p] = "checked"
    /\ StageImagesFails(p) \/ StartProcess(p)
    /\ UNCHANGED <<kind, scenario, alive, cancelled, known, loop, todo, pendingMsgs, queued, closed,
                   closing, said, told, alone, items, reported>>

Registered(p) ==
    /\ sending[p] = "started"
    /\ sending' = [sending EXCEPT ![p] = "ended"]
    /\ loop' = [loop EXCEPT ![p] = "reading"]
    /\ alone' = [q \in Prompts |-> IF q = p THEN Active = {} ELSE alone[q] /\ q \notin Active]
    /\ UNCHANGED <<kind, scenario, alive, cancelled, known, proc, todo, pendingMsgs, queued, closed,
                   closing, said, told, items, reported>>

-----------------------------------------------------------------------------
(* The process (external): it may leave a child that holds its pipes, may  *)
(* write to stderr, and ends by itself or because the context was          *)
(* cancelled.                                                              *)
ProcEnds(p) ==
    /\ proc[p].up
    /\ \E child, err \in BOOLEAN :
          proc' = [proc EXCEPT ![p].up = FALSE, ![p].child = child, ![p].stderr = err]
    /\ UNCHANGED <<kind, scenario, alive, cancelled, known, sending, loop, todo, pendingMsgs, queued,
                   closed, closing, said, told, alone, items, reported>>

ChildEnds(p) ==
    /\ ~proc[p].up /\ proc[p].child /\ ~cancelled
    /\ proc' = [proc EXCEPT ![p].child = FALSE]
    /\ UNCHANGED <<kind, scenario, alive, cancelled, known, sending, loop, todo, pendingMsgs, queued,
                   closed, closing, said, told, alone, items, reported>>

-----------------------------------------------------------------------------
(* The goroutine reads a line: the lines of codex exec.  A run says its    *)
(* thread, then one turn.                                                  *)
Reads(p, from, to) ==
    /\ loop[p] = "reading" /\ todo[p] = <<>>
    /\ proc[p].up /\ proc[p].stage = from
    /\ proc' = [proc EXCEPT ![p].stage = to]
    /\ UNCHANGED items

ThreadStarted(p) ==
    /\ kind = "codex" /\ Reads(p, "new", "thread")
    /\ known' = TRUE
    /\ UNCHANGED <<todo, pendingMsgs, said>>

TurnStartedKeeping(p) ==
    /\ kind = "codex" /\ Reads(p, "thread", "turn")
    /\ UNCHANGED <<known, todo, pendingMsgs, said>>

TurnStarted(p) ==
    /\ kind = "codex" /\ Reads(p, "thread", "turn")
    /\ pendingMsgs' = <<>>
    /\ UNCHANGED <<known, todo, said>>

(* An agent message is held until a tool starts (it was thinking) or the   *)
(* turn completes (it was the answer).                                     *)
Says(p) ==
    /\ loop[p] = "reading" /\ todo[p] = <<>>
    /\ proc[p].up /\ proc[p].stage = "turn"
    /\ items < scenario.items /\ items' = items + 1
    /\ UNCHANGED proc

AgentMessage(p) ==
    /\ kind = "codex" /\ Says(p)
    /\ LET text == <<p, Len(said[p]) + 1>> IN
       /\ pendingMsgs' = Append(pendingMsgs, text)
       /\ said' = [said EXCEPT ![p] = Append(@, [text |-> text, as |-> "text"])]
    /\ UNCHANGED <<known, todo>>

ItemStarted(p) ==
    /\ kind = "codex" /\ Says(p)
    /\ \E announced \in BOOLEAN :
          todo' = [todo EXCEPT ![p] = <<Flush("thinking")>>
                                       \o (IF announced THEN <<Put("tool_use")>> ELSE <<>>)]
    /\ said' = [said EXCEPT ![p] = [i \in DOMAIN @ |-> [@[i] EXCEPT !.as = "thinking"]]]
    /\ UNCHANGED <<known, pendingMsgs>>

(* The other completed items (reasoning, tools) pass through at once.     *)
ItemCompleted(p) ==
    /\ kind = "codex" /\ Says(p)
    /\ todo' = [todo EXCEPT ![p] = <<Put("tool_result")>>]
    /\ UNCHANGED <<known, pendingMsgs, said>>

(* turn.completed: the usage read from the rollout file, if it could be,   *)
(* the held texts, the result.  turn.failed leaves the texts.              *)
RefreshContextUsage(found) == IF found THEN <<Put("usage")>> ELSE <<>>

TurnCompleted(p) ==
    /\ kind = "codex" /\ Reads(p, "turn", "completed")
    /\ \E found \in BOOLEAN :
          todo' = [todo EXCEPT ![p] = RefreshContextUsage(found)
                                       \o <<Flush("text"), Put("result")>>]
    /\ UNCHANGED <<known, pendingMsgs, said>>

TurnFailed(p) ==
    /\ kind = "codex" /\ Reads(p, "turn", "failed")
    /\ todo' = [todo EXCEPT ![p] = <<Put("error")>>]
    /\ UNCHANGED <<known, pendingMsgs, said>>

(* The lines of opencode run: a step starts, texts and tools pass through, *)
(* an error is passed on at once.                                          *)
StepStart(p) ==
    /\ kind = "opencode" /\ Reads(p, "new", "turn")
    /\ known' = TRUE
    /\ UNCHANGED <<todo, pendingMsgs, said>>

PassesOn(p, as) ==
    LET text == <<p, Len(said[p]) + 1>> IN
    /\ kind = "opencode" /\ Says(p)
    /\ todo' = [todo EXCEPT ![p] = <<PutText(as, text)>>]
    /\ said' = [said EXCEPT ![p] = Append(@, [text |-> text, as |-> as])]
    /\ UNCHANGED <<known, pendingMsgs>>

HandleText(p) == PassesOn(p, "text")
HandleReasoning(p) == PassesOn(p, "thinking")

HandleToolUse(p) ==
    /\ kind = "opencode" /\ Says(p)
    /\ \E completed \in BOOLEAN :
          todo' = [todo EXCEPT ![p] = <<Put("tool_use")>>
                                       \o (IF completed THEN <<Put("tool_result")>> ELSE <<>>)]
    /\ UNCHANGED <<known, pendingMsgs, said>>

HandleError(p) ==
    /\ kind = "opencode" /\ Reads(p, "turn", "failed")
    /\ todo' = [todo EXCEPT ![p] = <<Put("error")>>]
    /\ UNCHANGED <<known, pendingMsgs, said>>

HandleEvent(p) ==
    /\ \/ ThreadStarted(p) \/ TurnStarted(p) \/ AgentMessage(p) \/ ItemStarted(p)
       \/ ItemCompleted(p) \/ TurnCompleted(p) \/ TurnFailed(p)
       \/ StepStart(p) \/ HandleText(p) \/ HandleReasoning(p)
       \/ HandleToolUse(p) \/ HandleError(p)
    /\ UNCHANGED <<kind, scenario, alive, cancelled, sending, loop, queued, closed, closing, told, alone,
                   reported>>

-----------------------------------------------------------------------------
(* The instructions of a line.  A send waits for room; once the context is *)
(* cancelled it may give up instead, which leaves the flush it is part of, *)
(* or the whole line.                                                      *)
Sends(p) ==
    LET next == Head(todo[p]) IN
    /\ todo[p] # <<>> /\ next.op = "send" /\ queued < CliEventCap /\ ~closed
    /\ queued' = queued + 1
    /\ todo' = [todo EXCEPT ![p] = Tail(@)]
    /\ told' = IF next.text = <<>> THEN told
               ELSE [told EXCEPT ![p] = Append(@, [text |-> next.text, as |-> next.event])]
    /\ reported' = [reported EXCEPT ![p] = @ \/ next.event \in Terminal]
    /\ UNCHANGED pendingMsgs

Flushes(p) ==
    LET next == Head(todo[p]) IN
    /\ todo[p] # <<>> /\ next.op = "flush"
    /\ todo' = [todo EXCEPT ![p] =
          [i \in DOMAIN pendingMsgs |-> PutText(next.event, pendingMsgs[i])]
          \o <<Clear>> \o Tail(@)]
    /\ UNCHANGED <<queued, told, reported, pendingMsgs>>

Clears(p) ==
    /\ todo[p] # <<>> /\ Head(todo[p]).op = "clear"
    /\ todo' = [todo EXCEPT ![p] = Tail(@)]
    /\ pendingMsgs' = <<>>
    /\ UNCHANGED <<queued, told, reported>>

GivesUp(p) ==
    /\ todo[p] # <<>> /\ cancelled
    /\ todo' = [todo EXCEPT ![p] =
          LET end == SelectInSeq(@, LAMBDA i : i.op = "clear")
          IN  IF end # 0 THEN SubSeq(@, end + 1, Len(@))
              ELSE IF Head(@).op = "flush" THEN Tail(@) ELSE <<>>]
    /\ UNCHANGED <<queued, told, reported, pendingMsgs>>

Works(p) ==
    /\ Sends(p) \/ Flushes(p) \/ Clears(p) \/ GivesUp(p)
    /\ UNCHANGED <<kind, scenario, alive, cancelled, known, sending, proc, loop, closed, closing, said,
                   alone, items>>

(* stdout ended.  codex waits for the process and reports its stderr when  *)
(* it failed; opencode reports any stderr, and the result when there is    *)
(* none.  "Session not found" makes opencode forget the id.                *)
ReportNothing(p) ==
    /\ todo' = [todo EXCEPT ![p] = IF proc[p].stderr THEN <<Put("error")>> ELSE <<>>]
    /\ UNCHANGED known

Report(p) ==
    \/ /\ kind = "codex"
       /\ \E failed \in BOOLEAN :
             todo' = [todo EXCEPT ![p] = IF failed /\ proc[p].stderr
                                         THEN <<Put("error")>> ELSE <<>>]
       /\ UNCHANGED known
    \/ /\ kind = "opencode"
       /\ \E notFound \in BOOLEAN : known' = (known /\ ~(proc[p].stderr /\ notFound))
       /\ todo' = [todo EXCEPT ![p] = IF proc[p].stderr THEN <<Put("error")>>
                                      ELSE <<Put("result")>>]

OutputEnds(p) ==
    /\ loop[p] = "reading" /\ todo[p] = <<>>
    /\ ~proc[p].up /\ ~proc[p].child
    /\ loop' = [loop EXCEPT ![p] = "waiting"]
    /\ Report(p)
    /\ UNCHANGED <<kind, scenario, alive, cancelled, sending, proc, pendingMsgs, queued, closed, closing,
                   said, told, alone, items, reported>>

LoopEnds(p) ==
    /\ loop[p] = "waiting" /\ todo[p] = <<>>
    /\ loop' = [loop EXCEPT ![p] = "done"]
    /\ UNCHANGED <<kind, scenario, alive, cancelled, known, sending, proc, todo, pendingMsgs, queued,
                   closed, closing, said, told, alone, items, reported>>

(* The consumer (the relay goroutine of the bridge) takes an event.        *)
CliConsume ==
    /\ queued > 0 /\ queued' = queued - 1
    /\ UNCHANGED <<kind, scenario, alive, cancelled, known, sending, proc, loop, todo, pendingMsgs, closed,
                   closing, said, told, alone, items, reported>>

-----------------------------------------------------------------------------
(* Close.                                                                  *)
Moves(c, from, to) == closing[c] = from /\ closing' = [closing EXCEPT ![c] = to]

CloseBegins(c) ==
    /\ scenario.closes /\ Moves(c, "idle", "waiting")
    /\ alive' = FALSE /\ cancelled' = TRUE
    /\ UNCHANGED <<kind, scenario, known, sending, proc, loop, todo, pendingMsgs, queued, closed, said,
                   told, alone, items, reported>>

(* The waiting goroutine saw the counter at zero.                          *)
CloseDone(c) ==
    /\ Active = {}
    /\ \E from \in {"waiting", "killed", "deferred"} : Moves(c, from, "ended")
    /\ closed' = TRUE
    /\ UNCHANGED <<kind, scenario, alive, cancelled, known, sending, proc, loop, todo, pendingMsgs, queued,
                   said, told, alone, items, reported>>

(* 8 s passed: codex kills the process groups of the commands it has.  A   *)
(* Send that started its process before Close has registered it by then.   *)
ForceKill(c) ==
    /\ kind = "codex" /\ Moves(c, "waiting", "killed")
    /\ proc' = [p \in Prompts |-> IF p \in Active
                                  THEN [proc[p] EXCEPT !.up = FALSE, !.child = FALSE]
                                  ELSE proc[p]]

CloseForces(c) ==
    /\ Active # {} /\ \A p \in Prompts : sending[p] # "started"
    /\ ForceKill(c)
    /\ UNCHANGED <<kind, scenario, alive, cancelled, known, sending, loop, todo, pendingMsgs, queued,
                   closed, said, told, alone, items, reported>>

CloseDefers(c) ==
    /\ Active # {}
    /\ IF kind = "codex" THEN Moves(c, "killed", "deferred") ELSE Moves(c, "waiting", "deferred")
    /\ UNCHANGED <<kind, scenario, alive, cancelled, known, sending, proc, loop, todo, pendingMsgs, queued,
                   closed, said, told, alone, items, reported>>

-----------------------------------------------------------------------------
CliInit ==
    /\ kind \in Kinds /\ scenario \in CliScenarios
    /\ alive = TRUE /\ cancelled = FALSE /\ known = FALSE
    /\ sending = [p \in Prompts |-> "idle"]
    /\ proc = [p \in Prompts |-> NoProc]
    /\ loop = [p \in Prompts |-> "none"]
    /\ todo = [p \in Prompts |-> <<>>]
    /\ pendingMsgs = <<>> /\ queued = 0 /\ closed = FALSE
    /\ closing = [c \in CliClosers |-> "idle"]
    /\ said = [p \in Prompts |-> <<>>] /\ told = [p \in Prompts |-> <<>>]
    /\ alone = [p \in Prompts |-> TRUE]
    /\ items = 0
    /\ reported = [p \in Prompts |-> FALSE]

CliNext ==
    \/ \E p \in Prompts :
          \/ Checked(p) \/ Started(p) \/ Registered(p)
          \/ ProcEnds(p) \/ ChildEnds(p)
          \/ HandleEvent(p) \/ Works(p) \/ OutputEnds(p) \/ LoopEnds(p)
    \/ CliConsume
    \/ \E c \in CliClosers :
          CloseBegins(c) \/ CloseDone(c) \/ CloseForces(c) \/ CloseDefers(c)

(* Goroutines run; a cancelled context kills the CLI, not its children;    *)
(* the timers of Close fire.                                               *)
CliFair ==
    /\ \A p \in Prompts :
          /\ WF_cliVars(Works(p)) /\ WF_cliVars(OutputEnds(p)) /\ WF_cliVars(LoopEnds(p))
          /\ WF_cliVars(Started(p)) /\ WF_cliVars(Registered(p))
          /\ WF_cliVars(cancelled /\ ProcEnds(p))
    /\ \A c \in CliClosers :
          /\ WF_cliVars(CloseDone(c)) /\ WF_cliVars(CloseForces(c))
          /\ WF_cliVars(CloseDefers(c))
CliSpec == CliInit /\ [][CliNext]_cliVars /\ CliFair

-----------------------------------------------------------------------------
CliTypeOK ==
    /\ kind \in Kinds /\ scenario \in CliScenarios /\ alive \in BOOLEAN /\ cancelled \in BOOLEAN /\ known \in BOOLEAN
    /\ queued \in 0..CliEventCap /\ closed \in BOOLEAN
    /\ \A p \in Prompts :
          /\ sending[p] \in {"idle", "checked", "started", "ended"}
          /\ loop[p] \in {"none", "reading", "waiting", "done"}
          /\ alone[p] \in BOOLEAN /\ reported[p] \in BOOLEAN
    /\ \A c \in CliClosers : closing[c] \in {"idle", "waiting", "killed", "deferred", "ended"}

(* handleEvent and the flushes: when the turn of a message is over and no  *)
(* other goroutine of the session read meanwhile, the events told each     *)
(* text of that turn exactly once and in order, as thinking when a tool    *)
(* started after it and as text otherwise, and told no text of a turn      *)
(* before, such as one that failed with its texts still held.              *)
TurnTextExact ==
    \A p \in Prompts :
        loop[p] = "done" /\ alone[p] /\ ~cancelled
        /\ (kind = "codex" => proc[p].stage = "completed")
        => told[p] = said[p]

(* readLoop: a message whose goroutine ended without a Close has told its  *)
(* end, so that the phone does not wait for ever.  The one silent way out  *)
(* is a codex process that dies in its turn and leaves no stderr.          *)
EveryRunReports ==
    \A p \in Prompts :
        loop[p] = "done" /\ ~cancelled /\ ~reported[p]
        => kind = "codex" /\ proc[p].stage \notin {"completed", "failed"}

(* Close: once called, the event channel is closed in the end, although    *)
(* the processes the CLI left may hold its pipes: codex kills the process  *)
(* group.  opencode, which kills no group, depends on there being none.    *)
CloseClosesEvents ==
    \A c \in CliClosers :
        closing[c] = "waiting"
        ~> closed \/ (kind = "opencode" /\ \E p \in Active : proc[p].child)
=============================================================================
