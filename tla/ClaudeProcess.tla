---------------------------- MODULE ClaudeProcess ----------------------------
(***************************************************************************)
(* One claudeSession: the Claude CLI process behind pipes, the goroutine   *)
(* that reads its lines and turns them into events, the goroutines that    *)
(* wait for its end, Send, the permission modes, and Close.  The CLI is    *)
(* external: it replays the history of a resumed conversation, then        *)
(* answers the messages sent to it.  A text is a sequence of tokens; a     *)
(* delta of a message may be lost, altered or repeated on the way, its     *)
(* checkpoint (the assistant line) carries the text the CLI has so far.    *)
(***************************************************************************)
EXTENDS Naturals, Sequences, SequencesExt

CONSTANTS
    Tokens,         \* pieces of text
    MsgIDs,         \* message ids
    EventCap,       \* capacity of the event channel (64 in the code)
    PipeCap,        \* lines the stdout pipe holds before the CLI blocks
    ClaudeBounds    \* scenarios: bounds on the tokens of a message (text), the lines the
                    \* CLI writes (lines), messages and mode changes (sends), ends (ends), the modes to
                    \* start in (modes)

NoMsg == "no message"
Modes == {"default", "acceptEdits", "bypassPermissions", "dontAsk", "plan"}
NoToken == "no token"

ASSUME ClaudeAssumption ==
    /\ NoMsg \notin MsgIDs /\ EventCap \in Nat \ {0} /\ PipeCap \in Nat \ {0}
    /\ ClaudeBounds \subseteq [text : Nat, lines : Nat, sends : Nat, ends : BOOLEAN,
                        modes : SUBSET Modes]

VARIABLES
    cli,            \* the process: what it says, whether it runs (external)
    pipe,           \* lines in its stdout, not yet read
    out,            \* whether the bridge's end of that pipe is open
    rd,             \* the reader: "scan", "answer" (a permission), "finish", "closing", "closed"
    outq,           \* how many events of the line at hand are not yet in the channel
    ch,             \* how many events the channel holds; shown is what they said
    drain,          \* historyDraining
    stream,         \* streamState: message id and text streamed so far
    active,         \* activeMsgID and emittedText
    flags,          \* permissionMode and the three flags derived from it
    wait,           \* "waiting", "reaped" (waitErrCh filled), "done" (waitDone closed)
    live,           \* alive
    ctx,            \* whether the context was cancelled
    closer,         \* Close: "idle", "stdin", "graceful", "term", "kill", "returned"
    stdin,          \* "open", "closed", or the write that holds stdinMu (StdinWrites)
    reader,         \* whether the consumer of the events still reads them
    shown,          \* what the events said of the message at hand
    claimed,        \* the text of its last checkpoint, when its whole stream was seen and
                    \* no delta came since: a set of at most one
    ahead,          \* a checkpoint replaced a stream that had its whole text and more
    swallowed,      \* a result of a sent message ended the drain instead
    used,           \* counters of the bounds
    bound           \* the scenario, which never changes

reading == <<rd, outq, drain, stream, active, shown, claimed, ahead,
             swallowed>>
endVars == <<wait, live, ctx, closer, stdin>>
claudeVars == <<cli, pipe, out, ch, flags, reader, used, bound, reading, endVars>>

FlagsOf(m) == [mode |-> m, autoApprove |-> m = "bypassPermissions",
               acceptEditsOnly |-> m = "acceptEdits", dontAsk |-> m = "dontAsk"]
\* Send, RespondPermission of the phone, RespondPermission of the reader.
StdinWrites == {"sending", "replying", "answering"}
NoStream == [id |-> NoMsg, text |-> <<>>]
EventCount(n) == IF n THEN 1 ELSE 0

-----------------------------------------------------------------------------
(* The reader's treatment of one line: the events it sends, the state it   *)
(* leaves.                                                                 *)
Handle(evs, d, st, ac) ==
    /\ outq' = evs /\ drain' = d /\ stream' = st /\ active' = ac

HandleSystem(l) ==
    /\ Handle(EventCount(~drain), drain, NoStream, NoStream)
    /\ claimed' = {} /\ ahead' = FALSE
    /\ UNCHANGED <<shown, swallowed>>

(* message_start keeps what was streamed of the same message.              *)
HandleMessageStart(l) ==
    /\ Handle(0, drain,
              IF drain \/ stream.id = l.id THEN stream ELSE [id |-> l.id, text |-> <<>>], active)
    /\ shown' = IF drain \/ stream.id = l.id THEN shown ELSE <<>>
    /\ ahead' = (ahead /\ (drain \/ stream.id = l.id))
    /\ claimed' = {}
    /\ UNCHANGED <<swallowed>>

HandleDelta(l) ==
    /\ IF drain THEN Handle(0, drain, stream, active) /\ UNCHANGED shown
       ELSE /\ Handle(1, drain,
                      [stream EXCEPT !.text = Append(@, l.tok)], active)
            /\ shown' = Append(shown, l.tok)
    /\ claimed' = {}
    /\ UNCHANGED <<ahead, swallowed>>

(* The text block of a checkpoint whose message was streamed: nothing, the *)
(* missing end, the whole, or a replacement when the two disagree, which   *)
(* leaves the text recorded as streamed as it was.                         *)
Divergent(text) == stream.text # <<>> /\ ~IsPrefix(stream.text, text)

CheckpointAppending(l) ==
    LET rest == SubSeq(l.text, Len(stream.text) + 1, Len(l.text)) IN
    /\ Handle(EventCount(rest # <<>>), drain,
              [stream EXCEPT !.text = l.text], active)
    /\ shown' = shown \o rest
    /\ UNCHANGED ahead

CheckpointStreamed(l) ==
    LET rest == SubSeq(l.text, Len(stream.text) + 1, Len(l.text)) IN
    IF Divergent(l.text)
    THEN /\ Handle(1, drain, stream, active)
         /\ shown' = l.text
         /\ ahead' = (ahead \/ IsPrefix(l.text, stream.text))
    ELSE /\ Handle(EventCount(rest # <<>>), drain,
                   [stream EXCEPT !.text = l.text], active)
         /\ shown' = shown \o rest
         /\ UNCHANGED ahead

(* Without the stream, the difference to the last checkpoint of the same   *)
(* message; the whole text when the two disagree.                          *)
CheckpointPlain(l) ==
    LET prev == IF active.id = l.id THEN active.text ELSE <<>>
        rest == IF IsPrefix(prev, l.text)
                THEN SubSeq(l.text, Len(prev) + 1, Len(l.text)) ELSE l.text
    IN  /\ Handle(EventCount(rest # <<>>), drain, stream,
                  IF l.text = <<>> THEN active ELSE [id |-> l.id, text |-> l.text])
        /\ shown' = shown \o rest
        /\ UNCHANGED ahead

HandleAssistant(l) ==
    /\ IF drain THEN Handle(0, drain, stream, active) /\ UNCHANGED <<shown, ahead>>
       ELSE IF stream.id = l.id /\ l.text # <<>> THEN CheckpointStreamed(l)
       ELSE CheckpointPlain(l)
    /\ claimed' = IF ~drain /\ stream.id = l.id /\ l.text # <<>> THEN {l.text} ELSE {}
    /\ UNCHANGED <<swallowed>>

(* Thinking and tool blocks are announced when not draining, the results   *)
(* of tools always.                                                        *)
HandleTool(l) ==
    /\ Handle(EventCount(l.kind = "tool_result" \/ ~drain),
              drain, stream, active)
    /\ UNCHANGED <<shown, claimed, ahead, swallowed>>

HandleResult(l) ==
    /\ Handle(EventCount(~drain), FALSE, NoStream, NoStream)
    /\ claimed' = {} /\ shown' = <<>> /\ ahead' = FALSE
    /\ swallowed' = (swallowed \/ (drain /\ l.live))

(* A permission is granted or refused by the mode, which the reader itself *)
(* writes to the CLI, or left to the phone.                                *)
ByMode(l) == flags.autoApprove \/ flags.dontAsk \/ (flags.acceptEditsOnly /\ l.edit)

HandleControlRequest(l) ==
    /\ Handle(EventCount(~ByMode(l)), drain, stream, active)
    /\ UNCHANGED <<shown, claimed, ahead, swallowed>>

(* The scanner yields a line only when every event of the last one went    *)
(* into the channel.                                                       *)
HandleReadLoopLine ==
    /\ rd = "scan" /\ outq = 0 /\ pipe # <<>>
    /\ LET l == Head(pipe) IN
       \/ l.kind = "system" /\ HandleSystem(l)
       \/ l.kind = "start" /\ HandleMessageStart(l)
       \/ l.kind = "delta" /\ HandleDelta(l)
       \/ l.kind = "assistant" /\ HandleAssistant(l)
       \/ l.kind \in {"thinking", "tool_use", "tool_result"} /\ HandleTool(l)
       \/ l.kind = "result" /\ HandleResult(l)
       \/ l.kind = "request" /\ HandleControlRequest(l)
    /\ rd' = IF Head(pipe).kind = "request" /\ ByMode(Head(pipe)) THEN "answer" ELSE "scan"
    /\ pipe' = Tail(pipe)
    /\ UNCHANGED <<cli, out, ch, flags, reader, used, endVars>>

(* RespondPermission, called by the reader: it waits for stdinMu, then for *)
(* the CLI to take the answer (CliReadsStdin); a closed stdin ends it.     *)
Answer ==
    /\ rd = "answer"
    /\ \/ stdin = "open" /\ stdin' = "answering" /\ rd' = rd
       \/ stdin = "closed" /\ stdin' = stdin /\ rd' = "scan"
    /\ UNCHANGED <<cli, pipe, out, ch, flags, reader, used, outq, drain, stream, active, shown,
                   claimed, ahead, swallowed, wait, live, ctx, closer>>

SendEventBlocking ==
    /\ rd \in {"scan", "closing"} /\ outq > 0
    /\ ch < EventCap /\ ch' = ch + 1 /\ outq' = outq - 1
    /\ UNCHANGED <<cli, pipe, out, flags, reader, used, rd, drain, stream, active, shown, claimed,
                   ahead, swallowed, endVars>>

(* An event goes into the channel, or the cancelled context ends the wait  *)
(* and the rest of the line is dropped.                                    *)
SendEvent ==
    /\ rd \in {"scan", "closing"} /\ outq > 0
    /\ \/ ch < EventCap /\ ch' = ch + 1 /\ outq' = outq - 1
       \/ ctx /\ ch' = ch /\ outq' = 0
    /\ UNCHANGED <<cli, pipe, out, flags, reader, used, rd, drain, stream, active, shown, claimed,
                   ahead, swallowed, endVars>>

(* The end of the output: EOF when the process is gone, an error when the  *)
(* pipe was closed under the scanner.  The error is reported unless the    *)
(* end of the session is already known.                                    *)
HandleReadLoopScanErr ==
    /\ rd = "scan" /\ outq = 0 /\ pipe = <<>>
    /\ \/ ~cli.runs /\ outq' = 0
       \/ ~out /\ outq' = EventCount(~ctx /\ wait # "done")
    /\ rd' = "finish"
    /\ UNCHANGED <<cli, pipe, out, ch, flags, reader, used, drain, stream, active, shown, claimed,
                   ahead, swallowed, endVars>>

SendScanErr ==      \* that error, before finishReadLoop runs
    /\ rd = "finish" /\ outq > 0
    /\ \/ ch < EventCap /\ ch' = ch + 1
       \/ ctx /\ ch' = ch
    /\ outq' = 0
    /\ UNCHANGED <<cli, pipe, out, flags, reader, used, rd, drain, stream, active, shown, claimed,
                   ahead, swallowed, endVars>>

FinishReadLoop ==
    /\ rd = "finish" /\ outq = 0 /\ wait # "waiting"
    /\ live' = FALSE
    /\ rd' = "closing"
    /\ outq' \in {0, 1}     \* one: a failed exit with something on stderr
    /\ UNCHANGED <<cli, pipe, out, ch, flags, reader, used, drain, stream, active, shown, claimed,
                   ahead, swallowed, wait, ctx, closer, stdin>>

CloseChannels ==
    /\ rd = "closing" /\ outq = 0
    /\ rd' = "closed"
    /\ UNCHANGED <<cli, pipe, out, ch, flags, reader, used, outq, drain, stream, active, shown,
                   claimed, ahead, swallowed, endVars>>

-----------------------------------------------------------------------------
(* cmd.Wait returns after the exit and closes the bridge's end of stdout:  *)
(* what the scanner has not buffered is lost.                              *)
WaitReturns ==
    /\ ~cli.runs /\ wait = "waiting"
    /\ wait' = "reaped" /\ out' = FALSE
    /\ \E n \in 0..Len(pipe) : pipe' = SubSeq(pipe, 1, n)
    /\ UNCHANGED <<cli, ch, flags, reader, used, reading, live, ctx, closer, stdin>>

WaitDone ==
    /\ wait = "reaped" /\ wait' = "done"
    /\ UNCHANGED <<cli, pipe, out, ch, flags, reader, used, reading, live, ctx, closer, stdin>>

CancelledCloses ==
    /\ ctx /\ out
    /\ out' = FALSE
    /\ \E n \in 0..Len(pipe) : pipe' = SubSeq(pipe, 1, n)
    /\ UNCHANGED <<cli, ch, flags, reader, used, reading, endVars>>

(* The watchdog of the drain.                                              *)
DrainTimeout ==
    /\ drain /\ drain' = FALSE
    /\ UNCHANGED <<cli, pipe, out, ch, flags, reader, used, rd, outq, stream, active, shown, claimed,
                   ahead, swallowed, endVars>>

(* drainHistoryEvents, then Send: the bridge waits for the drain to end.   *)
DrainSkipped == TRUE
DrainHistoryEvents == ~drain

Send ==
    /\ live /\ stdin = "open" /\ used.sends < bound.sends /\ closer = "idle"
    /\ DrainHistoryEvents
    /\ stdin' = "sending"
    /\ used' = [used EXCEPT !.sends = @ + 1]
    /\ UNCHANGED <<cli, pipe, out, ch, flags, reader, reading, wait, live, ctx, closer>>

(* The phone's answer to a request.                                        *)
RespondPermission ==
    /\ live /\ stdin = "open" /\ used.sends < bound.sends /\ closer = "idle"
    /\ stdin' = "replying"
    /\ used' = [used EXCEPT !.sends = @ + 1]
    /\ UNCHANGED <<cli, pipe, out, ch, flags, reader, reading, wait, live, ctx, closer>>

SetPermissionMode(m) == flags' = FlagsOf(m)

SetLiveMode(m) ==
    /\ flags.mode # "plan" /\ m # "plan" /\ m # flags.mode
    /\ used.sends < bound.sends
    /\ SetPermissionMode(m)
    /\ used' = [used EXCEPT !.sends = @ + 1]
    /\ UNCHANGED <<cli, pipe, out, ch, reader, reading, endVars>>

Close ==
    \/ /\ closer = "idle" /\ bound.ends /\ closer' = "stdin" /\ UNCHANGED <<stdin, ctx>>
    \/ /\ closer = "stdin" /\ stdin \notin StdinWrites        \* stdinMu
       /\ stdin' = "closed" /\ closer' = "graceful" /\ UNCHANGED ctx
    \/ /\ closer \in {"graceful", "term", "kill"} /\ rd = "closed"
       /\ closer' = "returned" /\ UNCHANGED <<stdin, ctx>>
    \/ closer = "graceful" /\ closer' = "term" /\ UNCHANGED <<stdin, ctx>>
    \/ closer = "term" /\ closer' = "kill" /\ ctx' = TRUE /\ UNCHANGED stdin

CloseStep ==
    /\ Close
    /\ UNCHANGED <<cli, pipe, out, ch, flags, reader, used, reading, wait, live>>

-----------------------------------------------------------------------------
(* The consumer of the events, and the CLI.                                *)
Consume ==
    /\ reader /\ ch > 0 /\ ch' = ch - 1
    /\ UNCHANGED <<cli, pipe, out, flags, reader, used, reading, endVars>>

ConsumerLeaves ==
    /\ reader /\ bound.ends /\ reader' = FALSE
    /\ UNCHANGED <<cli, pipe, out, ch, flags, used, reading, endVars>>

(* A write to stdin returns, and with it the reader's own.                 *)
WriteReturns ==
    /\ stdin \in StdinWrites /\ stdin' = "open"
    /\ rd' = IF stdin = "answering" THEN "scan" ELSE rd
    /\ UNCHANGED <<pipe, out, ch, flags, reader, used, outq, drain, stream, active, shown,
                   claimed, ahead, swallowed, wait, live, ctx, closer>>

CliReadsStdin ==
    /\ cli.runs /\ WriteReturns
    /\ cli' = IF stdin = "sending" THEN [cli EXCEPT !.turns = @ + 1] ELSE cli

WriteFails == ~cli.runs /\ WriteReturns /\ UNCHANGED cli    \* EPIPE

Writes(l) ==
    /\ cli.runs /\ used.lines < bound.lines /\ Len(pipe) < PipeCap /\ out
    /\ pipe' = Append(pipe, l)
    /\ used' = [used EXCEPT !.lines = @ + 1]
    /\ UNCHANGED <<out, ch, flags, reader, reading, endVars>>

Line(k) == [kind |-> k, id |-> NoMsg, text |-> <<>>, tok |-> NoToken,
            edit |-> FALSE, live |-> k = "result" /\ cli.turns > 0]
Checkpoint == [Line("assistant") EXCEPT !.id = cli.msg, !.text = cli.text]
Speaking == cli.turns > 0 \/ cli.replays

CliWrites ==
    \/ /\ cli.msg = NoMsg /\ Speaking
       /\ \E m \in MsgIDs \ cli.told :     \* ids are new
             /\ cli' = [cli EXCEPT !.msg = m, !.told = @ \cup {m}]
             /\ Writes([Line("start") EXCEPT !.id = m])
    \/ /\ cli.msg # NoMsg       \* more text and a delta that should say it
       /\ \E more \in SeqOf(Tokens, 2), t \in Tokens :
             /\ Len(cli.text \o more) <= bound.text /\ bound.text > 0
             /\ cli' = [cli EXCEPT !.text = @ \o more]
             /\ Writes([Line("delta") EXCEPT !.tok = t])
    \/ /\ cli.msg # NoMsg /\ Len(cli.text) < bound.text    \* text without a delta
       /\ \E t \in Tokens : /\ cli' = [cli EXCEPT !.text = Append(@, t)]
                            /\ Writes([Checkpoint EXCEPT !.text = Append(@, t)])
    \/ /\ cli.msg # NoMsg /\ Writes(Checkpoint)
       /\ \/ UNCHANGED cli \/ cli' = [cli EXCEPT !.msg = NoMsg, !.text = <<>>]
    \/ /\ Speaking /\ Writes(Line("system")) /\ UNCHANGED cli
    \/ /\ Speaking /\ UNCHANGED cli
       /\ \E k \in {"thinking", "tool_use", "tool_result"} : Writes(Line(k))
    \/ /\ cli.turns > 0 /\ UNCHANGED cli
       /\ \E b \in BOOLEAN : Writes([Line("request") EXCEPT !.edit = b])
    \/ /\ Speaking /\ Writes(Line("result"))
       /\ cli' = [cli EXCEPT !.msg = NoMsg, !.text = <<>>, !.replays = FALSE,
                             !.turns = IF @ > 0 THEN @ - 1 ELSE 0]

(* It exits by itself, at the end of its input, or by a signal.            *)
CliExits ==
    /\ cli.runs /\ bound.ends /\ cli' = [cli EXCEPT !.runs = FALSE]
    /\ UNCHANGED <<pipe, out, ch, flags, reader, used, reading, endVars>>

Killed == closer = "kill" /\ CliExits

ClaudeInit ==
    /\ \E resumed \in BOOLEAN :
          /\ drain = resumed
          /\ cli = [runs |-> TRUE, replays |-> resumed, msg |-> NoMsg, told |-> {},
                   text |-> <<>>, turns |-> 0]
    /\ bound \in ClaudeBounds /\ flags \in {FlagsOf(m) : m \in bound.modes}
    /\ pipe = <<>> /\ out = TRUE /\ rd = "scan" /\ outq = 0 /\ ch = 0
    /\ stream = NoStream /\ active = NoStream /\ wait = "waiting" /\ live = TRUE
    /\ ctx = FALSE /\ closer = "idle" /\ stdin = "open" /\ reader = TRUE
    /\ shown = <<>> /\ claimed = {} /\ ahead = FALSE /\ swallowed = FALSE
    /\ used = [lines |-> 0, sends |-> 0]

ReaderStep ==
    \/ HandleReadLoopLine \/ Answer \/ SendEvent \/ HandleReadLoopScanErr \/ SendScanErr
    \/ FinishReadLoop \/ CloseChannels
WaitStep == WaitReturns \/ WaitDone \/ CancelledCloses

ClaudeSteps ==
    \/ ReaderStep \/ WaitStep
    \/ DrainTimeout \/ Send \/ RespondPermission \/ (\E m \in Modes : SetLiveMode(m))
    \/ CloseStep
    \/ Consume \/ ConsumerLeaves
    \/ CliReadsStdin \/ WriteFails \/ CliWrites \/ CliExits

ClaudeNext == ClaudeSteps /\ UNCHANGED bound

(* The reader, the waiting goroutines and Close are goroutines the         *)
(* scheduler runs, and their timers expire; a killed process dies, and its *)
(* end ends a write to its stdin.  A process that runs need not read its   *)
(* stdin nor stop by itself, and nobody need consume the events.           *)
ClaudeFair ==
    /\ WF_claudeVars(ReaderStep /\ UNCHANGED bound)
    /\ WF_claudeVars(WaitStep /\ UNCHANGED bound)
    /\ WF_claudeVars(closer # "idle" /\ CloseStep /\ UNCHANGED bound)
    /\ WF_claudeVars(Killed /\ UNCHANGED bound)
    /\ WF_claudeVars(WriteFails /\ UNCHANGED bound)

ClaudeSpec == ClaudeInit /\ [][ClaudeNext]_claudeVars /\ ClaudeFair

-----------------------------------------------------------------------------
(* A reader that saw a message from its start shows, after each checkpoint *)
(* of it, exactly the text of the checkpoint, whatever deltas were lost,   *)
(* altered or repeated before; unless an earlier checkpoint replaced a     *)
(* stream that had its whole text and more, and the new one agrees with    *)
(* that stream (RepairedTextExact).                                        *)
StreamedTextExact == \A text \in claimed : shown = text \/ (ahead /\ stream.text = text)

(* The same, without that exception.                                       *)
RepairedTextExact == \A text \in claimed : shown = text

(* The result of a message the bridge sent is never taken for the end of   *)
(* the history of a resumed conversation, so that its turn can end.        *)
ResultNotSwallowed == ~swallowed

(* Close returns once it was called, even when nobody reads the events and *)
(* the process ignores the end of its input; unless the process runs and   *)
(* never takes what is being written to its stdin.                         *)
CloseStuck == closer = "stdin" /\ stdin \in StdinWrites
CloseReturns == closer = "stdin" ~> (closer = "returned" \/ []CloseStuck)

(* The same, without that exception.                                       *)
CloseAlwaysReturns == closer = "stdin" ~> closer = "returned"
=============================================================================
