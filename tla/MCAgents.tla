------------------------------ MODULE MCAgents ------------------------------
(***************************************************************************)
(* The processes and streams of the agents: the long-lived Claude process, *)
(* the processes of codex exec and of OpenCode, and the subscriptions to   *)
(* sessions others run.  They share no state, so a behaviour is one of one *)
(* of them, chosen at the start.                                           *)
(***************************************************************************)
EXTENDS ClaudeProcess, CliSession, PassiveStream

VARIABLE part

\* Text that is streamed, lost and repeated; messages sent while the history
\* of a resumed conversation is drained; a process that ends by itself or is
\* closed, while it takes a message or fills the channel of events, also while
\* the reader writes an answer to it.
MCClaudeBounds ==
    {[text |-> 2, lines |-> 5, sends |-> 0, ends |-> FALSE, modes |-> {"default"}],
     [text |-> 0, lines |-> 3, sends |-> 2, ends |-> FALSE, modes |-> Modes],
     [text |-> 0, lines |-> 1, sends |-> 1, ends |-> TRUE, modes |-> {"dontAsk"}],
     [text |-> 0, lines |-> 2, sends |-> 0, ends |-> TRUE, modes |-> {"dontAsk"}]}

\* Turns one after the other with several texts; turns that overlap, with a
\* text, and with a Close.
MCCliScenarios ==
    {[overlap |-> FALSE, items |-> 2, closes |-> FALSE], [overlap |-> TRUE, items |-> 1, closes |-> FALSE],
     [overlap |-> TRUE, items |-> 0, closes |-> TRUE]}

MCInit ==
    /\ part \in {"claude", "cli", "passive"}
    /\ ClaudeInit /\ CliInit /\ PassiveInit
    /\ part # "claude" => /\ ~drain /\ flags = FlagsOf("default")
                          /\ bound = (CHOOSE b \in MCClaudeBounds : "default" \in b.modes)
    /\ part # "cli" => kind = "codex" /\ scenario = (CHOOSE s \in MCCliScenarios : TRUE)
    /\ part # "passive" => agent = "codex"

\* Texts, shorter in the later turn and then without a loss, or steps that
\* end in the last turn.
PassiveBound ==
    /\ Len(server'.text) + server'.turn <= MaxText + 1
    /\ server'.steps = 0 \/ (server'.text = <<>> /\ server'.turn = MaxTurns /\ losses' = 0)
    /\ server'.turn = 1 \/ server'.text = <<>> \/ losses' = 0

MCNext ==
    \/ part = "claude" /\ ClaudeNext /\ UNCHANGED <<part, cliVars, passiveVars>>
    \/ part = "cli" /\ CliNext /\ UNCHANGED <<part, claudeVars, passiveVars>>
    \/ part = "passive" /\ PassiveNext /\ PassiveBound /\ UNCHANGED <<part, claudeVars, cliVars>>

\* ClaudeFair, CliFair and PassiveFair, each for the behaviours of its part.
MCFair ==
    /\ WF_claudeVars(part = "claude" /\ ReaderStep /\ UNCHANGED bound)
    /\ WF_claudeVars(part = "claude" /\ WaitStep /\ UNCHANGED bound)
    /\ WF_claudeVars(part = "claude" /\ closer # "idle" /\ CloseStep /\ UNCHANGED bound)
    /\ WF_claudeVars(part = "claude" /\ Killed /\ UNCHANGED bound)
    /\ WF_claudeVars(part = "claude" /\ WriteFails /\ UNCHANGED bound)
    /\ \A p \in Prompts :
          /\ WF_cliVars(part = "cli" /\ Works(p)) /\ WF_cliVars(part = "cli" /\ OutputEnds(p))
          /\ WF_cliVars(part = "cli" /\ LoopEnds(p)) /\ WF_cliVars(part = "cli" /\ Started(p))
          /\ WF_cliVars(part = "cli" /\ Registered(p)) /\ WF_cliVars(part = "cli" /\ cancelled /\ ProcEnds(p))
    /\ \A c \in CliClosers :
          /\ WF_cliVars(part = "cli" /\ CloseDone(c)) /\ WF_cliVars(part = "cli" /\ CloseForces(c))
          /\ WF_cliVars(part = "cli" /\ CloseDefers(c))
    /\ WF_passiveVars(part = "passive" /\ RangeEvent) /\ WF_passiveVars(part = "passive" /\ RangeEnds)
    /\ WF_passiveVars(part = "passive" /\ Waited) /\ WF_passiveVars(part = "passive" /\ Connect)
    /\ WF_passiveVars(part = "passive" /\ SubscribeFails) /\ WF_passiveVars(part = "passive" /\ Initialized)
    /\ WF_passiveVars(part = "passive" /\ ReadMessage) /\ WF_passiveVars(part = "passive" /\ ReadFails)
    /\ WF_passiveVars(part = "passive" /\ CloseCalled) /\ WF_passiveVars(part = "passive" /\ CloseFinds)
    /\ WF_passiveVars(part = "passive" /\ CloseGivesTime)

MCSpec == MCInit /\ [][MCNext]_<<part, claudeVars, cliVars, passiveVars>> /\ MCFair

-----------------------------------------------------------------------------
(* What Close and the loss of a stream promise, in one formula: CloseReturns *)
(* of ClaudeProcess, CloseClosesEvents of CliSession and                   *)
(* LoopLeavesDeadStream of PassiveStream, each for its part.               *)
AgentsLetGo ==
    \/ part = "claude" /\ closer = "stdin"
    \/ part = "cli" /\ \E c \in CliClosers : closing[c] = "waiting"
    \/ part = "passive" /\ ((sub.conn = "down" /\ agent = "codex") \/ stop)
    ~> \/ part = "claude" /\ (closer = "returned" \/ []CloseStuck)
       \/ part = "cli" /\ (closed \/ (kind = "opencode" /\ \E p \in Active : proc[p].child))
       \/ part = "passive" /\ bridge # "range"
=============================================================================
