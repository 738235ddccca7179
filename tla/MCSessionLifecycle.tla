------------------------- MODULE MCSessionLifecycle -------------------------
(* One pending id, two connections, up to two agents.                        *)
EXTENDS SessionLifecycle, TLC

CONSTANTS c1, c2

Mode(backend, clients, turns, views, closes) ==
    [backend |-> backend, clients |-> clients, turns |-> turns, views |-> views,
     closes |-> closes]
Both == {"claude", "codex"}

(* Sessions are aborted, cleaned up and die; or they stay, and the clients     *)
(* also open histories.                                                       *)
Closing == {Mode(b, Clients, 2, FALSE, TRUE) : b \in Both}
Viewing == {Mode(b, Clients, 3, TRUE, FALSE) : b \in Both}
All == Closing \union Viewing

ClaudeSending == {Mode("claude", Clients, 3, FALSE, FALSE)}
CodexSending == {Mode("codex", Clients, 2, FALSE, FALSE)}

ClientSymmetry == Permutations(Clients)
=============================================================================
