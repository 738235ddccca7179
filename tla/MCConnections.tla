--------------------------- MODULE MCConnections ----------------------------
(* Connections of two devices and sessions of one backend: direct connections *)
(* that name a directory or none, or relay connections of one device while an *)
(* id is resolved and turns end.                                              *)
EXTENDS Connections

CONSTANTS DevA, DevB, c1, c2, r1, r2, P, R, Dir

VARIABLE side

MCDeviceOf == [c \in Conns |-> IF c \in {c1, r1, r2} THEN DevA ELSE DevB]
TwoDirs == {Key("b", R, NoDir), Key("b", R, Dir)}
PendingAndReal == {Key("b", P, Dir), Key("b", R, Dir)}
AllKeys == TwoDirs \union PendingAndReal
ResolvesP == {<<P, R>>}

\* What the connections of the other side and their sessions do not do.
Stays(c, keys) == stage'[c] = "absent" /\ \A d \in Conns : rpc'[d] \in keys \union {None}

MCInit == Init /\ side \in {"direct", "relay"}

MCNext ==
    /\ Next
    /\ IF side = "direct"
       THEN (\A c \in Relay : Stays(c, TwoDirs)) /\ bound' = {} /\ turns' = 0
       ELSE \A c \in Direct : Stays(c, PendingAndReal)
    /\ UNCHANGED side

MCSpec == MCInit /\ [][MCNext]_<<vars, side>>
=============================================================================
