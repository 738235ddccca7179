--------------------------- MODULE DeviceRegistry ---------------------------
(***************************************************************************)
(* What the bridge promises of its trusted devices, without files, locks   *)
(* or copies: one table, changed by one whole operation at a time.  An     *)
(* operation that is answered with success has taken effect and stays; an  *)
(* operation answered with an error has not; an operation that is under    *)
(* way when the process dies has taken effect wholly or not at all.        *)
(* A token is judged against the table as it is at one moment.             *)
(***************************************************************************)
EXTENDS DeviceRecords

VARIABLES trusted, \* the table: device id -> record
          calls    \* caller -> [op, answer]

registryVars == <<trusted, calls>>

RegistryInit ==
    /\ trusted = EmptyTable
    /\ calls = [c \in Callers |-> [op |-> NoOp, answer |-> "none"]]

(* A caller asks for a change.                                             *)
Ask(c) ==
    /\ calls[c].op = NoOp
    /\ calls'[c].op \in Operations
    /\ calls' = [calls EXCEPT ![c] = [op |-> calls'[c].op, answer |-> "none"]]
    /\ UNCHANGED trusted

(* The change happens and is confirmed.                                    *)
Grant(c) ==
    LET op == calls[c].op IN
    /\ op # NoOp
    /\ Accepts(trusted, op)
    /\ trusted' = Applied(trusted, op)
    /\ calls' = [calls EXCEPT ![c] = [op |-> NoOp, answer |-> "ok"]]

(* The change does not happen and an error is returned.                    *)
Decline(c) ==
    /\ calls[c].op # NoOp
    /\ calls' = [calls EXCEPT ![c] = [op |-> NoOp, answer |-> "error"]]
    /\ UNCHANGED trusted

(* A token is judged.                                                      *)
Judge(c) ==
    \E t \in DeviceTokens, d \in Devices :
        /\ calls[c].op = NoOp
        /\ calls' = [calls EXCEPT ![c].answer = Verdict(trusted, t, d)]
        /\ UNCHANGED trusted

(* The process dies and is started again.                                  *)
Restart ==
    /\ \/ UNCHANGED trusted
       \/ \E c \in Callers :
             /\ calls[c].op # NoOp
             /\ Accepts(trusted, calls[c].op)
             /\ trusted' = Applied(trusted, calls[c].op)
    /\ calls' = [c \in Callers |-> [op |-> NoOp, answer |-> "none"]]

RegistryNext ==
    \/ \E c \in Callers : Ask(c) \/ Grant(c) \/ Decline(c) \/ Judge(c)
    \/ Restart

RegistrySpec == RegistryInit /\ [][RegistryNext]_registryVars
=============================================================================
