--------------------------- MODULE FileDeviceStore ---------------------------
(***************************************************************************)
(* The trusted device store of the bridge (trusted_device_store.go) with   *)
(* the management API and the relay upgrade that call it.  The store keeps *)
(* an immutable in-memory snapshot, which readers take without waiting,    *)
(* and devices.json.  A change copies the snapshot, changes the copy,      *)
(* writes the file and then swaps the snapshot, all under commitMu.        *)
(***************************************************************************)
EXTENDS DeviceRecords

CONSTANT MaxCalls \* bound on the number of changes asked for

ASSUME MaxCallsAssumption == MaxCalls \in Nat

VARIABLES mem,    \* [byID, byToken]: the snapshot the readers use
          file,   \* the records in devices.json
          caller, \* caller -> [pc, op, answer, bound]
          copy,   \* the clone of the commit in progress
          commitMu, upgradeMu, \* the callers that hold each lock: none or one
          asked,  \* number of changes asked for
          minted  \* the tokens generated so far

storeVars == <<mem, file, caller, copy, commitMu, upgradeMu, asked, minted>>

Index(table) == [t \in {table[d].token : d \in DOMAIN table} |->
                    CHOOSE d \in DOMAIN table : table[d].token = t]

NewMemoryDeviceStore == [byID |-> EmptyTable, byToken |-> EmptyTable]

Idle == [pc |-> "idle", op |-> NoOp, answer |-> "none"]

StoreInit ==
    /\ mem = NewMemoryDeviceStore
    /\ file = EmptyTable
    /\ caller = [c \in Callers |-> Idle]
    /\ copy = NewMemoryDeviceStore
    /\ commitMu = {}
    /\ upgradeMu = {}
    /\ asked = 0
    /\ minted = {}

-----------------------------------------------------------------------------
(* The operations of MemoryDeviceStore, which keep the two maps together.  *)

MemAdd(m, op) ==
    [byID    |-> With(m.byID, op.device, op.rec),
     byToken |-> With(m.byToken, op.rec.token, op.device)]

MemReplaceKeepingTokens(m, op) ==
    MemAdd([byID |-> Without(m.byID, SameDevice(m.byID, op)), byToken |-> m.byToken], op)

MemReplace(m, op) ==
    LET gone == SameDevice(m.byID, op)
        dead == {m.byID[d].token : d \in gone}
    IN  MemAdd([byID |-> Without(m.byID, gone), byToken |-> Without(m.byToken, dead)], op)

MemApplied(m, op) ==
    CASE op.kind = "add"     -> MemAdd(m, op)
      [] op.kind = "replace" -> MemReplace(m, op)
      [] OTHER               -> [m EXCEPT !.byID = Applied(m.byID, op)]

(* cloneSnapshot: the records are copied, the token index built anew.      *)
CloneSnapshot(m) == [byID |-> m.byID, byToken |-> Index(m.byID)]

(* LookupByTokenHash followed by the rest of ValidateDeviceAuth.           *)
ValidateDeviceAuth(m, t, d) ==
    IF t \notin DOMAIN m.byToken THEN "invalid_token"
    ELSE IF m.byToken[t] \notin DOMAIN m.byID THEN "invalid_token"
    ELSE Judgement(m.byID[m.byToken[t]], d = m.byToken[t])

-----------------------------------------------------------------------------
Ends(c, answer) == caller' = [caller EXCEPT ![c] = [Idle EXCEPT !.answer = answer]]

(* A management request or an approved pairing asks for a change.  The     *)
(* record of a pairing carries a token that was just generated.  AddDevice *)
(* has no caller; its effect is in the operators only.                     *)
DeviceRequests(c, op) ==
    /\ caller[c].pc = "idle"
    /\ asked < MaxCalls
    /\ asked' = asked + 1
    /\ caller' = [caller EXCEPT ![c] = [pc |-> "waits", op |-> op, answer |-> "none"]]
    /\ UNCHANGED <<mem, file, copy, commitMu, upgradeMu>>

ReplaceDevice(c) ==
    \E d \in Devices, t \in DeviceTokens \ minted, n \in DeviceNames,
       k \in IdentityKeys \cup {NoKey} :
        /\ DeviceRequests(c, [kind |-> "replace", device |-> d,
                        rec |-> [token |-> t, name |-> n, key |-> k, revoked |-> FALSE]])
        /\ minted' = minted \cup {t}

HandleRevokeDevice(c) ==
    \E d \in Devices : DeviceRequests(c, [kind |-> "revoke", device |-> d]) /\ UNCHANGED minted

(* handleRelayUpgradeRPC: under relayUpgradeMu the record is looked up,    *)
(* the relay hands out a credential, and only then the key is bound.       *)
HandleRelayUpgrade(c) ==
    \E d \in DOMAIN mem.byID, k \in IdentityKeys :
        /\ upgradeMu = {}
        /\ caller[c].pc = "idle"
        /\ asked < MaxCalls
        /\ ~mem.byID[d].revoked
        /\ mem.byID[d].key \in {NoKey, k}
        /\ asked' = asked + 1
        /\ upgradeMu' = {c}
        /\ caller' = [caller EXCEPT ![c] =
               [pc |-> "provisions", op |-> [kind |-> "enable", device |-> d, key |-> k],
                answer |-> "none"]]
        /\ UNCHANGED <<mem, file, copy, commitMu, minted>>

Provisioned(c) ==
    /\ caller[c].pc = "provisions"
    /\ \/ /\ caller' = [caller EXCEPT ![c].pc = "waits"]
          /\ UNCHANGED upgradeMu
       \/ /\ Ends(c, "error")
          /\ upgradeMu' = {}
    /\ UNCHANGED <<mem, file, copy, commitMu, asked, minted>>

CommitClonesUnlocked(c) ==
    /\ caller[c].pc = "waits"
    /\ Accepts(mem.byID, caller[c].op)
    /\ copy' = MemApplied(CloneSnapshot(mem), caller[c].op)
    /\ caller' = [caller EXCEPT ![c].pc = "cloned"]
    /\ UNCHANGED <<mem, file, commitMu, upgradeMu, asked, minted>>

(* commit: the copy is taken and changed.  A refused change ends here.     *)
CommitClones(c) ==
    LET op == caller[c].op IN
    /\ caller[c].pc = "waits"
    /\ commitMu = {}
    /\ IF Accepts(mem.byID, op)
       THEN /\ copy' = MemApplied(CloneSnapshot(mem), op)
            /\ commitMu' = {c}
            /\ caller' = [caller EXCEPT ![c].pc = "cloned"]
            /\ UNCHANGED upgradeMu
       ELSE /\ Ends(c, "error")
            /\ upgradeMu' = upgradeMu \ {c}
            /\ UNCHANGED <<copy, commitMu>>
    /\ UNCHANGED <<mem, file, asked, minted>>

(* AtomicWriteFile: the file holds the new records, or an error is         *)
(* returned and it still holds the old ones.                               *)
CommitWrites(c) ==
    /\ caller[c].pc = "cloned"
    /\ file' = copy.byID
    /\ caller' = [caller EXCEPT ![c].pc = "written"]
    /\ UNCHANGED <<mem, copy, commitMu, upgradeMu, asked, minted>>

CommitWriteFails(c) ==
    /\ caller[c].pc = "cloned"
    /\ Ends(c, "error")
    /\ commitMu' = {}
    /\ upgradeMu' = upgradeMu \ {c}
    /\ UNCHANGED <<mem, file, copy, asked, minted>>

CommitSwaps(c) ==
    /\ caller[c].pc = "written"
    /\ mem' = copy
    /\ Ends(c, "ok")
    /\ commitMu' = {}
    /\ upgradeMu' = upgradeMu \ {c}
    /\ UNCHANGED <<file, copy, asked, minted>>

(* A connection presents a token; the reader waits for nobody.             *)
Authenticates(c) ==
    \E t \in DeviceTokens, d \in Devices :
        /\ caller[c].pc = "idle"
        /\ caller' = [caller EXCEPT ![c].answer = ValidateDeviceAuth(mem, t, d)]
        /\ UNCHANGED <<mem, file, copy, commitMu, upgradeMu, asked, minted>>

(* The process dies and NewFileDeviceStore loads the file.                 *)
Load == [byID |-> file, byToken |-> Index(file)]

Crash ==
    /\ mem' = Load
    /\ caller' = [c \in Callers |-> Idle]
    /\ copy' = NewMemoryDeviceStore
    /\ commitMu' = {}
    /\ upgradeMu' = {}
    /\ UNCHANGED <<file, asked, minted>>

StoreNext ==
    \/ \E c \in Callers :
          \/ ReplaceDevice(c) \/ HandleRevokeDevice(c) \/ HandleRelayUpgrade(c) \/ Provisioned(c)
          \/ CommitClones(c) \/ CommitWrites(c) \/ CommitWriteFails(c) \/ CommitSwaps(c)
          \/ Authenticates(c)
    \/ Crash

StoreSpec == StoreInit /\ [][StoreNext]_storeVars

-----------------------------------------------------------------------------
StoreTypeOK ==
    /\ mem.byID \in Tables /\ file \in Tables /\ copy.byID \in Tables
    /\ commitMu \subseteq Callers /\ upgradeMu \subseteq Callers
    /\ caller \in [Callers -> [pc : {"idle", "provisions", "waits", "cloned", "written"},
                               op : Operations \cup {NoOp},
                               answer : {"none", "ok", "error", "accepted", "revoked",
                                         "invalid_token"}]]

(* The store is the registry: every behaviour of the files, copies and     *)
(* locks, with failed writes and deaths of the process at any point, is a  *)
(* behaviour of DeviceRegistry whose table is what the readers see.        *)
Registry == INSTANCE DeviceRegistry WITH
    trusted <- mem.byID,
    calls <- [c \in Callers |-> [op |-> caller[c].op, answer |-> caller[c].answer]]

ImplementsRegistry == Registry!RegistrySpec

(* The token index of the snapshot and its records agree, so that a token  *)
(* whose device was replaced opens nothing (LookupByTokenHash would return *)
(* an empty record, never revoked, for a token left in the index).         *)
TokenIndexSound ==
    /\ DOMAIN mem.byToken = {mem.byID[d].token : d \in DOMAIN mem.byID}
    /\ \A t \in DOMAIN mem.byToken :
          mem.byToken[t] \in DOMAIN mem.byID /\ mem.byID[mem.byToken[t]].token = t
=============================================================================
