---------------------------- MODULE DeviceRecords ----------------------------
(***************************************************************************)
(* The records of trusted_device_store.go and what each operation makes of *)
(* the table of records.  A token stands for its hash.  Display name and   *)
(* platform are one value, the name: they are only ever compared together. *)
(***************************************************************************)
EXTENDS Naturals, FiniteSets, Functions

CONSTANTS Devices, DeviceTokens, DeviceNames, IdentityKeys, Callers,
          NoKey \* the empty identityPublicKey

ASSUME DeviceAssumption ==
    /\ IsFiniteSet(Callers)
    /\ NoKey \notin IdentityKeys

(* TrustedDeviceRecord, without the timestamps and the address.            *)
DeviceRecord == [token : DeviceTokens, name : DeviceNames,
                 key : IdentityKeys \cup {NoKey}, revoked : BOOLEAN]

EmptyTable == [d \in {} |-> {}]

Tables == UNION {[S -> DeviceRecord] : S \in SUBSET Devices}

Operations ==
    [kind : {"add", "replace"}, device : Devices, rec : DeviceRecord]
    \cup [kind : {"enable"}, device : Devices, key : IdentityKeys]
    \cup [kind : {"revoke"}, device : Devices]

NoOp == [kind |-> "none"]

(* The error returns of AddDevice, EnableRelay and RevokeDevice.           *)
Accepts(table, op) ==
    CASE op.kind = "add"    -> op.device \notin DOMAIN table
      [] op.kind = "enable" -> /\ op.device \in DOMAIN table
                               /\ ~table[op.device].revoked
                               /\ table[op.device].key \in {NoKey, op.key}
      [] op.kind = "revoke" -> op.device \in DOMAIN table
      [] OTHER              -> TRUE

(* The records that a pairing of the device replaces: its own, and those   *)
(* of any device with the same name and platform.                          *)
SameDevice(table, op) ==
    {d \in DOMAIN table : d = op.device \/ table[d].name = op.rec.name}

With(table, d, rec) == [e \in DOMAIN table \cup {d} |-> IF e = d THEN rec ELSE table[e]]

Without(table, ds) == Restrict(table, DOMAIN table \ ds)

Applied(table, op) ==
    CASE op.kind = "add"     -> With(table, op.device, op.rec)
      [] op.kind = "replace" ->
            With(Without(table, SameDevice(table, op)), op.device, op.rec)
      [] op.kind = "enable"  -> With(table, op.device, [table[op.device] EXCEPT !.key = op.key])
      [] op.kind = "revoke"  -> With(table, op.device, [table[op.device] EXCEPT !.revoked = TRUE])

(* What ValidateDeviceAuth says of a record that was found for the token.  *)
Judgement(rec, isDevice) ==
    CASE ~isDevice -> "invalid_token"
      [] isDevice /\ rec.revoked -> "revoked"
      [] OTHER -> "accepted"

(* The verdict on a token presented by a device, from the table alone.     *)
Verdict(table, t, d) ==
    LET owners == {e \in DOMAIN table : table[e].token = t} IN
    IF owners = {} THEN "invalid_token"
    ELSE Judgement(table[CHOOSE e \in owners : TRUE], d \in owners)
=============================================================================
