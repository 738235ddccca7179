-------------------------- MODULE MCRelayMailbox ----------------------------
(* One device whose mailbox holds three units: every interleaving of its    *)
(* requests with appends, eviction, expiry, revocation and re-registration. *)
EXTENDS RelayMailbox
=============================================================================
