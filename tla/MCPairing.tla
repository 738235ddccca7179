----------------------------- MODULE MCPairing ------------------------------
(***************************************************************************)
(* How a device comes to be trusted: the pairing flow on the bridge, the   *)
(* store of trusted devices, and the routes, limits and pairing claims of  *)
(* the relay server.  They share no state, so a behaviour is one of one of *)
(* them, chosen at the start.                                              *)
(***************************************************************************)
EXTENDS Pairing, FileDeviceStore, RelayRoutes, TLC

VARIABLE part

\* Activations of routes, registrations of routes, and claims, apart.
MCRouteScenarios == {{"activate"}, {"register"}, {"claim"}}

\* Three phones try codes while two requests of the Mac are handled; or the
\* Mac sends three, and a relay claim is completed, while one phone tries.
\* One pairing is created; the other id is made up by a phone.
MadeUp == CHOOSE p \in Pairings : TRUE
Guessers == {h \in Phones : MadeUp \in phone'[h].pairing}
ThirdRequest == CHOOSE q \in Requests : TRUE
OnePhone == Cardinality({h \in Phones : phone'[h].pc # "new"}) <= 1

MCInit ==
    /\ part \in {"codes", "approvals", "devices", "routes"}
    /\ PairingInit /\ StoreInit /\ RoutesInit
    /\ part # "routes" => kinds = {"claim"}

MCNext ==
    \/ /\ part \in {"codes", "approvals"} /\ PairingNext /\ session'[MadeUp].state = "none"
       /\ IF part = "codes" THEN request'[ThirdRequest].pc = "new" /\ Cardinality(Guessers) <= 1
          ELSE OnePhone /\ Guessers = {}
       /\ UNCHANGED <<part, storeVars, routesVars>>
    \/ part = "devices" /\ StoreNext /\ UNCHANGED <<part, pairingVars, routesVars>>
    \/ part = "routes" /\ RoutesNext /\ UNCHANGED <<part, pairingVars, storeVars>>

MCSpec == MCInit /\ [][MCNext]_<<part, pairingVars, storeVars, routesVars>>

\* Phones and keys are told apart by nothing but their names.
Interchangeable == Permutations(Phones) \union Permutations(Keys)
=============================================================================
