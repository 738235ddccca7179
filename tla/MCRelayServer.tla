--------------------------- MODULE MCRelayServer ----------------------------
(* Two connections of one device and two of the bridge on a queue of one.    *)
EXTENDS RelayServer, TLC
PeerSymmetry == Permutations(DevicePeers) \union Permutations(BridgePeers)
=============================================================================
