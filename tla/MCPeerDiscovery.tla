-------------------------- MODULE MCPeerDiscovery --------------------------
(* Small instance of PeerDiscovery: two peers, both configured, that come up *)
(* at most MaxRestarts times in all, each time under one of the names.       *)
EXTENDS PeerDiscovery

CONSTANTS p1, p2

MCPeerList  == <<p1, p2>>
=============================================================================
