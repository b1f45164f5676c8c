---------------------------- MODULE MCPeerTable ----------------------------
(* Small instances of PeerTable. *)
EXTENDS PeerTable, TLC

CONSTANTS a, b, c, d, me, ip1, ip2

MCUrl   == {a, b, c, d}
MCOwn   == {a, b, me}
MCIp    == {ip1, ip2}
MCOneIp == {ip1}
MCNone  == {}
MCSeeds == {a, me}
MCAlive == {a}
Symmetry == Permutations(MCUrl) \cup Permutations(MCIp)
=============================================================================
