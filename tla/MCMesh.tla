------------------------------- MODULE MCMesh -------------------------------
(* Two relays that verify each other; clients publish at a, and a knows its *)
(* own URL.                                                                 *)
EXTENDS Mesh

CONSTANTS a, b, x, y

MCPair         == {a, b}
MCPairVerified == [n \in MCPair |-> MCPair \ {n}]
MCOne          == {a}
MCTwoItems     == {x, y}
=============================================================================
