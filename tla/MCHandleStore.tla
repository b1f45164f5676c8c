--------------------------- MODULE MCHandleStore ---------------------------
(* Small instances of HandleStore. *)
EXTENDS HandleStore, TLC

CONSTANTS h1, h2

Zone(k, e, a, f, r, c) ==
  [key |-> k, epoch |-> e, anchor |-> a, final |-> f, recs |-> r, receipt |-> c]

(* A sub-handle: temporary then final, with and without records, and a      *)
(* transfer to a second key.                                                *)
MCSub ==
  {Zone(1, 1, a, f, r, FALSE) : a \in 1..2, f \in {0, 2}, r \in 0..2}
    \cup {Zone(2, 2, a, 2, r, FALSE) : a \in 2..3, r \in {0, 3}}

(* A root: two commitments, each with and without its receipt, and a        *)
(* transfer to a second key with the second commitment.                     *)
MCRoot ==
  {Zone(1, 1, a, 2, r, c) : a \in 1..2, r \in 0..2, c \in BOOLEAN}
    \cup {Zone(1, 2, 2, 2, r, c) : r \in 0..1, c \in BOOLEAN}
    \cup {Zone(2, 2, 3, 2, r, TRUE) : r \in {0, 3}}

MCAddressed == {1, 3}
MCPrimary   == {1, 2}
MCTwo       == {h1, h2}
MCOne       == {h1}
Symmetry    == Permutations({h1, h2})
=============================================================================
