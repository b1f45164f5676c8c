----------------------------- MODULE MCTrustPins -----------------------------
(* A small instance of TrustPins: two tips of the real chain that overlap,  *)
(* and a set of another chain; two pools, one of which is a dishonest relay *)
(* short of a majority.                                                     *)
EXTENDS TrustPins, TLC

CONSTANTS s1, s2, fake, r1, r2, r3, c1, c2

MCSet     == {s1, s2, fake}
MCAnchors == (s1 :> (1 :> "real")) @@ (s2 :> (1 :> "real" @@ 2 :> "real"))
               @@ (fake :> (1 :> "fake"))
MCReal    == {s1, s2}
MCRelay   == {r1, r2, r3}
MCHonest  == {r1, r2}
MCConfig  == {[relays |-> <<r1, r2, r3>>, quorum |-> [policy |-> "Majority", n |-> 0]],
              [relays |-> <<r1, r3>>, quorum |-> [policy |-> "AtLeast", n |-> 2]]}
MCTwo     == {c1, c2}
MCOne     == {c1}
Symmetry  == Permutations(MCTwo)
=============================================================================
