------------------------------- MODULE MCResolve -------------------------------
(* A small instance of Resolve: one honest relay and three that may lie.     *)
(* Either two tasks resolve at two relays, or one task makes all kinds of    *)
(* calls from a seed that knows two more, or it asks four relays for hints.  *)
EXTENDS Resolve

CONSTANTS h, f, g, e, c1, c2

Zn(n, r) == [epoch |-> n, root |-> r]
Held(z, t, s, n) == [zone |-> z, tip |-> t, seq |-> s, dseq |-> 0, names |-> n]
Says(t, n, s, names) ==
  [tip |-> t, spaces |-> ("@s" :> [epoch |-> n, seq |-> s, dseq |-> 0, names |-> names])]
Does(kinds, latest) == [kinds |-> kinds, latest |-> latest]

MCRelay  == {h, f, g, e}
MCFaulty == {f, g, e}
MCSeeds  == {f}
MCKnown  == [r \in MCRelay |-> IF r = f THEN {h, g} ELSE {}]
MCTask   == {c1, c2}

(* Two commitments, and another one of the same height as the first. *)
MCRow    == {Held(Zn(1, "a"), 1, 0, "n" :> 1), Held(Zn(1, "b"), 1, 0, "n" :> 1),
             Held(Zn(2, "a"), 2, 1, "n" :> 0)}

(* The freshest of all, no space at all, and one that ties with the second  *)
(* commitment but for its tip.                                              *)
MCClaim  == {Says(9, 9, 9, "n" :> 9), [tip |-> 9, spaces |-> <<>>],
             Says(9, 1, 2, <<>>)}

MCStart  ==
  {[tasks |-> (c1 :> Does({"cached", "export"}, {FALSE}))
              @@ (c2 :> Does({"cached", "fresh"}, {FALSE})),
    pool |-> {h, g}, cache |-> None],
   [tasks |-> (c1 :> Does(Kind, BOOLEAN)) @@ (c2 :> Does({}, {})),
    pool |-> {}, cache |-> None],
   [tasks |-> (c1 :> Does({"fresh"}, {TRUE})) @@ (c2 :> Does({}, {})),
    pool |-> {h, f, g, e}, cache |-> None]}
=============================================================================
