--------------------------------- MODULE Hints ---------------------------------
(***************************************************************************)
(* How a client ranks relays by the hints they give (fabric/rust/src/      *)
(* lib.rs, Ord of HintsResponse; client.rs, end of pick_relays).           *)
(*                                                                         *)
(* A response is [tip, spaces]: the height of the relay's newest anchor,   *)
(* and for each space it holds [epoch, seq, dseq, names], where names maps *)
(* each handle asked for that it holds to the seq of its records.          *)
(***************************************************************************)
EXTENDS Integers, SequencesExt

(* What a response holds is finite. *)
FiniteHints(x) ==
  /\ x.tip \in Int
  /\ IsFiniteSet(DOMAIN x.spaces)
  /\ \A s \in DOMAIN x.spaces : IsFiniteSet(DOMAIN x.spaces[s].names)

(* A handle at seq 0 counts as one that is not held (flatten_handles).      *)
HandleSeq(hint, n) == IF n \in DOMAIN hint.names THEN hint.names[n] ELSE 0

(* Where a hint about a space is ahead of another about the same space.     *)
AheadIn(h, g) ==
  {<<"space", f>> : f \in {f \in {"epoch", "seq", "dseq"} : h[f] > g[f]}} \cup
  {<<"handle", n>> : n \in {n \in DOMAIN h.names : HandleSeq(h, n) > HandleSeq(g, n)}}

(* Where response x is ahead of y; a space that y lacks counts once.        *)
Ahead(x, y) ==
  UNION {IF s \in DOMAIN y.spaces
         THEN {<<s, a>> : a \in AheadIn(x.spaces[s], y.spaces[s])}
         ELSE {<<s, <<"space", "held">>>>} : s \in DOMAIN x.spaces}

(* Faulty: what only the other one holds is not counted. *)
FaultyScore(x, y) ==
  LET both(a, b) == {d \in Ahead(a, b) : d[2] # <<"space", "held">>}
  IN Cardinality(Ahead(x, y)) - Cardinality(both(y, x))

Score(x, y) == Cardinality(Ahead(x, y)) - Cardinality(Ahead(y, x))

(* x.cmp(y) is Greater. *)
Beats(x, y) == Score(x, y) > 0 \/ (Score(x, y) = 0 /\ x.tip > y.tip)

(* One step of the stable sort, by insertion as for all short lists: r goes *)
(* before those at the end that it beats.                                   *)
Insertion(s, r, said) ==
  LET kept == {i \in DOMAIN s : ~Beats(said[r], said[s[i]])}
  IN InsertAt(s, 1 + Max(kept \cup {0}), r)

(* The relays of s that said anything, the best first. *)
Ranking(s, said) ==
  LET ranked[i \in 0..Len(s)] ==
        IF i = 0 THEN <<>>
        ELSE IF s[i] \in DOMAIN said THEN Insertion(ranked[i - 1], s[i], said)
        ELSE ranked[i - 1]
  IN ranked[Len(s)]

(* x is as fresh as y in everything and fresher in something, the tip being *)
(* looked at only if they agree in all else.                                *)
Fresher(x, y) ==
  Ahead(y, x) = {} /\ (Ahead(x, y) # {} \/ x.tip > y.tip)
=============================================================================
