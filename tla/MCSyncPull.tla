----------------------------- MODULE MCSyncPull -----------------------------
(* Small instances of SyncPull: one space with a root and a sub-handle, and *)
(* a second space that is only a root.                                      *)
EXTENDS SyncPull, TLC

CONSTANTS alpha, subAlpha, beta, interval, poke

MCHandle  == {alpha, subAlpha, beta}
MCSpaceOf == (alpha :> alpha) @@ (subAlpha :> alpha) @@ (beta :> beta)
MCAlphaOnly == {alpha, subAlpha}
MCAlphaSpaceOf == (alpha :> alpha) @@ (subAlpha :> alpha)
MCVersion == 1..2
MCOneVersion == {1}
MCTwoSessions == {interval, poke}
MCOneSession == {interval}
MCNone == {}
MCAlpha == {alpha}
MCBoth == {alpha, beta}
Symmetry == Permutations({interval, poke})

(* Bounds of the run SyncPull: only the root alpha has a second version, and *)
(* not once something was unfit; it is stored from elsewhere in versions the *)
(* peer has too; no more than two versions are dropped.  And while both      *)
(* sessions are at work, a single version of anything, one page each, one    *)
(* drop, nothing gated or unfit, and rejections of the second space only.    *)
Few ==
  /\ \A h \in Handle \ {alpha} : ver[h] <= 1
  /\ (\E d \in dropped : d[3] = "unfit") => ver[alpha] <= 1
  /\ local[alpha] <= ver[alpha]
  /\ Cardinality(dropped) <= 2
  /\ \/ \E s \in Session : pc[s] = "idle"
     \/ /\ \A h \in Handle : ver[h] <= 1
        /\ \A s \in Session : pages[s] <= 1
        /\ Cardinality(dropped) <= 1
        /\ \A d \in dropped : d[3] \notin {"gated", "unfit"}
        /\ \A d \in dropped : d[3] = "rejected" => d[1] = beta
=============================================================================
