---------------------------- MODULE MCRetention ----------------------------
(* A small instance of Retention: a space with a sub-handle and a space     *)
(* that is only a root, which no sweep can take anything from.              *)
EXTENDS Retention

CONSTANTS a, a1, b, w1

MCHandle  == {a, a1, b}
MCSpaceOf == [h \in MCHandle |-> IF h = b THEN b ELSE a]
MCEpoch   == {1, 2}
MCSize    == {1}
MCWriter  == {w1}
=============================================================================
