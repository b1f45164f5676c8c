---------------------------- MODULE MCSyncPage ----------------------------
(* A small instance of SyncPage: two spaces with a sub-handle each, rows     *)
(* that fit a page and rows that exceed it.                                  *)
EXTENDS SyncPage

CONSTANTS a, a1, b, b1

MCHandle  == {a, a1, b, b1}
MCSpaceOf == [h \in MCHandle |-> IF h \in {b, b1} THEN b ELSE a]
MCSize    == {1, 3}
MCLimit   == {1, 2, 4}
=============================================================================
