----------------------------- MODULE Watermark -----------------------------
(***************************************************************************)
(* What pulling from one peer promises, without sessions, pages or faults. *)
(*                                                                         *)
(* The peer holds rows; every write takes the next number of a persistent  *)
(* counter, and a row may be evicted.  The puller keeps one number, the    *)
(* watermark.  It may settle versions of rows (store them, or drop them    *)
(* for a stated reason) at any time and it may move the watermark to any   *)
(* number m the counter has reached, forwards or backwards, as long as no  *)
(* row the peer serves at or below m is left unsettled.  This is the       *)
(* promise a watermark makes: rows below it need never be asked for again. *)
(***************************************************************************)
EXTENDS Naturals

CONSTANTS
  Handle,    \* handles the peer may hold
  Version    \* contents a handle may have, ordered from old to new

VARIABLES
  seq,       \* peer: handle -> sync_seq of its row, 0 when there is no row
  ver,       \* peer: handle -> content of its row, 0 when there is no row
  counter,   \* peer: the number given to the last write
  mark,      \* puller: the watermark kept for this peer, 0 when there is none
  settled    \* puller: versions of handles it need not be sent again

vars == <<seq, ver, counter, mark, settled>>

(* Every row the peer serves at or below m has been settled. *)
Covered(m) ==
  \A h \in Handle : seq[h] # 0 /\ seq[h] <= m => <<h, ver[h]>> \in settled

Init ==
  /\ seq = [h \in Handle |-> 0]
  /\ ver = [h \in Handle |-> 0]
  /\ counter = 0
  /\ mark = 0
  /\ settled = {}

Write(h, v) ==
  /\ counter' = counter + 1
  /\ seq' = [seq EXCEPT ![h] = counter + 1]
  /\ ver' = [ver EXCEPT ![h] = v]
  /\ UNCHANGED <<mark, settled>>

Delete(h) ==
  /\ seq' = [seq EXCEPT ![h] = 0]
  /\ ver' = [ver EXCEPT ![h] = 0]
  /\ UNCHANGED <<counter, mark, settled>>

(* Versions may be settled, and the watermark moved, with this result. *)
Pull ==
  /\ UNCHANGED <<seq, ver, counter>>
  /\ settled \subseteq settled'
  /\ settled' \subseteq Handle \X Version
  /\ mark' \in 0..counter
  /\ Covered(mark)'

Next ==
  \/ Pull
  \/ \E h \in Handle, v \in Version : Write(h, v)
  \/ \E h \in Handle : Delete(h)

Spec == Init /\ [][Next]_vars
=============================================================================
