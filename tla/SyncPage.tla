------------------------------ MODULE SyncPage ------------------------------
(***************************************************************************)
(* Serving one page of /sync: sync_page of relay/src/store.rs.             *)
(*                                                                         *)
(* A page is built under the connection's mutex, so the table stands still *)
(* while its steps run; SyncPull takes the whole page in one step and      *)
(* leaves its length open.  Here the limits that decide the length, and    *)
(* the roots the page brings along, are in full.  The table is any table   *)
(* the other modules may reach: handles in any order of sync_seq, with     *)
(* gaps where rows were replaced or evicted.                               *)
(***************************************************************************)
EXTENDS Naturals, FiniteSets

CONSTANTS
  Handle,     \* handles, roots and sub-handles
  SpaceOf,    \* handle -> root handle of its space
  Size,       \* bytes of a row: certificate and zone
  MaxSeq,     \* bound: the highest sync_seq
  Limit,      \* row limits a request may carry, 1..MAX_SYNC_PAGE_ROWS
  MaxBytes,   \* MAX_SYNC_PAGE_BYTES
  MaxRow      \* max_message_size, which bounds a row of the peer's table

ASSUME SyncPageAssumption ==
  /\ SpaceOf \in [Handle -> Handle]
  /\ \A h \in Handle : SpaceOf[SpaceOf[h]] = SpaceOf[h]
  /\ MaxSeq \in Nat
  /\ Limit \subseteq Nat \ {0}
  /\ MaxBytes \in Nat
  /\ MaxRow \in 0..2 * MaxBytes
  /\ Size \subseteq 1..MaxRow

VARIABLES
  seq,      \* handle -> sync_seq of its row, 0 when there is no row
  size,     \* handle -> bytes of its row
  after,    \* the request's cursor
  limit,    \* the request's row limit
  main,     \* rows selected; their order is that of sync_seq
  roots,    \* roots held to be sent with the rows
  pc,       \* what sync_page does next
  page      \* the reply: set of handles and next_cursor, 0 when there is none

vars == <<seq, size, after, limit, main, roots, pc, page>>

Empty == [records |-> {}, next |-> 0]

TypeOK ==
  /\ seq \in [Handle -> 0..MaxSeq]
  /\ size \in [Handle -> Size]
  /\ after \in 0..MaxSeq
  /\ limit \in Limit
  /\ main \subseteq Handle /\ Cardinality(main) <= limit
  /\ roots \subseteq {SpaceOf[h] : h \in Handle}
  /\ pc \in {"idle", "select", "roots", "trim"}
  /\ page.records \subseteq Handle /\ page.next \in 0..MaxSeq

(* Numbers are given out once: no two rows share one.  A request waits. *)
Init ==
  /\ seq \in {s \in [Handle -> 0..MaxSeq] :
                \A g, h \in Handle : s[g] = s[h] => g = h \/ s[g] = 0}
  /\ size \in [Handle -> Size]
  /\ after \in 0..MaxSeq
  /\ limit \in Limit
  /\ main = {}
  /\ roots = {}
  /\ pc = "select"
  /\ page = Empty

-----------------------------------------------------------------------------
(* Every byte of the rows of S, as a row and a place in it. *)
Payload(S) == UNION {{h} \X (1..size[h]) : h \in S}
Bytes(S)   == Cardinality(Payload(S))

(* The rows the query still has to give. *)
Rest == {h \in Handle : seq[h] > after} \ main

(* Faulty: one row more than the request allows. *)
FaultyFull == Cardinality(main) > limit \/ Bytes(main) > MaxBytes

(* limit rows, or a last row that exceeds MaxBytes. *)
Full == Cardinality(main) = limit \/ Bytes(main) > MaxBytes

LastRow(rows) == CHOOSE h \in rows : \A g \in rows : seq[g] <= seq[h]

(* The spaces of the sub-handles among the rows. *)
Needed(rows) == {SpaceOf[h] : h \in {g \in rows : SpaceOf[g] # g}}

(* Faulty: the roots do not count. *)
FaultyTotal(rows) == Bytes(rows)

(* What the rows weigh with the roots they need. *)
Total(rows) == Bytes(rows) + Bytes(roots \cap Needed(rows))

(* Faulty: a root that is cut from the rows is forgotten. *)
FaultyRehomed(h) == roots

(* A root that is cut from the rows may still be needed by those left. *)
Rehomed(h) == IF SpaceOf[h] = h THEN roots \cup {h} ELSE roots

TooLarge == Cardinality(main) > 1 /\ Total(main) > 2 * MaxBytes

-----------------------------------------------------------------------------
Request(c, l) ==
  /\ pc = "idle"
  /\ after' = c
  /\ limit' = l
  /\ page' = Empty
  /\ pc' = "select"
  /\ UNCHANGED <<seq, size, main, roots>>

(* The next row of the query. *)
Take ==
  /\ pc = "select"
  /\ ~Full
  /\ \E h \in Rest :
       /\ \A g \in Rest : seq[h] <= seq[g]
       /\ main' = main \cup {h}
  /\ UNCHANGED <<seq, size, after, limit, roots, pc, page>>

Selected ==
  /\ pc = "select"
  /\ Full \/ Rest = {}
  /\ pc' = "roots"
  /\ UNCHANGED <<seq, size, after, limit, main, roots, page>>

(* Roots numbered beyond the rows, republished after their sub-handles. *)
AppendRoots ==
  /\ pc = "roots"
  /\ roots' = {r \in Needed(main) : seq[r] > seq[LastRow(main)]}
  /\ pc' = "trim"
  /\ UNCHANGED <<seq, size, after, limit, main, page>>

(* The page is too large: it gives up its last row. *)
Pop ==
  /\ pc = "trim"
  /\ TooLarge
  /\ main' = main \ {LastRow(main)}
  /\ roots' = Rehomed(LastRow(main))
  /\ UNCHANGED <<seq, size, after, limit, pc, page>>

Reply ==
  /\ pc = "trim"
  /\ ~TooLarge
  /\ page' = [records |-> main \cup (roots \cap Needed(main)),
              next    |-> IF main = {} THEN 0 ELSE seq[LastRow(main)]]
  /\ main' = {}
  /\ roots' = {}
  /\ pc' = "idle"
  /\ UNCHANGED <<seq, size, after, limit>>

Next ==
  \/ \E c \in 0..MaxSeq, l \in Limit : Request(c, l)
  \/ Take
  \/ Selected
  \/ AppendRoots
  \/ Pop
  \/ Reply

Spec == Init /\ [][Next]_vars

-----------------------------------------------------------------------------
(* Properties. *)

(* What SyncPull assumes of a page that starts after c and ends with the    *)
(* row numbered n: every row between, and the root of each sub-handle among *)
(* them that is numbered beyond n.                                          *)
MainRows(c, n) == {h \in Handle : seq[h] > c /\ seq[h] <= n}
Companions(rows, n) ==
  {r \in {SpaceOf[h] : h \in {g \in rows : SpaceOf[g] # g}} : seq[r] > n}

(* However the two limits and the trimming cut a page, it is a gapless      *)
(* non-empty run of the rows after the cursor, no longer than was asked     *)
(* for; its next_cursor names its last row, never one of the appended       *)
(* roots, and each sub-handle finds its root in it unless the root was      *)
(* before the cursor; a page is empty only when no row is left              *)
(* (store.rs:851-855, 898-903, 968-975).                                    *)
PageFaithful ==
  pc = "idle" =>
    \/ page = Empty /\ \A h \in Handle : seq[h] <= after
    \/ /\ page.next > after
       /\ \E h \in Handle : seq[h] = page.next
       /\ LET rows == MainRows(after, page.next)
          IN /\ Cardinality(rows) <= limit
             /\ page.records = rows \cup Companions(rows, page.next)

(* No page is refused by a puller with the same limits, whose max_page_bytes*)
(* is two pages and a message: a page that were would be asked for again in *)
(* every round (store.rs:942-947, settings.rs:216-219).                     *)
PullerAccepts == Bytes(page.records) <= 2 * MaxBytes + MaxRow
=============================================================================
