------------------------------ MODULE SyncPull ------------------------------
(***************************************************************************)
(* Pulling from one peer: sync_with_peer and ingest_sync_records of        *)
(* relay/src/sync.rs against sync_page, sync_summary and the sync counter  *)
(* of relay/src/store.rs on the peer.                                      *)
(*                                                                         *)
(* Two sessions may pull from the same peer at once: the interval loop and *)
(* the poke loop each call sync_with_peer and share only the database.     *)
(* A session is sequential; between any two of its steps the peer may      *)
(* write or evict rows and the other session may run.  A session's own     *)
(* state is in memory: a crash loses it, an error abandons it.             *)
(*                                                                         *)
(* A handle's content is a number, its version: the store replaces a row   *)
(* only by a better one, so contents of one handle are ordered.  A space   *)
(* is named by its root handle; SpaceOf maps a handle to it.               *)
(***************************************************************************)
EXTENDS Naturals, FiniteSets

CONSTANTS
  Handle,     \* handles, roots and sub-handles
  SpaceOf,    \* handle -> root handle of its space
  Version,    \* contents a handle may have, ordered from old to new
  Session,    \* the loops that may pull from this peer: interval and poke
  Suspect,    \* spaces whose messages may fail: rejected, or a database error
  Headless,   \* whether the peer may store a sub-handle without its root
  Gated,      \* spaces whose first inserts storage pressure may refuse
  Unfit,      \* handles whose records our own store may skip without an error
  Elsewhere,  \* handles that a publish or a pull from another peer may store
  PageLimit,  \* most rows of a page, the companions not counted
  MaxPages,   \* pages one session pulls before it returns
  MaxFailed,  \* failed spaces after which a session stops
  MaxSeq,     \* bound: writes the peer makes between two wipes
  MaxWipes    \* bound: times the peer's database is recreated

ASSUME ConstantsAssumption ==
  /\ SpaceOf \in [Handle -> Handle]
  /\ \A h \in Handle : SpaceOf[SpaceOf[h]] = SpaceOf[h]
  /\ Version \subseteq Nat \ {0}
  /\ Headless \in BOOLEAN
  /\ Unfit \subseteq Handle
  /\ Elsewhere \subseteq Handle
  /\ PageLimit \in Nat \ {0}
  /\ MaxPages \in Nat \ {0}
  /\ MaxFailed \in Nat
  /\ MaxSeq \in Nat
  /\ MaxWipes \in Nat

VARIABLES
  seq,        \* peer: handle -> sync_seq of its row, 0 when there is no row
  ver,        \* peer: handle -> version in its row, 0 when there is no row
  counter,    \* peer: sync_counter.seq
  wipes,      \* peer: how often its database was recreated
  mark,       \* puller: sync_watermarks.cursor of the peer, 0 when absent
  local,      \* puller: handle -> version stored, 0 when there is no row
  dropped,    \* puller (history): versions it met and did not keep, with why
  pc,         \* session -> where it is in sync_with_peer
  cursor,     \* session -> cursor of its next page
  latest,     \* session -> counter the peer's summary reported
  next,       \* session -> next_cursor of the page it is ingesting
  todo,       \* session -> handle -> version in the page still to attempt, or 0
  known,      \* session -> handles stored when the page was prefiltered
  pages,      \* session -> pages it has fetched
  failed      \* session -> failed_spaces so far

peerVars    == <<seq, ver, counter, wipes>>
storeVars   == <<local, dropped>>
sessionVars == <<pc, cursor, latest, next, todo, known, pages, failed>>
vars        == <<peerVars, mark, storeVars, sessionVars>>

NoRecords == [h \in Handle |-> 0]
Reason == {"gated", "orphan", "rejected", "unfit", "evicted"}
PC     == {"idle", "summary", "reset", "fetch", "catchup", "page", "ingest"}

TypeOK ==
  /\ seq \in [Handle -> Nat]
  /\ ver \in [Handle -> Version \cup {0}]
  /\ counter \in Nat
  /\ wipes \in Nat
  /\ mark \in Nat
  /\ local \in [Handle -> Version \cup {0}]
  /\ dropped \subseteq Handle \X Version \X Reason
  /\ pc \in [Session -> PC]
  /\ cursor \in [Session -> Nat]
  /\ latest \in [Session -> Nat]
  /\ next \in [Session -> Nat]
  /\ todo \in [Session -> [Handle -> Version \cup {0}]]
  /\ known \in [Session -> SUBSET Handle]
  /\ pages \in [Session -> Nat]
  /\ failed \in [Session -> Nat]

Lesser(m, n)  == IF m <= n THEN m ELSE n
Greater(m, n) == IF m >= n THEN m ELSE n

Init ==
  /\ seq = [h \in Handle |-> 0]
  /\ ver = [h \in Handle |-> 0]
  /\ counter = 0
  /\ wipes = 0
  /\ mark = 0
  /\ local = [h \in Handle |-> 0]
  /\ dropped = {}
  /\ pc = [s \in Session |-> "idle"]
  /\ cursor = [s \in Session |-> 0]
  /\ latest = [s \in Session |-> 0]
  /\ next = [s \in Session |-> 0]
  /\ todo = [s \in Session |-> NoRecords]
  /\ known = [s \in Session |-> {}]
  /\ pages = [s \in Session |-> 0]
  /\ failed = [s \in Session |-> 0]

-----------------------------------------------------------------------------
(* The peer. *)

(* Faulty: number a row after the highest row present, so that an evicted *)
(* row's number is given out again.                                       *)
FaultyNextSeq == LET used == {seq[h] : h \in Handle} IN
  (CHOOSE m \in used : \A n \in used : n <= m) + 1

(* update_handles numbers a row from the counter, never from the rows. *)
NextSeq == counter + 1

(* The peer stores a better version of h.  A message stores its rows in one *)
(* transaction; one row at a time lets sessions see more, never less.  A    *)
(* sub-handle is verified with its space's root, which is then stored too   *)
(* unless the store refuses it (oversized records, a seq of the far future).*)
PeerStore(h, v) ==
  /\ counter < MaxSeq
  /\ v > ver[h]
  /\ Headless \/ SpaceOf[h] = h \/ seq[SpaceOf[h]] # 0
  /\ counter' = NextSeq
  /\ seq' = [seq EXCEPT ![h] = NextSeq]
  /\ ver' = [ver EXCEPT ![h] = v]
  /\ UNCHANGED <<wipes, mark, storeVars, sessionVars>>

(* The peer's retention sweep deletes a sub-handle, never a root. *)
PeerEvict(h) ==
  /\ seq[h] # 0
  /\ SpaceOf[h] # h
  /\ seq' = [seq EXCEPT ![h] = 0]
  /\ ver' = [ver EXCEPT ![h] = 0]
  /\ UNCHANGED <<counter, wipes, mark, storeVars, sessionVars>>

(* The peer's operator recreates its database: no rows, a fresh counter. *)
PeerWipe ==
  /\ wipes < MaxWipes
  /\ wipes' = wipes + 1
  /\ seq' = [h \in Handle |-> 0]
  /\ ver' = [h \in Handle |-> 0]
  /\ counter' = 0
  /\ UNCHANGED <<mark, storeVars, sessionVars>>

-----------------------------------------------------------------------------
(* A session. *)

(* sync_with_peer returns, with an error or without: its state is gone. *)
Return(s) ==
  /\ pc' = [pc EXCEPT ![s] = "idle"]
  /\ cursor' = [cursor EXCEPT ![s] = 0]
  /\ latest' = [latest EXCEPT ![s] = 0]
  /\ next' = [next EXCEPT ![s] = 0]
  /\ todo' = [todo EXCEPT ![s] = NoRecords]
  /\ known' = [known EXCEPT ![s] = {}]
  /\ pages' = [pages EXCEPT ![s] = 0]
  /\ failed' = [failed EXCEPT ![s] = 0]

(* The session reads the stored watermark. *)
Begin(s) ==
  /\ pc[s] = "idle"
  /\ pc' = [pc EXCEPT ![s] = "summary"]
  /\ cursor' = [cursor EXCEPT ![s] = mark]
  /\ UNCHANGED <<peerVars, mark, storeVars, latest, next, todo, known, pages, failed>>

(* GET /sync/summary, when the peer has nothing new for us. *)
SummaryNothingNew(s) ==
  /\ pc[s] = "summary"
  /\ counter = 0 \/ counter = cursor[s]
  /\ Return(s)
  /\ UNCHANGED <<peerVars, mark, storeVars>>

(* GET /sync/summary, when the peer's counter is below our watermark. *)
SummaryRegressed(s) ==
  /\ pc[s] = "summary"
  /\ counter # 0 /\ counter < cursor[s]
  /\ pc' = [pc EXCEPT ![s] = "reset"]
  /\ UNCHANGED <<peerVars, mark, storeVars, cursor, latest, next, todo, known, pages, failed>>

(* Faulty: return without storing the reset watermark. *)
FaultyReset(s) ==
  /\ pc[s] = "reset"
  /\ Return(s)
  /\ UNCHANGED <<peerVars, mark, storeVars>>

(* The watermark starts over; the next round pulls. *)
Reset(s) ==
  /\ pc[s] = "reset"
  /\ mark' = 0
  /\ Return(s)
  /\ UNCHANGED <<peerVars, storeVars>>

(* GET /sync/summary, when there is something to pull. *)
SummaryBehind(s) ==
  /\ pc[s] = "summary"
  /\ counter > cursor[s]
  /\ latest' = [latest EXCEPT ![s] = counter]
  /\ pc' = [pc EXCEPT ![s] = "fetch"]
  /\ UNCHANGED <<peerVars, mark, storeVars, cursor, next, todo, known, pages, failed>>

(* Rows of a page that starts after c and ends with the row numbered n. *)
MainRows(c, n) == {h \in Handle : seq[h] > c /\ seq[h] <= n}

(* Faulty: a page brings no root from beyond its end. *)
FaultyCompanions(main, n) == {}

(* Roots of the page's sub-handles that are numbered beyond the page. *)
Companions(main, n) ==
  {r \in {SpaceOf[h] : h \in {g \in main : SpaceOf[g] # g}} : seq[r] > n}

(* GET /sync: the peer returns a non-empty prefix of the rows after the     *)
(* cursor (how long is decided by the row limit and by bytes, which are not *)
(* modelled here) and the companions of that prefix.                        *)
Fetch(s) ==
  /\ pc[s] = "fetch"
  /\ \E h \in Handle :
       LET main == MainRows(cursor[s], seq[h])
           page == main \cup Companions(main, seq[h])
       IN /\ seq[h] > cursor[s]
          /\ Cardinality(main) <= PageLimit
          /\ next' = [next EXCEPT ![s] = seq[h]]
          /\ todo' = [todo EXCEPT ![s] =
               [g \in Handle |-> IF g \in page THEN ver[g] ELSE 0]]
  /\ pc' = [pc EXCEPT ![s] = "page"]
  /\ pages' = [pages EXCEPT ![s] = @ + 1]
  /\ UNCHANGED <<peerVars, mark, storeVars, cursor, latest, known, failed>>

(* GET /sync returns no record: nothing is left after the cursor. *)
FetchEmpty(s) ==
  /\ pc[s] = "fetch"
  /\ \A h \in Handle : seq[h] <= cursor[s]
  /\ pc' = [pc EXCEPT ![s] = "catchup"]
  /\ UNCHANGED <<peerVars, mark, storeVars, cursor, latest, next, todo, known, pages, failed>>

(* The watermark catches up with the summary over evicted rows. *)
CatchUp(s) ==
  /\ pc[s] = "catchup"
  /\ mark' = IF cursor[s] < latest[s] THEN latest[s] ELSE mark
  /\ Return(s)
  /\ UNCHANGED <<peerVars, storeVars>>

(* Faulty: every handle that is stored counts as a duplicate. *)
FaultyPrefilter(s) ==
  /\ pc[s] = "page"
  /\ pc' = [pc EXCEPT ![s] = "ingest"]
  /\ known' = [known EXCEPT ![s] = {h \in Handle : local[h] # 0}]
  /\ todo' = [todo EXCEPT ![s] =
               [h \in Handle |-> IF local[h] # 0 THEN 0 ELSE @[h]]]
  /\ UNCHANGED <<peerVars, mark, storeVars, cursor, latest, next, pages, failed>>

(* ingest_sync_records drops exact duplicates and remembers what it held. *)
Prefilter(s) ==
  /\ pc[s] = "page"
  /\ pc' = [pc EXCEPT ![s] = "ingest"]
  /\ known' = [known EXCEPT ![s] = {h \in Handle : local[h] # 0}]
  /\ todo' = [todo EXCEPT ![s] =
               [h \in Handle |-> IF @[h] = local[h] THEN 0 ELSE @[h]]]
  /\ UNCHANGED <<peerVars, mark, storeVars, cursor, latest, next, pages, failed>>

(* Handles of the page's records that belong to the space rooted at sp. *)
Group(s, sp) == {h \in Handle : todo[s][h] # 0 /\ SpaceOf[h] = sp}

(* ingest_sync_records takes up a space: one of those left, in the order of *)
(* a hash map, while the budget of failed spaces is not spent.              *)
Attempt(s, sp) ==
  /\ pc[s] = "ingest"
  /\ Group(s, sp) # {}
  /\ failed[s] <= MaxFailed
  /\ todo' = [todo EXCEPT ![s] =
               [h \in Handle |-> IF SpaceOf[h] = sp THEN 0 ELSE @[h]]]

(* Faulty: the gate refuses stored handles with the others. *)
FaultyAdmitted(s, sp) == IF sp \in Gated THEN {Group(s, sp), {}} ELSE {Group(s, sp)}

(* The admission gate of the sync path: under storage pressure the records  *)
(* whose handle was not stored when the page was prefiltered are refused.   *)
Admitted(s, sp) ==
  IF sp \in Gated
    THEN {Group(s, sp), Group(s, sp) \cap known[s]}
    ELSE {Group(s, sp)}

Drop(s, handles, why) == {<<h, todo[s][h], why>> : h \in handles}

(* The root is in the page, or a copy of it is stored. *)
RootAtHand(sp, kept) == local[sp] # 0 \/ sp \in kept

(* The gate refuses the whole space. *)
IngestNone(s, sp) ==
  /\ Attempt(s, sp)
  /\ {} \in Admitted(s, sp)
  /\ dropped' = dropped \cup Drop(s, Group(s, sp), "gated")
  /\ UNCHANGED <<peerVars, mark, local, pc, cursor, latest, next, known, pages, failed>>

(* No root to verify the space's records with: a failed space. *)
IngestOrphans(s, sp) ==
  /\ Attempt(s, sp)
  /\ \E kept \in Admitted(s, sp) :
       /\ kept # {}
       /\ ~RootAtHand(sp, kept)
       /\ dropped' = dropped \cup Drop(s, Group(s, sp) \ kept, "gated")
                             \cup Drop(s, kept, "orphan")
  /\ failed' = [failed EXCEPT ![s] = @ + 1]
  /\ UNCHANGED <<peerVars, mark, local, pc, cursor, latest, next, known, pages>>

(* The message is built and its handling errs before anything is stored: it *)
(* is rejected, or the database errs.  A failed space either way.           *)
IngestRejected(s, sp) ==
  /\ Attempt(s, sp)
  /\ sp \in Suspect
  /\ \E kept \in Admitted(s, sp) :
       /\ kept # {}
       /\ RootAtHand(sp, kept)
       /\ dropped' = dropped \cup Drop(s, Group(s, sp) \ kept, "gated")
                             \cup Drop(s, kept, "rejected")
  /\ failed' = [failed EXCEPT ![s] = @ + 1]
  /\ UNCHANGED <<peerVars, mark, local, pc, cursor, latest, next, known, pages>>

(* Faulty: what is not in the message is skipped with the rest. *)
FaultySkippable(kept) == Unfit

(* Records of a verified message that our own store leaves out, with no more *)
(* than a line in the log: too large, or a seq of the far future.            *)
Skippable(kept) == kept \cap Unfit

(* The message verifies: update_handles keeps the better of each pair.  An  *)
(* error of the index writes after it counts as a failed space all the same.*)
IngestStored(s, sp) ==
  /\ Attempt(s, sp)
  /\ \E kept \in Admitted(s, sp) :
       /\ kept # {}
       /\ RootAtHand(sp, kept)
       /\ \E unfit \in SUBSET Skippable(kept) :
            /\ local' = [h \in Handle |->
                 IF h \in kept \ unfit THEN Greater(local[h], todo[s][h])
                                      ELSE local[h]]
            /\ dropped' = dropped \cup Drop(s, Group(s, sp) \ kept, "gated")
                                  \cup Drop(s, unfit, "unfit")
  /\ \/ failed' = failed
     \/ sp \in Suspect /\ failed' = [failed EXCEPT ![s] = @ + 1]
  /\ UNCHANGED <<peerVars, mark, pc, cursor, latest, next, known, pages>>

(* Faulty: the watermark moves past the page it gave up. *)
FaultyBudgetSpent(s) ==
  /\ pc[s] = "ingest"
  /\ todo[s] # NoRecords
  /\ failed[s] > MaxFailed
  /\ mark' = Lesser(next[s], latest[s])
  /\ Return(s)
  /\ UNCHANGED <<peerVars, storeVars>>

(* Records are left but the budget is spent: the round fails, and the       *)
(* watermark stays before the page.                                         *)
BudgetSpent(s) ==
  /\ pc[s] = "ingest"
  /\ todo[s] # NoRecords
  /\ failed[s] > MaxFailed
  /\ Return(s)
  /\ UNCHANGED <<peerVars, mark, storeVars>>

(* Faulty: a page leaves the watermark where the session started it. *)
StuckAccepted(s) == cursor[s]

(* The watermark a fully processed page allows. *)
Accepted(s) == Lesser(next[s], latest[s])

(* Why a round ends after a page: caught up, too many failures, or out of   *)
(* pages.                                                                   *)
LastPage(s) ==
  \/ next[s] >= latest[s]
  \/ failed[s] > MaxFailed
  \/ pages[s] = MaxPages

CommitLast(s) ==
  /\ pc[s] = "ingest"
  /\ todo[s] = NoRecords
  /\ LastPage(s)
  /\ mark' = Accepted(s)
  /\ Return(s)
  /\ UNCHANGED <<peerVars, storeVars>>

CommitMore(s) ==
  /\ pc[s] = "ingest"
  /\ todo[s] = NoRecords
  /\ ~LastPage(s)
  /\ mark' = Accepted(s)
  /\ cursor' = [cursor EXCEPT ![s] = next[s]]
  /\ pc' = [pc EXCEPT ![s] = "fetch"]
  /\ next' = [next EXCEPT ![s] = 0]
  /\ known' = [known EXCEPT ![s] = {}]
  /\ UNCHANGED <<peerVars, storeVars, latest, todo, pages, failed>>

(* A request fails, our node cannot prove, a task fails, the session's own  *)
(* database calls err: it returns the error from wherever it is.            *)
Abort(s) ==
  /\ pc[s] # "idle"
  /\ Return(s)
  /\ UNCHANGED <<peerVars, mark, storeVars>>

-----------------------------------------------------------------------------
(* The puller around its sessions. *)

(* Our own retention sweep deletes a sub-handle. *)
LocalEvict(h) ==
  /\ local[h] # 0
  /\ SpaceOf[h] # h
  /\ local' = [local EXCEPT ![h] = 0]
  /\ dropped' = dropped \cup {<<h, v, "evicted">> : v \in {w \in Version : w <= local[h]}}
  /\ UNCHANGED <<peerVars, mark, sessionVars>>

(* A publish on /message, or a pull from another peer, stores a better      *)
(* version of h: between the prefilter of a page and its gate, too.         *)
StoredElsewhere(h, v) ==
  /\ h \in Elsewhere
  /\ v > local[h]
  /\ local' = [local EXCEPT ![h] = v]
  /\ UNCHANGED <<peerVars, mark, dropped, sessionVars>>

(* The relay stops and starts again: sessions are gone, the database stays. *)
Crash ==
  /\ \E s \in Session : pc[s] # "idle"
  /\ pc' = [s \in Session |-> "idle"]
  /\ cursor' = [s \in Session |-> 0]
  /\ latest' = [s \in Session |-> 0]
  /\ next' = [s \in Session |-> 0]
  /\ todo' = [s \in Session |-> NoRecords]
  /\ known' = [s \in Session |-> {}]
  /\ pages' = [s \in Session |-> 0]
  /\ failed' = [s \in Session |-> 0]
  /\ UNCHANGED <<peerVars, mark, storeVars>>

Peer ==
  \/ \E h \in Handle, v \in Version : PeerStore(h, v)
  \/ \E h \in Handle : PeerEvict(h)
  \/ PeerWipe

(* What else changes our rows while sessions run. *)
Ourselves ==
  \/ \E h \in Handle : LocalEvict(h)
  \/ \E h \in Handle, v \in Version : StoredElsewhere(h, v)

Ingest(s, sp) ==
  \/ IngestNone(s, sp)
  \/ IngestOrphans(s, sp)
  \/ IngestRejected(s, sp)
  \/ IngestStored(s, sp)

(* Everything a session does of its own accord. *)
Step(s) ==
  \/ Begin(s)
  \/ SummaryNothingNew(s)
  \/ SummaryRegressed(s)
  \/ Reset(s)
  \/ SummaryBehind(s)
  \/ Fetch(s)
  \/ FetchEmpty(s)
  \/ CatchUp(s)
  \/ Prefilter(s)
  \/ \E sp \in Handle : Ingest(s, sp)
  \/ BudgetSpent(s)
  \/ CommitLast(s)
  \/ CommitMore(s)

Next ==
  \/ Peer
  \/ \E s \in Session : Step(s)
  \/ \E s \in Session : Abort(s)
  \/ Ourselves
  \/ Crash

Spec == Init /\ [][Next]_vars

-----------------------------------------------------------------------------
(* Properties. *)

(* Version v of h need not be sent again: something at least as good is     *)
(* stored, or v was met and dropped for a stated reason.                    *)
Settled(h, v) == local[h] >= v \/ \E why \in Reason : <<h, v, why>> \in dropped

(* Every row the peer serves at or below n is settled. *)
Covered(n) == \A h \in Handle : seq[h] # 0 /\ seq[h] <= n => Settled(h, ver[h])

(* The watermark never hides a row: whatever two sessions, the peer's       *)
(* writes and evictions, aborted rounds and crashes do, every row served at *)
(* or below the watermark was stored, refused by the gate or the verifier,  *)
(* skipped as unfit by our own store, or evicted by our own sweep           *)
(* (sync.rs:589-597, "safe to advance", whose list of what may become of a  *)
(* record leaves out the unfit ones: update_handles and handle_message_opts *)
(* skip them and return Ok, store.rs:379-388, handler.rs:339-346).          *)
NothingSkipped == Covered(mark)

(* What makes NothingSkipped inductive.  The peer's counter bounds every    *)
(* number in use, so a later write is numbered above all of them, and a     *)
(* session knows: its cursor is covered; on a page, what the page ends with *)
(* is covered but for the records still to attempt; once the peer had       *)
(* nothing left, the summary's number is covered (sync.rs:541-544, "New     *)
(* writes always get sequences above latest, so nothing can be missed").    *)
CounterBounds ==
  /\ mark <= counter
  /\ \A h \in Handle : seq[h] <= counter /\ (seq[h] # 0 => ver[h] # 0)

SessionKnows(s) ==
  /\ pc[s] # "idle" => cursor[s] <= counter /\ Covered(cursor[s])
  /\ pc[s] \in {"fetch", "catchup", "page", "ingest"} => latest[s] <= counter
  /\ pc[s] = "catchup" => Covered(latest[s])
  /\ pc[s] \in {"page", "ingest"} =>
       /\ next[s] <= counter
       /\ \A h \in Handle :
            seq[h] # 0 /\ seq[h] <= next[s]
              => Settled(h, ver[h]) \/ todo[s][h] = ver[h]

WatermarkSound ==
  /\ CounterBounds
  /\ NothingSkipped
  /\ \A s \in Session : SessionKnows(s)

(* A record fails for want of its root only if the root itself was met and  *)
(* dropped, as long as the peer stores no sub-handle without its root: the  *)
(* page brings the roots its sub-handles need, also those republished       *)
(* beyond it (store.rs:897-903).                                            *)
OrphansHaveDroppedRoot ==
  ~Headless => \A h \in Handle, v \in Version :
    <<h, v, "orphan">> \in dropped =>
      \E w \in Version, why \in {"gated", "rejected", "unfit"} :
        <<SpaceOf[h], w, why>> \in dropped

(* The retention gate lets updates pass (sync.rs:387-389): it never refuses *)
(* a version newer than the row stored at that moment, unless that row was  *)
(* first stored since the page was prefiltered, by another session or by    *)
(* one of our other writers (sync.rs:318-336 reads, 390-392 decides).       *)
GatePassesUpdates ==
  [][\A h \in Handle, v \in Version :
       <<h, v, "gated">> \in dropped' \ dropped =>
         \/ local[h] = 0 \/ local[h] >= v
         \/ \E s \in Session : /\ todo[s][h] = v /\ h \notin known[s]
                               /\ Session # {s} \/ h \in Elsewhere]_vars

(* A round that ends because the peer reports nothing new leaves no row of  *)
(* the peer unsettled (sync.rs:495, "nothing new past our watermark").  It  *)
(* rests on sync.rs:543-544, "New writes always get sequences above latest, *)
(* so nothing can be missed", which a recreated database breaks.            *)
NothingMissed == [][\A s \in Session : SummaryNothingNew(s) => Covered(counter)]_vars

(* The sessions, pages and faults of this module only ever do what a        *)
(* watermark promises: they settle versions and move the watermark to a     *)
(* number below which everything is settled (Watermark.tla).                *)
Promise == INSTANCE Watermark
             WITH settled <- {r \in Handle \X Version : Settled(r[1], r[2])}

KeepsPromise == Promise!Spec

(* Rounds recur for ever: the interval loop never ends (sync.rs:82-92), and *)
(* an error only ends its round.                                            *)
Fairness == \A s \in Session : WF_vars(Step(s))

(* From some point on no request fails and the relay does not crash. *)
Stable ==
  <>[][Peer \/ Ourselves \/ \E s \in Session : Step(s)]_vars

LiveSpec == Spec /\ Fairness /\ Stable

(* A watermark left over from before a wipe of the peer's database starts  *)
(* over once the peer has written again, instead of waiting until the new   *)
(* counter has overtaken it (sync.rs:509-515): unless the peer is wiped     *)
(* once more and stays empty.                                               *)
Recovers == counter # 0 /\ mark > counter ~> mark <= counter \/ counter = 0

(* Every version the peer serves is settled in the end, or the peer itself  *)
(* replaced or evicted it first, in spite of aborted rounds and crashes.    *)
(* Nothing of the kind can be said once the peer's database was recreated   *)
(* (see NothingMissed in the run SyncPullWipe).                             *)
Delivered ==
  \A h \in Handle, v \in Version :
    ver[h] = v ~> Settled(h, v) \/ ver[h] # v \/ wipes # 0
=============================================================================
