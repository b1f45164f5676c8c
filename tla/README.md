# certrelay in TLA+

Models, model checks and proofs about certrelay: mostly its relay (`relay/`), the
server that verifies certificates of the Spaces protocol, keeps them in SQLite
and replicates them to its peers by pulling, and its client (`fabric/rust/`): the
trust anchors it verifies with, and how it resolves names at several relays. Paths
and line numbers below are those of the repository; `file.rs:n` without a directory
is in `relay/src/`, and `client.rs` and `lib.rs` in `fabric/rust/src/`.

`PROJECT.json` lists the components, the runs, the hazards with the properties
that cover them, the theorems, and for every definition the code it translates.

## The system

**Store** (`store.rs`). One SQLite database behind one mutex: each store call is
a transaction, and nothing holds across two calls. State: `handles` (one row per
handle: certificate, zone, epoch, seq of its records, `sync_seq`),
`sync_counter`, `sync_watermarks` (one cursor per peer), the address and
reverse indexes, and counts kept by triggers (`space_epoch_counts`,
`storage_totals`). Correct when a number once given to a row is never given to
another, a better zone never costs the owner's records, the counts equal the
table, and the indexes name only handles that exist.

**Message handler** (`handler.rs`). Verifies a message (libveritas), then leaves
out duplicates, first inserts of gated spaces and rate limited replacements, and
calls `update_handles`, `set_revs`, `set_addrs`, one transaction each. Up to
`VERIFY_CONCURRENCY` messages, both pull loops and the sweep interleave there.

**Pulling** (`sync.rs:298-619`). A session with one peer: read our watermark,
read the peer's summary, pull pages by cursor, drop what we have, verify and
store the rest space by space, advance the watermark. It runs in the interval
loop and in the poke loop, perhaps for the same peer at once. Correct when no
row of the peer ends up at or below the watermark without having been stored or
refused for a reason, and when everything arrives in the end. Publishes and pulls
from other peers write the same rows meanwhile.

**Serving pages** (`store.rs:851-993`). Rows above a cursor in the order of
`sync_seq`, the roots their sub-handles need, within a row and a byte limit.

**Pokes** (`sync.rs:204-294`, `http.rs:618-668`). A `Notify`, a debounce, one
poke to each verified peer with our latest cursor; the receiver compares it with
its watermark and queues a pull. Best effort: the interval loop repairs.

**Peer table** (`peer.rs`, its loops in `sync.rs:82-202`). Unverified and
verified peers and one announcement slot per IP, behind one async mutex, in
memory only. Health checks and pulls start under the lock and report later.

**Retention** (`retention.rs`). A ticker sweeps in batches when bytes exceed
the budget, and a gate refuses first inserts of over-entitled spaces meanwhile.

**Resolve and hints** (`handler.rs:71-220`, `466-484`). Read-only: the certificates
of the handles asked for, and their freshness. A client tells the commitment it has
cached, and the relay leaves out a receipt the client can do without. Correct when
the client can.

**HTTP server, anchors, identity, start-up, monitor** (`http.rs`, `app.rs`,
`spaced.rs`, `identity.rs`, `relay.rs`, `bin/monitor.rs`). The parts of the
handlers that change the state above are in the modules; the rest is read-only,
I/O, or on the plan below.

**fabric** (`fabric/rust/src/client.rs`). The client. State: three pins (trusted,
semi-trusted, observed), the anchors behind each, one Veritas built from all of
them, the pool of semi-trusted relays and its quorum, each behind a mutex of its
own; a snapshot of the anchors survives restarts. Calls of any threads interleave
at every request. Correct when the user's trusted roots are never overridden by
those of peers, a pin is the set that answers are verified with, and relays short
of the quorum cannot have a root of theirs pinned.

To resolve a name it discovers relays from seeds, keeps them in a pool with their
failures, ranks them by the hints they give or takes them as they come, asks one
after the other until an answer verifies, and caches the zones of spaces. State: the
pool and the cache, shared by all calls. Correct when an honest relay's answer
verifies with what the call read from the cache, the cache does not go back by itself,
the freshest relay is asked first, and relays that fail or lie do not keep the client
from an answer. The clients in other languages are ports of this one.

What interacts: the pull loops share the watermark and the store with each other
and with messages; the sweep deletes what messages and pulls insert; announcements,
checks and pull results meet in the peer table; pokes of one relay start pulls
of another, whose stores poke on.

What is hard: steps of two loops between two transactions; a row written,
replaced or evicted between two pages; a database recreated under its peers'
watermarks; results that report on a peer which is no longer where it was;
errors in the middle of a pull; and that everything arrives in spite of it.

## The modules

| module | models | state | actions |
|---|---|---|---|
| `Watermark` | the promise of a watermark, abstractly | the peer's rows and counter, one watermark, what is settled | write, delete, pull |
| `SyncPull` | `sync_with_peer`, `ingest_sync_records`, and the peer's side | the peer's rows and counter, watermark, our rows, per session the locals of the function | one per store call or request, plus crash, error, eviction, other writers, wipe |
| `SyncPull_proofs`, `SyncPage_proofs`, `PeerTable_proofs`, `HandleStore_proofs`, `Retention_proofs`, `Mesh_proofs`, `TrustPins_proofs`, `Resolve_proofs` | theorems about the module in the name | | |
| `SyncPage` | `sync_page` step by step | a table, a request, the page under construction | take a row, append roots, pop, reply |
| `PeerTable` | every method of `PeerTable` and its callers | the two tables, slots, checks and pulls under way | one per method call or tick |
| `HandleStore` | one handle: admission, `update_handles`, `set_revs`, `set_addrs`, `delete_handles` | the row, both index entries, the clock, per message its next store call | one per store call |
| `Retention` | the gate, the triggers and `sweep` | rows, counts, bytes, heat, messages, where the sweep is | one per store call |
| `Mesh` | notification, pokes and pulls at several relays | per relay its log of stored items, permit, queue, cooldown, watermarks, pulls | one per await |
| `Hints` | how hints rank relays: `HintsResponse::cmp` and the sort | none | none |
| `Resolve` | discovery, the relay pool, `pick_relays`, `query`, `prove`, the cache of root zones, and how relays answer | rows of honest relays, pool and failures, cache, per task its call | one per read of the cache, request, answer, failure |
| `TrustPins` | the anchors and pins of a fabric client, and the semi-trusted vote | stored anchors and pins by source, Veritas, pool and quorum, the snapshot, per call its locals | one per request and per lock taken |

`SyncPull` implements `Watermark` (`Promise == INSTANCE Watermark WITH settled <- ...`,
`KeepsPromise == Promise!Spec`). `SyncPull` builds a page in one step and leaves its
length open; `SyncPage` shows, under `PageFaithful`, that the code's two limits,
companions and trimming produce pages of that kind, no longer than was asked for.
`Mesh` takes a pull one record at a time; `SyncPull` is the detail behind that step,
and `Mesh_proofs` shows that every pair of relays of a mesh implements `Watermark` too. `Resolve` extends `Hints`.

Each `MC*` module gives a module's constants small values, and a `.cfg` makes a run.
Operators named `Faulty...` (and `StuckAccepted`, `KeepsAnyRecords`,
`GreedySweepCheck`) are seeded bugs: replacing the definition that follows by one
must break the property `PROJECT.json` pairs it with.

Abstractions. Contents are versions (`SyncPull`), zones as records of the fields
the rules compare (`HandleStore`), or items (`Mesh`): zones are never parsed.
Verification is libveritas: it accepts or rejects. `Instant`s are ages in ticks
that saturate. Delegations, capabilities, URL validation, logging, statistics and
the wire format are left out. In `TrustPins` an anchor set is its trust id, the hash of
its entries: a fetch yields that set or fails, since the code recomputes the id
(`client.rs:1622`). That libveritas accepts the merged anchors, which are sorted and
have one entry for each height, is taken for granted (the code keeps the former
Veritas otherwise, `client.rs:673`). In `Resolve` one space is resolved, anchors are
loaded, and honest relays hold the space and always answer: one that is down,
overloaded (429, 503), without the space or asked for more than six handles at once
counts as `Faulty`, and a faulty one may do as an honest one does. `Verifies` and
`Yields` state what the code relies on in libveritas: a receipt left out is restored
from a cached zone of the same commitment, and an older zone than the one known needs
none and is replaced by it (`handler.rs:469-474`). Batches of hints are taken in one
step, for their answers meet in nothing but the failure counts. The sort is the
insertion that Rust's stable sort is for up to 20 elements; at most seven responses
are ranked. In the store's counts a space has one row per
handle. Bytes are counted as elements of a set, a row and a place in it each
(`Payload`), so that sums are cardinalities; sizes are small numbers in the runs and
any in the proofs. `older` of `Retention` is the order of `updated_at`, as a relation.

## The runs

| run | shows | instance |
|---|---|---|
| `SyncPull` | watermark soundness, orphans, the gate, the budget of failing spaces, and the refinement of `Watermark` | 2 sessions, 3 handles in 2 spaces, 2 versions, 3 writes, pages of 2 rows, 2 pages per session, both spaces may be rejected, one gated, its root unfit at times and stored from elsewhere too, budget 0, within `Few` |
| `SyncPullLive` | delivery, and recovery after the peer's wipe | one space, 1 version, 3 writes, 1 wipe, one session, pages of 1 |
| `SyncPullWipe` | **violated**: a peer wiped in the middle of a session has a row that the next round takes for known | one session, 1 wipe |
| `PeerTable` | common bound of both tables, slots, propagated peers displace nothing | 4 URLs, 2 addresses, capacities 1 and 2, 2 strikes |
| `PeerTableLive` | seeds return, dead peers leave | 2 peers and ourselves, TTLs of 2 ticks |
| `HandleStore` | rules of replacement under interleaving, crash and eviction | 2 messages at once, 2 keys, 2 epochs, 3 anchors, seqs 0 to 3, clock to 2 |
| `HandleStoreDangling` | **violated**: index rows of a handle without a row | one message at a time |
| `Retention` | accounting, entitlement, roots, relief of pressure | 2 spaces, one sub-handle, 2 epochs, budget 2, low-water 1, 4 batches |
| `SyncPage` | pages are faithful and accepted | every table of 4 rows in 2 spaces, sizes 1 and 3, page cap 2, limits 1, 2, 4 |
| `Mesh` | pokes dismissed only as old news, spreading, quiescence | 2 relays, 2 items, one publishes and pokes, 1 failure |
| `Resolve` | honest answers verify, the cache goes forward, the freshest is asked first, the client is answered | 1 honest relay and 3 that may be anything, `Count` 2 instead of 4, 3 rows, 3 claims, failures to 2; from one of three situations: two tasks at two relays, one task that makes every kind of call from a seed that knows two more, or one that asks four relays for hints |
| `TrustPins` | the user's roots win, pins are what verifies, a minority cannot pin | 2 calls at once, 2 real anchor sets that overlap and a false one, 3 relays of which one is dishonest, 2 pools, 4 calls or restarts |

Why the bounds are enough. In `SyncPull` a hidden row needs a row that moves past a
cursor (two writes of a handle), a companion (a root and its sub-handle), a second
space to fail beside it, and a page boundary in between: all fit in three writes
and pages of one to three rows. In `PeerTable` evictions, demotions above capacity
and slots shared by two addresses need a table one short of the URLs and two
addresses. In `HandleStore` the rules compare two zones, and races need a second
message. In `Retention` a sweep must meet a victim, an exhausted space, no victim
at all, and a hot candidate. In `TrustPins` sets must overlap at a height and
disagree there, two calls of one kind must meet, and a vote must be short of its
quorum by one relay. In `Resolve` a hint can go stale only with two calls that write
the cache, three commitments tell "newer" from "another of the same height", a batch
of hints must be short of `Count` and a second one follow, and three responses are
the fewest that can beat each other in a circle. `Few` of `MCSyncPull` cuts the run
`SyncPull` to what can be searched in minutes: at most two versions dropped, a second
version of the root of the first space only, and not once something was unfit, nothing
stored from elsewhere that the peer has not got to; and, while both sessions are at work,
one version, one page each, one drop, nothing gated or unfit and rejections of the second
space only. What it cuts
off is in the theorems, which know no bounds. The bounds `MaxSeq`, `MaxWipes`,
`MaxClock`, `MaxAge`, `MaxFailures` and `Budget` (of `TrustPins`) only cut histories
short.

Steps that join what the code does in two. `Mesh` reads our watermark and the peer's
summary at once, with two awaits in the code (`sync.rs:490-505`); `SyncPull` takes them
apart. In `Retention` the sweep's candidates and their heat (`SweepChoose`,
`retention.rs:181-211`), and the gate's total and the space's usage (`Gated`,
`retention.rs:94-107`), are one read each where the code has two, with writes or queries
possible in between.

`Mesh` is limited by the cost of liveness checking: with two items and both relays
poking it has over a million states before the first failure. With one item and
both poking it is small (let `Named` and `Entry` be both relays and `Item` one
value), but no second poke can then fall into a cooldown.

### Fairness

- `SyncPull`: weak fairness of a session's steps: the interval loop never ends
  (`sync.rs:82-92`), requests to peers have a timeout (`http.rs:110-113`, `281`) and an
  error ends only its round. `Stable` adds that requests
  stop failing and crashes stop in the end.
- `PeerTable`: the maintenance loop and pending checks and pulls are weakly fair;
  the passing of a tick is strongly fair, as the loop runs several times in each
  (10 s against TTLs of minutes and days), and so is the start of a pull, since a
  round draws its peers at random. `SeedReturns` assumes in addition that announcements
  and restarts stop (`Quiet`); `DeadLeaves` does not.
- `Retention`: the ticker never ends and a received message is handled; messages and
  store errors stop in the end. Queries go on.
- `Mesh`: the loops run; a poke arrives or is lost; a round's random choice of peer
  is strongly fair. Nothing that may fail is assumed to happen.
- `Resolve`: a call goes on when it waits for nobody or for honest relays, which answer.
  Of a request to a faulty relay nothing is assumed (`Waiting`): the client sets no
  timeout (`client.rs:324`), so such a request may never end. That calls are made and do
  not all hang there, and that honest relays are in the pool, is a premise of
  `Answered`. So is that faulty relays do not go on for ever sending answers that
  cannot be decoded or giving proofs, and that calls that race stop setting the cache
  back: each of them defeats the fallback (see below). The order of the shuffle is
  not assumed to be fair: failures alone bring the honest relay to the front. Failures
  saturate, for an honest relay one below the others, as the code's `u32` does not in
  practice.
- The other modules state safety only and assume no fairness.

### What the violated runs show

- `SyncPullWipe`: an empty page makes the watermark catch up with the summary read
  before it, as "new writes always get sequences above `latest`" (`sync.rs:543-544`). When
  the peer's database was recreated between the summary and the page, its next row gets
  a number that is not above: the next round sees the counter at the watermark, returns
  (`sync.rs:517`), and the row is not asked for while it keeps that number
  (`NothingMissed`). There is a second way to the same end, which the run does not reach
  first: a peer recreated between two pulls that has already passed the watermark again
  is not seen to have regressed (`sync.rs:508`).
- `HandleStoreDangling`: reverse names are written for handles the gate, the limiter or
  the store left out (`handler.rs:347-353`, `443-449`); and a sweep between
  `update_handles` and `set_addrs` leaves addresses of a handle that is gone.

Seen while modelling, and not runs of their own:

- The gate in `ingest_sync_records` uses rows read before (`sync.rs:318-336`,
  `390-392`): if the other loop, a publish on `/message` or a pull from another peer has
  stored a first version meanwhile, an update is dropped as a first insert, against
  "updates pass" (`sync.rs:387-389`): the exception in `GatePassesUpdates`.
- Our own store skips records whose seq is more than 6 h ahead of our clock
  (`store.rs:379-388`), and the handler those over 1 KB (`handler.rs:339-346`), with a line
  in the log and an `Ok`; the watermark then passes them. The comment that calls this
  safe (`sync.rs:589-591`, "every record stored, prefiltered, gated, or affirmatively
  rejected") leaves them out, and a seq that is too far ahead now need not be so later.
  `IngestStored` drops them as `"unfit"`.
- No request of the fabric client has a timeout (`client.rs:324`, `715-724`, `1066-1077`,
  `1160-1176`, `1200-1207`): a relay that accepts the connection and does not answer keeps
  the call for ever, and no other relay is asked, against "Falls back on failure"
  (`client.rs:1039`).
- The order of a page is that of `sync_seq`; the doc at `http.rs:1251-1252` still says
  `(updated_at, handle)`.
- Demotions do not evict: the unverified table exceeds `max_unverified`
  (`README.md:83`); `TableBounded` is the bound that does hold. In an over-full table
  an unattributed announcement of a URL already in it evicts another entry
  (`peer.rs:185-191`), hence the condition in `PropagatedDisplacesNothing`.
- A failed health check leaves no trace in the table (`sync.rs:195`), so a candidate
  that does not answer stays the least recently seen and is picked in every tick,
  while `peer.rs:434` and `442` speak of "tried longest ago or never tried".
- A peer in both tables has its sync failures booked on the unverified entry
  (`peer.rs:365-373`), and a health refresh does not reset the count as
  `peer.rs:368-369` says (`257-260`). `DeadLeaves` holds all the same.
- The gate of `/message` is read before verification (`http.rs:516-520`): a first insert
  may be refused when storage is under the budget again (`README.md:105`).
- Hot handles may be evicted although cold ones lie behind the window of
  `2 * eviction_batch` candidates (`retention.rs:178-184`).
- Stored data is not poked about when the client hung up (`http.rs:526-542`) or the pull
  failed after it had stored a page (`sync.rs:124-128`, `287-291`), against
  `MESH.md:43`; `Spreads` holds by the interval loop.
- `clear_trusted` clears the pin and not the anchors: they go on verifying, and the pin
  returns with `save_state` and `from_state`, or with a `trust` that was under way,
  against `client.rs:552` ("never return Orange until trust is pinned again").
- Two calls for one source at once may leave the pin of one with the anchors of the
  other, as the pin is set after the lock is released (`client.rs:676-683`). Hence
  `raced` in `PinnedIsStored`.
- An answer that cannot be decoded ends a call at once (`client.rs:1106-1111`): no other
  relay is asked, and the one that sent it is not marked as failing, against "Falls back
  on failure" (`client.rs:1039`).
- `prove` marks a relay as alive for any success, without looking at the proof
  (`client.rs:1210-1211`): a relay that forges answers and gives proofs starts over with
  each.
- The cache is written without a comparison (`client.rs:1028-1035`): of two calls the
  slower may set it back, and a third that sent a hint before finds the receipt left out
  and the zone to restore it from gone: an honest relay is refused and marked.
- `pick_relays` takes whole batches, so it returns up to `2 * count - 1` relays, not "up
  to `count`" (`client.rs:1135`), and a relay that is behind another in everything may be
  asked before it: with three that beat each other in a circle the order of a sort is
  that in which they were heard. `FreshestFirst` is what holds.
- A handle whose records are at seq 0 ranks as one that the relay does not hold
  (`lib.rs:208-209`).
- Relays that refuse for load (429, 503), or because more than six handles are asked
  for, are marked as failing like those that are down.
- The ETag of an answer is computed before the rows it is built from are read
  (`http.rs:881`, `927`): a row stored in between goes out under the older tag.
- Ingestion counts every error of `handle_message_opts` as a failed space, an error of
  our own database included (`sync.rs:464`), and the watermark then passes the page; the
  comment at `sync.rs:430` says that only build and verification rejections count as
  such. `IngestRejected` and `IngestStored` (an index write that fails after the rows
  are stored) allow it in the `Suspect` spaces.
- A page with more failing spaces than the budget is asked for again in every
  round, and no round gets past it.

## The proofs

`SyncPull_proofs` proves, for any handles, versions, sessions, suspect and gated
spaces, page limits and budgets:

- `TypeCorrect`: `Spec => []TypeOK`.
- `Soundness`: `Spec => []WatermarkSound`: what lies at or below the watermark was
  stored, or dropped for one of the reasons of `Reason`, which are all the code has.
- `NoRowSkipped`: `Spec => NothingMissed`: a round that returns because the peer reports
  nothing new leaves nothing of the peer unsettled, which is what `SyncPullWipe` finds
  violated when a database is recreated.
- `PromiseKept`: `Spec => Promise!Spec`: every step is a step of `Watermark` or
  leaves what `Watermark` sees unchanged.

The last three assume `Lasting == MaxWipes = 0`, that the peer's database is not
recreated; `SyncPullWipe` shows that they fail without it. Otherwise they rest on
`ConstantsAssumption` alone, which TLC evaluates in every run of `SyncPull`.

`NothingSkipped` is not inductive: a step that sets the watermark does so from what a
session remembers. `WatermarkSound` adds what the code relies on. The peer's counter
bounds every number in use (`CounterBounds`), so a later write lands above all of them
and `Covered(n)` survives it (`CoveredStays`). And a session knows (`SessionKnows`)
that everything at or below its cursor is settled, that on a page everything up to
the page's end is settled or still to be attempted, and that once an empty page
came everything up to the summary's number is settled. `SettledStays` says that
nothing settled becomes unsettled: versions are only replaced by newer ones, by whoever
stores them, and an eviction of ours is a reason. The step lemma then has one case per action.
`WatermarkSound` is an invariant of the run `SyncPull`, where TLC agrees with it.

The last part is about what is dropped. `OrphansAfterRoots`
(`Spec => []OrphansHaveDroppedRoot`, under `Lasting`): a root of a page's sub-handle is
on the page, or lies at or before the cursor and is settled there (`PagesHaveRoots`, by
`WatermarkSound`), and a root that is settled was stored, which it stays, or dropped,
but not evicted. `GateLetsUpdatesPass` (`Spec => GatePassesUpdates`) rests on
`KnownHolds`: of a handle that none of our other writers stores, a single session finds
what was not stored at the prefilter still not stored when it attempts it.

Each of the others proves that every step keeps an invariant, one lemma for each
operation, and takes its theorems from it.

- `PeerTable_proofs`, for any finite set of URLs, any addresses and capacities.
  `Sound` is `TypeOK /\ TableBounded /\ AnnouncedBacked`: the bound is on the union of
  both tables, since a demotion moves a URL and evicts nobody, and a promotion is
  bounded only together with what it leaves behind. `SurvivorsBounded` says what an
  eviction leaves; a late health check or pull may report on a URL that has gone, and
  `AliveKeeps` covers both its callers. `PropagatedFillsSpareRoom` follows from the types.
- `HandleStore_proofs`, for any handlers, keys and zones. `RowSound` is `TypeOK /\
  NotPinned /\ RecordsOfOwner`. What a message brings is fixed when it is received, so
  the argument is about what `Merge` takes from the message and what from the row at the
  time of the write (`MergeFields`, `UpdateFields`), and every other step leaves the row
  alone or deletes it. `ReceiptStays` needs `ReceiptProves` besides: only a root's row
  has a receipt, and only with a commitment. This rests on `HandleStoreAssumption`, which
  says the same of the zones that verification lets through.
- `Retention_proofs`, for any handles, spaces, sizes, budgets and batches.
  `SubsChosen`, that the sweep has chosen sub-handles only, gives `RootsStay`. `Typed`
  with `BucketsStay` gives `EntitlementStays`: buckets only ever come, and a finite set
  of epochs has no more elements than a larger one. `Counting` and `Accounts` give
  `AccountsAreTrue`: what a deletion takes from a bucket, and from the total, is what
  leaves it because what was chosen is still stored when it is deleted, and a replaced
  row leaves one bucket before it enters another, or the same. That `TypeOK` holds
  follows: the counts are cardinalities and never below zero, and a write or a deletion
  leaves the rows in an order.
- `SyncPage_proofs`, for any table, sizes and limits. `IInv` says that the rows taken are
  the first ones after the cursor (`Gapless`), whatever has been appended to the page or
  cut from it, and that the roots at hand which they need are those numbered beyond the
  last of them (`Homed`): cutting a row keeps this only because a root that is cut is kept
  as a root. `PagesAreFaithful` follows from it when the page is sent. `PagesAreAccepted`
  needs in addition that one row and its root fit twice the page limit and a message.
- `Mesh_proofs`, for any relays, items and choices of peers. `Backed` says that each
  watermark, each pull's cursor and each claim stands for a prefix of the peer's log, all
  of which is held, and is never longer than that log. It lasts because logs only grow
  and an item is stored once. Hence `OldNewsIsHeld`: a claim at or below the watermark
  is about items that are here. The same invariant gives `PromiseKept`: for each two
  relays n and p, `Spec => Promise(n, p)!Spec`, where an item's number is its place in
  the log of p. An item is stored at the end of one log at a time, so a store at p is
  `Write` and every other step is `Pull` or stutters.
- `TrustPins_proofs`, for any anchor sets, relays and pools. `Pins` holds what the locks
  are for: Veritas is built from what is stored (`Rebuilt`), and between a store and the
  pin that follows there is one call that is about to set it, unless calls raced
  (`OneSetter`). `TrustedFirst` is the lemma about the merge. `Elected` adds the vote:
  of the relays asked so far, a set that is not of the real chain has at most the votes
  of the dishonest ones among them (`Ballot`), so that what a refresh fetches and pins
  is real unless dishonest relays reach the quorum (`QuorumPins`), which is counted for
  the configuration the refresh began with even if the pool is swapped meanwhile.
- `Resolve_proofs`, for any relays, tasks and zones. `ZonesKept` says that a call's hint
  and context are `None` or zones, and how they relate to what it read. An honest
  answer is refused only if the context is behind the hint (`RefusalNeedsSetBack`),
  which takes a race (`SetBackByRace`). `ClientTyped` adds plans and failures.
  `FreshestIsAskedFirst` is about the sort: `Sorted` says of the first relays heard that
  they are there, each once, and that one of them that beats all others heard, and is
  beaten by none, comes first as soon as it is inserted and stays there. A relay that is
  fresher than the others is such a one (`FresherBeats`), although the comparison is not
  transitive.

Where an argument is by induction (the last of finitely many rows, the relays sorted,
the votes cast), it is made by a least counterexample: the library proves `<` on the
naturals and inclusion of finite sets well-founded, and `WFMin` gives the least one. The
inductions over steps of the system are those of the temporal rules.

Only model-checked: liveness under fairness, which the prover does not reach:
`Delivered`, `Recovers`, `SeedReturns`, `DeadLeaves`, `PressureRelieved`, `Spreads`,
`DiesOut`, `Answered`. Every other property of the passing runs is a theorem.

## What is not modelled

- Verification, certificates, zones on the wire, the chain: libveritas and spaced.
- Delegate records in the store; addresses in the index that differ from those of the
  merged zone.
- A relay with other page limits than its peers': `PullerAccepts` assumes one
  configuration (`settings.rs:216`). Sizes are those of certificate and zone, as the page
  counts them (`store.rs:949`); the framing of a row on the wire (handle, seqs, lengths) is
  not counted there, and is left to the slack in what a puller accepts.
- More spaces without candidates than batches in a sweep: `PressureRelieved` assumes
  there are not.
- `/peek`, `/reverse`, `/addrs`, statistics, monitor: read-only. Identity and migrations: start-up
  I/O. The HTTP framing and the rate limiters (a limit refuses a call at any time).
- Of the fabric client: recursive names (each level is a query of its own), lookups by
  number or address and broadcasts (requests to relays of the pool that do not touch
  the cache), signing. Several spaces in one query.
- The verification cap and the anchors served: on the plan.

## The plan

1. `Watermark`, `SyncPull`: done, checked and proved, but for liveness.
2. `PeerTable`: done, checked and proved, but for liveness.
3. `HandleStore`: done, checked and proved.
4. `Retention`: done, checked and proved, but for liveness.
5. `SyncPage`, `Mesh`, `TrustPins`, `Resolve`: done, checked and proved, but for liveness.
6. Then: `VerifyGate` (the permit of the
   verification cap and the blocking task that outlives its request, `http.rs:511`);
   `AnchorServe` (anchors and their signature refreshed in two steps, `app.rs:536`).
   Runs are kept few: a new module replaces a violated run whose point is settled,
   or shares a run.
