-------------------------------- MODULE Resolve --------------------------------
(***************************************************************************)
(* How a fabric client resolves the handles of a space                     *)
(* (fabric/rust/src/client.rs), and how relays answer (relay/src/http.rs,  *)
(* handler.rs): discovery of relays, the pool with its failure counts,     *)
(* ranking by hints, the query with its fallback, and the cache of root    *)
(* zones, which spares the relays the receipt of a proof.                  *)
(*                                                                         *)
(* Tasks of the application call at once.  A call reads the cache twice:   *)
(* for the hint it sends, and for what it verifies with.  Verification is  *)
(* libveritas: an answer that is not of the chain is refused, a receipt    *)
(* left out is restored from what the call verifies with.                  *)
(*                                                                         *)
(* A zone is [epoch, root] of its commitment, epoch 0 being none.  A row   *)
(* of a relay is [zone, tip, seq, dseq, names]; see Hints.                 *)
(***************************************************************************)
EXTENDS Hints, FiniteSets

CONSTANTS
  Relay,        \* relays there are
  Faulty,       \* those that may be down, over a limit, or lie
  Seeds,        \* relays the client is configured with
  Known,        \* relay -> the relays it tells about
  Count,        \* relays to ask (4 in the code)
  Task,         \* tasks of the application
  Start,        \* situations a client starts in: [tasks, pool, cache]
  Space,        \* the space that is resolved
  Row,          \* rows relays may hold
  Claim,        \* responses to /hints of which liars make use
  MaxFailures,  \* bound of the failures counted for a relay
  None          \* no zone

Honest == Relay \ Faulty
Zone   == {w.zone : w \in Row}
Kind   == {"cached", "export", "fresh", "prove"}

ASSUME ResolveAssumption ==
  /\ Faulty \subseteq Relay
  /\ Seeds \subseteq Relay /\ Seeds # {}
  /\ Known \in [Relay -> SUBSET Relay]
  /\ Count \in Nat \ {0} /\ MaxFailures \in Nat \ {0}
  /\ \A s \in Start :
       /\ s.tasks \in [Task -> [kinds : SUBSET Kind, latest : SUBSET BOOLEAN]]
       /\ s.pool \subseteq Relay
       /\ s.cache \in Zone \cup {None}
  /\ \A z \in Zone : z.epoch \in Nat
  /\ None \notin Zone
  /\ IsFiniteSet(Relay)
  /\ \A x \in Claim : FiniteHints(x)
  /\ \A w \in Row : w.tip \in Int /\ IsFiniteSet(DOMAIN w.names)

VARIABLES
  rows,      \* honest relay -> its row of the space
  tasks,     \* task -> the kinds of its calls, and the values of prefer_latest
  pool,      \* relays in the pool
  failures,  \* relay -> failures counted in the pool
  cache,     \* root_cache of the space: a zone or None
  call       \* task -> its call: [pc, kind, hint, ctx, plan, found]

vars == <<rows, tasks, pool, failures, cache, call>>

Idle == [pc |-> "idle", kind |-> "cached", hint |-> None, ctx |-> None,
         plan |-> <<>>, found |-> None]

TypeOK ==
  /\ rows \in [Honest -> Row]
  /\ \E s \in Start : tasks = s.tasks
  /\ pool \subseteq Relay
  /\ failures \in [Relay -> 0..MaxFailures]
  /\ cache \in Zone \cup {None}
  /\ \A c \in Task :
       LET k == call[c] IN
       /\ k.pc \in {"idle", "boot", "discover", "hear", "send", "prove", "broken", "done"}
       /\ k.kind \in Kind
       /\ k.hint \in Zone \cup {None} /\ (k.hint # None => k.kind = "cached")
       /\ k.ctx \in Zone \cup {None} /\ (k.ctx # None => k.kind \in {"cached", "export"})
       /\ k.plan \in Seq(pool) /\ IsInjective(k.plan)
       /\ k.plan # <<>> <=> k.pc \in {"hear", "send", "prove"}
       /\ k.found \in Zone \cup {None} /\ (k.found # None <=> k.pc = "done")

Init ==
  /\ rows \in [Honest -> Row]
  /\ \E s \in Start : tasks = s.tasks /\ pool = s.pool /\ cache = s.cache
  /\ failures = [r \in Relay |-> 0]
  /\ call = [c \in Task |-> Idle]

-----------------------------------------------------------------------------
(* RelayPool. *)

(* The bound: that of an honest relay is lower, so that at the bound it is  *)
(* not on a par with one that keeps failing.                                *)
Bound(r) == IF r \in Faulty THEN MaxFailures ELSE MaxFailures - 1

Failed(f, R) == [r \in Relay |-> IF r \in R /\ f[r] < Bound(r) THEN f[r] + 1 ELSE f[r]]
MarkFailed(r) == failures' = Failed(failures, {r})
MarkAlive(r)  == failures' = [failures EXCEPT ![r] = 0]

(* shuffled_urls: any order in which failures do not fall. *)
Shuffles ==
  {s \in SetToSeqs(pool) :
     \A i, j \in DOMAIN s : i < j => failures[s[i]] <= failures[s[j]]}

First(s, n) == SubSeq(s, 1, IF n < Len(s) THEN n ELSE Len(s))

-----------------------------------------------------------------------------
(* A call begins: resolve_flat, export or prove. *)

(* The hint a query of this kind carries: the commitment cached. *)
HintFor(k) == IF k = "cached" /\ cache # None /\ cache.epoch > 0 THEN cache ELSE None

(* Faulty: bypassing the cache, a call verifies with it. *)
FaultyContextFor(k) == IF k = "prove" THEN None ELSE cache

(* What it verifies with. *)
ContextFor(k) == IF k \in {"cached", "export"} THEN cache ELSE None

Begin(c, k) ==
  /\ k \in tasks[c].kinds /\ call[c].pc = "idle"
  /\ call' = [call EXCEPT ![c].pc = "boot", ![c].kind = k, ![c].hint = HintFor(k)]
  /\ UNCHANGED <<rows, tasks, pool, failures, cache>>

(* bootstrap, with no relay in the pool. *)
Discover(c) ==
  /\ call[c].pc = "boot" /\ pool = {}
  /\ call' = [call EXCEPT ![c].pc = "discover"]
  /\ UNCHANGED <<rows, tasks, pool, failures, cache>>

(* The relays that those of R tell about, if A of them answer. *)
Told(R, A) == UNION {Known[r] : r \in A \cap R}

(* Who may answer a request. *)
Answering == {A \in SUBSET Relay : Honest \subseteq A}

(* bootstrap_peers: seeds that do not answer are relays all the same. *)
Discovered(c, A) ==
  /\ call[c].pc = "discover"
  /\ pool' = pool \cup Seeds \cup Told(Seeds, A)
  /\ call' = [call EXCEPT ![c].pc = "boot"]
  /\ UNCHANGED <<rows, tasks, failures, cache>>

(* query: the context is read, and the pool shuffled.  Without              *)
(* prefer_latest, and for prove, the first Count relays are the plan.       *)
Query(c, order, latest) ==
  /\ call[c].pc = "boot" /\ pool # {}
  /\ IF call[c].kind = "prove" THEN ~latest ELSE latest \in tasks[c].latest
  /\ call' = [call EXCEPT
       ![c].pc = IF latest THEN "hear"
                 ELSE IF call[c].kind = "prove" THEN "prove" ELSE "send",
       ![c].ctx = ContextFor(call[c].kind),
       ![c].plan = IF latest THEN order ELSE First(order, Count)]
  /\ UNCHANGED <<rows, tasks, pool, failures, cache>>

-----------------------------------------------------------------------------
(* pick_relays. *)

(* /hints at a relay that holds the space. *)
HintsOf(r) ==
  LET w == rows[r] IN
  [tip |-> w.tip,
   spaces |-> [s \in {Space} |-> [epoch |-> w.zone.epoch, seq |-> w.seq,
                                   dseq |-> w.dseq, names |-> w.names]]]

(* What the relays of the pool may say when asked for hints; those that do  *)
(* not answer say nothing.                                                  *)
Sayings ==
  LET lies == UNION {[liars -> Claim] : liars \in SUBSET (pool \cap Faulty)}
  IN {[r \in (pool \cap Honest) \cup DOMAIN lie |->
         IF r \in Honest THEN HintsOf(r) ELSE lie[r]] : lie \in lies}

(* Relays are asked Count at a time, until Count of them have answered. *)
Consulted(order, said) ==
  LET enough == {n \in DOMAIN order :
                   /\ n % Count = 0
                   /\ Cardinality({i \in 1..n : order[i] \in DOMAIN said}) >= Count}
  IN First(order, Min(enough \cup {Len(order)}))

(* The end of a call in an error, or its next relay. *)
Continue(c, rest) ==
  call' = [call EXCEPT ![c] = IF rest = <<>> THEN Idle
                              ELSE [call[c] EXCEPT
                                      !.pc = IF call[c].pc = "hear" THEN "send"
                                             ELSE call[c].pc,
                                      !.plan = rest]]

(* Those that do not answer are marked, the others ranked. *)
Hear(c, said) ==
  LET asked == Consulted(call[c].plan, said) IN
  /\ call[c].pc = "hear"
  /\ failures' = Failed(failures, ToSet(asked) \ DOMAIN said)
  /\ Continue(c, Ranking(asked, said))
  /\ UNCHANGED <<rows, tasks, pool, cache>>

-----------------------------------------------------------------------------
(* send_query and prove: relay after relay. *)

Asking(c, r) == call[c].pc \in {"send", "prove"} /\ r = Head(call[c].plan)

(* Faulty: any hint as high as the zone served lets the receipt go. *)
FaultyVerifiableBy(hint, z) == hint # None /\ z.epoch > 0 /\ hint.epoch >= z.epoch

(* epoch_hint_verifiable_by: the relay leaves the receipt out. *)
VerifiableBy(hint, z) ==
  hint # None /\ z.epoch > 0 /\ (hint.epoch > z.epoch \/ hint = z)

(* libveritas: a receipt left out is that of the same commitment known, and *)
(* an older commitment than the one known needs none.                       *)
Verifies(ctx, z, stripped) == stripped => ctx # None /\ (ctx.epoch > z.epoch \/ ctx = z)

(* The zone a verified answer yields: not an older one than is known. *)
Yields(ctx, z) == IF ctx # None /\ ctx.epoch > z.epoch THEN ctx ELSE z

(* resolve, for a query with this hint at a relay with row w. *)
Answer(hint, w) == [zone |-> w.zone, stripped |-> VerifiableBy(hint, w.zone)]

(* What a relay may serve: an honest one its own answer, another any zone   *)
(* of the chain, with its receipt or not.                                   *)
Served(c, r) ==
  IF r \in Honest THEN {Answer(call[c].hint, rows[r])}
  ELSE [zone : Zone, stripped : BOOLEAN]

(* Faulty: a relay that fails is not marked. *)
FaultyFailOver(c, r) ==
  /\ failures' = failures
  /\ Continue(c, Tail(call[c].plan))
  /\ UNCHANGED <<rows, tasks, pool, cache>>

(* A relay fails: it is marked, and the next one asked. *)
FailOver(c, r) ==
  /\ MarkFailed(r)
  /\ Continue(c, Tail(call[c].plan))
  /\ UNCHANGED <<rows, tasks, pool, cache>>

(* No answer, or an error status. *)
Unanswered(c, r) == Asking(c, r) /\ r \in Faulty /\ FailOver(c, r)

(* An answer that does not verify. *)
Refused(c, r) ==
  /\ Asking(c, r) /\ call[c].pc = "send"
  /\ r \in Faulty \/ \E a \in Served(c, r) : ~Verifies(call[c].ctx, a.zone, a.stripped)
  /\ FailOver(c, r)

(* An answer that cannot be decoded ends the call, and nobody is marked; so *)
(* does a proof that breaks off, once the relay has been marked alive.      *)
Garbled(c, r) ==
  /\ Asking(c, r) /\ r \in Faulty
  /\ IF call[c].pc = "prove" THEN MarkAlive(r) ELSE UNCHANGED failures
  /\ call' = [call EXCEPT ![c] = [Idle EXCEPT !.pc = "broken"]]
  /\ UNCHANGED <<rows, tasks, pool, cache>>

(* A proof came; the client does not look into it. *)
Proved(c, r) ==
  /\ Asking(c, r) /\ call[c].pc = "prove"
  /\ MarkAlive(r)
  /\ call' = [call EXCEPT ![c] = Idle]
  /\ UNCHANGED <<rows, tasks, pool, cache>>

Verified(c, r, a) ==
  /\ Asking(c, r) /\ call[c].pc = "send"
  /\ Verifies(call[c].ctx, a.zone, a.stripped)
  /\ MarkAlive(r)
  /\ call' = [call EXCEPT ![c].pc = "done", ![c].hint = None, ![c].plan = <<>>,
                          ![c].found = Yields(call[c].ctx, a.zone)]
  /\ UNCHANGED <<rows, tasks, pool, cache>>

(* Faulty: calls that bypass the cache write it. *)
FaultyFinish(c) ==
  /\ call[c].pc = "done"
  /\ cache' = call[c].found
  /\ call' = [call EXCEPT ![c] = Idle]
  /\ UNCHANGED <<rows, tasks, pool, failures>>

(* The end of query: the cache is written, and the zone returned. *)
Finish(c) ==
  /\ call[c].pc = "done"
  /\ cache' = IF call[c].kind = "fresh" THEN cache ELSE call[c].found
  /\ call' = [call EXCEPT ![c] = Idle]
  /\ UNCHANGED <<rows, tasks, pool, failures>>

(* The error is returned without asking the other relays. *)
Abort(c) ==
  /\ call[c].pc = "broken"
  /\ call' = [call EXCEPT ![c] = Idle]
  /\ UNCHANGED <<rows, tasks, pool, failures, cache>>

-----------------------------------------------------------------------------
(* Beside the calls. *)

(* refresh_peers. *)
RefreshPeers(A) ==
  /\ pool' = pool \cup Told(pool, A)
  /\ pool' # pool
  /\ UNCHANGED <<rows, tasks, failures, cache, call>>

(* A relay stores a newer zone, or one with newer records. *)
Learn(r, w) ==
  /\ \/ w.zone.epoch > rows[r].zone.epoch
     \/ (w.zone = rows[r].zone /\ w.seq > rows[r].seq)
  /\ rows' = [rows EXCEPT ![r] = w]
  /\ UNCHANGED <<tasks, pool, failures, cache, call>>

Step(c) ==
  \/ Discover(c)
  \/ \E A \in Answering : Discovered(c, A)
  \/ /\ call[c].pc = "boot"
     /\ \E s \in Shuffles, latest \in BOOLEAN : Query(c, s, latest)
  \/ /\ call[c].pc = "hear"
     /\ \E said \in Sayings : Hear(c, said)
  \/ \E r \in Relay :
       \/ Unanswered(c, r)
       \/ Refused(c, r)
       \/ Garbled(c, r)
       \/ Proved(c, r)
       \/ \E a \in Served(c, r) : Verified(c, r, a)
  \/ Finish(c)
  \/ Abort(c)

Next ==
  \/ \E c \in Task, k \in Kind : Begin(c, k)
  \/ \E c \in Task : Step(c)
  \/ \E A \in Answering : RefreshPeers(A)
  \/ \E r \in Honest, w \in Row : Learn(r, w)

(* The call is at a request that a faulty relay has to answer, and no       *)
(* request has a timeout (client.rs:324): it may wait for ever.  The first  *)
(* relays asked for hints are asked all at once, and it waits for them all. *)
Waiting(c) ==
  \/ call[c].pc = "discover" /\ ~(Seeds \subseteq Honest)
  \/ call[c].pc = "hear" /\ \E r \in Faulty : r \in ToSet(First(call[c].plan, Count))
  \/ \E r \in Faulty : Asking(c, r)

(* A task goes on when it waits for nobody, or for an honest relay, whose    *)
(* answer comes.                                                             *)
Fairness == \A c \in Task : WF_vars(~Waiting(c) /\ Step(c))

Spec == Init /\ [][Next]_vars /\ Fairness

-----------------------------------------------------------------------------
(* Properties. *)

(* A zone lets one do without what another one is needed for. *)
Covers(z, h) == z # None /\ (z.epoch > h.epoch \/ z = h)

(* An honest relay is refused, and marked as failing, only if the cache was *)
(* set back between the hint a call sends and the context it verifies with: *)
(* the receipt a relay leaves out for a hint is always one the client can   *)
(* restore or do without (handler.rs:466-485, client.rs:988-1019).          *)
HonestVerifies ==
  [][\A c \in Task, r \in Honest :
       Refused(c, r) => call[c].hint # None /\ ~Covers(call[c].ctx, call[c].hint)]_vars

(* A call sets the cached zone back to an older commitment only if another  *)
(* call has replaced it since this one read it: whatever stale zone a relay *)
(* serves, and calls that bypass the cache leave it alone                   *)
(* (client.rs:1010-1036).                                                   *)
CacheForward ==
  [][cache # None /\ cache' # cache /\ cache'.epoch < cache.epoch =>
       \E c \in Task : /\ Finish(c)
                       /\ call[c].kind # "fresh" /\ call[c].ctx # cache]_vars

(* The relay whose rows are fresher than those of every other relay heard   *)
(* is asked first, whatever the others claim and although "ahead of" is not *)
(* transitive (client.rs:1135-1187, lib.rs:152-194).                        *)
FreshestFirst ==
  [][\A c \in Task : call[c].pc = "hear" =>
       \A said \in Sayings : Hear(c, said) =>
         \A r \in ToSet(call'[c].plan) :
           (\A q \in ToSet(call'[c].plan) \ {r} : Fresher(said[r], said[q]))
             => Head(call'[c].plan) = r]_vars

Broken   == \E c \in Task : call[c].pc = "broken"
Proving  == \E c \in Task, r \in Relay : Proved(c, r)
SetBack  == cache # None /\ ~Covers(cache', cache)

(* Relays that are down, over a limit, forge, serve what cannot be verified *)
(* or claim the freshest hints do not keep the client from an answer as     *)
(* long as it asks and its pool has one honest relay.  Provided they do not *)
(* do it by answers that end the call, nor are marked alive by the proofs   *)
(* they give, nor do calls that race keep setting the cache back; nor does  *)
(* every call stay with a relay that accepts its request and never answers, *)
(* from which nothing falls back (client.rs:1039-1133).                     *)
Answered ==
  /\ <>[](~Broken) /\ <>[][~Proving /\ ~SetBack]_vars
  /\ <>(pool \cap Honest # {})
  /\ []<>(\E c \in Task : /\ call[c].pc # "idle" /\ call[c].kind # "prove"
                          /\ ~Waiting(c))
  => []<>(\E c \in Task : call[c].pc = "done")
=============================================================================
