----------------------------- MODULE PeerTable -----------------------------
(***************************************************************************)
(* The table of known relays (PeerTable, relay/src/peer.rs) under          *)
(* everything that calls it: announcements over HTTP, lists fetched at     *)
(* bootstrap, the maintenance loop with its health checks, and the results *)
(* of the loops that pull (relay/src/sync.rs).  The table is behind one    *)
(* mutex, so each call is one step; a health check or a pull starts in one *)
(* step and reports in a later one, when the table may have changed.       *)
(*                                                                         *)
(* An Instant is kept as an age: how long ago it was, in ticks of Pass,    *)
(* saturated at MaxAge.  Entries of one age are ordered by the code but    *)
(* not here: which of them is the oldest is left open.  Only the entry     *)
(* touched by the running call is known to be the youngest.                *)
(***************************************************************************)
EXTENDS Naturals, FiniteSets, Functions

CONSTANTS
  Url,            \* URLs, normalized
  Self,           \* our own URL
  Ip,             \* addresses announcements come from
  None,           \* no URL in a slot; also the address of an unattributed one
  Seeds,          \* URLs of the configured seeds
  Reachable,      \* URLs that answer every health check
  MaxUnverified,  \* PeerConfig.max_unverified
  MaxVerified,    \* PeerConfig.max_verified
  VerifiedTTL,    \* PeerConfig.verified_ttl, in ticks
  UnverifiedTTL,  \* PeerConfig.unverified_ttl, in ticks
  Strikes,        \* SYNC_FAILURES_BEFORE_DEMOTE
  PerTick,        \* candidates checked in one maintenance tick
  MaxAge          \* bound: ages above it are not told apart

ASSUME PeerTableAssumption ==
  /\ IsFiniteSet(Url)
  /\ Seeds \subseteq Url
  /\ Reachable \subseteq Url
  /\ None \notin Url \cup Ip
  /\ MaxUnverified \in Nat \ {0} /\ Cardinality(Seeds) <= MaxUnverified
  /\ MaxVerified \in Nat \ {0}
  /\ VerifiedTTL \in Nat \ {0} /\ UnverifiedTTL \in Nat \ {0}
  /\ Strikes \in Nat \ {0}
  /\ PerTick \in Nat
  /\ MaxAge \in Nat /\ VerifiedTTL <= MaxAge /\ UnverifiedTTL <= MaxAge

VARIABLES
  unverified,  \* URL -> [seen, added], for the URLs waiting for a check
  verified,    \* URL -> [seen, fails], for the URLs synced from and gossiped
  slots,       \* address -> the URL it announced last, or None
  checks,      \* URLs of health checks under way
  pulls,       \* URLs a pull loop has taken from the verified and not finished
  announced    \* (history) URLs in unverified because an address announced them

table == <<unverified, verified, slots, announced>>
vars  == <<table, checks, pulls>>

Age == 0..MaxAge
Waiting == [seen : Age, added : Age]
Trusted == [seen : Age, fails : 0..(Strikes - 1)]

Tables(U, V) ==
  /\ DOMAIN U \subseteq Url /\ U \in [DOMAIN U -> Waiting]
  /\ DOMAIN V \subseteq Url /\ V \in [DOMAIN V -> Trusted]

TypeOK ==
  /\ Tables(unverified, verified)
  /\ slots \in [Ip -> Url \cup {None}]
  /\ checks \subseteq Url
  /\ pulls \subseteq Url
  /\ announced \subseteq DOMAIN unverified

Empty == [u \in {} |-> None]

Init ==
  /\ unverified = Empty
  /\ verified = Empty
  /\ slots = [i \in Ip |-> None]
  /\ checks = {}
  /\ pulls = {}
  /\ announced = {}

-----------------------------------------------------------------------------
(* Helpers on tables. *)

Put(t, u, e) == [x \in DOMAIN t \cup {u} |-> IF x = u THEN e ELSE t[x]]
Without(t, gone) == Restrict(t, DOMAIN t \ gone)

(* What the eviction loop may leave of t: the youngest max entries.  The    *)
(* entries of fresh were touched last and go last.                          *)
Survivors(t, max, fresh) ==
  {left \in SUBSET DOMAIN t :
     /\ Cardinality(left) = IF Cardinality(DOMAIN t) <= max
                              THEN Cardinality(DOMAIN t) ELSE max
     /\ \A x \in DOMAIN t \ left, y \in left :
          x \notin fresh /\ t[y].seen <= t[x].seen}

(* Faulty: every slot is given back as soon as one is. *)
FaultySlotsWithout(s, gone) == [i \in Ip |-> IF gone # {} THEN None ELSE s[i]]

(* Slots that point into gone are given back. *)
SlotsWithout(s, gone) == [i \in Ip |-> IF s[i] \in gone THEN None ELSE s[i]]

Stale(V) == {u \in DOMAIN V : V[u].seen >= VerifiedTTL}
Live(V)  == DOMAIN V \ Stale(V)

-----------------------------------------------------------------------------
(* announce. *)

(* A verified, live peer is only refreshed. *)
AnnounceVerified(u) ==
  /\ u # Self
  /\ u \in Live(verified)
  /\ verified' = [verified EXCEPT ![u].seen = 0]
  /\ UNCHANGED <<unverified, slots, announced, checks, pulls>>

(* The URL that address i announced before, unless it is u or another       *)
(* address announced it too.                                                *)
Superseded(i, u) ==
  {w \in Url : slots[i] = w /\ w # u /\ \A j \in Ip \ {i} : slots[j] # w}

(* Faulty: an unattributed announcement is taken like any other. *)
FaultyRoomForUnattributed(u) == TRUE

(* A full table takes no new URL from an unattributed announcement. *)
RoomForUnattributed(u) ==
  u \in DOMAIN unverified \/ Cardinality(DOMAIN unverified) < MaxUnverified

(* Insert or renew u, then evict the oldest beyond the capacity. *)
Upsert(u, gone, owners, claimed) ==
  LET grown == Put(Without(unverified, gone), u, [seen |-> 0, added |-> 0])
  IN \E left \in Survivors(grown, MaxUnverified, {u}) :
       /\ unverified' = Restrict(grown, left)
       /\ slots' = SlotsWithout(owners, DOMAIN grown \ left)
       /\ announced' = (announced \cup claimed) \cap left

AnnounceUnattributed(u) ==
  /\ u # Self
  /\ u \notin Live(verified)
  /\ RoomForUnattributed(u)
  /\ Upsert(u, {}, slots, {})
  /\ UNCHANGED <<verified, checks, pulls>>

AnnounceFrom(u, i) ==
  /\ u # Self
  /\ u \notin Live(verified)
  /\ Upsert(u, Superseded(i, u), [slots EXCEPT ![i] = u], {u})
  /\ UNCHANGED <<verified, checks, pulls>>

-----------------------------------------------------------------------------
(* mark_alive and mark_synced: forgiven says whether the failures of a peer *)
(* that is verified already are forgotten.                                  *)

Refresh(u, forgiven) ==
  /\ u \in DOMAIN verified
  /\ verified' = [verified EXCEPT ![u] =
                    [seen |-> 0, fails |-> IF forgiven THEN 0 ELSE @.fails]]
  /\ UNCHANGED <<unverified, slots, announced>>

(* Faulty: nobody is evicted for the promoted peer. *)
FaultyPromote(u) ==
  /\ u \in DOMAIN unverified \ DOMAIN verified
  /\ unverified' = Without(unverified, {u})
  /\ slots' = SlotsWithout(slots, {u})
  /\ announced' = announced \ {u}
  /\ verified' = Put(verified, u, [seen |-> 0, fails |-> 0])

Promote(u) ==
  /\ u \in DOMAIN unverified \ DOMAIN verified
  /\ unverified' = Without(unverified, {u})
  /\ slots' = SlotsWithout(slots, {u})
  /\ announced' = announced \ {u}
  /\ LET grown == Put(verified, u, [seen |-> 0, fails |-> 0])
     IN \E left \in Survivors(grown, MaxVerified, {u}) :
          verified' = Restrict(grown, left)

Ignore(u) ==
  /\ u \notin DOMAIN unverified \cup DOMAIN verified
  /\ UNCHANGED table

Alive(u, forgiven) == Refresh(u, forgiven) \/ Promote(u) \/ Ignore(u)

CheckSucceeded(u) ==
  /\ u \in checks
  /\ checks' = checks \ {u}
  /\ Alive(u, FALSE)
  /\ UNCHANGED pulls

PullSucceeded(u) ==
  /\ u \in pulls
  /\ pulls' = pulls \ {u}
  /\ Alive(u, TRUE)
  /\ UNCHANGED checks

(* A health check that fails leaves no trace. *)
CheckFailed(u) ==
  /\ u \in checks \ Reachable
  /\ checks' = checks \ {u}
  /\ UNCHANGED <<table, pulls>>

(* The check finds the address forbidden: remove. *)
CheckRefused(u) ==
  /\ u \in checks \ Reachable
  /\ checks' = checks \ {u}
  /\ unverified' = Without(unverified, {u})
  /\ verified' = Without(verified, {u})
  /\ slots' = SlotsWithout(slots, {u})
  /\ announced' = announced \ {u}
  /\ UNCHANGED pulls

-----------------------------------------------------------------------------
(* record_sync_failure. *)

(* A URL that waits for a check goes to the back of the line. *)
FailWaiting(u) ==
  /\ u \in DOMAIN unverified
  /\ unverified' = [unverified EXCEPT ![u].seen = 0]
  /\ UNCHANGED <<verified, slots, announced>>

(* Faulty: one failure more than Strikes is tolerated. *)
FaultyFailCounted(u) ==
  /\ u \in DOMAIN verified \ DOMAIN unverified
  /\ verified[u].fails < Strikes
  /\ verified' = [verified EXCEPT ![u].fails = @ + 1]
  /\ UNCHANGED <<unverified, slots, announced>>

FailCounted(u) ==
  /\ u \in DOMAIN verified \ DOMAIN unverified
  /\ verified[u].fails + 1 < Strikes
  /\ verified' = [verified EXCEPT ![u].fails = @ + 1]
  /\ UNCHANGED <<unverified, slots, announced>>

(* Faulty: the last failure only starts the count again. *)
FaultyFailDemoted(u) ==
  /\ u \in DOMAIN verified \ DOMAIN unverified
  /\ verified[u].fails + 1 >= Strikes
  /\ verified' = [verified EXCEPT ![u].fails = 0]
  /\ UNCHANGED <<unverified, slots, announced>>

FailDemoted(u) ==
  /\ u \in DOMAIN verified \ DOMAIN unverified
  /\ verified[u].fails + 1 >= Strikes
  /\ verified' = Without(verified, {u})
  /\ unverified' = Put(unverified, u, [seen |-> 0, added |-> 0])
  /\ UNCHANGED <<slots, announced>>

PullFailed(u) ==
  /\ u \in pulls
  /\ pulls' = pulls \ {u}
  /\ FailWaiting(u) \/ FailCounted(u) \/ FailDemoted(u) \/ Ignore(u)
  /\ UNCHANGED checks

(* sync_round takes u from peers(), or a poke finds u verified. *)
StartPull(u) ==
  /\ u \in Live(verified) \ pulls
  /\ pulls' = pulls \cup {u}
  /\ UNCHANGED <<table, checks>>

-----------------------------------------------------------------------------
(* One tick of run_peer_maintenance_loop, under one lock. *)

(* Faulty: seeds are not asserted again. *)
FaultySeeded(U, V) == {U}

(* ensure_seed for every seed that is not verified; what is left of U. *)
Seeded(U, V) ==
  LET missing == Seeds \ ({Self} \cup DOMAIN V \cup DOMAIN U)
      grown   == [x \in DOMAIN U \cup missing |->
                    IF x \in DOMAIN U THEN U[x] ELSE [seen |-> 0, added |-> 0]]
  IN IF Seeds \subseteq {Self} \cup DOMAIN V
       THEN {U}
       ELSE {Restrict(grown, left) :
               left \in Survivors(grown, MaxUnverified, missing)}

(* demote_expired: stale peers wait again; one that waits already stays so. *)
Demoted(U, V) ==
  [x \in DOMAIN U \cup Stale(V) |->
     IF x \in DOMAIN U THEN U[x] ELSE [seen |-> V[x].seen, added |-> 0]]

(* expire_unverified. *)
Unexpired(U) == Restrict(U, {x \in DOMAIN U : U[x].added < UnverifiedTTL})

RefreshDue(V) == {u \in DOMAIN V : 2 * V[u].seen >= VerifiedTTL}

NeedsPeers(V) == Cardinality(Live(V)) < MaxVerified \div 2

(* The candidates of a tick: the least recently seen, PerTick of them. *)
Candidates(U) ==
  {picked \in SUBSET DOMAIN U :
     /\ Cardinality(picked) = IF Cardinality(DOMAIN U) <= PerTick
                                THEN Cardinality(DOMAIN U) ELSE PerTick
     /\ \A x \in picked, y \in DOMAIN U \ picked : U[y].seen <= U[x].seen}

Maintain ==
  \E U \in Seeded(unverified, verified) :
    LET V      == Without(verified, Stale(verified))
        W      == Unexpired(Demoted(U, verified))
        evicted == DOMAIN unverified \ DOMAIN U
        unknown == Url \ (DOMAIN W \cup DOMAIN V)
    IN /\ unverified' = W
       /\ verified' = V
       /\ slots' = SlotsWithout(slots, evicted \cup unknown)
       /\ announced' = announced \cap DOMAIN W \cap DOMAIN U
       /\ IF NeedsPeers(V)
            THEN \E picked \in Candidates(W) :
                   checks' = checks \cup RefreshDue(V) \cup picked
            ELSE checks' = checks \cup RefreshDue(V)
       /\ UNCHANGED pulls

-----------------------------------------------------------------------------
(* Time passes.  The relay restarts: the table is only in memory. *)

Older(n) == IF n < MaxAge THEN n + 1 ELSE n

Pass ==
  /\ unverified' = [u \in DOMAIN unverified |->
       [seen |-> Older(unverified[u].seen), added |-> Older(unverified[u].added)]]
  /\ verified' = [u \in DOMAIN verified |->
       [verified[u] EXCEPT !.seen = Older(@)]]
  /\ UNCHANGED <<slots, announced, checks, pulls>>

Restart ==
  /\ unverified' = Empty
  /\ verified' = Empty
  /\ slots' = [i \in Ip |-> None]
  /\ checks' = {}
  /\ pulls' = {}
  /\ announced' = {}

Announce(u) ==
  \/ AnnounceVerified(u)
  \/ AnnounceUnattributed(u)
  \/ \E i \in Ip : AnnounceFrom(u, i)

Check(u) == CheckSucceeded(u) \/ CheckFailed(u) \/ CheckRefused(u)
Pull(u)  == PullSucceeded(u) \/ PullFailed(u)

Next ==
  \/ \E u \in Url : Announce(u)
  \/ \E u \in Url : Check(u)
  \/ \E u \in Url : StartPull(u)
  \/ \E u \in Url : Pull(u)
  \/ Maintain
  \/ Pass
  \/ Restart

Spec == Init /\ [][Next]_vars

-----------------------------------------------------------------------------
(* Properties. *)

(* Demotions refill unverified without evicting from it, so its own         *)
(* capacity does not bound it; but what may be demoted was admitted before: *)
(* both tables together never hold more URLs than both capacities,          *)
(* whatever is announced (peer.rs:235-246, 284-296, 481-492).               *)
TableBounded ==
  /\ Cardinality(DOMAIN verified) <= MaxVerified
  /\ Cardinality(DOMAIN unverified \cup DOMAIN verified)
       <= MaxUnverified + MaxVerified

(* "One slot per IP": a URL waits on the word of an address only while some *)
(* address's slot holds it, so Cardinality(Ip) addresses never occupy more  *)
(* entries than they are, across promotions, evictions, expiries and URLs   *)
(* shared by several addresses (peer.rs:159-160, 195-213).                  *)
AnnouncedBacked == \A u \in announced : \E i \in Ip : slots[i] = u

(* What is learned from another relay's list only fills spare capacity,     *)
(* while the table is within it (peer.rs:182-191).                          *)
PropagatedDisplacesNothing ==
  [][\A u \in Url :
       AnnounceUnattributed(u) /\ Cardinality(DOMAIN unverified) <= MaxUnverified
         => DOMAIN unverified \subseteq DOMAIN unverified']_vars

(* Scheduling: a tick of Pass is longer than a period of the maintenance    *)
(* loop and than the timeout of a health check (10 s each, against TTLs of  *)
(* minutes and days), so the loop has seen to the table in between.         *)
Tidy ==
  /\ Stale(verified) = {}
  /\ \A u \in DOMAIN unverified : unverified[u].added < UnverifiedTTL
  /\ Seeds \subseteq {Self} \cup DOMAIN unverified \cup DOMAIN verified

TimelyNext ==
  \/ \E u \in Url : Announce(u) \/ Check(u) \/ StartPull(u) \/ Pull(u)
  \/ Maintain
  \/ Pass /\ Tidy /\ checks = {}
  \/ Restart

(* The loops run for ever; time passes however often they do, so strongly   *)
(* fair; a check or a pull ends.  A round pulls from a random choice of the *)
(* live verified peers: one that is among them again and again is chosen.   *)
Fairness ==
  /\ WF_vars(Maintain)
  /\ SF_vars(Pass /\ Tidy /\ checks = {})
  /\ \A u \in Url : WF_vars(Check(u)) /\ WF_vars(Pull(u)) /\ SF_vars(StartPull(u))

(* In the end nobody announces anything and the relay stays up. *)
Quiet ==
  <>[][\/ \E u \in Url : Check(u) \/ StartPull(u) \/ Pull(u)
       \/ Maintain
       \/ Pass /\ Tidy /\ checks = {}]_vars

LiveSpec == Init /\ [][TimelyNext]_vars /\ Fairness

(* Joining the mesh does not depend on luck: a seed that answers its checks *)
(* is, again and again, verified and live, unless enough others are, though *)
(* it may have been evicted, expired or demoted before (sync.rs:134-140).   *)
SeedReturns ==
  Quiet => \A u \in (Seeds \cap Reachable) \ {Self} :
             []<>(u \in Live(verified) \/ ~NeedsPeers(verified))

Answers(u) == CheckSucceeded(u) \/ PullSucceeded(u)

(* A peer that has stopped answering leaves the lists we serve for good,    *)
(* even if it is announced over and over, which refreshes it (peer.rs:172-  *)
(* 179): the pulls from it fail and count.                                  *)
DeadLeaves ==
  \A u \in Url : <>[][~Answers(u)]_vars => <>[](u \notin Live(verified))
=============================================================================
