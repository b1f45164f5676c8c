------------------------------ MODULE TrustPins ------------------------------
(***************************************************************************)
(* The trust anchors of a fabric client (fabric/rust/src/client.rs): three *)
(* pins, by source, with the anchors behind each, merged into the one      *)
(* Veritas that verifies answers; the vote of the semi-trusted relays; and *)
(* what is saved and restored.                                             *)
(*                                                                         *)
(* Calls run at once, on any threads of the application.  A call holds the *)
(* lock of the anchor pool while it stores anchors and rebuilds Veritas,   *)
(* and sets the pin after it has released it.  An anchor set is named by   *)
(* its trust id, the hash of its entries: what is fetched for an id is     *)
(* that set or nothing.                                                    *)
(***************************************************************************)
EXTENDS Naturals, FiniteSets, SequencesExt

CONSTANTS
  Set,      \* trust ids of anchor sets
  Anchors,  \* trust id -> height -> root, for the heights of its entries
  Relay,    \* relays that semi-trusted pools may name
  Honest,   \* relays that sign only heads of the real chain
  Real,     \* trust ids of anchor sets of the real chain
  Config,   \* semi-trusted pools an application may configure
  Call,     \* calls under way at once
  Budget,   \* bound: calls and restarts of the application
  None      \* no anchor set

Kind   == {"trusted", "semi_trusted", "observed"}
What   == Kind \cup {"refresh"}
Quorum == [policy : {"All", "AtLeast", "Majority"}, n : Nat]  \* n: of AtLeast

ASSUME TrustPinsAssumption ==
  /\ None \notin Set
  /\ Honest \subseteq Relay /\ Real \subseteq Set
  /\ \A s \in Set : DOMAIN Anchors[s] \subseteq Nat /\ DOMAIN Anchors[s] # {}
  /\ \A g \in Config : g.relays \in Seq(Relay) /\ g.quorum \in Quorum
  /\ Budget \in Nat

VARIABLES
  pool,     \* anchor_pool: kind -> the anchor set stored, or None
  pin,      \* kind -> the anchor set pinned, or None
  veritas,  \* height -> root of the anchors answers are verified with
  config,   \* semi_trust_config
  saved,    \* the anchors last saved: kind -> anchor set or None
  pc,       \* call -> what it does next
  what,     \* call -> which pin it is to set, or a refresh of the semi-trusted
  id,       \* call -> the trust id it fetches, or None
  asked,    \* call -> the configuration a refresh works with
  left,     \* call -> relays a refresh has yet to ask, in order
  votes,    \* call -> trust id -> relays that signed it as their head
  raced,    \* (history) kinds that two calls have set at once
  spent     \* (bound) what the application has done of its budget

callVars == <<pc, what, id, asked, left, votes>>
vars == <<pool, pin, veritas, config, saved, raced, spent, callVars>>

(* The sequence l is what is left of s. *)
EndOf(l, s) ==
  /\ Len(l) <= Len(s)
  /\ \A i \in 1..Len(l) : l[i] = s[Len(s) - Len(l) + i]

TypeOK ==
  /\ pool \in [Kind -> Set \cup {None}]
  /\ pin \in [Kind -> Set \cup {None}]
  /\ DOMAIN veritas \subseteq UNION {DOMAIN Anchors[s] : s \in Set}
  /\ config \in Config
  /\ saved \in [Kind -> Set \cup {None}]
  /\ raced \subseteq Kind
  /\ spent \in 0..Budget
  /\ pc \in [Call -> {"idle", "ask", "fetch", "pin"}]
  /\ what \in [Call -> What]
  /\ id \in [Call -> Set \cup {None}]
  /\ asked \in [Call -> Config]
  /\ \A c \in Call :
       /\ EndOf(left[c], asked[c].relays)
       /\ votes[c] \in [Set -> 0..Len(asked[c].relays)]
       /\ pc[c] # "ask" => left[c] = <<>>
       /\ id[c] # None <=> pc[c] \in {"fetch", "pin"}

-----------------------------------------------------------------------------
(* AnchorPool::merged. *)

(* Faulty: what peers served last comes before what was pinned. *)
FaultyRank(k) == CASE k = "observed" -> 0 [] k = "semi_trusted" -> 1 [] OTHER -> 2

(* The sort by height is stable: at one height, sources stay in this order. *)
Rank(k) == CASE k = "trusted" -> 0 [] k = "semi_trusted" -> 1 [] OTHER -> 2

Stored(p) == {k \in Kind : p[k] # None}

(* One anchor for each height, of the first source that has one. *)
Merged(p) ==
  [h \in UNION {DOMAIN Anchors[p[k]] : k \in Stored(p)} |->
     LET having == {k \in Stored(p) : h \in DOMAIN Anchors[p[k]]}
         first  == CHOOSE k \in having : \A j \in having : Rank(k) <= Rank(j)
     IN Anchors[p[first]][h]]

Nothing == [k \in Kind |-> None]
NoVotes == [s \in Set |-> 0]

Init ==
  /\ pool = Nothing
  /\ pin = Nothing
  /\ veritas = Merged(Nothing)
  /\ config \in Config
  /\ saved = Nothing
  /\ raced = {}
  /\ pc = [c \in Call |-> "idle"]
  /\ what = [c \in Call |-> "observed"]
  /\ id = [c \in Call |-> None]
  /\ asked = [c \in Call |-> config]
  /\ left = [c \in Call |-> <<>>]
  /\ votes = [c \in Call |-> NoVotes]
  /\ spent = 0

Spend == spent < Budget /\ spent' = spent + 1

KindOf(w) == IF w = "refresh" THEN "semi_trusted" ELSE w

(* A call is over, with whatever result; its locals go. *)
Return(c) ==
  /\ pc' = [pc EXCEPT ![c] = "idle"]
  /\ what' = [what EXCEPT ![c] = "observed"]
  /\ id' = [id EXCEPT ![c] = None]
  /\ asked' = [asked EXCEPT ![c] = config]
  /\ left' = [left EXCEPT ![c] = <<>>]
  /\ votes' = [votes EXCEPT ![c] = NoVotes]

-----------------------------------------------------------------------------
(* trust, semi_trust and observe: the user names the set, or it is the one  *)
(* most seeds serve, whichever that is.                                     *)
Update(c, k, s) ==
  /\ pc[c] = "idle"
  /\ pc' = [pc EXCEPT ![c] = "fetch"]
  /\ what' = [what EXCEPT ![c] = k]
  /\ id' = [id EXCEPT ![c] = s]
  /\ Spend
  /\ UNCHANGED <<pool, pin, veritas, config, saved, raced, asked, left, votes>>

(* refresh_semi_trusted works with a copy of the configuration. *)
Refresh(c) ==
  /\ pc[c] = "idle"
  /\ pc' = [pc EXCEPT ![c] = "ask"]
  /\ what' = [what EXCEPT ![c] = "refresh"]
  /\ asked' = [asked EXCEPT ![c] = config]
  /\ left' = [left EXCEPT ![c] = config.relays]
  /\ Spend
  /\ UNCHANGED <<pool, pin, veritas, config, saved, raced, id, votes>>

(* fetch_signed_anchor_head verifies against the pinned key. *)
Vote(c, s) ==
  /\ pc[c] = "ask" /\ left[c] # <<>>
  /\ Head(left[c]) \in Honest => s \in Real
  /\ left' = [left EXCEPT ![c] = Tail(@)]
  /\ votes' = [votes EXCEPT ![c][s] = @ + 1]
  /\ UNCHANGED <<pool, pin, veritas, config, saved, raced, spent, pc, what, id, asked>>

(* The relay is down, or its head not signed with the key. *)
NoVote(c) ==
  /\ pc[c] = "ask" /\ left[c] # <<>>
  /\ left' = [left EXCEPT ![c] = Tail(@)]
  /\ UNCHANGED <<pool, pin, veritas, config, saved, raced, spent, pc, what, id, asked,
                 votes>>

Needed(quorum, total) ==
  CASE quorum.policy = "All"      -> total
    [] quorum.policy = "AtLeast"  -> quorum.n
    [] quorum.policy = "Majority" -> total \div 2 + 1

(* Faulty: the quorum is one of the relays that answered. *)
FaultyRequired(c) == Needed(asked[c].quorum, FoldFunction(+, 0, votes[c]))

(* Quorum::required, of the size of the pool. *)
Required(c) == Needed(asked[c].quorum, Len(asked[c].relays))

(* Roots most relays agree on; the height breaks ties: which is left open. *)
Winners(c) ==
  {s \in Set : votes[c][s] > 0 /\ \A t \in Set : votes[c][t] <= votes[c][s]}

QuorumMet(c) ==
  /\ pc[c] = "ask" /\ left[c] = <<>>
  /\ \E s \in Winners(c) :
       /\ votes[c][s] >= Required(c)
       /\ id' = [id EXCEPT ![c] = s]
  /\ pc' = [pc EXCEPT ![c] = "fetch"]
  /\ votes' = [votes EXCEPT ![c] = NoVotes]
  /\ UNCHANGED <<pool, pin, veritas, config, saved, raced, spent, what, asked, left>>

(* Faulty: a round without a quorum goes on to fetch. *)
FaultyNoQuorum(c) ==
  /\ pc[c] = "ask" /\ left[c] = <<>>
  /\ \A s \in Winners(c) : votes[c][s] < Required(c)
  /\ pc' = [pc EXCEPT ![c] = "fetch"]
  /\ UNCHANGED <<pool, pin, veritas, config, saved, raced, spent, what, id, asked, left,
                 votes>>

(* The anchor in effect is kept. *)
NoQuorum(c) ==
  /\ pc[c] = "ask" /\ left[c] = <<>>
  /\ \A s \in Winners(c) : votes[c][s] < Required(c)
  /\ Return(c)
  /\ UNCHANGED <<pool, pin, veritas, config, saved, raced, spent>>

-----------------------------------------------------------------------------
(* The end of update_anchors, and apply_semi_trusted. *)

(* No relay that was asked serves the set. *)
FetchFails(c) ==
  /\ pc[c] = "fetch"
  /\ Return(c)
  /\ UNCHANGED <<pool, pin, veritas, config, saved, raced, spent>>

Pinning(k) == \E c \in Call : pc[c] = "pin" /\ KindOf(what[c]) = k

(* Faulty: Veritas is rebuilt before the anchors are stored. *)
FaultyStore(k, s) ==
  /\ pool' = [pool EXCEPT ![k] = s]
  /\ veritas' = Merged(pool)
  /\ raced' = IF Pinning(k) THEN raced \cup {k} ELSE raced

(* Under the lock: the anchors are stored and Veritas is rebuilt. *)
Store(k, s) ==
  /\ pool' = [pool EXCEPT ![k] = s]
  /\ veritas' = Merged(pool')
  /\ raced' = IF Pinning(k) THEN raced \cup {k} ELSE raced

(* The set has come and matches the id. *)
StoreFetched(c) ==
  /\ pc[c] = "fetch"
  /\ Store(KindOf(what[c]), id[c])
  /\ pc' = [pc EXCEPT ![c] = "pin"]
  /\ UNCHANGED <<pin, config, saved, spent, what, id, asked, left, votes>>

(* Faulty: what the semi-trusted relays agree on is pinned as trusted. *)
FaultySetPin(c) ==
  /\ pc[c] = "pin"
  /\ pin' = [pin EXCEPT ![IF what[c] = "refresh" THEN "trusted" ELSE what[c]] = id[c]]
  /\ Return(c)
  /\ UNCHANGED <<pool, veritas, config, saved, raced, spent>>

(* The lock released, the pin is set. *)
SetPin(c) ==
  /\ pc[c] = "pin"
  /\ pin' = [pin EXCEPT ![KindOf(what[c])] = id[c]]
  /\ Return(c)
  /\ UNCHANGED <<pool, veritas, config, saved, raced, spent>>

(* trust_from_set sets the pin under the lock. *)
TrustFromSet(s) ==
  /\ Store("trusted", s)
  /\ pin' = [pin EXCEPT !["trusted"] = s]
  /\ Spend
  /\ UNCHANGED <<config, saved, callVars>>

(* clear_trusted and clear_semi_trusted: only the pin is cleared. *)
Clear(k) ==
  /\ k # "observed"
  /\ pin[k] # None
  /\ pin' = [pin EXCEPT ![k] = None]
  /\ Spend
  /\ UNCHANGED <<pool, veritas, config, saved, raced, callVars>>

(* set_semi_trusted_pool. *)
SetPool(g) ==
  /\ g # config
  /\ config' = g
  /\ Spend
  /\ UNCHANGED <<pool, pin, veritas, saved, raced, callVars>>

(* save_state, under the lock. *)
Save ==
  /\ saved # pool
  /\ saved' = pool
  /\ UNCHANGED <<pool, pin, veritas, config, raced, spent, callVars>>

(* The application starts anew, from what it saved: the pins are computed   *)
(* from the anchors.                                                        *)
Restore ==
  /\ pool' = saved
  /\ pin' = saved
  /\ veritas' = Merged(saved)
  /\ config' \in Config
  /\ raced' = {}
  /\ pc' = [c \in Call |-> "idle"]
  /\ what' = [c \in Call |-> "observed"]
  /\ id' = [c \in Call |-> None]
  /\ asked' = [c \in Call |-> config']
  /\ left' = [c \in Call |-> <<>>]
  /\ votes' = [c \in Call |-> NoVotes]
  /\ Spend
  /\ UNCHANGED saved

Step(c) ==
  \/ \E k \in Kind, s \in Set : Update(c, k, s)
  \/ Refresh(c)
  \/ \E s \in Set : Vote(c, s)
  \/ NoVote(c)
  \/ QuorumMet(c)
  \/ NoQuorum(c)
  \/ FetchFails(c)
  \/ StoreFetched(c)
  \/ SetPin(c)

Next ==
  \/ \E c \in Call : Step(c)
  \/ \E s \in Set : TrustFromSet(s)
  \/ \E k \in Kind : Clear(k)
  \/ \E g \in Config : SetPool(g)
  \/ Save
  \/ Restore

Spec == Init /\ [][Next]_vars

-----------------------------------------------------------------------------
(* Properties. *)

(* At a height where the user's trusted set has a root, answers are         *)
(* verified with that root, never with one peers serve, in whatever order   *)
(* calls end and across restarts (client.rs:133-144).                       *)
TrustedWins ==
  pool["trusted"] # None =>
    \A h \in DOMAIN Anchors[pool["trusted"]] :
      h \in DOMAIN veritas /\ veritas[h] = Anchors[pool["trusted"]][h]

(* A pin is the set whose anchors verify answers: the badge, which looks at *)
(* the pin, and Veritas speak of the same roots, and a restart, which takes *)
(* the pin from the anchors, does not change it.  This holds unless two     *)
(* calls for one kind were between storing and pinning at once, which the   *)
(* lock does not exclude (client.rs:666-683).                               *)
PinnedIsStored ==
  \A k \in Kind \ raced : pin[k] # None /\ ~Pinning(k) => pin[k] = pool[k]

(* How many of the relays are dishonest: one named twice counts twice. *)
Dishonest(relays) == Cardinality({i \in DOMAIN relays : relays[i] \notin Honest})

(* Fewer dishonest relays than the quorum asks for cannot have a root of    *)
(* theirs pinned, whether the honest ones are down, disagree about the tip, *)
(* or the pool is swapped during the vote (client.rs:575-582).              *)
MinorityCannotPin ==
  [][\A c \in Call :
       /\ SetPin(c) /\ what[c] = "refresh"
       /\ Dishonest(asked[c].relays) < Needed(asked[c].quorum, Len(asked[c].relays))
       => pin'["semi_trusted"] \in Real]_vars
=============================================================================
