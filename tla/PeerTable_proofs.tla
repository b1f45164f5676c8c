--------------------------- MODULE PeerTable_proofs ---------------------------
(***************************************************************************)
(* Proofs about PeerTable: the bounds of the table and who answers for its *)
(* entries, for any URLs, addresses, capacities and announcements.         *)
(***************************************************************************)
EXTENDS PeerTable, FiniteSetTheorems, TLAPS

(* The inductive invariant. *)
Sound == TypeOK /\ TableBounded /\ AnnouncedBacked

UrlOrNone == Url \cup {None}

(* Tables are restricted to some of their URLs, and extended by one. *)
LEMMA TableOps ==
  ASSUME NEW D, NEW E, NEW t \in [D -> E], NEW S \in SUBSET D, NEW u, NEW e \in E
  PROVE  /\ Restrict(t, S) \in [S -> E]
         /\ Put(t, u, e) \in [D \cup {u} -> E]
         /\ \A gone : Without(t, gone) \in [D \ gone -> E]
  BY DEF Restrict, Put, Without

(* Any URLs are finitely many. *)
LEMMA UrlsFinite ==
  \A D : D \subseteq Url => IsFiniteSet(D) /\ Cardinality(D) \in Nat
  BY PeerTableAssumption, FS_Subset, FS_CardinalityType

(* Fewer URLs do not count more. *)
LEMMA Fewer ==
  ASSUME NEW D \in SUBSET Url, NEW C \in SUBSET D
  PROVE  Cardinality(C) <= Cardinality(D)
  BY UrlsFinite, FS_Subset

(* What eviction leaves: no more than the capacity, and everything when     *)
(* the capacity was not exceeded.                                           *)
LEMMA SurvivorsBounded ==
  ASSUME NEW t, DOMAIN t \subseteq Url, NEW max \in Nat, NEW fresh,
         NEW left \in Survivors(t, max, fresh)
  PROVE  /\ left \subseteq DOMAIN t
         /\ Cardinality(left) <= max
         /\ Cardinality(DOMAIN t) <= max => left = DOMAIN t
<1>1. /\ left \subseteq DOMAIN t
      /\ Cardinality(left) = IF Cardinality(DOMAIN t) <= max
                               THEN Cardinality(DOMAIN t) ELSE max
  BY DEF Survivors
<1>2. IsFiniteSet(DOMAIN t) /\ Cardinality(DOMAIN t) \in Nat
  BY UrlsFinite
<1>3. Cardinality(DOMAIN t) = Cardinality(left) => DOMAIN t = left
  BY <1>1, <1>2, FS_Subset
<1> QED
  BY <1>1, <1>2, <1>3

(* Two tables within their capacities are within both. *)
LEMMA BothBounded ==
  ASSUME NEW D \in SUBSET Url, NEW E \in SUBSET Url,
         Cardinality(D) <= MaxUnverified, Cardinality(E) <= MaxVerified
  PROVE  Cardinality(D \cup E) <= MaxUnverified + MaxVerified
<1>1. Cardinality(D \cup E) = Cardinality(D) + Cardinality(E) - Cardinality(D \cap E)
  BY UrlsFinite, FS_Union
<1>2. /\ Cardinality(D) \in Nat /\ Cardinality(E) \in Nat
      /\ Cardinality(D \cap E) \in Nat
  BY UrlsFinite
<1>3. MaxUnverified \in Nat /\ MaxVerified \in Nat
  BY PeerTableAssumption
<1> QED
  BY <1>1, <1>2, <1>3

(* A step that brings no URL into the table keeps the bounds. *)
LEMMA NothingNew ==
  ASSUME TypeOK, TableBounded, TypeOK',
         DOMAIN unverified' \cup DOMAIN verified' \subseteq
           DOMAIN unverified \cup DOMAIN verified,
         Cardinality(DOMAIN verified') <= MaxVerified
  PROVE  TableBounded'
<1> DEFINE Old == DOMAIN unverified \cup DOMAIN verified
           New == DOMAIN unverified' \cup DOMAIN verified'
<1>1. Old \subseteq Url /\ New \subseteq Old
  BY DEF TypeOK, Tables
<1>2. Cardinality(New) <= Cardinality(Old)
  BY <1>1, Fewer
<1>3. Cardinality(New) \in Nat /\ Cardinality(Old) \in Nat
  BY <1>1, UrlsFinite
<1>4. MaxUnverified + MaxVerified \in Nat
  BY PeerTableAssumption
<1> QED
  BY <1>2, <1>3, <1>4 DEF TableBounded

(* Verified URLs that are fewer, or the same, are within the capacity. *)
LEMMA FewerVerified ==
  ASSUME TypeOK, TableBounded, NEW E \in SUBSET DOMAIN verified
  PROVE  Cardinality(E) <= MaxVerified
<1>1. DOMAIN verified \subseteq Url /\ E \subseteq Url
  BY DEF TypeOK, Tables
<1>2. Cardinality(E) <= Cardinality(DOMAIN verified)
  BY <1>1, Fewer
<1>3. Cardinality(E) \in Nat /\ Cardinality(DOMAIN verified) \in Nat /\ MaxVerified \in Nat
  BY <1>1, UrlsFinite, PeerTableAssumption
<1> QED
  BY <1>2, <1>3 DEF TableBounded

(* Giving back the slots of URLs that have gone. *)
LEMMA SlotsKept ==
  ASSUME NEW s \in [Ip -> UrlOrNone], NEW gone
  PROVE  /\ SlotsWithout(s, gone) \in [Ip -> UrlOrNone]
         /\ \A w : \A i \in Ip : s[i] = w /\ w \notin gone => SlotsWithout(s, gone)[i] = w
  BY DEF SlotsWithout, UrlOrNone

-----------------------------------------------------------------------------
(* Every entry, slot and count as its type says, from the parts of a step. *)
LEMMA TypeFrom ==
  ASSUME NEW D \in SUBSET Url, unverified' \in [D -> Waiting],
         NEW E \in SUBSET Url, verified' \in [E -> Trusted],
         slots' \in [Ip -> UrlOrNone], checks' \subseteq Url, pulls' \subseteq Url,
         announced' \subseteq D
  PROVE  TypeOK' /\ DOMAIN unverified' = D /\ DOMAIN verified' = E
  BY DEF TypeOK, Tables, UrlOrNone

(* What the types say of the tables. *)
LEMMA TypeGives ==
  ASSUME TypeOK
  PROVE  /\ DOMAIN unverified \subseteq Url /\ unverified \in [DOMAIN unverified -> Waiting]
         /\ DOMAIN verified \subseteq Url /\ verified \in [DOMAIN verified -> Trusted]
         /\ slots \in [Ip -> UrlOrNone] /\ checks \subseteq Url /\ pulls \subseteq Url
         /\ announced \subseteq DOMAIN unverified
  BY DEF TypeOK, Tables, UrlOrNone

(* A new entry, a promoted one. *)
LEMMA NewEntries ==
  /\ [seen |-> 0, added |-> 0] \in Waiting
  /\ [seen |-> 0, fails |-> 0] \in Trusted
  /\ \A e \in Trusted : [seen |-> 0, fails |-> e.fails] \in Trusted
  /\ \A e \in Trusted : [seen |-> e.seen, added |-> 0] \in Waiting
  BY PeerTableAssumption DEF Waiting, Trusted, Age

(* An announced URL is inserted or renewed, others may be evicted: who is    *)
(* left is within the capacity, and backed if it was.                       *)
LEMMA UpsertKeeps ==
  ASSUME Sound, NEW u \in Url, NEW gone, NEW owners \in [Ip -> UrlOrNone],
         NEW claimed \in SUBSET {u},
         \A w \in announced \cup claimed :
           w \in gone \ {u} \/ \E i \in Ip : owners[i] = w,
         Upsert(u, gone, owners, claimed), UNCHANGED <<verified, checks, pulls>>
  PROVE  Sound'
<1> DEFINE grown == Put(Without(unverified, gone), u, [seen |-> 0, added |-> 0])
           all   == (DOMAIN unverified \ gone) \cup {u}
<1>1. TypeOK /\ TableBounded /\ AnnouncedBacked
  BY DEF Sound
<1>2. grown \in [all -> Waiting] /\ DOMAIN grown = all
  <2>1. Without(unverified, gone) \in [DOMAIN unverified \ gone -> Waiting]
    BY <1>1, TypeGives DEF Without, Restrict
  <2> QED
    BY <2>1, NewEntries DEF Put
<1>3. all \subseteq Url
  BY <1>1, TypeGives
<1> HIDE DEF grown, all
<1>4. PICK left \in Survivors(grown, MaxUnverified, {u}) :
        /\ unverified' = Restrict(grown, left)
        /\ slots' = SlotsWithout(owners, DOMAIN grown \ left)
        /\ announced' = (announced \cup claimed) \cap left
  BY DEF Upsert, grown
<1>5. left \subseteq all /\ Cardinality(left) <= MaxUnverified
  BY <1>2, <1>3, SurvivorsBounded, PeerTableAssumption
<1>6. unverified' \in [left -> Waiting]
  BY <1>2, <1>4, <1>5 DEF Restrict
<1>7. slots' \in [Ip -> UrlOrNone]
  BY <1>4, SlotsKept
<1>8. TypeOK' /\ DOMAIN unverified' = left /\ DOMAIN verified' = DOMAIN verified
  <2>1. left \subseteq Url /\ announced' \subseteq left
    BY <1>3, <1>4, <1>5
  <2>2. verified' \in [DOMAIN verified -> Trusted] /\ DOMAIN verified \subseteq Url
    BY <1>1, TypeGives
  <2>3. checks' \subseteq Url /\ pulls' \subseteq Url
    BY <1>1, TypeGives
  <2> QED
    BY <2>1, <2>2, <2>3, <1>6, <1>7, TypeFrom
<1>9. TableBounded'
  <2>1. Cardinality(DOMAIN verified) <= MaxVerified
    BY <1>1 DEF TableBounded
  <2>2. Cardinality(left \cup DOMAIN verified) <= MaxUnverified + MaxVerified
    BY <2>1, <1>1, <1>3, <1>5, TypeGives, BothBounded
  <2> QED
    BY <2>1, <2>2, <1>8 DEF TableBounded
<1>10. AnnouncedBacked'
  <2> SUFFICES ASSUME NEW w \in announced' PROVE \E i \in Ip : slots'[i] = w
    BY DEF AnnouncedBacked
  <2>1. w \in left /\ w \in announced \cup claimed
    BY <1>4
  <2>2. w \notin gone \ {u}
    BY <2>1, <1>5 DEF all
  <2>3. PICK i \in Ip : owners[i] = w
    BY <2>1, <2>2
  <2> QED
    BY <2>1, <2>3, <1>4, SlotsKept
<1> QED
  BY <1>8, <1>9, <1>10 DEF Sound

(* announce. *)
LEMMA AnnounceKeeps ==
  ASSUME Sound, NEW u \in Url, Announce(u)
  PROVE  Sound'
<1>1. TypeOK /\ TableBounded /\ AnnouncedBacked
  BY DEF Sound
<1>2. CASE AnnounceVerified(u)
  <2>1. /\ u \in DOMAIN verified /\ verified' = [verified EXCEPT ![u].seen = 0]
        /\ UNCHANGED <<unverified, slots, announced, checks, pulls>>
    BY <1>2 DEF AnnounceVerified, Live
  <2>2. verified' \in [DOMAIN verified -> Trusted]
    <3>1. verified \in [DOMAIN verified -> Trusted] /\ 0 \in Age
      BY <1>1, TypeGives, PeerTableAssumption DEF Age
    <3> QED
      BY <2>1, <3>1 DEF Trusted
  <2>3. TypeOK' /\ DOMAIN unverified' = DOMAIN unverified
        /\ DOMAIN verified' = DOMAIN verified
    BY <2>1, <2>2, <1>1, TypeGives, TypeFrom
  <2> QED
    BY <2>1, <2>3, <1>1 DEF Sound, TableBounded, AnnouncedBacked
<1>3. CASE AnnounceUnattributed(u)
  <2>1. \A w \in announced \cup {} : \E i \in Ip : slots[i] = w
    BY <1>1 DEF AnnouncedBacked
  <2>2. slots \in [Ip -> UrlOrNone]
    BY <1>1, TypeGives
  <2> QED
    BY <1>3, <2>1, <2>2, UpsertKeeps DEF AnnounceUnattributed
<1>4. ASSUME NEW i \in Ip, AnnounceFrom(u, i) PROVE Sound'
  <2> DEFINE owners == [slots EXCEPT ![i] = u]
             gone   == Superseded(i, u)
  <2>1. slots \in [Ip -> UrlOrNone] /\ announced \subseteq Url
    BY <1>1, TypeGives
  <2>2. owners \in [Ip -> UrlOrNone]
    BY <2>1 DEF UrlOrNone
  <2>3. ASSUME NEW w \in announced \cup {u}, w \notin gone \ {u}
        PROVE  \E j \in Ip : owners[j] = w
    <3>1. CASE w = u
      BY <3>1, <2>1
    <3>2. CASE w # u
      <4>1. PICK k \in Ip : slots[k] = w
        BY <2>3, <3>2, <1>1 DEF AnnouncedBacked
      <4>2. CASE k # i
        BY <4>1, <4>2, <2>1
      <4>3. CASE k = i
        <5>1. PICK j \in Ip \ {i} : slots[j] = w
          BY <2>1, <2>3, <3>2, <4>1, <4>3 DEF Superseded
        <5> QED
          BY <5>1, <2>1
      <4> QED
        BY <4>2, <4>3
    <3> QED
      BY <3>1, <3>2
  <2>4. Upsert(u, gone, owners, {u}) /\ UNCHANGED <<verified, checks, pulls>>
    BY <1>4 DEF AnnounceFrom
  <2> HIDE DEF owners, gone
  <2> QED
    BY <2>2, <2>3, <2>4, UpsertKeeps
<1> QED
  BY <1>2, <1>3, <1>4 DEF Announce

(* A health check or a pull reports that u is alive. *)
LEMMA AliveKeeps ==
  ASSUME Sound, NEW u \in Url, NEW forgiven \in BOOLEAN, Alive(u, forgiven),
         checks' \subseteq checks, pulls' \subseteq pulls
  PROVE  Sound'
<1>1. TypeOK /\ TableBounded /\ AnnouncedBacked
  BY DEF Sound
<1>2. checks' \subseteq Url /\ pulls' \subseteq Url
  BY <1>1, TypeGives
<1>3. CASE Refresh(u, forgiven)
  <2> DEFINE e == [seen |-> 0, fails |-> IF forgiven THEN 0 ELSE verified[u].fails]
  <2>1. /\ u \in DOMAIN verified /\ verified' = [verified EXCEPT ![u] = e]
        /\ UNCHANGED <<unverified, slots, announced>>
    BY <1>3 DEF Refresh
  <2>2. e \in Trusted
    <3>1. verified[u] \in Trusted
      BY <2>1, <1>1, TypeGives
    <3> QED
      BY <3>1, NewEntries
  <2> HIDE DEF e
  <2>3. verified' \in [DOMAIN verified -> Trusted]
    BY <2>1, <2>2, <1>1, TypeGives
  <2>4. TypeOK' /\ DOMAIN unverified' = DOMAIN unverified
        /\ DOMAIN verified' = DOMAIN verified
    BY <2>1, <2>3, <1>1, <1>2, TypeGives, TypeFrom
  <2> QED
    BY <2>1, <2>4, <1>1 DEF Sound, TableBounded, AnnouncedBacked
<1>4. CASE Promote(u)
  <2> DEFINE grown == Put(verified, u, [seen |-> 0, fails |-> 0])
             all   == DOMAIN verified \cup {u}
             rest  == DOMAIN unverified \ {u}
  <2>1. /\ u \in DOMAIN unverified
        /\ unverified' = Without(unverified, {u})
        /\ slots' = SlotsWithout(slots, {u})
        /\ announced' = announced \ {u}
    BY <1>4 DEF Promote
  <2>2. PICK left \in Survivors(grown, MaxVerified, {u}) : verified' = Restrict(grown, left)
    BY <1>4 DEF Promote
  <2>3. grown \in [all -> Trusted] /\ DOMAIN grown = all /\ all \subseteq Url
    BY <1>1, TypeGives, NewEntries DEF Put
  <2>4. unverified' \in [rest -> Waiting] /\ rest \subseteq Url
    BY <2>1, <1>1, TypeGives DEF Without, Restrict
  <2>5. slots \in [Ip -> UrlOrNone] /\ slots' \in [Ip -> UrlOrNone]
    BY <2>1, <1>1, TypeGives, SlotsKept
  <2> HIDE DEF grown, all, rest
  <2>6. left \subseteq all /\ Cardinality(left) <= MaxVerified
    BY <2>3, SurvivorsBounded, PeerTableAssumption
  <2>7. verified' \in [left -> Trusted] /\ left \subseteq Url
    BY <2>2, <2>3, <2>6 DEF Restrict
  <2>8. announced' \subseteq rest
    BY <2>1, <1>1, TypeGives DEF rest
  <2>9. TypeOK' /\ DOMAIN unverified' = rest /\ DOMAIN verified' = left
    BY <2>4, <2>5, <2>7, <2>8, <1>2, TypeFrom
  <2>10. TableBounded'
    <3>1. rest \cup left \subseteq DOMAIN unverified \cup DOMAIN verified
      BY <2>1, <2>6 DEF rest, all
    <3> QED
      BY <3>1, <2>6, <2>9, <1>1, NothingNew
  <2>11. AnnouncedBacked'
    BY <2>1, <2>5, <1>1, SlotsKept DEF AnnouncedBacked
  <2> QED
    BY <2>9, <2>10, <2>11 DEF Sound
<1>5. CASE Ignore(u)
  <2>1. UNCHANGED <<unverified, verified, slots, announced>>
    BY <1>5 DEF Ignore, table
  <2>2. TypeOK' /\ DOMAIN unverified' = DOMAIN unverified
        /\ DOMAIN verified' = DOMAIN verified
    BY <2>1, <1>1, <1>2, TypeGives, TypeFrom
  <2> QED
    BY <2>1, <2>2, <1>1 DEF Sound, TableBounded, AnnouncedBacked
<1> QED
  BY <1>3, <1>4, <1>5 DEF Alive

(* A step that leaves the table alone. *)
LEMMA SameTable ==
  ASSUME Sound, UNCHANGED <<unverified, verified, slots, announced>>,
         checks' \subseteq Url, pulls' \subseteq Url
  PROVE  Sound'
<1>1. TypeOK /\ TableBounded /\ AnnouncedBacked
  BY DEF Sound
<1>2. TypeOK'
  BY <1>1, TypeGives, TypeFrom
<1> QED
  BY <1>1, <1>2 DEF Sound, TableBounded, AnnouncedBacked

(* The results of health checks. *)
LEMMA CheckKeeps ==
  ASSUME Sound, NEW u \in Url, Check(u)
  PROVE  Sound'
<1>1. TypeOK /\ TableBounded /\ AnnouncedBacked
  BY DEF Sound
<1>2. CASE CheckSucceeded(u)
  BY <1>2, AliveKeeps DEF CheckSucceeded
<1>3. CASE CheckFailed(u)
  BY <1>1, <1>3, TypeGives, SameTable DEF CheckFailed, table
<1>4. CASE CheckRefused(u)
  <2> DEFINE U == DOMAIN unverified \ {u}
             V == DOMAIN verified \ {u}
  <2>1. /\ checks' \subseteq checks /\ pulls' = pulls
        /\ unverified' = Without(unverified, {u}) /\ verified' = Without(verified, {u})
        /\ slots' = SlotsWithout(slots, {u}) /\ announced' = announced \ {u}
    BY <1>4 DEF CheckRefused
  <2>2. unverified' \in [U -> Waiting] /\ verified' \in [V -> Trusted]
    BY <2>1, <1>1, TypeGives DEF Without, Restrict
  <2>3. slots \in [Ip -> UrlOrNone] /\ slots' \in [Ip -> UrlOrNone]
    BY <2>1, <1>1, TypeGives, SlotsKept
  <2>4. TypeOK' /\ DOMAIN unverified' = U /\ DOMAIN verified' = V
    <3>1. U \subseteq Url /\ V \subseteq Url /\ announced' \subseteq U
          /\ checks' \subseteq Url /\ pulls' \subseteq Url
      BY <2>1, <1>1, TypeGives
    <3> HIDE DEF U, V
    <3> QED
      BY <3>1, <2>2, <2>3, TypeFrom
  <2>5. TableBounded'
    <3>1. V \subseteq DOMAIN verified /\ U \cup V \subseteq DOMAIN unverified \cup DOMAIN verified
      OBVIOUS
    <3> HIDE DEF U, V
    <3> QED
      BY <3>1, <2>4, <1>1, FewerVerified, NothingNew
  <2>6. AnnouncedBacked'
    BY <2>1, <2>3, <1>1, SlotsKept DEF AnnouncedBacked
  <2> QED
    BY <2>4, <2>5, <2>6 DEF Sound
<1> QED
  BY <1>2, <1>3, <1>4 DEF Check

(* The results of pulls: record_sync_failure brings no URL into the table. *)
LEMMA PullKeeps ==
  ASSUME Sound, NEW u \in Url, Pull(u)
  PROVE  Sound'
<1>1. TypeOK /\ TableBounded /\ AnnouncedBacked
  BY DEF Sound
<1>2. CASE PullSucceeded(u)
  BY <1>2, AliveKeeps DEF PullSucceeded
<1>3. CASE PullFailed(u)
  <2>1. pulls' \subseteq pulls /\ checks' = checks
    BY <1>3 DEF PullFailed
  <2>2. pulls' \subseteq Url /\ checks' \subseteq Url
    BY <2>1, <1>1, TypeGives
  <2>3. CASE FailWaiting(u)
    <3>1. /\ u \in DOMAIN unverified /\ unverified' = [unverified EXCEPT ![u].seen = 0]
          /\ UNCHANGED <<verified, slots, announced>>
      BY <2>3 DEF FailWaiting
    <3>2. unverified \in [DOMAIN unverified -> Waiting] /\ 0 \in Age
      BY <1>1, TypeGives, PeerTableAssumption DEF Age
    <3>3. unverified' \in [DOMAIN unverified -> Waiting]
      BY <3>1, <3>2 DEF Waiting
    <3>4. TypeOK' /\ DOMAIN unverified' = DOMAIN unverified
          /\ DOMAIN verified' = DOMAIN verified
      BY <3>1, <3>3, <2>2, <1>1, TypeGives, TypeFrom
    <3> QED
      BY <3>1, <3>4, <1>1 DEF Sound, TableBounded, AnnouncedBacked
  <2>4. CASE FailCounted(u)
    <3>1. /\ u \in DOMAIN verified /\ verified[u].fails + 1 < Strikes
          /\ verified' = [verified EXCEPT ![u].fails = verified[u].fails + 1]
          /\ UNCHANGED <<unverified, slots, announced>>
      BY <2>4 DEF FailCounted
    <3>2. verified \in [DOMAIN verified -> Trusted]
      BY <1>1, TypeGives
    <3>3. verified[u].fails + 1 \in 0..(Strikes - 1)
      <4>1. verified[u].fails \in 0..(Strikes - 1)
        BY <3>1, <3>2 DEF Trusted
      <4> QED
        BY <3>1, <4>1, PeerTableAssumption
    <3>4. verified' \in [DOMAIN verified -> Trusted]
      BY <3>1, <3>2, <3>3 DEF Trusted
    <3>5. TypeOK' /\ DOMAIN unverified' = DOMAIN unverified
          /\ DOMAIN verified' = DOMAIN verified
      BY <3>1, <3>4, <2>2, <1>1, TypeGives, TypeFrom
    <3> QED
      BY <3>1, <3>5, <1>1 DEF Sound, TableBounded, AnnouncedBacked
  <2>5. CASE FailDemoted(u)
    <3> DEFINE U == DOMAIN unverified \cup {u}
               V == DOMAIN verified \ {u}
    <3>1. /\ u \in DOMAIN verified /\ verified' = Without(verified, {u})
          /\ unverified' = Put(unverified, u, [seen |-> 0, added |-> 0])
          /\ UNCHANGED <<slots, announced>>
      BY <2>5 DEF FailDemoted
    <3>2. unverified' \in [U -> Waiting] /\ verified' \in [V -> Trusted]
      BY <3>1, <1>1, TypeGives, NewEntries DEF Without, Restrict, Put
    <3>3. U \subseteq Url /\ V \subseteq Url /\ announced' \subseteq U
          /\ V \subseteq DOMAIN verified
          /\ U \cup V \subseteq DOMAIN unverified \cup DOMAIN verified
      BY <3>1, <1>1, TypeGives
    <3> HIDE DEF U, V
    <3>4. TypeOK' /\ DOMAIN unverified' = U /\ DOMAIN verified' = V
      BY <3>1, <3>2, <3>3, <2>2, <1>1, TypeGives, TypeFrom
    <3>5. TableBounded'
      BY <3>3, <3>4, <1>1, FewerVerified, NothingNew
    <3> QED
      BY <3>1, <3>4, <3>5, <1>1 DEF Sound, AnnouncedBacked
  <2>6. CASE Ignore(u)
    BY <2>2, <2>6, SameTable DEF Ignore, table
  <2> QED
    BY <1>3, <2>3, <2>4, <2>5, <2>6 DEF PullFailed
<1> QED
  BY <1>2, <1>3 DEF Pull

(* ensure_seed leaves the table as it was, or within its capacity. *)
LEMMA SeededGives ==
  ASSUME TypeOK, NEW U \in Seeded(unverified, verified)
  PROVE  /\ DOMAIN U \subseteq Url /\ U \in [DOMAIN U -> Waiting]
         /\ U = unverified \/ Cardinality(DOMAIN U) <= MaxUnverified
<1> DEFINE missing == Seeds \ ({Self} \cup DOMAIN verified \cup DOMAIN unverified)
           all     == DOMAIN unverified \cup missing
           grown   == [x \in all |-> IF x \in DOMAIN unverified THEN unverified[x]
                                     ELSE [seen |-> 0, added |-> 0]]
<1>1. grown \in [all -> Waiting] /\ DOMAIN grown = all
  BY TypeGives, NewEntries
<1>2. all \subseteq Url
  BY TypeGives, PeerTableAssumption
<1>3. \/ U = unverified
      \/ \E left \in Survivors(grown, MaxUnverified, missing) : U = Restrict(grown, left)
  BY DEF Seeded
<1> HIDE DEF missing, all, grown
<1>4. CASE U = unverified
  BY <1>4, TypeGives
<1>5. ASSUME NEW left \in Survivors(grown, MaxUnverified, missing),
             U = Restrict(grown, left)
      PROVE  /\ DOMAIN U \subseteq Url /\ U \in [DOMAIN U -> Waiting]
             /\ Cardinality(DOMAIN U) <= MaxUnverified
  <2>1. left \subseteq all /\ Cardinality(left) <= MaxUnverified
    BY <1>1, <1>2, SurvivorsBounded, PeerTableAssumption
  <2>2. U \in [left -> Waiting] /\ DOMAIN U = left
    BY <1>1, <1>5, <2>1 DEF Restrict
  <2> QED
    BY <1>2, <2>1, <2>2
<1> QED
  BY <1>3, <1>4, <1>5

(* A tick of the maintenance loop. *)
LEMMA MaintainKeeps ==
  ASSUME Sound, Maintain
  PROVE  Sound'
<1>1. TypeOK /\ TableBounded /\ AnnouncedBacked
  BY DEF Sound
<1>2. PICK U \in Seeded(unverified, verified) :
        LET V       == Without(verified, Stale(verified))
            W       == Unexpired(Demoted(U, verified))
            evicted == DOMAIN unverified \ DOMAIN U
            unknown == Url \ (DOMAIN W \cup DOMAIN V)
        IN /\ unverified' = W
           /\ verified' = V
           /\ slots' = SlotsWithout(slots, evicted \cup unknown)
           /\ announced' = announced \cap DOMAIN W \cap DOMAIN U
           /\ IF NeedsPeers(V)
                THEN \E picked \in Candidates(W) :
                       checks' = checks \cup RefreshDue(V) \cup picked
                ELSE checks' = checks \cup RefreshDue(V)
           /\ UNCHANGED pulls
  BY DEF Maintain
<1> DEFINE V       == Without(verified, Stale(verified))
           W       == Unexpired(Demoted(U, verified))
           evicted == DOMAIN unverified \ DOMAIN U
           unknown == Url \ (DOMAIN W \cup DOMAIN V)
<1>3. /\ DOMAIN U \subseteq Url /\ U \in [DOMAIN U -> Waiting]
      /\ U = unverified \/ Cardinality(DOMAIN U) <= MaxUnverified
  BY <1>1, SeededGives
<1>4. /\ V \in [DOMAIN V -> Trusted]
      /\ DOMAIN V = DOMAIN verified \ Stale(verified)
      /\ DOMAIN V \subseteq DOMAIN verified /\ DOMAIN V \subseteq Url
  BY <1>1, TypeGives DEF Without, Restrict
<1>5. Stale(verified) \subseteq DOMAIN verified
  BY DEF Stale
<1>6. /\ W \in [DOMAIN W -> Waiting]
      /\ DOMAIN W \subseteq DOMAIN U \cup Stale(verified)
  <2>1. verified \in [DOMAIN verified -> Trusted]
    BY <1>1, TypeGives
  <2>2. /\ Demoted(U, verified) \in [DOMAIN U \cup Stale(verified) -> Waiting]
        /\ DOMAIN Demoted(U, verified) = DOMAIN U \cup Stale(verified)
    BY <1>3, <1>5, <2>1, NewEntries DEF Demoted
  <2> QED
    BY <2>2 DEF Unexpired, Restrict
<1>7. DOMAIN W \subseteq Url
  BY <1>1, <1>3, <1>5, <1>6, TypeGives
<1>8. RefreshDue(V) \subseteq DOMAIN V /\ \A picked \in Candidates(W) : picked \subseteq DOMAIN W
  BY DEF RefreshDue, Candidates
<1> HIDE DEF V, W
<1>9. /\ unverified' = W /\ verified' = V
      /\ slots' = SlotsWithout(slots, evicted \cup unknown)
      /\ announced' = announced \cap DOMAIN W \cap DOMAIN U
      /\ pulls' = pulls /\ checks' \subseteq Url
  <2>1. /\ unverified' = W /\ verified' = V
        /\ slots' = SlotsWithout(slots, evicted \cup unknown)
        /\ announced' = announced \cap DOMAIN W \cap DOMAIN U
        /\ pulls' = pulls
        /\ \/ \E picked \in Candidates(W) : checks' = checks \cup RefreshDue(V) \cup picked
           \/ checks' = checks \cup RefreshDue(V)
    BY <1>2 DEF V, W
  <2> QED
    BY <2>1, <1>1, <1>4, <1>7, <1>8, TypeGives
<1>10. slots \in [Ip -> UrlOrNone] /\ slots' \in [Ip -> UrlOrNone]
  BY <1>1, <1>9, TypeGives, SlotsKept
<1>11. TypeOK' /\ DOMAIN unverified' = DOMAIN W /\ DOMAIN verified' = DOMAIN V
  <2>1. announced' \subseteq DOMAIN W /\ pulls' \subseteq Url
    BY <1>1, <1>9, TypeGives
  <2> QED
    BY <2>1, <1>4, <1>6, <1>7, <1>9, <1>10, TypeFrom
<1>12. TableBounded'
  <2>1. Cardinality(DOMAIN V) <= MaxVerified
    BY <1>1, <1>4, FewerVerified
  <2>2. CASE U = unverified
    <3>1. DOMAIN W \cup DOMAIN V \subseteq DOMAIN unverified \cup DOMAIN verified
      BY <1>4, <1>5, <1>6, <2>2
    <3> QED
      BY <3>1, <2>1, <1>1, <1>11, NothingNew
  <2>3. CASE Cardinality(DOMAIN U) <= MaxUnverified
    <3> DEFINE Both == DOMAIN U \cup DOMAIN verified
               Now  == DOMAIN W \cup DOMAIN V
    <3>1. DOMAIN verified \subseteq Url /\ Cardinality(DOMAIN verified) <= MaxVerified
      BY <1>1, TypeGives DEF TableBounded
    <3>2. Cardinality(Both) <= MaxUnverified + MaxVerified
      BY <3>1, <2>3, <1>3, BothBounded
    <3>3. Now \subseteq Both /\ Both \subseteq Url
      BY <3>1, <1>3, <1>4, <1>5, <1>6
    <3>4. Cardinality(Now) <= Cardinality(Both)
      BY <3>3, Fewer
    <3>5. Cardinality(Now) \in Nat /\ Cardinality(Both) \in Nat
          /\ MaxUnverified + MaxVerified \in Nat
      BY <3>3, UrlsFinite, PeerTableAssumption
    <3>6. Cardinality(Now) <= MaxUnverified + MaxVerified
      BY <3>2, <3>4, <3>5
    <3> QED
      BY <3>6, <2>1, <1>11 DEF TableBounded
  <2> QED
    BY <2>2, <2>3, <1>3
<1>13. AnnouncedBacked'
  <2> SUFFICES ASSUME NEW w \in announced' PROVE \E i \in Ip : slots'[i] = w
    BY DEF AnnouncedBacked
  <2>1. w \in announced /\ w \in DOMAIN W /\ w \in DOMAIN U
    BY <1>9
  <2>2. PICK i \in Ip : slots[i] = w
    BY <2>1, <1>1 DEF AnnouncedBacked
  <2> QED
    BY <2>1, <2>2, <1>9, <1>10, SlotsKept
<1> QED
  BY <1>11, <1>12, <1>13 DEF Sound

(* Time passes. *)
LEMMA PassKeeps ==
  ASSUME Sound, Pass
  PROVE  Sound'
<1>1. TypeOK /\ TableBounded /\ AnnouncedBacked
  BY DEF Sound
<1>2. \A n \in Age : Older(n) \in Age
  BY PeerTableAssumption DEF Age, Older
<1>3. unverified' \in [DOMAIN unverified -> Waiting]
  <2>1. unverified \in [DOMAIN unverified -> Waiting]
    BY <1>1, TypeGives
  <2>2. unverified' = [u \in DOMAIN unverified |->
          [seen |-> Older(unverified[u].seen), added |-> Older(unverified[u].added)]]
    BY DEF Pass
  <2> QED
    BY <2>1, <2>2, <1>2 DEF Waiting
<1>4. verified' \in [DOMAIN verified -> Trusted]
  <2>1. verified \in [DOMAIN verified -> Trusted]
    BY <1>1, TypeGives
  <2>2. verified' = [u \in DOMAIN verified |->
          [verified[u] EXCEPT !.seen = Older(verified[u].seen)]]
    BY DEF Pass
  <2> QED
    BY <2>1, <2>2, <1>2 DEF Trusted
<1>5. UNCHANGED <<slots, announced, checks, pulls>>
  BY DEF Pass
<1>6. TypeOK' /\ DOMAIN unverified' = DOMAIN unverified
      /\ DOMAIN verified' = DOMAIN verified
  BY <1>1, <1>3, <1>4, <1>5, TypeGives, TypeFrom
<1> QED
  BY <1>1, <1>5, <1>6 DEF Sound, TableBounded, AnnouncedBacked

(* An empty table is sound. *)
LEMMA EmptySound ==
  ASSUME unverified = Empty, verified = Empty, slots = [i \in Ip |-> None],
         checks = {}, pulls = {}, announced = {}
  PROVE  Sound
<1>1. DOMAIN unverified = {} /\ DOMAIN verified = {}
  BY DEF Empty
<1>2. TypeOK
  BY <1>1 DEF TypeOK, Tables, Empty
<1>3. TableBounded
  <2>1. Cardinality({}) = 0
    BY FS_EmptySet
  <2> QED
    BY <2>1, <1>1, PeerTableAssumption DEF TableBounded
<1> QED
  BY <1>2, <1>3 DEF Sound, AnnouncedBacked

(* Every step keeps the table sound: one case for each caller of it. *)
LEMMA SoundStep == Sound /\ [Next]_vars => Sound'
<1> SUFFICES ASSUME Sound, [Next]_vars PROVE Sound'
  OBVIOUS
<1>1. TypeOK
  BY DEF Sound
<1>2. ASSUME NEW u \in Url, Announce(u) PROVE Sound'
  BY <1>2, AnnounceKeeps
<1>3. ASSUME NEW u \in Url, Check(u) PROVE Sound'
  BY <1>3, CheckKeeps
<1>4. ASSUME NEW u \in Url, StartPull(u) PROVE Sound'
  BY <1>1, <1>4, TypeGives, SameTable DEF StartPull, table
<1>5. ASSUME NEW u \in Url, Pull(u) PROVE Sound'
  BY <1>5, PullKeeps
<1>6. CASE Maintain
  BY <1>6, MaintainKeeps
<1>7. CASE Pass
  BY <1>7, PassKeeps
<1>8. CASE Restart
  <2>1. /\ unverified' \in [{} -> Waiting] /\ verified' \in [{} -> Trusted]
        /\ slots' \in [Ip -> UrlOrNone]
        /\ checks' = {} /\ pulls' = {} /\ announced' = {}
    BY <1>8 DEF Restart, Empty, UrlOrNone
  <2>2. TypeOK' /\ DOMAIN unverified' = {} /\ DOMAIN verified' = {}
    BY <2>1, TypeFrom
  <2>3. TableBounded'
    <3>1. Cardinality({}) = 0 /\ {} \cup {} = {}
      BY FS_EmptySet
    <3> QED
      BY <3>1, <2>2, PeerTableAssumption DEF TableBounded
  <2> QED
    BY <2>1, <2>2, <2>3 DEF Sound, AnnouncedBacked
<1>9. CASE UNCHANGED vars
  BY <1>1, <1>9, TypeGives, SameTable DEF vars, table
<1> QED
  BY <1>2, <1>3, <1>4, <1>5, <1>6, <1>7, <1>8, <1>9 DEF Next

(* The table is sound whoever calls it, and when late checks and pulls      *)
(* report to a table that has changed.                                      *)
THEOREM TableIsSound == Spec => []Sound
<1>1. Init => Sound
  BY EmptySound DEF Init
<1> QED
  BY <1>1, SoundStep, PTL DEF Spec

(* Every entry, slot and pending report is of the kind its type says. *)
THEOREM TypeCorrect == Spec => []TypeOK
<1>1. Sound => TypeOK
  BY DEF Sound
<1> QED
  BY <1>1, TableIsSound, PTL

(* Both tables together never exceed both capacities. *)
THEOREM TableIsBounded == Spec => []TableBounded
<1>1. Sound => TableBounded
  BY DEF Sound
<1> QED
  BY <1>1, TableIsSound, PTL

(* An announced URL waits only while a slot holds it. *)
THEOREM AnnouncedIsBacked == Spec => []AnnouncedBacked
<1>1. Sound => AnnouncedBacked
  BY DEF Sound
<1> QED
  BY <1>1, TableIsSound, PTL

(* A URL learned from another relay's list evicts none from a table that is *)
(* within its capacity.                                                     *)
LEMMA UnattributedKeepsAll ==
  ASSUME TypeOK, NEW u \in Url, AnnounceUnattributed(u),
         Cardinality(DOMAIN unverified) <= MaxUnverified
  PROVE  DOMAIN unverified \subseteq DOMAIN unverified'
<1> DEFINE grown == Put(Without(unverified, {}), u, [seen |-> 0, added |-> 0])
           all   == DOMAIN unverified \cup {u}
<1>1. DOMAIN grown = all /\ all \subseteq Url /\ DOMAIN unverified \subseteq Url
  BY TypeGives DEF Put, Without, Restrict
<1>2. IsFiniteSet(DOMAIN unverified) /\ Cardinality(DOMAIN unverified) \in Nat
  BY <1>1, UrlsFinite
<1>3. Cardinality(all) = IF u \in DOMAIN unverified THEN Cardinality(DOMAIN unverified)
                                                    ELSE Cardinality(DOMAIN unverified) + 1
  BY <1>2, FS_AddElement
<1>4. Cardinality(all) <= MaxUnverified
  BY <1>2, <1>3, PeerTableAssumption DEF AnnounceUnattributed, RoomForUnattributed
<1> HIDE DEF grown, all
<1>5. PICK left \in Survivors(grown, MaxUnverified, {u}) :
        unverified' = Restrict(grown, left)
  BY DEF AnnounceUnattributed, Upsert, grown
<1>6. left = all
  BY <1>1, <1>4, SurvivorsBounded, PeerTableAssumption
<1> QED
  BY <1>5, <1>6 DEF Restrict, all

(* What is learned from other relays' lists only fills spare capacity. *)
THEOREM PropagatedFillsSpareRoom == Spec => PropagatedDisplacesNothing
<1>1. ASSUME Sound, [Next]_vars
      PROVE  [\A u \in Url :
                AnnounceUnattributed(u) /\ Cardinality(DOMAIN unverified) <= MaxUnverified
                  => DOMAIN unverified \subseteq DOMAIN unverified']_vars
  BY <1>1, UnattributedKeepsAll DEF Sound
<1> QED
  BY <1>1, TableIsSound, PTL DEF Spec, PropagatedDisplacesNothing
===============================================================================
