--------------------------- MODULE TrustPins_proofs ---------------------------
(***************************************************************************)
(* Proofs about TrustPins: which roots answers are verified with, and when *)
(* a pin is the set behind them, for any anchor sets, pools, calls at once *)
(* and restarts.                                                           *)
(***************************************************************************)
EXTENDS TrustPins, SequenceTheorems, FiniteSetTheorems, TLAPS

SetOrNone == Set \cup {None}
PCs == {"idle", "ask", "fetch", "pin"}

(* What the stores and the calls hold: a call that is to store or to pin    *)
(* has a set.                                                               *)
Holds ==
  /\ pool \in [Kind -> SetOrNone]
  /\ pin \in [Kind -> SetOrNone]
  /\ saved \in [Kind -> SetOrNone]
  /\ raced \subseteq Kind
  /\ pc \in [Call -> PCs]
  /\ what \in [Call -> What]
  /\ id \in [Call -> SetOrNone]
  /\ \A c \in Call : pc[c] \in {"fetch", "pin"} => id[c] \in Set

(* Veritas is rebuilt with every change of the pool. *)
Rebuilt == veritas = Merged(pool)

(* Of a kind that was not raced for, one call at most is to set the pin,    *)
(* and what it is to pin is what is stored.                                 *)
OneSetter ==
  /\ \A c \in Call : pc[c] = "pin" /\ KindOf(what[c]) \notin raced
       => pool[KindOf(what[c])] = id[c]
  /\ \A c, d \in Call :
       /\ pc[c] = "pin" /\ pc[d] = "pin"
       /\ KindOf(what[c]) = KindOf(what[d]) /\ KindOf(what[c]) \notin raced
       => c = d

Pins == Holds /\ Rebuilt /\ OneSetter /\ PinnedIsStored

(* Every call is about one of the three pins. *)
LEMMA KindOfCall == \A w \in What : KindOf(w) \in Kind
  BY DEF What, Kind, KindOf

(* What a call may be that sets a pin, and one that is over. *)
LEMMA WhatNames == Kind \subseteq What /\ {"observed", "refresh"} \subseteq What
  BY DEF What, Kind

(* The trusted set comes first in the merge, at every height it has. *)
LEMMA TrustedFirst ==
  ASSUME NEW p \in [Kind -> SetOrNone], p["trusted"] # None,
         NEW h \in DOMAIN Anchors[p["trusted"]]
  PROVE  h \in DOMAIN Merged(p) /\ Merged(p)[h] = Anchors[p["trusted"]][h]
<1> DEFINE having == {k \in Stored(p) : h \in DOMAIN Anchors[p[k]]}
           Least(k) == \A j \in having : Rank(k) <= Rank(j)
           heights == UNION {DOMAIN Anchors[p[k]] : k \in Stored(p)}
<1>1. "trusted" \in having
  BY DEF Stored, Kind
<1>2. \A k \in having : Rank(k) \in Nat /\ (Rank(k) <= Rank("trusted") => k = "trusted")
  BY DEF Stored, Kind, Rank
<1>3. Least("trusted")
  BY DEF Stored, Kind, Rank
<1>4. (CHOOSE k \in having : Least(k)) \in having /\ Least(CHOOSE k \in having : Least(k))
  <2> HIDE DEF having, Least
  <2> QED
    BY <1>1, <1>3
<1>5. (CHOOSE k \in having : Least(k)) = "trusted"
  <2> DEFINE first == CHOOSE k \in having : Least(k)
  <2>1. first \in having /\ Rank(first) <= Rank("trusted")
    BY <1>1, <1>4
  <2> HIDE DEF first
  <2> QED
    BY <2>1, <1>2
<1>6. h \in heights
  BY <1>1
<1>7. Merged(p) = [g \in heights |->
        LET hs == {k \in Stored(p) : g \in DOMAIN Anchors[p[k]]}
            first == CHOOSE k \in hs : \A j \in hs : Rank(k) <= Rank(j)
        IN Anchors[p[first]][g]]
  BY DEF Merged
<1>8. DOMAIN Merged(p) = heights
  BY <1>7
<1>9. Merged(p)[h] = Anchors[p[CHOOSE k \in having : Least(k)]][h]
  BY <1>6, <1>7
<1> QED
  BY <1>5, <1>6, <1>8, <1>9

(* A new client has no set, no pin and no call. *)
LEMMA PinsInit == Init => Pins
<1> SUFFICES ASSUME Init PROVE Pins
  OBVIOUS
<1>1. Holds
  BY WhatNames DEF Init, Holds, Nothing, SetOrNone, PCs
<1>2. Rebuilt
  <2> HIDE DEF Merged
  <2> QED
    BY DEF Init, Rebuilt
<1>3. \A c \in Call : pc[c] = "idle"
  BY DEF Init
<1>4. \A k \in Kind : pin[k] = None
  BY DEF Init, Nothing
<1> QED
  BY <1>1, <1>2, <1>3, <1>4 DEF Pins, OneSetter, PinnedIsStored

(* Steps that leave the stores and the calls about to pin as they are. *)
LEMMA QuietStep ==
  ASSUME Pins, UNCHANGED <<pool, pin, veritas, raced>>,
         \A c \in Call : pc'[c] = "pin" <=> pc[c] = "pin",
         \A c \in Call : pc[c] = "pin" => what'[c] = what[c] /\ id'[c] = id[c]
  PROVE  Rebuilt' /\ OneSetter' /\ PinnedIsStored'
<1>1. Rebuilt'
  BY DEF Pins, Rebuilt
<1>2. OneSetter'
  <2>1. ASSUME NEW c \in Call, pc'[c] = "pin", KindOf(what'[c]) \notin raced'
        PROVE  pool'[KindOf(what'[c])] = id'[c]
    BY <2>1 DEF Pins, OneSetter
  <2>2. ASSUME NEW c \in Call, NEW d \in Call, pc'[c] = "pin", pc'[d] = "pin",
               KindOf(what'[c]) = KindOf(what'[d]), KindOf(what'[c]) \notin raced'
        PROVE  c = d
    BY <2>2 DEF Pins, OneSetter
  <2> QED
    BY <2>1, <2>2 DEF OneSetter
<1>3. PinnedIsStored'
  BY DEF Pins, PinnedIsStored, Pinning
<1> QED
  BY <1>1, <1>2, <1>3

(* What storing a set does to the kind it is stored for, and to the others. *)
LEMMA StoreStep ==
  ASSUME Holds, NEW k \in Kind, NEW s \in Set, Store(k, s)
  PROVE  /\ Rebuilt'
         /\ pool' \in [Kind -> SetOrNone]
         /\ pool'[k] = s
         /\ \A j \in Kind \ {k} : pool'[j] = pool[j]
         /\ raced \subseteq raced' /\ raced' \subseteq raced \cup {k}
         /\ Pinning(k) => k \in raced'
<1>1. veritas' = Merged(pool')
  BY DEF Store
<1> HIDE DEF Merged
<1>2. Rebuilt'
  BY <1>1 DEF Rebuilt
<1> QED
  BY <1>2 DEF Store, Holds, SetOrNone

(* A call stores what it fetched; it is now the one to pin it. *)
LEMMA StoreFetchedKeeps ==
  ASSUME Pins, NEW c \in Call, StoreFetched(c)
  PROVE  Pins'
<1> DEFINE k == KindOf(what[c])
<1>1. k \in Kind /\ id[c] \in Set
  BY KindOfCall DEF Pins, Holds, StoreFetched
<1>2. /\ pc' = [pc EXCEPT ![c] = "pin"] /\ pc[c] = "fetch"
      /\ Store(k, id[c])
      /\ UNCHANGED <<pin, saved, what, id>>
  BY DEF StoreFetched
<1>3. /\ Rebuilt'
      /\ pool' \in [Kind -> SetOrNone]
      /\ pool'[k] = id[c]
      /\ \A j \in Kind \ {k} : pool'[j] = pool[j]
      /\ raced \subseteq raced' /\ raced' \subseteq raced \cup {k}
      /\ Pinning(k) => k \in raced'
  BY <1>1, <1>2, StoreStep DEF Pins
<1>4. /\ pc \in [Call -> PCs] /\ what \in [Call -> What]
      /\ \A d \in Call : KindOf(what[d]) \in Kind
  BY KindOfCall DEF Pins, Holds
<1>5. \A d \in Call \ {c} : pc'[d] = pc[d]
  BY <1>2, <1>4
<1>6. pc'[c] = "pin"
  BY <1>2, <1>4
<1> HIDE DEF k
<1>7. Holds'
  <2>1. raced' \subseteq Kind
    BY <1>1, <1>3 DEF Pins, Holds
  <2>2. pc' \in [Call -> PCs]
    BY <1>2, <1>4 DEF PCs
  <2>3. \A d \in Call : pc'[d] \in {"fetch", "pin"} => id'[d] \in Set
    BY <1>1, <1>2, <1>5 DEF Pins, Holds
  <2> QED
    BY <2>1, <2>2, <2>3, <1>2, <1>3 DEF Pins, Holds
<1>8. \A d \in Call \ {c} : pc'[d] = "pin" /\ KindOf(what[d]) \notin raced'
        => KindOf(what[d]) # k
  BY <1>3, <1>5 DEF Pinning
<1>9. OneSetter'
  <2>1. ASSUME NEW d \in Call, pc'[d] = "pin", KindOf(what'[d]) \notin raced'
        PROVE  pool'[KindOf(what'[d])] = id'[d]
    <3>1. CASE d = c
      BY <3>1, <1>2, <1>3 DEF k
    <3>2. CASE d # c
      BY <2>1, <3>2, <1>2, <1>3, <1>4, <1>5, <1>8 DEF Pins, OneSetter
    <3> QED
      BY <3>1, <3>2
  <2>2. ASSUME NEW d \in Call, NEW e \in Call, pc'[d] = "pin", pc'[e] = "pin",
               KindOf(what'[d]) = KindOf(what'[e]), KindOf(what'[d]) \notin raced'
        PROVE  d = e
    <3>1. CASE d = c \/ e = c
      BY <2>2, <3>1, <1>2, <1>8 DEF k
    <3>2. CASE d # c /\ e # c
      BY <2>2, <3>2, <1>2, <1>3, <1>5 DEF Pins, OneSetter
    <3> QED
      BY <3>1, <3>2
  <2> QED
    BY <2>1, <2>2 DEF OneSetter
<1>10. PinnedIsStored'
  <2> SUFFICES ASSUME NEW j \in Kind, j \notin raced', pin'[j] # None, ~Pinning(j)'
               PROVE  pin'[j] = pool'[j]
    BY DEF PinnedIsStored
  <2>1. j # k
    BY <1>2, <1>6 DEF Pinning, k
  <2>2. ~Pinning(j)
    BY <1>2, <1>4, <1>5, <1>6 DEF Pinning
  <2> QED
    BY <2>1, <2>2, <1>2, <1>3 DEF Pins, PinnedIsStored
<1> QED
  BY <1>3, <1>7, <1>9, <1>10 DEF Pins

(* A call pins what it has stored. *)
LEMMA SetPinKeeps ==
  ASSUME Pins, NEW c \in Call, SetPin(c)
  PROVE  Pins'
<1> DEFINE k == KindOf(what[c])
<1>1. k \in Kind /\ id[c] \in Set /\ pc[c] = "pin"
  BY KindOfCall DEF Pins, Holds, SetPin
<1>2. /\ pin' = [pin EXCEPT ![k] = id[c]]
      /\ pc' = [pc EXCEPT ![c] = "idle"]
      /\ what' = [what EXCEPT ![c] = "observed"]
      /\ id' = [id EXCEPT ![c] = None]
      /\ UNCHANGED <<pool, veritas, saved, raced>>
  BY DEF SetPin, Return
<1>3. /\ pc \in [Call -> PCs] /\ what \in [Call -> What] /\ id \in [Call -> SetOrNone]
      /\ pin \in [Kind -> SetOrNone]
  BY DEF Pins, Holds
<1>4. \A d \in Call \ {c} : pc'[d] = pc[d] /\ what'[d] = what[d] /\ id'[d] = id[d]
  BY <1>2, <1>3
<1>5. pc'[c] = "idle"
  BY <1>2, <1>3
<1> HIDE DEF k
<1>6. Holds'
  <2>1. /\ pc' \in [Call -> PCs] /\ what' \in [Call -> What]
        /\ id' \in [Call -> SetOrNone] /\ pin' \in [Kind -> SetOrNone]
    BY <1>1, <1>2, <1>3, WhatNames DEF PCs, SetOrNone
  <2>2. \A d \in Call : pc'[d] \in {"fetch", "pin"} => id'[d] \in Set
    BY <1>4, <1>5 DEF Pins, Holds
  <2> QED
    BY <2>1, <2>2, <1>2 DEF Pins, Holds
<1>7. Rebuilt'
  BY <1>2 DEF Pins, Rebuilt
<1>8. OneSetter'
  <2>1. ASSUME NEW d \in Call, pc'[d] = "pin", KindOf(what'[d]) \notin raced'
        PROVE  pool'[KindOf(what'[d])] = id'[d]
    BY <2>1, <1>2, <1>4, <1>5 DEF Pins, OneSetter
  <2>2. ASSUME NEW d \in Call, NEW e \in Call, pc'[d] = "pin", pc'[e] = "pin",
               KindOf(what'[d]) = KindOf(what'[e]), KindOf(what'[d]) \notin raced'
        PROVE  d = e
    BY <2>2, <1>2, <1>4, <1>5 DEF Pins, OneSetter
  <2> QED
    BY <2>1, <2>2 DEF OneSetter
<1>9. PinnedIsStored'
  <2> SUFFICES ASSUME NEW j \in Kind, j \notin raced', pin'[j] # None, ~Pinning(j)'
               PROVE  pin'[j] = pool'[j]
    BY DEF PinnedIsStored
  <2>1. CASE j = k
    BY <2>1, <1>1, <1>2, <1>3 DEF Pins, OneSetter, k
  <2>2. CASE j # k
    <3>1. ~Pinning(j)
      BY <2>2, <1>4 DEF Pinning, k
    <3> QED
      BY <2>2, <3>1, <1>2, <1>3 DEF Pins, PinnedIsStored
  <2> QED
    BY <2>1, <2>2
<1> QED
  BY <1>6, <1>7, <1>8, <1>9 DEF Pins

(* trust_from_set stores and pins at once. *)
LEMMA TrustFromSetKeeps ==
  ASSUME Pins, NEW s \in Set, TrustFromSet(s)
  PROVE  Pins'
<1> DEFINE k == "trusted"
<1>1. /\ Store(k, s)
      /\ pin' = [pin EXCEPT ![k] = s]
      /\ UNCHANGED <<saved, pc, what, id>>
  BY DEF TrustFromSet, callVars
<1>2. k \in Kind
  BY DEF Kind
<1>3. /\ Rebuilt'
      /\ pool' \in [Kind -> SetOrNone]
      /\ pool'[k] = s
      /\ \A j \in Kind \ {k} : pool'[j] = pool[j]
      /\ raced \subseteq raced' /\ raced' \subseteq raced \cup {k}
      /\ Pinning(k) => k \in raced'
  BY <1>1, <1>2, StoreStep DEF Pins
<1>4. pin \in [Kind -> SetOrNone] /\ \A d \in Call : KindOf(what[d]) \in Kind
  BY KindOfCall DEF Pins, Holds
<1> HIDE DEF k
<1>5. Holds'
  BY <1>1, <1>2, <1>3, <1>4 DEF Pins, Holds, SetOrNone
<1>6. OneSetter'
  <2>1. ASSUME NEW d \in Call, pc'[d] = "pin", KindOf(what'[d]) \notin raced'
        PROVE  pool'[KindOf(what'[d])] = id'[d]
    <3>1. KindOf(what[d]) # k
      BY <2>1, <1>1, <1>3 DEF Pinning
    <3> QED
      BY <2>1, <3>1, <1>1, <1>3, <1>4 DEF Pins, OneSetter
  <2>2. ASSUME NEW d \in Call, NEW e \in Call, pc'[d] = "pin", pc'[e] = "pin",
               KindOf(what'[d]) = KindOf(what'[e]), KindOf(what'[d]) \notin raced'
        PROVE  d = e
    BY <2>2, <1>1, <1>3 DEF Pins, OneSetter
  <2> QED
    BY <2>1, <2>2 DEF OneSetter
<1>7. PinnedIsStored'
  <2> SUFFICES ASSUME NEW j \in Kind, j \notin raced', pin'[j] # None, ~Pinning(j)'
               PROVE  pin'[j] = pool'[j]
    BY DEF PinnedIsStored
  <2>1. CASE j = k
    BY <2>1, <1>1, <1>3, <1>4
  <2>2. CASE j # k
    <3>1. ~Pinning(j)
      BY <1>1 DEF Pinning
    <3> QED
      BY <2>2, <3>1, <1>1, <1>3, <1>4 DEF Pins, PinnedIsStored
  <2> QED
    BY <2>1, <2>2
<1> QED
  BY <1>3, <1>5, <1>6, <1>7 DEF Pins

(* A call returns without having stored or pinned. *)
LEMMA ReturnKeeps ==
  ASSUME Pins, NEW c \in Call, pc[c] # "pin", Return(c),
         UNCHANGED <<pool, pin, veritas, saved, raced>>
  PROVE  Pins'
<1>1. /\ pc' = [pc EXCEPT ![c] = "idle"]
      /\ what' = [what EXCEPT ![c] = "observed"]
      /\ id' = [id EXCEPT ![c] = None]
  BY DEF Return
<1>2. /\ pc \in [Call -> PCs] /\ what \in [Call -> What] /\ id \in [Call -> SetOrNone]
  BY DEF Pins, Holds
<1>3. Holds'
  <2>1. pc' \in [Call -> PCs] /\ what' \in [Call -> What] /\ id' \in [Call -> SetOrNone]
    BY <1>1, <1>2, WhatNames DEF PCs, SetOrNone
  <2>2. \A d \in Call : pc'[d] \in {"fetch", "pin"} => id'[d] \in Set
    BY <1>1, <1>2 DEF Pins, Holds
  <2> QED
    BY <2>1, <2>2 DEF Pins, Holds
<1>4. \A d \in Call : pc'[d] = "pin" <=> pc[d] = "pin"
  BY <1>1, <1>2
<1>5. \A d \in Call : pc[d] = "pin" => what'[d] = what[d] /\ id'[d] = id[d]
  BY <1>1, <1>2
<1> QED
  BY <1>3, <1>4, <1>5, QuietStep DEF Pins

(* A call begins, or goes on to fetch, with the id of a set. *)
LEMMA AdvanceKeeps ==
  ASSUME Pins, NEW c \in Call, pc[c] # "pin",
         NEW p \in {"ask", "fetch"}, NEW w \in What, NEW s \in SetOrNone,
         p = "fetch" => s \in Set,
         pc' = [pc EXCEPT ![c] = p], what' = [what EXCEPT ![c] = w],
         id' = [id EXCEPT ![c] = s], UNCHANGED <<pool, pin, veritas, saved, raced>>
  PROVE  Pins'
<1>1. /\ pc \in [Call -> PCs] /\ what \in [Call -> What] /\ id \in [Call -> SetOrNone]
  BY DEF Pins, Holds
<1>2. Holds'
  <2>1. pc' \in [Call -> PCs] /\ what' \in [Call -> What] /\ id' \in [Call -> SetOrNone]
    BY <1>1 DEF PCs
  <2>2. \A d \in Call : pc'[d] \in {"fetch", "pin"} => id'[d] \in Set
    BY <1>1 DEF Pins, Holds
  <2> QED
    BY <2>1, <2>2 DEF Pins, Holds
<1>3. \A d \in Call : pc'[d] = "pin" <=> pc[d] = "pin"
  BY <1>1
<1>4. \A d \in Call : pc[d] = "pin" => what'[d] = what[d] /\ id'[d] = id[d]
  BY <1>1
<1> QED
  BY <1>2, <1>3, <1>4, QuietStep DEF Pins

(* Every step keeps the pins in order. *)
LEMMA PinsStep == Pins /\ [Next]_vars => Pins'
<1> SUFFICES ASSUME Pins, [Next]_vars PROVE Pins'
  OBVIOUS
<1>1. ASSUME NEW c \in Call, Step(c) PROVE Pins'
  <2>0. /\ pc \in [Call -> PCs] /\ what \in [Call -> What] /\ id \in [Call -> SetOrNone]
    BY DEF Pins, Holds
  <2>1. ASSUME NEW k \in Kind, NEW s \in Set, Update(c, k, s) PROVE Pins'
    <3>1. /\ pc' = [pc EXCEPT ![c] = "fetch"] /\ what' = [what EXCEPT ![c] = k]
          /\ id' = [id EXCEPT ![c] = s] /\ pc[c] # "pin"
          /\ UNCHANGED <<pool, pin, veritas, saved, raced>>
      BY <2>1 DEF Update
    <3>2. k \in What /\ s \in SetOrNone
      BY WhatNames DEF SetOrNone
    <3> QED
      BY <3>1, <3>2, AdvanceKeeps
  <2>2. CASE Refresh(c)
    <3>1. /\ pc' = [pc EXCEPT ![c] = "ask"] /\ what' = [what EXCEPT ![c] = "refresh"]
          /\ id' = [id EXCEPT ![c] = id[c]] /\ pc[c] # "pin"
          /\ UNCHANGED <<pool, pin, veritas, saved, raced>>
      BY <2>2, <2>0 DEF Refresh
    <3>2. "refresh" \in What /\ id[c] \in SetOrNone
      BY <2>0, WhatNames
    <3> QED
      BY <3>1, <3>2, AdvanceKeeps
  <2>3. CASE (\E s \in Set : Vote(c, s)) \/ NoVote(c)
    <3>1. UNCHANGED <<pool, pin, veritas, saved, raced, pc, what, id>>
      BY <2>3 DEF Vote, NoVote
    <3>2. Holds'
      BY <3>1 DEF Pins, Holds
    <3> QED
      BY <3>1, <3>2, QuietStep DEF Pins
  <2>4. CASE QuorumMet(c)
    <3>1. PICK s \in Set : id' = [id EXCEPT ![c] = s]
      BY <2>4 DEF QuorumMet, Winners
    <3>2. /\ pc' = [pc EXCEPT ![c] = "fetch"] /\ what' = [what EXCEPT ![c] = what[c]]
          /\ pc[c] # "pin" /\ UNCHANGED <<pool, pin, veritas, saved, raced>>
      BY <2>4, <2>0 DEF QuorumMet
    <3>3. what[c] \in What /\ s \in SetOrNone
      BY <2>0 DEF SetOrNone
    <3> QED
      BY <3>1, <3>2, <3>3, AdvanceKeeps
  <2>5. CASE NoQuorum(c) \/ FetchFails(c)
    <3>1. Return(c) /\ pc[c] # "pin" /\ UNCHANGED <<pool, pin, veritas, saved, raced>>
      BY <2>5 DEF NoQuorum, FetchFails
    <3> QED
      BY <3>1, ReturnKeeps
  <2>6. CASE StoreFetched(c)
    BY <2>6, StoreFetchedKeeps
  <2>7. CASE SetPin(c)
    BY <2>7, SetPinKeeps
  <2> QED
    BY <1>1, <2>1, <2>2, <2>3, <2>4, <2>5, <2>6, <2>7 DEF Step
<1>2. ASSUME NEW s \in Set, TrustFromSet(s) PROVE Pins'
  BY <1>2, TrustFromSetKeeps
<1>3. ASSUME NEW k \in Kind, Clear(k) PROVE Pins'
  <2>1. /\ pin' = [pin EXCEPT ![k] = None]
        /\ UNCHANGED <<pool, veritas, saved, raced, pc, what, id>>
    BY <1>3 DEF Clear, callVars
  <2>2. pin \in [Kind -> SetOrNone]
    BY DEF Pins, Holds
  <2>3. Holds'
    BY <2>1, <2>2 DEF Pins, Holds, SetOrNone
  <2>4. Rebuilt' /\ OneSetter'
    BY <2>1 DEF Pins, Rebuilt, OneSetter
  <2>5. PinnedIsStored'
    BY <2>1, <2>2 DEF Pins, PinnedIsStored, Pinning
  <2> QED
    BY <2>3, <2>4, <2>5 DEF Pins
<1>4. CASE (\E g \in Config : SetPool(g)) \/ Save \/ UNCHANGED vars
  <2>1. UNCHANGED <<pool, pin, veritas, raced, pc, what, id>> /\ saved' \in {saved, pool}
    BY <1>4 DEF SetPool, Save, vars, callVars
  <2>2. Holds'
    BY <2>1 DEF Pins, Holds
  <2> QED
    BY <2>1, <2>2, QuietStep DEF Pins
<1>5. CASE Restore
  <2>1. /\ pool' = saved /\ pin' = saved /\ saved' = saved /\ raced' = {}
        /\ veritas' = Merged(saved)
        /\ pc' = [c \in Call |-> "idle"] /\ what' = [c \in Call |-> "observed"]
        /\ id' = [c \in Call |-> None]
    BY <1>5 DEF Restore
  <2>2. Rebuilt'
    <3> HIDE DEF Merged
    <3> QED
      BY <2>1 DEF Rebuilt
  <2>3. Holds'
    BY <2>1, WhatNames DEF Pins, Holds, SetOrNone, PCs
  <2>4. OneSetter' /\ PinnedIsStored'
    BY <2>1 DEF OneSetter, PinnedIsStored
  <2> QED
    BY <2>2, <2>3, <2>4 DEF Pins
<1> QED
  BY <1>1, <1>2, <1>3, <1>4, <1>5 DEF Next

(* The pins are in order whatever calls run at once and wherever the        *)
(* application stops and starts.                                            *)
THEOREM PinsInOrder == Spec => []Pins
  BY PinsInit, PinsStep, PTL DEF Spec

(* Answers are verified with the roots of the set the user trusts: Veritas  *)
(* is rebuilt under the lock (client.rs, build_veritas), and the merge takes *)
(* the trusted set first.                                                   *)
THEOREM TrustedAlwaysWins == Spec => []TrustedWins
<1>1. Pins => TrustedWins
  <2> SUFFICES ASSUME Pins, pool["trusted"] # None,
                      NEW h \in DOMAIN Anchors[pool["trusted"]]
               PROVE  h \in DOMAIN veritas /\ veritas[h] = Anchors[pool["trusted"]][h]
    BY DEF TrustedWins
  <2> HIDE DEF Merged
  <2>1. veritas = Merged(pool) /\ pool \in [Kind -> SetOrNone]
    BY DEF Pins, Rebuilt, Holds
  <2> QED
    BY <2>1, TrustedFirst
<1> QED
  BY <1>1, PinsInOrder, PTL

(* Where no two calls set one pin at once, the pin is the set whose anchors *)
(* are in the pool, although it is set after the lock was released.         *)
THEOREM PinIsStored == Spec => []PinnedIsStored
<1>1. Pins => PinnedIsStored
  BY DEF Pins
<1> QED
  BY <1>1, PinsInOrder, PTL

-----------------------------------------------------------------------------
(* The vote.  Of the first k relays asked, those that are dishonest. *)
DishonestAmong(relays, k) == {i \in 1..k : relays[i] \notin Honest}

Asked(relays, l) == Len(relays) - Len(l)

(* With the relays l of a configuration left to ask and the votes v cast: a *)
(* set has no more votes than relays were asked, and one that is not of the *)
(* real chain no more than dishonest relays were.                           *)
Ballot(g, l, v) ==
  /\ l \in Seq(Relay) /\ EndOf(l, g.relays)
  /\ v \in [Set -> Nat]
  /\ \A s \in Set : v[s] <= Asked(g.relays, l)
  /\ \A s \in Set \ Real : v[s] <= Cardinality(DishonestAmong(g.relays, Asked(g.relays, l)))

(* A call's vote is a true count while it asks; before and after, it has no *)
(* votes; and what a refresh goes on to fetch is a set of the real chain if *)
(* fewer relays than the quorum are dishonest.                              *)
Ballots ==
  /\ config \in Config /\ spent \in 0..Budget
  /\ asked \in [Call -> Config]
  /\ DOMAIN left = Call /\ DOMAIN votes = Call
  /\ \A c \in Call :
       /\ Ballot(asked[c], left[c], votes[c])
       /\ pc[c] # "ask" => left[c] = <<>> /\ votes[c] = NoVotes
       /\ pc[c] \in {"idle", "ask"} => id[c] = None
       /\ /\ pc[c] \in {"fetch", "pin"} /\ what[c] = "refresh"
          /\ Dishonest(asked[c].relays) < Required(c)
          => id[c] \in Real

Elected == Pins /\ Ballots

(* One relay more has been asked: it adds to the dishonest ones or not. *)
LEMMA OneMoreAsked ==
  ASSUME NEW relays, NEW k \in Nat
  PROVE  /\ Cardinality(DishonestAmong(relays, k)) \in Nat
         /\ Cardinality(DishonestAmong(relays, k + 1)) =
              Cardinality(DishonestAmong(relays, k)) + (IF relays[k + 1] \in Honest THEN 0 ELSE 1)
<1>1. IsFiniteSet(DishonestAmong(relays, k))
  <2>1. DishonestAmong(relays, k) \in SUBSET (1..k)
    BY DEF DishonestAmong
  <2> QED
    BY <2>1, FS_Interval, FS_Subset
<1>2. Cardinality(DishonestAmong(relays, k)) \in Nat
  BY <1>1, FS_CardinalityType
<1>3. CASE relays[k + 1] \in Honest
  <2>1. DishonestAmong(relays, k + 1) = DishonestAmong(relays, k)
    BY <1>3 DEF DishonestAmong
  <2> QED
    BY <1>2, <1>3, <2>1
<1>4. CASE relays[k + 1] \notin Honest
  <2>1. DishonestAmong(relays, k + 1) = DishonestAmong(relays, k) \cup {k + 1}
    BY <1>4 DEF DishonestAmong
  <2>2. k + 1 \notin DishonestAmong(relays, k)
    BY DEF DishonestAmong
  <2> QED
    BY <1>1, <1>2, <1>4, <2>1, <2>2, FS_AddElement
<1> QED
  BY <1>3, <1>4

(* A vote that begins, and the empty one of a call that does not ask. *)
LEMMA EmptyBallot ==
  ASSUME NEW g \in Config
  PROVE  Ballot(g, g.relays, NoVotes) /\ Ballot(g, <<>>, NoVotes)
<1>1. g.relays \in Seq(Relay) /\ Len(g.relays) \in Nat
  BY TrustPinsAssumption
<1>2. /\ Asked(g.relays, g.relays) = 0
      /\ Asked(g.relays, <<>>) = Len(g.relays)
      /\ Len(<<>>) = 0 /\ <<>> \in Seq(Relay)
  BY <1>1 DEF Asked
<1>3. EndOf(g.relays, g.relays) /\ EndOf(<<>>, g.relays)
  BY <1>1, <1>2 DEF EndOf
<1>4. NoVotes \in [Set -> Nat] /\ \A s \in Set : NoVotes[s] = 0
  BY DEF NoVotes
<1>5. /\ Cardinality(DishonestAmong(g.relays, 0)) \in Nat
      /\ Cardinality(DishonestAmong(g.relays, Len(g.relays))) \in Nat
  BY <1>1, OneMoreAsked
<1> QED
  BY <1>1, <1>2, <1>3, <1>4, <1>5 DEF Ballot

(* The next relay has been asked; it may have voted for s. *)
LEMMA BallotGoesOn ==
  ASSUME NEW g \in Config, NEW l, NEW v, Ballot(g, l, v), l # <<>>
  PROVE  /\ Ballot(g, Tail(l), v)
         /\ \A s \in Set : (Head(l) \in Honest => s \in Real)
              => Ballot(g, Tail(l), [v EXCEPT ![s] = v[s] + 1])
<1>1. /\ g.relays \in Seq(Relay) /\ Len(g.relays) \in Nat
      /\ l \in Seq(Relay) /\ Len(l) \in Nat \ {0} /\ Len(l) <= Len(g.relays)
  BY TrustPinsAssumption, EmptySeq DEF Ballot, EndOf
<1>2. PICK r \in Seq(Relay) :
        r = Tail(l) /\ Len(r) = Len(l) - 1 /\ \A i \in 1..Len(r) : r[i] = l[i + 1]
  BY <1>1, HeadTailProperties
<1>3. PICK k \in Nat : k = Asked(g.relays, l) /\ Asked(g.relays, r) = k + 1
  <2>1. /\ Len(g.relays) - Len(l) \in Nat
        /\ Len(g.relays) - Len(r) = (Len(g.relays) - Len(l)) + 1
    BY <1>1, <1>2
  <2> QED
    BY <2>1 DEF Asked
<1>4. EndOf(r, g.relays)
  <2>1. ASSUME NEW i \in 1..Len(r)
        PROVE  r[i] = g.relays[Len(g.relays) - Len(r) + i]
    <3>1. i + 1 \in 1..Len(l) /\ r[i] = l[i + 1]
      BY <1>1, <1>2
    <3>2. EndOf(l, g.relays)
      BY DEF Ballot
    <3>3. l[i + 1] = g.relays[Len(g.relays) - Len(l) + (i + 1)]
      BY <3>1, <3>2 DEF EndOf
    <3>4. Len(g.relays) - Len(l) + (i + 1) = Len(g.relays) - Len(r) + i
      <4>1. i \in Int
        BY <1>1, <1>2
      <4>2. Len(r) = Len(l) - 1
        BY <1>2
      <4>3. PICK m \in Int : m = Len(l) 
        BY <1>1
      <4>4. PICK n \in Int : n = Len(g.relays) 
        BY <1>1
      <4>5. Len(r) = m - 1
        BY <4>2, <4>3
      <4>6. n - m + (i + 1) = n - (m - 1) + i
        BY <4>1
      <4> QED
        BY <4>6, <4>3, <4>4, <4>5
    <3> QED
      BY <3>1, <3>3, <3>4
  <2> QED
    BY <1>1, <1>2, <2>1 DEF EndOf
<1>5. Head(l) = g.relays[k + 1]
  <2>1. l[1] = g.relays[Len(g.relays) - Len(l) + 1]
    BY <1>1 DEF Ballot, EndOf
  <2> QED
    BY <1>1, <1>3, <2>1 DEF Asked
<1>6. PICK d \in Nat, e \in Nat :
        /\ d = Cardinality(DishonestAmong(g.relays, k))
        /\ e = Cardinality(DishonestAmong(g.relays, k + 1))
        /\ e = d + (IF Head(l) \in Honest THEN 0 ELSE 1)
  <2>1. /\ Cardinality(DishonestAmong(g.relays, k)) \in Nat
        /\ Cardinality(DishonestAmong(g.relays, k + 1)) =
             Cardinality(DishonestAmong(g.relays, k)) + (IF Head(l) \in Honest THEN 0 ELSE 1)
    BY <1>5, OneMoreAsked
  <2>2. Cardinality(DishonestAmong(g.relays, k + 1)) \in Nat
    BY <2>1
  <2> QED
    BY <2>1, <2>2
<1>7. /\ v \in [Set -> Nat]
      /\ \A t \in Set : v[t] <= k
      /\ \A t \in Set \ Real : v[t] <= d
  BY <1>3, <1>6 DEF Ballot
<1>8. Ballot(g, r, v)
  <2>1. (\A t \in Set : v[t] <= k + 1) /\ (\A t \in Set \ Real : v[t] <= e)
    BY <1>6, <1>7
  <2> QED
    BY <1>2, <1>3, <1>4, <1>6, <1>7, <2>1 DEF Ballot
<1>9. ASSUME NEW s \in Set, Head(l) \in Honest => s \in Real
      PROVE  Ballot(g, r, [v EXCEPT ![s] = v[s] + 1])
  <2>1. PICK w : w = [v EXCEPT ![s] = v[s] + 1]
    OBVIOUS
  <2>2. w \in [Set -> Nat] /\ w[s] = v[s] + 1 /\ \A t \in Set \ {s} : w[t] = v[t]
    BY <1>7, <2>1
  <2>3. \A t \in Set : w[t] <= k + 1
    BY <1>7, <2>2
  <2>4. \A t \in Set \ Real : w[t] <= e
    <3>1. CASE Head(l) \in Honest
      BY <1>6, <1>7, <1>9, <2>2, <3>1
    <3>2. CASE Head(l) \notin Honest
      BY <1>6, <1>7, <2>2, <3>2
    <3> QED
      BY <3>1, <3>2
  <2>5. Ballot(g, r, w)
    BY <1>2, <1>3, <1>4, <1>6, <2>2, <2>3, <2>4 DEF Ballot
  <2> QED
    BY <2>1, <2>5
<1> QED
  BY <1>2, <1>8, <1>9

(* A quorum asks for a number of relays. *)
LEMMA NeededNat == ASSUME NEW g \in Config PROVE Needed(g.quorum, Len(g.relays)) \in Nat
<1>1. Len(g.relays) \in Nat /\ g.quorum \in Quorum
  BY TrustPinsAssumption
<1>2. PICK n \in Nat : n = Len(g.relays)
  BY <1>1
<1>3. /\ g.quorum.policy \in {"All", "AtLeast", "Majority"} /\ g.quorum.n \in Nat
      /\ n \div 2 + 1 \in Nat
  BY <1>1 DEF Quorum
<1> QED
  BY <1>2, <1>3 DEF Needed

(* A set that the quorum voted for is real when the dishonest are too few. *)
LEMMA QuorumIsReal ==
  ASSUME NEW g \in Config, NEW v, Ballot(g, <<>>, v), NEW s \in Set,
         v[s] >= Needed(g.quorum, Len(g.relays)),
         Dishonest(g.relays) < Needed(g.quorum, Len(g.relays))
  PROVE  s \in Real
<1>1. g.relays \in Seq(Relay) /\ Len(g.relays) \in Nat /\ Len(<<>>) = 0
  BY TrustPinsAssumption
<1>2. Asked(g.relays, <<>>) = Len(g.relays)
  BY <1>1 DEF Asked
<1>3. Dishonest(g.relays) = Cardinality(DishonestAmong(g.relays, Len(g.relays)))
  BY <1>1, LenProperties DEF Dishonest, DishonestAmong
<1>4. Dishonest(g.relays) \in Nat
  BY <1>1, <1>3, OneMoreAsked
<1>5. s \notin Real => v[s] <= Dishonest(g.relays)
  BY <1>2, <1>3 DEF Ballot
<1>6. v[s] \in Nat
  BY DEF Ballot
<1> QED
  BY <1>4, <1>5, <1>6, NeededNat

(* What a step of one call does to the ballots, when it leaves the locals   *)
(* of the others alone.                                                     *)
LEMMA OneCallVotes ==
  ASSUME Elected, Pins', NEW c \in Call,
         config' = config, spent' \in 0..Budget,
         asked' \in [Call -> Config], DOMAIN left' = Call, DOMAIN votes' = Call,
         \A d \in Call \ {c} : /\ pc'[d] = pc[d] /\ what'[d] = what[d] /\ id'[d] = id[d]
                               /\ asked'[d] = asked[d] /\ left'[d] = left[d]
                               /\ votes'[d] = votes[d],
         Ballot(asked'[c], left'[c], votes'[c]),
         pc'[c] # "ask" => left'[c] = <<>> /\ votes'[c] = NoVotes,
         pc'[c] \in {"idle", "ask"} => id'[c] = None,
         /\ pc'[c] \in {"fetch", "pin"} /\ what'[c] = "refresh"
         /\ Dishonest(asked'[c].relays) < Needed(asked'[c].quorum, Len(asked'[c].relays))
         => id'[c] \in Real
  PROVE  Elected'
<1>1. ASSUME NEW d \in Call
      PROVE  /\ Ballot(asked'[d], left'[d], votes'[d])
             /\ pc'[d] # "ask" => left'[d] = <<>> /\ votes'[d] = NoVotes
             /\ pc'[d] \in {"idle", "ask"} => id'[d] = None
             /\ /\ pc'[d] \in {"fetch", "pin"} /\ what'[d] = "refresh"
                /\ Dishonest(asked'[d].relays) < Needed(asked'[d].quorum, Len(asked'[d].relays))
                => id'[d] \in Real
  <2>1. CASE d = c
    BY <2>1
  <2>2. CASE d # c
    BY <2>2 DEF Elected, Ballots, Required
  <2> QED
    BY <2>1, <2>2
<1> QED
  BY <1>1 DEF Elected, Ballots, Required

(* The locals of a call, in the types that the steps use. *)
LEMMA Locals ==
  ASSUME Elected
  PROVE  /\ pc \in [Call -> PCs] /\ what \in [Call -> What] /\ id \in [Call -> SetOrNone]
         /\ asked \in [Call -> Config] /\ DOMAIN left = Call /\ DOMAIN votes = Call
         /\ config \in Config /\ spent \in 0..Budget
BY DEF Elected, Pins, Holds, Ballots

(* The application does no more than its budget. *)
LEMMA SpendCounts == Elected /\ Spend => spent' \in 0..Budget
BY TrustPinsAssumption DEF Elected, Ballots, Spend

(* A call begins with no votes. *)
LEMMA BeginVotes ==
  ASSUME Elected, NEW c \in Call, Refresh(c) \/ (\E k \in Kind, s \in Set : Update(c, k, s))
  PROVE  Elected'
<1>1. Pins'
  BY PinsStep DEF Elected, Next, Step
<1>2. spent' \in 0..Budget /\ config' = config
  BY SpendCounts DEF Refresh, Update
<1>3. pc[c] = "idle"
  BY DEF Refresh, Update
<1>4. Ballot(asked[c], left[c], votes[c]) /\ left[c] = <<>> /\ votes[c] = NoVotes /\ id[c] = None
  BY <1>3 DEF Elected, Ballots
<1>5. CASE Refresh(c)
  <2>1. /\ pc' = [pc EXCEPT ![c] = "ask"] /\ what' = [what EXCEPT ![c] = "refresh"]
        /\ asked' = [asked EXCEPT ![c] = config]
        /\ left' = [left EXCEPT ![c] = config.relays]
        /\ UNCHANGED <<id, votes>>
    BY <1>5 DEF Refresh
  <2>2. /\ asked' \in [Call -> Config] /\ DOMAIN left' = Call /\ DOMAIN votes' = Call
        /\ pc'[c] = "ask" /\ asked'[c] = config /\ left'[c] = config.relays
        /\ votes'[c] = NoVotes /\ id'[c] = None
    BY <2>1, <1>4, Locals
  <2>3. Ballot(asked'[c], left'[c], votes'[c])
    BY <2>2, EmptyBallot, Locals
  <2>4. \A d \in Call \ {c} : /\ pc'[d] = pc[d] /\ what'[d] = what[d] /\ id'[d] = id[d]
                              /\ asked'[d] = asked[d] /\ left'[d] = left[d]
                              /\ votes'[d] = votes[d]
    BY <2>1, Locals
  <2> QED
    BY <1>1, <1>2, <2>2, <2>3, <2>4, OneCallVotes
<1>6. ASSUME NEW k \in Kind, NEW s \in Set, Update(c, k, s) PROVE Elected'
  <2>1. /\ pc' = [pc EXCEPT ![c] = "fetch"] /\ what' = [what EXCEPT ![c] = k]
        /\ id' = [id EXCEPT ![c] = s]
        /\ UNCHANGED <<asked, left, votes>>
    BY <1>6 DEF Update
  <2>2. /\ asked' \in [Call -> Config] /\ DOMAIN left' = Call /\ DOMAIN votes' = Call
        /\ pc'[c] = "fetch" /\ what'[c] # "refresh"
        /\ left'[c] = <<>> /\ votes'[c] = NoVotes
    BY <2>1, <1>4, Locals DEF Kind
  <2>3. Ballot(asked'[c], left'[c], votes'[c])
    BY <2>1, <1>4
  <2>4. \A d \in Call \ {c} : /\ pc'[d] = pc[d] /\ what'[d] = what[d] /\ id'[d] = id[d]
                              /\ asked'[d] = asked[d] /\ left'[d] = left[d]
                              /\ votes'[d] = votes[d]
    BY <2>1, Locals
  <2> QED
    BY <1>1, <1>2, <2>2, <2>3, <2>4, OneCallVotes
<1> QED
  BY <1>5, <1>6

(* A relay answers, or does not. *)
LEMMA VoteCounts ==
  ASSUME Elected, NEW c \in Call, NoVote(c) \/ (\E s \in Set : Vote(c, s))
  PROVE  Elected'
<1>1. Pins'
  BY PinsStep DEF Elected, Next, Step
<1>2. /\ pc[c] = "ask" /\ left[c] # <<>>
      /\ left' = [left EXCEPT ![c] = Tail(left[c])]
      /\ UNCHANGED <<config, spent, pc, what, id, asked>>
  BY DEF Vote, NoVote
<1>3. Ballot(asked[c], left[c], votes[c]) /\ asked[c] \in Config /\ id[c] = None
  BY <1>2, Locals DEF Elected, Ballots
<1>4. /\ DOMAIN votes' = Call
      /\ \A d \in Call \ {c} : votes'[d] = votes[d]
      /\ Ballot(asked[c], Tail(left[c]), votes'[c])
  <2>1. CASE NoVote(c)
    BY <2>1, <1>2, <1>3, BallotGoesOn, Locals DEF NoVote
  <2>2. ASSUME NEW s \in Set, Vote(c, s)
        PROVE  /\ DOMAIN votes' = Call
               /\ \A d \in Call \ {c} : votes'[d] = votes[d]
               /\ Ballot(asked[c], Tail(left[c]), votes'[c])
    <3>1. PICK w : w = [votes[c] EXCEPT ![s] = votes[c][s] + 1]
      OBVIOUS
    <3>2. Ballot(asked[c], Tail(left[c]), w)
      BY <2>2, <3>1, <1>2, <1>3, BallotGoesOn DEF Vote
    <3>3. votes' = [votes EXCEPT ![c] = w]
      BY <2>2, <3>1 DEF Vote
    <3> QED
      BY <3>2, <3>3, Locals
  <2> QED
    BY <2>1, <2>2
<1>5. /\ DOMAIN left' = Call /\ left'[c] = Tail(left[c])
      /\ \A d \in Call \ {c} : left'[d] = left[d]
  BY <1>2, Locals
<1> QED
  BY <1>1, <1>2, <1>3, <1>4, <1>5, Locals, OneCallVotes

(* The quorum is met. *)
LEMMA QuorumElects ==
  ASSUME Elected, NEW c \in Call, QuorumMet(c)
  PROVE  Elected'
<1>1. Pins'
  BY PinsStep DEF Elected, Next, Step
<1>2. /\ pc[c] = "ask" /\ left[c] = <<>>
      /\ pc' = [pc EXCEPT ![c] = "fetch"]
      /\ votes' = [votes EXCEPT ![c] = NoVotes]
      /\ UNCHANGED <<config, spent, what, asked, left>>
  BY DEF QuorumMet
<1>3. PICK s \in Set : votes[c][s] >= Required(c) /\ id' = [id EXCEPT ![c] = s]
  BY DEF QuorumMet, Winners
<1>4. Ballot(asked[c], <<>>, votes[c]) /\ asked[c] \in Config
  BY <1>2, Locals DEF Elected, Ballots
<1>5. Dishonest(asked[c].relays) < Needed(asked[c].quorum, Len(asked[c].relays)) => s \in Real
  BY <1>3, <1>4, QuorumIsReal DEF Required
<1>6. Ballot(asked[c], <<>>, NoVotes)
  BY <1>4, EmptyBallot
<1>7. /\ pc'[c] = "fetch" /\ id'[c] = s /\ votes'[c] = NoVotes /\ DOMAIN votes' = Call
      /\ \A d \in Call \ {c} : pc'[d] = pc[d] /\ id'[d] = id[d] /\ votes'[d] = votes[d]
  BY <1>2, <1>3, Locals
<1> QED
  BY <1>1, <1>2, <1>5, <1>6, <1>7, Locals, OneCallVotes

(* A call returns: no votes, nothing to fetch. *)
LEMMA ReturnVotes ==
  ASSUME Elected, NEW c \in Call, NoQuorum(c) \/ FetchFails(c) \/ SetPin(c)
  PROVE  Elected'
<1>1. Pins'
  BY PinsStep DEF Elected, Next, Step
<1>2. /\ pc' = [pc EXCEPT ![c] = "idle"]
      /\ what' = [what EXCEPT ![c] = "observed"]
      /\ id' = [id EXCEPT ![c] = None]
      /\ asked' = [asked EXCEPT ![c] = config]
      /\ left' = [left EXCEPT ![c] = <<>>]
      /\ votes' = [votes EXCEPT ![c] = NoVotes]
      /\ UNCHANGED <<config, spent>>
  BY DEF NoQuorum, FetchFails, SetPin, Return
<1>3. /\ asked' \in [Call -> Config] /\ DOMAIN left' = Call /\ DOMAIN votes' = Call
      /\ pc'[c] = "idle" /\ asked'[c] = config /\ left'[c] = <<>>
      /\ votes'[c] = NoVotes /\ id'[c] = None
  BY <1>2, Locals
<1>4. Ballot(asked'[c], left'[c], votes'[c])
  BY <1>3, EmptyBallot, Locals
<1>5. \A d \in Call \ {c} : /\ pc'[d] = pc[d] /\ what'[d] = what[d] /\ id'[d] = id[d]
                            /\ asked'[d] = asked[d] /\ left'[d] = left[d]
                            /\ votes'[d] = votes[d]
  BY <1>2, Locals
<1> QED
  BY <1>1, <1>2, <1>3, <1>4, <1>5, Locals, OneCallVotes

(* What was fetched is stored: it is still what was voted for. *)
LEMMA StoreVotes ==
  ASSUME Elected, NEW c \in Call, StoreFetched(c)
  PROVE  Elected'
<1>1. Pins'
  BY PinsStep DEF Elected, Next, Step
<1>2. /\ pc[c] = "fetch" /\ pc' = [pc EXCEPT ![c] = "pin"]
      /\ UNCHANGED <<config, spent, what, id, asked, left, votes>>
  BY DEF StoreFetched
<1>3. /\ Ballot(asked[c], left[c], votes[c])
      /\ left[c] = <<>> /\ votes[c] = NoVotes
      /\ what[c] = "refresh" /\ Dishonest(asked[c].relays) < Needed(asked[c].quorum, Len(asked[c].relays))
         => id[c] \in Real
  BY <1>2 DEF Elected, Ballots, Required
<1>4. pc'[c] = "pin" /\ \A d \in Call \ {c} : pc'[d] = pc[d]
  BY <1>2, Locals
<1> QED
  BY <1>1, <1>2, <1>3, <1>4, Locals, OneCallVotes

(* Steps of the application that are no call's leave the ballots alone, and *)
(* a restart ends every call.                                               *)
LEMMA ApplicationVotes ==
  ASSUME Elected,
         \/ \E s \in Set : TrustFromSet(s)
         \/ \E k \in Kind : Clear(k)
         \/ \E g \in Config : SetPool(g)
         \/ Save \/ Restore \/ UNCHANGED vars
  PROVE  Elected'
<1>1. Pins'
  BY PinsStep DEF Elected, Next
<1>2. CASE ~Restore
  <2>1. UNCHANGED callVars /\ config' \in Config
    BY <1>2, Locals DEF TrustFromSet, Clear, SetPool, Save, vars
  <2>2. spent' \in 0..Budget
    BY <1>2, SpendCounts, Locals DEF TrustFromSet, Clear, SetPool, Save, vars
  <2> QED
    BY <1>1, <2>1, <2>2 DEF Elected, Ballots, Required, callVars
<1>3. CASE Restore
  <2>1. /\ config' \in Config
        /\ pc' = [c \in Call |-> "idle"]
        /\ id' = [c \in Call |-> None]
        /\ asked' = [c \in Call |-> config']
        /\ left' = [c \in Call |-> <<>>]
        /\ votes' = [c \in Call |-> NoVotes]
    BY <1>3 DEF Restore
  <2>2. spent' \in 0..Budget
    BY <1>3, SpendCounts DEF Restore
  <2>3. \A c \in Call : Ballot(asked'[c], left'[c], votes'[c])
    BY <2>1, EmptyBallot
  <2> QED
    BY <1>1, <2>1, <2>2, <2>3 DEF Elected, Ballots
<1> QED
  BY <1>2, <1>3

(* The ballots are in order from the start and after every step. *)
LEMMA ElectedStep == Elected /\ [Next]_vars => Elected'
BY BeginVotes, VoteCounts, QuorumElects, ReturnVotes, StoreVotes, ApplicationVotes
   DEF Next, Step

(* Nobody has voted when a client is new. *)
LEMMA ElectedInit == Init => Elected
<1> SUFFICES ASSUME Init PROVE Elected
  OBVIOUS
<1>1. /\ config \in Config /\ spent = 0
      /\ pc = [c \in Call |-> "idle"]
      /\ id = [c \in Call |-> None]
      /\ asked = [c \in Call |-> config]
      /\ left = [c \in Call |-> <<>>]
      /\ votes = [c \in Call |-> NoVotes]
  BY DEF Init
<1>2. \A c \in Call : Ballot(asked[c], left[c], votes[c])
  BY <1>1, EmptyBallot
<1> QED
  BY <1>1, <1>2, PinsInit, TrustPinsAssumption DEF Elected, Ballots

(* Every vote under way is a true count of the relays asked. *)
THEOREM VotesAreTrue == Spec => []Elected
  BY ElectedInit, ElectedStep, PTL DEF Spec

(* Relays that are fewer than the quorum asks for cannot have a root of     *)
(* theirs pinned: whatever they sign, the votes for it count them only, and *)
(* the quorum is one of the pool the vote began with, though it was swapped *)
(* meanwhile (client.rs:575-582).                                           *)
THEOREM QuorumPins == Spec => MinorityCannotPin
<1>1. Elected =>
        \A c \in Call :
          /\ SetPin(c) /\ what[c] = "refresh"
          /\ Dishonest(asked[c].relays) < Needed(asked[c].quorum, Len(asked[c].relays))
          => pin'["semi_trusted"] \in Real
  <2> SUFFICES ASSUME Elected, NEW c \in Call, SetPin(c), what[c] = "refresh",
                      Dishonest(asked[c].relays) < Needed(asked[c].quorum, Len(asked[c].relays))
               PROVE  pin'["semi_trusted"] \in Real
    OBVIOUS
  <2>1. pc[c] = "pin" /\ pin' = [pin EXCEPT !["semi_trusted"] = id[c]]
    BY DEF SetPin, KindOf
  <2>2. id[c] \in Real
    BY <2>1 DEF Elected, Ballots, Required
  <2>3. "semi_trusted" \in DOMAIN pin
    BY DEF Elected, Pins, Holds, Kind
  <2> QED
    BY <2>1, <2>2, <2>3
<1> QED
  BY <1>1, VotesAreTrue, PTL DEF MinorityCannotPin

(* Everything keeps its type; in particular a call has an id exactly while  *)
(* it fetches or pins, and no set has more votes than relays were asked.    *)
THEOREM TypeCorrect == Spec => []TypeOK
<1>1. Elected => TypeOK
  <2> SUFFICES ASSUME Elected PROVE TypeOK
    OBVIOUS
  <2>1. DOMAIN veritas \subseteq UNION {DOMAIN Anchors[s] : s \in Set}
    BY DEF Elected, Pins, Rebuilt, Holds, Merged, Stored, SetOrNone
  <2>2. ASSUME NEW c \in Call
        PROVE  /\ EndOf(left[c], asked[c].relays)
               /\ votes[c] \in [Set -> 0..Len(asked[c].relays)]
               /\ pc[c] # "ask" => left[c] = <<>>
               /\ id[c] # None <=> pc[c] \in {"fetch", "pin"}
    <3>1. Ballot(asked[c], left[c], votes[c]) /\ asked[c] \in Config
      BY Locals DEF Elected, Ballots
    <3>2. Len(asked[c].relays) \in Nat /\ Len(left[c]) \in Nat
      BY <3>1, TrustPinsAssumption DEF Ballot
    <3>3. ASSUME NEW s \in Set
          PROVE  votes[c][s] \in Nat /\ votes[c][s] <= Len(asked[c].relays)
      <4>1. votes[c][s] \in Nat /\ votes[c][s] <= Len(asked[c].relays) - Len(left[c])
        BY <3>1 DEF Ballot, Asked
      <4>2. PICK n \in Nat, m \in Nat : n = Len(asked[c].relays) /\ m = Len(left[c])
        BY <3>2
      <4>3. \A x \in Nat : x <= n - m => x <= n
        OBVIOUS
      <4> QED
        BY <4>1, <4>2, <4>3
    <3>4. votes[c] \in [Set -> 0..Len(asked[c].relays)]
      BY <3>1, <3>2, <3>3 DEF Ballot
    <3>5. id[c] # None <=> pc[c] \in {"fetch", "pin"}
      BY TrustPinsAssumption, Locals DEF Elected, Pins, Holds, Ballots, PCs
    <3> QED
      BY <3>1, <3>4, <3>5 DEF Ballot, Elected, Ballots
  <2> QED
    BY <2>1, <2>2, Locals DEF TypeOK, Elected, Pins, Holds, SetOrNone, PCs
<1> QED
  BY <1>1, VotesAreTrue, PTL
===============================================================================
