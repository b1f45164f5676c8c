--------------------------- MODULE Retention_proofs ---------------------------
(***************************************************************************)
(* Proofs about Retention: what a sweep may take, and what the triggers    *)
(* count and weigh, for any handles, spaces, messages and configurations.  *)
(***************************************************************************)
EXTENDS Retention, FiniteSetTheorems, TLAPS

(* What the sweep has chosen are sub-handles of its victim. *)
SubsChosen == chosen \cap Spaces = {}

(* Rows are of handles, in epochs there are, and finitely many. *)
RowsSound ==
  /\ Stored \subseteq Handle
  /\ \A h \in Stored : rows[h].epoch \in Epoch
  /\ IsFiniteSet(Stored)

(* So are the messages that bring them. *)
IncomingSound ==
  /\ DOMAIN incoming = Writer
  /\ \A w \in Writer : incoming[w] # None =>
       incoming[w].handle \in Handle /\ incoming[w].epoch \in Epoch

EpochsOf(sp) == {e \in Epoch : <<sp, e>> \in DOMAIN counts}
BucketsFinite == \A sp \in Spaces : IsFiniteSet(EpochsOf(sp))

(* A root is its own space, so no sub-handle is a root. *)
LEMMA RootOfItself == \A r \in Spaces : r \in Handle /\ SpaceOf[r] = r
  BY RetentionAssumption DEF Spaces

(* Candidates for eviction are never roots (eviction_candidates). *)
LEMMA CandidatesAreSubs == Candidates \cap Spaces = {}
  BY RootOfItself DEF Candidates, Oldest

(* So a victim's root is never chosen. *)
LEMMA SubsChosenInductive ==
  /\ Init => SubsChosen
  /\ SubsChosen /\ [Next]_vars => SubsChosen'
<1>1. Init => SubsChosen
  BY DEF Init, SubsChosen
<1>2. ASSUME SubsChosen, [Next]_vars PROVE SubsChosen'
  <2>1. Spaces' = Spaces
    BY DEF Spaces
  <2>2. CASE SweepChoose
    <3>1. chosen' \subseteq Candidates
      BY <2>2 DEF SweepChoose, Oldest
    <3> QED
      BY <3>1, <2>1, CandidatesAreSubs DEF SubsChosen
  <2>3. CASE chosen' \in {chosen, {}}
    BY <1>2, <2>1, <2>3 DEF SubsChosen
  <2>4. SweepChoose \/ chosen' \in {chosen, {}}
    BY <1>2 DEF Next, Message, Receive, Refused, Admitted, Query, Sweep, SweepBegin,
       SweepEnough, SweepCheck, SweepPick, SweepNoVictim, SweepExhausted, SweepDelete,
       SweepFails, SweepDone, vars, sweep
  <2> QED
    BY <2>2, <2>3, <2>4
<1> QED
  BY <1>1, <1>2

(* Rows and buckets change by a message that is stored or by a deletion. *)
LEMMA WhatChangesStorage ==
  ASSUME [Next]_vars
  PROVE  \/ \E w \in Writer : Admitted(w)
         \/ SweepDelete
         \/ UNCHANGED storage
  BY DEF Next, Message, Receive, Refused, Query, Sweep, SweepBegin,
     SweepEnough, SweepCheck, SweepPick, SweepNoVictim, SweepExhausted, SweepChoose,
     SweepFails, SweepDone, vars, storage, sweep

(* A root once stored stays: the sweep, which alone deletes, has chosen     *)
(* sub-handles only.                                                        *)
THEOREM RootsStay == Spec => RootsKept
<1>1. ASSUME SubsChosen, [Next]_vars
      PROVE  [Stored \cap Spaces \subseteq Stored']_vars
  <2>1. CASE \E w \in Writer : Admitted(w)
    BY <2>1 DEF Admitted, Write, Stored
  <2>2. CASE SweepDelete
    BY <1>1, <2>2 DEF SweepDelete, Stored, SubsChosen
  <2>3. CASE UNCHANGED storage
    BY <2>3 DEF storage, Stored
  <2> QED
    BY <1>1, <2>1, <2>2, <2>3, WhatChangesStorage
<1> QED
  BY <1>1, SubsChosenInductive, PTL DEF Spec, RootsKept

-----------------------------------------------------------------------------
(* What a stored message does to rows and buckets. *)
LEMMA WriteStep ==
  ASSUME NEW h, NEW e, NEW z, Write(h, e, z)
  PROVE  /\ Stored' = Stored \cup {h}
         /\ rows'[h].epoch = e
         /\ \A g \in Stored \ {h} : rows'[g] = rows[g]
         /\ DOMAIN counts' = DOMAIN counts \cup {<<SpaceOf[h], e>>}
<1>1. rows' = [x \in Stored \cup {h} |->
                 IF x = h THEN [epoch |-> e, size |-> z] ELSE rows[x]]
  BY DEF Write
<1>2. counts' = Counted(CountsWithout({h} \cap Stored), <<SpaceOf[h], e>>)
  BY DEF Write
<1>3. DOMAIN CountsWithout({h} \cap Stored) = DOMAIN counts
  BY DEF CountsWithout
<1>4. /\ Stored' = Stored \cup {h}
      /\ rows'[h].epoch = e
      /\ \A g \in Stored \ {h} : rows'[g] = rows[g]
  BY <1>1 DEF Stored
<1> HIDE DEF CountsWithout
<1>5. DOMAIN counts' = DOMAIN counts \cup {<<SpaceOf[h], e>>}
  BY <1>2, <1>3 DEF Counted
<1> QED
  BY <1>4, <1>5

(* Types of rows and messages. *)
Typed == RowsSound /\ IncomingSound /\ BucketsFinite

(* The types hold and no step breaks them. *)
LEMMA TypedInductive ==
  /\ Init => Typed
  /\ Typed /\ [Next]_vars => Typed'
<1>1. ASSUME Init PROVE Typed
  <2>1. Stored = {} /\ DOMAIN counts = {} /\ incoming = [w \in Writer |-> None]
    BY <1>1 DEF Init, Stored
  <2>2. \A sp \in Spaces : EpochsOf(sp) = {}
    BY <2>1 DEF EpochsOf
  <2>3. IsFiniteSet({})
    BY FS_EmptySet
  <2> QED
    BY <2>1, <2>2, <2>3 DEF Typed, RowsSound, IncomingSound, BucketsFinite
<1>2. ASSUME Typed, [Next]_vars PROVE Typed'
  <2>1. IncomingSound'
    <3>1. ASSUME NEW w \in Writer, NEW h \in Handle, NEW e \in Epoch, NEW z \in Size,
                 Receive(w, h, e, z)
          PROVE  IncomingSound'
      BY <1>2, <3>1 DEF Receive, Typed, IncomingSound
    <3>2. ASSUME NEW w \in Writer, Refused(w) \/ Admitted(w) PROVE IncomingSound'
      <4>1. incoming' = [incoming EXCEPT ![w] = None]
        BY <3>2 DEF Refused, Admitted
      <4> QED
        BY <1>2, <4>1 DEF Typed, IncomingSound
    <3>3. CASE incoming' = incoming
      BY <1>2, <3>3 DEF Typed, IncomingSound
    <3> QED
      BY <1>2, <3>1, <3>2, <3>3 DEF Next, Message, Query, Sweep, SweepBegin, SweepEnough,
         SweepCheck, SweepPick, SweepNoVictim, SweepExhausted, SweepChoose, SweepDelete,
         SweepFails, vars
  <2>2. ASSUME NEW w \in Writer, Admitted(w) PROVE RowsSound' /\ BucketsFinite'
    <3>1. PICK h \in Handle, e \in Epoch, z \in {incoming[w].size} :
                 Write(h, e, z)
      BY <1>2, <2>2 DEF Admitted, Typed, IncomingSound
    <3>2. /\ Stored' = Stored \cup {h}
          /\ rows'[h].epoch = e
          /\ \A g \in Stored \ {h} : rows'[g] = rows[g]
          /\ DOMAIN counts' = DOMAIN counts \cup {<<SpaceOf[h], e>>}
      BY <3>1, WriteStep
    <3>3. RowsSound'
      <4>1. IsFiniteSet(Stored \cup {h})
        BY <1>2, FS_AddElement DEF Typed, RowsSound
      <4> QED
        BY <1>2, <3>1, <3>2, <4>1 DEF Typed, RowsSound
    <3>4. ASSUME NEW sp \in Spaces PROVE IsFiniteSet(EpochsOf(sp)')
      <4>1. EpochsOf(sp)' \subseteq EpochsOf(sp) \cup {e}
        BY <3>2 DEF EpochsOf
      <4>2. IsFiniteSet(EpochsOf(sp) \cup {e})
        BY <1>2, FS_AddElement DEF Typed, BucketsFinite
      <4> QED
        BY <4>1, <4>2, FS_Subset
    <3>5. BucketsFinite'
      BY <3>4 DEF BucketsFinite, Spaces
    <3> QED
      BY <3>3, <3>5
  <2>3. CASE SweepDelete
    <3>1. /\ rows' = [h \in Stored \ chosen |-> rows[h]]
          /\ counts' = CountsWithout(chosen)
      BY <2>3 DEF SweepDelete
    <3>2. Stored' = Stored \ chosen /\ \A h \in Stored' : rows'[h] = rows[h]
      BY <3>1 DEF Stored
    <3>3. DOMAIN counts' = DOMAIN counts
      BY <3>1 DEF CountsWithout
    <3>4. IsFiniteSet(Stored \ chosen)
      BY <1>2, FS_Subset DEF Typed, RowsSound
    <3> QED
      BY <1>2, <2>1, <3>2, <3>3, <3>4
         DEF Typed, RowsSound, BucketsFinite, EpochsOf, Spaces
  <2>4. CASE UNCHANGED storage
    BY <1>2, <2>1, <2>4
       DEF storage, Typed, RowsSound, BucketsFinite, EpochsOf, Spaces, Stored
  <2> QED
    BY <1>2, <2>1, <2>2, <2>3, <2>4, WhatChangesStorage DEF Typed
<1> QED
  BY <1>1, <1>2

-----------------------------------------------------------------------------
(* The buckets of a space are only ever added to: an eviction, or a          *)
(* replacement, leaves the bucket it empties.                                *)
LEMMA BucketsStay == ASSUME [Next]_vars PROVE DOMAIN counts \subseteq DOMAIN counts'
<1>1. CASE \E w \in Writer : Admitted(w)
  BY <1>1, WriteStep DEF Admitted
<1>2. CASE SweepDelete
  BY <1>2 DEF SweepDelete, CountsWithout
<1>3. CASE UNCHANGED storage
  BY <1>3 DEF storage
<1> QED
  BY <1>1, <1>2, <1>3, WhatChangesStorage

(* A space never loses entitlement: the epochs that earned it keep their     *)
(* buckets, whatever is evicted (space_epoch_counts, store.rs:89-92).        *)
THEOREM EntitlementStays == Spec => EntitlementKept
<1>1. ASSUME Typed, Typed', [Next]_vars
      PROVE  [\A sp \in Spaces : Epochs(sp) <= Epochs(sp)']_vars
  <2>1. ASSUME NEW sp \in Spaces PROVE Epochs(sp) <= Epochs(sp)'
    <3>1. EpochsOf(sp) \subseteq EpochsOf(sp)'
      BY <1>1, BucketsStay DEF EpochsOf
    <3>2. IsFiniteSet(EpochsOf(sp)')
      BY <1>1 DEF Typed, BucketsFinite, Spaces
    <3>3. Cardinality(EpochsOf(sp)) <= Cardinality(EpochsOf(sp)')
      BY <3>1, <3>2, FS_Subset
    <3> QED
      BY <3>3 DEF Epochs, EpochsOf
  <2> QED
    BY <2>1
<1> QED
  BY <1>1, TypedInductive, PTL DEF Spec, EntitlementKept

-----------------------------------------------------------------------------
(* The sweep deletes rows there are, and buckets are of spaces and epochs. *)
Counting ==
  /\ chosen \subseteq Stored
  /\ DOMAIN counts \subseteq Spaces \X Epoch
  /\ CountsTrue

(* What the delete trigger leaves in a bucket is what is left of its rows. *)
LEMMA LeftInBucket ==
  ASSUME RowsSound, CountsTrue, NEW gone \in SUBSET Stored, NEW b \in DOMAIN counts
  PROVE  CountsWithout(gone)[b] = Cardinality(Bucket(b) \ gone)
<1>1. {h \in gone : SpaceOf[h] = b[1] /\ rows[h].epoch = b[2]} = Bucket(b) \cap gone
  BY DEF Bucket
<1>2. CountsWithout(gone)[b] = counts[b] - Cardinality(Bucket(b) \cap gone)
  BY <1>1 DEF CountsWithout
<1>3. IsFiniteSet(Bucket(b))
  BY FS_Subset DEF RowsSound, Bucket
<1>4. Cardinality(Bucket(b) \ gone) = Cardinality(Bucket(b)) - Cardinality(Bucket(b) \cap gone)
  BY <1>3, FS_Difference
<1> QED
  BY <1>2, <1>4 DEF CountsTrue

(* A stored message adds one row to its bucket. *)
LEMMA WriteCounts ==
  ASSUME NEW h, NEW e, NEW z, Write(h, e, z), NEW b \in DOMAIN counts'
  PROVE  counts'[b] =
           (IF b \in DOMAIN counts THEN CountsWithout({h} \cap Stored)[b] ELSE 0)
             + (IF b = <<SpaceOf[h], e>> THEN 1 ELSE 0)
<1>1. counts' = Counted(CountsWithout({h} \cap Stored), <<SpaceOf[h], e>>)
  BY DEF Write
<1>2. DOMAIN CountsWithout({h} \cap Stored) = DOMAIN counts
  BY DEF CountsWithout
<1> HIDE DEF CountsWithout
<1> QED
  BY <1>1, <1>2 DEF Counted

(* The row leaves the bucket it was in and is counted in the one it enters. *)
LEMMA WriteKeepsCounting ==
  ASSUME RowsSound, Counting, NEW h \in Handle, NEW e \in Epoch, NEW z, Write(h, e, z)
  PROVE  /\ DOMAIN counts' \subseteq Spaces \X Epoch
         /\ CountsTrue'
<1> DEFINE new == <<SpaceOf[h], e>>
           gone == {h} \cap Stored
<1>1. /\ Stored' = Stored \cup {h}
      /\ rows'[h].epoch = e
      /\ \A g \in Stored \ {h} : rows'[g] = rows[g]
      /\ DOMAIN counts' = DOMAIN counts \cup {new}
  BY WriteStep
<1>2. new \in Spaces \X Epoch
  BY DEF Spaces
<1>3. DOMAIN counts' \subseteq Spaces \X Epoch
  BY <1>1, <1>2 DEF Counting
<1>4. ASSUME NEW b \in DOMAIN counts' PROVE counts'[b] = Cardinality(Bucket(b)')
  <2>1. counts'[b] = (IF b \in DOMAIN counts THEN CountsWithout(gone)[b] ELSE 0)
                       + (IF b = new THEN 1 ELSE 0)
    BY WriteCounts
  <2>2. b = new <=> (SpaceOf[h] = b[1] /\ e = b[2])
    BY <1>3, <1>2
  <2>3. Bucket(b)' = (Bucket(b) \ {h}) \cup (IF b = new THEN {h} ELSE {})
    BY <1>1, <2>2 DEF Bucket
  <2>4. Bucket(b) \ {h} = Bucket(b) \ gone
    BY DEF Bucket
  <2>5. IsFiniteSet(Bucket(b) \ {h})
    BY FS_Subset DEF RowsSound, Bucket
  <2>6. (IF b \in DOMAIN counts THEN CountsWithout(gone)[b] ELSE 0)
          = Cardinality(Bucket(b) \ {h})
    <3>1. CASE b \in DOMAIN counts
      BY <3>1, <2>4, LeftInBucket DEF Counting
    <3>2. CASE b \notin DOMAIN counts
      <4>1. b = new
        BY <1>1, <3>2
      <4>2. Bucket(b) = {}
        BY <4>1, <3>2 DEF Bucket, Counting, CountsTrue
      <4>3. Bucket(b) \ {h} = {}
        BY <4>2
      <4> QED
        BY <3>2, <4>3, FS_EmptySet
    <3> QED
      BY <3>1, <3>2
  <2> DEFINE left == Bucket(b) \ {h}
  <2>7. /\ Cardinality(left) \in Nat
        /\ Cardinality(left \cup {h}) = Cardinality(left) + 1
        /\ left \cup {} = left
    BY <2>5, FS_CardinalityType, FS_AddElement
  <2> HIDE DEF left, new
  <2>8. Bucket(b)' = left \cup (IF b = new THEN {h} ELSE {})
    BY <2>3 DEF left
  <2>9. counts'[b] = Cardinality(left) + (IF b = new THEN 1 ELSE 0)
    BY <2>1, <2>6 DEF left
  <2>10. CASE b = new
    <3>1. Bucket(b)' = left \cup {h}
      BY <2>8, <2>10
    <3>2. counts'[b] = Cardinality(left) + 1
      BY <2>9, <2>10
    <3> QED
      BY <3>1, <3>2, <2>7
  <2>11. CASE b # new
    <3>1. Bucket(b)' = left
      BY <2>8, <2>11
    <3>2. counts'[b] = Cardinality(left)
      BY <2>7, <2>9, <2>11
    <3> QED
      BY <3>1, <3>2
  <2> QED
    BY <2>10, <2>11
<1>5. ASSUME NEW g \in Stored' PROVE <<SpaceOf[g], rows'[g].epoch>> \in DOMAIN counts'
  BY <1>1, <1>5 DEF Counting, CountsTrue
<1> QED
  BY <1>3, <1>4, <1>5 DEF CountsTrue

(* A deletion takes as many from each bucket as it had of the rows. *)
LEMMA DeleteKeepsCounting ==
  ASSUME RowsSound, Counting, SweepDelete
  PROVE  /\ DOMAIN counts' \subseteq Spaces \X Epoch
         /\ CountsTrue'
<1>1. /\ rows' = [h \in Stored \ chosen |-> rows[h]]
      /\ counts' = CountsWithout(chosen)
  BY DEF SweepDelete
<1>2. Stored' = Stored \ chosen /\ \A h \in Stored' : rows'[h] = rows[h]
  BY <1>1 DEF Stored
<1>3. DOMAIN counts' = DOMAIN counts
  BY <1>1 DEF CountsWithout
<1>4. ASSUME NEW b \in DOMAIN counts' PROVE counts'[b] = Cardinality(Bucket(b)')
  <2>1. Bucket(b)' = Bucket(b) \ chosen
    BY <1>2 DEF Bucket
  <2> QED
    BY <1>1, <1>3, <2>1, LeftInBucket DEF Counting
<1> QED
  BY <1>2, <1>3, <1>4 DEF Counting, CountsTrue

(* What the sweep has chosen is still stored: it alone deletes. *)
LEMMA ChosenIsStored ==
  ASSUME chosen \subseteq Stored, [Next]_vars
  PROVE  (chosen \subseteq Stored)'
<1>1. CASE SweepDelete
  BY <1>1 DEF SweepDelete
<1>2. CASE SweepChoose
  <2>1. chosen' \subseteq Stored
    BY <1>2 DEF SweepChoose, Oldest, Candidates
  <2>2. Stored' = Stored
    BY <1>2 DEF SweepChoose, storage, Stored
  <2> QED
    BY <2>1, <2>2
<1>3. CASE \E w \in Writer : Admitted(w)
  BY <1>3, WriteStep DEF Admitted, sweep
<1>4. CASE chosen' \in {chosen, {}} /\ UNCHANGED storage
  BY <1>4 DEF storage, Stored
<1>5. SweepDelete \/ SweepChoose \/ (\E w \in Writer : Admitted(w))
        \/ (chosen' \in {chosen, {}} /\ UNCHANGED storage)
  BY DEF Next, Message, Receive, Refused, Query, Sweep, SweepBegin, SweepEnough,
     SweepCheck, SweepPick, SweepNoVictim, SweepExhausted, SweepFails, SweepDone,
     vars, storage, sweep
<1> QED
  BY <1>1, <1>2, <1>3, <1>4, <1>5

-----------------------------------------------------------------------------
(* Every row has a size. *)
SizesSound == \A h \in Stored : rows[h].size \in Size

(* Bytes of a row are as many as its size. *)
LEMMA BytesOfRow ==
  ASSUME NEW h, NEW n \in Nat
  PROVE  IsFiniteSet({h} \X (1..n)) /\ Cardinality({h} \X (1..n)) = n
<1>1. IsFiniteSet(1..n) /\ Cardinality(1..n) = n
  BY FS_Interval
<1>2. IsFiniteSet({h}) /\ Cardinality({h}) = 1
  BY FS_Singleton
<1> DEFINE row == {h}
           places == 1..n
<1> HIDE DEF row, places
<1>3. IsFiniteSet(row \X places) /\ Cardinality(row \X places) = 1 * n
  <2>1. IsFiniteSet(row) /\ Cardinality(row) = 1
    BY <1>2 DEF row
  <2>2. IsFiniteSet(places) /\ Cardinality(places) = n
    BY <1>1 DEF places
  <2>3. IsFiniteSet(row \X places)
          /\ Cardinality(row \X places) = Cardinality(row) * Cardinality(places)
    BY <2>1, <2>2, FS_Product
  <2> QED
    BY <2>1, <2>2, <2>3
<1> QED
  BY <1>3 DEF row, places

(* The payload of finitely many rows is finite. *)
LEMMA PayloadFinite ==
  ASSUME RowsSound, SizesSound, NEW S \in SUBSET Stored
  PROVE  IsFiniteSet(Payload(S))
<1> DEFINE part == [h \in S |-> {h} \X (1..rows[h].size)]
           parts == {{h} \X (1..rows[h].size) : h \in S}
<1>1. IsFiniteSet(S)
  BY FS_Subset DEF RowsSound
<1>2. part \in Surjection(S, parts)
  <2>1. part \in [S -> parts]
    OBVIOUS
  <2>2. \A T \in parts : \E h \in S : part[h] = T
    OBVIOUS
  <2> QED
    BY <2>1, <2>2 DEF Surjection
<1>3. IsFiniteSet(parts)
  BY <1>1, <1>2, FS_Surjection
<1>4. ASSUME NEW T \in parts PROVE IsFiniteSet(T)
  <2>1. PICK h \in S : T = {h} \X (1..rows[h].size)
    OBVIOUS
  <2>2. rows[h].size \in Nat
    BY RetentionAssumption DEF SizesSound
  <2> QED
    BY <2>1, <2>2, BytesOfRow
<1> HIDE DEF parts
<1>5. IsFiniteSet(UNION parts)
  BY <1>3, <1>4, FS_UNION
<1> QED
  BY <1>5 DEF Payload, parts

(* So a number of bytes is a natural number. *)
LEMMA BytesNat ==
  ASSUME RowsSound, SizesSound, NEW S \in SUBSET Stored
  PROVE  BytesOf(S) \in Nat
  BY PayloadFinite, FS_CardinalityType DEF BytesOf

(* What is taken from the rows is taken from their payload. *)
LEMMA BytesLeft ==
  ASSUME RowsSound, SizesSound, NEW gone \in SUBSET Stored
  PROVE  BytesOf(Stored \ gone) = BytesOf(Stored) - BytesOf(gone)
<1>1. Payload(Stored \ gone) = Payload(Stored) \ Payload(gone)
  BY DEF Payload
<1>2. Payload(Stored) \cap Payload(gone) = Payload(gone)
  BY DEF Payload
<1>3. IsFiniteSet(Payload(Stored))
  BY PayloadFinite
<1>4. Cardinality(Payload(Stored) \ Payload(gone))
        = Cardinality(Payload(Stored)) - Cardinality(Payload(Stored) \cap Payload(gone))
  BY <1>3, FS_Difference
<1> QED
  BY <1>1, <1>2, <1>4 DEF BytesOf

(* Rows that a step leaves as they were weigh what they weighed. *)
LEMMA BytesKept ==
  ASSUME NEW S, \A h \in S : rows'[h] = rows[h]
  PROVE  Payload(S)' = Payload(S)
  BY DEF Payload

(* A stored message is a row of its size. *)
LEMMA WriteSizes ==
  ASSUME SizesSound, NEW h, NEW e, NEW z \in Size, Write(h, e, z)
  PROVE  rows'[h].size = z /\ SizesSound'
<1>1. rows' = [x \in Stored \cup {h} |->
                 IF x = h THEN [epoch |-> e, size |-> z] ELSE rows[x]]
  BY DEF Write
<1>2. rows'[h].size = z
  BY <1>1
<1>3. \A g \in Stored \ {h} : rows'[g] = rows[g]
  BY <1>1
<1> QED
  BY <1>2, <1>3, WriteStep DEF SizesSound

(* Its bytes replace those of the row it displaces. *)
LEMMA WriteKeepsBytes ==
  ASSUME RowsSound, SizesSound, BytesTrue, NEW h, NEW e, NEW z \in Size, Write(h, e, z)
  PROVE  BytesTrue'
<1> DEFINE rest == Stored \ {h}
           own == {h} \X (1..z)
<1>1. /\ Stored' = Stored \cup {h}
      /\ \A g \in rest : rows'[g] = rows[g]
      /\ rows'[h].size = z
  BY WriteStep, WriteSizes
<1>2. bytes' = bytes + z - BytesOf({h} \cap Stored)
  BY DEF Write
<1>3. BytesOf(rest) = BytesOf(Stored) - BytesOf({h} \cap Stored)
  <2>1. rest = Stored \ ({h} \cap Stored)
    OBVIOUS
  <2> QED
    BY <2>1, BytesLeft
<1>4. Payload(Stored)' = Payload(rest) \cup own
  BY <1>1 DEF Payload
<1>5. Payload(rest) \cap own = {}
  BY DEF Payload
<1>6. IsFiniteSet(Payload(rest)) /\ BytesOf(rest) \in Nat
  BY PayloadFinite, BytesNat
<1>7. z \in Nat /\ IsFiniteSet(own) /\ Cardinality(own) = z
  BY BytesOfRow, RetentionAssumption
<1>8. Cardinality(Payload(rest) \cup own)
        = Cardinality(Payload(rest)) + Cardinality(own)
            - Cardinality(Payload(rest) \cap own)
  BY <1>6, <1>7, FS_Union
<1>9. Cardinality(Payload(rest) \cup own) = BytesOf(rest) + z
  <2>1. Cardinality(Payload(rest) \cap own) = 0
    BY <1>5, FS_EmptySet
  <2>2. Cardinality(Payload(rest)) = BytesOf(rest)
    BY DEF BytesOf
  <2>3. \A m, n \in Nat : m + n - 0 = m + n
    OBVIOUS
  <2> QED
    BY <1>6, <1>7, <1>8, <2>1, <2>2, <2>3
<1>10. BytesOf(Stored)' = BytesOf(rest) + z
  BY <1>4, <1>9 DEF BytesOf
<1>11. BytesOf(Stored) \in Nat /\ BytesOf({h} \cap Stored) \in Nat
  BY BytesNat
<1> QED
  BY <1>2, <1>3, <1>7, <1>10, <1>11 DEF BytesTrue

(* A deletion takes off what it deletes. *)
LEMMA DeleteKeepsBytes ==
  ASSUME RowsSound, SizesSound, BytesTrue, chosen \subseteq Stored, SweepDelete
  PROVE  SizesSound' /\ BytesTrue'
<1>1. /\ rows' = [h \in Stored \ chosen |-> rows[h]]
      /\ bytes' = bytes - BytesOf(chosen)
  BY DEF SweepDelete
<1>2. Stored' = Stored \ chosen /\ \A h \in Stored' : rows'[h] = rows[h]
  BY <1>1 DEF Stored
<1>3. Payload(Stored)' = Payload(Stored \ chosen)
  BY <1>2 DEF Payload
<1>4. BytesOf(Stored)' = BytesOf(Stored) - BytesOf(chosen)
  BY <1>3, BytesLeft DEF BytesOf
<1> QED
  BY <1>1, <1>2, <1>4 DEF SizesSound, BytesTrue

-----------------------------------------------------------------------------
(* The messages being handled have a size too. *)
SizesIncoming == \A w \in Writer : incoming[w] # None => incoming[w].size \in Size

(* The accounting, with what it takes to be kept: types, and that the sweep *)
(* deletes only what is there.                                              *)
Accounts ==
  /\ Typed /\ SizesSound /\ SizesIncoming
  /\ Counting
  /\ BytesTrue

(* Buckets and bytes hold and no step breaks them. *)
LEMMA AccountsInductive ==
  /\ Init => Accounts
  /\ Accounts /\ [Next]_vars => Accounts'
<1>1. ASSUME Init PROVE Accounts
  <2>1. Stored = {} /\ bytes = 0 /\ DOMAIN counts = {} /\ chosen = {}
          /\ incoming = [w \in Writer |-> None]
    BY <1>1 DEF Init, Stored
  <2>2. Payload({}) = {}
    BY DEF Payload
  <2>3. BytesTrue
    BY <2>1, <2>2, FS_EmptySet DEF BytesTrue, BytesOf
  <2> QED
    BY <1>1, <2>1, <2>3, TypedInductive
       DEF Accounts, SizesSound, SizesIncoming, Counting, CountsTrue
<1>2. ASSUME Accounts, [Next]_vars PROVE Accounts'
  <2>1. Typed'
    BY <1>2, TypedInductive DEF Accounts
  <2>2. SizesIncoming'
    <3>1. ASSUME NEW w \in Writer, NEW h \in Handle, NEW e \in Epoch, NEW z \in Size,
                 Receive(w, h, e, z)
          PROVE  SizesIncoming'
      BY <1>2, <3>1 DEF Receive, Accounts, SizesIncoming, Typed, IncomingSound
    <3>2. ASSUME NEW w \in Writer, Refused(w) \/ Admitted(w) PROVE SizesIncoming'
      <4>1. incoming' = [incoming EXCEPT ![w] = None]
        BY <3>2 DEF Refused, Admitted
      <4> QED
        BY <1>2, <4>1 DEF Accounts, SizesIncoming, Typed, IncomingSound
    <3>3. CASE incoming' = incoming
      BY <1>2, <3>3 DEF Accounts, SizesIncoming
    <3> QED
      BY <1>2, <3>1, <3>2, <3>3 DEF Next, Message, Query, Sweep, SweepBegin, SweepEnough,
         SweepCheck, SweepPick, SweepNoVictim, SweepExhausted, SweepChoose, SweepDelete,
         SweepFails, vars
  <2>3. (chosen \subseteq Stored)'
    BY <1>2, ChosenIsStored DEF Accounts, Counting
  <2> DEFINE Kept == /\ DOMAIN counts \subseteq Spaces \X Epoch
                     /\ CountsTrue
                     /\ SizesSound
                     /\ BytesTrue
  <2>4. ASSUME NEW w \in Writer, Admitted(w) PROVE Kept'
    <3>1. PICK h \in Handle, e \in Epoch, z \in Size : Write(h, e, z)
      BY <1>2, <2>4 DEF Admitted, Accounts, Typed, IncomingSound, SizesIncoming
    <3>2. DOMAIN counts' \subseteq Spaces \X Epoch /\ CountsTrue'
      BY <1>2, <3>1, WriteKeepsCounting DEF Accounts, Typed
    <3>3. SizesSound'
      BY <1>2, <3>1, WriteSizes DEF Accounts
    <3>4. BytesTrue'
      BY <1>2, <3>1, WriteKeepsBytes DEF Accounts, Typed
    <3> QED
      BY <3>2, <3>3, <3>4 DEF Spaces
  <2>5. ASSUME SweepDelete PROVE Kept'
    <3>1. DOMAIN counts' \subseteq Spaces \X Epoch /\ CountsTrue'
      BY <1>2, <2>5, DeleteKeepsCounting DEF Accounts, Typed
    <3>2. SizesSound' /\ BytesTrue'
      BY <1>2, <2>5, DeleteKeepsBytes DEF Accounts, Typed, Counting
    <3> QED
      BY <3>1, <3>2 DEF Spaces
  <2>6. ASSUME UNCHANGED storage PROVE Kept'
    BY <1>2, <2>6 DEF storage, Accounts, Counting, CountsTrue, Bucket, Stored,
       SizesSound, BytesTrue, BytesOf, Payload, Spaces
  <2>7. Kept'
    BY <1>2, <2>4, <2>5, <2>6, WhatChangesStorage
  <2> QED
    BY <2>1, <2>2, <2>3, <2>7 DEF Accounts, Counting
<1> QED
  BY <1>1, <1>2

(* The totals the triggers keep are those of the rows there are, for any     *)
(* mixture of inserts, replacements that change a row's epoch or size, and   *)
(* evictions (store.rs:108-123, 212-214).                                    *)
THEOREM AccountsAreTrue == Spec => []AccountingTrue
<1>1. Accounts => AccountingTrue
  BY DEF Accounts, Counting, AccountingTrue
<1> QED
  BY <1>1, AccountsInductive, PTL DEF Spec

-----------------------------------------------------------------------------
(* The youngest row comes last. *)
LEMMA YoungestLast ==
  ASSUME NEW S, NEW R, Ordering(S, R), NEW h
  PROVE  Ordering(S \cup {h},
                  (R \cap ((S \ {h}) \X (S \ {h}))) \cup ((S \ {h}) \X {h}))
<1> DEFINE rest == S \ {h}
           Q == (R \cap (rest \X rest)) \cup (rest \X {h})
<1>1. \A f, g \in rest : <<f, g>> \in Q <=> <<f, g>> \in R
  OBVIOUS
<1>2. \A g \in rest : <<g, h>> \in Q
  OBVIOUS
<1>3. \A g \in S \cup {h} : <<h, g>> \notin Q
  OBVIOUS
<1>4. Q \subseteq (S \cup {h}) \X (S \cup {h})
  OBVIOUS
<1>5. S \cup {h} = rest \cup {h}
  OBVIOUS
<1> HIDE DEF Q
<1>6. \A f, g \in S \cup {h} : <<f, g>> \in Q <=> f # g /\ <<g, f>> \notin Q
  BY <1>1, <1>2, <1>3, <1>5 DEF Ordering
<1>7. \A f, g, k \in S \cup {h} : <<f, g>> \in Q /\ <<g, k>> \in Q => <<f, k>> \in Q
  BY <1>1, <1>2, <1>3, <1>5 DEF Ordering
<1> QED
  BY <1>4, <1>6, <1>7 DEF Ordering, Q

(* What is left of an order is in the same order. *)
LEMMA RestOrdered ==
  ASSUME NEW S, NEW R, Ordering(S, R), NEW T \in SUBSET S
  PROVE  Ordering(T, R \cap (T \X T))
  BY DEF Ordering

(* What the accounting does not need: the sweep's own variables, and the    *)
(* order of the rows.                                                       *)
SweepTyped ==
  /\ Ordering(Stored, older)
  /\ hot \subseteq Handle \ Spaces
  /\ phase \in {"idle", "check", "pick", "candidates", "delete"}
  /\ phase = "candidates" => victim \in Spaces
  /\ evicted \in BOOLEAN
  /\ batches \in 0..MaxBatches
  /\ exhausted \subseteq Spaces
  /\ victim \in Spaces \cup {None}

(* These hold and no step breaks them. *)
LEMMA SweepTypedInductive ==
  /\ Init => SweepTyped
  /\ SweepTyped /\ Typed /\ [Next]_vars => SweepTyped'
<1>1. ASSUME Init PROVE SweepTyped
  <2>1. Stored = {} /\ older = {}
    BY <1>1 DEF Init, Stored
  <2>2. Ordering(Stored, older)
    BY <2>1 DEF Ordering
  <2>3. 0 \in 0..MaxBatches
    BY RetentionAssumption
  <2> QED
    BY <1>1, <2>2, <2>3 DEF Init, SweepTyped
<1>2. ASSUME SweepTyped, Typed, [Next]_vars PROVE SweepTyped'
  <2>1. Ordering(Stored, older)'
    <3>1. ASSUME NEW w \in Writer, Admitted(w) PROVE Ordering(Stored, older)'
      <4>1. PICK h \in {incoming[w].handle}, e \in {incoming[w].epoch},
                 z \in {incoming[w].size} : Write(h, e, z)
        BY <3>1 DEF Admitted
      <4>2. Stored' = Stored \cup {h}
        BY <4>1, WriteStep
      <4>3. older' = (older \cap ((Stored \ {h}) \X (Stored \ {h})))
                       \cup ((Stored \ {h}) \X {h})
        BY <4>1 DEF Write, Younger
      <4>4. Ordering(Stored, older)
        BY <1>2 DEF SweepTyped
      <4> HIDE DEF Stored
      <4> QED
        BY <4>2, <4>3, <4>4, YoungestLast
    <3>2. CASE SweepDelete
      <4>1. /\ Stored' = Stored \ chosen
            /\ older' = older \cap ((Stored \ chosen) \X (Stored \ chosen))
        BY <3>2 DEF SweepDelete, Stored
      <4> QED
        BY <1>2, <4>1, RestOrdered DEF SweepTyped
    <3>3. CASE UNCHANGED storage
      BY <1>2, <3>3 DEF storage, SweepTyped, Stored
    <3> QED
      BY <1>2, <3>1, <3>2, <3>3, WhatChangesStorage
  <2>2. (hot \subseteq Handle \ Spaces)'
    <3>1. ASSUME NEW h \in Handle, Query(h) PROVE (hot \subseteq Handle \ Spaces)'
      BY <1>2, <3>1 DEF Query, SweepTyped, Spaces
    <3>2. CASE hot' = hot
      BY <1>2, <3>2 DEF SweepTyped, Spaces
    <3> QED
      BY <1>2, <3>1, <3>2 DEF Next, Message, Receive, Refused, Admitted, Sweep, SweepBegin,
         SweepEnough, SweepCheck, SweepPick, SweepNoVictim, SweepExhausted, SweepChoose,
         SweepDelete, SweepFails, vars
  <2> DEFINE Own == /\ phase \in {"idle", "check", "pick", "candidates", "delete"}
                    /\ phase = "candidates" => victim \in Spaces
                    /\ evicted \in BOOLEAN
                    /\ batches \in 0..MaxBatches
                    /\ exhausted \subseteq Spaces
                    /\ victim \in Spaces \cup {None}
  <2>3. Spaces' = Spaces
    BY DEF Spaces
  <2>4. ASSUME SweepDone PROVE Own'
    <3>1. 0 \in 0..MaxBatches
      BY RetentionAssumption
    <3> QED
      BY <2>3, <2>4, <3>1 DEF SweepDone
  <2>5. ASSUME UNCHANGED sweep PROVE Own'
    BY <1>2, <2>3, <2>5 DEF sweep, SweepTyped
  <2>6. ASSUME SweepCheck PROVE Own'
    <3>1. batches \in Nat /\ batches < MaxBatches /\ batches' = batches + 1
      BY <1>2, <2>6 DEF SweepCheck, SweepTyped
    <3>2. batches' \in 0..MaxBatches
      BY <3>1, RetentionAssumption
    <3>3. phase' = "pick" /\ UNCHANGED <<evicted, exhausted, victim>>
      BY <2>6 DEF SweepCheck
    <3> QED
      BY <1>2, <2>3, <3>2, <3>3 DEF SweepTyped
  <2>7. ASSUME SweepBegin PROVE Own'
    BY <1>2, <2>3, <2>7 DEF SweepBegin, SweepTyped
  <2>8. ASSUME SweepPick PROVE Own'
    <3>1. victim' \in Spaces
      BY <2>8 DEF SweepPick, Victims, Usage
    <3> QED
      BY <1>2, <2>3, <2>8, <3>1 DEF SweepPick, SweepTyped
  <2>9. ASSUME SweepExhausted PROVE Own'
    BY <1>2, <2>3, <2>9 DEF SweepExhausted, SweepTyped
  <2>10. ASSUME SweepChoose PROVE Own'
    BY <1>2, <2>3, <2>10 DEF SweepChoose, SweepTyped
  <2>11. ASSUME SweepDelete PROVE Own'
    BY <1>2, <2>3, <2>11 DEF SweepDelete, SweepTyped
  <2>12. Own'
    BY <1>2, <2>4, <2>5, <2>6, <2>7, <2>8, <2>9, <2>10, <2>11 DEF Next, Message, Receive,
       Refused, Admitted, Query, Sweep, SweepEnough, SweepNoVictim, SweepFails, vars
  <2> QED
    BY <2>1, <2>2, <2>12 DEF SweepTyped
<1> QED
  BY <1>1, <1>2

(* A row is a record of its epoch and its size, and nothing else. *)
RowsTyped == rows \in [Stored -> Row]

(* Rows are built by Write alone. *)
LEMMA RowsTypedInductive ==
  /\ Init => RowsTyped
  /\ RowsTyped /\ Accounts /\ [Next]_vars => RowsTyped'
<1>1. ASSUME Init PROVE RowsTyped
  BY <1>1 DEF Init, RowsTyped, Stored
<1>2. ASSUME RowsTyped, Accounts, [Next]_vars PROVE RowsTyped'
  <2>1. ASSUME NEW w \in Writer, Admitted(w) PROVE RowsTyped'
    <3>1. PICK h \in Handle, e \in Epoch, z \in Size : Write(h, e, z)
      BY <1>2, <2>1 DEF Admitted, Accounts, Typed, IncomingSound, SizesIncoming
    <3>2. rows' = [x \in Stored \cup {h} |->
                     IF x = h THEN [epoch |-> e, size |-> z] ELSE rows[x]]
      BY <3>1 DEF Write
    <3>3. [epoch |-> e, size |-> z] \in Row
      BY DEF Row
    <3>4. rows' \in [Stored \cup {h} -> Row]
      BY <1>2, <3>2, <3>3 DEF RowsTyped
    <3>5. Stored' = Stored \cup {h} /\ Row' = Row
      BY <3>2 DEF Stored, Row
    <3> QED
      BY <3>4, <3>5 DEF RowsTyped
  <2>2. CASE SweepDelete
    <3>1. rows' = [h \in Stored \ chosen |-> rows[h]]
      BY <2>2 DEF SweepDelete
    <3>2. rows' \in [Stored \ chosen -> Row]
      BY <1>2, <3>1 DEF RowsTyped
    <3>3. Stored' = Stored \ chosen /\ Row' = Row
      BY <3>1 DEF Stored, Row
    <3> QED
      BY <3>2, <3>3 DEF RowsTyped
  <2>3. CASE UNCHANGED storage
    BY <1>2, <2>3 DEF storage, RowsTyped, Stored, Row
  <2> QED
    BY <1>2, <2>1, <2>2, <2>3, WhatChangesStorage
<1> QED
  BY <1>1, <1>2

(* Rows, buckets, totals and the sweep's variables always have their types:  *)
(* no total falls below zero, no sweep takes more than max_batches_per_sweep *)
(* iterations, and rows are in one order of age.                             *)
THEOREM TypeCorrect == Spec => []TypeOK
<1>1. ASSUME Accounts, SweepTyped, RowsTyped PROVE TypeOK
  <2>1. bytes \in Nat
    BY <1>1, BytesNat DEF Accounts, Typed, BytesTrue
  <2>2. ASSUME NEW b \in DOMAIN counts PROVE counts[b] \in Nat
    <3>1. IsFiniteSet(Bucket(b))
      BY <1>1, FS_Subset DEF Accounts, Typed, RowsSound, Bucket
    <3> QED
      BY <1>1, <3>1, FS_CardinalityType DEF Accounts, Counting, CountsTrue
  <2>3. Stored \subseteq Handle /\ chosen \subseteq Handle
    BY <1>1 DEF Accounts, Typed, RowsSound, Counting
  <2> QED
    BY <1>1, <2>1, <2>2, <2>3 DEF TypeOK, SweepTyped, Accounts, Counting, RowsTyped
<1> QED
  BY <1>1, AccountsInductive, SweepTypedInductive, RowsTypedInductive, PTL DEF Spec, Accounts
===============================================================================
