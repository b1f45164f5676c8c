-------------------------- MODULE HandleStore_proofs --------------------------
(***************************************************************************)
(* Proofs about HandleStore: what survives in the row of a handle, for any *)
(* zones, any number of messages handled at once, and stops anywhere.      *)
(***************************************************************************)
EXTENDS HandleStore, TLAPS

Rows == [key : Nat, epoch : Nat, anchor : Nat, final : 0..2, recs : Nat,
         receipt : BOOLEAN]
PCs  == {"idle", "update", "revs", "revs+addrs", "addrs"}

(* The zones of messages are rows, and none of them is NoRow. *)
LEMMA ZonesAreRows == Zones \subseteq Rows /\ NoRow \in Rows /\ \A z \in Zones : z # NoRow
<1>1. Zones \subseteq [key : Nat \ {0}, epoch : Nat, anchor : Nat, final : 0..2,
                       recs : Nat, receipt : BOOLEAN]
  BY HandleStoreAssumption DEF Zones
<1>2. \A z \in Zones : z.key # NoRow.key
  BY <1>1 DEF NoRow
<1> QED
  BY <1>1, <1>2 DEF NoRow, Rows

(* What a merge takes from the update, and what from the row. *)
LEMMA MergeFields ==
  ASSUME NEW z \in Rows, NEW old \in Rows
  PROVE  LET m == Merge(z, old) IN
         /\ m \in Rows
         /\ m.key = z.key /\ m.epoch = z.epoch /\ m.anchor = z.anchor /\ m.final = z.final
         /\ m.recs = IF KeepsRecords(z, old) THEN old.recs ELSE z.recs
         /\ m.receipt = IF KeepsReceipt(z, old) THEN old.receipt ELSE z.receipt
<1> HIDE DEF KeepsRecords, KeepsReceipt
<1> QED
  BY DEF Merge, Rows

(* What update_handles does to the row. *)
LEMMA UpdateFields ==
  ASSUME TypeOK, NEW p \in Handler, UpdateStored(p)
  PROVE  /\ msg[p] \in Zones /\ row' \in Rows
         /\ row = NoRow => row' = msg[p]
         /\ row # NoRow => row' = Merge(msg[p], row)
         /\ Accepts(msg[p])
<1>1. msg[p] \in Zones /\ pc[p] = "update"
  BY DEF UpdateStored, TypeOK
<1>2. row' = IF row = NoRow THEN msg[p] ELSE Merge(msg[p], row)
  BY DEF UpdateStored
<1>3. row \in Rows /\ msg[p] \in Rows
  BY <1>1, ZonesAreRows DEF TypeOK, Rows
<1>4. Merge(msg[p], row) \in Rows
  BY <1>3, MergeFields
<1> QED
  BY <1>1, <1>2, <1>3, <1>4 DEF UpdateStored

-----------------------------------------------------------------------------
(* The inductive invariant: types, and the two properties of the row. *)
RowSound == TypeOK /\ NotPinned /\ RecordsOfOwner

(* There is no row at first. *)
LEMMA RowInit == Init => RowSound
<1> SUFFICES ASSUME Init PROVE RowSound
  OBVIOUS
<1>1. TypeOK
  BY ZonesAreRows DEF Init, TypeOK, Rows
<1>2. row = NoRow /\ clock = 0
  BY DEF Init
<1>3. NotPinned
  BY <1>2, HandleStoreAssumption DEF NotPinned, NoRow
<1>4. RecordsOfOwner
  BY <1>2 DEF RecordsOfOwner
<1> QED
  BY <1>1, <1>3, <1>4 DEF RowSound

(* A step that leaves the row alone, and lets no time run back. *)
LEMMA SameRow ==
  ASSUME RowSound, TypeOK', row' = row, isRoot' = isRoot, clock' >= clock
  PROVE  RowSound'
<1>1. row.recs \in Nat /\ clock \in Nat /\ clock' \in Nat /\ Skew \in Nat
  BY HandleStoreAssumption DEF RowSound, TypeOK
<1>2. NotPinned'
  BY <1>1 DEF RowSound, NotPinned
<1>3. Zones' = Zones
  BY DEF Zones
<1>4. RecordsOfOwner'
  BY <1>3 DEF RowSound, RecordsOfOwner
<1> QED
  BY <1>2, <1>4 DEF RowSound

(* update_handles keeps the records those of the owner, and none of them is *)
(* of the far future.                                                       *)
LEMMA UpdateKeeps ==
  ASSUME RowSound, NEW p \in Handler, UpdateStored(p)
  PROVE  RowSound'
<1> DEFINE z == msg[p]
<1>1. /\ z \in Zones /\ row' \in Rows /\ Accepts(z)
      /\ row = NoRow => row' = z
      /\ row # NoRow => row' = Merge(z, row)
  BY UpdateFields DEF RowSound
<1>2. z \in Rows /\ row \in Rows
  BY <1>1, ZonesAreRows DEF RowSound, TypeOK, Rows
<1>3. /\ pc' = [pc EXCEPT ![p] = "revs+addrs"] /\ pc[p] = "update"
      /\ UNCHANGED <<isRoot, reverse, addrs, clock, msg>>
  BY DEF UpdateStored
<1>4. Zones' = Zones
  BY <1>3 DEF Zones
<1> HIDE DEF z
<1>5. TypeOK'
  <2>1. row' \in [key : Nat, epoch : Nat, anchor : Nat, final : 0..2,
                  recs : Nat, receipt : BOOLEAN]
    BY <1>1 DEF Rows
  <2>2. pc' \in [Handler -> {"idle", "update", "revs", "revs+addrs", "addrs"}]
    BY <1>3 DEF RowSound, TypeOK
  <2>3. \A q \in Handler : pc'[q] = "idle" <=> msg'[q] = NoRow
    BY <1>3 DEF RowSound, TypeOK
  <2> QED
    BY <2>1, <2>2, <2>3, <1>3, <1>4 DEF RowSound, TypeOK
<1>6. z.recs <= clock + Skew /\ row.recs <= clock + Skew
  <2>1. z.recs \in Nat /\ clock \in Nat /\ Skew \in Nat
    BY <1>2, HandleStoreAssumption DEF RowSound, TypeOK, Rows
  <2> QED
    BY <2>1, <1>1 DEF Accepts, TooFarAhead, RowSound, NotPinned
<1>7. CASE row = NoRow
  <2>1. NotPinned'
    BY <1>1, <1>3, <1>6, <1>7 DEF NotPinned
  <2>2. RecordsOfOwner'
    BY <1>1, <1>4, <1>7 DEF RecordsOfOwner
  <2> QED
    BY <1>5, <2>1, <2>2 DEF RowSound
<1>8. CASE row # NoRow
  <2>1. /\ row'.key = z.key
        /\ row'.recs = IF KeepsRecords(z, row) THEN row.recs ELSE z.recs
    BY <1>1, <1>2, <1>8, MergeFields
  <2>2. NotPinned'
    BY <2>1, <1>3, <1>6 DEF NotPinned
  <2>3. \E y \in Zones : y.key = row'.key /\ y.recs = row'.recs
    <3>1. CASE KeepsRecords(z, row)
      <4>1. PICK y \in Zones : y.key = row.key /\ y.recs = row.recs
        BY <1>8 DEF RowSound, RecordsOfOwner
      <4> QED
        BY <3>1, <4>1, <2>1 DEF KeepsRecords
    <3>2. CASE ~KeepsRecords(z, row)
      BY <3>2, <2>1, <1>1
    <3> QED
      BY <3>1, <3>2
  <2>4. RecordsOfOwner'
    BY <2>3, <1>4 DEF RecordsOfOwner
  <2> QED
    BY <1>5, <2>2, <2>4 DEF RowSound
<1> QED
  BY <1>7, <1>8

(* Every other step of a message leaves the row alone. *)
LEMMA OtherStepsKeep ==
  ASSUME RowSound, NEW p \in Handler, Step(p), ~UpdateStored(p)
  PROVE  RowSound'
<1> USE DEF TypeOK
<1>1. UNCHANGED <<isRoot, row, clock>>
  BY DEF Step, ReceiveKept, ReceiveLeftOut, UpdateSkipped, SetRevs, SetAddrs, Stop
<1>2. Zones' = Zones /\ Zones \subseteq Rows /\ \A z \in Zones : z # NoRow /\ z.recs \in Nat
  BY <1>1, ZonesAreRows DEF Zones, Rows
<1>3. TypeOK
  BY DEF RowSound
<1>4. ASSUME NEW z \in Zones, ReceiveKept(p, z) \/ ReceiveLeftOut(p, z) PROVE TypeOK'
  BY <1>1, <1>2, <1>3, <1>4 DEF ReceiveKept, ReceiveLeftOut
<1>5. ASSUME UpdateSkipped(p) PROVE TypeOK'
  BY <1>1, <1>2, <1>3, <1>5 DEF UpdateSkipped
<1>6. msg[p] \in Zones \cup {NoRow} /\ msg[p].recs \in Nat
  BY <1>2, <1>3 DEF NoRow
<1>7. ASSUME SetRevs(p) PROVE TypeOK'
  <2>1. reverse' \in Nat
    BY <1>3, <1>6, <1>7 DEF SetRevs
  <2> QED
    BY <2>1, <1>1, <1>2, <1>3, <1>7 DEF SetRevs
<1>8. ASSUME SetAddrs(p) PROVE TypeOK'
  <2>1. addrs' \in Nat
    BY <1>3, <1>6, <1>8 DEF SetAddrs
  <2> QED
    BY <2>1, <1>1, <1>2, <1>3, <1>8 DEF SetAddrs
<1>9. ASSUME Stop(p) PROVE TypeOK'
  BY <1>1, <1>2, <1>3, <1>9 DEF Stop
<1>10. TypeOK'
  BY <1>4, <1>5, <1>7, <1>8, <1>9 DEF Step
<1>11. clock' >= clock
  BY <1>1, <1>3
<1> HIDE DEF TypeOK
<1> QED
  BY <1>1, <1>10, <1>11, SameRow

(* Every step keeps the row sound. *)
LEMMA RowStep == RowSound /\ [Next]_vars => RowSound'
<1> SUFFICES ASSUME RowSound, [Next]_vars PROVE RowSound'
  OBVIOUS
<1>1. ASSUME NEW p \in Handler, Step(p) PROVE RowSound'
  BY <1>1, UpdateKeeps, OtherStepsKeep
<1>2. CASE Evict
  <2>1. TypeOK'
    BY <1>2, ZonesAreRows DEF Evict, RowSound, TypeOK, Rows, Zones
  <2>2. NotPinned'
    BY <1>2, HandleStoreAssumption DEF Evict, NotPinned, NoRow, RowSound, TypeOK
  <2>3. RecordsOfOwner'
    BY <1>2 DEF Evict, RecordsOfOwner
  <2> QED
    BY <2>1, <2>2, <2>3 DEF RowSound
<1>3. CASE Tick
  <2>1. TypeOK' /\ clock' >= clock /\ row' = row /\ isRoot' = isRoot
    BY <1>3 DEF Tick, RowSound, TypeOK, Zones
  <2> QED
    BY <2>1, SameRow
<1>4. CASE UNCHANGED vars
  <2>1. TypeOK' /\ clock' >= clock /\ row' = row /\ isRoot' = isRoot
    BY <1>4 DEF vars, RowSound, TypeOK, Zones
  <2> QED
    BY <2>1, SameRow
<1> QED
  BY <1>1, <1>2, <1>3, <1>4 DEF Next

(* The row of a handle is sound whatever messages arrive, in whatever order *)
(* their store calls interleave, and wherever they stop.                    *)
THEOREM RowIsSound == Spec => []RowSound
  BY RowInit, RowStep, PTL DEF Spec

(* Rows and messages are what their types say. *)
THEOREM TypeCorrect == Spec => []TypeOK
<1>1. RowSound => TypeOK
  BY DEF RowSound
<1> QED
  BY <1>1, RowIsSound, PTL

(* No zone of the far future, which no later one could replace, is stored   *)
(* (the limit on timestamps in update_handles).                             *)
THEOREM NeverPinned == Spec => []NotPinned
<1>1. RowSound => NotPinned
  BY DEF RowSound
<1> QED
  BY <1>1, RowIsSound, PTL

(* The records in a row are those its own key signed (the merge in          *)
(* update_handles).                                                         *)
THEOREM RecordsAreOwners == Spec => []RecordsOfOwner
<1>1. RowSound => RecordsOfOwner
  BY DEF RowSound
<1> QED
  BY <1>1, RowIsSound, PTL

-----------------------------------------------------------------------------
(* A row is replaced by update_handles only. *)
LEMMA ReplacedByUpdate ==
  ASSUME RowSound, [Next]_vars, Replaced
  PROVE  \E p \in Handler : UpdateStored(p) /\ row' = Merge(msg[p], row)
<1>1. \E p \in Handler : UpdateStored(p)
  BY DEF Replaced, Next, Step, vars, ReceiveKept, ReceiveLeftOut, UpdateSkipped,
     SetRevs, SetAddrs, Stop, Evict, Tick
<1> QED
  BY <1>1, UpdateFields DEF RowSound, Replaced

(* The owner's records survive any message of the same key. *)
THEOREM OwnerKeepsRecords == Spec => OwnerRecordsKept
<1>1. ASSUME RowSound, [Next]_vars
      PROVE  [Replaced /\ row'.key = row.key => row'.recs >= row.recs]_vars
  <2> SUFFICES ASSUME Replaced, row'.key = row.key PROVE row'.recs >= row.recs
    OBVIOUS
  <2>1. PICK p \in Handler : UpdateStored(p) /\ row' = Merge(msg[p], row)
    BY <1>1, ReplacedByUpdate
  <2>2. msg[p] \in Rows /\ row \in Rows
    BY <1>1, <2>1, UpdateFields, ZonesAreRows DEF RowSound, TypeOK, Rows
  <2>3. /\ row'.key = msg[p].key
        /\ row'.recs = IF KeepsRecords(msg[p], row) THEN row.recs ELSE msg[p].recs
    BY <2>1, <2>2, MergeFields
  <2>4. msg[p].recs \in Nat /\ row.recs \in Nat
    BY <2>2 DEF Rows
  <2>5. CASE KeepsRecords(msg[p], row)
    BY <2>3, <2>4, <2>5
  <2>6. CASE ~KeepsRecords(msg[p], row)
    <3>1. row.recs = 0 \/ ~(row.recs > msg[p].recs)
      BY <2>3, <2>6 DEF KeepsRecords
    <3> QED
      BY <2>3, <2>4, <2>6, <3>1
  <2> QED
    BY <2>5, <2>6
<1> QED
  BY <1>1, RowIsSound, PTL DEF Spec, OwnerRecordsKept

(* A receipt in the row is that of a root, for a commitment. *)
ReceiptProves == row.receipt => isRoot /\ row.epoch # 0

(* Only a root is stored with a receipt, and a merge keeps none that is not *)
(* of the commitment in the row.                                            *)
LEMMA ReceiptStep == RowSound /\ ReceiptProves /\ [Next]_vars => ReceiptProves'
<1> SUFFICES ASSUME RowSound, ReceiptProves, [Next]_vars PROVE ReceiptProves'
  OBVIOUS
<1>1. ASSUME NEW p \in Handler, UpdateStored(p) PROVE ReceiptProves'
  <2>1. /\ row = NoRow => row' = msg[p]
        /\ row # NoRow => row' = Merge(msg[p], row)
        /\ msg[p] \in Zones
    BY <1>1, UpdateFields DEF RowSound
  <2>5. isRoot' = isRoot
    BY <1>1 DEF UpdateStored
  <2>2. msg[p].receipt => isRoot /\ msg[p].epoch # 0
    BY <2>1, HandleStoreAssumption DEF Zones
  <2>3. msg[p] \in Rows /\ row \in Rows
    BY <2>1, ZonesAreRows DEF RowSound, TypeOK, Rows
  <2>4. row # NoRow =>
          /\ row'.epoch = msg[p].epoch
          /\ row'.receipt = IF KeepsReceipt(msg[p], row) THEN row.receipt
                                                         ELSE msg[p].receipt
    BY <2>1, <2>3, MergeFields
  <2> QED
    BY <2>1, <2>2, <2>4, <2>5 DEF ReceiptProves, KeepsReceipt
<1>2. CASE Evict
  BY <1>2 DEF Evict, ReceiptProves, NoRow
<1>3. CASE row' = row /\ isRoot' = isRoot
  BY <1>3 DEF ReceiptProves
<1> QED
  BY <1>1, <1>2, <1>3 DEF Next, Step, vars, ReceiveKept, ReceiveLeftOut, UpdateSkipped,
     SetRevs, SetAddrs, Stop, Tick

(* A receipt once held stays while the commitment it proves is the row's. *)
THEOREM ReceiptStays == Spec => ReceiptKept
<1>1. Init => ReceiptProves
  BY DEF Init, ReceiptProves, NoRow
<1>2. ASSUME RowSound, ReceiptProves, [Next]_vars
      PROVE  [Replaced /\ row.receipt /\ row'.epoch = row.epoch => row'.receipt]_vars
  <2> SUFFICES ASSUME Replaced, row.receipt, row'.epoch = row.epoch PROVE row'.receipt
    OBVIOUS
  <2>1. PICK p \in Handler : UpdateStored(p) /\ row' = Merge(msg[p], row)
    BY <1>2, ReplacedByUpdate
  <2>2. msg[p] \in Rows /\ row \in Rows
    BY <1>2, <2>1, UpdateFields, ZonesAreRows DEF RowSound, TypeOK, Rows
  <2>3. /\ row'.epoch = msg[p].epoch
        /\ row'.receipt = IF KeepsReceipt(msg[p], row) THEN row.receipt ELSE msg[p].receipt
    BY <2>1, <2>2, MergeFields
  <2>4. isRoot /\ row.epoch # 0
    BY <1>2 DEF ReceiptProves
  <2> QED
    BY <2>3, <2>4 DEF KeepsReceipt
<1> QED
  BY <1>1, <1>2, ReceiptStep, RowIsSound, PTL DEF Spec, ReceiptKept

(* A fresher proof from the same key is served once its message is stored. *)
THEOREM FreshProofIsServed == Spec => FreshProofServed
<1>1. ASSUME RowSound, [Next]_vars, NEW p \in Handler,
             pc[p] = "update", pc'[p] \in {"revs", "revs+addrs"},
             row # NoRow, ~TooFarAhead(msg[p]), FresherProof(msg[p], row)
      PROVE  row'.anchor = msg[p].anchor /\ row'.final = msg[p].final
  <2>1. pc \in [Handler -> PCs] /\ row \in Rows
    BY <1>1 DEF RowSound, TypeOK, PCs, Rows
  <2>2. Accepts(msg[p])
    BY <1>1 DEF Accepts
  <2>3. UpdateStored(p)
    <3>1. PICK q \in Handler : Step(q)
      BY <1>1 DEF Next, vars, Evict, Tick
    <3>2. q = p
      BY <1>1, <2>1, <3>1 DEF Step, ReceiveKept, ReceiveLeftOut, UpdateStored,
         UpdateSkipped, SetRevs, SetAddrs, Stop
    <3> QED
      BY <1>1, <2>1, <2>2, <3>1, <3>2 DEF Step, ReceiveKept, ReceiveLeftOut,
         UpdateSkipped, SetRevs, SetAddrs, Stop
  <2>4. msg[p] \in Rows /\ row' = Merge(msg[p], row)
    BY <1>1, <2>3, UpdateFields, ZonesAreRows DEF RowSound
  <2> QED
    BY <2>1, <2>4, MergeFields
<1>2. ASSUME RowSound, [Next]_vars
      PROVE  [\A p \in Handler :
                /\ pc[p] = "update" /\ pc'[p] \in {"revs", "revs+addrs"}
                /\ row # NoRow /\ ~TooFarAhead(msg[p]) /\ FresherProof(msg[p], row)
                => row'.anchor = msg[p].anchor /\ row'.final = msg[p].final]_vars
  BY <1>1, <1>2
<1> QED
  BY <1>2, RowIsSound, PTL DEF Spec, FreshProofServed
===============================================================================
