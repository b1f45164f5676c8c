--------------------------- MODULE SyncPage_proofs ---------------------------
(***************************************************************************)
(* Proofs about SyncPage: whatever the table, the limits and the sizes of  *)
(* the rows, a page is a gapless run with the roots it needs, and no puller *)
(* with the same limits refuses it.                                        *)
(***************************************************************************)
EXTENDS SyncPage, FiniteSetTheorems, TLAPS

(* The table does not change while pages are served. *)
Table ==
  /\ seq \in [Handle -> 0..MaxSeq]
  /\ \A g, h \in Handle : seq[g] = seq[h] => g = h \/ seq[g] = 0
  /\ size \in [Handle -> Size]

(* The request and the rows taken for it. *)
Asked ==
  /\ after \in 0..MaxSeq
  /\ limit \in Limit
  /\ main \subseteq Handle /\ IsFiniteSet(main) /\ Cardinality(main) <= limit
  /\ pc \in {"idle", "select", "roots", "trim"}

(* The rows taken are the first ones after the cursor. *)
Gapless(rows) ==
  /\ \A h \in rows : seq[h] > after
  /\ \A g \in Handle, h \in rows : seq[g] > after /\ seq[g] <= seq[h] => g \in rows

NoneLeft == \A h \in Handle : seq[h] <= after

(* The roots of the rows that are numbered beyond the last of them. *)
Homed ==
  /\ roots \subseteq {SpaceOf[h] : h \in Handle}
  /\ main # {} => roots \cap Needed(main) = Companions(main, seq[LastRow(main)])

(* Between two steps of sync_page. *)
Building ==
  /\ Gapless(main)
  /\ pc # "select" /\ main = {} => pc = "idle" \/ NoneLeft
  /\ pc \in {"idle", "select", "roots"} => roots = {}
  /\ pc = "idle" => main = {}
  /\ pc = "trim" => Homed
  /\ pc # "idle" => page = Empty

-----------------------------------------------------------------------------
(* Rows that are numbered have a last one. *)
LEMMA HasLast ==
  ASSUME Table, NEW rows \in SUBSET Handle, IsFiniteSet(rows), rows # {}
  PROVE  /\ LastRow(rows) \in rows
         /\ \A g \in rows : seq[g] <= seq[LastRow(rows)]
<1> DEFINE Last(S) == \E h \in S : \A g \in S : seq[g] <= seq[h]
           Bad == {S \in FiniteSubsetsOf(rows) : S # {} /\ ~Last(S)}
           R == StrictSubsetOrdering(rows)
<1>1. ASSUME Bad # {} PROVE FALSE
  <2>1. IsWellFoundedOn(R, FiniteSubsetsOf(rows)) /\ Bad \subseteq FiniteSubsetsOf(rows)
    BY FS_StrictSubsetOrderingWellFounded
  <2> HIDE DEF Bad, R
  <2>2. PICK S \in Bad : \A T \in Bad : ~(<<T, S>> \in R)
    BY <1>1, <2>1, WFMin, Zenon
  <2>3. S \in SUBSET rows /\ IsFiniteSet(S) /\ S # {} /\ ~Last(S)
    BY <2>2 DEF Bad, FiniteSubsetsOf
  <2>4. PICK h \in S : TRUE
    BY <2>3
  <2>5. S \ {h} \in SUBSET rows /\ IsFiniteSet(S \ {h})
    BY <2>3, FS_Subset
  <2>6. <<S \ {h}, S>> \in R
    BY <2>3, <2>4, <2>5 DEF R, StrictSubsetOrdering
  <2>7. S \ {h} = {} \/ Last(S \ {h})
    BY <2>2, <2>5, <2>6 DEF Bad, FiniteSubsetsOf
  <2>8. \A g \in S : seq[g] \in Nat
    BY <2>3 DEF Table
  <2> QED
    BY <2>3, <2>4, <2>7, <2>8
<1>2. rows \in FiniteSubsetsOf(rows)
  BY DEF FiniteSubsetsOf
<1>3. Last(rows)
  BY <1>1, <1>2
<1> QED
  BY <1>3 DEF LastRow

(* Only the order of numbers and the rows decide which root is needed. *)
LEMMA Spaces ==
  ASSUME NEW rows \in SUBSET Handle
  PROVE  /\ Needed(rows) \subseteq {SpaceOf[h] : h \in Handle}
         /\ \A r \in Needed(rows) : r \in Handle /\ SpaceOf[r] = r
  BY SyncPageAssumption DEF Needed

(* The row that is taken next is the next one. *)
LEMMA TakeKeepsGapless ==
  ASSUME Table, Asked, Gapless(main), Take
  PROVE  /\ main' \subseteq Handle /\ IsFiniteSet(main') /\ Cardinality(main') <= limit
         /\ Gapless(main)'
<1>1. PICK h \in Rest : (\A g \in Rest : seq[h] <= seq[g]) /\ main' = main \cup {h}
  BY DEF Take
<1>2. IsFiniteSet(main') /\ Cardinality(main') = Cardinality(main) + 1
  BY <1>1, FS_AddElement DEF Asked, Rest
<1>3. Cardinality(main') <= limit
  <2>1. Cardinality(main) # limit /\ Cardinality(main) <= limit
    BY DEF Take, Full, Asked
  <2>2. Cardinality(main) \in Nat /\ limit \in Nat
    BY FS_CardinalityType, SyncPageAssumption DEF Asked
  <2> QED
    BY <1>2, <2>1, <2>2
<1>4. h \in Handle /\ seq[h] > after /\ UNCHANGED <<seq, after>>
  BY DEF Rest, Take
<1>5. \A g \in main' : seq[g] > after
  BY <1>1, <1>4 DEF Gapless
<1>6. ASSUME NEW g \in Handle, NEW k \in main', seq[g] > after, seq[g] <= seq[k]
      PROVE  g \in main'
  <2>1. CASE k \in main
    BY <1>1, <1>6, <2>1 DEF Gapless
  <2>2. CASE k = h /\ g \notin main
    <3>1. g \in Rest
      BY <1>6, <2>2 DEF Rest
    <3>2. seq[h] = seq[g]
      BY <1>1, <1>4, <1>6, <2>2, <3>1 DEF Table
    <3> QED
      BY <1>1, <1>4, <1>6, <3>2 DEF Table, Asked
  <2>3. CASE g \in main
    BY <1>1, <2>3
  <2> QED
    BY <1>1, <2>1, <2>2, <2>3
<1>7. Gapless(main)'
  BY <1>4, <1>5, <1>6 DEF Gapless
<1> QED
  BY <1>1, <1>2, <1>3, <1>4, <1>7 DEF Asked

(* A page gives up its last row: what is left is gapless, and the roots it   *)
(* needs that are numbered beyond it are held, the row itself among them.    *)
LEMMA PopKeepsHomed ==
  ASSUME Table, Asked, Gapless(main), Homed, main # {}, Pop
  PROVE  /\ main' \subseteq Handle /\ IsFiniteSet(main') /\ Cardinality(main') <= limit
         /\ main' # {}
         /\ Gapless(main)'
         /\ Homed'
<1> DEFINE last == LastRow(main)
           left == main \ {last}
<1>1. last \in main /\ \A g \in main : seq[g] <= seq[last]
  BY HasLast DEF Asked
<1>2. main' = left /\ roots' = Rehomed(last) /\ UNCHANGED <<seq, after>>
  BY DEF Pop
<1>3. IsFiniteSet(left) /\ Cardinality(left) = Cardinality(main) - 1
  BY <1>1, FS_RemoveElement DEF Asked
<1>4. Cardinality(main) \in Nat /\ Cardinality(main) > 1 /\ limit \in Nat
  BY FS_CardinalityType, SyncPageAssumption DEF Asked, Pop, TooLarge
<1>5. Cardinality(left) <= limit /\ Cardinality(left) # 0
  BY <1>3, <1>4 DEF Asked
<1>6. left # {}
  BY <1>5, FS_EmptySet
<1> DEFINE end == LastRow(left)
<1>7. end \in left /\ \A g \in left : seq[g] <= seq[end]
  BY <1>3, <1>6, HasLast DEF Asked
<1>8. left \subseteq Handle /\ last \in Handle
  BY <1>1 DEF Asked
<1> HIDE DEF last, left, end
<1>9. /\ \A g \in left : g \in main
      /\ \A g \in main : g = last \/ g \in left
  BY DEF left
<1>10. seq[end] < seq[last]
  <2>1. seq[end] # seq[last]
    BY <1>1, <1>7, <1>8 DEF Table, Gapless, left, Asked
  <2> QED
    BY <1>1, <1>7, <1>8, <1>9, <2>1 DEF Table
<1>11. Gapless(left)
  <2>1. ASSUME NEW g \in Handle, NEW h \in left, seq[g] > after, seq[g] <= seq[h]
        PROVE  g \in left
    <3>1. g \in main
      BY <1>9, <2>1 DEF Gapless
    <3>2. seq[g] < seq[last]
      BY <1>7, <1>8, <1>10, <2>1 DEF Table
    <3> QED
      BY <1>8, <1>9, <3>1, <3>2 DEF Table
  <2> QED
    BY <1>9, <2>1 DEF Gapless
<1>12. ASSUME NEW r \in Needed(left), seq[r] > seq[end] PROVE r \in Rehomed(last)
  <2>1. r \in Needed(main) /\ r \in Handle /\ SpaceOf[r] = r
    BY <1>8, <1>9, Spaces DEF Needed, Asked
  <2>2. CASE seq[r] > seq[last]
    BY <2>1, <2>2 DEF Homed, Companions, Needed, Rehomed, last
  <2>3. CASE seq[r] <= seq[last]
    <3>1. seq[end] > after
      BY <1>7, <1>9 DEF Gapless
    <3>2. seq[r] > after
      BY <1>8, <1>7, <1>12, <2>1, <3>1 DEF Table, Asked
    <3>3. r \in main
      BY <1>1, <2>1, <2>3, <3>2 DEF Gapless
    <3>4. r \notin left
      BY <1>7, <1>8, <1>12, <2>1 DEF Table
    <3>5. r = last
      BY <1>9, <3>3, <3>4
    <3> QED
      BY <2>1, <3>5 DEF Rehomed
  <2> QED
    BY <1>8, <2>1, <2>2, <2>3 DEF Table
<1>13. ASSUME NEW r \in Rehomed(last) \cap Needed(left) PROVE seq[r] > seq[end]
  <2>1. r \in roots \/ r = last
    BY DEF Rehomed
  <2>2. CASE r = last
    BY <1>10, <2>2, <1>8, <1>7 DEF Table
  <2>3. CASE r \in roots
    <3>1. r \in Needed(main) /\ r \in Handle
      BY <1>8, <1>9, <1>13, Spaces DEF Needed, Asked
    <3>2. seq[r] > seq[last]
      BY <2>3, <3>1 DEF Homed, Companions, last
    <3> QED
      BY <1>7, <1>8, <1>10, <3>1, <3>2 DEF Table
  <2> QED
    BY <2>1, <2>2, <2>3
<1>14. Rehomed(last) \cap Needed(left) = Companions(left, seq[end])
  BY <1>12, <1>13 DEF Companions, Needed
<1>15. Rehomed(last) \subseteq {SpaceOf[h] : h \in Handle}
  BY <1>8 DEF Rehomed, Homed
<1>16. Homed'
  BY <1>2, <1>14, <1>15 DEF Homed, Needed, Companions, LastRow, end
<1>17. Gapless(main)'
  BY <1>2, <1>11 DEF Gapless
<1> QED
  BY <1>2, <1>3, <1>5, <1>6, <1>8, <1>16, <1>17

-----------------------------------------------------------------------------
(* What is true of the table, of a page that is being built, and of a reply. *)
IInv == Table /\ Asked /\ Building /\ PageFaithful

(* A reply is the rows after the cursor and the roots they need. *)
LEMMA ReplyIsFaithful ==
  ASSUME IInv, Reply
  PROVE  PageFaithful'
<1>1. /\ page' = [records |-> main \cup (roots \cap Needed(main)),
                  next    |-> IF main = {} THEN 0 ELSE seq[LastRow(main)]]
      /\ pc = "trim" /\ UNCHANGED <<seq, after>>
  BY DEF Reply
<1>2. Gapless(main) /\ Homed /\ (main = {} => NoneLeft)
  BY <1>1 DEF IInv, Building
<1>3. CASE main = {}
  <2>1. Needed(main) = {}
    BY <1>3 DEF Needed
  <2>2. page' = Empty
    BY <1>1, <1>3, <2>1 DEF Empty
  <2> QED
    BY <1>1, <1>2, <1>3, <2>2 DEF PageFaithful, NoneLeft, Empty
<1>4. CASE main # {}
  <2>1. PICK m : m = seq[LastRow(main)]
    OBVIOUS
  <2>2. LastRow(main) \in main /\ \A g \in main : seq[g] <= m
    BY <1>4, <2>1, HasLast DEF IInv, Asked
  <2>3. LastRow(main) \in Handle /\ m > after
    BY <1>2, <2>1, <2>2 DEF IInv, Asked, Gapless
  <2>4. main = MainRows(after, m)
    BY <1>2, <2>1, <2>2, <2>3 DEF MainRows, Gapless, IInv, Asked
  <2>5. page'.next = m /\ page'.records = main \cup Companions(main, m)
    BY <1>1, <1>2, <1>4, <2>1 DEF Homed
  <2>6. (MainRows(after, page.next))' = main
    BY <1>1, <2>4, <2>5 DEF MainRows
  <2>7. Cardinality((MainRows(after, page.next))') <= limit'
    BY <2>6 DEF IInv, Asked, Reply
  <2>8. page'.records = (MainRows(after, page.next)
                           \cup Companions(MainRows(after, page.next), page.next))'
    BY <1>1, <2>5, <2>6 DEF Companions
  <2>9. page'.next > after' /\ \E h \in Handle : seq'[h] = page'.next
    BY <1>1, <2>1, <2>3, <2>5
  <2> QED
    BY <2>7, <2>8, <2>9 DEF PageFaithful
<1> QED
  BY <1>3, <1>4

(* The table, the request and the page: they hold, and no step breaks them. *)
LEMMA PageInductive ==
  /\ Init => IInv
  /\ IInv /\ [Next]_vars => IInv'
<1>1. ASSUME Init PROVE IInv
  <2>1. Table
    BY <1>1 DEF Init, Table
  <2>2. Asked
    BY <1>1, FS_EmptySet, SyncPageAssumption DEF Init, Asked
  <2>3. Building /\ PageFaithful
    BY <1>1 DEF Init, Building, Gapless, PageFaithful
  <2> QED
    BY <2>1, <2>2, <2>3 DEF IInv
<1>2. ASSUME IInv, [Next]_vars PROVE IInv'
  <2>1. Table'
    BY <1>2 DEF IInv, Table, Next, Request, Take, Selected, AppendRoots, Pop, Reply, vars
  <2>2. CASE \E c \in 0..MaxSeq, l \in Limit : Request(c, l)
    <3>1. PICK c \in 0..MaxSeq, l \in Limit : Request(c, l)
      BY <2>2
    <3>2. main = {} /\ main' = {} /\ roots' = {}
      BY <1>2, <3>1 DEF Request, IInv, Building
    <3>3. Asked'
      BY <1>2, <3>1, <3>2, FS_EmptySet, SyncPageAssumption DEF Request, IInv, Asked
    <3>4. Building' /\ PageFaithful'
      BY <3>1, <3>2 DEF Request, Building, Gapless, PageFaithful, Empty
    <3> QED
      BY <2>1, <3>3, <3>4 DEF IInv
  <2>3. CASE Take
    <3>1. /\ main' \subseteq Handle /\ IsFiniteSet(main') /\ Cardinality(main') <= limit
          /\ Gapless(main)'
      BY <1>2, <2>3, TakeKeepsGapless DEF IInv, Building, Take
    <3>2. pc = "select" /\ UNCHANGED <<seq, size, after, limit, roots, pc, page>>
      BY <2>3 DEF Take
    <3>3. Asked'
      BY <1>2, <3>1, <3>2 DEF IInv, Asked
    <3>4. Building' /\ PageFaithful'
      BY <1>2, <3>1, <3>2 DEF IInv, Building, PageFaithful, Empty
    <3> QED
      BY <2>1, <3>3, <3>4 DEF IInv
  <2>4. CASE Selected
    <3>1. pc = "select" /\ pc' = "roots"
          /\ UNCHANGED <<seq, size, after, limit, main, roots, page>>
      BY <2>4 DEF Selected
    <3>2. main = {} => NoneLeft
      <4>1. ASSUME main = {} PROVE ~Full
        <5>1. Payload(main) = {}
          BY <4>1 DEF Payload
        <5>2. Cardinality(main) = 0 /\ Bytes(main) = 0
          BY <4>1, <5>1, FS_EmptySet DEF Bytes
        <5> QED
          BY <1>2, <5>2, SyncPageAssumption DEF Full, IInv, Asked
      <4>2. ASSUME main = {} PROVE \A h \in Handle : ~(seq[h] > after)
        BY <2>4, <4>1, <4>2 DEF Selected, Rest
      <4> QED
        BY <1>2, <4>2 DEF NoneLeft, IInv, Table, Asked
    <3>3. Asked'
      BY <1>2, <3>1 DEF IInv, Asked
    <3>4. Building' /\ PageFaithful'
      BY <1>2, <3>1, <3>2 DEF IInv, Building, PageFaithful, Gapless, NoneLeft, Empty
    <3> QED
      BY <2>1, <3>3, <3>4 DEF IInv
  <2>5. CASE AppendRoots
    <3>1. /\ pc = "roots" /\ pc' = "trim"
          /\ roots' = {r \in Needed(main) : seq[r] > seq[LastRow(main)]}
          /\ UNCHANGED <<seq, size, after, limit, main, page>>
      BY <2>5 DEF AppendRoots
    <3>2. Homed'
      <4>1. roots' \subseteq {SpaceOf[h] : h \in Handle}
        BY <1>2, <3>1, Spaces DEF IInv, Asked
      <4>2. roots' \cap Needed(main) = Companions(main, seq[LastRow(main)])
        BY <3>1 DEF Needed, Companions
      <4> QED
        BY <3>1, <4>1, <4>2 DEF Homed, Needed, Companions, LastRow
    <3>3. Asked'
      BY <1>2, <3>1 DEF IInv, Asked
    <3>4. Building' /\ PageFaithful'
      BY <1>2, <3>1, <3>2 DEF IInv, Building, PageFaithful, Gapless, NoneLeft, Empty
    <3> QED
      BY <2>1, <3>3, <3>4 DEF IInv
  <2>6. CASE Pop
    <3>1. pc = "trim" /\ UNCHANGED <<seq, size, after, limit, pc, page>>
      BY <2>6 DEF Pop
    <3>2. main # {}
      BY <2>6, FS_EmptySet DEF Pop, TooLarge
    <3>3. /\ main' \subseteq Handle /\ IsFiniteSet(main') /\ Cardinality(main') <= limit
          /\ main' # {}
          /\ Gapless(main)'
          /\ Homed'
      BY <1>2, <2>6, <3>1, <3>2, PopKeepsHomed DEF IInv, Building
    <3>4. Asked'
      BY <1>2, <3>1, <3>3 DEF IInv, Asked
    <3>5. Building' /\ PageFaithful'
      BY <1>2, <3>1, <3>3 DEF IInv, Building, PageFaithful, Empty
    <3> QED
      BY <2>1, <3>4, <3>5 DEF IInv
  <2>7. CASE Reply
    <3>1. PageFaithful'
      BY <1>2, <2>7, ReplyIsFaithful
    <3>2. main' = {} /\ roots' = {} /\ pc' = "idle" /\ UNCHANGED <<seq, size, after, limit>>
      BY <2>7 DEF Reply
    <3>3. Asked'
      BY <1>2, <3>2, FS_EmptySet, SyncPageAssumption DEF IInv, Asked
    <3>4. Building'
      BY <3>2 DEF Building, Gapless
    <3> QED
      BY <2>1, <3>1, <3>3, <3>4 DEF IInv
  <2>8. CASE UNCHANGED vars
    <3>1. Asked' /\ Building'
      BY <1>2, <2>8 DEF vars, IInv, Asked, Building, Gapless, NoneLeft, Homed, Needed,
         Companions, LastRow, Empty
    <3>2. PageFaithful'
      BY <1>2, <2>8 DEF vars, IInv, PageFaithful, MainRows, Companions, Empty
    <3> QED
      BY <2>1, <3>1, <3>2 DEF IInv
  <2> QED
    BY <1>2, <2>2, <2>3, <2>4, <2>5, <2>6, <2>7, <2>8 DEF Next
<1> QED
  BY <1>1, <1>2

(* However the limits and the trimming cut it, a page is a gapless run of    *)
(* the rows after the cursor, ends where its next_cursor says, brings the    *)
(* roots it needs, and is empty only when no row is left (sync_page).        *)
THEOREM PagesAreFaithful == Spec => []PageFaithful
<1>1. IInv => PageFaithful
  BY DEF IInv
<1> QED
  BY <1>1, PageInductive, PTL DEF Spec

-----------------------------------------------------------------------------
(* Bytes of a row are as many as its size. *)
LEMMA BytesOfRow ==
  ASSUME Table, NEW h \in Handle
  PROVE  IsFiniteSet({h} \X (1..size[h])) /\ Bytes({h}) = size[h]
<1>1. PICK n : n = size[h]
  OBVIOUS
<1> DEFINE row == {h}
           places == 1..n
<1>2. n \in Nat
  BY <1>1, SyncPageAssumption DEF Table
<1>3. IsFiniteSet(places) /\ Cardinality(places) = n
  BY <1>2, FS_Interval
<1>4. IsFiniteSet(row) /\ Cardinality(row) = 1
  BY FS_Singleton
<1>5. Payload({h}) = row \X places
  BY <1>1 DEF Payload
<1> HIDE DEF row, places
<1>6. IsFiniteSet(row \X places)
        /\ Cardinality(row \X places) = Cardinality(row) * Cardinality(places)
  BY <1>3, <1>4, FS_Product
<1>7. Cardinality(row \X places) = n
  BY <1>2, <1>3, <1>4, <1>6
<1> QED
  BY <1>1, <1>5, <1>6, <1>7 DEF Bytes, row, places

(* The payload of finitely many rows is finite. *)
LEMMA PayloadFinite ==
  ASSUME Table, NEW S \in SUBSET Handle, IsFiniteSet(S)
  PROVE  IsFiniteSet(Payload(S)) /\ Bytes(S) \in Nat
<1> DEFINE part == [h \in S |-> {h} \X (1..size[h])]
           parts == {{h} \X (1..size[h]) : h \in S}
<1>1. part \in Surjection(S, parts)
  <2>1. part \in [S -> parts]
    OBVIOUS
  <2>2. \A T \in parts : \E h \in S : part[h] = T
    OBVIOUS
  <2> QED
    BY <2>1, <2>2 DEF Surjection
<1>2. IsFiniteSet(parts)
  BY <1>1, FS_Surjection
<1>3. \A T \in parts : IsFiniteSet(T)
  BY BytesOfRow
<1>4. IsFiniteSet(UNION parts)
  BY <1>2, <1>3, FS_UNION
<1>5. IsFiniteSet(Payload(S))
  BY <1>4 DEF Payload
<1> QED
  BY <1>5, FS_CardinalityType DEF Bytes

(* Two sets of rows weigh no more together than each on its own. *)
LEMMA BytesTogether ==
  ASSUME Table, NEW S \in SUBSET Handle, IsFiniteSet(S),
         NEW T \in SUBSET Handle, IsFiniteSet(T)
  PROVE  Bytes(S \cup T) <= Bytes(S) + Bytes(T)
<1>1. IsFiniteSet(Payload(S)) /\ IsFiniteSet(Payload(T))
  BY PayloadFinite
<1>2. Payload(S \cup T) = Payload(S) \cup Payload(T)
  BY DEF Payload
<1>3. Cardinality(Payload(S) \cup Payload(T))
        = Cardinality(Payload(S)) + Cardinality(Payload(T))
            - Cardinality(Payload(S) \cap Payload(T))
  BY <1>1, FS_Union
<1>4. /\ Cardinality(Payload(S)) \in Nat
      /\ Cardinality(Payload(T)) \in Nat
      /\ Cardinality(Payload(S) \cap Payload(T)) \in Nat
  BY <1>1, FS_Intersection, FS_CardinalityType
<1>5. \A k, m, n \in Nat : m + n - k <= m + n
  OBVIOUS
<1>6. Cardinality(Payload(S) \cup Payload(T))
        <= Cardinality(Payload(S)) + Cardinality(Payload(T))
  BY <1>3, <1>4, <1>5
<1> QED
  BY <1>2, <1>6 DEF Bytes

(* A set of at most one row weighs no more than a message may. *)
LEMMA BytesOfOne ==
  ASSUME Table, NEW S \in SUBSET Handle, \A g, h \in S : g = h
  PROVE  IsFiniteSet(S) /\ Bytes(S) <= MaxRow
<1>1. CASE S = {}
  <2>1. Payload(S) = {}
    BY <1>1 DEF Payload
  <2> QED
    BY <1>1, <2>1, FS_EmptySet, SyncPageAssumption DEF Bytes
<1>2. CASE S # {}
  <2>1. PICK h \in Handle : S = {h}
    BY <1>2
  <2>2. size[h] <= MaxRow
    <3>1. size[h] \in Size
      BY DEF Table
    <3>2. size[h] \in 1..MaxRow
      BY <3>1, SyncPageAssumption
    <3>3. MaxRow \in Nat
      BY SyncPageAssumption
    <3> QED
      BY <3>2, <3>3
  <2>3. Bytes({h}) = size[h] /\ IsFiniteSet({h})
    BY BytesOfRow, FS_Singleton
  <2> QED
    BY <2>1, <2>2, <2>3
<1> QED
  BY <1>1, <1>2

(* Finitely many rows need finitely many roots. *)
LEMMA NeededFinite ==
  ASSUME NEW rows \in SUBSET Handle, IsFiniteSet(rows)
  PROVE  IsFiniteSet(Needed(rows))
<1> DEFINE subs == {g \in rows : SpaceOf[g] # g}
           root == [g \in subs |-> SpaceOf[g]]
<1>1. IsFiniteSet(subs)
  BY FS_Subset
<1>2. root \in Surjection(subs, Needed(rows))
  BY DEF Surjection, Needed
<1> QED
  BY <1>1, <1>2, FS_Surjection

(* A reply is within the rows' cap, or it is one row and one root. *)
LEMMA ReplyIsAccepted ==
  ASSUME IInv, Reply
  PROVE  PullerAccepts'
<1> DEFINE needed == roots \cap Needed(main)
<1>1. Table /\ main \subseteq Handle /\ IsFiniteSet(main)
  BY DEF IInv, Asked
<1>2. needed \subseteq Handle /\ IsFiniteSet(needed)
  BY <1>1, NeededFinite, Spaces, FS_Intersection
<1>3. page'.records = main \cup needed /\ UNCHANGED size
  BY DEF Reply
<1>4. Bytes(main \cup needed) <= Bytes(main) + Bytes(needed)
  BY <1>1, <1>2, BytesTogether
<1>5. Bytes(main) \in Nat /\ Bytes(needed) \in Nat /\ Bytes(main \cup needed) \in Nat
  <2>1. main \cup needed \subseteq Handle /\ IsFiniteSet(main \cup needed)
    BY <1>1, <1>2, FS_Union
  <2> QED
    BY <1>1, <1>2, <2>1, PayloadFinite
<1>6. Bytes(main) + Bytes(needed) <= 2 * MaxBytes + MaxRow
  <2>1. CASE Cardinality(main) > 1
    <3>1. Bytes(main) + Bytes(needed) = Total(main)
      BY DEF Total
    <3>2. ~(Total(main) > 2 * MaxBytes)
      BY <2>1 DEF Reply, TooLarge
    <3> QED
      BY <1>5, <3>1, <3>2, SyncPageAssumption
  <2>2. CASE ~(Cardinality(main) > 1)
    <3>1. Cardinality(main) \in {0, 1}
      BY <1>1, <2>2, FS_CardinalityType
    <3>2. \A g, h \in main : g = h
      <4>1. main = {} \/ \E h : main = {h}
        BY <1>1, <3>1, FS_EmptySet, FS_Singleton
      <4> QED
        BY <4>1
    <3>3. \A g, h \in needed : g = h
      BY <3>2 DEF Needed
    <3>4. Bytes(main) <= MaxRow /\ Bytes(needed) <= MaxRow
      BY <1>1, <1>2, <3>2, <3>3, BytesOfOne
    <3> QED
      BY <1>5, <3>4, SyncPageAssumption
  <2> QED
    BY <2>1, <2>2
<1> HIDE DEF needed
<1>7. Bytes(main \cup needed) <= 2 * MaxBytes + MaxRow
  BY <1>4, <1>5, <1>6, SyncPageAssumption
<1>8. Bytes(page.records)' = Bytes(main \cup needed)
  BY <1>3 DEF Bytes, Payload
<1> QED
  BY <1>7, <1>8 DEF PullerAccepts

(* No bytes are within any cap. *)
LEMMA EmptyIsAccepted == page = Empty => PullerAccepts
<1>1. Payload({}) = {}
  BY DEF Payload
<1>2. Bytes({}) = 0
  BY <1>1, FS_EmptySet DEF Bytes
<1> QED
  BY <1>2, SyncPageAssumption DEF Empty, PullerAccepts

(* No page is refused by a puller with the same limits: sync_page never      *)
(* sends more than two pages' bytes and a message (store.rs:942-947,         *)
(* settings.rs:216-219), whatever the rows weigh.                            *)
THEOREM PagesAreAccepted == Spec => []PullerAccepts
<1>1. Init => PullerAccepts
  BY EmptyIsAccepted DEF Init
<1>2. ASSUME IInv, IInv', PullerAccepts, [Next]_vars PROVE PullerAccepts'
  <2>1. CASE Reply
    BY <1>2, <2>1, ReplyIsAccepted
  <2>2. CASE page' = Empty
    <3>1. (page = Empty => PullerAccepts)'
      <4>1. Payload({})' = {}
        BY DEF Payload
      <4>2. Bytes({})' = 0
        BY <4>1, FS_EmptySet DEF Bytes
      <4> QED
        BY <4>2, SyncPageAssumption DEF Empty, PullerAccepts
    <3> QED
      BY <2>2, <3>1
  <2>3. CASE UNCHANGED <<size, page>>
    BY <1>2, <2>3 DEF PullerAccepts, Bytes, Payload
  <2> QED
    BY <1>2, <2>1, <2>2, <2>3 DEF Next, Request, Take, Selected, AppendRoots, Pop, vars
<1> QED
  BY <1>1, <1>2, PageInductive, PTL DEF Spec

-----------------------------------------------------------------------------
(* A reply holds rows of the table and a number of it. *)
PageTyped == page.records \subseteq Handle /\ page.next \in 0..MaxSeq

(* It is made of the rows taken, and of the roots they need. *)
LEMMA PageTypedInductive ==
  /\ Init => PageTyped
  /\ IInv /\ PageTyped /\ [Next]_vars => PageTyped'
<1>1. Init => PageTyped
  BY SyncPageAssumption DEF Init, Empty, PageTyped
<1>2. ASSUME IInv, PageTyped, [Next]_vars PROVE PageTyped'
  <2>1. CASE Reply
    <3>1. page'.records = main \cup (roots \cap Needed(main))
          /\ page'.next = IF main = {} THEN 0 ELSE seq[LastRow(main)]
      BY <2>1 DEF Reply
    <3>2. page'.records \subseteq Handle
      BY <1>2, <3>1, Spaces DEF IInv, Asked
    <3>3. CASE main = {}
      BY <3>1, <3>2, <3>3, SyncPageAssumption DEF PageTyped
    <3>4. CASE main # {}
      <4>1. LastRow(main) \in Handle
        BY <1>2, <3>4, HasLast DEF IInv, Asked
      <4> QED
        BY <1>2, <3>1, <3>2, <3>4, <4>1 DEF IInv, Table, PageTyped
    <3> QED
      BY <3>3, <3>4
  <2>2. CASE page' \in {Empty, page}
    BY <1>2, <2>2, SyncPageAssumption DEF PageTyped, Empty
  <2> QED
    BY <1>2, <2>1, <2>2 DEF Next, Request, Take, Selected, AppendRoots, Pop, vars
<1> QED
  BY <1>1, <1>2

(* sync_page never takes more rows than it was asked for, and what it takes, *)
(* holds and sends are rows of the table.                                    *)
THEOREM TypeCorrect == Spec => []TypeOK
<1>1. ASSUME IInv, PageTyped PROVE TypeOK
  <2>1. roots \subseteq {SpaceOf[h] : h \in Handle}
    BY <1>1 DEF IInv, Asked, Building, Homed
  <2> QED
    BY <1>1, <2>1 DEF IInv, Table, Asked, PageTyped, TypeOK
<1> QED
  BY <1>1, PageInductive, PageTypedInductive, PTL DEF Spec
==============================================================================
