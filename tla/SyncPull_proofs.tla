--------------------------- MODULE SyncPull_proofs ---------------------------
(***************************************************************************)
(* Proofs about SyncPull.  NothingSkipped is not inductive: it is carried  *)
(* by what every session knows between its steps (SessionKnows), so that the*)
(* number a session writes is covered when it writes it, and by the peer's *)
(* counter, which puts every later write above that number (CounterBounds). *)
(***************************************************************************)
EXTENDS SyncPull, TLAPS

(* The peer never wipes its database.  Everything about the watermark needs *)
(* this: the wipe run shows what happens otherwise.                         *)
Lasting == MaxWipes = 0

(* Versions, and 0 for none, are naturals. *)
LEMMA VersionsAreNat == Version \cup {0} \subseteq Nat
BY ConstantsAssumption DEF ConstantsAssumption

-----------------------------------------------------------------------------
(* Type correctness. *)

(* One step keeps the types. *)
LEMMA TypeStep ==
  ASSUME TypeOK, [Next]_vars
  PROVE  TypeOK'
<1> USE ConstantsAssumption DEF TypeOK
<1>1. ASSUME NEW h \in Handle, NEW v \in Version, PeerStore(h, v) PROVE TypeOK'
  BY <1>1 DEF PeerStore, NextSeq, storeVars, sessionVars
<1>2. ASSUME NEW h \in Handle, PeerEvict(h) PROVE TypeOK'
  BY <1>2 DEF PeerEvict, storeVars, sessionVars
<1>3. CASE PeerWipe
  BY <1>3 DEF PeerWipe, storeVars, sessionVars
<1>4. ASSUME NEW s \in Session, Return(s)
      PROVE  /\ pc' \in [Session -> PC]
             /\ cursor' \in [Session -> Nat]
             /\ latest' \in [Session -> Nat]
             /\ next' \in [Session -> Nat]
             /\ todo' \in [Session -> [Handle -> Version \cup {0}]]
             /\ known' \in [Session -> SUBSET Handle]
             /\ pages' \in [Session -> Nat]
             /\ failed' \in [Session -> Nat]
  BY <1>4 DEF Return, NoRecords, PC
<1>5. ASSUME NEW s \in Session, Step(s) PROVE TypeOK'
  <2>1. CASE Begin(s)
    BY <2>1 DEF Begin, peerVars, storeVars, PC
  <2>2. CASE SummaryNothingNew(s)
    BY <2>2, <1>4 DEF SummaryNothingNew, peerVars, storeVars
  <2>3. CASE SummaryRegressed(s)
    BY <2>3 DEF SummaryRegressed, peerVars, storeVars, PC
  <2>4. CASE Reset(s)
    BY <2>4, <1>4 DEF Reset, peerVars, storeVars
  <2>5. CASE SummaryBehind(s)
    BY <2>5 DEF SummaryBehind, peerVars, storeVars, PC
  <2>6. CASE Fetch(s)
    BY <2>6 DEF Fetch, peerVars, storeVars, PC
  <2>7. CASE FetchEmpty(s)
    BY <2>7 DEF FetchEmpty, peerVars, storeVars, PC
  <2>8. CASE CatchUp(s)
    BY <2>8, <1>4 DEF CatchUp, peerVars, storeVars
  <2>9. CASE Prefilter(s)
    BY <2>9 DEF Prefilter, peerVars, storeVars, PC
  <2>10. ASSUME NEW sp \in Handle, Ingest(s, sp) PROVE TypeOK'
    <3> DEFINE Typed(S) == S \subseteq {h \in Handle : todo[s][h] # 0}
    <3>1. \A S, why : Typed(S) /\ why \in Reason
            => Drop(s, S, why) \subseteq Handle \X Version \X Reason
      BY DEF Drop
    <3>2. /\ Typed(Group(s, sp))
          /\ \A kept \in Admitted(s, sp) : Typed(kept)
      BY DEF Group, Admitted
    <3>3. Attempt(s, sp) => todo' \in [Session -> [Handle -> Version \cup {0}]]
      BY DEF Attempt
    <3>4. CASE IngestNone(s, sp)
      BY <3>4, <3>1, <3>2, <3>3 DEF IngestNone, peerVars, Reason
    <3>5. CASE IngestOrphans(s, sp)
      <4>1. PICK kept \in Admitted(s, sp) :
              dropped' = dropped \cup Drop(s, Group(s, sp) \ kept, "gated")
                                 \cup Drop(s, kept, "orphan")
        BY <3>5 DEF IngestOrphans
      <4>2. Typed(Group(s, sp) \ kept) /\ Typed(kept)
        BY <3>2
      <4>3. dropped' \subseteq Handle \X Version \X Reason
        BY <4>1, <4>2, <3>1 DEF Reason
      <4>4. /\ Attempt(s, sp)
            /\ failed' = [failed EXCEPT ![s] = @ + 1]
            /\ UNCHANGED <<peerVars, mark, local, pc, cursor, latest, next, known, pages>>
        BY <3>5 DEF IngestOrphans
      <4> QED
        BY <3>3, <4>3, <4>4 DEF peerVars
    <3>6. CASE IngestRejected(s, sp)
      <4>1. PICK kept \in Admitted(s, sp) :
              dropped' = dropped \cup Drop(s, Group(s, sp) \ kept, "gated")
                                 \cup Drop(s, kept, "rejected")
        BY <3>6 DEF IngestRejected
      <4>2. Typed(Group(s, sp) \ kept) /\ Typed(kept)
        BY <3>2
      <4>3. dropped' \subseteq Handle \X Version \X Reason
        BY <4>1, <4>2, <3>1 DEF Reason
      <4>4. /\ Attempt(s, sp)
            /\ failed' = [failed EXCEPT ![s] = @ + 1]
            /\ UNCHANGED <<peerVars, mark, local, pc, cursor, latest, next, known, pages>>
        BY <3>6 DEF IngestRejected
      <4> QED
        BY <3>3, <4>3, <4>4 DEF peerVars
    <3>7. CASE IngestStored(s, sp)
      <4>0. PICK kept \in Admitted(s, sp) :
              \E unfit \in SUBSET Skippable(kept) :
                /\ local' = [h \in Handle |->
                     IF h \in kept \ unfit THEN Greater(local[h], todo[s][h])
                                          ELSE local[h]]
                /\ dropped' = dropped \cup Drop(s, Group(s, sp) \ kept, "gated")
                                      \cup Drop(s, unfit, "unfit")
        BY <3>7 DEF IngestStored
      <4>1. PICK unfit \in SUBSET Skippable(kept) :
              /\ local' = [h \in Handle |->
                   IF h \in kept \ unfit THEN Greater(local[h], todo[s][h])
                                        ELSE local[h]]
              /\ dropped' = dropped \cup Drop(s, Group(s, sp) \ kept, "gated")
                                    \cup Drop(s, unfit, "unfit")
        BY <4>0
      <4>2. Typed(Group(s, sp) \ kept) /\ Typed(unfit)
        BY <3>2 DEF Skippable
      <4>3. dropped' \subseteq Handle \X Version \X Reason
        BY <4>1, <4>2, <3>1 DEF Reason
      <4>4. local' \in [Handle -> Version \cup {0}]
        BY <4>1 DEF Greater
      <4>5. failed' \in [Session -> Nat]
        <5>1. failed' = failed \/ failed' = [failed EXCEPT ![s] = @ + 1]
          BY <3>7 DEF IngestStored
        <5> QED
          BY <5>1
      <4>6. UNCHANGED <<peerVars, mark, pc, cursor, latest, next, known, pages>>
        BY <3>7 DEF IngestStored
      <4>7. Attempt(s, sp)
        BY <3>7 DEF IngestStored
      <4> QED
        BY <4>7, <3>3, <4>3, <4>4, <4>5, <4>6 DEF peerVars
    <3> QED
      BY <2>10, <3>4, <3>5, <3>6, <3>7 DEF Ingest
  <2>11. CASE BudgetSpent(s)
    BY <2>11, <1>4 DEF BudgetSpent, peerVars, storeVars
  <2>12. CASE CommitLast(s)
    BY <2>12, <1>4 DEF CommitLast, Accepted, Lesser, peerVars, storeVars
  <2>13. CASE CommitMore(s)
    BY <2>13 DEF CommitMore, Accepted, Lesser, peerVars, storeVars, PC
  <2> QED
    BY <1>5, <2>1, <2>2, <2>3, <2>4, <2>5, <2>6, <2>7, <2>8, <2>9, <2>10,
       <2>11, <2>12, <2>13 DEF Step
<1>6. ASSUME NEW s \in Session, Abort(s) PROVE TypeOK'
  BY <1>6, <1>4 DEF Abort, peerVars, storeVars
<1>7. ASSUME NEW h \in Handle, LocalEvict(h) PROVE TypeOK'
  BY <1>7 DEF LocalEvict, peerVars, sessionVars, Reason
<1>8. ASSUME NEW h \in Handle, NEW v \in Version, StoredElsewhere(h, v) PROVE TypeOK'
  BY <1>8 DEF StoredElsewhere, peerVars, sessionVars
<1>9. CASE Crash
  BY <1>9 DEF Crash, peerVars, storeVars, NoRecords, PC
<1>10. CASE UNCHANGED vars
  BY <1>10 DEF vars, peerVars, storeVars, sessionVars
<1> QED
  BY <1>1, <1>2, <1>3, <1>5, <1>6, <1>7, <1>8, <1>9, <1>10 DEF Next, Peer, Ourselves

(* Every variable keeps its type, whatever the sessions and the peer do. *)
THEOREM TypeCorrect == Spec => []TypeOK
<1>1. Init => TypeOK
  BY DEF Init, TypeOK, NoRecords, PC
<1>2. TypeOK /\ [Next]_vars => TypeOK'
  BY TypeStep
<1> QED
  BY <1>1, <1>2, PTL DEF Spec

-----------------------------------------------------------------------------
(* Facts about single steps. *)

(* A settled version stays settled: a stored version is only replaced by a  *)
(* better one, and what eviction takes is recorded as dropped.              *)
LEMMA SettledStays ==
  ASSUME TypeOK, [Next]_vars, NEW h \in Handle, NEW v \in Version, Settled(h, v)
  PROVE  Settled(h, v)'
<1> USE ConstantsAssumption DEF TypeOK
<1>1. CASE UNCHANGED <<local, dropped>>
  BY <1>1 DEF Settled
<1>2. CASE local' = local /\ dropped \subseteq dropped'
  BY <1>2 DEF Settled
<1>3. ASSUME NEW s \in Session, NEW sp \in Handle, Ingest(s, sp) PROVE Settled(h, v)'
  <2>1. CASE IngestNone(s, sp)
    BY <2>1, <1>2 DEF IngestNone
  <2>2. CASE IngestOrphans(s, sp)
    BY <2>2, <1>2 DEF IngestOrphans
  <2>3. CASE IngestRejected(s, sp)
    BY <2>3, <1>2 DEF IngestRejected
  <2>4. CASE IngestStored(s, sp)
    <3>1. local[h] \in Nat /\ todo[s][h] \in Nat /\ v \in Nat
      <4>1. local[h] \in Version \cup {0} /\ todo[s][h] \in Version \cup {0}
        OBVIOUS
      <4> QED
        BY <4>1, VersionsAreNat
    <3>2. PICK kept \in Admitted(s, sp) :
            \E unfit \in SUBSET Skippable(kept) :
              local' = [g \in Handle |->
                IF g \in kept \ unfit THEN Greater(local[g], todo[s][g])
                                      ELSE local[g]]
      <4> HIDE ConstantsAssumption DEF TypeOK
      <4> QED
        BY <2>4 DEF IngestStored
    <3>3. local'[h] = local[h] \/ local'[h] = Greater(local[h], todo[s][h])
      BY <3>2
    <3>4. local[h] >= v => local'[h] >= v
      BY <3>1, <3>3 DEF Greater
    <3>5. dropped \subseteq dropped'
      BY <2>4 DEF IngestStored
    <3>6. local[h] >= v \/ \E why \in Reason : <<h, v, why>> \in dropped
      BY DEF Settled
    <3>7. local'[h] >= v \/ \E why \in Reason : <<h, v, why>> \in dropped'
      <4> HIDE DEF TypeOK
      <4> QED
        BY <3>4, <3>5, <3>6
    <3> QED
      BY <3>7 DEF Settled
  <2> QED
    BY <1>3, <2>1, <2>2, <2>3, <2>4 DEF Ingest
<1>4. ASSUME NEW g \in Handle, LocalEvict(g) PROVE Settled(h, v)'
  <2>1. CASE g # h
    BY <1>4, <2>1 DEF LocalEvict, Settled
  <2>2. CASE g = h /\ local[h] >= v
    <3>1. <<h, v, "evicted">> \in dropped'
      BY <1>4, <2>2 DEF LocalEvict
    <3> QED
      BY <3>1 DEF Settled, Reason
  <2>3. CASE ~(local[h] >= v)
    BY <1>4, <2>3 DEF LocalEvict, Settled
  <2> QED
    BY <2>1, <2>2, <2>3
<1>5. ASSUME NEW s \in Session, Step(s), \A sp \in Handle : ~Ingest(s, sp)
      PROVE  UNCHANGED <<local, dropped>>
  BY <1>5 DEF Step, storeVars, Begin, SummaryNothingNew, SummaryRegressed, Reset,
     SummaryBehind, Fetch, FetchEmpty, CatchUp, Prefilter, BudgetSpent, CommitLast,
     CommitMore
<1>6. CASE Peer
  BY <1>6, <1>1 DEF Peer, PeerStore, PeerEvict, PeerWipe, storeVars
<1>7. ASSUME NEW s \in Session, Abort(s) PROVE Settled(h, v)'
  BY <1>7, <1>1 DEF Abort, storeVars
<1>8. CASE Crash
  BY <1>8, <1>1 DEF Crash, storeVars
<1>9. CASE UNCHANGED vars
  BY <1>9, <1>1 DEF vars, storeVars
<1>10. ASSUME NEW g \in Handle, NEW w \in Version, StoredElsewhere(g, w)
       PROVE  Settled(h, v)'
  <2>1. local[h] \in Nat /\ v \in Nat /\ w \in Nat
    <3>1. local[h] \in Version \cup {0}
      OBVIOUS
    <3> QED
      BY <3>1, VersionsAreNat
  <2>2. /\ local'[h] = local[h] \/ (local'[h] = w /\ w > local[h])
        /\ dropped' = dropped
    BY <1>10 DEF StoredElsewhere
  <2>3. local[h] >= v => local'[h] >= v
    BY <2>1, <2>2
  <2> QED
    BY <2>2, <2>3 DEF Settled
<1> QED
  BY <1>1, <1>3, <1>4, <1>5, <1>6, <1>7, <1>8, <1>9, <1>10 DEF Next, Ourselves

(* Without a wipe the peer only changes a row by removing it or by numbering *)
(* its new content above the counter.                                        *)
LEMMA RowsOnlyMoveUp ==
  ASSUME TypeOK, [Next]_vars, ~PeerWipe
  PROVE  /\ counter <= counter'
         /\ \A h \in Handle :
              \/ seq'[h] = seq[h] /\ ver'[h] = ver[h]
              \/ seq'[h] = 0
              \/ seq'[h] = counter' /\ counter' = counter + 1 /\ ver'[h] # 0
<1> USE ConstantsAssumption DEF TypeOK
<1>1. ASSUME NEW g \in Handle, NEW v \in Version, PeerStore(g, v)
      PROVE  /\ counter <= counter'
             /\ \A h \in Handle :
                  \/ seq'[h] = seq[h] /\ ver'[h] = ver[h]
                  \/ seq'[h] = 0
                  \/ seq'[h] = counter' /\ counter' = counter + 1 /\ ver'[h] # 0
  BY <1>1 DEF PeerStore, NextSeq
<1>2. ASSUME NEW g \in Handle, PeerEvict(g)
      PROVE  /\ counter' = counter
             /\ \A h \in Handle :
                  \/ seq'[h] = seq[h] /\ ver'[h] = ver[h]
                  \/ seq'[h] = 0
  BY <1>2 DEF PeerEvict
<1>3. ASSUME NEW s \in Session, Step(s) PROVE UNCHANGED <<seq, ver, counter>>
  BY <1>3 DEF Step, peerVars, Begin, SummaryNothingNew, SummaryRegressed, Reset,
     SummaryBehind, Fetch, FetchEmpty, CatchUp, Prefilter, BudgetSpent, CommitLast,
     CommitMore, Ingest, IngestNone, IngestOrphans, IngestRejected, IngestStored
<1>4. ASSUME UNCHANGED <<seq, ver, counter>>
      PROVE  counter <= counter' /\ \A h \in Handle : seq'[h] = seq[h] /\ ver'[h] = ver[h]
  BY <1>4
<1>5. (\E s \in Session : Abort(s)) \/ Ourselves \/ Crash \/ UNCHANGED vars
        => UNCHANGED <<seq, ver, counter>>
  BY DEF Abort, Ourselves, LocalEvict, StoredElsewhere, Crash, vars, peerVars
<1> QED
  BY <1>1, <1>2, <1>3, <1>4, <1>5 DEF Next, Peer

(* What ingestion takes off the page it settles: stored, or dropped by the  *)
(* gate, for want of a root, by the verifier, or as unfit by our own store. *)
LEMMA IngestSettles ==
  ASSUME TypeOK, NEW s \in Session, NEW sp \in Handle, Ingest(s, sp),
         NEW h \in Group(s, sp), NEW v, v = todo[s][h]
  PROVE  Settled(h, v)'
<1> USE DEF TypeOK
<1>1. h \in Handle /\ v \in Nat /\ local[h] \in Nat
  <2>1. h \in Handle
    BY DEF Group
  <2>2. v \in Version \cup {0} /\ local[h] \in Version \cup {0}
    BY <2>1
  <2> QED
    BY <2>1, <2>2, VersionsAreNat
<1>2. \A S, why : h \in S => <<h, v, why>> \in Drop(s, S, why)
  BY DEF Drop
<1>3. (\E why \in Reason : <<h, v, why>> \in dropped') => Settled(h, v)'
  BY DEF Settled
<1>4. CASE IngestNone(s, sp)
  <2>1. <<h, v, "gated">> \in Drop(s, Group(s, sp), "gated")
    BY <1>2
  <2> QED
    BY <2>1, <1>3, <1>4 DEF IngestNone, Reason
<1>5. CASE IngestOrphans(s, sp)
  <2>1. PICK kept \in Admitted(s, sp) :
          dropped' = dropped \cup Drop(s, Group(s, sp) \ kept, "gated")
                             \cup Drop(s, kept, "orphan")
    BY <1>5 DEF IngestOrphans
  <2> QED
    BY <2>1, <1>2, <1>3 DEF Reason
<1>6. CASE IngestRejected(s, sp)
  <2>1. PICK kept \in Admitted(s, sp) :
          dropped' = dropped \cup Drop(s, Group(s, sp) \ kept, "gated")
                             \cup Drop(s, kept, "rejected")
    BY <1>6 DEF IngestRejected
  <2> QED
    BY <2>1, <1>2, <1>3 DEF Reason
<1>7. CASE IngestStored(s, sp)
  <2>1. PICK kept \in Admitted(s, sp) :
          \E unfit \in SUBSET Skippable(kept) :
            /\ local' = [g \in Handle |->
                 IF g \in kept \ unfit THEN Greater(local[g], todo[s][g])
                                       ELSE local[g]]
            /\ dropped' = dropped \cup Drop(s, Group(s, sp) \ kept, "gated")
                                  \cup Drop(s, unfit, "unfit")
    BY <1>7 DEF IngestStored
  <2>2. PICK unfit \in SUBSET Skippable(kept) :
            /\ local' = [g \in Handle |->
                 IF g \in kept \ unfit THEN Greater(local[g], todo[s][g])
                                       ELSE local[g]]
            /\ dropped' = dropped \cup Drop(s, Group(s, sp) \ kept, "gated")
                                  \cup Drop(s, unfit, "unfit")
    BY <2>1
  <2>3. CASE h \in kept \ unfit
    <3>1. local'[h] = Greater(local[h], v)
      BY <2>2, <2>3, <1>1
    <3>2. local'[h] >= v
      BY <3>1, <1>1 DEF Greater
    <3> QED
      BY <3>2 DEF Settled
  <2>4. CASE h \in (Group(s, sp) \ kept) \cup unfit
    BY <2>2, <2>4, <1>2, <1>3 DEF Reason
  <2> QED
    BY <2>3, <2>4
<1> QED
  BY <1>4, <1>5, <1>6, <1>7 DEF Ingest

(* The version of an absent row needs nothing. *)
LEMMA AbsentSettled ==
  ASSUME TypeOK, [Next]_vars, NEW h \in Handle
  PROVE  Settled(h, 0)'
<1>1. local'[h] \in Version \cup {0}
  BY TypeStep DEF TypeOK
<1>2. local'[h] \in Nat
  BY <1>1, VersionsAreNat
<1> QED
  BY <1>2 DEF Settled

(* A covered number stays covered: rows at or below it are only removed,    *)
(* and what is settled stays settled.                                       *)
LEMMA CoveredStays ==
  ASSUME TypeOK, [Next]_vars, ~PeerWipe, NEW n \in Nat, n <= counter, Covered(n)
  PROVE  Covered(n)'
<1> SUFFICES ASSUME NEW h \in Handle, seq'[h] # 0, seq'[h] <= n,
                    NEW v, v = ver'[h]
             PROVE  Settled(h, v)'
  BY DEF Covered, Settled
<1>1. seq'[h] = seq[h] /\ v = ver[h]
  BY RowsOnlyMoveUp DEF TypeOK
<1>2. Settled(h, v)
  BY <1>1 DEF Covered
<1>3. v = 0 \/ v \in Version
  BY <1>1 DEF TypeOK
<1>4. CASE v = 0
  BY <1>4, AbsentSettled DEF Settled
<1> QED
  BY <1>2, <1>3, <1>4, SettledStays

-----------------------------------------------------------------------------
(* The inductive invariant. *)

(* What a session knows survives every step that leaves the session alone.  *)
LEMMA KnowsStays ==
  ASSUME TypeOK, [Next]_vars, ~PeerWipe, NEW s \in Session,
         CounterBounds, SessionKnows(s),
         pc'[s] = pc[s], cursor'[s] = cursor[s], latest'[s] = latest[s],
         next'[s] = next[s], todo'[s] = todo[s]
  PROVE  SessionKnows(s)'
<1>1. /\ counter \in Nat /\ counter' \in Nat /\ counter <= counter'
      /\ cursor[s] \in Nat /\ latest[s] \in Nat /\ next[s] \in Nat
  BY TypeStep, RowsOnlyMoveUp DEF TypeOK
<1>2. \A n \in Nat : n <= counter /\ Covered(n) => Covered(n)'
  BY CoveredStays
<1>3. ASSUME pc[s] # "idle"
      PROVE  cursor'[s] <= counter' /\ Covered(cursor[s])'
  <2>1. PICK n \in Nat : n = cursor[s] /\ n = cursor'[s]
    BY <1>1
  <2>2. n <= counter /\ Covered(n)
    BY <1>3, <2>1 DEF SessionKnows
  <2> QED
    BY <1>1, <1>2, <2>1, <2>2 DEF Covered
<1>4. ASSUME pc[s] = "catchup"
      PROVE  Covered(latest[s])'
  <2>1. PICK n \in Nat : n = latest[s] /\ n = latest'[s]
    BY <1>1
  <2>2. n <= counter /\ Covered(n)
    BY <1>4, <2>1 DEF SessionKnows
  <2> QED
    BY <1>2, <2>1, <2>2 DEF Covered
<1>5. ASSUME pc[s] \in {"fetch", "catchup", "page", "ingest"}
      PROVE  latest'[s] <= counter'
  BY <1>1, <1>5 DEF SessionKnows
<1>6. ASSUME pc[s] \in {"page", "ingest"}
      PROVE  /\ next'[s] <= counter'
             /\ \A h \in Handle :
                  seq'[h] # 0 /\ seq'[h] <= next'[s]
                    => Settled(h, ver[h])' \/ todo'[s][h] = ver'[h]
  <2>1. next[s] <= counter
    BY <1>6 DEF SessionKnows
  <2>2. ASSUME NEW h \in Handle, seq'[h] # 0, seq'[h] <= next'[s], todo'[s][h] # ver'[h]
        PROVE  Settled(h, ver[h])'
    <3>1. seq'[h] = seq[h] /\ ver'[h] = ver[h]
      BY <1>1, <2>1, <2>2, RowsOnlyMoveUp
    <3>2. PICK v \in Version : v = ver[h] /\ v = ver'[h]
      BY <2>2, <3>1 DEF CounterBounds, TypeOK
    <3>3. Settled(h, v)
      BY <1>6, <2>2, <3>1, <3>2 DEF SessionKnows
    <3>4. Settled(h, v)'
      BY <3>3, SettledStays
    <3> QED
      BY <3>2, <3>4 DEF Settled
  <2> QED
    BY <1>1, <2>1, <2>2
<1> QED
  BY <1>3, <1>4, <1>5, <1>6 DEF SessionKnows

(* The peer's rows stay within its counter, and so does the watermark when  *)
(* a session leaves it alone.                                               *)
LEMMA CounterStays ==
  ASSUME TypeOK, [Next]_vars, ~PeerWipe, CounterBounds
  PROVE  /\ mark <= counter'
         /\ \A h \in Handle : seq'[h] <= counter' /\ (seq'[h] # 0 => ver'[h] # 0)
<1>1. mark \in Nat /\ counter \in Nat /\ counter' \in Nat /\ counter <= counter'
  BY TypeStep, RowsOnlyMoveUp DEF TypeOK
<1>2. ASSUME NEW h \in Handle
      PROVE  seq'[h] <= counter' /\ (seq'[h] # 0 => ver'[h] # 0)
  <2>1. seq[h] \in Nat /\ seq[h] <= counter /\ (seq[h] # 0 => ver[h] # 0)
    BY DEF TypeOK, CounterBounds
  <2> QED
    BY <1>1, <2>1, RowsOnlyMoveUp
<1> QED
  BY <1>1, <1>2 DEF CounterBounds

(* A watermark left alone stays covered. *)
LEMMA MarkStays ==
  ASSUME TypeOK, [Next]_vars, ~PeerWipe, CounterBounds, NothingSkipped, mark' = mark
  PROVE  CounterBounds' /\ NothingSkipped'
<1>1. PICK n \in Nat : n = mark /\ n = mark'
  BY DEF TypeOK
<1>2. Covered(n)'
  BY <1>1, CoveredStays DEF NothingSkipped, CounterBounds
<1> QED
  BY <1>1, <1>2, CounterStays DEF NothingSkipped, Covered, CounterBounds

(* A session whose state is gone claims nothing. *)
LEMMA ReturnKnows ==
  ASSUME TypeOK, NEW s \in Session, Return(s)
  PROVE  /\ SessionKnows(s)'
         /\ \A t \in Session \ {s} :
              /\ pc'[t] = pc[t] /\ cursor'[t] = cursor[t] /\ latest'[t] = latest[t]
              /\ next'[t] = next[t] /\ todo'[t] = todo[t]
<1>1. pc'[s] = "idle"
  BY DEF Return, TypeOK
<1>2. SessionKnows(s)'
  BY <1>1 DEF SessionKnows
<1> QED
  BY <1>2 DEF Return, TypeOK

(* Ingestion takes records off the page only by settling them. *)
LEMMA IngestKnows ==
  ASSUME TypeOK, NEW s \in Session, NEW sp \in Handle, Ingest(s, sp), [Next]_vars,
         SessionKnows(s)
  PROVE  SessionKnows(s)'
<1>1. /\ UNCHANGED <<seq, ver, counter, pc, cursor, latest, next>>
      /\ pc[s] = "ingest"
      /\ Attempt(s, sp)
  BY DEF Ingest, IngestNone, IngestOrphans, IngestRejected, IngestStored, Attempt,
     peerVars
<1>2. \A h \in Handle : todo'[s][h] = IF SpaceOf[h] = sp THEN 0 ELSE todo[s][h]
  BY <1>1 DEF Attempt, TypeOK
<1>3. ASSUME NEW h \in Handle, seq[h] # 0, seq[h] <= next[s], todo'[s][h] # ver[h]
      PROVE  Settled(h, ver[h])'
  <2>1. PICK v \in Version \cup {0} : v = ver[h] /\ v = ver'[h]
    BY <1>1 DEF TypeOK
  <2>2. CASE v # 0 /\ Settled(h, v)
    <3>1. v \in Version
      BY <2>2
    <3>2. Settled(h, v)'
      BY <2>2, <3>1, SettledStays
    <3> QED
      BY <2>1, <3>2 DEF Settled
  <2>3. CASE v # 0 /\ todo[s][h] = v
    <3>1. h \in Group(s, sp)
      BY <1>2, <1>3, <2>1, <2>3 DEF Group
    <3>2. Settled(h, v)'
      BY <2>3, <3>1, IngestSettles
    <3> QED
      BY <2>1, <3>2 DEF Settled
  <2>4. CASE v = 0
    BY <2>1, <2>4, AbsentSettled DEF Settled
  <2> QED
    BY <1>1, <1>3, <2>1, <2>2, <2>3, <2>4 DEF SessionKnows
<1>4. ASSUME NEW n \in Nat, Covered(n) PROVE Covered(n)'
  <2> SUFFICES ASSUME NEW h \in Handle, seq[h] # 0, seq[h] <= n,
                      NEW v \in Version \cup {0}, v = ver[h], v = ver'[h]
               PROVE  Settled(h, v)'
    BY <1>1 DEF Covered, Settled, TypeOK
  <2>1. CASE v # 0
    BY <1>4, <2>1, SettledStays DEF Covered
  <2>2. CASE v = 0
    BY <2>2, AbsentSettled DEF Settled
  <2> QED
    BY <2>1, <2>2
<1>5. Covered(cursor[s])'
  <2>1. PICK n \in Nat : n = cursor[s] /\ n = cursor'[s]
    BY <1>1 DEF TypeOK
  <2> QED
    BY <1>1, <1>4, <2>1 DEF SessionKnows, Covered
<1> QED
  BY <1>1, <1>3, <1>5 DEF SessionKnows

(* One step keeps the watermark sound. *)
LEMMA WatermarkStep ==
  ASSUME TypeOK, [Next]_vars, ~PeerWipe, WatermarkSound
  PROVE  WatermarkSound'
<1> USE DEF WatermarkSound
<1>1. ASSUME mark' = mark,
             UNCHANGED sessionVars
      PROVE  WatermarkSound'
  BY <1>1, MarkStays, KnowsStays DEF sessionVars
<1>2. ASSUME NEW s \in Session, Return(s), mark' = mark
      PROVE  WatermarkSound'
  BY <1>2, MarkStays, KnowsStays, ReturnKnows
<1>3. ASSUME NEW s \in Session, mark' = mark, SessionKnows(s)',
             \A t \in Session \ {s} :
               /\ pc'[t] = pc[t] /\ cursor'[t] = cursor[t] /\ latest'[t] = latest[t]
               /\ next'[t] = next[t] /\ todo'[t] = todo[t]
      PROVE  WatermarkSound'
  BY <1>3, MarkStays, KnowsStays
<1>4. ASSUME NEW s \in Session, NEW n \in Nat, mark' = n, n <= counter', Covered(n)',
             SessionKnows(s)',
             \A t \in Session \ {s} :
               /\ pc'[t] = pc[t] /\ cursor'[t] = cursor[t] /\ latest'[t] = latest[t]
               /\ next'[t] = next[t] /\ todo'[t] = todo[t]
      PROVE  WatermarkSound'
  BY <1>4, CounterStays, KnowsStays DEF NothingSkipped, Covered, CounterBounds
<1>5. CASE Peer
  BY <1>5, <1>1 DEF Peer, PeerStore, PeerEvict, PeerWipe
<1>6. ASSUME NEW s \in Session, Begin(s) PROVE WatermarkSound'
  <2>1. SessionKnows(s)'
    BY <1>6 DEF Begin, SessionKnows, NothingSkipped, CounterBounds, Covered, Settled,
       peerVars, storeVars, TypeOK
  <2> QED
    BY <1>3, <1>6, <2>1 DEF Begin, TypeOK
<1>7. ASSUME NEW s \in Session, SummaryNothingNew(s) PROVE WatermarkSound'
  BY <1>2, <1>7 DEF SummaryNothingNew
<1>8. ASSUME NEW s \in Session, SummaryRegressed(s) PROVE WatermarkSound'
  <2>1. SessionKnows(s)'
    BY <1>8 DEF SummaryRegressed, SessionKnows, Covered, Settled, peerVars, storeVars, TypeOK
  <2> QED
    BY <1>3, <1>8, <2>1 DEF SummaryRegressed, TypeOK
<1>9. ASSUME NEW s \in Session, Reset(s) PROVE WatermarkSound'
  <2>1. mark' = 0 /\ 0 <= counter' /\ Covered(0)'
    <3>1. seq' \in [Handle -> Nat] /\ counter' \in Nat
      BY TypeStep DEF TypeOK
    <3> QED
      BY <1>9, <3>1 DEF Reset, Covered
  <2> QED
    BY <1>4, <1>9, <2>1, ReturnKnows DEF Reset
<1>10. ASSUME NEW s \in Session, SummaryBehind(s) PROVE WatermarkSound'
  <2>0. /\ UNCHANGED <<seq, ver, counter, local, dropped, cursor>>
        /\ pc[s] = "summary" /\ pc'[s] = "fetch"
        /\ latest'[s] = counter
        /\ counter \in Nat
    BY <1>10 DEF SummaryBehind, peerVars, storeVars, TypeOK
  <2>1. SessionKnows(s)'
    BY <2>0 DEF SessionKnows, Covered, Settled
  <2> QED
    BY <1>3, <1>10, <2>1 DEF SummaryBehind, TypeOK
<1>11. ASSUME NEW s \in Session, Fetch(s) PROVE WatermarkSound'
  <2>1. PICK g \in Handle :
          /\ seq[g] > cursor[s]
          /\ next' = [next EXCEPT ![s] = seq[g]]
          /\ todo' = [todo EXCEPT ![s] = [h \in Handle |->
               IF h \in MainRows(cursor[s], seq[g])
                        \cup Companions(MainRows(cursor[s], seq[g]), seq[g])
                 THEN ver[h] ELSE 0]]
    BY <1>11 DEF Fetch
  <2>2. /\ pc[s] = "fetch" /\ pc'[s] = "page"
        /\ UNCHANGED <<seq, ver, counter, mark, local, dropped, cursor, latest>>
        /\ \A t \in Session \ {s} : pc'[t] = pc[t]
    BY <1>11 DEF Fetch, peerVars, storeVars, TypeOK
  <2>3. next'[s] <= counter'
    BY <2>1, <2>2 DEF CounterBounds, TypeOK
  <2>4. ASSUME NEW h \in Handle, seq[h] # 0, seq[h] <= next'[s]
        PROVE  Settled(h, ver[h]) \/ todo'[s][h] = ver[h]
    <3>1. CASE seq[h] <= cursor[s]
      BY <2>2, <2>4, <3>1 DEF SessionKnows, Covered
    <3>2. CASE seq[h] > cursor[s]
      <4>1. next'[s] = seq[g]
        BY <2>1 DEF TypeOK
      <4>2. h \in MainRows(cursor[s], seq[g])
        BY <2>4, <3>2, <4>1 DEF MainRows
      <4> QED
        BY <2>1, <4>2 DEF TypeOK
    <3> QED
      BY <3>1, <3>2 DEF TypeOK
  <2>5. SessionKnows(s)'
    BY <2>2, <2>3, <2>4 DEF SessionKnows, Covered, Settled
  <2> QED
    BY <1>3, <2>1, <2>2, <2>5 DEF TypeOK
<1>12. ASSUME NEW s \in Session, FetchEmpty(s) PROVE WatermarkSound'
  <2>1. Covered(latest[s])
    BY <1>12 DEF FetchEmpty, SessionKnows, Covered
  <2>2. SessionKnows(s)'
    BY <1>12, <2>1 DEF FetchEmpty, SessionKnows, Covered, Settled, peerVars, storeVars, TypeOK
  <2> QED
    BY <1>3, <1>12, <2>2 DEF FetchEmpty, TypeOK
<1>13. ASSUME NEW s \in Session, CatchUp(s) PROVE WatermarkSound'
  <2>1. UNCHANGED <<seq, ver, counter, local, dropped>> /\ pc[s] = "catchup"
    BY <1>13 DEF CatchUp, peerVars, storeVars
  <2>2. CASE cursor[s] < latest[s]
    <3>1. PICK n \in Nat : n = latest[s]
      BY DEF TypeOK
    <3>2. mark' = n /\ n <= counter' /\ Covered(n)'
      BY <1>13, <2>1, <2>2, <3>1 DEF CatchUp, SessionKnows, Covered, Settled
    <3> QED
      BY <1>4, <1>13, <3>2, ReturnKnows DEF CatchUp
  <2>3. CASE ~(cursor[s] < latest[s])
    BY <1>2, <1>13, <2>3 DEF CatchUp
  <2> QED
    BY <2>2, <2>3
<1>14. ASSUME NEW s \in Session, Prefilter(s) PROVE WatermarkSound'
  <2>1. /\ UNCHANGED <<seq, ver, counter, mark, local, dropped, cursor, latest, next>>
        /\ pc[s] = "page" /\ pc'[s] = "ingest"
        /\ \A h \in Handle : todo'[s][h] = IF todo[s][h] = local[h] THEN 0 ELSE todo[s][h]
        /\ \A t \in Session \ {s} : pc'[t] = pc[t] /\ todo'[t] = todo[t]
    BY <1>14 DEF Prefilter, peerVars, storeVars, TypeOK
  <2>2. ASSUME NEW h \in Handle, seq[h] # 0, seq[h] <= next[s]
        PROVE  Settled(h, ver[h]) \/ todo'[s][h] = ver[h]
    <3>1. Settled(h, ver[h]) \/ todo[s][h] = ver[h]
      BY <2>1, <2>2 DEF SessionKnows
    <3>2. local[h] \in Nat
      BY VersionsAreNat DEF TypeOK
    <3>3. local[h] = ver[h] => Settled(h, ver[h])
      BY <3>2 DEF Settled
    <3> QED
      BY <2>1, <3>1, <3>3
  <2>3. SessionKnows(s)'
    BY <2>1, <2>2 DEF SessionKnows, Covered, Settled
  <2> QED
    BY <1>3, <2>1, <2>3
<1>15. ASSUME NEW s \in Session, NEW sp \in Handle, Ingest(s, sp) PROVE WatermarkSound'
  <2>1. SessionKnows(s)'
    BY <1>15, IngestKnows
  <2>2. /\ UNCHANGED <<mark, pc, cursor, latest, next>>
        /\ \A t \in Session \ {s} : todo'[t] = todo[t]
    BY <1>15 DEF Ingest, IngestNone, IngestOrphans, IngestRejected, IngestStored, Attempt,
       TypeOK
  <2> QED
    BY <1>3, <2>1, <2>2
<1>16. ASSUME NEW s \in Session, BudgetSpent(s) PROVE WatermarkSound'
  BY <1>2, <1>16 DEF BudgetSpent
<1>17. ASSUME NEW s \in Session, pc[s] = "ingest", todo[s] = NoRecords
       PROVE  Covered(next[s]) /\ next[s] <= counter
  <2>1. \A h \in Handle : todo[s][h] = 0
    BY <1>17 DEF NoRecords
  <2> QED
    BY <1>17, <2>1 DEF SessionKnows, CounterBounds, Covered
<1>18. ASSUME NEW s \in Session, CommitLast(s) \/ CommitMore(s)
       PROVE  /\ mark' \in Nat
              /\ mark' <= counter'
              /\ \A n \in Nat : n = mark' => Covered(n)'
  <2>1. /\ UNCHANGED <<seq, ver, counter, local, dropped>>
        /\ pc[s] = "ingest" /\ todo[s] = NoRecords
        /\ mark' = Accepted(s)
    BY <1>18 DEF CommitLast, CommitMore, peerVars, storeVars
  <2>2. next[s] \in Nat /\ latest[s] \in Nat /\ counter \in Nat
    BY DEF TypeOK
  <2>3. mark' \in Nat /\ mark' <= next[s]
    BY <2>1, <2>2 DEF Accepted, Lesser
  <2>4. Covered(next[s]) /\ next[s] <= counter
    BY <1>17, <2>1
  <2>5. ASSUME NEW n \in Nat, n = mark' PROVE Covered(n)'
    <3>1. \A h \in Handle : seq[h] \in Nat /\ (seq[h] <= n => seq[h] <= next[s])
      BY <2>2, <2>3, <2>5 DEF TypeOK
    <3> QED
      BY <2>1, <2>4, <3>1 DEF Covered, Settled
  <2> QED
    BY <2>1, <2>2, <2>3, <2>4, <2>5
<1>19. ASSUME NEW s \in Session, CommitLast(s) PROVE WatermarkSound'
  BY <1>4, <1>18, <1>19, ReturnKnows DEF CommitLast
<1>20. ASSUME NEW s \in Session, CommitMore(s) PROVE WatermarkSound'
  <2>1. /\ UNCHANGED <<seq, ver, counter, local, dropped, latest, todo>>
        /\ pc[s] = "ingest" /\ pc'[s] = "fetch"
        /\ cursor'[s] = next[s]
        /\ todo[s] = NoRecords
        /\ \A t \in Session \ {s} :
             pc'[t] = pc[t] /\ cursor'[t] = cursor[t] /\ next'[t] = next[t]
    BY <1>20 DEF CommitMore, peerVars, storeVars, TypeOK
  <2>2. SessionKnows(s)'
    BY <1>17, <2>1 DEF SessionKnows, Covered, Settled
  <2> QED
    BY <1>4, <1>18, <1>20, <2>1, <2>2
<1>21. ASSUME NEW s \in Session, Abort(s) PROVE WatermarkSound'
  BY <1>2, <1>21 DEF Abort
<1>22. ASSUME NEW h \in Handle, LocalEvict(h) PROVE WatermarkSound'
  BY <1>1, <1>22 DEF LocalEvict
<1>23. ASSUME NEW h \in Handle, NEW v \in Version, StoredElsewhere(h, v)
       PROVE  WatermarkSound'
  BY <1>1, <1>23 DEF StoredElsewhere
<1>24. CASE Crash
  BY <1>24, MarkStays DEF Crash, SessionKnows
<1>25. CASE UNCHANGED vars
  BY <1>1, <1>25 DEF vars
<1> QED
  BY <1>5, <1>6, <1>7, <1>8, <1>9, <1>10, <1>11, <1>12, <1>13, <1>14, <1>15, <1>16,
     <1>19, <1>20, <1>21, <1>22, <1>23, <1>24, <1>25 DEF Next, Step, Ourselves

(* While the peer keeps its database, the watermark and every session's     *)
(* knowledge are sound in every state.                                      *)
THEOREM Soundness == ASSUME Lasting PROVE Spec => []WatermarkSound
<1>1. Init => WatermarkSound
  BY DEF Init, WatermarkSound, CounterBounds, NothingSkipped, Covered, SessionKnows
<1>2. TypeOK /\ WatermarkSound /\ [Next]_vars => WatermarkSound'
  <2>1. TypeOK => ~PeerWipe
    BY DEF Lasting, TypeOK, PeerWipe
  <2> QED
    BY <2>1, WatermarkStep
<1> QED
  BY <1>1, <1>2, TypeCorrect, PTL DEF Spec

(* While the peer keeps its database, a round that finds nothing new leaves *)
(* no row of the peer unsettled (sync.rs:495 and 543-544): what the round   *)
(* takes for "nothing new" is a number below which nothing was skipped, for *)
(* any number of handles, sessions and writes.                              *)
THEOREM NoRowSkipped == ASSUME Lasting PROVE Spec => NothingMissed
<1>1. ASSUME TypeOK, WatermarkSound, NEW s \in Session, SummaryNothingNew(s)
      PROVE  Covered(counter)
  <2>1. CASE counter = 0
    BY <1>1, <2>1 DEF Covered, TypeOK
  <2>2. CASE counter = cursor[s]
    <3>1. Covered(cursor[s])
      BY <1>1 DEF SummaryNothingNew, WatermarkSound, SessionKnows
    <3> QED
      BY <2>2, <3>1
  <2> QED
    BY <1>1, <2>1, <2>2 DEF SummaryNothingNew
<1>2. TypeOK /\ WatermarkSound
        => [\A s \in Session : SummaryNothingNew(s) => Covered(counter)]_vars
  BY <1>1
<1> QED
  BY <1>2, TypeCorrect, Soundness, PTL DEF NothingMissed

-----------------------------------------------------------------------------
(* The abstract promise. *)

(* Only the peer changes its rows. *)
LEMMA PeerAlone ==
  ASSUME [Next]_vars, ~Peer
  PROVE  UNCHANGED <<seq, ver, counter>>
<1>1. ASSUME NEW s \in Session, Step(s) PROVE UNCHANGED <<seq, ver, counter>>
  <2>1. CASE \E sp \in Handle : Ingest(s, sp)
    BY <2>1 DEF Ingest, IngestNone, IngestOrphans, IngestRejected, IngestStored, peerVars
  <2>2. CASE ~\E sp \in Handle : Ingest(s, sp)
    BY <1>1, <2>2 DEF Step, peerVars, Begin, SummaryNothingNew,
       SummaryRegressed, Reset, SummaryBehind, Fetch, FetchEmpty, CatchUp, Prefilter,
       BudgetSpent, CommitLast, CommitMore
  <2> QED
    BY <2>1, <2>2
<1> QED
  BY <1>1 DEF Next, Abort, Ourselves, LocalEvict, StoredElsewhere, Crash, vars, peerVars

(* While the peer keeps its database, a pull with all its sessions, pages,  *)
(* aborts and crashes is a behaviour of Watermark.                          *)
THEOREM PromiseKept == ASSUME Lasting PROVE Spec => KeepsPromise
<1> DEFINE settled == {r \in Handle \X Version : Settled(r[1], r[2])}
<1>1. Init => Promise!Init
  <2> SUFFICES ASSUME Init PROVE Promise!Init
    OBVIOUS
  <2>1. ASSUME NEW h \in Handle, NEW v \in Version PROVE ~Settled(h, v)
    BY ConstantsAssumption DEF Init, Settled, ConstantsAssumption
  <2>2. settled = {}
    BY <2>1
  <2> QED
    BY <2>2 DEF Init, Promise!Init
<1>2. TypeOK /\ WatermarkSound /\ WatermarkSound' /\ [Next]_vars
        => [Promise!Next]_(Promise!vars)
  <2> SUFFICES ASSUME TypeOK, WatermarkSound, WatermarkSound', [Next]_vars
               PROVE  Promise!Next \/ UNCHANGED Promise!vars
    OBVIOUS
  <2>1. UNCHANGED <<local, dropped>> => settled' = settled
    BY DEF Settled
  <2>2. ASSUME NEW h \in Handle, NEW v \in Version, PeerStore(h, v)
        PROVE  Promise!Write(h, v)
    BY <2>1, <2>2 DEF PeerStore, NextSeq, storeVars, Promise!Write
  <2>3. ASSUME NEW h \in Handle, PeerEvict(h) PROVE Promise!Delete(h)
    BY <2>1, <2>3 DEF PeerEvict, storeVars, Promise!Delete
  <2>4. ~PeerWipe
    BY DEF Lasting, TypeOK, PeerWipe
  <2>5. ASSUME ~Peer PROVE Promise!Pull
    <3>1. UNCHANGED <<seq, ver, counter>>
      BY <2>5, PeerAlone
    <3>2. settled \subseteq settled'
      <4> SUFFICES ASSUME NEW h \in Handle, NEW v \in Version, Settled(h, v)
                   PROVE  Settled(h, v)'
        OBVIOUS
      <4> QED
        BY SettledStays
    <3>3. mark' \in Nat /\ mark' <= counter /\ counter \in Nat
      BY <3>1, TypeStep DEF TypeOK, WatermarkSound, CounterBounds
    <3>4. ASSUME NEW h \in Handle, seq'[h] # 0, seq'[h] <= mark'
          PROVE  <<h, ver'[h]>> \in settled'
      <4>1. Settled(h, ver[h])'
        BY <3>4 DEF WatermarkSound, NothingSkipped, Covered, Settled
      <4>2. ver'[h] \in Version
        BY <3>4, TypeStep DEF WatermarkSound, CounterBounds, TypeOK
      <4> QED
        BY <4>1, <4>2
    <3> QED
      BY <3>1, <3>2, <3>3, <3>4 DEF Promise!Pull, Promise!Covered
  <2> QED
    BY <2>2, <2>3, <2>4, <2>5 DEF Peer, Promise!Next
<1> QED
  BY <1>1, <1>2, TypeCorrect, Soundness, PTL DEF Spec, KeepsPromise, Promise!Spec

-----------------------------------------------------------------------------
(* What is dropped: a record for want of its root only after the root, and   *)
(* an update never for storage pressure.                                     *)

(* What is dropped of a set of handles is the version on the page. *)
LEMMA DropMember ==
  ASSUME NEW s, NEW S, NEW why, NEW h, NEW v, NEW w, <<h, v, w>> \in Drop(s, S, why)
  PROVE  h \in S /\ v = todo[s][h] /\ w = why
  BY DEF Drop

(* What the gate lets through of a space, and what it does not. *)
LEMMA AdmittedGives ==
  ASSUME NEW s, NEW sp, NEW kept \in Admitted(s, sp)
  PROVE  /\ kept \subseteq Group(s, sp)
         /\ \A h \in Group(s, sp) \ kept : h \notin known[s]
  BY DEF Admitted

(* What ingesting a space drops, and why. *)
DropsWell(s, sp) ==
  \A h, v, why : <<h, v, why>> \in dropped' /\ <<h, v, why>> \notin dropped =>
    /\ h \in Group(s, sp) /\ v = todo[s][h]
    /\ why \in {"gated", "orphan", "rejected", "unfit"}
    /\ why = "gated" => h \notin known[s]
    /\ why = "orphan" =>
         /\ local[sp] = 0
         /\ sp \in Group(s, sp) => <<sp, todo[s][sp], "gated">> \in dropped'

(* Ingestion forgets no drop, and drops well. *)
LEMMA IngestDrops ==
  ASSUME NEW s \in Session, NEW sp \in Handle, Ingest(s, sp)
  PROVE  dropped \subseteq dropped' /\ DropsWell(s, sp)
<1>1. CASE IngestNone(s, sp)
  <2>1. {} \in Admitted(s, sp) /\ dropped' = dropped \cup Drop(s, Group(s, sp), "gated")
    BY <1>1 DEF IngestNone
  <2>2. \A h \in Group(s, sp) : h \notin known[s]
    BY <2>1, AdmittedGives
  <2> QED
    BY <2>1, <2>2, DropMember DEF DropsWell
<1>2. CASE IngestOrphans(s, sp)
  <2>1. PICK kept \in Admitted(s, sp) :
          /\ ~RootAtHand(sp, kept)
          /\ dropped' = dropped \cup Drop(s, Group(s, sp) \ kept, "gated")
                                \cup Drop(s, kept, "orphan")
    BY <1>2 DEF IngestOrphans
  <2>2. /\ kept \subseteq Group(s, sp)
        /\ \A h \in Group(s, sp) \ kept : h \notin known[s]
    BY AdmittedGives
  <2>3. local[sp] = 0 /\ sp \notin kept
    BY <2>1 DEF RootAtHand
  <2>4. sp \in Group(s, sp) => <<sp, todo[s][sp], "gated">> \in dropped'
    BY <2>1, <2>3 DEF Drop
  <2> QED
    BY <2>1, <2>2, <2>3, <2>4, DropMember DEF DropsWell
<1>3. CASE IngestRejected(s, sp)
  <2>1. PICK kept \in Admitted(s, sp) :
          dropped' = dropped \cup Drop(s, Group(s, sp) \ kept, "gated")
                             \cup Drop(s, kept, "rejected")
    BY <1>3 DEF IngestRejected
  <2>2. /\ kept \subseteq Group(s, sp)
        /\ \A h \in Group(s, sp) \ kept : h \notin known[s]
    BY AdmittedGives
  <2> QED
    BY <2>1, <2>2, DropMember DEF DropsWell
<1>4. CASE IngestStored(s, sp)
  <2>1. PICK kept \in Admitted(s, sp) :
          \E unfit \in SUBSET Skippable(kept) :
            dropped' = dropped \cup Drop(s, Group(s, sp) \ kept, "gated")
                               \cup Drop(s, unfit, "unfit")
    BY <1>4 DEF IngestStored
  <2>2. PICK unfit \in SUBSET Skippable(kept) :
          dropped' = dropped \cup Drop(s, Group(s, sp) \ kept, "gated")
                             \cup Drop(s, unfit, "unfit")
    BY <2>1
  <2>3. /\ kept \subseteq Group(s, sp)
        /\ \A h \in Group(s, sp) \ kept : h \notin known[s]
    BY AdmittedGives
  <2>4. unfit \subseteq kept
    BY DEF Skippable
  <2> QED
    BY <2>2, <2>3, <2>4, DropMember DEF DropsWell
<1> QED
  BY <1>1, <1>2, <1>3, <1>4 DEF Ingest

(* Ingesting a space takes its records off the page, and stores only those. *)
LEMMA IngestTakes ==
  ASSUME TypeOK, NEW s \in Session, NEW sp \in Handle, Ingest(s, sp)
  PROVE  /\ todo' = [todo EXCEPT ![s] =
                       [h \in Handle |-> IF SpaceOf[h] = sp THEN 0 ELSE todo[s][h]]]
         /\ pc[s] = "ingest" /\ Group(s, sp) # {}
         /\ \A h \in Handle :
              \/ local'[h] = local[h]
              \/ h \in Group(s, sp) /\ local'[h] = Greater(local[h], todo[s][h])
         /\ UNCHANGED <<seq, ver, pc, known>>
<1>1. Attempt(s, sp)
  BY DEF Ingest, IngestNone, IngestOrphans, IngestRejected, IngestStored
<1>2. UNCHANGED <<seq, ver, pc, known>>
  BY DEF Ingest, IngestNone, IngestOrphans, IngestRejected, IngestStored, peerVars
<1>3. CASE local' = local
  BY <1>1, <1>2, <1>3 DEF Attempt
<1>4. CASE IngestStored(s, sp)
  <2>1. PICK kept \in Admitted(s, sp) :
          \E unfit : local' = [h \in Handle |->
            IF h \in kept \ unfit THEN Greater(local[h], todo[s][h]) ELSE local[h]]
    BY <1>4 DEF IngestStored
  <2>2. kept \subseteq Group(s, sp)
    BY AdmittedGives
  <2>3. \A h \in Handle :
              \/ local'[h] = local[h]
              \/ h \in Group(s, sp) /\ local'[h] = Greater(local[h], todo[s][h])
    BY <2>1, <2>2
  <2> QED
    BY <1>1, <1>2, <2>3 DEF Attempt
<1> QED
  BY <1>3, <1>4 DEF Ingest, IngestNone, IngestOrphans, IngestRejected

(* Only ingestion, our own eviction and our other writers change our rows,   *)
(* and the last drop nothing.                                                *)
LEMMA WhatStores ==
  ASSUME [Next]_vars
  PROVE  \/ \E s \in Session, sp \in Handle : Ingest(s, sp)
         \/ \E h \in Handle : LocalEvict(h)
         \/ \E h \in Handle, v \in Version : StoredElsewhere(h, v)
         \/ UNCHANGED <<local, dropped>>
  BY DEF Next, Peer, PeerStore, PeerEvict, PeerWipe, Step, Begin, SummaryNothingNew,
     SummaryRegressed, Reset, SummaryBehind, Fetch, FetchEmpty, CatchUp, Prefilter,
     BudgetSpent, CommitLast, CommitMore, Abort, Ourselves, Crash, vars, storeVars

-----------------------------------------------------------------------------
(* The gate. *)

(* While a session is the only one, a handle that none of our other writers *)
(* stores and that was not stored when the page was prefiltered is not      *)
(* stored until its record is attempted.                                    *)
KnownHolds ==
  \A s \in Session : Session = {s} /\ pc[s] = "ingest" =>
    \A h \in Handle \ Elsewhere :
      todo[s][h] # 0 /\ h \notin known[s] => local[h] = 0

(* Only another session or another writer could store it in between. *)
LEMMA KnownStays == TypeOK /\ KnownHolds /\ [Next]_vars => KnownHolds'
<1> SUFFICES ASSUME TypeOK, KnownHolds, [Next]_vars, NEW s \in Session, Session = {s},
                    pc'[s] = "ingest", NEW h \in Handle \ Elsewhere,
                    todo'[s][h] # 0, h \notin known'[s]
             PROVE  local'[h] = 0
  BY DEF KnownHolds
<1>1. ASSUME NEW sp \in Handle, Ingest(s, sp) PROVE local'[h] = 0
  <2>1. SpaceOf[h] # sp /\ todo[s][h] # 0
    BY <1>1, IngestTakes DEF TypeOK
  <2>2. local'[h] = local[h] /\ known' = known /\ pc[s] = "ingest"
    BY <1>1, <2>1, IngestTakes DEF Group
  <2> QED
    BY <2>1, <2>2 DEF KnownHolds
<1>2. ASSUME NEW g \in Handle, LocalEvict(g) PROVE local'[h] = 0
  <2>1. local'[h] \in {0, local[h]} /\ UNCHANGED <<pc, todo, known>>
    BY <1>2 DEF LocalEvict, TypeOK, sessionVars
  <2> QED
    BY <2>1 DEF KnownHolds
<1>3. CASE Prefilter(s)
  <2>1. known'[s] = {g \in Handle : local[g] # 0} /\ local' = local
    BY <1>3 DEF Prefilter, TypeOK, storeVars
  <2> QED
    BY <2>1
<1>4. CASE UNCHANGED <<local, pc, todo, known>>
  BY <1>4 DEF KnownHolds
<1>5. CASE pc'[s] # "ingest"
  BY <1>5
<1>6. ASSUME NEW t \in Session, Step(t), \A sp \in Handle : ~Ingest(t, sp)
      PROVE  Prefilter(s) \/ pc'[s] # "ingest"
  <2>1. t = s /\ Step(s)
    BY <1>6
  <2> QED
    BY <1>6, <2>1 DEF Step, TypeOK, Return, Begin, SummaryNothingNew, SummaryRegressed,
       Reset, SummaryBehind, Fetch, FetchEmpty, CatchUp, BudgetSpent, CommitLast,
       CommitMore
<1>7. ASSUME NEW t \in Session, Abort(t) PROVE pc'[s] # "ingest"
  BY <1>7 DEF Abort, Return, TypeOK
<1>8. CASE Peer
  BY <1>4, <1>8 DEF Peer, PeerStore, PeerEvict, PeerWipe, storeVars, sessionVars
<1>9. CASE Crash
  BY <1>5, <1>9 DEF Crash
<1>10. CASE UNCHANGED vars
  BY <1>4, <1>10 DEF vars, storeVars, sessionVars
<1>11. ASSUME NEW g \in Handle, NEW v \in Version, StoredElsewhere(g, v)
       PROVE  local'[h] = 0
  <2>1. g # h /\ local'[h] = local[h] /\ UNCHANGED <<pc, todo, known>>
    BY <1>11 DEF StoredElsewhere, TypeOK, sessionVars
  <2> QED
    BY <2>1 DEF KnownHolds
<1> QED
  BY <1>1, <1>2, <1>3, <1>5, <1>6, <1>7, <1>8, <1>9, <1>10, <1>11 DEF Next, Ourselves

(* The retention gate refuses no update, but of a row that was first stored *)
(* since the prefilter (sync.rs:387-392): by another session, or by one of  *)
(* our other writers.  A handle of which a single session is the only       *)
(* writer loses no update to it.                                            *)
THEOREM GateLetsUpdatesPass == Spec => GatePassesUpdates
<1>1. Init => KnownHolds
  BY DEF Init, KnownHolds
<1>2. ASSUME TypeOK, KnownHolds, [Next]_vars
      PROVE  [\A h \in Handle, v \in Version :
                <<h, v, "gated">> \in dropped' \ dropped =>
                  \/ local[h] = 0 \/ local[h] >= v
                  \/ \E s \in Session : /\ todo[s][h] = v /\ h \notin known[s]
                                        /\ Session # {s} \/ h \in Elsewhere]_vars
  <2> SUFFICES ASSUME NEW h \in Handle, NEW v \in Version,
                      <<h, v, "gated">> \in dropped', <<h, v, "gated">> \notin dropped,
                      local[h] # 0
               PROVE  \E s \in Session : /\ todo[s][h] = v /\ h \notin known[s]
                                         /\ Session # {s} \/ h \in Elsewhere
    OBVIOUS
  <2>1. PICK s \in Session, sp \in Handle : Ingest(s, sp)
    <3>1. /\ ~(\E g \in Handle : LocalEvict(g))
          /\ ~(\E g \in Handle, w \in Version : StoredElsewhere(g, w))
      BY DEF LocalEvict, StoredElsewhere
    <3> QED
      BY <1>2, <3>1, WhatStores
  <2>2. h \in Group(s, sp) /\ v = todo[s][h] /\ h \notin known[s]
    BY <2>1, IngestDrops DEF DropsWell
  <2>3. pc[s] = "ingest" /\ todo[s][h] # 0
    BY <1>2, <2>1, <2>2, IngestTakes DEF Group
  <2>4. Session # {s} \/ h \in Elsewhere
    BY <1>2, <2>2, <2>3 DEF KnownHolds
  <2> QED
    BY <2>2, <2>4
<1> QED
  BY <1>1, <1>2, KnownStays, TypeCorrect, PTL DEF Spec, GatePassesUpdates

-----------------------------------------------------------------------------
(* Orphans. *)

RootMet(r) ==
  \/ local[r] # 0
  \/ \E w \in Version, why \in {"gated", "rejected", "unfit"} : <<r, w, why>> \in dropped

(* The peer's sub-handles have their roots; a sub-handle on a page has its   *)
(* root on it, or the root was met before; who was dropped as an orphan had  *)
(* a root that was dropped; and no root was evicted.                         *)
RootsOnPeer  == \A h \in Handle : seq[h] # 0 => seq[SpaceOf[h]] # 0
RootsOnPages ==
  \A s \in Session, h \in Handle :
    todo[s][h] # 0 => RootMet(SpaceOf[h]) \/ todo[s][SpaceOf[h]] # 0
OrphansOfDropped ==
  \A h \in Handle, v \in Version : <<h, v, "orphan">> \in dropped =>
    \E w \in Version, why \in {"gated", "rejected", "unfit"} :
      <<SpaceOf[h], w, why>> \in dropped
NoRootEvicted ==
  \A h \in Handle, v \in Version : <<h, v, "evicted">> \in dropped => SpaceOf[h] # h

RootsKnown == RootsOnPeer /\ RootsOnPages /\ OrphansOfDropped /\ NoRootEvicted

(* Every handle has a root, which is its own. *)
LEMMA Rooted == \A h \in Handle : SpaceOf[h] \in Handle /\ SpaceOf[SpaceOf[h]] = SpaceOf[h]
  BY ConstantsAssumption

(* Nothing is forgotten of what was dropped. *)
LEMMA DroppedGrows == ASSUME [Next]_vars PROVE dropped \subseteq dropped'
  BY WhatStores, IngestDrops DEF LocalEvict, StoredElsewhere

(* A root that was met stays met: it is not evicted, and what is stored is   *)
(* replaced by something better only.                                        *)
LEMMA RootMetStays ==
  ASSUME TypeOK, [Next]_vars, NEW r \in Handle, SpaceOf[r] = r, RootMet(r)
  PROVE  RootMet(r)'
<1>1. ASSUME local[r] # 0 PROVE local'[r] # 0
  <2>1. ASSUME NEW s \in Session, NEW sp \in Handle, Ingest(s, sp) PROVE local'[r] # 0
    <3>1. local'[r] = local[r] \/ local'[r] = Greater(local[r], todo[s][r])
      BY <2>1, IngestTakes
    <3>2. local[r] \in Nat /\ todo[s][r] \in Nat
      BY VersionsAreNat DEF TypeOK
    <3> QED
      BY <1>1, <3>1, <3>2 DEF Greater
  <2>2. ASSUME NEW h \in Handle, LocalEvict(h) PROVE local'[r] # 0
    BY <1>1, <2>2 DEF LocalEvict, TypeOK
  <2>3. ASSUME NEW h \in Handle, NEW v \in Version, StoredElsewhere(h, v)
        PROVE  local'[r] # 0
    <3>1. v # 0
      BY ConstantsAssumption
    <3> QED
      BY <1>1, <2>3, <3>1 DEF StoredElsewhere, TypeOK
  <2> QED
    BY <1>1, <2>1, <2>2, <2>3, WhatStores
<1> QED
  BY <1>1, DroppedGrows DEF RootMet

(* A root that is settled was met. *)
LEMMA SettledRootIsMet ==
  ASSUME TypeOK, RootsKnown, NEW r \in Handle, SpaceOf[r] = r,
         NEW v \in Version, Settled(r, v)
  PROVE  RootMet(r)
<1>1. CASE local[r] >= v
  <2>1. v \in Nat \ {0}
    BY ConstantsAssumption
  <2> QED
    BY <1>1, <2>1 DEF RootMet
<1>2. ASSUME NEW why \in Reason, <<r, v, why>> \in dropped PROVE RootMet(r)
  <2>1. why # "evicted"
    BY <1>2 DEF RootsKnown, NoRootEvicted
  <2>2. why = "orphan" => RootMet(r)
    BY <1>2 DEF RootsKnown, OrphansOfDropped, RootMet
  <2> QED
    BY <1>2, <2>1, <2>2 DEF Reason, RootMet
<1> QED
  BY <1>1, <1>2 DEF Settled

(* The peer stores a sub-handle after its root, and evicts no root.          *)
LEMMA PeerKeepsRoots ==
  ASSUME ~Headless, TypeOK, RootsOnPeer, [Next]_vars
  PROVE  RootsOnPeer'
<1>1. ASSUME NEW h \in Handle, NEW v \in Version, PeerStore(h, v) PROVE RootsOnPeer'
  <2>1. /\ seq' = [seq EXCEPT ![h] = counter + 1]
        /\ SpaceOf[h] = h \/ seq[SpaceOf[h]] # 0
        /\ counter \in Nat
    BY <1>1 DEF PeerStore, NextSeq, TypeOK
  <2> QED
    BY <2>1, Rooted DEF RootsOnPeer, TypeOK
<1>2. ASSUME NEW h \in Handle, PeerEvict(h) PROVE RootsOnPeer'
  <2>1. SpaceOf[h] # h /\ seq' = [seq EXCEPT ![h] = 0]
    BY <1>2 DEF PeerEvict
  <2> QED
    BY <2>1, Rooted DEF RootsOnPeer, TypeOK
<1>3. CASE PeerWipe
  BY <1>3, Rooted DEF PeerWipe, RootsOnPeer
<1>4. CASE UNCHANGED seq
  BY <1>4 DEF RootsOnPeer
<1>5. Peer \/ UNCHANGED seq
  BY DEF Next, Step, Begin, SummaryNothingNew, SummaryRegressed, Reset, SummaryBehind,
     Fetch, FetchEmpty, CatchUp, Prefilter, Ingest, IngestNone, IngestOrphans,
     IngestRejected, IngestStored, BudgetSpent, CommitLast, CommitMore, Abort,
     Ourselves, LocalEvict, StoredElsewhere, Crash, vars, peerVars
<1> QED
  BY <1>1, <1>2, <1>3, <1>4, <1>5 DEF Peer

(* A page has the roots of its sub-handles, or they lie before it and were   *)
(* met (the companions of sync_page, store.rs:897-903).                      *)
LEMMA PagesHaveRoots ==
  ASSUME TypeOK, WatermarkSound, RootsKnown, NEW s \in Session, Fetch(s),
         NEW h \in Handle, todo'[s][h] # 0
  PROVE  RootMet(SpaceOf[h]) \/ todo'[s][SpaceOf[h]] # 0
<1> DEFINE r == SpaceOf[h]
<1>1. PICK last \in Handle :
        LET main == MainRows(cursor[s], seq[last])
            page == main \cup Companions(main, seq[last])
        IN todo' = [todo EXCEPT ![s] = [g \in Handle |-> IF g \in page THEN ver[g] ELSE 0]]
  BY DEF Fetch
<1> DEFINE main == MainRows(cursor[s], seq[last])
           page == main \cup Companions(main, seq[last])
<1>2. \A g \in Handle : todo'[s][g] = IF g \in page THEN ver[g] ELSE 0
  BY <1>1 DEF TypeOK
<1>3. h \in page /\ r \in Handle /\ SpaceOf[r] = r
  BY <1>2, Rooted
<1>4. CASE r = h
  BY <1>4
<1>5. CASE r # h
  <2>1. h \in main
    BY <1>3, <1>5, Rooted DEF Companions, MainRows
  <2>2. seq[r] # 0
    <3>1. seq[h] > cursor[s] /\ seq[h] \in Nat /\ cursor[s] \in Nat
      BY <2>1 DEF MainRows, TypeOK
    <3> QED
      BY <3>1 DEF RootsKnown, RootsOnPeer
  <2>3. ver[r] # 0
    BY <1>3, <2>2 DEF WatermarkSound, CounterBounds
  <2>4. CASE r \in page
    BY <1>2, <1>3, <2>3, <2>4
  <2>5. CASE r \notin page
    <3>1. ~(seq[r] > cursor[s] /\ seq[r] <= seq[last])
      BY <1>3, <2>5 DEF MainRows
    <3>2. ~(seq[r] > seq[last])
      BY <1>5, <2>1, <2>5 DEF Companions, MainRows
    <3>3. seq[r] <= cursor[s]
      BY <1>3, <3>1, <3>2 DEF TypeOK
    <3>4. pc[s] # "idle" /\ ver[r] \in Version
      BY <1>3, <2>3 DEF Fetch, TypeOK
    <3>5. Settled(r, ver[r])
      BY <1>3, <2>2, <3>3, <3>4 DEF WatermarkSound, SessionKnows, Covered
    <3> QED
      BY <1>3, <3>4, <3>5, SettledRootIsMet
  <2> QED
    BY <2>4, <2>5
<1> QED
  BY <1>4, <1>5

(* A step keeps the roots of what is on the pages. *)
LEMMA PagesKeepRoots ==
  ASSUME TypeOK, WatermarkSound, RootsKnown, [Next]_vars
  PROVE  RootsOnPages'
<1> SUFFICES ASSUME NEW s \in Session, NEW h \in Handle, todo'[s][h] # 0
             PROVE  RootMet(SpaceOf[h])' \/ todo'[s][SpaceOf[h]] # 0
  BY DEF RootsOnPages
<1> DEFINE r == SpaceOf[h]
<1>1. r \in Handle /\ SpaceOf[r] = r
  BY Rooted
<1>2. RootMet(r) => RootMet(r)'
  BY <1>1, RootMetStays
<1>3. ASSUME todo'[s] = todo[s] PROVE RootMet(r)' \/ todo'[s][r] # 0
  BY <1>2, <1>3 DEF RootsKnown, RootsOnPages
<1>4. ASSUME NEW t \in Session, NEW sp \in Handle, Ingest(t, sp)
      PROVE  RootMet(r)' \/ todo'[s][r] # 0
  <2>1. todo' = [todo EXCEPT ![t] =
                   [g \in Handle |-> IF SpaceOf[g] = sp THEN 0 ELSE todo[t][g]]]
    BY <1>4, IngestTakes
  <2>2. CASE s # t
    BY <1>3, <2>1, <2>2 DEF TypeOK
  <2>3. CASE s = t
    <3>1. \A g \in Handle : todo'[s][g] = IF SpaceOf[g] = sp THEN 0 ELSE todo[s][g]
      BY <2>1, <2>3 DEF TypeOK
    <3>2. todo[s][h] # 0 /\ todo'[s][r] = todo[s][r]
      BY <1>1, <3>1
    <3> QED
      BY <1>2, <3>2 DEF RootsKnown, RootsOnPages
  <2> QED
    BY <2>2, <2>3
<1>5. ASSUME Fetch(s) PROVE RootMet(r)' \/ todo'[s][r] # 0
  BY <1>2, <1>5, PagesHaveRoots
<1>6. ASSUME Prefilter(s) PROVE RootMet(r)' \/ todo'[s][r] # 0
  <2>1. /\ \A g \in Handle : todo'[s][g] = IF todo[s][g] = local[g] THEN 0 ELSE todo[s][g]
        /\ local' = local
    BY <1>6 DEF Prefilter, TypeOK, storeVars
  <2>2. todo[s][h] # 0
    BY <2>1
  <2>3. RootMet(r) \/ todo[s][r] # 0
    BY <2>2 DEF RootsKnown, RootsOnPages
  <2>4. CASE todo[s][r] # 0 /\ todo[s][r] = local[r]
    BY <2>1, <2>4 DEF RootMet
  <2>5. CASE todo[s][r] # 0 /\ todo[s][r] # local[r]
    BY <1>1, <2>1, <2>5
  <2> QED
    BY <1>2, <2>3, <2>4, <2>5
<1>7. ASSUME NEW t \in Session, Step(t), \A sp \in Handle : ~Ingest(t, sp),
             ~Fetch(s), ~Prefilter(s)
      PROVE  todo'[s] = todo[s]
  <2>1. CASE Return(t)
    BY <2>1 DEF Return, NoRecords, TypeOK
  <2>2. CASE Fetch(t)
    <3>1. t # s
      BY <1>7, <2>2
    <3>2. \E f : todo' = [todo EXCEPT ![t] = f]
      BY <2>2 DEF Fetch
    <3> QED
      BY <3>1, <3>2 DEF TypeOK
  <2>3. CASE Prefilter(t)
    BY <1>7, <2>3 DEF Prefilter, TypeOK
  <2> QED
    BY <1>7, <2>1, <2>2, <2>3 DEF Step, Begin, SummaryNothingNew, SummaryRegressed, Reset,
       SummaryBehind, FetchEmpty, CatchUp, BudgetSpent, CommitLast, CommitMore
<1>8. ASSUME NEW t \in Session, Abort(t) PROVE todo'[s] = todo[s]
  BY <1>8 DEF Abort, Return, NoRecords, TypeOK
<1>9. CASE Crash
  BY <1>9 DEF Crash, NoRecords
<1>10. CASE UNCHANGED todo
  BY <1>3, <1>10
<1>11. (Peer \/ Ourselves \/ UNCHANGED vars) => UNCHANGED todo
  BY DEF Peer, PeerStore, PeerEvict, PeerWipe, Ourselves, LocalEvict, StoredElsewhere,
     vars, sessionVars
<1> QED
  BY <1>3, <1>4, <1>5, <1>6, <1>7, <1>8, <1>9, <1>10, <1>11 DEF Next

(* Nobody becomes an orphan before the root was dropped, and no root is      *)
(* evicted.                                                                  *)
LEMMA DropsKeepRoots ==
  ASSUME TypeOK, RootsKnown, [Next]_vars
  PROVE  OrphansOfDropped' /\ NoRootEvicted'
<1>1. ASSUME NEW s \in Session, NEW sp \in Handle, Ingest(s, sp)
      PROVE  OrphansOfDropped' /\ NoRootEvicted'
  <2>1. dropped \subseteq dropped' /\ DropsWell(s, sp)
    BY <1>1, IngestDrops
  <2>2. NoRootEvicted'
    BY <2>1 DEF DropsWell, RootsKnown, NoRootEvicted
  <2>3. ASSUME NEW h \in Handle, NEW v \in Version, <<h, v, "orphan">> \in dropped'
        PROVE  \E w \in Version, why \in {"gated", "rejected", "unfit"} :
                 <<SpaceOf[h], w, why>> \in dropped'
    <3>1. CASE <<h, v, "orphan">> \in dropped
      BY <2>1, <3>1 DEF RootsKnown, OrphansOfDropped
    <3>2. CASE <<h, v, "orphan">> \notin dropped
      <4>1. /\ h \in Group(s, sp) /\ local[sp] = 0
            /\ sp \in Group(s, sp) => <<sp, todo[s][sp], "gated">> \in dropped'
        BY <2>1, <2>3, <3>2 DEF DropsWell
      <4>2. SpaceOf[h] = sp /\ todo[s][h] # 0 /\ SpaceOf[sp] = sp
        BY <4>1, Rooted DEF Group
      <4>3. CASE todo[s][sp] # 0
        <5>1. sp \in Group(s, sp) /\ todo[s][sp] \in Version
          BY <4>2, <4>3 DEF Group, TypeOK
        <5> QED
          BY <4>1, <4>2, <5>1
      <4>4. CASE todo[s][sp] = 0
        <5>1. RootMet(sp)
          BY <4>2, <4>4 DEF RootsKnown, RootsOnPages
        <5> QED
          BY <2>1, <4>1, <4>2, <5>1 DEF RootMet
      <4> QED
        BY <4>3, <4>4
    <3> QED
      BY <3>1, <3>2
  <2> QED
    BY <2>2, <2>3 DEF OrphansOfDropped
<1>2. ASSUME NEW g \in Handle, LocalEvict(g)
      PROVE  OrphansOfDropped' /\ NoRootEvicted'
  <2>1. /\ SpaceOf[g] # g
        /\ dropped' = dropped \cup {<<g, v, "evicted">> : v \in {w \in Version : w <= local[g]}}
    BY <1>2 DEF LocalEvict
  <2> QED
    BY <2>1 DEF RootsKnown, OrphansOfDropped, NoRootEvicted
<1>3. CASE dropped' = dropped
  BY <1>3 DEF RootsKnown, OrphansOfDropped, NoRootEvicted
<1> QED
  BY <1>1, <1>2, <1>3, WhatStores DEF StoredElsewhere

(* A record fails for want of its root only after the root was dropped, if   *)
(* the peer's database is not recreated: a page's sub-handles come with      *)
(* their roots, or after them (sync_page and the watermark).                 *)
THEOREM OrphansAfterRoots == ASSUME Lasting PROVE Spec => []OrphansHaveDroppedRoot
<1>1. ASSUME ~Headless PROVE Spec => []OrphansHaveDroppedRoot
  <2>1. Init => RootsKnown
    BY DEF Init, NoRecords, RootsKnown, RootsOnPeer, RootsOnPages, OrphansOfDropped,
       NoRootEvicted
  <2>2. TypeOK /\ WatermarkSound /\ RootsKnown /\ [Next]_vars => RootsKnown'
    <3> SUFFICES ASSUME TypeOK, WatermarkSound, RootsKnown, [Next]_vars PROVE RootsKnown'
      OBVIOUS
    <3>1. RootsOnPeer'
      BY <1>1, PeerKeepsRoots DEF RootsKnown
    <3> QED
      BY <3>1, PagesKeepRoots, DropsKeepRoots DEF RootsKnown
  <2>3. RootsKnown => OrphansHaveDroppedRoot
    BY DEF RootsKnown, OrphansOfDropped, OrphansHaveDroppedRoot
  <2> QED
    BY <2>1, <2>2, <2>3, TypeCorrect, Soundness, PTL DEF Spec
<1>2. ASSUME Headless PROVE Spec => []OrphansHaveDroppedRoot
  <2>1. OrphansHaveDroppedRoot
    BY <1>2 DEF OrphansHaveDroppedRoot
  <2> QED
    BY <2>1, PTL
<1> QED
  BY <1>1, <1>2
=============================================================================
