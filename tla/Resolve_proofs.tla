---------------------------- MODULE Resolve_proofs ----------------------------
(***************************************************************************)
(* Proofs about Resolve: what the hints, the contexts and the cache of a   *)
(* client guarantee, for any relays, rows, tasks and pools; and that the   *)
(* sort of the relays heard puts the freshest one first.                   *)
(***************************************************************************)
EXTENDS Resolve, SequenceTheorems, FiniteSetTheorems, TLAPS

ZoneOrNone == Zone \cup {None}
Fields == {"pc", "kind", "hint", "ctx", "plan", "found"}

(* A call in the state of the client. *)
CallOK(k) ==
  /\ DOMAIN k = Fields
  /\ k.hint \in ZoneOrNone
  /\ k.ctx \in ZoneOrNone
  /\ k.pc = "done" => k.found \in Zone
  /\ k.pc = "done" /\ k.ctx # None => k.found.epoch >= k.ctx.epoch

(* Zones are those of rows, and what a call found is not older than what it *)
(* verified with.                                                           *)
ZonesKept ==
  /\ rows \in [Honest -> Row]
  /\ cache \in ZoneOrNone
  /\ DOMAIN call = Task
  /\ \A c \in Task : CallOK(call[c])

(* Epochs of zones can be compared, and None is no zone. *)
LEMMA Epochs == \A z \in Zone : z.epoch \in Nat /\ z # None
  BY ResolveAssumption

(* What a call is left with when it ends. *)
LEMMA IdleOK == CallOK(Idle) /\ CallOK([Idle EXCEPT !.pc = "broken"])
  BY DEF CallOK, Idle, ZoneOrNone, Fields

(* A step changes one call, to one that is in order. *)
LEMMA CallStep ==
  ASSUME ZonesKept, NEW c \in Task, NEW k, CallOK(k),
         call' = [call EXCEPT ![c] = k]
  PROVE  DOMAIN call' = Task /\ \A d \in Task : CallOK(call'[d])
  BY DEF ZonesKept

(* A client starts with no call and a cached zone or none. *)
LEMMA ZonesInit == Init => ZonesKept
<1>1. ASSUME Init PROVE ZonesKept
  <2>1. cache \in ZoneOrNone
    BY <1>1, ResolveAssumption DEF Init, ZoneOrNone
  <2>2. rows \in [Honest -> Row] /\ call = [c \in Task |-> Idle]
    BY <1>1 DEF Init
  <2> QED
    BY <2>1, <2>2, IdleOK DEF ZonesKept
<1> QED
  BY <1>1

(* A call that goes on to its next relay keeps its hint and its context. *)
LEMMA ContinueOK ==
  ASSUME ZonesKept, NEW c \in Task, NEW rest, Continue(c, rest), call[c].pc # "done"
  PROVE  DOMAIN call' = Task /\ \A d \in Task : CallOK(call'[d])
<1> DEFINE k == IF rest = <<>> THEN Idle
                ELSE [call[c] EXCEPT
                        !.pc = IF call[c].pc = "hear" THEN "send" ELSE call[c].pc,
                        !.plan = rest]
<1>1. CallOK(call[c])
  BY DEF ZonesKept
<1>2. ASSUME rest = <<>> PROVE CallOK(k)
  BY <1>2, IdleOK
<1>3. ASSUME rest # <<>> PROVE CallOK(k)
  BY <1>1, <1>3 DEF CallOK, Fields
<1>4. call' = [call EXCEPT ![c] = k]
  BY DEF Continue
<1>5. CallOK(k)
  BY <1>2, <1>3
<1> QED
  BY <1>4, <1>5, CallStep

(* Every step keeps the zones: one case for each action. *)
LEMMA ZonesStep == ZonesKept /\ [Next]_vars => ZonesKept'
<1> SUFFICES ASSUME ZonesKept, [Next]_vars PROVE ZonesKept'
  OBVIOUS
<1>0. DOMAIN call = Task /\ \A c \in Task : CallOK(call[c])
  BY DEF ZonesKept
<1>1. ASSUME NEW c \in Task, NEW kd \in Kind, Begin(c, kd) PROVE ZonesKept'
  <2> DEFINE k == [[[call[c] EXCEPT !.pc = "boot"] EXCEPT !.kind = kd]
                      EXCEPT !.hint = HintFor(kd)]
  <2>1. HintFor(kd) \in ZoneOrNone
    BY DEF HintFor, ZonesKept, ZoneOrNone
  <2>2. CallOK(k)
    BY <2>1, <1>0 DEF CallOK, Fields
  <2>3. call' = [call EXCEPT ![c] = k]
    BY <1>1, <1>0 DEF Begin
  <2>4. UNCHANGED <<rows, cache>>
    BY <1>1 DEF Begin
  <2> QED
    BY <2>2, <2>3, <2>4, CallStep DEF ZonesKept
<1>2. ASSUME NEW c \in Task, Step(c) PROVE ZonesKept'
  <2> DEFINE Quiet == UNCHANGED <<rows, cache>>
             Calls == DOMAIN call' = Task /\ \A d \in Task : CallOK(call'[d])
             Okay  == Quiet /\ Calls
  <2>0. Okay => ZonesKept'
    BY DEF ZonesKept
  <2>1. CASE Discover(c)
    <3> DEFINE k == [call[c] EXCEPT !.pc = "discover"]
    <3>1. CallOK(k)
      BY <1>0 DEF CallOK, Fields
    <3>2. call' = [call EXCEPT ![c] = k] /\ Quiet
      BY <2>1 DEF Discover
    <3> QED
      BY <3>1, <3>2, <2>0, CallStep
  <2>2. ASSUME NEW A \in Answering, Discovered(c, A) PROVE ZonesKept'
    <3> DEFINE k == [call[c] EXCEPT !.pc = "boot"]
    <3>1. CallOK(k)
      BY <1>0 DEF CallOK, Fields
    <3>2. call' = [call EXCEPT ![c] = k] /\ Quiet
      BY <2>2 DEF Discovered
    <3> QED
      BY <3>1, <3>2, <2>0, CallStep
  <2>3. ASSUME NEW s, NEW latest \in BOOLEAN, Query(c, s, latest) PROVE ZonesKept'
    <3> DEFINE p == IF latest THEN "hear"
                    ELSE IF call[c].kind = "prove" THEN "prove" ELSE "send"
               n == IF latest THEN s ELSE First(s, Count)
               k == [[[call[c] EXCEPT !.pc = p] EXCEPT
                         !.ctx = ContextFor(call[c].kind)] EXCEPT !.plan = n]
    <3>1. ContextFor(call[c].kind) \in ZoneOrNone
      BY DEF ContextFor, ZonesKept, ZoneOrNone
    <3>2. p # "done"
      OBVIOUS
    <3>3. CallOK(k)
      <4> HIDE DEF p, n
      <4> QED
        BY <1>0, <3>1, <3>2 DEF CallOK, Fields
    <3>4. call' = [call EXCEPT ![c] = k] /\ Quiet
      BY <2>3, <1>0 DEF Query
    <3> QED
      BY <3>3, <3>4, <2>0, CallStep
  <2>4. ASSUME call[c].pc = "hear", NEW said, Hear(c, said) PROVE ZonesKept'
    <3>1. Quiet /\ \E rest : Continue(c, rest)
      BY <2>4 DEF Hear
    <3> QED
      BY <2>4, <3>1, <2>0, ContinueOK
  <2>5. ASSUME NEW r \in Relay, Unanswered(c, r) \/ Refused(c, r) PROVE ZonesKept'
    <3>1. Quiet /\ call[c].pc # "done" /\ \E rest : Continue(c, rest)
      BY <2>5 DEF Unanswered, Refused, FailOver, Asking
    <3> QED
      BY <3>1, <2>0, ContinueOK
  <2>6. ASSUME NEW r \in Relay, Garbled(c, r) \/ Proved(c, r) PROVE ZonesKept'
    <3>1. Quiet /\ \E k \in {Idle, [Idle EXCEPT !.pc = "broken"]} :
                     call' = [call EXCEPT ![c] = k]
      BY <2>6 DEF Garbled, Proved
    <3> QED
      BY <3>1, IdleOK, <2>0, CallStep
  <2>7. ASSUME NEW r \in Relay, NEW a \in Served(c, r), Verified(c, r, a)
        PROVE  ZonesKept'
    <3> DEFINE z == Yields(call[c].ctx, a.zone)
               k == [[[[call[c] EXCEPT !.pc = "done"] EXCEPT !.hint = None]
                         EXCEPT !.plan = <<>>] EXCEPT !.found = z]
    <3>1. a.zone \in Zone
      BY <2>7 DEF Served, Answer, ZonesKept, Zone
    <3>2. call[c].ctx \in ZoneOrNone
      BY <1>0 DEF CallOK
    <3>3. z \in Zone
      BY <3>1, <3>2 DEF Yields, ZoneOrNone
    <3>4. call[c].ctx # None => z.epoch >= call[c].ctx.epoch
      BY <3>1, <3>2, Epochs DEF Yields, ZoneOrNone
    <3>5. CallOK(k)
      <4> HIDE DEF z
      <4> QED
        BY <1>0, <3>3, <3>4 DEF CallOK, Fields, ZoneOrNone
    <3>6. call' = [call EXCEPT ![c] = k] /\ Quiet
      BY <2>7, <1>0 DEF Verified
    <3> QED
      BY <3>5, <3>6, <2>0, CallStep
  <2>8. CASE Finish(c)
    <3>1. cache' \in ZoneOrNone
      BY <2>8, <1>0 DEF Finish, CallOK, ZonesKept, ZoneOrNone
    <3>2. rows' = rows /\ call' = [call EXCEPT ![c] = Idle]
      BY <2>8 DEF Finish
    <3> QED
      BY <3>1, <3>2, IdleOK, CallStep DEF ZonesKept
  <2>9. CASE Abort(c)
    BY <2>9, IdleOK, <2>0, CallStep DEF Abort
  <2> QED
    BY <1>2, <2>1, <2>2, <2>3, <2>4, <2>5, <2>6, <2>7, <2>8, <2>9 DEF Step
<1>3. ASSUME NEW A, RefreshPeers(A) PROVE ZonesKept'
  BY <1>3 DEF RefreshPeers, ZonesKept
<1>4. ASSUME NEW r \in Honest, NEW w \in Row, Learn(r, w) PROVE ZonesKept'
  BY <1>4 DEF Learn, ZonesKept
<1>5. CASE UNCHANGED vars
  BY <1>5 DEF vars, ZonesKept
<1> QED
  BY <1>1, <1>2, <1>3, <1>4, <1>5 DEF Next

(* Whatever relays serve, what a client knows are zones of the chain, and a *)
(* verified answer never yields an older one than the call verified with.   *)
THEOREM ZonesAreKept == Spec => []ZonesKept
  BY ZonesInit, ZonesStep, PTL DEF Spec

-----------------------------------------------------------------------------
(* An honest relay leaves out a receipt only if the zone hinted at covers    *)
(* its zone, and so does the context, unless it is behind the hint.          *)
LEMMA RefusalNeedsSetBack ==
  ASSUME ZonesKept, NEW c \in Task, NEW r \in Honest, Refused(c, r)
  PROVE  call[c].hint # None /\ ~Covers(call[c].ctx, call[c].hint)
<1> DEFINE hint == call[c].hint
           ctx  == call[c].ctx
           z    == rows[r].zone
<1>1. r \notin Faulty
  BY DEF Honest
<1>2. PICK a \in Served(c, r) : ~Verifies(ctx, a.zone, a.stripped)
  BY <1>1 DEF Refused
<1>3. a = [zone |-> z, stripped |-> VerifiableBy(hint, z)]
  BY <1>2 DEF Served, Answer
<1>4. VerifiableBy(hint, z) /\ ~(ctx # None /\ (ctx.epoch > z.epoch \/ ctx = z))
  BY <1>2, <1>3 DEF Verifies
<1>5. hint # None /\ (hint.epoch > z.epoch \/ hint = z)
  BY <1>4 DEF VerifiableBy
<1>6. z \in Zone /\ hint \in Zone /\ ctx \in Zone \cup {None}
  BY <1>5 DEF ZonesKept, CallOK, ZoneOrNone, Zone
<1>7. \A y \in Zone : y.epoch \in Nat
  BY Epochs
<1>8. ~(ctx # None /\ (ctx.epoch > hint.epoch \/ ctx = hint))
  <2> HIDE DEF hint, ctx, z
  <2> QED
    BY <1>4, <1>5, <1>6, <1>7
<1> QED
  BY <1>5, <1>8 DEF Covers

(* The answers of honest relays verify, unless the cache was set back under *)
(* the call: epoch_hint_verifiable_by at the relay and the hint and context *)
(* of the client fit each other.                                            *)
THEOREM HonestAnswersVerify == Spec => HonestVerifies
<1>1. ZonesKept /\ [Next]_vars =>
        [\A c \in Task, r \in Honest :
           Refused(c, r) => call[c].hint # None /\ ~Covers(call[c].ctx, call[c].hint)]_vars
  BY RefusalNeedsSetBack
<1> QED
  BY <1>1, ZonesAreKept, PTL DEF Spec, HonestVerifies

(* A step that sets the cache back ends a call that read another zone. *)
LEMMA SetBackByRace ==
  ASSUME ZonesKept, [Next]_vars, cache # None, cache' # cache, cache'.epoch < cache.epoch
  PROVE  \E c \in Task : /\ Finish(c)
                        /\ call[c].kind # "fresh" /\ call[c].ctx # cache
<1>1. \E c \in Task : Finish(c)
  <2>1. ASSUME NEW c \in Task, Step(c), ~Finish(c) PROVE UNCHANGED cache
    <3>1. ASSUME NEW r \in Relay,
                 \/ Unanswered(c, r) \/ Refused(c, r) \/ Garbled(c, r) \/ Proved(c, r)
                 \/ \E a \in Served(c, r) : Verified(c, r, a)
          PROVE  UNCHANGED cache
      BY <3>1 DEF Unanswered, Refused, FailOver, Garbled, Proved, Verified
    <3>2. ASSUME \/ Discover(c) \/ Abort(c)
                 \/ \E A \in Answering : Discovered(c, A)
          PROVE  UNCHANGED cache
      BY <3>2 DEF Discover, Discovered, Abort
    <3>3. ASSUME \/ \E s, latest : Query(c, s, latest)
                 \/ \E said : Hear(c, said)
          PROVE  UNCHANGED cache
      BY <3>3 DEF Query, Hear
    <3> QED
      BY <2>1, <3>1, <3>2, <3>3 DEF Step
  <2>2. ASSUME NEW c \in Task, NEW k \in Kind, Begin(c, k) PROVE UNCHANGED cache
    BY <2>2 DEF Begin
  <2>3. ASSUME NEW A \in Answering, RefreshPeers(A) PROVE UNCHANGED cache
    BY <2>3 DEF RefreshPeers
  <2>4. ASSUME NEW r \in Honest, NEW w \in Row, Learn(r, w) PROVE UNCHANGED cache
    BY <2>4 DEF Learn
  <2>5. CASE UNCHANGED vars
    BY <2>5 DEF vars
  <2> QED
    BY <2>1, <2>2, <2>3, <2>4, <2>5 DEF Next
<1>2. PICK c \in Task : Finish(c)
  BY <1>1
<1>3. call[c].kind # "fresh" /\ cache' = call[c].found /\ call[c].pc = "done"
  BY <1>2 DEF Finish
<1>4. CallOK(call[c]) /\ cache \in Zone
  BY DEF ZonesKept, ZoneOrNone
<1>5. call[c].ctx # cache
  BY <1>3, <1>4, Epochs DEF CallOK
<1> QED
  BY <1>2, <1>3, <1>5

(* A call sets the cached zone back only if another one has replaced it.    *)
THEOREM CacheMovesForward == Spec => CacheForward
<1>1. ZonesKept /\ [Next]_vars =>
        [cache # None /\ cache' # cache /\ cache'.epoch < cache.epoch =>
           \E c \in Task : /\ Finish(c)
                           /\ call[c].kind # "fresh" /\ call[c].ctx # cache]_vars
  BY SetBackByRace
<1> QED
  BY <1>1, ZonesAreKept, PTL DEF Spec, CacheForward

-----------------------------------------------------------------------------
(* How relays are ranked (Hints): by induction over the relays that are      *)
(* sorted, as least counterexamples, for the recursion in Ranking.           *)

(* Any naturals have a least. *)
LEMMA HasLeast ==
  ASSUME NEW T \in SUBSET Nat, T # {}
  PROVE  \E x \in T : \A y \in T : x <= y
<1> DEFINE R == OpToRel(<, Nat)
<1>1. IsWellFoundedOn(R, Nat)
  BY NatLessThanWellFounded, Zenon
<1>2. \A x, y \in Nat : <<y, x>> \in R <=> y < x
  BY DEF OpToRel
<1> HIDE DEF R
<1>3. PICK x \in T : \A y \in T : ~(<<y, x>> \in R)
  BY <1>1, WFMin, Zenon
<1>4. \A y \in T : ~(y < x)
  BY <1>2, <1>3
<1> QED
  BY <1>4

(* Min and Max of naturals are what they should be. *)
LEMMA MinIs ==
  ASSUME NEW T \in SUBSET Nat, T # {}
  PROVE  Min(T) \in T
  BY HasLeast DEF Min

(* Naturals with a bound have a greatest. *)
LEMMA MaxIs ==
  ASSUME NEW n \in Nat, NEW T \in SUBSET (0..n), T # {}
  PROVE  Max(T) \in T /\ \A y \in T : Max(T) >= y
<1> DEFINE above == {k \in Nat : \A y \in T : y <= k}
<1>1. n \in above
  OBVIOUS
<1>2. PICK k \in above : \A j \in above : k <= j
  <2> HIDE DEF above
  <2>1. above \in SUBSET Nat
    BY DEF above
  <2> QED
    BY <1>1, <2>1, HasLeast
<1>3. k \in T
  <2>1. ASSUME k \notin T PROVE FALSE
    <3>1. \A y \in T : y \in Nat /\ y < k
      BY <1>2, <2>1
    <3>2. k \in Nat /\ k > 0
      <4>1. k \in Nat
        BY <1>2
      <4>2. PICK y : y \in T
        OBVIOUS
      <4>3. y \in Nat /\ y < k
        BY <3>1, <4>2
      <4> QED
        BY <4>1, <4>3
    <3>3. k - 1 \in Nat /\ \A y \in T : y <= k - 1
      BY <3>1, <3>2
    <3>4. k - 1 \in above /\ ~(k <= k - 1)
      BY <3>2, <3>3
    <3> HIDE DEF above
    <3> QED
      BY <1>2, <3>4
  <2> QED
    BY <2>1
<1>4. \E x \in T : \A y \in T : x >= y
  BY <1>2, <1>3
<1> QED
  BY <1>4 DEF Max

(* u is t with r at position p. *)
Inserted(u, t, p, r, R) ==
  /\ u \in Seq(R)
  /\ Len(u) = Len(t) + 1
  /\ \A i \in 1..Len(t) + 1 : u[i] = IF i < p THEN t[i] ELSE IF i = p THEN r ELSE t[i - 1]

(* What is where in a sequence into which something was inserted. *)
LEMMA InsertAtIs ==
  ASSUME NEW R, NEW t \in Seq(R), NEW r \in R, NEW p \in 1..Len(t) + 1
  PROVE  Inserted(InsertAt(t, p, r), t, p, r, R)
<1>1. PICK n \in Nat : n = Len(t)
  OBVIOUS
<1>2. PICK a : a = SubSeq(t, 1, p - 1)
  OBVIOUS
<1>3. PICK b : b = SubSeq(t, p, Len(t))
  OBVIOUS
<1>4. a \in Seq(R) /\ Len(a) = p - 1 /\ \A i \in 1..p - 1 : a[i] = t[i]
  BY <1>1, <1>2
<1>5. b \in Seq(R) /\ Len(b) = n + 1 - p /\ \A i \in 1..n + 1 - p : b[i] = t[p + i - 1]
  BY <1>1, <1>3
<1>6. PICK c : c = a \o <<r>>
  OBVIOUS
<1>7. /\ c \in Seq(R) /\ Len(c) = p
      /\ \A i \in 1..p : c[i] = IF i < p THEN t[i] ELSE r
  BY <1>4, <1>6
<1>8. PICK u : u = c \o b
  OBVIOUS
<1>9. /\ u \in Seq(R) /\ Len(u) = n + 1
      /\ \A i \in 1..n + 1 : u[i] = IF i <= p THEN c[i] ELSE b[i - p]
  <2>1. /\ u \in Seq(R) /\ Len(u) = Len(c) + Len(b)
        /\ \A i \in 1..Len(c) + Len(b) :
             u[i] = IF i <= Len(c) THEN c[i] ELSE b[i - Len(c)]
    BY <1>5, <1>7, <1>8, ConcatProperties
  <2>2. Len(c) + Len(b) = n + 1 /\ Len(c) = p
    BY <1>1, <1>5, <1>7
  <2> QED
    BY <2>1, <2>2
<1>10. ASSUME NEW i \in 1..n + 1
       PROVE  u[i] = IF i < p THEN t[i] ELSE IF i = p THEN r ELSE t[i - 1]
  <2>1. CASE i <= p
    BY <1>7, <1>9, <2>1
  <2>2. CASE i > p
    <3>1. PICK j : j = i - p
      OBVIOUS
    <3>2. j \in 1..n + 1 - p /\ p + j - 1 = i - 1
      BY <1>1, <2>2, <3>1
    <3>3. b[j] = t[i - 1]
      BY <1>5, <3>2
    <3>4. u[i] = b[j]
      BY <1>1, <1>9, <2>2, <3>1
    <3> QED
      BY <1>1, <2>2, <3>3, <3>4
  <2> QED
    BY <1>1, <2>1, <2>2
<1>11. u = InsertAt(t, p, r)
  BY <1>2, <1>3, <1>6, <1>8 DEF InsertAt
<1> QED
  BY <1>1, <1>9, <1>10, <1>11 DEF Inserted

(* A step of the sort adds one relay, before those at the end it beats. *)
LEMMA InsertionIs ==
  ASSUME NEW R, NEW t \in Seq(R), NEW r \in R, NEW said
  PROVE  /\ Insertion(t, r, said) \in Seq(R)
         /\ ToSet(Insertion(t, r, said)) = ToSet(t) \cup {r}
         /\ IsInjective(t) /\ r \notin ToSet(t) => IsInjective(Insertion(t, r, said))
         /\ (\A i \in 1..Len(t) : Beats(said[r], said[t[i]])) => Insertion(t, r, said)[1] = r
         /\ t # <<>> /\ ~Beats(said[r], said[t[1]]) => Insertion(t, r, said)[1] = t[1]
<1> DEFINE kept == {i \in DOMAIN t : ~Beats(said[r], said[t[i]])}
<1>1. PICK n \in Nat : n = Len(t) /\ DOMAIN t = 1..n
  OBVIOUS
<1>2. kept \subseteq 1..n
  BY <1>1
<1>3. PICK m : m = Max(kept \cup {0})
  OBVIOUS
<1>4. m \in 0..n /\ m \in kept \cup {0} /\ \A y \in kept : m >= y
  <2>1. kept \cup {0} \in SUBSET (0..n)
    BY <1>2
  <2> HIDE DEF kept
  <2>2. Max(kept \cup {0}) \in kept \cup {0} /\ \A y \in kept \cup {0} : Max(kept \cup {0}) >= y
    BY <2>1, MaxIs
  <2> QED
    BY <1>3, <2>1, <2>2
<1>5. PICK p : p = 1 + m
  OBVIOUS
<1>6. p \in 1..n + 1
  BY <1>4, <1>5
<1>7. PICK u : u = Insertion(t, r, said)
  OBVIOUS
<1>8. u = InsertAt(t, p, r)
  BY <1>3, <1>5, <1>7 DEF Insertion
<1>9. /\ u \in Seq(R) /\ Len(u) = n + 1
      /\ \A i \in 1..n + 1 : u[i] = IF i < p THEN t[i] ELSE IF i = p THEN r ELSE t[i - 1]
  <2>1. p \in 1..Len(t) + 1
    BY <1>1, <1>6
  <2>2. Inserted(u, t, p, r, R)
    <3> HIDE DEF kept
    <3> QED
      BY <1>8, <2>1, InsertAtIs
  <2> QED
    BY <1>1, <2>2 DEF Inserted
<1>10. DOMAIN u = 1..n + 1
  BY <1>9
<1>11. u[p] = r /\ \A i \in 1..n : t[i] = u[IF i < p THEN i ELSE i + 1]
  <2>1. ASSUME NEW i \in 1..n PROVE t[i] = u[IF i < p THEN i ELSE i + 1]
    <3>1. CASE i < p
      BY <1>9, <3>1, <1>1
    <3>2. CASE ~(i < p)
      <4>1. i + 1 \in 1..n + 1 /\ ~(i + 1 < p) /\ i + 1 # p /\ (i + 1) - 1 = i
        BY <1>1, <1>6, <3>2
      <4>2. u[i + 1] = t[i]
        BY <1>9, <4>1
      <4> QED
        BY <3>2, <4>2
    <3> QED
      BY <3>1, <3>2
  <2> QED
    BY <1>6, <1>9, <2>1
<1>12. ToSet(u) = ToSet(t) \cup {r}
  <2>1. ASSUME NEW i \in 1..n + 1 PROVE u[i] \in ToSet(t) \cup {r}
    <3>1. CASE i < p
      BY <1>1, <1>6, <1>9, <3>1 DEF ToSet
    <3>2. CASE i > p
      <4>1. i - 1 \in 1..n
        BY <1>1, <1>6, <3>2
      <4> QED
        BY <1>1, <1>6, <1>9, <3>2, <4>1 DEF ToSet
    <3>3. CASE i = p
      BY <1>11, <3>3
    <3> QED
      BY <1>6, <3>1, <3>2, <3>3
  <2>2. ASSUME NEW i \in 1..n PROVE t[i] \in ToSet(u)
    <3>1. (IF i < p THEN i ELSE i + 1) \in 1..n + 1
      BY <1>1, <1>6
    <3> QED
      BY <1>10, <1>11, <3>1 DEF ToSet
  <2>3. r \in ToSet(u)
    BY <1>6, <1>10, <1>11 DEF ToSet
  <2> QED
    BY <1>1, <1>10, <2>1, <2>2, <2>3 DEF ToSet
<1>13. ASSUME IsInjective(t), r \notin ToSet(t) PROVE IsInjective(u)
  <2>1. \A i \in 1..n : t[i] # r
    BY <1>1, <1>13 DEF ToSet
  <2>2. \A i, j \in 1..n : t[i] = t[j] => i = j
    BY <1>1, <1>13 DEF IsInjective
  <2>3. ASSUME NEW i \in 1..n + 1, NEW j \in 1..n + 1, u[i] = u[j] PROVE i = j
    <3> DEFINE from(k) == IF k < p THEN k ELSE k - 1
    <3>1. \A k \in 1..n + 1 : k # p => from(k) \in 1..n /\ u[k] = t[from(k)]
      BY <1>1, <1>6, <1>9
    <3>2. CASE i = p \/ j = p
      BY <1>11, <2>1, <2>3, <3>1, <3>2
    <3>3. CASE i # p /\ j # p
      <4>1. from(i) = from(j)
        BY <2>2, <2>3, <3>1, <3>3
      <4> QED
        BY <1>1, <1>6, <3>3, <4>1
    <3> QED
      BY <3>2, <3>3
  <2> QED
    BY <1>10, <2>3 DEF IsInjective
<1>14. ASSUME \A i \in 1..Len(t) : Beats(said[r], said[t[i]]) PROVE u[1] = r
  <2>1. kept = {}
    BY <1>1, <1>14
  <2>2. p = 1
    BY <1>4, <1>5, <2>1
  <2> QED
    BY <1>11, <2>2
<1>15. ASSUME t # <<>>, ~Beats(said[r], said[t[1]]) PROVE u[1] = t[1]
  <2>1. n >= 1
    BY <1>1, <1>15
  <2>2. 1 \in kept
    BY <1>1, <1>15, <2>1
  <2>3. p >= 2
    BY <1>4, <1>5, <2>2
  <2> QED
    BY <1>1, <1>6, <1>9, <2>1, <2>3
<1> QED
  BY <1>7, <1>9, <1>12, <1>13, <1>14, <1>15

-----------------------------------------------------------------------------
(* f is the sort of the first n relays of s, step by step. *)
Sorts(f, n, s, said) ==
  f = [i \in 0..n |->
         IF i = 0 THEN <<>>
         ELSE IF s[i] \in DOMAIN said THEN Insertion(f[i - 1], s[i], said)
         ELSE f[i - 1]]

(* The recursion of Ranking has a solution. *)
LEMMA SortExists ==
  ASSUME NEW s, NEW said, NEW n \in Nat
  PROVE  \E f : Sorts(f, n, s, said)
<1> DEFINE Bad == {k \in Nat : ~ \E f : Sorts(f, k, s, said)}
<1>1. ASSUME Bad # {} PROVE FALSE
  <2>1. Bad \in SUBSET Nat
    OBVIOUS
  <2>2. PICK k \in Bad : \A j \in Bad : k <= j
    <3> HIDE DEF Bad
    <3> QED
      BY <1>1, <2>1, HasLeast
  <2>3. k \in Nat /\ ~ \E f : Sorts(f, k, s, said)
    BY <2>2
  <2>4. CASE k = 0
    <3>1. Sorts([i \in 0..0 |-> <<>>], 0, s, said)
      BY DEF Sorts
    <3> QED
      BY <2>3, <2>4, <3>1
  <2>5. CASE k > 0
    <3>1. k - 1 \in Nat /\ ~(k <= k - 1)
      BY <2>3, <2>5
    <3>2. PICK f : Sorts(f, k - 1, s, said)
      BY <2>2, <3>1
    <3> DEFINE last == IF s[k] \in DOMAIN said THEN Insertion(f[k - 1], s[k], said)
                       ELSE f[k - 1]
               g == [i \in 0..k |-> IF i < k THEN f[i] ELSE last]
    <3>3. \A i \in 0..k - 1 : g[i] = f[i]
      BY <2>3, <3>1
    <3>4. ASSUME NEW i \in 0..k
          PROVE  g[i] = IF i = 0 THEN <<>>
                        ELSE IF s[i] \in DOMAIN said THEN Insertion(g[i - 1], s[i], said)
                        ELSE g[i - 1]
      <4>1. CASE i = k
        <5>1. g[i] = last /\ g[i - 1] = f[k - 1]
          BY <2>3, <2>5, <3>1, <3>3, <4>1
        <5> HIDE DEF g
        <5> QED
          BY <2>5, <4>1, <5>1
      <4>2. CASE i = 0
        <5>1. g[0] = f[0]
          BY <2>3, <2>5, <3>3
        <5>2. f[0] = <<>>
          BY <3>1, <3>2 DEF Sorts
        <5> QED
          BY <4>2, <5>1, <5>2
      <4>3. CASE i # k /\ i # 0
        <5>1. i \in 0..k - 1 /\ i - 1 \in 0..k - 1
          BY <2>3, <4>3
        <5>2. g[i] = f[i] /\ g[i - 1] = f[i - 1]
          BY <3>3, <5>1
        <5>3. f[i] = IF i = 0 THEN <<>>
                     ELSE IF s[i] \in DOMAIN said THEN Insertion(f[i - 1], s[i], said)
                     ELSE f[i - 1]
          BY <3>2, <5>1 DEF Sorts
        <5> HIDE DEF g
        <5> QED
          BY <5>2, <5>3
      <4> QED
        BY <4>1, <4>2, <4>3
    <3>5. Sorts(g, k, s, said)
      <4>1. g = [i \in 0..k |-> g[i]]
        OBVIOUS
      <4> HIDE DEF g
      <4> QED
        BY <3>4, <4>1 DEF Sorts
    <3> QED
      BY <2>3, <3>5
  <2> QED
    BY <2>3, <2>4, <2>5
<1>2. n \notin Bad
  BY <1>1
<1> QED
  BY <1>2

(* Ranking is the last step of the sort. *)
LEMMA RankingIs ==
  ASSUME NEW s, NEW said, Len(s) \in Nat
  PROVE  \E f : Sorts(f, Len(s), s, said) /\ Ranking(s, said) = f[Len(s)]
<1> DEFINE ranked == CHOOSE f : Sorts(f, Len(s), s, said)
<1>1. Sorts(ranked, Len(s), s, said)
  BY SortExists
<1>2. Ranking(s, said) = ranked[Len(s)]
  BY DEF Ranking, Sorts
<1> QED
  BY <1>1, <1>2

-----------------------------------------------------------------------------
(* What the sort has of the relays it has been through. *)
Passed(s, said, n) == {s[j] : j \in {j \in 1..n : s[j] \in DOMAIN said}}

(* A relay that beats every other one and that none of them beats. *)
Best(r, s, said) ==
  /\ ~Beats(said[r], said[r])
  /\ \A q \in Passed(s, said, Len(s)) \ {r} : Beats(said[r], said[q]) /\ ~Beats(said[q], said[r])

(* What is in order after a step of the sort. *)
Sorted(t, n, s, said, R) ==
  /\ t \in Seq(R)
  /\ ToSet(t) = Passed(s, said, n)
  /\ IsInjective(s) => IsInjective(t)
  /\ \A r \in Passed(s, said, n) : Best(r, s, said) => t[1] = r

(* It stays in order when one more relay is inserted. *)
LEMMA SortStep ==
  ASSUME NEW R, NEW s \in Seq(R), NEW said, NEW n \in 1..Len(s), NEW t,
         Sorted(t, n - 1, s, said, R), s[n] \in DOMAIN said
  PROVE  Sorted(Insertion(t, s[n], said), n, s, said, R)
<1> DEFINE q == s[n]
           u == Insertion(t, q, said)
<1>1. q \in R /\ t \in Seq(R)
  BY DEF Sorted
<1>2. /\ u \in Seq(R)
      /\ ToSet(u) = ToSet(t) \cup {q}
      /\ IsInjective(t) /\ q \notin ToSet(t) => IsInjective(u)
      /\ (\A i \in 1..Len(t) : Beats(said[q], said[t[i]])) => u[1] = q
      /\ t # <<>> /\ ~Beats(said[q], said[t[1]]) => u[1] = t[1]
  <2> HIDE DEF q
  <2> QED
    BY <1>1, InsertionIs
<1>3. Passed(s, said, n) = Passed(s, said, n - 1) \cup {q}
  BY DEF Passed
<1>4. ToSet(u) = Passed(s, said, n)
  BY <1>2, <1>3 DEF Sorted
<1>5. ASSUME IsInjective(s) PROVE q \notin ToSet(t)
  <2>1. \A j \in 1..n - 1 : s[j] # s[n]
    BY <1>5 DEF IsInjective
  <2> QED
    BY <2>1 DEF Sorted, Passed
<1>6. IsInjective(s) => IsInjective(u)
  BY <1>2, <1>5 DEF Sorted
<1>7. Passed(s, said, n) \subseteq Passed(s, said, Len(s))
  BY DEF Passed
<1>8. t = <<>> <=> ToSet(t) = {}
  <2>1. PICK m \in Nat : m = Len(t) /\ DOMAIN t = 1..m
    BY <1>1
  <2>2. t = <<>> <=> m = 0
    BY <1>1, <2>1
  <2>3. m # 0 => t[1] \in ToSet(t)
    BY <2>1 DEF ToSet
  <2>4. m = 0 => ToSet(t) = {}
    BY <2>1 DEF ToSet
  <2> QED
    BY <2>2, <2>3, <2>4
<1>9. ASSUME NEW r \in Passed(s, said, n), Best(r, s, said) PROVE u[1] = r
  <2>1. CASE r \in ToSet(t)
    <3>1. t # <<>> /\ t[1] = r
      BY <1>8, <1>9, <2>1 DEF Sorted
    <3>2. ~Beats(said[q], said[r])
      BY <1>3, <1>7, <1>9 DEF Best
    <3> HIDE DEF u, q
    <3> QED
      BY <1>2, <3>1, <3>2
  <2>2. CASE r \notin ToSet(t)
    <3>1. r = q
      BY <1>3, <1>9, <2>2 DEF Sorted
    <3>2. ASSUME NEW i \in 1..Len(t) PROVE Beats(said[q], said[t[i]])
      <4>1. t[i] \in ToSet(t)
        BY <1>1 DEF ToSet
      <4>2. t[i] \in Passed(s, said, Len(s)) \ {r}
        BY <1>3, <1>7, <2>2, <4>1 DEF Sorted
      <4> QED
        BY <1>9, <3>1, <4>2 DEF Best
    <3> HIDE DEF u, q
    <3> QED
      BY <1>2, <3>1, <3>2
  <2> QED
    BY <2>1, <2>2
<1> HIDE DEF u, q
<1>10. Sorted(u, n, s, said, R)
  BY <1>2, <1>4, <1>6, <1>9 DEF Sorted
<1> QED
  BY <1>10 DEF u, q

(* It stays in order when a relay has said nothing. *)
LEMMA SortSkip ==
  ASSUME NEW R, NEW s \in Seq(R), NEW said, NEW n \in 1..Len(s), NEW t,
         Sorted(t, n - 1, s, said, R), s[n] \notin DOMAIN said
  PROVE  Sorted(t, n, s, said, R)
<1>1. Passed(s, said, n) = Passed(s, said, n - 1)
  BY DEF Passed
<1> QED
  BY <1>1 DEF Sorted

(* The ranking is of the relays that said anything, each once, and the one  *)
(* that beats all of them comes first.                                      *)
LEMMA RankingSorts ==
  ASSUME NEW R, NEW s \in Seq(R), NEW said
  PROVE  Sorted(Ranking(s, said), Len(s), s, said, R)
<1>1. Len(s) \in Nat
  OBVIOUS
<1>2. PICK f : Sorts(f, Len(s), s, said) /\ Ranking(s, said) = f[Len(s)]
  BY <1>1, RankingIs
<1> DEFINE Bad == {k \in 0..Len(s) : ~Sorted(f[k], k, s, said, R)}
<1>3. ASSUME Bad # {} PROVE FALSE
  <2>1. Bad \in SUBSET Nat
    BY <1>1
  <2>2. PICK k \in Bad : \A j \in Bad : k <= j
    <3> HIDE DEF Bad
    <3> QED
      BY <1>3, <2>1, HasLeast
  <2>3. k \in 0..Len(s) /\ ~Sorted(f[k], k, s, said, R)
    BY <2>2
  <2>4. CASE k = 0
    <3>1. f[0] = <<>>
      BY <1>1, <1>2 DEF Sorts
    <3>2. Sorted(<<>>, 0, s, said, R)
      BY DEF Sorted, Passed, ToSet, IsInjective
    <3> QED
      BY <2>3, <2>4, <3>1, <3>2
  <2>5. CASE k # 0
    <3>1. k \in 1..Len(s) /\ k - 1 \in 0..Len(s) /\ ~(k <= k - 1)
      BY <1>1, <2>3, <2>5
    <3>2. Sorted(f[k - 1], k - 1, s, said, R)
      BY <2>2, <3>1
    <3>3. f[k] = IF s[k] \in DOMAIN said THEN Insertion(f[k - 1], s[k], said)
                 ELSE f[k - 1]
      BY <1>2, <2>3, <2>5 DEF Sorts
    <3>4. CASE s[k] \in DOMAIN said
      BY <2>3, <3>1, <3>2, <3>3, <3>4, SortStep
    <3>5. CASE s[k] \notin DOMAIN said
      BY <2>3, <3>1, <3>2, <3>3, <3>5, SortSkip
    <3> QED
      BY <3>4, <3>5
  <2> QED
    BY <2>4, <2>5
<1>4. Sorted(f[Len(s)], Len(s), s, said, R)
  <2>1. Len(s) \notin Bad /\ Len(s) \in 0..Len(s)
    BY <1>1, <1>3
  <2> QED
    BY <2>1
<1> QED
  BY <1>2, <1>4

-----------------------------------------------------------------------------
(* A finite response is ahead of another in finitely many things. *)
LEMMA AheadFinite ==
  ASSUME NEW x, NEW y, FiniteHints(x)
  PROVE  IsFiniteSet(Ahead(x, y))
<1> DEFINE part(s) == IF s \in DOMAIN y.spaces
                      THEN {<<s, a>> : a \in AheadIn(x.spaces[s], y.spaces[s])}
                      ELSE {<<s, <<"space", "held">>>>}
           parts == {part(s) : s \in DOMAIN x.spaces}
<1>1. ASSUME NEW h, NEW g, IsFiniteSet(DOMAIN h.names) PROVE IsFiniteSet(AheadIn(h, g))
  <2> DEFINE fields == {f \in {"epoch", "seq", "dseq"} : h[f] > g[f]}
             names == {n \in DOMAIN h.names : HandleSeq(h, n) > HandleSeq(g, n)}
             F == {<<"space", f>> : f \in fields}
             N == {<<"handle", n>> : n \in names}
  <2>1. IsFiniteSet(F)
    <3>1. F \subseteq {<<"space", "epoch">>, <<"space", "seq">>, <<"space", "dseq">>}
      OBVIOUS
    <3>2. IsFiniteSet({<<"space", "epoch">>, <<"space", "seq">>, <<"space", "dseq">>})
      <4>1. IsFiniteSet({<<"space", "epoch">>})
        BY FS_Singleton
      <4>2. IsFiniteSet({<<"space", "epoch">>} \cup {<<"space", "seq">>})
        BY <4>1, FS_AddElement
      <4>3. IsFiniteSet(({<<"space", "epoch">>} \cup {<<"space", "seq">>}) \cup {<<"space", "dseq">>})
        BY <4>2, FS_AddElement
      <4>4. ({<<"space", "epoch">>} \cup {<<"space", "seq">>}) \cup {<<"space", "dseq">>}
              = {<<"space", "epoch">>, <<"space", "seq">>, <<"space", "dseq">>}
        OBVIOUS
      <4> QED
        BY <4>3, <4>4
    <3> HIDE DEF F
    <3> QED
      BY <3>1, <3>2, FS_Subset
  <2>2. IsFiniteSet(N)
    <3> DEFINE pair == [n \in names |-> <<"handle", n>>]
    <3>1. IsFiniteSet(names)
      BY <1>1, FS_Subset
    <3>2. pair \in Surjection(names, N)
      <4>1. pair \in [names -> N]
        OBVIOUS
      <4>2. \A p \in N : \E n \in names : pair[n] = p
        OBVIOUS
      <4> HIDE DEF pair, N, names
      <4> QED
        BY <4>1, <4>2 DEF Surjection
    <3> HIDE DEF pair, N, names
    <3> QED
      BY <3>1, <3>2, FS_Surjection
  <2>3. AheadIn(h, g) = F \cup N
    BY DEF AheadIn
  <2> HIDE DEF F, N
  <2> QED
    BY <2>1, <2>2, <2>3, FS_Union
<1>2. ASSUME NEW s \in DOMAIN x.spaces PROVE IsFiniteSet(part(s))
  <2>1. CASE s \in DOMAIN y.spaces
    <3> DEFINE A == AheadIn(x.spaces[s], y.spaces[s])
               P == {<<s, a>> : a \in A}
               pair == [a \in A |-> <<s, a>>]
    <3>1. IsFiniteSet(A)
      BY <1>1 DEF FiniteHints
    <3> HIDE DEF A
    <3>2. pair \in Surjection(A, P)
      <4>1. pair \in [A -> P]
        OBVIOUS
      <4>2. \A p \in P : \E a \in A : pair[a] = p
        OBVIOUS
      <4> HIDE DEF pair, P
      <4> QED
        BY <4>1, <4>2 DEF Surjection
    <3>3. IsFiniteSet(P)
      <4> HIDE DEF pair, P
      <4> QED
        BY <3>1, <3>2, FS_Surjection
    <3>4. part(s) = P
      BY <2>1 DEF A
    <3> QED
      BY <3>3, <3>4
  <2>2. CASE s \notin DOMAIN y.spaces
    <3>1. part(s) = {<<s, <<"space", "held">>>>}
      BY <2>2
    <3> HIDE DEF part
    <3> QED
      BY <3>1, FS_Singleton
  <2> QED
    BY <2>1, <2>2
<1>3. IsFiniteSet(parts)
  <2> DEFINE of == [s \in DOMAIN x.spaces |-> part(s)]
  <2> HIDE DEF part
  <2>1. of \in Surjection(DOMAIN x.spaces, parts)
    <3>1. of \in [DOMAIN x.spaces -> parts]
      OBVIOUS
    <3>2. \A p \in parts : \E s \in DOMAIN x.spaces : of[s] = p
      OBVIOUS
    <3> HIDE DEF of, parts
    <3> QED
      BY <3>1, <3>2 DEF Surjection
  <2>2. IsFiniteSet(DOMAIN x.spaces)
    BY DEF FiniteHints
  <2> HIDE DEF of, parts
  <2> QED
    BY <2>1, <2>2, FS_Surjection
<1>4. \A T \in parts : IsFiniteSet(T)
  BY <1>2
<1>5. Ahead(x, y) = UNION parts
  BY DEF Ahead
<1> HIDE DEF parts
<1> QED
  BY <1>3, <1>4, <1>5, FS_UNION

(* A fresher response beats the other, and is not beaten by it. *)
LEMMA FresherBeats ==
  ASSUME NEW x, NEW y, FiniteHints(x), FiniteHints(y), Fresher(x, y)
  PROVE  Beats(x, y) /\ ~Beats(y, x)
<1>1. PICK a : a = Cardinality(Ahead(x, y))
  OBVIOUS
<1>2. PICK b : b = Cardinality(Ahead(y, x))
  OBVIOUS
<1>3. a \in Nat /\ b = 0 /\ (Ahead(x, y) # {} => a # 0)
  BY <1>1, <1>2, AheadFinite, FS_CardinalityType, FS_EmptySet DEF Fresher
<1>4. Score(x, y) = a - b /\ Score(y, x) = b - a
  BY <1>1, <1>2 DEF Score
<1>5. x.tip \in Int /\ y.tip \in Int
  BY DEF FiniteHints
<1>6. a # 0 \/ x.tip > y.tip
  BY <1>3 DEF Fresher
<1> QED
  BY <1>3, <1>4, <1>5, <1>6 DEF Beats

(* No response beats itself. *)
LEMMA NoneBeatsItself ==
  ASSUME NEW x, FiniteHints(x)
  PROVE  ~Beats(x, x)
<1>1. PICK a : a = Cardinality(Ahead(x, x))
  OBVIOUS
<1>2. a \in Nat
  BY <1>1, AheadFinite, FS_CardinalityType
<1>3. Score(x, x) = 0
  BY <1>1, <1>2 DEF Score
<1> QED
  BY <1>3 DEF Beats, FiniteHints

-----------------------------------------------------------------------------
(* The first relays of a plan are a plan. *)
LEMMA FirstIs ==
  ASSUME NEW R, NEW s \in Seq(R), s # <<>>, NEW n \in Nat \ {0}
  PROVE  /\ First(s, n) \in Seq(R) /\ First(s, n) # <<>>
         /\ IsInjective(s) => IsInjective(First(s, n))
<1>1. PICK m : m = IF n < Len(s) THEN n ELSE Len(s)
  OBVIOUS
<1>2. m \in 1..Len(s)
  BY <1>1
<1>3. PICK t : t = SubSeq(s, 1, m)
  OBVIOUS
<1>4. t \in Seq(R) /\ Len(t) = m /\ \A i \in 1..m : t[i] = s[i]
  BY <1>2, <1>3
<1>5. t # <<>>
  BY <1>2, <1>4
<1>6. IsInjective(s) => IsInjective(t)
  BY <1>2, <1>4 DEF IsInjective
<1>7. t = First(s, n)
  BY <1>1, <1>3 DEF First
<1> QED
  BY <1>4, <1>5, <1>6, <1>7

(* So is what is left of it. *)
LEMMA TailIs ==
  ASSUME NEW R, NEW s \in Seq(R), s # <<>>
  PROVE  Tail(s) \in Seq(R) /\ (IsInjective(s) => IsInjective(Tail(s)))
<1>1. PICK n \in Nat : n = Len(s) /\ DOMAIN s = 1..n
  OBVIOUS
<1>2. PICK t : t = Tail(s)
  OBVIOUS
<1>3. t \in Seq(R) /\ Len(t) = n - 1 /\ \A i \in 1..n - 1 : t[i] = s[i + 1]
  BY <1>1, <1>2
<1>4. DOMAIN t = 1..n - 1
  BY <1>3
<1>5. ASSUME IsInjective(s) PROVE IsInjective(t)
  <2>1. ASSUME NEW i \in 1..n - 1, NEW j \in 1..n - 1, t[i] = t[j] PROVE i = j
    <3>1. i + 1 \in 1..n /\ j + 1 \in 1..n
      BY <1>1
    <3>2. s[i + 1] = s[j + 1]
      BY <1>3, <2>1
    <3>3. i + 1 = j + 1
      BY <1>1, <1>5, <3>1, <3>2 DEF IsInjective
    <3> QED
      BY <3>3
  <2> QED
    BY <1>4, <2>1 DEF IsInjective
<1> QED
  BY <1>2, <1>3, <1>5

(* The relays that are asked for hints are the first ones of the pool's. *)
LEMMA ConsultedIs ==
  ASSUME NEW R, NEW s \in Seq(R), s # <<>>, NEW said
  PROVE  /\ Consulted(s, said) \in Seq(R)
         /\ IsInjective(s) => IsInjective(Consulted(s, said))
<1> DEFINE enough == {n \in DOMAIN s :
                        /\ n % Count = 0
                        /\ Cardinality({i \in 1..n : s[i] \in DOMAIN said}) >= Count}
           ends == enough \cup {Len(s)}
<1>1. ends \in SUBSET (Nat \ {0}) /\ ends # {}
  OBVIOUS
<1>2. Consulted(s, said) = First(s, Min(ends))
  BY DEF Consulted
<1> HIDE DEF ends
<1>3. Min(ends) \in ends
  BY <1>1, MinIs
<1>4. Min(ends) \in Nat \ {0}
  BY <1>1, <1>3
<1> QED
  BY <1>2, <1>4, FirstIs

(* A plan of relays asked, ranked. *)
LEMMA RankedPlan ==
  ASSUME NEW R, NEW s \in Seq(R), s # <<>>, NEW said
  PROVE  LET t == Ranking(Consulted(s, said), said) IN
         /\ t \in Seq(R)
         /\ IsInjective(s) => IsInjective(t)
<1>1. PICK a : a = Consulted(s, said)
  OBVIOUS
<1>2. a \in Seq(R) /\ (IsInjective(s) => IsInjective(a))
  BY <1>1, ConsultedIs
<1>3. Sorted(Ranking(a, said), Len(a), a, said, R)
  BY <1>2, RankingSorts
<1> QED
  BY <1>1, <1>2, <1>3 DEF Sorted

-----------------------------------------------------------------------------
(* Where a call has relays left to ask. *)
Planned == {"hear", "send", "prove"}

(* A call of a client whose pool is P. *)
CallTyped(k, P) ==
  /\ k.pc \in {"idle", "boot", "discover", "hear", "send", "prove", "broken", "done"}
  /\ k.kind \in Kind
  /\ k.hint # None => k.kind = "cached"
  /\ k.ctx # None => k.kind \in {"cached", "export"}
  /\ k.pc \in {"idle", "boot", "discover"} => k.ctx = None
  /\ k.plan \in Seq(P) /\ IsInjective(k.plan)
  /\ k.plan # <<>> <=> k.pc \in Planned
  /\ k.found # None <=> k.pc = "done"

(* The client's calls, its pool and the failures it counts. *)
ClientTyped ==
  /\ \E s \in Start : tasks = s.tasks
  /\ pool \subseteq Relay
  /\ failures \in [Relay -> 0..MaxFailures]
  /\ \A c \in Task : CallTyped(call[c], pool)

(* A call that ended. *)
LEMMA IdleTyped ==
  ASSUME NEW P
  PROVE  CallTyped(Idle, P) /\ CallTyped([Idle EXCEPT !.pc = "broken"], P)
<1>1. <<>> \in Seq(P) /\ IsInjective(<<>>)
  BY DEF IsInjective
<1> QED
  BY <1>1 DEF CallTyped, Idle, Kind, Planned

(* The pool only grows. *)
LEMMA PoolGrows ==
  ASSUME NEW k, NEW P, NEW Q, P \subseteq Q, CallTyped(k, P)
  PROVE  CallTyped(k, Q)
<1>1. k.plan \in Seq(Q)
  BY DEF CallTyped
<1> QED
  BY <1>1 DEF CallTyped

(* A step changes one call. *)
LEMMA TypedStep ==
  ASSUME ZonesKept, \A d \in Task : CallTyped(call[d], pool), pool \subseteq pool',
         NEW c \in Task, NEW k, CallTyped(k, pool'),
         call' = [call EXCEPT ![c] = k]
  PROVE  \A d \in Task : CallTyped(call'[d], pool')
<1>1. ASSUME NEW d \in Task PROVE CallTyped(call'[d], pool')
  <2>1. CASE d = c
    BY <2>1 DEF ZonesKept
  <2>2. CASE d # c
    <3>1. call'[d] = call[d]
      BY <2>2 DEF ZonesKept
    <3> QED
      BY <3>1, PoolGrows
  <2> QED
    BY <2>1, <2>2
<1> QED
  BY <1>1

(* Failures are counted up to the bound. *)
LEMMA FailuresTyped ==
  ASSUME failures \in [Relay -> 0..MaxFailures]
  PROVE  /\ \A R : Failed(failures, R) \in [Relay -> 0..MaxFailures]
         /\ \A r \in Relay : [failures EXCEPT ![r] = 0] \in [Relay -> 0..MaxFailures]
<1>1. MaxFailures \in Nat /\ MaxFailures > 0
  BY ResolveAssumption
<1>2. ASSUME NEW r \in Relay, failures[r] < Bound(r)
      PROVE  failures[r] + 1 \in 0..MaxFailures
  <2>1. failures[r] \in Nat /\ Bound(r) \in Int /\ Bound(r) <= MaxFailures
    BY <1>1 DEF Bound
  <2> QED
    BY <1>1, <1>2, <2>1
<1>3. 0 \in 0..MaxFailures
  BY <1>1
<1> QED
  BY <1>2, <1>3 DEF Failed

(* A call that goes on to its next relay. *)
LEMMA ContinueTyped ==
  ASSUME ZonesKept, \A d \in Task : CallTyped(call[d], pool), pool' = pool,
         NEW c \in Task, NEW rest \in Seq(pool), IsInjective(rest),
         call[c].pc \in Planned, Continue(c, rest)
  PROVE  \A d \in Task : CallTyped(call'[d], pool')
<1> DEFINE p == IF call[c].pc = "hear" THEN "send" ELSE call[c].pc
           k == [[call[c] EXCEPT !.pc = p] EXCEPT !.plan = rest]
<1>1. CASE rest = <<>>
  <2>1. call' = [call EXCEPT ![c] = Idle]
    BY <1>1 DEF Continue
  <2> QED
    BY <2>1, IdleTyped, TypedStep
<1>2. CASE rest # <<>>
  <2>1. call' = [call EXCEPT ![c] = k]
    BY <1>2 DEF Continue
  <2>2. p \in Planned
    BY DEF Planned
  <2>3. CallTyped(k, pool)
    <3> HIDE DEF p
    <3>1. /\ k.pc = p /\ k.plan = rest /\ k.kind = call[c].kind /\ k.hint = call[c].hint
          /\ k.ctx = call[c].ctx /\ k.found = call[c].found
      BY DEF ZonesKept, CallOK, Fields
    <3> HIDE DEF k
    <3>2. p \notin {"idle", "boot", "discover", "done"} /\ call[c].found = None
      BY <2>2 DEF Planned, CallTyped
    <3> QED
      BY <1>2, <2>2, <3>1, <3>2 DEF CallTyped, Planned
  <2> HIDE DEF k
  <2> QED
    BY <2>1, <2>3, TypedStep
<1> QED
  BY <1>1, <1>2

(* The shuffles of a pool are its relays in some order. *)
LEMMA ShufflesAre ==
  ASSUME pool \subseteq Relay, pool # {}, NEW s \in Shuffles
  PROVE  s \in Seq(pool) /\ s # <<>> /\ IsInjective(s)
<1>1. PICK n : n = Cardinality(pool)
  OBVIOUS
<1>2. IsFiniteSet(pool)
  BY FS_Subset, ResolveAssumption
<1>3. n \in Nat /\ n # 0
  BY <1>1, <1>2, FS_CardinalityType, FS_EmptySet
<1>4. s \in [1..n -> pool] /\ \A i, j \in 1..n : i # j => s[i] # s[j]
  BY <1>1 DEF Shuffles, SetToSeqs
<1>5. s \in Seq(pool) /\ Len(s) = n
  BY <1>3, <1>4
<1>6. s # <<>>
  BY <1>3, <1>5
<1> QED
  BY <1>4, <1>5, <1>6 DEF IsInjective

(* A call that begins: only then does the kind change. *)
LEMMA BeginTyped ==
  ASSUME ZonesKept, ClientTyped, NEW c \in Task, NEW kd \in Kind, Begin(c, kd)
  PROVE  ClientTyped'
<1> DEFINE k == [[[call[c] EXCEPT !.pc = "boot"] EXCEPT !.kind = kd]
                    EXCEPT !.hint = HintFor(kd)]
<1>1. call' = [call EXCEPT ![c] = k] /\ UNCHANGED <<tasks, pool, failures>>
  BY DEF Begin, ZonesKept
<1>2. PICK hint : hint = HintFor(kd)
  OBVIOUS
<1>3. hint # None => kd = "cached"
  BY <1>2 DEF HintFor
<1>4. CallTyped(call[c], pool) /\ call[c].pc = "idle"
  BY DEF ClientTyped, Begin
<1>5. /\ k.pc = "boot" /\ k.kind = kd /\ k.hint = hint
      /\ k.ctx = call[c].ctx /\ k.plan = call[c].plan /\ k.found = call[c].found
  BY <1>2 DEF ZonesKept, CallOK, Fields
<1> HIDE DEF k
<1>6. CallTyped(k, pool)
  BY <1>3, <1>4, <1>5 DEF CallTyped, Planned
<1>7. \A d \in Task : CallTyped(call'[d], pool')
  BY <1>1, <1>6, TypedStep DEF ClientTyped
<1> QED
  BY <1>1, <1>7 DEF ClientTyped

(* A query plans: the context is read by a call that has none. *)
LEMMA QueryTyped ==
  ASSUME ZonesKept, ClientTyped, NEW c \in Task, NEW s \in Shuffles,
         NEW latest \in BOOLEAN, Query(c, s, latest)
  PROVE  ClientTyped'
<1> DEFINE p == IF latest THEN "hear"
                ELSE IF call[c].kind = "prove" THEN "prove" ELSE "send"
           n == IF latest THEN s ELSE First(s, Count)
           x == ContextFor(call[c].kind)
           k == [[[call[c] EXCEPT !.pc = p] EXCEPT !.ctx = x] EXCEPT !.plan = n]
<1>1. call' = [call EXCEPT ![c] = k] /\ UNCHANGED <<tasks, pool, failures>>
  BY DEF Query, ZonesKept
<1>2. s \in Seq(pool) /\ s # <<>> /\ IsInjective(s)
  BY ShufflesAre DEF ClientTyped, Query
<1>3. First(s, Count) \in Seq(pool) /\ First(s, Count) # <<>> /\ IsInjective(First(s, Count))
  BY <1>2, FirstIs, ResolveAssumption
<1>4. n \in Seq(pool) /\ n # <<>> /\ IsInjective(n)
  BY <1>2, <1>3
<1>5. p \in Planned /\ (x # None => call[c].kind \in {"cached", "export"})
  BY DEF Planned, ContextFor
<1>6. CallTyped(call[c], pool) /\ call[c].pc = "boot"
  BY DEF ClientTyped, Query
<1> HIDE DEF p, n, x
<1>7. /\ k.pc = p /\ k.kind = call[c].kind /\ k.hint = call[c].hint
      /\ k.ctx = x /\ k.plan = n /\ k.found = call[c].found
  BY DEF ZonesKept, CallOK, Fields
<1> HIDE DEF k
<1>8. CallTyped(k, pool)
  BY <1>4, <1>5, <1>6, <1>7 DEF CallTyped, Planned
<1>9. \A d \in Task : CallTyped(call'[d], pool')
  BY <1>1, <1>8, TypedStep DEF ClientTyped
<1> QED
  BY <1>1, <1>9 DEF ClientTyped

(* A verified answer ends the asking. *)
LEMMA VerifiedTyped ==
  ASSUME ZonesKept, ClientTyped, NEW c \in Task, NEW r \in Relay,
         NEW a \in Served(c, r), Verified(c, r, a)
  PROVE  ClientTyped'
<1> DEFINE z == Yields(call[c].ctx, a.zone)
           k == [[[[call[c] EXCEPT !.pc = "done"] EXCEPT !.hint = None]
                     EXCEPT !.plan = <<>>] EXCEPT !.found = z]
<1>1. call' = [call EXCEPT ![c] = k] /\ UNCHANGED <<tasks, pool>>
      /\ failures' = [failures EXCEPT ![r] = 0]
  BY DEF Verified, ZonesKept, MarkAlive
<1>2. a.zone \in Zone
  BY DEF Served, Answer, ZonesKept, Zone
<1>3. z # None
  BY <1>2, Epochs DEF Yields
<1>4. CallTyped(call[c], pool)
  BY DEF ClientTyped
<1> HIDE DEF z
<1>5. /\ k.pc = "done" /\ k.kind = call[c].kind /\ k.hint = None
      /\ k.ctx = call[c].ctx /\ k.plan = <<>> /\ k.found = z
  BY DEF ZonesKept, CallOK, Fields
<1> HIDE DEF k
<1>6. <<>> \in Seq(pool) /\ IsInjective(<<>>)
  BY DEF IsInjective
<1>7. CallTyped(k, pool)
  BY <1>3, <1>4, <1>5, <1>6 DEF CallTyped, Planned
<1>8. \A d \in Task : CallTyped(call'[d], pool')
  BY <1>1, <1>7, TypedStep DEF ClientTyped
<1>9. failures' \in [Relay -> 0..MaxFailures]
  BY <1>1, FailuresTyped DEF ClientTyped
<1> QED
  BY <1>1, <1>8, <1>9 DEF ClientTyped

(* The steps of a call that ends, of one that goes on to another relay, and  *)
(* of one that looks for relays.                                             *)
LEMMA OtherStepsTyped ==
  ASSUME ZonesKept, ClientTyped, NEW c \in Task
  PROVE  /\ (\E said : Hear(c, said)) => ClientTyped'
         /\ \A r \in Relay : Unanswered(c, r) \/ Refused(c, r) => ClientTyped'
         /\ \A r \in Relay : Garbled(c, r) \/ Proved(c, r) => ClientTyped'
         /\ Finish(c) \/ Abort(c) => ClientTyped'
         /\ Discover(c) => ClientTyped'
         /\ \A A : Discovered(c, A) => ClientTyped'
<1>1. CallTyped(call[c], pool)
  BY DEF ClientTyped
<1>2. ASSUME NEW said, Hear(c, said) PROVE ClientTyped'
  <2>1. PICK a : a = Consulted(call[c].plan, said)
    OBVIOUS
  <2>2. PICK t : t = Ranking(a, said)
    OBVIOUS
  <2>3. /\ failures' = Failed(failures, ToSet(a) \ DOMAIN said)
        /\ Continue(c, t) /\ UNCHANGED <<tasks, pool>> /\ call[c].pc = "hear"
    BY <1>2, <2>1, <2>2 DEF Hear
  <2>4. call[c].plan \in Seq(pool) /\ call[c].plan # <<>> /\ IsInjective(call[c].plan)
    BY <1>1, <2>3 DEF CallTyped, Planned
  <2>5. t \in Seq(pool) /\ IsInjective(t)
    BY <2>1, <2>2, <2>4, RankedPlan
  <2>6. \A d \in Task : CallTyped(call'[d], pool')
    BY <2>3, <2>5, ContinueTyped DEF ClientTyped, Planned
  <2>7. failures' \in [Relay -> 0..MaxFailures]
    BY <2>3, FailuresTyped DEF ClientTyped
  <2> QED
    BY <2>3, <2>6, <2>7 DEF ClientTyped
<1>3. ASSUME NEW r \in Relay, Unanswered(c, r) \/ Refused(c, r) PROVE ClientTyped'
  <2>1. /\ failures' = Failed(failures, {r}) /\ UNCHANGED <<tasks, pool>>
        /\ Continue(c, Tail(call[c].plan)) /\ call[c].pc \in Planned
    BY <1>3 DEF Unanswered, Refused, FailOver, MarkFailed, Asking, Planned
  <2>2. PICK t : t = Tail(call[c].plan)
    OBVIOUS
  <2>3. call[c].plan \in Seq(pool) /\ call[c].plan # <<>> /\ IsInjective(call[c].plan)
    BY <1>1, <2>1 DEF CallTyped
  <2>4. t \in Seq(pool) /\ IsInjective(t)
    BY <2>2, <2>3, TailIs
  <2>5. \A d \in Task : CallTyped(call'[d], pool')
    BY <2>1, <2>2, <2>4, ContinueTyped DEF ClientTyped
  <2>6. failures' \in [Relay -> 0..MaxFailures]
    BY <2>1, FailuresTyped DEF ClientTyped
  <2> QED
    BY <2>1, <2>5, <2>6 DEF ClientTyped
<1>4. ASSUME NEW k \in {Idle, [Idle EXCEPT !.pc = "broken"]},
             call' = [call EXCEPT ![c] = k], UNCHANGED <<tasks, pool>>,
             failures' \in [Relay -> 0..MaxFailures]
      PROVE  ClientTyped'
  <2>1. CallTyped(k, pool)
    BY IdleTyped
  <2>2. \A d \in Task : CallTyped(call'[d], pool')
    BY <1>4, <2>1, TypedStep DEF ClientTyped
  <2> QED
    BY <1>4, <2>2 DEF ClientTyped
<1>5. ASSUME NEW r \in Relay, Garbled(c, r) \/ Proved(c, r) PROVE ClientTyped'
  <2>1. \/ failures' = failures
        \/ failures' = [failures EXCEPT ![r] = 0]
    BY <1>5 DEF Garbled, Proved, MarkAlive
  <2>2. failures' \in [Relay -> 0..MaxFailures]
    BY <2>1, FailuresTyped DEF ClientTyped
  <2>3. UNCHANGED <<tasks, pool>> /\ \E k \in {Idle, [Idle EXCEPT !.pc = "broken"]} :
                                       call' = [call EXCEPT ![c] = k]
    BY <1>5 DEF Garbled, Proved
  <2> QED
    BY <1>4, <2>2, <2>3
<1>6. ASSUME Finish(c) \/ Abort(c) PROVE ClientTyped'
  <2>1. call' = [call EXCEPT ![c] = Idle] /\ UNCHANGED <<tasks, pool, failures>>
    BY <1>6 DEF Finish, Abort
  <2> QED
    BY <1>4, <2>1 DEF ClientTyped
<1>7. ASSUME NEW p \in {"boot", "discover"}, call[c].pc \in {"boot", "discover"},
             call' = [call EXCEPT ![c] = [call[c] EXCEPT !.pc = p]],
             pool \subseteq pool', pool' \subseteq Relay, UNCHANGED <<tasks, failures>>
      PROVE  ClientTyped'
  <2> DEFINE k == [call[c] EXCEPT !.pc = p]
  <2>1. /\ k.pc = p /\ k.kind = call[c].kind /\ k.hint = call[c].hint
        /\ k.ctx = call[c].ctx /\ k.plan = call[c].plan /\ k.found = call[c].found
    BY DEF ZonesKept, CallOK, Fields
  <2>2. call' = [call EXCEPT ![c] = k]
    BY <1>7
  <2> HIDE DEF k
  <2>3. CallTyped(k, pool)
    BY <1>1, <1>7, <2>1 DEF CallTyped, Planned
  <2>4. CallTyped(k, pool')
    BY <1>7, <2>3, PoolGrows
  <2>5. \A d \in Task : CallTyped(call'[d], pool')
    BY <1>7, <2>2, <2>4, TypedStep DEF ClientTyped
  <2> QED
    BY <1>7, <2>5 DEF ClientTyped
<1>8. ASSUME Discover(c) PROVE ClientTyped'
  BY <1>7, <1>8 DEF Discover, ClientTyped
<1>9. ASSUME NEW A, Discovered(c, A) PROVE ClientTyped'
  <2>1. pool \subseteq pool' /\ pool' \subseteq Relay
    <3>1. \A r \in Relay : Known[r] \subseteq Relay
      BY ResolveAssumption
    <3>2. Told(Seeds, A) \subseteq Relay
      BY <3>1, ResolveAssumption DEF Told
    <3> QED
      BY <1>9, <3>2, ResolveAssumption DEF Discovered, ClientTyped
  <2> QED
    BY <1>7, <1>9, <2>1 DEF Discovered
<1> QED
  BY <1>2, <1>3, <1>5, <1>6, <1>8, <1>9

(* The types of a client hold and no step breaks them. *)
LEMMA ClientTypedInductive ==
  /\ Init => ClientTyped
  /\ ZonesKept /\ ClientTyped /\ [Next]_vars => ClientTyped'
<1>1. ASSUME Init PROVE ClientTyped
  <2>1. (\E s \in Start : tasks = s.tasks) /\ pool \subseteq Relay
    BY <1>1, ResolveAssumption DEF Init
  <2>2. failures \in [Relay -> 0..MaxFailures]
    <3>1. 0 \in 0..MaxFailures
      BY ResolveAssumption
    <3> QED
      BY <1>1, <3>1 DEF Init
  <2>3. \A c \in Task : CallTyped(call[c], pool)
    BY <1>1, IdleTyped DEF Init
  <2> QED
    BY <2>1, <2>2, <2>3 DEF ClientTyped
<1>2. ASSUME ZonesKept, ClientTyped, [Next]_vars PROVE ClientTyped'
  <2>1. ASSUME NEW c \in Task, Step(c) PROVE ClientTyped'
    <3>1. ASSUME NEW s \in Shuffles, NEW latest \in BOOLEAN, Query(c, s, latest)
          PROVE  ClientTyped'
      BY <1>2, <3>1, QueryTyped
    <3>2. ASSUME NEW r \in Relay, NEW a \in Served(c, r), Verified(c, r, a)
          PROVE  ClientTyped'
      BY <1>2, <3>2, VerifiedTyped
    <3>3. /\ (\E said : Hear(c, said)) => ClientTyped'
          /\ \A r \in Relay : Unanswered(c, r) \/ Refused(c, r) => ClientTyped'
          /\ \A r \in Relay : Garbled(c, r) \/ Proved(c, r) => ClientTyped'
          /\ Finish(c) \/ Abort(c) => ClientTyped'
          /\ Discover(c) => ClientTyped'
          /\ \A A : Discovered(c, A) => ClientTyped'
      BY <1>2, OtherStepsTyped
    <3> HIDE DEF ClientTyped
    <3> QED
      BY <2>1, <3>1, <3>2, <3>3 DEF Step
  <2>2. ASSUME NEW c \in Task, NEW k \in Kind, Begin(c, k) PROVE ClientTyped'
    BY <1>2, <2>2, BeginTyped
  <2>3. ASSUME NEW A, RefreshPeers(A) PROVE ClientTyped'
    <3>1. pool \subseteq pool' /\ UNCHANGED <<tasks, failures, call>>
      BY <2>3 DEF RefreshPeers
    <3>2. pool' \subseteq Relay
      <4>1. \A r \in Relay : Known[r] \subseteq Relay
        BY ResolveAssumption
      <4> QED
        BY <1>2, <2>3, <4>1 DEF RefreshPeers, Told, ClientTyped
    <3>3. \A d \in Task : CallTyped(call'[d], pool')
      BY <1>2, <3>1, PoolGrows DEF ClientTyped
    <3> QED
      BY <1>2, <3>1, <3>2, <3>3 DEF ClientTyped
  <2>4. CASE UNCHANGED <<tasks, pool, failures, call>>
    BY <1>2, <2>4 DEF ClientTyped
  <2> QED
    BY <1>2, <2>1, <2>2, <2>3, <2>4 DEF Next, Learn, vars
<1> QED
  BY <1>1, <1>2

(* A client's calls, plans, failure counts and cache always have their       *)
(* types: a plan never names a relay twice nor one outside the pool, and is  *)
(* empty only outside the phases that ask (client.rs:1002-1187).             *)
THEOREM TypeCorrect == Spec => []TypeOK
<1>1. ZonesKept /\ ClientTyped => TypeOK
  BY DEF ZonesKept, CallOK, ClientTyped, CallTyped, TypeOK, ZoneOrNone, Planned
<1> QED
  BY <1>1, ZonesInit, ZonesStep, ClientTypedInductive, PTL DEF Spec

-----------------------------------------------------------------------------
(* What relays say is finite. *)
LEMMA SayingsFinite ==
  ASSUME ZonesKept, NEW said \in Sayings, NEW r \in DOMAIN said
  PROVE  FiniteHints(said[r])
<1>1. (said[r] = HintsOf(r) /\ r \in Honest) \/ said[r] \in Claim
  <2>1. PICK lie \in UNION {[liars -> Claim] : liars \in SUBSET (pool \cap Faulty)} :
          said = [q \in (pool \cap Honest) \cup DOMAIN lie |->
                    IF q \in Honest THEN HintsOf(q) ELSE lie[q]]
    BY DEF Sayings
  <2>2. CASE r \in Honest
    BY <2>1, <2>2
  <2>3. CASE r \notin Honest
    <3>1. r \in DOMAIN lie
      BY <2>1, <2>3
    <3> QED
      BY <2>1, <2>3, <3>1
  <2> QED
    BY <2>2, <2>3
<1>2. CASE said[r] \in Claim
  BY <1>2, ResolveAssumption
<1>3. CASE said[r] = HintsOf(r) /\ r \in Honest
  <2>1. PICK w \in Row : w = rows[r]
    BY <1>3 DEF ZonesKept
  <2>2. PICK x : x = said[r]
    OBVIOUS
  <2>3. x.tip = w.tip /\ DOMAIN x.spaces = {Space} /\ x.spaces[Space].names = w.names
    BY <1>3, <2>1, <2>2 DEF HintsOf
  <2>4. w.tip \in Int /\ IsFiniteSet(DOMAIN w.names)
    BY ResolveAssumption
  <2>5. IsFiniteSet({Space})
    BY FS_Singleton
  <2> QED
    BY <2>2, <2>3, <2>4, <2>5 DEF FiniteHints
<1> QED
  BY <1>1, <1>2, <1>3

(* The relay that is fresher than the others heard is asked first. *)
LEMMA FreshestIsFirst ==
  ASSUME ZonesKept, ClientTyped, NEW c \in Task, call[c].pc = "hear",
         NEW said \in Sayings, Hear(c, said),
         NEW r \in ToSet(call'[c].plan),
         \A q \in ToSet(call'[c].plan) \ {r} : Fresher(said[r], said[q])
  PROVE  Head(call'[c].plan) = r
<1>1. PICK a : a = Consulted(call[c].plan, said)
  OBVIOUS
<1>2. PICK t : t = Ranking(a, said)
  OBVIOUS
<1>3. Continue(c, t)
  BY <1>1, <1>2 DEF Hear
<1>4. t # <<>> /\ call'[c].plan = t
  <2>1. CASE t = <<>>
    <3>1. call'[c] = Idle
      BY <1>3, <2>1 DEF Continue, ZonesKept
    <3>2. call'[c].plan = <<>>
      BY <3>1 DEF Idle
    <3> QED
      BY <3>2 DEF ToSet
  <2>2. CASE t # <<>>
    BY <1>3, <2>2 DEF Continue, ZonesKept, CallOK, Fields
  <2> QED
    BY <2>1, <2>2
<1>5. a \in Seq(pool)
  <2>1. call[c].plan \in Seq(pool) /\ call[c].plan # <<>>
    BY DEF ClientTyped, CallTyped, Planned
  <2> QED
    BY <1>1, <2>1, ConsultedIs
<1>6. Sorted(t, Len(a), a, said, pool)
  BY <1>2, <1>5, RankingSorts
<1>7. /\ t \in Seq(pool) /\ ToSet(t) = Passed(a, said, Len(a))
      /\ Best(r, a, said) => t[1] = r
  BY <1>4, <1>6 DEF Sorted
<1>8. \A q \in ToSet(t) : FiniteHints(said[q])
  <2>1. ToSet(t) \subseteq DOMAIN said
    BY <1>7 DEF Passed
  <2> QED
    BY <2>1, SayingsFinite
<1>9. Best(r, a, said)
  <2>1. ~Beats(said[r], said[r])
    BY <1>4, <1>8, NoneBeatsItself
  <2>2. \A q \in ToSet(t) \ {r} : Beats(said[r], said[q]) /\ ~Beats(said[q], said[r])
    BY <1>4, <1>8, FresherBeats
  <2> QED
    BY <1>7, <2>1, <2>2 DEF Best
<1> QED
  BY <1>4, <1>7, <1>9

(* The relay whose rows are fresher than those of every other relay heard is *)
(* asked first, however many there are and whatever the others claim: the    *)
(* comparison is no order, and the stable sort is right all the same         *)
(* (client.rs:1135-1187, lib.rs:152-194).                                    *)
THEOREM FreshestIsAskedFirst == Spec => FreshestFirst
<1>1. ZonesKept /\ ClientTyped /\ [Next]_vars =>
        [\A c \in Task : call[c].pc = "hear" =>
           \A said \in Sayings : Hear(c, said) =>
             \A r \in ToSet(call'[c].plan) :
               (\A q \in ToSet(call'[c].plan) \ {r} : Fresher(said[r], said[q]))
                 => Head(call'[c].plan) = r]_vars
  BY FreshestIsFirst
<1> QED
  BY <1>1, ZonesInit, ZonesStep, ClientTypedInductive, PTL DEF Spec, FreshestFirst
=============================================================================
