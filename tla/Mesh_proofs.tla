----------------------------- MODULE Mesh_proofs -----------------------------
(***************************************************************************)
(* Proofs about Mesh: what a watermark, a pull under way and a poke say of *)
(* the logs, for any relays, items, tables and failures.                   *)
(***************************************************************************)
EXTENDS Mesh, SequenceTheorems, TLAPS

(* In the logs L, relay n holds the first k items of p's log, which has     *)
(* that many.                                                               *)
HeldTo(L, n, p, k) == k \in 0..Len(L[p]) /\ \A j \in 1..k : L[p][j] \in ToSet(L[n])

(* Watermarks stand for real pages. *)
Marked == \A n, p \in Relay : HeldTo(log, n, p, mark[n][p])

(* A pull has stored what lies before its cursor, and ends within the log. *)
Pulled ==
  \A n \in Relay, l \in Loop : pull[n][l] # None =>
    /\ HeldTo(log, n, pull[n][l].peer, pull[n][l].at)
    /\ pull[n][l].at <= pull[n][l].latest
    /\ pull[n][l].latest <= Len(log[pull[n][l].peer])

(* A relay claims no more than it has. *)
Claimed ==
  /\ \A n \in Relay : claim[n] <= Len(log[n])
  /\ \A m \in pokes : m.cursor <= Len(log[m.from])

Backed == TypeOK /\ Marked /\ Pulled /\ Claimed

-----------------------------------------------------------------------------
(* Logs. *)

(* Logs are typed, and have no item twice. *)
Logs(L) == L \in [Relay -> Seq(Item)] /\ \A n \in Relay : IsInjective(L[n])

(* Each log of M begins with that of L. *)
Prolongs(L, M) ==
  \A p \in Relay :
    /\ Len(L[p]) <= Len(M[p])
    /\ \A j \in 1..Len(L[p]) : M[p][j] = L[p][j]

(* The elements of a sequence are those at its positions. *)
LEMMA InToSet ==
  ASSUME NEW S, NEW s \in Seq(S), NEW e
  PROVE  e \in ToSet(s) <=> \E j \in 1..Len(s) : s[j] = e
BY LenProperties DEF ToSet

(* Appending an item that is not there: nothing moves, and it is there. *)
LEMMA AppendItem ==
  ASSUME NEW L, Logs(L), NEW n \in Relay, NEW i \in Item, i \notin ToSet(L[n]),
         NEW M, M = [L EXCEPT ![n] = Append(@, i)]
  PROVE  Logs(M) /\ Prolongs(L, M) /\ i \in ToSet(M[n])
<1>1. L[n] \in Seq(Item) /\ Len(L[n]) \in Nat
  BY DEF Logs
<1>2. /\ M[n] = Append(L[n], i)
      /\ M[n] \in Seq(Item)
      /\ Len(M[n]) = Len(L[n]) + 1
      /\ \A j \in 1..Len(L[n]) : M[n][j] = L[n][j]
      /\ M[n][Len(L[n]) + 1] = i
  BY <1>1, AppendProperties DEF Logs
<1>3. \A p \in Relay : p # n => M[p] = L[p]
  BY DEF Logs
<1>4. M \in [Relay -> Seq(Item)]
  BY <1>2 DEF Logs
<1>5. \A p \in Relay : Len(L[p]) \in Nat
  BY DEF Logs
<1>6. Prolongs(L, M)
  BY <1>1, <1>2, <1>3, <1>5 DEF Prolongs
<1>7. i \in ToSet(M[n])
  <2>1. Len(L[n]) + 1 \in 1..Len(M[n])
    BY <1>1, <1>2
  <2>. QED  BY <1>2, <2>1, InToSet
<1>8. IsInjective(M[n])
  <2>1. DOMAIN M[n] = 1..(Len(L[n]) + 1) /\ DOMAIN L[n] = 1..Len(L[n])
    BY <1>1, <1>2, LenProperties
  <2>2. \A j \in 1..Len(L[n]) : L[n][j] # i
    BY <1>1, InToSet
  <2>3. ASSUME NEW j \in 1..(Len(L[n]) + 1), NEW k \in 1..(Len(L[n]) + 1),
               M[n][j] = M[n][k]
        PROVE  j = k
    <3>1. CASE j \in 1..Len(L[n]) /\ k \in 1..Len(L[n])
      <4>1. L[n][j] = L[n][k]
        BY <1>2, <2>3, <3>1
      <4>. QED  BY <2>1, <3>1, <4>1 DEF IsInjective, Logs
    <3>2. CASE j = Len(L[n]) + 1 \/ k = Len(L[n]) + 1
      BY <1>1, <1>2, <2>2, <2>3, <3>2
    <3>. QED  BY <1>1, <3>1, <3>2
  <2>. QED  BY <2>1, <2>3 DEF IsInjective
<1>. QED  BY <1>3, <1>4, <1>6, <1>7, <1>8 DEF Logs

(* Logs prolong themselves. *)
LEMMA SameLogs == ASSUME NEW L, Logs(L) PROVE Prolongs(L, L)
<1>1. \A p \in Relay : Len(L[p]) \in Nat
  BY DEF Logs
<1>. QED  BY <1>1 DEF Prolongs

(* What is held stays held, since logs only grow. *)
LEMMA HeldStays ==
  ASSUME NEW L, Logs(L), NEW M, Logs(M), Prolongs(L, M),
         NEW n \in Relay, NEW p \in Relay, NEW k, HeldTo(L, n, p, k)
  PROVE  HeldTo(M, n, p, k)
<1>1. /\ L[n] \in Seq(Item) /\ L[p] \in Seq(Item)
      /\ M[n] \in Seq(Item) /\ M[p] \in Seq(Item)
      /\ Len(L[p]) \in Nat /\ Len(M[p]) \in Nat
      /\ Len(L[n]) \in Nat /\ Len(M[n]) \in Nat
  BY DEF Logs
<1>2. k \in 0..Len(M[p])
  BY <1>1 DEF HeldTo, Prolongs
<1>3. ASSUME NEW j \in 1..k PROVE M[p][j] \in ToSet(M[n])
  <2>1. j \in 1..Len(L[p])
    BY <1>1 DEF HeldTo
  <2>2. M[p][j] = L[p][j]
    BY <2>1 DEF Prolongs
  <2>3. L[p][j] \in ToSet(L[n])
    BY DEF HeldTo
  <2>4. PICK q \in 1..Len(L[n]) : L[n][q] = L[p][j]
    BY <1>1, <2>3, InToSet
  <2>5. Len(L[n]) <= Len(M[n]) /\ M[n][q] = L[n][q]
    BY DEF Prolongs
  <2>6. \E r \in 1..Len(M[n]) : M[n][r] = M[p][j]
    BY <1>1, <2>2, <2>4, <2>5
  <2>. QED  BY <1>1, <2>6, InToSet
<1>. QED  BY <1>2, <1>3 DEF HeldTo

(* The next item is held as well: one more is held. *)
LEMMA HeldOneMore ==
  ASSUME NEW L, Logs(L), NEW n \in Relay, NEW p \in Relay, NEW k, HeldTo(L, n, p, k),
         k < Len(L[p]), L[p][k + 1] \in ToSet(L[n])
  PROVE  HeldTo(L, n, p, k + 1)
<1>1. Len(L[p]) \in Nat
  BY DEF Logs
<1>2. k \in Nat /\ k + 1 \in 0..Len(L[p])
  BY <1>1 DEF HeldTo
<1>3. \A j \in 1..(k + 1) : j \in 1..k \/ j = k + 1
  BY <1>2
<1>. QED  BY <1>2, <1>3 DEF HeldTo

(* A claim or a summary stays within a log that grows. *)
LEMMA WithinStays ==
  ASSUME NEW L, Logs(L), NEW M, Logs(M), Prolongs(L, M),
         NEW p \in Relay, NEW k \in Nat, k <= Len(L[p])
  PROVE  k <= Len(M[p])
<1>1. Len(L[p]) \in Nat /\ Len(M[p]) \in Nat
  BY DEF Logs
<1>. QED  BY <1>1 DEF Prolongs

-----------------------------------------------------------------------------
(* Steps. *)

(* The part of the types that is about logs. *)
LEMMA TypedLogs == TypeOK => Logs(log)
BY DEF TypeOK, Logs

(* A pull that is under way has the fields of one. *)
LEMMA PullUnderWay ==
  ASSUME TypeOK, NEW n \in Relay, NEW l \in Loop, pull[n][l] # None
  PROVE  pull[n][l] \in Pull
BY DEF TypeOK

(* A step that stores nothing keeps Backed if what it begins with is backed *)
(* by the logs: new watermarks, pulls and claims are old ones, or as named. *)
LEMMA QuietStep ==
  ASSUME Backed, TypeOK', log' = log, mark' = mark,
         \A n \in Relay, l \in Loop :
           \/ pull'[n][l] = None
           \/ pull'[n][l] = pull[n][l]
           \/ \E p \in Relay : pull'[n][l] =
                [peer |-> p, at |-> mark[n][p], latest |-> Len(log[p]), stored |-> FALSE],
         \A n \in Relay : claim'[n] \in {0, claim[n], Len(log[n])},
         \A m \in pokes' : m \in pokes \/ (m.from \in Relay /\ m.cursor = claim[m.from])
  PROVE  Backed'
<1>1. \A p \in Relay : Len(log[p]) \in Nat
  BY DEF Backed, TypeOK
<1>2. Marked'
  BY DEF Backed, Marked
<1>3. Pulled'
  <2>1. SUFFICES ASSUME NEW n \in Relay, NEW l \in Loop, pull'[n][l] # None
                 PROVE  /\ HeldTo(log, n, pull'[n][l].peer, pull'[n][l].at)
                        /\ pull'[n][l].at <= pull'[n][l].latest
                        /\ pull'[n][l].latest <= Len(log[pull'[n][l].peer])
    BY DEF Pulled
  <2>2. CASE pull'[n][l] = pull[n][l]
    BY <2>1, <2>2 DEF Backed, Pulled
  <2>3. ASSUME NEW p \in Relay, pull'[n][l] =
                 [peer |-> p, at |-> mark[n][p], latest |-> Len(log[p]), stored |-> FALSE]
        PROVE  /\ HeldTo(log, n, pull'[n][l].peer, pull'[n][l].at)
               /\ pull'[n][l].at <= pull'[n][l].latest
               /\ pull'[n][l].latest <= Len(log[pull'[n][l].peer])
    <3>1. HeldTo(log, n, p, mark[n][p])
      BY DEF Backed, Marked
    <3>2. mark[n][p] <= Len(log[p])
      BY <1>1, <3>1 DEF HeldTo
    <3>. QED  BY <1>1, <2>3, <3>1, <3>2
  <2>. QED  BY <2>1, <2>2, <2>3
<1>4. Claimed'
  BY <1>1 DEF Backed, Claimed
<1>. QED  BY <1>2, <1>3, <1>4 DEF Backed

(* Failures are counted up to the bound. *)
LEMMA FailCounts == TypeOK /\ Fail => failures' \in 0..MaxFailures
BY MeshAssumption DEF TypeOK, Fail

(* What a step of the send loop, of a poke or of a client's handler does    *)
(* leaves everything typed.                                                 *)
LEMMA TypesOfPokes ==
  ASSUME TypeOK,
         \/ \E n \in Relay, i \in Item : Signal(n, i) \/ HangUp(n, i)
         \/ \E n \in Relay : Sending(n)
         \/ \E m \in pokes : Arrival(m) \/ Lose(m)
  PROVE  TypeOK'
<1>. USE DEF TypeOK
<1>0. \A p \in Relay : Len(log[p]) \in Nat
  OBVIOUS
<1>1. ASSUME NEW n \in Relay, NEW i \in Item, Signal(n, i) \/ HangUp(n, i) PROVE TypeOK'
  <2>1. CASE Signal(n, i)
    BY <2>1 DEF Signal, Notify
  <2>2. CASE HangUp(n, i)
    BY <2>2, FailCounts DEF HangUp
  <2>. QED  BY <1>1, <2>1, <2>2
<1>2. ASSUME NEW n \in Relay, Sending(n) PROVE TypeOK'
  <2>1. CASE Wake(n)
    BY <2>1 DEF Wake
  <2>2. CASE Summary(n)
    BY <1>0, <2>2 DEF Summary
  <2>3. CASE Send(n)
    <3>1. \A p \in Verified[n] : [from |-> n, to |-> p, cursor |-> claim[n]] \in Poke
      BY MeshAssumption DEF Poke
    <3>. QED  BY <2>3, <3>1 DEF Send
  <2>. QED  BY <1>2, <2>1, <2>2, <2>3 DEF Sending
<1>3. ASSUME NEW m \in pokes, Arrival(m) \/ Lose(m) PROVE TypeOK'
  <2>1. m.from \in Relay /\ m.to \in Relay
    BY DEF Poke
  <2>2. Append(queue[m.to], m.from) \in Seq(Relay)
    BY <2>1
  <2>3. CASE Accept(m)
    BY <2>1, <2>2, <2>3 DEF Accept
  <2>4. CASE Dismiss(m)
    BY <2>4 DEF Dismiss
  <2>5. CASE Lose(m)
    BY <2>5 DEF Lose
  <2>. QED  BY <1>3, <2>3, <2>4, <2>5 DEF Arrival
<1>. QED  BY <1>1, <1>2, <1>3

(* So does what begins or ends a pull, a crash, and the passing of time. *)
LEMMA TypesOfPulls ==
  ASSUME TypeOK,
         \/ \E n \in Relay : Poked(n) \/ Cooled(n) \/ Crash(n)
         \/ \E n, p \in Relay : Round(n, p)
         \/ \E n \in Relay, l \in Loop : Finish(n, l) \/ PullFails(n, l)
  PROVE  TypeOK'
<1>. USE DEF TypeOK
<1>0. \A n, p \in Relay :
        [peer |-> p, at |-> mark[n][p], latest |-> Len(log[p]), stored |-> FALSE] \in Pull
  BY DEF Pull
<1>1. ASSUME NEW n \in Relay, Poked(n) PROVE TypeOK'
  <2>1. Head(queue[n]) \in Relay /\ Tail(queue[n]) \in Seq(Relay)
    BY <1>1, HeadTailProperties DEF Poked, TakePoke, SkipPoke
  <2>2. CASE TakePoke(n)
    BY <1>0, <2>1, <2>2 DEF TakePoke, Begin, Loop
  <2>3. CASE SkipPoke(n)
    BY <2>1, <2>3 DEF SkipPoke
  <2>. QED  BY <1>1, <2>2, <2>3 DEF Poked
<1>2. ASSUME NEW n \in Relay, Cooled(n) PROVE TypeOK'
  BY <1>2 DEF Cooled
<1>3. ASSUME NEW n \in Relay, Crash(n) PROVE TypeOK'
  <2>1. Idle \in [Loop -> Pull \cup {None}] /\ <<>> \in Seq(Relay)
    BY DEF Idle
  <2>. QED  BY <1>3, <2>1, FailCounts DEF Crash
<1>4. ASSUME NEW n \in Relay, NEW p \in Relay, Round(n, p) PROVE TypeOK'
  BY <1>0, <1>4 DEF Round, Begin, Loop
<1>5. ASSUME NEW n \in Relay, NEW l \in Loop, Finish(n, l) PROVE TypeOK'
  BY <1>5 DEF Finish, Notify
<1>6. ASSUME NEW n \in Relay, NEW l \in Loop, PullFails(n, l) PROVE TypeOK'
  BY <1>6, FailCounts DEF PullFails
<1>. QED  BY <1>1, <1>2, <1>3, <1>4, <1>5, <1>6

(* They are all steps that store nothing. *)
LEMMA QuietSteps ==
  ASSUME Backed,
         \/ \E n \in Relay, i \in Item : Signal(n, i) \/ HangUp(n, i)
         \/ \E n \in Relay : Sending(n)
         \/ \E m \in pokes : Arrival(m) \/ Lose(m)
         \/ \E n \in Relay : Poked(n) \/ Cooled(n) \/ Crash(n)
         \/ \E n, p \in Relay : Round(n, p)
         \/ \E n \in Relay, l \in Loop : Finish(n, l) \/ PullFails(n, l)
  PROVE  Backed'
<1>1. TypeOK'
  BY TypesOfPokes, TypesOfPulls DEF Backed
<1>2. log' = log /\ mark' = mark
  BY DEF Signal, HangUp, Sending, Wake, Summary, Send, Arrival, Accept, Dismiss, Lose,
         Poked, TakePoke, SkipPoke, Cooled, Crash, Round, Finish, PullFails
<1>3. \A n \in Relay : claim'[n] \in {0, claim[n], Len(log[n])}
  <2>1. \/ claim' = claim
        \/ \E r \in Relay : \/ claim' = [claim EXCEPT ![r] = 0]
                            \/ claim' = [claim EXCEPT ![r] = Len(log[r])]
    BY DEF Signal, HangUp, Sending, Wake, Summary, Send, Arrival, Accept, Dismiss, Lose,
           Poked, TakePoke, SkipPoke, Cooled, Crash, Round, Finish, PullFails
  <2>. QED  BY <2>1 DEF Backed, TypeOK
<1>4. \A m \in pokes' : m \in pokes \/ (m.from \in Relay /\ m.cursor = claim[m.from])
  <2>1. \/ pokes' \subseteq pokes
        \/ \E r \in Relay : Send(r)
    BY DEF Signal, HangUp, Sending, Wake, Summary, Arrival, Accept, Dismiss, Lose,
           Poked, TakePoke, SkipPoke, Cooled, Crash, Round, Finish, PullFails
  <2>. QED  BY <2>1 DEF Send
<1>5. \A q \in Relay : queue[q] # <<>> => Head(queue[q]) \in Relay
  BY HeadTailProperties DEF Backed, TypeOK
<1>6. \A n \in Relay, l \in Loop :
        \/ pull'[n][l] = None
        \/ pull'[n][l] = pull[n][l]
        \/ \E p \in Relay : pull'[n][l] =
             [peer |-> p, at |-> mark[n][p], latest |-> Len(log[p]), stored |-> FALSE]
  <2>1. \/ pull' = pull
        \/ \E r \in Relay : pull' = [pull EXCEPT ![r] = Idle]
        \/ \E r \in Relay, k \in Loop : pull' = [pull EXCEPT ![r][k] = None]
        \/ \E r, p \in Relay, k \in Loop : Begin(r, k, p)
    BY <1>5 DEF Signal, HangUp, Sending, Wake, Summary, Send, Arrival, Accept, Dismiss, Lose,
           Poked, TakePoke, SkipPoke, Cooled, Crash, Round, Finish, PullFails, Loop
  <2>2. pull \in [Relay -> [Loop -> Pull \cup {None}]]
    BY DEF Backed, TypeOK
  <2>3. CASE \E r \in Relay : pull' = [pull EXCEPT ![r] = Idle]
    BY <2>2, <2>3 DEF Idle
  <2>4. CASE \E r \in Relay, k \in Loop : pull' = [pull EXCEPT ![r][k] = None]
    BY <2>2, <2>4
  <2>5. CASE \E r, p \in Relay, k \in Loop : Begin(r, k, p)
    <3>1. PICK r \in Relay, p \in Relay, k \in Loop : Begin(r, k, p)
      BY <2>5
    <3>2. PICK b : /\ b = [peer |-> p, at |-> mark[r][p], latest |-> Len(log[p]), stored |-> FALSE]
                   /\ pull' = [pull EXCEPT ![r][k] = b]
      BY <3>1 DEF Begin
    <3>3. ASSUME NEW n \in Relay, NEW l \in Loop, ~(n = r /\ l = k) PROVE pull'[n][l] = pull[n][l]
      BY <2>2, <3>2, <3>3
    <3>4. pull'[r][k] = b
      BY <2>2, <3>2
    <3>. QED  BY <3>2, <3>3, <3>4
  <2>. QED  BY <2>1, <2>3, <2>4, <2>5
<1>. QED  BY <1>1, <1>2, <1>3, <1>4, <1>6, QuietStep

(* An item that is published moves no cursor. *)
LEMMA PublishKeepsBacked ==
  ASSUME Backed, NEW n \in Relay, NEW i \in Item, Publish(n, i)
  PROVE  Backed'
<1>1. Logs(log) /\ Logs(log') /\ Prolongs(log, log')
  BY TypedLogs, AppendItem DEF Backed, Publish, Holds
<1>2. UNCHANGED <<claim, pokes, mark, pull>>
  BY DEF Publish
<1>3. TypeOK'
  BY <1>1 DEF Backed, TypeOK, Publish, Logs
<1>4. Marked'
  <2>1. ASSUME NEW a \in Relay, NEW b \in Relay PROVE HeldTo(log', a, b, mark[a][b])
    BY <1>1, HeldStays DEF Backed, Marked
  <2>. QED  BY <1>2, <2>1 DEF Marked
<1>5. Pulled'
  <2>1. ASSUME NEW a \in Relay, NEW l \in Loop, pull[a][l] # None
        PROVE  /\ HeldTo(log', a, pull[a][l].peer, pull[a][l].at)
               /\ pull[a][l].at <= pull[a][l].latest
               /\ pull[a][l].latest <= Len(log'[pull[a][l].peer])
    <3>1. pull[a][l].peer \in Relay /\ pull[a][l].latest \in Nat
      BY <2>1, PullUnderWay DEF Backed, Pull
    <3>2. /\ HeldTo(log, a, pull[a][l].peer, pull[a][l].at)
          /\ pull[a][l].at <= pull[a][l].latest
          /\ pull[a][l].latest <= Len(log[pull[a][l].peer])
      BY <2>1 DEF Backed, Pulled
    <3>3. HeldTo(log', a, pull[a][l].peer, pull[a][l].at)
      BY <1>1, <3>1, <3>2, HeldStays
    <3>. QED  BY <1>1, <3>1, <3>2, <3>3, WithinStays
  <2>. QED  BY <1>2, <2>1 DEF Pulled
<1>6. Claimed'
  <2>1. \A m \in pokes : m.from \in Relay /\ m.cursor \in Nat
    BY DEF Backed, TypeOK, Poke
  <2>2. \A a \in Relay : claim[a] \in Nat
    BY DEF Backed, TypeOK
  <2>3. \A a \in Relay : claim[a] <= Len(log'[a])
    BY <1>1, <2>2, WithinStays DEF Backed, Claimed
  <2>4. \A m \in pokes : m.cursor <= Len(log'[m.from])
    BY <1>1, <2>1, WithinStays DEF Backed, Claimed
  <2>. QED  BY <1>2, <2>3, <2>4 DEF Claimed
<1>. QED  BY <1>3, <1>4, <1>5, <1>6 DEF Backed

(* A page moves one watermark and the cursor of one pull past the item that *)
(* it brings, and that item is held then, whether it was before or not.     *)
LEMMA PageKeepsBacked ==
  ASSUME Backed, NEW n \in Relay, NEW l \in Loop, Page(n, l)
  PROVE  Backed'
<1>1. PICK s \in Pull : s = pull[n][l] /\ s # None
  BY PullUnderWay DEF Backed, Page
<1>2. /\ s.peer \in Relay /\ s.at \in Nat /\ s.latest \in Nat /\ s.stored \in BOOLEAN
      /\ s.at < s.latest
  BY <1>1 DEF Pull, Page
<1>3. HeldTo(log, n, s.peer, s.at) /\ s.latest <= Len(log[s.peer])
  BY <1>1 DEF Backed, Pulled
<1>4. log[s.peer] \in Seq(Item) /\ Len(log[s.peer]) \in Nat
  BY <1>2 DEF Backed, TypeOK
<1>5. PICK i \in Item : i = log[s.peer][s.at + 1]
  <2>1. s.at + 1 \in 1..Len(log[s.peer])
    BY <1>2, <1>3, <1>4
  <2>. QED  BY <1>4, <2>1, ElementOfSeq
<1>6. /\ log' = IF Holds(n, i) THEN log ELSE [log EXCEPT ![n] = Append(@, i)]
      /\ mark' = [mark EXCEPT ![n][s.peer] = s.at + 1]
      /\ pull' = [pull EXCEPT ![n][l] =
                    [s EXCEPT !.at = s.at + 1, !.stored = s.stored \/ ~Holds(n, i)]]
      /\ UNCHANGED <<owing, dirty, sender, claim, pokes, queue, cooling, failures>>
  BY <1>1, <1>5 DEF Page
<1>7. Logs(log) /\ Logs(log') /\ Prolongs(log, log') /\ i \in ToSet(log'[n])
  <2>1. Logs(log)
    BY TypedLogs DEF Backed
  <2>2. CASE Holds(n, i)
    BY <1>6, <2>1, <2>2, SameLogs DEF Holds
  <2>3. CASE ~Holds(n, i)
    BY <1>6, <2>1, <2>3, AppendItem DEF Holds
  <2>. QED  BY <2>2, <2>3
<1>8. HeldTo(log', n, s.peer, s.at + 1)
  <2>1. HeldTo(log', n, s.peer, s.at)
    BY <1>2, <1>3, <1>7, HeldStays
  <2>2. s.latest <= Len(log'[s.peer]) /\ Len(log'[s.peer]) \in Nat
    <3>1. Len(log'[s.peer]) \in Nat
      BY <1>2, <1>7 DEF Logs
    <3>. QED  BY <1>2, <1>3, <1>7, <3>1, WithinStays
  <2>3. log'[s.peer][s.at + 1] = i
    <3>1. s.at + 1 \in 1..Len(log[s.peer])
      BY <1>2, <1>3, <1>4
    <3>. QED  BY <1>2, <1>5, <1>7, <3>1 DEF Prolongs
  <2>4. s.at < Len(log'[s.peer])
    BY <1>2, <2>2
  <2>. QED  BY <1>2, <1>7, <2>1, <2>3, <2>4, HeldOneMore
<1>9. PICK t \in Pull : /\ t.peer = s.peer /\ t.at = s.at + 1 /\ t.latest = s.latest
                        /\ pull' = [pull EXCEPT ![n][l] = t]
  <2>1. PICK b \in BOOLEAN : b = (s.stored \/ ~Holds(n, i))
    OBVIOUS
  <2>2. pull' = [pull EXCEPT ![n][l] = [s EXCEPT !.at = s.at + 1, !.stored = b]]
    BY <1>6, <2>1
  <2>3. PICK t : t = [s EXCEPT !.at = s.at + 1, !.stored = b]
    OBVIOUS
  <2>4. s = [peer |-> s.peer, at |-> s.at, latest |-> s.latest, stored |-> s.stored]
    BY <1>1 DEF Pull
  <2>5. t = [peer |-> s.peer, at |-> s.at + 1, latest |-> s.latest, stored |-> b]
    BY <2>3, <2>4
  <2>6. t \in Pull /\ t.peer = s.peer /\ t.at = s.at + 1 /\ t.latest = s.latest
    BY <1>2, <2>5 DEF Pull
  <2>. QED  BY <2>2, <2>3, <2>6
<1>10. /\ pull \in [Relay -> [Loop -> Pull \cup {None}]]
       /\ mark \in [Relay -> [Relay -> Nat]]
  BY DEF Backed, TypeOK
<1>11. TypeOK'
  <2>1. pull' \in [Relay -> [Loop -> Pull \cup {None}]]
    BY <1>9, <1>10
  <2>2. mark' \in [Relay -> [Relay -> Nat]]
    BY <1>2, <1>6, <1>10
  <2>. QED  BY <1>6, <1>7, <2>1, <2>2 DEF Backed, TypeOK, Logs
<1>12. Marked'
  <2>1. ASSUME NEW a \in Relay, NEW b \in Relay PROVE HeldTo(log', a, b, mark'[a][b])
    <3>1. CASE a = n /\ b = s.peer
      BY <1>2, <1>6, <1>8, <1>10, <3>1
    <3>2. CASE ~(a = n /\ b = s.peer)
      <4>1. mark'[a][b] = mark[a][b]
        BY <1>2, <1>6, <1>10, <3>2
      <4>2. HeldTo(log', a, b, mark[a][b])
        BY <1>7, HeldStays DEF Backed, Marked
      <4>. QED  BY <4>1, <4>2
    <3>. QED  BY <3>1, <3>2
  <2>. QED  BY <2>1 DEF Marked
<1>13. Pulled'
  <2>1. ASSUME NEW a \in Relay, NEW k \in Loop, pull'[a][k] # None
        PROVE  /\ HeldTo(log', a, pull'[a][k].peer, pull'[a][k].at)
               /\ pull'[a][k].at <= pull'[a][k].latest
               /\ pull'[a][k].latest <= Len(log'[pull'[a][k].peer])
    <3>1. CASE a = n /\ k = l
      <4>1. pull'[a][k] = t
        BY <1>9, <1>10, <3>1
      <4>2. s.latest <= Len(log'[s.peer])
        BY <1>2, <1>3, <1>7, WithinStays
      <4>. QED  BY <1>2, <1>8, <1>9, <3>1, <4>1, <4>2
    <3>2. CASE ~(a = n /\ k = l)
      <4>1. PICK u \in Pull : u = pull[a][k] /\ u = pull'[a][k] /\ u # None
        BY <1>9, <1>10, <2>1, <3>2
      <4>2. u.peer \in Relay /\ u.latest \in Nat
        BY DEF Pull
      <4>3. HeldTo(log, a, u.peer, u.at) /\ u.at <= u.latest /\ u.latest <= Len(log[u.peer])
        BY <4>1 DEF Backed, Pulled
      <4>4. HeldTo(log', a, u.peer, u.at)
        BY <1>7, <4>2, <4>3, HeldStays
      <4>5. u.latest <= Len(log'[u.peer])
        BY <1>7, <4>2, <4>3, WithinStays
      <4>. QED  BY <4>1, <4>3, <4>4, <4>5
    <3>. QED  BY <3>1, <3>2
  <2>. QED  BY <2>1 DEF Pulled
<1>14. Claimed'
  <2>1. ASSUME NEW a \in Relay PROVE claim[a] <= Len(log'[a])
    <3>1. claim[a] \in Nat /\ claim[a] <= Len(log[a])
      BY DEF Backed, TypeOK, Claimed
    <3>. QED  BY <1>7, <3>1, WithinStays
  <2>2. ASSUME NEW m \in pokes PROVE m.cursor <= Len(log'[m.from])
    <3>1. m.from \in Relay /\ m.cursor \in Nat /\ m.cursor <= Len(log[m.from])
      BY DEF Backed, TypeOK, Claimed, Poke
    <3>. QED  BY <1>7, <3>1, WithinStays
  <2>. QED  BY <1>6, <2>1, <2>2 DEF Claimed
<1>. QED  BY <1>11, <1>12, <1>13, <1>14 DEF Backed

(* Every step keeps Backed. *)
LEMMA NextKeepsBacked == Backed /\ [Next]_vars => Backed'
<1>1. SUFFICES ASSUME Backed, [Next]_vars PROVE Backed'
  OBVIOUS
<1>2. ASSUME NEW n \in Relay, NEW i \in Item, Publish(n, i) PROVE Backed'
  BY <1>1, <1>2, PublishKeepsBacked
<1>3. ASSUME NEW n \in Relay, NEW l \in Loop, Page(n, l) PROVE Backed'
  BY <1>1, <1>3, PageKeepsBacked
<1>4. CASE UNCHANGED vars
  BY <1>1, <1>4 DEF vars, Backed, TypeOK, Marked, Pulled, Claimed
<1>. QED  BY <1>1, <1>2, <1>3, <1>4, QuietSteps DEF Next, Pulling

(* Before anything is stored there is nothing to hold. *)
LEMMA InitBacked == Init => Backed
<1>1. SUFFICES ASSUME Init PROVE Backed
  OBVIOUS
<1>2. <<>> \in Seq(Item) /\ <<>> \in Seq(Relay) /\ Len(<<>>) = 0 /\ DOMAIN <<>> = 1..0
  OBVIOUS
<1>3. TypeOK
  BY <1>1, <1>2, MeshAssumption DEF Init, TypeOK, Idle, IsInjective
<1>4. Marked
  BY <1>1, <1>2 DEF Init, Marked, HeldTo
<1>5. Pulled
  BY <1>1 DEF Init, Pulled, Idle
<1>6. Claimed
  BY <1>1, <1>2 DEF Init, Claimed
<1>. QED  BY <1>3, <1>4, <1>5, <1>6 DEF Backed

-----------------------------------------------------------------------------
(* The mesh is always in a well-typed state, and no relay stores an item a  *)
(* second time, whichever of its loops or clients bring it (sync.rs:450).   *)
THEOREM TypeCorrect == Spec => []TypeOK
<1>1. Backed => TypeOK
  BY DEF Backed
<1>. QED  BY <1>1, InitBacked, NextKeepsBacked, PTL DEF Spec

(* A watermark, a pull and a claim always say what is true of the logs: what *)
(* lies up to a watermark is held (sync.rs:505-520, http.rs:652-663).        *)
THEOREM BackedAlways == Spec => []Backed
<1>. QED  BY InitBacked, NextKeepsBacked, PTL DEF Spec

(* A poke is dropped as old news only if all it claims is here already,     *)
(* whatever is lost, fails or restarts (http.rs:652-663).                   *)
THEOREM OldNewsIsHeld == Spec => DismissedIsHeld
<1>1. ASSUME Backed, NEW m \in pokes, Dismiss(m)
      PROVE  ToSet(SubSeq(log[m.from], 1, m.cursor)) \subseteq ToSet(log[m.to])
  <2>1. m.from \in Relay /\ m.to \in Relay /\ m.cursor \in Nat
    BY <1>1 DEF Backed, TypeOK, Poke
  <2>2. /\ mark[m.to][m.from] \in Nat /\ m.cursor <= mark[m.to][m.from]
        /\ log[m.from] \in Seq(Item) /\ Len(log[m.from]) \in Nat
    <3>1. /\ mark[m.to][m.from] \in Nat
          /\ log[m.from] \in Seq(Item) /\ Len(log[m.from]) \in Nat
      BY <1>1, <2>1 DEF Backed, TypeOK
    <3>. QED  BY <1>1, <2>1, <3>1 DEF Dismiss, News
  <2>3. HeldTo(log, m.to, m.from, mark[m.to][m.from])
    BY <1>1, <2>1 DEF Backed, Marked
  <2>4. \A j \in 1..m.cursor : log[m.from][j] \in Item /\ log[m.from][j] \in ToSet(log[m.to])
    BY <2>1, <2>2, <2>3, ElementOfSeq DEF HeldTo
  <2>5. PICK q : q = SubSeq(log[m.from], 1, m.cursor)
    OBVIOUS
  <2>6. /\ q \in Seq(Item) /\ Len(q) = m.cursor
        /\ \A j \in 1..m.cursor : q[j] = log[m.from][j]
    BY <2>1, <2>4, <2>5, SubSeqProperties
  <2>7. ASSUME NEW e \in ToSet(q) PROVE e \in ToSet(log[m.to])
    <3>1. PICK j \in 1..m.cursor : q[j] = e
      BY <2>6, <2>7, InToSet
    <3>. QED  BY <2>4, <2>6, <3>1
  <2>. QED  BY <2>5, <2>7
<1>2. Backed => \A m \in pokes :
        Dismiss(m) => ToSet(SubSeq(log[m.from], 1, m.cursor)) \subseteq ToSet(log[m.to])
  BY <1>1
<1>. QED  BY <1>2, BackedAlways, PTL DEF DismissedIsHeld

-----------------------------------------------------------------------------
(* The abstract promise, which SyncPull keeps in full detail.  The number of *)
(* an item in a log is 0 when it is not there.                               *)
Place(L, i) == IF i \in ToSet(L) THEN CHOOSE k \in DOMAIN L : L[k] = i ELSE 0

(* The watermark that relay n keeps for relay p. *)
Promise(n, p) == INSTANCE Watermark
  WITH Handle  <- Item,
       Version <- {1},
       seq     <- [i \in Item |-> Place(log[p], i)],
       ver     <- [i \in Item |-> IF Holds(p, i) THEN 1 ELSE 0],
       counter <- Len(log[p]),
       mark    <- mark[n][p],
       settled <- {i \in Item : Holds(n, i)} \X {1}

(* An item is once in a log, and stays at its place. *)
LEMMA PlaceIs ==
  ASSUME NEW L \in Seq(Item), IsInjective(L), NEW i \in Item
  PROVE  /\ Place(L, i) \in 0..Len(L)
         /\ Place(L, i) # 0 <=> i \in ToSet(L)
         /\ Place(L, i) # 0 => L[Place(L, i)] = i
         /\ \A k \in 1..Len(L) : L[k] = i => Place(L, i) = k
<1>1. DOMAIN L = 1..Len(L) /\ Len(L) \in Nat
  BY LenProperties
<1>2. CASE i \in ToSet(L)
  <2>1. Place(L, i) \in 1..Len(L) /\ L[Place(L, i)] = i
    BY <1>1, <1>2, InToSet DEF Place
  <2>. QED  BY <1>1, <1>2, <2>1 DEF IsInjective
<1>3. CASE i \notin ToSet(L)
  BY <1>1, <1>3, InToSet DEF Place
<1>. QED  BY <1>2, <1>3

(* u is t with i at its end. *)
Lengthened(t, u, i) ==
  /\ i \notin ToSet(t)
  /\ Len(u) = Len(t) + 1
  /\ \A k \in 1..Len(t) : u[k] = t[k]
  /\ u[Len(t) + 1] = i

(* The place of j in u: that of i, or the one it had in t. *)
Numbered(t, u, i, j) ==
  /\ Place(u, j) = IF j = i THEN Len(t) + 1 ELSE Place(t, j)
  /\ j \in ToSet(u) <=> j = i \/ j \in ToSet(t)

(* An item that is stored is numbered after all others. *)
LEMMA PlaceAfterAppend ==
  ASSUME NEW t \in Seq(Item), IsInjective(t), NEW u \in Seq(Item), IsInjective(u),
         NEW i \in Item, Lengthened(t, u, i), NEW j \in Item
  PROVE  Numbered(t, u, i, j)
<1>1. PICK n \in Nat : n = Len(t) /\ Len(u) = n + 1 /\ u[n + 1] = i
  BY DEF Lengthened
<1>2. \A k \in 1..n : u[k] = t[k] /\ t[k] # i
  BY <1>1, InToSet DEF Lengthened
<1>3. j \in ToSet(t) <=> \E k \in 1..n : t[k] = j
  BY <1>1, InToSet
<1>4. j \in ToSet(u) <=> \E k \in 1..n + 1 : u[k] = j
  BY <1>1, InToSet
<1>5. \A k \in 1..n + 1 : u[k] = j => Place(u, j) = k
  BY <1>1, PlaceIs
<1>6. CASE j = i
  <2>1. n + 1 \in 1..n + 1 /\ u[n + 1] = j
    BY <1>1, <1>6
  <2>. QED  BY <1>1, <1>4, <1>5, <1>6, <2>1 DEF Numbered
<1>7. CASE j # i /\ j \in ToSet(t)
  <2>1. PICK k \in 1..n : t[k] = j
    BY <1>3, <1>7
  <2>2. Place(t, j) = k
    BY <1>1, <2>1, PlaceIs
  <2>3. k \in 1..n + 1 /\ u[k] = j
    BY <1>2, <2>1
  <2>. QED  BY <1>4, <1>5, <1>7, <2>2, <2>3 DEF Numbered
<1>8. CASE j # i /\ j \notin ToSet(t)
  <2>1. \A k \in 1..n + 1 : u[k] # j
    BY <1>1, <1>2, <1>3, <1>8
  <2>. QED  BY <1>4, <1>8, <2>1 DEF Place, Numbered
<1>. QED  BY <1>6, <1>7, <1>8

(* From L to M, one item is stored at m. *)
Stores(L, M, m) ==
  \E i \in Item : i \notin ToSet(L[m]) /\ M = [L EXCEPT ![m] = Append(@, i)]

(* A step stores at one relay at most, and moves watermarks of that one. *)
LEMMA OneRelayStores ==
  ASSUME Backed, [Next]_vars
  PROVE  \/ log' = log /\ mark' = mark
         \/ \E m \in Relay :
              /\ log' = log \/ Stores(log, log', m)
              /\ \A a \in Relay : a # m => mark'[a] = mark[a]
<1>1. ASSUME NEW n \in Relay, NEW i \in Item, Publish(n, i)
      PROVE  Stores(log, log', n) /\ mark' = mark
  BY <1>1 DEF Publish, Holds, Stores
<1>2. ASSUME NEW n \in Relay, NEW l \in Loop, Page(n, l)
      PROVE  /\ log' = log \/ Stores(log, log', n)
             /\ \A a \in Relay : a # n => mark'[a] = mark[a]
  <2>1. PICK s \in Pull : s = pull[n][l] /\ s # None
    BY <1>2, PullUnderWay DEF Backed, Page
  <2>2. /\ s.peer \in Relay /\ s.at \in Nat /\ s.latest \in Nat /\ s.at < s.latest
        /\ s.latest <= Len(log[s.peer])
    BY <1>2, <2>1 DEF Pull, Page, Backed, Pulled
  <2>3. log[s.peer] \in Seq(Item) /\ Len(log[s.peer]) \in Nat
    BY <2>2 DEF Backed, TypeOK
  <2>4. s.at + 1 \in 1..Len(log[s.peer])
    BY <2>2, <2>3
  <2>5. PICK i \in Item : i = log[s.peer][s.at + 1]
    BY <2>3, <2>4, ElementOfSeq
  <2>6. /\ log' = IF Holds(n, i) THEN log ELSE [log EXCEPT ![n] = Append(@, i)]
        /\ mark' = [mark EXCEPT ![n][s.peer] = s.at + 1]
    BY <1>2, <2>1, <2>5 DEF Page
  <2>7. mark \in [Relay -> [Relay -> Nat]]
    BY DEF Backed, TypeOK
  <2>. QED  BY <2>6, <2>7 DEF Holds, Stores
<1>3. ASSUME ~\E n \in Relay, i \in Item : Publish(n, i),
             ~\E n \in Relay, l \in Loop : Page(n, l)
      PROVE  log' = log /\ mark' = mark
  BY <1>3 DEF Next, vars, Signal, HangUp, Sending, Wake, Summary, Send, Poked, TakePoke,
     SkipPoke, Cooled, Crash, Arrival, Accept, Dismiss, Lose, Round, Pulling, Finish,
     PullFails
<1>. QED  BY <1>1, <1>2, <1>3

(* What lies up to a watermark is settled. *)
LEMMA HeldIsCovered ==
  ASSUME NEW L, Logs(L), NEW n \in Relay, NEW p \in Relay, NEW k, HeldTo(L, n, p, k),
         NEW i \in Item, Place(L[p], i) # 0, Place(L[p], i) <= k
  PROVE  i \in ToSet(L[n]) /\ i \in ToSet(L[p])
<1>1. L[p] \in Seq(Item) /\ IsInjective(L[p])
  BY DEF Logs
<1>2. PICK j \in 0..Len(L[p]) : j = Place(L[p], i)
  BY <1>1, PlaceIs
<1>3. k \in 0..Len(L[p])
  BY DEF HeldTo
<1>4. L[p][j] = i /\ j \in 1..k
  BY <1>1, <1>2, <1>3, PlaceIs
<1>. QED  BY <1>1, <1>2, <1>4, PlaceIs DEF HeldTo

(* What is appended to the log of p is a write of the promise. *)
LEMMA StoreIsWrite ==
  ASSUME Backed, Backed', NEW n \in Relay, NEW p \in Relay, n # p,
         Stores(log, log', p), mark'[n] = mark[n]
  PROVE  \E i \in Item : Promise(n, p)!Write(i, 1)
<1>1. PICK i \in Item : i \notin ToSet(log[p]) /\ log' = [log EXCEPT ![p] = Append(@, i)]
  BY DEF Stores
<1>2. PICK t : t = log[p]
  OBVIOUS
<1>3. PICK u : u = log'[p]
  OBVIOUS
<1>4. /\ log \in [Relay -> Seq(Item)] /\ \A r \in Relay : IsInjective(log[r])
      /\ log' \in [Relay -> Seq(Item)] /\ \A r \in Relay : IsInjective(log'[r])
  BY DEF Backed, TypeOK
<1>5. t \in Seq(Item) /\ IsInjective(t) /\ i \notin ToSet(t) /\ u = Append(t, i)
  BY <1>1, <1>2, <1>3, <1>4
<1>6. u \in Seq(Item) /\ IsInjective(u)
  BY <1>3, <1>4
<1>7. Lengthened(t, u, i)
  BY <1>5, AppendProperties DEF Lengthened
<1>8. \A j \in Item : Numbered(t, u, i, j)
  BY <1>5, <1>6, <1>7, PlaceAfterAppend
<1>9. log'[n] = log[n]
  BY <1>1, <1>4
<1>10. [j \in Item |-> Place(u, j)] = [[j \in Item |-> Place(t, j)] EXCEPT ![i] = Len(t) + 1]
  BY <1>8 DEF Numbered
<1>11. [j \in Item |-> IF j \in ToSet(u) THEN 1 ELSE 0] =
         [[j \in Item |-> IF j \in ToSet(t) THEN 1 ELSE 0] EXCEPT ![i] = 1]
  BY <1>8 DEF Numbered
<1>12. Promise(n, p)!Write(i, 1)
  BY <1>2, <1>3, <1>7, <1>9, <1>10, <1>11 DEF Promise!Write, Holds, Lengthened
<1>. QED  BY <1>12

(* What is appended elsewhere, and what is pulled, keeps it. *)
LEMMA OtherStepIsPull ==
  ASSUME Backed, Backed', NEW n \in Relay, NEW p \in Relay, NEW m \in Relay, m # p,
         log' = log \/ Stores(log, log', m)
  PROVE  Promise(n, p)!Pull
<1>1. log'[p] = log[p] /\ ToSet(log[n]) \subseteq ToSet(log'[n])
  <2>1. CASE log' = log
    BY <2>1
  <2>2. CASE Stores(log, log', m)
    <3>1. PICK i \in Item : i \notin ToSet(log[m]) /\ log' = [log EXCEPT ![m] = Append(@, i)]
      BY <2>2 DEF Stores
    <3>2. log \in [Relay -> Seq(Item)]
      BY DEF Backed, TypeOK
    <3>3. log'[p] = log[p] /\ (n # m => log'[n] = log[n])
      BY <3>1, <3>2
    <3>4. ASSUME n = m PROVE ToSet(log[n]) \subseteq ToSet(log'[n])
      <4>1. PICK t \in Seq(Item) : t = log[n]
        BY <3>2
      <4>2. PICK u : u = log'[n]
        OBVIOUS
      <4>3. u = Append(t, i)
        BY <3>1, <3>2, <3>4, <4>1, <4>2
      <4>4. u \in Seq(Item) /\ Len(u) = Len(t) + 1 /\ \A k \in 1..Len(t) : u[k] = t[k]
        BY <4>3, AppendProperties
      <4>5. \A e \in ToSet(t) : e \in ToSet(u)
        BY <4>4, InToSet, LenProperties
      <4>. QED  BY <4>1, <4>2, <4>5
    <3>. QED  BY <3>3, <3>4
  <2>. QED  BY <2>1, <2>2
<1>2. Logs(log') /\ HeldTo(log', n, p, mark'[n][p])
  BY DEF Backed, TypeOK, Logs, Marked
<1>3. mark'[n][p] \in 0..Len(log'[p])
  BY <1>2 DEF HeldTo
<1>4. \A i \in Item : Place(log'[p], i) # 0 /\ Place(log'[p], i) <= mark'[n][p]
        => i \in ToSet(log'[n]) /\ i \in ToSet(log'[p])
  BY <1>2, HeldIsCovered
<1>. QED  BY <1>1, <1>3, <1>4 DEF Promise!Pull, Promise!Covered, Holds

(* Every step of the mesh is one of the promise, or none. *)
LEMMA PromiseStep ==
  ASSUME Backed, Backed', [Next]_vars, NEW n \in Relay, NEW p \in Relay, n # p
  PROVE  [Promise(n, p)!Next]_(Promise(n, p)!vars)
<1>1. CASE log' = log
  <2>1. Promise(n, p)!Pull
    BY <1>1, OtherStepIsPull
  <2>. QED  BY <2>1 DEF Promise!Next
<1>2. ASSUME NEW m \in Relay, Stores(log, log', m),
             \A a \in Relay : a # m => mark'[a] = mark[a]
      PROVE  Promise(n, p)!Next
  <2>1. CASE m = p
    BY <1>2, <2>1, StoreIsWrite DEF Promise!Next
  <2>2. CASE m # p
    BY <1>2, <2>2, OtherStepIsPull DEF Promise!Next
  <2>. QED  BY <2>1, <2>2
<1>. QED  BY <1>1, <1>2, OneRelayStores

(* For each two relays of the mesh, what one pulls from the other is a      *)
(* behaviour of Watermark.                                                  *)
THEOREM PromiseKept ==
  ASSUME NEW n \in Relay, NEW p \in Relay, n # p
  PROVE  Spec => Promise(n, p)!Spec
<1>1. Init => Promise(n, p)!Init
  <2>1. Len(<<>>) = 0 /\ ToSet(<<>>) = {}
    BY DEF ToSet
  <2>2. \A i \in Item : Place(<<>>, i) = 0
    BY <2>1 DEF Place
  <2>. QED  BY <2>1, <2>2 DEF Init, Promise!Init, Holds
<1>. QED  BY <1>1, PromiseStep, BackedAlways, PTL DEF Spec, Promise!Spec
=============================================================================
