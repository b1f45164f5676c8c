-------------------------------- MODULE Mesh --------------------------------
(***************************************************************************)
(* Propagation between relays: the poke send loop, handle_poke, the poke   *)
(* sync loop and the interval loop of relay/src/sync.rs and http.rs, at    *)
(* several relays at once.                                                 *)
(*                                                                         *)
(* SyncPull has one pull in full; here a pull takes one record at a time   *)
(* from the peer's log.  An item is one content of one handle: a relay     *)
(* stores it once, and nothing is evicted or replaced.  Which peers are    *)
(* verified is PeerTable's business and stands still.                      *)
(***************************************************************************)
EXTENDS Naturals, Sequences, FiniteSets, SequencesExt

CONSTANTS
  Relay,       \* the relays of the mesh
  Verified,    \* relay -> live verified peers in its table
  Named,       \* relays configured with their own URL: only they poke
  Item,        \* what clients publish
  Entry,       \* relays that clients publish at
  MaxFailures, \* bound: pulls that err, clients that hang up, crashes
  None         \* no pull

ASSUME MeshAssumption ==
  /\ Verified \in [Relay -> SUBSET Relay]
  /\ \A n \in Relay : n \notin Verified[n]
  /\ Named \subseteq Relay /\ Entry \subseteq Relay
  /\ MaxFailures \in Nat

Loop == {"interval", "poke"}

VARIABLES
  log,       \* relay -> items it stored, in the order of sync_seq
  owing,     \* <<n, i>>: n stored i for a client and has not signalled it yet
  dirty,     \* relay -> whether the Notify poke_dirty holds a permit
  sender,    \* relay -> where run_poke_send_loop is
  claim,     \* relay -> the cursor its next pokes will carry
  pokes,     \* pokes under way
  queue,     \* relay -> peers to pull from: poke_sync_tx to poke_sync_rx
  cooling,   \* relay -> peers within poke_cooldown of their last pull
  mark,      \* relay -> peer -> watermark
  pull,      \* relay -> loop -> the pull it is at, or None
  failures   \* (bound) failures so far

vars == <<log, owing, dirty, sender, claim, pokes, queue, cooling, mark, pull, failures>>

Poke == [from : Relay, to : Relay, cursor : Nat]
Pull == [peer : Relay, at : Nat, latest : Nat, stored : BOOLEAN]

TypeOK ==
  /\ log \in [Relay -> Seq(Item)]
  /\ \A n \in Relay : IsInjective(log[n])
  /\ owing \subseteq Relay \X Item
  /\ dirty \in [Relay -> BOOLEAN]
  /\ sender \in [Relay -> {"waiting", "debounce", "sending"}]
  /\ claim \in [Relay -> Nat]
  /\ pokes \subseteq Poke
  /\ queue \in [Relay -> Seq(Relay)]
  /\ cooling \in [Relay -> SUBSET Relay]
  /\ mark \in [Relay -> [Relay -> Nat]]
  /\ pull \in [Relay -> [Loop -> Pull \cup {None}]]
  /\ failures \in 0..MaxFailures

Idle == [l \in Loop |-> None]

Init ==
  /\ log = [n \in Relay |-> <<>>]
  /\ owing = {}
  /\ dirty = [n \in Relay |-> FALSE]
  /\ sender = [n \in Relay |-> "waiting"]
  /\ claim = [n \in Relay |-> 0]
  /\ pokes = {}
  /\ queue = [n \in Relay |-> <<>>]
  /\ cooling = [n \in Relay |-> {}]
  /\ mark = [n \in Relay |-> [p \in Relay |-> 0]]
  /\ pull = [n \in Relay |-> Idle]
  /\ failures = 0

Holds(n, i) == i \in ToSet(log[n])
Fail == failures < MaxFailures /\ failures' = failures + 1

-----------------------------------------------------------------------------
(* A client publishes. *)

(* POST /message: the item is new and the blocking task stores it. *)
Publish(n, i) ==
  /\ n \in Entry
  /\ ~Holds(n, i)
  /\ log' = [log EXCEPT ![n] = Append(@, i)]
  /\ owing' = owing \cup {<<n, i>>}
  /\ UNCHANGED <<dirty, sender, claim, pokes, queue, cooling, mark, pull, failures>>

(* notify_one: a permit is left for the next wait; permits do not add up. *)
Notify(n) == dirty' = [dirty EXCEPT ![n] = TRUE]

Signal(n, i) ==
  /\ <<n, i>> \in owing
  /\ owing' = owing \ {<<n, i>>}
  /\ Notify(n)
  /\ UNCHANGED <<log, sender, claim, pokes, queue, cooling, mark, pull, failures>>

(* The client hangs up while the blocking task runs: the handler is dropped *)
(* at its await and the signal with it.                                     *)
HangUp(n, i) ==
  /\ <<n, i>> \in owing
  /\ Fail
  /\ owing' = owing \ {<<n, i>>}
  /\ UNCHANGED <<log, dirty, sender, claim, pokes, queue, cooling, mark, pull>>

-----------------------------------------------------------------------------
(* run_poke_send_loop. *)

Wake(n) ==
  /\ n \in Named
  /\ sender[n] = "waiting"
  /\ dirty[n]
  /\ dirty' = [dirty EXCEPT ![n] = FALSE]
  /\ sender' = [sender EXCEPT ![n] = "debounce"]
  /\ UNCHANGED <<log, owing, claim, pokes, queue, cooling, mark, pull, failures>>

(* The debounce is over: the summary is read. *)
Summary(n) ==
  /\ sender[n] = "debounce"
  /\ claim' = [claim EXCEPT ![n] = Len(log[n])]
  /\ sender' = [sender EXCEPT ![n] = "sending"]
  /\ UNCHANGED <<log, owing, dirty, pokes, queue, cooling, mark, pull, failures>>

(* The table's lock is obtained: one poke for each live verified peer. *)
Send(n) ==
  /\ sender[n] = "sending"
  /\ pokes' = pokes \cup {[from |-> n, to |-> p, cursor |-> claim[n]] : p \in Verified[n]}
  /\ claim' = [claim EXCEPT ![n] = 0]
  /\ sender' = [sender EXCEPT ![n] = "waiting"]
  /\ UNCHANGED <<log, owing, dirty, queue, cooling, mark, pull, failures>>

-----------------------------------------------------------------------------
(* handle_poke. *)

(* The claim is beyond our watermark for the peer. *)
News(m) == m.cursor > mark[m.to][m.from]

(* Faulty: the claim itself moves the watermark. *)
FaultyAccept(m) ==
  /\ m \in pokes
  /\ m.from \in Verified[m.to]
  /\ News(m)
  /\ pokes' = pokes \ {m}
  /\ queue' = [queue EXCEPT ![m.to] = Append(@, m.from)]
  /\ mark' = [mark EXCEPT ![m.to][m.from] = m.cursor]
  /\ UNCHANGED <<log, owing, dirty, sender, claim, cooling, pull, failures>>

(* The peer is queued for a pull; the watermark waits for real pages. *)
Accept(m) ==
  /\ m \in pokes
  /\ m.from \in Verified[m.to]
  /\ News(m)
  /\ pokes' = pokes \ {m}
  /\ queue' = [queue EXCEPT ![m.to] = Append(@, m.from)]
  /\ UNCHANGED <<log, owing, dirty, sender, claim, cooling, mark, pull, failures>>

(* Nothing new is claimed. *)
Dismiss(m) ==
  /\ m \in pokes
  /\ m.from \in Verified[m.to]
  /\ ~News(m)
  /\ pokes' = pokes \ {m}
  /\ UNCHANGED <<log, owing, dirty, sender, claim, queue, cooling, mark, pull, failures>>

(* The poke is lost, rate limited, or its sender not verified here. *)
Lose(m) ==
  /\ m \in pokes
  /\ pokes' = pokes \ {m}
  /\ UNCHANGED <<log, owing, dirty, sender, claim, queue, cooling, mark, pull, failures>>

-----------------------------------------------------------------------------
(* The loops that pull. *)

(* sync_with_peer reads our watermark and the peer's summary. *)
Begin(n, l, p) ==
  pull' = [pull EXCEPT ![n][l] =
             [peer |-> p, at |-> mark[n][p], latest |-> Len(log[p]), stored |-> FALSE]]

(* run_poke_sync_loop takes a peer off its queue, and pulls. *)
TakePoke(n) ==
  /\ pull[n]["poke"] = None
  /\ queue[n] # <<>>
  /\ Head(queue[n]) \notin cooling[n]
  /\ queue' = [queue EXCEPT ![n] = Tail(@)]
  /\ cooling' = [cooling EXCEPT ![n] = @ \cup {Head(queue[n])}]
  /\ Begin(n, "poke", Head(queue[n]))
  /\ UNCHANGED <<log, owing, dirty, sender, claim, pokes, mark, failures>>

(* It pulled from that peer just before: the poke is dropped. *)
SkipPoke(n) ==
  /\ pull[n]["poke"] = None
  /\ queue[n] # <<>>
  /\ Head(queue[n]) \in cooling[n]
  /\ queue' = [queue EXCEPT ![n] = Tail(@)]
  /\ UNCHANGED <<log, owing, dirty, sender, claim, pokes, cooling, mark, pull, failures>>

Cooled(n) ==
  /\ cooling[n] # {}
  /\ \E p \in cooling[n] : cooling' = [cooling EXCEPT ![n] = @ \ {p}]
  /\ UNCHANGED <<log, owing, dirty, sender, claim, pokes, queue, mark, pull, failures>>

(* sync_round picks a peer, which may have nothing new. *)
Round(n, p) ==
  /\ pull[n]["interval"] = None
  /\ p \in Verified[n]
  /\ Begin(n, "interval", p)
  /\ UNCHANGED <<log, owing, dirty, sender, claim, pokes, queue, cooling, mark, failures>>

(* Faulty: what a page holds is stored again although it is here already. *)
FaultyPage(n, l) ==
  /\ pull[n][l] # None
  /\ LET s == pull[n][l]
     IN /\ s.at < s.latest
        /\ log' = [log EXCEPT ![n] = Append(@, log[s.peer][s.at + 1])]
        /\ mark' = [mark EXCEPT ![n][s.peer] = s.at + 1]
        /\ pull' = [pull EXCEPT ![n][l] = [s EXCEPT !.at = @ + 1, !.stored = TRUE]]
  /\ UNCHANGED <<owing, dirty, sender, claim, pokes, queue, cooling, failures>>

(* A page is pulled, stored unless we hold it, and the watermark moved. *)
Page(n, l) ==
  /\ pull[n][l] # None
  /\ LET s == pull[n][l]
         i == log[s.peer][s.at + 1]
     IN /\ s.at < s.latest
        /\ log' = IF Holds(n, i) THEN log ELSE [log EXCEPT ![n] = Append(@, i)]
        /\ mark' = [mark EXCEPT ![n][s.peer] = s.at + 1]
        /\ pull' = [pull EXCEPT ![n][l] =
             [s EXCEPT !.at = @ + 1, !.stored = @ \/ ~Holds(n, i)]]
  /\ UNCHANGED <<owing, dirty, sender, claim, pokes, queue, cooling, failures>>

(* Faulty: every pull that ends well counts as news for the others. *)
FaultyWorthTelling(s) == TRUE

WorthTelling(s) == s.stored

(* The pull ends well; what it stored is news for our own peers. *)
Finish(n, l) ==
  /\ pull[n][l] # None
  /\ pull[n][l].at >= pull[n][l].latest
  /\ IF WorthTelling(pull[n][l]) THEN Notify(n) ELSE UNCHANGED dirty
  /\ pull' = [pull EXCEPT ![n][l] = None]
  /\ UNCHANGED <<log, owing, sender, claim, pokes, queue, cooling, mark, failures>>

(* Faulty: the watermark is moved to the summary's cursor on the way out. *)
FaultyPullFails(n, l) ==
  /\ pull[n][l] # None
  /\ Fail
  /\ mark' = [mark EXCEPT ![n][pull[n][l].peer] = pull[n][l].latest]
  /\ pull' = [pull EXCEPT ![n][l] = None]
  /\ UNCHANGED <<log, owing, dirty, sender, claim, pokes, queue, cooling>>

(* A request fails after some pages: the pull ends with an error. *)
PullFails(n, l) ==
  /\ pull[n][l] # None
  /\ Fail
  /\ pull' = [pull EXCEPT ![n][l] = None]
  /\ UNCHANGED <<log, owing, dirty, sender, claim, pokes, queue, cooling, mark>>

(* A relay restarts: the store and its watermarks are all that is left. *)
Crash(n) ==
  /\ Fail
  /\ owing' = {o \in owing : o[1] # n}
  /\ dirty' = [dirty EXCEPT ![n] = FALSE]
  /\ sender' = [sender EXCEPT ![n] = "waiting"]
  /\ claim' = [claim EXCEPT ![n] = 0]
  /\ queue' = [queue EXCEPT ![n] = <<>>]
  /\ cooling' = [cooling EXCEPT ![n] = {}]
  /\ pull' = [pull EXCEPT ![n] = Idle]
  /\ UNCHANGED <<log, pokes, mark>>

Sending(n)   == Wake(n) \/ Summary(n) \/ Send(n)
Arrival(m)   == Accept(m) \/ Dismiss(m)
Poked(n)     == TakePoke(n) \/ SkipPoke(n)
Pulling(n, l) == Page(n, l) \/ Finish(n, l)

Next ==
  \/ \E n \in Relay, i \in Item : Publish(n, i) \/ Signal(n, i) \/ HangUp(n, i)
  \/ \E n \in Relay : Sending(n) \/ Poked(n) \/ Cooled(n) \/ Crash(n)
  \/ \E m \in pokes : Arrival(m) \/ Lose(m)
  \/ \E n, p \in Relay : Round(n, p)
  \/ \E n \in Relay, l \in Loop : Pulling(n, l) \/ PullFails(n, l)

Spec == Init /\ [][Next]_vars

-----------------------------------------------------------------------------
(* Properties. *)

(* Scheduling: the loops run for ever, a request is answered or fails, time *)
(* passes.  A round picks its peers at random: each gets its turn.          *)
Fairness ==
  /\ \A n \in Relay :
       /\ WF_vars(Sending(n)) /\ WF_vars(Poked(n)) /\ WF_vars(Cooled(n))
       /\ \A i \in Item : WF_vars(Signal(n, i))
       /\ \A p \in Relay : SF_vars(Round(n, p))
       /\ \A l \in Loop : WF_vars(Pulling(n, l))
  /\ WF_vars(\E m \in pokes : Arrival(m) \/ Lose(m))

LiveSpec == Spec /\ Fairness

(* A poke is dropped as old news only if all it claims is here already:     *)
(* cursors of one relay are only ever compared with the watermark kept for  *)
(* that relay, which moves with real pages only (http.rs:652-663).          *)
DismissedIsHeld ==
  [][\A m \in pokes :
       Dismiss(m) => ToSet(SubSeq(log[m.from], 1, m.cursor)) \subseteq ToSet(log[m.to])]_vars

(* What one relay stores reaches every relay that verifies a path to it, in *)
(* spite of lost and dropped pokes, failed pulls and crashes (sync.rs:240,  *)
(* "a lost poke is recovered by the interval loop").                        *)
Spreads ==
  \A n, p \in Relay, i \in Item : n \in Verified[p] => (Holds(n, i) ~> Holds(p, i))

(* Pokes die out: only what a pull newly stored is told to others, so that  *)
(* peers which get back from each other what they hold fall silent, though  *)
(* they go on pulling for ever (sync.rs:116-120, 278-283).                  *)
DiesOut == <>[](pokes = {} /\ \A n \in Relay : queue[n] = <<>> /\ (n \in Named => ~dirty[n]))
=============================================================================
