----------------------------- MODULE Retention -----------------------------
(***************************************************************************)
(* Storage retention (relay/src/retention.rs) over the accounting triggers *)
(* of relay/src/store.rs: the sweep that evicts under a byte budget, and   *)
(* the admission gate in front of messages.                                *)
(*                                                                         *)
(* The sweep makes one store call at a time; messages are stored between   *)
(* its calls, and between the gate's decision and the store's.  A space is *)
(* named by its root handle.                                               *)
(***************************************************************************)
EXTENDS Naturals, FiniteSets, FiniteSetsExt

CONSTANTS
  Handle,       \* handles, roots and sub-handles
  SpaceOf,      \* handle -> root handle of its space
  Epoch,        \* heights of commitments
  Size,         \* bytes of a row: certificate and zone
  Writer,       \* messages being handled at once
  Budget,       \* max_storage_bytes
  LowWater,     \* max_storage_bytes * low_water_pct / 100
  Entitlement,  \* entitlement_per_epoch
  Batch,        \* eviction_batch
  MaxBatches,   \* max_batches_per_sweep
  None          \* no message, no victim

ASSUME RetentionAssumption ==
  /\ SpaceOf \in [Handle -> Handle]
  /\ \A h \in Handle : SpaceOf[SpaceOf[h]] = SpaceOf[h]
  /\ Epoch \subseteq Nat /\ Size \subseteq Nat
  /\ Budget \in Nat \ {0} /\ LowWater \in 0..Budget
  /\ Entitlement \in Nat \ {0}      \* settings.rs:227
  /\ Batch \in Nat \ {0} /\ MaxBatches \in Nat \ {0}

VARIABLES
  rows,       \* handle -> [epoch, size] of its row; only stored handles
  older,      \* <<g, h>>: g was updated before h, both stored
  counts,     \* space_epoch_counts: <<space, epoch>> -> handles
  bytes,      \* storage_totals.bytes
  hot,        \* sub-handles QueryHeat remembers as queried
  incoming,   \* writer -> [handle, epoch, size, gated], or None
  phase,      \* what the sweep does next
  evicted,    \* whether this sweep has evicted anything
  batches,    \* iterations of this sweep so far
  exhausted,  \* spaces without candidates in this sweep
  victim,     \* the space chosen, or None
  chosen      \* the handles chosen for deletion

storage == <<rows, older, counts, bytes>>
sweep   == <<phase, evicted, batches, exhausted, victim, chosen>>
vars    == <<storage, hot, incoming, sweep>>

Spaces == {SpaceOf[h] : h \in Handle}
Row    == [epoch : Epoch, size : Size]
Stored == DOMAIN rows

(* The relations that put S in an order. *)
Ordering(S, R) ==
  /\ R \subseteq S \X S
  /\ \A g, h \in S : <<g, h>> \in R <=> g # h /\ <<h, g>> \notin R
  /\ \A f, g, h \in S : <<f, g>> \in R /\ <<g, h>> \in R => <<f, h>> \in R

TypeOK ==
  /\ Stored \subseteq Handle /\ rows \in [Stored -> Row]
  /\ Ordering(Stored, older)
  /\ DOMAIN counts \subseteq Spaces \X Epoch
  /\ \A b \in DOMAIN counts : counts[b] \in Nat
  /\ bytes \in Nat
  /\ hot \subseteq Handle \ Spaces
  /\ phase \in {"idle", "check", "pick", "candidates", "delete"}
  /\ evicted \in BOOLEAN
  /\ batches \in 0..MaxBatches
  /\ exhausted \subseteq Spaces
  /\ victim \in Spaces \cup {None}
  /\ chosen \subseteq Handle

Init ==
  /\ rows = [h \in {} |-> 0]
  /\ older = {}
  /\ counts = [b \in {} |-> 0]
  /\ bytes = 0
  /\ hot = {}
  /\ incoming = [w \in Writer |-> None]
  /\ phase = "idle"
  /\ evicted = FALSE
  /\ batches = 0
  /\ exhausted = {}
  /\ victim = None
  /\ chosen = {}

-----------------------------------------------------------------------------
(* Accounting. *)

(* space_usage: rows of a space, and epochs it was ever seen in. *)
StoredIn(sp) == MapThenSumSet(LAMBDA e : counts[<<sp, e>>],
                              {e \in Epoch : <<sp, e>> \in DOMAIN counts})
Epochs(sp) == Cardinality({e \in Epoch : <<sp, e>> \in DOMAIN counts})

Paid(sp) == (IF Epochs(sp) = 0 THEN 1 ELSE Epochs(sp)) * Entitlement
OverEntitled(sp) == StoredIn(sp) > Paid(sp)

(* Faulty: a bucket goes with its last row. *)
FaultyCountsWithout(gone) ==
  LET left(b) == counts[b] - Cardinality({h \in gone : SpaceOf[h] = b[1] /\ rows[h].epoch = b[2]})
  IN [b \in {x \in DOMAIN counts : left(x) > 0} |-> left(b)]

(* The delete trigger, for the rows of gone: a bucket stays at zero. *)
CountsWithout(gone) ==
  [b \in DOMAIN counts |->
     counts[b] - Cardinality({h \in gone : SpaceOf[h] = b[1] /\ rows[h].epoch = b[2]})]

(* Every byte of the rows of S, as a row and a place in it. *)
Payload(S) == UNION {{h} \X (1..rows[h].size) : h \in S}
BytesOf(S) == Cardinality(Payload(S))

(* The insert trigger. *)
Counted(c, b) == [x \in DOMAIN c \cup {b} |->
                    (IF x \in DOMAIN c THEN c[x] ELSE 0) + (IF x = b THEN 1 ELSE 0)]

(* The order of the rows once h is the youngest. *)
Younger(h) == LET rest == Stored \ {h}
              IN (older \cap (rest \X rest)) \cup (rest \X {h})

(* Faulty: REPLACE does not fire the delete trigger. *)
FaultyWrite(h, e, z) ==
  /\ rows' = [x \in Stored \cup {h} |->
                IF x = h THEN [epoch |-> e, size |-> z] ELSE rows[x]]
  /\ older' = Younger(h)
  /\ counts' = Counted(counts, <<SpaceOf[h], e>>)
  /\ bytes' = bytes + z

(* INSERT OR REPLACE: the displaced row fires the delete trigger.           *)
Write(h, e, z) ==
  LET displaced == {h} \cap Stored
  IN /\ rows' = [x \in Stored \cup {h} |->
                   IF x = h THEN [epoch |-> e, size |-> z] ELSE rows[x]]
     /\ older' = Younger(h)
     /\ counts' = Counted(CountsWithout(displaced), <<SpaceOf[h], e>>)
     /\ bytes' = bytes + z - BytesOf(displaced)

-----------------------------------------------------------------------------
(* Messages. *)

(* first_insert_gated, before the message is verified. *)
Gated(sp) == bytes > Budget /\ OverEntitled(sp)

(* A message arrives for h.  Nothing says that the root of its space is     *)
(* stored: the store may have refused it.                                   *)
Receive(w, h, e, z) ==
  /\ incoming[w] = None
  /\ incoming' = [incoming EXCEPT ![w] =
       [handle |-> h, epoch |-> e, size |-> z, gated |-> Gated(SpaceOf[h])]]
  /\ UNCHANGED <<storage, hot, sweep>>

(* It is verified.  The gate applies to handles that have no row by then. *)
Refused(w) ==
  /\ incoming[w] # None
  /\ incoming[w].gated
  /\ incoming[w].handle \notin Stored
  /\ incoming' = [incoming EXCEPT ![w] = None]
  /\ UNCHANGED <<storage, hot, sweep>>

Admitted(w) ==
  /\ incoming[w] # None
  /\ ~incoming[w].gated \/ incoming[w].handle \in Stored
  /\ Write(incoming[w].handle, incoming[w].epoch, incoming[w].size)
  /\ incoming' = [incoming EXCEPT ![w] = None]
  /\ UNCHANGED <<hot, sweep>>

(* A query touches h.  QueryHeat holds two generations of bounded size:     *)
(* which of the others it still remembers is left open.  A root is never a  *)
(* candidate: whether it is hot does not matter.                            *)
Query(h) ==
  /\ h \in Stored
  /\ \E kept \in SUBSET hot : hot' = (kept \cup {h}) \ Spaces
  /\ UNCHANGED <<storage, incoming, sweep>>

-----------------------------------------------------------------------------
(* A sweep. *)

SweepDone ==
  /\ phase' = "idle"
  /\ evicted' = FALSE
  /\ batches' = 0
  /\ exhausted' = {}
  /\ victim' = None
  /\ chosen' = {}

SweepBegin ==
  /\ phase = "idle"
  /\ phase' = "check"
  /\ UNCHANGED <<storage, hot, incoming, evicted, batches, exhausted, victim, chosen>>

(* Evicting starts above the budget and goes on down to the low-water mark. *)
Threshold == IF evicted THEN LowWater ELSE Budget

(* Faulty: the batches are counted on from sweep to sweep. *)
FaultySweepEnough ==
  /\ phase = "check"
  /\ bytes <= Threshold \/ batches = MaxBatches
  /\ phase' = "idle"
  /\ evicted' = FALSE
  /\ exhausted' = {}
  /\ victim' = None
  /\ chosen' = {}
  /\ UNCHANGED <<storage, hot, incoming, batches>>

SweepEnough ==
  /\ phase = "check"
  /\ bytes <= Threshold \/ batches = MaxBatches
  /\ SweepDone
  /\ UNCHANGED <<storage, hot, incoming>>

(* Faulty: one batch too many. *)
GreedySweepCheck ==
  /\ phase = "check"
  /\ bytes > Threshold
  /\ phase' = "pick"
  /\ batches' = batches + 1
  /\ UNCHANGED <<storage, hot, incoming, evicted, exhausted, victim, chosen>>

SweepCheck ==
  /\ phase = "check"
  /\ bytes > Threshold /\ batches < MaxBatches
  /\ phase' = "pick"
  /\ batches' = batches + 1
  /\ UNCHANGED <<storage, hot, incoming, evicted, exhausted, victim, chosen>>

Usage == {sp \in Spaces \ exhausted : StoredIn(sp) > 0}

(* The space with the worst ratio of rows to entitlement, if one is over    *)
(* it, else the largest.                                                    *)
Victims ==
  LET over == {sp \in Usage : OverEntitled(sp)}
  IN IF over # {}
       THEN {sp \in over : \A o \in over :
               StoredIn(sp) * Paid(o) >= StoredIn(o) * Paid(sp)}
       ELSE {sp \in Usage : \A o \in Usage : StoredIn(sp) >= StoredIn(o)}

SweepPick ==
  /\ phase = "pick"
  /\ victim' \in Victims
  /\ phase' = "candidates"
  /\ UNCHANGED <<storage, hot, incoming, evicted, batches, exhausted, chosen>>

SweepNoVictim ==
  /\ phase = "pick"
  /\ Usage = {}
  /\ SweepDone
  /\ UNCHANGED <<storage, hot, incoming>>

(* The n of S that were updated longest ago. *)
Oldest(S, n) == {h \in S : Cardinality({g \in S : <<g, h>> \in older}) < n}

(* Faulty: the root is a candidate like any other row. *)
FaultyCandidates == Oldest({h \in Stored : SpaceOf[h] = victim}, 2 * Batch)

(* eviction_candidates: sub-handles of the victim, the oldest rows first. *)
Candidates == Oldest({h \in Stored : SpaceOf[h] = victim /\ h # victim}, 2 * Batch)

SweepExhausted ==
  /\ phase = "candidates"
  /\ Candidates = {}
  /\ exhausted' = exhausted \cup {victim}
  /\ victim' = None
  /\ phase' = "check"
  /\ UNCHANGED <<storage, hot, incoming, evicted, batches, chosen>>

(* Cold candidates first; if none is cold, whatever is oldest. *)
SweepChoose ==
  /\ phase = "candidates"
  /\ Candidates # {}
  /\ LET cold == Candidates \ hot
     IN chosen' = Oldest(IF cold = {} THEN Candidates ELSE cold, Batch)
  /\ phase' = "delete"
  /\ UNCHANGED <<storage, hot, incoming, evicted, batches, exhausted, victim>>

(* delete_handles.  Only the sweep deletes, so what it chose is still there. *)
SweepDelete ==
  /\ phase = "delete"
  /\ rows' = [h \in Stored \ chosen |-> rows[h]]
  /\ older' = older \cap ((Stored \ chosen) \X (Stored \ chosen))
  /\ counts' = CountsWithout(chosen)
  /\ bytes' = bytes - BytesOf(chosen)
  /\ evicted' = TRUE
  /\ victim' = None
  /\ chosen' = {}
  /\ phase' = "check"
  /\ UNCHANGED <<hot, incoming, batches, exhausted>>

(* A store call fails, or the relay restarts. *)
SweepFails ==
  /\ phase # "idle"
  /\ SweepDone
  /\ UNCHANGED <<storage, hot, incoming>>

Message(w) ==
  \/ \E h \in Handle, e \in Epoch, z \in Size : Receive(w, h, e, z)
  \/ Refused(w)
  \/ Admitted(w)

Sweep ==
  \/ SweepBegin
  \/ SweepEnough
  \/ SweepCheck
  \/ SweepPick
  \/ SweepNoVictim
  \/ SweepExhausted
  \/ SweepChoose
  \/ SweepDelete

Next ==
  \/ \E w \in Writer : Message(w)
  \/ \E h \in Handle : Query(h)
  \/ Sweep
  \/ SweepFails

Spec == Init /\ [][Next]_vars

-----------------------------------------------------------------------------
(* Properties. *)

BytesTrue  == bytes = BytesOf(Stored)

Bucket(b)  == {h \in Stored : SpaceOf[h] = b[1] /\ rows[h].epoch = b[2]}
CountsTrue ==
  /\ \A b \in DOMAIN counts : counts[b] = Cardinality(Bucket(b))
  /\ \A h \in Stored : <<SpaceOf[h], rows[h].epoch>> \in DOMAIN counts

(* What the triggers keep is true after every mixture of inserts,           *)
(* replacements that move a row to another epoch or size, and evictions     *)
(* (store.rs:108-123, 212-214, "or the storage accounting drifts").         *)
AccountingTrue == BytesTrue /\ CountsTrue

(* A space never loses entitlement, above all not by being evicted from     *)
(* (store.rs:89-92, "otherwise eviction would shrink entitlement and        *)
(* spiral").                                                                *)
EntitlementKept == [][\A sp \in Spaces : Epochs(sp) <= Epochs(sp)']_vars

(* No sweep ever makes a space unverifiable: a root once stored stays,      *)
(* whichever space is the victim and however little it has (store.rs:619-   *)
(* 622, "without it every remaining sub-handle becomes unresolvable").      *)
RootsKept == [][Stored \cap Spaces \subseteq Stored']_vars

(* Scheduling: the ticker of run_retention_loop never ends, and a message   *)
(* that was received is handled.                                            *)
Fairness == WF_vars(Sweep) /\ \A w \in Writer : WF_vars(Refused(w) \/ Admitted(w))

(* In the end no message comes and no store call fails; queries go on. *)
Quiet == <>[][\/ \E w \in Writer : Refused(w) \/ Admitted(w)
              \/ \E h \in Handle : Query(h)
              \/ Sweep]_vars

LiveSpec == Spec /\ Fairness /\ Quiet

(* Pressure is always relieved: in the end the payload is within the budget *)
(* or only roots are left, however hot the rows are, whatever sweeps were   *)
(* cut short, and though spaces with nothing to give are picked first       *)
(* (retention.rs:127-129, 178-180, "never stalling").  A sweep has at least *)
(* as many batches as there are spaces here: it forgets which it exhausted. *)
PressureRelieved == <>[](bytes <= Budget \/ Stored \subseteq Spaces)
=============================================================================
