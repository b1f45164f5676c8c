---------------------------- MODULE HandleStore ----------------------------
(***************************************************************************)
(* One handle in the store, and the messages that update it:               *)
(* handle_message_opts of relay/src/handler.rs over update_handles,        *)
(* set_revs, set_addrs and delete_handles of relay/src/store.rs.           *)
(*                                                                         *)
(* Each store call is a transaction under the connection's mutex, and a    *)
(* message makes several of them: up to VERIFY_CONCURRENCY messages of     *)
(* clients, the loops that pull and the retention sweep interleave between *)
(* them.  A message carries one certificate with its zone for the handle,  *)
(* already verified.  Owner records are named by their seq, a timestamp;   *)
(* 0 stands for no records.                                                *)
(***************************************************************************)
EXTENDS Naturals

CONSTANTS
  SubZones,   \* zones messages may carry for the handle, if a sub-handle
  RootZones,  \* zones messages may carry for it, if the root of its space
  Addressed,  \* records (by seq) with an Addr entry
  Primary,    \* records (by seq) signed with SIG_PRIMARY_ZONE
  Handler,    \* messages being handled at once
  Skew,       \* how far in the future a seq may lie (6 h)
  MaxClock,   \* bound: how long time passes
  Pressure    \* whether storage pressure may gate the handle's space

(* key: script_pubkey; epoch: height of the space's commitment; final: the  *)
(* sovereignty rank; receipt: the certificate carries a ZK receipt, which   *)
(* only a root's does, for its commitment.  A key of 0 is that of no row.   *)
ASSUME HandleStoreAssumption ==
  /\ SubZones \cup RootZones \subseteq
       [key : Nat \ {0}, epoch : Nat, anchor : Nat, final : 0..2, recs : Nat,
        receipt : BOOLEAN]
  /\ \A z \in SubZones \cup RootZones :
       z.receipt => z \notin SubZones /\ z.epoch # 0
  /\ Pressure \in BOOLEAN
  /\ Skew \in Nat /\ MaxClock \in Nat

VARIABLES
  isRoot,   \* whether the handle is the root of its space; it stays so
  row,      \* the row of the handle, a zone, or NoRow
  reverse,  \* name the handle's num_id maps to, by the seq of its records, or 0
  addrs,    \* records whose addresses the index holds for the handle, or 0
  clock,    \* the store's clock
  pc,       \* handler -> which store call is next
  msg       \* handler -> the zone its message carries, NoRow when idle

vars == <<isRoot, row, reverse, addrs, clock, pc, msg>>

Zones == IF isRoot THEN RootZones ELSE SubZones

NoRow == [key |-> 0, epoch |-> 0, anchor |-> 0, final |-> 0, recs |-> 0,
          receipt |-> FALSE]

TypeOK ==
  /\ isRoot \in BOOLEAN
  /\ row \in [key : Nat, epoch : Nat, anchor : Nat, final : 0..2,
              recs : Nat, receipt : BOOLEAN]
  /\ reverse \in Nat
  /\ addrs \in Nat
  /\ clock \in Nat
  /\ pc \in [Handler -> {"idle", "update", "revs", "revs+addrs", "addrs"}]
  /\ msg \in [Handler -> Zones \cup {NoRow}]
  /\ \A p \in Handler : pc[p] = "idle" <=> msg[p] = NoRow

Init ==
  /\ isRoot \in BOOLEAN
  /\ row = NoRow
  /\ reverse = 0
  /\ addrs = 0
  /\ clock = 0
  /\ pc = [p \in Handler |-> "idle"]
  /\ msg = [p \in Handler |-> NoRow]

-----------------------------------------------------------------------------
(* The rules of update_handles. *)

Commitment(z) == IF isRoot THEN z.epoch ELSE 0

(* Zone::is_better_than of libveritas, as update_handles and its tests      *)
(* describe it: commitment, then records, then anchor.                      *)
Better(z, old) ==
  \/ Commitment(z) > Commitment(old)
  \/ /\ Commitment(z) = Commitment(old)
     /\ z.recs > old.recs \/ (z.recs = old.recs /\ z.anchor > old.anchor)

FresherProof(z, old) ==
  /\ z.key = old.key
  /\ z.anchor > old.anchor
  /\ z.final >= old.final

(* Faulty: the skew is granted twice. *)
FaultyTooFarAhead(z) == z.recs > clock + 2 * Skew

TooFarAhead(z) == z.recs > clock + Skew

(* Faulty: only a better zone is accepted. *)
FaultyAccepts(z) == ~TooFarAhead(z) /\ (row = NoRow \/ Better(z, row))

Accepts(z) ==
  /\ ~TooFarAhead(z)
  /\ row = NoRow \/ FresherProof(z, row) \/ Better(z, row)

(* Faulty: older records of an update take the place of newer ones. *)
FaultyKeepsRecords(z, old) == old.key = z.key /\ old.recs # 0 /\ z.recs = 0

(* Faulty: the records outlive a transfer to another key. *)
KeepsAnyRecords(z, old) == old.recs # 0 /\ z.recs = 0

(* The stored records stay when the same key still controls the handle and  *)
(* the update has none or older ones.                                       *)
KeepsRecords(z, old) ==
  /\ old.key = z.key
  /\ old.recs # 0
  /\ z.recs = 0 \/ old.recs > z.recs

(* The stored certificate stays, with its receipt, when a root is sent      *)
(* again without one for the same commitment.                               *)
KeepsReceipt(z, old) ==
  isRoot /\ ~z.receipt /\ z.epoch # 0 /\ z.epoch = old.epoch

(* Faulty: the certificate is replaced with the zone. *)
FaultyMerge(z, old) ==
  [z EXCEPT !.recs = IF KeepsRecords(z, old) THEN old.recs ELSE @]

Merge(z, old) ==
  [z EXCEPT !.recs    = IF KeepsRecords(z, old) THEN old.recs ELSE @,
            !.receipt = IF KeepsReceipt(z, old) THEN old.receipt ELSE @]

-----------------------------------------------------------------------------
(* A message. *)

(* Why handle_message_opts leaves the handle alone: a duplicate, a first    *)
(* insert under storage pressure, or a replacement at the same or a lower   *)
(* epoch over the rate limits.                                              *)
Duplicate(z)    == row # NoRow /\ [z EXCEPT !.receipt = row.receipt] = row
MayBeGated      == row = NoRow /\ Pressure
MayBeLimited(z) == row # NoRow /\ z.epoch <= row.epoch

(* The message verifies; the hints of stored rows are read and the handle   *)
(* is kept for update_handles or left out.                                  *)
ReceiveKept(p, z) ==
  /\ pc[p] = "idle"
  /\ ~Duplicate(z)
  /\ pc' = [pc EXCEPT ![p] = "update"]
  /\ msg' = [msg EXCEPT ![p] = z]
  /\ UNCHANGED <<isRoot, row, reverse, addrs, clock>>

ReceiveLeftOut(p, z) ==
  /\ pc[p] = "idle"
  /\ Duplicate(z) \/ MayBeGated \/ MayBeLimited(z)
  /\ pc' = [pc EXCEPT ![p] = "revs"]
  /\ msg' = [msg EXCEPT ![p] = z]
  /\ UNCHANGED <<isRoot, row, reverse, addrs, clock>>

(* update_handles: one transaction. *)
UpdateStored(p) ==
  /\ pc[p] = "update"
  /\ Accepts(msg[p])
  /\ row' = IF row = NoRow THEN msg[p] ELSE Merge(msg[p], row)
  /\ pc' = [pc EXCEPT ![p] = "revs+addrs"]
  /\ UNCHANGED <<isRoot, reverse, addrs, clock, msg>>

UpdateSkipped(p) ==
  /\ pc[p] = "update"
  /\ ~Accepts(msg[p])
  /\ pc' = [pc EXCEPT ![p] = "revs"]
  /\ UNCHANGED <<isRoot, row, reverse, addrs, clock, msg>>

(* Faulty: a message without a reverse name ends before its addresses. *)
FaultySetRevs(p) ==
  /\ pc[p] \in {"revs", "revs+addrs"}
  /\ reverse' = IF msg[p].recs \in Primary THEN msg[p].recs ELSE reverse
  /\ pc' = [pc EXCEPT ![p] = IF msg[p].recs \in Primary THEN "addrs" ELSE "idle"]
  /\ UNCHANGED <<isRoot, row, addrs, clock, msg>>

(* set_revs, for every certificate of the message that names its zone. *)
SetRevs(p) ==
  /\ pc[p] \in {"revs", "revs+addrs"}
  /\ reverse' = IF msg[p].recs \in Primary THEN msg[p].recs ELSE reverse
  /\ IF pc[p] = "revs+addrs"
       THEN /\ pc' = [pc EXCEPT ![p] = "addrs"]
            /\ UNCHANGED msg
       ELSE /\ pc' = [pc EXCEPT ![p] = "idle"]
            /\ msg' = [msg EXCEPT ![p] = NoRow]
  /\ UNCHANGED <<isRoot, row, addrs, clock>>

(* set_addrs, for a stored handle whose message has addresses. *)
SetAddrs(p) ==
  /\ pc[p] = "addrs"
  /\ addrs' = IF msg[p].recs \in Addressed THEN msg[p].recs ELSE addrs
  /\ pc' = [pc EXCEPT ![p] = "idle"]
  /\ msg' = [msg EXCEPT ![p] = NoRow]
  /\ UNCHANGED <<isRoot, row, reverse, clock>>

(* The message's handler stops between two store calls: the database fails  *)
(* or the relay goes down.                                                  *)
Stop(p) ==
  /\ pc[p] # "idle"
  /\ pc' = [pc EXCEPT ![p] = "idle"]
  /\ msg' = [msg EXCEPT ![p] = NoRow]
  /\ UNCHANGED <<isRoot, row, reverse, addrs, clock>>

(* The retention sweep: delete_handles takes the row with its addresses and *)
(* the reverse row its zone wrote.                                          *)
Evict ==
  /\ row # NoRow
  /\ ~isRoot
  /\ row' = NoRow
  /\ addrs' = 0
  /\ reverse' = IF row.recs \in Primary /\ reverse = row.recs THEN 0 ELSE reverse
  /\ UNCHANGED <<isRoot, clock, pc, msg>>

Tick ==
  /\ clock < MaxClock
  /\ clock' = clock + 1
  /\ UNCHANGED <<isRoot, row, reverse, addrs, pc, msg>>

Step(p) ==
  \/ \E z \in Zones : ReceiveKept(p, z)
  \/ \E z \in Zones : ReceiveLeftOut(p, z)
  \/ UpdateStored(p)
  \/ UpdateSkipped(p)
  \/ SetRevs(p)
  \/ SetAddrs(p)
  \/ Stop(p)

Next ==
  \/ \E p \in Handler : Step(p)
  \/ Evict
  \/ Tick

Spec == Init /\ [][Next]_vars

-----------------------------------------------------------------------------
(* Properties. *)

Replaced == row # NoRow /\ row' # NoRow /\ row' # row

(* The owner's records survive: while the same key controls the handle, no  *)
(* message takes them away or puts older ones in their place, whatever      *)
(* order messages arrive in and however fresh their proofs are              *)
(* (store.rs:416-423, "would silently drop the owner's records").           *)
OwnerRecordsKept ==
  [][Replaced /\ row'.key = row.key => row'.recs >= row.recs]_vars

(* Records never outlive their owner: those of the row are from a message   *)
(* of the key that controls the handle, also after a transfer               *)
(* (store.rs:421-423, "a key transfer ... is left untouched").              *)
RecordsOfOwner ==
  row # NoRow => \E z \in Zones : z.key = row.key /\ z.recs = row.recs

(* A receipt once held stays as long as the commitment it proves: a root    *)
(* sent again without it does not take it away (store.rs:445-453).          *)
ReceiptKept ==
  [][Replaced /\ row.receipt /\ row'.epoch = row.epoch => row'.receipt]_vars

(* A proof that is strictly fresher, from the same key and no less final,   *)
(* is served once its message is stored, even if the records of the row     *)
(* are better: the relay is not stuck with a proof that no longer verifies  *)
(* (store.rs:393-403).                                                      *)
FreshProofServed ==
  [][\A p \in Handler :
       /\ pc[p] = "update" /\ pc'[p] \in {"revs", "revs+addrs"}
       /\ row # NoRow /\ ~TooFarAhead(msg[p]) /\ FresherProof(msg[p], row)
       => row'.anchor = msg[p].anchor /\ row'.final = msg[p].final]_vars

(* Nobody pins a handle with a seq of the far future: what is stored can be *)
(* outdone by a record made when the clock has advanced by the skew         *)
(* (store.rs:369-372).                                                      *)
NotPinned == row.recs <= clock + Skew

(* store.rs:633-634 and 645: handles are deleted with "their address-index  *)
(* and reverse rows", since such rows "would resolve to nothing".  So when  *)
(* nothing is being handled, no index row is left of a handle without a row.*)
NothingDangles ==
  row = NoRow /\ (\A p \in Handler : pc[p] = "idle") => addrs = 0 /\ reverse = 0
=============================================================================
