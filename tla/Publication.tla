---------------------------- MODULE Publication ----------------------------
(***************************************************************************)
(* The durable publication boundary of the instance's JSON stores          *)
(* (src/src/graph/publication.ts): journaled multi-file commits with       *)
(* operation receipts, an outbox of graph events, receipt epochs and       *)
(* recovery of an interrupted publication.                                 *)
(*                                                                         *)
(* Everything that writes runs under the exclusive side of the barrier of  *)
(* module GraphBarrier, so one call at a time walks through the phases     *)
(* below; a step is the code between two awaits that change the disk.  A   *)
(* crash, a failing disk operation and the outbox drain fall in between.   *)
(* A call that finds a journal recovers it before anything else: that part *)
(* is StartRecovery, for every kind of call.  What a call then reads to    *)
(* admit the request happens in the step that writes its journal.  A call  *)
(* that is refused, or answered by an earlier receipt, changes nothing and *)
(* is no step.                                                             *)
(*                                                                         *)
(* A content stands for its hash.  A transaction id is a random UUID; here *)
(* it is the publication sequence it is to establish, which no committed   *)
(* transaction has, and an aborted one leaves no trace of its id.  Events  *)
(* bear the id of their transaction, and the outbox array is in the order  *)
(* of those ids.  The journal's status is left out: nothing reads it.      *)
(***************************************************************************)
EXTENDS Naturals, FiniteSets, FiniteSetsExt

CONSTANTS
  Files,        \* store files, all of them tracked once a commit wrote them
  GraphFiles,   \* those whose change is a graph mutation
  Values,       \* contents a store file can have
  None,         \* "no such file"
  Ops,          \* operation identities chosen by callers
  Anon,         \* a commit without an operation_id
  Payloads,     \* what a commit asks to write: functions from files to values
  Drainers,     \* callers of drainPublicationEvents
  Nothing,      \* no journal, no caller to answer, nothing expected or given
  MaxReceipts,  \* 100 000 in the code
  MaxOutbox,    \* 10 000 in the code
  MaxRetired,   \* 256 in the code
  DrainLimit,   \* events one drain takes, 100 by default
  MaxSeq,       \* bound: publications
  MaxFaults,    \* bound: crashes and failing disk operations
  MaxEdits      \* bound: edits of a store file by other programs

ASSUME PayloadAssumption ==
  \A p \in Payloads : /\ DOMAIN p \subseteq Files
                      /\ \A f \in DOMAIN p : p[f] \in Values
ASSUME NamesAssumption ==
  /\ None \notin Values \cup Nat
  /\ Anon \notin Ops
  /\ Files \cap Nat = {}
  /\ Drainers \cap (Ops \cup {Anon}) = {}
  /\ GraphFiles \subseteq Files
ASSUME BoundsAssumption ==
  /\ {MaxReceipts, MaxOutbox, MaxRetired, MaxSeq, MaxFaults, MaxEdits} \subseteq Nat
  /\ DrainLimit \in Nat \ {0}
ASSUME NothingAssumption == Nothing \notin Nat \cup Ops \cup {Anon, None} \cup Drainers

VARIABLES
  disk,       \* contents of the store files and of the receipt archives
  pub,        \* publication_state.json; the empty state when it is absent
  journal,    \* reconciliation_journal.json, or Nothing
  phase,      \* how far the call that holds the barrier is
  caller,     \* identity it commits, or drain it acknowledges for
  todo,       \* participants it still has to replace or restore
  drain,      \* per drainer, the events it took from the outbox
  acking,     \* drainers that delivered the first of them and acknowledge it
  dispatched, \* the operation_epoch each operation identity is sent with
  delivered,  \* history: events delivered at least once
  done,       \* history: operation identities whose commit became durable
  faults,     \* history: crashes and failures so far
  edits       \* history: edits so far

volatile == <<phase, caller, todo, drain, acking>>
history == <<delivered, done, faults, edits>>
vars == <<disk, pub, journal, volatile, dispatched, history>>

\* Epoch 0 is "uninitialized"; the archive of epoch e is the store named e.
Epochs == 1..(MaxRetired + 1)
Stores == Files \cup Epochs
Receipts == [op : Ops \cup {Anon}, payload : Payloads, tx : Nat]
Contents == Values \cup {None} \cup SUBSET Receipts

PublicationState ==
  [seq : Nat, graph : Nat, epoch : Nat, tx : Nat, receipts : SUBSET Receipts,
   stores : [Stores -> Contents], retired : SUBSET Nat, outbox : SUBSET Nat]

\* A store nobody published yet is not tracked: its recorded hash is None.
EmptyState ==
  [seq |-> 0, graph |-> 0, epoch |-> 0, tx |-> 0, receipts |-> {},
   stores |-> [f \in Stores |-> None], retired |-> {}, outbox |-> {}]

\* Contents of some of the stores; "no journal" is not one.
Writes == UNION {[S -> Contents] : S \in SUBSET Stores}

Journals ==
  [tx : Nat, next : Writes, previous : Writes,
   marker : PublicationState, before : PublicationState]

ASSUME JournalsAssumption == Nothing \notin Journals

JournalOK ==
  journal # Nothing =>
    /\ journal.tx \in Nat
    /\ DOMAIN journal.next \subseteq Stores
    /\ DOMAIN journal.previous = DOMAIN journal.next
    /\ \A f \in DOMAIN journal.next : /\ journal.next[f] \in Contents
                                      /\ journal.previous[f] \in Contents
    /\ journal.marker \in PublicationState
    /\ journal.before \in PublicationState

TypeOK ==
  /\ disk \in [Stores -> Contents]
  /\ pub \in PublicationState
  /\ JournalOK
  /\ phase \in {"idle", "recover", "apply", "seal", "undo"}
  /\ caller \in Ops \cup {Anon} \cup Drainers \cup {Nothing}
  /\ todo \subseteq Stores
  /\ drain \in [Drainers -> SUBSET Nat]
  /\ acking \subseteq Drainers
  /\ dispatched \in [Ops -> Epochs \cup {Nothing, None}]
  /\ delivered \subseteq Nat
  /\ done \subseteq Ops
  /\ faults \in Nat /\ edits \in Nat

Init ==
  /\ disk \in {d \in [Stores -> Values \cup {None}] : \A e \in Epochs : d[e] = None}
  /\ pub = EmptyState
  /\ journal = Nothing
  /\ phase = "idle" /\ caller = Nothing /\ todo = {}
  /\ drain = [d \in Drainers |-> {}]
  /\ acking = {}
  /\ dispatched = [o \in Ops |-> None]
  /\ delivered = {}
  /\ done = {}
  /\ faults = 0 /\ edits = 0

-----------------------------------------------------------------------------
(***************************************************************************)
(* Admission: what commitGraphWrites, acknowledgePublicationEvents and     *)
(* retirePublicationEpoch check, and the journal they prepare              *)
(***************************************************************************)
Ready == phase = "idle" /\ journal = Nothing /\ pub.seq < MaxSeq

\* The journal is on the disk; next gives the stores to replace.
Prepare(who, next, marker) ==
  /\ journal' = [tx |-> marker.tx, next |-> next, marker |-> marker,
                 previous |-> [f \in DOMAIN next |-> disk[f]], before |-> pub]
  /\ phase' = "apply"
  /\ caller' = who
  /\ todo' = DOMAIN next
  /\ UNCHANGED <<disk, pub, drain, acking, history>>

\* A caller keeps the operation_epoch it first sent an identity with.
EpochsFor(o) ==
  IF o = Anon THEN {Nothing}
  ELSE IF dispatched[o] = None THEN {Nothing, 1} \cup (1..pub.epoch)
  ELSE {dispatched[o]}

\* Epoch of the receipt: as given, or the current one, the first of which the
\* first commit makes.
EpochOf(e) == IF e # Nothing THEN e ELSE IF pub.epoch = 0 THEN 1 ELSE pub.epoch

\* Faulty EpochRefused: an identity without epoch is taken for the current one's.
EpochAssumed(o, e) ==
  \/ EpochOf(e) \in pub.retired
  \/ e # Nothing /\ pub.epoch # 0 /\ e # pub.epoch

EpochRefused(o, e) ==
  \/ o # Anon /\ e = Nothing /\ pub.retired # {}
  \/ EpochOf(e) \in pub.retired
  \/ e # Nothing /\ pub.epoch # 0 /\ e # pub.epoch

\* The call is answered by this receipt, or conflicts with it.
HasReceipt(o) == o # Anon /\ \E x \in pub.receipts : x.op = o

\* Every store to write is as the last publication of it left it.
StoresAreOurs(p) ==
  \A f \in DOMAIN p : pub.stores[f] # None => disk[f] = pub.stores[f]

Changed(p) == {f \in DOMAIN p : disk[f] # p[f]}

\* Identity o, sent with operation_epoch e and expected_sequence n, writes p.
PrepareCommit(o, p, e, n) ==
  LET tx == pub.seq + 1
      changed == Changed(p)
      mutation == changed \cap GraphFiles # {}
  IN
  /\ Ready
  /\ e \in EpochsFor(o) /\ ~EpochRefused(o, e) /\ ~HasReceipt(o)
  /\ n # Nothing => pub.seq = n
  /\ Cardinality(pub.receipts) < MaxReceipts
  /\ Cardinality(pub.outbox) < MaxOutbox
  /\ StoresAreOurs(p)
  /\ changed # {} \/ o # Anon
  /\ Prepare(o, [f \in changed |-> p[f]],
       [seq |-> tx, tx |-> tx, epoch |-> EpochOf(e),
        graph |-> IF mutation THEN tx ELSE pub.graph,
        receipts |-> pub.receipts \cup {[op |-> o, payload |-> p, tx |-> tx]},
        stores |-> [f \in Stores |-> IF f \in changed THEN p[f] ELSE pub.stores[f]],
        retired |-> pub.retired,
        outbox |-> IF mutation THEN pub.outbox \cup {tx} ELSE pub.outbox])
  /\ dispatched' = IF o = Anon THEN dispatched ELSE [dispatched EXCEPT ![o] = e]

\* Drain d acknowledges the event it delivered, which leaves the outbox.
PrepareAcknowledge(d) ==
  LET e == Min(drain[d]) IN
  /\ Ready
  /\ d \in acking /\ e \in pub.outbox
  /\ Prepare(d, [f \in {} |-> None],
       [pub EXCEPT !.outbox = @ \ {e}, !.seq = @ + 1, !.tx = pub.seq + 1])
  /\ UNCHANGED dispatched

\* Epoch e, expected to be the current one, is archived; its receipts leave the state.
PrepareRetire(e, n) ==
  /\ Ready
  /\ e \notin pub.retired
  /\ pub.epoch = e /\ pub.seq = n
  /\ Cardinality(pub.retired) < MaxRetired
  /\ pub.outbox = {}
  /\ disk[e] = None
  /\ Prepare(Nothing, [f \in {e} |-> pub.receipts],
       [pub EXCEPT !.seq = @ + 1, !.tx = pub.seq + 1, !.epoch = @ + 1,
                   !.retired = @ \cup {e}, !.receipts = {},
                   !.stores[e] = pub.receipts])
  /\ UNCHANGED dispatched

\* A call ends; a drain goes on after its acknowledgement, or stops with it.
EndCall(ok) ==
  /\ phase' = "idle" /\ caller' = Nothing /\ todo' = {}
  /\ IF caller \in Drainers
       THEN /\ acking' = acking \ {caller}
            /\ drain' = [drain EXCEPT ![caller] = IF ok THEN @ \ {Min(@)} ELSE {}]
       ELSE UNCHANGED <<acking, drain>>

-----------------------------------------------------------------------------
(***************************************************************************)
(* Publishing: replace the stores, then the state, then remove the journal *)
(***************************************************************************)
Replace(f) ==
  /\ phase = "apply" /\ f \in todo
  /\ disk' = [disk EXCEPT ![f] = journal.next[f]]
  /\ todo' = todo \ {f}
  /\ UNCHANGED <<pub, journal, phase, caller, drain, acking, dispatched, history>>

\* The commit point.
PublishMarker ==
  /\ phase = "apply" /\ todo = {}
  /\ pub' = journal.marker
  /\ phase' = "seal"
  /\ done' = done \cup ({caller} \cap Ops)
  /\ UNCHANGED <<disk, journal, caller, todo, drain, acking, dispatched,
                 delivered, faults, edits>>

Seal ==
  /\ phase = "seal"
  /\ journal' = Nothing
  /\ EndCall(TRUE)
  /\ UNCHANGED <<disk, pub, dispatched, history>>

-----------------------------------------------------------------------------
(***************************************************************************)
(* Recovery: forward if the state on disk is the journal's, else back      *)
(***************************************************************************)
\* Faulty Committed: as the journals of the previous version were recovered.
NeverCommitted == FALSE

Committed == pub.tx = journal.tx

\* Faulty StartRecovery: a journal whose state is published is not looked at.
StartRollback ==
  /\ phase = "idle" /\ journal # Nothing /\ ~Committed
  /\ phase' = "recover"
  /\ todo' = DOMAIN journal.next
  /\ UNCHANGED <<disk, pub, journal, caller, drain, acking, dispatched, history>>

\* Any call, and recoverGraphPublication when the daemon starts.
StartRecovery ==
  /\ phase = "idle" /\ journal # Nothing
  /\ phase' = "recover"
  /\ todo' = DOMAIN journal.next
  /\ UNCHANGED <<disk, pub, journal, caller, drain, acking, dispatched, history>>

Restore(f) ==
  /\ phase \in {"recover", "undo"} /\ f \in todo
  /\ disk' = [disk EXCEPT ![f] = IF Committed THEN journal.next[f]
                                              ELSE journal.previous[f]]
  /\ todo' = todo \ {f}
  /\ UNCHANGED <<pub, journal, phase, caller, drain, acking, dispatched, history>>

\* The state, the last participant, is as wanted already, so that writing it and
\* removing the journal are one step.  The call whose failure started the
\* recovery fails.
FinishRecovery ==
  /\ phase \in {"recover", "undo"} /\ todo = {}
  /\ pub' = IF Committed THEN journal.marker ELSE journal.before
  /\ journal' = Nothing
  /\ EndCall(FALSE)
  /\ UNCHANGED <<disk, dispatched, history>>

\* A disk operation or the caller's before_commit fails.
Fail ==
  /\ faults < MaxFaults
  /\ faults' = faults + 1
  /\ \/ /\ phase \in {"apply", "seal"}
        /\ phase' = "undo"
        /\ todo' = DOMAIN journal.next
        /\ UNCHANGED <<caller, drain, acking>>
     \/ /\ phase \in {"recover", "undo"}
        /\ EndCall(FALSE)
  /\ UNCHANGED <<disk, pub, journal, dispatched, delivered, done, edits>>

Crash ==
  /\ faults < MaxFaults
  /\ faults' = faults + 1
  /\ phase' = "idle" /\ caller' = Nothing /\ todo' = {}
  /\ drain' = [d \in Drainers |-> {}]
  /\ acking' = {}
  /\ UNCHANGED <<disk, pub, journal, dispatched, delivered, done, edits>>

-----------------------------------------------------------------------------
(***************************************************************************)
(* The outbox drain, and programs that edit store files                    *)
(***************************************************************************)
StartDrain(d) ==
  /\ phase = "idle" /\ journal = Nothing
  /\ drain[d] = {} /\ pub.outbox # {}
  /\ drain' = [drain EXCEPT ![d] =
       {e \in pub.outbox : Cardinality({x \in pub.outbox : x < e}) < DrainLimit}]
  /\ UNCHANGED <<disk, pub, journal, phase, caller, todo, acking, dispatched, history>>

Deliver(d) ==
  /\ drain[d] # {} /\ d \notin acking
  /\ delivered' = delivered \cup {Min(drain[d])}
  /\ acking' = acking \cup {d}
  /\ UNCHANGED <<disk, pub, journal, phase, caller, todo, drain, dispatched,
                 done, faults, edits>>

\* Another drain acknowledged the event meanwhile: nothing to publish.
AcknowledgedBefore(d) ==
  /\ phase = "idle" /\ journal = Nothing
  /\ d \in acking /\ Min(drain[d]) \notin pub.outbox
  /\ acking' = acking \ {d}
  /\ drain' = [drain EXCEPT ![d] = @ \ {Min(@)}]
  /\ UNCHANGED <<disk, pub, journal, phase, caller, todo, dispatched, history>>

\* Faulty DrainFails: the batch goes on with the next event.
DrainSkips(d) ==
  /\ drain[d] # {} /\ caller # d
  /\ drain' = [drain EXCEPT ![d] = @ \ {Min(@)}]
  /\ acking' = acking \ {d}
  /\ UNCHANGED <<disk, pub, journal, phase, caller, todo, dispatched, history>>

\* The consumer throws, or the acknowledgement is refused: the batch is dropped
\* and what was not acknowledged stays in the outbox.
DrainFails(d) ==
  /\ drain[d] # {} /\ caller # d
  /\ drain' = [drain EXCEPT ![d] = {}]
  /\ acking' = acking \ {d}
  /\ UNCHANGED <<disk, pub, journal, phase, caller, todo, dispatched, history>>

\* Another program changes a store file while nothing is being published.
Edit(f, v) ==
  /\ phase = "idle" /\ journal = Nothing
  /\ edits < MaxEdits /\ disk[f] # v
  /\ disk' = [disk EXCEPT ![f] = v]
  /\ edits' = edits + 1
  /\ UNCHANGED <<pub, journal, volatile, dispatched, delivered, done, faults>>

Next ==
  \/ \E o \in Ops \cup {Anon}, p \in Payloads, e \in Epochs \cup {Nothing},
        n \in 0..MaxSeq \cup {Nothing} : PrepareCommit(o, p, e, n)
  \/ \E e \in Epochs, n \in 0..MaxSeq : PrepareRetire(e, n)
  \/ \E f \in Stores : Replace(f) \/ Restore(f)
  \/ PublishMarker \/ Seal \/ StartRecovery \/ FinishRecovery \/ Fail \/ Crash
  \/ \E d \in Drainers :
       \/ StartDrain(d) \/ Deliver(d) \/ PrepareAcknowledge(d)
       \/ AcknowledgedBefore(d) \/ DrainFails(d)
  \/ \E f \in Files, v \in Values \cup {None} : Edit(f, v)

Spec == Init /\ [][Next]_vars

(***************************************************************************)
(* A call that holds the barrier runs on, and the daemon recovers an       *)
(* interrupted publication when it starts.  Callers need not come back.    *)
(***************************************************************************)
Run ==
  \/ \E f \in Stores : Replace(f) \/ Restore(f)
  \/ PublishMarker \/ Seal \/ StartRecovery \/ FinishRecovery

FairSpec == Spec /\ WF_vars(Run)

-----------------------------------------------------------------------------
(***************************************************************************)
(* Properties                                                              *)
(***************************************************************************)

\* What recovery would leave in a store.
Recovered(f) ==
  IF journal = Nothing \/ f \notin DOMAIN journal.next THEN disk[f]
  ELSE IF Committed THEN journal.next[f] ELSE journal.previous[f]

\* Commits are atomic over crashes and failures at every step, happen at most once per
\* identity even when retried over receipt epochs, spare unpublished
\* edits, and events are acknowledged only once delivered.
Atomic == INSTANCE AtomicPublication WITH
  contents <- [f \in Files |-> Recovered(f)],
  published <- [f \in Files |-> pub.stores[f]],
  seq <- pub.seq,
  epoch <- pub.epoch,
  events <- pub.outbox

Implements == Atomic!Spec

\* The receipt of every operation that took effect can still be found: in the
\* state, or in the archive of a retired epoch that recovery keeps.
ReceiptsAreKept ==
  \A o \in done : \E x \in pub.receipts \cup UNION {Recovered(e) : e \in pub.retired} :
    x.op = o

\* Events are first delivered in the order of their publications, although several
\* drains may run, stop half way and be started again.
DeliveredInOrder ==
  [][\A e \in delivered' \ delivered : \A x \in delivered : x < e]_vars

\* A publication that was interrupted, by a crash or by failing disk operations
\* that also hit its recovery, does not block the stores for ever.
InterruptionEnds == journal # Nothing ~> journal = Nothing
=============================================================================
