------------------------- MODULE Publication_proofs -------------------------
(***************************************************************************)
(* Proofs about Publication, for every number of stores, operations,       *)
(* drains and faults: type correctness, that receipts are kept over crash, *)
(* recovery and the retirement of their epoch, that events are first       *)
(* delivered in order, and that the protocol implements AtomicPublication. *)
(*                                                                         *)
(* The inductive invariant has three parts.  A journal fits the state file *)
(* and the stores at every phase, so that Recovered is what the stores     *)
(* hold once the journal is gone and changes only at the commit point.     *)
(* The pending step, fixed when the journal is written, is still the       *)
(* abstract step to take when it is committed.  Identities and events are  *)
(* accounted for: an identity that took effect has a receipt in the state  *)
(* or was sent with an epoch that no longer admits it.                     *)
(* The last part is about StableRead, which adds a reader.                 *)
(***************************************************************************)
EXTENDS StableRead, FiniteSetTheorems, WellFoundedInduction, TLAPS

(***************************************************************************)
(* The inductive invariant                                                 *)
(***************************************************************************)
\* The state file is the journal's old or its new one, and its tx tells which.
JournalFits ==
  journal # Nothing =>
    /\ pub \in {journal.before, journal.marker}
    /\ journal.tx = journal.before.tx + 1 /\ journal.marker.tx = journal.tx
    /\ journal.marker.seq = journal.tx

PhaseFits ==
  /\ pub.tx = pub.seq
  /\ phase = "idle" => caller = Nothing /\ todo = {}
  /\ phase # "idle" => journal # Nothing /\ todo \subseteq DOMAIN journal.next
  /\ phase = "apply" => pub = journal.before
  /\ phase = "seal" => pub = journal.marker /\ todo = {}
  /\ caller \in Drainers => caller \in acking

\* The stores already replaced or restored hold what they should.
StoresFit ==
  /\ phase \in {"apply", "seal"} =>
       \A f \in DOMAIN journal.next \ todo : disk[f] = journal.next[f]
  /\ phase \in {"recover", "undo"} =>
       \A f \in DOMAIN journal.next \ todo : disk[f] = Recovered(f)

\* What the pending commit, acknowledgement or retirement will do to the state.
ToChange(p) == {f \in DOMAIN p : Recovered(f) # p[f]}

CommitOf(p) ==
  LET w == ToChange(p)
      tx == pub.seq + 1
      mutation == w \cap GraphFiles # {}
  IN
  /\ caller \in (Ops \cup {Anon}) \ done
  /\ w # {} \/ caller # Anon
  /\ \A f \in DOMAIN p : pub.stores[f] \in {None, Recovered(f)}
  /\ journal.next = [f \in w |-> p[f]]
  /\ journal.marker =
       [seq |-> tx, tx |-> tx, epoch |-> IF pub.epoch = 0 THEN 1 ELSE pub.epoch,
        graph |-> IF mutation THEN tx ELSE pub.graph,
        receipts |-> pub.receipts \cup {[op |-> caller, payload |-> p, tx |-> tx]},
        stores |-> [f \in Stores |-> IF f \in w THEN p[f] ELSE pub.stores[f]],
        retired |-> pub.retired,
        outbox |-> IF mutation THEN pub.outbox \cup {tx} ELSE pub.outbox]
  /\ caller \in Ops => dispatched[caller] \in {Nothing, journal.marker.epoch}

Acknowledged(s, e) == [s EXCEPT !.outbox = @ \ {e}, !.seq = @ + 1, !.tx = s.seq + 1]
Retired(s, e) == [s EXCEPT !.seq = @ + 1, !.tx = s.seq + 1, !.epoch = @ + 1,
                           !.retired = @ \cup {e}, !.receipts = {}, !.stores[e] = s.receipts]

AcknowledgementOf(e) ==
  /\ caller \in Drainers
  /\ journal.next = [f \in {} |-> None]
  /\ journal.marker = Acknowledged(pub, e)

RetirementOf(e) ==
  /\ caller = Nothing
  /\ pub.epoch = e /\ pub.outbox = {}
  /\ journal.next = [f \in {e} |-> pub.receipts]
  /\ journal.marker = Retired(pub, e)

PendingFits ==
  phase = "apply" => \/ \E p \in Payloads : CommitOf(p)
                     \/ \E e \in pub.outbox \cap delivered : AcknowledgementOf(e)
                     \/ \E e \in Epochs \ pub.retired : RetirementOf(e)

\* Who took effect is found in the state, or is refused by its epoch.
IdentitiesFit ==
  /\ pub.retired \subseteq Epochs
  /\ \A o \in Ops : dispatched[o] \in {None, Nothing, 1} \cup 1..pub.epoch
  /\ \A o \in done :
       /\ dispatched[o] # None
       /\ \/ HasReceipt(o) /\ dispatched[o] \in {Nothing, pub.epoch}
          \/ pub.retired # {} /\ dispatched[o] \in {Nothing} \cup pub.retired

\* Every drain holds all pending events up to its last one, and events not
\* delivered yet are younger than the delivered ones.
EventsFit ==
  /\ pub.outbox \cup delivered \subseteq 1..pub.seq
  /\ \A x \in delivered, y \in pub.outbox \ delivered : x < y
  /\ \A d \in Drainers :
       /\ drain[d] \subseteq 1..pub.seq
       /\ d \in acking => drain[d] # {} /\ Min(drain[d]) \in delivered
       /\ drain[d] \ delivered \subseteq pub.outbox
       /\ \A e \in drain[d], y \in pub.outbox \ delivered : y < e => y \in drain[d]

IInv ==
  /\ TypeOK
  /\ JournalFits /\ PhaseFits /\ StoresFit /\ PendingFits
  /\ IdentitiesFit /\ EventsFit /\ ReceiptsAreKept

\* A step that changes no state a caller can see.
SameStores == \A f \in Stores : Recovered(f)' = Recovered(f)
Quiet == UNCHANGED <<pub, done, delivered>> /\ SameStores

-----------------------------------------------------------------------------
(***************************************************************************)
(* The smallest event, and the names of the stores                         *)
(***************************************************************************)
LEMMA MinIn ==
  ASSUME NEW S \in SUBSET Nat, S # {}
  PROVE  Min(S) \in S /\ \A y \in S : Min(S) <= y
<1> DEFINE R == {ss \in Nat \X Nat : ss[1] < ss[2]}
<1>1. IsWellFoundedOn(R, Nat)
  BY NatLessThanWellFounded DEF OpToRel
<1>2. PICK x \in S : \A y \in S : ~(<<y, x>> \in R)
  BY <1>1, WFMin
<1>3. ASSUME NEW y \in S  PROVE x <= y
  <2>1. <<y, x>> \in Nat \X Nat /\ x \in Nat /\ y \in Nat
    OBVIOUS
  <2>2. ~(<<y, x>>[1] < <<y, x>>[2])
    BY <1>2, <2>1
  <2> QED  BY <2>1, <2>2
<1> QED  BY <1>3 DEF Min

LEMMA StoreNames ==
  /\ Epochs \subseteq Nat \ {0} /\ Epochs \subseteq Stores /\ Files \subseteq Stores
  /\ Epochs \cap Files = {} /\ MaxRetired \in Nat /\ 1 \in Epochs
  BY NamesAssumption, BoundsAssumption DEF Epochs, Stores

LEMMA CommittedIff ==
  ASSUME TypeOK, JournalFits, journal # Nothing
  PROVE  /\ Committed <=> pub = journal.marker
         /\ ~Committed <=> pub = journal.before
  BY DEF TypeOK, JournalOK, JournalFits, PublicationState, Committed

\* The stores a journal covers, and the others.
LEMMA RecoveredIs ==
  ASSUME TypeOK, JournalFits
  PROVE  /\ journal = Nothing => \A f \in Stores : Recovered(f) = disk[f]
         /\ journal # Nothing =>
              /\ \A f \in Stores \ DOMAIN journal.next : Recovered(f) = disk[f]
              /\ pub = journal.before => \A f \in DOMAIN journal.next : Recovered(f) = journal.previous[f]
              /\ pub = journal.marker => \A f \in DOMAIN journal.next : Recovered(f) = journal.next[f]
  BY CommittedIff DEF Recovered

LEMMA RecoveredType ==
  ASSUME TypeOK
  PROVE  \A f \in Stores : Recovered(f) \in Contents
  BY DEF TypeOK, JournalOK, Recovered

-----------------------------------------------------------------------------
(***************************************************************************)
(* What stays when the visible state stays                                 *)
(***************************************************************************)
LEMMA KeptStays ==
  ASSUME ReceiptsAreKept, IdentitiesFit, UNCHANGED <<pub, done>>,
         \A f \in Epochs : Recovered(f)' = Recovered(f)
  PROVE  ReceiptsAreKept'
<1> SUFFICES ASSUME NEW o \in done
             PROVE  \E x \in pub'.receipts \cup UNION {Recovered(e)' : e \in pub'.retired} : x.op = o
  BY DEF ReceiptsAreKept
<1>1. PICK x \in pub.receipts \cup UNION {Recovered(e) : e \in pub.retired} : x.op = o
  BY DEF ReceiptsAreKept
<1>2. CASE x \in pub.receipts
  BY <1>1, <1>2
<1>3. ASSUME NEW e \in pub.retired, x \in Recovered(e)
      PROVE  \E y \in pub'.receipts \cup UNION {Recovered(c)' : c \in pub'.retired} : y.op = o
  <2>1. x \in Recovered(e)' /\ e \in pub'.retired
    BY <1>3 DEF IdentitiesFit
  <2>2. x \in UNION {Recovered(c)' : c \in pub'.retired}
    BY <2>1
  <2> QED  BY <1>1, <2>2
<1> QED  BY <1>1, <1>2, <1>3

LEMMA IdentitiesStay ==
  ASSUME IdentitiesFit, UNCHANGED <<pub, done, dispatched>>
  PROVE  IdentitiesFit'
  BY DEF IdentitiesFit, HasReceipt

LEMMA PendingStays ==
  ASSUME PendingFits, TypeOK, SameStores, UNCHANGED <<pub, journal, caller, dispatched, done>>,
         delivered \subseteq delivered', phase' = "apply" => phase = "apply"
  PROVE  PendingFits'
<1> SUFFICES ASSUME phase = "apply"  PROVE PendingFits'
  BY DEF PendingFits
<1>1. ASSUME NEW p \in Payloads, CommitOf(p)  PROVE PendingFits'
  <2>1. DOMAIN p \subseteq Stores
    BY PayloadAssumption, StoreNames
  <2>2. ToChange(p)' = ToChange(p)
    BY <2>1 DEF ToChange, SameStores
  <2>3. \A f \in DOMAIN p : Recovered(f)' = Recovered(f)
    BY <2>1 DEF SameStores
  <2>4. CommitOf(p)'
    BY <1>1, <2>2, <2>3 DEF CommitOf
  <2> QED  BY <2>4 DEF PendingFits
<1>2. ASSUME NEW e \in pub.outbox \cap delivered, AcknowledgementOf(e)  PROVE PendingFits'
  <2>1. AcknowledgementOf(e)' /\ e \in (pub.outbox \cap delivered)'
    BY <1>2 DEF AcknowledgementOf
  <2> QED  BY <2>1 DEF PendingFits
<1>3. ASSUME NEW e \in Epochs \ pub.retired, RetirementOf(e)  PROVE PendingFits'
  <2>1. RetirementOf(e)' /\ e \in (Epochs \ pub.retired)'
    BY <1>3 DEF RetirementOf
  <2> QED  BY <2>1 DEF PendingFits
<1> QED  BY <1>1, <1>2, <1>3 DEF PendingFits

\* A drain goes on as it was, drops what it has, or its first event was acknowledged.
DrainMoves ==
  \A d \in Drainers :
    \/ drain'[d] = drain[d] /\ (d \in acking' => d \in acking)
    \/ drain'[d] = {} /\ d \notin acking'
    \/ d \in acking /\ drain'[d] = drain[d] \ {Min(drain[d])} /\ d \notin acking'

LEMMA DrainsStay ==
  ASSUME TypeOK, EventsFit, DrainMoves, UNCHANGED <<pub, delivered>>
  PROVE  EventsFit'
<1> SUFFICES ASSUME NEW d \in Drainers
             PROVE  /\ drain'[d] \subseteq 1..pub.seq
                    /\ d \in acking' => drain'[d] # {} /\ Min(drain'[d]) \in delivered
                    /\ drain'[d] \ delivered \subseteq pub.outbox
                    /\ \A e \in drain'[d], y \in pub.outbox \ delivered : y < e => y \in drain'[d]
  BY DEF EventsFit
<1>1. CASE drain'[d] = drain[d] /\ (d \in acking' => d \in acking)
  BY <1>1 DEF EventsFit
<1>2. CASE drain'[d] = {} /\ d \notin acking'
  BY <1>2
<1>3. CASE d \in acking /\ drain'[d] = drain[d] \ {Min(drain[d])} /\ d \notin acking'
  <2>1. Min(drain[d]) \in delivered
    BY <1>3 DEF EventsFit
  <2> QED  BY <1>3, <2>1 DEF EventsFit
<1> QED  BY <1>1, <1>2, <1>3 DEF DrainMoves

LEMMA EndCallFacts ==
  ASSUME TypeOK, PhaseFits, NEW ok \in BOOLEAN, EndCall(ok)
  PROVE  /\ phase' = "idle" /\ caller' = Nothing /\ todo' = {}
         /\ drain' \in [Drainers -> SUBSET Nat] /\ acking' \subseteq Drainers
         /\ DrainMoves /\ caller' \notin Drainers
<1>1. CASE caller \in Drainers
  BY <1>1, NothingAssumption DEF EndCall, TypeOK, PhaseFits, DrainMoves
<1>2. CASE caller \notin Drainers
  BY <1>2, NothingAssumption DEF EndCall, TypeOK, DrainMoves
<1> QED  BY <1>1, <1>2

-----------------------------------------------------------------------------
(***************************************************************************)
(* Writing a journal                                                       *)
(***************************************************************************)
LEMMA PrepareFacts ==
  ASSUME IInv, phase = "idle", journal = Nothing,
         NEW S \in SUBSET Stores, NEW next \in [S -> Contents],
         NEW marker \in PublicationState, marker.tx = pub.seq + 1, marker.seq = pub.seq + 1,
         NEW who \in Ops \cup {Anon} \cup Drainers \cup {Nothing}, who \in Drainers => who \in acking,
         Prepare(who, next, marker)
  PROVE  /\ JournalOK' /\ JournalFits' /\ PhaseFits' /\ StoresFit' /\ Quiet
         /\ todo' \subseteq Stores /\ phase' = "apply" /\ caller' = who
         /\ journal'.next = next /\ journal'.marker = marker
         /\ UNCHANGED <<disk, pub, drain, acking, history>>
<1> DEFINE old == [f \in S |-> disk[f]]
<1>1. /\ pub \in PublicationState /\ pub.seq \in Nat /\ pub.tx = pub.seq
      /\ disk \in [Stores -> Contents] /\ marker.tx \in Nat /\ DOMAIN next = S
  BY DEF IInv, TypeOK, PhaseFits, PublicationState
<1>2. journal' = [tx |-> marker.tx, next |-> next, marker |-> marker, previous |-> old, before |-> pub]
  BY <1>1 DEF Prepare
<1>3. old \in [S -> Contents]
  BY <1>1
<1>4. journal' \in Journals
  <2>1. next \in Writes /\ old \in Writes
    BY <1>3 DEF Writes
  <2> HIDE DEF old
  <2> QED  BY <1>1, <1>2, <2>1 DEF Journals
<1>5. journal' # Nothing
  BY <1>4, JournalsAssumption
<1>6. /\ phase' = "apply" /\ caller' = who /\ todo' = S
      /\ UNCHANGED <<disk, pub, drain, acking, history>>
  BY <1>1 DEF Prepare
<1>7. JournalOK'
  <2>1. DOMAIN old = S /\ \A f \in S : old[f] \in Contents
    BY <1>3
  <2> HIDE DEF old
  <2> QED  BY <1>1, <1>2, <2>1 DEF JournalOK
<1>8. JournalFits'
  BY <1>1, <1>2, <1>6 DEF JournalFits
<1>9. PhaseFits'
  BY <1>1, <1>2, <1>5, <1>6 DEF PhaseFits
<1>10. StoresFit'
  BY <1>1, <1>2, <1>6 DEF StoresFit
<1>11. SameStores
  <2> SUFFICES ASSUME NEW f \in Stores  PROVE Recovered(f)' = Recovered(f)
    BY DEF SameStores
  <2>1. Recovered(f) = disk[f]
    BY DEF Recovered
  <2>2. ~Committed'
    BY <1>1, <1>2, <1>6 DEF Committed
  <2>3. Recovered(f)' = IF f \notin S THEN disk[f] ELSE old[f]
    BY <1>1, <1>2, <1>5, <1>6, <2>2 DEF Recovered
  <2> QED  BY <2>1, <2>3
<1> QED  BY <1>1, <1>2, <1>6, <1>7, <1>8, <1>9, <1>10, <1>11 DEF Quiet, history

\* What else holds when a journal was written.
LEMMA PrepareKeeps ==
  ASSUME IInv, Quiet, JournalOK', JournalFits', PhaseFits', StoresFit', PendingFits', IdentitiesFit',
         phase' = "apply", caller' \in Ops \cup {Anon} \cup Drainers \cup {Nothing},
         todo' \subseteq Stores, dispatched' \in [Ops -> Epochs \cup {Nothing, None}],
         UNCHANGED <<disk, pub, drain, acking, history>>
  PROVE  IInv'
<1>1. TypeOK'
  BY DEF IInv, TypeOK, history
<1>2. EventsFit'
  BY DrainsStay DEF IInv, DrainMoves, history
<1>3. ReceiptsAreKept'
  BY KeptStays, StoreNames DEF IInv, Quiet, SameStores
<1> QED  BY <1>1, <1>2, <1>3 DEF IInv

\* An identity that took effect is answered or refused when it is sent again.
LEMMA DoneIsRefused ==
  ASSUME IInv, NEW o \in done, NEW e \in EpochsFor(o), ~EpochRefused(o, e)
  PROVE  HasReceipt(o)
<1>1. o \in Ops /\ o # Anon /\ e = dispatched[o]
  BY NamesAssumption DEF IInv, TypeOK, IdentitiesFit, EpochsFor
<1>2. SUFFICES ASSUME pub.retired # {}, e \in {Nothing} \cup pub.retired  PROVE FALSE
  BY <1>1 DEF IInv, IdentitiesFit
<1>3. e # Nothing => EpochOf(e) = e
  BY DEF EpochOf
<1> QED  BY <1>1, <1>2, <1>3 DEF EpochRefused

LEMMA CommitEpoch ==
  ASSUME IInv, NEW o \in Ops \cup {Anon}, NEW e \in EpochsFor(o), e \in Epochs \cup {Nothing},
         ~EpochRefused(o, e)
  PROVE  /\ EpochOf(e) = IF pub.epoch = 0 THEN 1 ELSE pub.epoch
         /\ e \in {Nothing, EpochOf(e)}
         /\ e \in {Nothing, 1} \cup 1..pub.epoch
<1>1. pub.epoch \in Nat
  BY DEF IInv, TypeOK, PublicationState
<1>2. CASE e = Nothing
  BY <1>2 DEF EpochOf
<1>3. CASE e # Nothing
  <2>1. EpochOf(e) = e /\ (pub.epoch # 0 => e = pub.epoch)
    BY <1>3 DEF EpochOf, EpochRefused
  <2>2. ASSUME pub.epoch = 0  PROVE e = 1
    <3>1. 1..pub.epoch = {}
      BY <2>2
    <3>2. o \in Ops => dispatched[o] \in {None, Nothing, 1}
      BY <3>1 DEF IInv, IdentitiesFit
    <3> QED  BY <1>3, <3>1, <3>2 DEF EpochsFor
  <2> QED  BY <1>1, <2>1, <2>2
<1> QED  BY <1>2, <1>3

LEMMA PrepareCommitInv ==
  ASSUME IInv, NEW o \in Ops \cup {Anon}, NEW p \in Payloads, NEW e \in Epochs \cup {Nothing},
         NEW n, PrepareCommit(o, p, e, n)
  PROVE  IInv' /\ Quiet
<1> DEFINE tx == pub.seq + 1
           w == Changed(p)
           next == [f \in w |-> p[f]]
           mutation == w \cap GraphFiles # {}
           marker == [seq |-> tx, tx |-> tx, epoch |-> EpochOf(e),
                      graph |-> IF mutation THEN tx ELSE pub.graph,
                      receipts |-> pub.receipts \cup {[op |-> o, payload |-> p, tx |-> tx]},
                      stores |-> [f \in Stores |-> IF f \in w THEN p[f] ELSE pub.stores[f]],
                      retired |-> pub.retired,
                      outbox |-> IF mutation THEN pub.outbox \cup {tx} ELSE pub.outbox]
<1>1. /\ phase = "idle" /\ journal = Nothing /\ e \in EpochsFor(o) /\ ~EpochRefused(o, e)
      /\ ~HasReceipt(o) /\ StoresAreOurs(p) /\ (w # {} \/ o # Anon)
      /\ Prepare(o, next, marker)
      /\ dispatched' = IF o = Anon THEN dispatched ELSE [dispatched EXCEPT ![o] = e]
  BY DEF PrepareCommit, Ready
<1>2. /\ pub \in PublicationState /\ pub.seq \in Nat /\ disk \in [Stores -> Contents]
      /\ pub.tx = pub.seq /\ dispatched \in [Ops -> Epochs \cup {Nothing, None}]
      /\ tx \in Nat /\ pub.epoch \in Nat
  BY DEF IInv, TypeOK, PhaseFits, PublicationState
<1>3. /\ DOMAIN p \subseteq Stores /\ w \subseteq DOMAIN p /\ \A f \in DOMAIN p : p[f] \in Contents
  BY PayloadAssumption, StoreNames DEF Changed, Contents
<1>4. EpochOf(e) = (IF pub.epoch = 0 THEN 1 ELSE pub.epoch) /\ e \in {Nothing, EpochOf(e)}
      /\ e \in {Nothing, 1} \cup 1..pub.epoch
  BY <1>1, CommitEpoch
<1>5. marker \in PublicationState
  <2>1. [op |-> o, payload |-> p, tx |-> tx] \in Receipts
    BY <1>2 DEF Receipts
  <2>2. [f \in Stores |-> IF f \in w THEN p[f] ELSE pub.stores[f]] \in [Stores -> Contents]
    BY <1>2, <1>3 DEF PublicationState
  <2>3. EpochOf(e) \in Nat
    BY <1>2, <1>4
  <2> HIDE DEF w
  <2> QED  BY <1>2, <2>1, <2>2, <2>3 DEF PublicationState
<1>6. next \in [w -> Contents] /\ w \in SUBSET Stores
  BY <1>3
<1>7. marker.tx = tx /\ marker.seq = tx /\ marker.epoch = EpochOf(e) /\ o \notin Drainers
  BY NamesAssumption
<1>8. /\ JournalOK' /\ JournalFits' /\ PhaseFits' /\ StoresFit' /\ Quiet
      /\ todo' \subseteq Stores /\ phase' = "apply" /\ caller' = o
      /\ journal'.next = next /\ journal'.marker = marker
      /\ UNCHANGED <<disk, pub, drain, acking, history>>
  <2> HIDE DEF w, next, marker, tx
  <2> QED  BY <1>1, <1>2, <1>5, <1>6, <1>7, PrepareFacts DEF tx
<1>9. o \notin done
  BY <1>1, DoneIsRefused
<1>10. dispatched' \in [Ops -> Epochs \cup {Nothing, None}]
       /\ \A c \in Ops : dispatched'[c] = IF c = o THEN e ELSE dispatched[c]
  BY <1>1, <1>2, NamesAssumption
<1>11. IdentitiesFit'
  <2>1. \A c \in Ops : dispatched'[c] \in {None, Nothing, 1} \cup 1..pub.epoch
    BY <1>4, <1>10 DEF IInv, IdentitiesFit
  <2>2. \A c \in done : c \in Ops /\ dispatched'[c] = dispatched[c]
    BY <1>9, <1>10 DEF IInv, TypeOK
  <2> QED  BY <1>8, <2>1, <2>2 DEF IInv, IdentitiesFit, HasReceipt, history
<1>12. PendingFits'
  <2>1. \A f \in Stores : Recovered(f)' = disk[f]
    BY <1>1, <1>8 DEF Quiet, SameStores, Recovered
  <2>2. ToChange(p)' = w
    BY <1>3, <2>1 DEF ToChange, Changed
  <2>3. \A f \in DOMAIN p : pub.stores[f] \in {None, Recovered(f)'}
    BY <1>1, <1>3, <2>1 DEF StoresAreOurs
  <2>4. o \in Ops => dispatched'[o] \in {Nothing, marker.epoch}
    BY <1>4, <1>10
  <2> HIDE DEF w
  <2>5. CommitOf(p)'
    BY <1>1, <1>4, <1>8, <1>9, <2>2, <2>3, <2>4 DEF CommitOf, history
  <2> QED  BY <2>5 DEF PendingFits
<1>13. caller' \in Ops \cup {Anon} \cup Drainers \cup {Nothing}
  BY <1>8
<1> HIDE DEF next, marker
<1> QED  BY <1>8, <1>10, <1>11, <1>12, <1>13, PrepareKeeps

\* The state files an acknowledgement and a retirement establish.
LEMMA AcknowledgedState ==
  ASSUME NEW s \in PublicationState, NEW e
  PROVE  /\ Acknowledged(s, e) \in PublicationState
         /\ Acknowledged(s, e).tx = s.seq + 1 /\ Acknowledged(s, e).seq = s.seq + 1
         /\ Acknowledged(s, e).outbox = s.outbox \ {e}
         /\ Acknowledged(s, e).epoch = s.epoch /\ Acknowledged(s, e).receipts = s.receipts
         /\ Acknowledged(s, e).stores = s.stores /\ Acknowledged(s, e).retired = s.retired
<1> DEFINE a == [s EXCEPT !.outbox = @ \ {e}]
           b == [a EXCEPT !.seq = @ + 1]
           c == [b EXCEPT !.tx = s.seq + 1]
<1>0. Acknowledged(s, e) = c
  BY DEF Acknowledged
<1> HIDE DEF c
<1>1. a \in PublicationState
  BY DEF PublicationState
<1>2. b \in PublicationState
  <2> HIDE DEF a
  <2> QED  BY <1>1 DEF PublicationState
<1>3. c \in PublicationState
  <2> HIDE DEF b
  <2> QED  BY <1>2 DEF PublicationState, c
<1> QED  BY <1>0, <1>3 DEF PublicationState, c

LEMMA RetiredState ==
  ASSUME NEW s \in PublicationState, NEW e \in Nat, s.receipts \in Contents
  PROVE  /\ Retired(s, e) \in PublicationState
         /\ Retired(s, e).tx = s.seq + 1 /\ Retired(s, e).seq = s.seq + 1
         /\ Retired(s, e).outbox = s.outbox
         /\ Retired(s, e).epoch = s.epoch + 1 /\ Retired(s, e).receipts = {}
         /\ Retired(s, e).retired = s.retired \cup {e}
         /\ Retired(s, e).stores = [s.stores EXCEPT ![e] = s.receipts]
<1> DEFINE a == [[s EXCEPT !.seq = @ + 1] EXCEPT !.tx = s.seq + 1]
           b == [a EXCEPT !.epoch = @ + 1]
           c == [b EXCEPT !.retired = @ \cup {e}]
           d == [[c EXCEPT !.receipts = {}] EXCEPT !.stores = [s.stores EXCEPT ![e] = s.receipts]]
<1>0. Retired(s, e) = d
  BY DEF Retired
<1> HIDE DEF d
<1>1. a \in PublicationState
  <2>1. [s EXCEPT !.seq = @ + 1] \in PublicationState
    BY DEF PublicationState
  <2> QED  BY <2>1 DEF PublicationState
<1>2. b \in PublicationState
  <2> HIDE DEF a
  <2> QED  BY <1>1 DEF PublicationState
<1>3. c \in PublicationState
  <2> HIDE DEF b
  <2> QED  BY <1>2 DEF PublicationState
<1>4. d \in PublicationState
  <2>1. [c EXCEPT !.receipts = {}] \in PublicationState
    <3> HIDE DEF c
    <3> QED  BY <1>3 DEF PublicationState
  <2>2. [s.stores EXCEPT ![e] = s.receipts] \in [Stores -> Contents]
    BY DEF PublicationState
  <2> HIDE DEF c
  <2> QED  BY <2>1, <2>2 DEF PublicationState, d
<1> QED  BY <1>0, <1>4 DEF PublicationState, d

LEMMA PrepareAcknowledgeInv ==
  ASSUME IInv, NEW d \in Drainers, PrepareAcknowledge(d)
  PROVE  IInv' /\ Quiet
<1>0. PICK e : e = Min(drain[d])
  OBVIOUS
<1> DEFINE next == [f \in {} |-> None]
           marker == Acknowledged(pub, e)
<1>1. /\ phase = "idle" /\ journal = Nothing /\ d \in acking /\ e \in pub.outbox
      /\ Prepare(d, next, marker) /\ dispatched' = dispatched
  BY <1>0 DEF PrepareAcknowledge, Ready, Acknowledged
<1>2. pub \in PublicationState /\ pub.seq \in Nat
  BY DEF IInv, TypeOK, PublicationState
<1>3. e \in delivered
  BY <1>0, <1>1 DEF IInv, EventsFit
<1>4. marker \in PublicationState /\ marker.tx = pub.seq + 1 /\ marker.seq = pub.seq + 1
  BY <1>2, AcknowledgedState
<1>5. next \in [{} -> Contents]
  OBVIOUS
<1>6. /\ JournalOK' /\ JournalFits' /\ PhaseFits' /\ StoresFit' /\ Quiet
      /\ todo' \subseteq Stores /\ phase' = "apply" /\ caller' = d
      /\ journal'.next = next /\ journal'.marker = marker
      /\ UNCHANGED <<disk, pub, drain, acking, history>>
  <2> HIDE DEF next, marker
  <2> QED  BY <1>1, <1>4, <1>5, PrepareFacts
<1>7. PendingFits'
  <2>1. AcknowledgementOf(e)'
    BY <1>1, <1>6 DEF AcknowledgementOf
  <2> QED  BY <1>1, <1>3, <1>6, <2>1 DEF PendingFits, history
<1>8. IdentitiesFit'
  BY <1>1, <1>6, IdentitiesStay DEF IInv, history
<1>9. dispatched' \in [Ops -> Epochs \cup {Nothing, None}]
      /\ caller' \in Ops \cup {Anon} \cup Drainers \cup {Nothing}
  BY <1>1, <1>6 DEF IInv, TypeOK
<1> HIDE DEF next, marker
<1> QED  BY <1>6, <1>7, <1>8, <1>9, PrepareKeeps

LEMMA PrepareRetireInv ==
  ASSUME IInv, NEW e \in Epochs, NEW n, PrepareRetire(e, n)
  PROVE  IInv' /\ Quiet
<1> DEFINE next == [f \in {e} |-> pub.receipts]
           marker == Retired(pub, e)
<1>1. /\ phase = "idle" /\ journal = Nothing /\ e \notin pub.retired
      /\ pub.epoch = e /\ pub.outbox = {}
      /\ Prepare(Nothing, next, marker) /\ dispatched' = dispatched
  BY DEF PrepareRetire, Ready, Retired
<1>2. pub \in PublicationState /\ pub.seq \in Nat /\ pub.receipts \in Contents /\ e \in Stores /\ e \in Nat
  BY StoreNames DEF IInv, TypeOK, PublicationState, Contents
<1>3. marker \in PublicationState /\ marker.tx = pub.seq + 1 /\ marker.seq = pub.seq + 1
  BY <1>2, RetiredState
<1>4. next \in [{e} -> Contents] /\ {e} \in SUBSET Stores
  BY <1>2
<1>5. /\ JournalOK' /\ JournalFits' /\ PhaseFits' /\ StoresFit' /\ Quiet
      /\ todo' \subseteq Stores /\ phase' = "apply" /\ caller' = Nothing
      /\ journal'.next = next /\ journal'.marker = marker
      /\ UNCHANGED <<disk, pub, drain, acking, history>>
  <2>1. Nothing \notin Drainers
    BY NothingAssumption
  <2> HIDE DEF next, marker
  <2> QED  BY <1>1, <1>3, <1>4, <2>1, PrepareFacts
<1>6. PendingFits'
  <2>1. RetirementOf(e)'
    BY <1>1, <1>5 DEF RetirementOf
  <2> QED  BY <1>1, <1>5, <2>1 DEF PendingFits
<1>7. IdentitiesFit'
  BY <1>1, <1>5, IdentitiesStay DEF IInv, history
<1>8. dispatched' \in [Ops -> Epochs \cup {Nothing, None}]
      /\ caller' \in Ops \cup {Anon} \cup Drainers \cup {Nothing}
  BY <1>1, <1>5 DEF IInv, TypeOK
<1> HIDE DEF next, marker
<1> QED  BY <1>5, <1>6, <1>7, <1>8, PrepareKeeps

-----------------------------------------------------------------------------
(***************************************************************************)
(* Steps that nobody sees                                                  *)
(***************************************************************************)
LEMMA QuietKeeps ==
  ASSUME IInv, Quiet, TypeOK', JournalFits', PhaseFits', StoresFit', PendingFits',
         DrainMoves, UNCHANGED dispatched
  PROVE  IInv'
<1>1. IdentitiesFit'
  BY IdentitiesStay DEF IInv, Quiet
<1>2. EventsFit'
  BY DrainsStay DEF IInv, Quiet
<1>3. ReceiptsAreKept'
  BY KeptStays, StoreNames DEF IInv, Quiet, SameStores
<1> QED  BY <1>1, <1>2, <1>3 DEF IInv

LEMMA NoDrainMoves == ASSUME UNCHANGED <<drain, acking>>  PROVE DrainMoves
  BY DEF DrainMoves

\* Steps of the call that hold the journal: what the journal says of the stores.
LEMMA RecoveredStays ==
  ASSUME TypeOK, JournalFits, UNCHANGED <<pub, journal>>,
         \A f \in Stores : disk'[f] # disk[f] => journal # Nothing /\ f \in DOMAIN journal.next
  PROVE  SameStores
<1> SUFFICES ASSUME NEW f \in Stores  PROVE Recovered(f)' = Recovered(f)
  BY DEF SameStores
<1>1. Committed' <=> Committed
  BY DEF Committed
<1> QED  BY <1>1 DEF Recovered

LEMMA ReplaceInv ==
  ASSUME IInv, NEW f \in Stores, Replace(f)
  PROVE  IInv' /\ Quiet
<1>1. /\ phase = "apply" /\ f \in todo /\ journal # Nothing /\ todo \subseteq DOMAIN journal.next
      /\ disk' = [disk EXCEPT ![f] = journal.next[f]] /\ todo' = todo \ {f}
      /\ UNCHANGED <<pub, journal, phase, caller, drain, acking, dispatched, delivered, done, faults, edits>>
  BY DEF IInv, PhaseFits, Replace, history
<1>2. disk \in [Stores -> Contents] /\ journal.next[f] \in Contents
  BY <1>1 DEF IInv, TypeOK, JournalOK
<1>3. TypeOK' /\ JournalFits' /\ PhaseFits'
  BY <1>1, <1>2 DEF IInv, TypeOK, JournalOK, JournalFits, PhaseFits
<1>4. Quiet
  BY <1>1, <1>2, RecoveredStays DEF IInv, Quiet
<1>5. StoresFit'
  <2>1. DOMAIN journal.next \subseteq Stores
    BY <1>1 DEF IInv, TypeOK, JournalOK
  <2> QED  BY <1>1, <1>2, <2>1 DEF IInv, StoresFit
<1>6. PendingFits'
  BY <1>1, <1>4, PendingStays DEF IInv, Quiet
<1> QED  BY <1>1, <1>3, <1>4, <1>5, <1>6, QuietKeeps, NoDrainMoves

LEMMA RestoreInv ==
  ASSUME IInv, NEW f \in Stores, Restore(f)
  PROVE  IInv' /\ Quiet
<1>1. /\ phase \in {"recover", "undo"} /\ f \in todo /\ journal # Nothing /\ todo \subseteq DOMAIN journal.next
      /\ todo' = todo \ {f}
      /\ UNCHANGED <<pub, journal, phase, caller, drain, acking, dispatched, delivered, done, faults, edits>>
  BY DEF IInv, PhaseFits, Restore, history
<1>2. disk' = [disk EXCEPT ![f] = Recovered(f)]
  BY <1>1 DEF Restore, Recovered
<1>3. disk \in [Stores -> Contents] /\ Recovered(f) \in Contents
  BY RecoveredType DEF IInv, TypeOK
<1>4. TypeOK' /\ JournalFits' /\ PhaseFits'
  BY <1>1, <1>2, <1>3 DEF IInv, TypeOK, JournalOK, JournalFits, PhaseFits
<1>5. Quiet
  BY <1>1, <1>2, <1>3, RecoveredStays DEF IInv, Quiet
<1>6. StoresFit'
  <2>1. DOMAIN journal.next \subseteq Stores
    BY <1>1 DEF IInv, TypeOK, JournalOK
  <2>2. \A g \in DOMAIN journal.next : Recovered(g)' = Recovered(g)
    BY <1>5, <2>1 DEF Quiet, SameStores
  <2> HIDE DEF Recovered
  <2> QED  BY <1>1, <1>2, <1>3, <2>1, <2>2 DEF IInv, StoresFit
<1>7. PendingFits'
  BY <1>1, <1>5, PendingStays DEF IInv, Quiet
<1> QED  BY <1>1, <1>4, <1>5, <1>6, <1>7, QuietKeeps, NoDrainMoves

LEMMA StartRecoveryInv ==
  ASSUME IInv, StartRecovery
  PROVE  IInv' /\ Quiet
<1>1. /\ phase = "idle" /\ journal # Nothing /\ phase' = "recover" /\ todo' = DOMAIN journal.next
      /\ UNCHANGED <<disk, pub, journal, caller, drain, acking, dispatched, delivered, done, faults, edits>>
  BY DEF StartRecovery, history
<1>2. TypeOK' /\ JournalFits' /\ PhaseFits' /\ StoresFit' /\ PendingFits'
  BY <1>1 DEF IInv, TypeOK, JournalOK, JournalFits, PhaseFits, StoresFit, PendingFits
<1>3. Quiet
  BY <1>1, RecoveredStays DEF IInv, Quiet
<1> QED  BY <1>1, <1>2, <1>3, QuietKeeps, NoDrainMoves

\* The journal goes when every store holds what it says.
LEMMA JournalRemoved ==
  ASSUME IInv, phase # "idle", todo = {}, phase = "apply" => FALSE, NEW ok \in BOOLEAN, EndCall(ok),
         journal' = Nothing, UNCHANGED <<disk, pub, dispatched, history>>
  PROVE  IInv' /\ Quiet
<1>1. /\ phase' = "idle" /\ caller' = Nothing /\ todo' = {}
      /\ drain' \in [Drainers -> SUBSET Nat] /\ acking' \subseteq Drainers
      /\ DrainMoves /\ caller' \notin Drainers
  BY EndCallFacts DEF IInv
<1>2. TypeOK' /\ JournalFits' /\ PhaseFits' /\ StoresFit' /\ PendingFits'
  BY <1>1 DEF IInv, TypeOK, JournalOK, JournalFits, PhaseFits, StoresFit, PendingFits, history
<1>3. journal # Nothing /\ phase \in {"seal", "recover", "undo"}
  BY DEF IInv, TypeOK, PhaseFits
<1>4. SameStores
  <2> SUFFICES ASSUME NEW f \in Stores  PROVE Recovered(f)' = Recovered(f)
    BY DEF SameStores
  <2>1. Recovered(f)' = disk[f]
    BY DEF Recovered
  <2>2. CASE f \notin DOMAIN journal.next
    BY <2>1, <2>2 DEF Recovered
  <2>3. CASE f \in DOMAIN journal.next /\ phase = "seal"
    BY <1>3, <2>1, <2>3, RecoveredIs DEF IInv, PhaseFits, StoresFit
  <2>4. CASE f \in DOMAIN journal.next /\ phase # "seal"
    BY <1>3, <2>1, <2>4 DEF IInv, StoresFit
  <2> QED  BY <2>2, <2>3, <2>4
<1> QED  BY <1>1, <1>2, <1>4, QuietKeeps DEF Quiet, history

LEMMA SealInv ==
  ASSUME IInv, Seal
  PROVE  IInv' /\ Quiet
<1>1. phase = "seal" /\ todo = {}
  BY DEF Seal, IInv, PhaseFits
<1> QED  BY <1>1, JournalRemoved DEF Seal

LEMMA FinishRecoveryInv ==
  ASSUME IInv, FinishRecovery
  PROVE  IInv' /\ Quiet
<1>1. journal # Nothing /\ phase \in {"recover", "undo"} /\ todo = {}
  BY DEF FinishRecovery, IInv, PhaseFits
<1>2. pub' = pub
  BY <1>1, CommittedIff DEF FinishRecovery, IInv
<1> QED  BY <1>1, <1>2, JournalRemoved DEF FinishRecovery

LEMMA FailInv ==
  ASSUME IInv, Fail
  PROVE  IInv' /\ Quiet
<1>1. /\ faults' \in Nat
      /\ UNCHANGED <<disk, pub, journal, dispatched, delivered, done, edits>>
  BY DEF Fail, IInv, TypeOK
<1>2. Quiet
  BY <1>1, RecoveredStays DEF IInv, Quiet
<1>3. CASE /\ phase \in {"apply", "seal"} /\ phase' = "undo" /\ todo' = DOMAIN journal.next
           /\ UNCHANGED <<caller, drain, acking>>
  <2>1. TypeOK' /\ JournalFits' /\ PhaseFits' /\ StoresFit' /\ PendingFits'
    BY <1>1, <1>3 DEF IInv, TypeOK, JournalOK, JournalFits, PhaseFits, StoresFit, PendingFits
  <2> QED  BY <1>1, <1>2, <1>3, <2>1, QuietKeeps, NoDrainMoves
<1>4. CASE phase \in {"recover", "undo"} /\ EndCall(FALSE)
  <2>1. /\ phase' = "idle" /\ caller' = Nothing /\ todo' = {}
        /\ drain' \in [Drainers -> SUBSET Nat] /\ acking' \subseteq Drainers
        /\ DrainMoves /\ caller' \notin Drainers
    BY <1>4, EndCallFacts DEF IInv
  <2>2. TypeOK' /\ JournalFits' /\ PhaseFits' /\ StoresFit' /\ PendingFits'
    BY <1>1, <2>1 DEF IInv, TypeOK, JournalOK, JournalFits, PhaseFits, StoresFit, PendingFits
  <2> QED  BY <1>1, <1>2, <2>1, <2>2, QuietKeeps
<1> QED  BY <1>3, <1>4 DEF Fail

LEMMA CrashInv ==
  ASSUME IInv, Crash
  PROVE  IInv' /\ Quiet
<1>1. /\ faults' \in Nat /\ phase' = "idle" /\ caller' = Nothing /\ todo' = {}
      /\ drain' = [d \in Drainers |-> {}] /\ acking' = {}
      /\ UNCHANGED <<disk, pub, journal, dispatched, delivered, done, edits>>
  BY DEF Crash, IInv, TypeOK
<1>2. Quiet
  BY <1>1, RecoveredStays DEF IInv, Quiet
<1>3. TypeOK' /\ JournalFits' /\ PhaseFits' /\ StoresFit' /\ PendingFits'
  BY <1>1, NothingAssumption DEF IInv, TypeOK, JournalOK, JournalFits, PhaseFits, StoresFit, PendingFits
<1>4. DrainMoves
  BY <1>1 DEF DrainMoves
<1> QED  BY <1>1, <1>2, <1>3, <1>4, QuietKeeps

-----------------------------------------------------------------------------
(***************************************************************************)
(* The drains, and other programs                                          *)
(***************************************************************************)
\* Drain d goes on, stops or forgets an event while nothing else changes.
DrainsOnly(d) ==
  /\ d # caller
  /\ drain' \in [Drainers -> SUBSET Nat] /\ acking' \subseteq Drainers
  /\ \A c \in Drainers \ {d} : c \in acking' <=> c \in acking
  /\ UNCHANGED <<disk, pub, journal, phase, caller, todo, dispatched, done, faults, edits>>

LEMMA DrainsOnlyFacts ==
  ASSUME IInv, NEW d \in Drainers, DrainsOnly(d), delivered \subseteq delivered', delivered' \subseteq Nat
  PROVE  /\ TypeOK' /\ JournalFits' /\ PhaseFits' /\ StoresFit' /\ PendingFits'
         /\ IdentitiesFit' /\ ReceiptsAreKept' /\ SameStores
<1>1. UNCHANGED <<disk, pub, journal, phase, caller, todo, dispatched, done, faults, edits>>
  BY DEF DrainsOnly
<1>2. SameStores
  BY <1>1, RecoveredStays DEF IInv
<1>3. TypeOK' /\ JournalFits'
  BY <1>1 DEF DrainsOnly, IInv, TypeOK, JournalOK, JournalFits
<1>4. PhaseFits'
  BY <1>1 DEF DrainsOnly, IInv, PhaseFits
<1>5. StoresFit'
  <2>1. \A f \in DOMAIN journal.next : phase # "idle" => Recovered(f)' = Recovered(f)
    BY <1>2 DEF IInv, TypeOK, JournalOK, PhaseFits, SameStores
  <2> HIDE DEF Recovered
  <2> QED  BY <1>1, <2>1 DEF IInv, StoresFit
<1>6. PendingFits'
  BY <1>1, <1>2, PendingStays DEF IInv
<1>7. IdentitiesFit' /\ ReceiptsAreKept'
  BY <1>1, <1>2, IdentitiesStay, KeptStays, StoreNames DEF IInv, SameStores
<1> QED  BY <1>2, <1>3, <1>4, <1>5, <1>6, <1>7

LEMMA StartDrainInv ==
  ASSUME IInv, NEW d \in Drainers, StartDrain(d)
  PROVE  IInv' /\ Quiet
<1> DEFINE earlier(e) == {x \in pub.outbox : x < e}
           taken == {e \in pub.outbox : Cardinality(earlier(e)) < DrainLimit}
<1>1. /\ phase = "idle" /\ drain[d] = {} /\ drain' = [drain EXCEPT ![d] = taken]
      /\ UNCHANGED <<disk, pub, journal, phase, caller, todo, acking, dispatched, delivered, done, faults, edits>>
  BY DEF StartDrain, history
<1>2. /\ pub.seq \in Nat /\ pub.outbox \subseteq 1..pub.seq /\ taken \subseteq pub.outbox
      /\ drain \in [Drainers -> SUBSET Nat]
  BY DEF IInv, TypeOK, PublicationState, EventsFit
<1>3. ASSUME NEW e \in taken, NEW y \in pub.outbox, y < e  PROVE y \in taken
  <2>1. IsFiniteSet(earlier(e))
    <3>1. 1 \in Int /\ pub.seq \in Int /\ earlier(e) \subseteq 1..pub.seq
      BY <1>2
    <3>2. IsFiniteSet(1..pub.seq)
      BY <3>1, FS_Interval
    <3> HIDE DEF earlier
    <3> QED  BY <3>1, <3>2, FS_Subset
  <2>2. earlier(y) \subseteq earlier(e)
    BY <1>2, <1>3
  <2>3. /\ Cardinality(earlier(y)) \in Nat /\ Cardinality(earlier(e)) \in Nat
        /\ Cardinality(earlier(y)) <= Cardinality(earlier(e))
    BY <2>1, <2>2, FS_Subset, FS_CardinalityType
  <2> QED  BY <2>3, BoundsAssumption
<1> HIDE DEF taken
<1>4. d # caller
  BY <1>1, NothingAssumption DEF IInv, PhaseFits
<1>5. DrainsOnly(d)
  BY <1>1, <1>2, <1>4 DEF DrainsOnly, IInv, TypeOK
<1>6. d \notin acking /\ drain'[d] = taken /\ \A c \in Drainers \ {d} : drain'[c] = drain[c]
  BY <1>1, <1>2 DEF IInv, EventsFit
<1>7. EventsFit'
  BY <1>1, <1>2, <1>3, <1>6 DEF IInv, EventsFit
<1>8. delivered' \subseteq Nat
  BY <1>1 DEF IInv, TypeOK
<1> QED  BY <1>1, <1>5, <1>7, <1>8, DrainsOnlyFacts DEF IInv, Quiet

LEMMA DrainFailsInv ==
  ASSUME IInv, NEW d \in Drainers, DrainFails(d)
  PROVE  IInv' /\ Quiet
<1>1. /\ caller # d /\ drain' = [drain EXCEPT ![d] = {}] /\ acking' = acking \ {d}
      /\ UNCHANGED <<disk, pub, journal, phase, caller, todo, dispatched, delivered, done, faults, edits>>
  BY DEF DrainFails, history
<1>2. DrainsOnly(d) /\ DrainMoves /\ delivered' \subseteq Nat
  BY <1>1 DEF DrainsOnly, DrainMoves, IInv, TypeOK
<1> QED  BY <1>1, <1>2, DrainsOnlyFacts, DrainsStay DEF IInv, Quiet

LEMMA AcknowledgedBeforeInv ==
  ASSUME IInv, NEW d \in Drainers, AcknowledgedBefore(d)
  PROVE  IInv' /\ Quiet
<1>1. /\ phase = "idle" /\ d \in acking
      /\ drain' = [drain EXCEPT ![d] = @ \ {Min(@)}] /\ acking' = acking \ {d}
      /\ UNCHANGED <<disk, pub, journal, phase, caller, todo, dispatched, delivered, done, faults, edits>>
  BY DEF AcknowledgedBefore, history
<1>2. d # caller
  BY <1>1, NothingAssumption DEF IInv, PhaseFits
<1>3. DrainsOnly(d) /\ DrainMoves /\ delivered' \subseteq Nat
  BY <1>1, <1>2 DEF DrainsOnly, DrainMoves, IInv, TypeOK
<1> QED  BY <1>1, <1>3, DrainsOnlyFacts, DrainsStay DEF IInv, Quiet

\* The first event of a drain is pending or was delivered, and all younger ones wait.
LEMMA FirstEvent ==
  ASSUME IInv, NEW d \in Drainers, drain[d] # {}, NEW e, e = Min(drain[d])
  PROVE  /\ e \in drain[d] /\ e \in 1..pub.seq /\ pub.seq \in Nat
         /\ e \notin delivered => /\ \A x \in delivered : x < e
                                  /\ \A y \in pub.outbox \ delivered : e <= y
<1>1. drain[d] \in SUBSET Nat /\ pub.seq \in Nat /\ drain[d] \subseteq 1..pub.seq
  BY DEF IInv, TypeOK, PublicationState, EventsFit
<1>2. e \in drain[d] /\ \A y \in drain[d] : e <= y
  BY <1>1, MinIn
<1>3. ASSUME e \notin delivered  PROVE e \in pub.outbox /\ \A x \in delivered : x < e
  BY <1>2, <1>3 DEF IInv, EventsFit
<1>4. ASSUME NEW y \in pub.outbox \ delivered  PROVE e <= y
  <2>1. y \in Nat /\ e \in Nat
    BY <1>1, <1>2 DEF IInv, EventsFit
  <2>2. y < e => y \in drain[d]
    BY <1>2 DEF IInv, EventsFit
  <2> QED  BY <1>2, <2>1, <2>2
<1> QED  BY <1>1, <1>2, <1>3, <1>4

LEMMA DeliverInv ==
  ASSUME IInv, NEW d \in Drainers, Deliver(d)
  PROVE  IInv' /\ SameStores
<1>0. PICK e : e = Min(drain[d])
  OBVIOUS
<1>1. /\ drain[d] # {} /\ delivered' = delivered \cup {e} /\ acking' = acking \cup {d}
      /\ UNCHANGED <<disk, pub, journal, phase, caller, todo, drain, dispatched, done, faults, edits>>
  BY <1>0 DEF Deliver
<1>2. d # caller
  BY DEF Deliver, IInv, PhaseFits
<1>3. /\ e \in drain[d] /\ e \in 1..pub.seq /\ pub.seq \in Nat
      /\ e \notin delivered => /\ \A x \in delivered : x < e
                               /\ \A y \in pub.outbox \ delivered : e <= y
  BY <1>0, <1>1, FirstEvent
<1>4. DrainsOnly(d) /\ delivered' \subseteq Nat /\ delivered \subseteq delivered'
  BY <1>1, <1>2, <1>3 DEF DrainsOnly, IInv, TypeOK
<1>5. EventsFit'
  <2>1. \A x \in delivered', y \in pub.outbox \ delivered' : x < y
    <3> TAKE x \in delivered', y \in pub.outbox \ delivered'
    <3>1. y \in pub.outbox \ delivered /\ y # e /\ y \in Nat
      BY <1>1 DEF IInv, EventsFit, TypeOK, PublicationState
    <3>2. CASE x \in delivered
      BY <3>1, <3>2 DEF IInv, EventsFit
    <3>3. CASE x \notin delivered
      BY <1>1, <1>3, <3>1, <3>3
    <3> QED  BY <3>2, <3>3
  <2>2. \A c \in Drainers : c \in acking' => drain[c] # {} /\ Min(drain[c]) \in delivered'
    BY <1>0, <1>1 DEF IInv, EventsFit
  <2>3. pub.outbox \cup delivered' \subseteq 1..pub.seq
    BY <1>1, <1>3 DEF IInv, EventsFit
  <2>4. \A c \in Drainers : /\ drain[c] \subseteq 1..pub.seq /\ drain[c] \ delivered' \subseteq pub.outbox
                            /\ \A x \in drain[c], y \in pub.outbox \ delivered' : y < x => y \in drain[c]
    BY <1>4 DEF IInv, EventsFit
  <2> QED  BY <1>1, <2>1, <2>2, <2>3, <2>4 DEF EventsFit
<1> QED  BY <1>1, <1>4, <1>5, DrainsOnlyFacts DEF IInv

LEMMA EditInv ==
  ASSUME IInv, NEW f \in Files, NEW v \in Values \cup {None}, Edit(f, v)
  PROVE  /\ IInv'
         /\ \A g \in Stores : Recovered(g)' = IF g = f THEN v ELSE Recovered(g)
<1>1. /\ phase = "idle" /\ journal = Nothing /\ disk' = [disk EXCEPT ![f] = v] /\ edits' = edits + 1
      /\ UNCHANGED <<pub, journal, phase, caller, todo, drain, acking, dispatched, delivered, done, faults>>
  BY DEF Edit, volatile
<1>2. f \in Stores /\ f \notin Epochs /\ v \in Contents /\ disk \in [Stores -> Contents]
  BY StoreNames DEF Contents, IInv, TypeOK
<1>3. \A g \in Stores : Recovered(g)' = IF g = f THEN v ELSE Recovered(g)
  BY <1>1, <1>2 DEF Recovered
<1>4. TypeOK'
  BY <1>1, <1>2 DEF IInv, TypeOK, JournalOK
<1>5. JournalFits' /\ PhaseFits' /\ StoresFit' /\ PendingFits'
  BY <1>1 DEF IInv, JournalFits, PhaseFits, StoresFit, PendingFits
<1>6. IdentitiesFit'
  BY <1>1, IdentitiesStay DEF IInv
<1>7. EventsFit'
  BY <1>1, DrainsStay, NoDrainMoves DEF IInv
<1>8. ReceiptsAreKept'
  <2>1. \A g \in Epochs : Recovered(g)' = Recovered(g)
    BY <1>2, <1>3, StoreNames
  <2> QED  BY <1>1, <2>1, KeptStays DEF IInv
<1> QED  BY <1>3, <1>4, <1>5, <1>6, <1>7, <1>8 DEF IInv

-----------------------------------------------------------------------------
(***************************************************************************)
(* The commit point                                                        *)
(***************************************************************************)
LEMMA MarkerFacts ==
  ASSUME IInv, PublishMarker
  PROVE  /\ journal # Nothing /\ pub' = journal.marker /\ done' = done \cup ({caller} \cap Ops)
         /\ UNCHANGED <<disk, journal, caller, drain, acking, dispatched, delivered>>
         /\ TypeOK' /\ JournalFits' /\ PhaseFits' /\ StoresFit' /\ PendingFits'
         /\ pub'.seq = pub.seq + 1 /\ pub.seq \in Nat
         /\ DOMAIN journal.next \subseteq Stores
         /\ \A f \in Stores : Recovered(f)' = IF f \in DOMAIN journal.next THEN journal.next[f] ELSE Recovered(f)
<1>1. /\ phase = "apply" /\ todo = {} /\ pub' = journal.marker /\ phase' = "seal"
      /\ done' = done \cup ({caller} \cap Ops)
      /\ UNCHANGED <<disk, journal, caller, todo, drain, acking, dispatched, delivered, faults, edits>>
  BY DEF PublishMarker
<1>2. /\ journal # Nothing /\ pub = journal.before /\ pub.tx = pub.seq /\ pub \in PublicationState
      /\ journal.marker \in PublicationState /\ DOMAIN journal.next \subseteq Stores
  BY <1>1 DEF IInv, PhaseFits, TypeOK, JournalOK
<1>3. /\ journal.marker.seq = pub.seq + 1 /\ journal.marker.tx = pub.seq + 1 /\ pub.seq \in Nat
      /\ journal.tx = journal.marker.tx
  BY <1>2 DEF IInv, JournalFits, PublicationState
<1>4. TypeOK'
  BY <1>1, <1>2 DEF IInv, TypeOK, JournalOK
<1>5. JournalFits' /\ PhaseFits' /\ StoresFit' /\ PendingFits'
  BY <1>1, <1>2, <1>3 DEF IInv, JournalFits, PhaseFits, StoresFit, PendingFits
<1>6. ASSUME NEW f \in Stores
      PROVE  Recovered(f)' = IF f \in DOMAIN journal.next THEN journal.next[f] ELSE Recovered(f)
  <2>1. Committed'
    BY <1>1, <1>3 DEF Committed
  <2> QED  BY <1>1, <1>2, <2>1 DEF Recovered
<1> QED  BY <1>1, <1>2, <1>3, <1>4, <1>5, <1>6

LEMMA CommitInv ==
  ASSUME IInv, PublishMarker, NEW p \in Payloads, CommitOf(p)
  PROVE  IInv'
<1> DEFINE w == ToChange(p)
           receipt == [op |-> caller, payload |-> p, tx |-> pub.seq + 1]
<1>1. /\ pub' = journal.marker /\ done' = done \cup ({caller} \cap Ops)
      /\ UNCHANGED <<disk, journal, caller, drain, acking, dispatched, delivered>>
      /\ TypeOK' /\ JournalFits' /\ PhaseFits' /\ StoresFit' /\ PendingFits'
      /\ pub'.seq = pub.seq + 1 /\ pub.seq \in Nat
      /\ \A f \in Stores : Recovered(f)' = IF f \in DOMAIN journal.next THEN journal.next[f] ELSE Recovered(f)
  BY MarkerFacts
<1>2. /\ pub'.receipts = pub.receipts \cup {receipt} /\ pub'.retired = pub.retired
      /\ pub'.epoch = (IF pub.epoch = 0 THEN 1 ELSE pub.epoch)
      /\ pub'.outbox \subseteq pub.outbox \cup {pub.seq + 1} /\ pub.outbox \subseteq pub'.outbox
      /\ caller \in Ops => dispatched[caller] \in {Nothing, pub'.epoch}
      /\ DOMAIN journal.next \subseteq Files /\ pub.epoch \in Nat
  BY <1>1, PayloadAssumption DEF CommitOf, ToChange, IInv, TypeOK, PublicationState
<1>3. IdentitiesFit'
  <2>1. \A o \in Ops : dispatched[o] \in {None, Nothing, 1} \cup 1..pub'.epoch
    BY <1>2 DEF IInv, IdentitiesFit
  <2>2. ASSUME NEW o \in done
        PROVE  \/ HasReceipt(o)' /\ dispatched[o] \in {Nothing, pub'.epoch}
               \/ pub.retired # {} /\ dispatched[o] \in {Nothing} \cup pub.retired
    <3>1. o \in Ops /\ dispatched[o] # None /\ dispatched[o] # 0
      BY StoreNames, NothingAssumption, NamesAssumption DEF IInv, IdentitiesFit, TypeOK
    <3>2. HasReceipt(o) => HasReceipt(o)'
      BY <1>2 DEF HasReceipt
    <3> QED  BY <1>2, <3>1, <3>2 DEF IInv, IdentitiesFit
  <2>3. ASSUME caller \in Ops
        PROVE  HasReceipt(caller)' /\ dispatched[caller] \in {Nothing, pub'.epoch} /\ dispatched[caller] # None
    <3>1. pub'.epoch \in Nat
      BY <1>2
    <3>2. receipt \in pub'.receipts /\ receipt.op = caller
      BY <1>2
    <3>3. \E x \in pub'.receipts : x.op = caller'
      BY <1>1, <3>2
    <3>4. caller' = caller /\ caller # Anon
      BY <1>1, <2>3, NamesAssumption
    <3>5. HasReceipt(caller)'
      BY <3>3, <3>4 DEF HasReceipt
    <3> QED  BY <1>2, <2>3, <3>1, <3>5, NothingAssumption, NamesAssumption
  <2>4. \A o \in done : dispatched[o] # None
    BY DEF IInv, IdentitiesFit
  <2>5. ASSUME NEW o \in done'
        PROVE  /\ dispatched[o] # None
               /\ \/ HasReceipt(o)' /\ dispatched[o] \in {Nothing, pub'.epoch}
                  \/ pub.retired # {} /\ dispatched[o] \in {Nothing} \cup pub.retired
    <3>1. CASE o \in done
      BY <2>2, <2>4, <3>1
    <3>2. CASE o \notin done
      <4>1. o = caller /\ caller \in Ops /\ caller' = caller
        BY <1>1, <3>2
      <4>2. HasReceipt(o)'
        BY <2>3, <4>1
      <4> QED  BY <2>3, <4>1, <4>2
    <3> QED  BY <3>1, <3>2
  <2> QED  BY <1>1, <1>2, <2>1, <2>5 DEF IInv, IdentitiesFit
<1>4. EventsFit'
  <2>1. pub'.outbox \cup delivered \subseteq 1..pub'.seq
    BY <1>1, <1>2 DEF IInv, EventsFit
  <2>2. \A x \in delivered, y \in pub'.outbox \ delivered : x < y
    BY <1>1, <1>2 DEF IInv, EventsFit
  <2>3. ASSUME NEW d \in Drainers
        PROVE  /\ drain[d] \subseteq 1..pub'.seq
               /\ d \in acking => drain[d] # {} /\ Min(drain[d]) \in delivered
               /\ drain[d] \ delivered \subseteq pub'.outbox
               /\ \A e \in drain[d], y \in pub'.outbox \ delivered : y < e => y \in drain[d]
    BY <1>1, <1>2 DEF IInv, EventsFit
  <2> QED  BY <1>1, <2>1, <2>2, <2>3 DEF EventsFit
<1>5. ReceiptsAreKept'
  <2> SUFFICES ASSUME NEW o \in done'
               PROVE  \E x \in pub'.receipts \cup UNION {Recovered(e)' : e \in pub'.retired} : x.op = o
    BY DEF ReceiptsAreKept
  <2>1. ASSUME NEW e \in pub.retired  PROVE Recovered(e)' = Recovered(e)
    <3>1. e \in Stores /\ e \notin DOMAIN journal.next
      BY <1>2, StoreNames DEF IInv, IdentitiesFit
    <3> QED  BY <1>1, <3>1
  <2>2. CASE o \in done
    <3>1. PICK x \in pub.receipts \cup UNION {Recovered(e) : e \in pub.retired} : x.op = o
      BY <2>2 DEF IInv, ReceiptsAreKept
    <3>2. x \in pub'.receipts \cup UNION {Recovered(e)' : e \in pub'.retired}
      BY <1>2, <2>1
    <3> QED  BY <3>1, <3>2
  <2>3. CASE o \notin done
    <3>1. o = caller
      BY <1>1, <2>3
    <3>2. receipt \in pub'.receipts /\ receipt.op = caller
      BY <1>2
    <3> QED  BY <3>1, <3>2
  <2> QED  BY <2>2, <2>3
<1> QED  BY <1>1, <1>3, <1>4, <1>5 DEF IInv

LEMMA AcknowledgeInv ==
  ASSUME IInv, PublishMarker, NEW e \in pub.outbox \cap delivered, AcknowledgementOf(e)
  PROVE  IInv' /\ SameStores /\ done' = done
<1>1. /\ pub' = journal.marker /\ done' = done \cup ({caller} \cap Ops)
      /\ UNCHANGED <<disk, journal, caller, drain, acking, dispatched, delivered>>
      /\ TypeOK' /\ JournalFits' /\ PhaseFits' /\ StoresFit' /\ PendingFits'
      /\ pub'.seq = pub.seq + 1 /\ pub.seq \in Nat
      /\ \A f \in Stores : Recovered(f)' = IF f \in DOMAIN journal.next THEN journal.next[f] ELSE Recovered(f)
  BY MarkerFacts
<1>2. /\ pub'.receipts = pub.receipts /\ pub'.retired = pub.retired
      /\ pub'.epoch = pub.epoch /\ pub'.outbox = pub.outbox \ {e}
  BY <1>1, AcknowledgedState DEF AcknowledgementOf, IInv, TypeOK
<1>3. done' = done /\ DOMAIN journal.next = {}
  BY <1>1, NamesAssumption DEF AcknowledgementOf
<1>4. SameStores
  BY <1>1, <1>3 DEF SameStores
<1>5. IdentitiesFit'
  BY <1>1, <1>2, <1>3 DEF IInv, IdentitiesFit, HasReceipt
<1>6. EventsFit'
  <2>1. pub'.outbox \cup delivered \subseteq 1..pub'.seq
    BY <1>1, <1>2 DEF IInv, EventsFit
  <2>2. pub'.outbox \ delivered = pub.outbox \ delivered
    BY <1>2
  <2>3. ASSUME NEW d \in Drainers
        PROVE  drain[d] \subseteq 1..pub'.seq /\ drain[d] \ delivered \subseteq pub'.outbox
    BY <1>1, <1>2 DEF IInv, EventsFit
  <2> QED  BY <1>1, <2>1, <2>2, <2>3 DEF IInv, EventsFit
<1>7. ReceiptsAreKept'
  <2>1. \A c \in pub.retired : Recovered(c)' = Recovered(c)
    BY <1>4, StoreNames DEF IInv, IdentitiesFit, SameStores
  <2>2. {Recovered(c)' : c \in pub'.retired} = {Recovered(c) : c \in pub.retired}
    BY <1>2, <2>1
  <2> QED  BY <1>2, <1>3, <2>2 DEF IInv, ReceiptsAreKept
<1> QED  BY <1>1, <1>3, <1>4, <1>5, <1>6, <1>7 DEF IInv

LEMMA RetireInv ==
  ASSUME IInv, PublishMarker, NEW e \in Epochs \ pub.retired, RetirementOf(e)
  PROVE  IInv' /\ done' = done /\ \A f \in Files : Recovered(f)' = Recovered(f)
<1>1. /\ pub' = journal.marker /\ done' = done \cup ({caller} \cap Ops)
      /\ UNCHANGED <<disk, journal, caller, drain, acking, dispatched, delivered>>
      /\ TypeOK' /\ JournalFits' /\ PhaseFits' /\ StoresFit' /\ PendingFits'
      /\ pub'.seq = pub.seq + 1 /\ pub.seq \in Nat
      /\ \A f \in Stores : Recovered(f)' = IF f \in DOMAIN journal.next THEN journal.next[f] ELSE Recovered(f)
  BY MarkerFacts
<1>2. pub \in PublicationState /\ e \in Nat /\ e \in Stores /\ e \notin Files /\ pub.receipts \in Contents
  BY StoreNames DEF IInv, TypeOK, PublicationState, Contents
<1>3. /\ pub'.receipts = {} /\ pub'.retired = pub.retired \cup {e} /\ pub.epoch = e
      /\ pub'.epoch = pub.epoch + 1 /\ pub'.outbox = pub.outbox /\ pub.outbox = {}
  <2>1. pub' = Retired(pub, e) /\ pub.epoch = e /\ pub.outbox = {}
    BY <1>1 DEF RetirementOf
  <2>2. /\ Retired(pub, e).receipts = {} /\ Retired(pub, e).retired = pub.retired \cup {e}
        /\ Retired(pub, e).epoch = pub.epoch + 1 /\ Retired(pub, e).outbox = pub.outbox
    BY <1>2, RetiredState
  <2> QED  BY <2>1, <2>2
<1>4. done' = done /\ DOMAIN journal.next = {e} /\ journal.next[e] = pub.receipts
  BY <1>1, NothingAssumption DEF RetirementOf
<1>5. \A f \in Stores : Recovered(f)' = IF f = e THEN pub.receipts ELSE Recovered(f)
  BY <1>1, <1>4
<1>6. IdentitiesFit'
  <2>1. \A o \in Ops : dispatched[o] \in {None, Nothing, 1} \cup 1..pub'.epoch
    BY <1>2, <1>3 DEF IInv, IdentitiesFit
  <2>2. \A o \in done : dispatched[o] # None /\ dispatched[o] \in {Nothing} \cup pub'.retired
    BY <1>3 DEF IInv, IdentitiesFit
  <2>3. pub'.retired # {} /\ pub'.retired \subseteq Epochs
    BY <1>3 DEF IInv, IdentitiesFit
  <2> QED  BY <1>1, <1>4, <2>1, <2>2, <2>3 DEF IdentitiesFit
<1>7. EventsFit'
  BY <1>1, <1>3 DEF IInv, EventsFit
<1>8. ReceiptsAreKept'
  <2> SUFFICES ASSUME NEW o \in done
               PROVE  \E x \in pub'.receipts \cup UNION {Recovered(c)' : c \in pub'.retired} : x.op = o
    BY <1>4 DEF ReceiptsAreKept
  <2>1. PICK x \in pub.receipts \cup UNION {Recovered(c) : c \in pub.retired} : x.op = o
    BY DEF IInv, ReceiptsAreKept
  <2>2. x \in UNION {Recovered(c)' : c \in pub'.retired}
    <3>1. CASE x \in pub.receipts
      <4>1. Recovered(e)' = pub.receipts /\ e \in pub'.retired
        BY <1>2, <1>3, <1>5
      <4> QED  BY <3>1, <4>1
    <3>2. ASSUME NEW c \in pub.retired, x \in Recovered(c)
          PROVE x \in UNION {Recovered(b)' : b \in pub'.retired}
      <4>1. c # e /\ c \in Stores /\ c \in pub'.retired
        BY <1>3, StoreNames DEF IInv, IdentitiesFit
      <4>2. Recovered(c)' = Recovered(c)
        BY <1>5, <4>1
      <4> QED  BY <3>2, <4>1, <4>2
    <3> QED  BY <2>1, <3>1, <3>2
  <2> QED  BY <2>1, <2>2
<1>9. \A f \in Files : Recovered(f)' = Recovered(f)
  BY <1>2, <1>5, StoreNames
<1> QED  BY <1>1, <1>4, <1>6, <1>7, <1>8, <1>9 DEF IInv

LEMMA PublishMarkerInv ==
  ASSUME IInv, PublishMarker
  PROVE  IInv'
<1>1. phase = "apply"
  BY DEF PublishMarker
<1> QED  BY <1>1, CommitInv, AcknowledgeInv, RetireInv DEF IInv, PendingFits

-----------------------------------------------------------------------------
(***************************************************************************)
(* The invariant                                                           *)
(***************************************************************************)
LEMMA InitInv == Init => IInv
<1> SUFFICES ASSUME Init  PROVE IInv
  OBVIOUS
<1>1. /\ disk \in [Stores -> Values \cup {None}] /\ pub = EmptyState /\ journal = Nothing
      /\ phase = "idle" /\ caller = Nothing /\ todo = {}
      /\ drain = [d \in Drainers |-> {}] /\ acking = {} /\ dispatched = [o \in Ops |-> None]
      /\ delivered = {} /\ done = {} /\ faults = 0 /\ edits = 0
  BY DEF Init
<1>2. EmptyState \in PublicationState
  <2>1. [f \in Stores |-> None] \in [Stores -> Contents]
    BY DEF Contents
  <2> QED  BY <2>1 DEF EmptyState, PublicationState
<1>3. disk \in [Stores -> Contents]
  BY <1>1 DEF Contents
<1>4. TypeOK
  BY <1>1, <1>2, <1>3 DEF TypeOK, JournalOK
<1>5. JournalFits /\ StoresFit /\ PendingFits /\ ReceiptsAreKept
  BY <1>1 DEF JournalFits, StoresFit, PendingFits, ReceiptsAreKept
<1>6. PhaseFits
  BY <1>1, NothingAssumption DEF PhaseFits, EmptyState
<1>7. IdentitiesFit /\ EventsFit
  BY <1>1 DEF IdentitiesFit, EventsFit, EmptyState
<1> QED  BY <1>4, <1>5, <1>6, <1>7 DEF IInv

LEMMA StutterInv ==
  ASSUME IInv, UNCHANGED vars
  PROVE  IInv' /\ Quiet
<1>1. UNCHANGED <<disk, pub, journal, phase, caller, todo, drain, acking, dispatched, delivered, done, faults, edits>>
  BY DEF vars, volatile, history
<1>2. Quiet
  BY <1>1, RecoveredStays DEF IInv, Quiet
<1>3. TypeOK' /\ JournalFits' /\ PhaseFits'
  BY <1>1 DEF IInv, TypeOK, JournalOK, JournalFits, PhaseFits
<1>4. StoresFit'
  <2>1. \A f \in DOMAIN journal.next : phase # "idle" => Recovered(f)' = Recovered(f)
    BY <1>2 DEF IInv, TypeOK, JournalOK, PhaseFits, Quiet, SameStores
  <2> HIDE DEF Recovered
  <2> QED  BY <1>1, <2>1 DEF IInv, StoresFit
<1>5. PendingFits'
  BY <1>1, <1>2, PendingStays DEF IInv, Quiet
<1> QED  BY <1>1, <1>2, <1>3, <1>4, <1>5, QuietKeeps, NoDrainMoves

\* Every step but the commit point, a delivery and an edit is unseen.
LEMMA QuietSteps ==
  ASSUME IInv, [Next]_vars
  PROVE  \/ IInv' /\ Quiet
         \/ PublishMarker
         \/ \E d \in Drainers : Deliver(d)
         \/ \E f \in Files, v \in Values \cup {None} : Edit(f, v)
<1>1. CASE UNCHANGED vars
  BY <1>1, StutterInv
<1>2. CASE Next
  BY <1>2, PrepareCommitInv, PrepareRetireInv, PrepareAcknowledgeInv, ReplaceInv, RestoreInv, SealInv,
     StartRecoveryInv, FinishRecoveryInv, FailInv, CrashInv, StartDrainInv, AcknowledgedBeforeInv, DrainFailsInv
     DEF Next
<1> QED  BY <1>1, <1>2

LEMMA NextInv == IInv /\ [Next]_vars => IInv'
  BY QuietSteps, PublishMarkerInv, DeliverInv, EditInv

THEOREM Invariance == Spec => []IInv
<1> QED  BY InitInv, NextInv, PTL DEF Spec

\* The variables keep their types through commits, acknowledgements, retirements,
\* faults, recoveries, drains and edits.
THEOREM TypeCorrect == Spec => []TypeOK
<1>1. IInv => TypeOK
  BY DEF IInv
<1> QED  BY <1>1, Invariance, PTL

\* commitGraphWrites keeps the receipt of every operation that took effect: in the
\* state, or in the archive that retirePublicationEpoch makes of its epoch.
THEOREM ReceiptsAreKeptHolds == Spec => []ReceiptsAreKept
<1>1. IInv => ReceiptsAreKept
  BY DEF IInv
<1> QED  BY <1>1, Invariance, PTL

-----------------------------------------------------------------------------
(***************************************************************************)
(* Events are first delivered in order                                     *)
(***************************************************************************)
LEMMA DeliveryStep ==
  ASSUME IInv, [Next]_vars
  PROVE  [\A e \in delivered' \ delivered : \A x \in delivered : x < e]_vars
<1>1. CASE delivered' = delivered
  BY <1>1
<1>2. CASE \E d \in Drainers : Deliver(d)
  <2>1. PICK d \in Drainers : Deliver(d)
    BY <1>2
  <2>2. PICK e : e = Min(drain[d])
    OBVIOUS
  <2>3. drain[d] # {} /\ delivered' = delivered \cup {e}
    BY <2>1, <2>2 DEF Deliver
  <2>4. e \notin delivered => \A x \in delivered : x < e
    BY <2>2, <2>3, FirstEvent
  <2> QED  BY <2>3, <2>4
<1>3. CASE PublishMarker \/ \E f \in Files, v \in Values \cup {None} : Edit(f, v)
  BY <1>1, <1>3 DEF PublishMarker, Edit
<1> QED  BY <1>1, <1>2, <1>3, QuietSteps DEF Quiet

\* Drains of drainPublicationEvents that overlap, stop half way or are started again
\* never deliver an event for the first time after a younger one.
THEOREM DeliveredInOrderHolds == Spec => DeliveredInOrder
<1>1. IInv /\ [Next]_vars => [\A e \in delivered' \ delivered : \A x \in delivered : x < e]_vars
  BY DeliveryStep
<1> QED  BY <1>1, Invariance, PTL DEF Spec, DeliveredInOrder

-----------------------------------------------------------------------------
(***************************************************************************)
(* The protocol implements the atomic publication                          *)
(***************************************************************************)
LEMMA RefinedInit == Init => Atomic!Init
<1> SUFFICES ASSUME Init  PROVE Atomic!Init
  OBVIOUS
<1>1. /\ disk \in [Stores -> Values \cup {None}] /\ pub = EmptyState /\ journal = Nothing
      /\ delivered = {} /\ done = {}
  BY DEF Init
<1>2. \A f \in Files : Recovered(f) \in Values \cup {None}
  BY <1>1, StoreNames DEF Recovered
<1>3. [f \in Files |-> pub.stores[f]] = [f \in Files |-> None]
  BY <1>1, StoreNames DEF EmptyState
<1>4. pub.seq = 0 /\ pub.epoch = 0 /\ pub.outbox = {}
  BY <1>1 DEF EmptyState
<1> QED  BY <1>1, <1>2, <1>3, <1>4 DEF Atomic!Init

LEMMA QuietIsStutter ==
  ASSUME Quiet
  PROVE  UNCHANGED Atomic!vars
<1>1. \A f \in Files : Recovered(f)' = Recovered(f)
  BY StoreNames DEF Quiet, SameStores
<1>2. [f \in Files |-> Recovered(f)]' = [f \in Files |-> Recovered(f)]
  BY <1>1
<1> QED  BY <1>2 DEF Quiet, Atomic!vars

\* The commit point of a commit is the abstract commit.
LEMMA RefinedCommit ==
  ASSUME IInv, PublishMarker, NEW p \in Payloads, CommitOf(p)
  PROVE  Atomic!Commit(caller, p)
<1> DEFINE w == ToChange(p)
<1>1. /\ pub' = journal.marker /\ done' = done \cup ({caller} \cap Ops) /\ delivered' = delivered
      /\ \A f \in Stores : Recovered(f)' = IF f \in DOMAIN journal.next THEN journal.next[f] ELSE Recovered(f)
  BY MarkerFacts
<1>2. Files \subseteq Stores /\ DOMAIN p \subseteq Files
  BY StoreNames, PayloadAssumption
<1>3. Atomic!Changed(p) = w
  BY <1>2 DEF Atomic!Changed, ToChange
<1>4. /\ caller \notin done /\ (w # {} \/ caller # Anon)
      /\ \A f \in DOMAIN p : pub.stores[f] \in {None, Recovered(f)}
      /\ journal.next = [f \in w |-> p[f]] /\ w \subseteq DOMAIN p
  BY DEF CommitOf, ToChange
<1>5. /\ pub'.seq = pub.seq + 1 /\ pub'.epoch = (IF pub.epoch = 0 THEN 1 ELSE pub.epoch)
      /\ pub'.stores = [f \in Stores |-> IF f \in w THEN p[f] ELSE pub.stores[f]]
      /\ pub'.outbox = IF w \cap GraphFiles # {} THEN pub.outbox \cup {pub.seq + 1} ELSE pub.outbox
  BY <1>1 DEF CommitOf
<1> HIDE DEF w
<1>6. [f \in Files |-> Recovered(f)]' = [f \in Files |-> IF f \in w THEN p[f] ELSE [g \in Files |-> Recovered(g)][f]]
  <2>1. \A f \in Files : Recovered(f)' = IF f \in w THEN p[f] ELSE Recovered(f)
    BY <1>1, <1>2, <1>4
  <2> QED  BY <2>1
<1>7. [f \in Files |-> pub.stores[f]]' = [f \in Files |-> IF f \in w THEN p[f] ELSE [g \in Files |-> pub.stores[g]][f]]
  BY <1>2, <1>5
<1>8. \A f \in DOMAIN p : [g \in Files |-> pub.stores[g]][f] \in {None, [g \in Files |-> Recovered(g)][f]}
  BY <1>2, <1>4
<1>9. done' = IF caller = Anon THEN done ELSE done \cup {caller}
  BY <1>1, NamesAssumption DEF CommitOf
<1> QED  BY <1>1, <1>3, <1>4, <1>5, <1>6, <1>7, <1>8, <1>9 DEF Atomic!Commit

LEMMA RefinedAcknowledge ==
  ASSUME IInv, PublishMarker, NEW e \in pub.outbox \cap delivered, AcknowledgementOf(e)
  PROVE  Atomic!Acknowledge(e)
<1>1. pub' = Acknowledged(pub, e) /\ delivered' = delivered /\ done' = done /\ SameStores
  BY MarkerFacts, AcknowledgeInv DEF AcknowledgementOf
<1>2. /\ pub'.seq = pub.seq + 1 /\ pub'.outbox = pub.outbox \ {e}
      /\ pub'.epoch = pub.epoch /\ pub'.stores = pub.stores
  BY <1>1, AcknowledgedState DEF IInv, TypeOK
<1>3. [f \in Files |-> Recovered(f)]' = [f \in Files |-> Recovered(f)]
  BY <1>1, StoreNames DEF SameStores
<1>4. [f \in Files |-> pub.stores[f]]' = [f \in Files |-> pub.stores[f]]
  BY <1>2
<1> QED  BY <1>1, <1>2, <1>3, <1>4 DEF Atomic!Acknowledge

LEMMA RefinedRetire ==
  ASSUME IInv, PublishMarker, NEW e \in Epochs \ pub.retired, RetirementOf(e)
  PROVE  Atomic!Retire
<1>1. /\ pub' = Retired(pub, e) /\ delivered' = delivered /\ done' = done
      /\ \A f \in Files : Recovered(f)' = Recovered(f)
      /\ pub.epoch = e /\ pub.outbox = {}
  BY MarkerFacts, RetireInv DEF RetirementOf
<1>2. pub \in PublicationState /\ e \in Nat /\ e > 0 /\ e \notin Files /\ pub.receipts \in Contents
  <2>1. e \in Nat \ {0} /\ e \notin Files
    BY StoreNames
  <2>2. e > 0
    BY <2>1
  <2> QED  BY <2>1, <2>2 DEF IInv, TypeOK, PublicationState, Contents
<1>3. /\ pub'.seq = pub.seq + 1 /\ pub'.outbox = pub.outbox /\ pub'.epoch = pub.epoch + 1
      /\ pub'.stores = [pub.stores EXCEPT ![e] = pub.receipts]
  BY <1>1, <1>2, RetiredState
<1>4. [f \in Files |-> Recovered(f)]' = [f \in Files |-> Recovered(f)]
  BY <1>1
<1>5. [f \in Files |-> pub.stores[f]]' = [f \in Files |-> pub.stores[f]]
  BY <1>2, <1>3, StoreNames DEF PublicationState
<1> QED  BY <1>1, <1>2, <1>3, <1>4, <1>5 DEF Atomic!Retire

LEMMA RefinedMarker ==
  ASSUME IInv, PublishMarker
  PROVE  Atomic!Next
<1>1. phase = "apply"
  BY DEF PublishMarker
<1>2. ASSUME NEW p \in Payloads, CommitOf(p)  PROVE Atomic!Next
  <2>1. Atomic!Commit(caller, p) /\ caller \in Ops \cup {Anon}
    BY <1>2, RefinedCommit DEF CommitOf
  <2> QED  BY <2>1 DEF Atomic!Next
<1>3. ASSUME NEW e \in pub.outbox \cap delivered, AcknowledgementOf(e)  PROVE Atomic!Next
  <2>1. Atomic!Acknowledge(e) /\ e \in 1..pub.seq
    BY <1>3, RefinedAcknowledge DEF IInv, EventsFit
  <2> QED  BY <2>1 DEF Atomic!Next
<1>4. ASSUME NEW e \in Epochs \ pub.retired, RetirementOf(e)  PROVE Atomic!Next
  BY <1>4, RefinedRetire DEF Atomic!Next
<1> QED  BY <1>1, <1>2, <1>3, <1>4 DEF IInv, PendingFits

LEMMA RefinedDelivery ==
  ASSUME IInv, NEW d \in Drainers, Deliver(d)
  PROVE  Atomic!Next
<1>1. PICK e : e = Min(drain[d])
  OBVIOUS
<1>2. /\ drain[d] # {} /\ delivered' = delivered \cup {e} /\ UNCHANGED <<pub, done>>
  BY <1>1 DEF Deliver
<1>3. e \in 1..pub.seq
  BY <1>1, <1>2, FirstEvent
<1>4. [f \in Files |-> Recovered(f)]' = [f \in Files |-> Recovered(f)]
  BY DeliverInv, StoreNames DEF SameStores
<1>5. Atomic!Deliver(e)
  BY <1>2, <1>4 DEF Atomic!Deliver
<1> QED  BY <1>3, <1>5 DEF Atomic!Next

LEMMA RefinedEdit ==
  ASSUME IInv, NEW f \in Files, NEW v \in Values \cup {None}, Edit(f, v)
  PROVE  Atomic!Next
<1>1. UNCHANGED <<pub, delivered, done>>
  BY DEF Edit
<1>2. \A g \in Files : Recovered(g)' = IF g = f THEN v ELSE Recovered(g)
  BY EditInv, StoreNames
<1>3. [g \in Files |-> Recovered(g)]' = [[g \in Files |-> Recovered(g)] EXCEPT ![f] = v]
  BY <1>2
<1>4. Atomic!Edit(f, v)
  BY <1>1, <1>3 DEF Atomic!Edit
<1> QED  BY <1>4 DEF Atomic!Next

LEMMA RefinedStep == IInv /\ [Next]_vars => [Atomic!Next]_(Atomic!vars)
  BY QuietSteps, QuietIsStutter, RefinedMarker, RefinedDelivery, RefinedEdit

\* The journaled publication of publication.ts, with its crashes, failing disk
\* operations and recoveries, only does what AtomicPublication allows: each accepted
\* operation takes effect at once and at most once, over retries and receipt epochs.
THEOREM ImplementsAtomic == Spec => Implements
<1> QED  BY RefinedInit, RefinedStep, Invariance, PTL DEF Spec, Implements, Atomic!Spec

-----------------------------------------------------------------------------
(***************************************************************************)
(* A read between two equal publication stamps sees committed contents,    *)
(* for every number of stores and of publications, as long as no           *)
(* publication was rolled back meanwhile and no other program edits the    *)
(* stores.                                                                 *)
(*                                                                         *)
(* The committed contents change only with the sequence, so that they are  *)
(* the reader's first view while the sequence is its stamp's.  A store     *)
(* that was read with other contents belongs to a journal that is not      *)
(* committed: it is still there when the reader looks again, or its commit *)
(* moves the sequence, or it is rolled back.                               *)
(***************************************************************************)

\* A committed journal has nothing left to write.
CommittedIsOnDisk ==
  journal # Nothing /\ Committed => \A f \in DOMAIN journal.next : disk[f] = journal.next[f]

AfterLoad == reader \in {"check", "read", "reload", "recheck", "done"}
SameStamp == stamp[2] = pub.seq

ReaderFits ==
  /\ reader \in {"idle", "load"} \/ AfterLoad
  /\ got = [f \in Files |-> got[f]] /\ view = [f \in Files |-> view[f]]
  /\ undone \in BOOLEAN

ViewFits ==
  AfterLoad => /\ stamp[2] \in Nat /\ stamp[2] <= pub.seq
               /\ SameStamp => \A f \in Files : Recovered(f) = view[f]

\* Only a journal that is not committed can have given the reader something else.
GotFits ==
  /\ reader \in {"check", "read"} /\ ~undone /\ SameStamp =>
       \A f \in Files : got[f] \notin {Nothing, view[f]} => journal # Nothing /\ ~Committed
  /\ reader = "reload" /\ ~undone /\ SameStamp => got = view
  /\ reader \in {"recheck", "done"} /\ ~undone => got = view

RInv == IInv /\ CommittedIsOnDisk /\ ReaderFits /\ ViewFits /\ GotFits

-----------------------------------------------------------------------------
(***************************************************************************)
(* The publisher's steps                                                   *)
(***************************************************************************)
LEMMA JournalSteps ==
  ASSUME [Next]_vars
  PROVE  journal' = journal \/ journal' = Nothing \/ (journal = Nothing /\ phase' = "apply")
<1>1. CASE UNCHANGED vars
  BY <1>1 DEF vars
<1>2. ASSUME NEW o, NEW p, NEW e, NEW n, PrepareCommit(o, p, e, n) \/ PrepareRetire(e, n)
      PROVE  journal = Nothing /\ phase' = "apply"
  BY <1>2 DEF PrepareCommit, PrepareRetire, Ready, Prepare
<1>3. ASSUME NEW d, PrepareAcknowledge(d)  PROVE journal = Nothing /\ phase' = "apply"
  BY <1>3 DEF PrepareAcknowledge, Ready, Prepare
<1>4. ASSUME Seal \/ FinishRecovery  PROVE journal' = Nothing
  BY <1>4 DEF Seal, FinishRecovery
<1>5. ASSUME NEW f, Replace(f) \/ Restore(f)  PROVE journal' = journal
  BY <1>5 DEF Replace, Restore
<1>6. ASSUME PublishMarker \/ StartRecovery \/ Fail \/ Crash  PROVE journal' = journal
  BY <1>6 DEF PublishMarker, StartRecovery, Fail, Crash
<1>7. ASSUME NEW d, StartDrain(d) \/ Deliver(d) \/ AcknowledgedBefore(d) \/ DrainFails(d)
      PROVE journal' = journal
  BY <1>7 DEF StartDrain, Deliver, AcknowledgedBefore, DrainFails
<1>8. ASSUME NEW f, NEW v, Edit(f, v)  PROVE journal' = journal
  BY <1>8 DEF Edit
<1>9. CASE Next
  BY <1>2, <1>3, <1>4, <1>5, <1>6, <1>7, <1>8, <1>9 DEF Next
<1> QED  BY <1>1, <1>9

\* What of the stores changes, and under which journal.
LEMMA DiskSteps ==
  ASSUME [Next]_vars
  PROVE  \/ disk' = disk
         \/ \E f \in Stores : Replace(f) \/ Restore(f)
         \/ journal' = Nothing \/ journal = Nothing
<1>1. CASE UNCHANGED vars
  BY <1>1 DEF vars
<1>2. ASSUME NEW o, NEW p, NEW e, NEW n, PrepareCommit(o, p, e, n) \/ PrepareRetire(e, n)
      PROVE journal = Nothing
  BY <1>2 DEF PrepareCommit, PrepareRetire, Ready
<1>3. ASSUME NEW d, PrepareAcknowledge(d)  PROVE journal = Nothing
  BY <1>3 DEF PrepareAcknowledge, Ready
<1>4. ASSUME PublishMarker \/ Seal \/ StartRecovery \/ FinishRecovery \/ Fail \/ Crash
      PROVE disk' = disk
  BY <1>4 DEF PublishMarker, Seal, StartRecovery, FinishRecovery, Fail, Crash
<1>5. ASSUME NEW d, StartDrain(d) \/ Deliver(d) \/ AcknowledgedBefore(d) \/ DrainFails(d)
      PROVE disk' = disk
  BY <1>5 DEF StartDrain, Deliver, AcknowledgedBefore, DrainFails
<1>6. ASSUME NEW f, NEW v, Edit(f, v)  PROVE journal = Nothing
  BY <1>6 DEF Edit
<1>7. CASE Next
  BY <1>2, <1>3, <1>4, <1>5, <1>6, <1>7 DEF Next
<1> QED  BY <1>1, <1>7

\* The visible state moves only at the commit point, when nobody else edits.
LEMMA VisibleSteps ==
  ASSUME IInv, [Next]_vars, MaxEdits = 0
  PROVE  /\ IInv' /\ pub.seq \in Nat
         /\ \/ pub' = pub /\ SameStores
            \/ PublishMarker /\ pub'.seq = pub.seq + 1
<1>1. IInv' /\ pub.seq \in Nat
  BY NextInv DEF IInv, TypeOK, PublicationState
<1>2. \A d \in Drainers : Deliver(d) => pub' = pub
  BY DEF Deliver
<1>3. \A f \in Files, v \in Values \cup {None} : ~Edit(f, v)
  BY DEF Edit, IInv, TypeOK
<1>4. PublishMarker => pub'.seq = pub.seq + 1
  BY MarkerFacts
<1> QED  BY <1>1, <1>2, <1>3, <1>4, QuietSteps, DeliverInv DEF Quiet

LEMMA CommittedIsOnDiskStep ==
  ASSUME IInv, CommittedIsOnDisk, [Next]_vars, MaxEdits = 0
  PROVE  CommittedIsOnDisk'
<1> SUFFICES ASSUME journal' # Nothing, Committed'
             PROVE  \A f \in DOMAIN journal'.next : disk'[f] = journal'.next[f]
  BY DEF CommittedIsOnDisk
<1>1. IInv' /\ TypeOK' /\ JournalFits' /\ PhaseFits'
  BY VisibleSteps DEF IInv
<1>2. CASE journal' = journal
  <2>1. journal # Nothing /\ DOMAIN journal.next \subseteq Stores /\ disk \in [Stores -> Contents]
    BY <1>2 DEF IInv, TypeOK, JournalOK
  <2>2. CASE PublishMarker
    <3>1. phase = "apply" /\ todo = {} /\ disk' = disk
      BY <2>2 DEF PublishMarker
    <3> QED  BY <1>2, <3>1 DEF IInv, StoresFit
  <2>3. CASE pub' = pub
    <3>1. Committed
      BY <1>2, <2>3 DEF Committed
    <3>2. \A f \in DOMAIN journal.next : disk[f] = journal.next[f]
      BY <2>1, <3>1 DEF CommittedIsOnDisk
    <3>3. ASSUME NEW f \in Stores, Replace(f)  PROVE FALSE
      BY <2>1, <3>1, <3>3, CommittedIff
         DEF Replace, IInv, PhaseFits, JournalFits, TypeOK, JournalOK, PublicationState
    <3>4. ASSUME NEW f \in Stores, Restore(f)
          PROVE  \A g \in DOMAIN journal.next : disk'[g] = journal.next[g]
      BY <2>1, <3>1, <3>2, <3>4 DEF Restore
    <3> QED  BY <1>2, <2>1, <3>2, <3>3, <3>4, DiskSteps
  <2> QED  BY <2>2, <2>3, VisibleSteps
<1>3. CASE journal = Nothing /\ phase' = "apply"
  <2>1. pub' = journal'.before
    BY <1>1, <1>3 DEF PhaseFits
  <2>2. ~Committed'
    BY <1>1, <2>1 DEF Committed, TypeOK, JournalOK, JournalFits, PublicationState
  <2> QED  BY <2>2
<1> QED  BY <1>2, <1>3, JournalSteps

-----------------------------------------------------------------------------
(***************************************************************************)
(* The reader's invariant                                                  *)
(***************************************************************************)
LEMMA ReadInitInv == ReadInit => RInv
<1> SUFFICES ASSUME ReadInit  PROVE RInv
  OBVIOUS
<1>1. IInv /\ journal = Nothing
  BY InitInv DEF ReadInit, Init
<1>2. reader = "idle" /\ got = NothingRead /\ view = NothingRead /\ undone = FALSE
  BY DEF ReadInit
<1>3. ReaderFits
  BY <1>2 DEF ReaderFits, NothingRead
<1> QED  BY <1>1, <1>2, <1>3 DEF RInv, CommittedIsOnDisk, ViewFits, GotFits, AfterLoad

LEMMA PublisherInv ==
  ASSUME RInv, [Next]_vars, undone' = (undone \/ RollsBack), UNCHANGED <<reader, stamp, got, view>>, MaxEdits = 0
  PROVE  RInv'
<1>1. /\ IInv' /\ pub.seq \in Nat
      /\ \/ pub' = pub /\ SameStores
         \/ PublishMarker /\ pub'.seq = pub.seq + 1
  BY VisibleSteps DEF RInv
<1>2. CommittedIsOnDisk' /\ ReaderFits'
  BY CommittedIsOnDiskStep DEF RInv, ReaderFits, AfterLoad
<1>3. AfterLoad /\ SameStamp' => SameStamp /\ pub' = pub /\ SameStores
  BY <1>1 DEF RInv, ViewFits, SameStamp
<1>4. ViewFits'
  <2> SUFFICES ASSUME AfterLoad
               PROVE  /\ stamp[2] \in Nat /\ stamp[2] <= pub'.seq
                      /\ SameStamp' => \A f \in Files : Recovered(f)' = view[f]
    BY DEF ViewFits, AfterLoad
  <2>1. stamp[2] \in Nat /\ stamp[2] <= pub'.seq
    BY <1>1 DEF RInv, ViewFits
  <2>2. SameStamp' => \A f \in Files : Recovered(f)' = view[f]
    BY <1>3, StoreNames DEF RInv, ViewFits, SameStores
  <2> QED  BY <2>1, <2>2
<1>5. GotFits'
  <2>1. ASSUME reader \in {"check", "read"}, ~undone', SameStamp', NEW f \in Files, got[f] \notin {Nothing, view[f]}
        PROVE  journal' # Nothing /\ ~Committed'
    <3>1. ~undone /\ ~RollsBack /\ SameStamp /\ pub' = pub
      BY <1>3, <2>1 DEF AfterLoad, RInv, ReaderFits
    <3>2. journal # Nothing /\ ~Committed
      BY <2>1, <3>1 DEF RInv, GotFits
    <3>3. journal' # Nothing
      BY <3>1, <3>2 DEF RollsBack
    <3>4. journal' = journal
      BY <3>2, <3>3, JournalSteps
    <3> QED  BY <3>1, <3>2, <3>3, <3>4 DEF Committed
  <2>2. ASSUME ~undone'  PROVE ~undone
    BY <2>2 DEF RInv, ReaderFits
  <2> QED  BY <1>3, <2>1, <2>2 DEF RInv, GotFits, AfterLoad
<1> QED  BY <1>1, <1>2, <1>4, <1>5 DEF RInv

LEMMA ReaderInv ==
  ASSUME RInv, ReaderStep, UNCHANGED vars
  PROVE  RInv'
<1>1. IInv' /\ pub' = pub /\ journal' = journal /\ disk' = disk /\ SameStores /\ pub.seq \in Nat
  <2>1. IInv' /\ SameStores
    BY StutterInv DEF RInv, Quiet
  <2> QED  BY <2>1 DEF vars, RInv, IInv, TypeOK, PublicationState
<1>2. (Committed' <=> Committed) /\ \A f \in Files : Recovered(f)' = Recovered(f)
  BY <1>1, StoreNames DEF Committed, SameStores
<1>3. CommittedIsOnDisk'
  BY <1>1, <1>2 DEF RInv, CommittedIsOnDisk
<1>4. CASE BeginStamp
  BY <1>1, <1>3, <1>4
     DEF BeginStamp, UnlessPublishing, RInv, ReaderFits, ViewFits, GotFits, AfterLoad, SameStamp
<1>5. CASE LoadStamp
  <2>1. /\ reader' = "check" /\ stamp' = <<pub.epoch, pub.seq>> /\ undone' = FALSE
        /\ view' = [f \in Files |-> Recovered(f)] /\ got' = [f \in Files |-> Nothing]
    BY <1>5 DEF LoadStamp, Stamp, NothingRead
  <2>2. ReaderFits'
    BY <2>1 DEF ReaderFits, AfterLoad
  <2>3. ViewFits'
    BY <1>1, <1>2, <2>1 DEF ViewFits, SameStamp
  <2>4. GotFits'
    BY <2>1 DEF GotFits
  <2> QED  BY <1>1, <1>3, <2>2, <2>3, <2>4 DEF RInv
<1>6. CASE CheckStamp \/ RecheckStamp \/ Return
  BY <1>1, <1>2, <1>3, <1>6
     DEF CheckStamp, RecheckStamp, Return, UnlessPublishing, RInv, ReaderFits, ViewFits,
        GotFits, AfterLoad, SameStamp
<1>7. ASSUME NEW f \in Files, ReadStore(f)  PROVE RInv'
  <2>1. /\ reader = "read" /\ got' = [got EXCEPT ![f] = disk[f]] /\ UNCHANGED <<reader, stamp, view, undone>>
    BY <1>7 DEF ReadStore
  <2>2. ReaderFits' /\ ViewFits'
    BY <1>1, <1>2, <2>1 DEF RInv, ReaderFits, ViewFits, AfterLoad, SameStamp
  <2>3. ASSUME SameStamp, disk[f] # view[f]  PROVE journal # Nothing /\ ~Committed
    <3>1. Recovered(f) = view[f]
      BY <2>1, <2>3 DEF RInv, ViewFits, AfterLoad
    <3> QED  BY <2>3, <3>1 DEF Recovered, RInv, CommittedIsOnDisk
  <2>4. \A g \in Files : got'[g] = IF g = f THEN disk[f] ELSE got[g]
    BY <2>1 DEF RInv, ReaderFits
  <2>5. GotFits'
    BY <1>1, <1>2, <2>1, <2>3, <2>4 DEF RInv, GotFits, SameStamp
  <2> QED  BY <1>1, <1>3, <2>2, <2>5 DEF RInv
<1>8. CASE EndStamp
  <2>1. /\ reader = "read" /\ \A f \in Files : got[f] # Nothing
        /\ reader' = (IF journal = Nothing THEN "reload" ELSE "idle") /\ UNCHANGED <<stamp, got, view, undone>>
    BY <1>8 DEF EndStamp, UnlessPublishing
  <2>2. ReaderFits' /\ ViewFits'
    BY <1>1, <1>2, <2>1 DEF RInv, ReaderFits, ViewFits, AfterLoad, SameStamp
  <2>3. ASSUME journal = Nothing, ~undone, SameStamp  PROVE got = view
    <3>1. \A f \in Files : got[f] = view[f]
      BY <2>1, <2>3 DEF RInv, GotFits
    <3> QED  BY <3>1 DEF RInv, ReaderFits
  <2>4. GotFits'
    BY <1>1, <2>1, <2>3 DEF GotFits, SameStamp
  <2> QED  BY <1>1, <1>3, <2>2, <2>4 DEF RInv
<1>9. CASE ReloadStamp
  <2>1. /\ reader = "reload" /\ reader' \in {"recheck", "idle"} /\ UNCHANGED <<stamp, got, view, undone>>
        /\ reader' = "recheck" => SameStamp
    BY <1>9 DEF ReloadStamp, Stamp, SameStamp
  <2> QED  BY <1>1, <1>2, <1>3, <2>1 DEF RInv, ReaderFits, ViewFits, GotFits, AfterLoad, SameStamp
<1> QED  BY <1>4, <1>5, <1>6, <1>7, <1>8, <1>9 DEF ReaderStep

LEMMA ReadNextInv == RInv /\ [ReadNext]_<<vars, readerVars>> /\ MaxEdits = 0 => RInv'
<1> SUFFICES ASSUME RInv, [ReadNext]_<<vars, readerVars>>, MaxEdits = 0  PROVE RInv'
  OBVIOUS
<1>1. CASE PublisherStep
  BY <1>1, PublisherInv DEF PublisherStep
<1>2. CASE ReaderStep /\ UNCHANGED vars
  BY <1>2, ReaderInv
<1>3. CASE UNCHANGED <<vars, readerVars>>
  <2>1. ~RollsBack /\ undone \in BOOLEAN
    BY <1>3 DEF RollsBack, vars, RInv, ReaderFits
  <2>2. undone' = (undone \/ RollsBack)
    BY <1>3, <2>1 DEF readerVars
  <2> QED  BY <1>3, <2>2, PublisherInv DEF readerVars
<1> QED  BY <1>1, <1>2, <1>3 DEF ReadNext

\* A withGraphRead that another process runs between two equal stamps of
\* assertPublishedRead returns the committed contents of one publication, if none is
\* rolled back meanwhile and no other program writes the stores.
THEOREM ReadIsCommittedHolds ==
  ASSUME MaxEdits = 0
  PROVE  ReadSpec => []ReadIsCommitted
<1>1. RInv /\ [ReadNext]_<<vars, readerVars>> => RInv'
  BY ReadNextInv
<1>2. RInv => ReadIsCommitted
  BY DEF RInv, GotFits, ReadIsCommitted
<1> QED  BY <1>1, <1>2, ReadInitInv, PTL DEF ReadSpec
=============================================================================
