------------------------- MODULE AtomicPublication -------------------------
(***************************************************************************)
(* What a publication promises to callers who know nothing of journals,    *)
(* crashes and retries: the stores change in one step per accepted         *)
(* operation, an identity takes effect at most once over all receipt       *)
(* epochs, changes another program made are never written over, and a      *)
(* graph event leaves the outbox only after it was delivered.              *)
(***************************************************************************)
EXTENDS Naturals

CONSTANTS Files, GraphFiles, Values, None, Ops, Anon, Payloads

VARIABLES
  contents,   \* committed content of every store
  published,  \* content of its last publication, None before the first
  seq,        \* number of publications
  epoch,      \* receipt epoch, 0 before the first commit
  events,     \* graph publications that await delivery
  delivered,  \* events delivered at least once
  done        \* identities that took effect

vars == <<contents, published, seq, epoch, events, delivered, done>>

Init ==
  /\ contents \in [Files -> Values \cup {None}]
  /\ published = [f \in Files |-> None]
  /\ seq = 0 /\ epoch = 0
  /\ events = {} /\ delivered = {} /\ done = {}

Changed(p) == {f \in DOMAIN p : contents[f] # p[f]}

Commit(o, p) ==
  LET w == Changed(p) IN
  /\ o \notin done
  /\ w # {} \/ o # Anon
  /\ \A f \in DOMAIN p : published[f] \in {None, contents[f]}
  /\ contents' = [f \in Files |-> IF f \in w THEN p[f] ELSE contents[f]]
  /\ published' = [f \in Files |-> IF f \in w THEN p[f] ELSE published[f]]
  /\ seq' = seq + 1
  /\ epoch' = IF epoch = 0 THEN 1 ELSE epoch
  /\ events' = IF w \cap GraphFiles # {} THEN events \cup {seq + 1} ELSE events
  /\ done' = IF o = Anon THEN done ELSE done \cup {o}
  /\ UNCHANGED delivered

Deliver(e) ==
  /\ delivered' = delivered \cup {e}
  /\ UNCHANGED <<contents, published, seq, epoch, events, done>>

Acknowledge(e) ==
  /\ e \in events \cap delivered
  /\ events' = events \ {e}
  /\ seq' = seq + 1
  /\ UNCHANGED <<contents, published, epoch, delivered, done>>

\* Receipts are archived; no event may be pending.
Retire ==
  /\ epoch > 0 /\ events = {}
  /\ epoch' = epoch + 1
  /\ seq' = seq + 1
  /\ UNCHANGED <<contents, published, events, delivered, done>>

Edit(f, v) ==
  /\ contents' = [contents EXCEPT ![f] = v]
  /\ UNCHANGED <<published, seq, epoch, events, delivered, done>>

Next ==
  \/ \E o \in Ops \cup {Anon}, p \in Payloads : Commit(o, p)
  \/ \E e \in 1..seq : Deliver(e) \/ Acknowledge(e)
  \/ Retire
  \/ \E f \in Files, v \in Values \cup {None} : Edit(f, v)

Spec == Init /\ [][Next]_vars
=============================================================================
