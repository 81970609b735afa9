----------------------------- MODULE StableRead -----------------------------
(***************************************************************************)
(* A snapshot read by another process than the one that publishes.         *)
(*                                                                         *)
(* The reader runs withGraphRead (graph-reconciliation-barrier.ts) in its  *)
(* own process, so the barrier of the publishing process does not hold it  *)
(* back; what protects it are the publication stamps it takes before and   *)
(* after reading the stores one by one.                                    *)
(***************************************************************************)
EXTENDS Publication

VARIABLES
  reader,   \* next step of the reader
  stamp,    \* its first publication stamp
  got,      \* store contents read so far; Nothing where not read yet
  view,     \* history: the committed contents when the first stamp was loaded
  undone    \* history: a publication was rolled back since

readerVars == <<reader, stamp, got, view, undone>>

Stamp == <<pub.epoch, pub.seq>>
NothingRead == [f \in Files |-> Nothing]

ReadInit ==
  /\ Init
  /\ reader = "idle"
  /\ stamp = <<0, 0>>
  /\ got = NothingRead /\ view = NothingRead
  /\ undone = FALSE

\* assertPublishedRead: the step goes on if there is no journal, else throws.
UnlessPublishing(next) == reader' = IF journal = Nothing THEN next ELSE "idle"

\* The three reads of the first stamp: journal, state, journal again.
BeginStamp ==
  /\ reader = "idle"
  /\ UnlessPublishing("load")
  /\ UNCHANGED <<stamp, got, view, undone>>

LoadStamp ==
  /\ reader = "load"
  /\ reader' = "check"
  /\ stamp' = Stamp
  /\ view' = [f \in Files |-> Recovered(f)]
  /\ got' = NothingRead
  /\ undone' = FALSE

CheckStamp ==
  /\ reader = "check"
  /\ UnlessPublishing("read")
  /\ UNCHANGED <<stamp, got, view, undone>>

ReadStore(f) ==
  /\ reader = "read" /\ got[f] = Nothing
  /\ got' = [got EXCEPT ![f] = disk[f]]
  /\ UNCHANGED <<reader, stamp, view, undone>>

\* The second stamp, and its comparison with the first.
EndStamp ==
  /\ reader = "read" /\ \A f \in Files : got[f] # Nothing
  /\ UnlessPublishing("reload")
  /\ UNCHANGED <<stamp, got, view, undone>>

\* Faulty ReloadStamp: the second stamp only asks for the journal.
ReloadJournal ==
  /\ reader = "reload"
  /\ reader' = "recheck"
  /\ UNCHANGED <<stamp, got, view, undone>>

\* GRAPH_REVISION_CONFLICT ends the read when the stamp moved.
ReloadStamp ==
  /\ reader = "reload"
  /\ reader' = IF Stamp = stamp THEN "recheck" ELSE "idle"
  /\ UNCHANGED <<stamp, got, view, undone>>

RecheckStamp ==
  /\ reader = "recheck"
  /\ UnlessPublishing("done")
  /\ UNCHANGED <<stamp, got, view, undone>>

Return ==
  /\ reader = "done"
  /\ reader' = "idle"
  /\ UNCHANGED <<stamp, got, view, undone>>

ReaderStep ==
  \/ BeginStamp \/ LoadStamp \/ CheckStamp
  \/ \E f \in Files : ReadStore(f)
  \/ EndStamp \/ ReloadStamp \/ RecheckStamp \/ Return

RollsBack == journal # Nothing /\ journal' = Nothing /\ ~Committed

PublisherStep ==
  /\ Next
  /\ undone' = (undone \/ RollsBack)
  /\ UNCHANGED <<reader, stamp, got, view>>

ReadNext == PublisherStep \/ (ReaderStep /\ UNCHANGED vars)

ReadSpec == ReadInit /\ [][ReadNext]_<<vars, readerVars>>

-----------------------------------------------------------------------------
\* A read that returns saw the committed contents of one publication in every
\* store, however its reads interleave with the steps of complete publications.
\* The code cannot promise it of a read that a rollback met: it leaves the stamps
\* as they were.
ReadIsCommitted == reader = "done" /\ ~undone => got = view
=============================================================================
