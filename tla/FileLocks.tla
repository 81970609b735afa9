----------------------------- MODULE FileLocks ------------------------------
(***************************************************************************)
(* The writers of the JSON stores (src/src/utils/mutex.ts and the code     *)
(* that calls it).  A call reads one file, changes what it read and writes *)
(* the file back.  Two locks protect it: the lock of the file, a chain of  *)
(* promises (withFileLock), and the graph barrier every publication takes  *)
(* (GraphBarrier, mode "write").  Neither lock knows of the other, and the *)
(* call sites take them in different orders:                               *)
(*   resource_first     withFileLock around a read and an atomicWriteFile, *)
(*                      which takes the barrier for the write alone        *)
(*   publication_first  the barrier around withFileLock                    *)
(*   publication_only   the barrier alone, the file read again inside      *)
(*   load_first         a read, and then withFileLock around the write     *)
(*   clearing           resource_first without a read: an empty document   *)
(*   other              the barrier alone, for anything but one file:      *)
(*                      snapshots, nested calls, the tasks they start      *)
(* A call of a managed execution is dispatched inside the barrier, so the  *)
(* same tool is resource_first for one client and publication_first for    *)
(* another.                                                                *)
(***************************************************************************)
EXTENDS GraphBarrier

CONSTANTS
  Files,      \* store files; the key of a lock is the name of the file
  Sites       \* call sites that meet: the style and the file of each task

Styles == {"resource_first", "publication_first", "publication_only",
           "load_first", "clearing", "other"}

ASSUME SitesAssumption == Sites \subseteq [Tasks -> Styles \X Files]

VARIABLES
  site,       \* site each call runs
  tail,       \* locks: the last call chained on each file's lock, or NoTask
  prev,       \* the call whose gate a call awaits, or NoTask
  arrivals,   \* calls that joined a chain so far
  ticket,     \* place of a call among them
  work,       \* where each call stands with respect to its file
  loaded,     \* whether it has read its file
  seen,       \* what it read: the calls whose change the file held
  content,    \* each file on disk: the calls whose change it holds
  published   \* calls whose change nothing has replaced on purpose

locking == <<tail, prev, arrivals, ticket>>
callVars == <<vars, site, locking, work, loaded, seen, content, published>>

\* "idle": no lock asked for yet.  "settled": the function returned or threw
\* and the gate is still closed.  "released": nothing left to do for the file.
Stages == {"idle", "chained", "locked", "settled", "released"}

StyleOf(t) == site[t][1]
FileOf(t) == site[t][2]
Locks(t) == StyleOf(t) \notin {"publication_only", "other"}
IsCall(t) == StyleOf(t) # "other"
LockComesFirst(t) == StyleOf(t) \in {"resource_first", "load_first", "clearing"}

CallTypeOK ==
  /\ TypeOK
  /\ site \in Sites
  /\ tail \in [Files -> Tasks \cup {NoTask}]
  /\ prev \in [Tasks -> Tasks \cup {NoTask}]
  /\ arrivals \in Nat
  /\ ticket \in [Tasks -> Nat]
  /\ work \in [Tasks -> Stages]
  /\ loaded \in [Tasks -> BOOLEAN]
  /\ seen \in [Tasks -> SUBSET Tasks]
  /\ content \in [Files -> SUBSET Tasks]
  /\ published \subseteq Tasks

CallInit ==
  /\ Init
  /\ site \in Sites
  /\ tail = [f \in Files |-> NoTask]
  /\ prev = [t \in Tasks |-> NoTask]
  /\ arrivals = 0
  /\ ticket = [t \in Tasks |-> 0]
  /\ work = [t \in Tasks |-> "idle"]
  /\ loaded = [t \in Tasks |-> FALSE]
  /\ seen = [t \in Tasks |-> {}]
  /\ content = [f \in Files |-> {}]
  /\ published = {}

-----------------------------------------------------------------------------
(***************************************************************************)
(* The lock of a file                                                      *)
(***************************************************************************)

\* The synchronous part of withFileLock: the call takes the tail of the chain
\* for its predecessor and becomes the tail.
Join(t) ==
  /\ Locks(t) /\ work[t] = "idle"
  /\ IF LockComesFirst(t)
     THEN pc[t] = "outside" /\ (StyleOf(t) = "load_first" => loaded[t])
     ELSE pc[t] = "inside"
  /\ prev' = [prev EXCEPT ![t] = tail[FileOf(t)]]
  /\ tail' = [tail EXCEPT ![FileOf(t)] = t]
  /\ arrivals' = arrivals + 1
  /\ ticket' = [ticket EXCEPT ![t] = arrivals + 1]
  /\ work' = [work EXCEPT ![t] = "chained"]
  /\ UNCHANGED <<vars, site, loaded, seen, content, published>>

\* await prev: the gate of the predecessor is open.
Locked(t) ==
  /\ work[t] = "chained"
  /\ prev[t] # NoTask => work[prev[t]] = "released"
  /\ work' = [work EXCEPT ![t] = "locked"]
  /\ UNCHANGED <<vars, site, locking, loaded, seen, content, published>>

\* Faulty Unlock: the entry of the file is deleted whoever is its tail.
UnlockForgettingWaiters(t) ==
  /\ work[t] = "settled"
  /\ LockComesFirst(t) => pc[t] = "outside"
  /\ work' = [work EXCEPT ![t] = "released"]
  /\ tail' = [tail EXCEPT ![FileOf(t)] = NoTask]
  /\ UNCHANGED <<vars, site, prev, arrivals, ticket, loaded, seen, content,
                 published>>

\* Faulty Unlock: no finally, an error leaves the gate closed.
UnlockAfterSuccess(t) ==
  /\ work[t] = "settled" /\ t \in published
  /\ LockComesFirst(t) => pc[t] = "outside"
  /\ work' = [work EXCEPT ![t] = "released"]
  /\ tail' = [tail EXCEPT ![FileOf(t)] = IF @ = t THEN NoTask ELSE @]
  /\ UNCHANGED <<vars, site, prev, arrivals, ticket, loaded, seen, content,
                 published>>

\* The finally of withFileLock, after a return and after an error: the gate
\* opens and the last call of the chain deletes the entry.
Unlock(t) ==
  /\ work[t] = "settled"
  /\ LockComesFirst(t) => pc[t] = "outside"
  /\ work' = [work EXCEPT ![t] = "released"]
  /\ tail' = [tail EXCEPT ![FileOf(t)] = IF @ = t THEN NoTask ELSE @]
  /\ UNCHANGED <<vars, site, prev, arrivals, ticket, loaded, seen, content,
                 published>>

-----------------------------------------------------------------------------
(***************************************************************************)
(* The barrier                                                             *)
(***************************************************************************)

\* A site that takes the barrier first starts with it; the others take it in
\* atomicWriteFile, when the new document is ready.
EnterPublication(t) ==
  /\ IsCall(t)
  /\ IF LockComesFirst(t) THEN work[t] = "locked" /\ loaded[t]
                          ELSE work[t] = "idle"
  /\ AcquireWrite(t) \/ Enqueue(t, "write")
  /\ UNCHANGED <<site, locking, work, loaded, seen, content, published>>

ResumePublication(t) ==
  /\ IsCall(t) /\ Resume(t)
  /\ UNCHANGED <<site, locking, work, loaded, seen, content, published>>

\* The function under the barrier is over: for a site that took the barrier
\* first this is the end of the call.
LeavePublication(t) ==
  /\ work[t] = (IF LockComesFirst(t) THEN "settled" ELSE "released")
  /\ IsCall(t) /\ LeaveOwner(t)
  /\ UNCHANGED <<site, locking, work, loaded, seen, content, published>>

-----------------------------------------------------------------------------
(***************************************************************************)
(* The file                                                                *)
(***************************************************************************)

\* The sites that read first belong to the dream cycle: they run in the states of
\* the engine their assertState names, one after the other.
CycleIsFree(t) ==
  \A u \in Tasks \ {t} :
    StyleOf(u) = "load_first" /\ loaded[u] => work[u] = "released"

Load(t) ==
  /\ IsCall(t) /\ ~loaded[t]
  /\ \/ StyleOf(t) = "publication_only" /\ work[t] = "idle" /\ pc[t] = "inside"
     \/ StyleOf(t) = "load_first" /\ work[t] = "idle" /\ CycleIsFree(t)
     \/ StyleOf(t) # "load_first" /\ work[t] = "locked"
  /\ loaded' = [loaded EXCEPT ![t] = TRUE]
  /\ seen' = [seen EXCEPT ![t] = IF StyleOf(t) = "clearing" THEN {}
                                 ELSE content[FileOf(t)]]
  /\ UNCHANGED <<vars, site, locking, work, content, published>>

\* The function that works on the file runs.
Working(t) ==
  /\ IsCall(t)
  /\ IF Locks(t) THEN work[t] = "locked" ELSE work[t] = "idle" /\ pc[t] = "inside"

Settle(t) ==
  work' = [work EXCEPT ![t] = IF Locks(t) THEN "settled" ELSE "released"]

\* The publication replaces the file by what the call read and its own change.
\* A clearing call supersedes what the file held.
Store(t) ==
  LET held == IF StyleOf(t) = "clearing" THEN content[FileOf(t)] ELSE {} IN
  /\ Working(t) /\ loaded[t] /\ pc[t] = "inside"
  /\ content' = [content EXCEPT ![FileOf(t)] = seen[t] \cup {t}]
  /\ published' = (published \ held) \cup {t}
  /\ Settle(t)
  /\ UNCHANGED <<vars, site, locking, loaded, seen>>

\* The function throws, or finds nothing to change.
Fail(t) ==
  /\ Working(t) /\ pc[t] \in {"outside", "inside"}
  /\ Settle(t)
  /\ UNCHANGED <<vars, site, locking, loaded, seen, content, published>>

-----------------------------------------------------------------------------
Proceed(t) ==
  \/ Join(t)
  \/ Locked(t)
  \/ Unlock(t)
  \/ EnterPublication(t)
  \/ ResumePublication(t)
  \/ LeavePublication(t)
  \/ Load(t)
  \/ Store(t)
  \/ Fail(t)

\* A task that works on no file takes any step of the barrier.  A call starts in
\* a context of its own.
BarrierOnly(t) ==
  /\ ~IsCall(t) /\ Step(t)
  /\ \A c \in Tasks : IsCall(c) => context'[c] \in {NoTask, c}
  /\ UNCHANGED <<site, locking, work, loaded, seen, content, published>>

CallNext == \E t \in Tasks : Proceed(t) \/ BarrierOnly(t)

CallSpec == CallInit /\ [][CallNext]_callVars

(***************************************************************************)
(* The event loop runs the continuations of a call; a read, a change and a *)
(* write end by themselves.  A call that awaits a gate or the barrier has  *)
(* no step to take.  Of the other tasks GraphBarrier asks no more.         *)
(***************************************************************************)
Advance(t) == Proceed(t) \/ (BarrierOnly(t) /\ (Resume(t) \/ Leave(t)))

FairCallSpec == CallSpec /\ \A t \in Tasks : WF_callVars(Advance(t))

-----------------------------------------------------------------------------
(***************************************************************************)
(* Properties                                                              *)
(***************************************************************************)

\* The calls that hold or await the lock of a file.
Live(f) == {t \in Tasks : FileOf(t) = f /\ work[t] \in {"chained", "locked", "settled"}}

\* Two sites of a file agree when neither publishes between the read and the write
\* of the other: what keeps it out is the lock of the file, the barrier or, for the
\* sites that read first, the dream cycle.
Agree(s, r) ==
  \/ "other" \in {s, r}
  \/ s = "load_first" /\ r = "load_first"
  \/ /\ "load_first" \notin {s, r}
     /\ "publication_only" \in {s, r} => {s, r} \cap {"resource_first", "clearing"} = {}

SitesAgree ==
  \A a \in Sites : \A t, u \in Tasks :
    a[t][2] = a[u][2] => Agree(a[t][1], a[u][1])

\* No update is lost: what a call published stays in its file until another
\* call replaces it on purpose.
NoUpdateIsLost == \A t \in published : t \in content[FileOf(t)]

\* The lock of a file is granted in the order of the calls of withFileLock.
LockIsFifo ==
  [][\A t \in Tasks :
       work[t] = "chained" /\ work'[t] = "locked" =>
         \A u \in Live(FileOf(t)) : ticket[t] <= ticket[u]]_callVars

\* A file has one worker at a time: two calls never both hold its lock, whatever the
\* order in which they asked for it and whichever of them threw (mutex.ts:32-60).
FileLockIsExclusive ==
  \A t, u \in Tasks :
    /\ work[t] \in {"locked", "settled"} /\ work[u] \in {"locked", "settled"}
    /\ FileOf(t) = FileOf(u)
    => t = u

\* A file has an entry in the table of locks as long as some call holds or
\* awaits its lock, and no longer.
EntriesAreLive == \A f \in Files : tail[f] = NoTask <=> Live(f) = {}

Started(t) == pc[t] # "outside" \/ work[t] # "idle"
Ended(t) == pc[t] = "outside" /\ (IsCall(t) => work[t] = "released")

\* Every call that starts ends, and every task that waits for the barrier is served
\* and leaves: no stream of readers or writers starves it, no wakeup is lost, and no
\* two calls wait for each other.
EveryCallEnds == \A t \in Tasks : Started(t) ~> Ended(t)
=============================================================================
