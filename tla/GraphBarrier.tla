---------------------------- MODULE GraphBarrier ----------------------------
(***************************************************************************)
(* The reader/writer barrier every access to the canonical graph stores    *)
(* goes through (src/src/utils/graph-reconciliation-barrier.ts).           *)
(*                                                                         *)
(* A task is one asynchronous call chain of the daemon.  It runs a         *)
(* function under withGraphRead (mode "read") or withGraphMutation /       *)
(* withGraphReconciliation (mode "write").  Ownership lives in an          *)
(* AsyncLocalStorage: the function, and every asynchronous task it starts, *)
(* see the ownership record until the outermost call sets active to false. *)
(* JavaScript runs to completion between awaits, so the synchronous part   *)
(* of acquire, of a release with its drain, and of the ownership test is   *)
(* one step each.                                                          *)
(***************************************************************************)
EXTENDS Naturals, Sequences, FiniteSets

CONSTANTS
  Tasks,      \* asynchronous tasks of the daemon
  NoTask,     \* "no active ownership record in this asynchronous context"
  MaxCalls    \* bound: inline calls one task makes under one ownership record

ASSUME TasksAssumption == IsFiniteSet(Tasks) /\ NoTask \notin Tasks
ASSUME CallsAssumption == MaxCalls \in Nat

VARIABLES
  readers,    \* ReadWriteBarrier.readers
  writer,     \* ReadWriteBarrier.writer
  queue,      \* ReadWriteBarrier.queue: the waiting tasks, oldest first
  pc,         \* where each task stands with respect to the barrier
  mode,       \* mode of the task's outermost pending or held call
  depth,      \* barrier calls the task is running inside of
  calls,      \* inline calls it made under the ownership record it sees
  context     \* owner whose active ownership record the task's context holds

vars == <<readers, writer, queue, pc, mode, depth, calls, context>>

Modes == {"read", "write"}

\* "granted": the promise of acquire is resolved, the continuation that installs
\* the ownership record is not run yet; the barrier already counts the task.
Places == {"outside", "waiting", "granted", "inside"}

TypeOK ==
  /\ readers \in Nat
  /\ writer \in BOOLEAN
  /\ queue \in Seq(Tasks)
  /\ pc \in [Tasks -> Places]
  /\ mode \in [Tasks -> Modes]
  /\ depth \in [Tasks -> Nat]
  /\ calls \in [Tasks -> Nat]
  /\ context \in [Tasks -> Tasks \cup {NoTask}]

Init ==
  /\ readers = 0
  /\ writer = FALSE
  /\ queue = <<>>
  /\ pc = [t \in Tasks |-> "outside"]
  /\ mode = [t \in Tasks |-> "read"]
  /\ depth = [t \in Tasks |-> 0]
  /\ calls = [t \in Tasks |-> 0]
  /\ context = [t \in Tasks |-> NoTask]

\* A task owns the barrier when the barrier counts it.
Holds(t) == pc[t] = "granted" \/ (pc[t] = "inside" /\ context[t] = t)
Holders(m) == {t \in Tasks : Holds(t) /\ mode[t] = m}

QueuedWrite == \E i \in 1..Len(queue) : mode[queue[i]] = "write"

-----------------------------------------------------------------------------
(***************************************************************************)
(* Entering                                                                *)
(***************************************************************************)
Admit(t, m) ==
  /\ pc' = [pc EXCEPT ![t] = "granted"]
  /\ mode' = [mode EXCEPT ![t] = m]

\* Faulty AcquireRead: it looks at the writer but not at the queue.
BargingRead(t) ==
  /\ pc[t] = "outside" /\ context[t] = NoTask
  /\ ~writer
  /\ readers' = readers + 1
  /\ Admit(t, "read")
  /\ UNCHANGED <<writer, queue, depth, calls, context>>

\* acquire("read") that does not wait: no writer and no queued writer.
AcquireRead(t) ==
  /\ pc[t] = "outside" /\ context[t] = NoTask
  /\ ~writer /\ ~QueuedWrite
  /\ readers' = readers + 1
  /\ Admit(t, "read")
  /\ UNCHANGED <<writer, queue, depth, calls, context>>

\* Faulty AcquireWrite: it takes an empty queue for an idle barrier.
WriteAmongReaders(t) ==
  /\ pc[t] = "outside" /\ context[t] = NoTask
  /\ ~writer /\ queue = <<>>
  /\ writer' = TRUE
  /\ Admit(t, "write")
  /\ UNCHANGED <<readers, queue, depth, calls, context>>

\* acquire("write") that does not wait: nobody inside and nobody queued.
AcquireWrite(t) ==
  /\ pc[t] = "outside" /\ context[t] = NoTask
  /\ ~writer /\ readers = 0 /\ queue = <<>>
  /\ writer' = TRUE
  /\ Admit(t, "write")
  /\ UNCHANGED <<readers, queue, depth, calls, context>>

\* Any other top-level call waits in the queue.
Enqueue(t, m) ==
  /\ pc[t] = "outside" /\ context[t] = NoTask
  /\ \/ m = "read" /\ (writer \/ QueuedWrite)
     \/ m = "write" /\ (writer \/ readers > 0 \/ queue # <<>>)
  /\ queue' = Append(queue, t)
  /\ pc' = [pc EXCEPT ![t] = "waiting"]
  /\ mode' = [mode EXCEPT ![t] = m]
  /\ UNCHANGED <<readers, writer, depth, calls, context>>

\* The continuation of a resolved acquire installs the ownership record and
\* starts the function.
Resume(t) ==
  /\ pc[t] = "granted"
  /\ pc' = [pc EXCEPT ![t] = "inside"]
  /\ depth' = [depth EXCEPT ![t] = 1]
  /\ context' = [context EXCEPT ![t] = t]
  /\ UNCHANGED <<readers, writer, queue, mode, calls>>

\* A call below an active compatible ownership record runs inline: a writer
\* may do anything, a reader may read again.
EnterInline(t, m) ==
  /\ context[t] # NoTask
  /\ mode[context[t]] \in {"write", m}
  /\ calls[t] < MaxCalls
  /\ calls' = [calls EXCEPT ![t] = @ + 1]
  /\ depth' = [depth EXCEPT ![t] = @ + 1]
  /\ pc' = [pc EXCEPT ![t] = "inside"]
  /\ UNCHANGED <<readers, writer, queue, mode, context>>

\* The function running under owner t starts the asynchronous task c, which
\* inherits t's AsyncLocalStorage context.
Spawn(t, c) ==
  /\ pc[t] = "inside"
  /\ pc[c] = "outside" /\ context[c] = NoTask
  /\ context' = [context EXCEPT ![c] = context[t]]
  /\ UNCHANGED <<readers, writer, queue, pc, mode, depth, calls>>

-----------------------------------------------------------------------------
(***************************************************************************)
(* Leaving                                                                 *)
(***************************************************************************)

\* The first n queued tasks are exactly the leading readers.
LeadingReads(n) ==
  /\ \A i \in 1..n : mode[queue[i]] = "read"
  /\ n < Len(queue) => mode[queue[n + 1]] = "write"

\* drain, once nobody is inside: the oldest writer alone, or all leading readers.
\* "leaver" is the task whose release calls it.
Drain(leaver) ==
  LET Left(S) == pc' = [t \in Tasks |-> IF t = leaver THEN "outside"
                                        ELSE IF t \in S THEN "granted"
                                        ELSE pc[t]]
  IN
  \/ /\ queue # <<>> /\ mode[Head(queue)] = "write"
     /\ Left({Head(queue)})
     /\ queue' = Tail(queue)
     /\ writer' = TRUE
     /\ readers' = 0
  \/ /\ queue # <<>> => mode[Head(queue)] = "read"
     /\ \E n \in 0..Len(queue) :
          /\ LeadingReads(n)
          /\ Left({queue[i] : i \in 1..n})
          /\ queue' = SubSeq(queue, n + 1, Len(queue))
          /\ readers' = n
     /\ writer' = FALSE

\* Faulty Deactivate: only the owner forgets the record, the tasks it started
\* keep running under it.
DeactivateOwnerOnly(t) ==
  /\ context' = [context EXCEPT ![t] = NoTask]
  /\ calls' = [calls EXCEPT ![t] = 0]

\* owner.active = false: no context holds the ownership record any more.
Deactivate(t) ==
  /\ context' = [c \in Tasks |-> IF context[c] = t THEN NoTask ELSE context[c]]
  /\ calls' = [c \in Tasks |-> IF context[c] = t THEN 0 ELSE calls[c]]

\* The functions run under the barrier await the tasks they start before they
\* return, so that nothing still runs inline when the owner leaves.
ChildrenDone(t) == \A c \in Tasks \ {t} : context[c] = t => pc[c] # "inside"

\* The outermost call of t ends, by returning or by throwing: releaseRead
\* drains only when the last reader left, releaseWrite always.
Release(t) ==
  /\ depth' = [depth EXCEPT ![t] = 0]
  /\ Deactivate(t)
  /\ UNCHANGED mode
  /\ \/ /\ mode[t] = "read" /\ readers > 1
        /\ readers' = readers - 1
        /\ pc' = [pc EXCEPT ![t] = "outside"]
        /\ UNCHANGED <<writer, queue>>
     \/ /\ mode[t] = "write" \/ readers = 1
        /\ Drain(t)

\* The outermost function returns.
LeaveOwner(t) ==
  /\ pc[t] = "inside" /\ context[t] = t /\ depth[t] = 1
  /\ ChildrenDone(t)
  /\ Release(t)

\* The end of an inline call changes nothing in the barrier.
LeaveInline(t) ==
  /\ pc[t] = "inside"
  /\ depth[t] > 1 \/ context[t] # t
  /\ depth' = [depth EXCEPT ![t] = @ - 1]
  /\ pc' = [pc EXCEPT ![t] = IF depth[t] = 1 THEN "outside" ELSE "inside"]
  /\ UNCHANGED <<readers, writer, queue, mode, calls, context>>

\* An error leaves all nested calls of the task at once: the function's own, a
\* GRAPH_REVISION_CONFLICT, or the GRAPH_READ_UPGRADE_FORBIDDEN that refuses a
\* mutation below a read snapshot.
Unwind(t) ==
  /\ pc[t] = "inside"
  /\ \/ /\ context[t] = t
        /\ ChildrenDone(t)
        /\ Release(t)
     \/ /\ context[t] # t
        /\ pc' = [pc EXCEPT ![t] = "outside"]
        /\ depth' = [depth EXCEPT ![t] = 0]
        /\ UNCHANGED <<readers, writer, queue, mode, calls, context>>

-----------------------------------------------------------------------------
Step(t) ==
  \/ AcquireRead(t)
  \/ AcquireWrite(t)
  \/ \E m \in Modes : Enqueue(t, m)
  \/ Resume(t)
  \/ \E m \in Modes : EnterInline(t, m)
  \/ \E c \in Tasks : Spawn(t, c)
  \/ LeaveInline(t)
  \/ LeaveOwner(t)
  \/ Unwind(t)

Next == \E t \in Tasks : Step(t)

Spec == Init /\ [][Next]_vars

\* A task that leaves, from a nested call or altogether.
Leave(t) == LeaveOwner(t) \/ LeaveInline(t) \/ Unwind(t)

-----------------------------------------------------------------------------
(***************************************************************************)
(* Properties                                                              *)
(***************************************************************************)

\* A writer is alone: whatever the interleaving of acquisitions, releases and
\* resolved-but-not-resumed waiters, two owners coexist only as readers.
Exclusion ==
  \A t, u \in Tasks :
    Holds(t) /\ Holds(u) /\ t # u => mode[t] = "read" /\ mode[u] = "read"

\* A task that runs inline runs under an owner that still holds the barrier: the
\* ownership record does not outlive its release, even in tasks started below it.
InlineIsCovered ==
  \A t \in Tasks : pc[t] = "inside" => context[t] # NoTask /\ Holds(context[t])

\* The counters of ReadWriteBarrier are the tasks that own it.
CountsAreExact ==
  /\ readers = Cardinality(Holders("read"))
  /\ writer <=> Holders("write") # {}

\* No wakeup is lost: a queue is never left behind by an idle barrier, so some
\* later release drains it.
NoAbandonedQueue == queue # <<>> => writer \/ readers > 0

Position(t) == CHOOSE i \in 1..Len(queue) : queue[i] = t

\* First come, first served: a waiter is admitted only together with everybody
\* queued before it, and nobody enters past a queued writer.
NoOvertaking ==
  [][\A t \in Tasks :
       (~Holds(t) /\ Holds(t)') =>
         \A w \in Tasks :
           pc[w] = "waiting" =>
             \/ pc[t] = "waiting" /\ Position(t) <= Position(w)
             \/ Holds(w)']_vars
=============================================================================
