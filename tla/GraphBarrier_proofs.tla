------------------------- MODULE GraphBarrier_proofs -------------------------
(***************************************************************************)
(* Proofs about GraphBarrier and FileLocks, for any finite set of tasks.   *)
(*                                                                         *)
(* CountsAreExact is not inductive alone: a drain counts the waiters it    *)
(* grants by their places in the queue, so they have to be distinct and    *)
(* not counted yet, and a release has to end an ownership that was         *)
(* counted.  IInv adds what queue places and ownership records are.        *)
(***************************************************************************)
EXTENDS FileLocks, FiniteSetTheorems, SequenceTheorems, TLAPS

QueueIsWaiting == \A i \in 1..Len(queue) : pc[queue[i]] = "waiting"

OnePlaceEach == \A i, j \in 1..Len(queue) : queue[i] = queue[j] => i = j

\* Ownership records in contexts are those of tasks inside their own call.
RecordsAreLive ==
  \A t \in Tasks :
    /\ context[t] # NoTask => /\ pc[context[t]] = "inside"
                              /\ context[context[t]] = context[t]
    /\ pc[t] \in {"waiting", "granted"} => context[t] = NoTask
    /\ pc[t] = "inside" => context[t] # NoTask /\ depth[t] > 0

WriterAlone ==
  /\ writer => readers = 0
  /\ \A t, u \in Holders("write") : t = u

IInv ==
  /\ TypeOK
  /\ QueueIsWaiting
  /\ OnePlaceEach
  /\ RecordsAreLive
  /\ CountsAreExact
  /\ WriterAlone
  /\ NoAbandonedQueue

-----------------------------------------------------------------------------
(***************************************************************************)
(* Sets of tasks and the queue                                             *)
(***************************************************************************)

\* Owners are tasks, of which there are finitely many.
LEMMA HoldersFinite ==
  ASSUME NEW m
  PROVE  IsFiniteSet(Holders(m)) /\ Holders(m) \subseteq Tasks
<1>1. Holders(m) \subseteq Tasks
  BY DEF Holders
<1> QED
  BY <1>1, FS_Subset, TasksAssumption

\* The first n places of the queue hold n tasks.
LEMMA PrefixSize ==
  ASSUME queue \in Seq(Tasks), OnePlaceEach, NEW n \in 0..Len(queue)
  PROVE  Cardinality({queue[i] : i \in 1..n}) = n
<1> DEFINE f == [i \in 1..n |-> queue[i]]
           S == {queue[i] : i \in 1..n}
<1>1. f \in Bijection(1..n, S)
  <2>1. f \in Injection(1..n, S)
    BY DEF Injection, IsInjective, OnePlaceEach
  <2>2. f \in Surjection(1..n, S)
    BY DEF Surjection
  <2> QED
    BY <2>1, <2>2 DEF Bijection
<1>2. ExistsBijection(1..n, S)
  BY <1>1 DEF ExistsBijection
<1> QED
  BY <1>2, FS_CountingElements

\* The tasks in the queue are waiting, and so hold nothing.
LEMMA QueuedHoldNothing ==
  ASSUME IInv, NEW i \in 1..Len(queue)
  PROVE  queue[i] \in Tasks /\ ~Holds(queue[i])
BY DEF IInv, TypeOK, QueueIsWaiting, Holds

\* A step that leaves the counters and the owners alone keeps what the
\* counters say about the owners.
LEMMA SameHolders ==
  ASSUME IInv, UNCHANGED <<readers, writer>>,
         \A t \in Tasks : Holds(t)' <=> Holds(t),
         \A t \in Tasks : Holds(t) => mode'[t] = mode[t]
  PROVE  CountsAreExact' /\ WriterAlone'
<1>1. \A m \in Modes : Holders(m)' = Holders(m)
  BY DEF Holders
<1> QED
  BY <1>1 DEF IInv, CountsAreExact, WriterAlone, Modes

-----------------------------------------------------------------------------
(***************************************************************************)
(* Entering                                                                *)
(***************************************************************************)

\* A task that starts to hold with mode m joins the owners with that mode.
LEMMA AdmitHolders ==
  ASSUME IInv, NEW t \in Tasks, NEW m \in Modes,
         pc[t] = "outside", Admit(t, m), UNCHANGED context
  PROVE  /\ Holders(m)' = Holders(m) \cup {t}
         /\ t \notin Holders(m)
         /\ \A k \in Modes \ {m} : Holders(k)' = Holders(k)
<1>1. \A u \in Tasks \ {t} : (Holds(u)' <=> Holds(u)) /\ mode'[u] = mode[u]
  BY DEF IInv, TypeOK, Admit, Holds
<1>2. ~Holds(t) /\ Holds(t)' /\ mode'[t] = m
  BY DEF IInv, TypeOK, Admit, Holds
<1> QED
  BY <1>1, <1>2 DEF Holders

\* What an immediate acquisition leaves true of queue and contexts.
LEMMA AdmitFrame ==
  ASSUME IInv, NEW t \in Tasks, NEW m \in Modes,
         pc[t] = "outside", context[t] = NoTask, Admit(t, m),
         UNCHANGED <<queue, depth, calls, context>>,
         readers' \in Nat, writer' \in BOOLEAN
  PROVE  TypeOK' /\ QueueIsWaiting' /\ OnePlaceEach' /\ RecordsAreLive'
<1>1. TypeOK'
  BY DEF IInv, TypeOK, Admit, Places
<1>2. QueueIsWaiting' /\ OnePlaceEach'
  BY DEF IInv, TypeOK, Admit, QueueIsWaiting, OnePlaceEach
<1>3. RecordsAreLive'
  BY DEF IInv, TypeOK, Admit, RecordsAreLive
<1> QED
  BY <1>1, <1>2, <1>3

LEMMA AcquireReadInv ==
  ASSUME IInv, NEW t \in Tasks, AcquireRead(t)
  PROVE  IInv'
<1> USE DEF AcquireRead
<1>1. readers' \in Nat /\ readers' > 0 /\ writer' = FALSE
  BY DEF IInv, TypeOK
<1>2. TypeOK' /\ QueueIsWaiting' /\ OnePlaceEach' /\ RecordsAreLive'
  BY <1>1, AdmitFrame DEF Modes
<1>3. /\ Holders("read")' = Holders("read") \cup {t}
      /\ t \notin Holders("read")
      /\ Holders("write")' = Holders("write")
  BY AdmitHolders DEF Modes
<1>4. readers' = Cardinality(Holders("read")')
  BY <1>3, HoldersFinite, FS_AddElement DEF IInv, CountsAreExact
<1>5. CountsAreExact' /\ WriterAlone'
  BY <1>1, <1>3, <1>4 DEF IInv, CountsAreExact, WriterAlone
<1>6. NoAbandonedQueue'
  BY <1>1 DEF NoAbandonedQueue
<1> QED
  BY <1>2, <1>5, <1>6 DEF IInv

LEMMA AcquireWriteInv ==
  ASSUME IInv, NEW t \in Tasks, AcquireWrite(t)
  PROVE  IInv'
<1> USE DEF AcquireWrite
<1>1. TypeOK' /\ QueueIsWaiting' /\ OnePlaceEach' /\ RecordsAreLive'
  BY AdmitFrame DEF Modes, IInv, TypeOK
<1>2. /\ Holders("write")' = Holders("write") \cup {t}
      /\ Holders("read")' = Holders("read")
  BY AdmitHolders DEF Modes
<1>3. Holders("write") = {}
  BY DEF IInv, CountsAreExact
<1>4. CountsAreExact' /\ WriterAlone'
  BY <1>2, <1>3 DEF IInv, CountsAreExact, WriterAlone
<1>5. NoAbandonedQueue'
  BY DEF NoAbandonedQueue
<1> QED
  BY <1>1, <1>4, <1>5 DEF IInv

LEMMA EnqueueInv ==
  ASSUME IInv, NEW t \in Tasks, NEW m \in Modes, Enqueue(t, m)
  PROVE  IInv'
<1> USE DEF Enqueue
<1>1. /\ queue' \in Seq(Tasks) /\ Len(queue') = Len(queue) + 1
      /\ \A i \in 1..Len(queue) : queue'[i] = queue[i]
      /\ queue'[Len(queue) + 1] = t
      /\ Len(queue) \in Nat
  BY AppendProperties DEF IInv, TypeOK
<1>2. TypeOK'
  BY <1>1 DEF IInv, TypeOK, Places
<1>3. QueueIsWaiting'
  BY <1>1 DEF IInv, TypeOK, QueueIsWaiting
<1>4. \A i \in 1..Len(queue) : queue[i] # t
  BY DEF IInv, QueueIsWaiting
<1>5. OnePlaceEach'
  BY <1>1, <1>4 DEF IInv, OnePlaceEach
<1>6. RecordsAreLive'
  BY DEF IInv, TypeOK, RecordsAreLive
<1>7. /\ \A u \in Tasks : Holds(u)' <=> Holds(u)
      /\ \A u \in Tasks : Holds(u) => mode'[u] = mode[u]
  BY DEF IInv, TypeOK, Holds
<1>8. CountsAreExact' /\ WriterAlone'
  BY <1>7, SameHolders
<1>9. NoAbandonedQueue'
  BY DEF IInv, TypeOK, NoAbandonedQueue, QueuedWrite
<1> QED
  BY <1>2, <1>3, <1>5, <1>6, <1>8, <1>9 DEF IInv

LEMMA ResumeInv ==
  ASSUME IInv, NEW t \in Tasks, Resume(t)
  PROVE  IInv'
<1> USE DEF Resume
<1>1. TypeOK'
  BY DEF IInv, TypeOK, Places
<1>2. QueueIsWaiting' /\ OnePlaceEach' /\ NoAbandonedQueue'
  BY DEF IInv, TypeOK, QueueIsWaiting, OnePlaceEach, NoAbandonedQueue
<1>3. RecordsAreLive'
  BY TasksAssumption DEF IInv, TypeOK, RecordsAreLive
<1>4. CountsAreExact' /\ WriterAlone'
  <2>1. \A u \in Tasks : Holds(u)' <=> Holds(u)
    BY DEF IInv, TypeOK, Holds
  <2> QED
    BY <2>1, SameHolders
<1> QED
  BY <1>1, <1>2, <1>3, <1>4 DEF IInv

LEMMA EnterInlineInv ==
  ASSUME IInv, NEW t \in Tasks, NEW m \in Modes, EnterInline(t, m)
  PROVE  IInv'
<1> USE DEF EnterInline
<1>1. pc[t] \in {"outside", "inside"}
  BY DEF IInv, TypeOK, Places, RecordsAreLive
<1>2. TypeOK'
  BY DEF IInv, TypeOK, Places
<1>3. QueueIsWaiting' /\ OnePlaceEach' /\ NoAbandonedQueue'
  <2>1. QueueIsWaiting'
    <3>1. \A i \in 1..Len(queue) : queue[i] \in Tasks /\ pc[queue[i]] = "waiting"
      BY DEF IInv, TypeOK, QueueIsWaiting
    <3>2. queue' = queue /\ \A u \in Tasks \ {t} : pc'[u] = pc[u]
      BY DEF IInv, TypeOK
    <3> QED
      BY <1>1, <3>1, <3>2 DEF QueueIsWaiting
  <2>2. OnePlaceEach' /\ NoAbandonedQueue'
    BY <1>1 DEF IInv, TypeOK, OnePlaceEach, NoAbandonedQueue
  <2> QED
    BY <2>1, <2>2
<1>4. RecordsAreLive'
  BY <1>1 DEF IInv, TypeOK, RecordsAreLive
<1>5. CountsAreExact' /\ WriterAlone'
  <2>1. \A u \in Tasks : Holds(u)' <=> Holds(u)
    BY <1>1 DEF IInv, TypeOK, Holds, RecordsAreLive
  <2> QED
    BY <2>1, SameHolders
<1> QED
  BY <1>2, <1>3, <1>4, <1>5 DEF IInv

LEMMA SpawnInv ==
  ASSUME IInv, NEW t \in Tasks, NEW c \in Tasks, Spawn(t, c)
  PROVE  IInv'
<1> USE DEF Spawn
<1>1. TypeOK' /\ QueueIsWaiting' /\ OnePlaceEach' /\ NoAbandonedQueue'
  BY DEF IInv, TypeOK, QueueIsWaiting, OnePlaceEach, NoAbandonedQueue
<1>2. RecordsAreLive'
  BY DEF IInv, TypeOK, RecordsAreLive
<1>3. CountsAreExact' /\ WriterAlone'
  <2>1. \A u \in Tasks : Holds(u)' <=> Holds(u)
    BY DEF IInv, TypeOK, Holds
  <2> QED
    BY <2>1, SameHolders
<1> QED
  BY <1>1, <1>2, <1>3 DEF IInv

-----------------------------------------------------------------------------
(***************************************************************************)
(* Leaving                                                                 *)
(***************************************************************************)

\* Whoever leaves as a writer or as the last reader was the only owner.
LEMMA OnlyOwner ==
  ASSUME IInv, NEW t \in Tasks, Holds(t),
         mode[t] = "write" \/ readers = 1,
         NEW u \in Tasks, Holds(u)
  PROVE  u = t
<1>1. mode[t] \in Modes /\ mode[u] \in Modes
  BY DEF IInv, TypeOK
<1>2. CASE mode[t] = "write"
  <2>1. t \in Holders("write")
    BY <1>2 DEF Holders
  <2>2. Holders("read") = {}
    BY <2>1, HoldersFinite, FS_EmptySet DEF IInv, CountsAreExact, WriterAlone
  <2>3. u \in Holders("write")
    BY <2>2, <1>1 DEF Modes, Holders
  <2> QED
    BY <2>1, <2>3 DEF IInv, WriterAlone
<1>3. CASE readers = 1 /\ mode[t] # "write"
  <2>1. Holders("write") = {}
    BY <1>3 DEF IInv, CountsAreExact, WriterAlone
  <2>2. t \in Holders("read") /\ u \in Holders("read")
    BY <2>1, <1>1 DEF Modes, Holders
  <2>3. PICK x : Holders("read") = {x}
    BY <1>3, HoldersFinite, FS_Singleton DEF IInv, CountsAreExact
  <2> QED
    BY <2>2, <2>3
<1> QED
  BY <1>2, <1>3

\* What is true of a task that leaves its outermost call.
Leaving(t) ==
  /\ pc[t] = "inside" /\ context[t] = t
  /\ ChildrenDone(t)
  /\ Release(t)

\* Ownership records after a release: whatever the drain grants, only waiting
\* tasks change their place, and they have no record.
LEMMA ReleaseRecords ==
  ASSUME IInv, NEW t \in Tasks, Leaving(t), NEW S, S \subseteq Tasks,
         \A u \in S : pc[u] = "waiting",
         pc' = [u \in Tasks |-> IF u = t THEN "outside"
                                ELSE IF u \in S THEN "granted" ELSE pc[u]]
  PROVE  RecordsAreLive'
<1>1. \A u \in Tasks : context'[u] = IF context[u] = t THEN NoTask ELSE context[u]
  BY DEF Leaving, Release, Deactivate
<1>2. \A u \in Tasks \ {t} : depth'[u] = depth[u]
  BY DEF IInv, TypeOK, Leaving, Release
<1> SUFFICES ASSUME NEW u \in Tasks
             PROVE  /\ context'[u] # NoTask =>
                         /\ pc'[context'[u]] = "inside"
                         /\ context'[context'[u]] = context'[u]
                    /\ pc'[u] \in {"waiting", "granted"} => context'[u] = NoTask
                    /\ pc'[u] = "inside" => context'[u] # NoTask /\ depth'[u] > 0
  BY DEF RecordsAreLive
<1>3. context'[u] # NoTask => /\ pc'[context'[u]] = "inside"
                              /\ context'[context'[u]] = context'[u]
  <2> SUFFICES ASSUME context'[u] # NoTask
               PROVE  pc'[context'[u]] = "inside" /\ context'[context'[u]] = context'[u]
    OBVIOUS
  <2>1. context'[u] = context[u] /\ context[u] # t /\ context[u] \in Tasks
    BY <1>1 DEF IInv, TypeOK
  <2>2. pc[context[u]] = "inside" /\ context[context[u]] = context[u]
    BY <2>1 DEF IInv, RecordsAreLive
  <2> QED
    BY <2>1, <2>2, <1>1
<1>4. pc'[u] \in {"waiting", "granted"} => context'[u] = NoTask
  BY <1>1 DEF IInv, RecordsAreLive
<1>5. pc'[u] = "inside" => context'[u] # NoTask /\ depth'[u] > 0
  BY <1>1, <1>2 DEF IInv, RecordsAreLive, Leaving, ChildrenDone
<1> QED
  BY <1>3, <1>4, <1>5

\* The typing of what every release writes.
LEMMA ReleaseTypes ==
  ASSUME IInv, NEW t \in Tasks, Leaving(t)
  PROVE  /\ depth' \in [Tasks -> Nat]
         /\ calls' \in [Tasks -> Nat]
         /\ context' \in [Tasks -> Tasks \cup {NoTask}]
         /\ mode' = mode
BY DEF IInv, TypeOK, Leaving, Release, Deactivate

\* One of several readers leaves.
LEMMA ReaderLeaves ==
  ASSUME IInv, NEW t \in Tasks, Leaving(t),
         mode[t] = "read", readers > 1, readers' = readers - 1,
         pc' = [pc EXCEPT ![t] = "outside"],
         UNCHANGED <<writer, queue>>
  PROVE  IInv'
<1>1. TypeOK'
  BY ReleaseTypes DEF IInv, TypeOK, Places
<1>2. QueueIsWaiting' /\ OnePlaceEach'
  BY DEF IInv, TypeOK, QueueIsWaiting, OnePlaceEach, Leaving
<1>3. RecordsAreLive'
  <2> DEFINE granted == {}
  <2>1. pc' = [u \in Tasks |-> IF u = t THEN "outside"
                               ELSE IF u \in granted THEN "granted" ELSE pc[u]]
    BY DEF IInv, TypeOK
  <2>2. granted \subseteq Tasks /\ \A u \in granted : pc[u] = "waiting"
    OBVIOUS
  <2> HIDE DEF granted
  <2> QED
    BY <2>1, <2>2, ReleaseRecords
<1>4. \A u \in Tasks \ {t} : Holds(u)' <=> Holds(u)
  <2>1. \A u \in Tasks \ {t} : pc'[u] = pc[u] /\ (context'[u] = u <=> context[u] = u)
    BY TasksAssumption DEF IInv, TypeOK, Leaving, Release, Deactivate
  <2> QED
    BY <2>1 DEF Holds
<1>5. Holds(t) /\ ~Holds(t)'
  BY DEF IInv, TypeOK, Holds, Leaving, Release, Deactivate
<1>6. Holders("read")' = Holders("read") \ {t} /\ t \in Holders("read")
  BY <1>4, <1>5, ReleaseTypes DEF Holders
<1>7. Holders("write")' = Holders("write")
  BY <1>4, <1>5, ReleaseTypes DEF Holders
<1>8. readers' = Cardinality(Holders("read")')
  BY <1>6, HoldersFinite, FS_RemoveElement DEF IInv, CountsAreExact
<1>9. CountsAreExact' /\ WriterAlone' /\ NoAbandonedQueue'
  BY <1>7, <1>8 DEF IInv, TypeOK, CountsAreExact, WriterAlone, NoAbandonedQueue
<1> QED
  BY <1>1, <1>2, <1>3, <1>9 DEF IInv

\* The last owner leaves and its drain grants the waiters in S.
LEMMA DrainHolders ==
  ASSUME IInv, NEW t \in Tasks, Leaving(t),
         mode[t] = "write" \/ readers = 1,
         NEW S, S \subseteq Tasks, \A u \in S : pc[u] = "waiting",
         pc' = [u \in Tasks |-> IF u = t THEN "outside"
                                ELSE IF u \in S THEN "granted" ELSE pc[u]]
  PROVE  \A m \in Modes : Holders(m)' = {u \in S : mode[u] = m}
<1>1. Holds(t)
  BY DEF Holds, Leaving
<1>2. \A u \in Tasks \ {t} : ~Holds(u)
  BY <1>1, OnlyOwner
<1>3. pc[t] = "inside" /\ t \notin S
  BY DEF Leaving
<1>4. \A u \in Tasks : pc'[u] = "inside" => context'[u] # u
  <2>1. \A u \in Tasks \ {t} : pc'[u] = "inside" => pc[u] = "inside"
    OBVIOUS
  <2>2. \A u \in Tasks \ {t} : pc'[u] = "inside" => context[u] # u
    BY <2>1, <1>2 DEF Holds
  <2>3. \A u \in Tasks : context'[u] = IF context[u] = t THEN NoTask ELSE context[u]
    BY DEF Leaving, Release, Deactivate
  <2> QED
    BY <2>2, <2>3, TasksAssumption
<1>5. \A u \in Tasks : pc'[u] = "granted" <=> u \in S
  BY <1>2, <1>3 DEF Holds
<1>6. \A u \in Tasks : Holds(u)' <=> u \in S
  BY <1>4, <1>5 DEF Holds
<1> QED
  BY <1>6, ReleaseTypes DEF Holders

\* The last owner leaves and the oldest waiter is a writer.
LEMMA WriterNext ==
  ASSUME IInv, NEW t \in Tasks, Leaving(t),
         mode[t] = "write" \/ readers = 1,
         queue # <<>>, mode[Head(queue)] = "write",
         pc' = [u \in Tasks |-> IF u = t THEN "outside"
                                ELSE IF u \in {Head(queue)} THEN "granted" ELSE pc[u]],
         queue' = Tail(queue), writer' = TRUE, readers' = 0
  PROVE  IInv'
<1> DEFINE h == Head(queue)
           S == {h}
<1>1. /\ queue \in Seq(Tasks) /\ Len(queue) \in Nat \ {0} /\ h = queue[1]
      /\ h \in Tasks /\ pc[h] = "waiting"
  BY HeadTailProperties DEF IInv, TypeOK, QueueIsWaiting
<1>2. /\ queue' \in Seq(Tasks) /\ Len(queue') = Len(queue) - 1
      /\ \A i \in 1..Len(queue') : queue'[i] = queue[i + 1]
  BY <1>1, HeadTailProperties
<1>3. S \subseteq Tasks /\ \A u \in S : pc[u] = "waiting"
  BY <1>1
<1>4. pc' = [u \in Tasks |-> IF u = t THEN "outside"
                             ELSE IF u \in S THEN "granted" ELSE pc[u]]
  OBVIOUS
<1>5. \A m \in Modes : Holders(m)' = {u \in S : mode[u] = m}
  <2> HIDE DEF S
  <2> QED
    BY <1>3, <1>4, DrainHolders
<1>6. Holders("write")' = {h} /\ Holders("read")' = {}
  BY <1>5 DEF Modes
<1>7. TypeOK'
  BY <1>2, ReleaseTypes DEF IInv, TypeOK, Places
<1>8. OnePlaceEach'
  BY <1>1, <1>2 DEF IInv, OnePlaceEach
<1>9. QueueIsWaiting'
  <2> SUFFICES ASSUME NEW i \in 1..Len(queue')
               PROVE  pc'[queue'[i]] = "waiting"
    BY DEF QueueIsWaiting
  <2>1. i + 1 \in 1..Len(queue) /\ queue'[i] = queue[i + 1]
    BY <1>1, <1>2
  <2>2. pc[queue[i + 1]] = "waiting" /\ queue[i + 1] # h
    BY <1>1, <2>1 DEF IInv, QueueIsWaiting, OnePlaceEach
  <2>3. queue[i + 1] # t /\ queue[i + 1] \in Tasks
    BY <1>1, <2>1, <2>2 DEF Leaving
  <2> QED
    BY <2>1, <2>2, <2>3
<1>10. RecordsAreLive'
  <2> HIDE DEF S
  <2> QED
    BY <1>3, <1>4, ReleaseRecords
<1>11. CountsAreExact' /\ WriterAlone' /\ NoAbandonedQueue'
  BY <1>6, FS_EmptySet DEF CountsAreExact, WriterAlone, NoAbandonedQueue
<1> QED
  BY <1>7, <1>8, <1>9, <1>10, <1>11 DEF IInv

\* The last owner leaves and the n leading readers of the queue enter.
LEMMA ReadersNext ==
  ASSUME IInv, NEW t \in Tasks, Leaving(t),
         mode[t] = "write" \/ readers = 1,
         queue # <<>> => mode[Head(queue)] = "read",
         NEW n \in 0..Len(queue), LeadingReads(n),
         pc' = [u \in Tasks |-> IF u = t THEN "outside"
                                ELSE IF u \in {queue[i] : i \in 1..n} THEN "granted"
                                ELSE pc[u]],
         queue' = SubSeq(queue, n + 1, Len(queue)),
         writer' = FALSE, readers' = n
  PROVE  IInv'
<1> DEFINE S == {queue[i] : i \in 1..n}
<1>1. queue \in Seq(Tasks) /\ Len(queue) \in Nat /\ n \in Nat
  BY DEF IInv, TypeOK
<1>2. /\ queue' \in Seq(Tasks) /\ Len(queue') = Len(queue) - n
      /\ \A i \in 1..Len(queue') : queue'[i] = queue[i + n]
  <2>1. \A i \in n + 1..Len(queue) : queue[i] \in Tasks
    BY <1>1
  <2>2. /\ queue' \in Seq(Tasks)
        /\ Len(queue') = IF n + 1 <= Len(queue) THEN Len(queue) - (n + 1) + 1 ELSE 0
        /\ \A i \in 1..Len(queue) - (n + 1) + 1 : queue'[i] = queue[n + 1 + i - 1]
    BY <1>1, <2>1, SubSeqProperties
  <2> QED
    BY <1>1, <2>2
<1>3. S \subseteq Tasks /\ \A u \in S : pc[u] = "waiting" /\ mode[u] = "read"
  BY <1>1 DEF IInv, QueueIsWaiting, LeadingReads
<1>4. pc' = [u \in Tasks |-> IF u = t THEN "outside"
                             ELSE IF u \in S THEN "granted" ELSE pc[u]]
  OBVIOUS
<1>5. \A m \in Modes : Holders(m)' = {u \in S : mode[u] = m}
  <2> HIDE DEF S
  <2> QED
    BY <1>3, <1>4, DrainHolders
<1>6. Holders("write")' = {} /\ Holders("read")' = S
  BY <1>3, <1>5 DEF Modes
<1>7. Cardinality(S) = n
  BY <1>1, PrefixSize DEF IInv
<1>8. TypeOK'
  BY <1>1, <1>2, ReleaseTypes DEF IInv, TypeOK, Places
<1>9. OnePlaceEach'
  BY <1>1, <1>2 DEF IInv, OnePlaceEach
<1>10. QueueIsWaiting'
  <2> SUFFICES ASSUME NEW i \in 1..Len(queue')
               PROVE  pc'[queue'[i]] = "waiting"
    BY DEF QueueIsWaiting
  <2>1. i + n \in 1..Len(queue) /\ queue'[i] = queue[i + n]
    BY <1>1, <1>2
  <2>2. pc[queue[i + n]] = "waiting"
    BY <2>1 DEF IInv, QueueIsWaiting
  <2>3. \A j \in 1..n : queue[j] # queue[i + n]
    BY <1>1, <1>2, <2>1 DEF IInv, OnePlaceEach
  <2>4. queue[i + n] # t /\ queue[i + n] \in Tasks
    BY <1>1, <2>1, <2>2 DEF Leaving
  <2> QED
    BY <2>1, <2>2, <2>3, <2>4
<1>11. RecordsAreLive'
  <2> HIDE DEF S
  <2> QED
    BY <1>3, <1>4, ReleaseRecords
<1>12. queue' # <<>> => n > 0
  <2> SUFFICES ASSUME n = 0, queue' # <<>> PROVE FALSE
    BY <1>1
  <2>1. Len(queue) > 0 /\ queue # <<>>
    BY <1>1, <1>2
  <2>2. mode[queue[1]] = "read" /\ mode[queue[1]] = "write"
    BY <1>1, <2>1 DEF LeadingReads
  <2> QED
    BY <2>2
<1>13. CountsAreExact' /\ WriterAlone' /\ NoAbandonedQueue'
  BY <1>6, <1>7, <1>12 DEF CountsAreExact, WriterAlone, NoAbandonedQueue
<1> QED
  BY <1>8, <1>9, <1>10, <1>11, <1>13 DEF IInv

\* Every way an outermost call ends.
LEMMA ReleaseInv ==
  ASSUME IInv, NEW t \in Tasks, Leaving(t)
  PROVE  IInv'
<1>1. CASE /\ mode[t] = "read" /\ readers > 1
           /\ readers' = readers - 1
           /\ pc' = [pc EXCEPT ![t] = "outside"]
           /\ UNCHANGED <<writer, queue>>
  BY <1>1, ReaderLeaves
<1>2. CASE (mode[t] = "write" \/ readers = 1) /\ Drain(t)
  <2>1. CASE /\ queue # <<>> /\ mode[Head(queue)] = "write"
             /\ pc' = [u \in Tasks |-> IF u = t THEN "outside"
                                       ELSE IF u \in {Head(queue)} THEN "granted"
                                       ELSE pc[u]]
             /\ queue' = Tail(queue) /\ writer' = TRUE /\ readers' = 0
    BY <1>2, <2>1, WriterNext
  <2>2. CASE /\ queue # <<>> => mode[Head(queue)] = "read"
             /\ \E n \in 0..Len(queue) :
                  /\ LeadingReads(n)
                  /\ pc' = [u \in Tasks |-> IF u = t THEN "outside"
                              ELSE IF u \in {queue[i] : i \in 1..n} THEN "granted"
                              ELSE pc[u]]
                  /\ queue' = SubSeq(queue, n + 1, Len(queue))
                  /\ readers' = n
             /\ writer' = FALSE
    BY <1>2, <2>2, ReadersNext
  <2> QED
    BY <1>2, <2>1, <2>2 DEF Drain
<1> QED
  BY <1>1, <1>2 DEF Leaving, Release

LEMMA LeaveInlineInv ==
  ASSUME IInv, NEW t \in Tasks, LeaveInline(t)
  PROVE  IInv'
<1> USE DEF LeaveInline
<1>1. depth[t] \in Nat /\ depth[t] > 0 /\ (depth[t] = 1 => context[t] # t)
  BY DEF IInv, TypeOK, RecordsAreLive
<1>2. TypeOK'
  BY <1>1 DEF IInv, TypeOK, Places
<1>3. QueueIsWaiting' /\ OnePlaceEach' /\ NoAbandonedQueue'
  BY DEF IInv, TypeOK, QueueIsWaiting, OnePlaceEach, NoAbandonedQueue
<1>4. RecordsAreLive'
  BY <1>1 DEF IInv, TypeOK, RecordsAreLive
<1>5. CountsAreExact' /\ WriterAlone'
  <2>1. \A u \in Tasks : Holds(u)' <=> Holds(u)
    BY <1>1 DEF IInv, TypeOK, Holds
  <2> QED
    BY <2>1, SameHolders
<1> QED
  BY <1>2, <1>3, <1>4, <1>5 DEF IInv

LEMMA UnwindInv ==
  ASSUME IInv, NEW t \in Tasks, Unwind(t)
  PROVE  IInv'
<1>1. CASE context[t] = t /\ ChildrenDone(t) /\ Release(t)
  BY <1>1, ReleaseInv DEF Unwind, Leaving
<1>2. CASE /\ context[t] # t
           /\ pc' = [pc EXCEPT ![t] = "outside"]
           /\ depth' = [depth EXCEPT ![t] = 0]
           /\ UNCHANGED <<readers, writer, queue, mode, calls, context>>
  <2>0. pc[t] = "inside"
    BY DEF Unwind
  <2>1. TypeOK'
    BY <1>2 DEF IInv, TypeOK, Places
  <2>2. QueueIsWaiting' /\ OnePlaceEach' /\ NoAbandonedQueue'
    BY <1>2, <2>0 DEF IInv, TypeOK, QueueIsWaiting, OnePlaceEach, NoAbandonedQueue
  <2>3. RecordsAreLive'
    BY <1>2, <2>0 DEF IInv, TypeOK, RecordsAreLive
  <2>4. \A u \in Tasks : Holds(u)' <=> Holds(u)
    BY <1>2, <2>0 DEF IInv, TypeOK, Holds
  <2>5. CountsAreExact' /\ WriterAlone'
    BY <1>2, <2>4, SameHolders
  <2> QED
    BY <2>1, <2>2, <2>3, <2>5 DEF IInv
<1> QED
  BY <1>1, <1>2 DEF Unwind

-----------------------------------------------------------------------------
(***************************************************************************)
(* The inductive invariant                                                 *)
(***************************************************************************)

LEMMA InitInv == Init => IInv
<1> SUFFICES ASSUME Init PROVE IInv
  OBVIOUS
<1>1. TypeOK
  <2>1. readers \in Nat /\ writer \in BOOLEAN
    BY DEF Init
  <2>2. queue \in Seq(Tasks)
    BY EmptySeq DEF Init
  <2>3. pc \in [Tasks -> Places] /\ mode \in [Tasks -> Modes]
    BY DEF Init, Modes, Places
  <2>4. depth \in [Tasks -> Nat] /\ calls \in [Tasks -> Nat]
    BY DEF Init
  <2>5. context \in [Tasks -> Tasks \cup {NoTask}]
    BY DEF Init
  <2> QED
    BY <2>1, <2>2, <2>3, <2>4, <2>5 DEF TypeOK
<1>2. \A m : Holders(m) = {}
  BY DEF Init, Holders, Holds
<1>3. CountsAreExact /\ WriterAlone
  BY <1>2, FS_EmptySet DEF Init, CountsAreExact, WriterAlone
<1>4. QueueIsWaiting /\ OnePlaceEach /\ RecordsAreLive /\ NoAbandonedQueue
  BY DEF Init, QueueIsWaiting, OnePlaceEach, RecordsAreLive, NoAbandonedQueue
<1> QED
  BY <1>1, <1>3, <1>4 DEF IInv

LEMMA StutterInv == IInv /\ UNCHANGED vars => IInv'
<1> SUFFICES ASSUME IInv, UNCHANGED vars PROVE IInv'
  OBVIOUS
<1> USE DEF vars
<1>1. TypeOK' /\ QueueIsWaiting' /\ OnePlaceEach' /\ RecordsAreLive' /\ NoAbandonedQueue'
  BY DEF IInv, TypeOK, QueueIsWaiting, OnePlaceEach, RecordsAreLive, NoAbandonedQueue
<1>2. CountsAreExact' /\ WriterAlone'
  <2>1. \A u \in Tasks : Holds(u)' <=> Holds(u)
    BY DEF Holds
  <2> QED
    BY <2>1, SameHolders
<1> QED
  BY <1>1, <1>2 DEF IInv

LEMMA NextInv == IInv /\ [Next]_vars => IInv'
<1> SUFFICES ASSUME IInv, Next PROVE IInv'
  BY StutterInv
<1> PICK t \in Tasks : Step(t)
  BY DEF Next
<1>1. CASE AcquireRead(t)
  BY <1>1, AcquireReadInv
<1>2. CASE AcquireWrite(t)
  BY <1>2, AcquireWriteInv
<1>3. CASE \E m \in Modes : Enqueue(t, m)
  BY <1>3, EnqueueInv
<1>4. CASE Resume(t)
  BY <1>4, ResumeInv
<1>5. CASE \E m \in Modes : EnterInline(t, m)
  BY <1>5, EnterInlineInv
<1>6. CASE \E c \in Tasks : Spawn(t, c)
  BY <1>6, SpawnInv
<1>7. CASE LeaveInline(t)
  BY <1>7, LeaveInlineInv
<1>8. CASE LeaveOwner(t)
  BY <1>8, ReleaseInv DEF LeaveOwner, Leaving
<1>9. CASE Unwind(t)
  BY <1>9, UnwindInv
<1> QED
  BY <1>1, <1>2, <1>3, <1>4, <1>5, <1>6, <1>7, <1>8, <1>9 DEF Step

\* The invariant holds in every reachable state.
THEOREM Invariance == Spec => []IInv
BY InitInv, NextInv, PTL DEF Spec

\* Every variable of the barrier and of its callers keeps its type: no counter
\* of ReadWriteBarrier is decremented below zero.
THEOREM TypeCorrect == Spec => []TypeOK
<1>1. IInv => TypeOK
  BY DEF IInv
<1> QED
  BY <1>1, Invariance, PTL

\* A writer inside the barrier is its only owner, for any number of tasks.
THEOREM ExclusionHolds == Spec => []Exclusion
<1>1. IInv => Exclusion
  <2> SUFFICES ASSUME IInv, NEW t \in Tasks, NEW u \in Tasks,
                      Holds(t), Holds(u), t # u
               PROVE  mode[t] = "read" /\ mode[u] = "read"
    BY DEF Exclusion
  <2>1. mode[t] # "write" /\ mode[u] # "write"
    BY OnlyOwner
  <2> QED
    BY <2>1 DEF IInv, TypeOK, Modes
<1> QED
  BY <1>1, Invariance, PTL

\* The readers counter and the writer flag are exactly the owners.
THEOREM CountsAreExactHolds == Spec => []CountsAreExact
<1>1. IInv => CountsAreExact
  BY DEF IInv
<1> QED
  BY <1>1, Invariance, PTL

\* A task that runs inline runs under an owner that still holds the barrier.
THEOREM InlineIsCoveredHolds == Spec => []InlineIsCovered
<1>1. IInv => InlineIsCovered
  BY DEF IInv, RecordsAreLive, InlineIsCovered, Holds
<1> QED
  BY <1>1, Invariance, PTL

\* Tasks never wait in front of an idle barrier.
THEOREM NoAbandonedQueueHolds == Spec => []NoAbandonedQueue
<1>1. IInv => NoAbandonedQueue
  BY DEF IInv
<1> QED
  BY <1>1, Invariance, PTL

-----------------------------------------------------------------------------
(***************************************************************************)
(* First come, first served                                                *)
(*                                                                         *)
(* The order of admissions needs two more facts about the queue: it holds  *)
(* every waiter, and without an active writer its oldest entry is a        *)
(* writer, so that a read that finds no queued writer finds nobody queued. *)
(***************************************************************************)
WaitersAreQueued ==
  \A t \in Tasks : pc[t] = "waiting" => \E i \in 1..Len(queue) : queue[i] = t

OldestIsWriter == queue # <<>> => writer \/ mode[queue[1]] = "write"

OrderInv == IInv /\ WaitersAreQueued /\ OldestIsWriter

\* What NoOvertaking says of one step.
Orderly ==
  \A t \in Tasks :
    (~Holds(t) /\ Holds(t)') =>
      \A w \in Tasks :
        pc[w] = "waiting" =>
          \/ pc[t] = "waiting" /\ Position(t) <= Position(w)
          \/ Holds(w)'

\* A queued task stands at the one place that holds it.
LEMMA PlaceInQueue ==
  ASSUME IInv, NEW i \in 1..Len(queue)
  PROVE  Position(queue[i]) = i
<1>1. \E j \in 1..Len(queue) : queue[j] = queue[i]
  OBVIOUS
<1>2. /\ Position(queue[i]) \in 1..Len(queue)
      /\ queue[Position(queue[i])] = queue[i]
  BY <1>1 DEF Position
<1> QED
  BY <1>2 DEF IInv, OnePlaceEach

\* An acquisition that does not wait finds nobody waiting.
LEMMA NobodyWaits ==
  ASSUME OrderInv, ~writer, ~QueuedWrite
  PROVE  queue = <<>> /\ \A w \in Tasks : pc[w] # "waiting"
<1>1. queue \in Seq(Tasks) /\ Len(queue) \in Nat
  BY DEF OrderInv, IInv, TypeOK
<1>2. queue = <<>>
  <2> SUFFICES ASSUME queue # <<>> PROVE FALSE
    OBVIOUS
  <2>1. 1 \in 1..Len(queue)
    BY <1>1
  <2> QED
    BY <2>1 DEF OrderInv, OldestIsWriter, QueuedWrite
<1>3. Len(queue) = 0
  BY <1>2
<1> QED
  BY <1>2, <1>3 DEF OrderInv, WaitersAreQueued

\* A step that keeps queue, writer and modes, and neither adds nor admits a
\* waiter, keeps the order of admissions.
LEMMA QuietStep ==
  ASSUME OrderInv, UNCHANGED <<queue, writer, mode>>,
         \A t \in Tasks : pc'[t] = "waiting" => pc[t] = "waiting",
         \A t \in Tasks : Holds(t)' => Holds(t)
  PROVE  WaitersAreQueued' /\ OldestIsWriter' /\ Orderly
<1>1. WaitersAreQueued'
  BY DEF OrderInv, WaitersAreQueued
<1>2. OldestIsWriter'
  BY DEF OrderInv, OldestIsWriter
<1> QED
  BY <1>1, <1>2 DEF Orderly

LEMMA AcquireOrder ==
  ASSUME OrderInv, NEW t \in Tasks, AcquireRead(t) \/ AcquireWrite(t)
  PROVE  WaitersAreQueued' /\ OldestIsWriter' /\ Orderly
<1>1. queue = <<>> /\ \A w \in Tasks : pc[w] # "waiting"
  <2>1. ~QueuedWrite
    BY DEF AcquireRead, AcquireWrite, QueuedWrite
  <2> QED
    BY <2>1, NobodyWaits DEF AcquireRead, AcquireWrite
<1>2. \A w \in Tasks : pc'[w] # "waiting"
  BY <1>1 DEF OrderInv, IInv, TypeOK, AcquireRead, AcquireWrite, Admit
<1>3. queue' = <<>>
  BY <1>1 DEF AcquireRead, AcquireWrite
<1> QED
  BY <1>1, <1>2, <1>3 DEF WaitersAreQueued, OldestIsWriter, Orderly

LEMMA EnqueueOrder ==
  ASSUME OrderInv, NEW t \in Tasks, NEW m \in Modes, Enqueue(t, m)
  PROVE  WaitersAreQueued' /\ OldestIsWriter' /\ Orderly
<1> USE DEF Enqueue
<1>1. /\ queue' \in Seq(Tasks) /\ Len(queue') = Len(queue) + 1
      /\ \A i \in 1..Len(queue) : queue'[i] = queue[i]
      /\ queue'[Len(queue) + 1] = t
      /\ Len(queue) \in Nat
  BY AppendProperties DEF OrderInv, IInv, TypeOK
<1>2. WaitersAreQueued'
  <2> SUFFICES ASSUME NEW u \in Tasks, pc'[u] = "waiting"
               PROVE  \E i \in 1..Len(queue') : queue'[i] = u
    BY DEF WaitersAreQueued
  <2>1. CASE u = t
    BY <1>1, <2>1
  <2>2. CASE u # t
    <3>1. pc[u] = "waiting"
      BY <2>2 DEF OrderInv, IInv, TypeOK
    <3>2. PICK i \in 1..Len(queue) : queue[i] = u
      BY <3>1 DEF OrderInv, WaitersAreQueued
    <3> QED
      BY <1>1, <3>2
  <2> QED
    BY <2>1, <2>2
<1>3. OldestIsWriter'
  <2>1. CASE queue = <<>>
    <3>1. Len(queue) = 0 /\ queue'[1] = t
      BY <1>1, <2>1
    <3>2. m = "read" => writer
      BY <3>1 DEF QueuedWrite
    <3>3. mode'[t] = m
      BY DEF OrderInv, IInv, TypeOK
    <3> QED
      BY <3>1, <3>2, <3>3 DEF OldestIsWriter, Modes
  <2>2. CASE queue # <<>>
    <3>1. 1 \in 1..Len(queue)
      BY <1>1, <2>2 DEF OrderInv, IInv, TypeOK
    <3>2. queue[1] \in Tasks /\ queue[1] # t /\ queue'[1] = queue[1]
      BY <1>1, <3>1 DEF OrderInv, IInv, TypeOK, QueueIsWaiting
    <3>3. mode'[queue[1]] = mode[queue[1]]
      BY <3>2 DEF OrderInv, IInv, TypeOK
    <3> QED
      BY <2>2, <3>2, <3>3 DEF OrderInv, OldestIsWriter
  <2> QED
    BY <2>1, <2>2
<1>4. \A u \in Tasks : Holds(u)' => Holds(u)
  BY DEF OrderInv, IInv, TypeOK, Holds
<1> QED
  BY <1>2, <1>3, <1>4 DEF Orderly

\* A drain that grants the first n queued tasks admits them in order and leaves
\* the others queued.
LEMMA DrainOrder ==
  ASSUME OrderInv, NEW t \in Tasks, Leaving(t),
         NEW n \in 0..Len(queue),
         pc' = [u \in Tasks |-> IF u = t THEN "outside"
                                ELSE IF u \in {queue[i] : i \in 1..n} THEN "granted"
                                ELSE pc[u]],
         Len(queue') = Len(queue) - n,
         \A i \in 1..Len(queue') : queue'[i] = queue[i + n]
  PROVE  WaitersAreQueued' /\ Orderly
<1>1. Len(queue) \in Nat /\ \A i \in 1..Len(queue) : queue[i] \in Tasks
  BY DEF OrderInv, IInv, TypeOK
<1>2. \A u \in Tasks :
         pc[u] = "waiting" => \E j \in 1..Len(queue) : queue[j] = u
  BY DEF OrderInv, WaitersAreQueued
<1>3. WaitersAreQueued'
  <2> SUFFICES ASSUME NEW u \in Tasks, pc'[u] = "waiting"
               PROVE  \E i \in 1..Len(queue') : queue'[i] = u
    BY DEF WaitersAreQueued
  <2>1. pc[u] = "waiting" /\ u \notin {queue[i] : i \in 1..n}
    OBVIOUS
  <2>2. PICK j \in 1..Len(queue) : queue[j] = u
    BY <1>2, <2>1
  <2>3. j > n
    BY <2>1, <2>2, <1>1
  <2>4. j - n \in 1..Len(queue') /\ queue'[j - n] = queue[j - n + n] /\ j - n + n = j
    BY <1>1, <2>3
  <2> QED
    BY <2>2, <2>4
<1>4. Orderly
  <2> SUFFICES ASSUME NEW u \in Tasks, ~Holds(u), Holds(u)',
                      NEW w \in Tasks, pc[w] = "waiting"
               PROVE  \/ pc[u] = "waiting" /\ Position(u) <= Position(w)
                      \/ Holds(w)'
    BY DEF Orderly
  <2>1. pc'[u] = "granted" /\ u # t
    <3>1. \A c \in Tasks : context'[c] = c => context[c] = c
      BY TasksAssumption DEF Leaving, Release, Deactivate
    <3>2. pc'[u] = "inside" => pc[u] = "inside"
      OBVIOUS
    <3> QED
      BY <3>1, <3>2 DEF Holds
  <2>2. PICK i \in 1..n : queue[i] = u
    BY <2>1 DEF Holds
  <2>3. i \in 1..Len(queue) /\ pc[u] = "waiting" /\ Position(u) = i
    <3>1. i \in 1..Len(queue)
      BY <1>1, <2>2
    <3>2. Position(queue[i]) = i
      BY <3>1, PlaceInQueue DEF OrderInv
    <3> QED
      BY <3>1, <3>2, <2>2 DEF OrderInv, IInv, QueueIsWaiting
  <2>4. PICK j \in 1..Len(queue) : queue[j] = w
    BY <1>2
  <2>5. Position(w) = j
    BY <2>4, PlaceInQueue DEF OrderInv
  <2>6. CASE j <= n
    <3>1. j \in 1..n
      BY <1>1, <2>6
    <3>2. w \in {queue[k] : k \in 1..n} /\ w # t
      BY <2>4, <3>1 DEF Leaving
    <3>3. pc'[w] = "granted"
      BY <3>2
    <3> QED
      BY <3>3 DEF Holds
  <2>7. CASE j > n
    BY <1>1, <2>3, <2>5, <2>7
  <2> QED
    BY <1>1, <2>6, <2>7
<1> QED
  BY <1>3, <1>4

LEMMA ReleaseOrder ==
  ASSUME OrderInv, NEW t \in Tasks, Leaving(t)
  PROVE  WaitersAreQueued' /\ OldestIsWriter' /\ Orderly
<1>1. queue \in Seq(Tasks) /\ Len(queue) \in Nat /\ mode' = mode
  BY ReleaseTypes DEF OrderInv, IInv, TypeOK
<1>2. CASE /\ pc' = [pc EXCEPT ![t] = "outside"]
           /\ UNCHANGED <<writer, queue>>
  <2>1. \A u \in Tasks : pc'[u] = "waiting" => pc[u] = "waiting"
    BY <1>2 DEF OrderInv, IInv, TypeOK
  <2>2. \A u \in Tasks : Holds(u)' => Holds(u)
    <3>1. \A c \in Tasks : context'[c] = c => context[c] = c
      BY TasksAssumption DEF Leaving, Release, Deactivate
    <3> QED
      BY <1>2, <3>1 DEF OrderInv, IInv, TypeOK, Holds
  <2> QED
    BY <1>1, <1>2, <2>1, <2>2, QuietStep
<1>3. CASE /\ queue # <<>>
           /\ pc' = [u \in Tasks |-> IF u = t THEN "outside"
                                     ELSE IF u \in {Head(queue)} THEN "granted"
                                     ELSE pc[u]]
           /\ queue' = Tail(queue) /\ writer' = TRUE
  <2>1. /\ Len(queue) > 0 /\ Head(queue) = queue[1]
        /\ Len(queue') = Len(queue) - 1
        /\ \A i \in 1..Len(queue') : queue'[i] = queue[i + 1]
    BY <1>1, <1>3, HeadTailProperties
  <2>2. {queue[i] : i \in 1..1} = {Head(queue)} /\ 1 \in 0..Len(queue)
    BY <1>1, <2>1
  <2>3. pc' = [u \in Tasks |-> IF u = t THEN "outside"
                               ELSE IF u \in {queue[i] : i \in 1..1} THEN "granted"
                               ELSE pc[u]]
    BY <1>3, <2>2
  <2>4. WaitersAreQueued' /\ Orderly
    BY <2>1, <2>2, <2>3, DrainOrder
  <2> QED
    BY <1>3, <2>4 DEF OldestIsWriter
<1>4. CASE \E n \in 0..Len(queue) :
             /\ LeadingReads(n)
             /\ pc' = [u \in Tasks |-> IF u = t THEN "outside"
                         ELSE IF u \in {queue[i] : i \in 1..n} THEN "granted"
                         ELSE pc[u]]
             /\ queue' = SubSeq(queue, n + 1, Len(queue))
  <2> PICK n \in 0..Len(queue) :
             /\ LeadingReads(n)
             /\ pc' = [u \in Tasks |-> IF u = t THEN "outside"
                         ELSE IF u \in {queue[i] : i \in 1..n} THEN "granted"
                         ELSE pc[u]]
             /\ queue' = SubSeq(queue, n + 1, Len(queue))
    BY <1>4
  <2>1. /\ Len(queue') = Len(queue) - n
        /\ \A i \in 1..Len(queue') : queue'[i] = queue[i + n]
    <3>1. \A i \in n + 1..Len(queue) : queue[i] \in Tasks
      BY <1>1
    <3>2. /\ Len(queue') = IF n + 1 <= Len(queue) THEN Len(queue) - (n + 1) + 1 ELSE 0
          /\ \A i \in 1..Len(queue) - (n + 1) + 1 : queue'[i] = queue[n + 1 + i - 1]
      BY <1>1, <3>1, SubSeqProperties
    <3> QED
      BY <1>1, <3>2
  <2>2. WaitersAreQueued' /\ Orderly
    BY <2>1, DrainOrder
  <2>3. OldestIsWriter'
    <3> SUFFICES ASSUME queue' # <<>> PROVE mode'[queue'[1]] = "write"
      BY DEF OldestIsWriter
    <3>1. queue' \in Seq(Tasks)
      BY <1>1, SubSeqProperties
    <3>2. n < Len(queue) /\ queue'[1] = queue[1 + n] /\ 1 + n = n + 1
      BY <1>1, <2>1, <3>1
    <3> QED
      BY <1>1, <3>2 DEF LeadingReads
  <2> QED
    BY <2>2, <2>3
<1> QED
  BY <1>2, <1>3, <1>4 DEF Leaving, Release, Drain

\* The steps that neither queue nor admit anybody.
LEMMA InnerOrder ==
  ASSUME OrderInv, NEW t \in Tasks,
         \/ Resume(t)
         \/ \E m \in Modes : EnterInline(t, m)
         \/ \E c \in Tasks : Spawn(t, c)
         \/ LeaveInline(t)
         \/ Unwind(t) /\ context[t] # t
  PROVE  WaitersAreQueued' /\ OldestIsWriter' /\ Orderly
<1> SUFFICES /\ UNCHANGED <<queue, writer, mode>>
             /\ \A u \in Tasks : pc'[u] = "waiting" => pc[u] = "waiting"
             /\ \A u \in Tasks : Holds(u)' => Holds(u)
  BY QuietStep
<1>1. CASE Resume(t)
  BY <1>1 DEF Resume, OrderInv, IInv, TypeOK, Holds
<1>2. CASE \E m \in Modes : EnterInline(t, m)
  <2>1. pc[t] \in {"outside", "inside"}
    BY <1>2 DEF EnterInline, OrderInv, IInv, TypeOK, Places, RecordsAreLive
  <2>2. context[t] = t => pc[t] = "inside"
    BY TasksAssumption DEF OrderInv, IInv, RecordsAreLive
  <2> QED
    BY <1>2, <2>1, <2>2 DEF EnterInline, OrderInv, IInv, TypeOK, Holds
<1>3. CASE \E c \in Tasks : Spawn(t, c)
  BY <1>3 DEF Spawn, OrderInv, IInv, TypeOK, Holds
<1>4. CASE LeaveInline(t)
  BY <1>4 DEF LeaveInline, OrderInv, IInv, TypeOK, Holds
<1>5. CASE Unwind(t) /\ context[t] # t
  BY <1>5 DEF Unwind, OrderInv, IInv, TypeOK, Holds
<1> QED
  BY <1>1, <1>2, <1>3, <1>4, <1>5

LEMMA StepOrder ==
  OrderInv /\ [Next]_vars => /\ WaitersAreQueued' /\ OldestIsWriter'
                             /\ UNCHANGED vars \/ Orderly
<1> SUFFICES ASSUME OrderInv, [Next]_vars
             PROVE  /\ WaitersAreQueued' /\ OldestIsWriter'
                    /\ UNCHANGED vars \/ Orderly
  OBVIOUS
<1>1. CASE UNCHANGED vars
  BY <1>1 DEF vars, OrderInv, WaitersAreQueued, OldestIsWriter
<1>2. CASE Next
  <2> PICK t \in Tasks : Step(t)
    BY <1>2 DEF Next
  <2>1. CASE AcquireRead(t) \/ AcquireWrite(t)
    BY <2>1, AcquireOrder
  <2>2. CASE \E m \in Modes : Enqueue(t, m)
    BY <2>2, EnqueueOrder
  <2>3. CASE LeaveOwner(t) \/ (Unwind(t) /\ context[t] = t)
    BY <2>3, ReleaseOrder DEF LeaveOwner, Unwind, Leaving
  <2>4. CASE \/ Resume(t)
             \/ \E m \in Modes : EnterInline(t, m)
             \/ \E c \in Tasks : Spawn(t, c)
             \/ LeaveInline(t)
             \/ Unwind(t) /\ context[t] # t
    BY <2>4, InnerOrder
  <2> QED
    BY <2>1, <2>2, <2>3, <2>4 DEF Step
<1> QED
  BY <1>1, <1>2

\* First come, first served, for any number of tasks: no step admits a task past
\* one that was queued before it.
THEOREM NoOvertakingHolds == Spec => NoOvertaking
<1>1. Init => OrderInv
  <2> SUFFICES ASSUME Init PROVE WaitersAreQueued /\ OldestIsWriter
    BY InitInv DEF OrderInv
  <2> QED
    BY DEF Init, WaitersAreQueued, OldestIsWriter
<1>2. OrderInv /\ [Next]_vars => OrderInv'
  BY NextInv, StepOrder DEF OrderInv
<1>3. OrderInv /\ [Next]_vars => [Orderly]_vars
  BY StepOrder
<1> QED
  BY <1>1, <1>2, <1>3, PTL DEF Spec, NoOvertaking, Orderly

-----------------------------------------------------------------------------
(***************************************************************************)
(* The calls of FileLocks                                                  *)
(*                                                                         *)
(* That a file has one worker at a time is not inductive: it has to be     *)
(* known that the chain of a file is one line, every call behind the one   *)
(* that joined just before it (LineIsSingle), whose last call is the tail  *)
(* of the file (TailIsLast).  An update is kept because nobody publishes   *)
(* between the read and the write of a call: what excludes the others is   *)
(* the lock, the barrier or the dream cycle, as the sites of the file      *)
(* decide.                                                                 *)
(***************************************************************************)

\* Every step of a call is a step of the barrier, or leaves it alone.
LEMMA BarrierStep == [CallNext]_callVars => [Next]_vars
<1> SUFFICES ASSUME [CallNext]_callVars PROVE [Next]_vars
  OBVIOUS
<1>1. CASE UNCHANGED callVars
  BY <1>1 DEF callVars
<1>2. ASSUME NEW t \in Tasks, Proceed(t) PROVE [Next]_vars
  <2>1. CASE EnterPublication(t)
    BY <2>1 DEF EnterPublication, Next, Step, Modes
  <2>2. CASE ResumePublication(t)
    BY <2>2 DEF ResumePublication, Next, Step
  <2>3. CASE LeavePublication(t)
    BY <2>3 DEF LeavePublication, Next, Step
  <2>4. CASE ~(EnterPublication(t) \/ ResumePublication(t) \/ LeavePublication(t))
    BY <1>2, <2>4 DEF Proceed, Join, Locked, Unlock, Load, Store, Fail
  <2> QED
    BY <2>1, <2>2, <2>3, <2>4
<1>3. ASSUME NEW t \in Tasks, BarrierOnly(t) PROVE [Next]_vars
  BY <1>3 DEF BarrierOnly, Next
<1> QED
  BY <1>1, <1>2, <1>3 DEF CallNext

\* The calls implement the barrier: what is proved of it holds for them.
THEOREM CallsImplementBarrier == CallSpec => Spec
<1>1. CallInit => Init
  BY DEF CallInit
<1> QED
  BY <1>1, BarrierStep, PTL DEF CallSpec, Spec

IsLive(t) == work[t] \in {"chained", "locked", "settled"}
Beside(t, u) == IsLive(u) /\ FileOf(u) = FileOf(t)
IsFirst(t) == \A u \in Tasks : Beside(t, u) => ticket[t] <= ticket[u]

TicketsDiffer ==
  \A t \in Tasks : IsLive(t) =>
    /\ ticket[t] <= arrivals
    /\ \A u \in Tasks : IsLive(u) /\ ticket[u] = ticket[t] => u = t

HolderIsFirst ==
  \A t \in Tasks :
    work[t] \in {"locked", "settled"} => prev[t] = NoTask \/ work[prev[t]] = "released"

LineIsSingle ==
  \A t \in Tasks : IsLive(t) =>
    IF prev[t] = NoTask \/ work[prev[t]] = "released" THEN IsFirst(t)
    ELSE /\ prev[t] \in Tasks /\ Beside(t, prev[t])
         /\ ticket[prev[t]] < ticket[t]
         /\ \A u \in Tasks :
              Beside(t, u) => ticket[u] <= ticket[prev[t]] \/ ticket[t] <= ticket[u]

TailIsLast ==
  \A f \in Files :
    IF tail[f] = NoTask THEN \A u \in Tasks : FileOf(u) = f => ~IsLive(u)
    ELSE /\ FileOf(tail[f]) = f /\ IsLive(tail[f])
         /\ \A u \in Tasks : Beside(tail[f], u) => ticket[u] <= ticket[tail[f]]

LockInv ==
  /\ CallTypeOK
  /\ TicketsDiffer
  /\ HolderIsFirst
  /\ LineIsSingle
  /\ TailIsLast

\* Sites have a style and a file.
LEMMA SiteParts ==
  ASSUME CallTypeOK, NEW t \in Tasks
  PROVE  StyleOf(t) \in Styles /\ FileOf(t) \in Files
  BY SitesAssumption DEF CallTypeOK, StyleOf, FileOf

\* A step keeps the lines if it moves no call into one or out of one, and closes
\* no gate that a call awaits.
LEMMA FrameLock ==
  ASSUME LockInv, CallTypeOK', UNCHANGED <<site, locking>>,
         \A u \in Tasks : IsLive(u)' <=> IsLive(u),
         \A u \in Tasks : work[u] = "released" => work'[u] = "released",
         \A u \in Tasks : work'[u] = "released" => work[u] = "released" \/ ~IsLive(u),
         \A u \in Tasks : work'[u] \in {"locked", "settled"} =>
           prev[u] = NoTask \/ work[prev[u]] = "released"
  PROVE  LockInv'
<1>1. /\ UNCHANGED <<tail, prev, arrivals, ticket>>
      /\ \A u \in Tasks : FileOf(u)' = FileOf(u)
      /\ prev \in [Tasks -> Tasks \cup {NoTask}] /\ tail \in [Files -> Tasks \cup {NoTask}]
  BY DEF locking, FileOf, LockInv, CallTypeOK
<1>2. \A u, w \in Tasks : Beside(u, w)' <=> Beside(u, w)
  BY <1>1 DEF Beside
<1>3. TicketsDiffer'
  BY <1>1 DEF LockInv, TicketsDiffer
<1>4. HolderIsFirst'
  BY <1>1 DEF LockInv, HolderIsFirst
<1>5. LineIsSingle'
  <2> SUFFICES ASSUME NEW u \in Tasks, IsLive(u)'
               PROVE  IF prev'[u] = NoTask \/ work'[prev'[u]] = "released"
                      THEN IsFirst(u)'
                      ELSE /\ prev'[u] \in Tasks /\ Beside(u, prev[u])'
                           /\ ticket'[prev'[u]] < ticket'[u]
                           /\ \A w \in Tasks :
                                Beside(u, w)' => \/ ticket'[w] <= ticket'[prev'[u]]
                                                 \/ ticket'[u] <= ticket'[w]
    BY DEF LineIsSingle
  <2>1. CASE prev[u] = NoTask \/ work[prev[u]] = "released"
    <3>1. prev[u] = NoTask \/ work'[prev[u]] = "released"
      BY <1>1, <2>1
    <3>2. IsFirst(u)
      BY <2>1 DEF LockInv, LineIsSingle
    <3> QED
      BY <3>1, <3>2, <1>1, <1>2 DEF IsFirst
  <2>2. CASE ~(prev[u] = NoTask \/ work[prev[u]] = "released")
    <3>1. /\ prev[u] \in Tasks /\ Beside(u, prev[u]) /\ ticket[prev[u]] < ticket[u]
          /\ \A w \in Tasks :
               Beside(u, w) => ticket[w] <= ticket[prev[u]] \/ ticket[u] <= ticket[w]
      BY <2>2 DEF LockInv, LineIsSingle
    <3>2. work'[prev[u]] # "released"
      BY <2>2, <3>1 DEF Beside
    <3>3. Beside(u, prev[u])'
      BY <3>1, <1>1 DEF Beside, IsLive, FileOf
    <3> QED
      BY <2>2, <3>1, <3>2, <3>3, <1>1, <1>2
  <2> QED
    BY <2>1, <2>2
<1>6. TailIsLast'
  <2> SUFFICES ASSUME NEW g \in Files
               PROVE  IF tail'[g] = NoTask THEN \A u \in Tasks : FileOf(u)' = g => ~IsLive(u)'
                      ELSE /\ FileOf(tail[g])' = g /\ IsLive(tail[g])'
                           /\ \A u \in Tasks :
                                Beside(tail[g], u)' => ticket'[u] <= ticket'[tail'[g]]
    BY DEF TailIsLast
  <2>1. CASE tail[g] = NoTask
    BY <2>1, <1>1 DEF LockInv, TailIsLast
  <2>2. CASE tail[g] # NoTask
    <3>1. /\ tail[g] \in Tasks /\ FileOf(tail[g]) = g /\ IsLive(tail[g])
          /\ \A u \in Tasks : Beside(tail[g], u) => ticket[u] <= ticket[tail[g]]
      BY <2>2, <1>1 DEF LockInv, TailIsLast
    <3>2. FileOf(tail[g])' = g /\ IsLive(tail[g])'
      BY <3>1, <1>1 DEF FileOf, IsLive
    <3>3. ASSUME NEW u \in Tasks, Beside(tail[g], u)' PROVE Beside(tail[g], u)
      BY <3>1, <3>2, <3>3, <1>1 DEF Beside
    <3> QED
      BY <2>2, <3>1, <3>2, <3>3, <1>1
  <2> QED
    BY <2>1, <2>2
<1> QED
  BY <1>3, <1>4, <1>5, <1>6 DEF LockInv

LEMMA JoinLock ==
  ASSUME LockInv, CallTypeOK', NEW t \in Tasks, Join(t)
  PROVE  LockInv'
<1> DEFINE f == FileOf(t)
<1>1. /\ f \in Files /\ work[t] = "idle" /\ UNCHANGED site
      /\ prev' = [prev EXCEPT ![t] = tail[f]]
      /\ tail' = [tail EXCEPT ![f] = t]
      /\ arrivals' = arrivals + 1
      /\ ticket' = [ticket EXCEPT ![t] = arrivals + 1]
      /\ work' = [work EXCEPT ![t] = "chained"]
  BY SiteParts DEF LockInv, Join
<1>2. /\ work \in [Tasks -> Stages] /\ tail \in [Files -> Tasks \cup {NoTask}]
      /\ prev \in [Tasks -> Tasks \cup {NoTask}] /\ arrivals \in Nat
      /\ ticket \in [Tasks -> Nat]
  BY DEF LockInv, CallTypeOK
<1>3. /\ \A u \in Tasks : FileOf(u)' = FileOf(u)
      /\ IsLive(t)' /\ ~IsLive(t)
      /\ \A u \in Tasks \ {t} : (IsLive(u)' <=> IsLive(u)) /\ ticket'[u] = ticket[u]
                                /\ prev'[u] = prev[u] /\ work'[u] = work[u]
      /\ ticket'[t] = arrivals + 1 /\ prev'[t] = tail[f]
  BY <1>1, <1>2 DEF IsLive, FileOf
<1>4. \A u \in Tasks : IsLive(u) => ticket[u] <= arrivals
  BY DEF LockInv, TicketsDiffer
<1>5. TicketsDiffer'
  BY <1>1, <1>2, <1>3, <1>4 DEF LockInv, TicketsDiffer
<1>6. HolderIsFirst'
  <2> SUFFICES ASSUME NEW u \in Tasks, work'[u] \in {"locked", "settled"}
               PROVE  prev'[u] = NoTask \/ work'[prev'[u]] = "released"
    BY DEF HolderIsFirst
  <2>1. u # t /\ work[u] \in {"locked", "settled"} /\ prev'[u] = prev[u]
    BY <1>1, <1>2, <1>3
  <2>2. prev[u] = NoTask \/ work[prev[u]] = "released"
    BY <2>1 DEF LockInv, HolderIsFirst
  <2> QED
    BY <1>1, <1>2, <2>1, <2>2
<1>7. LineIsSingle'
  <2> SUFFICES ASSUME NEW u \in Tasks, IsLive(u)'
               PROVE  IF prev'[u] = NoTask \/ work'[prev'[u]] = "released"
                      THEN IsFirst(u)'
                      ELSE /\ prev'[u] \in Tasks /\ Beside(u, prev[u])'
                           /\ ticket'[prev'[u]] < ticket'[u]
                           /\ \A w \in Tasks :
                                Beside(u, w)' => \/ ticket'[w] <= ticket'[prev'[u]]
                                                 \/ ticket'[u] <= ticket'[w]
    BY DEF LineIsSingle
  <2>1. CASE u = t
    <3>1. CASE tail[f] = NoTask
      <4>1. \A w \in Tasks : Beside(t, w)' => w = t
        BY <1>1, <1>3, <3>1 DEF LockInv, TailIsLast, Beside
      <4>2. IsFirst(u)'
        BY <4>1, <2>1, <1>2, <1>3 DEF IsFirst
      <4> QED
        BY <4>2, <2>1, <3>1, <1>3
    <3>2. CASE tail[f] # NoTask
      <4>1. PICK p \in Tasks : p = tail[f]
        BY <1>1, <1>2, <3>2
      <4>2. /\ FileOf(p) = f /\ IsLive(p)
            /\ \A w \in Tasks : Beside(p, w) => ticket[w] <= ticket[p]
        BY <1>1, <3>2, <4>1 DEF LockInv, TailIsLast
      <4>3. p # t /\ work'[p] # "released" /\ ticket'[p] = ticket[p] /\ IsLive(p)'
        BY <4>2, <1>3 DEF IsLive
      <4>4. Beside(t, p)' /\ ticket'[p] < ticket'[t]
        BY <4>2, <4>3, <1>2, <1>3, <1>4 DEF Beside
      <4>5. ASSUME NEW w \in Tasks, Beside(t, w)'
            PROVE  ticket'[w] <= ticket'[p] \/ ticket'[t] <= ticket'[w]
        BY <4>2, <4>3, <4>5, <1>2, <1>3 DEF Beside
      <4>6. prev'[u] = p
        BY <2>1, <4>1, <1>3
      <4>7. Beside(u, prev[u])'
        BY <4>4, <4>6, <2>1 DEF Beside
      <4> QED
        BY <4>1, <4>3, <4>4, <4>5, <4>6, <4>7, <2>1, <3>2
    <3> QED
      BY <3>1, <3>2
  <2>2. CASE u # t
    <3>1. IsLive(u) /\ prev'[u] = prev[u] /\ ticket'[u] = ticket[u] /\ u \in Tasks
      BY <2>2, <1>3
    <3>2. ticket[u] <= arrivals
      BY <3>1, <1>4
    <3>3. CASE prev[u] = NoTask \/ work[prev[u]] = "released"
      <4>1. IsFirst(u)
        BY <3>1, <3>3 DEF LockInv, LineIsSingle
      <4>2. IsFirst(u)'
        BY <4>1, <3>1, <3>2, <1>2, <1>3 DEF IsFirst, Beside
      <4>3. prev[u] = NoTask \/ work'[prev[u]] = "released"
        BY <3>3, <1>1, <1>2
      <4> QED
        BY <4>2, <4>3, <3>1
    <3>4. CASE ~(prev[u] = NoTask \/ work[prev[u]] = "released")
      <4>1. /\ prev[u] \in Tasks /\ Beside(u, prev[u])
            /\ ticket[prev[u]] < ticket[u]
            /\ \A w \in Tasks :
                 Beside(u, w) => ticket[w] <= ticket[prev[u]] \/ ticket[u] <= ticket[w]
        BY <3>1, <3>4 DEF LockInv, LineIsSingle
      <4>2. prev[u] # t /\ ticket'[prev[u]] = ticket[prev[u]] /\ work'[prev[u]] = work[prev[u]]
        BY <4>1, <1>3 DEF Beside
      <4>3. Beside(u, prev[u])'
        BY <4>1, <4>2, <3>1, <1>3 DEF Beside
      <4>4. ASSUME NEW w \in Tasks, Beside(u, w)'
            PROVE  ticket'[w] <= ticket'[prev[u]] \/ ticket'[u] <= ticket'[w]
        <5>1. CASE w = t
          BY <5>1, <3>1, <3>2, <1>2, <1>3
        <5>2. CASE w # t
          BY <5>2, <4>1, <4>2, <4>4, <3>1, <1>3 DEF Beside
        <5> QED
          BY <5>1, <5>2
      <4> QED
        BY <4>1, <4>2, <4>3, <4>4, <3>1, <3>4
    <3> QED
      BY <3>3, <3>4
  <2> QED
    BY <2>1, <2>2
<1>8. TailIsLast'
  <2> SUFFICES ASSUME NEW g \in Files
               PROVE  IF tail'[g] = NoTask THEN \A u \in Tasks : FileOf(u)' = g => ~IsLive(u)'
                      ELSE /\ FileOf(tail[g])' = g /\ IsLive(tail[g])'
                           /\ \A u \in Tasks :
                                Beside(tail[g], u)' => ticket'[u] <= ticket'[tail'[g]]
    BY DEF TailIsLast
  <2>1. CASE g = f
    <3>1. tail'[g] = t /\ t # NoTask
      BY <2>1, <1>1, <1>2, TasksAssumption
    <3>2. \A u \in Tasks : IsLive(u)' => ticket'[u] <= ticket'[t]
      BY <1>2, <1>3, <1>4
    <3>3. FileOf(tail[g])' = g /\ IsLive(tail[g])'
      BY <3>1, <2>1, <1>3 DEF FileOf, IsLive
    <3> QED
      BY <3>1, <3>2, <3>3 DEF Beside
  <2>2. CASE g # f
    <3>1. tail'[g] = tail[g]
      BY <2>2, <1>1, <1>2
    <3>2. CASE tail[g] = NoTask
      BY <3>1, <3>2, <2>2, <1>3 DEF LockInv, TailIsLast
    <3>3. CASE tail[g] # NoTask
      <4>1. /\ tail[g] \in Tasks /\ FileOf(tail[g]) = g /\ IsLive(tail[g])
            /\ \A u \in Tasks : Beside(tail[g], u) => ticket[u] <= ticket[tail[g]]
        BY <3>3, <1>2 DEF LockInv, TailIsLast
      <4>2. tail[g] # t /\ FileOf(tail[g])' = g
        BY <4>1, <3>1, <2>2, <1>1 DEF FileOf
      <4>3. ASSUME NEW u \in Tasks, Beside(tail[g], u)'
            PROVE  ticket'[u] <= ticket'[tail[g]]
        <5>1. IsLive(u)' /\ FileOf(u) = g
          BY <4>2, <4>3, <1>3 DEF Beside
        <5>2. u # t
          BY <5>1, <2>2
        <5> QED
          BY <5>1, <5>2, <4>1, <4>2, <1>3 DEF Beside
      <4>4. IsLive(tail[g])'
        BY <4>1, <4>2, <3>1, <1>1, <1>2 DEF IsLive
      <4> QED
        BY <4>1, <4>2, <4>3, <4>4, <3>1, <3>3
    <3> QED
      BY <3>2, <3>3
  <2> QED
    BY <2>1, <2>2
<1> QED
  BY <1>5, <1>6, <1>7, <1>8 DEF LockInv

\* The gate of t opens: whoever awaits it is the first of what is left.
LEMMA UnlockLock ==
  ASSUME LockInv, CallTypeOK', NEW t \in Tasks, Unlock(t)
  PROVE  LockInv'
<1> DEFINE f == FileOf(t)
<1>1. /\ f \in Files /\ work[t] = "settled" /\ UNCHANGED <<site, prev, arrivals, ticket>>
      /\ work' = [work EXCEPT ![t] = "released"]
      /\ tail' = [tail EXCEPT ![f] = IF @ = t THEN NoTask ELSE @]
  BY SiteParts DEF LockInv, Unlock
<1>2. /\ work \in [Tasks -> Stages] /\ tail \in [Files -> Tasks \cup {NoTask}]
      /\ prev \in [Tasks -> Tasks \cup {NoTask}] /\ ticket \in [Tasks -> Nat]
  BY DEF LockInv, CallTypeOK
<1>3. /\ \A u \in Tasks : FileOf(u)' = FileOf(u)
      /\ IsLive(t) /\ ~IsLive(t)'
      /\ \A u \in Tasks \ {t} : (IsLive(u)' <=> IsLive(u)) /\ work'[u] = work[u]
      /\ work'[t] = "released"
  BY <1>1, <1>2 DEF IsLive, FileOf
<1>4. IsFirst(t)
  BY <1>1, <1>3 DEF LockInv, HolderIsFirst, LineIsSingle
<1>5. \A u, w \in Tasks : Beside(u, w)' => Beside(u, w) /\ w # t
  BY <1>3 DEF Beside
<1>6. TicketsDiffer'
  BY <1>1, <1>3 DEF LockInv, TicketsDiffer
<1>7. HolderIsFirst'
  <2> SUFFICES ASSUME NEW u \in Tasks, work'[u] \in {"locked", "settled"}
               PROVE  prev'[u] = NoTask \/ work'[prev'[u]] = "released"
    BY DEF HolderIsFirst
  <2>1. u # t /\ work[u] \in {"locked", "settled"}
    BY <1>3
  <2>2. prev[u] = NoTask \/ work[prev[u]] = "released"
    BY <2>1 DEF LockInv, HolderIsFirst
  <2> QED
    BY <1>1, <1>2, <2>2
<1>8. LineIsSingle'
  <2> SUFFICES ASSUME NEW u \in Tasks, IsLive(u)'
               PROVE  IF prev'[u] = NoTask \/ work'[prev'[u]] = "released"
                      THEN IsFirst(u)'
                      ELSE /\ prev'[u] \in Tasks /\ Beside(u, prev[u])'
                           /\ ticket'[prev'[u]] < ticket'[u]
                           /\ \A w \in Tasks :
                                Beside(u, w)' => \/ ticket'[w] <= ticket'[prev'[u]]
                                                 \/ ticket'[u] <= ticket'[w]
    BY DEF LineIsSingle
  <2>0. u # t /\ IsLive(u)
    BY <1>3
  <2>1. CASE prev[u] = NoTask \/ work[prev[u]] = "released"
    <3>1. prev[u] = NoTask \/ work'[prev[u]] = "released"
      BY <1>1, <1>2, <2>1
    <3>2. IsFirst(u)
      BY <2>0, <2>1 DEF LockInv, LineIsSingle
    <3>3. IsFirst(u)'
      BY <3>2, <1>1, <1>5 DEF IsFirst
    <3> QED
      BY <3>1, <3>3, <1>1
  <2>2. CASE ~(prev[u] = NoTask \/ work[prev[u]] = "released")
    <3>1. /\ prev[u] \in Tasks /\ Beside(u, prev[u]) /\ ticket[prev[u]] < ticket[u]
          /\ \A w \in Tasks :
               Beside(u, w) => ticket[w] <= ticket[prev[u]] \/ ticket[u] <= ticket[w]
      BY <2>0, <2>2 DEF LockInv, LineIsSingle
    <3>2. CASE prev[u] = t
      <4>1. ASSUME NEW w \in Tasks, Beside(u, w)' PROVE ticket[u] <= ticket[w]
        <5>1. Beside(u, w) /\ w # t /\ IsLive(w)
          BY <1>5, <4>1 DEF Beside
        <5>2. ticket[t] <= ticket[w]
          BY <5>1, <3>1, <3>2, <1>4 DEF IsFirst, Beside
        <5>3. ticket[w] # ticket[t]
          BY <5>1, <1>3 DEF LockInv, TicketsDiffer
        <5>4. ticket[w] <= ticket[t] \/ ticket[u] <= ticket[w]
          BY <5>1, <3>1, <3>2
        <5> QED
          BY <5>2, <5>3, <5>4, <1>2
      <4>2. IsFirst(u)'
        BY <4>1, <1>1 DEF IsFirst
      <4> QED
        BY <4>2, <3>2, <1>1, <1>3
    <3>3. CASE prev[u] # t
      <4>1. work'[prev[u]] # "released"
        BY <2>2, <3>1, <3>3, <1>3
      <4>2. Beside(u, prev[u])'
        BY <3>1, <3>3, <1>1, <1>2 DEF Beside, IsLive, FileOf
      <4> QED
        BY <4>1, <4>2, <2>2, <3>1, <1>1, <1>5
    <3> QED
      BY <3>2, <3>3
  <2> QED
    BY <2>1, <2>2
<1>9. TailIsLast'
  <2> SUFFICES ASSUME NEW g \in Files
               PROVE  IF tail'[g] = NoTask THEN \A u \in Tasks : FileOf(u)' = g => ~IsLive(u)'
                      ELSE /\ FileOf(tail[g])' = g /\ IsLive(tail[g])'
                           /\ \A u \in Tasks :
                                Beside(tail[g], u)' => ticket'[u] <= ticket'[tail'[g]]
    BY DEF TailIsLast
  <2>1. CASE tail[g] = NoTask
    <3>1. tail'[g] = NoTask
      BY <2>1, <1>1, <1>2
    <3>2. \A u \in Tasks : FileOf(u) = g => ~IsLive(u)
      BY <2>1 DEF LockInv, TailIsLast
    <3> QED
      BY <3>1, <3>2, <1>3
  <2>2. CASE tail[g] # NoTask
    <3>1. /\ tail[g] \in Tasks /\ FileOf(tail[g]) = g /\ IsLive(tail[g])
          /\ \A u \in Tasks : Beside(tail[g], u) => ticket[u] <= ticket[tail[g]]
      BY <2>2, <1>2 DEF LockInv, TailIsLast
    <3>2. CASE tail[g] = t
      <4>1. g = f /\ tail'[g] = NoTask
        BY <3>1, <3>2, <1>1, <1>2
      <4>2. ASSUME NEW u \in Tasks, FileOf(u)' = g PROVE ~IsLive(u)'
        <5> SUFFICES ASSUME IsLive(u)' PROVE FALSE
          OBVIOUS
        <5>1. u # t /\ IsLive(u) /\ Beside(t, u)
          BY <4>1, <4>2, <1>3 DEF Beside
        <5>2. ticket[u] = ticket[t]
          BY <5>1, <3>1, <3>2, <1>2, <1>4 DEF IsFirst
        <5> QED
          BY <5>1, <5>2, <1>3 DEF LockInv, TicketsDiffer
      <4> QED
        BY <4>1, <4>2
    <3>3. CASE tail[g] # t
      <4>1. tail'[g] = tail[g]
        BY <3>3, <1>1, <1>2
      <4>2. FileOf(tail[g])' = g /\ IsLive(tail[g])'
        BY <3>1, <3>3, <4>1, <1>1, <1>2 DEF FileOf, IsLive
      <4>3. ASSUME NEW u \in Tasks, Beside(tail[g], u)' PROVE Beside(tail[g], u)
        BY <4>2, <4>3, <3>1, <1>3 DEF Beside
      <4> QED
        BY <4>1, <4>2, <4>3, <3>1, <2>2, <1>1
    <3> QED
      BY <3>2, <3>3
  <2> QED
    BY <2>1, <2>2
<1> QED
  BY <1>6, <1>7, <1>8, <1>9 DEF LockInv

\* What a call does between its locks leaves the lines alone.
LEMMA InsideLock ==
  ASSUME LockInv, CallTypeOK', NEW t \in Tasks,
         \/ EnterPublication(t) \/ ResumePublication(t) \/ LeavePublication(t)
         \/ Load(t) \/ BarrierOnly(t)
  PROVE  LockInv'
<1>1. UNCHANGED <<site, locking, work>>
  BY DEF EnterPublication, ResumePublication, LeavePublication, Load, BarrierOnly
<1> QED
  BY <1>1, FrameLock DEF LockInv, HolderIsFirst, IsLive

LEMMA MoveLock ==
  ASSUME LockInv, CallTypeOK', NEW t \in Tasks, Locked(t) \/ Store(t) \/ Fail(t)
  PROVE  LockInv'
<1>1. UNCHANGED <<site, locking>> /\ work \in [Tasks -> Stages]
  BY DEF LockInv, CallTypeOK, Locked, Store, Fail
<1>2. \/ /\ work' = [work EXCEPT ![t] = "locked"] /\ work[t] = "chained"
         /\ prev[t] = NoTask \/ work[prev[t]] = "released"
      \/ work' = [work EXCEPT ![t] = "settled"] /\ work[t] = "locked"
      \/ work' = [work EXCEPT ![t] = "released"] /\ work[t] = "idle"
  BY DEF Locked, Store, Fail, Working, Settle
<1>3. \A u \in Tasks : work[u] \in {"locked", "settled"} =>
        prev[u] = NoTask \/ work[prev[u]] = "released"
  BY DEF LockInv, HolderIsFirst
<1>4. \A u \in Tasks : u # t => work'[u] = work[u]
  BY <1>1, <1>2
<1>5. \/ work'[t] = "locked" /\ work[t] = "chained" /\ (prev[t] = NoTask \/ work[prev[t]] = "released")
      \/ work'[t] = "settled" /\ work[t] = "locked"
      \/ work'[t] = "released" /\ work[t] = "idle"
  BY <1>1, <1>2
<1>6. \A u \in Tasks : IsLive(u)' <=> IsLive(u)
  BY <1>4, <1>5 DEF IsLive
<1>7. /\ \A u \in Tasks : work[u] = "released" => work'[u] = "released"
      /\ \A u \in Tasks : work'[u] = "released" => work[u] = "released" \/ ~IsLive(u)
  BY <1>4, <1>5 DEF IsLive
<1>8. \A u \in Tasks : work'[u] \in {"locked", "settled"} =>
        prev[u] = NoTask \/ work[prev[u]] = "released"
  BY <1>3, <1>4, <1>5
<1> QED
  BY <1>1, <1>6, <1>7, <1>8, FrameLock

\* What a call needs the barrier, its lock and the dream cycle for.
CallPlaces ==
  \A t \in Tasks : IsCall(t) =>
    /\ context[t] \in {t, NoTask}
    /\ pc[t] # "outside" => mode[t] = "write"
    /\ StyleOf(t) = "publication_first" /\ IsLive(t) => pc[t] = "inside"
    /\ StyleOf(t) = "publication_only" => work[t] \in {"idle", "released"}
    /\ StyleOf(t) = "publication_only" /\ work[t] = "idle" /\ loaded[t] => pc[t] = "inside"
    /\ StyleOf(t) \notin {"publication_only", "load_first"} /\ loaded[t] =>
         work[t] \in {"locked", "settled", "released"}

CycleAlone ==
  \A t, u \in Tasks :
    /\ StyleOf(t) = "load_first" /\ loaded[t] /\ work[t] # "released"
    /\ StyleOf(u) = "load_first" /\ loaded[u] /\ work[u] # "released"
    => t = u

\* A call that has read its file and has not decided yet what becomes of it.
Pending(t) == IsCall(t) /\ loaded[t] /\ work[t] \notin {"settled", "released"}

ReadIsCurrent ==
  \A t \in Tasks : Pending(t) /\ StyleOf(t) # "clearing" => content[FileOf(t)] = seen[t]

\* What holds of the calls whatever the sites, and what the sites have to agree for.
CallInv == IInv /\ LockInv /\ CallPlaces /\ CycleAlone

KeptInv == ReadIsCurrent /\ NoUpdateIsLost

-----------------------------------------------------------------------------
\* A step of one task moves another only by granting it what it waits for.
LEMMA OthersStay ==
  ASSUME IInv, NEW t \in Tasks, NEW c \in Tasks \ {t}, Step(t)
  PROVE  /\ mode'[c] = mode[c]
         /\ pc'[c] = pc[c] \/ (pc[c] = "waiting" /\ pc'[c] = "granted")
<1> USE DEF Step
<1>1. mode \in [Tasks -> Modes] /\ pc \in [Tasks -> Places] /\ queue \in Seq(Tasks)
  BY DEF IInv, TypeOK
<1>2. CASE Release(t)
  <2>1. ASSUME Drain(t) PROVE pc'[c] = pc[c] \/ (pc[c] = "waiting" /\ pc'[c] = "granted")
    <3>1. CASE queue # <<>> /\ pc' = [u \in Tasks |-> IF u = t THEN "outside"
                                       ELSE IF u \in {Head(queue)} THEN "granted" ELSE pc[u]]
      <4>1. queue # <<>> => Head(queue) = queue[1] /\ 1 \in 1..Len(queue)
        BY <1>1
      <4> QED
        BY <3>1, <4>1 DEF IInv, QueueIsWaiting
    <3>2. ASSUME NEW n \in 0..Len(queue),
                 pc' = [u \in Tasks |-> IF u = t THEN "outside"
                                        ELSE IF u \in {queue[i] : i \in 1..n} THEN "granted"
                                        ELSE pc[u]]
          PROVE  pc'[c] = pc[c] \/ (pc[c] = "waiting" /\ pc'[c] = "granted")
      <4>1. \A i \in 1..n : pc[queue[i]] = "waiting"
        BY <1>1 DEF IInv, QueueIsWaiting
      <4> QED
        BY <3>2, <4>1
    <3> QED
      BY <2>1, <3>1, <3>2 DEF Drain
  <2> QED
    BY <1>1, <1>2, <2>1 DEF Release
<1>3. CASE ~Release(t)
  BY <1>1, <1>3 DEF AcquireRead, AcquireWrite, Admit, Enqueue, Resume, EnterInline, Spawn,
     LeaveInline, LeaveOwner, Unwind
<1> QED
  BY <1>2, <1>3

\* Two calls are never inside the barrier at once.
LEMMA CallsApart ==
  ASSUME IInv, CallPlaces, NEW t \in Tasks, NEW u \in Tasks,
         IsCall(t), IsCall(u), pc[t] = "inside", pc[u] = "inside"
  PROVE  t = u
<1>1. Holds(t) /\ Holds(u) /\ mode[t] = "write" /\ mode[u] = "write"
  BY DEF IInv, RecordsAreLive, CallPlaces, Holds
<1> QED
  BY <1>1 DEF IInv, WriterAlone, Holders

\* Two calls never hold the lock of one file at once.
LEMMA HoldersApart ==
  ASSUME LockInv, NEW t \in Tasks, NEW u \in Tasks, FileOf(t) = FileOf(u),
         work[t] \in {"locked", "settled"}, work[u] \in {"locked", "settled"}
  PROVE  t = u
<1>1. IsFirst(t) /\ IsFirst(u) /\ Beside(t, u) /\ Beside(u, t)
  BY DEF LockInv, HolderIsFirst, LineIsSingle, Beside, IsLive
<1>2. ticket[t] = ticket[u]
  BY <1>1 DEF IsFirst, LockInv, CallTypeOK
<1> QED
  BY <1>1, <1>2 DEF LockInv, TicketsDiffer, Beside

\* Nobody publishes a file between the read and the write of another call.
LEMMA RivalsApart ==
  ASSUME CallInv, SitesAgree, NEW t \in Tasks, NEW u \in Tasks, t # u,
         Working(t), loaded[t], pc[t] = "inside", Pending(u), FileOf(t) = FileOf(u)
  PROVE  FALSE
<1>1. site \in Sites /\ Agree(StyleOf(t), StyleOf(u)) /\ IsCall(t) /\ IsCall(u)
  BY DEF CallInv, LockInv, CallTypeOK, SitesAgree, FileOf, StyleOf, Working, Pending
<1>2. StyleOf(t) \in Styles /\ StyleOf(u) \in Styles
  BY SiteParts DEF CallInv, LockInv
<1>3. loaded[t] /\ work[t] # "released" /\ loaded[u] /\ work[u] \notin {"settled", "released"}
  BY DEF Working, Pending
<1>4. CASE "load_first" \in {StyleOf(t), StyleOf(u)}
  <2>1. StyleOf(t) = "load_first" /\ StyleOf(u) = "load_first"
    BY <1>1, <1>4 DEF Agree, IsCall
  <2> QED
    BY <2>1, <1>3 DEF CallInv, CycleAlone
<1>5. CASE "load_first" \notin {StyleOf(t), StyleOf(u)} /\ "publication_only" \in {StyleOf(t), StyleOf(u)}
  <2>1. {StyleOf(t), StyleOf(u)} \subseteq {"publication_only", "publication_first"}
    BY <1>1, <1>2, <1>5 DEF Agree, IsCall, Styles
  <2>2. pc[u] = "inside"
    <3>1. CASE StyleOf(u) = "publication_only"
      BY <3>1, <1>1, <1>3 DEF CallInv, CallPlaces
    <3>2. CASE StyleOf(u) = "publication_first"
      BY <3>2, <1>1, <1>3 DEF CallInv, CallPlaces, IsLive
    <3> QED
      BY <2>1, <3>1, <3>2
  <2> QED
    BY <2>2, <1>1, CallsApart DEF CallInv
<1>6. CASE {StyleOf(t), StyleOf(u)} \cap {"load_first", "publication_only"} = {}
  <2>1. work[t] = "locked"
    BY <1>1, <1>6 DEF Working, Locks, IsCall
  <2>2. work[u] = "locked"
    BY <1>1, <1>3, <1>6 DEF CallInv, CallPlaces
  <2> QED
    BY <2>1, <2>2, HoldersApart DEF CallInv
<1> QED
  BY <1>4, <1>5, <1>6

-----------------------------------------------------------------------------
LEMMA CallTypes ==
  ASSUME CallInv, [CallNext]_callVars
  PROVE  CallTypeOK'
<1>1. TypeOK'
  BY BarrierStep, NextInv DEF CallInv, IInv
<1>2. CallTypeOK
  BY DEF CallInv, LockInv
<1>3. CASE UNCHANGED callVars
  BY <1>1, <1>2, <1>3 DEF CallTypeOK, callVars, locking
<1>4. ASSUME NEW t \in Tasks, Proceed(t) PROVE CallTypeOK'
  <2>1. FileOf(t) \in Files
    BY <1>2, SiteParts
  <2>2. CASE Join(t) \/ Locked(t) \/ Unlock(t)
    BY <1>1, <1>2, <2>1, <2>2 DEF CallTypeOK, Join, Locked, Unlock, locking, Stages
  <2>3. CASE EnterPublication(t) \/ ResumePublication(t) \/ LeavePublication(t)
    BY <1>1, <1>2, <2>3 DEF CallTypeOK, EnterPublication, ResumePublication, LeavePublication, locking
  <2>4. CASE Load(t)
    BY <1>1, <1>2, <2>1, <2>4 DEF CallTypeOK, Load, locking
  <2>5. CASE Store(t)
    BY <1>1, <1>2, <2>1, <2>5 DEF CallTypeOK, Store, Settle, locking, Stages
  <2>6. CASE Fail(t)
    BY <1>1, <1>2, <2>6 DEF CallTypeOK, Fail, Settle, locking, Stages
  <2> QED
    BY <1>4, <2>2, <2>3, <2>4, <2>5, <2>6 DEF Proceed
<1>5. ASSUME NEW t \in Tasks, BarrierOnly(t) PROVE CallTypeOK'
  BY <1>1, <1>2, <1>5 DEF CallTypeOK, BarrierOnly, locking
<1> QED
  BY <1>3, <1>4, <1>5 DEF CallNext

LEMMA LockNext ==
  ASSUME CallInv, [CallNext]_callVars
  PROVE  LockInv'
<1>1. CallTypeOK' /\ LockInv
  BY CallTypes DEF CallInv
<1>2. CASE UNCHANGED callVars
  <2>1. UNCHANGED <<site, locking, work>>
    BY <1>2 DEF callVars
  <2> QED
    BY <1>1, <2>1, FrameLock DEF LockInv, HolderIsFirst, IsLive
<1>3. ASSUME NEW t \in Tasks, Proceed(t) \/ BarrierOnly(t) PROVE LockInv'
  BY <1>1, <1>3, JoinLock, UnlockLock, MoveLock, InsideLock DEF Proceed
<1> QED
  BY <1>2, <1>3 DEF CallNext

\* What a step of t does to another call: nothing, or a grant of what it awaits.
LEMMA OtherCalls ==
  ASSUME CallInv, NEW t \in Tasks, Proceed(t) \/ BarrierOnly(t), NEW c \in Tasks \ {t}
  PROVE  /\ work'[c] = work[c] /\ loaded'[c] = loaded[c] /\ seen'[c] = seen[c]
         /\ IsCall(c) => /\ mode'[c] = mode[c] /\ context'[c] \in {NoTask, c}
                         /\ pc'[c] = pc[c] \/ (pc[c] = "waiting" /\ pc'[c] = "granted")
<1>1. CallTypeOK /\ IInv
  BY DEF CallInv, LockInv
<1>2. work'[c] = work[c] /\ loaded'[c] = loaded[c] /\ seen'[c] = seen[c]
  BY <1>1 DEF CallTypeOK, Proceed, Join, Locked, Unlock, EnterPublication, ResumePublication,
     LeavePublication, Load, Store, Settle, Fail, BarrierOnly
<1>3. ASSUME IsCall(c)
      PROVE  /\ mode'[c] = mode[c] /\ context'[c] \in {NoTask, c}
             /\ pc'[c] = pc[c] \/ (pc[c] = "waiting" /\ pc'[c] = "granted")
  <2>1. context[c] \in {NoTask, c}
    BY <1>3 DEF CallInv, CallPlaces
  <2>2. CASE BarrierOnly(t)
    BY <1>1, <1>3, <2>2, OthersStay DEF BarrierOnly
  <2>3. CASE EnterPublication(t) \/ ResumePublication(t) \/ LeavePublication(t)
    <3>1. Step(t)
      BY <2>3 DEF EnterPublication, ResumePublication, LeavePublication, Step, Modes
    <3>2. context'[c] \in {NoTask, context[c]}
      BY <1>1, <2>3 DEF EnterPublication, ResumePublication, LeavePublication, AcquireWrite,
         Enqueue, Resume, LeaveOwner, Release, Deactivate, IInv, TypeOK
    <3> QED
      BY <1>1, <2>1, <3>1, <3>2, OthersStay
  <2>4. CASE Proceed(t) /\ ~(EnterPublication(t) \/ ResumePublication(t) \/ LeavePublication(t))
    BY <2>1, <2>4 DEF Proceed, Join, Locked, Unlock, Load, Store, Fail, vars
  <2> QED
    BY <2>2, <2>3, <2>4
<1> QED
  BY <1>2, <1>3

\* What a step of a call does to its own place.
LEMMA OwnPlace ==
  ASSUME CallInv, NEW t \in Tasks, Proceed(t), IsCall(t)
  PROVE  /\ context'[t] \in {t, NoTask}
         /\ pc'[t] # "outside" => mode'[t] = "write"
         /\ pc[t] = "inside" /\ pc'[t] # "inside" => LeavePublication(t)
<1>1. IInv /\ CallPlaces
  BY DEF CallInv
<1>2. /\ context \in [Tasks -> Tasks \cup {NoTask}] /\ pc \in [Tasks -> Places]
      /\ mode \in [Tasks -> Modes] /\ context[t] \in {t, NoTask}
      /\ pc[t] # "outside" => mode[t] = "write"
  BY <1>1 DEF IInv, TypeOK, CallPlaces
<1>3. CASE EnterPublication(t)
  BY <1>2, <1>3 DEF EnterPublication, AcquireWrite, Enqueue, Admit, Places
<1>4. CASE ResumePublication(t)
  BY <1>2, <1>4 DEF ResumePublication, Resume
<1>5. CASE LeavePublication(t)
  <2>1. mode' = mode /\ context'[t] \in {t, NoTask}
    BY <1>2, <1>5 DEF LeavePublication, LeaveOwner, Release, Deactivate
  <2> QED
    BY <1>2, <1>5, <2>1 DEF LeavePublication, LeaveOwner
<1>6. CASE ~(EnterPublication(t) \/ ResumePublication(t) \/ LeavePublication(t))
  BY <1>2, <1>6 DEF Proceed, Join, Locked, Unlock, Load, Store, Fail, vars
<1> QED
  BY <1>3, <1>4, <1>5, <1>6

LEMMA PlacesNext ==
  ASSUME CallInv, [CallNext]_callVars
  PROVE  CallPlaces'
<1>1. CallTypeOK /\ CallTypeOK' /\ IInv /\ CallPlaces
  BY CallTypes DEF CallInv, LockInv
<1>2. CASE UNCHANGED callVars
  BY <1>1, <1>2 DEF callVars, vars, CallPlaces, IsCall, StyleOf, IsLive
<1>3. ASSUME NEW t \in Tasks, Proceed(t) \/ BarrierOnly(t) PROVE CallPlaces'
  <2>0. UNCHANGED site
    BY <1>3 DEF Proceed, Join, Locked, Unlock, EnterPublication, ResumePublication,
       LeavePublication, Load, Store, Fail, BarrierOnly
  <2>1. \A c \in Tasks : StyleOf(c)' = StyleOf(c) /\ (IsCall(c)' <=> IsCall(c))
    BY <2>0 DEF StyleOf, IsCall
  <2> SUFFICES ASSUME NEW c \in Tasks, IsCall(c)
               PROVE
    /\ context'[c] \in {c, NoTask}
    /\ pc'[c] # "outside" => mode'[c] = "write"
    /\ StyleOf(c) = "publication_first" /\ IsLive(c)' => pc'[c] = "inside"
    /\ StyleOf(c) = "publication_only" => work'[c] \in {"idle", "released"}
    /\ StyleOf(c) = "publication_only" /\ work'[c] = "idle" /\ loaded'[c] => pc'[c] = "inside"
    /\ StyleOf(c) \notin {"publication_only", "load_first"} /\ loaded'[c] =>
         work'[c] \in {"locked", "settled", "released"}
    BY <2>1 DEF CallPlaces
  <2>2. /\ context[c] \in {c, NoTask}
        /\ pc[c] # "outside" => mode[c] = "write"
        /\ StyleOf(c) = "publication_first" /\ IsLive(c) => pc[c] = "inside"
        /\ StyleOf(c) = "publication_only" => work[c] \in {"idle", "released"}
        /\ StyleOf(c) = "publication_only" /\ work[c] = "idle" /\ loaded[c] => pc[c] = "inside"
        /\ StyleOf(c) \notin {"publication_only", "load_first"} /\ loaded[c] =>
             work[c] \in {"locked", "settled", "released"}
    BY <1>1 DEF CallPlaces
  <2>3. CASE c # t
    <3>1. /\ work'[c] = work[c] /\ loaded'[c] = loaded[c]
          /\ mode'[c] = mode[c] /\ context'[c] \in {NoTask, c}
          /\ pc'[c] = pc[c] \/ (pc[c] = "waiting" /\ pc'[c] = "granted")
      BY <1>3, <2>3, OtherCalls
    <3> QED
      BY <2>2, <3>1 DEF IsLive
  <2>4. CASE c = t
    <3>0. Proceed(c)
      BY <1>3, <2>4 DEF BarrierOnly
    <3>1. /\ context'[c] \in {c, NoTask}
          /\ pc'[c] # "outside" => mode'[c] = "write"
          /\ pc[c] = "inside" /\ pc'[c] # "inside" => LeavePublication(c)
      BY <3>0, OwnPlace
    <3>2. work \in [Tasks -> Stages] /\ loaded \in [Tasks -> BOOLEAN] /\ StyleOf(c) \in Styles
      BY <1>1, SiteParts DEF CallTypeOK
    <3>3. CASE LeavePublication(c)
      BY <2>2, <3>1, <3>3 DEF LeavePublication, LockComesFirst, IsLive
    <3>4. CASE EnterPublication(c) \/ ResumePublication(c)
      <4>1. work' = work /\ loaded' = loaded
        BY <3>4 DEF EnterPublication, ResumePublication
      <4>2. pc[c] # "inside"
        BY <3>4 DEF EnterPublication, ResumePublication, AcquireWrite, Enqueue, Resume
      <4> QED
        BY <2>2, <3>1, <4>1, <4>2 DEF IsLive
    <3>5. CASE ~(LeavePublication(c) \/ EnterPublication(c) \/ ResumePublication(c))
      <4>1. pc' = pc
        BY <3>0, <3>5 DEF Proceed, Join, Locked, Unlock, Load, Store, Fail, vars
      <4>2. CASE Join(c)
        BY <2>2, <3>1, <3>2, <4>1, <4>2 DEF Join, Locks, LockComesFirst, IsLive, Styles
      <4>3. CASE Locked(c) \/ Unlock(c)
        BY <2>2, <3>1, <3>2, <4>1, <4>3 DEF Locked, Unlock, IsLive
      <4>4. CASE Load(c)
        BY <2>2, <3>1, <3>2, <4>1, <4>4 DEF Load, IsLive
      <4>5. CASE Store(c) \/ Fail(c)
        BY <2>2, <3>1, <3>2, <4>1, <4>5 DEF Store, Fail, Settle, Working, Locks, IsLive, IsCall
      <4> QED
        BY <3>0, <3>5, <4>2, <4>3, <4>4, <4>5 DEF Proceed
    <3> QED
      BY <3>3, <3>4, <3>5
  <2> QED
    BY <2>3, <2>4
<1> QED
  BY <1>2, <1>3 DEF CallNext

LEMMA CycleNext ==
  ASSUME CallInv, [CallNext]_callVars
  PROVE  CycleAlone'
<1>1. CallTypeOK /\ CycleAlone
  BY DEF CallInv, LockInv
<1>2. CASE UNCHANGED callVars
  BY <1>1, <1>2 DEF callVars, CycleAlone, StyleOf
<1>3. ASSUME NEW t \in Tasks, Proceed(t) \/ BarrierOnly(t) PROVE CycleAlone'
  <2>0. UNCHANGED site
    BY <1>3 DEF Proceed, Join, Locked, Unlock, EnterPublication, ResumePublication,
       LeavePublication, Load, Store, Fail, BarrierOnly
  <2>1. \A c \in Tasks : StyleOf(c)' = StyleOf(c)
    BY <2>0 DEF StyleOf
  <2>2. \A c \in Tasks : work[c] = "released" => work'[c] = "released"
    BY <1>1, <1>3 DEF CallTypeOK, Stages, Proceed, Join, Locked, Unlock, EnterPublication,
       ResumePublication, LeavePublication, Load, Store, Fail, Working, Settle, BarrierOnly
  <2>3. CASE ~Load(t)
    <3>1. loaded' = loaded
      BY <1>3, <2>3 DEF Proceed, Join, Locked, Unlock, EnterPublication, ResumePublication,
         LeavePublication, Store, Fail, BarrierOnly
    <3> QED
      BY <1>1, <2>1, <2>2, <3>1 DEF CycleAlone
  <2>4. CASE Load(t)
    <3>1. loaded' = [loaded EXCEPT ![t] = TRUE] /\ work' = work /\ ~loaded[t]
          /\ loaded \in [Tasks -> BOOLEAN]
      BY <1>1, <2>4 DEF Load, CallTypeOK
    <3>2. StyleOf(t) = "load_first" =>
            \A u \in Tasks \ {t} :
              StyleOf(u) = "load_first" /\ loaded[u] => work[u] = "released"
      BY <2>4 DEF Load, CycleIsFree
    <3> QED
      BY <1>1, <2>1, <3>1, <3>2 DEF CycleAlone
  <2> QED
    BY <2>3, <2>4
<1> QED
  BY <1>2, <1>3 DEF CallNext

LEMMA CallInvInit == CallInit => CallInv /\ KeptInv
<1> SUFFICES ASSUME CallInit PROVE CallInv /\ KeptInv
  OBVIOUS
<1>1. IInv
  BY InitInv DEF CallInit
<1>2. CallTypeOK
  BY <1>1, SitesAssumption DEF CallInit, CallTypeOK, IInv, Stages
<1>3. \A t \in Tasks : work[t] = "idle" /\ ~loaded[t] /\ ~IsLive(t)
  BY DEF CallInit, IsLive
<1>4. LockInv
  BY <1>2, <1>3 DEF LockInv, TicketsDiffer, HolderIsFirst, LineIsSingle, TailIsLast, CallInit
<1>5. CallPlaces
  BY <1>3 DEF CallPlaces, CallInit, Init
<1>6. CycleAlone
  BY <1>3 DEF CycleAlone
<1>7. ReadIsCurrent
  BY <1>3 DEF ReadIsCurrent, Pending
<1>8. NoUpdateIsLost
  BY DEF NoUpdateIsLost, CallInit
<1> QED
  BY <1>1, <1>4, <1>5, <1>6, <1>7, <1>8 DEF CallInv, KeptInv

LEMMA CallInvNext == CallInv /\ [CallNext]_callVars => CallInv'
  BY BarrierStep, NextInv, LockNext, PlacesNext, CycleNext DEF CallInv

\* The step that could lose an update.
LEMMA StoreKeeps ==
  ASSUME CallInv, KeptInv, SitesAgree, NEW t \in Tasks, Store(t)
  PROVE  KeptInv'
<1> DEFINE f == FileOf(t)
           held == IF StyleOf(t) = "clearing" THEN content[f] ELSE {}
<1>1. CallTypeOK
  BY DEF CallInv, LockInv
<1>2. /\ f \in Files /\ UNCHANGED <<site, loaded, seen>>
      /\ content' = [content EXCEPT ![f] = seen[t] \cup {t}]
      /\ published' = (published \ held) \cup {t}
      /\ content \in [Files -> SUBSET Tasks]
      /\ Working(t) /\ loaded[t] /\ pc[t] = "inside"
  BY <1>1, SiteParts DEF Store, CallTypeOK
<1>3. \A u \in Tasks : FileOf(u)' = FileOf(u) /\ StyleOf(u)' = StyleOf(u) /\ FileOf(u) \in Files
  BY <1>1, <1>2, SiteParts DEF FileOf, StyleOf
<1>4. \A u \in Tasks : u # t => work'[u] = work[u]
  BY <1>1 DEF Store, Settle, CallTypeOK
<1>5. work'[t] \in {"settled", "released"}
  BY <1>1 DEF Store, Settle, CallTypeOK
<1>6. ReadIsCurrent'
  <2> SUFFICES ASSUME NEW u \in Tasks, Pending(u)', StyleOf(u) # "clearing"
               PROVE  content'[FileOf(u)] = seen[u]
    BY <1>2, <1>3 DEF ReadIsCurrent
  <2>1. u # t /\ Pending(u)
    BY <1>2, <1>3, <1>4, <1>5 DEF Pending, IsCall
  <2>2. FileOf(u) # f
    BY <1>2, <2>1, RivalsApart
  <2>3. content'[FileOf(u)] = content[FileOf(u)]
    BY <1>2, <1>3, <2>2
  <2> QED
    BY <2>1, <2>3 DEF KeptInv, ReadIsCurrent
<1>7. NoUpdateIsLost'
  <2> SUFFICES ASSUME NEW u \in published' PROVE u \in content'[FileOf(u)]
    BY <1>1, <1>2, <1>3 DEF NoUpdateIsLost, CallTypeOK
  <2>1. u \in Tasks
    BY <1>1, <1>2 DEF CallTypeOK
  <2>2. CASE u = t
    BY <1>2, <2>2
  <2>3. CASE u # t
    <3>1. u \in published /\ u \notin held /\ u \in content[FileOf(u)]
      BY <1>2, <2>3 DEF KeptInv, NoUpdateIsLost
    <3>2. CASE FileOf(u) = f
      <4>1. StyleOf(t) # "clearing"
        BY <3>1, <3>2
      <4>2. Pending(t)
        BY <1>2 DEF Pending, Working
      <4>3. content[f] = seen[t]
        BY <4>1, <4>2 DEF KeptInv, ReadIsCurrent
      <4> QED
        BY <1>2, <3>1, <3>2, <4>3
    <3>3. CASE FileOf(u) # f
      BY <1>2, <1>3, <2>1, <3>1, <3>3
    <3> QED
      BY <3>2, <3>3
  <2> QED
    BY <2>2, <2>3
<1> QED
  BY <1>6, <1>7 DEF KeptInv

LEMMA KeptNext ==
  ASSUME CallInv, KeptInv, SitesAgree, [CallNext]_callVars
  PROVE  KeptInv'
<1>1. CallTypeOK /\ CallPlaces
  BY DEF CallInv, LockInv
<1>2. CASE UNCHANGED callVars
  BY <1>2 DEF callVars, KeptInv, ReadIsCurrent, NoUpdateIsLost, Pending, IsCall, FileOf, StyleOf
<1>3. ASSUME NEW t \in Tasks, Proceed(t) \/ BarrierOnly(t), ~Store(t) PROVE KeptInv'
  <2>0. UNCHANGED <<site, content, published>>
    BY <1>3 DEF Proceed, Join, Locked, Unlock, EnterPublication, ResumePublication,
       LeavePublication, Load, Fail, BarrierOnly
  <2>1. \A c \in Tasks : /\ StyleOf(c)' = StyleOf(c) /\ FileOf(c)' = FileOf(c)
                         /\ IsCall(c)' <=> IsCall(c)
    BY <2>0 DEF StyleOf, FileOf, IsCall
  <2>2. NoUpdateIsLost'
    BY <1>1, <2>0, <2>1 DEF KeptInv, NoUpdateIsLost, CallTypeOK
  <2>3. \A c \in Tasks : work[c] \in {"settled", "released"} => work'[c] \in {"settled", "released"}
    BY <1>1, <1>3 DEF CallTypeOK, Proceed, Join, Locked, Unlock, EnterPublication,
       ResumePublication, LeavePublication, Load, Fail, Working, Settle, BarrierOnly
  <2>4. CASE ~Load(t)
    <3>1. UNCHANGED <<loaded, seen>>
      BY <1>3, <2>4 DEF Proceed, Join, Locked, Unlock, EnterPublication, ResumePublication,
         LeavePublication, Fail, BarrierOnly
    <3>2. ReadIsCurrent'
      BY <2>0, <2>1, <2>3, <3>1 DEF KeptInv, ReadIsCurrent, Pending
    <3> QED
      BY <2>2, <3>2 DEF KeptInv
  <2>5. CASE Load(t)
    <3>1. /\ loaded' = [loaded EXCEPT ![t] = TRUE]
          /\ seen' = [seen EXCEPT ![t] = IF StyleOf(t) = "clearing" THEN {} ELSE content[FileOf(t)]]
          /\ loaded \in [Tasks -> BOOLEAN] /\ seen \in [Tasks -> SUBSET Tasks]
      BY <1>1, <2>5 DEF Load, CallTypeOK
    <3> SUFFICES ASSUME NEW u \in Tasks, Pending(u)', StyleOf(u) # "clearing"
                 PROVE  content[FileOf(u)] = seen'[u]
      BY <2>0, <2>1, <2>2 DEF KeptInv, ReadIsCurrent
    <3>2. CASE u = t
      BY <3>1, <3>2
    <3>3. CASE u # t
      <4>1. Pending(u)
        BY <2>1, <2>3, <3>1, <3>3 DEF Pending
      <4> QED
        BY <3>1, <3>3, <4>1 DEF KeptInv, ReadIsCurrent
    <3> QED
      BY <3>2, <3>3
  <2> QED
    BY <2>4, <2>5
<1> QED
  BY <1>2, <1>3, StoreKeeps DEF CallNext

\* The inductive invariant of the calls, for any sites.
THEOREM CallInvariance == CallSpec => []CallInv
  BY CallInvInit, CallInvNext, PTL DEF CallSpec

\* Two calls never hold the lock of one file at once, whatever joined, threw or left.
THEOREM FileLockIsExclusiveHolds == CallSpec => []FileLockIsExclusive
<1>1. CallInv => FileLockIsExclusive
  BY HoldersApart DEF CallInv, FileLockIsExclusive
<1> QED
  BY <1>1, CallInvariance, PTL

\* The table of locks holds an entry for a file exactly while a call holds or awaits
\* its lock: no entry is deleted under a waiter and none leaks.
THEOREM EntriesAreLiveHolds == CallSpec => []EntriesAreLive
<1>1. CallInv => EntriesAreLive
  <2> SUFFICES ASSUME CallInv, NEW f \in Files PROVE tail[f] = NoTask <=> Live(f) = {}
    BY DEF EntriesAreLive
  <2>1. tail[f] = NoTask \/ tail[f] \in Live(f)
    BY DEF CallInv, LockInv, CallTypeOK, TailIsLast, IsLive, Live
  <2>2. tail[f] = NoTask => Live(f) = {}
    BY DEF CallInv, LockInv, TailIsLast, IsLive, Live
  <2> QED
    BY <2>1, <2>2
<1> QED
  BY <1>1, CallInvariance, PTL

\* The lock of a file is granted in the order in which the calls asked for it.
THEOREM LockIsFifoHolds == CallSpec => LockIsFifo
<1> DEFINE InOrder == \A t \in Tasks :
              work[t] = "chained" /\ work'[t] = "locked" =>
                \A u \in Live(FileOf(t)) : ticket[t] <= ticket[u]
<1>1. CallInv /\ [CallNext]_callVars => InOrder
  <2> SUFFICES ASSUME CallInv, [CallNext]_callVars, NEW t \in Tasks,
                      work[t] = "chained", work'[t] = "locked",
                      NEW u \in Live(FileOf(t))
               PROVE  ticket[t] <= ticket[u]
    OBVIOUS
  <2>0. work \in [Tasks -> Stages]
    BY DEF CallInv, LockInv, CallTypeOK
  <2>1. work' # work
    OBVIOUS
  <2>2. PICK c \in Tasks : Proceed(c) /\ work' # work
    BY <2>1 DEF CallNext, callVars, BarrierOnly
  <2>3. c = t
    BY <2>0, <2>2 DEF Proceed, Join, Locked, Unlock, EnterPublication, ResumePublication,
       LeavePublication, Load, Store, Fail, Settle
  <2>4. prev[t] = NoTask \/ work[prev[t]] = "released"
    BY <2>0, <2>2, <2>3 DEF Proceed, Join, Locked, Unlock, EnterPublication, ResumePublication,
       LeavePublication, Load, Store, Fail, Working, Settle
  <2>5. IsFirst(t)
    BY <2>4 DEF CallInv, LockInv, LineIsSingle, IsLive
  <2> QED
    BY <2>5 DEF IsFirst, Beside, Live, IsLive
<1> QED
  BY <1>1, CallInvariance, PTL DEF CallSpec, LockIsFifo

\* Where the sites of a file agree, no update is lost: nobody publishes the file
\* between the read and the write of a call, because of its lock, the barrier or the
\* dream cycle.
THEOREM NoUpdateIsLostHolds ==
  ASSUME SitesAgree
  PROVE  CallSpec => []NoUpdateIsLost
<1>1. CallInit => CallInv /\ KeptInv
  BY CallInvInit
<1>2. CallInv /\ KeptInv /\ [CallNext]_callVars => (CallInv /\ KeptInv)'
  BY CallInvNext, KeptNext
<1>3. KeptInv => NoUpdateIsLost
  BY DEF KeptInv
<1> QED
  BY <1>1, <1>2, <1>3, PTL DEF CallSpec
=============================================================================
