--------------------------- MODULE Ledgers_proofs ---------------------------
(***************************************************************************)
(* Proofs about two ledgers that are kept in files of their own: the       *)
(* schedules (module Schedules), for any schedules, requests, runners and  *)
(* bounds on time, revisions and failures, and the change obligations      *)
(* (module SourceEffects), for any files, contents, edits and bounds.      *)
(***************************************************************************)
EXTENDS Schedules, SourceEffects, FiniteSetTheorems, TLAPS

-----------------------------------------------------------------------------
(***************************************************************************)
(* Schedules.  The limit of runs is kept although runs are counted late,   *)
(* because a schedule has at most one occurrence under way, claimed below  *)
(* the limit (RunsOK); a job starts once because its queue entries were    *)
(* claimed and it never becomes queued again (WorkOK); a tick owes each    *)
(* slot a claim or a mark before its cursor may pass (CursorOK).           *)
(***************************************************************************)
Taken(o) == occurrence[o] \in {"queued", "finished"}
FinishedOf(p) == {o \in Occurrences : PlanOf(o) = p /\ occurrence[o] = "finished"}
RunnerStates(t) ==
  [at : 0..t, todo : SUBSET Proposals, queue : SUBSET Occurrences,
   doing : Occurrences \cup {NoOccurrence}, pc : {"idle", "admit", "run", "work", "finish"}]

WorkOK ==
  \A o \in Occurrences : /\ started[o] <= 1
                         /\ work[o] \in {"none", "queued"} => started[o] = 0
                         /\ started[o] > 0 => Taken(o)

RunnersOK ==
  \A r \in Runners : /\ \A o \in runner[r].queue : Taken(o)
                     /\ runner[r].pc \in {"work", "finish"} => runner[r].doing \in Occurrences

ReceiptsOK ==
  \A p \in Plans, op \in Requested :
    /\ receipt[<<p, op>>] # NoOccurrence => Taken(receipt[<<p, op>>])
    /\ \A n \in 1..MaxRevision : occurrence[<<p, n, op>>] # "none" => receipt[<<p, op>>] = <<p, n, op>>

RunsOK ==
  \A p \in Plans :
    /\ IsFiniteSet(FinishedOf(p)) /\ runs[p] = Cardinality(FinishedOf(p))
    /\ runs[p] <= MaxRunsOf[p]
    /\ \A o \in Occurrences : PlanOf(o) = p /\ occurrence[o] = "queued" =>
         /\ runs[p] < MaxRunsOf[p]
         /\ \A c \in Occurrences : PlanOf(c) = p /\ occurrence[c] = "queued" => c = o

\* p is due slot s since before its last update, and is neither claimed nor marked.
Due(p, s) == s \in Slots /\ status[p] = "active" /\ updated[p] < 2 * s
Seen(p, s) == <<p, s>> \in unclaimed \/ occurrence[<<p, revision[p], s>>] # "none"

CursorOK ==
  /\ \A p \in Plans : Due(p, lastTick \div 2) => Seen(p, lastTick \div 2)
  /\ \A r \in Runners, p \in Plans :
       LET s == runner[r].at \div 2
       IN runner[r].pc = "admit" /\ Due(p, s) =>
            \/ Seen(p, s)
            \/ \E x \in runner[r].todo : x.occurrence = <<p, revision[p], s>>

ScheduleInv == ScheduleTypeOK /\ WorkOK /\ RunnersOK /\ ReceiptsOK /\ RunsOK /\ CursorOK

-----------------------------------------------------------------------------
(***************************************************************************)
(* Occurrences and records                                                 *)
(***************************************************************************)
LEMMA Parts ==
  ASSUME NEW o \in Occurrences
  PROVE  /\ PlanOf(o) \in Plans /\ RevisionOf(o) \in 1..MaxRevision
         /\ CursorOf(o) \in Slots \cup Requested
         /\ o = <<PlanOf(o), RevisionOf(o), CursorOf(o)>>
         /\ o # NoOccurrence
  BY NoOccurrenceAssumption DEF Occurrences, PlanOf, RevisionOf, CursorOf

LEMMA Triple ==
  ASSUME NEW p \in Plans, NEW n \in 1..MaxRevision, NEW c \in Slots \cup Requested
  PROVE  /\ <<p, n, c>> \in Occurrences
         /\ PlanOf(<<p, n, c>>) = p /\ RevisionOf(<<p, n, c>>) = n /\ CursorOf(<<p, n, c>>) = c
  BY DEF Occurrences, PlanOf, RevisionOf, CursorOf

LEMMA SlotsAreNumbers ==
  Slots \subseteq Nat /\ Slots \cap Requested = {}
<1>1. MaxClock \div 2 \in Nat
  BY PlansAssumption
<1> QED  BY <1>1, PlansAssumption DEF Slots

LEMMA ProposalParts ==
  ASSUME NEW x \in Proposals
  PROVE  /\ x.occurrence \in Occurrences /\ CursorOf(x.occurrence) \in Slots
         /\ x.missed \in BOOLEAN
  BY DEF Proposals, Occurrences, CursorOf

LEMMA ScheduleTypes ==
  ScheduleTypeOK => runner \in [Runners -> RunnerStates(clock)]
  BY DEF ScheduleTypeOK, RunnerStates

LEMMA RunnerRecords ==
  ASSUME NEW t \in Nat, NEW q \in SUBSET Occurrences
  PROVE  /\ Idle \in RunnerStates(t) /\ Running(q) \in RunnerStates(t)
         /\ Idle.queue = {} /\ Running(q).queue = q
         /\ Idle.pc = "idle" /\ Running(q).pc \in {"idle", "run"}
         /\ \A o \in Occurrences, pc \in {"work", "finish"} :
              /\ Doing(q, pc, o) \in RunnerStates(t)
              /\ Doing(q, pc, o).queue = q /\ Doing(q, pc, o).doing = o /\ Doing(q, pc, o).pc = pc
<1>1. Running(q) = [at |-> 0, todo |-> {}, queue |-> q, doing |-> NoOccurrence,
                    pc |-> IF q = {} THEN "idle" ELSE "run"]
  BY DEF Running, Idle
<1> QED  BY <1>1 DEF Doing, Idle, RunnerStates

LEMMA ScheduleInitInv == ScheduleInit => ScheduleInv
<1> SUFFICES ASSUME ScheduleInit  PROVE ScheduleInv
  OBVIOUS
<1> USE DEF ScheduleInit
<1>1. ScheduleTypeOK
  <2>1. runner \in [Runners -> RunnerStates(clock)]
    BY RunnerRecords
  <2> QED  BY <2>1, PlansAssumption DEF ScheduleTypeOK, RunnerStates, WorkStates
<1>2. WorkOK /\ RunnersOK
  BY RunnerRecords DEF WorkOK, RunnersOK, Idle
<1>3. ReceiptsOK
  BY Triple DEF ReceiptsOK
<1>4. RunsOK
  <2> SUFFICES ASSUME NEW p \in Plans
               PROVE  /\ IsFiniteSet(FinishedOf(p)) /\ runs[p] = Cardinality(FinishedOf(p))
                      /\ runs[p] <= MaxRunsOf[p]
                      /\ \A o \in Occurrences : occurrence[o] # "queued"
    BY DEF RunsOK
  <2>1. FinishedOf(p) = {}
    BY DEF FinishedOf
  <2>2. IsFiniteSet({}) /\ Cardinality({}) = 0
    BY FS_EmptySet
  <2>3. runs[p] = 0 /\ MaxRunsOf[p] \in Nat
    BY PlansAssumption
  <2> QED  BY <2>1, <2>2, <2>3
<1>5. CursorOK
  <2>1. lastTick \div 2 \notin Slots
    BY PlansAssumption DEF Slots
  <2> QED  BY <2>1, RunnerRecords DEF CursorOK, Due
<1> QED  BY <1>1, <1>2, <1>3, <1>4, <1>5 DEF ScheduleInv

-----------------------------------------------------------------------------
(***************************************************************************)
(* What a step does to the occurrences                                     *)
(***************************************************************************)
Claims(o, s) ==
  /\ occurrence[o] = "none" /\ s \in {"skipped", "queued"}
  /\ runs[PlanOf(o)] < MaxRunsOf[PlanOf(o)] /\ ~Overlaps(PlanOf(o))
  /\ occurrence' = [occurrence EXCEPT ![o] = s]
  /\ IF CursorOf(o) \in Requested
     THEN /\ s = "queued" /\ receipt[<<PlanOf(o), CursorOf(o)>>] = NoOccurrence
          /\ receipt' = [receipt EXCEPT ![<<PlanOf(o), CursorOf(o)>>] = o]
     ELSE UNCHANGED receipt
  /\ UNCHANGED runs

Finishes(o) ==
  /\ occurrence[o] = "queued"
  /\ occurrence' = [occurrence EXCEPT ![o] = "finished"]
  /\ runs' = [runs EXCEPT ![PlanOf(o)] = @ + 1]
  /\ UNCHANGED receipt

OccurrenceStep ==
  \/ UNCHANGED <<occurrence, receipt, runs>>
  \/ \E o \in Occurrences : Finishes(o) \/ \E s \in {"skipped", "queued"} : Claims(o, s)

LEMMA SavedClaim ==
  ASSUME ScheduleTypeOK, NEW o \in Occurrences, NEW missed \in BOOLEAN, NEW manual \in BOOLEAN,
         MayClaim(o, manual), SaveOccurrence(o, missed), UNCHANGED runs,
         CursorOf(o) \in Requested => ~missed /\ receipt[<<PlanOf(o), CursorOf(o)>>] = NoOccurrence
  PROVE  \E s \in {"skipped", "queued"} : Claims(o, s)
<1>1. runs[PlanOf(o)] < MaxRunsOf[PlanOf(o)]
  BY Parts, PlansAssumption DEF MayClaim, Spent, ScheduleTypeOK
<1> DEFINE s == IF Skipped(o, missed) THEN "skipped" ELSE "queued"
<1>2. Claims(o, s)
  BY <1>1 DEF MayClaim, SaveOccurrence, Claims, Skipped
<1> QED  BY <1>2

LEMMA Occurs ==
  ASSUME ScheduleTypeOK, RunnersOK, [ScheduleNext]_schvars
  PROVE  OccurrenceStep
<1> USE DEF schvars, schedules
<1>1. ASSUME NEW r \in Runners, NEW x \in runner[r].todo, Admit(r, x)
      PROVE  OccurrenceStep
  <2>1. x \in Proposals
    BY ScheduleTypes DEF RunnerStates
  <2>2. /\ x.occurrence \in Occurrences /\ CursorOf(x.occurrence) \notin Requested
        /\ x.missed \in BOOLEAN
    BY <2>1, ProposalParts, SlotsAreNumbers
  <2>3. UNCHANGED runs
    BY <1>1 DEF Admit
  <2>4. CASE MayClaim(x.occurrence, FALSE) /\ SaveOccurrence(x.occurrence, x.missed)
    BY <2>2, <2>3, <2>4, SavedClaim DEF OccurrenceStep
  <2>5. CASE UNCHANGED <<occurrence, receipt>>
    BY <2>3, <2>5 DEF OccurrenceStep
  <2> QED  BY <1>1, <2>4, <2>5 DEF Admit, Claim, ClaimThrows
<1>2. ASSUME NEW r \in Runners, NEW p \in Plans, NEW op \in Requested, RunNow(r, p, op)
      PROVE  OccurrenceStep
  <2> DEFINE o == <<p, revision[p], op>>
  <2>1. o \in Occurrences /\ PlanOf(o) = p /\ CursorOf(o) = op
    BY Triple DEF ScheduleTypeOK
  <2> HIDE DEF o
  <2>2. UNCHANGED runs
    BY <1>2 DEF RunNow
  <2>3. CASE MayClaim(o, TRUE) /\ SaveOccurrence(o, FALSE) /\ receipt[<<p, op>>] = NoOccurrence
    BY <2>1, <2>2, <2>3, SavedClaim DEF OccurrenceStep
  <2>4. CASE UNCHANGED <<occurrence, receipt>>
    BY <2>2, <2>4 DEF OccurrenceStep
  <2> QED  BY <1>2, <2>3, <2>4 DEF RunNow, Claim, ClaimThrows, o
<1>3. ASSUME NEW r \in Runners, FinishRun(r)  PROVE OccurrenceStep
  <2>1. runner[r].doing \in Occurrences
    BY <1>3 DEF FinishRun, RunnersOK
  <2>2. UNCHANGED receipt
    BY <1>3 DEF FinishRun
  <2>3. CASE FinishOccurrence(runner[r].doing)
    BY <2>1, <2>2, <2>3 DEF FinishOccurrence, OccurrenceStep, Finishes
  <2>4. CASE UNCHANGED <<occurrence, runs, errors, status>>
    BY <2>2, <2>4 DEF OccurrenceStep
  <2> QED  BY <1>3, <2>3, <2>4 DEF FinishRun
<1>4. ASSUME UNCHANGED <<occurrence, receipt, runs>>  PROVE OccurrenceStep
  BY <1>4 DEF OccurrenceStep
<1> QED  BY <1>1, <1>2, <1>3, <1>4 DEF ScheduleNext, BeginTick, Advance, TickFails, WorkEnds,
            RunOccurrence, DeleteSchedule, UpdateSchedule, CancelClaimed, ReconcileClaimed,
            RestartScheduler, TimePasses

\* Nothing that was claimed is unclaimed again.
LEMMA TakenStays ==
  ASSUME ScheduleTypeOK, OccurrenceStep, NEW o \in Occurrences
  PROVE  /\ Taken(o) => Taken(o)'
         /\ occurrence[o] # "none" => occurrence'[o] # "none"
         /\ occurrence[o] = "skipped" => occurrence'[o] = "skipped"
  BY DEF OccurrenceStep, Claims, Finishes, Taken, ScheduleTypeOK

LEMMA ReceiptsStep ==
  ASSUME ScheduleTypeOK, ReceiptsOK, OccurrenceStep
  PROVE  ReceiptsOK'
<1> SUFFICES ASSUME NEW p \in Plans, NEW op \in Requested
             PROVE  /\ receipt'[<<p, op>>] # NoOccurrence => Taken(receipt[<<p, op>>])'
                    /\ \A n \in 1..MaxRevision :
                         occurrence'[<<p, n, op>>] # "none" => receipt'[<<p, op>>] = <<p, n, op>>
  BY DEF ReceiptsOK
<1>1. /\ receipt[<<p, op>>] \in Occurrences \cup {NoOccurrence}
      /\ receipt[<<p, op>>] # NoOccurrence => Taken(receipt[<<p, op>>])
      /\ \A n \in 1..MaxRevision : occurrence[<<p, n, op>>] # "none" => receipt[<<p, op>>] = <<p, n, op>>
  BY DEF ReceiptsOK, ScheduleTypeOK
<1>2. \A n \in 1..MaxRevision : <<p, n, op>> \in Occurrences
  BY Triple
<1>3. CASE UNCHANGED <<occurrence, receipt>>
  BY <1>1, <1>3 DEF Taken
<1>4. ASSUME NEW o \in Occurrences, Finishes(o)
      PROVE  /\ receipt'[<<p, op>>] # NoOccurrence => Taken(receipt[<<p, op>>])'
             /\ \A n \in 1..MaxRevision :
                  occurrence'[<<p, n, op>>] # "none" => receipt'[<<p, op>>] = <<p, n, op>>
  BY <1>1, <1>2, <1>4, TakenStays DEF Finishes, ScheduleTypeOK
<1>5. ASSUME NEW o \in Occurrences, NEW s, Claims(o, s)
      PROVE  /\ receipt'[<<p, op>>] # NoOccurrence => Taken(receipt[<<p, op>>])'
             /\ \A n \in 1..MaxRevision :
                  occurrence'[<<p, n, op>>] # "none" => receipt'[<<p, op>>] = <<p, n, op>>
  <2>1. /\ occurrence'[o] = s /\ \A c \in Occurrences \ {o} : occurrence'[c] = occurrence[c]
        /\ occurrence[o] = "none" /\ s \in {"skipped", "queued"}
    BY <1>5 DEF Claims, ScheduleTypeOK
  <2>2. CASE CursorOf(o) = op /\ PlanOf(o) = p
    <3>1. /\ receipt[<<p, op>>] = NoOccurrence /\ receipt'[<<p, op>>] = o /\ s = "queued"
      BY <1>5, <2>2 DEF Claims, ScheduleTypeOK
    <3>2. \A n \in 1..MaxRevision : occurrence[<<p, n, op>>] = "none"
      BY <1>1, <1>2, <3>1, Parts
    <3> QED  BY <1>2, <2>1, <3>1, <3>2 DEF Taken
  <2>3. CASE ~(CursorOf(o) = op /\ PlanOf(o) = p)
    <3>1. receipt'[<<p, op>>] = receipt[<<p, op>>]
      BY <1>5, <2>3, Parts DEF Claims, ScheduleTypeOK
    <3>2. \A n \in 1..MaxRevision : <<p, n, op>> # o
      BY <2>3, Triple
    <3> QED  BY <1>1, <1>2, <2>1, <3>1, <3>2 DEF Taken
  <2> QED  BY <2>2, <2>3
<1> QED  BY <1>3, <1>4, <1>5 DEF OccurrenceStep

-----------------------------------------------------------------------------
(***************************************************************************)
(* The count of runs                                                       *)
(***************************************************************************)
RunsOf(p) ==
  /\ IsFiniteSet(FinishedOf(p)) /\ runs[p] = Cardinality(FinishedOf(p))
  /\ runs[p] <= MaxRunsOf[p]
  /\ \A o \in Occurrences : PlanOf(o) = p /\ occurrence[o] = "queued" =>
       /\ runs[p] < MaxRunsOf[p]
       /\ \A c \in Occurrences : PlanOf(c) = p /\ occurrence[c] = "queued" => c = o

LEMMA ClaimRuns ==
  ASSUME ScheduleTypeOK, NEW p \in Plans, RunsOf(p), NEW o \in Occurrences, NEW s, Claims(o, s)
  PROVE  RunsOf(p)'
<1>1. /\ occurrence'[o] = s /\ \A c \in Occurrences \ {o} : occurrence'[c] = occurrence[c]
      /\ occurrence[o] = "none" /\ s \in {"skipped", "queued"} /\ runs' = runs
  BY DEF Claims, ScheduleTypeOK
<1>2. FinishedOf(p)' = FinishedOf(p)
  BY <1>1 DEF FinishedOf, PlanOf
<1>3. PlanOf(o) = p => runs[p] < MaxRunsOf[p] /\ \A c \in Occurrences : PlanOf(c) = p => occurrence[c] # "queued"
  BY DEF Claims, Overlaps
<1> QED  BY <1>1, <1>2, <1>3 DEF RunsOf, PlanOf

LEMMA FinishRuns ==
  ASSUME ScheduleTypeOK, NEW p \in Plans, RunsOf(p), NEW o \in Occurrences, Finishes(o)
  PROVE  RunsOf(p)'
<1>1. /\ occurrence'[o] = "finished" /\ \A c \in Occurrences \ {o} : occurrence'[c] = occurrence[c]
      /\ occurrence[o] = "queued"
  BY DEF Finishes, ScheduleTypeOK
<1>2. CASE PlanOf(o) # p
  <2>1. FinishedOf(p)' = FinishedOf(p) /\ runs'[p] = runs[p]
    BY <1>1, <1>2 DEF FinishedOf, PlanOf, Finishes, ScheduleTypeOK
  <2> QED  BY <1>1, <1>2, <2>1 DEF RunsOf, PlanOf
<1>3. CASE PlanOf(o) = p
  <2>1. FinishedOf(p)' = FinishedOf(p) \cup {o} /\ o \notin FinishedOf(p)
    BY <1>1, <1>3 DEF FinishedOf, PlanOf
  <2>2. IsFiniteSet(FinishedOf(p)') /\ Cardinality(FinishedOf(p)') = Cardinality(FinishedOf(p)) + 1
    BY <2>1, FS_AddElement DEF RunsOf
  <2>3. runs'[p] = runs[p] + 1 /\ runs[p] < MaxRunsOf[p] /\ runs[p] \in Nat /\ MaxRunsOf[p] \in Nat
    BY <1>1, <1>3, PlansAssumption DEF Finishes, RunsOf, ScheduleTypeOK
  <2>4. \A c \in Occurrences : PlanOf(c) = p => occurrence'[c] # "queued"
    BY <1>1, <1>3 DEF RunsOf
  <2> QED  BY <2>2, <2>3, <2>4 DEF RunsOf, PlanOf
<1> QED  BY <1>2, <1>3

LEMMA RunsStep ==
  ASSUME ScheduleTypeOK, RunsOK, OccurrenceStep
  PROVE  RunsOK'
<1> SUFFICES ASSUME NEW p \in Plans  PROVE RunsOf(p)'
  BY DEF RunsOK, RunsOf
<1>1. RunsOf(p)
  BY DEF RunsOK, RunsOf
<1>2. CASE UNCHANGED <<occurrence, receipt, runs>>
  <2>1. FinishedOf(p)' = FinishedOf(p)
    BY <1>2 DEF FinishedOf, PlanOf
  <2> QED  BY <1>1, <1>2, <2>1 DEF RunsOf, PlanOf
<1> QED  BY <1>1, <1>2, ClaimRuns, FinishRuns DEF OccurrenceStep

-----------------------------------------------------------------------------
(***************************************************************************)
(* Runners and the jobs they start                                         *)
(***************************************************************************)
\* What the actions of a runner leave in its record.
LEMMA RunnersStep ==
  ASSUME ScheduleTypeOK, RunnersOK, ReceiptsOK, OccurrenceStep, [ScheduleNext]_schvars
  PROVE  RunnersOK'
<1> USE DEF schvars, schedules
<1>1. \A o \in Occurrences : Taken(o) => Taken(o)'
  BY TakenStays
<1>2. \A i \in Runners : /\ runner[i] \in RunnerStates(clock)
                         /\ \A o \in runner[i].queue : o \in Occurrences /\ Taken(o)'
                         /\ runner[i].pc \in {"work", "finish"} => runner[i].doing \in Occurrences
  BY <1>1, ScheduleTypes DEF RunnersOK, RunnerStates
<1> DEFINE Fine(record) == /\ \A o \in record.queue : Taken(o)'
                           /\ record.pc \in {"work", "finish"} => record.doing \in Occurrences
<1>3. ASSUME NEW r \in Runners, NEW record, runner' = [runner EXCEPT ![r] = record], Fine(record)
      PROVE  RunnersOK'
  BY <1>2, <1>3 DEF RunnersOK, ScheduleTypeOK
<1>4. ASSUME UNCHANGED runner  PROVE RunnersOK'
  BY <1>2, <1>4 DEF RunnersOK
<1>5. ASSUME NEW r \in Runners, BeginTick(r)  PROVE RunnersOK'
  <2> DEFINE queue == {o \in Occurrences : occurrence[o] = "queued"}
             todo == UNION {Proposed(p) : p \in {q \in Plans : status[q] = "active"}}
  <2>1. runner' = [runner EXCEPT ![r] =
           [at |-> clock, todo |-> todo, queue |-> queue, doing |-> NoOccurrence, pc |-> "admit"]]
    BY <1>5 DEF BeginTick
  <2>2. \A o \in queue : Taken(o)'
    BY <1>1 DEF Taken
  <2> DEFINE begun == [at |-> clock, todo |-> todo, queue |-> queue, doing |-> NoOccurrence, pc |-> "admit"]
  <2> HIDE DEF queue, todo
  <2>3. Fine(begun)
    BY <2>2
  <2> HIDE DEF begun, Fine
  <2> QED  BY <1>3, <2>1, <2>3 DEF begun
<1>6. ASSUME NEW r \in Runners, NEW x \in runner[r].todo, Admit(r, x)  PROVE RunnersOK'
  <2> DEFINE o == x.occurrence
             less == [runner[r] EXCEPT !.todo = @ \ {x}]
             more == [less EXCEPT !.queue = @ \cup {o}]
  <2>1. runner[r].pc = "admit" /\ o \in Occurrences
    BY <1>2, <1>6, ProposalParts DEF Admit, RunnerStates
  <2>2. less.queue = runner[r].queue /\ less.pc = "admit" /\ more.queue = runner[r].queue \cup {o} /\ more.pc = "admit"
    BY <1>2, <2>1 DEF RunnerStates
  <2>3. \/ runner' = [runner EXCEPT ![r] = less]
        \/ runner' = [runner EXCEPT ![r] = more] /\ occurrence'[o] \in {"queued", "finished"}
    <3>1. occurrence[o] \in {"none", "queued", "skipped", "finished"}
      BY <2>1 DEF ScheduleTypeOK
    <3>2. SaveOccurrence(o, x.missed) /\ ~Skipped(o, x.missed) => occurrence'[o] = "queued"
      BY <2>1 DEF SaveOccurrence, ScheduleTypeOK
    <3> QED  BY <1>6, <3>1, <3>2 DEF Admit, Claim, ScheduleTypeOK
  <2>4. Fine(less) /\ (occurrence'[o] \in {"queued", "finished"} => Fine(more))
    BY <1>2, <2>2 DEF Taken
  <2> HIDE DEF less, more, Fine
  <2> QED  BY <1>3, <2>3, <2>4
<1>7. ASSUME NEW r \in Runners, NEW q \in SUBSET Occurrences, \A o \in q : Taken(o)',
             \/ runner' = [runner EXCEPT ![r] = Running(q)]
             \/ \E pc \in {"work", "finish"}, o \in Occurrences : runner' = [runner EXCEPT ![r] = Doing(q, pc, o)]
      PROVE  RunnersOK'
  <2>1. Fine(Running(q))
    BY <1>7 DEF Running, Idle
  <2>2. \A pc \in {"work", "finish"}, o \in Occurrences : Fine(Doing(q, pc, o))
    BY <1>7 DEF Doing
  <2> HIDE DEF Fine
  <2> QED  BY <1>3, <1>7, <2>1, <2>2
<1>8. ASSUME NEW r \in Runners, runner' = [runner EXCEPT ![r] = Idle]  PROVE RunnersOK'
  <2>1. Fine(Idle)
    BY DEF Idle
  <2> HIDE DEF Fine
  <2> QED  BY <1>3, <1>8, <2>1
<1>9. ASSUME NEW r \in Runners, Advance(r) \/ FinishRun(r)  PROVE RunnersOK'
  <2>1. runner' = [runner EXCEPT ![r] = Running(runner[r].queue)] \/ runner' = [runner EXCEPT ![r] = Idle]
    BY <1>9 DEF Advance, FinishRun, ScheduleTypeOK
  <2>2. runner[r].queue \in SUBSET Occurrences /\ \A o \in runner[r].queue : Taken(o)'
    BY <1>2
  <2> QED  BY <1>7, <1>8, <2>1, <2>2
<1>10. ASSUME NEW r \in Runners, NEW o \in runner[r].queue, RunOccurrence(r, o)  PROVE RunnersOK'
  <2> DEFINE rest == runner[r].queue \ {o}
  <2>1. o \in Occurrences /\ rest \in SUBSET Occurrences /\ \A c \in rest : Taken(c)'
    BY <1>2
  <2>2. \/ runner' = [runner EXCEPT ![r] = Running(rest)]
        \/ \E pc \in {"work", "finish"} : runner' = [runner EXCEPT ![r] = Doing(rest, pc, o)]
    BY <1>10 DEF RunOccurrence
  <2> HIDE DEF rest
  <2> QED  BY <1>7, <2>1, <2>2
<1>11. ASSUME NEW r \in Runners, WorkEnds(r)  PROVE RunnersOK'
  <2> DEFINE ended == [runner[r] EXCEPT !.pc = "finish"]
  <2>1. runner' = [runner EXCEPT ![r] = ended] /\ runner[r].pc = "work"
    BY <1>11 DEF WorkEnds, ScheduleTypeOK
  <2>2. ended.queue = runner[r].queue /\ ended.doing = runner[r].doing
    BY <1>2 DEF RunnerStates
  <2>3. Fine(ended)
    BY <1>2, <2>1, <2>2
  <2> HIDE DEF ended, Fine
  <2> QED  BY <1>3, <2>1, <2>3
<1>12. ASSUME NEW r \in Runners, NEW p \in Plans, NEW op \in Requested, RunNow(r, p, op)  PROVE RunnersOK'
  <2>1. PICK o \in Occurrences : o = <<p, revision[p], op>>
    BY Triple DEF ScheduleTypeOK
  <2>2. PICK known \in Occurrences \cup {NoOccurrence} :
          known = receipt[<<p, op>>] /\ (known # NoOccurrence => Taken(known)')
    BY <1>1 DEF ReceiptsOK, ScheduleTypeOK
  <2>3. SaveOccurrence(o, FALSE) => occurrence'[o] = "queued"
    BY DEF SaveOccurrence, Skipped, ScheduleTypeOK
  <2>4. \/ UNCHANGED runner
        \/ runner' = [runner EXCEPT ![r] = Running({known})] /\ known # NoOccurrence
        \/ runner' = [runner EXCEPT ![r] = Running({o})] /\ Taken(o)'
    BY <1>12, <2>1, <2>2, <2>3 DEF RunNow, Claim, Taken
  <2>5. CASE runner' = [runner EXCEPT ![r] = Running({known})] /\ known # NoOccurrence
    <3>1. {known} \in SUBSET Occurrences /\ \A c \in {known} : Taken(c)'
      BY <2>2, <2>5 DEF Taken
    <3> QED  BY <1>7, <2>5, <3>1
  <2>6. CASE runner' = [runner EXCEPT ![r] = Running({o})] /\ Taken(o)'
    <3>1. {o} \in SUBSET Occurrences /\ \A c \in {o} : Taken(c)'
      BY <2>6 DEF Taken
    <3> QED  BY <1>7, <2>6, <3>1
  <2> QED  BY <1>4, <2>4, <2>5, <2>6
<1>13. ASSUME RestartScheduler  PROVE RunnersOK'
  BY <1>13 DEF RestartScheduler, RunnersOK, Idle
<1> HIDE DEF Fine
<1> QED  BY <1>4, <1>5, <1>6, <1>8, <1>9, <1>10, <1>11, <1>12, <1>13 DEF ScheduleNext, TickFails,
            DeleteSchedule, UpdateSchedule, CancelClaimed, ReconcileClaimed, TimePasses

\* What a step leaves in the record of one runner.
LEMMA RunnerStep ==
  ASSUME ScheduleTypeOK, RunnersOK, [ScheduleNext]_schvars, NEW r \in Runners
  PROVE  /\ runner'[r] \in RunnerStates(clock)
         /\ \/ runner'[r] = runner[r]
            \/ BeginTick(r)
            \/ \E x \in runner[r].todo : /\ Admit(r, x) /\ runner'[r].at = runner[r].at
                                         /\ runner'[r].todo = runner[r].todo \ {x}
            \/ runner'[r].pc # "admit"
<1> USE DEF schvars
<1>1. clock \in Nat /\ runner[r] \in RunnerStates(clock) /\ runner[r].queue \in SUBSET Occurrences
  BY ScheduleTypes DEF ScheduleTypeOK, RunnerStates
<1> DEFINE Good == /\ runner'[r] \in RunnerStates(clock)
                   /\ \/ runner'[r] = runner[r]
                      \/ BeginTick(r)
                      \/ \E x \in runner[r].todo : /\ Admit(r, x) /\ runner'[r].at = runner[r].at
                                                   /\ runner'[r].todo = runner[r].todo \ {x}
                      \/ runner'[r].pc # "admit"
<1>2. ASSUME runner'[r] = runner[r]  PROVE Good
  BY <1>1, <1>2
<1>3. ASSUME NEW q \in SUBSET Occurrences,
             \/ runner'[r] \in {Running(q), Idle}
             \/ \E pc \in {"work", "finish"}, o \in Occurrences : runner'[r] = Doing(q, pc, o)
      PROVE  Good
  BY <1>1, <1>3, RunnerRecords
<1>4. ASSUME NEW i \in Runners \ {r},
             \/ BeginTick(i) \/ Advance(i) \/ TickFails(i) \/ WorkEnds(i) \/ FinishRun(i)
             \/ \E x \in runner[i].todo : Admit(i, x)
             \/ \E o \in runner[i].queue : RunOccurrence(i, o)
             \/ \E p \in Plans, op \in Requested : RunNow(i, p, op)
      PROVE  runner'[r] = runner[r]
  BY <1>4 DEF BeginTick, Advance, TickFails, WorkEnds, FinishRun, Admit, RunOccurrence, RunNow, ScheduleTypeOK
<1>5. ASSUME BeginTick(r)  PROVE Good
  <2> DEFINE todo == UNION {Proposed(p) : p \in {p \in Plans : status[p] = "active"}}
             queue == {o \in Occurrences : occurrence[o] = "queued"}
  <2>1. todo \subseteq Proposals
    <3>1. \A p \in Plans : Proposed(p) \subseteq Proposals
      <4> SUFFICES ASSUME NEW p \in Plans, clock \div 2 \in Slots
                   PROVE  [occurrence |-> <<p, revision[p], clock \div 2>>, missed |-> clock % 2 = 1] \in Proposals
        BY DEF Proposed
      <4>1. <<p, revision[p], clock \div 2>> \in Plans \X (1..MaxRevision) \X Slots
        BY DEF ScheduleTypeOK
      <4>2. (clock % 2 = 1) \in BOOLEAN
        OBVIOUS
      <4> QED  BY <4>1, <4>2 DEF Proposals
    <3> QED  BY <3>1
  <2>2. runner'[r] = [at |-> clock, todo |-> todo, queue |-> queue, doing |-> NoOccurrence, pc |-> "admit"]
    BY <1>5 DEF BeginTick, ScheduleTypeOK
  <2>3. queue \subseteq Occurrences
    OBVIOUS
  <2> HIDE DEF todo, queue
  <2>4. runner'[r] \in RunnerStates(clock)
    BY <1>1, <2>1, <2>2, <2>3 DEF RunnerStates
  <2> QED  BY <1>5, <2>4
<1>6. ASSUME NEW x \in runner[r].todo, Admit(r, x)  PROVE Good
  <2> DEFINE less == [runner[r] EXCEPT !.todo = @ \ {x}]
             more == [less EXCEPT !.queue = @ \cup {x.occurrence}]
  <2>1. x.occurrence \in Occurrences
    BY <1>1, ProposalParts DEF RunnerStates
  <2>2. runner'[r] \in {less, more}
    BY <1>6 DEF Admit, ScheduleTypeOK
  <2>3. /\ less \in RunnerStates(clock) /\ less.at = runner[r].at /\ less.todo = runner[r].todo \ {x}
        /\ more \in RunnerStates(clock) /\ more.at = runner[r].at /\ more.todo = runner[r].todo \ {x}
    BY <1>1, <2>1 DEF RunnerStates
  <2> HIDE DEF less, more
  <2> QED  BY <1>6, <2>2, <2>3
<1>7. ASSUME Advance(r) \/ TickFails(r) \/ FinishRun(r)  PROVE Good
  <2>1. runner'[r] \in {Running(runner[r].queue), Idle}
    BY <1>7 DEF Advance, TickFails, FinishRun, ScheduleTypeOK
  <2> QED  BY <1>1, <1>3, <2>1
<1>8. ASSUME NEW o \in runner[r].queue, RunOccurrence(r, o)  PROVE Good
  <2> DEFINE rest == runner[r].queue \ {o}
  <2>1. rest \in SUBSET Occurrences /\ o \in Occurrences
    BY <1>1
  <2>2. runner'[r] = Running(rest) \/ \E pc \in {"work", "finish"} : runner'[r] = Doing(rest, pc, o)
    BY <1>8 DEF RunOccurrence, ScheduleTypeOK
  <2> HIDE DEF rest
  <2> QED  BY <1>3, <2>1, <2>2
<1>9. ASSUME WorkEnds(r)  PROVE Good
  <2> DEFINE ended == [runner[r] EXCEPT !.pc = "finish"]
  <2>1. runner'[r] = ended
    BY <1>9 DEF WorkEnds, ScheduleTypeOK
  <2>2. ended \in RunnerStates(clock) /\ ended.pc = "finish"
    BY <1>1 DEF RunnerStates
  <2> HIDE DEF ended
  <2> QED  BY <2>1, <2>2
<1>10. ASSUME NEW p \in Plans, NEW op \in Requested, RunNow(r, p, op)  PROVE Good
  <2>1. PICK o \in Occurrences : o = <<p, revision[p], op>>
    BY Triple DEF ScheduleTypeOK
  <2>2. PICK known \in Occurrences \cup {NoOccurrence} : known = receipt[<<p, op>>]
    BY DEF ScheduleTypeOK
  <2>3. \/ runner'[r] = runner[r]
        \/ known # NoOccurrence /\ runner'[r] = Running({known})
        \/ runner'[r] = Running({o})
    BY <1>10, <2>1, <2>2 DEF RunNow, ScheduleTypeOK
  <2>4. {o} \in SUBSET Occurrences /\ (known # NoOccurrence => {known} \in SUBSET Occurrences)
    OBVIOUS
  <2> QED  BY <1>2, <1>3, <2>3, <2>4
<1>11. ASSUME RestartScheduler  PROVE Good
  <2>1. runner'[r] = Idle
    BY <1>11 DEF RestartScheduler
  <2> QED  BY <1>1, <1>3, <2>1
<1> HIDE DEF Good
<1>12. ASSUME UNCHANGED runner  PROVE Good
  BY <1>2, <1>12
<1> QED
  <2>1. Good
    BY <1>2, <1>4, <1>5, <1>6, <1>7, <1>8, <1>9, <1>10, <1>11, <1>12 DEF ScheduleNext,
       DeleteSchedule, UpdateSchedule, CancelClaimed, ReconcileClaimed, TimePasses
  <2> QED  BY <2>1 DEF Good

LEMMA WorkStep ==
  ASSUME ScheduleTypeOK, WorkOK, RunnersOK, OccurrenceStep, [ScheduleNext]_schvars
  PROVE  WorkOK'
<1> USE DEF schvars, tally
<1>1. \A o \in Occurrences : Taken(o) => Taken(o)'
  BY TakenStays
<1>2. \A o \in Occurrences : /\ started[o] \in Nat /\ started[o] <= 1 /\ work[o] \in WorkStates
                             /\ work[o] \in {"none", "queued"} => started[o] = 0
                             /\ started[o] > 0 => Taken(o)'
  BY <1>1 DEF WorkOK, ScheduleTypeOK
<1>3. ASSUME NEW r \in Runners, NEW o \in runner[r].queue, RunOccurrence(r, o)  PROVE WorkOK'
  <2>1. o \in Occurrences /\ Taken(o)'
    BY <1>1, ScheduleTypes DEF RunnersOK, RunnerStates
  <2>2. \/ UNCHANGED <<work, started>>
        \/ /\ work[o] = "queued" /\ work' = [work EXCEPT ![o] = "running"]
           /\ started' = [started EXCEPT ![o] = @ + 1]
    BY <1>3 DEF RunOccurrence, Runnable
  <2>3. CASE UNCHANGED <<work, started>>
    BY <1>2, <2>3 DEF WorkOK
  <2>4. CASE /\ work[o] = "queued" /\ work' = [work EXCEPT ![o] = "running"]
             /\ started' = [started EXCEPT ![o] = @ + 1]
    <3>1. started[o] = 0
      BY <1>2, <2>1, <2>4
    <3>2. /\ started'[o] = 1 /\ work'[o] = "running"
          /\ \A c \in Occurrences \ {o} : started'[c] = started[c] /\ work'[c] = work[c]
      BY <2>1, <2>4, <3>1 DEF ScheduleTypeOK
    <3> QED  BY <1>2, <2>1, <3>2 DEF WorkOK
  <2> QED  BY <2>2, <2>3, <2>4
<1>4. ASSUME UNCHANGED started,
             \A o \in Occurrences : \/ work'[o] = work[o]
                                    \/ work'[o] \notin {"none", "queued"}
                                    \/ work[o] = "none" /\ work'[o] = "queued"
      PROVE  WorkOK'
  BY <1>2, <1>4 DEF WorkOK
<1>5. ASSUME NEW o, Accept(o) \/ UNCHANGED work, UNCHANGED started  PROVE WorkOK'
  <2>1. \A c \in Occurrences : \/ work'[c] = work[c]
                               \/ work[c] = "none" /\ work'[c] = "queued"
    BY <1>5 DEF Accept, ScheduleTypeOK
  <2> QED  BY <1>4, <1>5, <2>1
<1>6. ASSUME NEW r \in Runners, NEW x, Admit(r, x)  PROVE WorkOK'
  BY <1>5, <1>6 DEF Admit, Claim, ClaimThrows
<1>7. ASSUME NEW r \in Runners, NEW p, NEW op, RunNow(r, p, op)  PROVE WorkOK'
  BY <1>5, <1>7 DEF RunNow, Claim, ClaimThrows
<1>8. ASSUME \/ \E r \in Runners : WorkEnds(r)
             \/ \E o \in Occurrences : CancelClaimed(o) \/ ReconcileClaimed(o)
             \/ RestartScheduler
      PROVE  WorkOK'
  <2>1. \A o \in Occurrences : work'[o] = work[o] \/ work'[o] \notin {"none", "queued"}
    BY <1>8 DEF WorkEnds, CancelClaimed, ReconcileClaimed, RestartScheduler, ScheduleTypeOK
  <2>2. UNCHANGED started
    BY <1>8 DEF WorkEnds, CancelClaimed, ReconcileClaimed, RestartScheduler
  <2> QED  BY <1>4, <2>1, <2>2
<1>9. ASSUME UNCHANGED <<work, started>>  PROVE WorkOK'
  BY <1>4, <1>9
<1> QED  BY <1>3, <1>6, <1>7, <1>8, <1>9 DEF ScheduleNext, BeginTick, Advance, TickFails, FinishRun,
            DeleteSchedule, UpdateSchedule, TimePasses

-----------------------------------------------------------------------------
(***************************************************************************)
(* The cursor of the ticks                                                 *)
(***************************************************************************)
LEMMA Halves ==
  ASSUME NEW n \in Nat
  PROVE  /\ n \div 2 \in Nat /\ 2 * (n \div 2) <= n
         /\ n % 2 = 1 => n = 2 * (n \div 2) + 1
         /\ n % 2 # 1 => n = 2 * (n \div 2)
  OBVIOUS

LEMMA SameHalf ==
  ASSUME NEW n \in Nat, NEW k \in Nat, 2 * k <= n, n <= 2 * k + 1
  PROVE  n \div 2 = k
  OBVIOUS

\* Only a definition's update and the end of an occurrence touch the plans' records.
LEMMA PlansStand ==
  ASSUME [ScheduleNext]_schvars
  PROVE  \/ \E q \in Plans : DeleteSchedule(q) \/ \E s \in {"active", "paused"} : UpdateSchedule(q, s)
         \/ \E r \in Runners : FinishRun(r)
         \/ UNCHANGED <<status, revision, updated, errors>> /\ (clock' = clock \/ TimePasses)
<1> DEFINE Stand == UNCHANGED <<status, revision, updated, errors>> /\ (clock' = clock \/ TimePasses)
<1> USE DEF schedules
<1>1. ASSUME NEW r \in Runners, BeginTick(r) \/ Advance(r) \/ TickFails(r) \/ WorkEnds(r)  PROVE Stand
  BY <1>1 DEF BeginTick, Advance, TickFails, WorkEnds
<1>2. ASSUME NEW r \in Runners, NEW x, Admit(r, x)  PROVE Stand
  BY <1>2 DEF Admit
<1>3. ASSUME NEW r \in Runners, NEW o, RunOccurrence(r, o)  PROVE Stand
  BY <1>3 DEF RunOccurrence
<1>4. ASSUME NEW r \in Runners, NEW q, NEW op, RunNow(r, q, op)  PROVE Stand
  BY <1>4 DEF RunNow
<1>5. ASSUME NEW o, CancelClaimed(o) \/ ReconcileClaimed(o)  PROVE Stand
  BY <1>5 DEF CancelClaimed, ReconcileClaimed
<1>6. ASSUME RestartScheduler \/ TimePasses \/ UNCHANGED schvars  PROVE Stand
  BY <1>6 DEF RestartScheduler, TimePasses, schvars
<1> HIDE DEF Stand
<1>7. CASE ScheduleNext
  BY <1>1, <1>2, <1>3, <1>4, <1>5, <1>6, <1>7 DEF ScheduleNext, Stand
<1> QED  BY <1>6, <1>7 DEF Stand

\* Only Advance moves the cursor, and only an admission gives a slot up.
LEMMA SlotsStand ==
  ASSUME [ScheduleNext]_schvars
  PROVE  /\ lastTick' = lastTick \/ \E r \in Runners : Advance(r)
         /\ unclaimed' = unclaimed \/ \E r \in Runners : \E x \in runner[r].todo : Admit(r, x)
<1> DEFINE Stand == UNCHANGED <<lastTick, unclaimed>>
           Moves == \E r \in Runners : Advance(r) /\ unclaimed' = unclaimed
           Gives == \E r \in Runners : \E x \in runner[r].todo : Admit(r, x) /\ lastTick' = lastTick
<1> USE DEF schedules, tally
<1>1. ASSUME NEW r \in Runners, BeginTick(r) \/ TickFails(r) \/ WorkEnds(r) \/ FinishRun(r)  PROVE Stand
  BY <1>1 DEF BeginTick, TickFails, WorkEnds, FinishRun
<1>2. ASSUME NEW r \in Runners, NEW x \in runner[r].todo, Admit(r, x)  PROVE Gives
  BY <1>2 DEF Admit
<1>3. ASSUME NEW r \in Runners, NEW o, RunOccurrence(r, o)  PROVE Stand
  BY <1>3 DEF RunOccurrence
<1>4. ASSUME NEW r \in Runners, NEW q, NEW op, RunNow(r, q, op)  PROVE Stand
  BY <1>4 DEF RunNow
<1>5. ASSUME NEW o, CancelClaimed(o) \/ ReconcileClaimed(o)  PROVE Stand
  BY <1>5 DEF CancelClaimed, ReconcileClaimed
<1>6. ASSUME RestartScheduler \/ TimePasses \/ UNCHANGED schvars  PROVE Stand
  BY <1>6 DEF RestartScheduler, TimePasses, schvars
<1>7. ASSUME NEW r \in Runners, Advance(r)  PROVE Moves
  BY <1>7 DEF Advance
<1>8. ASSUME NEW q, DeleteSchedule(q)  PROVE Stand
  BY <1>8 DEF DeleteSchedule
<1>9. ASSUME NEW q, NEW s, UpdateSchedule(q, s)  PROVE Stand
  BY <1>9 DEF UpdateSchedule
<1> HIDE DEF Stand, Moves, Gives
<1>10. CASE ScheduleNext
  <2>1. Stand \/ Moves \/ Gives
    BY <1>1, <1>2, <1>3, <1>4, <1>5, <1>6, <1>7, <1>8, <1>9, <1>10 DEF ScheduleNext
  <2> QED  BY <2>1 DEF Stand, Moves, Gives
<1> QED  BY <1>6, <1>10 DEF Stand

\* Who is owed a slot in the next state was owed it before, under the same revision.
LEMMA DueBefore ==
  ASSUME ScheduleTypeOK, [ScheduleNext]_schvars, NEW p \in Plans, NEW t \in 0..clock, Due(p, t \div 2)'
  PROVE  Due(p, t \div 2) /\ revision'[p] = revision[p]
<1> USE DEF schvars, schedules
<1>0. 2 * (t \div 2) <= clock /\ t \div 2 \in Nat /\ clock \in Nat /\ updated[p] \in Nat
  BY Halves DEF ScheduleTypeOK
<1>1. ASSUME NEW q \in Plans, NEW s, UpdateSchedule(q, s)  PROVE Due(p, t \div 2) /\ revision'[p] = revision[p]
  BY <1>0, <1>1 DEF UpdateSchedule, Due, ScheduleTypeOK
<1>2. ASSUME NEW q \in Plans, DeleteSchedule(q)  PROVE Due(p, t \div 2) /\ revision'[p] = revision[p]
  BY <1>2 DEF DeleteSchedule, Due, ScheduleTypeOK
<1>3. ASSUME UNCHANGED <<revision, updated>>, status'[p] = "active" => status[p] = "active"
      PROVE  Due(p, t \div 2) /\ revision'[p] = revision[p]
  BY <1>3 DEF Due
<1>4. ASSUME NEW r \in Runners, FinishRun(r)  PROVE Due(p, t \div 2) /\ revision'[p] = revision[p]
  BY <1>3, <1>4 DEF FinishRun, FinishOccurrence, ScheduleTypeOK
<1>5. CASE UNCHANGED <<status, revision, updated, errors>>
  BY <1>3, <1>5
<1> QED  BY <1>1, <1>2, <1>4, <1>5, PlansStand

LEMMA SeenStays ==
  ASSUME ScheduleTypeOK, OccurrenceStep, [ScheduleNext]_schvars, NEW p \in Plans, NEW s \in Slots,
         revision'[p] = revision[p], Seen(p, s)
  PROVE  Seen(p, s)'
<1> USE DEF schvars, schedules, tally
<1>1. unclaimed \subseteq unclaimed'
  <2>1. ASSUME NEW r \in Runners, NEW x, Admit(r, x)  PROVE unclaimed \subseteq unclaimed'
    BY <2>1 DEF Admit
  <2> QED  BY <2>1, SlotsStand
<1>2. <<p, revision[p], s>> \in Occurrences
  BY Triple DEF ScheduleTypeOK
<1> QED  BY <1>1, <1>2, TakenStays DEF Seen

\* A proposal that was dealt with is claimed, or its slot is marked.
LEMMA AdmitSees ==
  ASSUME ScheduleTypeOK, NEW r \in Runners, NEW x \in Proposals, Admit(r, x)
  PROVE  \/ <<PlanOf(x.occurrence), CursorOf(x.occurrence)>> \in unclaimed'
         \/ occurrence'[x.occurrence] # "none"
<1>1. x.occurrence \in Occurrences
  BY ProposalParts
<1> QED  BY <1>1 DEF Admit, Claim, SaveOccurrence, ScheduleTypeOK

\* What a tick proposes for a schedule that is due.
LEMMA DueIsProposed ==
  ASSUME ScheduleTypeOK, NEW p \in Plans, Due(p, clock \div 2), ~Seen(p, clock \div 2),
         Due(p, lastTick \div 2) => Seen(p, lastTick \div 2)
  PROVE  \E x \in Proposed(p) : x.occurrence = <<p, revision[p], clock \div 2>>
<1> DEFINE s == clock \div 2
           open == IF p \in CronPlans /\ clock % 2 = 1 THEN 2 * s > lastTick /\ 2 * s > updated[p] ELSE TRUE
<1>1. clock \in Nat /\ s \in Nat /\ lastTick \in Nat /\ lastTick <= clock /\ updated[p] \in Nat
  BY Halves DEF ScheduleTypeOK
<1>2. open
  <2> SUFFICES ASSUME clock % 2 = 1, ~(2 * s > lastTick)  PROVE FALSE
    BY <1>1 DEF Due
  <2>1. clock = 2 * s + 1
    BY <1>1, Halves
  <2>2. lastTick \div 2 = s
    BY <1>1, <2>1, SameHalf
  <2> QED  BY <2>2
<1>3. Proposed(p) = {[occurrence |-> <<p, revision[p], s>>, missed |-> (clock % 2 = 1)]}
  BY <1>2 DEF Proposed, Due
<1> QED  BY <1>3

LEMMA CursorStep ==
  ASSUME ScheduleTypeOK, RunnersOK, CursorOK, OccurrenceStep, [ScheduleNext]_schvars
  PROVE  CursorOK'
<1> USE DEF schvars, schedules
<1>1. ASSUME NEW p \in Plans, NEW t \in 0..clock, Due(p, t \div 2)', Seen(p, t \div 2)
      PROVE  Seen(p, t \div 2)'
  BY <1>1, DueBefore, SeenStays DEF Due
<1>2. ASSUME NEW p \in Plans, NEW t \in 0..clock, t = lastTick', Due(p, t \div 2)'
      PROVE  Seen(p, t \div 2)'
  <2>1. Due(p, t \div 2)
    BY <1>2, DueBefore
  <2>2. CASE t = lastTick
    BY <1>1, <1>2, <2>1, <2>2 DEF CursorOK
  <2>3. CASE t # lastTick
    <3>1. PICK r \in Runners : Advance(r)
      BY <1>2, <2>3, SlotsStand
    <3>2. t = runner[r].at /\ runner[r].pc = "admit" /\ runner[r].todo = {}
      BY <1>2, <2>3, <3>1 DEF Advance, TickCursor, Admitted
    <3>3. Seen(p, t \div 2)
      BY <2>1, <3>2 DEF CursorOK
    <3> QED  BY <1>1, <1>2, <3>3
  <2> QED  BY <2>2, <2>3
<1>3. lastTick' \in 0..clock
  <2>1. \A r \in Runners : runner[r].at \in 0..clock
    BY ScheduleTypes DEF RunnerStates
  <2>2. ASSUME NEW r \in Runners, Advance(r)  PROVE lastTick' \in 0..clock
    BY <2>1, <2>2 DEF Advance, TickCursor, ScheduleTypeOK
  <2>3. ASSUME UNCHANGED lastTick  PROVE lastTick' \in 0..clock
    BY <2>3 DEF ScheduleTypeOK
  <2> QED  BY <2>2, <2>3, SlotsStand
<1>4. ASSUME NEW r \in Runners, NEW p \in Plans, NEW t \in 0..clock, t = runner'[r].at,
             runner'[r].pc = "admit", Due(p, t \div 2)', ~Seen(p, t \div 2)'
      PROVE  \E x \in runner'[r].todo : x.occurrence = <<p, revision'[p], t \div 2>>
  <2>1. /\ Due(p, t \div 2) /\ revision'[p] = revision[p] /\ ~Seen(p, t \div 2)
        /\ t \div 2 \in Slots
    BY <1>1, <1>4, DueBefore DEF Due
  <2>2. CASE BeginTick(r)
    <3>1. /\ t = clock
          /\ runner'[r].todo = UNION {Proposed(q) : q \in {q \in Plans : status[q] = "active"}}
      BY <1>4, <2>2 DEF BeginTick, ScheduleTypeOK
    <3>2. status[p] = "active"
      BY <2>1 DEF Due
    <3>3. \E x \in Proposed(p) : x.occurrence = <<p, revision[p], clock \div 2>>
      BY <2>1, <3>1, DueIsProposed DEF CursorOK
    <3> QED  BY <2>1, <3>1, <3>2, <3>3
  <2>3. CASE ~BeginTick(r)
    <3>1. runner[r] \in RunnerStates(clock)
      BY ScheduleTypes
    <3>2. /\ runner[r].pc = "admit" /\ runner[r].at = t
          /\ \/ runner'[r].todo = runner[r].todo
             \/ \E x \in runner[r].todo : Admit(r, x) /\ runner'[r].todo = runner[r].todo \ {x}
      BY <1>4, <2>3, RunnerStep DEF Admit
    <3>3. PICK x \in runner[r].todo : x.occurrence = <<p, revision[p], t \div 2>>
      BY <2>1, <3>2 DEF CursorOK
    <3>4. CASE x \in runner'[r].todo
      BY <2>1, <3>3, <3>4
    <3>5. CASE Admit(r, x)
      <4>1. x \in Proposals
        BY <3>1 DEF RunnerStates
      <4>2. PlanOf(x.occurrence) = p /\ CursorOf(x.occurrence) = t \div 2
        BY <3>3 DEF PlanOf, CursorOf
      <4> QED  BY <1>4, <2>1, <3>3, <3>5, <4>1, <4>2, AdmitSees DEF Seen
    <3> QED  BY <3>2, <3>4, <3>5
  <2> QED  BY <2>2, <2>3
<1>5. \A r \in Runners : runner'[r].at \in 0..clock
  BY RunnerStep DEF RunnerStates
<1> QED  BY <1>2, <1>3, <1>4, <1>5 DEF CursorOK

-----------------------------------------------------------------------------
(***************************************************************************)
(* Type correctness                                                        *)
(***************************************************************************)
LEMMA LedgerTypes ==
  ASSUME ScheduleTypeOK, OccurrenceStep
  PROVE  /\ occurrence' \in [Occurrences -> {"none", "queued", "skipped", "finished"}]
         /\ receipt' \in [Plans \X Requested -> Occurrences \cup {NoOccurrence}]
         /\ runs' \in [Plans -> Nat]
<1> USE DEF ScheduleTypeOK
<1>1. ASSUME NEW o \in Occurrences, Finishes(o)
      PROVE  /\ occurrence' \in [Occurrences -> {"none", "queued", "skipped", "finished"}]
             /\ receipt' \in [Plans \X Requested -> Occurrences \cup {NoOccurrence}]
             /\ runs' \in [Plans -> Nat]
  <2>1. PlanOf(o) \in Plans
    BY Parts
  <2> QED  BY <1>1, <2>1 DEF Finishes
<1>2. ASSUME NEW o \in Occurrences, NEW s, Claims(o, s)
      PROVE  /\ occurrence' \in [Occurrences -> {"none", "queued", "skipped", "finished"}]
             /\ receipt' \in [Plans \X Requested -> Occurrences \cup {NoOccurrence}]
             /\ runs' \in [Plans -> Nat]
  BY <1>2 DEF Claims
<1> QED  BY <1>1, <1>2 DEF OccurrenceStep

LEMMA StatusTypes ==
  ASSUME ScheduleTypeOK, RunnersOK, [ScheduleNext]_schvars
  PROVE  /\ clock' \in Nat /\ clock <= clock'
         /\ status' \in [Plans -> {"active", "paused", "archived"}]
         /\ revision' \in [Plans -> 1..MaxRevision]
         /\ updated' \in [Plans -> 0..clock] /\ errors' \in [Plans -> Nat]
<1> USE DEF schvars, schedules
<1>0. ScheduleTypeOK /\ MaxRevision \in Nat
  BY PlansAssumption
<1>1. ASSUME NEW p \in Plans, DeleteSchedule(p) \/ \E s \in {"active", "paused"} : UpdateSchedule(p, s)
      PROVE  /\ clock' = clock
             /\ status' \in [Plans -> {"active", "paused", "archived"}]
             /\ revision' \in [Plans -> 1..MaxRevision]
             /\ updated' \in [Plans -> 0..clock] /\ errors' \in [Plans -> Nat]
  <2>1. revision[p] + 1 \in 1..MaxRevision /\ clock \in 0..clock
    BY <1>0, <1>1 DEF DeleteSchedule, UpdateSchedule, ScheduleTypeOK
  <2> QED  BY <1>0, <1>1, <2>1 DEF DeleteSchedule, UpdateSchedule, ScheduleTypeOK
<1>2. ASSUME NEW r \in Runners, FinishRun(r)
      PROVE  /\ clock' = clock
             /\ status' \in [Plans -> {"active", "paused", "archived"}]
             /\ UNCHANGED <<revision, updated>> /\ errors' \in [Plans -> Nat]
  <2>1. PlanOf(runner[r].doing) \in Plans
    BY <1>2, Parts DEF FinishRun, RunnersOK
  <2> QED  BY <1>0, <1>2, <2>1 DEF FinishRun, FinishOccurrence, ScheduleTypeOK
<1>3. ASSUME UNCHANGED <<status, revision, updated, errors>>, clock' = clock \/ TimePasses
      PROVE  /\ clock' \in Nat /\ clock <= clock'
             /\ status' \in [Plans -> {"active", "paused", "archived"}]
             /\ revision' \in [Plans -> 1..MaxRevision]
             /\ updated' \in [Plans -> 0..clock] /\ errors' \in [Plans -> Nat]
  BY <1>0, <1>3 DEF TimePasses, ScheduleTypeOK
<1>4. clock \in Nat
  BY DEF ScheduleTypeOK
<1>5. CASE \E p \in Plans : DeleteSchedule(p) \/ \E s \in {"active", "paused"} : UpdateSchedule(p, s)
  BY <1>1, <1>4, <1>5
<1>6. CASE \E r \in Runners : FinishRun(r)
  BY <1>2, <1>4, <1>6 DEF ScheduleTypeOK
<1> QED  BY <1>3, <1>5, <1>6, PlansStand

LEMMA WorkTypes ==
  ASSUME ScheduleTypeOK, RunnersOK, [ScheduleNext]_schvars
  PROVE  /\ work' \in [Occurrences -> WorkStates] /\ started' \in [Occurrences -> Nat]
         /\ daemons' \in Nat /\ claimFaults' \in Nat /\ unclaimed' \subseteq Plans \X Slots
         /\ lastTick' \in 0..clock
<1> USE DEF schvars, schedules, tally, ScheduleTypeOK
<1>0. \A r \in Runners : /\ runner[r].at \in 0..clock /\ runner[r].queue \subseteq Occurrences
                         /\ runner[r].todo \subseteq Proposals
  BY ScheduleTypes DEF RunnerStates
<1>1. ASSUME NEW o, Accept(o)  PROVE work' \in [Occurrences -> WorkStates]
  BY <1>1 DEF Accept, WorkStates
<1> DEFINE Typed == /\ work' \in [Occurrences -> WorkStates] /\ started' \in [Occurrences -> Nat]
                    /\ daemons' \in Nat /\ claimFaults' \in Nat /\ unclaimed' \subseteq Plans \X Slots
                    /\ lastTick' \in 0..clock
<1>2. ASSUME NEW r \in Runners, NEW x \in runner[r].todo, Admit(r, x)  PROVE Typed
  <2>1. x.occurrence \in Occurrences /\ PlanOf(x.occurrence) \in Plans /\ CursorOf(x.occurrence) \in Slots
    BY <1>0, ProposalParts, Parts
  <2>2. work' \in [Occurrences -> WorkStates]
    BY <1>1, <1>2 DEF Admit, Claim, ClaimThrows
  <2>3. unclaimed' \in {unclaimed, unclaimed \cup {<<PlanOf(x.occurrence), CursorOf(x.occurrence)>>}}
    BY <1>2 DEF Admit
  <2>4. claimFaults' \in {claimFaults, claimFaults + 1}
    BY <1>2 DEF Admit, ClaimThrows, ClaimFault
  <2>5. UNCHANGED <<started, daemons, lastTick>>
    BY <1>2 DEF Admit
  <2> QED  BY <2>1, <2>2, <2>3, <2>4, <2>5
<1>3. ASSUME NEW r \in Runners, NEW p \in Plans, NEW op \in Requested, RunNow(r, p, op)  PROVE Typed
  <2>1. work' \in [Occurrences -> WorkStates]
    BY <1>1, <1>3 DEF RunNow, Claim, ClaimThrows
  <2>2. claimFaults' \in {claimFaults, claimFaults + 1}
    BY <1>3 DEF RunNow, ClaimThrows, ClaimFault
  <2> QED  BY <1>3, <2>1, <2>2 DEF RunNow
<1>4. ASSUME NEW r \in Runners, NEW o \in runner[r].queue, RunOccurrence(r, o)  PROVE Typed
  <2>1. o \in Occurrences /\ started[o] \in Nat
    BY <1>0
  <2>2. \/ UNCHANGED <<work, started>>
        \/ /\ work' = [work EXCEPT ![o] = "running"] /\ started' = [started EXCEPT ![o] = started[o] + 1]
    BY <1>4 DEF RunOccurrence
  <2>3. "running" \in WorkStates
    BY DEF WorkStates
  <2>4. work' \in [Occurrences -> WorkStates]
    BY <2>2, <2>3
  <2>5. started' \in [Occurrences -> Nat]
    BY <2>1, <2>2
  <2> QED  BY <1>4, <2>4, <2>5 DEF RunOccurrence
<1>5. ASSUME NEW r \in Runners, WorkEnds(r)  PROVE Typed
  <2>1. PICK end \in {"succeeded", "failed", "recovery_required"} : work' = [work EXCEPT ![runner[r].doing] = end]
    BY <1>5 DEF WorkEnds
  <2>2. work' \in [Occurrences -> WorkStates]
    BY <2>1 DEF WorkStates
  <2> QED  BY <1>5, <2>2 DEF WorkEnds
<1>6. ASSUME NEW r \in Runners, BeginTick(r) \/ Advance(r) \/ TickFails(r) \/ FinishRun(r)  PROVE Typed
  BY <1>0, <1>6 DEF BeginTick, Advance, TickFails, FinishRun, TickCursor, ClaimFault
<1>7. ASSUME NEW o \in Occurrences, CancelClaimed(o) \/ ReconcileClaimed(o)  PROVE Typed
  BY <1>7 DEF CancelClaimed, ReconcileClaimed, WorkStates
<1>8. ASSUME RestartScheduler  PROVE Typed
  BY <1>8 DEF RestartScheduler, WorkStates
<1>9. ASSUME UNCHANGED <<work, started, daemons, claimFaults, unclaimed, lastTick>>  PROVE Typed
  BY <1>9
<1> HIDE DEF Typed
<1> QED
  <2>1. Typed
    BY <1>2, <1>3, <1>4, <1>5, <1>6, <1>7, <1>8, <1>9 DEF ScheduleNext, DeleteSchedule, UpdateSchedule, TimePasses
  <2> QED  BY <2>1 DEF Typed

LEMMA ScheduleTypeStep ==
  ASSUME ScheduleTypeOK, RunnersOK, OccurrenceStep, [ScheduleNext]_schvars
  PROVE  ScheduleTypeOK'
<1>1. /\ clock \in Nat /\ clock' \in Nat /\ 0..clock \subseteq 0..clock'
  BY StatusTypes DEF ScheduleTypeOK
<1>2. updated' \in [Plans -> 0..clock'] /\ lastTick' \in 0..clock'
  BY <1>1, StatusTypes, WorkTypes
<1>3. runner' \in [Runners -> RunnerStates(clock')]
  <2>1. \A r \in Runners : runner'[r] \in RunnerStates(clock')
    BY <1>1, RunnerStep DEF RunnerStates
  <2>2. runner' = [r \in Runners |-> runner'[r]]
    <3> USE DEF ScheduleTypeOK, schvars
    <3>1. ASSUME NEW r, NEW record, runner' = [runner EXCEPT ![r] = record]
          PROVE  runner' = [i \in Runners |-> runner'[i]]
      BY <3>1
    <3>2. ASSUME NEW r \in Runners,
                 \/ BeginTick(r) \/ Advance(r) \/ TickFails(r) \/ WorkEnds(r) \/ FinishRun(r)
                 \/ \E o \in runner[r].queue : RunOccurrence(r, o)
          PROVE  runner' = [i \in Runners |-> runner'[i]]
      BY <3>1, <3>2 DEF BeginTick, Advance, TickFails, WorkEnds, FinishRun, RunOccurrence
    <3>3. ASSUME NEW r \in Runners, NEW x \in runner[r].todo, Admit(r, x)
          PROVE  runner' = [i \in Runners |-> runner'[i]]
      BY <3>3 DEF Admit
    <3>4. ASSUME NEW r \in Runners, NEW p \in Plans, NEW op \in Requested, RunNow(r, p, op)
          PROVE  runner' = [i \in Runners |-> runner'[i]]
      BY <3>4 DEF RunNow
    <3>5. ASSUME RestartScheduler  PROVE runner' = [i \in Runners |-> runner'[i]]
      BY <3>5 DEF RestartScheduler
    <3>6. ASSUME UNCHANGED runner  PROVE runner' = [i \in Runners |-> runner'[i]]
      BY <3>6
    <3> QED  BY <3>2, <3>3, <3>4, <3>5, <3>6 DEF ScheduleNext, DeleteSchedule, UpdateSchedule,
                CancelClaimed, ReconcileClaimed, TimePasses
  <2> QED  BY <2>1, <2>2
<1> QED  BY <1>2, <1>3, LedgerTypes, StatusTypes, WorkTypes DEF ScheduleTypeOK, RunnerStates

-----------------------------------------------------------------------------
LEMMA ScheduleNextInv == ScheduleInv /\ [ScheduleNext]_schvars => ScheduleInv'
<1> SUFFICES ASSUME ScheduleInv, [ScheduleNext]_schvars  PROVE ScheduleInv'
  OBVIOUS
<1>1. OccurrenceStep
  BY Occurs DEF ScheduleInv
<1> QED  BY <1>1, ScheduleTypeStep, WorkStep, RunnersStep, ReceiptsStep, RunsStep, CursorStep DEF ScheduleInv

\* The inductive invariant holds throughout (scheduler.ts:437-672).
THEOREM ScheduleInvariance == ScheduleSpec => []ScheduleInv
<1> QED  BY ScheduleInitInv, ScheduleNextInv, PTL DEF ScheduleSpec

\* Schedules, occurrences and runners keep their types, and the durable cursor
\* is never ahead of the clock (scheduler.ts:413-429, 641).
THEOREM ScheduleTypeCorrect == ScheduleSpec => []ScheduleTypeOK
<1>1. ScheduleInv => ScheduleTypeOK
  BY DEF ScheduleInv
<1> QED  BY <1>1, ScheduleInvariance, PTL

\* No schedule starts more jobs than max_runs, whatever ticks, requests,
\* revisions, cancellations and restarts come together (scheduler.ts:467, 570, 595).
THEOREM MaxRunsIsKeptHolds == ScheduleSpec => []MaxRunsIsKept
<1>1. ScheduleInv => MaxRunsIsKept
  <2> SUFFICES ASSUME ScheduleInv, NEW p \in Plans
               PROVE  Cardinality(Starts({o \in Occurrences : PlanOf(o) = p})) <= MaxRunsOf[p]
    BY DEF MaxRunsIsKept
  <2> DEFINE begun == Starts({o \in Occurrences : PlanOf(o) = p})
             open == {o \in Occurrences : PlanOf(o) = p /\ occurrence[o] = "queued"}
  <2>1. begun \subseteq FinishedOf(p) \cup open
    BY DEF Starts, ScheduleInv, WorkOK, ScheduleTypeOK, Taken, FinishedOf
  <2>2. IsFiniteSet(FinishedOf(p)) /\ Cardinality(FinishedOf(p)) <= MaxRunsOf[p]
        /\ Cardinality(FinishedOf(p)) \in Nat /\ MaxRunsOf[p] \in Nat
    BY PlansAssumption, FS_CardinalityType DEF ScheduleInv, RunsOK
  <2>3. CASE open = {}
    BY <2>1, <2>2, <2>3, FS_Subset, FS_CardinalityType
  <2>4. CASE open # {}
    <3> PICK o \in Occurrences : PlanOf(o) = p /\ occurrence[o] = "queued"
      BY <2>4
    <3>1. open = {o} /\ Cardinality(FinishedOf(p)) < MaxRunsOf[p]
      BY DEF ScheduleInv, RunsOK
    <3>2. o \notin FinishedOf(p)
      BY DEF FinishedOf
    <3>3. /\ IsFiniteSet(FinishedOf(p) \cup {o})
          /\ Cardinality(FinishedOf(p) \cup {o}) = Cardinality(FinishedOf(p)) + 1
      BY <2>2, <3>2, FS_AddElement
    <3>4. /\ IsFiniteSet(begun) /\ Cardinality(begun) \in Nat
          /\ Cardinality(begun) <= Cardinality(FinishedOf(p) \cup {o})
      BY <2>1, <3>1, <3>3, FS_Subset, FS_CardinalityType
    <3> QED  BY <2>2, <3>1, <3>3, <3>4
  <2> QED  BY <2>3, <2>4
<1> QED  BY <1>1, ScheduleInvariance, PTL

\* An occurrence is started at most once, and a manual request starts at most
\* one over all revisions (scheduler.ts:555-564, 604-607).
THEOREM OccurrencesRunOnceHolds == ScheduleSpec => []OccurrencesRunOnce
<1>1. ScheduleInv => OccurrencesRunOnce
  <2> SUFFICES ASSUME ScheduleInv, NEW p \in Plans, NEW op \in Requested
               PROVE  Cardinality(Starts({<<p, n, op>> : n \in 1..MaxRevision})) <= 1
    BY DEF OccurrencesRunOnce, ScheduleInv, WorkOK
  <2> DEFINE begun == Starts({<<p, n, op>> : n \in 1..MaxRevision})
  <2>1. begun \subseteq {receipt[<<p, op>>]}
    <3> SUFFICES ASSUME NEW n \in 1..MaxRevision, started[<<p, n, op>>] > 0
                 PROVE  receipt[<<p, op>>] = <<p, n, op>>
      BY DEF Starts
    <3>1. <<p, n, op>> \in Occurrences
      BY Triple
    <3> QED  BY <3>1 DEF ScheduleInv, WorkOK, ReceiptsOK, Taken
  <2>2. /\ IsFiniteSet({receipt[<<p, op>>]}) /\ Cardinality({receipt[<<p, op>>]}) = 1
    BY FS_Singleton
  <2>3. Cardinality(begun) <= Cardinality({receipt[<<p, op>>]})
    BY <2>1, <2>2, FS_Subset
  <2> QED  BY <2>2, <2>3
<1> QED  BY <1>1, ScheduleInvariance, PTL

\* The cursor passes no slot of an active schedule unseen (scheduler.ts:635-642).
THEOREM CursorFollowsAdmissionHolds == ScheduleSpec => []CursorFollowsAdmission
<1>1. ScheduleInv => CursorFollowsAdmission
  BY DEF ScheduleInv, CursorOK, CursorFollowsAdmission, Due, Seen
<1> QED  BY <1>1, ScheduleInvariance, PTL

-----------------------------------------------------------------------------
(***************************************************************************)
(* Change obligations.  A debt is carried by an open cause of its          *)
(* partition.  The inductive invariant says that open edits are causes of  *)
(* all their files and keep all stages pending (CausesOK), and that a file *)
(* which differs from the graph has an open cause that found it as the     *)
(* graph has it (OwedOK): the edit that led away from the graph.  That     *)
(* edit can neither be found without effect while the file still differs,  *)
(* nor be forgotten.                                                       *)
(***************************************************************************)
Unresolved(e) == obligation[e] \in {"intent", "unknown"}
OpenCause(c, f) == c \in partition[f].causes /\ ~Closed(c)

CausesOK ==
  \A f \in SourceFiles, e \in Edits :
    /\ e \in partition[f].causes => f \in Scope(e) /\ obligation[e] # "absent"
    /\ f \in Scope(e) /\ obligation[e] # "absent" /\ ~Closed(e) => e \in partition[f].causes
    /\ OpenCause(e, f) => partition[f].pending = Stages

HeldOK ==
  /\ \A e \in recovering : Unresolved(e)
  /\ editing # NoEdit =>
       /\ recovering = {} /\ obligation[editing] = "intent"
       /\ unwritten \subseteq Scope(editing)
       /\ \A f \in unwritten : foreign[f] = 0 => source[f] = before[editing][f]

OwedOK ==
  \A f \in SourceFiles :
    source[f] # graphed[f] /\ foreign[f] = 0 =>
      \E c \in Edits : OpenCause(c, f) /\ before[c][f] = graphed[f]

OnceOK ==
  \A e \in Edits, f \in SourceFiles :
    /\ written[e][f] <= 1
    /\ obligation[e] = "absent" \/ (editing = e /\ f \in unwritten) => written[e][f] = 0

DigestOK ==
  \A f \in SourceFiles :
    digesting = f =>
      /\ stage[f].phase \in {"queued", "running"}
      /\ stage[f].generation = partition[f].generation =>
           /\ \A c \in partition[f].causes : Closed(c)
           /\ stage[f].phase = "running" => stage[f].input = graphed[f]

SourceInv ==
  /\ SourceTypeOK /\ CausesOK /\ HeldOK /\ OwedOK /\ OnceOK /\ DigestOK
  /\ StagesFollowTheGraph

-----------------------------------------------------------------------------
LEMMA Edited ==
  ASSUME NEW e \in Edits
  PROVE  /\ Scope(e) \subseteq SourceFiles
         /\ \A f \in Scope(e) : Intended[e][f] \in SourceContents
         /\ e # NoEdit
  BY EditsAssumption DEF Scope

LEMMA SourceInitInv == SourceInit => SourceInv
<1> SUFFICES ASSUME SourceInit  PROVE SourceInv
  OBVIOUS
<1> USE DEF SourceInit
<1>1. SourceTypeOK
  BY EditsAssumption DEF SourceTypeOK, ObligationStates, Partitions, Stages, StageRecords
<1>2. CausesOK
  BY DEF CausesOK, OpenCause
<1>3. HeldOK /\ OwedOK /\ OnceOK
  BY DEF HeldOK, OwedOK, OnceOK
<1>4. DigestOK
  BY EditsAssumption DEF DigestOK
<1>5. StagesFollowTheGraph
  BY DEF StagesFollowTheGraph
<1> QED  BY <1>1, <1>2, <1>3, <1>4, <1>5 DEF SourceInv

-----------------------------------------------------------------------------
(***************************************************************************)
(* What a publication of the two ledger files does                         *)
(***************************************************************************)
LEMMA DirtyFacts ==
  ASSUME NEW p \in Partitions, NEW e \in Edits, NEW s \in ObligationStates
  PROVE  /\ Dirty(p, e, s) \in Partitions
         /\ p.generation <= Dirty(p, e, s).generation
         /\ Dirty(p, e, s).generation = p.generation => e \in p.causes \/ s = "failed"
         /\ s # "failed" => e \in Dirty(p, e, s).causes /\ Dirty(p, e, s).pending = Stages
         /\ s = "failed" => /\ e \notin Dirty(p, e, s).causes
                            /\ Dirty(p, e, s).pending \in {p.pending, {}}
                            /\ Dirty(p, e, s).causes # {} => Dirty(p, e, s).pending = p.pending
         /\ \A c \in Edits \ {e} : /\ c \in Dirty(p, e, s).causes => c \in p.causes
                                   /\ c \in p.causes /\ ~Closed(c) => c \in Dirty(p, e, s).causes
<1> DEFINE causes == IF e \notin p.causes THEN {c \in p.causes : ~Closed(c)} ELSE p.causes
           n == IF e \notin p.causes THEN p.generation + 1 ELSE p.generation
           left == IF causes \ {e} = {} THEN {} ELSE p.pending
<1>1. /\ p = [generation |-> p.generation, causes |-> p.causes, pending |-> p.pending, running |-> p.running]
      /\ p.causes \subseteq Edits /\ p.generation \in Nat /\ p.pending \subseteq Stages /\ p.running \in Nat
  BY DEF Partitions
<1>2. /\ causes \subseteq p.causes
      /\ \A c \in p.causes : ~Closed(c) => c \in causes
      /\ n \in Nat /\ p.generation <= n /\ (n = p.generation => e \in p.causes)
      /\ left \in {p.pending, {}} /\ (causes \ {e} # {} => left = p.pending)
  BY <1>1
<1>3. CASE s # "failed"
  <2>1. Dirty(p, e, s) = [generation |-> n, causes |-> causes \cup {e}, pending |-> Stages, running |-> p.running]
    BY <1>1, <1>3 DEF Dirty
  <2> HIDE DEF causes, n
  <2>2. Dirty(p, e, s) \in Partitions
    BY <1>1, <1>2, <2>1 DEF Partitions
  <2> QED  BY <1>2, <1>3, <2>1, <2>2
<1>4. CASE s = "failed"
  <2>1. Dirty(p, e, s) = [generation |-> p.generation, causes |-> causes \ {e}, pending |-> left, running |-> p.running]
    BY <1>1, <1>4 DEF Dirty
  <2> HIDE DEF causes, left
  <2>2. Dirty(p, e, s) \in Partitions
    BY <1>1, <1>2, <2>1 DEF Partitions
  <2> QED  BY <1>1, <1>2, <1>4, <2>1, <2>2
<1> QED  BY <1>3, <1>4

LEMMA SaveFacts ==
  ASSUME SourceTypeOK, NEW e \in Edits, NEW s \in ObligationStates, Save(e, s)
  PROVE  /\ obligation' \in [Edits -> ObligationStates]
         /\ obligation'[e] = s /\ \A c \in Edits \ {e} : obligation'[c] = obligation[c]
         /\ partition' \in [SourceFiles -> Partitions]
         /\ \A f \in SourceFiles : partition[f].generation <= partition'[f].generation
         /\ \A f \in SourceFiles \ Scope(e) : partition'[f] = partition[f]
         /\ \A f \in Scope(e) : partition'[f] = Dirty(partition[f], e, s)
         /\ discarded' \subseteq SourceFiles
<1>1. Scope(e) \subseteq SourceFiles /\ \A f \in SourceFiles : partition[f] \in Partitions
  BY Edited DEF SourceTypeOK
<1>2. \A f \in SourceFiles : partition'[f] = IF f \in Scope(e) THEN Dirty(partition[f], e, s) ELSE partition[f]
  BY DEF Save
<1>3. \A f \in SourceFiles : partition'[f] \in Partitions /\ partition[f].generation <= partition'[f].generation
  <2> TAKE f \in SourceFiles
  <2>1. CASE f \in Scope(e)
    BY <1>1, <1>2, <2>1, DirtyFacts
  <2>2. CASE f \notin Scope(e)
    BY <1>1, <1>2, <2>2 DEF Partitions
  <2> QED  BY <2>1, <2>2
<1>4. partition' \in [SourceFiles -> Partitions]
  <2>1. partition' = [f \in SourceFiles |-> partition'[f]]
    BY DEF Save
  <2> QED  BY <1>3, <2>1
<1>5. discarded' \subseteq SourceFiles
  BY <1>1 DEF Save, SourceTypeOK
<1>6. obligation' \in [Edits -> ObligationStates] /\ obligation'[e] = s
      /\ \A c \in Edits \ {e} : obligation'[c] = obligation[c]
  BY DEF Save, SourceTypeOK
<1> QED  BY <1>1, <1>2, <1>3, <1>4, <1>5, <1>6

-----------------------------------------------------------------------------
(***************************************************************************)
(* Type correctness                                                        *)
(***************************************************************************)
LEMMA SavedType ==
  ASSUME SourceTypeOK, NEW e \in Edits, NEW s \in ObligationStates, Save(e, s), UNCHANGED stages
  PROVE  /\ obligation' \in [Edits -> ObligationStates]
         /\ partition' \in [SourceFiles -> Partitions]
         /\ discarded' \subseteq SourceFiles
         /\ \A f \in SourceFiles : stage'[f].generation <= partition'[f].generation
<1>1. \A f \in SourceFiles : /\ stage[f].generation \in Nat /\ partition[f].generation \in Nat
                             /\ stage[f].generation <= partition[f].generation
  BY DEF SourceTypeOK, StageRecords, Partitions
<1>2. /\ partition' \in [SourceFiles -> Partitions]
      /\ \A f \in SourceFiles : partition[f].generation <= partition'[f].generation
  BY SaveFacts
<1>3. \A f \in SourceFiles : partition'[f].generation \in Nat
  BY <1>2 DEF Partitions
<1>4. \A f \in SourceFiles : stage'[f].generation <= partition'[f].generation
  BY <1>1, <1>2, <1>3 DEF stages
<1> QED  BY <1>2, <1>4, SaveFacts

LEMMA IntendType ==
  ASSUME SourceTypeOK, NEW e \in Edits, Intend(e)  PROVE SourceTypeOK'
<1> USE DEF Intend, daemon, stages
<1>1. "intent" \in ObligationStates /\ Save(e, "intent")
  BY DEF ObligationStates
<1>2. /\ obligation' \in [Edits -> ObligationStates]
      /\ partition' \in [SourceFiles -> Partitions]
      /\ discarded' \subseteq SourceFiles
      /\ \A f \in SourceFiles : stage'[f].generation <= partition'[f].generation
  BY <1>1, SavedType
<1>3. before' \in [Edits -> [SourceFiles -> SourceContents]] /\ later' \in [Edits -> SUBSET Edits]
  BY DEF SourceTypeOK
<1>4. /\ editing' \in Edits \cup {NoEdit} /\ unwritten' \subseteq SourceFiles
      /\ step' \in {"idle", "intent", "apply", "record", "failing"}
      /\ editing' = NoEdit <=> step' = "idle"
  BY Edited DEF SourceTypeOK, active
<1>5. mishaps' \in Nat
  BY DEF SourceTypeOK, Mishap
<1> QED  BY <1>2, <1>3, <1>4, <1>5 DEF SourceTypeOK

LEMMA SettleType ==
  ASSUME SourceTypeOK, Record \/ LeaveUnknown \/ \E e \in Edits : RecoverEffect(e)
  PROVE  SourceTypeOK'
<1> USE DEF stages
<1>1. /\ obligation' \in [Edits -> ObligationStates]
      /\ partition' \in [SourceFiles -> Partitions]
      /\ discarded' \subseteq SourceFiles
      /\ \A f \in SourceFiles : stage'[f].generation <= partition'[f].generation
  <2>1. CASE UNCHANGED <<obligation, partition, discarded, stages>>
    BY <2>1 DEF SourceTypeOK
  <2>2. CASE \E e \in Edits, s \in ObligationStates : Save(e, s) /\ UNCHANGED stages
    BY <2>2, SavedType
  <2>3. CASE Record
    <3>1. editing \in Edits
      BY <2>3 DEF Record, SourceTypeOK
    <3> QED  BY <2>2, <2>3, <3>1 DEF Record, ObligationStates
  <2>4. CASE LeaveUnknown
    <3>1. editing \in Edits
      BY <2>4 DEF LeaveUnknown, SourceTypeOK
    <3> QED  BY <2>1, <2>2, <2>4, <3>1 DEF LeaveUnknown, ObligationStates
  <2>5. CASE \E e \in Edits : RecoverEffect(e)
    BY <2>1, <2>2, <2>5 DEF RecoverEffect, ObligationStates
  <2> QED  BY <2>3, <2>4, <2>5
<1>2. /\ editing' \in Edits \cup {NoEdit} /\ unwritten' \subseteq SourceFiles
      /\ step' \in {"idle", "intent", "apply", "record", "failing"}
      /\ editing' = NoEdit <=> step' = "idle"
      /\ mishaps' \in Nat /\ restarted' \in Nat /\ recovering' \subseteq Edits
  BY DEF SourceTypeOK, Record, LeaveUnknown, RecoverEffect, active, daemon, Mishap
<1>3. UNCHANGED <<source, before, later, stages, foreign, written, graphed, enriched>>
  BY DEF Record, LeaveUnknown, RecoverEffect
<1> QED  BY <1>1, <1>2, <1>3 DEF SourceTypeOK

LEMMA WorkType ==
  ASSUME SourceTypeOK, HeldOK,
         \/ Recheck \/ ApplyThrows \/ Restart
         \/ \E f \in SourceFiles : WriteFile(f) \/ \E c \in SourceContents : ForeignEdit(f, c)
  PROVE  SourceTypeOK'
<1> USE DEF SourceTypeOK, durable, active, daemon, stages, witness
<1>1. CASE Recheck \/ ApplyThrows
  BY <1>1 DEF Recheck, ApplyThrows
<1>2. CASE Restart
  <2>1. \A f \in SourceFiles : /\ stage'[f] \in StageRecords
                               /\ stage'[f].generation = stage[f].generation
    BY <1>2 DEF Restart, StageRecords
  <2>2. stage' \in [SourceFiles -> StageRecords]
    BY <1>2, <2>1 DEF Restart
  <2> QED  BY <1>2, <2>1, <2>2 DEF Restart
<1>3. CASE \E f \in SourceFiles : WriteFile(f)
  <2> PICK f \in SourceFiles : WriteFile(f)
    BY <1>3
  <2>1. editing \in Edits
    BY DEF WriteFile
  <2>2. Intended[editing][f] \in SourceContents
    BY <2>1, Edited DEF WriteFile, HeldOK
  <2>3. written' \in [Edits -> [SourceFiles -> Nat]]
    BY <2>1 DEF WriteFile
  <2> QED  BY <2>1, <2>2, <2>3 DEF WriteFile
<1>4. CASE \E f \in SourceFiles, c \in SourceContents : ForeignEdit(f, c)
  BY <1>4 DEF ForeignEdit
<1> QED  BY <1>1, <1>2, <1>3, <1>4

LEMMA StageType ==
  ASSUME SourceTypeOK, NEW f \in SourceFiles, ClaimStage(f) \/ RunStage(f) \/ FinishStage(f)
  PROVE  SourceTypeOK'
<1>1. /\ partition[f] \in Partitions /\ stage[f] \in StageRecords
      /\ stage[f].generation <= partition[f].generation /\ graphed[f] \in SourceContents
  BY DEF SourceTypeOK
<1>2. CASE ClaimStage(f)
  <2>1. \A phase \in {"over", "queued"} :
          stage' = Recorded(f, phase) =>
            /\ stage' \in [SourceFiles -> StageRecords]
            /\ stage'[f].generation = partition[f].generation
            /\ \A g \in SourceFiles \ {f} : stage'[g] = stage[g]
    BY <1>1 DEF Recorded, NextStage, StageRecords, Partitions, SourceTypeOK
  <2>2. /\ stage' \in [SourceFiles -> StageRecords]
        /\ stage'[f].generation <= partition[f].generation
        /\ \A g \in SourceFiles \ {f} : stage'[g] = stage[g]
    BY <1>1, <1>2, <2>1 DEF ClaimStage, SourceTypeOK, Partitions
  <2> DEFINE claimed == [partition[f] EXCEPT !.running = partition[f].generation]
  <2>3. UNCHANGED partition \/ partition' = [partition EXCEPT ![f] = claimed]
    BY <1>1, <1>2 DEF ClaimStage, SourceTypeOK
  <2>4. claimed \in Partitions /\ claimed.generation = partition[f].generation
    BY <1>1 DEF Partitions
  <2> HIDE DEF claimed
  <2>5. /\ partition' \in [SourceFiles -> Partitions]
        /\ \A g \in SourceFiles : partition'[g].generation = partition[g].generation
    BY <2>3, <2>4 DEF SourceTypeOK
  <2> QED  BY <1>2, <2>2, <2>5 DEF ClaimStage, SourceTypeOK, active, daemon, witness
<1>3. CASE RunStage(f)
  <2> DEFINE underway == [stage[f] EXCEPT !.phase = "running", !.input = graphed[f]]
  <2>1. UNCHANGED stage \/ stage' = [stage EXCEPT ![f] = underway]
    BY <1>3, <1>1 DEF RunStage, SourceTypeOK
  <2>2. underway \in StageRecords /\ underway.generation = stage[f].generation
    BY <1>1 DEF StageRecords
  <2> HIDE DEF underway
  <2>3. /\ stage' \in [SourceFiles -> StageRecords]
        /\ \A g \in SourceFiles : stage'[g].generation = stage[g].generation
    BY <2>1, <2>2 DEF SourceTypeOK
  <2> QED  BY <1>3, <2>3 DEF RunStage, SourceTypeOK, durable, active, daemon, witness
<1>4. CASE FinishStage(f)
  <2> PICK outcome \in {"complete", "over", "blocked", "stuck"} :
        /\ partition' = [partition EXCEPT ![f] =
             [partition[f] EXCEPT
               !.running = IF @ = stage[f].generation /\ outcome # "stuck" THEN 0 ELSE @,
               !.pending = IF outcome = "complete" /\ CoversPartition(f) THEN @ \ {stage[f].stage} ELSE @]]
        /\ stage' = [stage EXCEPT ![f].phase = IF outcome = "complete" THEN "over" ELSE outcome]
        /\ enriched' = IF outcome = "complete" /\ CoversPartition(f) /\ stage[f].stage = "enrichment"
                       THEN [enriched EXCEPT ![f] = stage[f].input] ELSE enriched
    BY <1>4 DEF FinishStage
  <2> DEFINE left == [partition[f] EXCEPT
               !.running = IF @ = stage[f].generation /\ outcome # "stuck" THEN 0 ELSE @,
               !.pending = IF outcome = "complete" /\ CoversPartition(f) THEN @ \ {stage[f].stage} ELSE @]
             phase == IF outcome = "complete" THEN "over" ELSE outcome
  <2>1. left \in Partitions /\ left.generation = partition[f].generation
    BY <1>1 DEF Partitions
  <2>2. [stage[f] EXCEPT !.phase = phase] \in StageRecords
    BY <1>1 DEF StageRecords
  <2>3. /\ stage' \in [SourceFiles -> StageRecords]
        /\ \A g \in SourceFiles : stage'[g].generation = stage[g].generation
    BY <2>2 DEF SourceTypeOK
  <2>4. /\ partition' \in [SourceFiles -> Partitions]
        /\ \A g \in SourceFiles : partition'[g].generation = partition[g].generation
    <3> HIDE DEF left
    <3> QED  BY <2>1 DEF SourceTypeOK, left
  <2>5. enriched' \in [SourceFiles -> SourceContents]
    BY <1>1 DEF SourceTypeOK, StageRecords
  <2> QED  BY <1>4, <2>3, <2>4, <2>5 DEF FinishStage, SourceTypeOK, active, daemon
<1> QED  BY <1>2, <1>3, <1>4

LEMMA ReconcileType ==
  ASSUME SourceTypeOK, NEW S \in SUBSET Edits, Reconcile(S)
  PROVE  SourceTypeOK'
<1>1. obligation' \in [Edits -> ObligationStates]
  BY DEF Reconcile, SourceTypeOK, ObligationStates
<1>2. graphed' \in [SourceFiles -> SourceContents]
  BY DEF Reconcile, SourceTypeOK
<1>3. \A f \in SourceFiles : partition'[f] \in {partition[f], [partition[f] EXCEPT !.pending = @ \ {"reconciliation"}]}
  BY DEF Reconcile
<1>4. \A f \in SourceFiles : /\ partition'[f] \in Partitions
                             /\ partition'[f].generation = partition[f].generation
  <2> TAKE f \in SourceFiles
  <2>1. partition[f] \in Partitions
    BY DEF SourceTypeOK
  <2>2. /\ [partition[f] EXCEPT !.pending = @ \ {"reconciliation"}] \in Partitions
        /\ [partition[f] EXCEPT !.pending = @ \ {"reconciliation"}].generation = partition[f].generation
    BY <2>1 DEF Partitions
  <2> QED  BY <1>3, <2>1, <2>2
<1>5. partition' \in [SourceFiles -> Partitions]
  <2>1. partition' = [f \in SourceFiles |-> partition'[f]]
    BY DEF Reconcile
  <2> QED  BY <1>4, <2>1
<1> QED  BY <1>1, <1>2, <1>4, <1>5 DEF Reconcile, SourceTypeOK, active, daemon, stages

LEMMA SourceTypeStep ==
  ASSUME SourceTypeOK, HeldOK, [SourceNext]_svars
  PROVE  SourceTypeOK'
<1>1. CASE SourceNext
  BY <1>1, IntendType, SettleType, WorkType, StageType, ReconcileType DEF SourceNext
<1>2. CASE UNCHANGED svars
  BY <1>2 DEF SourceTypeOK, svars, durable, active, daemon, stages, witness
<1> QED  BY <1>1, <1>2

-----------------------------------------------------------------------------
(***************************************************************************)
(* Saving an obligation: a new intent, or the end of an unresolved one     *)
(***************************************************************************)
Saves(e, s) ==
  /\ Save(e, s)
  /\ s \in {"intent", "unknown", "reconciliation_pending", "failed"}
  /\ \/ obligation[e] = "absent" /\ s = "intent" /\ \A c \in Edits \ {e} : before'[c] = before[c]
     \/ Unresolved(e) /\ UNCHANGED before
  /\ s = "failed" => \A f \in Scope(e) : source[f] = before[e][f]
  /\ UNCHANGED <<source, graphed, enriched, foreign, stages>>

LEMMA SavesFacts ==
  ASSUME SourceTypeOK, NEW e \in Edits, NEW s, Saves(e, s)
  PROVE  /\ s \in ObligationStates /\ ~Closed(e)
         /\ obligation'[e] = s /\ \A c \in Edits \ {e} : obligation'[c] = obligation[c]
         /\ \A f \in SourceFiles \ Scope(e) : partition'[f] = partition[f]
         /\ \A f \in SourceFiles : f \in Scope(e) =>
              /\ partition[f].generation <= partition'[f].generation
              /\ partition'[f].generation = partition[f].generation => e \in partition[f].causes \/ s = "failed"
              /\ s # "failed" => e \in partition'[f].causes /\ partition'[f].pending = Stages
              /\ s = "failed" => /\ e \notin partition'[f].causes
                                 /\ partition'[f].pending \in {partition[f].pending, {}}
                                 /\ partition'[f].causes # {} => partition'[f].pending = partition[f].pending
              /\ \A c \in Edits \ {e} :
                   /\ c \in partition'[f].causes => c \in partition[f].causes
                   /\ c \in partition[f].causes /\ ~Closed(c) => c \in partition'[f].causes
<1>1. s \in ObligationStates /\ ~Closed(e) /\ Save(e, s)
  BY DEF Saves, ObligationStates, Unresolved, Closed
<1>2. \A f \in SourceFiles : partition[f] \in Partitions
  BY DEF SourceTypeOK
<1>3. /\ obligation'[e] = s /\ \A c \in Edits \ {e} : obligation'[c] = obligation[c]
      /\ \A f \in SourceFiles \ Scope(e) : partition'[f] = partition[f]
      /\ \A f \in Scope(e) : partition'[f] = Dirty(partition[f], e, s)
  BY <1>1, SaveFacts
<1>4. ASSUME NEW f \in SourceFiles, f \in Scope(e)
      PROVE  /\ partition[f].generation <= partition'[f].generation
             /\ partition'[f].generation = partition[f].generation => e \in partition[f].causes \/ s = "failed"
             /\ s # "failed" => e \in partition'[f].causes /\ partition'[f].pending = Stages
             /\ s = "failed" => /\ e \notin partition'[f].causes
                                /\ partition'[f].pending \in {partition[f].pending, {}}
                                /\ partition'[f].causes # {} => partition'[f].pending = partition[f].pending
             /\ \A c \in Edits \ {e} : /\ c \in partition'[f].causes => c \in partition[f].causes
                                       /\ c \in partition[f].causes /\ ~Closed(c) => c \in partition'[f].causes
  <2>1. partition[f] \in Partitions /\ partition'[f] = Dirty(partition[f], e, s)
    BY <1>2, <1>3, <1>4
  <2>2. s \in ObligationStates
    BY <1>1
  <2> QED  BY <2>1, <2>2, DirtyFacts
<1> QED  BY <1>1, <1>3, <1>4

LEMMA SavesCauses ==
  ASSUME SourceTypeOK, CausesOK, NEW e \in Edits, NEW s, Saves(e, s)
  PROVE  CausesOK'
<1> SUFFICES ASSUME NEW f \in SourceFiles, NEW c \in Edits
             PROVE  /\ c \in partition'[f].causes => f \in Scope(c) /\ obligation'[c] # "absent"
                    /\ f \in Scope(c) /\ obligation'[c] # "absent" /\ ~Closed(c)' => c \in partition'[f].causes
                    /\ OpenCause(c, f)' => partition'[f].pending = Stages
  BY DEF CausesOK, Scope
<1> USE DEF Closed, OpenCause
<1>1. s \in {"intent", "unknown", "reconciliation_pending", "failed"}
  BY DEF Saves
<1>2. /\ c \in partition[f].causes => f \in Scope(c) /\ obligation[c] # "absent"
      /\ f \in Scope(c) /\ obligation[c] # "absent" /\ ~Closed(c) => c \in partition[f].causes
      /\ OpenCause(c, f) => partition[f].pending = Stages
  BY DEF CausesOK
<1>3. CASE f \notin Scope(e)
  <2>1. partition'[f] = partition[f]
    BY <1>3, SavesFacts
  <2>2. CASE c = e
    BY <1>2, <1>3, <2>1, <2>2
  <2>3. CASE c # e
    BY <1>2, <2>1, <2>3, SavesFacts
  <2> QED  BY <2>2, <2>3
<1>4. CASE f \in Scope(e) /\ c = e
  BY <1>1, <1>4, SavesFacts
<1>5. CASE f \in Scope(e) /\ c # e
  <2>1. obligation'[c] = obligation[c]
    BY <1>5, SavesFacts
  <2>2. /\ c \in partition'[f].causes => c \in partition[f].causes
        /\ c \in partition[f].causes /\ ~Closed(c) => c \in partition'[f].causes
    BY <1>5, SavesFacts
  <2>3. c \in partition'[f].causes => partition'[f].pending \in {partition[f].pending, Stages}
    BY <1>5, SavesFacts
  <2> QED  BY <1>2, <2>1, <2>2, <2>3
<1> QED  BY <1>3, <1>4, <1>5

LEMMA SavesOwed ==
  ASSUME SourceTypeOK, CausesOK, OwedOK, NEW e \in Edits, NEW s, Saves(e, s)
  PROVE  OwedOK'
<1> SUFFICES ASSUME NEW f \in SourceFiles, source[f] # graphed[f], foreign[f] = 0
             PROVE  \E c \in Edits : OpenCause(c, f)' /\ before'[c][f] = graphed[f]
  BY DEF OwedOK, Saves
<1> PICK c \in Edits : OpenCause(c, f) /\ before[c][f] = graphed[f]
  BY DEF OwedOK
<1> USE DEF OpenCause, Closed
<1>1. f \in Scope(c) /\ obligation[c] # "absent"
  BY DEF CausesOK
<1>2. CASE c # e
  <2>1. before'[c] = before[c] /\ obligation'[c] = obligation[c]
    BY <1>2, SavesFacts DEF Saves
  <2>2. c \in partition'[f].causes
    <3>1. CASE f \in Scope(e)
      BY <1>2, <3>1, SavesFacts
    <3>2. CASE f \notin Scope(e)
      BY <3>2, SavesFacts
    <3> QED  BY <3>1, <3>2
  <2> QED  BY <2>1, <2>2
<1>3. CASE c = e
  <2>1. UNCHANGED before
    BY <1>1, <1>3 DEF Saves
  <2>2. s # "failed"
    BY <1>1, <1>3 DEF Saves
  <2>3. obligation'[e] = s /\ e \in partition'[f].causes
    BY <1>1, <1>3, <2>2, SavesFacts
  <2>4. s \notin {"graph_committed", "failed"}
    BY <2>2 DEF Saves
  <2> QED  BY <1>3, <2>1, <2>3, <2>4
<1> QED  BY <1>2, <1>3

LEMMA SavesDigest ==
  ASSUME SourceTypeOK, CausesOK, DigestOK, NEW e \in Edits, NEW s, Saves(e, s)
  PROVE  DigestOK'
<1> SUFFICES ASSUME NEW f \in SourceFiles, digesting = f
             PROVE  /\ stage[f].phase \in {"queued", "running"}
                    /\ stage[f].generation = partition'[f].generation =>
                         /\ \A c \in partition'[f].causes : Closed(c)'
                         /\ stage[f].phase = "running" => stage[f].input = graphed[f]
  BY DEF DigestOK, Saves, stages
<1> USE DEF Closed
<1>1. /\ stage[f].phase \in {"queued", "running"}
      /\ stage[f].generation = partition[f].generation =>
           /\ \A c \in partition[f].causes : Closed(c)
           /\ stage[f].phase = "running" => stage[f].input = graphed[f]
  BY DEF DigestOK
<1>2. ~Closed(e) /\ obligation'[e] = s /\ \A c \in Edits \ {e} : obligation'[c] = obligation[c]
  BY SavesFacts
<1>3. CASE f \notin Scope(e)
  <2>1. partition'[f] = partition[f] /\ e \notin partition[f].causes /\ partition[f].causes \subseteq Edits
    BY <1>3, SavesFacts DEF CausesOK, SourceTypeOK, Partitions
  <2> QED  BY <1>1, <1>2, <2>1
<1>4. CASE f \in Scope(e)
  <2>1. stage[f].generation = partition'[f].generation => stage[f].generation = partition[f].generation
    <3>1. stage[f].generation \in Nat /\ partition[f].generation \in Nat
          /\ stage[f].generation <= partition[f].generation
      BY DEF SourceTypeOK, StageRecords, Partitions
    <3>2. partition[f].generation <= partition'[f].generation
      BY <1>4, SavesFacts
    <3> QED  BY <3>1, <3>2
  <2>2. stage[f].generation = partition'[f].generation => e \in partition[f].causes
    <3>1. CASE s = "failed"
      BY <1>2, <1>4, <3>1 DEF Saves, CausesOK, Unresolved
    <3>2. CASE s # "failed"
      BY <1>4, <2>1, <3>2, SavesFacts
    <3> QED  BY <3>1, <3>2
  <2> QED  BY <1>1, <1>2, <2>1, <2>2
<1> QED  BY <1>3, <1>4

LEMMA SavesStages ==
  ASSUME SourceTypeOK, CausesOK, StagesFollowTheGraph, NEW e \in Edits, NEW s, Saves(e, s)
  PROVE  StagesFollowTheGraph'
<1> SUFFICES ASSUME NEW f \in SourceFiles, f \notin discarded', Through(f)'
             PROVE  enriched[f] = graphed[f]
  BY DEF StagesFollowTheGraph, Saves
<1> USE DEF Through
<1>1. CASE f \notin Scope(e)
  BY <1>1, SavesFacts DEF StagesFollowTheGraph, Saves, Save
<1>2. CASE f \in Scope(e)
  <2>1. s = "failed"
    BY <1>2, SavesFacts DEF Stages
  <2>2. partition[f].pending = Stages
    BY <1>2, <2>1, SavesFacts DEF Saves, CausesOK, OpenCause, Unresolved
  <2>3. partition'[f].pending = {}
    BY <1>2, <2>1, <2>2, SavesFacts DEF Stages
  <2> QED  BY <1>2, <2>1, <2>3 DEF Saves, Save
<1> QED  BY <1>1, <1>2

-----------------------------------------------------------------------------
(***************************************************************************)
(* The steps that save                                                     *)
(***************************************************************************)
LEMMA SavingStep ==
  ASSUME SourceInv, \/ \E e \in Edits : Intend(e) \/ RecoverEffect(e)
               \/ Record \/ LeaveUnknown
  PROVE  \/ \E e \in Edits, s \in ObligationStates : Saves(e, s)
         \/ UNCHANGED <<source, obligation, before, partition, stages, foreign, graphed, enriched, discarded>>
<1> USE DEF SourceInv, Saves
<1>1. ASSUME NEW e \in Edits, Intend(e)  PROVE Saves(e, "intent")
  BY <1>1 DEF Intend, IsNew, SourceTypeOK
<1>2. ASSUME NEW e \in Edits, RecoverEffect(e)
      PROVE  \/ \E s \in ObligationStates : Saves(e, s)
             \/ UNCHANGED <<source, obligation, before, partition, stages, foreign, graphed, enriched, discarded>>
  <2>1. Unresolved(e)
    BY <1>2 DEF RecoverEffect, HeldOK
  <2> QED  BY <1>2, <2>1 DEF RecoverEffect, ObligationStates
<1>3. ASSUME Record  PROVE \E e \in Edits, s \in ObligationStates : Saves(e, s)
  <2>1. editing \in Edits /\ Unresolved(editing)
    BY <1>3 DEF Record, SourceTypeOK, HeldOK, Unresolved
  <2>2. HasNoEffect(editing) => \A f \in Scope(editing) : source[f] = before[editing][f]
    BY <1>3 DEF Record, HasNoEffect
  <2>3. Saves(editing, IF HasNoEffect(editing) THEN "failed" ELSE "reconciliation_pending")
    BY <1>3, <2>1, <2>2 DEF Record
  <2> QED  BY <2>1, <2>3 DEF ObligationStates
<1>4. ASSUME LeaveUnknown
      PROVE  \/ \E e \in Edits, s \in ObligationStates : Saves(e, s)
             \/ UNCHANGED <<source, obligation, before, partition, stages, foreign, graphed, enriched, discarded>>
  <2>1. editing \in Edits /\ Unresolved(editing)
    BY <1>4 DEF LeaveUnknown, SourceTypeOK, HeldOK, Unresolved
  <2>2. CASE Save(editing, "unknown")
    <3>1. Saves(editing, "unknown")
      BY <1>4, <2>1, <2>2 DEF LeaveUnknown
    <3> QED  BY <2>1, <3>1 DEF ObligationStates
  <2>3. CASE UNCHANGED <<obligation, partition, discarded>>
    BY <1>4, <2>3 DEF LeaveUnknown
  <2> QED  BY <1>4, <2>2, <2>3 DEF LeaveUnknown
<1> QED  BY <1>1, <1>2, <1>3, <1>4 DEF ObligationStates

LEMMA SavingInv ==
  ASSUME SourceInv, \/ \E e \in Edits : Intend(e) \/ RecoverEffect(e)
               \/ Record \/ LeaveUnknown
  PROVE  CausesOK' /\ OwedOK' /\ DigestOK' /\ StagesFollowTheGraph'
<1>1. CASE \E e \in Edits, s \in ObligationStates : Saves(e, s)
  BY <1>1, SavesCauses, SavesOwed, SavesDigest, SavesStages DEF SourceInv
<1>2. CASE UNCHANGED <<source, obligation, before, partition, stages, foreign, graphed, enriched, discarded>>
  BY <1>2 DEF SourceInv, CausesOK, OwedOK, DigestOK, StagesFollowTheGraph, OpenCause, Closed, Through, Scope, stages
<1> QED  BY <1>1, <1>2, SavingStep

LEMMA SavingHeldOnce ==
  ASSUME SourceInv, \/ \E e \in Edits : Intend(e) \/ RecoverEffect(e)
               \/ Record \/ LeaveUnknown
  PROVE  HeldOK' /\ OnceOK'
<1> USE DEF SourceInv, HeldOK, OnceOK, Unresolved
<1>1. ASSUME NEW e \in Edits, Intend(e)  PROVE HeldOK' /\ OnceOK'
  <2>1. /\ obligation'[e] = "intent" /\ \A c \in Edits \ {e} : obligation'[c] = obligation[c]
        /\ before'[e] = source /\ recovering = {} /\ UNCHANGED <<source, written, foreign, recovering>>
    BY <1>1 DEF Intend, Save, SourceTypeOK, Unheld, daemon
  <2>2. \/ editing' = e /\ unwritten' = Scope(e)
        \/ editing' = NoEdit
    BY <1>1 DEF Intend, Unheld, active
  <2>3. HeldOK'
    BY <2>1, <2>2, Edited DEF Scope
  <2>4. obligation[e] = "absent"
    BY <1>1 DEF Intend, IsNew
  <2>5. OnceOK'
    BY <2>1, <2>2, <2>4, Edited DEF SourceTypeOK
  <2> QED  BY <2>3, <2>5
<1>2. ASSUME NEW e \in Edits, RecoverEffect(e)  PROVE HeldOK' /\ OnceOK'
  <2>1. /\ editing = NoEdit /\ editing' = editing /\ unwritten' = unwritten /\ recovering' = recovering \ {e}
        /\ written' = written /\ recovering \subseteq Edits
    BY <1>2 DEF RecoverEffect, active, SourceTypeOK
  <2>2. /\ \A c \in Edits \ {e} : obligation'[c] = obligation[c]
        /\ obligation'[e] # "absent"
    <3>1. obligation[e] # "absent"
      BY <1>2 DEF RecoverEffect
    <3> QED  BY <1>2, <3>1 DEF RecoverEffect, Save, SourceTypeOK
  <2> QED  BY <2>1, <2>2, Edited
<1>3. ASSUME Record \/ LeaveUnknown  PROVE HeldOK' /\ OnceOK'
  <2>1. /\ editing \in Edits /\ editing # NoEdit /\ editing' = NoEdit /\ recovering = {} /\ recovering' = {}
        /\ written' = written
    BY <1>3, Edited DEF Record, LeaveUnknown, SourceTypeOK, daemon
  <2>2. \A c \in Edits : obligation'[c] = "absent" => obligation[c] = "absent"
    BY <1>3 DEF Record, LeaveUnknown, Save, SourceTypeOK
  <2> QED  BY <2>1, <2>2, Edited
<1> QED  BY <1>1, <1>2, <1>3

-----------------------------------------------------------------------------
(***************************************************************************)
(* The steps in the working tree                                           *)
(***************************************************************************)
LEMMA EditInv ==
  ASSUME SourceInv, Recheck \/ ApplyThrows
  PROVE  CausesOK' /\ HeldOK' /\ OwedOK' /\ OnceOK' /\ DigestOK' /\ StagesFollowTheGraph'
<1>1. UNCHANGED <<source, durable, editing, unwritten, daemon, stages, witness>>
  BY DEF Recheck, ApplyThrows
<1> QED  BY <1>1 DEF SourceInv, CausesOK, HeldOK, OwedOK, OnceOK, DigestOK, StagesFollowTheGraph,
              OpenCause, Closed, Unresolved, Through, Scope, durable, daemon, stages, witness

LEMMA RestartInv ==
  ASSUME SourceInv, Restart
  PROVE  CausesOK' /\ HeldOK' /\ OwedOK' /\ OnceOK' /\ DigestOK' /\ StagesFollowTheGraph'
<1> USE DEF SourceInv, Restart, durable, witness
<1>1. CausesOK' /\ OwedOK' /\ StagesFollowTheGraph'
  BY DEF CausesOK, OwedOK, StagesFollowTheGraph, OpenCause, Closed, Through, Scope
<1>2. HeldOK'
  BY DEF HeldOK, Unresolved
<1>3. OnceOK'
  BY Edited DEF OnceOK
<1>4. DigestOK'
  BY EditsAssumption DEF DigestOK
<1> QED  BY <1>1, <1>2, <1>3, <1>4

LEMMA WriteInv ==
  ASSUME SourceInv, NEW f \in SourceFiles, WriteFile(f)
  PROVE  CausesOK' /\ HeldOK' /\ OwedOK' /\ OnceOK' /\ DigestOK' /\ StagesFollowTheGraph'
<1> USE DEF SourceInv, WriteFile, durable, daemon, stages
<1>1. /\ editing \in Edits /\ editing # NoEdit /\ obligation[editing] = "intent" /\ f \in Scope(editing)
      /\ foreign[f] = 0 => source[f] = before[editing][f]
  BY Edited DEF SourceTypeOK, HeldOK
<1>2. source'[f] = Intended[editing][f] /\ \A g \in SourceFiles \ {f} : source'[g] = source[g]
  BY DEF SourceTypeOK
<1>3. CausesOK' /\ DigestOK' /\ StagesFollowTheGraph'
  BY DEF CausesOK, DigestOK, StagesFollowTheGraph, OpenCause, Closed, Through, Scope
<1>4. HeldOK'
  BY <1>1, <1>2 DEF HeldOK, Unresolved, SourceTypeOK, Scope
<1>5. OwedOK'
  <2> SUFFICES ASSUME NEW g \in SourceFiles, source'[g] # graphed[g], foreign[g] = 0
               PROVE  \E c \in Edits : OpenCause(c, g) /\ before[c][g] = graphed[g]
    BY DEF OwedOK, OpenCause, Closed
  <2>1. CASE source[g] # graphed[g]
    BY <2>1 DEF OwedOK
  <2>2. CASE source[g] = graphed[g]
    <3>1. g = f /\ before[editing][f] = graphed[f]
      BY <1>1, <1>2, <2>2
    <3>2. OpenCause(editing, f)
      BY <1>1 DEF CausesOK, OpenCause, Closed
    <3> QED  BY <1>1, <3>1, <3>2
  <2> QED  BY <2>1, <2>2
<1>6. OnceOK'
  <2>1. written[editing][f] = 0
    BY <1>1 DEF OnceOK
  <2>2. /\ written'[editing][f] = 1
        /\ \A e \in Edits, g \in SourceFiles : e # editing \/ g # f => written'[e][g] = written[e][g]
    BY <1>1, <2>1 DEF SourceTypeOK
  <2>3. f \notin unwritten' /\ unwritten' \subseteq unwritten /\ editing' = editing /\ obligation' = obligation
    OBVIOUS
  <2> SUFFICES ASSUME NEW e \in Edits, NEW g \in SourceFiles
               PROVE  /\ written'[e][g] <= 1
                      /\ obligation'[e] = "absent" \/ (editing' = e /\ g \in unwritten') => written'[e][g] = 0
    BY DEF OnceOK
  <2>4. CASE e = editing /\ g = f
    BY <1>1, <2>2, <2>3, <2>4
  <2>5. CASE e # editing \/ g # f
    BY <2>2, <2>3, <2>5 DEF OnceOK
  <2> QED  BY <2>4, <2>5
<1> QED  BY <1>3, <1>4, <1>5, <1>6

LEMMA ForeignInv ==
  ASSUME SourceInv, NEW f \in SourceFiles, NEW c \in SourceContents, ForeignEdit(f, c)
  PROVE  CausesOK' /\ HeldOK' /\ OwedOK' /\ OnceOK' /\ DigestOK' /\ StagesFollowTheGraph'
<1> USE DEF SourceInv, ForeignEdit, durable, active, daemon, stages
<1>1. /\ foreign'[f] # 0
      /\ \A g \in SourceFiles \ {f} : source'[g] = source[g] /\ foreign'[g] = foreign[g]
  BY DEF SourceTypeOK
<1>2. CausesOK' /\ DigestOK' /\ StagesFollowTheGraph' /\ OnceOK'
  BY DEF CausesOK, DigestOK, StagesFollowTheGraph, OnceOK, OpenCause, Closed, Through, Scope
<1>3. HeldOK'
  BY <1>1 DEF HeldOK, Unresolved, SourceTypeOK, Scope
<1>4. OwedOK'
  BY <1>1 DEF OwedOK, OpenCause, Closed
<1> QED  BY <1>2, <1>3, <1>4

-----------------------------------------------------------------------------
(***************************************************************************)
(* Reconciliation and the stages after it                                  *)
(***************************************************************************)
LEMMA ReconcileInv ==
  ASSUME SourceInv, NEW S \in SUBSET Edits, Reconcile(S)
  PROVE  CausesOK' /\ HeldOK' /\ OwedOK' /\ OnceOK' /\ DigestOK' /\ StagesFollowTheGraph'
<1> USE DEF SourceInv
<1>1. /\ editing = NoEdit /\ recovering = {} /\ UNCHANGED <<source, before, active, daemon, stages>>
      /\ UNCHANGED <<foreign, written, enriched, discarded>>
  BY DEF Reconcile, Unheld
<1>2. \A e \in Edits : obligation'[e] = IF e \in S THEN "graph_committed" ELSE obligation[e]
  BY DEF Reconcile
<1>3. \A e \in S : obligation[e] = "reconciliation_pending"
  BY DEF Reconcile
<1>4. \A f \in SourceFiles :
        graphed'[f] = IF \E e \in S : f \in Scope(e) THEN source[f] ELSE graphed[f]
  BY DEF Reconcile
<1>5. \A f \in SourceFiles : /\ partition'[f].causes = partition[f].causes
                             /\ partition'[f].generation = partition[f].generation
  BY DEF Reconcile, SourceTypeOK, Partitions
<1>6. \A f \in SourceFiles :
        \/ partition'[f] = partition[f]
        \/ /\ partition'[f].pending = partition[f].pending \ {"reconciliation"}
           /\ \E e \in S : f \in Scope(e)
           /\ \A c \in partition[f].causes : ~OpenCause(c, f)'
  <2> TAKE f \in SourceFiles
  <2>1. partition[f].causes \cap S # {} => \E e \in S : f \in Scope(e)
    BY DEF CausesOK
  <2>2. partition[f] \in Partitions
    BY DEF SourceTypeOK
  <2> QED  BY <2>1, <2>2 DEF Reconcile, OpenCause, Closed, Partitions
<1>7. CausesOK'
  BY <1>2, <1>3, <1>5, <1>6 DEF CausesOK, OpenCause, Closed, Scope
<1>8. HeldOK'
  BY <1>1 DEF HeldOK, active, daemon
<1>9. OwedOK'
  BY <1>1, <1>2, <1>4, <1>5 DEF OwedOK, OpenCause, Closed, CausesOK
<1>10. OnceOK'
  BY <1>1, <1>2, Edited DEF OnceOK, active
<1>11. \A f \in SourceFiles, e \in S : f \in Scope(e) => OpenCause(e, f) /\ partition[f].pending = Stages
  BY <1>3 DEF CausesOK, OpenCause, Closed
<1>12. DigestOK'
  BY <1>1, <1>2, <1>4, <1>5, <1>11 DEF DigestOK, OpenCause, Closed, stages, SourceTypeOK, Partitions
<1>13. StagesFollowTheGraph'
  BY <1>1, <1>4, <1>6, <1>11 DEF StagesFollowTheGraph, Through, Stages
<1> QED  BY <1>7, <1>8, <1>9, <1>10, <1>12, <1>13

LEMMA ClaimInv ==
  ASSUME SourceInv, NEW f \in SourceFiles, ClaimStage(f)
  PROVE  CausesOK' /\ HeldOK' /\ OwedOK' /\ OnceOK' /\ DigestOK' /\ StagesFollowTheGraph'
<1> USE DEF SourceInv, active, daemon, witness
<1>1. UNCHANGED <<source, obligation, before, later, active, daemon, witness>>
  BY DEF ClaimStage
<1>2. \A g \in SourceFiles : /\ partition'[g].causes = partition[g].causes
                             /\ partition'[g].generation = partition[g].generation
                             /\ partition'[g].pending = partition[g].pending
  <2>1. \A g \in SourceFiles : partition[g] \in Partitions
    BY DEF SourceTypeOK
  <2> DEFINE claimed == [partition[f] EXCEPT !.running = partition[f].generation]
  <2>2. UNCHANGED partition \/ partition' = [partition EXCEPT ![f] = claimed]
    BY DEF ClaimStage, SourceTypeOK
  <2>3. /\ claimed.causes = partition[f].causes /\ claimed.generation = partition[f].generation
        /\ claimed.pending = partition[f].pending
    BY <2>1 DEF Partitions
  <2> HIDE DEF claimed
  <2> QED  BY <2>2, <2>3 DEF SourceTypeOK
<1>3. CausesOK' /\ HeldOK' /\ OwedOK' /\ OnceOK' /\ StagesFollowTheGraph'
  BY <1>1, <1>2 DEF CausesOK, HeldOK, OwedOK, OnceOK, StagesFollowTheGraph, OpenCause, Closed, Unresolved, Through, Scope
<1>4. \A c \in partition[f].causes : Closed(c)
  BY DEF ClaimStage, CausesOK, OpenCause, SourceTypeOK, Partitions, Stages
<1>5. digesting' = f => stage'[f].phase = "queued"
  BY EditsAssumption DEF ClaimStage, Recorded, SourceTypeOK
<1>6. digesting' \in {f, NoFile}
  BY DEF ClaimStage
<1>7. DigestOK'
  BY <1>1, <1>2, <1>4, <1>5, <1>6, EditsAssumption DEF DigestOK, Closed
<1> QED  BY <1>3, <1>7

LEMMA RunInv ==
  ASSUME SourceInv, NEW f \in SourceFiles, RunStage(f)
  PROVE  CausesOK' /\ HeldOK' /\ OwedOK' /\ OnceOK' /\ DigestOK' /\ StagesFollowTheGraph'
<1> USE DEF SourceInv, RunStage, durable, active, daemon, witness
<1>1. CausesOK' /\ HeldOK' /\ OwedOK' /\ OnceOK' /\ StagesFollowTheGraph'
  BY DEF CausesOK, HeldOK, OwedOK, OnceOK, StagesFollowTheGraph, OpenCause, Closed, Unresolved, Through, Scope
<1>2. DigestOK'
  BY EditsAssumption DEF DigestOK, Closed, SourceTypeOK, StageRecords
<1> QED  BY <1>1, <1>2

LEMMA FinishInv ==
  ASSUME SourceInv, NEW f \in SourceFiles, FinishStage(f)
  PROVE  CausesOK' /\ HeldOK' /\ OwedOK' /\ OnceOK' /\ DigestOK' /\ StagesFollowTheGraph'
<1> USE DEF SourceInv, active, daemon
<1>1. PICK outcome \in {"complete", "over", "blocked", "stuck"} :
        /\ stage[f].phase = "queued" => outcome = "blocked"
        /\ partition' = [partition EXCEPT ![f] =
             [partition[f] EXCEPT
               !.running = IF @ = stage[f].generation /\ outcome # "stuck" THEN 0 ELSE @,
               !.pending = IF outcome = "complete" /\ CoversPartition(f) THEN @ \ {stage[f].stage} ELSE @]]
        /\ enriched' = IF outcome = "complete" /\ CoversPartition(f) /\ stage[f].stage = "enrichment"
                       THEN [enriched EXCEPT ![f] = stage[f].input] ELSE enriched
  BY DEF FinishStage
<1>2. /\ UNCHANGED <<source, obligation, before, later, active, daemon, mishaps, foreign, written, graphed, discarded>>
      /\ digesting = f /\ digesting' = NoFile
  BY DEF FinishStage
<1> DEFINE done == outcome = "complete" /\ CoversPartition(f)
<1>3. /\ \A g \in SourceFiles : /\ partition'[g].causes = partition[g].causes
                                /\ partition'[g].generation = partition[g].generation
                                /\ partition'[g].pending =
                                     IF g = f /\ done THEN partition[g].pending \ {stage[f].stage}
                                     ELSE partition[g].pending
  <2>1. \A g \in SourceFiles : partition[g] \in Partitions
    BY DEF SourceTypeOK
  <2> QED  BY <1>1, <2>1 DEF SourceTypeOK, Partitions
<1>4. done => /\ \A c \in partition[f].causes : Closed(c)
              /\ stage[f].input = graphed[f]
  BY <1>1, <1>2 DEF DigestOK, CoversPartition
<1>5. CausesOK' /\ HeldOK' /\ OwedOK' /\ OnceOK'
  <2>1. CausesOK'
    BY <1>2, <1>3, <1>4 DEF CausesOK, OpenCause, Closed, Scope
  <2>2. HeldOK' /\ OnceOK'
    BY <1>2 DEF HeldOK, OnceOK, Unresolved, Scope
  <2>3. OwedOK'
    BY <1>2, <1>3 DEF OwedOK, OpenCause, Closed
  <2> QED  BY <2>1, <2>2, <2>3
<1>6. DigestOK'
  BY <1>2, EditsAssumption DEF DigestOK
<1>7. StagesFollowTheGraph'
  <2> SUFFICES ASSUME NEW g \in SourceFiles, g \notin discarded, Through(g)'
               PROVE  enriched'[g] = graphed[g]
    BY <1>2 DEF StagesFollowTheGraph
  <2>1. CASE g = f /\ done /\ stage[f].stage = "enrichment"
    BY <1>1, <1>4, <2>1 DEF SourceTypeOK
  <2>2. CASE ~(g = f /\ done /\ stage[f].stage = "enrichment")
    <3>1. stage[f].stage \in {"enrichment", "digestion"}
      BY DEF SourceTypeOK, StageRecords
    <3>2. Through(g)
      BY <1>3, <2>2, <3>1 DEF Through
    <3>3. enriched'[g] = enriched[g]
      BY <1>1, <2>2 DEF SourceTypeOK
    <3> QED  BY <3>2, <3>3 DEF StagesFollowTheGraph
  <2> QED  BY <2>1, <2>2
<1> QED  BY <1>5, <1>6, <1>7

-----------------------------------------------------------------------------
LEMMA SourceNextInv == SourceInv /\ [SourceNext]_svars => SourceInv'
<1> SUFFICES ASSUME SourceInv, [SourceNext]_svars  PROVE SourceInv'
  OBVIOUS
<1>1. SourceTypeOK'
  BY SourceTypeStep DEF SourceInv
<1>2. CausesOK' /\ HeldOK' /\ OwedOK' /\ OnceOK' /\ DigestOK' /\ StagesFollowTheGraph'
  <2>1. CASE SourceNext
    BY <2>1, SavingInv, SavingHeldOnce, EditInv, RestartInv, WriteInv, ForeignInv, ReconcileInv,
       ClaimInv, RunInv, FinishInv DEF SourceNext
  <2>2. CASE UNCHANGED svars
    BY <2>2 DEF SourceInv, CausesOK, HeldOK, OwedOK, OnceOK, DigestOK, StagesFollowTheGraph, OpenCause, Closed,
                Unresolved, Through, Scope, svars, durable, active, daemon, stages, witness
  <2> QED  BY <2>1, <2>2
<1> QED  BY <1>1, <1>2 DEF SourceInv

\* The inductive invariant holds throughout (change-obligations.ts:97-303,
\* digestion.ts:60-154).
THEOREM SourceInvariance == SourceSpec => []SourceInv
<1> QED  BY SourceInitInv, SourceNextInv, PTL DEF SourceSpec

\* The ledgers, the working tree and the stages keep their types, and no stage
\* record is ahead of the generation of its partition (digestion.ts:60-154).
THEOREM SourceTypeCorrect == SourceSpec => []SourceTypeOK
<1>1. SourceInv => SourceTypeOK
  BY DEF SourceInv
<1> QED  BY <1>1, SourceInvariance, PTL

\* What differs from the graph is owed a reconciliation, whatever was edited,
\* lost, recovered or reconciled in between (change-obligations.ts:97-135).
THEOREM SourceChangesAreOwedHolds == SourceSpec => []SourceChangesAreOwed
<1>1. SourceInv => SourceChangesAreOwed
  BY DEF SourceInv, OwedOK, CausesOK, SourceChangesAreOwed, Stages
<1> QED  BY <1>1, SourceInvariance, PTL

\* No edit writes a file twice, whatever was lost (change-obligations.ts:204-253).
THEOREM EffectsAreNotRepeatedHolds == SourceSpec => []EffectsAreNotRepeated
<1>1. SourceInv => EffectsAreNotRepeated
  BY DEF SourceInv, OnceOK, EffectsAreNotRepeated
<1> QED  BY <1>1, SourceInvariance, PTL

\* A partition through with enrichment was enriched from what the graph holds,
\* unless an edit without effect took its stages away (digestion.ts:89-154).
THEOREM StagesFollowTheGraphHolds == SourceSpec => []StagesFollowTheGraph
<1>1. SourceInv => StagesFollowTheGraph
  BY DEF SourceInv
<1> QED  BY <1>1, SourceInvariance, PTL

=============================================================================
