------------------------------ MODULE Schedules ------------------------------
(***************************************************************************)
(* Schedules and their occurrences (src/src/cognitive/scheduler.ts): ticks *)
(* and manual requests claim occurrences in schedules.json, each with one  *)
(* engine job, and run the claimed jobs one after the other.               *)
(*                                                                         *)
(* Every change of schedules.json is one publication under the writer      *)
(* barrier, hence one step; a tick is a sequence of them and interleaves   *)
(* with other ticks, manual calls, definition changes and cancellations.   *)
(* A claim publishes twice, the job and then the occurrence: it may throw  *)
(* before, between or after them (ClaimThrows).                            *)
(*                                                                         *)
(* Data: slot k of every schedule is on time at clock 2k and missed at     *)
(* 2k+1; a rate limit or a cooldown is a refusal that may happen at any    *)
(* claim; the jobs are those of EngineJobs without their fences.           *)
(***************************************************************************)
EXTENDS Naturals, FiniteSets

CONSTANTS
  Plans,         \* schedules
  CronPlans,     \* those with a cron trigger; the others have an interval
  CatchUpPlans,  \* those whose missed policy is catch_up_once
  MaxRunsOf,     \* max_runs of each schedule
  ErrorStreak,   \* failures in a row that stop a schedule
  Requested,     \* operation ids of manual requests
  Runners,       \* ticks and manual calls that are under way at once
  NoOccurrence,
  MaxClock, MaxRevision, \* bounds
  MaxDisturbed   \* bound: publications that throw, and restarts

ASSUME PlansAssumption ==
  /\ CronPlans \subseteq Plans /\ CatchUpPlans \subseteq Plans
  /\ MaxRunsOf \in [Plans -> Nat] /\ ErrorStreak \in Nat \ {0}
  /\ {MaxClock, MaxDisturbed} \subseteq Nat /\ MaxRevision \in Nat \ {0}
  /\ Requested \cap Nat = {}

Slots == 1..(MaxClock \div 2)
Occurrences == Plans \X (1..MaxRevision) \X (Slots \cup Requested)
ASSUME NoOccurrenceAssumption == NoOccurrence \notin Occurrences

VARIABLES
  clock,      \* half slots since the schedules were created
  status,     \* schedules.json: what a schedule may do
  revision,   \* schedules.json: definition_revision
  updated,    \* schedules.json: updated_at
  runs,       \* schedules.json: run_count
  errors,     \* schedules.json: error_count
  lastTick,   \* schedules.json: the durable cursor of the ticks
  occurrence, \* schedules.json: state of each occurrence
  receipt,    \* schedules.json: the occurrence of each manual request
  work,       \* jobs.json: state of the job of each occurrence
  runner,     \* ticks and manual calls of this process
  daemons,    \* processes so far
  claimFaults, \* history: claims that threw
  started,    \* history: starts of each job
  unclaimed   \* history: slots whose claim was refused or threw

schedules == <<status, revision, updated, runs, errors, lastTick, occurrence, receipt>>
tally == <<claimFaults, started, unclaimed>>
schvars == <<clock, schedules, work, runner, daemons, tally>>

WorkStates == {"none", "queued", "running", "recovery_required", "succeeded", "failed"}
Proposals == [occurrence : Plans \X (1..MaxRevision) \X Slots, missed : BOOLEAN]
Idle == [at |-> 0, todo |-> {}, queue |-> {}, doing |-> NoOccurrence, pc |-> "idle"]
Running(queue) == IF queue = {} THEN Idle ELSE [Idle EXCEPT !.queue = queue, !.pc = "run"]
Doing(queue, pc, o) == [at |-> 0, todo |-> {}, queue |-> queue, doing |-> o, pc |-> pc]

ScheduleTypeOK ==
  /\ clock \in Nat
  /\ status \in [Plans -> {"active", "paused", "archived"}]
  /\ revision \in [Plans -> 1..MaxRevision]
  /\ updated \in [Plans -> 0..clock]
  /\ runs \in [Plans -> Nat] /\ errors \in [Plans -> Nat]
  /\ lastTick \in 0..clock
  /\ occurrence \in [Occurrences -> {"none", "queued", "skipped", "finished"}]
  /\ receipt \in [Plans \X Requested -> Occurrences \cup {NoOccurrence}]
  /\ work \in [Occurrences -> WorkStates]
  /\ runner \in [Runners -> [at : 0..clock, todo : SUBSET Proposals, queue : SUBSET Occurrences,
                             doing : Occurrences \cup {NoOccurrence},
                             pc : {"idle", "admit", "run", "work", "finish"}]]
  /\ daemons \in Nat /\ claimFaults \in Nat
  /\ started \in [Occurrences -> Nat]
  /\ unclaimed \subseteq Plans \X Slots

ScheduleInit ==
  /\ clock = 0 /\ daemons = 1 /\ claimFaults = 0
  /\ status = [p \in Plans |-> "active"]
  /\ revision = [p \in Plans |-> 1]
  /\ updated = [p \in Plans |-> 0]
  /\ runs = [p \in Plans |-> 0] /\ errors = [p \in Plans |-> 0]
  /\ lastTick = 0
  /\ occurrence = [o \in Occurrences |-> "none"]
  /\ receipt = [k \in Plans \X Requested |-> NoOccurrence]
  /\ work = [o \in Occurrences |-> "none"]
  /\ runner = [r \in Runners |-> Idle]
  /\ started = [o \in Occurrences |-> 0]
  /\ unclaimed = {}

-----------------------------------------------------------------------------
(***************************************************************************)
(* Claims                                                                  *)
(***************************************************************************)
PlanOf(o) == o[1]
RevisionOf(o) == o[2]
CursorOf(o) == o[3]

\* The slot that an evaluation now proposes, as a set of at most one proposal.
Proposed(p) ==
  LET slot == clock \div 2
      missed == clock % 2 = 1
      open == IF p \in CronPlans /\ missed
              THEN 2 * slot > lastTick /\ 2 * slot > updated[p]
              ELSE TRUE
  IN
  IF slot \in Slots /\ open
  THEN {[occurrence |-> <<p, revision[p], slot>>, missed |-> missed]}
  ELSE {}

Spent(p) == runs[p] >= MaxRunsOf[p] \/ errors[p] >= ErrorStreak
OverlapsRevision(p) == \E o \in Occurrences : o[1] = p /\ o[2] = revision[p] /\ occurrence[o] = "queued"
Overlaps(p) == \E o \in Occurrences : PlanOf(o) = p /\ occurrence[o] = "queued"
IsCurrent(o) == status[PlanOf(o)] # "archived" /\ RevisionOf(o) = revision[PlanOf(o)]

\* A claim that the guards let through.
MayClaim(o, manual) ==
  /\ IsCurrent(o) /\ occurrence[o] = "none"
  /\ manual \/ status[PlanOf(o)] = "active"
  /\ ~Spent(PlanOf(o)) /\ ~Overlaps(PlanOf(o))

\* accept is repeated under the id of the occurrence and makes one job.
Accept(o) == work' = [work EXCEPT ![o] = IF @ = "none" THEN "queued" ELSE @]
MayDisturb == claimFaults + daemons <= MaxDisturbed
ClaimFault == MayDisturb /\ claimFaults' = claimFaults + 1
Skipped(o, missed) == missed /\ PlanOf(o) \notin CatchUpPlans

SaveOccurrence(o, missed) ==
  /\ occurrence' = [occurrence EXCEPT ![o] = IF Skipped(o, missed) THEN "skipped" ELSE "queued"]
  /\ receipt' = IF CursorOf(o) \in Requested
                THEN [receipt EXCEPT ![<<PlanOf(o), CursorOf(o)>>] = o] ELSE receipt

Claim(o, missed, manual) ==
  /\ MayClaim(o, manual)
  /\ SaveOccurrence(o, missed)
  /\ IF Skipped(o, missed) THEN UNCHANGED work ELSE Accept(o)

ClaimThrows(o, missed, manual) ==
  /\ MayClaim(o, manual)
  /\ ClaimFault
  /\ \/ UNCHANGED <<occurrence, receipt, work>>
     \/ ~Skipped(o, missed) /\ Accept(o) /\ UNCHANGED <<occurrence, receipt>>
     \/ /\ SaveOccurrence(o, missed)
        /\ IF Skipped(o, missed) THEN UNCHANGED work ELSE Accept(o)

-----------------------------------------------------------------------------
(***************************************************************************)
(* A tick                                                                  *)
(***************************************************************************)
BeginTick(r) ==
  /\ runner[r].pc = "idle"
  /\ runner' = [runner EXCEPT ![r] =
       [at |-> clock, todo |-> UNION {Proposed(p) : p \in {q \in Plans : status[q] = "active"}},
        queue |-> {o \in Occurrences : occurrence[o] = "queued"},
        doing |-> NoOccurrence, pc |-> "admit"]]
  /\ UNCHANGED <<clock, schedules, work, daemons, tally>>

\* One proposal is claimed; whatever throws is logged and the next one follows.
Admit(r, x) ==
  LET o == x.occurrence
      done == [runner EXCEPT ![r].todo = @ \ {x}]
      slot == <<PlanOf(o), CursorOf(o)>>
  IN
  /\ runner[r].pc = "admit" /\ x \in runner[r].todo
  /\ \/ /\ Claim(o, x.missed, FALSE)
        /\ runner' = IF Skipped(o, x.missed) THEN done ELSE [done EXCEPT ![r].queue = @ \cup {o}]
        /\ UNCHANGED <<claimFaults, unclaimed>>
     \/ /\ ClaimThrows(o, x.missed, FALSE)
        /\ runner' = done /\ unclaimed' = unclaimed \cup {slot}
     \/ /\ IsCurrent(o) /\ occurrence[o] # "none"
        /\ runner' = IF occurrence[o] = "skipped" THEN done ELSE [done EXCEPT ![r].queue = @ \cup {o}]
        /\ UNCHANGED <<occurrence, receipt, work, claimFaults, unclaimed>>
     \/ /\ occurrence[o] = "none" \/ ~IsCurrent(o)  \* a guard, a limit or a conflict of revisions
        /\ runner' = done /\ unclaimed' = unclaimed \cup {slot}
        /\ UNCHANGED <<occurrence, receipt, work, claimFaults>>
  /\ UNCHANGED <<clock, status, revision, updated, runs, errors, lastTick, daemons, started>>

AdmittedEarly(r) == runner[r].pc = "admit"
Admitted(r) == runner[r].pc = "admit" /\ runner[r].todo = {}

TickCursor(r) == IF lastTick < runner[r].at THEN runner[r].at ELSE lastTick

\* The cursor follows once every proposal was admitted.
Advance(r) ==
  /\ Admitted(r)
  /\ lastTick' = TickCursor(r)
  /\ runner' = [runner EXCEPT ![r] = Running(@.queue)]
  /\ UNCHANGED <<clock, status, revision, updated, runs, errors, occurrence, receipt, work, daemons, tally>>

\* The cursor's publication throws and ends the tick.
TickFails(r) ==
  /\ Admitted(r)
  /\ ClaimFault
  /\ runner' = [runner EXCEPT ![r] = Idle]
  /\ UNCHANGED <<clock, schedules, work, daemons, started, unclaimed>>

\* A manual request, or its retry, which is answered from its receipt.
RunNow(r, p, op) ==
  LET o == <<p, revision[p], op>>
      queued(i) == [runner EXCEPT ![r] = Running({i})]
      known == receipt[<<p, op>>]
  IN
  /\ runner[r].pc = "idle"
  /\ \/ /\ known # NoOccurrence
        /\ runner' = queued(known)
        /\ UNCHANGED <<occurrence, receipt, work, claimFaults>>
     \/ /\ known = NoOccurrence
        /\ Claim(o, FALSE, TRUE)
        /\ runner' = queued(o) /\ UNCHANGED claimFaults
     \/ /\ known = NoOccurrence
        /\ ClaimThrows(o, FALSE, TRUE)
        /\ UNCHANGED runner
  /\ UNCHANGED <<clock, status, revision, updated, runs, errors, lastTick, daemons, started, unclaimed>>

-----------------------------------------------------------------------------
(***************************************************************************)
(* The jobs of claimed occurrences                                         *)
(***************************************************************************)
HasEnded(o) == work[o] \in {"succeeded", "failed"}
RunnableAgain(o) == work[o] \in {"queued", "recovery_required"}
Runnable(o) == work[o] = "queued"
LaneFree == \A o \in Occurrences : work[o] # "running"

\* The next claimed job is run, finished, or left: to another runner, to the
\* operator, or blocked by the lane.
RunOccurrence(r, o) ==
  LET rest == runner[r].queue \ {o}
  IN
  /\ runner[r].pc = "run" /\ o \in runner[r].queue
  /\ \/ /\ HasEnded(o)
        /\ runner' = [runner EXCEPT ![r] = Doing(rest, "finish", o)] /\ UNCHANGED <<work, started>>
     \/ /\ Runnable(o) /\ LaneFree
        /\ work' = [work EXCEPT ![o] = "running"]
        /\ started' = [started EXCEPT ![o] = @ + 1]
        /\ runner' = [runner EXCEPT ![r] = Doing(rest, "work", o)]
     \/ /\ ~HasEnded(o)
        /\ runner' = [runner EXCEPT ![r] = Running(rest)] /\ UNCHANGED <<work, started>>
  /\ UNCHANGED <<clock, schedules, daemons, claimFaults, unclaimed>>

\* The action returns or throws, possibly after a cancellation.
WorkEnds(r) ==
  LET o == runner[r].doing
  IN
  /\ runner[r].pc = "work"
  /\ \E end \in IF work[o] = "running" THEN {"succeeded", "failed", "recovery_required"}
                ELSE {"failed", "recovery_required"} :
       work' = [work EXCEPT ![o] = end]
  /\ runner' = [runner EXCEPT ![r].pc = "finish"]
  /\ UNCHANGED <<clock, schedules, daemons, tally>>

\* finishOccurrence: once, and only for a job that has ended.
FinishOccurrence(o) ==
  LET p == PlanOf(o)
      streak == IF RevisionOf(o) # revision[p] THEN errors[p]
                ELSE IF work[o] = "succeeded" THEN 0 ELSE errors[p] + 1
      stopped == (RevisionOf(o) = revision[p] /\ streak >= ErrorStreak) \/ runs[p] + 1 >= MaxRunsOf[p]
  IN
  IF HasEnded(o) /\ occurrence[o] = "queued"
  THEN /\ occurrence' = [occurrence EXCEPT ![o] = "finished"]
       /\ runs' = [runs EXCEPT ![p] = @ + 1]
       /\ errors' = [errors EXCEPT ![p] = streak]
       /\ status' = [status EXCEPT ![p] = IF stopped /\ @ = "active" THEN "paused" ELSE @]
  ELSE UNCHANGED <<occurrence, runs, errors, status>>

\* If its publication throws, the runner ends with it.
FinishRun(r) ==
  /\ runner[r].pc = "finish"
  /\ \/ /\ FinishOccurrence(runner[r].doing)
        /\ runner' = [runner EXCEPT ![r] = Running(@.queue)]
        /\ UNCHANGED claimFaults
     \/ /\ UNCHANGED <<occurrence, runs, errors, status>>
        /\ runner' = [runner EXCEPT ![r] = Idle]
        /\ ClaimFault
  /\ UNCHANGED <<clock, revision, updated, lastTick, receipt, work, daemons, started, unclaimed>>

-----------------------------------------------------------------------------
(***************************************************************************)
(* Definitions, cancellations, restarts and time                           *)
(***************************************************************************)
UpdateSchedule(p, s) ==
  /\ status[p] # "archived" /\ revision[p] < MaxRevision
  /\ status' = [status EXCEPT ![p] = s]
  /\ revision' = [revision EXCEPT ![p] = @ + 1]
  /\ updated' = [updated EXCEPT ![p] = clock]
  /\ errors' = [errors EXCEPT ![p] = IF s = "active" THEN 0 ELSE @]
  /\ UNCHANGED <<clock, runs, lastTick, occurrence, receipt, work, runner, daemons, tally>>

DeleteSchedule(p) ==
  /\ status[p] # "archived" /\ revision[p] < MaxRevision
  /\ status' = [status EXCEPT ![p] = "archived"]
  /\ revision' = [revision EXCEPT ![p] = @ + 1]
  /\ UNCHANGED <<clock, updated, runs, errors, lastTick, occurrence, receipt, work, runner, daemons, tally>>

CancelClaimed(o) ==
  /\ work[o] \in {"queued", "running"}
  /\ work' = [work EXCEPT ![o] = IF @ = "queued" THEN "failed" ELSE "recovery_required"]
  /\ UNCHANGED <<clock, schedules, runner, daemons, tally>>

ReconcileClaimed(o) ==
  /\ work[o] = "recovery_required" /\ \A r \in Runners : runner[r].doing # o
  /\ work' = [work EXCEPT ![o] = "failed"]
  /\ UNCHANGED <<clock, schedules, runner, daemons, tally>>

\* The daemon dies; its successor fences what was running before any tick.
RestartScheduler ==
  /\ MayDisturb /\ daemons' = daemons + 1
  /\ runner' = [r \in Runners |-> Idle]
  /\ work' = [o \in Occurrences |-> IF work[o] = "running" THEN "recovery_required" ELSE work[o]]
  /\ UNCHANGED <<clock, schedules, tally>>

TimePasses ==
  /\ clock < MaxClock /\ clock' = clock + 1
  /\ UNCHANGED <<schedules, work, runner, daemons, tally>>

ScheduleNext ==
  \/ \E r \in Runners :
       \/ BeginTick(r) \/ Advance(r) \/ TickFails(r) \/ WorkEnds(r) \/ FinishRun(r)
       \/ \E x \in runner[r].todo : Admit(r, x)
       \/ \E o \in runner[r].queue : RunOccurrence(r, o)
       \/ \E p \in Plans, op \in Requested : RunNow(r, p, op)
  \/ \E p \in Plans : DeleteSchedule(p) \/ \E s \in {"active", "paused"} : UpdateSchedule(p, s)
  \/ \E o \in Occurrences : CancelClaimed(o) \/ ReconcileClaimed(o)
  \/ RestartScheduler \/ TimePasses

ScheduleSpec == ScheduleInit /\ [][ScheduleNext]_schvars

-----------------------------------------------------------------------------
Starts(S) == {o \in S : started[o] > 0}

\* A schedule starts no more jobs than max_runs, although runs are counted only
\* when they finish, and through manual requests, parallel ticks, new revisions,
\* cancellations and lost replies (scheduler.ts:467, 570, 595).
MaxRunsIsKept ==
  \A p \in Plans : Cardinality(Starts({o \in Occurrences : PlanOf(o) = p})) <= MaxRunsOf[p]

\* An occurrence is started at most once and a manual request starts at most
\* one, whatever was retried or crashed (scheduler.ts:555-564, 604-607).
OccurrencesRunOnce ==
  /\ \A o \in Occurrences : started[o] <= 1
  /\ \A p \in Plans, op \in Requested :
       Cardinality(Starts({<<p, n, op>> : n \in 1..MaxRevision})) <= 1

\* The slot of the last tick of a schedule that was active then was claimed, or
\* its claim was refused or threw: no crash between the claims and the cursor,
\* and no other tick, makes the cursor pass a slot unseen (scheduler.ts:635-642).
CursorFollowsAdmission ==
  LET slot == lastTick \div 2
  IN \A p \in Plans :
       slot \in Slots /\ status[p] = "active" /\ updated[p] < 2 * slot =>
         \/ <<p, slot>> \in unclaimed
         \/ occurrence[<<p, revision[p], slot>>] # "none"
=============================================================================
