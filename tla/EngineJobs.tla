----------------------------- MODULE EngineJobs -----------------------------
(***************************************************************************)
(* Durable engine jobs (src/src/cognitive/jobs.ts): a job is accepted into *)
(* jobs.json, runs at most once under a fence and a lease on its conflict  *)
(* lanes, records every external effect before its transport, and is       *)
(* finished, cancelled, or fenced by the recovery of the next process.     *)
(*                                                                         *)
(* Every durable change is one mutate (jobs.ts:83-87): a whole publication *)
(* under the writer barrier, hence one step here (modules Publication and  *)
(* GraphBarrier).  A mutate that fails either changed nothing, or became   *)
(* durable and still threw to its caller: the publication was rolled       *)
(* forward and its error rethrown (publication.ts:242-245).  The second    *)
(* kind is the step Thrown; the first matters only to finish.              *)
(*                                                                         *)
(* The work of a job is arbitrary code: it begins effects, sends them,     *)
(* returns or throws.  Deadlines, aborted signals and byte limits are      *)
(* among its reasons to throw.  Model attempts and source obligations      *)
(* (jobs.ts:185-192) are effects like the others.                          *)
(***************************************************************************)
EXTENDS Naturals, FiniteSets

CONSTANTS
  Jobs,        \* jobs that can be accepted, each under its own operation_id
  Lanes,       \* conflict lanes
  LanesOf,     \* the lanes of each job
  SessionJobs, \* those of lifetime session_bound; the others outlive a daemon
  Effects,     \* identities of a job's external effects
  None,        \* no lease, no effect
  MaxQueue,    \* 1024 in the code
  MaxFence,    \* bound: fences that cancellations and repeated recoveries reach
  MaxFaults,   \* bound: failing mutates
  MaxCrashes   \* bound: daemon processes after the first

ASSUME LanesAssumption == LanesOf \in [Jobs -> (SUBSET Lanes) \ {{}}]
ASSUME JobsAssumption == SessionJobs \subseteq Jobs /\ IsFiniteSet(Jobs)
ASSUME NoneAssumption == None \notin Nat \cup Effects
ASSUME BoundsAssumption == {MaxQueue, MaxFence, MaxFaults, MaxCrashes} \subseteq Nat

VARIABLES
  job,     \* jobs.json: the record of each job
  process, \* number of the daemon process
  up,      \* its startup recovery is done
  pc,      \* what the run of each job in this process does
  held,    \* the fence each run was started with
  intent,  \* the effect the run is about to send, or None
  wire,    \* transport of each effect: "none", "inflight" or "answered"
  runs,    \* history: times the work of each job was started
  sent,    \* history: times each effect was sent
  faults   \* history: failing mutates so far

local == <<pc, held, intent>>
history == <<runs, sent, faults>>
vars == <<job, process, up, local, wire, history>>

Terminal == {"cancelled", "succeeded", "failed"}
Dispatchable == {"queued", "blocked"}
States == Terminal \cup Dispatchable \cup {"absent", "running", "recovery_required"}

JobRecord ==
  [state : States, fence : Nat, cancel : BOOLEAN, lease : Nat \cup {None},
   settled : BOOLEAN, error : BOOLEAN, accepted : Nat,
   effects : [Effects -> {"none", "dispatched", "acknowledged", "unknown"}]]

NoJob == [state |-> "absent", fence |-> 0, cancel |-> FALSE, lease |-> None, settled |-> FALSE,
          error |-> FALSE, accepted |-> 0, effects |-> [e \in Effects |-> "none"]]

TypeOK ==
  /\ job \in [Jobs -> JobRecord]
  /\ process \in Nat /\ up \in BOOLEAN
  /\ pc \in [Jobs -> {"none", "working", "returned", "threw"}]
  /\ held \in [Jobs -> Nat]
  /\ intent \in [Jobs -> Effects \cup {None}]
  /\ wire \in [Jobs -> [Effects -> {"none", "inflight", "answered"}]]
  /\ runs \in [Jobs -> Nat]
  /\ sent \in [Jobs -> [Effects -> Nat]]
  /\ faults \in Nat

Init ==
  /\ job = [j \in Jobs |-> NoJob]
  /\ process = 1 /\ up = FALSE
  /\ pc = [j \in Jobs |-> "none"]
  /\ held = [j \in Jobs |-> 0]
  /\ intent = [j \in Jobs |-> None]
  /\ wire = [j \in Jobs |-> [e \in Effects |-> "none"]]
  /\ runs = [j \in Jobs |-> 0]
  /\ sent = [j \in Jobs |-> [e \in Effects |-> 0]]
  /\ faults = 0

-----------------------------------------------------------------------------
Open(r) == r.state \notin Terminal \cup {"absent"}
Write(j, r) == job' = [job EXCEPT ![j] = r]

\* A mutate that became durable and threw, or that failed without a change.
Thrown == faults < MaxFaults /\ faults' = faults + 1

UnknownEffects(r) == {e \in Effects : r.effects[e] \in {"dispatched", "unknown"}}

AssertCurrent(j) ==
  /\ job[j].state = "running"
  /\ job[j].fence = held[j]
  /\ ~job[j].cancel
  /\ job[j].lease = process

\* Another job that is not over holds a lease on one of the lanes.
Conflict(j) ==
  \E k \in Jobs \ {j} : /\ job[k].lease # None
                        /\ Open(job[k])
                        /\ LanesOf[k] \cap LanesOf[j] # {}

\* How a settled job whose effects are all accounted for ends.
Outcome(r) == IF r.cancel THEN "cancelled" ELSE IF r.error THEN "failed" ELSE "succeeded"

-----------------------------------------------------------------------------
Accept(j) ==
  /\ up /\ job[j].state = "absent"
  /\ Cardinality({k \in Jobs : Open(job[k])}) < MaxQueue
  /\ Write(j, [NoJob EXCEPT !.state = "queued", !.accepted = process])
  /\ UNCHANGED <<process, up, local, wire, history>>

\* Faulty Run: a job under recovery no longer counts as a holder of its lanes.
RunOverRecovery(j) ==
  /\ up
  /\ job[j].state \in Dispatchable /\ ~job[j].cancel
  /\ \A k \in Jobs \ {j} : job[k].state = "running" => LanesOf[k] \cap LanesOf[j] = {}
  /\ Write(j, [job[j] EXCEPT !.state = "running", !.fence = @ + 1, !.lease = process])
  /\ pc' = [pc EXCEPT ![j] = "working"]
  /\ held' = [held EXCEPT ![j] = job'[j].fence]
  /\ runs' = [runs EXCEPT ![j] = @ + 1]
  /\ UNCHANGED <<process, up, intent, wire, sent, faults>>

\* Faulty Run: a job left for recovery is dispatched once more.
RunAgain(j) ==
  /\ up
  /\ job[j].state \in Dispatchable \cup {"recovery_required"} /\ ~job[j].cancel
  /\ ~Conflict(j)
  /\ Write(j, [job[j] EXCEPT !.state = "running", !.fence = @ + 1, !.lease = process])
  /\ pc' = [pc EXCEPT ![j] = "working"]
  /\ held' = [held EXCEPT ![j] = job'[j].fence]
  /\ runs' = [runs EXCEPT ![j] = @ + 1]
  /\ UNCHANGED <<process, up, intent, wire, sent, faults>>

\* A mutate that threw leaves a leased job behind whose work never starts.
Run(j) ==
  /\ up
  /\ job[j].state \in Dispatchable /\ ~job[j].cancel
  /\ \/ /\ Conflict(j)
        /\ Write(j, [job[j] EXCEPT !.state = "blocked"])
        /\ UNCHANGED <<pc, held, runs, faults>>
     \/ /\ ~Conflict(j)
        /\ Write(j, [job[j] EXCEPT !.state = "running", !.fence = @ + 1, !.lease = process])
        /\ \/ /\ pc' = [pc EXCEPT ![j] = "working"]
              /\ held' = [held EXCEPT ![j] = job'[j].fence]
              /\ runs' = [runs EXCEPT ![j] = @ + 1]
              /\ UNCHANGED faults
           \/ Thrown /\ UNCHANGED <<pc, held, runs>>
  /\ UNCHANGED <<process, up, intent, wire, sent>>

-----------------------------------------------------------------------------
(***************************************************************************)
(* The work: effects, and the end of it                                    *)
(***************************************************************************)
Working(j) == pc[j] = "working" /\ intent[j] = None

BeginEffect(j, e) ==
  /\ Working(j) /\ AssertCurrent(j)
  /\ job[j].effects[e] = "none"
  /\ Write(j, [job[j] EXCEPT !.effects[e] = "dispatched"])
  /\ \/ intent' = [intent EXCEPT ![j] = e] /\ UNCHANGED faults
     \/ Thrown /\ UNCHANGED intent
  /\ UNCHANGED <<process, up, pc, held, wire, runs, sent>>

\* The intent is durable; the request leaves, or the work stops short of it.
Send(j) ==
  /\ intent[j] # None
  /\ intent' = [intent EXCEPT ![j] = None]
  /\ \/ /\ wire' = [wire EXCEPT ![j][intent[j]] = "inflight"]
        /\ sent' = [sent EXCEPT ![j][intent[j]] = @ + 1]
     \/ UNCHANGED <<wire, sent>>
  /\ UNCHANGED <<job, process, up, pc, held, runs, faults>>

\* The receiver answers, at any time, whatever became of the sender.
Answer(j, e) ==
  /\ wire[j][e] = "inflight"
  /\ wire' = [wire EXCEPT ![j][e] = "answered"]
  /\ UNCHANGED <<job, process, up, local, history>>

\* An acknowledgement needs an answer, or the proof that nothing left.
SettleEffect(j, e) ==
  /\ up
  /\ job[j].effects[e] \in {"dispatched", "unknown"}
  /\ intent[j] # e
  /\ \E state \in {"acknowledged", "unknown"} :
       /\ state = "acknowledged" => wire[j][e] # "inflight"
       /\ Write(j, [job[j] EXCEPT !.effects[e] = state])
  /\ UNCHANGED <<process, up, local, wire, history>>

WorkEnds(j) ==
  /\ Working(j)
  /\ \E how \in {"returned", "threw"} :
       /\ how = "returned" => AssertCurrent(j)
       /\ pc' = [pc EXCEPT ![j] = how]
  /\ UNCHANGED <<job, process, up, held, intent, wire, history>>

-----------------------------------------------------------------------------
(***************************************************************************)
(* Finishing, cancelling, reconciling and recovering                       *)
(***************************************************************************)
\* Faulty Finished: what a run left open is not looked at.
FinishedBlindly(j, error) ==
  [job[j] EXCEPT !.settled = TRUE, !.error = error, !.lease = None,
                 !.state = IF job[j].cancel \/ job[j].fence # held[j] THEN "cancelled"
                           ELSE IF error THEN "failed" ELSE "succeeded"]

\* Faulty Finished: a cancellation that came while the work ran is overlooked.
FinishedAnyway(j, error) ==
  LET unknown == UnknownEffects(job[j]) # {}
  IN [job[j] EXCEPT !.settled = TRUE, !.error = error,
                    !.lease = IF unknown THEN process ELSE None,
                    !.state = IF unknown THEN "recovery_required"
                              ELSE IF error THEN "failed" ELSE "succeeded"]

\* The record finish writes: open effects keep the lanes.
Finished(j, error) ==
  LET unknown == UnknownEffects(job[j]) # {}
  IN [job[j] EXCEPT !.settled = TRUE, !.error = error,
                    !.lease = IF unknown THEN process ELSE None,
                    !.state = IF unknown THEN "recovery_required"
                              ELSE IF job[j].cancel \/ job[j].fence # held[j] THEN "cancelled"
                              ELSE IF error THEN "failed" ELSE "succeeded"]

\* A finish that throws, before or after it is durable, is tried once more by
\* run's own catch, with the error; that second one is the last.
Finish(j) ==
  /\ pc[j] \in {"returned", "threw"}
  /\ \/ /\ Write(j, Finished(j, pc[j] = "threw"))
        /\ pc' = [pc EXCEPT ![j] = "none"]
        /\ UNCHANGED faults
     \/ /\ Thrown
        /\ Write(j, Finished(j, pc[j] = "threw")) \/ UNCHANGED job
        /\ pc' = [pc EXCEPT ![j] = IF pc[j] = "returned" THEN "threw" ELSE "none"]
  /\ UNCHANGED <<process, up, held, intent, wire, runs, sent>>

Undispatched(r) == /\ r.state \in Dispatchable /\ r.fence = 0 /\ r.lease = None
                   /\ \A e \in Effects : r.effects[e] = "none"

\* An operator, a caller's signal, the deadline timer or the shutdown.
Cancel(j) ==
  /\ up /\ Open(job[j]) /\ job[j].fence < MaxFence
  /\ Write(j, [job[j] EXCEPT
       !.cancel = TRUE, !.fence = @ + 1,
       !.state = IF job[j].lease # None THEN "recovery_required" ELSE "cancelled",
       !.settled = @ \/ Undispatched(job[j])])
  /\ UNCHANGED <<process, up, local, wire, history>>

SettledLate(r) == r.state = "recovery_required" /\ r.settled

ReconcileSettled(j) ==
  /\ up
  /\ SettledLate(job[j]) /\ UnknownEffects(job[j]) = {}
  /\ Write(j, [job[j] EXCEPT !.lease = None, !.state = Outcome(job[j])])
  /\ UNCHANGED <<process, up, local, wire, history>>

\* Faulty Recovered: session-bound work outlives the process of its session.
RecoveredForAll(j) ==
  LET r == job[j]
  IN CASE SettledLate(r) ->
            IF UnknownEffects(r) = {} THEN [r EXCEPT !.lease = None, !.state = Outcome(r)] ELSE r
       [] ~SettledLate(r) /\ r.lease # None /\ Open(r) /\ ~(r.lease = process /\ pc[j] # "none") ->
            [r EXCEPT !.state = "recovery_required", !.fence = @ + 1]
       [] OTHER -> r

\* Faulty Recovered: only work of this very process is fenced.
RecoveredOwn(j) ==
  LET r == job[j]
  IN CASE SettledLate(r) ->
            IF UnknownEffects(r) = {} THEN [r EXCEPT !.lease = None, !.state = Outcome(r)] ELSE r
       [] ~SettledLate(r) /\ r.lease = process /\ Open(r) /\ pc[j] = "none" ->
            [r EXCEPT !.state = "recovery_required", !.fence = @ + 1]
       [] OTHER -> r

\* What recover makes of a job.  A controller of this process protects its run.
Recovered(j) ==
  LET r == job[j]
  IN CASE SettledLate(r) ->
            IF UnknownEffects(r) = {} THEN [r EXCEPT !.lease = None, !.state = Outcome(r)] ELSE r
       [] ~SettledLate(r) /\ j \in SessionJobs /\ r.accepted # process /\ r.lease = None /\ Open(r) ->
            [r EXCEPT !.state = "cancelled", !.fence = @ + 1]
       [] ~SettledLate(r) /\ r.lease # None /\ Open(r) /\ ~(r.lease = process /\ pc[j] # "none") ->
            [r EXCEPT !.state = "recovery_required", !.fence = @ + 1]
       [] OTHER -> r

\* Startup waits for it; the scheduler starts with another one.
Recover ==
  /\ up => \A j \in Jobs : job[j].fence < MaxFence
  /\ job' = [j \in Jobs |-> Recovered(j)]
  /\ \/ up' = TRUE /\ UNCHANGED faults
     \/ Thrown /\ UNCHANGED up
  /\ UNCHANGED <<process, local, wire, runs, sent>>

Crash ==
  /\ process <= MaxCrashes
  /\ process' = process + 1 /\ up' = FALSE
  /\ pc' = [j \in Jobs |-> "none"]
  /\ held' = [j \in Jobs |-> 0]
  /\ intent' = [j \in Jobs |-> None]
  /\ UNCHANGED <<job, wire, history>>

Next ==
  \/ \E j \in Jobs :
       \/ Accept(j) \/ Run(j) \/ Send(j) \/ WorkEnds(j) \/ Finish(j)
       \/ Cancel(j) \/ ReconcileSettled(j)
       \/ \E e \in Effects : BeginEffect(j, e) \/ Answer(j, e) \/ SettleEffect(j, e)
  \/ Recover
  \/ Crash

Spec == Init /\ [][Next]_vars

\* A starting daemon awaits its recovery before it serves anything.
FairSpec == Spec /\ WF_vars(Recover)

-----------------------------------------------------------------------------
(***************************************************************************)
(* Properties                                                              *)
(***************************************************************************)
Active(j) == pc[j] = "working" \/ \E e \in Effects : wire[j][e] = "inflight"

\* Two jobs that share a lane are never at work together, not even when one
\* of them was cancelled, belongs to a dead process, or has only a request left
\* in flight (jobs.ts:230, 260-263, 345).
LaneExclusion ==
  \A j, k \in Jobs : j # k /\ Active(j) /\ Active(k) => LanesOf[j] \cap LanesOf[k] = {}

\* Nothing is redispatched: over all processes the work of a job starts at most
\* once and each of its effects is sent at most once (jobs.ts:153, 230).
NothingIsRepeated ==
  \A j \in Jobs : runs[j] <= 1 /\ \A e \in Effects : sent[j][e] <= 1

\* A job that reached an outcome has no request whose fate is unknown: the
\* outcome was given only after all effects were accounted for (jobs.ts:345).
OutcomesAreCertain ==
  \A j \in Jobs : job[j].state \in Terminal => \A e \in Effects : wire[j][e] # "inflight"

\* A cancellation that was made durable is never overtaken by the run it
\* cancelled: no such job succeeds, fails or starts (jobs.ts:346, 258).
CancellationPrevails ==
  \A j \in Jobs : job[j].cancel => job[j].state \in {"cancelled", "recovery_required"}

\* Session-bound work never runs in a process its session did not live in
\* (jobs.ts:241-243).
SessionWorkEndsWithItsProcess ==
  \A j \in SessionJobs : pc[j] = "working" => job[j].accepted = process

\* What dead processes left running does not stay so: all of it is fenced by
\* the next process that comes up (jobs.ts:244-248, server.ts:205).
InterruptedRunsAreFenced ==
  LET interrupted == {j \in Jobs : job[j].state = "running" /\ job[j].lease # process}
  IN interrupted # {} ~> interrupted = {}

\* A job keeps the terminal outcome it once had ("Preserve one terminal cause",
\* docs/audits/2026-09-30-coverage/execution-simulation.md:649).
OneTerminalOutcome ==
  [][\A j \in Jobs : job[j].state \in Terminal => job'[j].state = job[j].state]_vars
=============================================================================
