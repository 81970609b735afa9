--------------------------- MODULE ModelAdmission ---------------------------
(***************************************************************************)
(* The spend ledger of model requests (src/src/cognitive/model-admission.ts) *)
(* and its two users: the request cycle of ModelExecution, which reserves, *)
(* dispatches, sends and settles one attempt (model-execution.ts:64-119),  *)
(* and the engine jobs whose end and cancellation depend on what their     *)
(* attempts still owe (jobs.ts:183-232).                                   *)
(*                                                                         *)
(* Every ledger operation is one publication under the writer barrier,     *)
(* hence one step; only the cancellation of a job publishes twice in one   *)
(* holding (the ledger, then jobs.json), hence cancelling.  A publication  *)
(* may throw although it became durable, or fail without a change (Fault). *)
(*                                                                         *)
(* Data: one resource stands for input, output and reasoning tokens and    *)
(* retries, whose limits the code checks in the same form, and for money   *)
(* at one unit of charge per token on the api channel.  The ledger day is  *)
(* one day.  Policies, prices and identities match: the refusals on a      *)
(* mismatch (143-144, 168-169) change nothing.  A process number that the  *)
(* system gives again to another program only keeps a slot longer.         *)
(***************************************************************************)
EXTENDS Naturals, FiniteSets, Functions

CONSTANTS
  Attempts,    \* identities of requests, each used by one call
  ModelRuns,   \* runs in the ledger: those of roles and those of jobs
  RunOf,       \* the run of each attempt
  Parent,      \* the job's run above a run, or NoRun
  BillingKey,  \* the billing key of each run
  ApiRuns,     \* runs billed through the api channel
  HostRuns,    \* runs whose requests an editor host sends and reports on
  JobRuns,     \* the parent runs, one per job; a job is named by its run
  NoRun,
  Unknown,     \* usage that was not reported
  Resources,   \* what each attempt asks for
  Tokens,      \* token budget of each run
  Requests,    \* request limit of each run
  Concurrency, \* concurrency limit of each run
  KeyAmount,   \* amount of one day, by billing key
  Usages,      \* what a request may really consume
  MayBeLate,   \* bound: runs that may outlive their time
  MaxInterrupted \* bound: publications that throw, and crashes

ASSUME RunsAssumption ==
  /\ IsFiniteSet(Attempts) /\ JobRuns \subseteq ModelRuns
  /\ RunOf \in [Attempts -> ModelRuns \ JobRuns]
  /\ NoRun \notin ModelRuns
  /\ Parent \in [ModelRuns -> JobRuns \cup {NoRun}]
  /\ \A p \in JobRuns : Parent[p] = NoRun
ASSUME AmountsAssumption ==
  /\ Usages \subseteq Nat /\ Unknown \notin Nat
  /\ Resources \in [Attempts -> Nat]
  /\ {Tokens, Requests, Concurrency} \subseteq [ModelRuns -> Nat]
  /\ \A r \in ApiRuns : KeyAmount[BillingKey[r]] \in Nat
ASSUME AdmissionBoundsAssumption == MayBeLate \subseteq ModelRuns /\ MaxInterrupted \in Nat

VARIABLES
  opened,    \* ledger: runs that have a record
  cancelled, \* ledger: runs whose cancellation was requested
  attempt,   \* ledger: the record of each attempt
  halted,    \* ledger: billing keys stopped by a variance
  job,       \* jobs.json: state of the job of each parent run
  worked,    \* jobs.json: jobs whose local work is known to have ended
  cancelling, \* the job whose cancellation holds the writer barrier, or NoRun
  late,      \* runs past their elapsed budget
  process,   \* number of the daemon process
  call,      \* what the request cycle of each attempt does in this process
  wire,      \* transport of each request: "none", "inflight" or "answered"
  spent,     \* what the provider consumed for an answered request
  partial,   \* history: attempts with a usage reported before their end
  faulty     \* history: publications that threw

ledger == <<opened, cancelled, attempt, halted>>
jobs == <<job, worked, cancelling>>
world == <<late, process>>
transport == <<wire, spent>>
avars == <<ledger, jobs, world, call, transport, partial, faulty>>

AttemptStates == {"absent", "reserved", "dispatched", "uncertain", "settled", "released"}
AttemptRecord == [state : AttemptStates, acknowledged : BOOLEAN, usage : Nat \cup {Unknown},
                  variance : BOOLEAN, owner : Nat]

AdmissionTypeOK ==
  /\ opened \subseteq ModelRuns /\ cancelled \subseteq opened
  /\ attempt \in [Attempts -> AttemptRecord]
  /\ job \in [JobRuns -> {"running", "recovery_required", "over"}]
  /\ worked \subseteq JobRuns /\ cancelling \in JobRuns \cup {NoRun}
  /\ late \subseteq ModelRuns
  /\ process \in Nat
  /\ call \in [Attempts -> {"none", "reserved", "undo", "dispatched", "sent", "failed"}]
  /\ wire \in [Attempts -> {"none", "inflight", "answered"}]
  /\ spent \in [Attempts -> Nat]
  /\ partial \subseteq Attempts /\ faulty \in Nat

AdmissionInit ==
  /\ opened = {} /\ cancelled = {} /\ halted = {}
  /\ attempt = [a \in Attempts |-> [state |-> "absent", acknowledged |-> FALSE, usage |-> Unknown,
                                    variance |-> FALSE, owner |-> 0]]
  /\ job = [p \in JobRuns |-> "running"]
  /\ worked = {} /\ cancelling = NoRun
  /\ late = {} /\ process = 1
  /\ call = [a \in Attempts |-> "none"]
  /\ wire = [a \in Attempts |-> "none"]
  /\ spent = [a \in Attempts |-> 0]
  /\ partial = {} /\ faulty = 0

-----------------------------------------------------------------------------
(***************************************************************************)
(* What the ledger says of an attempt                                      *)
(***************************************************************************)
Counts(a) == attempt[a].state \notin {"absent", "released"}
Owes(a) == Counts(a) /\ ~attempt[a].acknowledged

UsedReported(a) == IF ~Counts(a) \/ attempt[a].usage = Unknown THEN 0 ELSE attempt[a].usage
Used(a) == IF ~Counts(a) THEN 0
           ELSE IF attempt[a].usage = Unknown THEN Resources[a] ELSE attempt[a].usage

\* A request may still be in flight: its run is in time and its process lives.
Live(a) == RunOf[a] \notin late /\ attempt[a].owner = process

OfRun(r) == {a \in Attempts : RunOf[a] = r}
Siblings(p) == {a \in Attempts : Parent[RunOf[a]] = p}
OfKey(k) == {a \in Attempts : RunOf[a] \in ApiRuns /\ BillingKey[RunOf[a]] = k}
Active(k) == {a \in Attempts : BillingKey[RunOf[a]] = k /\ Owes(a) /\ Live(a)}

Total(S) == SumFunctionOnSet([a \in Attempts |-> Used(a)], S)

\* The count, token and concurrency ceilings of run r over the attempts S.
Fits(a, r, S) ==
  /\ r \notin late
  /\ Cardinality({b \in S : Counts(b)}) < Requests[r]
  /\ Total(S) + Resources[a] <= Tokens[r]

-----------------------------------------------------------------------------
(***************************************************************************)
(* Publications                                                            *)
(***************************************************************************)
Free == cancelling = NoRun
MayInterrupt == faulty + process <= MaxInterrupted
Fault == MayInterrupt /\ faulty' = faulty + 1
NoFault == UNCHANGED faulty

JobOf(a) == Parent[RunOf[a]]
AssertJobCurrent(p) == p # NoRun => job[p] = "running"

RegisterParentRun(p) ==
  /\ Free /\ AssertJobCurrent(p) /\ p \notin worked
  /\ p \notin opened
  /\ opened' = opened \cup {p}
  /\ UNCHANGED <<cancelled, attempt, halted, jobs, world, call, transport, partial, faulty>>

\* A reply lost after the reservation became durable leaves it unreleased.
Reserve(a) ==
  LET r == RunOf[a]
      p == JobOf(a)
      k == BillingKey[r]
  IN
  /\ Free /\ AssertJobCurrent(p)
  /\ call[a] = "none" /\ attempt[a].state = "absent"
  /\ r \notin cancelled
  /\ r \in ApiRuns => k \notin halted
  /\ Fits(a, r, OfRun(r))
  /\ \A b \in Active(k) \cup {a} : Cardinality(Active(k)) < Concurrency[RunOf[b]]
  /\ r \in ApiRuns => Total(OfKey(k)) + Resources[a] <= KeyAmount[k]
  /\ p # NoRun =>
       /\ p \in opened \ cancelled
       /\ Fits(a, p, Siblings(p))
       /\ Cardinality({b \in Siblings(p) : Owes(b) /\ Live(b)}) < Concurrency[p]
  /\ opened' = opened \cup {r}
  /\ attempt' = [attempt EXCEPT ![a].state = "reserved", ![a].owner = process]
  /\ \/ call' = [call EXCEPT ![a] = "reserved"] /\ NoFault
     \/ UNCHANGED call /\ Fault
  /\ UNCHANGED <<cancelled, halted, jobs, world, transport, partial>>

\* Dispatch refuses, or its reply is lost after it became durable: undo.
Dispatch(a) ==
  LET r == RunOf[a]
      p == JobOf(a)
      Admitted == /\ AssertJobCurrent(p)
                  /\ r \notin cancelled \cup late
                  /\ p \notin cancelled
  IN
  /\ Free /\ call[a] = "reserved"
  /\ \/ /\ Admitted
        /\ \/ /\ attempt' = [attempt EXCEPT ![a].state = "dispatched"]
              /\ \/ call' = [call EXCEPT ![a] = "dispatched"] /\ NoFault
                 \/ call' = [call EXCEPT ![a] = "undo"] /\ Fault
           \/ UNCHANGED attempt /\ call' = [call EXCEPT ![a] = "undo"] /\ Fault
     \/ /\ ~Admitted
        /\ call' = [call EXCEPT ![a] = "undo"]
        /\ UNCHANGED attempt /\ NoFault
  /\ UNCHANGED <<opened, cancelled, halted, jobs, world, transport, partial>>

Releasable(a) == attempt[a].state = "reserved"

\* Release, after an aborted signal or a failed dispatch: only a reservation
\* that the ledger shows undispatched; a failure is swallowed.
Release(a) ==
  /\ Free /\ call[a] \in {"reserved", "undo"}
  /\ call' = [call EXCEPT ![a] = "none"]
  /\ \/ /\ Releasable(a)
        /\ attempt' = [attempt EXCEPT ![a].state = "released", ![a].acknowledged = TRUE]
        /\ NoFault
     \/ ~Releasable(a) /\ UNCHANGED attempt /\ NoFault
     \/ UNCHANGED attempt /\ Fault
  /\ UNCHANGED <<opened, cancelled, halted, jobs, world, transport, partial>>

\* The effect of a settlement that observes the usage u.
Settlement(a, u, acknowledged) ==
  LET old == attempt[a]
      usage == IF u = Unknown THEN old.usage ELSE u
      acked == old.acknowledged \/ acknowledged
      variance == old.variance \/ (usage # Unknown /\ usage > Resources[a])
  IN
  /\ old.state \in {"dispatched", "uncertain"}
  /\ u # Unknown /\ old.usage # Unknown => u >= old.usage
  /\ attempt' = [attempt EXCEPT ![a] =
       [@ EXCEPT !.usage = usage, !.acknowledged = acked, !.variance = variance,
                 !.state = IF usage # Unknown /\ acked THEN "settled" ELSE "uncertain"]]
  /\ halted' = IF variance /\ RunOf[a] \in ApiRuns THEN halted \cup {BillingKey[RunOf[a]]} ELSE halted
  /\ partial' = IF u # Unknown /\ ~acked THEN partial \cup {a} ELSE partial

\* The end of the request cycle: a failure, an answer, or the return of a
\* transport that could not confirm its end (a native program, a host).
Settle(a) ==
  /\ Free
  /\ \/ call[a] = "failed" /\ Settlement(a, Unknown, FALSE) /\ NoFault
     \/ /\ call[a] = "sent" /\ wire[a] = "answered"
        /\ \E u \in {spent[a], Unknown} : Settlement(a, u, TRUE)
        /\ NoFault
     \/ /\ call[a] = "sent" /\ wire[a] = "inflight"
        /\ \E u \in Usages \cup {Unknown} : Settlement(a, u, FALSE)
        /\ NoFault
     \/ /\ call[a] \in {"failed", "sent"} /\ Fault
        /\ UNCHANGED <<attempt, halted, partial>>
  /\ call' = [call EXCEPT ![a] = "none"]
  /\ UNCHANGED <<opened, cancelled, jobs, world, transport>>

\* A host reports after its request cycle: the end, if it observed it, or
\* once, to the daemon that admitted the request, what was used so far.  A
\* report that differs from an earlier one is refused (settlementHash).
HostReport(a) ==
  /\ Free /\ RunOf[a] \in HostRuns /\ call[a] = "none"
  /\ \/ /\ wire[a] # "inflight"
        /\ \E u \in {spent[a], Unknown} : Settlement(a, u, TRUE)
     \/ /\ attempt[a].owner = process
        /\ attempt[a].usage = Unknown /\ ~attempt[a].acknowledged
        /\ \E u \in Usages :
             /\ wire[a] = "answered" => u <= spent[a]
             /\ Settlement(a, u, FALSE)
  /\ UNCHANGED <<opened, cancelled, jobs, world, call, transport, faulty>>

\* Operator review of a halted billing key.
ResumeBillingKey(k) ==
  /\ Free /\ k \in halted
  /\ halted' = halted \ {k}
  /\ UNCHANGED <<opened, cancelled, attempt, jobs, world, call, transport, partial, faulty>>

-----------------------------------------------------------------------------
(***************************************************************************)
(* Transport and clock                                                     *)
(***************************************************************************)
MaySendUnconfirmed(a) == call[a] \in {"dispatched", "undo"}
MaySend(a) == call[a] = "dispatched"

Send(a) ==
  /\ MaySend(a)
  /\ wire' = [wire EXCEPT ![a] = "inflight"]
  /\ call' = [call EXCEPT ![a] = "sent"]
  /\ UNCHANGED <<ledger, jobs, world, spent, partial, faulty>>

\* Aborted before or after the request left, timed out, or refused.
CallFails(a) ==
  /\ call[a] \in {"dispatched", "sent"}
  /\ call' = [call EXCEPT ![a] = "failed"]
  /\ UNCHANGED <<ledger, jobs, world, transport, partial, faulty>>

ProviderAnswers(a) ==
  /\ wire[a] = "inflight"
  /\ wire' = [wire EXCEPT ![a] = "answered"]
  /\ \E u \in Usages :
       /\ attempt[a].usage # Unknown => u >= attempt[a].usage
       /\ spent' = [spent EXCEPT ![a] = u]
  /\ UNCHANGED <<ledger, jobs, world, call, partial, faulty>>

DeadlinePasses(r) ==
  /\ r \in (opened \cap MayBeLate) \ late
  /\ late' = late \cup {r}
  /\ UNCHANGED <<ledger, jobs, process, call, transport, partial, faulty>>

-----------------------------------------------------------------------------
(***************************************************************************)
(* Jobs                                                                    *)
(***************************************************************************)
UnknownEffectsLive(p) == {a \in Siblings(p) : Owes(a) /\ Live(a)}
UnknownEffects(p) == {a \in Siblings(p) : Owes(a)}

CancelUnopened(p) ==
  /\ Free /\ job[p] # "over"
  /\ cancelling' = p
  /\ cancelled' = cancelled \cup {p}
  /\ UNCHANGED <<opened, attempt, halted, job, worked, world, call, transport, partial, faulty>>

\* The first publication of a cancellation: the run in the ledger.
CancelRun(p) ==
  /\ Free /\ job[p] # "over"
  /\ cancelling' = p
  /\ cancelled' = cancelled \cup ({p} \cap opened)
  /\ UNCHANGED <<opened, attempt, halted, job, worked, world, call, transport, partial, faulty>>

\* The second one: the job is fenced.  If it fails the job runs on.
CancelJob(p) ==
  /\ cancelling = p
  /\ cancelling' = NoRun
  /\ \/ job' = [job EXCEPT ![p] = "recovery_required"] /\ NoFault
     \/ UNCHANGED job /\ Fault
  /\ UNCHANGED <<ledger, worked, world, call, transport, partial>>

\* The work returned or threw; calls it did not await may still be under way.
Finish(p) ==
  /\ Free /\ job[p] # "over" /\ p \notin worked
  /\ worked' = worked \cup {p}
  /\ job' = [job EXCEPT ![p] = IF UnknownEffects(p) = {} THEN "over" ELSE "recovery_required"]
  /\ UNCHANGED <<ledger, cancelling, world, call, transport, partial, faulty>>

ReconcileSettled(p) ==
  /\ Free /\ job[p] = "recovery_required" /\ p \in worked
  /\ UnknownEffects(p) = {}
  /\ job' = [job EXCEPT ![p] = "over"]
  /\ UNCHANGED <<ledger, worked, cancelling, world, call, transport, partial, faulty>>

\* The daemon dies; its successor fences what was running (jobs.recover).
CrashAndRecover ==
  /\ MayInterrupt
  /\ process' = process + 1
  /\ call' = [a \in Attempts |-> "none"]
  /\ cancelling' = NoRun
  /\ job' = [p \in JobRuns |-> IF job[p] = "running" THEN "recovery_required" ELSE job[p]]
  /\ UNCHANGED <<ledger, worked, late, transport, partial, faulty>>

RequestCycle(a) ==
  \/ Reserve(a) \/ Dispatch(a) \/ Release(a) \/ Send(a) \/ CallFails(a) \/ Settle(a)

AdmissionNext ==
  \/ \E a \in Attempts : RequestCycle(a) \/ ProviderAnswers(a) \/ HostReport(a)
  \/ \E r \in ModelRuns : ResumeBillingKey(BillingKey[r]) \/ DeadlinePasses(r)
  \/ \E p \in JobRuns :
       RegisterParentRun(p) \/ CancelRun(p) \/ CancelJob(p) \/ Finish(p) \/ ReconcileSettled(p)
  \/ CrashAndRecover

AdmissionSpec == AdmissionInit /\ [][AdmissionNext]_avars

-----------------------------------------------------------------------------
(***************************************************************************)
(* Properties                                                              *)
(***************************************************************************)

\* What was sent is never given back: a request that left this machine has a
\* durable dispatch and stays accounted for, whatever reply was lost between
\* its reservation, dispatch and release (model-admission.ts:266-275,
\* model-execution.ts:103-107).
NothingSentIsReleased ==
  \A a \in Attempts : wire[a] # "none" => attempt[a].state \in {"dispatched", "uncertain", "settled"}

\* Requests that this process has in flight never exceed the concurrency of
\* any run among them, nor of their job, although slots of orphaned and late
\* attempts are given up (model-admission.ts:156-165, 190).
InFlight(S) == {a \in S : call[a] \in {"dispatched", "sent"} /\ RunOf[a] \notin late}
InFlightIsBounded ==
  /\ \A a \in InFlight(Attempts) :
       Cardinality({b \in InFlight(Attempts) : BillingKey[RunOf[b]] = BillingKey[RunOf[a]]})
         <= Concurrency[RunOf[a]]
  /\ \A p \in JobRuns : Cardinality(InFlight(Siblings(p))) <= Concurrency[p]

\* The liability of a set of attempts, counted from the outside: the whole
\* allocation of a request that was sent, until its end is known, then what
\* it consumed, up to its allocation (an overrun is the provider's).
Liability(a) ==
  IF wire[a] = "none" THEN 0
  ELSE IF wire[a] = "answered" /\ spent[a] <= Resources[a] THEN spent[a]
  ELSE Resources[a]
Exposure(S) == SumFunctionOnSet([a \in Attempts |-> Liability(a)], S)

\* No run, no job and no billing key is exposed beyond its budget, through
\* lost replies, crashes, late answers and released reservations.  Attempts
\* of which a usage was reported before their end are excepted: the ledger
\* then holds that usage only (model-admission.ts:61-65, 150-202).
SpendIsCovered ==
  LET Covered(S, limit) == S \cap partial = {} => Exposure(S) <= limit
  IN
  /\ \A r \in ModelRuns : Covered(OfRun(r), Tokens[r])
  /\ \A p \in JobRuns : Covered(Siblings(p), Tokens[p])
  /\ \A r \in ApiRuns : Covered(OfKey(BillingKey[r]), KeyAmount[BillingKey[r]])

\* A job that is over has no request of its own still in flight: neither an
\* unawaited call nor a late cancellation slips past its end (jobs.ts:185-232).
EndedJobOwesNothing ==
  \A p \in JobRuns : job[p] = "over" => \A a \in Siblings(p) : wire[a] # "inflight"
=============================================================================
