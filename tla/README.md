# DreamGraph: a TLA+ model of its durable core

DreamGraph is a daemon that keeps the knowledge graph of a project in a
directory of JSON files (an *instance*) and lets agents, schedules, webhooks
and operators read and change it. This directory models the part of the daemon
on which everything else relies: who may touch the stores when, how a change of
several files becomes one durable publication, how work that reaches outside
the process survives cancellation and crashes, and how a plan goes from
approval to completion. Everything here is translated from the sources; the
comment of each module names its file, and `PROJECT.json` maps each definition
to the lines it stands for.

Contents: 1. Inventory. 2. Modules. 3. Runs. 4. Fairness. 5. Disagreements
between code and documents. 6. Proofs. 7. What is only model-checked.
8. What is abstracted or left out. 9. Plan.

## 1. Inventory

Paths are below `src/src/`. The implementation is about 340 TypeScript files;
the packages, the editor and browser extensions, the explorer and the Python
analytics around it are clients of the daemon.

At startup the daemon takes the instance's writer lease, recovers an
interrupted publication (`index.ts:357`) before it loads anything, and recovers
its job store (`server/server.ts:205`, `cognitive/scheduler.ts:669`) before it
serves anything.

### Components and their state

| Component | State | Operations | Interacts with |
| --- | --- | --- | --- |
| Graph barrier, `utils/graph-reconciliation-barrier.ts` | reader count, writer flag, queue of resolvers; an ownership record per asynchronous context | `withGraphRead`, `withGraphMutation`, `withGraphReconciliation` | wraps every access to the stores |
| Publication, `graph/publication.ts` | store files, `publication_state.json` (sequence, epoch, receipts, hashes, outbox), receipt archives, `reconciliation_journal.json` | `commitGraphWrites`, `recoverGraphPublication`, `acknowledgePublicationEvents`, `drainPublicationEvents`, `retirePublicationReceiptEpoch` | runs under the writer side of the barrier; every other component publishes through it |
| Foreign reads, same files | the reader's two stamps of the publication state | a read in a process that does not hold the writer lease | races the publications of the daemon |
| Engine jobs, `cognitive/jobs.ts` | `jobs.json`: state, fence, lease, cancellation, effects, `work_settled` of each job | accept, run, begin/settle effect, cancel, reconcile, recover | every change is a publication; used by scheduler, webhooks, computer use, model calls |
| Plan workflow, `discipline/plan-workflow.ts` | plan lifecycle, scope approval, slices, current set, execution leases, final verification | the commands of `reducePlanCommand` | `plan-authority.ts` applies a command by compare-and-swap in one publication; `plan-runtime.ts` admits and ends executions |
| Managed executions, `server/managed-execution.ts`, `server/host-model-admission.ts`, `graph/execution-context.ts`, `discipline/plan-runtime.ts` | the execution's record in `execution_contexts.json`; the lease in `plan_state.json`; reports on model requests; in memory the authority and the table of requests | begin, deliver, model request and report, finish, observe a stop, recover | plan workflow (leases), model admission, computer use; editors and SDK hosts outside |
| Model admission, `cognitive/model-admission.ts`, `cognitive/model-execution.ts` | the spend ledger: runs, attempts, billing keys, days | register, reserve, dispatch, settle, release, cancel, resume | engine jobs cancel its runs and wait for its attempts; providers and editor hosts settle them |
| Change obligations, `graph/change-obligations.ts`, `cognitive/digestion.ts` | `change_obligations.json`, `dirty_partitions.json`, the stages in `graph_maintenance.json` | managed source effects, recovery, reconciliation, digestion | source tools, the working tree, publication, engine jobs |
| Webhooks, `webhooks/` | `webhook_subscriptions.json` with its counters, `webhook_dead_letter.json`; the delivery loops and the resumption of this process | dispatch an event, deliver, resume queued deliveries, enable, disable, remove | each delivery is an engine job whose only lane is its subscription; receivers outside |
| Scheduler, `cognitive/scheduler.ts`, `cognitive/schedule-definition.ts` | `schedules.json`: definitions, counters, occurrences, receipts, tick cursor | tick, run now, update, delete, recover | engine jobs, cognitive engine |
| Computer use, `computer/`, `server/computer-control.ts` | the session's journal in the execution context; effects of its job; in memory the broker's abort signal, pause flag and control binding | open, observe, act, pause, resume, stop, recover a stop | engine jobs; grants; a worker process that types and clicks |
| File locks, `utils/mutex.ts`, `utils/atomic-write.ts` | a table of promise chains, the last link of each file | `withFileLock`, `atomicWriteFile` | the writers of the JSON stores hold a file's lock around a read and a write, and the barrier around the write or around all of it |
| Writer lease, `graph/writer-lease.ts` | kernel lease | acquire, release | assumed by publication |
| Cognitive engine, `cognitive/` | AWAKE/REM/NORMALIZING/NIGHTMARE/LUCID, dream graph | cycles, normalization, promotion | publication, model providers |
| Discipline sessions, `discipline/session.ts`, `state-machine.ts` | phase of a governed session | phase changes, tool gating | plan authority, tools |
| Graph reading and events, `graph/` | caches, bounded event replay | projections, retrieval, subscriptions | barrier |
| Server, authority, instances, CLI, plugins, clients | sessions, credentials, registries | MCP and HTTP surface, process control | all of the above |

### What is hard

* **Interleavings.** JavaScript runs to completion only between awaits. The
  barrier resolves a waiter's promise in one microtask and the waiter continues
  in a later one; calls started below an owner inherit its ownership.
* **Two locks.** The lock of a file and the barrier know nothing of each other,
  and the call sites take them in different orders, or only one of them.
* **Failures half way.** A publication replaces several files and its state
  file one after the other; each replacement can fail, so can the rollback and
  the removal of the journal, and the process can die between any two. A
  publication can be durable and still throw to its caller.
* **Work outside the process.** A request may be on the wire when the daemon
  dies, when its job is cancelled, or when its answer arrives.
* **Claims from outside.** A host that did the work says how it ended, perhaps
  twice, perhaps after its authority or the daemon went away, perhaps wrongly.
* **Retries.** Callers that lost an answer retry with the same operation
  identity, perhaps after the receipts of its epoch were archived.
* **Long sequences of legal commands.** Blocking, deferring, reopening and
  redefining slices while others are implemented, verified or under review.

`PROJECT.json` lists the hazards one by one, each at its line, with the
property that covers it or the reason none does.

### What makes each part correct

* Barrier: a writer is alone; counters match owners; nobody is left in the
  queue, overtaken or starved; inherited ownership ends with its owner.
* File locks: a file has one worker at a time, in order of arrival; no update
  is lost where the sites of a file agree on what excludes the others; every
  call that starts ends.
* Publication: the stores change in one step per accepted operation, an
  identity takes effect at most once, foreign edits are not overwritten, events
  are neither lost nor acknowledged before delivery, recovery ends.
* Foreign reads: what a reader gets is one committed state.
* Jobs: no two jobs on one lane, nothing started or sent twice, no outcome
  while an effect is uncertain, cancellation prevails, session work does not
  outlive its process, interrupted runs are fenced, one terminal outcome.
* Plans: executions match the slices they were admitted for, limits hold,
  proofs are about what they prove, completion is earned, revocation reaches
  everything downstream.
* Model admission: what is or may be consumed never exceeds the run's and the
  key's limit, nothing that was sent is given back, concurrency holds, and a
  job does not end while it owes a request.
* Source effects: the graph is owed whatever it has not seen, nothing is
  written twice, no stage is acknowledged for another generation.
* Schedules: `max_runs` holds, an occurrence and a manual request start once,
  the durable cursor passes no slot unseen.
* Managed executions: a lease is given back only when the work under it has
  stopped, whatever the host claims; record, receipts and plan agree.
* Computer use: input only under the fence and generation it was asked for,
  receipts and outcomes that say no more than what happened, stops that are
  proved, final and answered, a pause that is quiet.

## 2. Modules

| Module | Stands for | Composes |
| --- | --- | --- |
| `GraphBarrier` | the in-process reader/writer barrier and its ownership records | |
| `FileLocks` | the locks of the store files and the call sites that use them | extends `GraphBarrier`: every step of a call is one of its steps or leaves it alone |
| `Publication` | commits, recovery, receipts, outbox, faults and crashes | runs one call at a time, as `GraphBarrier` shows |
| `AtomicPublication` | what publication promises to its callers | implemented by `Publication` |
| `StableRead` | a reader in another process | extends `Publication`: its steps interleave with all of those |
| `EngineJobs` | the job store, runs, effects, restarts | a mutate is one publication |
| `Webhooks` | subscriptions, the delivery loop, the resumption, dead letters | extends `EngineJobs` and implements it: a delivery is a job |
| `PlanWorkflow` | the plan reducer with the runtime's admissions | a command is one publication |
| `HostExecution` | the executions of native hosts: authority, model requests, finish, observed stop | extends `PlanWorkflow`: leases and foreign commands are its steps |
| `ModelAdmission` | the spend ledger with the request cycle, host reports and the end of jobs | the cancellation in `EngineJobs` |
| `SourceEffects` | managed edits, their ledgers and recovery, the digestion stages | a ledger change is one publication |
| `Schedules` | schedules, ticks, occurrences and their jobs | the jobs of `EngineJobs`, abstracted |
| `ComputerSession` | one computer-use session: broker, journal, control binding, job and worker | the effects and outcomes of `EngineJobs`, for one job |
| `*_proofs` | theorems about the module they extend; `GraphBarrier_proofs` covers `FileLocks`, `Publication_proofs` `StableRead`, `PlanWorkflow_proofs` `HostExecution`, `Ledgers_proofs` both `SourceEffects` and `Schedules` | |
| `MC*` | instances for TLC | |

### GraphBarrier

A task is one asynchronous call chain. `pc` says whether it is `outside`,
`waiting` in the queue, `granted` (its promise is resolved and the counters
include it, but its continuation has not run) or `inside`; `context` is the
owner whose ownership record its AsyncLocalStorage holds. `AcquireRead`,
`AcquireWrite` and `Enqueue` are the synchronous part of `acquire`, `Resume`
the continuation after the await, `EnterInline` a call that finds an active
compatible record, `Spawn` a task started below an owner, `LeaveOwner` the
`finally` of the outermost call with its drain, `LeaveInline` the return of an
inline one and `Unwind` an exception that ends all a task's calls. A write
requested under a read record is refused by the code and is no step.

The model has one directory. It assumes (`ChildrenDone`) that an owner awaits
the tasks it started before it returns: the code tests ownership only when a
call starts, so a task that is not awaited would outlive its owner's release.

### FileLocks

A task is one call at a call site, and `Sites` says which sites meet: the style
and the file of each task. `Join`, `Locked` and `Unlock` are `withFileLock`:
its synchronous part, the await of the predecessor's gate and its `finally`;
`tail` is the table of locks and `prev` the gate a call awaits.
`EnterPublication`, `ResumePublication` and `LeavePublication` are the barrier,
by the actions of `GraphBarrier`. `Load`, `Store` and `Fail` are the read, the
replacement and every other end of the function that works on the file. A style
is an order of these steps:

| Style | Order | In the code |
| --- | --- | --- |
| `resource_first` | lock, read, barrier for the write alone | `register_ui_element` and the other tools that call `atomicWriteFile` under `withFileLock` |
| `publication_first` | barrier, lock, read, write | `mutateTensions`, `appendHistoryEntry`; every tool of a managed execution |
| `publication_only` | barrier, read, write | `nightmare`, `publishEnrichmentBatch` |
| `load_first` | read, lock, barrier, write | `appendDreamEdges` |
| `clearing` | lock, barrier, write of an empty document | `clearHistory` |
| `other` | the barrier for anything else | snapshots, nested calls |

A document is the set of the calls whose change it holds. `published` are the
calls whose change nothing has replaced on purpose. `SitesAgree` says when the
sites of a file exclude each other between read and write: by its lock, by the
barrier, or by the dream cycle, which runs one such call at a time. In
`MCFileLocks`, `UniformSites` are four tasks on the barrier alone, three calls of
`register_ui_element` beside one of those, and two tension writers beside two
steps of the dream cycle; `HistorySites` are `appendHistoryEntry` and
`clearHistory`.

### Publication, AtomicPublication and StableRead

`disk` holds the contents of the store files and receipt archives, `pub` the
state file, `journal` the journal. The call that holds the barrier goes through
phases: `PrepareCommit`, `PrepareAcknowledge` or `PrepareRetire` make every
check of the code and write the journal; `Replace` replaces one file;
`PublishMarker` replaces the state file, which is the commit point; `Seal`
removes the journal and returns. `StartRecovery` is what every call does first
when it finds a journal: forward if the state file already names the journal's
transaction, back otherwise; then `Restore` per file and `FinishRecovery`.
`Fail` is a disk operation that fails, `Crash` the death of the process, both
possible between any two steps and also during a recovery. `Edit` is a change
by a program that does not use the barrier. `StartDrain`, `Deliver`,
`PrepareAcknowledge`, `AcknowledgedBefore` and `DrainFails` are a drain, which
holds no barrier while it delivers.

`dispatched` records the `operation_epoch` an identity was first sent with: a
caller retries with the same one, as the API asks for.

The refinement maps the abstract content of a store to what recovery would
leave in it (`Recovered`), so the abstract commit happens when the state file
is replaced; everything before it, a rollback, and a crash are stutters.

`StableRead` adds a reader that stamps the state file and the journal, reads
the stores one by one in any order, stamps again and returns or is refused. `view`
remembers the committed contents at the first stamp.

### EngineJobs

`job` is `jobs.json`, one record per job. `pc`, `held` and `intent` are the run
in this process: they vanish with a `Crash`. `wire` is the world outside: a
request in flight stays so across crashes until its `Answer`. `Accept`, `Run`,
`BeginEffect`, `SettleEffect`, `Finish`, `Cancel`, `ReconcileSettled` and
`Recover` are the functions of that name; `Send` is the transport between
`BeginEffect` and its settlement; `WorkEnds` is the return or the exception of
the arbitrary work function, deadlines and aborts included. A mutate that
became durable and threw is the variant of its action that takes `Thrown`.

### Webhooks

The module extends `EngineJobs`: a delivery is a job, its attempts are the
effects `1..MaxAttempts`, its lane is its subscription. Every step is a step of
`EngineJobs` or leaves the job store alone; what the module adds is the work
that `EngineJobs` leaves arbitrary. `List`, `AcceptDelivery` and `RunDelivery`
are an event (or `webhook_test`) from `dispatchEvent` to `jobs.run`, with the
awaits between them: `asked` is how far it has come. `FindQueued` and `Resume`
are the resumption at startup, which reads the job store once and then takes
the deliveries one after the other; `Abandon` is its wait for a run ended by an
abort while the work goes on. `step` and `attempt` are the position in
`executeDelivery`: `Begin`, `Post`, `EndWait`, `Settle`, then `Taken`,
`Refused` or the catch (`Unconfirmed`), `NextAttempt`, `DeadLetter`,
`CountDead`. `Interrupted` is an await that throws. `reply` is what the
receiver made of each request, which the sender may never learn; no code reads
it.

### PlanWorkflow

A step is one accepted command. `PlanStep` has the operator's commands on the
plan, `SliceStep` those on a slice, `Execution` the admission and end of
executions. `implemented` counts the implementations a slice has had and stands
for `implementation_revision`; a verification records the count and the
acceptance hash it was about; `Stale` is a verification that is no longer
fresh. `Revoked`, `Upstream` and `Downstream` are the reducer's revocation of
dependents; reconciliation after a change of definition is part of the step
that changes it.

### HostExecution

The module extends `PlanWorkflow`: `Command` is any step of it, and the control
calls of the host admit and end leases by its `AdmitSlice` and `EndExecution`.
`call` is a control call of the host with the place where it is, and `held`
says which call holds the writer barrier. `Begin`, `AdmitLease`,
`GrantAuthority` are `beginHostExecution`; `Finish`, `Reenter`, `ApplyClosure`,
`MarkUnknown`, `CloseRecord` are `endHostExecution` with its wait for the model
requests between two holdings; `Observe`, `SettleObserved`, `PrepareRelease`,
`ApplyRelease`, `RecordRecovery`, `CloseRecord` are `observeHostModelStop`. Any
of them stops at any point by `CallThrows` or `Crash`. A request goes through
`ask` (the table in memory), `attempt` (the ledger) and `report`; `native` is
what the host really does, which no code reads. `live` is the authority, lost
by `CloseAtCeiling`, a finish or a crash. `Apply` is `applyPlanCommand`: it
replays a committed operation and refuses any other at a moved revision.
`PrepareRelease` reads the lease as `projectPlanState` shows it: one that still
runs in the stored plan may read as recovery debt, because its time is over.
The model has no clock, so it may read either way from the moment the work no
longer has its authority; no other step looks at the time of a lease. The
ledger's own publications do not fail here; in `ModelAdmission` they do.

### ModelAdmission

An attempt goes through two records: `attempt` in the durable ledger and
`call`, the request cycle of `ModelExecution` in this process; `wire` is what
the transport did, which neither of them can see. `Reserve`, `Dispatch`,
`Settle`, `Release`, `RegisterParent`, `Resume` and the two steps of a job's
cancellation are the ledger's functions with all their checks; the cycle's own
steps are the send, the answer, the abort and the error paths. A ledger call
that throws may have become durable (`faulty`); a crash leaves what was
dispatched to be found. `HostRuns` are runs whose request an editor host sends:
it reports usage over HTTP and may report part of it first. `late` marks runs
past their elapsed budget, and `process` tells the owner of an attempt from its
successor; both decide whether a slot is still live.

### SourceEffects

`source` is the working tree, which other programs edit too (`ForeignEdit`).
`Intend`, `Recheck`, `WriteFile`, `Record` and `LeaveUnknown` are
`executeManagedSourceEffect` from intent to record, interruptible between any
two. `Save` is the write of both ledger files with the rule (`Dirty`) that says
what happens to the partition of each file; `RecoverEffect` is the startup
recovery that compares contents. `Reconcile(S)` is a graph publication that
names obligations. `ClaimStage`, `RunStage` and `FinishStage` are the digestion
pass. `graphed` remembers what the graph took in last, `enriched` what it was
enriched from; no code reads these.

### Schedules

A runner is a tick or a manual call with its own position: `admit` (it claims
proposals one by one), `run`, `work` (a job of its own is running), `finish`.
`Proposed` is `evaluateSchedule`, `MayClaim` the guards of a claim, `Claim` the
publication of the job and then of the occurrence, `ClaimThrows` an exception
before, between or after the two. `Advance` moves the cursor when all proposals
were admitted. `FinishOccurrence` counts the run and stops the schedule. Manual
requests leave a receipt by which a retry finds its occurrence.

### ComputerSession

One session of `computer/broker.ts`. `journal` is the session in the execution
context (state, fence, generation, stop, pause, receipts), `effect` and `job`
the part of its engine job that matters here (each action is an effect, and so
is the worker's life), `broker` and `binding` what lives in memory, `worker` the
process. `op`, `pausing`, `resuming` and `stopper` say where the four kinds of
activity are; each advances from await to await. An action goes through
`Act` (checks), `Review` (the operator), `Prepare` (intent in the journal),
`BeginEffect`, `AssertInput`, `Dispatch`, the worker's `Deliver` and `Answer`,
`Record` (observation), `UpdateTarget`, `Settle` and `AcknowledgeEffect`; its
catch is `Undo` and `UndoEffect`. `stopPhysical` runs for the broker, for the
binding (also on revocation) and for `recoverStop`, possibly all at once. The
worker carries out or drops an action the broker gave up, releases its input
and ends in its own time, or dies without proof.

### MCEngineJobs, MCLedgers and MCHostExecution

`MCEngineJobs` checks arbitrary jobs and webhook deliveries in one instance:
the initial state chooses which of the two the behaviour is about. In `MCLedgers`, four parts
(snapshot reads, admission, source effects, schedules) write disjoint files, and every property speaks of one of them. They are checked the
same way: only the chosen `subject` moves, and the state space is the sum of
the four, not their product. `MCHostExecution` checks
`PlanWorkflow` alone and under managed executions in the same way; what a
`kind` of behaviour may do is named there (`AsChain`, `AsPair`, `AsOne`,
`AsTwo`, `AsChat`).

## 3. Runs

| Run | Question | Bounds | States |
| --- | --- | --- | --- |
| `barrier` | Do exclusion, coverage and order hold over all interleavings, is no update lost at sites that agree, are file locks granted in order, and does every call end? | 4 tasks, 1 inline call each per ownership; three mixes of sites | 125 068 |
| `lock_order` | Does every call end when the sites of one file take lock and barrier in different orders? | 2 calls | violated |
| `publication` | Do commits, retirement, faults, crashes and foreign edits implement `AtomicPublication`, keep receipts and end; do drains deliver in order and acknowledge only what was delivered? | 2 stores, 3 payloads, 1 identity and anonymous commits, 4 publications, 1 retirement, outbox of 2, batches of 2; 2 faults, 1 edit and 1 drainer, or 1 fault and 2 drainers | 703 728 |
| `jobs` | Are lanes exclusive, effects sent once, outcomes certain, cancellations final, interrupted runs fenced; are webhooks retried only after a refusal, and recorded as they happened? | see below; fence 3, 1 failing mutate, 1 crash | 749 749 |
| `jobs_outcome` | Does a job keep its terminal outcome? | as above | violated |
| `webhook_retry` | Is a delivery whose request timed out retried, or dead-lettered? | as above, without faults and crashes | violated |
| `plan` | Do leases, proofs and revocation stay right, and is completion earned, under redefinition, blocks and parallel executions; is a lease given back only when the work has stopped, as the closure says? | see below | 1 236 069 |
| `host_settled` | Does a settled record mean that no permitted work goes on? | 1 execution without a plan, 1 request | violated |
| `ledgers` | Does a foreign read return one committed state; do spend, source debt and schedules stay right under faults, crashes, foreign edits and parallel ticks? | see below | 851 581 |
| `source_debt` | Does a reconciled change keep its enrichment debt? | 1 file, 2 edits | violated |
| `computer` | Is input fenced, are receipts and outcomes accounted for, does only a proof acknowledge a stop, do the three records of a pause agree, is every request answered? | 1 action, 1 pause and resume, 2 generations, 1 event from outside | 836 323 |
| `plan_final` | Is a completed plan's final review about the implementations it has? | 2 slices, 2 implementations | violated |

Why the bounds suffice for what they are asked:

* *barrier*: the interesting patterns need a holder, a waiting writer, a waiter
  behind it and a newcomer, or an owner, two spawned tasks and an outsider.
  Four tasks give both. A chain of three calls on one file has a first, a
  middle and a last call beside a task on the barrier; the other mix has a pair
  of each of two ways to exclude. The theorems of section 6 remove these bounds.
* *publication*: two faults allow a failure whose recovery is interrupted as
  well; four publications allow a commit, its retirement, a retry across the
  epoch and one more; one identity is enough, because identities meet only
  through the receipt limit; two stores give a journal with a half-replaced
  prefix. Two drainers multiply the states, and what they can do to each
  other needs no second fault and no edit: a behaviour has either those or
  both drainers, as its initial state chooses (`kind`).
* *ledgers*, reads: two stores separate a torn read from a whole one; three
  publications let one complete between the reads and another between the
  stamps; two faults interrupt a publication and its recovery. The stores
  start with equal contents, as after a fresh commit.
* *ledgers*, admission: two attempts of one run compete for tokens, requests
  and slots; a third is of a host's run without a job; all share a key whose
  amount is below the sum of their allocations. Usage may be below or above
  the allocation (1 or 3 of 2). One interruption is a crash or a ledger call
  that throws, at every point. Of two interchangeable attempts the first goes
  first. Only the run of the job may become late.
* *ledgers*, sources: one edit of two files and two of the first file give
  overlap, a chain of successors, and an edit that undoes another; one foreign
  edit, one mishap (an exception of a publication, or a restart); one file is
  known to the graph and one is not.
* *ledgers*, schedules: two runners overlap in all their steps; a cron schedule
  with `max_runs` 1 over three half slots has an on-time and a missed slot; one
  manual request and its retries; two revisions; one disturbance. The runners
  are interchangeable (symmetry). The theorems remove all of these bounds and
  cover interval triggers and skipped slots.
* *jobs*: a conflict needs two jobs and a shared lane; one crash separates a
  process from its successor; fence 3 is reached by run, cancellation and
  recovery. One of the two jobs of arbitrary work is session-bound, and each
  has one effect. The theorems remove all of these.
* *jobs*, webhooks: an event and a test compete for one subscription. Two
  attempts give a refusal followed by another one, an acceptance or a loss; the
  test makes one attempt. The first delivery is listed in the first process;
  the second one also in the second process, beside the resumption. Only the
  second process resumes, and only the first delivery is cancelled by others.
* *plan*, alone: a dependency chain with redefinition needs two slices, three
  definitions and two implementations of the slice upstream (`chain`); the limit matters with two
  independent slices, which is also where the plan is blocked and completed
  (`pair`). The operator owns everything there. Three slices are beyond
  exhaustive search here; the theorems cover any number.
* *plan*, executions: a slice is under way, one execution works on it with one
  request, and two control calls overlap, while two commands of others, one
  block and one mishap (a crash, or a call that throws) fall at every point
  (`one`). Two requests matter to "all stopped" only, so commands, tool calls
  and mishaps are left out beside them (`two`). An execution without a plan
  meets no plan (`chat`). The plan outside the slice stands still meanwhile.
* *computer*: actions run one at a time and meet only through what they leave
  behind in journal and worker, which one action leaves as well; a pause, its
  resume and the action make the fences and generations differ. One event from
  outside (the worker dies, its heartbeat is lost, the daemon ends, the job is
  cancelled, the grant revoked, a stop recovered) falls at every point;
  timeouts, lost answers and what the events set off are not counted. The
  stops of a revocation, of the broker and of the job's end overlap in pairs.
  Two generations suffice for an observation and a resume that outdates it.

`MaxReceipts`, `MaxOutbox`, `MaxRetired`, `MaxQueue` and `Limits` are limits of
the code with smaller values, so that they are reached. `MaxCalls`, `MaxSeq`, `MaxInterrupted`, `MaxMishaps`, `MaxForeignEdits`,
`MayBeLate`, `ForeignFiles`, `MaxClock`, `MaxRevision`, `MaxDisturbed`,
`MaxFaults`, `MaxEvents`, `MaxGeneration`, `MaxEdits`, `MaxFence`, `MaxCrashes`
and `MaxImplementations` bound the search and appear only in guards (`MaxRevision` and `MaxMishaps` belong to
two modules each). Deadlock is not checked, since all these systems may stop:
calls that all ended, a session that ended, a bounded number of publications,
jobs that all ended, a plan that was archived or superseded. That no call waits
for ever is `EveryCallEnds`.

Each property of a passing run has a mutant in `PROJECT.json`: a plausible
error in one definition (a dropped guard, a lost reset, a swapped order) under
which TLC finds the property violated.

## 4. Fairness

* `barrier` and `lock_order`: weak fairness, per task, of `Advance`. Node's event
  loop runs every resolved continuation of a call, and a read, a change or a
  write of a file returns or throws; a task that works on no file is only
  assumed to resume when granted and to leave. Nothing is assumed of arrivals.
  A call that awaits a gate or the barrier has no step to take, so no fairness
  helps it. `EveryCallEnds` depends on it.
* `publication`: weak fairness of the steps of a call that holds the barrier
  and of recovery, which the daemon runs at startup. Callers need not retry,
  and faults remain possible until their bound. `InterruptionEnds` depends on
  it.
* `jobs`: weak fairness of `Recover`, which a starting daemon awaits before it
  serves. `InterruptedRunsAreFenced` depends on it. No fairness is assumed of
  work or of answers: a job in `recovery_required` may stay there for ever,
  and the code means it to (`jobs.ts:175`).
* `computer`: weak fairness of the daemon's own steps: an await of the
  operation, the pause, the resume or a stop ends in an answer, an error or its
  timeout; what revokes a session asks for its stop. Nothing is assumed of the
  worker: it may ignore everything. Of the operator it is assumed that the
  review of an action is answered (`Review` is part of the operation), without
  which a pause could wait until the deadline of the job.
  `RequestsAreAnswered` depends on it.
* The other runs check safety only, under specifications without fairness.

## 5. Disagreements between code and documents

Six statements of the repository that the model does not satisfy. Each has a
run of its own, whose trace is a few steps of legal operation.

1. **Two calls can wait for each other for ever** (`lock_order`,
   `cognitive/engine.ts:1675` and `:1338`). `appendHistoryEntry` takes the
   barrier and then the lock of `dream_history.json`; `clearHistory` takes the
   lock and then, in `atomicWriteFile`, the barrier. A cycle that records its
   session while `clear_dreams` clears the history deadlocks with it, and every
   later access to the graph queues behind the writer.
   `docs/audits/2026-09-30-coverage/plan-refinement.md:55` demands a fixed order,
   and `utils/mutex.ts:6` says the second caller waits until the first has
   finished. A tool that locks first (`tools/ui-registry.ts:1201`) inverts its
   own order when a managed execution dispatches it inside the barrier
   (`server/tool-boundary.ts:120`).
2. **A job can change its terminal outcome** (`jobs_outcome`,
   `cognitive/jobs.ts:302`). The publication in `finish` becomes durable and
   throws; the catch of `run` calls `finish` again with an error, and the job
   that was recorded as succeeded is recorded as failed. The audit asks to
   "Preserve one terminal cause".
3. **A webhook that times out is not retried** (`webhook_retry`,
   `webhooks/worker.ts:271`). The header of the module says "Non-2xx, network
   errors, and timeouts all retry" and end as dead letters (20-22). The code
   retries a non-2xx response only; at the first timeout or transport error it
   records the effect as unknown and throws (264-271), the job is left for
   recovery, no dead letter is written, and no operation delivers it again.
   Here the header is out of date: `docs/ashoka/engine-jobs.md:19` says that
   transport uncertainty "is never silently retried", `docs/workflows.md:454`
   that an unknown response "is not a safe retry", and the property
   `RetriedOnlyAfterRefusal` of the run `jobs` shows that the code keeps to it.
4. **A plan can complete on a final review of earlier implementations**
   (`plan_final`, `discipline/plan-workflow.ts:239`). A plan blocked during its
   final verification remembers that stage; a slice reopened meanwhile resets
   the stage but not the memory, and the unblock returns the plan to final
   verification. `finish_final_verification` looks at the stage only, so the
   final review passes while the slice is in progress; once the slice has been
   implemented and verified anew, `complete_plan` accepts that review.
   `docs/ashoka/plan-authority.md:15` says resolved slices only enable final
   verification.
5. **An edit without effect takes away the enrichment that an earlier change
   is owed** (`source_debt`, `graph/change-obligations.ts:104`). A change is
   reconciled and its file waits for enrichment. A second edit that leaves the
   file as it is settles as failed; it was the only open cause, so all pending
   stages are cleared. `tests/change-obligations.test.ts:146` says a
   reconciled change "retains later enrichment/digestion debt".
   `StagesFollowTheGraph` shows that this is the only way to lose it.
6. **A host can close an execution as settled while its permitted request
   runs** (`host_settled`, `server/managed-execution.ts:308`). A pending permit
   is seen only through the authority in memory (304). When that is gone, by
   its ceiling (157), a restart or an earlier finish whose reply was lost, an
   execution without a plan that claims a confirmed end is believed (308-309);
   nothing is marked unknown (332-333) and the record is settled
   (`graph/execution-context.ts:579-586`). `docs/workflows.md:481` says pending
   permits prevent a host from closing as settled by a mere claim.
   `StoppedBeforeReleased` shows that the lease of a plan is not released so.

Three more statements are contradicted without a run of their own; the first two
are named exceptions of a property that does hold, the third is outside what
the properties state:

* A stable read can return a state that never was committed
  (`graph-reconciliation-barrier.ts:88`, `:97`). A reader in another process
  stamps, a publication replaces a store, the reader reads it, the publication
  fails and is rolled back, the reader stamps again: the state file and the
  journal are as before, so the stamps agree and the reader keeps content that
  was undone. The comment at 97 promises a "stable committed graph view", and
  `graph/publication.ts:111` says that the stamps also detect a publication by
  a different process. `ReadIsCommitted` shows that nothing else goes wrong.
* A claim that throws is logged and the tick goes on, so the cursor passes the
  slot (`scheduler.ts:639-641`); a missed cron slot is then lost.
  `docs/ashoka/engine-jobs.md:17` says that the claim is persisted before the
  cursor advances, and a comment that every proposal is admitted before
  (`scheduler.ts:635`). `CursorFollowsAdmission` excepts such slots
  (`unclaimed`) and shows that no other is passed without its claim.
* A dependency deferred with a waiver can be deferred again without one after
  its dependent was verified on it; the dependent stays verified and fresh
  (`plan-workflow.ts:226`). `tests/plan-workflow.test.ts:75` says that only an
  explicit waiver satisfies dependencies. The reducer asks for the waiver when
  the dependent starts and when its verification begins and passes (166, 213,
  220); later it looks only at a dependency that is itself required (237, 242).

Modelling showed some more behaviour that no statement of the repository
contradicts, and that a maintainer should know of:

* Some sites of one file do not agree on what excludes the others
  (`utils/atomic-write.ts:89`). `publishEnrichmentBatch`
  (`tools/enrichment-publication.ts:58`) changes `ui_registry.json` under the
  barrier without the lock that `register_ui_element` holds, so what it wrote
  between that tool's read and write is overwritten. `appendDreamEdges`
  (`cognitive/engine.ts:648`) reads before it takes the lock under which
  `clear_dreams` clears the graph. `NoUpdateIsLost` holds where `SitesAgree`.
* After an update of a schedule the same slot has a new occurrence id and may
  run again, within `max_runs`. An occurrence whose job waits for an operator
  blocks its schedule (`MayClaim`) until the job is reconciled.
* A partial usage report lowers what an attempt holds before the request has
  ended (`model-admission.ts:133-147`); `SpendIsCovered` excepts such attempts.
* A stage that was running in a process that died stays in the partition's
  `running_generation` until an operator repairs it (`digestion.ts:89-102`).
* `webhook_replay` never delivers: it takes the event from a field `event` that
  stored bodies do not have (`tools/webhooks.ts:199`), `deliver` throws, and
  the dead letter it then appends differs from the one on file, which
  `appendDeadLetter` refuses.
* A delivery that finds its subscription's lane taken stays `blocked` until the
  daemon is restarted: only the resumption at startup looks for it. A
  subscription disabled meanwhile does not stop a delivery that is retrying.
* A webhook that was taken may be recorded as a failed job: its settlement or
  its counter became durable and threw. `OutcomesAreTrue` claims one direction
  only.
* The closure of a managed execution keeps the plan revision it was prepared
  for (`plan-runtime.ts:52-71`). When a plan command comes between a finish
  and its application, each retry is refused with `PLAN_STATE_REVISION_CONFLICT`
  and the lease stays. It goes when its time is over and the host then observes
  the stop of all its requests (an expired lease reads as recovery debt, so the
  release is prepared at the current revision), or when an operator acts. A
  command that comes between the release's own preparation and its application
  makes its retries be refused in the same way.
* An observed stop of all requests gives a lease back although a tool call may
  still run in the daemon; `StoppedBeforeReleased` excepts it.
* An observed stop between the saved closure and the mark
  `host_adapter_termination` finds nothing unknown, so `finishManagedContext`
  settles the record of a plan's execution whose other request goes on
  (`SettledMeansStopped` with `Kinds = {"two"}`).
* Between the recheck of a file and its write (`change-obligations.ts:231`) an
  edit by another program is overwritten; `foreign` excepts it.

## 6. Proofs

The theorems hold for every value of the constants that satisfies the named
assumptions of the modules: finite `Tasks` and `NoTask` outside it; sites of a
style and a file; nonempty lane sets, finite `Jobs`, `None` outside the numbers;
well-formed definitions, a runtime that is no operator, finite `Slices`;
executions of a slice or of none; finite `Attempts`, runs of two levels and
amounts in the naturals; deliveries that are jobs of one lane; edits that name at
least one file; `max_runs` in the naturals; actions apart from their
placeholders. For publication, the placeholders (`None`, `Nothing`, `Anon`)
differ from what they stand beside: contents, numbers, identities, drainers and
journals. The theorems are about the specifications without fairness. Each module
has an inductive invariant, `IInv` or named for its part; its `Invariance`
theorem says it always holds, and the properties follow from it.

* **GraphBarrier_proofs**: `TypeCorrect`, `ExclusionHolds`,
  `CountsAreExactHolds`, `InlineIsCoveredHolds`, `NoAbandonedQueueHolds` and
  the action property `NoOvertakingHolds`.
  Exact counters are not inductive alone. A drain counts the readers it grants
  by their places in the queue, so the queue must hold distinct tasks that wait
  (`QueueIsWaiting`, `OnePlaceEach`), and a release must end an ownership that
  was counted (`RecordsAreLive`). The heart of the proof is `ReadersNext`: the
  number of readers after a drain is the cardinality of the granted prefix of
  the queue. A release with its drain preserves the invariant by three lemmas:
  one of several readers leaves, a writer is first, readers are first. The order of
  admission rests on two more facts (`OrderInv`): the queue holds every waiter,
  and unless a writer is inside, its oldest entry is a writer. Hence an
  acquisition that does not wait finds nobody waiting, and a drain admits a
  prefix of the queue.
  The second part is about `FileLocks`. `CallsImplementBarrier`: a call does
  nothing to the barrier that `GraphBarrier` does not allow, so the theorems
  above hold below it. `FileLockIsExclusiveHolds`, `EntriesAreLiveHolds` and the
  action property `LockIsFifoHolds` rest on the shape of a chain (`LockInv`): the
  table knows only the last call of a file and a call only the one before it, so
  the invariant says that they form one line. Tickets differ, between a call and
  its predecessor nobody stands (`LineIsSingle`), the tail has the highest
  ticket (`TailIsLast`), and whoever holds the lock has nobody before it
  (`HolderIsFirst`). `NoUpdateIsLostHolds` assumes `SitesAgree` and joins all of it:
  what a call has read is still in the file when it writes (`ReadIsCurrent`),
  because every other call that could write is kept out by the lock, by the
  barrier (`Exclusion`) or by the dream cycle (`CycleAlone`); `RivalsApart` is
  that case analysis over the styles.
* **Publication_proofs**: `TypeCorrect`, `ReceiptsAreKeptHolds`,
  `DeliveredInOrderHolds` and `ImplementsAtomic`, the refinement of
  `AtomicPublication`. The invariant says what a journal means at every phase:
  the state file is the journal's old or its new one and its transaction tells
  which (`JournalFits`), the stores already replaced or restored hold what they
  should (`StoresFit`), and the pending step, fixed when the journal is written,
  is still the abstract step to take when it commits (`PendingFits`).
  `IdentitiesFit` accounts for identities: one that took effect has a receipt in
  the state, or was sent with an epoch that is no longer admitted. `EventsFit`
  orders the batches of all drains against the outbox; the least event of a
  batch is found by well-founded minimum. Every step is then shown to be quiet
  (it changes nothing an observer of `Recovered` sees, `QuietSteps`), except the
  replacement of the state file, a delivery and a foreign edit.
  The last part is about `StableRead`: `ReadIsCommittedHolds`, for
  `MaxEdits = 0`, since an edit by a program outside the protocol moves no stamp, so nothing can be promised of
  it. Committed contents change only with the sequence; a store read with other
  contents belongs to a journal that has not committed (`GotFits`), which the
  reader still finds, or which committed and moved the sequence, or which was
  rolled back. The last case is the behaviour named in section 5.
* **EngineJobs_proofs**: `TypeCorrect`, `LaneExclusionHolds`,
  `NothingIsRepeatedHolds`, `OutcomesAreCertainHolds`,
  `CancellationPrevailsHolds`, `SessionWorkHolds`. Lane exclusion speaks of
  work and of requests in flight, while the code looks only at records. The
  invariant ties them: work, and an effect not acknowledged, imply a lease on
  an open record; no request exists without its record; settled work is over;
  leases held are on disjoint lanes. Lemma `OneJob` reduces most actions to the
  one job they change; `Run` alone makes a job a holder and compares it with
  all others; `Recover` changes all records at once and creates no holder.
* **Webhooks_proofs**: `ImplementsJobs` (a delivery obeys the protocol of
  `EngineJobs`, so that all theorems above hold of it), `WebhookTypes`,
  `RetriedOnlyAfterRefusalHolds` and `OutcomesAreTrueHolds`. `RetryInv` ties the
  loop counter to the world outside: whatever lies below it was refused and
  acknowledged, and nothing above it was sent; that an acknowledgement is final
  (`AcknowledgedForGood`) and that the work starts once come from `EngineJobs`.
  A success can only come from work that returned (`SuccessFrom`), and work
  returns only after an acceptance or a dead letter (`StoryOK`). A counter is
  bounded by the deliveries that have passed the step that raises it
  (`DeliveredTo`, `DeadOf`): no delivery leaves these sets (`CountsStep`).
* **PlanWorkflow_proofs**: `TypeCorrect`, `LeasesMatchWorkHolds`,
  `CapacityIsKeptHolds`, `FreshProofIsCurrentHolds`, `CompletionIsEarnedHolds`
  and the action property `RevocationReachesDownstreamHolds`. The properties
  are nearly inductive together. Three conjuncts close the gap: a slice outside
  the definition was never worked on; a slice that is not done, seen through a
  block, has no fresh proof; a suspended stage is never "completed" while the
  plan can be unblocked. The capacity proof splits on admission (cardinality
  grows by one below the limit), ends of executions and everything else.
  Revocation uses that `Downstream`, defined as reachability over closed sets
  of slices rather than by recursion, is transitive.
  The last part is about `HostExecution`: `HostImplementsPlan` (every step of
  the composition is one of `PlanWorkflow` or leaves the plan alone, so that
  the theorems above hold below executions, crashes and refused calls),
  `HostTypeCorrect`, `StoppedBeforeReleasedHolds` and
  `LeaseFollowsClosureHolds`. A finish reads record, ledger and table of
  requests in one holding and gives the lease back in another, so what it read
  must stay true meanwhile. The invariant `HInv` says why it does: an execution
  that was closed or lost its authority is `Over`, nothing grants it authority
  again, and without authority no request is permitted and no tool call
  starts; native work that goes on is known to the ledger, and to the table
  while authority lasts (`NativeIsKnown`); a closure that claims a stop, and a
  stop that was observed, were written when no request ran (`ClosureFits`,
  `ObservationFits`). A release is prepared only for an execution whose first
  closure leaves its end open (`Unconfirmed`), whether or not that closure was
  committed before its lease expired; a closure is committed only after it was
  saved (`ReceiptsFit`), and only with a lease to end (`FinishHasLease`).
* **ModelAdmission_proofs**: `TypeCorrect`, `NothingSentIsReleasedHolds`,
  `EndedJobOwesNothingHolds`, `InFlightIsBoundedHolds`. `CallOK` and `WireOK`
  tie the three views of a request: a request on the wire was dispatched, and
  an attempt that may still be released was not sent by any process. Slots are
  counted by owner and lateness; a lemma about the cardinality of the holders
  shows that only a reservation adds one, under the limit. A job's end
  quantifies over all attempts below it.
  `SpendIsCoveredHolds` says that what is or may be consumed stays within the
  budget of the run, of its parent and of the billing key, attempts with a
  partial report excepted. It is about sums over sets of attempts. The module proves what it needs of them first: the recursive function behind the fold exists, whatever order it
  takes the elements in; a sum grows with its terms, and loses one term with one
  element. Induction over finite sets is out of the prover's reach as a
  theorem with an operator parameter, so each lemma takes a smallest set that
  violates it (`SmallestSet`). `SpendInv` adds that an attempt holds at least what is
  known of its usage (`KnownOK`). Every step but `Reserve` lets the terms of one
  attempt shrink or stay, and `Reserve` compares the sums with every limit.
  This proof found a flaw in an earlier form of the model: a second, differing
  report of a host must be refused (`host-model-admission.ts:127-143`), or an
  attempt could be charged again after its budget was given on.
* **Ledgers_proofs**, sources: `SourceTypeCorrect`, `SourceChangesAreOwedHolds`,
  `EffectsAreNotRepeatedHolds`, `StagesFollowTheGraphHolds`. A debt is visible
  only as pending stages, which says nothing of who owes it. The invariant
  names the debtor: a file that differs from the graph has an open cause that
  found it as the graph has it (`OwedOK`), and open causes keep all stages
  pending (`CausesOK`). Such a cause can settle as failed only if the file is as
  it found it, hence as the graph has it. One lemma per part covers every save
  of an obligation (`Saves`); a stage under way is about the present generation
  only while no cause is open (`DigestOK`).
* **Ledgers_proofs**, schedules: `ScheduleTypeCorrect`, `MaxRunsIsKeptHolds`,
  `OccurrencesRunOnceHolds`, `CursorFollowsAdmissionHolds`. Runs are counted
  when they finish, so the count alone bounds nothing: `RunsOK` adds that at
  most one occurrence per schedule is under way, claimed below the limit, and
  that the counter is the number of finished occurrences. Every step does one
  of three things to the occurrences (`OccurrenceStep`: nothing, a claim, a
  finish), and the parts of the invariant are proved from these. For the
  cursor, a tick that admits still has a proposal for every slot that is due
  and unseen (`CursorOK`), and whoever is due a slot afterwards was due it
  before (`DueBefore`).
* **ComputerSession_proofs**: `SessionTypeCorrect`, `OutcomesAreAccountedHolds`,
  `PauseIsSharedHolds`, `StopIsProvedHolds`, `InputIsFencedHolds`. The invariant
  has four arguments. `OpOK` and `AccountsOK`: the operation in flight tells
  what journal, job and target say of its action; an action the worker holds or
  has delivered is in doubt until it has an outcome, and nothing in doubt is
  acknowledged. `StopOK`: the steps that acknowledge a stop come after a proof
  of the worker's end, and no step brings a worker back. `PauseOK`: a paused
  session admits no intent, and no pause is acknowledged over one. `LiveOK`: a
  session that nothing has aborted runs one protocol, in which a pause moves
  the fence of the journal and a resume that of the binding, in turn; so the
  fence an action was asked for is everybody's when it is handed over, unless
  a pause was asked for, which the broker sees. Most steps are `Quiet`: they
  change none of what a part speaks of. The two action properties follow from
  the invariant: only `Dispatch` hands an action over (`OnlyDispatch`), and no
  step takes an acknowledged stop back (`StopKept`).

Some theorems state properties that no run repeats, because the runs check
stronger or closely related ones: `CountsAreExactHolds` and
`NoAbandonedQueueHolds` (beside `Exclusion` and `EveryCallEnds`),
`FileLockIsExclusiveHolds` and `EntriesAreLiveHolds` (beside `NoUpdateIsLost` and
`LockIsFifo`), `CallsImplementBarrier`, `ImplementsJobs` and
`HostImplementsPlan`, `InFlightIsBoundedHolds`, `CapacityIsKeptHolds`, and the
types of all modules but `ComputerSession`.

## 7. What is only model-checked

* Liveness (`EveryCallEnds`, `InterruptionEnds`, `InterruptedRunsAreFenced` and
  `RequestsAreAnswered`): the prover has no fairness or `ENABLED`. Every safety
  invariant and action property of the passing runs is proved.
* The disagreements of section 5 are shown by traces of their runs.
* What recursive definitions compute for every input cannot be proved here:
  induction over data and `RECURSIVE` operators are outside the prover. The
  modules contain neither; the sums of `ModelAdmission` are a fold of the
  community modules, about which section 6 argues by smallest counterexamples.

## 8. What is abstracted or left out

* Contents stand for their hashes. Transaction ids are the sequence number they
  establish. Refusals that change nothing are not steps; of the checks that
  only refuse, `expected_graph_revision` and `expected_store_hashes` are left
  out. The cache of parsed publication states (`publication.ts:68-97`), the
  recovery of version 1 journals (141-165), the check against nested
  publications and the counters of domains and currency are left out.
* An edit by a foreign program during a publication is not modelled: the code
  re-reads nothing there, and only a lock those programs honour could help.
* Two inline calls in parallel below one write owner are possible in
  `GraphBarrier`; that no caller publishes in such a pair is assumed by
  `Publication`. A chain of nested directories A, B, A would wait for itself;
  no caller nests so today, and one directory is modelled.
* File locks: a read that fails before anything is decided, the resolution of
  keys per instance (one instance is modelled), a lock below another lock and
  the writes of several files in one call are left out.
* `drainPublicationEvents`, `acknowledgePublicationEvents` and
  `retirePublicationReceiptEpoch` are called by tests only.
  `docs/ashoka/foundation.md:19` lists delivery and retention as remaining;
  until then an outbox of 10 000 events refuses further graph commits.
* Jobs: checkpoints and result artifacts, cancellation receipts, expected
  fences and the expiry of authorities (refusals) are left out. Model attempts
  and source edits are effects like the others in `EngineJobs`; what is special
  about them is in `ModelAdmission` and `SourceEffects`.
* Model admission: one resource stands for tokens of three kinds, retries and
  money; the change of the ledger day, calibrated input sizes and refusals on
  a mismatch of identity, price or policy are left out.
* Source effects: observed commands (edits found by comparing the tree before
  and after a shell command), the overflow region for more than 2048
  partitions, other capacities, evidence generations and the operator's repair
  of a stuck stage are left out; one digestion pass runs at a time.
* Schedules: the triggers `after_cycles` and `on_idle`, duplication and
  settings are left out; rate limits, cooldowns and nightmare limits are a
  refusal that may happen at any claim.
* Plans: the revision counter and its compare-and-swap (a command is one step
  on the state it names), clocks, evidence, receipts, closure checks,
  `set_primary` and delegated review grants (they admit nothing an operator
  could not do) are left out. Archived and superseded plans are one stage.
* Managed executions: the contents of a context and its refreshes, approvals,
  limits, the expiry and archiving of records, and the reconciliation a record
  waits for (`SourceEffects`) are left out; the ceiling may fall at any time.
* Of webhooks: signatures, bodies and event filters, the failure counter,
  changes of a subscription's URL, registration. `webhook_replay` is no step of
  the model, since it never gets as far as a delivery (section 5).
* Of computer use: journal and job writes that fail, budgets of images and
  observations, the expiry of an observation, the approval of a profile, the
  source effect of an action (`SourceEffects`), the drivers, the browser and
  its bridge. `InputIsFenced` is about the moment the broker hands an action
  over; the worker compares its own generation, and what it does when a page
  changes under it is the driver's.
* Model providers, retrieval and projection, the cognitive heuristics, CLI,
  servers, plugins and clients are I/O, large pure functions or process
  management, and carry little protocol of their own.

## 9. Plan

Done, in this order: `GraphBarrier`, `Publication` with `AtomicPublication`,
`StableRead`, `EngineJobs`, `PlanWorkflow`, `ModelAdmission`, `SourceEffects`,
`Schedules`, `Webhooks`, `HostExecution`, `ComputerSession` and `FileLocks`, with
the proofs of all of them.

To do, the most important first:

1. An abstract budget as refinement target of `ModelAdmission`; failing writes
   in `ComputerSession`; observed commands in `SourceEffects`.
2. `WriterLease`, which `Publication` assumes; the dependency diagnostics of a
   plan (an iterative depth-first search) against reachability; the automaton of
   discipline sessions; the remaining triggers of schedules.
3. The cognitive engine's states and the LUCID session, as far as they guard
   the stores.
