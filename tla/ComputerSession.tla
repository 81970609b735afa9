--------------------------- MODULE ComputerSession ---------------------------
(***************************************************************************)
(* One computer-use session (src/src/computer/broker.ts): a broker in the  *)
(* daemon drives a worker process that types and clicks on a granted       *)
(* target.  It keeps a journal (journal.ts), external effects in its       *)
(* engine job, and a volatile control binding (computer-control.ts).  An   *)
(* action, a pause, a resume and one or more stops run side by side.       *)
(*                                                                         *)
(* Each journal or job write is one publication, hence one step; the code  *)
(* between two awaits is one step.  A timeout is a step that is enabled as *)
(* long as the wait lasts.  Left out: writes that fail, evidence and image *)
(* budgets, expiry of observations, staleness of the managed context, and  *)
(* the source observation of an action (module SourceEffects).             *)
(***************************************************************************)
EXTENDS Naturals

CONSTANTS
  Actions,       \* identities of the actions a model may ask for
  NoAction,      \* no action: the operation in flight is an observation
  Lifetime,      \* the external effect that stands for the worker's life
  MaxFence,      \* bound: no pause begins at this fence of the journal
  MaxGeneration, \* bound: generations of the target
  MaxEvents      \* bound: events from outside (deaths of worker or daemon, a lost heartbeat,
                 \* a cancelled job, a revoked grant, recoveries of a stop)

ASSUME SessionAssumption == NoAction \notin Actions /\ Lifetime \notin Actions
ASSUME SessionBounds == {MaxFence, MaxGeneration, MaxEvents} \subseteq Nat

VARIABLES
  journal,   \* the session in execution_contexts.json
  effect,    \* external effects in the job's record
  job,       \* the job's record
  grant,     \* the grant is neither revoked nor expired
  broker,    \* the broker's own fields
  binding,   \* its volatile control binding
  op,        \* the one exclusive operation
  pausing,   \* where pause is
  resuming,  \* where resume is
  stopper,   \* where each stopPhysical is
  worker,    \* the worker process
  delivered, \* history: actions whose input reached the target
  events     \* history: events from outside so far

control == <<pausing, resuming>>
cvars == <<journal, effect, job, grant, broker, binding, op, pausing, resuming, stopper, worker, delivered, events>>

Receipts == {"none", "dispatched", "verified", "failed", "cancelled", "unknown"}
Open == {"dispatched", "unknown"}
StopStates == {"not_requested", "requested", "acknowledged", "unknown"}
Effects == Actions \cup {Lifetime}

\* stopPhysical runs at most once for the broker, once for the binding, and for
\* one recovery at a time.
Stoppers == {"broker", "binding", "recover"}

NoOp == [pc |-> "idle", action |-> NoAction, fence |-> 0, gen |-> 0, sent |-> FALSE, result |-> "none"]

SessionTypeOK ==
  /\ journal \in [state : {"created", "ready", "running", "paused", "stopping", "stopped", "recovery_required"},
                  fence : Nat, gen : Nat, seen : Nat, stop : StopStates, pause : StopStates,
                  receipt : [Actions -> Receipts]]
  /\ effect \in [Effects -> {"none", "dispatched", "acknowledged", "unknown"}]
  /\ job \in [state : {"running", "recovery_required", "final"}, settled : BOOLEAN]
  /\ grant \in BOOLEAN
  /\ broker \in [pc : {"begin", "worker", "ready", "bind", "binding", "open", "failed", "lost"},
                 aborted : BOOLEAN, stopping : BOOLEAN, returned : BOOLEAN, listed : BOOLEAN,
                 opened : BOOLEAN, pauseRequested : BOOLEAN]
  /\ binding \in [state : {"none", "ready", "paused", "stopping"}, fence : Nat, gen : Nat]
  /\ op \in [pc : {"idle", "review", "prepare", "begin", "input", "granted", "acting", "replied",
                   "recorded", "settle", "acknowledge", "undo", "undone"},
             action : Actions \cup {NoAction}, fence : Nat, gen : Nat, sent : BOOLEAN,
             result : {"none", "seen", "refused", "met", "unmet"}]
  /\ pausing \in {"none", "request", "drain", "worker", "ack", "done", "failed", "stop"}
  /\ resuming \in [pc : {"none", "check", "worker", "journal", "control", "record", "update", "stop"}, fence : Nat]
  /\ stopper \in [Stoppers -> {"idle", "release", "request", "proof", "ack", "lifetime", "unknown", "reconcile"}]
  /\ worker \in [state : {"forked", "open", "terminated", "dead"}, fenced : BOOLEAN, released : BOOLEAN,
                 paused : BOOLEAN, gen : Nat, busy : Actions \cup {NoAction}]
  /\ delivered \in [Actions -> BOOLEAN]
  /\ events \in Nat

SessionStart == [pc |-> "begin", aborted |-> FALSE, stopping |-> FALSE, returned |-> FALSE, listed |-> TRUE,
                 opened |-> FALSE, pauseRequested |-> FALSE]
NoBinding == [state |-> "none", fence |-> 0, gen |-> 0]
NotResuming == [pc |-> "none", fence |-> 0]

\* The journal is registered and the broker listed; the job runs.
SessionInit ==
  /\ journal = [state |-> "created", fence |-> 0, gen |-> 1, seen |-> 0, stop |-> "not_requested",
                pause |-> "not_requested", receipt |-> [a \in Actions |-> "none"]]
  /\ effect = [e \in Effects |-> "none"]
  /\ job = [state |-> "running", settled |-> FALSE]
  /\ grant = TRUE
  /\ broker = SessionStart /\ binding = NoBinding
  /\ op = NoOp
  /\ pausing = "none" /\ resuming = NotResuming
  /\ stopper = [i \in Stoppers |-> "idle"]
  /\ worker = [state |-> "forked", fenced |-> FALSE, released |-> FALSE, paused |-> FALSE, gen |-> 1, busy |-> NoAction]
  /\ delivered = [a \in Actions |-> FALSE]
  /\ events = 0

-----------------------------------------------------------------------------
Active(j) == j.state \in {"ready", "running"} /\ j.stop = "not_requested"
JobCurrent == job.state = "running"
Admissible == ~broker.aborted /\ ~broker.pauseRequested /\ JobCurrent /\ grant
Usable == worker.state = "open" /\ ~worker.fenced

\* The fence and generation of an action against the binding's own.
InputAllowed(fence, gen) ==
  binding.state = "ready" /\ binding.fence = fence /\ binding.gen = gen

\* Every observation may find that the page has changed.
Generations == {worker.gen} \cup (IF worker.gen < MaxGeneration THEN {worker.gen + 1} ELSE {})

-----------------------------------------------------------------------------
(***************************************************************************)
(* Opening                                                                 *)
(***************************************************************************)
BeginLifetime ==
  /\ broker.pc = "begin"
  /\ effect' = IF JobCurrent THEN [effect EXCEPT ![Lifetime] = "dispatched"] ELSE effect
  /\ broker' = [broker EXCEPT !.opened = JobCurrent,
                              !.pc = IF JobCurrent /\ ~broker.aborted THEN "worker" ELSE "failed"]
  /\ UNCHANGED <<journal, job, grant, binding, op, control, stopper, worker, delivered, events>>

OpenWorker ==
  /\ broker.pc = "worker"
  /\ \/ /\ worker.state = "forked" /\ ~worker.fenced
        /\ worker' = [worker EXCEPT !.state = "open"]
        /\ \E pc \in {"ready", "failed"} : broker' = [broker EXCEPT !.pc = pc]
     \/ broker' = [broker EXCEPT !.pc = "failed"] /\ UNCHANGED worker
  /\ UNCHANGED <<journal, effect, job, grant, binding, op, control, stopper, delivered, events>>

ReadyJournal ==
  /\ broker.pc = "ready"
  /\ IF ~broker.aborted /\ journal.state = "created"
     THEN /\ journal' = [journal EXCEPT !.state = "ready", !.fence = @ + 1]
          /\ broker' = [broker EXCEPT !.pc = "bind"]
     ELSE broker' = [broker EXCEPT !.pc = "failed"] /\ UNCHANGED journal
  /\ UNCHANGED <<effect, job, grant, binding, op, control, stopper, worker, delivered, events>>

\* The binding takes the fence of the session that became ready: the first.
Bind ==
  /\ broker.pc = "bind"
  /\ IF grant
     THEN /\ binding' = [state |-> "ready", fence |-> 1, gen |-> 1]
          /\ broker' = [broker EXCEPT !.pc = "binding"]
     ELSE broker' = [broker EXCEPT !.pc = "failed"] /\ UNCHANGED binding
  /\ UNCHANGED <<journal, effect, job, grant, op, control, stopper, worker, delivered, events>>

\* The second look at the grant; a refusal waits for the binding's stop.
Bound ==
  /\ broker.pc = "binding" /\ (grant \/ binding.state = "stopping")
  /\ broker' = [broker EXCEPT !.pc = IF grant /\ ~broker.aborted THEN "open" ELSE "failed"]
  /\ UNCHANGED <<journal, effect, job, grant, binding, op, control, stopper, worker, delivered, events>>

-----------------------------------------------------------------------------
(***************************************************************************)
(* Observations and actions: one at a time                                 *)
(***************************************************************************)
At(pc) == op.pc = pc
Go(pc) == op' = [op EXCEPT !.pc = pc]
durable == <<journal, effect, job, grant>>
memory == <<broker, binding, control, stopper>>

Observe ==
  /\ broker.pc = "open" /\ At("idle") /\ Admissible
  /\ Usable /\ worker.busy = NoAction /\ ~worker.paused
  /\ op' = [NoOp EXCEPT !.pc = "replied", !.result = "seen"]
  /\ \E g \in Generations : worker' = [worker EXCEPT !.gen = g]
  /\ UNCHANGED <<durable, memory, delivered, events>>

\* A known action is answered with its receipt.
Act(a) ==
  /\ broker.pc = "open" /\ At("idle")
  /\ journal.receipt[a] = "none" /\ Admissible
  /\ InputAllowed(binding.fence, binding.gen)
  /\ op' = [NoOp EXCEPT !.pc = "review", !.action = a, !.fence = binding.fence, !.gen = binding.gen]
  /\ UNCHANGED <<durable, memory, worker, delivered, events>>

Review ==
  /\ At("review")
  /\ \/ Admissible /\ Go("prepare")
     \/ op' = NoOp
  /\ UNCHANGED <<durable, memory, worker, delivered, events>>

\* The intent, refused when the journal has moved on.
Prepare ==
  /\ At("prepare")
  /\ IF Active(journal) /\ journal.fence = op.fence /\ journal.gen = op.gen /\ journal.seen = op.gen
     THEN /\ journal' = [journal EXCEPT !.state = "running", !.receipt[op.action] = "dispatched"]
          /\ Go("begin")
     ELSE op' = NoOp /\ UNCHANGED journal
  /\ UNCHANGED <<effect, job, grant, memory, worker, delivered, events>>

BeginEffect ==
  /\ At("begin")
  /\ IF JobCurrent
     THEN effect' = [effect EXCEPT ![op.action] = "dispatched"] /\ Go("input")
     ELSE Go("undo") /\ UNCHANGED effect
  /\ UNCHANGED <<journal, job, grant, memory, worker, delivered, events>>

\* The fence is compared first, the grant read after it.
AssertInput ==
  /\ At("input")
  /\ Go(IF Admissible /\ InputAllowed(op.fence, op.gen) THEN "granted" ELSE "undo")
  /\ UNCHANGED <<durable, memory, worker, delivered, events>>

\* Faulty Dispatch: a pause asked for while the grant was read is not noticed.
DispatchAnyway ==
  /\ At("granted") /\ (grant \/ binding.state = "stopping")
  /\ LET starts == grant /\ ~broker.aborted /\ Usable /\ worker.busy = NoAction /\ worker.gen = op.gen
     IN /\ op' = [op EXCEPT !.pc = IF starts THEN "acting" ELSE "undo", !.sent = grant]
        /\ worker' = IF starts THEN [worker EXCEPT !.busy = op.action] ELSE worker
  /\ UNCHANGED <<durable, memory, delivered, events>>

\* Nothing is awaited from the look at pauseRequested to the call of the worker,
\* which itself refuses an aborted signal, a fence or an old generation.  A
\* refused grant waits for the binding's stop.
Dispatch ==
  /\ At("granted") /\ (grant \/ binding.state = "stopping")
  /\ LET called == grant /\ ~broker.pauseRequested
         starts == /\ called /\ ~broker.aborted
                   /\ Usable /\ worker.busy = NoAction /\ worker.gen = op.gen
     IN /\ op' = [op EXCEPT !.pc = IF starts THEN "acting" ELSE "undo", !.sent = called]
        /\ worker' = IF starts THEN [worker EXCEPT !.busy = op.action] ELSE worker
  /\ UNCHANGED <<durable, memory, delivered, events>>

\* The worker's answer, with what it observed after the action; it comes to
\* nothing once the signal is aborted.
Answer ==
  /\ At("acting") /\ worker.busy = op.action /\ ~worker.released
  /\ \E r \in IF delivered[op.action] THEN {"met", "unmet"} ELSE {"refused"} :
       op' = IF broker.aborted THEN [op EXCEPT !.pc = "undo"] ELSE [op EXCEPT !.pc = "replied", !.result = r]
  /\ \E g \in Generations : worker' = [worker EXCEPT !.busy = NoAction, !.gen = g]
  /\ UNCHANGED <<durable, memory, delivered, events>>

\* No answer in time, or an error: the worker may still be at it.
AnswerLost ==
  /\ At("acting")
  /\ Go("undo")
  /\ worker' = [worker EXCEPT !.busy = NoAction] \/ UNCHANGED worker
  /\ UNCHANGED <<durable, memory, delivered, events>>

Failed == IF op.action = NoAction THEN op' = NoOp ELSE Go("undo")

\* The observation: evidence of a postcondition is taken even while stopping,
\* but is no observation to act upon.
Record ==
  /\ At("replied")
  /\ LET met == op.result = "met"
         late == met /\ journal.state \in {"stopping", "stopped", "recovery_required"}
     IN IF Active(journal) \/ late
        THEN /\ journal' = [journal EXCEPT !.gen = worker.gen, !.seen = IF met THEN @ ELSE worker.gen]
             /\ Go("recorded")
        ELSE Failed /\ UNCHANGED journal
  /\ UNCHANGED <<effect, job, grant, memory, worker, delivered, events>>

UpdateTarget ==
  /\ At("recorded")
  /\ IF binding.state = "stopping"
     THEN Failed /\ UNCHANGED binding
     ELSE /\ binding' = [binding EXCEPT !.gen = journal.gen]
          /\ IF op.action = NoAction THEN op' = NoOp ELSE Go("settle")
  /\ UNCHANGED <<durable, broker, control, stopper, worker, delivered, events>>

Settle ==
  /\ At("settle")
  /\ journal' = [journal EXCEPT !.receipt[op.action] =
                   CASE op.result = "refused" -> "cancelled"
                     [] op.result = "met" -> "verified"
                     [] op.result = "unmet" -> "failed"]
  /\ Go("acknowledge")
  /\ UNCHANGED <<effect, job, grant, memory, worker, delivered, events>>

AcknowledgeEffect ==
  /\ At("acknowledge")
  /\ effect' = [effect EXCEPT ![op.action] = "acknowledged"]
  /\ op' = NoOp
  /\ UNCHANGED <<journal, job, grant, memory, worker, delivered, events>>

\* Faulty Undo: an action whose answer was lost counts as one not carried out.
UndoAsCancelled ==
  /\ At("undo")
  /\ journal' = [journal EXCEPT !.receipt[op.action] = "cancelled"]
  /\ Go("undone")
  /\ UNCHANGED <<effect, job, grant, memory, worker, delivered, events>>

\* The catch of an action whose intent is in the journal.
Undo ==
  /\ At("undo")
  /\ journal' = [journal EXCEPT !.receipt[op.action] = IF op.sent THEN "unknown" ELSE "cancelled"]
  /\ Go("undone")
  /\ UNCHANGED <<effect, job, grant, memory, worker, delivered, events>>

UndoEffect ==
  /\ At("undone")
  /\ effect' = IF effect[op.action] = "none" THEN effect
               ELSE [effect EXCEPT ![op.action] = IF op.sent THEN "unknown" ELSE "acknowledged"]
  /\ op' = NoOp
  /\ UNCHANGED <<journal, job, grant, memory, worker, delivered, events>>

-----------------------------------------------------------------------------
(***************************************************************************)
(* Pause and resume, asked for by the operator with the journal's fence    *)
(***************************************************************************)
data == <<effect, job, grant, broker, binding, stopper, delivered, events>>
PauseTo(pc) == pausing' = pc
Pausable(j) == j.stop = "not_requested" /\ j.state \in {"ready", "running", "paused"}

\* Input is fenced in memory at once.
Pause ==
  /\ broker.pc = "open" /\ ~broker.aborted /\ ~broker.pauseRequested
  /\ journal.stop = "not_requested" /\ journal.fence < MaxFence
  /\ binding.state = "ready"
  /\ binding' = [binding EXCEPT !.state = "paused", !.fence = @ + 1]
  /\ broker' = [broker EXCEPT !.pauseRequested = TRUE]
  /\ PauseTo("request")
  /\ UNCHANGED <<durable, op, resuming, stopper, worker, delivered, events>>

PauseRequested ==
  /\ pausing = "request"
  /\ IF Pausable(journal)
     THEN /\ journal' = IF journal.pause = "not_requested"
                        THEN [journal EXCEPT !.pause = "requested", !.fence = @ + 1] ELSE journal
          /\ PauseTo("drain")
     ELSE PauseTo("failed") /\ UNCHANGED journal
  /\ UNCHANGED <<data, op, resuming, worker>>

\* The operation in flight comes to its end first.
Drain ==
  /\ pausing = "drain" /\ (broker.aborted \/ At("idle"))
  /\ PauseTo(IF broker.aborted THEN "failed" ELSE "worker")
  /\ UNCHANGED <<data, journal, op, resuming, worker>>

\* The answer may be late, refused or lost.
PauseWorker ==
  /\ pausing = "worker"
  /\ \/ /\ Usable /\ worker.busy = NoAction
        /\ worker' = [worker EXCEPT !.paused = TRUE]
        /\ PauseTo("ack") \/ PauseTo("failed")
     \/ PauseTo("failed") /\ UNCHANGED worker
  /\ UNCHANGED <<data, journal, op, resuming>>

\* Faulty PauseAcknowledged: an action whose outcome is unknown does not count.
PauseOverUnknown ==
  /\ pausing = "ack"
  /\ IF Pausable(journal) /\ journal.pause = "requested"
     THEN /\ journal' = [journal EXCEPT !.pause = "acknowledged", !.state = "paused"]
          /\ PauseTo("done")
     ELSE PauseTo("failed") /\ UNCHANGED journal
  /\ UNCHANGED <<data, op, resuming, worker>>

PauseAcknowledged ==
  /\ pausing = "ack"
  /\ IF Pausable(journal) /\ journal.pause = "requested" /\ \A a \in Actions : journal.receipt[a] \notin Open
     THEN /\ journal' = [journal EXCEPT !.pause = "acknowledged", !.state = "paused"]
          /\ PauseTo("done")
     ELSE PauseTo("failed") /\ UNCHANGED journal
  /\ UNCHANGED <<data, op, resuming, worker>>

\* Faulty FailPause: the journal is not told.
FailPauseSilently ==
  /\ pausing = "failed"
  /\ PauseTo("done")
  /\ UNCHANGED <<data, journal, op, resuming, worker>>

\* A stop that is already on its way speaks for the pause.
FailPause ==
  /\ pausing = "failed"
  /\ IF ~broker.aborted /\ Pausable(journal)
     THEN /\ journal' = [journal EXCEPT !.pause = "unknown", !.state = "recovery_required"]
          /\ PauseTo("stop")
     ELSE PauseTo("done") /\ UNCHANGED journal
  /\ UNCHANGED <<data, op, resuming, worker>>

ResumeTo(pc) == resuming' = [resuming EXCEPT !.pc = pc]

Resume ==
  /\ broker.pc = "open" /\ ~broker.aborted /\ broker.pauseRequested
  /\ pausing = "done" /\ journal.pause = "acknowledged"
  /\ resuming.pc = "none" /\ worker.gen < MaxGeneration
  /\ ResumeTo("check")
  /\ UNCHANGED <<data, journal, op, pausing, worker>>

ResumeCheck ==
  /\ resuming.pc = "check"
  /\ ResumeTo(IF JobCurrent /\ grant THEN "worker" ELSE "stop")
  /\ UNCHANGED <<data, journal, op, pausing, worker>>

\* The worker looks at the target anew, as a new generation.
ResumeWorker ==
  /\ resuming.pc = "worker"
  /\ \/ /\ ~broker.aborted /\ Usable /\ worker.paused
        /\ worker' = [worker EXCEPT !.paused = FALSE, !.gen = @ + 1]
        /\ ResumeTo("journal") \/ ResumeTo("stop")
     \/ ResumeTo("stop") /\ UNCHANGED worker
  /\ UNCHANGED <<data, journal, op, pausing>>

ResumeJournal ==
  /\ resuming.pc = "journal"
  /\ IF journal.state = "paused" /\ journal.pause = "acknowledged" /\ journal.stop = "not_requested"
     THEN /\ journal' = [journal EXCEPT !.pause = "not_requested", !.state = "ready", !.fence = @ + 1]
          /\ resuming' = [pc |-> "control", fence |-> journal.fence + 1]
     ELSE ResumeTo("stop") /\ UNCHANGED journal
  /\ UNCHANGED <<data, op, pausing, worker>>

ResumeControl ==
  /\ resuming.pc = "control"
  /\ IF binding.state = "paused" /\ resuming.fence = binding.fence + 1
     THEN /\ binding' = [binding EXCEPT !.state = "ready", !.fence = resuming.fence]
          /\ ResumeTo(IF broker.aborted THEN "stop" ELSE "record")
     ELSE ResumeTo("stop") /\ UNCHANGED binding
  /\ UNCHANGED <<durable, broker, op, pausing, stopper, worker, delivered, events>>

ResumeRecord ==
  /\ resuming.pc = "record"
  /\ IF Active(journal)
     THEN journal' = [journal EXCEPT !.gen = worker.gen, !.seen = worker.gen] /\ ResumeTo("update")
     ELSE ResumeTo("stop") /\ UNCHANGED journal
  /\ UNCHANGED <<data, op, pausing, worker>>

ResumeUpdate ==
  /\ resuming.pc = "update"
  /\ IF binding.state # "stopping"
     THEN /\ binding' = [binding EXCEPT !.gen = worker.gen]
          /\ broker' = [broker EXCEPT !.pauseRequested = FALSE]
          /\ pausing' = "none" /\ resuming' = NotResuming
     ELSE ResumeTo("stop") /\ UNCHANGED <<binding, broker, pausing>>
  /\ UNCHANGED <<durable, op, stopper, worker, delivered, events>>

-----------------------------------------------------------------------------
(***************************************************************************)
(* Stopping                                                                *)
(***************************************************************************)
doing == <<op, control>>
Fenced == worker' = [worker EXCEPT !.fenced = TRUE]

\* What stopBinding does before its first await.
BindingStops ==
  /\ binding' = [binding EXCEPT !.state = "stopping", !.fence = @ + 1]
  /\ stopper' = [stopper EXCEPT !["binding"] = "release"]

Stop ==
  /\ broker.pc # "lost" /\ ~broker.stopping
  /\ broker' = [broker EXCEPT !.stopping = TRUE, !.aborted = TRUE]
  /\ Fenced
  /\ CASE broker.pc # "open" -> stopper' = [stopper EXCEPT !["broker"] = "release"] /\ UNCHANGED binding
       [] binding.state = "stopping" -> UNCHANGED <<stopper, binding>>
       [] OTHER -> BindingStops
  /\ UNCHANGED <<durable, doing, delivered, events>>

\* The grant was revoked, expired or refused to assertInput.
StopBinding ==
  /\ ~grant /\ binding.state \in {"ready", "paused"}
  /\ broker' = [broker EXCEPT !.aborted = TRUE]
  /\ Fenced
  /\ BindingStops
  /\ UNCHANGED <<durable, doing, delivered, events>>

RecoverStop ==
  /\ broker.pc # "lost" /\ broker.listed /\ stopper["recover"] = "idle" /\ events < MaxEvents
  /\ broker' = [broker EXCEPT !.aborted = TRUE]
  /\ Fenced
  /\ stopper' = [stopper EXCEPT !["recover"] = "release"]
  /\ events' = events + 1
  /\ UNCHANGED <<durable, binding, doing, delivered>>

StopTo(i, pc) == stopper' = [stopper EXCEPT ![i] = pc]
Ended(i) == IF i = "recover" THEN "reconcile" ELSE "idle"

\* Faulty StopState: the session takes the stop's own word for its state.
StopStateMixed(state, stop) ==
  journal' = [journal EXCEPT !.stop = stop, !.state = stop,
                             !.fence = IF journal.stop = "not_requested" THEN @ + 1 ELSE @]

\* The first write of a stop fences the journal.
StopState(state, stop) ==
  journal' = [journal EXCEPT !.stop = stop, !.state = state,
                             !.fence = IF journal.stop = "not_requested" THEN @ + 1 ELSE @]

AwaitRelease(i) ==
  /\ stopper[i] = "release"
  /\ \/ worker.released /\ StopTo(i, "request")
     \/ StopTo(i, "unknown")
  /\ UNCHANGED <<durable, broker, binding, doing, worker, delivered, events>>

\* The write queues behind the intent of the lifetime effect.
RequestStop(i) ==
  /\ stopper[i] = "request" /\ broker.pc # "begin"
  /\ CASE journal.stop = "acknowledged" -> StopTo(i, "unknown") /\ UNCHANGED journal
       [] journal.stop = "not_requested" -> StopTo(i, "proof") /\ StopState("stopping", "requested")
       [] OTHER -> StopTo(i, "proof") /\ UNCHANGED journal
  /\ UNCHANGED <<effect, job, grant, broker, binding, doing, worker, delivered, events>>

AwaitProof(i) ==
  /\ stopper[i] = "proof"
  /\ \/ worker.state = "terminated" /\ StopTo(i, "ack")
     \/ StopTo(i, "unknown")
  /\ UNCHANGED <<durable, broker, binding, doing, worker, delivered, events>>

AcknowledgeStop(i) ==
  /\ stopper[i] = "ack"
  /\ StopState("stopped", "acknowledged")
  /\ StopTo(i, IF broker.opened THEN "lifetime" ELSE Ended(i))
  /\ UNCHANGED <<effect, job, grant, broker, binding, doing, worker, delivered, events>>

SettleLifetime(i) ==
  /\ stopper[i] = "lifetime"
  /\ effect' = [effect EXCEPT ![Lifetime] = "acknowledged"]
  /\ StopTo(i, Ended(i))
  /\ UNCHANGED <<journal, job, grant, broker, binding, doing, worker, delivered, events>>

\* Faulty StopUnknown: a late failure overwrites the acknowledgement.
StopUnknownAnyway(i) ==
  /\ stopper[i] = "unknown" /\ broker.pc # "begin"
  /\ StopState("recovery_required", "unknown")
  /\ StopTo(i, "idle")
  /\ UNCHANGED <<effect, job, grant, broker, binding, doing, worker, delivered, events>>

\* The catch of stopPhysical: an acknowledgement is final.
StopUnknown(i) ==
  /\ stopper[i] = "unknown" /\ broker.pc # "begin"
  /\ IF journal.stop = "acknowledged" THEN UNCHANGED journal ELSE StopState("recovery_required", "unknown")
  /\ StopTo(i, "idle")
  /\ UNCHANGED <<effect, job, grant, broker, binding, doing, worker, delivered, events>>

AllAcknowledged == \A e \in Effects : effect[e] \in {"none", "acknowledged"}
Reconciled == IF job.state = "recovery_required" /\ job.settled /\ AllAcknowledged
              THEN [job EXCEPT !.state = "final"] ELSE job

\* The end of a recovery that succeeded.
Reconcile(i) ==
  /\ stopper[i] = "reconcile"
  /\ broker' = [broker EXCEPT !.listed = FALSE]
  /\ job' = Reconciled
  /\ StopTo(i, "idle")
  /\ UNCHANGED <<journal, effect, grant, binding, doing, worker, delivered, events>>

\* A bound stop returns after five seconds at the latest, one without a
\* binding with its stopPhysical.
StopReturns ==
  /\ broker.stopping /\ ~broker.returned
  /\ broker.pc = "open" \/ stopper["broker"] = "idle"
  /\ broker' = [broker EXCEPT !.returned = TRUE, !.listed = @ /\ journal.stop # "acknowledged"]
  /\ UNCHANGED <<durable, binding, stopper, doing, worker, delivered, events>>

-----------------------------------------------------------------------------
(***************************************************************************)
(* The job and the grant                                                   *)
(***************************************************************************)
rest == <<binding, stopper, doing, worker, delivered>>

\* The task and its stop are over; the job's outcome counts its effects.
FinishJob ==
  /\ broker.returned /\ ~job.settled
  /\ job' = [state |-> IF AllAcknowledged THEN "final" ELSE "recovery_required", settled |-> TRUE]
  /\ UNCHANGED <<journal, effect, grant, broker, rest, events>>

\* A cancellation or the deadline; the stop it asks for is a step of its own.
CancelJob ==
  /\ JobCurrent /\ broker.pc # "lost" /\ events < MaxEvents
  /\ events' = events + 1
  /\ job' = [job EXCEPT !.state = "recovery_required"]
  /\ UNCHANGED <<journal, effect, grant, broker, rest>>

RecoverJob ==
  /\ job' = IF JobCurrent /\ broker.pc = "lost" THEN [job EXCEPT !.state = "recovery_required"] ELSE Reconciled
  /\ job' # job
  /\ UNCHANGED <<journal, effect, grant, broker, rest, events>>

RevokeGrant ==
  /\ grant /\ events < MaxEvents
  /\ events' = events + 1
  /\ grant' = FALSE
  /\ UNCHANGED <<journal, effect, job, broker, rest>>

-----------------------------------------------------------------------------
(***************************************************************************)
(* The worker process                                                      *)
(***************************************************************************)
daemon == <<durable, memory, op>>
Alive == worker.state \in {"forked", "open"}

Deliver ==
  /\ worker.busy # NoAction /\ worker.state = "open" /\ ~worker.released
  /\ ~delivered[worker.busy]
  /\ delivered' = [delivered EXCEPT ![worker.busy] = TRUE]
  /\ UNCHANGED <<daemon, worker, events>>

\* An action nobody waits for any more comes to its end.
WorkerIdle ==
  /\ worker.busy # NoAction /\ ~(At("acting") /\ op.action = worker.busy)
  /\ worker' = [worker EXCEPT !.busy = NoAction]
  /\ UNCHANGED <<daemon, delivered, events>>

ReleaseInput ==
  /\ Alive /\ worker.fenced /\ ~worker.released
  /\ worker' = [worker EXCEPT !.released = TRUE]
  /\ UNCHANGED <<daemon, delivered, events>>

Terminate ==
  /\ Alive /\ worker.fenced
  /\ worker' = [worker EXCEPT !.state = "terminated", !.released = TRUE, !.busy = NoAction]
  /\ UNCHANGED <<daemon, delivered, events>>

\* A process that ends without a word proves nothing.
WorkerDies ==
  /\ Alive /\ events < MaxEvents
  /\ worker' = [worker EXCEPT !.state = "dead", !.busy = NoAction]
  /\ events' = events + 1
  /\ UNCHANGED <<daemon, delivered>>

\* The worker stops by itself, and the harness sends it nothing more.
HeartbeatLost ==
  /\ Alive /\ ~worker.fenced /\ events < MaxEvents
  /\ Fenced
  /\ events' = events + 1
  /\ UNCHANGED <<daemon, delivered>>

DaemonCrash ==
  /\ broker.pc # "lost" /\ events < MaxEvents
  /\ broker' = [SessionStart EXCEPT !.pc = "lost", !.aborted = TRUE, !.listed = FALSE]
  /\ binding' = NoBinding /\ op' = NoOp
  /\ pausing' = "none" /\ resuming' = NotResuming
  /\ stopper' = [i \in Stoppers |-> "idle"]
  /\ Fenced
  /\ events' = events + 1
  /\ UNCHANGED <<durable, delivered>>

-----------------------------------------------------------------------------
Opening == BeginLifetime \/ OpenWorker \/ ReadyJournal \/ Bind \/ Bound
OpStep == \/ Review \/ Prepare \/ BeginEffect \/ AssertInput \/ Dispatch \/ Answer \/ AnswerLost
          \/ Record \/ UpdateTarget \/ Settle \/ AcknowledgeEffect \/ Undo \/ UndoEffect
PauseStep == PauseRequested \/ Drain \/ PauseWorker \/ PauseAcknowledged \/ FailPause
ResumeStep == ResumeCheck \/ ResumeWorker \/ ResumeJournal \/ ResumeControl \/ ResumeRecord \/ ResumeUpdate
StopStep(i) == \/ AwaitRelease(i) \/ RequestStop(i) \/ AwaitProof(i) \/ AcknowledgeStop(i)
               \/ SettleLifetime(i) \/ StopUnknown(i) \/ Reconcile(i)

SessionNext ==
  \/ Opening
  \/ Observe \/ (\E a \in Actions : Act(a)) \/ OpStep
  \/ Pause \/ PauseStep \/ Resume \/ ResumeStep
  \/ Stop \/ StopBinding \/ RecoverStop \/ StopReturns
  \/ \E i \in Stoppers : StopStep(i)
  \/ FinishJob \/ CancelJob \/ RecoverJob \/ RevokeGrant
  \/ Deliver \/ WorkerIdle \/ ReleaseInput \/ Terminate \/ WorkerDies \/ HeartbeatLost \/ DaemonCrash

\* What the daemon has begun it carries on with: its awaits end, in an answer,
\* an error or a timeout.  Nothing is assumed of the worker, and of the
\* operator only that a review of an action is answered.
SessionFairness ==
  /\ WF_cvars(Opening) /\ WF_cvars(OpStep) /\ WF_cvars(PauseStep) /\ WF_cvars(ResumeStep)
  /\ \A i \in Stoppers : WF_cvars(StopStep(i))
  /\ WF_cvars((broker.pc = "failed" \/ pausing = "stop" \/ resuming.pc = "stop" \/ ~JobCurrent \/ ~grant) /\ Stop)
  /\ WF_cvars(StopBinding) /\ WF_cvars(StopReturns) /\ WF_cvars(FinishJob)

SessionSpec == SessionInit /\ [][SessionNext]_cvars /\ SessionFairness

-----------------------------------------------------------------------------
\* The worker is handed an action only in a session that no stop, pause or
\* resume has touched since the intent was written: nothing has aborted it, and
\* the action's fence and generation are still those of the journal, the
\* binding and the worker (broker.ts:156-160, with awaits between the checks).
InputIsFenced ==
  [][\A a \in Actions : worker.busy # a /\ worker'.busy = a =>
       /\ ~broker.aborted /\ journal.pause = "not_requested" /\ journal.stop = "not_requested"
       /\ journal.receipt[a] = "dispatched"
       /\ op.fence = journal.fence /\ op.fence = binding.fence
       /\ op.gen = journal.gen /\ op.gen = binding.gen /\ op.gen = worker.gen]_cvars

\* Receipts and the job's outcome never say more than happened.  A cancelled
\* action has not reached the target and never will, a verified or failed one
\* has (broker.ts:162-173); a job is final only when its worker has ended and
\* every input that reached the target has an outcome (jobs.ts:191).
OutcomesAreAccounted ==
  /\ \A a \in Actions :
       /\ journal.receipt[a] = "cancelled" => ~delivered[a] /\ worker.busy # a
       /\ journal.receipt[a] \in {"verified", "failed"} => delivered[a]
  /\ job.state = "final" =>
       /\ effect[Lifetime] # "none" => worker.state = "terminated"
       /\ \A a \in Actions : /\ journal.receipt[a] # "unknown"
                             /\ delivered[a] => journal.receipt[a] \in {"verified", "failed"}

\* The journal and the job call the worker stopped only when it has ended by
\* its own proof, and no other stop that fails or comes late takes that back
\* (broker.ts:92-97, journal.ts:114).
StopIsProved ==
  [][/\ journal'.stop = "acknowledged" \/ effect'[Lifetime] = "acknowledged" => worker'.state = "terminated"
     /\ journal.stop = "acknowledged" => journal'.stop = "acknowledged" /\ journal'.state = "stopped"]_cvars

\* An acknowledged pause leaves no action in doubt and nothing in the worker,
\* even if the answer to the last action was lost; and between operations of a
\* live session the volatile binding agrees with the journal on fence,
\* generation and pause, so that the next action is judged alike by both
\* (journal.ts:123-135, computer-control.ts:66-71).
PauseIsShared ==
  /\ journal.pause = "acknowledged" =>
       worker.busy = NoAction /\ \A a \in Actions : journal.receipt[a] \notin Open
  /\ /\ broker.pc = "open" /\ ~broker.aborted /\ journal.stop = "not_requested"
     /\ At("idle") /\ pausing \in {"none", "done"} /\ resuming.pc = "none"
     => /\ binding.fence = journal.fence /\ binding.gen = journal.gen
        /\ binding.state = IF journal.pause = "acknowledged" THEN "paused" ELSE "ready"

\* While the daemon lives, everything that was asked for is answered in the
\* journal: a stop by a proof or the statement that there is none, a pause, if
\* no stop overtakes it, by yes or unknown, an intent by a receipt.  There are
\* finitely many of them, so that all are answered again and again
\* (broker.ts:82-99, 168-173, 191-200).
RequestsAreAnswered ==
  []<>(broker.pc = "lost" \/
       /\ broker.stopping => journal.stop \in {"acknowledged", "unknown"}
       /\ journal.pause = "requested" => journal.stop # "not_requested"
       /\ \A a \in Actions : journal.receipt[a] # "dispatched")

=============================================================================
