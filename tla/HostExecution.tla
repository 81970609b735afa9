--------------------------- MODULE HostExecution ---------------------------
(***************************************************************************)
(* Managed executions of a native host: an editor or SDK process that does *)
(* the work of a plan slice, or answers in a context without a plan, under *)
(* the daemon's control (src/src/server/managed-execution.ts).  The daemon *)
(* keeps the execution's record (graph/execution-context.ts), its lease in *)
(* the plan (discipline/plan-runtime.ts over PlanWorkflow), the permits of *)
(* its model requests (server/host-model-admission.ts) and, in memory      *)
(* only, its authority.                                                    *)
(*                                                                         *)
(* A publication is one step.  What one call publishes while it holds the  *)
(* writer barrier is a sequence of steps under held; it may stop between   *)
(* them by an exception or by the death of the process.                    *)
(*                                                                         *)
(* The host's model requests and their ends are true observations; what it *)
(* claims when it finishes need not be (docs/workflows.md, "merely by      *)
(* claiming its callback completed").                                      *)
(*                                                                         *)
(* Abstracted: the content of contexts and their refreshes, approvals,     *)
(* outcomes and reasons of a closure, byte and count limits, computer      *)
(* sessions (ComputerSession), the spend of requests (ModelAdmission),     *)
(* archives.  A revision of the plan counts every accepted command.        *)
(***************************************************************************)
EXTENDS PlanWorkflow

CONSTANTS
  Executions,   \* identities of executions, each begun once
  SliceOf,      \* the slice each execution works on, None outside a plan
  Asks,         \* model requests
  ExecutionOf,  \* the execution of each request
  Callers,      \* control calls of the host under way at a time
  NoCaller,
  MaxRevision,  \* bound: revision up to which others command the plan
  MaxMishaps    \* bound: crashes and calls that throw

ASSUME ExecutionsAssumption ==
  /\ SliceOf \in [Executions -> Slices \cup {None}]
  /\ ExecutionOf \in [Asks -> Executions]
  /\ NoCaller \notin Callers
  /\ None \notin Nat \cup Executions
ASSUME HostBoundsAssumption == MaxRevision \in Nat /\ MaxMishaps \in Nat

VARIABLES
  revision,  \* plan_state.json: revision of the plan
  holder,    \* plan_state.json: execution_id of the lease of each slice
  committed, \* publication receipts of closures, by execution and stage
  record,    \* execution_contexts.json: each execution
  attempt,   \* spend_ledger.json: each model request
  report,    \* model_reports: the first report on each request
  live,      \* memory: executions with authority
  ask,       \* memory: HostModelAdmission.requests
  call,      \* memory: control calls
  held,      \* memory: the call that holds the writer barrier
  native,    \* the work that the host does for each request
  effect,    \* executions with a tool call running in the daemon
  mishaps    \* crashes and exceptions so far

hvars == <<revision, holder, committed, record, attempt, report, live, ask,
           call, held, native, effect, mishaps>>
files == <<revision, holder, committed, record>>
models == <<attempt, report, ask, native>>

InPlan(e) == SliceOf[e] # None
AsksOf(e) == {r \in Asks : ExecutionOf[r] = e}

(* at: where the call is.  stopped: effectiveTermination is "confirmed".   *)
Idle == [at |-> "idle"]

Records ==
  [status : {"absent", "assembled", "running", "recovery_required", "pending", "settled"},
   closure : [claim : BOOLEAN, stopped : BOOLEAN, expected : Nat \cup {None}] \cup {None},
   unknown : BOOLEAN,             \* effect host_adapter_termination
   observed : SUBSET Asks,        \* native_stop_observations
   stop : Nat \cup {None},        \* plan_stop_recovery, its expected revision
   recovered : BOOLEAN]           \* native_stop_recovery

HostStart ==
  /\ revision = 0 /\ committed = {} /\ mishaps = 0
  /\ holder = [s \in Slices |-> None]
  /\ record = [e \in Executions |->
       [status |-> "absent", closure |-> None, unknown |-> FALSE, observed |-> {},
        stop |-> None, recovered |-> FALSE]]
  /\ attempt = [r \in Asks |-> "absent"]
  /\ report = [r \in Asks |-> "none"]
  /\ live = {} /\ effect = {}
  /\ ask = [r \in Asks |-> "none"]
  /\ call = [k \in Callers |-> Idle] /\ held = NoCaller
  /\ native = [r \in Asks |-> "none"]

HostInit == Init /\ HostStart

-----------------------------------------------------------------------------
Free == held = NoCaller
Goes(k, at) == call' = [call EXCEPT ![k].at = at]
Returns(k) == call' = [call EXCEPT ![k] = Idle] /\ held' = NoCaller
Writes(e, entry) == record' = [record EXCEPT ![e] = entry]

LeasesOf(e) == {l \in leases : InPlan(e) /\ l.slice = SliceOf[e] /\ holder[l.slice] = e}

(* assertManagedPlanBinding, but for the expiry and the changed source     *)
(* that may refuse at any time.                                            *)
Bound(e) ==
  InPlan(e) => /\ record[e].closure = None
               /\ \E l \in LeasesOf(e) : l.running

\* Any accepted command moves the plan's revision, set_primary does no more.
Command ==
  /\ Free /\ revision < MaxRevision
  /\ \/ \E a \in Actors : PlanStep(a) \/ \E s \in Slices : SliceStep(a, s)
     \/ UNCHANGED vars
  /\ revision' = revision + 1
  /\ UNCHANGED <<holder, committed, record, models, live, call, held, effect, mishaps>>

-----------------------------------------------------------------------------
(* beginHostExecution: the context, the lease, then the authority, in one  *)
(* holding.  A refused lease leaves an assembled context.                  *)

Begin(k, e) ==
  /\ Free /\ call[k] = Idle
  /\ record[e].status = "absent"
  /\ Writes(e, [record[e] EXCEPT !.status = "assembled"])
  /\ held' = k
  /\ call' = [call EXCEPT ![k] = [at |-> IF InPlan(e) THEN "admit" ELSE "grant", e |-> e]]
  /\ UNCHANGED <<vars, revision, holder, committed, models, live, effect, mishaps>>

AdmitLease(k) ==
  LET s == SliceOf[call[k].e] IN
  /\ call[k].at = "admit"
  /\ AdmitSlice(s)
  /\ holder' = [holder EXCEPT ![s] = call[k].e]
  /\ revision' = revision + 1
  /\ Goes(k, "grant")
  /\ UNCHANGED <<committed, record, models, live, held, effect, mishaps>>

RefuseLease(k) ==
  /\ call[k].at = "admit"
  /\ Returns(k)
  /\ UNCHANGED <<vars, files, models, live, effect, mishaps>>

GrantAuthority(k) ==
  /\ call[k].at = "grant"
  /\ live' = live \cup {call[k].e}
  /\ Returns(k)
  /\ UNCHANGED <<vars, files, models, effect, mishaps>>

(* The host hands the whole context to its adapter and acknowledges it.    *)
Deliver(e) ==
  /\ Free /\ e \in live /\ Bound(e)
  /\ record[e].status = "assembled"
  /\ Writes(e, [record[e] EXCEPT !.status = "running"])
  /\ UNCHANGED <<vars, revision, holder, committed, models, live, call, held, effect, mishaps>>

(* A tool call of the worker, which reserves the action while authority    *)
(* lasts and goes on when it is revoked.                                   *)
StartEffect(e) ==
  /\ e \in live \ effect
  /\ Bound(e) /\ record[e].status = "running"
  /\ effect' = effect \cup {e}
  /\ UNCHANGED <<vars, files, models, live, call, held, mishaps>>

EndEffect(e) ==
  /\ e \in effect
  /\ effect' = effect \ {e}
  /\ UNCHANGED <<vars, files, models, live, call, held, mishaps>>

(* The timer at the ceiling of the authority.                              *)
CloseAtCeiling(e) ==
  /\ e \in live
  /\ live' = live \ {e}
  /\ UNCHANGED <<vars, files, models, call, held, effect, mishaps>>

-----------------------------------------------------------------------------
(* Model requests (HostModelAdmission.admit and ModelExecution.request).   *)

Interrupted(e) == \E r \in AsksOf(e) : ask[r] = "unknown"

\* Faulty Uncertain: only a request the host was permitted counts.
UncertainWhenPermitted(e) == \E r \in AsksOf(e) : ask[r] = "awaiting_host"

Uncertain(e) == \E r \in AsksOf(e) : ask[r] \in {"admitting", "awaiting_host", "unknown"}

Attempts(r, state) == attempt' = [attempt EXCEPT ![r] = state]
\* A settlement without evidence of the end takes no earlier evidence back.
Settles(r, ended) ==
  Attempts(r, IF ended \/ attempt[r] = "acknowledged" THEN "acknowledged" ELSE "owed")
Says(r, state) == ask' = [ask EXCEPT ![r] = state]
ModelStep == UNCHANGED <<vars, files, live, call, held, effect, mishaps>>

AdmitAsk(r) ==
  LET e == ExecutionOf[r] IN
  /\ e \in live /\ Bound(e) /\ record[e].status = "running"
  /\ ~Interrupted(e) /\ ask[r] = "none"
  /\ Says(r, "admitting")
  /\ ModelStep /\ UNCHANGED <<attempt, report, native>>

Reserve(r) ==
  /\ Free /\ ask[r] = "admitting" /\ attempt[r] = "absent"
  /\ \/ Attempts(r, "reserved") /\ UNCHANGED ask
     \/ Says(r, "refused") /\ UNCHANGED attempt  \* no budget, or aborted before
  /\ ModelStep /\ UNCHANGED <<report, native>>

\* A reservation is given back when the authority closed before; a dispatch
\* that waits for the barrier meanwhile goes on.
Dispatch(r) ==
  /\ Free /\ ask[r] = "admitting" /\ attempt[r] = "reserved"
  /\ \/ Attempts(r, "dispatched") /\ UNCHANGED ask
     \/ Attempts(r, "released") /\ Says(r, "refused")
  /\ ModelStep /\ UNCHANGED <<report, native>>

\* From here the host may run the native work, if the reply reaches it.
Permit(r) ==
  /\ ask[r] = "admitting" /\ attempt[r] = "dispatched"
  /\ ExecutionOf[r] \in live
  /\ Says(r, "awaiting_host")
  /\ \E answer \in {"none", "running"} : native' = [native EXCEPT ![r] = answer]
  /\ ModelStep /\ UNCHANGED <<attempt, report>>

NativeEnds(r) ==
  /\ native[r] = "running"
  /\ native' = [native EXCEPT ![r] = "ended"]
  /\ ModelStep /\ UNCHANGED <<attempt, report, ask>>

\* Revoked or timed out: the call is over, the native work need not be.
Abort(r) ==
  /\ Free
  /\ \/ ask[r] = "admitting" /\ attempt[r] = "dispatched" /\ Says(r, "refused")
     \/ ask[r] = "awaiting_host" /\ Says(r, "unknown")
  /\ Settles(r, FALSE)
  /\ ModelStep /\ UNCHANGED <<report, native>>

(* settleHostModel: the first report on a request is kept, and ends it.    *)
Report(r, stopped) ==
  /\ Free /\ ExecutionOf[r] \in live
  /\ ask[r] \in {"awaiting_host", "unknown"} /\ report[r] = "none"
  /\ stopped => native[r] # "running"
  /\ report' = [report EXCEPT ![r] = IF stopped THEN "stopped" ELSE "open"]
  /\ ModelStep /\ UNCHANGED <<attempt, ask, native>>

Settle(r) ==
  /\ Free /\ report[r] # "none"
  /\ \/ /\ ask[r] = "awaiting_host"
        /\ Says(r, IF report[r] = "stopped" THEN "host_reported" ELSE "unknown")
     \/ ask[r] = "unknown" /\ attempt[r] = "owed" /\ report[r] = "stopped" /\ UNCHANGED ask
  /\ Settles(r, report[r] = "stopped")
  /\ ModelStep /\ UNCHANGED <<report, native>>

-----------------------------------------------------------------------------
(* endHostExecution.  The first holding revokes the authority and keeps    *)
(* the first disposition with the command that will end the lease; the     *)
(* second one, after the model requests have settled, applies it.          *)

ZeroDispatch(e) ==
  LeasesOf(e) = {} /\ record[e].status = "assembled" /\ ~record[e].unknown

EffectiveStop(e, claim) ==
  IF record[e].closure # None THEN record[e].closure.stopped
  ELSE \/ /\ claim /\ ~(e \in live /\ Uncertain(e))
          /\ InPlan(e) => e \in live \ effect
       \/ InPlan(e) /\ ZeroDispatch(e)

Closing(e, claim) ==
  [claim |-> claim, stopped |-> EffectiveStop(e, claim),
   expected |-> IF ZeroDispatch(e) THEN None ELSE revision]

\* Faulty Finish: a retry saves a disposition of its own.
FinishAgain(k, e, claim) ==
  /\ Free /\ call[k] = Idle
  /\ record[e].status # "absent"
  /\ live' = live \ {e}
  /\ ~InPlan(e) \/ LeasesOf(e) # {} \/ ZeroDispatch(e)
  /\ IF InPlan(e)
       THEN Writes(e, [record[e] EXCEPT !.closure = [Closing(e, claim) EXCEPT !.stopped = claim]])
       ELSE UNCHANGED record
  /\ call' = [call EXCEPT ![k] = [at |-> "wait", e |-> e, model |-> e \in live, stopped |-> claim]]
  /\ UNCHANGED <<vars, revision, holder, committed, models, held, effect, mishaps>>

Finish(k, e, claim) ==
  LET closure == record[e].closure IN
  /\ Free /\ call[k] = Idle
  /\ record[e].status # "absent"
  /\ closure # None => closure.claim = claim
  /\ live' = live \ {e}
  /\ \/ ~InPlan(e) \/ closure # None
     \/ LeasesOf(e) # {} \/ ZeroDispatch(e)  \* else PLAN_EXECUTION_FENCE_REJECTED
  /\ IF InPlan(e) /\ closure = None
       THEN Writes(e, [record[e] EXCEPT !.closure = Closing(e, claim)])
       ELSE UNCHANGED record
  /\ call' = [call EXCEPT ![k] = [at |-> "wait", e |-> e, model |-> e \in live,
                                  stopped |-> EffectiveStop(e, claim)]]
  /\ UNCHANGED <<vars, revision, holder, committed, models, held, effect, mishaps>>

(* waitClosed, outside the barrier: the settlements need it.               *)
Settling(e) == \E r \in AsksOf(e) : ask[r] \in {"admitting", "awaiting_host"}

Reenter(k) ==
  /\ call[k].at = "wait" /\ held \in {NoCaller, k}
  /\ call[k].model => ~Settling(call[k].e)
  /\ held' = k
  /\ Goes(k, "apply")
  /\ UNCHANGED <<vars, files, models, live, effect, mishaps>>

\* applyPlanCommand: a committed operation is replayed, any other one needs
\* the revision it was prepared for.
Apply(k, stage, expected, stopped, next) ==
  LET e == call[k].e IN
  IF expected = None \/ <<e, stage>> \in committed
  THEN /\ Goes(k, next)
       /\ UNCHANGED <<vars, files, held>>
  ELSE IF revision = expected /\ LeasesOf(e) # {}
  THEN /\ \E l \in LeasesOf(e) : EndExecution(l, stopped)
       /\ holder' = IF stopped THEN [holder EXCEPT ![SliceOf[e]] = None] ELSE holder
       /\ revision' = revision + 1
       /\ committed' = committed \cup {<<e, stage>>}
       /\ Goes(k, next)
       /\ UNCHANGED <<record, held>>
  ELSE /\ Returns(k)  \* PLAN_STATE_REVISION_CONFLICT
       /\ UNCHANGED <<vars, files>>

ApplyClosure(k) ==
  LET closure == record[call[k].e].closure IN
  /\ call[k].at = "apply"
  /\ IF closure = None THEN Goes(k, "mark") /\ UNCHANGED <<vars, files, held>>
     ELSE Apply(k, "finish", closure.expected, closure.stopped, "mark")
  /\ UNCHANGED <<models, live, effect, mishaps>>

MarkUnknown(k) ==
  LET e == call[k].e IN
  /\ call[k].at = "mark"
  /\ Goes(k, "close")
  /\ IF ~call[k].stopped /\ record[e].status \in {"assembled", "running"}
       THEN Writes(e, [record[e] EXCEPT !.unknown = TRUE])
       ELSE UNCHANGED record
  /\ UNCHANGED <<vars, revision, holder, committed, models, live, held, effect, mishaps>>

(* finishManagedContext.  "pending" stands for the debts of other kinds.   *)
Recovered(e) ==
  record[e].recovered /\ (InPlan(e) => <<e, "observed-stop">> \in committed)

CloseRecord(k) ==
  LET e == call[k].e IN
  /\ call[k].at = "close"
  /\ IF record[e].status = "settled" THEN UNCHANGED record
     ELSE \E status \in IF record[e].unknown /\ ~Recovered(e)
                        THEN {"recovery_required"} ELSE {"settled", "pending"} :
            Writes(e, [record[e] EXCEPT !.status = status])
  /\ Returns(k)
  /\ UNCHANGED <<vars, revision, holder, committed, models, live, effect, mishaps>>

-----------------------------------------------------------------------------
(* observeHostModelStop: the original host saw, independently of the       *)
(* closed pass, that the work of a request has stopped.                    *)

Observe(k, r) ==
  LET e == ExecutionOf[r] IN
  /\ Free /\ call[k] = Idle
  /\ native[r] = "ended"
  /\ attempt[r] \notin {"absent", "reserved", "released"}
  /\ e \notin live
  /\ IF InPlan(e) THEN record[e].closure # None /\ ~record[e].closure.stopped
     ELSE record[e].unknown
  /\ Writes(e, [record[e] EXCEPT !.observed = @ \cup {r}])
  /\ held' = k
  /\ call' = [call EXCEPT ![k] = [at |-> "settle", e |-> e, ask |-> r]]
  /\ UNCHANGED <<vars, revision, holder, committed, models, live, effect, mishaps>>

Ended(r) == attempt[r] \in {"absent", "released", "acknowledged"}
AllStoppedBut(e, r) == \A x \in AsksOf(e) \ {r} : Ended(x)

\* Faulty SettleObserved: goes on as the second holding of a finish does.
SettleObservedAsFinish(k) ==
  /\ call[k].at = "settle"
  /\ Settles(call[k].ask, TRUE)
  /\ Goes(k, "mark")
  /\ UNCHANGED <<vars, files, report, ask, native, live, held, effect, mishaps>>

SettleObserved(k) ==
  LET e == call[k].e  r == call[k].ask IN
  /\ call[k].at = "settle"
  /\ Settles(r, TRUE)
  /\ \/ ~AllStoppedBut(e, r) /\ Goes(k, "close")
     \/ AllStoppedBut(e, r) /\ Goes(k, IF InPlan(e) THEN "prepare" ELSE "recover")
  /\ UNCHANGED <<vars, files, report, ask, native, live, held, effect, mishaps>>

\* preparePlanRuntimeClosure reads the lease as projectPlanState shows it: one
\* whose time is over is in recovery, although the stored one still runs.
PrepareRelease(k) ==
  LET e == call[k].e IN
  /\ call[k].at = "prepare"
  /\ \/ record[e].stop # None /\ Goes(k, "release") /\ UNCHANGED <<record, held>>
     \/ /\ record[e].stop = None /\ LeasesOf(e) # {}
        /\ Writes(e, [record[e] EXCEPT !.stop = revision])
        /\ Goes(k, "release") /\ UNCHANGED held
     \/ /\ record[e].stop = None /\ \A l \in LeasesOf(e) : l.running
        /\ Returns(k) /\ UNCHANGED record  \* INDEPENDENT_STOP_REQUIRED
  /\ UNCHANGED <<vars, revision, holder, committed, models, live, effect, mishaps>>

ApplyRelease(k) ==
  /\ call[k].at = "release"
  /\ Apply(k, "observed-stop", record[call[k].e].stop, TRUE, "recover")
  /\ UNCHANGED <<models, live, effect, mishaps>>

RecordRecovery(k) ==
  LET e == call[k].e IN
  /\ call[k].at = "recover"
  /\ Writes(e, [record[e] EXCEPT !.recovered = TRUE])
  /\ Goes(k, "close")
  /\ UNCHANGED <<vars, revision, holder, committed, models, live, held, effect, mishaps>>

-----------------------------------------------------------------------------
(* Mishaps: a publication throws, durable or not, or the process dies.     *)

CallThrows(k) ==
  /\ mishaps < MaxMishaps /\ call[k] # Idle
  /\ mishaps' = mishaps + 1
  /\ call' = [call EXCEPT ![k] = Idle]
  /\ held' = IF held = k THEN NoCaller ELSE held
  /\ UNCHANGED <<vars, files, models, live, effect>>

Crash ==
  /\ mishaps < MaxMishaps
  /\ mishaps' = mishaps + 1
  /\ live' = {} /\ effect' = {}
  /\ ask' = [r \in Asks |-> "none"]
  /\ call' = [k \in Callers |-> Idle] /\ held' = NoCaller
  /\ UNCHANGED <<vars, files, attempt, report, native>>

-----------------------------------------------------------------------------
Continue(k) ==
  \/ AdmitLease(k) \/ RefuseLease(k) \/ GrantAuthority(k)
  \/ Reenter(k) \/ ApplyClosure(k) \/ MarkUnknown(k) \/ CloseRecord(k)
  \/ SettleObserved(k) \/ PrepareRelease(k) \/ ApplyRelease(k) \/ RecordRecovery(k)

AskStep(r) ==
  \/ AdmitAsk(r) \/ Reserve(r) \/ Dispatch(r) \/ Permit(r) \/ Abort(r) \/ NativeEnds(r)
  \/ \E stopped \in BOOLEAN : Report(r, stopped)
  \/ Settle(r)

Control(k) ==
  \/ \E e \in Executions : Begin(k, e) \/ \E claim \in BOOLEAN : Finish(k, e, claim)
  \/ \E r \in Asks : Observe(k, r)

HostNext ==
  \/ Command
  \/ \E k \in Callers : Control(k) \/ Continue(k) \/ CallThrows(k)
  \/ \E e \in Executions :
       Deliver(e) \/ StartEffect(e) \/ EndEffect(e) \/ CloseAtCeiling(e)
  \/ \E r \in Asks : AskStep(r)
  \/ Crash

HostSpec == HostInit /\ [][HostNext]_<<vars, hvars>>

-----------------------------------------------------------------------------
Beginnings == [at : {"admit", "grant"}, e : Executions]
Finishes ==
  [at : {"wait", "apply", "mark", "close"}, e : Executions, model : BOOLEAN, stopped : BOOLEAN]
Observations ==
  [at : {"settle", "prepare", "release", "recover", "close"}, e : Executions, ask : Asks]

(* Every store and every table in memory has the shape its schema gives.   *)
HostTypeOK ==
  /\ revision \in Nat /\ mishaps \in 0..MaxMishaps
  /\ holder \in [Slices -> Executions \cup {None}]
  /\ committed \subseteq Executions \X {"finish", "observed-stop"}
  /\ record \in [Executions -> Records]
  /\ attempt \in [Asks -> {"absent", "reserved", "released", "dispatched", "owed", "acknowledged"}]
  /\ report \in [Asks -> {"none", "open", "stopped"}]
  /\ live \subseteq Executions /\ effect \subseteq Executions
  /\ ask \in [Asks -> {"none", "admitting", "refused", "awaiting_host", "unknown", "host_reported"}]
  /\ call \in [Callers -> {Idle} \cup Beginnings \cup Finishes \cup Observations]
  /\ held \in Callers \cup {NoCaller}
  /\ native \in [Asks -> {"none", "running", "ended"}]

(* The lease of a slice is given back only when the work under it has      *)
(* stopped: no model work that the host was ever permitted goes on, or can *)
(* still begin, nor, when the finish itself ended the lease, a tool call in *)
(* the daemon; whatever the finish claims, and through deaths, overlapping *)
(* finishes and requests half admitted (managed-execution.ts:302-333).     *)
StoppedBeforeReleased ==
  \A e \in Executions : InPlan(e) /\ LeasesOf(e) = {} =>
    /\ \A r \in AsksOf(e) : native[r] # "running"
    /\ <<e, "observed-stop">> \notin committed => e \notin effect

(* Records, receipts and the plan agree.  A committed finish leaves the    *)
(* lease as the first closure says, and no retry makes that closure        *)
(* stronger; a stop is observed for an unconfirmed closure only, and its   *)
(* receipt means that the lease is gone; a lease that a closure was to end *)
(* never goes without one of the two receipts.  All through refused        *)
(* commands, deaths and the expiry of the lease (plan-runtime.ts:52-86,    *)
(* plan-workflow.ts:117-120, 186-192, execution-context.ts:258-279 and     *)
(* 359-371).                                                               *)
LeaseFollowsClosure ==
  \A e \in Executions :
    LET closure == record[e].closure
        finished == <<e, "finish">> \in committed
        observed == <<e, "observed-stop">> \in committed
    IN /\ finished => IF closure.stopped \/ observed THEN LeasesOf(e) = {}
                      ELSE \E l \in LeasesOf(e) : ~l.running
       /\ observed => closure # None /\ ~closure.stopped /\ LeasesOf(e) = {}
       /\ closure # None /\ closure.expected # None /\ LeasesOf(e) = {} =>
            observed \/ (finished /\ closure.stopped)

(* "Pending permits prevent a host from closing as settled merely by       *)
(* claiming its callback completed" (docs/workflows.md:481): no permitted  *)
(* work goes on under an execution whose record is settled                 *)
(* (execution-context.ts:558-589).                                         *)
SettledMeansStopped ==
  \A e \in Executions : record[e].status = "settled" =>
    \A r \in AsksOf(e) : native[r] # "running"
=============================================================================
