---------------------------- MODULE PlanWorkflow ----------------------------
(***************************************************************************)
(* The lifecycle of a plan (src/src/discipline/plan-workflow.ts): reviewed *)
(* scope, slices that are implemented and then verified in dependency      *)
(* order, finite execution leases, blockers, deferrals, and changes of the *)
(* plan's definition under way.                                            *)
(*                                                                         *)
(* A step is one command that reducePlanCommand accepts.  applyPlanCommand *)
(* (plan-authority.ts:176-208) runs it inside one publication under the    *)
(* graph barrier and only against the revision its caller has seen, so     *)
(* commands neither interleave nor apply to a state they were not meant    *)
(* for; a refused command throws and changes nothing, hence is no step.    *)
(*                                                                         *)
(* Abstracted: the revision counter (implementation_revision is the number *)
(* of implementations the slice has had), receipts and closure checks      *)
(* (reasons to refuse), evidence, texts and clocks.  The reducer never     *)
(* consults the expiry of a lease once it is granted (who reads the plan   *)
(* sees an expired lease in recovery: HostExecution, PrepareRelease), nor  *)
(* the content of a verification that is no longer fresh, nor the primary  *)
(* slice, which set_primary chooses for display.  A delegated review_grant *)
(* admits no step an operator could not take.                              *)
(***************************************************************************)
EXTENDS Naturals, FiniteSets

CONSTANTS
  Slices,      \* slice ids of any definition
  Actors,      \* ids of actors
  Operators,   \* those of kind "operator"
  Runtime,     \* the actor of kind "runtime" (plan-runtime.ts:130)
  Definitions, \* definitions the plan may be given
  Start,       \* the imported one
  Scopes,      \* sets of slices an operator may approve together
  PlanReasons, \* reasons of blockers of the plan
  Reasons,     \* reasons of blockers of each slice
  Limits,      \* parallel limits an approval may set, 1..8 in the code
  None,
  Stale,       \* a verification that is no longer fresh
  MaxImplementations \* bound: implementations of one slice

(* A definition: its slices, what each depends on (possibly a slice that is *)
(* missing), the acceptance hash of each, and the required ones.  Equal     *)
(* definitions have equal digests.                                          *)
ASSUME DefinitionsAssumption ==
  /\ Start \in Definitions
  /\ \A d \in Definitions :
       /\ {"ids", "dependsOn", "acceptance", "required"} = DOMAIN d
       /\ d.ids \subseteq Slices /\ d.required \subseteq d.ids
       /\ d.dependsOn \in [Slices -> SUBSET Slices]
       /\ \A s \in Slices \ d.ids : d.dependsOn[s] = {}
       /\ d.acceptance \in [Slices -> Nat]
ASSUME ActorsAssumption ==
  Operators \subseteq Actors /\ Runtime \in Actors \ Operators
ASSUME SlicesAssumption == IsFiniteSet(Slices) /\ Scopes \subseteq (SUBSET Slices) \ {{}}
ASSUME BoundsAssumption ==
  Limits \subseteq Nat \ {0} /\ MaxImplementations \in Nat

VARIABLES
  definition, \* the current definition
  lifecycle,  \* stage of the plan
  underlying, \* underlying_lifecycle: the stage a plan-level block suspended
  blockers,   \* plan_blockers
  approval,   \* the approved scope, or None
  leases,     \* executions under way, or not known to have stopped
  slices,     \* state of each slice
  current,    \* current_slice_ids
  final       \* final_verification, or None

vars == <<definition, lifecycle, underlying, blockers, approval, leases,
          slices, current, final>>

Stages == {"draft", "planning", "reviewed", "implementation_ready",
           "implementing", "verifying", "blocked", "completed",
           "closed"}  \* archived or superseded
Statuses == {"pending", "in_progress", "implemented", "verifying", "verified",
             "blocked", "deferred"}

Proof == [acceptance : Nat, implemented : Nat]  \* a fresh verification
SliceState ==
  [status : Statuses, prior : Statuses \cup {None},
   blockers : SUBSET UNION {Reasons[s] : s \in Slices},
   owner : Actors \cup {None}, implemented : Nat,
   verification : Proof \cup {None, Stale},
   waiver : BOOLEAN]  \* deferral.dependency_waiver, FALSE without a deferral
Lease ==
  [slice : Slices \cup {None}, owner : Actors,
   kind : {"implementation", "verification", "final_verification"},
   running : BOOLEAN]  \* the other state is "recovery_required"
Approval ==
  [owner : Actors, definition : Definitions, scope : SUBSET Slices,
   limit : Limits]
(* over: the implementations under review, which the code keeps as the     *)
(* order of the sequence numbers of the verifications.                     *)
Final == [definition : Definitions, passed : BOOLEAN, over : [Slices -> Nat]]

ASSUME NoneAssumption ==
  /\ None \notin Slices \cup Actors \cup Stages \cup Statuses
  /\ None \notin Proof \cup Approval \cup Final
  /\ Stale \notin Proof \cup {None}

FreshSlice ==
  [status |-> "pending", prior |-> None, blockers |-> {}, owner |-> None,
   implemented |-> 0, verification |-> None, waiver |-> FALSE]

InitWith(start) ==
  /\ definition = start
  /\ lifecycle = "draft" /\ underlying = None
  /\ blockers = {} /\ approval = None /\ leases = {}
  /\ slices = [s \in Slices |-> FreshSlice]
  /\ current = {} /\ final = None

Init == InitWith(Start)

-----------------------------------------------------------------------------
(* Guards of the reducer.                                                  *)

Open == lifecycle # "closed"
Live == Open /\ lifecycle # "completed"
Quiescent == leases = {}
Owned(a, s) ==
  /\ slices[s].owner # None
  /\ \/ slices[s].owner = a
     \/ a \in Operators
     \/ a = Runtime /\ approval # None /\ slices[s].owner = approval.owner
Approved(s) ==
  /\ approval # None
  /\ approval.definition = definition /\ s \in approval.scope
  /\ blockers = {}
ParallelLimit == IF approval = None THEN 1 ELSE approval.limit

(* verified and still fresh, or deferred with a waiver *)
Resolved(s) ==
  /\ s \in definition.ids
  /\ \/ /\ slices[s].status = "verified"
        /\ slices[s].verification \notin {None, Stale}
     \/ slices[s].status = "deferred" /\ slices[s].waiver
DependenciesResolved(s) == \A d \in definition.dependsOn[s] : Resolved(d)
RequiredResolved == \A s \in definition.required : Resolved(s)

(* The least set that holds what s depends on and what that depends on.    *)
Upstream(def, s) ==
  {t \in Slices : \A S \in SUBSET Slices :
     (\A u \in S \cup {s} : def.dependsOn[u] \subseteq S) => t \in S}
Downstream(def, S) == {t \in def.ids : Upstream(def, t) \cap S # {}}

(* A slice on a broken branch: it reaches a cycle or a missing slice.      *)
Diagnosed(s) ==
  \E t \in Upstream(definition, s) \cup {s} :
    t \in Upstream(definition, t) \/ t \notin definition.ids

CanStart(s) ==
  /\ s \in definition.ids /\ slices[s].status = "pending"
  /\ ~Diagnosed(s) /\ DependenciesResolved(s)
  /\ Approved(s)
  /\ Cardinality(leases) < ParallelLimit
  /\ lifecycle # "verifying"

-----------------------------------------------------------------------------
(* refreshPlanDerivedFields, which ends every command: verified and        *)
(* deferred slices are no longer current work.                             *)

Refresh(sl, cur) ==
  /\ slices' = sl
  /\ current' = {s \in cur : sl[s].status \notin {"verified", "deferred"}}

Change(s, slice) == Refresh([slices EXCEPT ![s] = slice], current)

BeginPlanning(a) ==
  /\ Live /\ a \in Operators /\ Quiescent
  /\ lifecycle \in {"draft", "planning"}
  /\ lifecycle' = "planning"
  /\ UNCHANGED <<definition, underlying, blockers, approval, leases, slices,
                 current, final>>

ReviewPlan(a) ==
  /\ Live /\ a \in Operators /\ Quiescent
  /\ lifecycle \in {"draft", "planning", "reviewed"}
  /\ lifecycle' = "reviewed"
  /\ UNCHANGED <<definition, underlying, blockers, approval, leases, slices,
                 current, final>>

ApproveScope(a, owner, scope, limit) ==
  /\ Live /\ a \in Operators /\ Quiescent
  /\ lifecycle \in {"reviewed", "implementation_ready", "implementing"}
  /\ scope \subseteq definition.ids
  /\ approval' = [owner |-> owner, definition |-> definition, scope |-> scope,
                  limit |-> limit]
  /\ lifecycle' = IF current # {} THEN "implementing" ELSE "implementation_ready"
  /\ UNCHANGED <<definition, underlying, blockers, leases, slices, current,
                 final>>

StartSlice(a, s) ==
  /\ Live /\ CanStart(s)
  /\ a = approval.owner
  /\ lifecycle' = "implementing"
  /\ Refresh([slices EXCEPT ![s] = [@ EXCEPT !.status = "in_progress", !.owner = a]],
             current \cup {s})
  /\ UNCHANGED <<definition, underlying, blockers, approval, leases, final>>

ResumeSlice(a, s) ==
  /\ Live /\ Approved(s) /\ Owned(a, s)
  /\ slices[s].status \in {"in_progress", "implemented", "verifying"}
  /\ lifecycle' = "implementing"
  /\ Refresh(slices, current \cup {s})
  /\ UNCHANGED <<definition, underlying, blockers, approval, leases, final>>

(* The runtime takes a lease before it launches native work.               *)
Admit(s, kind) ==
  /\ Live
  /\ \A l \in leases : l.slice # s
  /\ Cardinality(leases) < ParallelLimit
  /\ leases' = leases \cup
       {[slice |-> s, kind |-> kind, running |-> TRUE,
         owner |-> IF approval = None THEN Runtime ELSE approval.owner]}
  /\ UNCHANGED <<definition, lifecycle, underlying, blockers, approval, slices,
                 current, final>>

AdmitSlice(s) ==
  /\ Approved(s) /\ s \in current
  /\ slices[s].owner = approval.owner
  /\ \/ slices[s].status = "in_progress" /\ Admit(s, "implementation")
     \/ slices[s].status = "verifying" /\ Admit(s, "verification")

AdmitFinal == lifecycle = "verifying" /\ Admit(None, "final_verification")

(* Without the acknowledgement that work stopped the lease stays.          *)
EndExecution(lease, stopped) ==
  /\ Live /\ lease \in leases
  /\ leases' = (leases \ {lease}) \cup
       (IF stopped THEN {} ELSE {[lease EXCEPT !.running = FALSE]})
  /\ UNCHANGED <<definition, lifecycle, underlying, blockers, approval, slices,
                 current, final>>

BlockPlan(a, reason) ==
  /\ Live /\ a \in Operators
  /\ blockers' = blockers \cup {reason}
  /\ underlying' = IF lifecycle # "blocked" THEN lifecycle ELSE underlying
  /\ lifecycle' = "blocked"
  /\ UNCHANGED <<definition, approval, leases, slices, current, final>>

UnblockPlan(a, reason) ==
  /\ Live /\ a \in Operators
  /\ blockers' = blockers \ {reason}
  /\ IF blockers' = {}
       THEN /\ lifecycle' = IF underlying = None THEN "planning" ELSE underlying
            /\ underlying' = None
       ELSE UNCHANGED <<lifecycle, underlying>>
  /\ UNCHANGED <<definition, approval, leases, slices, current, final>>

BlockSlice(a, s, reason) ==
  /\ Live /\ Owned(a, s)
  /\ Change(s, [slices[s] EXCEPT !.status = "blocked", !.blockers = @ \cup {reason},
                  !.prior = IF slices[s].status # "blocked" THEN slices[s].status ELSE @])
  /\ UNCHANGED <<definition, lifecycle, underlying, blockers, approval, leases,
                 final>>

UnblockSlice(a, s, reason) ==
  /\ Live /\ Owned(a, s)
  /\ slices[s].status = "blocked"
  /\ LET left == slices[s].blockers \ {reason}
         stage == IF slices[s].prior = None THEN "in_progress" ELSE slices[s].prior
     IN Change(s, IF left # {}
                    THEN [slices[s] EXCEPT !.blockers = left]
                    ELSE [slices[s] EXCEPT !.blockers = {}, !.status = stage,
                                           !.prior = None])
  /\ UNCHANGED <<definition, lifecycle, underlying, blockers, approval, leases,
                 final>>

\* Faulty RecordImplementation: an execution may still be running.
RecordUnderWork(a, s) ==
  /\ Live /\ Approved(s) /\ Owned(a, s)
  /\ slices[s].status = "in_progress"
  /\ slices[s].implemented < MaxImplementations
  /\ Change(s, [slices[s] EXCEPT !.status = "implemented", !.implemented = @ + 1])
  /\ UNCHANGED <<definition, lifecycle, underlying, blockers, approval, leases,
                 final>>

RecordImplementation(a, s) ==
  /\ Live /\ Approved(s) /\ Owned(a, s)
  /\ slices[s].status = "in_progress"
  /\ \A l \in leases : l.slice # s
  /\ slices[s].implemented < MaxImplementations
  /\ Change(s, [slices[s] EXCEPT !.status = "implemented", !.implemented = @ + 1])
  /\ UNCHANGED <<definition, lifecycle, underlying, blockers, approval, leases,
                 final>>

BeginVerification(a, s) ==
  /\ Live /\ Approved(s) /\ Owned(a, s)
  /\ slices[s].status = "implemented"
  /\ DependenciesResolved(s)
  /\ Change(s, [slices[s] EXCEPT !.status = "verifying"])
  /\ UNCHANGED <<definition, lifecycle, underlying, blockers, approval, leases,
                 final>>

VerificationFails(a, s) ==
  /\ Live /\ Owned(a, s)
  /\ slices[s].status = "verifying"
  /\ \A l \in leases : l.slice # s
  /\ Change(s, [slices[s] EXCEPT !.status = "implemented"])
  /\ UNCHANGED <<definition, lifecycle, underlying, blockers, approval, leases,
                 final>>

VerificationPasses(a, s) ==
  /\ Live /\ Owned(a, s) /\ Approved(s) /\ a \in Operators
  /\ slices[s].status = "verifying"
  /\ \A l \in leases : l.slice # s
  /\ DependenciesResolved(s)
  /\ LET proof == [acceptance |-> definition.acceptance[s],
                   implemented |-> slices[s].implemented]
     IN Change(s, [slices[s] EXCEPT !.status = "verified", !.verification = proof])
  /\ UNCHANGED <<definition, lifecycle, underlying, blockers, approval, leases,
                 final>>

DeferSlice(a, s, waiver) ==
  /\ Live /\ a \in Operators /\ Quiescent
  /\ s \in definition.ids /\ slices[s].status # "verified"
  /\ Change(s, [slices[s] EXCEPT !.status = "deferred", !.waiver = waiver])
  /\ UNCHANGED <<definition, lifecycle, underlying, blockers, approval, leases,
                 final>>

Revoked(proof) == IF proof = None THEN None ELSE Stale

Reopened(slice, a) ==
  [slice EXCEPT !.status = "in_progress", !.verification = Revoked(@), !.waiver = FALSE,
     !.owner = IF approval = None THEN a ELSE approval.owner]
Unproved(slice) ==
  [slice EXCEPT !.verification = Revoked(@),
     !.status = IF @ = "verified" /\ slice.verification # None THEN "implemented" ELSE @]

\* Faulty ReopenSlice: only the slice itself loses its proof.
ReopenAlone(a, s) ==
  /\ Open /\ a \in Operators /\ Quiescent
  /\ slices[s].status \in {"verified", "deferred"}
  /\ Refresh([slices EXCEPT ![s] = Reopened(@, a)], current \cup {s})
  /\ final' = None
  /\ lifecycle' = IF approval # None THEN "implementing" ELSE "planning"
  /\ UNCHANGED <<definition, underlying, blockers, approval, leases>>

(* The slice is worked on again; what was verified on top of it no longer  *)
(* counts as verified, however far downstream.                             *)
ReopenSlice(a, s) ==
  /\ Open /\ a \in Operators /\ Quiescent
  /\ slices[s].status \in {"verified", "deferred"}
  /\ Refresh([t \in Slices |->
                IF t = s THEN Reopened(slices[s], a)
                ELSE IF t \in Downstream(definition, {s}) THEN Unproved(slices[t])
                ELSE slices[t]],
             current \cup {s})
  /\ final' = None
  /\ lifecycle' = IF approval # None THEN "implementing" ELSE "planning"
  /\ UNCHANGED <<definition, underlying, blockers, approval, leases>>

BeginFinalVerification(a) ==
  /\ Live /\ a \in Operators /\ Quiescent
  /\ RequiredResolved /\ blockers = {}
  /\ lifecycle' = "verifying" /\ final' = None
  /\ UNCHANGED <<definition, underlying, blockers, approval, leases, slices,
                 current>>

FinishFinalVerification(a, passed) ==
  /\ Live /\ a \in Operators /\ Quiescent
  /\ lifecycle = "verifying"
  /\ final' = [definition |-> definition, passed |-> passed,
               over |-> [s \in Slices |-> slices[s].implemented]]
  /\ UNCHANGED <<definition, lifecycle, underlying, blockers, approval, leases,
                 slices, current>>

\* Faulty CompletePlan: what held when the final review began is not looked at.
CompleteOnReview(a) ==
  /\ Live /\ a \in Operators /\ Quiescent
  /\ lifecycle = "verifying"
  /\ final # None /\ final.passed /\ final.definition = definition
  /\ lifecycle' = "completed"
  /\ Refresh(slices, {})
  /\ UNCHANGED <<definition, underlying, blockers, approval, leases, final>>

CompletePlan(a) ==
  /\ Live /\ a \in Operators /\ Quiescent
  /\ lifecycle = "verifying"
  /\ final # None /\ final.passed /\ final.definition = definition
  /\ RequiredResolved /\ blockers = {}
  /\ lifecycle' = "completed"
  /\ Refresh(slices, {})
  /\ UNCHANGED <<definition, underlying, blockers, approval, leases, final>>

(* archive_plan and supersede_plan, which names a successor *)
ClosePlan(a) ==
  /\ Open /\ a \in Operators /\ Quiescent
  /\ underlying' = lifecycle
  /\ lifecycle' = "closed"
  /\ UNCHANGED <<definition, blockers, approval, leases, slices, current,
                 final>>

-----------------------------------------------------------------------------
(* A reviewed new definition.  Slices whose work is carried forward keep   *)
(* their acceptance and dependencies; the others, and all that depends on  *)
(* them, lose their proof.                                                 *)

Carriable(def) ==
  {s \in definition.ids \cap def.ids :
     /\ definition.acceptance[s] = def.acceptance[s]
     /\ definition.dependsOn[s] = def.dependsOn[s]}

(* A slice the new definition drops must never have been worked on.        *)
Droppable(s) == slices[s].status = "pending" /\ slices[s].implemented = 0

\* Faulty Reconciled: a proof survives when its slice is not carried forward.
ReconciledKeepingProof(def, carry, changed, s) ==
  IF s \notin def.ids \/ s \notin definition.ids THEN FreshSlice
  ELSE IF s \notin carry
    THEN [slices[s] EXCEPT
            !.status = IF slices[s].implemented = 0 THEN "pending" ELSE "implemented"]
  ELSE slices[s]

Reconciled(def, carry, changed, s) ==
  IF s \notin def.ids \/ s \notin definition.ids THEN FreshSlice
  ELSE IF s \notin carry
    THEN [slices[s] EXCEPT
            !.status = IF slices[s].implemented = 0 THEN "pending" ELSE "implemented",
            !.verification = Revoked(@)]
  ELSE IF s \in changed THEN Unproved(slices[s])
  ELSE slices[s]

ReconcileDefinition(a, def, carryForward) ==
  LET unchanged == def = definition
      carry == IF unchanged THEN definition.ids ELSE carryForward
      dropped == definition.ids \ carry
      changed == dropped \cup Downstream(def, dropped)
      kept == IF approval = None THEN {} ELSE (approval.scope \cap carry) \ changed
  IN
  /\ Open /\ a \in Operators /\ Quiescent
  /\ carryForward \subseteq Carriable(def)
  /\ current \subseteq carry
  /\ \A s \in definition.ids \ def.ids : Droppable(s)
  /\ definition' = def
  /\ Refresh([s \in Slices |-> Reconciled(def, carry, changed, s)], current)
  /\ IF unchanged
       THEN UNCHANGED <<approval, final, lifecycle>>
       ELSE /\ approval' = IF kept = {} THEN None
                           ELSE [approval EXCEPT !.definition = def, !.scope = kept]
            /\ final' = None
            /\ lifecycle' = CASE current # {} -> "implementing"
                             [] current = {} /\ kept # {} -> "implementation_ready"
                             [] current = {} /\ kept = {} -> "planning"
  /\ UNCHANGED <<underlying, blockers, leases>>

-----------------------------------------------------------------------------
PlanStep(a) ==
  \/ BeginPlanning(a) \/ ReviewPlan(a)
  \/ \E owner \in Actors \ {Runtime}, scope \in Scopes, limit \in Limits :
       ApproveScope(a, owner, scope, limit)
  \/ \E reason \in PlanReasons : BlockPlan(a, reason) \/ UnblockPlan(a, reason)
  \/ BeginFinalVerification(a) \/ CompletePlan(a)
  \/ \E passed \in BOOLEAN : FinishFinalVerification(a, passed)
  \/ ClosePlan(a)
  \/ \E def \in Definitions, carry \in SUBSET Slices :
       ReconcileDefinition(a, def, carry)

SliceStep(a, s) ==
  \/ StartSlice(a, s) \/ ResumeSlice(a, s)
  \/ \E reason \in Reasons[s] : BlockSlice(a, s, reason) \/ UnblockSlice(a, s, reason)
  \/ RecordImplementation(a, s) \/ BeginVerification(a, s)
  \/ VerificationFails(a, s) \/ VerificationPasses(a, s)
  \/ \E waiver \in BOOLEAN : DeferSlice(a, s, waiver)
  \/ ReopenSlice(a, s)

Execution ==
  \/ \E s \in Slices : AdmitSlice(s)
  \/ AdmitFinal
  \/ \E lease \in leases, stopped \in BOOLEAN : EndExecution(lease, stopped)

Next ==
  \/ \E a \in Actors : PlanStep(a)
  \/ \E a \in Actors, s \in Slices : SliceStep(a, s)
  \/ Execution

Spec == Init /\ [][Next]_vars

-----------------------------------------------------------------------------
(* Every variable has its type (PlanStateV2Schema, contracts.ts:185-200).  *)
TypeOK ==
  /\ definition \in Definitions
  /\ lifecycle \in Stages /\ underlying \in Stages \cup {None}
  /\ blockers \subseteq PlanReasons
  /\ approval \in Approval \cup {None}
  /\ leases \subseteq Lease /\ IsFiniteSet(leases)
  /\ slices \in [Slices -> SliceState]
  /\ current \subseteq Slices
  /\ final \in Final \cup {None}

(* The stage of a slice, seen through a block.                             *)
StageOf(s) ==
  IF slices[s].status = "blocked" THEN slices[s].prior ELSE slices[s].status

(* While an execution may be running, its slice stays current, approved,   *)
(* with the owner that was admitted, and at the stage it was admitted for: *)
(* nothing is recorded as implemented or verified under live work.         *)
LeaseHoldsItsSlice(lease) ==
  LET s == lease.slice
  IN /\ s \in current /\ approval # None
     /\ approval.definition = definition /\ s \in approval.scope
     /\ slices[s].owner = approval.owner /\ lease.owner = approval.owner
     /\ lease.kind = "implementation" => StageOf(s) = "in_progress"
     /\ lease.kind = "verification" => StageOf(s) = "verifying"

LeasesMatchWork ==
  \A lease \in leases :
    IF lease.kind = "final_verification" THEN lease.slice = None
    ELSE lease.slice # None /\ LeaseHoldsItsSlice(lease)

(* The approved parallelism bounds running and recovering work together,   *)
(* and a slice has one execution at a time, whatever is approved, blocked  *)
(* or reviewed in between.                                                 *)
CapacityIsKept ==
  /\ Cardinality(leases) <= ParallelLimit
  /\ \A l, m \in leases : l.slice = m.slice => l = m

(* A proof that still counts is about the implementation and the           *)
(* acceptance criteria the slice has now.                                  *)
FreshProofIsCurrent ==
  \A s \in Slices :
    LET proof == slices[s].verification
    IN proof \notin {None, Stale} =>
         /\ proof.implemented = slices[s].implemented
         /\ proof.acceptance = definition.acceptance[s]

(* A completed plan has every required slice resolved, a passed final      *)
(* review of its present definition, and no work, blocker or execution     *)
(* left.                                                                   *)
CompletionIsEarned ==
  lifecycle = "completed" =>
    /\ RequiredResolved /\ blockers = {} /\ leases = {} /\ current = {}
    /\ final # None /\ final.passed /\ final.definition = definition

(* When a slice that was done is worked on again, reopened or redefined,   *)
(* no proof downstream of it stays fresh.                                  *)
Undone(s) ==
  /\ slices[s].status \in {"verified", "deferred"}
  /\ slices'[s].status \in {"pending", "in_progress", "implemented"}
RevocationReachesDownstream ==
  [][\A s \in Slices : Undone(s) =>
       \A t \in Downstream(definition', {s}) :
         slices'[t].verification \in {None, Stale}]_vars

-----------------------------------------------------------------------------
(* What the repository says and the reducer does not keep.                 *)

(* "All required slices being resolved only enables final plan             *)
(* verification" (docs/ashoka/plan-authority.md): the final review of a    *)
(* completed plan reviewed the implementations its slices have.            *)
FinalReviewIsLast ==
  lifecycle = "completed" =>
    \A s \in definition.required :
      slices[s].status = "verified" => final.over[s] = slices[s].implemented
=============================================================================
