------------------------ MODULE PlanWorkflow_proofs ------------------------
(***************************************************************************)
(* Proofs about PlanWorkflow, for any slices, actors and definitions, and  *)
(* about HostExecution, for any executions, requests and callers.          *)
(*                                                                         *)
(* The plan's safety properties are nearly inductive together.  What they  *)
(* lack is said by three more: a slice outside the definition was          *)
(* never worked on; a slice that is not done, seen through a block, has no *)
(* fresh proof (so that recording a new implementation cannot contradict   *)
(* one); and a suspended stage is never "completed" while the plan can     *)
(* still be unblocked (so that an unblock cannot complete it).             *)
(***************************************************************************)
EXTENDS HostExecution, FiniteSetTheorems, TLAPS

AbsentIsUntouched ==
  \A s \in Slices \ definition.ids :
    slices[s].status = "pending" /\ slices[s].owner = None

Unfresh(s) == slices[s].verification \in {None, Stale}
OpenWorkIsUnproved ==
  \A s \in Slices : StageOf(s) \notin {"verified", "deferred"} => Unfresh(s)

CompletionIsNotSuspended == underlying = "completed" => lifecycle = "closed"

IInv ==
  /\ TypeOK /\ AbsentIsUntouched /\ OpenWorkIsUnproved /\ CompletionIsNotSuspended
  /\ LeasesMatchWork /\ CapacityIsKept /\ FreshProofIsCurrent /\ CompletionIsEarned

-----------------------------------------------------------------------------
(***************************************************************************)
(* Type correctness                                                        *)
(***************************************************************************)
LEMMA StatusNames ==
  /\ {"pending", "in_progress", "implemented", "verifying", "verified",
      "blocked", "deferred"} = Statuses
  /\ {"draft", "planning", "reviewed", "implementation_ready", "implementing",
      "verifying", "blocked", "completed", "closed"} = Stages
  BY DEF Statuses, Stages

LEMMA InitType == Init => TypeOK
<1> SUFFICES ASSUME Init  PROVE TypeOK
  OBVIOUS
<1>1. FreshSlice \in SliceState
  BY DEF FreshSlice, SliceState, Statuses
<1>2. IsFiniteSet({})
  BY FS_EmptySet
<1> QED  BY <1>1, <1>2, DefinitionsAssumption DEF Init, InitWith, TypeOK, Stages

LEMMA FieldTypes ==
  ASSUME NEW r \in SliceState
  PROVE  /\ r.status \in Statuses /\ r.prior \in Statuses \cup {None}
         /\ r.blockers \subseteq UNION {Reasons[s] : s \in Slices}
         /\ r.owner \in Actors \cup {None} /\ r.implemented \in Nat
         /\ r.verification \in Proof \cup {None, Stale} /\ r.waiver \in BOOLEAN
  BY DEF SliceState

\* The updates of a slice that the commands are made of.
LEMMA SetStatus ==
  ASSUME NEW r \in SliceState, NEW status \in Statuses
  PROVE  [r EXCEPT !.status = status] \in SliceState
  BY DEF SliceState

LEMMA SetOwner ==
  ASSUME NEW r \in SliceState, NEW status \in Statuses,
         NEW owner \in Actors \cup {None}
  PROVE  [r EXCEPT !.status = status, !.owner = owner] \in SliceState
  BY DEF SliceState

LEMMA SetBlocked ==
  ASSUME NEW r \in SliceState, NEW status \in Statuses,
         NEW b \in SUBSET UNION {Reasons[s] : s \in Slices},
         NEW prior \in Statuses \cup {None}
  PROVE  [r EXCEPT !.status = status, !.blockers = b, !.prior = prior] \in SliceState
  BY DEF SliceState

LEMMA SetBlockers ==
  ASSUME NEW r \in SliceState, NEW b \in SUBSET UNION {Reasons[s] : s \in Slices}
  PROVE  [r EXCEPT !.blockers = b] \in SliceState
  BY DEF SliceState

LEMMA SetFreed ==
  ASSUME NEW r \in SliceState, NEW b \in SUBSET UNION {Reasons[s] : s \in Slices},
         NEW status \in Statuses,
         NEW prior \in Statuses \cup {None}
  PROVE  [r EXCEPT !.blockers = b, !.status = status, !.prior = prior] \in SliceState
  BY DEF SliceState

LEMMA SetImplemented ==
  ASSUME NEW r \in SliceState, NEW status \in Statuses,
         NEW n \in Nat
  PROVE  [r EXCEPT !.status = status, !.implemented = n] \in SliceState
  BY DEF SliceState

LEMMA SetVerified ==
  ASSUME NEW r \in SliceState, NEW status \in Statuses,
         NEW proof \in Proof \cup {None, Stale}
  PROVE  [r EXCEPT !.status = status, !.verification = proof] \in SliceState
  BY DEF SliceState

LEMMA SetRevoked ==
  ASSUME NEW r \in SliceState, NEW proof \in Proof \cup {None, Stale},
         NEW status \in Statuses
  PROVE  [r EXCEPT !.verification = proof, !.status = status] \in SliceState
  BY DEF SliceState

LEMMA SetDeferred ==
  ASSUME NEW r \in SliceState, NEW status \in Statuses,
         NEW waiver \in BOOLEAN
  PROVE  [r EXCEPT !.status = status, !.waiver = waiver] \in SliceState
  BY DEF SliceState

LEMMA SetReopened ==
  ASSUME NEW r \in SliceState, NEW status \in Statuses,
         NEW proof \in Proof \cup {None, Stale},
         NEW waiver \in BOOLEAN,
         NEW owner \in Actors \cup {None}
  PROVE  [r EXCEPT !.status = status, !.verification = proof, !.waiver = waiver, !.owner = owner] \in SliceState
  BY DEF SliceState

LEMMA ChangeType ==
  ASSUME TypeOK, NEW s \in Slices, NEW r \in SliceState, Change(s, r)
  PROVE  slices' \in [Slices -> SliceState] /\ current' \subseteq Slices
  BY DEF TypeOK, Change, Refresh

LEMMA RevokedType ==
  ASSUME NEW r \in SliceState
  PROVE  Revoked(r.verification) \in {None, Stale}
  BY DEF Revoked

LEMMA UnprovedType ==
  ASSUME NEW r \in SliceState
  PROVE  Unproved(r) \in SliceState
<1>1. (IF r.status = "verified" /\ r.verification # None THEN "implemented" ELSE r.status)
        \in Statuses
  BY FieldTypes, StatusNames
<1>2. Revoked(r.verification) \in Proof \cup {None, Stale}
  BY RevokedType
<1> QED  BY <1>1, <1>2, SetRevoked DEF Unproved

LEMMA ReopenedType ==
  ASSUME TypeOK, NEW r \in SliceState, NEW a \in Actors
  PROVE  Reopened(r, a) \in SliceState
<1>1. (IF approval = None THEN a ELSE approval.owner) \in Actors
  BY DEF TypeOK, Approval
<1>2. Revoked(r.verification) \in Proof \cup {None, Stale} /\ "in_progress" \in Statuses
  BY RevokedType, StatusNames
<1> QED  BY <1>1, <1>2, SetReopened DEF Reopened

LEMMA ReconciledType ==
  ASSUME TypeOK, NEW def, NEW carry, NEW changed, NEW s \in Slices
  PROVE  Reconciled(def, carry, changed, s) \in SliceState
<1>1. slices[s] \in SliceState
  BY DEF TypeOK
<1>2. FreshSlice \in SliceState
  BY DEF FreshSlice, SliceState, Statuses
<1>3. [slices[s] EXCEPT !.status = IF slices[s].implemented = 0 THEN "pending" ELSE "implemented",
                        !.verification = Revoked(@)] \in SliceState
  <2>1. Revoked(slices[s].verification) \in Proof \cup {None, Stale}
    BY <1>1, RevokedType
  <2>2. (IF slices[s].implemented = 0 THEN "pending" ELSE "implemented") \in Statuses
    BY StatusNames
  <2> QED  BY <1>1, <2>1, <2>2, SetVerified
<1> QED  BY <1>1, <1>2, <1>3, UnprovedType DEF Reconciled

\* Only the commands on the plan as a whole.
LEMMA PlanStepType ==
  ASSUME TypeOK, NEW a \in Actors, PlanStep(a)
  PROVE  TypeOK'
<1> USE DEF TypeOK
<1>1. CASE BeginPlanning(a) \/ ReviewPlan(a) \/ BeginFinalVerification(a)
  BY <1>1 DEF BeginPlanning, ReviewPlan, BeginFinalVerification, Stages
<1>2. ASSUME NEW owner \in Actors \ {Runtime}, NEW scope \in Scopes, NEW limit \in Limits,
             ApproveScope(a, owner, scope, limit)
      PROVE  TypeOK'
  <2>1. scope \in SUBSET Slices /\ owner \in Actors
    BY SlicesAssumption
  <2>2. approval' \in Approval
    BY <1>2, <2>1 DEF ApproveScope, Approval
  <2> QED  BY <1>2, <2>2 DEF ApproveScope, Stages
<1>3. ASSUME NEW reason \in PlanReasons, BlockPlan(a, reason) \/ UnblockPlan(a, reason)
      PROVE  TypeOK'
  BY <1>3 DEF BlockPlan, UnblockPlan, Stages
<1>4. CASE CompletePlan(a)
  BY <1>4 DEF CompletePlan, Refresh, Stages
<1>5. ASSUME NEW passed \in BOOLEAN, FinishFinalVerification(a, passed)
      PROVE  TypeOK'
  <2>1. final' \in Final
    BY <1>5 DEF FinishFinalVerification, Final, SliceState
  <2> QED  BY <1>5, <2>1 DEF FinishFinalVerification
<1>6. CASE ClosePlan(a)
  BY <1>6 DEF ClosePlan, Stages
<1>7. ASSUME NEW def \in Definitions, NEW carry \in SUBSET Slices,
             ReconcileDefinition(a, def, carry)
      PROVE  TypeOK'
  <2>2. slices' \in [Slices -> SliceState] /\ current' \subseteq Slices
    BY <1>7, ReconciledType DEF ReconcileDefinition, Refresh
  <2>3. approval' \in Approval \cup {None}
    <3>1. ASSUME NEW scope \in SUBSET Slices, approval # None
          PROVE  [approval EXCEPT !.definition = def, !.scope = scope] \in Approval
      BY <3>1 DEF Approval
    <3>2. approval # None => approval.scope \subseteq Slices
      BY DEF Approval
    <3> QED  BY <1>7, <3>1, <3>2 DEF ReconcileDefinition
  <2>4. lifecycle' \in Stages
    BY <1>7 DEF ReconcileDefinition, Stages
  <2> QED  BY <1>7, <2>2, <2>3, <2>4 DEF ReconcileDefinition
<1> QED  BY <1>1, <1>2, <1>3, <1>4, <1>5, <1>6, <1>7 DEF PlanStep

LEMMA SliceStepType ==
  ASSUME TypeOK, NEW a \in Actors, NEW s \in Slices, SliceStep(a, s)
  PROVE  TypeOK'
<1> DEFINE Typed == slices' \in [Slices -> SliceState] /\ current' \subseteq Slices
           Framed == UNCHANGED <<definition, underlying, blockers, approval, leases>>
<1>0. /\ slices[s] \in SliceState /\ slices \in [Slices -> SliceState]
      /\ current \subseteq Slices /\ current \cup {s} \subseteq Slices
  BY DEF TypeOK
<1>1. CASE StartSlice(a, s)
  <2>1. [slices[s] EXCEPT !.status = "in_progress", !.owner = a] \in SliceState
    BY <1>0, SetOwner, StatusNames
  <2>2. Typed /\ Framed
    BY <1>0, <1>1, <2>1 DEF StartSlice, Refresh
  <2> QED  BY <1>1, <2>2 DEF StartSlice, TypeOK, Stages
<1>2. CASE ResumeSlice(a, s)
  BY <1>0, <1>2 DEF ResumeSlice, TypeOK, Refresh, Stages
<1>3. ASSUME NEW r \in SliceState, Change(s, r), Framed, UNCHANGED <<lifecycle, final>>
      PROVE  TypeOK'
  BY <1>3, ChangeType DEF TypeOK
<1>4. ASSUME NEW reason \in Reasons[s], BlockSlice(a, s, reason)
      PROVE  TypeOK'
  <2> DEFINE prior == IF slices[s].status # "blocked" THEN slices[s].status ELSE slices[s].prior
             r == [slices[s] EXCEPT !.status = "blocked", !.blockers = @ \cup {reason},
                                    !.prior = prior]
  <2>1. prior \in Statuses \cup {None}
    BY <1>0, FieldTypes
  <2>2. slices[s].blockers \cup {reason} \in SUBSET UNION {Reasons[t] : t \in Slices}
    BY <1>0, FieldTypes
  <2>3. r \in SliceState
    <3> HIDE DEF prior
    <3> QED  BY <1>0, <2>1, <2>2, SetBlocked, StatusNames
  <2>4. Change(s, r) /\ Framed /\ UNCHANGED <<lifecycle, final>>
    BY <1>4 DEF BlockSlice
  <2> QED  BY <1>3, <2>3, <2>4
<1>5. ASSUME NEW reason \in Reasons[s], UnblockSlice(a, s, reason)
      PROVE  TypeOK'
  <2> DEFINE left == slices[s].blockers \ {reason}
             stage == IF slices[s].prior = None THEN "in_progress" ELSE slices[s].prior
             r == IF left # {} THEN [slices[s] EXCEPT !.blockers = left]
                  ELSE [slices[s] EXCEPT !.blockers = {}, !.status = stage, !.prior = None]
  <2>1. stage \in Statuses
    BY <1>0, FieldTypes, StatusNames
  <2>2. left \in SUBSET UNION {Reasons[t] : t \in Slices} /\ {} \in SUBSET UNION {Reasons[t] : t \in Slices}
    BY <1>0, FieldTypes
  <2>3. r \in SliceState
    <3> HIDE DEF stage, left
    <3> QED  BY <1>0, <2>1, <2>2, SetBlockers, SetFreed
  <2>4. Change(s, r) /\ Framed /\ UNCHANGED <<lifecycle, final>>
    BY <1>5 DEF UnblockSlice
  <2> QED  BY <1>3, <2>3, <2>4
<1>6. CASE RecordImplementation(a, s)
  <2>1. slices[s].implemented + 1 \in Nat
    BY <1>0, FieldTypes
  <2>2. [slices[s] EXCEPT !.status = "implemented", !.implemented = @ + 1] \in SliceState
    BY <1>0, <2>1, SetImplemented, StatusNames
  <2> QED  BY <1>3, <1>6, <2>2 DEF RecordImplementation
<1>7. CASE BeginVerification(a, s)
  <2>1. [slices[s] EXCEPT !.status = "verifying"] \in SliceState
    BY <1>0, SetStatus, StatusNames
  <2> QED  BY <1>3, <1>7, <2>1 DEF BeginVerification
<1>8. CASE VerificationFails(a, s)
  <2>1. [slices[s] EXCEPT !.status = "implemented"] \in SliceState
    BY <1>0, SetStatus, StatusNames
  <2> QED  BY <1>3, <1>8, <2>1 DEF VerificationFails
<1>9. CASE VerificationPasses(a, s)
  <2> DEFINE proof == [acceptance |-> definition.acceptance[s],
                       implemented |-> slices[s].implemented]
  <2>1. proof \in Proof
    BY <1>0, FieldTypes, DefinitionsAssumption DEF Proof, TypeOK
  <2>2. [slices[s] EXCEPT !.status = "verified", !.verification = proof] \in SliceState
    <3> HIDE DEF proof
    <3> QED  BY <1>0, <2>1, SetVerified, StatusNames
  <2> QED  BY <1>3, <1>9, <2>2 DEF VerificationPasses
<1>10. ASSUME NEW waiver \in BOOLEAN, DeferSlice(a, s, waiver)
       PROVE  TypeOK'
  <2>1. [slices[s] EXCEPT !.status = "deferred", !.waiver = waiver] \in SliceState
    BY <1>0, SetDeferred, StatusNames
  <2> QED  BY <1>3, <1>10, <2>1 DEF DeferSlice
<1>11. CASE ReopenSlice(a, s)
  <2>1. ASSUME NEW t \in Slices
        PROVE  {slices[t], Reopened(slices[t], a), Unproved(slices[t])} \subseteq SliceState
    BY ReopenedType, UnprovedType DEF TypeOK
  <2>2. Typed /\ Framed
    BY <1>0, <1>11, <2>1 DEF ReopenSlice, Refresh
  <2> QED  BY <1>11, <2>2 DEF ReopenSlice, TypeOK, Stages
<1> QED  BY <1>1, <1>2, <1>4, <1>5, <1>6, <1>7, <1>8, <1>9, <1>10, <1>11 DEF SliceStep

LEMMA ExecutionType ==
  ASSUME TypeOK, Execution
  PROVE  TypeOK'
<1> USE DEF TypeOK
<1>1. SUFFICES /\ leases' \subseteq Lease /\ IsFiniteSet(leases')
               /\ UNCHANGED <<definition, lifecycle, underlying, blockers, approval, slices,
                              current, final>>
  OBVIOUS
<1>2. ASSUME NEW s \in Slices \cup {None},
             NEW kind \in {"implementation", "verification", "final_verification"},
             Admit(s, kind)
      PROVE  /\ leases' \subseteq Lease /\ IsFiniteSet(leases')
             /\ UNCHANGED <<definition, lifecycle, underlying, blockers, approval, slices,
                            current, final>>
  <2>1. (IF approval = None THEN Runtime ELSE approval.owner) \in Actors
    BY ActorsAssumption DEF Approval
  <2>2. [slice |-> s, kind |-> kind, running |-> TRUE,
         owner |-> IF approval = None THEN Runtime ELSE approval.owner] \in Lease
    BY <2>1 DEF Lease
  <2> QED  BY <1>2, <2>2, FS_AddElement DEF Admit
<1>3. ASSUME NEW lease \in leases, NEW stopped \in BOOLEAN, EndExecution(lease, stopped)
      PROVE  /\ leases' \subseteq Lease /\ IsFiniteSet(leases')
             /\ UNCHANGED <<definition, lifecycle, underlying, blockers, approval, slices,
                            current, final>>
  <2>1. [lease EXCEPT !.running = FALSE] \in Lease
    BY <1>3 DEF Lease
  <2>2. IsFiniteSet(leases \ {lease})
    BY FS_RemoveElement
  <2>3. IsFiniteSet((leases \ {lease}) \cup {[lease EXCEPT !.running = FALSE]})
    BY <2>2, FS_AddElement
  <2> QED  BY <1>3, <2>1, <2>2, <2>3 DEF EndExecution
<1> QED  BY <1>2, <1>3 DEF Execution, AdmitSlice, AdmitFinal

LEMMA NextType ==
  ASSUME TypeOK, [Next]_vars
  PROVE  TypeOK'
<1>1. CASE UNCHANGED vars
  BY <1>1 DEF vars, TypeOK
<1> QED  BY <1>1, PlanStepType, SliceStepType, ExecutionType DEF Next

-----------------------------------------------------------------------------
(***************************************************************************)
(* Helpers                                                                 *)
(***************************************************************************)
LEMMA ChangeEffect ==
  ASSUME TypeOK, NEW s \in Slices, NEW r, Change(s, r)
  PROVE  /\ slices'[s] = r
         /\ \A t \in Slices \ {s} : slices'[t] = slices[t]
         /\ \A t \in current : slices'[t].status \notin {"verified", "deferred"} => t \in current'
  BY DEF TypeOK, Change, Refresh

LEMMA InitInv == Init => IInv
<1> SUFFICES ASSUME Init  PROVE IInv
  OBVIOUS
<1>1. TypeOK
  BY InitType
<1>2. \A s \in Slices : slices[s] = FreshSlice
  BY DEF Init, InitWith
<1>3. AbsentIsUntouched /\ OpenWorkIsUnproved /\ FreshProofIsCurrent
  BY <1>2 DEF AbsentIsUntouched, OpenWorkIsUnproved, FreshProofIsCurrent, Unfresh, FreshSlice
<1>4. CompletionIsNotSuspended /\ LeasesMatchWork /\ CompletionIsEarned
  BY NoneAssumption DEF Init, InitWith, CompletionIsNotSuspended, LeasesMatchWork, CompletionIsEarned, Stages
<1>5. CapacityIsKept
  BY FS_EmptySet DEF Init, InitWith, CapacityIsKept, ParallelLimit
<1> QED  BY <1>1, <1>3, <1>4, <1>5 DEF IInv

-----------------------------------------------------------------------------
(***************************************************************************)
(* What each command on a slice does to it                                 *)
(***************************************************************************)
\* Only s changes, and a lease on s, if there is one, still holds it.
SteadyUnderLease(s) ==
  /\ \A t \in Slices \ {s} : slices'[t] = slices[t]
  /\ \A t \in current : slices'[t].status \notin {"verified", "deferred"} => t \in current'
  /\ UNCHANGED <<definition, underlying, blockers, approval, leases>>
  /\ \/ \A l \in leases : l.slice # s
     \/ StageOf(s)' = StageOf(s) /\ slices'[s].owner = slices[s].owner

LEMMA IdleSlice ==
  ASSUME IInv, NEW s \in Slices,
         slices[s].status \in {"pending", "implemented", "verified", "deferred"}
  PROVE  \A l \in leases : l.slice # s
  BY NoneAssumption DEF IInv, TypeOK, LeasesMatchWork, LeaseHoldsItsSlice, StageOf, Lease

LEMMA SteadyStep ==
  ASSUME IInv, NEW a \in Actors, NEW s \in Slices, SliceStep(a, s), leases # {}
  PROVE  SteadyUnderLease(s)
<1>0. TypeOK /\ slices[s] \in SliceState
  BY DEF IInv, TypeOK
<1> USE DEF SteadyUnderLease
<1>1. CASE StartSlice(a, s)
  BY <1>0, <1>1, IdleSlice DEF StartSlice, CanStart, Refresh, TypeOK
<1>2. CASE ResumeSlice(a, s)
  BY <1>0, <1>2 DEF ResumeSlice, Refresh, StageOf, TypeOK
<1>3. ASSUME NEW reason \in Reasons[s], BlockSlice(a, s, reason)
      PROVE  SteadyUnderLease(s)
  <2> DEFINE prior == IF slices[s].status # "blocked" THEN slices[s].status ELSE slices[s].prior
  <2>1. slices'[s] = [slices[s] EXCEPT !.status = "blocked", !.blockers = @ \cup {reason},
                                       !.prior = prior]
    BY <1>0, <1>3, ChangeEffect DEF BlockSlice
  <2>2. slices'[s].status = "blocked" /\ slices'[s].prior = prior
        /\ slices'[s].owner = slices[s].owner
    BY <1>0, <2>1 DEF SliceState
  <2>3. StageOf(s)' = StageOf(s)
    BY <2>2 DEF StageOf
  <2> QED  BY <1>0, <1>3, <2>2, <2>3, ChangeEffect DEF BlockSlice
<1>4. ASSUME NEW reason \in Reasons[s], UnblockSlice(a, s, reason)
      PROVE  SteadyUnderLease(s)
  <2>0. slices[s].status = "blocked" /\ StageOf(s) = slices[s].prior
    BY <1>4 DEF UnblockSlice, StageOf
  <2>1. CASE slices[s].prior = None
    <3>1. ASSUME NEW l \in leases, l.slice = s  PROVE FALSE
      <4>1. l.kind \in {"implementation", "verification"} /\ LeaseHoldsItsSlice(l)
        BY <3>1, NoneAssumption DEF IInv, TypeOK, LeasesMatchWork, Lease
      <4>2. StageOf(s) \in {"in_progress", "verifying"}
        BY <3>1, <4>1 DEF LeaseHoldsItsSlice
      <4> QED  BY <2>0, <2>1, <4>2, NoneAssumption DEF Statuses
    <3> QED  BY <1>0, <1>4, <3>1, ChangeEffect DEF UnblockSlice
  <2>2. CASE slices[s].prior # None
    <3> DEFINE left == slices[s].blockers \ {reason}
    <3>1. slices'[s] = IF left # {} THEN [slices[s] EXCEPT !.blockers = left]
                       ELSE [slices[s] EXCEPT !.blockers = {}, !.status = slices[s].prior,
                                              !.prior = None]
      BY <1>0, <1>4, <2>2, ChangeEffect DEF UnblockSlice
    <3>2. slices'[s].owner = slices[s].owner
      BY <1>0, <3>1 DEF SliceState
    <3>3. StageOf(s)' = slices[s].prior \/ slices[s].prior = "blocked"
      BY <1>0, <2>0, <3>1 DEF SliceState, StageOf
    <3>4. slices[s].prior = "blocked" => \A l \in leases : l.slice # s
      BY <2>0, NoneAssumption DEF IInv, TypeOK, LeasesMatchWork, LeaseHoldsItsSlice, Lease
    <3> QED  BY <1>0, <1>4, <2>0, <3>2, <3>3, <3>4, ChangeEffect DEF UnblockSlice
  <2> QED  BY <2>1, <2>2
<1>5. CASE RecordImplementation(a, s)
  BY <1>0, <1>5, ChangeEffect DEF RecordImplementation
<1>6. CASE BeginVerification(a, s)
  BY <1>0, <1>6, ChangeEffect, IdleSlice DEF BeginVerification
<1>7. CASE VerificationFails(a, s)
  BY <1>0, <1>7, ChangeEffect DEF VerificationFails
<1>8. CASE VerificationPasses(a, s)
  BY <1>0, <1>8, ChangeEffect DEF VerificationPasses
<1>9. ASSUME NEW waiver \in BOOLEAN, DeferSlice(a, s, waiver)
      PROVE  SteadyUnderLease(s)
  BY <1>9 DEF DeferSlice, Quiescent
<1>10. CASE ReopenSlice(a, s)
  BY <1>10 DEF ReopenSlice, Quiescent
<1> QED  BY <1>1, <1>2, <1>3, <1>4, <1>5, <1>6, <1>7, <1>8, <1>9, <1>10 DEF SliceStep

LEMMA SteadyKeepsLeases ==
  ASSUME IInv, NEW s \in Slices, SteadyUnderLease(s)
  PROVE  LeasesMatchWork'
<1> SUFFICES ASSUME NEW lease \in leases
             PROVE  IF lease.kind = "final_verification" THEN lease.slice = None
                    ELSE lease.slice # None /\ LeaseHoldsItsSlice(lease)'
  BY DEF SteadyUnderLease, LeasesMatchWork
<1> DEFINE t == lease.slice
<1>1. CASE lease.kind = "final_verification"
  BY <1>1 DEF IInv, LeasesMatchWork
<1>2. CASE lease.kind # "final_verification"
  <2>1. t \in Slices /\ LeaseHoldsItsSlice(lease) /\ lease.kind \in {"implementation", "verification"}
    BY <1>2 DEF IInv, TypeOK, LeasesMatchWork, Lease
  <2>2. StageOf(t)' = StageOf(t) /\ slices'[t].owner = slices[t].owner
    BY <2>1 DEF SteadyUnderLease, StageOf
  <2>3. slices'[t].status \notin {"verified", "deferred"}
    BY <2>1, <2>2 DEF LeaseHoldsItsSlice, StageOf
  <2>4. t \in current'
    BY <2>1, <2>3 DEF SteadyUnderLease, LeaseHoldsItsSlice
  <2> QED  BY <1>2, <2>1, <2>2, <2>4, NoneAssumption DEF LeaseHoldsItsSlice, SteadyUnderLease
<1> QED  BY <1>1, <1>2

-----------------------------------------------------------------------------
(***************************************************************************)
(* Leases                                                                  *)
(***************************************************************************)
\* Commands on the plan either need it to be quiescent or leave alone all that
\* a lease is about.
LEMMA PlanStepLeases ==
  ASSUME NEW a \in Actors, PlanStep(a)
  PROVE  /\ leases' = leases
         /\ leases # {} => UNCHANGED <<definition, approval, slices, current>>
  BY DEF PlanStep, BeginPlanning, ReviewPlan, ApproveScope, BlockPlan, UnblockPlan,
     BeginFinalVerification, CompletePlan, FinishFinalVerification, ClosePlan,
     ReconcileDefinition, Quiescent

LEMMA SliceStepLeases ==
  ASSUME NEW a \in Actors, NEW s \in Slices, SliceStep(a, s)
  PROVE  UNCHANGED <<leases, approval>>
  BY DEF SliceStep, StartSlice, ResumeSlice, BlockSlice, UnblockSlice, RecordImplementation,
     BeginVerification, VerificationFails, VerificationPasses, DeferSlice, ReopenSlice

LEMMA ExecutionEffect ==
  ASSUME Execution
  PROVE  /\ UNCHANGED <<definition, lifecycle, underlying, blockers, approval, slices,
                        current, final>>
         /\ lifecycle # "completed"
  BY DEF Execution, AdmitSlice, AdmitFinal, Admit, EndExecution, Live

LEMMA LeasesStep ==
  ASSUME IInv, Next
  PROVE  LeasesMatchWork'
<1>1. ASSUME NEW a \in Actors, PlanStep(a)  PROVE LeasesMatchWork'
  BY <1>1, PlanStepLeases DEF IInv, LeasesMatchWork, LeaseHoldsItsSlice, StageOf
<1>2. ASSUME NEW a \in Actors, NEW s \in Slices, SliceStep(a, s)  PROVE LeasesMatchWork'
  BY <1>2, SliceStepLeases, SteadyStep, SteadyKeepsLeases DEF LeasesMatchWork
<1>3. ASSUME NEW lease \in Lease,
             IF lease.kind = "final_verification" THEN lease.slice = None
             ELSE lease.slice # None /\ LeaseHoldsItsSlice(lease),
             Execution, leases' \subseteq leases \cup {lease}
      PROVE  LeasesMatchWork'
  BY <1>3, ExecutionEffect DEF IInv, LeasesMatchWork, LeaseHoldsItsSlice, StageOf
<1>4. ASSUME NEW s \in Slices, AdmitSlice(s), Execution  PROVE LeasesMatchWork'
  <2>1. PICK kind \in {"implementation", "verification"} :
          /\ Admit(s, kind)
          /\ kind = "implementation" => slices[s].status = "in_progress"
          /\ kind = "verification" => slices[s].status = "verifying"
    BY <1>4 DEF AdmitSlice
  <2> DEFINE lease == [slice |-> s, kind |-> kind, running |-> TRUE, owner |-> approval.owner]
  <2>2. approval # None /\ leases' = leases \cup {lease}
    BY <1>4, <2>1 DEF AdmitSlice, Admit, Approved
  <2>3. lease \in Lease /\ lease.kind = kind /\ lease.slice = s
    BY <2>2 DEF IInv, TypeOK, Approval, Lease
  <2>4. LeaseHoldsItsSlice(lease)
    BY <1>4, <2>1, <2>2, <2>3 DEF LeaseHoldsItsSlice, AdmitSlice, Approved, StageOf
  <2>5. s # None
    BY NoneAssumption
  <2> QED  BY <1>3, <1>4, <2>1, <2>2, <2>3, <2>4, <2>5
<1>5. CASE AdmitFinal /\ Execution
  <2> DEFINE lease == [slice |-> None, kind |-> "final_verification", running |-> TRUE,
                       owner |-> IF approval = None THEN Runtime ELSE approval.owner]
  <2>1. lease \in Lease
    BY ActorsAssumption DEF IInv, TypeOK, Approval, Lease
  <2>2. leases' = leases \cup {lease}
    BY <1>5 DEF AdmitFinal, Admit
  <2> QED  BY <1>3, <1>5, <2>1, <2>2
<1>6. ASSUME NEW lease \in leases, NEW stopped \in BOOLEAN, EndExecution(lease, stopped), Execution
      PROVE  LeasesMatchWork'
  <2> DEFINE ended == [lease EXCEPT !.running = FALSE]
  <2>1. lease \in Lease
    BY DEF IInv, TypeOK
  <2>2. ended \in Lease /\ ended.slice = lease.slice /\ ended.kind = lease.kind
        /\ ended.owner = lease.owner
    BY <2>1 DEF Lease
  <2>3. IF ended.kind = "final_verification" THEN ended.slice = None
        ELSE ended.slice # None /\ LeaseHoldsItsSlice(ended)
    BY <2>2 DEF IInv, LeasesMatchWork, LeaseHoldsItsSlice
  <2>4. leases' \subseteq leases \cup {ended}
    BY <1>6 DEF EndExecution
  <2> QED  BY <1>3, <1>6, <2>2, <2>3, <2>4
<1>7. ASSUME Execution  PROVE LeasesMatchWork'
  BY <1>4, <1>5, <1>6, <1>7 DEF Execution
<1> QED  BY <1>1, <1>2, <1>7 DEF Next

LEMMA CapacityStep ==
  ASSUME IInv, Next
  PROVE  CapacityIsKept'
<1>0. IsFiniteSet(leases) /\ leases \subseteq Lease /\ ParallelLimit \in Nat
  <2>1. approval # None => approval.limit \in Nat
    BY BoundsAssumption DEF IInv, TypeOK, Approval
  <2> QED  BY <2>1 DEF IInv, TypeOK, ParallelLimit
<1>1. ASSUME NEW a \in Actors, PlanStep(a)  PROVE CapacityIsKept'
  <2>1. CASE leases # {}
    BY <1>1, <2>1, PlanStepLeases DEF IInv, CapacityIsKept, ParallelLimit
  <2>2. CASE leases = {}
    <3>1. ParallelLimit' \in Nat
      BY <1>1, PlanStepType, BoundsAssumption DEF IInv, TypeOK, ParallelLimit, Approval
    <3>2. leases' = {} /\ Cardinality({}) = 0
      BY <1>1, <2>2, PlanStepLeases, FS_EmptySet
    <3> QED  BY <3>1, <3>2 DEF CapacityIsKept
  <2> QED  BY <2>1, <2>2
<1>2. ASSUME NEW a \in Actors, NEW s \in Slices, SliceStep(a, s)  PROVE CapacityIsKept'
  BY <1>2, SliceStepLeases DEF IInv, CapacityIsKept, ParallelLimit
<1>3. ASSUME NEW s \in Slices \cup {None}, NEW kind, Admit(s, kind)  PROVE CapacityIsKept'
  <2> DEFINE lease == [slice |-> s, kind |-> kind, running |-> TRUE,
                       owner |-> IF approval = None THEN Runtime ELSE approval.owner]
  <2>1. leases' = leases \cup {lease} /\ lease.slice = s /\ ParallelLimit' = ParallelLimit
    BY <1>3 DEF Admit, ParallelLimit
  <2>2. lease \notin leases
    BY <1>3, <2>1 DEF Admit
  <2>3. Cardinality(leases') = Cardinality(leases) + 1 /\ Cardinality(leases) \in Nat
    BY <1>0, <2>1, <2>2, FS_AddElement, FS_CardinalityType
  <2>4. Cardinality(leases) < ParallelLimit
    BY <1>3 DEF Admit
  <2>5. Cardinality(leases') <= ParallelLimit'
    BY <1>0, <2>1, <2>3, <2>4
  <2>6. \A l, m \in leases' : l.slice = m.slice => l = m
    BY <1>3, <2>1 DEF Admit, IInv, CapacityIsKept
  <2> QED  BY <2>5, <2>6 DEF CapacityIsKept
<1>4. ASSUME NEW lease \in leases, NEW stopped \in BOOLEAN, EndExecution(lease, stopped)
      PROVE  CapacityIsKept'
  <2> DEFINE rest == leases \ {lease}
             ended == [lease EXCEPT !.running = FALSE]
  <2>1. ended.slice = lease.slice /\ ParallelLimit' = ParallelLimit
    BY <1>0, <1>4 DEF EndExecution, ParallelLimit, Lease
  <2>2. leases' = rest \/ leases' = rest \cup {ended}
    BY <1>4 DEF EndExecution
  <2>3. IsFiniteSet(rest) /\ Cardinality(rest) = Cardinality(leases) - 1
        /\ Cardinality(leases) \in Nat /\ Cardinality(rest) \in Nat
    BY <1>0, FS_RemoveElement, FS_CardinalityType
  <2>4. Cardinality(rest \cup {ended}) \in {Cardinality(rest), Cardinality(rest) + 1}
    BY <2>3, FS_AddElement
  <2>5. Cardinality(leases') <= Cardinality(leases) /\ Cardinality(leases') \in Nat
    <3>1. Cardinality(leases') \in {Cardinality(rest), Cardinality(rest) + 1}
      BY <2>2, <2>4
    <3> HIDE DEF rest
    <3> QED  BY <2>3, <3>1
  <2>6. Cardinality(leases') <= ParallelLimit'
    <3>1. Cardinality(leases) <= ParallelLimit
      BY DEF IInv, CapacityIsKept
    <3> QED  BY <1>0, <2>1, <2>3, <2>5, <3>1
  <2>7. \A l \in rest : l.slice # lease.slice
    BY DEF IInv, CapacityIsKept
  <2>8. \A l, m \in leases' : l.slice = m.slice => l = m
    BY <2>1, <2>2, <2>7 DEF IInv, CapacityIsKept
  <2> QED  BY <2>6, <2>8 DEF CapacityIsKept
<1>5. ASSUME Execution  PROVE CapacityIsKept'
  BY <1>3, <1>4, <1>5 DEF Execution, AdmitSlice, AdmitFinal
<1> QED  BY <1>1, <1>2, <1>5 DEF Next

-----------------------------------------------------------------------------
(***************************************************************************)
(* Proofs of slices                                                        *)
(***************************************************************************)
\* What the invariant says of the proof of one slice.
ProofOK(s) ==
  /\ StageOf(s) \notin {"verified", "deferred"} => Unfresh(s)
  /\ ~Unfresh(s) => /\ slices[s].verification.implemented = slices[s].implemented
                    /\ slices[s].verification.acceptance = definition.acceptance[s]

LEMMA ProofsOK ==
  OpenWorkIsUnproved /\ FreshProofIsCurrent <=> \A s \in Slices : ProofOK(s)
  BY DEF OpenWorkIsUnproved, FreshProofIsCurrent, ProofOK, Unfresh

LEMMA RevokedIsUnfresh ==
  ASSUME NEW r \in SliceState
  PROVE  /\ Revoked(r.verification) \in {None, Stale}
         /\ Unproved(r).verification \in {None, Stale}
         /\ \A a : Reopened(r, a).verification \in {None, Stale}
  BY DEF Revoked, Unproved, Reopened, SliceState

\* A change of s that keeps its proof, its implementation and what it is a
\* proof of, and leaves neither verified nor deferred behind.
LEMMA SameProof ==
  ASSUME IInv, NEW s \in Slices, slices'[s].verification = slices[s].verification,
         slices'[s].implemented = slices[s].implemented \/ Unfresh(s),
         definition' = definition,
         StageOf(s)' \in {StageOf(s), "verified", "deferred"} \/ Unfresh(s)
  PROVE  ProofOK(s)'
<1>1. ProofOK(s)
  BY ProofsOK DEF IInv
<1> QED  BY <1>1 DEF ProofOK, Unfresh

LEMMA SliceStepProofs ==
  ASSUME IInv, NEW a \in Actors, NEW s \in Slices, SliceStep(a, s), NEW t \in Slices
  PROVE  ProofOK(t)'
<1>0. TypeOK /\ slices[s] \in SliceState /\ slices[t] \in SliceState
  BY DEF IInv, TypeOK
<1>1. ASSUME NEW r, Change(s, r), definition' = definition, s # t
      PROVE  ProofOK(t)'
  <2>1. slices'[t] = slices[t]
    BY <1>0, <1>1, ChangeEffect
  <2>2. StageOf(t)' = StageOf(t)
    BY <2>1 DEF StageOf
  <2> QED  BY <1>1, <2>1, <2>2, SameProof
<1>2. CASE StartSlice(a, s) \/ ResumeSlice(a, s)
  <2>1. /\ definition' = definition /\ slices'[t].verification = slices[t].verification
        /\ slices'[t].implemented = slices[t].implemented
        /\ slices'[t].status # slices[t].status => slices[t].status = "pending"
        /\ slices'[t].prior = slices[t].prior
    <3>1. CASE slices' = slices
      BY <1>2, <3>1 DEF StartSlice, ResumeSlice
    <3>2. CASE StartSlice(a, s)
      <4>1. slices'[t] = IF t = s THEN [slices[s] EXCEPT !.status = "in_progress", !.owner = a]
                         ELSE slices[t]
        BY <1>0, <3>2 DEF StartSlice, Refresh, TypeOK
      <4>2. slices[s].status = "pending" /\ definition' = definition
        BY <3>2 DEF StartSlice, CanStart
      <4> QED  BY <1>0, <4>1, <4>2 DEF SliceState
    <3> QED  BY <1>2, <3>1, <3>2 DEF ResumeSlice, Refresh
  <2>2. StageOf(t)' = StageOf(t) \/ StageOf(t) = "pending"
    BY <2>1 DEF StageOf
  <2>3. StageOf(t) = "pending" => Unfresh(t)
    BY ProofsOK DEF IInv, ProofOK
  <2> QED  BY <2>1, <2>2, <2>3, SameProof
<1>3. ASSUME NEW reason \in Reasons[s], BlockSlice(a, s, reason)
      PROVE  ProofOK(t)'
  <2> DEFINE prior == IF slices[s].status # "blocked" THEN slices[s].status ELSE slices[s].prior
             r == [slices[s] EXCEPT !.status = "blocked", !.blockers = @ \cup {reason},
                                    !.prior = prior]
  <2>1. Change(s, r) /\ definition' = definition
    BY <1>3 DEF BlockSlice
  <2>2. slices'[s] = r
    BY <1>0, <2>1, ChangeEffect
  <2>3. /\ slices'[s].status = "blocked" /\ slices'[s].prior = prior
        /\ slices'[s].verification = slices[s].verification
        /\ slices'[s].implemented = slices[s].implemented
    BY <1>0, <2>2 DEF SliceState
  <2>4. StageOf(s)' = StageOf(s)
    BY <2>3 DEF StageOf
  <2>5. ProofOK(s)'
    BY <2>1, <2>3, <2>4, SameProof
  <2> QED  BY <1>1, <2>1, <2>5
<1>4. ASSUME NEW reason \in Reasons[s], UnblockSlice(a, s, reason)
      PROVE  ProofOK(t)'
  <2> DEFINE left == slices[s].blockers \ {reason}
             stage == IF slices[s].prior = None THEN "in_progress" ELSE slices[s].prior
             r == IF left # {} THEN [slices[s] EXCEPT !.blockers = left]
                  ELSE [slices[s] EXCEPT !.blockers = {}, !.status = stage, !.prior = None]
  <2>1. Change(s, r) /\ definition' = definition /\ slices[s].status = "blocked"
    BY <1>4 DEF UnblockSlice
  <2>2. slices'[s] = r
    BY <1>0, <2>1, ChangeEffect
  <2>3. /\ slices'[s].verification = slices[s].verification
        /\ slices'[s].implemented = slices[s].implemented
        /\ \/ slices'[s].status = "blocked" /\ slices'[s].prior = slices[s].prior
           \/ slices'[s].status = stage /\ slices'[s].prior = None
    BY <1>0, <2>1, <2>2 DEF SliceState
  <2>4. StageOf(s)' = StageOf(s) \/ StageOf(s) \in {None, "blocked"}
    BY <2>1, <2>3 DEF StageOf
  <2>5. StageOf(s) \in {None, "blocked"} => Unfresh(s)
    BY ProofsOK, NoneAssumption DEF IInv, ProofOK, Statuses
  <2>6. ProofOK(s)'
    BY <2>1, <2>3, <2>4, <2>5, SameProof
  <2> QED  BY <1>1, <2>1, <2>6
<1>5. CASE RecordImplementation(a, s)
  <2> DEFINE r == [slices[s] EXCEPT !.status = "implemented", !.implemented = @ + 1]
  <2>1. Change(s, r) /\ definition' = definition /\ slices[s].status = "in_progress"
    BY <1>5 DEF RecordImplementation
  <2>2. slices'[s].verification = slices[s].verification
    <3>1. slices'[s] = r
      BY <1>0, <2>1, ChangeEffect
    <3> QED  BY <1>0, <3>1 DEF SliceState
  <2>3. Unfresh(s)
    BY <2>1, ProofsOK DEF IInv, ProofOK, StageOf
  <2>4. ProofOK(s)'
    BY <2>1, <2>2, <2>3, SameProof
  <2> QED  BY <1>1, <2>1, <2>4
<1>6. CASE BeginVerification(a, s) \/ VerificationFails(a, s)
  <2>1. PICK status \in {"verifying", "implemented"} :
          Change(s, [slices[s] EXCEPT !.status = status]) /\ definition' = definition
    BY <1>6 DEF BeginVerification, VerificationFails
  <2>2. /\ slices'[s].verification = slices[s].verification
        /\ slices'[s].implemented = slices[s].implemented
    BY <1>0, <2>1, ChangeEffect DEF SliceState
  <2>3. Unfresh(s)
    BY <1>6, ProofsOK DEF IInv, ProofOK, StageOf, BeginVerification, VerificationFails
  <2>4. ProofOK(s)'
    BY <2>1, <2>2, <2>3, SameProof
  <2> QED  BY <1>1, <2>1, <2>4
<1>7. CASE VerificationPasses(a, s)
  <2> DEFINE proof == [acceptance |-> definition.acceptance[s],
                       implemented |-> slices[s].implemented]
             r == [slices[s] EXCEPT !.status = "verified", !.verification = proof]
  <2>1. Change(s, r) /\ definition' = definition
    BY <1>7 DEF VerificationPasses
  <2>2. /\ slices'[s].status = "verified" /\ slices'[s].verification = proof
        /\ slices'[s].implemented = slices[s].implemented
    <3>1. slices'[s] = r
      BY <1>0, <2>1, ChangeEffect
    <3> QED  BY <1>0, <3>1 DEF SliceState
  <2>3. ProofOK(s)'
    BY <2>1, <2>2 DEF ProofOK, StageOf
  <2> QED  BY <1>1, <2>1, <2>3
<1>8. ASSUME NEW waiver \in BOOLEAN, DeferSlice(a, s, waiver)
      PROVE  ProofOK(t)'
  <2> DEFINE r == [slices[s] EXCEPT !.status = "deferred", !.waiver = waiver]
  <2>1. Change(s, r) /\ definition' = definition
    BY <1>8 DEF DeferSlice
  <2>2. /\ slices'[s].status = "deferred" /\ slices'[s].verification = slices[s].verification
        /\ slices'[s].implemented = slices[s].implemented
    <3>1. slices'[s] = r
      BY <1>0, <2>1, ChangeEffect
    <3> QED  BY <1>0, <3>1 DEF SliceState
  <2>3. ProofOK(s)'
    BY <2>1, <2>2, SameProof DEF StageOf
  <2> QED  BY <1>1, <2>1, <2>3
<1>9. CASE ReopenSlice(a, s)
  <2>1. slices'[t] \in {slices[t], Reopened(slices[t], a), Unproved(slices[t])}
        /\ definition' = definition
    BY <1>9 DEF ReopenSlice, Refresh
  <2>2. CASE slices'[t] = slices[t]
    BY <2>1, <2>2, SameProof DEF StageOf
  <2>3. CASE slices'[t] # slices[t]
    <3>1. slices'[t].verification \in {None, Stale}
      BY <1>0, <2>1, <2>3, RevokedIsUnfresh
    <3> QED  BY <3>1 DEF ProofOK, Unfresh
  <2> QED  BY <2>2, <2>3
<1> QED  BY <1>2, <1>3, <1>4, <1>5, <1>6, <1>7, <1>8, <1>9 DEF SliceStep

LEMMA ReconcileProofs ==
  ASSUME IInv, NEW a \in Actors, NEW def \in Definitions, NEW carry \in SUBSET Slices,
         ReconcileDefinition(a, def, carry), NEW s \in Slices
  PROVE  ProofOK(s)'
<1>0. slices[s] \in SliceState
  BY DEF IInv, TypeOK
<1> DEFINE kept == IF def = definition THEN definition.ids ELSE carry
           dropped == definition.ids \ kept
           changed == dropped \cup Downstream(def, dropped)
<1>1. definition' = def /\ slices'[s] = Reconciled(def, kept, changed, s)
      /\ carry \subseteq Carriable(def)
  BY DEF ReconcileDefinition, Refresh
<1>2. CASE slices'[s].verification \in {None, Stale}
  BY <1>2 DEF ProofOK, Unfresh
<1>3. CASE slices'[s].verification \notin {None, Stale}
  <2>1. slices'[s] = slices[s] /\ s \in kept
    <3> HIDE DEF kept, changed
    <3>1. FreshSlice.verification = None
      BY DEF FreshSlice
    <3>2. ASSUME NEW st
          PROVE  [slices[s] EXCEPT !.status = st, !.verification = Revoked(@)].verification
                   \in {None, Stale}
      BY <1>0 DEF SliceState, Revoked
    <3> QED  BY <1>0, <1>1, <1>3, <3>1, <3>2, RevokedIsUnfresh DEF Reconciled
  <2>2. def.acceptance[s] = definition.acceptance[s]
    BY <1>1, <2>1 DEF Carriable
  <2>3. ProofOK(s)
    BY ProofsOK DEF IInv
  <2> QED  BY <1>1, <2>1, <2>2, <2>3 DEF ProofOK, Unfresh, StageOf
<1> QED  BY <1>2, <1>3

LEMMA ProofsStep ==
  ASSUME IInv, Next
  PROVE  OpenWorkIsUnproved' /\ FreshProofIsCurrent'
<1>0. SUFFICES ASSUME NEW s \in Slices  PROVE ProofOK(s)'
  BY DEF ProofOK, OpenWorkIsUnproved, FreshProofIsCurrent, Unfresh
<1>1. CASE UNCHANGED <<slices, definition>>
  BY <1>1, SameProof DEF StageOf
<1>2. ASSUME NEW a \in Actors, PlanStep(a)  PROVE ProofOK(s)'
  <2>1. CASE \E def \in Definitions, carry \in SUBSET Slices : ReconcileDefinition(a, def, carry)
    BY <2>1, ReconcileProofs
  <2>2. CASE UNCHANGED <<slices, definition>>
    BY <2>2, <1>1
  <2> QED  BY <1>2, <2>1, <2>2 DEF PlanStep, BeginPlanning, ReviewPlan, ApproveScope, BlockPlan,
       UnblockPlan, BeginFinalVerification, CompletePlan, FinishFinalVerification, ClosePlan,
       Refresh
<1> QED  BY <1>1, <1>2, SliceStepProofs, ExecutionEffect DEF Next

-----------------------------------------------------------------------------
(***************************************************************************)
(* The plan as a whole                                                     *)
(***************************************************************************)
LEMMA SliceStepFrame ==
  ASSUME IInv, NEW a \in Actors, NEW s \in Slices, SliceStep(a, s)
  PROVE  /\ UNCHANGED <<definition, underlying, blockers, approval, leases>>
         /\ Open /\ s \in definition.ids
         /\ lifecycle' \in {lifecycle, "implementing", "planning"}
         /\ lifecycle = "completed" => ReopenSlice(a, s)
<1>1. s \notin definition.ids => slices[s].status = "pending" /\ slices[s].owner = None
  BY DEF IInv, AbsentIsUntouched
<1> QED  BY <1>1 DEF SliceStep, StartSlice, CanStart, ResumeSlice, BlockSlice, UnblockSlice,
     RecordImplementation, BeginVerification, VerificationFails, VerificationPasses, DeferSlice,
     ReopenSlice, Owned, Live, Open

LEMMA OtherSlices ==
  ASSUME IInv, NEW a \in Actors, NEW s \in Slices, SliceStep(a, s),
         NEW t \in Slices \ definition.ids
  PROVE  slices'[t] = slices[t]
<1>0. TypeOK /\ t # s /\ \A S : t \notin Downstream(definition, S)
  BY SliceStepFrame DEF IInv, Downstream
<1> QED  BY <1>0, ChangeEffect DEF SliceStep, StartSlice, ResumeSlice, BlockSlice, UnblockSlice,
     RecordImplementation, BeginVerification, VerificationFails, VerificationPasses, DeferSlice,
     ReopenSlice, Refresh, TypeOK

LEMMA AbsentStep ==
  ASSUME IInv, Next
  PROVE  AbsentIsUntouched'
<1>1. CASE UNCHANGED <<slices, definition>>
  BY <1>1 DEF IInv, AbsentIsUntouched
<1>2. ASSUME NEW a \in Actors, PlanStep(a)  PROVE AbsentIsUntouched'
  <2>1. ASSUME NEW def \in Definitions, NEW carry \in SUBSET Slices,
               ReconcileDefinition(a, def, carry)
        PROVE  AbsentIsUntouched'
    <3>1. \A s \in Slices \ def.ids : slices'[s] = FreshSlice /\ definition' = def
      BY <2>1 DEF ReconcileDefinition, Refresh, Reconciled
    <3>2. definition' = def
      BY <2>1 DEF ReconcileDefinition
    <3> QED  BY <3>1, <3>2 DEF AbsentIsUntouched, FreshSlice
  <2> QED  BY <1>1, <1>2, <2>1 DEF PlanStep, BeginPlanning, ReviewPlan, ApproveScope, BlockPlan,
       UnblockPlan, BeginFinalVerification, CompletePlan, FinishFinalVerification, ClosePlan,
       Refresh
<1>3. ASSUME NEW a \in Actors, NEW s \in Slices, SliceStep(a, s)  PROVE AbsentIsUntouched'
  BY <1>3, SliceStepFrame, OtherSlices DEF IInv, AbsentIsUntouched
<1> QED  BY <1>1, <1>2, <1>3, ExecutionEffect DEF Next

LEMMA SuspendedStep ==
  ASSUME IInv, Next
  PROVE  CompletionIsNotSuspended'
<1>1. CASE Open /\ UNCHANGED underlying
  BY <1>1 DEF IInv, CompletionIsNotSuspended, Open
<1>2. ASSUME NEW a \in Actors, PlanStep(a)  PROVE CompletionIsNotSuspended'
  <2>1. ASSUME NEW reason \in PlanReasons, BlockPlan(a, reason) \/ UnblockPlan(a, reason)
        PROVE  CompletionIsNotSuspended'
    BY <2>1, NoneAssumption DEF BlockPlan, UnblockPlan, Live, Open, IInv,
       CompletionIsNotSuspended, Stages
  <2>2. CASE ClosePlan(a)
    BY <2>2 DEF ClosePlan, CompletionIsNotSuspended
  <2> QED  BY <1>1, <1>2, <2>1, <2>2 DEF PlanStep, BeginPlanning, ReviewPlan, ApproveScope,
       BeginFinalVerification, CompletePlan, FinishFinalVerification, ReconcileDefinition, Live
<1>3. Execution => Open /\ UNCHANGED underlying
  BY DEF Execution, AdmitSlice, AdmitFinal, Admit, EndExecution, Live
<1> QED  BY <1>1, <1>2, <1>3, SliceStepFrame DEF Next

LEMMA CompletionStep ==
  ASSUME IInv, Next
  PROVE  CompletionIsEarned'
<1>1. CASE lifecycle' # "completed"
  BY <1>1 DEF CompletionIsEarned
<1>2. ASSUME NEW a \in Actors, CompletePlan(a)  PROVE CompletionIsEarned'
  BY <1>2 DEF CompletePlan, Refresh, Quiescent, CompletionIsEarned, RequiredResolved, Resolved
<1>3. ASSUME NEW a \in Actors, NEW def \in Definitions, NEW carry \in SUBSET Slices,
             ReconcileDefinition(a, def, carry), lifecycle' = "completed"
      PROVE  CompletionIsEarned'
  <2>1. def = definition
    BY <1>3 DEF ReconcileDefinition
  <2>2. /\ UNCHANGED <<definition, lifecycle, blockers, leases, final>>
        /\ current' \subseteq current
        /\ slices' = [s \in Slices |-> Reconciled(definition, definition.ids,
                        {} \cup Downstream(definition, {}), s)]
    BY <1>3, <2>1 DEF ReconcileDefinition, Refresh
  <2>3. definition.required \subseteq definition.ids /\ definition.ids \subseteq Slices
    BY DefinitionsAssumption DEF IInv, TypeOK
  <2>4. \A s \in definition.ids : slices'[s] = slices[s]
    BY <2>2, <2>3 DEF Reconciled, Downstream
  <2>5. \A s \in definition.required : Resolved(s) => Resolved(s)'
    BY <2>2, <2>3, <2>4 DEF Resolved
  <2> QED  BY <1>3, <2>2, <2>5 DEF IInv, CompletionIsEarned, RequiredResolved
<1>4. ASSUME NEW a \in Actors, PlanStep(a), lifecycle' = "completed"  PROVE CompletionIsEarned'
  <2>1. ASSUME NEW reason \in PlanReasons, UnblockPlan(a, reason)  PROVE FALSE
    BY <1>4, <2>1 DEF UnblockPlan, Live, Open, IInv, CompletionIsNotSuspended
  <2> QED  BY <1>2, <1>3, <1>4, <2>1 DEF PlanStep, BeginPlanning, ReviewPlan, ApproveScope,
       BlockPlan, BeginFinalVerification, FinishFinalVerification, ClosePlan, Live
<1>5. ASSUME NEW a \in Actors, NEW s \in Slices, SliceStep(a, s)  PROVE lifecycle' # "completed"
  BY <1>5, SliceStepFrame DEF ReopenSlice
<1> QED  BY <1>1, <1>4, <1>5, ExecutionEffect DEF Next

-----------------------------------------------------------------------------
(***************************************************************************)
(* Theorems                                                                *)
(***************************************************************************)
LEMMA StutterInv ==
  ASSUME IInv, UNCHANGED vars
  PROVE  IInv'
<1> USE DEF vars
<1>1. TypeOK' /\ AbsentIsUntouched' /\ OpenWorkIsUnproved' /\ CompletionIsNotSuspended'
  BY DEF IInv, TypeOK, AbsentIsUntouched, OpenWorkIsUnproved, CompletionIsNotSuspended,
     StageOf, Unfresh
<1>2. LeasesMatchWork' /\ CapacityIsKept' /\ FreshProofIsCurrent' /\ CompletionIsEarned'
  BY DEF IInv, LeasesMatchWork, LeaseHoldsItsSlice, StageOf, CapacityIsKept, ParallelLimit,
     FreshProofIsCurrent, CompletionIsEarned, RequiredResolved, Resolved
<1> QED  BY <1>1, <1>2 DEF IInv

LEMMA StepInv ==
  ASSUME IInv, [Next]_vars
  PROVE  IInv'
<1> SUFFICES ASSUME Next  PROVE IInv'
  BY StutterInv
<1>1. TypeOK'
  BY NextType DEF IInv
<1> QED  BY <1>1, AbsentStep, ProofsStep, SuspendedStep, LeasesStep, CapacityStep,
     CompletionStep DEF IInv

(* The inductive invariant holds in every reachable state, whatever        *)
(* commands are accepted and in whatever order.                            *)
THEOREM Invariance == Spec => []IInv
  BY InitInv, StepInv, PTL DEF Spec

(* The state of a plan has the shape of its schema.                        *)
THEOREM TypeCorrect == Spec => []TypeOK
<1>1. IInv => TypeOK
  BY DEF IInv
<1> QED  BY Invariance, <1>1, PTL

(* While an execution may be running, its slice is current, approved, with *)
(* the owner that was admitted and at the stage it was admitted for.       *)
THEOREM LeasesMatchWorkHolds == Spec => []LeasesMatchWork
<1>1. IInv => LeasesMatchWork
  BY DEF IInv
<1> QED  BY Invariance, <1>1, PTL

(* The approved parallelism bounds the executions, one for a slice.        *)
THEOREM CapacityIsKeptHolds == Spec => []CapacityIsKept
<1>1. IInv => CapacityIsKept
  BY DEF IInv
<1> QED  BY Invariance, <1>1, PTL

(* A proof that counts is of the present implementation and criteria.      *)
THEOREM FreshProofIsCurrentHolds == Spec => []FreshProofIsCurrent
<1>1. IInv => FreshProofIsCurrent
  BY DEF IInv
<1> QED  BY Invariance, <1>1, PTL

(* A completed plan has its required slices resolved and nothing left.     *)
THEOREM CompletionIsEarnedHolds == Spec => []CompletionIsEarned
<1>1. IInv => CompletionIsEarned
  BY DEF IInv
<1> QED  BY Invariance, <1>1, PTL

-----------------------------------------------------------------------------
(***************************************************************************)
(* Revocation                                                              *)
(***************************************************************************)
LEMMA UpstreamTransitive ==
  ASSUME NEW def, NEW s, NEW u \in Upstream(def, s), NEW t \in Upstream(def, u)
  PROVE  t \in Upstream(def, s)
<1> SUFFICES ASSUME NEW S \in SUBSET Slices,
                    \A v \in S \cup {s} : def.dependsOn[v] \subseteq S
             PROVE  t \in S
  BY DEF Upstream
<1>1. u \in S
  BY DEF Upstream
<1>2. \A v \in S \cup {u} : def.dependsOn[v] \subseteq S
  BY <1>1
<1> QED  BY <1>2 DEF Upstream

\* What lies downstream of something downstream of S lies downstream of S.
LEMMA DownstreamTransitive ==
  ASSUME NEW def, NEW S, NEW s \in S \cup Downstream(def, S), NEW t \in Downstream(def, {s})
  PROVE  t \in Downstream(def, S)
<1>1. t \in def.ids /\ s \in Upstream(def, t)
  BY DEF Downstream
<1>2. CASE s \in S
  BY <1>1, <1>2 DEF Downstream
<1>3. CASE s \in Downstream(def, S)
  <2>1. PICK u \in S : u \in Upstream(def, s)
    BY <1>3 DEF Downstream
  <2>2. u \in Upstream(def, t)
    BY <1>1, <2>1, UpstreamTransitive
  <2> QED  BY <1>1, <2>1, <2>2 DEF Downstream
<1> QED  BY <1>2, <1>3

LEMMA ReconcileRevokes ==
  ASSUME IInv, NEW a \in Actors, NEW def \in Definitions, NEW carry \in SUBSET Slices,
         ReconcileDefinition(a, def, carry), NEW s \in Slices, Undone(s),
         NEW t \in Downstream(def, {s})
  PROVE  slices'[t].verification \in {None, Stale}
<1> DEFINE kept == IF def = definition THEN definition.ids ELSE carry
           dropped == definition.ids \ kept
           changed == dropped \cup Downstream(def, dropped)
<1>0. t \in Slices /\ slices[t] \in SliceState
  BY DefinitionsAssumption DEF IInv, TypeOK, Downstream
<1>1. \A u \in Slices : slices'[u] = Reconciled(def, kept, changed, u)
  BY DEF ReconcileDefinition, Refresh
<1>2. s \in definition.ids /\ s \in def.ids
  BY DEF IInv, AbsentIsUntouched, ReconcileDefinition, Droppable, Undone
<1>3. s \in changed
  BY <1>1, <1>2 DEF Reconciled, Undone
<1>4. t \in changed
  <2> HIDE DEF dropped
  <2> QED  BY <1>3, DownstreamTransitive
<1>5. FreshSlice.verification = None
  BY DEF FreshSlice
<1>6. ASSUME NEW st
      PROVE  [slices[t] EXCEPT !.status = st, !.verification = Revoked(@)].verification
               \in {None, Stale}
  BY <1>0 DEF SliceState, Revoked
<1> HIDE DEF kept, changed
<1> QED  BY <1>0, <1>1, <1>4, <1>5, <1>6, RevokedIsUnfresh DEF Reconciled

\* Of the commands on a slice only reopen_slice undoes one.
LEMMA OnlyReopenUndoes ==
  ASSUME IInv, NEW a \in Actors, NEW s \in Slices, SliceStep(a, s),
         NEW u \in Slices, Undone(u)
  PROVE  ReopenSlice(a, s)
<1>0. TypeOK /\ slices[s] \in SliceState
  BY DEF IInv, TypeOK
<1>1. ASSUME NEW r, Change(s, r),
             slices[s].status \in {"in_progress", "implemented", "verifying", "blocked"}
      PROVE  FALSE
  BY <1>0, <1>1, ChangeEffect DEF Undone
<1>2. ASSUME NEW r \in SliceState, Change(s, r),
             r.status \notin {"pending", "in_progress", "implemented"}
      PROVE  FALSE
  BY <1>0, <1>2, ChangeEffect DEF Undone
<1>3. ASSUME StartSlice(a, s) \/ ResumeSlice(a, s)  PROVE FALSE
  BY <1>0, <1>3 DEF StartSlice, ResumeSlice, CanStart, Refresh, TypeOK, Undone
<1>4. ASSUME NEW reason \in Reasons[s], BlockSlice(a, s, reason)  PROVE FALSE
  <2>1. slices'[s] = [slices[s] EXCEPT !.status = "blocked", !.blockers = @ \cup {reason},
                  !.prior = IF slices[s].status # "blocked" THEN slices[s].status ELSE @]
    BY <1>0, <1>4, ChangeEffect DEF BlockSlice
  <2>2. \A v \in Slices \ {s} : slices'[v] = slices[v]
    BY <1>0, <1>4, ChangeEffect DEF BlockSlice
  <2>3. slices'[s].status = "blocked"
    BY <1>0, <2>1 DEF SliceState
  <2> QED  BY <2>2, <2>3 DEF Undone
<1>5. ASSUME NEW waiver \in BOOLEAN, DeferSlice(a, s, waiver)  PROVE FALSE
  <2>1. [slices[s] EXCEPT !.status = "deferred", !.waiver = waiver].status = "deferred"
    BY <1>0 DEF SliceState
  <2>2. [slices[s] EXCEPT !.status = "deferred", !.waiver = waiver] \in SliceState
    BY <1>0, SetDeferred, StatusNames
  <2> QED  BY <1>2, <1>5, <2>1, <2>2 DEF DeferSlice
<1>6. ASSUME NEW reason \in Reasons[s], UnblockSlice(a, s, reason)  PROVE FALSE
  BY <1>1, <1>6 DEF UnblockSlice
<1> QED  BY <1>1, <1>3, <1>4, <1>5, <1>6 DEF SliceStep, RecordImplementation, BeginVerification,
     VerificationFails, VerificationPasses

(* When a slice that was done is worked on again, nothing downstream of it *)
(* keeps a fresh proof, however long the chain and however the definition  *)
(* changes.                                                                *)
THEOREM RevocationReachesDownstreamHolds == Spec => RevocationReachesDownstream
<1> DEFINE Revokes == \A s \in Slices : Undone(s) =>
             \A t \in Downstream(definition', {s}) : slices'[t].verification \in {None, Stale}
<1>1. IInv /\ [Next]_vars => [Revokes]_vars
  <2> SUFFICES ASSUME IInv, Next, NEW s \in Slices, Undone(s),
                      NEW t \in Downstream(definition', {s})
               PROVE  slices'[t].verification \in {None, Stale}
    OBVIOUS
  <2>1. slices' # slices
    BY DEF Undone
  <2>2. ASSUME NEW a \in Actors, NEW u \in Slices, SliceStep(a, u)
        PROVE  slices'[t].verification \in {None, Stale}
    <3>1. ReopenSlice(a, u) /\ definition' = definition
      BY <2>2, OnlyReopenUndoes, SliceStepFrame
    <3>2. t \in Slices /\ slices[t] \in SliceState
      BY <3>1, DefinitionsAssumption DEF IInv, TypeOK, Downstream
    <3>3. s = u \/ s \in Downstream(definition, {u})
      BY <3>1 DEF ReopenSlice, Refresh, Undone
    <3>4. t \in Downstream(definition, {u})
      BY <3>1, <3>3, DownstreamTransitive
    <3>5. slices'[t] \in {Reopened(slices[t], a), Unproved(slices[t])}
      BY <3>1, <3>2, <3>4 DEF ReopenSlice, Refresh
    <3> QED  BY <3>2, <3>5, RevokedIsUnfresh
  <2>3. ASSUME NEW a \in Actors, PlanStep(a)
        PROVE  slices'[t].verification \in {None, Stale}
    <3>1. PICK def \in Definitions, carry \in SUBSET Slices : ReconcileDefinition(a, def, carry)
      BY <2>1, <2>3 DEF PlanStep, BeginPlanning, ReviewPlan, ApproveScope, BlockPlan, UnblockPlan,
         BeginFinalVerification, CompletePlan, FinishFinalVerification, ClosePlan, Refresh
    <3>2. definition' = def
      BY <3>1 DEF ReconcileDefinition
    <3> QED  BY <3>1, <3>2, ReconcileRevokes
  <2> QED  BY <2>1, <2>2, <2>3, ExecutionEffect DEF Next
<1> QED  BY Invariance, <1>1, PTL DEF Spec, RevocationReachesDownstream

-----------------------------------------------------------------------------
(***************************************************************************)
(* Managed executions (HostExecution)                                      *)
(*                                                                         *)
(* A step of the host is a step of the plan or leaves it alone, so that    *)
(* all that is proved of a plan above holds below its executions too.      *)
(* What a release rests on is not inductive by itself: a finish reads the  *)
(* record, the ledger and the table of requests at one moment and writes   *)
(* its verdict at later ones.  HInv says what each of them knows, of which *)
(* the heart is that no authority is granted again to an execution that    *)
(* is Over, and that a closure and an observed stop are written for Quiet  *)
(* executions only.                                                        *)
(***************************************************************************)

(* Past any authority: e was begun, and nothing grants it authority again. *)
Over(e) ==
  /\ record[e].status # "absent" /\ e \notin live
  /\ \A k \in Callers : call[k].at \in {"admit", "grant"} => call[k].e # e
Quiet(e) == \A r \in AsksOf(e) : native[r] # "running"

(* The first closure of e leaves the end of its work open.                 *)
Unconfirmed(e) == record[e].closure # None /\ ~record[e].closure.stopped

(* A context that was not delivered to its worker has seen no work.        *)
UndeliveredIsFresh ==
  \A e \in Executions : record[e].status \in {"absent", "assembled"} =>
    /\ e \notin effect
    /\ \A r \in AsksOf(e) : native[r] = "none" /\ report[r] = "none" /\ ask[r] = "none"

(* A call under way holds the barrier, except while it waits; one that     *)
(* begins an execution from the context to the authority.                  *)
HoldingFits ==
  \A k \in Callers :
    /\ call[k].at \notin {"idle", "wait"} => held = k
    /\ call[k].at \in {"admit", "grant"} => record[call[k].e].status = "assembled"
    /\ call[k].at = "admit" => InPlan(call[k].e)
    /\ call[k].at = "grant" /\ InPlan(call[k].e) => LeasesOf(call[k].e) # {}

(* The ledger and, while authority lasts, the table of requests know of    *)
(* the native work that goes on.                                           *)
NativeIsKnown ==
  \A r \in Asks :
    /\ native[r] = "running" => attempt[r] \in {"dispatched", "owed"}
    /\ report[r] = "stopped" => native[r] # "running"
    /\ ExecutionOf[r] \in live /\ ask[r] \in {"none", "admitting"} =>
         native[r] = "none" /\ report[r] = "none"
    /\ ExecutionOf[r] \in live /\ native[r] = "running" =>
         ask[r] \in {"awaiting_host", "unknown"}

AuthorityHasLease == \A e \in live : InPlan(e) => LeasesOf(e) # {}

(* What a closure, and the release after an observed stop, rest on.        *)
ClosureFits ==
  \A e \in Executions : InPlan(e) =>
    /\ record[e].closure # None =>
         Over(e) /\ (record[e].closure.stopped => Quiet(e) /\ e \notin effect)
    /\ record[e].stop # None =>
         /\ Over(e) /\ Quiet(e)
         /\ Unconfirmed(e)

ObservationFits ==
  \A k \in Callers :
    /\ call[k].at = "settle" =>
         /\ native[call[k].ask] = "ended" /\ ExecutionOf[call[k].ask] = call[k].e
         /\ Over(call[k].e) /\ (InPlan(call[k].e) => Unconfirmed(call[k].e))
    /\ call[k].at = "prepare" =>
         /\ InPlan(call[k].e) /\ Over(call[k].e) /\ Quiet(call[k].e)
         /\ Unconfirmed(call[k].e)

(* A closure is committed only after it was saved.                         *)
ReceiptsFit ==
  \A e \in Executions : <<e, "finish">> \in committed => InPlan(e) /\ record[e].closure # None

HInv ==
  /\ HostTypeOK
  /\ UndeliveredIsFresh /\ HoldingFits /\ NativeIsKnown /\ AuthorityHasLease
  /\ ClosureFits /\ ObservationFits /\ ReceiptsFit
  /\ StoppedBeforeReleased /\ LeaseFollowsClosure

LEMMA CallShapes ==
  ASSUME HostTypeOK, NEW k \in Callers
  PROVE  /\ call[k].at = "idle" \/ call[k].e \in Executions
         /\ call[k].at \in {"admit", "grant"} => call[k] \in Beginnings
         /\ call[k].at \in {"wait", "apply", "mark"} => call[k] \in Finishes
         /\ call[k].at \in {"settle", "prepare", "release", "recover"} => call[k] \in Observations
         /\ call[k].at = "close" => call[k] \in Finishes \cup Observations
  BY DEF HostTypeOK, Idle, Beginnings, Finishes, Observations

LEMMA HostInitType == HostInit => HostTypeOK
  BY HostBoundsAssumption DEF HostInit, HostStart, HostTypeOK, Idle, Records

\* What a call does to the table of calls.
LEMMA GoesTo ==
  ASSUME HostTypeOK, NEW k \in Callers, NEW at, call[k].at # "idle", Goes(k, at)
  PROVE  /\ call'[k].at = at /\ call'[k].e = call[k].e
         /\ call[k].at = "settle" => call'[k].ask = call[k].ask
         /\ \A j \in Callers \ {k} : call'[j] = call[j]
  BY CallShapes DEF HostTypeOK, Goes, Beginnings, Finishes, Observations

LEMMA GoesType ==
  ASSUME HostTypeOK, NEW k \in Callers, NEW at, Goes(k, at),
         \/ call[k].at = "admit" /\ at = "grant"
         \/ call[k].at \in {"wait", "apply", "mark"} /\ at \in {"apply", "mark", "close"}
         \/ call[k].at \in {"settle", "prepare", "release", "recover"}
            /\ at \in {"prepare", "release", "recover", "close"}
  PROVE  call' \in [Callers -> {Idle} \cup Beginnings \cup Finishes \cup Observations]
<1>1. call[k].at = "admit" => [call[k] EXCEPT !.at = "grant"] \in Beginnings
  BY CallShapes DEF Beginnings
<1>2. call[k].at \in {"wait", "apply", "mark"} /\ at \in {"apply", "mark", "close"} =>
        [call[k] EXCEPT !.at = at] \in Finishes
  BY CallShapes DEF Finishes
<1>3. call[k].at \in {"settle", "prepare", "release", "recover"}
        /\ at \in {"prepare", "release", "recover", "close"} =>
        [call[k] EXCEPT !.at = at] \in Observations
  BY CallShapes DEF Observations
<1> QED  BY <1>1, <1>2, <1>3 DEF HostTypeOK, Goes

LEMMA ReturnsType ==
  ASSUME HostTypeOK, NEW k \in Callers, Returns(k)
  PROVE  /\ call' \in [Callers -> {Idle} \cup Beginnings \cup Finishes \cup Observations]
         /\ held' \in Callers \cup {NoCaller}
  BY DEF HostTypeOK, Returns

\* Records of executions.
LEMMA RecordTypes ==
  ASSUME NEW r \in Records
  PROVE  /\ \A status \in {"assembled", "running", "recovery_required", "pending", "settled"} :
              [r EXCEPT !.status = status] \in Records
         /\ \A c \in [claim : BOOLEAN, stopped : BOOLEAN, expected : Nat \cup {None}] :
              [r EXCEPT !.closure = c] \in Records
         /\ [r EXCEPT !.unknown = TRUE] \in Records /\ [r EXCEPT !.recovered = TRUE] \in Records
         /\ \A x \in Asks : [r EXCEPT !.observed = @ \cup {x}] \in Records
         /\ \A n \in Nat : [r EXCEPT !.stop = n] \in Records
  BY DEF Records

LEMMA WritesType ==
  ASSUME HostTypeOK, NEW e, NEW entry \in Records, Writes(e, entry)
  PROVE  record' \in [Executions -> Records]
  BY DEF HostTypeOK, Writes

LEMMA ApplyType ==
  ASSUME HostTypeOK, NEW k \in Callers, NEW stage \in {"finish", "observed-stop"},
         NEW expected, NEW stopped, NEW next, Apply(k, stage, expected, stopped, next),
         \/ call[k].at = "apply" /\ next = "mark"
         \/ call[k].at = "release" /\ next = "recover",
         UNCHANGED <<models, live, effect, mishaps>>
  PROVE  HostTypeOK'
<1>1. call[k].e \in Executions
  BY CallShapes
<1>2. CASE Goes(k, next) /\ UNCHANGED <<vars, files, held>>
  <2>1. call' \in [Callers -> {Idle} \cup Beginnings \cup Finishes \cup Observations]
    BY <1>2, GoesType
  <2> QED  BY <1>2, <2>1 DEF HostTypeOK, files, models
<1>3. CASE /\ holder' = IF stopped THEN [holder EXCEPT ![SliceOf[call[k].e]] = None] ELSE holder
           /\ revision' = revision + 1
           /\ committed' = committed \cup {<<call[k].e, stage>>}
           /\ Goes(k, next)
           /\ UNCHANGED <<record, held>>
  <2>1. call' \in [Callers -> {Idle} \cup Beginnings \cup Finishes \cup Observations]
    BY <1>3, GoesType
  <2>2. holder' \in [Slices -> Executions \cup {None}]
    BY <1>3 DEF HostTypeOK
  <2>3. committed' \subseteq Executions \X {"finish", "observed-stop"} /\ revision' \in Nat
    BY <1>1, <1>3 DEF HostTypeOK
  <2> QED  BY <1>3, <2>1, <2>2, <2>3 DEF HostTypeOK, models
<1>4. CASE Returns(k) /\ UNCHANGED <<vars, files>>
  <2>1. /\ call' \in [Callers -> {Idle} \cup Beginnings \cup Finishes \cup Observations]
        /\ held' \in Callers \cup {NoCaller}
    BY <1>4, ReturnsType
  <2> QED  BY <1>4, <2>1 DEF HostTypeOK, files, models
<1> QED  BY <1>2, <1>3, <1>4 DEF Apply

LEMMA AskStepType ==
  ASSUME HostTypeOK, NEW r \in Asks, AskStep(r)
  PROVE  HostTypeOK'
  BY DEF HostTypeOK, AskStep, AdmitAsk, Reserve, Dispatch, Permit, NativeEnds, Abort, Report,
     Settle, Settles, Attempts, Says, ModelStep, files

LEMMA ControlType ==
  ASSUME HostTypeOK, NEW k \in Callers, Control(k)
  PROVE  HostTypeOK'
<1> DEFINE Table == {Idle} \cup Beginnings \cup Finishes \cup Observations
<1>1. ASSUME NEW e \in Executions, Begin(k, e)  PROVE HostTypeOK'
  <2>1. record' \in [Executions -> Records]
    BY <1>1, RecordTypes, WritesType DEF Begin, HostTypeOK
  <2>2. [at |-> IF InPlan(e) THEN "admit" ELSE "grant", e |-> e] \in Beginnings
    BY DEF Beginnings
  <2>3. call' \in [Callers -> Table]
    BY <1>1, <2>2 DEF Begin, HostTypeOK
  <2> QED  BY <1>1, <2>1, <2>3 DEF Begin, HostTypeOK, models
<1>2. ASSUME NEW e \in Executions, NEW claim \in BOOLEAN, Finish(k, e, claim)
      PROVE  HostTypeOK'
  <2>1. record[e] \in Records /\ EffectiveStop(e, claim) \in BOOLEAN
    BY DEF HostTypeOK, Records, EffectiveStop
  <2>2. Closing(e, claim) \in [claim : BOOLEAN, stopped : BOOLEAN, expected : Nat \cup {None}]
    BY <2>1 DEF Closing, HostTypeOK
  <2>3. record' \in [Executions -> Records]
    BY <1>2, <2>1, <2>2, RecordTypes, WritesType DEF Finish, HostTypeOK
  <2>4. [at |-> "wait", e |-> e, model |-> e \in live, stopped |-> EffectiveStop(e, claim)]
          \in Finishes
    BY <2>1 DEF Finishes
  <2>5. call' \in [Callers -> Table]
    BY <1>2, <2>4 DEF Finish, HostTypeOK
  <2> QED  BY <1>2, <2>3, <2>5 DEF Finish, HostTypeOK, models
<1>3. ASSUME NEW r \in Asks, Observe(k, r)  PROVE HostTypeOK'
  <2>1. ExecutionOf[r] \in Executions
    BY ExecutionsAssumption
  <2>2. record' \in [Executions -> Records]
    BY <1>3, <2>1, RecordTypes, WritesType DEF Observe, HostTypeOK
  <2>3. [at |-> "settle", e |-> ExecutionOf[r], ask |-> r] \in Observations
    BY <2>1 DEF Observations
  <2>4. call' \in [Callers -> Table]
    BY <1>3, <2>3 DEF Observe, HostTypeOK
  <2> QED  BY <1>3, <2>2, <2>4 DEF Observe, HostTypeOK, models
<1> QED  BY <1>1, <1>2, <1>3 DEF Control

LEMMA ContinueType ==
  ASSUME HostTypeOK, NEW k \in Callers, Continue(k)
  PROVE  HostTypeOK'
<1> DEFINE Table == {Idle} \cup Beginnings \cup Finishes \cup Observations
<1>0. call[k].at # "idle" => call[k].e \in Executions /\ record[call[k].e] \in Records
  BY CallShapes DEF HostTypeOK
<1>1. CASE AdmitLease(k)
  <2>1. call' \in [Callers -> Table]
    BY <1>1, GoesType DEF AdmitLease
  <2>2. holder' \in [Slices -> Executions \cup {None}] /\ revision' \in Nat
    <3>1. call[k].e \in Executions /\ holder' = [holder EXCEPT ![SliceOf[call[k].e]] = call[k].e]
      BY <1>0, <1>1 DEF AdmitLease
    <3>2. \A s, e : e \in Executions => [holder EXCEPT ![s] = e] \in [Slices -> Executions \cup {None}]
      BY DEF HostTypeOK
    <3>3. revision' = revision + 1 /\ revision \in Nat
      BY <1>1 DEF AdmitLease, HostTypeOK
    <3>4. holder' \in [Slices -> Executions \cup {None}]
      BY <3>1, <3>2
    <3> QED  BY <3>3, <3>4
  <2>3. UNCHANGED <<committed, record, attempt, report, ask, native, live, held, effect, mishaps>>
    BY <1>1 DEF AdmitLease, models
  <2> QED  BY <2>1, <2>2, <2>3 DEF HostTypeOK
<1>2. CASE RefuseLease(k) \/ GrantAuthority(k)
  <2>1. call' \in [Callers -> Table] /\ held' \in Callers \cup {NoCaller}
    BY <1>2, ReturnsType DEF RefuseLease, GrantAuthority
  <2> QED  BY <1>0, <1>2, <2>1 DEF RefuseLease, GrantAuthority, HostTypeOK, files, models
<1>3. CASE Reenter(k)
  <2>1. call' \in [Callers -> Table]
    BY <1>3, GoesType DEF Reenter
  <2> QED  BY <1>3, <2>1 DEF Reenter, HostTypeOK, files, models
<1>4. CASE ApplyClosure(k)
  <2>1. CASE record[call[k].e].closure = None
    <3>1. call' \in [Callers -> Table]
      BY <1>4, <2>1, GoesType DEF ApplyClosure
    <3> QED  BY <1>4, <2>1, <3>1 DEF ApplyClosure, HostTypeOK, files, models
  <2>2. CASE record[call[k].e].closure # None
    BY <1>4, <2>2, ApplyType DEF ApplyClosure
  <2> QED  BY <2>1, <2>2
<1>5. CASE MarkUnknown(k)
  <2>1. call' \in [Callers -> Table]
    BY <1>5, GoesType DEF MarkUnknown
  <2>2. record' \in [Executions -> Records]
    BY <1>0, <1>5, RecordTypes, WritesType DEF MarkUnknown, HostTypeOK
  <2> QED  BY <1>5, <2>1, <2>2 DEF MarkUnknown, HostTypeOK, models
<1>6. CASE CloseRecord(k)
  <2>1. call' \in [Callers -> Table] /\ held' \in Callers \cup {NoCaller}
    BY <1>6, ReturnsType DEF CloseRecord
  <2>2. record' \in [Executions -> Records]
    BY <1>0, <1>6, RecordTypes, WritesType DEF CloseRecord, HostTypeOK
  <2> QED  BY <1>6, <2>1, <2>2 DEF CloseRecord, HostTypeOK, models
<1>7. CASE SettleObserved(k)
  <2>1. call' \in [Callers -> Table]
    BY <1>7, GoesType DEF SettleObserved
  <2> QED  BY <1>7, <2>1 DEF SettleObserved, Settles, Attempts, HostTypeOK, files
<1>8. CASE PrepareRelease(k)
  <2>1. call' \in [Callers -> Table] /\ held' \in Callers \cup {NoCaller}
    BY <1>8, GoesType, ReturnsType DEF PrepareRelease, HostTypeOK
  <2>2. record' \in [Executions -> Records]
    BY <1>0, <1>8, RecordTypes, WritesType DEF PrepareRelease, HostTypeOK
  <2> QED  BY <1>8, <2>1, <2>2 DEF PrepareRelease, HostTypeOK, models
<1>9. CASE ApplyRelease(k)
  BY <1>9, ApplyType DEF ApplyRelease
<1>10. CASE RecordRecovery(k)
  <2>1. call' \in [Callers -> Table]
    BY <1>10, GoesType DEF RecordRecovery
  <2>2. record' \in [Executions -> Records]
    BY <1>0, <1>10, RecordTypes, WritesType DEF RecordRecovery, HostTypeOK
  <2> QED  BY <1>10, <2>1, <2>2 DEF RecordRecovery, HostTypeOK, models
<1> QED  BY <1>1, <1>2, <1>3, <1>4, <1>5, <1>6, <1>7, <1>8, <1>9, <1>10 DEF Continue

LEMMA HostNextType ==
  ASSUME HostTypeOK, HostNext
  PROVE  HostTypeOK'
<1>1. CASE Command
  BY <1>1 DEF Command, HostTypeOK, models
<1>2. ASSUME NEW k \in Callers, CallThrows(k)  PROVE HostTypeOK'
  BY <1>2, HostBoundsAssumption DEF CallThrows, HostTypeOK, files, models
<1>3. ASSUME NEW e \in Executions, Deliver(e)  PROVE HostTypeOK'
  <2>1. record' \in [Executions -> Records]
    BY <1>3, RecordTypes, WritesType DEF Deliver, HostTypeOK
  <2> QED  BY <1>3, <2>1 DEF Deliver, HostTypeOK, models
<1>4. ASSUME NEW e \in Executions, StartEffect(e) \/ EndEffect(e) \/ CloseAtCeiling(e)
      PROVE  HostTypeOK'
  BY <1>4 DEF StartEffect, EndEffect, CloseAtCeiling, HostTypeOK, files, models
<1>5. CASE Crash
  BY <1>5, HostBoundsAssumption DEF Crash, HostTypeOK, files
<1> QED  BY <1>1, <1>2, <1>3, <1>4, <1>5, AskStepType, ControlType, ContinueType DEF HostNext

-----------------------------------------------------------------------------
\* What a step can do to the record of an execution.
LEMMA Written ==
  ASSUME HostTypeOK, NEW x \in Executions, NEW entry, Writes(x, entry)
  PROVE  record'[x] = entry /\ \A e \in Executions \ {x} : record'[e] = record[e]
  BY DEF HostTypeOK, Writes

SameEntry(e) == record'[e].closure = record[e].closure /\ record'[e].stop = record[e].stop

LEMMA StatusWritten ==
  ASSUME HostTypeOK, NEW x \in Executions, NEW v, Writes(x, [record[x] EXCEPT !.status = v])
  PROVE  /\ record'[x].status = v /\ SameEntry(x)
         /\ \A e \in Executions \ {x} : record'[e] = record[e]
<1>1. record[x] \in Records
  BY DEF HostTypeOK
<1> QED  BY <1>1, Written DEF SameEntry, Records

LEMMA ClosureWritten ==
  ASSUME HostTypeOK, NEW x \in Executions, NEW v, Writes(x, [record[x] EXCEPT !.closure = v])
  PROVE  /\ record'[x].closure = v
         /\ record'[x].status = record[x].status /\ record'[x].stop = record[x].stop
         /\ \A e \in Executions \ {x} : record'[e] = record[e]
<1>1. record[x] \in Records
  BY DEF HostTypeOK
<1> QED  BY <1>1, Written DEF Records

LEMMA StopWritten ==
  ASSUME HostTypeOK, NEW x \in Executions, NEW v, Writes(x, [record[x] EXCEPT !.stop = v])
  PROVE  /\ record'[x].status = record[x].status /\ record'[x].closure = record[x].closure
         /\ \A e \in Executions \ {x} : record'[e] = record[e]
<1>1. record[x] \in Records
  BY DEF HostTypeOK
<1> QED  BY <1>1, Written DEF Records

LEMMA OthersWritten ==
  ASSUME HostTypeOK, NEW x \in Executions, NEW v,
         \/ Writes(x, [record[x] EXCEPT !.unknown = v])
         \/ Writes(x, [record[x] EXCEPT !.recovered = v])
         \/ Writes(x, [record[x] EXCEPT !.observed = @ \cup {v}])
  PROVE  /\ record'[x].status = record[x].status /\ SameEntry(x)
         /\ \A e \in Executions \ {x} : record'[e] = record[e]
<1>1. record[x] \in Records
  BY DEF HostTypeOK
<1>2. CASE Writes(x, [record[x] EXCEPT !.unknown = v])
  BY <1>1, <1>2, Written DEF SameEntry, Records
<1>3. CASE Writes(x, [record[x] EXCEPT !.recovered = v])
  BY <1>1, <1>3, Written DEF SameEntry, Records
<1>4. CASE Writes(x, [record[x] EXCEPT !.observed = @ \cup {v}])
  BY <1>1, <1>4, Written DEF SameEntry, Records
<1> QED  BY <1>2, <1>3, <1>4

Begun(e) ==
  /\ \E k \in Callers : Begin(k, e)
  /\ record[e].status = "absent" /\ record'[e].status = "assembled" /\ SameEntry(e)
Kept(e) ==
  /\ SameEntry(e)
  /\ record'[e].status # record[e].status => Free \/ \E k \in Callers : call[k].at = "close"
  /\ record'[e].status \in {record[e].status, "running", "recovery_required", "pending", "settled"}
Finished(e) ==
  /\ \E k \in Callers, claim \in BOOLEAN :
       Finish(k, e, claim) /\ record'[e].closure = Closing(e, claim)
  /\ InPlan(e) /\ record[e].closure = None
  /\ record'[e].status = record[e].status /\ record'[e].stop = record[e].stop
Prepared(e) ==
  /\ \E k \in Callers : PrepareRelease(k) /\ call[k].e = e
  /\ record'[e].status = record[e].status /\ record'[e].closure = record[e].closure

LEMMA EntryStep ==
  ASSUME HostTypeOK, HostNext, NEW e \in Executions
  PROVE  Kept(e) \/ Begun(e) \/ Finished(e) \/ Prepared(e)
<1> DEFINE Goal == Kept(e) \/ Begun(e) \/ Finished(e) \/ Prepared(e)
<1>1. record'[e] = record[e] => Kept(e)
  BY DEF Kept, SameEntry
<1>2. ASSUME NEW x \in Executions, Deliver(x)  PROVE Goal
  <2>1. Writes(x, [record[x] EXCEPT !.status = "running"]) /\ Free
    BY <1>2 DEF Deliver
  <2> QED  BY <1>1, <2>1, StatusWritten DEF Kept
<1>3. ASSUME NEW k \in Callers, Control(k)  PROVE Goal
  <2>1. ASSUME NEW x \in Executions, Begin(k, x)  PROVE Goal
    <3>1. Writes(x, [record[x] EXCEPT !.status = "assembled"]) /\ record[x].status = "absent"
      BY <2>1 DEF Begin
    <3>2. record'[x].status = "assembled" /\ SameEntry(x)
      BY <3>1, StatusWritten
    <3>3. e # x => record'[e] = record[e]
      BY <3>1, StatusWritten
    <3> QED  BY <1>1, <2>1, <3>1, <3>2, <3>3 DEF Begun
  <2>2. ASSUME NEW x \in Executions, NEW claim \in BOOLEAN, Finish(k, x, claim)  PROVE Goal
    <3>1. CASE InPlan(x) /\ record[x].closure = None
      <4>1. Writes(x, [record[x] EXCEPT !.closure = Closing(x, claim)])
        BY <2>2, <3>1 DEF Finish
      <4>2. e = x => /\ record'[e].closure = Closing(e, claim)
                     /\ record'[e].status = record[e].status /\ record'[e].stop = record[e].stop
        BY <4>1, ClosureWritten
      <4>3. e # x => record'[e] = record[e]
        BY <4>1, ClosureWritten
      <4> QED  BY <1>1, <2>2, <3>1, <4>2, <4>3 DEF Finished
    <3>2. CASE ~(InPlan(x) /\ record[x].closure = None)
      BY <1>1, <2>2, <3>2 DEF Finish
    <3> QED  BY <3>1, <3>2
  <2>3. ASSUME NEW r \in Asks, Observe(k, r)  PROVE Goal
    <3>1. ExecutionOf[r] \in Executions
      BY ExecutionsAssumption
    <3>2. PICK x \in Executions : Writes(x, [record[x] EXCEPT !.observed = @ \cup {r}])
      BY <2>3, <3>1 DEF Observe
    <3> QED  BY <1>1, <3>2, OthersWritten DEF Kept
  <2> QED  BY <1>3, <2>1, <2>2, <2>3 DEF Control
<1>4. ASSUME NEW k \in Callers, Continue(k)  PROVE Goal
  <2>0. call[k].at # "idle" => call[k].e \in Executions
    BY CallShapes
  <2>1. CASE MarkUnknown(k)
    <3>1. call[k].e \in Executions
      BY <2>0, <2>1 DEF MarkUnknown
    <3>2. record' = record \/ Writes(call[k].e, [record[call[k].e] EXCEPT !.unknown = TRUE])
      BY <2>1 DEF MarkUnknown
    <3> QED  BY <1>1, <3>1, <3>2, OthersWritten DEF Kept
  <2>2. CASE CloseRecord(k)
    <3>1. call[k].e \in Executions /\ call[k].at = "close"
      BY <2>0, <2>2 DEF CloseRecord
    <3>2. \/ record' = record
          \/ \E status \in {"recovery_required", "pending", "settled"} :
               Writes(call[k].e, [record[call[k].e] EXCEPT !.status = status])
      BY <2>2 DEF CloseRecord
    <3> QED  BY <1>1, <3>1, <3>2, StatusWritten DEF Kept
  <2>3. CASE PrepareRelease(k)
    <3>1. call[k].e \in Executions
      BY <2>0, <2>3 DEF PrepareRelease
    <3>2. \/ record' = record
          \/ Writes(call[k].e, [record[call[k].e] EXCEPT !.stop = revision])
      BY <2>3 DEF PrepareRelease
    <3> QED  BY <1>1, <2>3, <3>1, <3>2, StopWritten DEF Prepared
  <2>4. CASE RecordRecovery(k)
    <3>1. call[k].e \in Executions
      BY <2>0, <2>4 DEF RecordRecovery
    <3>2. Writes(call[k].e, [record[call[k].e] EXCEPT !.recovered = TRUE])
      BY <2>4 DEF RecordRecovery
    <3> QED  BY <1>1, <3>1, <3>2, OthersWritten DEF Kept
  <2>5. CASE record' = record
    BY <1>1, <2>5
  <2> QED  BY <1>4, <2>1, <2>2, <2>3, <2>4, <2>5 DEF Continue, AdmitLease, RefuseLease,
       GrantAuthority, Reenter, ApplyClosure, SettleObserved, ApplyRelease, Apply, files
<1>5. CASE record' = record
  BY <1>1, <1>5
<1> QED  BY <1>2, <1>3, <1>4, <1>5 DEF HostNext, Command, CallThrows, StartEffect, EndEffect,
     CloseAtCeiling, AskStep, AdmitAsk, Reserve, Dispatch, Permit, NativeEnds, Abort, Report, Settle,
     ModelStep, Crash, files

\* What a step can do to the leases.
LEMMA SliceOfType ==
  ASSUME NEW e \in Executions
  PROVE  SliceOf[e] \in Slices \cup {None} /\ e # None /\ (InPlan(e) => SliceOf[e] \in Slices)
  BY ExecutionsAssumption DEF InPlan

SameLeases(e) == LeasesOf(e)' = LeasesOf(e)
Unapplied == UNCHANGED committed
Admitted(e) ==
  /\ \E k \in Callers : call[k].at = "admit" /\ call[k].e = e
  /\ Unapplied
  /\ LeasesOf(e)' # {} /\ \A l \in LeasesOf(e)' : l.running
Applied(e, stage, stopped) ==
  /\ LeasesOf(e) # {} /\ <<e, stage>> \notin committed
  /\ committed' = committed \cup {<<e, stage>>}
  /\ IF stopped THEN LeasesOf(e)' = {} ELSE \E l \in LeasesOf(e)' : ~l.running
  /\ \A x \in Executions \ {e} : SameLeases(x)

LEMMA AdmitEffect ==
  ASSUME HostTypeOK, TypeOK, NEW k \in Callers, AdmitLease(k), InPlan(call[k].e),
         NEW x \in Executions
  PROVE  IF x = call[k].e THEN Admitted(x) ELSE SameLeases(x) /\ Unapplied
<1> DEFINE e == call[k].e
           s == SliceOf[e]
<1>1. e \in Executions /\ s \in Slices
  BY CallShapes, SliceOfType DEF AdmitLease
<1>2. PICK l \in Lease : /\ leases' = leases \cup {l}
                         /\ l.slice = s /\ l.running
  <2>1. \E kind \in {"implementation", "verification"} : Admit(s, kind)
    BY DEF AdmitLease, AdmitSlice
  <2>2. PICK kind \in {"implementation", "verification"} : Admit(s, kind)
    BY <2>1
  <2> DEFINE l == [slice |-> s, kind |-> kind, running |-> TRUE,
                   owner |-> IF approval = None THEN Runtime ELSE approval.owner]
  <2>3. (IF approval = None THEN Runtime ELSE approval.owner) \in Actors
    BY ActorsAssumption DEF TypeOK, Approval
  <2>4. l \in Lease /\ l.slice = s /\ l.running
    BY <1>1, <2>3 DEF Lease
  <2>5. leases' = leases \cup {l}
    BY <2>2 DEF Admit
  <2> QED  BY <2>4, <2>5
<1>3. \A m \in leases : m.slice # s
  BY DEF AdmitLease, AdmitSlice, Admit
<1>4. holder' = [holder EXCEPT ![s] = e] /\ committed' = committed
  BY DEF AdmitLease
<1>5. holder'[s] = e /\ \A t \in Slices \ {s} : holder'[t] = holder[t]
  BY <1>1, <1>4 DEF HostTypeOK
<1>6. CASE x = e
  BY <1>1, <1>2, <1>3, <1>4, <1>5, <1>6 DEF LeasesOf, Admitted, Unapplied, AdmitLease
<1>7. CASE x # e
  <2>1. LeasesOf(x)' = LeasesOf(x)
    BY <1>1, <1>2, <1>3, <1>5, <1>7, SliceOfType DEF LeasesOf, InPlan
  <2> QED  BY <1>4, <1>7, <2>1 DEF SameLeases, Unapplied
<1> QED  BY <1>6, <1>7

LEMMA ApplyEffect ==
  ASSUME HostTypeOK, TypeOK, NEW k \in Callers, NEW e \in Executions, call[k].e = e,
         NEW stage, NEW expected, NEW stopped, NEW next, Apply(k, stage, expected, stopped, next)
  PROVE  \/ UNCHANGED <<leases, holder, committed>>
         \/ expected # None /\ Applied(e, stage, stopped)
<1> DEFINE s == SliceOf[e]
<1> SUFFICES ASSUME ~UNCHANGED <<leases, holder, committed>>
             PROVE  expected # None /\ Applied(e, stage, stopped)
  OBVIOUS
<1>2. expected # None /\ <<e, stage>> \notin committed
  BY DEF Apply, vars, files
<1>3. /\ LeasesOf(e) # {} /\ \E l \in LeasesOf(e) : EndExecution(l, stopped)
      /\ holder' = IF stopped THEN [holder EXCEPT ![s] = None] ELSE holder
      /\ committed' = committed \cup {<<e, stage>>}
  BY <1>2 DEF Apply, vars, files
<1>4. PICK l \in LeasesOf(e) : EndExecution(l, stopped)
  BY <1>3
<1>5. InPlan(e) /\ s \in Slices /\ l \in leases /\ l.slice = s /\ holder[s] = e
  BY <1>4, SliceOfType DEF LeasesOf
<1>6. l \in Lease /\ [l EXCEPT !.running = FALSE].slice = s /\ ~[l EXCEPT !.running = FALSE].running
  BY <1>5 DEF TypeOK, Lease
<1>7. leases' = (leases \ {l}) \cup (IF stopped THEN {} ELSE {[l EXCEPT !.running = FALSE]})
  BY <1>4 DEF EndExecution
<1>8. ASSUME NEW x \in Executions \ {e}  PROVE SameLeases(x)
  <2>1. holder'[s] # x /\ \A t \in Slices \ {s} : holder'[t] = holder[t]
    BY <1>3, <1>5, SliceOfType DEF HostTypeOK
  <2> HIDE DEF s
  <2> QED  BY <1>5, <1>6, <1>7, <2>1, SliceOfType DEF SameLeases, LeasesOf, InPlan
<1>9. stopped => LeasesOf(e)' = {}
  <2>1. stopped => holder'[s] = None
    BY <1>3, <1>5 DEF HostTypeOK
  <2> QED  BY <2>1, SliceOfType DEF LeasesOf
<1>10. ~stopped => \E m \in LeasesOf(e)' : ~m.running
  BY <1>3, <1>5, <1>6, <1>7 DEF LeasesOf
<1> QED  BY <1>2, <1>3, <1>8, <1>9, <1>10 DEF Applied

LEMMA LeaseStep ==
  ASSUME HInv, TypeOK, HostNext, NEW e \in Executions
  PROVE  \/ SameLeases(e) /\ Unapplied
         \/ Admitted(e)
         \/ \E x \in Executions, k \in Callers :
              /\ call[k].e = x
              /\ \/ /\ call[k].at = "apply" /\ record[x].closure # None
                    /\ Applied(x, "finish", record[x].closure.stopped)
                 \/ /\ call[k].at = "release" /\ record[x].stop # None
                    /\ Applied(x, "observed-stop", TRUE)
<1> USE DEF HInv
<1>1. UNCHANGED <<leases, holder, committed>> => SameLeases(e) /\ Unapplied
  BY DEF SameLeases, LeasesOf, Unapplied
<1>2. ASSUME NEW k \in Callers, AdmitLease(k)  PROVE (SameLeases(e) /\ Unapplied) \/ Admitted(e)
  BY <1>2, AdmitEffect DEF HoldingFits, AdmitLease
<1>3. ASSUME NEW k \in Callers, NEW x \in Executions, call[k].e = x, ApplyClosure(k)
      PROVE  \/ SameLeases(e) /\ Unapplied
             \/ /\ call[k].at = "apply" /\ record[x].closure # None
                /\ Applied(x, "finish", record[x].closure.stopped)
  <2>1. call[k].at = "apply"
    BY <1>3 DEF ApplyClosure
  <2>2. CASE record[x].closure = None
    BY <1>1, <1>3, <2>2 DEF ApplyClosure, vars, files
  <2>3. CASE record[x].closure # None
    BY <1>1, <1>3, <2>1, <2>3, ApplyEffect DEF ApplyClosure
  <2> QED  BY <2>2, <2>3
<1>4. ASSUME NEW k \in Callers, NEW x \in Executions, call[k].e = x, ApplyRelease(k)
      PROVE  \/ SameLeases(e) /\ Unapplied
             \/ /\ call[k].at = "release" /\ record[x].stop # None
                /\ Applied(x, "observed-stop", TRUE)
  <2>1. call[k].at = "release"
    BY <1>4 DEF ApplyRelease
  <2> QED  BY <1>1, <1>4, <2>1, ApplyEffect DEF ApplyRelease
<1>5. CASE Command
  <2>1. leases' = leases
    BY <1>5, PlanStepLeases, SliceStepLeases DEF Command, vars
  <2> QED  BY <1>1, <1>5, <2>1 DEF Command
<1>6. \A k \in Callers : ApplyClosure(k) \/ ApplyRelease(k) => call[k].e \in Executions
  BY CallShapes DEF ApplyClosure, ApplyRelease
<1>7. ASSUME NEW k \in Callers, Control(k) \/ CallThrows(k)
      PROVE  UNCHANGED <<leases, holder, committed>>
  BY <1>7 DEF Control, Begin, Finish, Observe, CallThrows, vars, files
<1>8. ASSUME NEW k \in Callers, Continue(k)
      PROVE  \/ UNCHANGED <<leases, holder, committed>>
             \/ AdmitLease(k) \/ ApplyClosure(k) \/ ApplyRelease(k)
  BY <1>8 DEF Continue, RefuseLease, GrantAuthority, Reenter, MarkUnknown, CloseRecord,
     SettleObserved, PrepareRelease, RecordRecovery, vars, files
<1>9. ASSUME \/ Crash \/ \E r \in Asks : AskStep(r)
             \/ \E x \in Executions : Deliver(x) \/ StartEffect(x) \/ EndEffect(x) \/ CloseAtCeiling(x)
      PROVE  UNCHANGED <<leases, holder, committed>>
  BY <1>9 DEF Deliver, StartEffect, EndEffect, CloseAtCeiling, AskStep, AdmitAsk, Reserve, Dispatch,
     Permit, NativeEnds, Abort, Report, Settle, ModelStep, Crash, vars, files
<1> QED  BY <1>1, <1>2, <1>3, <1>4, <1>5, <1>6, <1>7, <1>8, <1>9 DEF HostNext

\* What a step can do to requests, native work and tool calls.
Untouched(r) ==
  /\ native'[r] = native[r] /\ attempt'[r] = attempt[r]
  /\ report'[r] = report[r] /\ ask'[r] = ask[r]

LEMMA AskFrame ==
  ASSUME HostTypeOK, NEW x \in Asks, AskStep(x), NEW r \in Asks \ {x}
  PROVE  Untouched(r)
  BY DEF HostTypeOK, Untouched, AskStep, AdmitAsk, Reserve, Dispatch, Permit, NativeEnds, Abort,
     Report, Settle, Settles, Attempts, Says, ModelStep

LEMMA ModelFrame ==
  ASSUME HostNext
  PROVE  \/ UNCHANGED models
         \/ \E r \in Asks : AskStep(r)
         \/ \E k \in Callers : SettleObserved(k)
         \/ Crash
  BY DEF HostNext, Command, Control, Begin, Finish, Observe, Continue, AdmitLease, RefuseLease,
     GrantAuthority, Reenter, ApplyClosure, MarkUnknown, CloseRecord, PrepareRelease, ApplyRelease,
     RecordRecovery, CallThrows, Deliver, StartEffect, EndEffect, CloseAtCeiling

LEMMA WorkStep ==
  ASSUME HostTypeOK, HostNext
  PROVE  /\ \A r \in Asks : native'[r] # native[r] =>
              \/ ExecutionOf[r] \in live /\ ask[r] = "admitting"
              \/ native[r] = "running" /\ native'[r] = "ended"
         /\ \A e \in effect' \ effect : e \in live /\ record[e].status = "running"
<1>1. ASSUME NEW r \in Asks, native'[r] # native[r]
      PROVE  \/ ExecutionOf[r] \in live /\ ask[r] = "admitting"
             \/ native[r] = "running" /\ native'[r] = "ended"
  <2>1. PICK x \in Asks : AskStep(x)
    BY <1>1, ModelFrame DEF models, SettleObserved, Crash
  <2>2. x = r
    BY <1>1, <2>1, AskFrame DEF Untouched
  <2> QED  BY <1>1, <2>1, <2>2 DEF HostTypeOK, AskStep, AdmitAsk, Reserve, Dispatch, Permit,
       NativeEnds, Abort, Report, Settle
<1>2. ASSUME NEW e \in effect' \ effect  PROVE e \in live /\ record[e].status = "running"
  <2>1. effect' = effect \/ effect' = {} \/ \E x \in Executions : StartEffect(x) \/ EndEffect(x)
    <3>1. ASSUME NEW k \in Callers, Control(k) \/ CallThrows(k)  PROVE effect' = effect
      BY <3>1 DEF Control, Begin, Finish, Observe, CallThrows
    <3>2. ASSUME NEW k \in Callers, Continue(k)  PROVE effect' = effect
      BY <3>2 DEF Continue, AdmitLease, RefuseLease, GrantAuthority, Reenter, ApplyClosure, MarkUnknown,
         CloseRecord, SettleObserved, PrepareRelease, ApplyRelease, RecordRecovery
    <3>3. ASSUME NEW r \in Asks, AskStep(r)  PROVE effect' = effect
      BY <3>3 DEF AskStep, AdmitAsk, Reserve, Dispatch, Permit, NativeEnds, Abort, Report, Settle, ModelStep
    <3> QED  BY <3>1, <3>2, <3>3 DEF HostNext, Command, Deliver, CloseAtCeiling, Crash
  <2> QED  BY <1>2, <2>1 DEF StartEffect, EndEffect
<1> QED  BY <1>1, <1>2

LEMMA LiveStep ==
  ASSUME HostNext
  PROVE  \/ live' \subseteq live
         \/ \E k \in Callers : GrantAuthority(k)
<1>1. ASSUME NEW k \in Callers, Control(k) \/ CallThrows(k)  PROVE live' \subseteq live
  BY <1>1 DEF Control, Begin, Finish, Observe, CallThrows
<1>2. ASSUME NEW k \in Callers, Continue(k)  PROVE live' = live \/ GrantAuthority(k)
  BY <1>2 DEF Continue, AdmitLease, RefuseLease, Reenter, ApplyClosure, MarkUnknown,
     CloseRecord, SettleObserved, PrepareRelease, ApplyRelease, RecordRecovery
<1>3. ASSUME NEW r \in Asks, AskStep(r)  PROVE live' = live
  BY <1>3 DEF AskStep, AdmitAsk, Reserve, Dispatch, Permit, NativeEnds, Abort, Report, Settle, ModelStep
<1>4. ASSUME NEW e \in Executions, Deliver(e) \/ StartEffect(e) \/ EndEffect(e) \/ CloseAtCeiling(e)
      PROVE  live' \subseteq live
  BY <1>4 DEF Deliver, StartEffect, EndEffect, CloseAtCeiling
<1> QED  BY <1>1, <1>2, <1>3, <1>4 DEF HostNext, Command, Crash

\* What a step can do to a call.
SameCall(k) == call'[k] = call[k]
Stepped(k, from, to) ==
  /\ call[k].at \in from /\ call'[k].at \in to /\ call'[k].e = call[k].e
  /\ call[k].e \in Executions
CallMoves(k) ==
  \/ call'[k].at \in {"idle", "wait"}
  \/ \E e \in Executions :
       /\ Begin(k, e) /\ call'[k] = [at |-> IF InPlan(e) THEN "admit" ELSE "grant", e |-> e]
  \/ AdmitLease(k) /\ Stepped(k, {"admit"}, {"grant"})
  \/ \E r \in Asks : /\ Observe(k, r)
                     /\ call'[k] = [at |-> "settle", e |-> ExecutionOf[r], ask |-> r]
  \/ SettleObserved(k) /\ Stepped(k, {"settle"}, {"close", "prepare", "recover"})
  \/ Stepped(k, {"wait", "apply", "mark", "prepare", "release", "recover"},
                {"apply", "mark", "close", "release", "recover"})

LEMMA ContinueMoves ==
  ASSUME HostTypeOK, NEW k \in Callers, Continue(k)
  PROVE  CallMoves(k) /\ call[k].at # "idle"
<1>0. call[k].at # "idle" => call[k].e \in Executions
  BY CallShapes
<1>1. Returns(k) => call'[k].at = "idle"
  BY DEF Returns, HostTypeOK, Idle
<1>2. ASSUME NEW at, Goes(k, at), call[k].at # "idle"
      PROVE  call'[k].at = at /\ call'[k].e = call[k].e /\ call[k].e \in Executions
  BY <1>0, <1>2, GoesTo
<1>3. CASE AdmitLease(k)
  <2>1. Goes(k, "grant") /\ call[k].at = "admit"
    BY <1>3 DEF AdmitLease
  <2>2. Stepped(k, {"admit"}, {"grant"})
    BY <1>2, <2>1 DEF Stepped
  <2> QED  BY <1>3, <2>1, <2>2 DEF CallMoves
<1>4. CASE RefuseLease(k) \/ GrantAuthority(k) \/ CloseRecord(k)
  <2>1. Returns(k) /\ call[k].at # "idle"
    BY <1>4 DEF RefuseLease, GrantAuthority, CloseRecord
  <2> QED  BY <1>1, <2>1 DEF CallMoves
<1>6. CASE SettleObserved(k)
  <2>1. call[k].at = "settle" /\ \E at \in {"close", "prepare", "recover"} : Goes(k, at)
    BY <1>6 DEF SettleObserved
  <2>2. Stepped(k, {"settle"}, {"close", "prepare", "recover"})
    BY <1>2, <2>1 DEF Stepped
  <2> QED  BY <1>6, <2>1, <2>2 DEF CallMoves
<1>7. CASE \/ Reenter(k) \/ ApplyClosure(k) \/ MarkUnknown(k) \/ PrepareRelease(k)
           \/ ApplyRelease(k) \/ RecordRecovery(k)
  <2>1. /\ call[k].at \in {"wait", "apply", "mark", "prepare", "release", "recover"}
        /\ Returns(k) \/ \E at \in {"apply", "mark", "close", "release", "recover"} : Goes(k, at)
    BY <1>7 DEF Reenter, ApplyClosure, MarkUnknown, PrepareRelease, ApplyRelease, RecordRecovery, Apply
  <2>2. CASE Returns(k)
    BY <1>1, <2>1, <2>2 DEF CallMoves
  <2>3. ASSUME NEW at \in {"apply", "mark", "close", "release", "recover"}, Goes(k, at)
        PROVE  CallMoves(k)
    <3>1. Stepped(k, {"wait", "apply", "mark", "prepare", "release", "recover"},
                     {"apply", "mark", "close", "release", "recover"})
      BY <1>2, <2>1, <2>3 DEF Stepped
    <3> QED  BY <3>1 DEF CallMoves
  <2> QED  BY <2>1, <2>2, <2>3
<1> QED  BY <1>3, <1>4, <1>6, <1>7 DEF Continue

LEMMA ContinueHolds ==
  ASSUME HostTypeOK, NEW k \in Callers, Continue(k)
  PROVE  /\ \A j \in Callers \ {k} : SameCall(j)
         /\ \/ held' = held /\ call[k].at # "wait"
            \/ held' = NoCaller /\ call[k].at # "wait" /\ call'[k].at = "idle"
            \/ held \in {NoCaller, k} /\ held' = k
<1>1. Returns(k) => call'[k].at = "idle" /\ held' = NoCaller /\ \A j \in Callers \ {k} : SameCall(j)
  BY DEF Returns, HostTypeOK, Idle, SameCall
<1>2. ASSUME NEW at, Goes(k, at)  PROVE \A j \in Callers \ {k} : SameCall(j)
  BY <1>2 DEF Goes, HostTypeOK, SameCall
<1>3. \/ Returns(k) /\ call[k].at # "wait"
      \/ /\ \E at \in {"grant", "apply", "mark", "close", "prepare", "release", "recover"} : Goes(k, at)
         /\ \/ held' = held /\ call[k].at # "wait"
            \/ held \in {NoCaller, k} /\ held' = k
  BY DEF Continue, AdmitLease, RefuseLease, GrantAuthority, Reenter, ApplyClosure, MarkUnknown,
     CloseRecord, SettleObserved, PrepareRelease, ApplyRelease, RecordRecovery, Apply
<1> QED  BY <1>1, <1>2, <1>3

LEMMA ControlMoves ==
  ASSUME HostTypeOK, NEW k \in Callers, Control(k)
  PROVE  /\ CallMoves(k) /\ held = NoCaller
         /\ \A j \in Callers \ {k} : SameCall(j)
         /\ call'[k].at # "wait" => held' = k
<1>1. ASSUME NEW c, call' = [call EXCEPT ![k] = c]
      PROVE  call'[k] = c /\ \A j \in Callers \ {k} : SameCall(j)
  BY <1>1 DEF SameCall, HostTypeOK
<1>2. ASSUME NEW e \in Executions, Begin(k, e)
      PROVE  /\ CallMoves(k) /\ held = NoCaller /\ held' = k
             /\ \A j \in Callers \ {k} : SameCall(j)
  <2>1. /\ call' = [call EXCEPT ![k] = [at |-> IF InPlan(e) THEN "admit" ELSE "grant", e |-> e]]
        /\ held = NoCaller /\ held' = k
    BY <1>2 DEF Begin, Free
  <2> QED  BY <1>1, <1>2, <2>1 DEF CallMoves
<1>3. ASSUME NEW e \in Executions, NEW claim \in BOOLEAN, Finish(k, e, claim)
      PROVE  /\ CallMoves(k) /\ held = NoCaller /\ call'[k].at = "wait"
             /\ \A j \in Callers \ {k} : SameCall(j)
  <2> DEFINE c == [at |-> "wait", e |-> e, model |-> e \in live, stopped |-> EffectiveStop(e, claim)]
  <2>1. call' = [call EXCEPT ![k] = c] /\ held = NoCaller
    BY <1>3 DEF Finish, Free
  <2>2. c.at = "wait"
    OBVIOUS
  <2> HIDE DEF c
  <2> QED  BY <1>1, <2>1, <2>2 DEF CallMoves
<1>4. ASSUME NEW r \in Asks, Observe(k, r)
      PROVE  /\ CallMoves(k) /\ held = NoCaller /\ held' = k
             /\ \A j \in Callers \ {k} : SameCall(j)
  <2>1. /\ call' = [call EXCEPT ![k] = [at |-> "settle", e |-> ExecutionOf[r], ask |-> r]]
        /\ held = NoCaller /\ held' = k
    BY <1>4 DEF Observe, Free
  <2> QED  BY <1>1, <1>4, <2>1 DEF CallMoves
<1> QED  BY <1>2, <1>3, <1>4 DEF Control

LEMMA CallStep ==
  ASSUME HostTypeOK, HostNext, NEW k \in Callers
  PROVE  SameCall(k) \/ CallMoves(k)
<1>1. ASSUME NEW j \in Callers, CallThrows(j)  PROVE SameCall(k) \/ call'[k].at = "idle"
  BY <1>1 DEF CallThrows, SameCall, HostTypeOK, Idle
<1>2. Crash => call'[k].at = "idle"
  BY DEF Crash, Idle
<1>3. call' = call => SameCall(k)
  BY DEF SameCall
<1>4. ASSUME NEW j \in Callers, Control(j) \/ Continue(j)  PROVE SameCall(k) \/ CallMoves(k)
  BY <1>4, ContinueMoves, ContinueHolds, ControlMoves
<1>5. ASSUME NEW r \in Asks, AskStep(r)  PROVE call' = call
  BY <1>5 DEF AskStep, AdmitAsk, Reserve, Dispatch, Permit, NativeEnds, Abort, Report, Settle, ModelStep
<1>6. ASSUME NEW e \in Executions, Deliver(e) \/ StartEffect(e) \/ EndEffect(e) \/ CloseAtCeiling(e)
      PROVE  call' = call
  BY <1>6 DEF Deliver, StartEffect, EndEffect, CloseAtCeiling
<1> QED  BY <1>1, <1>2, <1>3, <1>4, <1>5, <1>6 DEF HostNext, Command, CallMoves

-----------------------------------------------------------------------------
LEMMA FreshStep ==
  ASSUME HInv, HostNext
  PROVE  UndeliveredIsFresh'
<1> USE DEF HInv
<1> SUFFICES ASSUME NEW e \in Executions, record'[e].status \in {"absent", "assembled"}
             PROVE  /\ e \notin effect'
                    /\ \A r \in AsksOf(e) : native'[r] = "none" /\ report'[r] = "none" /\ ask'[r] = "none"
  BY DEF UndeliveredIsFresh, AsksOf
<1>1. record[e].status \in {"absent", "assembled"}
  BY EntryStep DEF Kept, Begun, Finished, Prepared
<1>2. e \notin effect'
  BY <1>1, WorkStep DEF UndeliveredIsFresh
<1>3. ASSUME NEW r \in AsksOf(e)
      PROVE  native'[r] = "none" /\ report'[r] = "none" /\ ask'[r] = "none"
  <2>1. r \in Asks /\ ExecutionOf[r] = e
    BY DEF AsksOf
  <2>2. native[r] = "none" /\ report[r] = "none" /\ ask[r] = "none"
    BY <1>1 DEF UndeliveredIsFresh
  <2>3. ~AskStep(r)
    BY <1>1, <2>1, <2>2 DEF AskStep, AdmitAsk, Reserve, Dispatch, Permit, NativeEnds, Abort, Report, Settle
  <2>4. ASSUME NEW x \in Asks, AskStep(x)
        PROVE  native'[r] = "none" /\ report'[r] = "none" /\ ask'[r] = "none"
    BY <2>1, <2>2, <2>3, <2>4, AskFrame DEF Untouched
  <2> QED  BY <2>1, <2>2, <2>4, ModelFrame DEF models, SettleObserved, Crash
<1> QED  BY <1>2, <1>3

LEMMA HoldingStep ==
  ASSUME HInv, TypeOK, HostNext
  PROVE  HoldingFits'
<1> USE DEF HInv
<1>0. NoCaller \notin Callers
  BY ExecutionsAssumption
<1>1. ASSUME NEW k \in Callers, call'[k].at \notin {"idle", "wait"}  PROVE held' = k
  <2>1. ASSUME NEW j \in Callers, Control(j)  PROVE held' = k
    BY <1>0, <1>1, <2>1, ControlMoves DEF HoldingFits, SameCall
  <2>2. ASSUME NEW j \in Callers, Continue(j)  PROVE held' = k
    BY <1>0, <1>1, <2>2, ContinueMoves, ContinueHolds DEF HoldingFits, SameCall
  <2>3. ASSUME NEW j \in Callers, CallThrows(j)  PROVE held' = k
    BY <1>1, <2>3 DEF CallThrows, HoldingFits, HostTypeOK, Idle
  <2>4. ~Crash
    BY <1>1 DEF Crash, Idle
  <2>5. ASSUME NEW r \in Asks, AskStep(r)  PROVE call' = call /\ held' = held
    BY <2>5 DEF AskStep, AdmitAsk, Reserve, Dispatch, Permit, NativeEnds, Abort, Report, Settle, ModelStep
  <2>6. ASSUME NEW e \in Executions, Deliver(e) \/ StartEffect(e) \/ EndEffect(e) \/ CloseAtCeiling(e)
        PROVE  call' = call /\ held' = held
    BY <2>6 DEF Deliver, StartEffect, EndEffect, CloseAtCeiling
  <2> QED  BY <1>1, <2>1, <2>2, <2>3, <2>4, <2>5, <2>6 DEF HostNext, Command, HoldingFits
<1>2. ASSUME NEW k \in Callers, call'[k].at \in {"admit", "grant"}, NEW e \in Executions, call'[k].e = e
      PROVE  /\ record'[e].status = "assembled"
             /\ call'[k].at = "admit" => InPlan(e)
             /\ call'[k].at = "grant" /\ InPlan(e) => LeasesOf(e)' # {}
  <2>1. CASE SameCall(k)
    <3>1. /\ call[k].at = call'[k].at /\ call[k].e = e /\ held = k
          /\ \A j \in Callers : call[j].at \notin {"apply", "release", "close"}
      BY <1>2, <2>1 DEF SameCall, HoldingFits
    <3>2. record'[e].status = "assembled"
      <4>1. record[e].status = "assembled"
        BY <1>2, <3>1 DEF HoldingFits
      <4> QED  BY <1>0, <3>1, <4>1, EntryStep DEF Kept, Begun, Finished, Prepared, Free
    <3>3. call[k].at = "grant" /\ InPlan(e) => LeasesOf(e)' # {}
      BY <1>2, <3>1, LeaseStep DEF HoldingFits, SameLeases, Admitted
    <3> QED  BY <1>2, <3>1, <3>2, <3>3 DEF HoldingFits
  <2>2. ASSUME NEW x \in Executions, Begin(k, x),
               call'[k] = [at |-> IF InPlan(x) THEN "admit" ELSE "grant", e |-> x]
        PROVE  /\ record'[e].status = "assembled"
               /\ call'[k].at = "admit" => InPlan(e)
               /\ call'[k].at = "grant" => ~InPlan(e)
    <3>1. x = e
      BY <1>2, <2>2
    <3>2. Writes(e, [record[e] EXCEPT !.status = "assembled"])
      BY <2>2, <3>1 DEF Begin
    <3>3. record'[e].status = "assembled"
      BY <3>2, StatusWritten
    <3>4. call'[k].at = IF InPlan(e) THEN "admit" ELSE "grant"
      BY <2>2, <3>1
    <3> QED  BY <3>3, <3>4
  <2>3. ASSUME AdmitLease(k), Stepped(k, {"admit"}, {"grant"})
        PROVE  record'[e].status = "assembled" /\ call'[k].at = "grant" /\ LeasesOf(e)' # {}
    <3>1. call[k].at = "admit" /\ call[k].e = e /\ call'[k].at = "grant"
      BY <1>2, <2>3 DEF Stepped
    <3>2. InPlan(e) /\ record[e].status = "assembled" /\ record' = record
      BY <2>3, <3>1 DEF HoldingFits, AdmitLease
    <3>3. Admitted(e)
      BY <2>3, <3>1, <3>2, AdmitEffect
    <3> QED  BY <3>1, <3>2, <3>3 DEF Admitted
  <2>4. ASSUME NEW r \in Asks, call'[k] = [at |-> "settle", e |-> ExecutionOf[r], ask |-> r]
        PROVE  FALSE
    BY <1>2, <2>4
  <2>5. \/ SameCall(k)
        \/ \E x \in Executions :
             /\ Begin(k, x) /\ call'[k] = [at |-> IF InPlan(x) THEN "admit" ELSE "grant", e |-> x]
        \/ AdmitLease(k) /\ Stepped(k, {"admit"}, {"grant"})
    BY <1>2, <2>4, CallStep DEF CallMoves, Stepped
  <2> QED  BY <2>1, <2>2, <2>3, <2>5
<1>3. ASSUME NEW k \in Callers, call'[k].at \in {"admit", "grant"}
      PROVE  /\ record'[call'[k].e].status = "assembled"
             /\ call'[k].at = "admit" => InPlan(call[k].e)'
             /\ call'[k].at = "grant" /\ InPlan(call[k].e)' => LeasesOf(call[k].e)' # {}
  <2>1. HostTypeOK'
    BY HostNextType
  <2>2. call'[k].e \in Executions
    BY <1>3, <2>1, CallShapes DEF HostTypeOK, Idle, Beginnings, Finishes, Observations
  <2>3. PICK e \in Executions : call'[k].e = e
    BY <2>2
  <2> QED  BY <1>2, <1>3, <2>3 DEF InPlan, LeasesOf
<1> QED  BY <1>1, <1>3 DEF HoldingFits

LEMMA NativeStep ==
  ASSUME HInv, HostNext
  PROVE  NativeIsKnown'
<1> USE DEF HInv
<1> SUFFICES ASSUME NEW r \in Asks
             PROVE  /\ native'[r] = "running" => attempt'[r] \in {"dispatched", "owed"}
                    /\ report'[r] = "stopped" => native'[r] # "running"
                    /\ ExecutionOf[r] \in live' /\ ask'[r] \in {"none", "admitting"} =>
                         native'[r] = "none" /\ report'[r] = "none"
                    /\ ExecutionOf[r] \in live' /\ native'[r] = "running" =>
                         ask'[r] \in {"awaiting_host", "unknown"}
  BY DEF NativeIsKnown
<1>1. ASSUME ExecutionOf[r] \in live', ExecutionOf[r] \notin live
      PROVE  native[r] = "none" /\ report[r] = "none" /\ UNCHANGED models
  <2>1. PICK k \in Callers : GrantAuthority(k)
    BY <1>1, LiveStep
  <2>2. ExecutionOf[r] = call[k].e /\ call[k].at = "grant" /\ UNCHANGED models
    BY <1>1, <2>1 DEF GrantAuthority
  <2>3. record[ExecutionOf[r]].status = "assembled"
    BY <2>2 DEF HoldingFits
  <2> QED  BY <2>2, <2>3, ExecutionsAssumption DEF UndeliveredIsFresh, AsksOf
<1>2. CASE UNCHANGED models
  BY <1>1, <1>2 DEF models, NativeIsKnown
<1>3. ASSUME AskStep(r)
      PROVE  /\ native'[r] = "running" => attempt'[r] \in {"dispatched", "owed"}
             /\ report'[r] = "stopped" => native'[r] # "running"
             /\ ExecutionOf[r] \in live' /\ ask'[r] \in {"none", "admitting"} =>
                  native'[r] = "none" /\ report'[r] = "none"
             /\ ExecutionOf[r] \in live' /\ native'[r] = "running" =>
                  ask'[r] \in {"awaiting_host", "unknown"}
  BY <1>3 DEF NativeIsKnown, HostTypeOK, AskStep, AdmitAsk, Reserve, Dispatch, Permit, NativeEnds, Abort,
     Report, Settle, Settles, Attempts, Says, ModelStep
<1>4. ASSUME NEW x \in Asks \ {r}, AskStep(x)
      PROVE  Untouched(r) /\ live' = live
  BY <1>4, AskFrame DEF AskStep, AdmitAsk, Reserve, Dispatch, Permit, NativeEnds, Abort, Report,
     Settle, ModelStep
<1>5. ASSUME NEW k \in Callers, SettleObserved(k)
      PROVE  /\ native'[r] = native[r] /\ report'[r] = report[r] /\ ask'[r] = ask[r] /\ live' = live
             /\ attempt'[r] = attempt[r] \/ native[r] = "ended"
  <2>1. call[k].at = "settle" /\ native[call[k].ask] = "ended"
    BY <1>5 DEF SettleObserved, ObservationFits
  <2> QED  BY <1>5, <2>1 DEF SettleObserved, Settles, Attempts, HostTypeOK
<1>6. CASE Crash
  BY <1>6 DEF Crash, NativeIsKnown
<1> QED  BY <1>2, <1>3, <1>4, <1>5, <1>6, ModelFrame DEF NativeIsKnown, Untouched

LEMMA AuthorityStep ==
  ASSUME HInv, TypeOK, HostNext
  PROVE  AuthorityHasLease'
<1> USE DEF HInv
<1> SUFFICES ASSUME NEW e \in live', InPlan(e)  PROVE LeasesOf(e)' # {}
  BY DEF AuthorityHasLease, InPlan
<1>0. e \in Executions
  BY HostNextType DEF HostTypeOK
<1>1. CASE e \in live
  <2>1. ~Over(e) /\ LeasesOf(e) # {}
    BY <1>1 DEF Over, AuthorityHasLease
  <2>2. record[e].closure = None /\ record[e].stop = None
    BY <1>0, <2>1 DEF ClosureFits
  <2>3. SameLeases(e) \/ Admitted(e)
    BY <1>0, <2>2, LeaseStep DEF Applied
  <2> QED  BY <2>1, <2>3 DEF SameLeases, Admitted
<1>2. CASE e \notin live
  <2>1. PICK k \in Callers : GrantAuthority(k)
    BY <1>2, LiveStep
  <2>2. call[k].at = "grant" /\ call[k].e = e /\ UNCHANGED <<leases, holder>>
    BY <1>2, <2>1 DEF GrantAuthority, vars, files
  <2> QED  BY <2>2 DEF HoldingFits, LeasesOf
<1> QED  BY <1>1, <1>2

LEMMA OverStep ==
  ASSUME HInv, HostNext, NEW e \in Executions, Over(e)
  PROVE  Over(e)'
<1> USE DEF HInv
<1>1. record'[e].status # "absent"
  BY EntryStep DEF Over, Kept, Begun, Finished, Prepared
<1>2. e \notin live'
  <2>1. ASSUME NEW k \in Callers, GrantAuthority(k)  PROVE e \notin live'
    BY <2>1 DEF GrantAuthority, Over
  <2> QED  BY <2>1, LiveStep DEF Over
<1>3. ASSUME NEW k \in Callers, call'[k].at \in {"admit", "grant"}, call'[k].e = e  PROVE FALSE
  <2>1. ~SameCall(k)
    BY <1>3 DEF SameCall, Over
  <2>2. ASSUME NEW x \in Executions, Begin(k, x),
               call'[k] = [at |-> IF InPlan(x) THEN "admit" ELSE "grant", e |-> x]
        PROVE  FALSE
    <3>1. x = e
      BY <1>3, <2>2
    <3> QED  BY <2>2, <3>1 DEF Begin, Over
  <2>3. ~Stepped(k, {"admit"}, {"grant"})
    BY <1>3 DEF Stepped, Over
  <2>4. ASSUME NEW r \in Asks, call'[k] = [at |-> "settle", e |-> ExecutionOf[r], ask |-> r]
        PROVE  FALSE
    BY <1>3, <2>4
  <2> QED  BY <1>3, <2>1, <2>2, <2>3, <2>4, CallStep DEF CallMoves, Stepped
<1> QED  BY <1>1, <1>2, <1>3 DEF Over

LEMMA QuietStep ==
  ASSUME HInv, HostNext, NEW e \in Executions, e \notin live
  PROVE  /\ Quiet(e) => Quiet(e)'
         /\ e \notin effect => e \notin effect'
         /\ \A r \in AsksOf(e) : native[r] = "ended" => native'[r] = "ended"
<1>1. HostTypeOK
  BY DEF HInv
<1> QED  BY <1>1, WorkStep DEF Quiet, AsksOf

LEMMA CommittedStep ==
  ASSUME HInv, TypeOK, HostNext
  PROVE  committed \subseteq committed'
<1>1. ASSUME NEW e \in Executions  PROVE committed \subseteq committed'
  BY LeaseStep DEF Unapplied, Admitted, Applied
<1>2. CASE Executions = {}
  BY <1>2 DEF HInv, HostTypeOK
<1> QED  BY <1>1, <1>2

LEMMA ClosureStep ==
  ASSUME HInv, TypeOK, HostNext
  PROVE  ClosureFits'
<1> USE DEF HInv
<1> SUFFICES ASSUME NEW e \in Executions, InPlan(e)
             PROVE  /\ record'[e].closure # None =>
                         Over(e)' /\ (record'[e].closure.stopped => Quiet(e)' /\ e \notin effect')
                    /\ record'[e].stop # None =>
                         Over(e)' /\ Quiet(e)' /\ Unconfirmed(e)'
  BY DEF ClosureFits, InPlan, Unconfirmed
<1>1. Over(e) => e \notin live
  BY DEF Over
<1>2. record[e].stop # None => Over(e)' /\ Quiet(e)' /\ Unconfirmed(e)
  BY <1>1, OverStep, QuietStep DEF ClosureFits
<1>3. record[e].closure # None =>
        Over(e)' /\ (record[e].closure.stopped => Quiet(e)' /\ e \notin effect')
  BY <1>1, OverStep, QuietStep DEF ClosureFits
<1>4. CASE SameEntry(e)
  BY <1>2, <1>3, <1>4 DEF SameEntry, Unconfirmed
<1>5. CASE Finished(e)
  <2>1. PICK k \in Callers, claim \in BOOLEAN :
             Finish(k, e, claim) /\ record'[e].closure = Closing(e, claim)
    BY <1>5 DEF Finished
  <2>2. record[e].closure = None /\ record'[e].stop = None
    BY <1>2, <1>5 DEF Finished, Unconfirmed
  <2>3. Over(e)'
    <3>1. record'[e].status # "absent" /\ e \notin live'
      BY <1>5, <2>1 DEF Finished, Finish
    <3>2. \A j \in Callers : call'[j].at \notin {"admit", "grant"}
      <4>1. \A j \in Callers : call[j].at \notin {"admit", "grant"}
        BY <2>1, ExecutionsAssumption DEF Finish, Free, HoldingFits
      <4>2. call' = [call EXCEPT ![k] = [at |-> "wait", e |-> e, model |-> e \in live,
                                         stopped |-> EffectiveStop(e, claim)]]
        BY <2>1 DEF Finish
      <4> QED  BY <4>1, <4>2 DEF HostTypeOK
    <3> QED  BY <3>1, <3>2 DEF Over
  <2>4. ASSUME record'[e].closure.stopped  PROVE Quiet(e)' /\ e \notin effect'
    <3>1. EffectiveStop(e, claim)
      BY <2>1, <2>4 DEF Closing
    <3>2. UNCHANGED <<native, effect>>
      BY <2>1 DEF Finish, models
    <3>3. CASE e \in live \ effect /\ ~Uncertain(e)
      BY <3>2, <3>3 DEF Quiet, Uncertain, NativeIsKnown, AsksOf
    <3>4. CASE ZeroDispatch(e)
      <4>1. LeasesOf(e) = {} /\ record[e].status = "assembled"
        BY <3>4 DEF ZeroDispatch
      <4> QED  BY <3>2, <4>1 DEF Quiet, UndeliveredIsFresh
    <3> QED  BY <2>2, <3>1, <3>3, <3>4 DEF EffectiveStop
  <2> QED  BY <2>2, <2>3, <2>4
<1>6. CASE Prepared(e)
  <2>1. PICK k \in Callers : PrepareRelease(k) /\ call[k].e = e
    BY <1>6 DEF Prepared
  <2>2. Over(e) /\ Quiet(e) /\ Unconfirmed(e)
    BY <2>1 DEF PrepareRelease, ObservationFits
  <2>3. Over(e)' /\ Quiet(e)'
    BY <1>1, <2>2, OverStep, QuietStep
  <2> QED  BY <1>6, <2>2, <2>3 DEF Prepared, Unconfirmed
<1> QED  BY <1>4, <1>5, <1>6, EntryStep DEF Kept, Begun

LEMMA UnconfirmedStep ==
  ASSUME HInv, HostNext, NEW e \in Executions, Unconfirmed(e)
  PROVE  Unconfirmed(e)'
BY EntryStep DEF HInv, Unconfirmed, Kept, SameEntry, Begun, Finished, Prepared

LEMMA ObservationStep ==
  ASSUME HInv, HostNext
  PROVE  ObservationFits'
<1> USE DEF HInv
<1>1. ASSUME NEW k \in Callers, call'[k].at = "settle"
      PROVE  /\ native'[call'[k].ask] = "ended" /\ ExecutionOf[call'[k].ask] = call'[k].e
             /\ Over(call[k].e)' /\ (InPlan(call[k].e)' => Unconfirmed(call[k].e)')
  <2>1. CASE SameCall(k)
    <3>1. call[k].at = "settle"
      BY <1>1, <2>1 DEF SameCall
    <3>2. PICK e \in Executions, r \in Asks : call[k].e = e /\ call[k].ask = r
      BY <3>1, CallShapes DEF Observations
    <3>3. /\ native[r] = "ended" /\ ExecutionOf[r] = e
          /\ Over(e) /\ (InPlan(e) => Unconfirmed(e))
      BY <3>1, <3>2 DEF ObservationFits
    <3>4. native'[r] = "ended" /\ Over(e)' /\ (InPlan(e) => Unconfirmed(e)')
      BY <3>3, OverStep, QuietStep, UnconfirmedStep DEF Over, AsksOf
    <3>5. call'[k].e = e /\ call'[k].ask = r
      BY <2>1, <3>2 DEF SameCall
    <3> QED  BY <3>3, <3>4, <3>5 DEF Over, Unconfirmed, InPlan
  <2>2. ASSUME NEW r \in Asks, Observe(k, r),
               call'[k] = [at |-> "settle", e |-> ExecutionOf[r], ask |-> r]
        PROVE  /\ native'[call'[k].ask] = "ended" /\ ExecutionOf[call'[k].ask] = call'[k].e
               /\ Over(call[k].e)' /\ (InPlan(call[k].e)' => Unconfirmed(call[k].e)')
    <3>1. PICK e \in Executions : e = ExecutionOf[r]
      BY ExecutionsAssumption
    <3>2. native[r] = "ended" /\ native' = native /\ e \notin live
      BY <2>2, <3>1 DEF Observe, models
    <3>3. Over(e)
      <4>1. record[e].status # "absent"
        BY <3>1, <3>2 DEF UndeliveredIsFresh, AsksOf
      <4>2. \A j \in Callers : call[j].at \notin {"admit", "grant"}
        BY <2>2, ExecutionsAssumption DEF Observe, Free, HoldingFits
      <4> QED  BY <3>2, <4>1, <4>2 DEF Over
    <3>4. Over(e)' /\ call'[k].e = e /\ call'[k].ask = r
      BY <2>2, <3>1, <3>3, OverStep
    <3>5. InPlan(e) => Unconfirmed(e)'
      BY <2>2, <3>1, UnconfirmedStep DEF Observe, Unconfirmed
    <3> QED  BY <3>1, <3>2, <3>4, <3>5 DEF Over, Unconfirmed, InPlan
  <2>3. ASSUME NEW x \in Executions, call'[k] = [at |-> IF InPlan(x) THEN "admit" ELSE "grant", e |-> x]
        PROVE  FALSE
    BY <1>1, <2>3
  <2> QED  BY <1>1, <2>1, <2>2, <2>3, CallStep DEF CallMoves, Stepped
<1>2. ASSUME NEW k \in Callers, call'[k].at = "prepare"
      PROVE  /\ InPlan(call[k].e)' /\ Over(call[k].e)' /\ Quiet(call[k].e)'
             /\ Unconfirmed(call[k].e)'
  <2>1. ASSUME NEW e \in Executions, call'[k].e = e, InPlan(e), Over(e), Quiet(e), Unconfirmed(e)
        PROVE  /\ InPlan(call[k].e)' /\ Over(call[k].e)' /\ Quiet(call[k].e)'
               /\ Unconfirmed(call[k].e)'
    <3>1. Over(e)' /\ Quiet(e)' /\ Unconfirmed(e)'
      BY <2>1, OverStep, QuietStep, UnconfirmedStep DEF Over
    <3> QED  BY <2>1, <3>1 DEF InPlan, Over, Quiet, Unconfirmed, AsksOf
  <2>2. CASE SameCall(k)
    <3>1. call[k].at = "prepare" /\ call[k].e = call'[k].e
      BY <1>2, <2>2 DEF SameCall
    <3> QED  BY <2>1, <3>1, CallShapes DEF ObservationFits
  <2>3. CASE SettleObserved(k) /\ Stepped(k, {"settle"}, {"close", "prepare", "recover"})
    <3>1. PICK e \in Executions : call[k].e = e /\ call'[k].e = e
      BY <2>3 DEF Stepped
    <3>2. /\ call[k].at = "settle" /\ native[call[k].ask] = "ended"
          /\ Over(e) /\ (InPlan(e) => Unconfirmed(e))
      BY <2>3, <3>1 DEF SettleObserved, ObservationFits
    <3>3. InPlan(e) /\ AllStoppedBut(e, call[k].ask)
      <4>1. ASSUME Goes(k, "close") \/ Goes(k, "recover")  PROVE FALSE
        BY <1>2, <3>2, <4>1, GoesTo
      <4> QED  BY <2>3, <3>1, <4>1 DEF SettleObserved
    <3>4. Quiet(e)
      BY <3>2, <3>3 DEF AllStoppedBut, Ended, Quiet, AsksOf, NativeIsKnown
    <3> QED  BY <2>1, <3>1, <3>2, <3>3, <3>4
  <2>4. ASSUME NEW x \in Executions, call'[k] = [at |-> IF InPlan(x) THEN "admit" ELSE "grant", e |-> x]
        PROVE  FALSE
    BY <1>2, <2>4
  <2>5. ASSUME NEW r \in Asks, call'[k] = [at |-> "settle", e |-> ExecutionOf[r], ask |-> r]
        PROVE  FALSE
    BY <1>2, <2>5
  <2> QED  BY <1>2, <2>2, <2>3, <2>4, <2>5, CallStep DEF CallMoves, Stepped
<1> QED  BY <1>1, <1>2 DEF ObservationFits

LEMMA ReceiptsStep ==
  ASSUME HInv, TypeOK, HostNext
  PROVE  ReceiptsFit'
<1> USE DEF HInv
<1> SUFFICES ASSUME NEW e \in Executions, <<e, "finish">> \in committed'
             PROVE  InPlan(e) /\ record'[e].closure # None
  BY DEF ReceiptsFit, InPlan
<1>1. record[e].closure # None => record'[e].closure # None
  BY EntryStep DEF Kept, SameEntry, Begun, Finished, Prepared
<1>2. CASE <<e, "finish">> \in committed
  BY <1>1, <1>2 DEF ReceiptsFit
<1>3. CASE <<e, "finish">> \notin committed
  <2>1. PICK x \in Executions :
             \/ record[x].closure # None /\ Applied(x, "finish", record[x].closure.stopped)
             \/ Applied(x, "observed-stop", TRUE)
    BY <1>3, LeaseStep DEF Unapplied, Admitted
  <2>2. record[e].closure # None /\ LeasesOf(e) # {}
    BY <1>3, <2>1 DEF Applied
  <2> QED  BY <1>1, <2>2 DEF LeasesOf
<1> QED  BY <1>2, <1>3

LEMMA StoppedStep ==
  ASSUME HInv, TypeOK, HostNext
  PROVE  StoppedBeforeReleased'
<1> USE DEF HInv
<1> SUFFICES ASSUME NEW e \in Executions, InPlan(e), LeasesOf(e)' = {}
             PROVE  Quiet(e)' /\ (<<e, "observed-stop">> \notin committed' => e \notin effect')
  BY DEF StoppedBeforeReleased, Quiet, InPlan, AsksOf
<1>1. committed \subseteq committed'
  BY CommittedStep
<1>2. CASE SameLeases(e)
  <2>1. LeasesOf(e) = {}
    BY <1>2 DEF SameLeases
  <2>2. Quiet(e) /\ (<<e, "observed-stop">> \notin committed => e \notin effect) /\ e \notin live
    BY <2>1 DEF StoppedBeforeReleased, Quiet, AuthorityHasLease
  <2> QED  BY <1>1, <2>2, QuietStep
<1>3. ASSUME record[e].closure # None, Applied(e, "finish", record[e].closure.stopped)
      PROVE  Quiet(e)' /\ e \notin effect'
  <2>1. record[e].closure.stopped
    BY <1>3 DEF Applied
  <2> QED  BY <1>3, <2>1, QuietStep DEF ClosureFits, Over
<1>4. ASSUME record[e].stop # None, Applied(e, "observed-stop", TRUE)
      PROVE  Quiet(e)' /\ <<e, "observed-stop">> \in committed'
  BY <1>4, QuietStep DEF ClosureFits, Over, Applied
<1> QED  BY <1>2, <1>3, <1>4, LeaseStep DEF Admitted, Applied

LEMMA FinishHasLease ==
  ASSUME HostTypeOK, NEW e \in Executions, Finished(e), record'[e].closure.expected # None
  PROVE  LeasesOf(e) # {}
<1>1. PICK k \in Callers, claim \in BOOLEAN :
           Finish(k, e, claim) /\ record'[e].closure = Closing(e, claim)
  BY DEF Finished
<1>2. ~ZeroDispatch(e)
  BY <1>1 DEF Closing
<1> QED  BY <1>1, <1>2 DEF Finish, Finished

LEMMA FollowsStep ==
  ASSUME HInv, TypeOK, HostNext
  PROVE  LeaseFollowsClosure'
<1> USE DEF HInv
<1> DEFINE finished(e) == <<e, "finish">> \in committed
           observed(e) == <<e, "observed-stop">> \in committed
           Follows(e) ==
             IF record[e].closure.stopped \/ observed(e)
               THEN LeasesOf(e) = {} ELSE \E l \in LeasesOf(e) : ~l.running
           Accounted(e) ==
             record[e].closure # None /\ record[e].closure.expected # None /\ LeasesOf(e) = {} =>
               observed(e) \/ (finished(e) /\ record[e].closure.stopped)
<1> SUFFICES ASSUME NEW e \in Executions
             PROVE  /\ finished(e)' => Follows(e)'
                    /\ observed(e)' => Unconfirmed(e)' /\ LeasesOf(e)' = {}
                    /\ Accounted(e)'
  BY DEF LeaseFollowsClosure, Unconfirmed
<1>1. record[e].closure # None => record'[e].closure = record[e].closure
  BY EntryStep DEF Kept, SameEntry, Begun, Finished, Prepared
<1>2. finished(e) => record[e].closure # None /\ Over(e) /\ Follows(e)
  BY DEF ReceiptsFit, ClosureFits, LeaseFollowsClosure
<1>3. observed(e) => Unconfirmed(e) /\ LeasesOf(e) = {} /\ (InPlan(e) => Over(e))
  BY DEF LeaseFollowsClosure, Unconfirmed, ClosureFits, ReceiptsFit
<1>4. Accounted(e)
  BY DEF LeaseFollowsClosure
<1>5. CASE /\ SameLeases(e)
           /\ finished(e)' <=> finished(e)
           /\ observed(e)' <=> observed(e)
  <2>1. CASE record[e].closure # None
    BY <1>1, <1>2, <1>3, <1>4, <1>5, <2>1 DEF SameLeases, Unconfirmed
  <2>2. CASE Finished(e)
    BY <1>2, <1>3, <1>5, <2>2, FinishHasLease DEF SameLeases, Unconfirmed, Finished
  <2>3. CASE record[e].closure = None /\ record'[e].closure = None
    BY <1>2, <1>3, <1>5, <2>3 DEF Unconfirmed
  <2> QED  BY <2>1, <2>2, <2>3, EntryStep DEF Kept, SameEntry, Begun, Prepared
<1>6. CASE Admitted(e)
  <2>1. ~Over(e) /\ InPlan(e) /\ LeasesOf(e)' # {}
    BY <1>6 DEF Admitted, Over, LeasesOf, InPlan
  <2> QED  BY <1>2, <1>3, <1>6, <2>1 DEF Admitted, Unapplied
<1>7. ASSUME record[e].closure # None, Applied(e, "finish", record[e].closure.stopped)
      PROVE  finished(e)' /\ ~observed(e)' /\ Follows(e)' /\ Accounted(e)'
  <2>1. ~observed(e)'
    BY <1>3, <1>7 DEF Applied
  <2> QED  BY <1>1, <1>7, <2>1 DEF Applied
<1>8. ASSUME record[e].stop # None, InPlan(e), Applied(e, "observed-stop", TRUE)
      PROVE  observed(e)' /\ LeasesOf(e)' = {} /\ Unconfirmed(e)'
  BY <1>1, <1>8 DEF Applied, ClosureFits, Unconfirmed
<1>9. \A x \in Executions, stage \in {"finish", "observed-stop"}, stopped \in BOOLEAN :
        x # e /\ Applied(x, stage, stopped) =>
          SameLeases(e) /\ (finished(e)' <=> finished(e)) /\ (observed(e)' <=> observed(e))
  BY DEF Applied
<1>10. \A x \in Executions : record[x].closure # None => record[x].closure.stopped \in BOOLEAN
  BY DEF HostTypeOK, Records
<1>11. \A stage, stopped : Applied(e, stage, stopped) => InPlan(e)
  BY DEF Applied, LeasesOf
<1> QED  BY <1>5, <1>6, <1>7, <1>8, <1>9, <1>10, <1>11, LeaseStep DEF Unapplied

-----------------------------------------------------------------------------
LEMMA HostInitInv == HostInit => HInv
<1> SUFFICES ASSUME HostInit  PROVE HInv
  OBVIOUS
<1> USE DEF HostInit, HostStart
<1>1. HostTypeOK
  BY HostInitType
<1>2. \A k \in Callers : call[k].at = "idle"
  BY DEF Idle
<1>3. \A e \in Executions : record[e].status = "absent" /\ record[e].closure = None /\ record[e].stop = None
  OBVIOUS
<1>4. \A e \in Executions : LeasesOf(e) = {}
  BY DEF Init, InitWith, LeasesOf
<1>5. UndeliveredIsFresh /\ NativeIsKnown /\ AuthorityHasLease
  BY DEF UndeliveredIsFresh, NativeIsKnown, AuthorityHasLease, AsksOf
<1>6. HoldingFits /\ ObservationFits
  BY <1>2 DEF HoldingFits, ObservationFits
<1>7. ClosureFits /\ ReceiptsFit /\ LeaseFollowsClosure
  BY <1>3, <1>4 DEF ClosureFits, ReceiptsFit, LeaseFollowsClosure
<1>8. StoppedBeforeReleased
  BY DEF StoppedBeforeReleased, AsksOf
<1> QED  BY <1>1, <1>5, <1>6, <1>7, <1>8 DEF HInv

LEMMA HostStutterInv ==
  ASSUME HInv, UNCHANGED <<vars, hvars>>
  PROVE  HInv'
<1> USE DEF vars, hvars
<1>1. HostTypeOK' /\ UndeliveredIsFresh' /\ NativeIsKnown'
  BY DEF HInv, HostTypeOK, UndeliveredIsFresh, NativeIsKnown, AsksOf
<1>2. \A e : /\ LeasesOf(e)' = LeasesOf(e) /\ Over(e)' = Over(e) /\ Quiet(e)' = Quiet(e)
             /\ InPlan(e)' = InPlan(e)
  BY DEF LeasesOf, Over, Quiet, InPlan, AsksOf
<1>3. UNCHANGED <<call, live, record, held, committed, native, effect>>
  OBVIOUS
<1>4. HoldingFits' /\ ObservationFits'
  BY <1>3 DEF HInv, HoldingFits, ObservationFits, LeasesOf, Over, Quiet, Unconfirmed, InPlan, AsksOf
<1>5. AuthorityHasLease' /\ ClosureFits' /\ ReceiptsFit'
  BY <1>2, <1>3 DEF HInv, AuthorityHasLease, ClosureFits, Unconfirmed, ReceiptsFit
<1>6. StoppedBeforeReleased' /\ LeaseFollowsClosure'
  BY <1>2, <1>3 DEF HInv, StoppedBeforeReleased, LeaseFollowsClosure, AsksOf
<1> QED  BY <1>1, <1>4, <1>5, <1>6 DEF HInv

\* Whatever a managed execution does, the plan moves by its commands only.
LEMMA HostStepIsPlanStep ==
  ASSUME HostTypeOK, TypeOK, HostNext
  PROVE  [Next]_vars
<1>1. CASE Command
  BY <1>1 DEF Command, Next
<1>2. ASSUME NEW k \in Callers, Control(k) \/ CallThrows(k)  PROVE UNCHANGED vars
  BY <1>2 DEF Control, Begin, Finish, Observe, CallThrows
<1>3. ASSUME NEW k \in Callers, Continue(k)  PROVE Execution \/ UNCHANGED vars
  <2>1. CASE AdmitLease(k)
    <3>1. AdmitSlice(SliceOf[call[k].e])
      BY <2>1 DEF AdmitLease
    <3>2. SliceOf[call[k].e] \in Slices
      BY <3>1 DEF AdmitSlice, TypeOK
    <3> QED  BY <3>1, <3>2 DEF Execution
  <2>2. ASSUME NEW stage, NEW expected, NEW stopped \in BOOLEAN, NEW next,
               Apply(k, stage, expected, stopped, next)
        PROVE  Execution \/ UNCHANGED vars
    BY <2>2 DEF Apply, Execution, LeasesOf
  <2>3. CASE ApplyClosure(k)
    <3>1. call[k].e \in Executions
      BY <2>3, CallShapes DEF ApplyClosure
    <3>2. CASE record[call[k].e].closure = None
      BY <2>3, <3>2 DEF ApplyClosure
    <3>3. CASE record[call[k].e].closure # None
      <4>1. record[call[k].e].closure.stopped \in BOOLEAN
        BY <3>1, <3>3 DEF HostTypeOK, Records
      <4>2. \E expected : Apply(k, "finish", expected, record[call[k].e].closure.stopped, "mark")
        BY <2>3, <3>3 DEF ApplyClosure
      <4> QED  BY <2>2, <4>1, <4>2
    <3> QED  BY <3>2, <3>3
  <2>4. CASE ApplyRelease(k)
    <3>1. \E expected : Apply(k, "observed-stop", expected, TRUE, "recover")
      BY <2>4 DEF ApplyRelease
    <3> QED  BY <2>2, <3>1
  <2>5. CASE UNCHANGED vars
    BY <2>5
  <2> QED  BY <1>3, <2>1, <2>3, <2>4, <2>5 DEF Continue, RefuseLease, GrantAuthority, Reenter, MarkUnknown,
       CloseRecord, SettleObserved, PrepareRelease, RecordRecovery
<1>4. ASSUME NEW r \in Asks, AskStep(r)  PROVE UNCHANGED vars
  BY <1>4 DEF AskStep, AdmitAsk, Reserve, Dispatch, Permit, NativeEnds, Abort, Report, Settle, ModelStep
<1>5. ASSUME NEW e \in Executions, Deliver(e) \/ StartEffect(e) \/ EndEffect(e) \/ CloseAtCeiling(e)
      PROVE  UNCHANGED vars
  BY <1>5 DEF Deliver, StartEffect, EndEffect, CloseAtCeiling
<1> QED  BY <1>1, <1>2, <1>3, <1>4, <1>5 DEF HostNext, Next, Crash

LEMMA HostInvariance == HostSpec => [](IInv /\ HInv)
<1>1. HostInit => IInv /\ HInv
  BY InitInv, HostInitInv DEF HostInit
<1>2. IInv /\ HInv /\ [HostNext]_<<vars, hvars>> => (IInv /\ HInv)'
  <2> SUFFICES ASSUME IInv, HInv, [HostNext]_<<vars, hvars>>  PROVE (IInv /\ HInv)'
    OBVIOUS
  <2>1. TypeOK /\ HostTypeOK
    BY DEF IInv, HInv
  <2>2. CASE HostNext
    <3>1. IInv'
      BY <2>1, <2>2, HostStepIsPlanStep, StepInv
    <3>2. HInv'
      BY <2>1, <2>2, HostNextType, FreshStep, HoldingStep, NativeStep, AuthorityStep, ClosureStep,
         ObservationStep, ReceiptsStep, StoppedStep, FollowsStep DEF HInv
    <3> QED  BY <3>1, <3>2
  <2>3. CASE UNCHANGED <<vars, hvars>>
    BY <2>3, StutterInv, HostStutterInv
  <2> QED  BY <2>2, <2>3
<1> QED  BY <1>1, <1>2, PTL DEF HostSpec

(* Plans with managed executions keep the rules of plans: every behaviour  *)
(* of the composition, with its crashes and refused calls, is one of       *)
(* PlanWorkflow, so that the theorems above hold of it.                    *)
THEOREM HostImplementsPlan == HostSpec => Spec
<1>1. HostInit => Init
  BY DEF HostInit
<1>2. IInv /\ HInv /\ [HostNext]_<<vars, hvars>> => [Next]_vars
  BY HostStepIsPlanStep DEF IInv, HInv, vars
<1> QED  BY <1>1, <1>2, HostInvariance, PTL DEF HostSpec, Spec

(* The stores and tables of managed executions have their schemas' shape.  *)
THEOREM HostTypeCorrect == HostSpec => []HostTypeOK
<1>1. HInv => HostTypeOK
  BY DEF HInv
<1> QED  BY HostInvariance, <1>1, PTL

(* No lease is given back over native work that goes on, whatever a host   *)
(* claims and however many executions, requests and calls there are.       *)
THEOREM StoppedBeforeReleasedHolds == HostSpec => []StoppedBeforeReleased
<1>1. HInv => StoppedBeforeReleased
  BY DEF HInv
<1> QED  BY HostInvariance, <1>1, PTL

(* The lease of an execution is as its first closure and the observed stop *)
(* left it, and never goes without the receipt of one of them, through     *)
(* retries, interrupted calls and the expiry of leases.                    *)
THEOREM LeaseFollowsClosureHolds == HostSpec => []LeaseFollowsClosure
<1>1. HInv => LeaseFollowsClosure
  BY DEF HInv
<1> QED  BY HostInvariance, <1>1, PTL
=============================================================================
