------------------------ MODULE ModelAdmission_proofs ------------------------
(***************************************************************************)
(* Proofs about ModelAdmission, for any attempts, runs, budgets and        *)
(* bounds.                                                                 *)
(*                                                                         *)
(* The ledger, the request cycle and the wire are three views of one       *)
(* request.  The inductive invariant says how they agree: what the cycle   *)
(* believes is what the ledger says (CallOK), nothing is on the wire       *)
(* without a dispatch and nothing acknowledged is still in flight          *)
(* (WireOK), a job that is over owes nothing (JobsOK), and whoever holds a *)
(* slot finds his concurrency limit respected (SlotsOK).  Only Reserve     *)
(* makes an attempt a holder; every other step can only free slots.        *)
(*                                                                         *)
(* Budgets are limits on sums over sets of attempts.  The sums are those   *)
(* of the community modules; what is used of them (SumRemove, SumLess,     *)
(* SumGrows) is proved by taking a smallest set for which it fails.  A     *)
(* step changes the exposure of one attempt, and raises it only in         *)
(* Reserve, which looks at every limit (SpendInv).                         *)
(***************************************************************************)
EXTENDS ModelAdmission, FiniteSetTheorems, WellFoundedInduction, TLAPS

CallOK(a) ==
  /\ call[a] = "reserved" => attempt[a].state = "reserved"
  /\ call[a] = "undo" => attempt[a].state \in {"reserved", "dispatched"}
  /\ call[a] \in {"dispatched", "sent", "failed"} => attempt[a].state = "dispatched"
  /\ call[a] # "none" => ~attempt[a].acknowledged /\ attempt[a].owner = process
  /\ call[a] \in {"reserved", "undo", "dispatched"} => wire[a] = "none"

WireOK(a) ==
  /\ wire[a] # "none" => attempt[a].state \in {"dispatched", "uncertain", "settled"}
  /\ attempt[a].acknowledged => wire[a] # "inflight" /\ attempt[a].state # "absent"
  /\ attempt[a].owner <= process

RequestsOK == \A a \in Attempts : CallOK(a) /\ WireOK(a)

JobsOK == \A p \in JobRuns : job[p] = "over" => UnknownEffects(p) = {}

Holds(a) == Owes(a) /\ Live(a)
HoldersOfKey(k) == {a \in Attempts : BillingKey[RunOf[a]] = k /\ Holds(a)}
HoldersOfJob(p) == {a \in Attempts : Parent[RunOf[a]] = p /\ Holds(a)}

SlotsOK ==
  /\ \A a \in Attempts : Holds(a) =>
       Cardinality(HoldersOfKey(BillingKey[RunOf[a]])) <= Concurrency[RunOf[a]]
  /\ \A p \in JobRuns : Cardinality(HoldersOfJob(p)) <= Concurrency[p]

IInv == AdmissionTypeOK /\ RequestsOK /\ JobsOK /\ SlotsOK

-----------------------------------------------------------------------------
LEMMA InitInv == AdmissionInit => IInv
<1> SUFFICES ASSUME AdmissionInit  PROVE IInv
  OBVIOUS
<1> USE DEF AdmissionInit
<1>1. AdmissionTypeOK
  BY RunsAssumption, AmountsAssumption DEF AdmissionTypeOK, AttemptRecord, AttemptStates
<1>2. RequestsOK
  BY DEF RequestsOK, CallOK, WireOK
<1>3. JobsOK
  BY DEF JobsOK
<1>4. \A a \in Attempts : ~Holds(a)
  BY DEF Holds, Owes, Counts
<1>5. \A p \in JobRuns : HoldersOfJob(p) = {} /\ Concurrency[p] \in Nat
  BY <1>4, RunsAssumption, AmountsAssumption DEF HoldersOfJob
<1>6. \A p \in JobRuns : Cardinality(HoldersOfJob(p)) <= Concurrency[p]
  <2> TAKE p \in JobRuns
  <2>1. Cardinality(HoldersOfJob(p)) = 0
    BY <1>5, FS_EmptySet
  <2> QED  BY <1>5, <2>1
<1>7. SlotsOK
  BY <1>4, <1>6 DEF SlotsOK
<1> QED  BY <1>1, <1>2, <1>3, <1>7 DEF IInv

-----------------------------------------------------------------------------
(***************************************************************************)
(* Type correctness                                                        *)
(***************************************************************************)
LEMMA SettlementType ==
  ASSUME AdmissionTypeOK, NEW a \in Attempts, NEW u \in Nat \cup {Unknown},
         NEW acknowledged \in BOOLEAN, Settlement(a, u, acknowledged)
  PROVE  attempt' \in [Attempts -> AttemptRecord] /\ partial' \subseteq Attempts
<1>1. attempt[a] \in AttemptRecord
  BY DEF AdmissionTypeOK
<1>2. PICK r : attempt' = [attempt EXCEPT ![a] = r]
         /\ \E usage \in Nat \cup {Unknown}, acked, variance \in BOOLEAN, s \in {"settled", "uncertain"} :
              r = [attempt[a] EXCEPT !.usage = usage, !.acknowledged = acked,
                                     !.variance = variance, !.state = s]
  <2> DEFINE old == attempt[a]
             usage == IF u = Unknown THEN old.usage ELSE u
             acked == old.acknowledged \/ acknowledged
             variance == old.variance \/ (usage # Unknown /\ usage > Resources[a])
             s == IF usage # Unknown /\ acked THEN "settled" ELSE "uncertain"
             new == [attempt[a] EXCEPT !.usage = usage, !.acknowledged = acked,
                                     !.variance = variance, !.state = s]
  <2>1. usage \in Nat \cup {Unknown} /\ s \in {"settled", "uncertain"}
    BY <1>1 DEF AttemptRecord
  <2>2. acked \in BOOLEAN /\ variance \in BOOLEAN
    BY <1>1 DEF AttemptRecord
  <2>3. attempt' = [attempt EXCEPT ![a] = new]
    BY DEF Settlement
  <2> HIDE DEF usage, acked, variance, s
  <2> QED  BY <2>1, <2>2, <2>3
<1>3. r \in AttemptRecord
  BY <1>1, <1>2 DEF AttemptRecord, AttemptStates
<1>4. partial' \subseteq Attempts
  BY DEF Settlement, AdmissionTypeOK
<1> QED  BY <1>2, <1>3, <1>4 DEF AdmissionTypeOK

LEMMA TypeStep ==
  ASSUME AdmissionTypeOK, [AdmissionNext]_avars
  PROVE  AdmissionTypeOK'
<1> USE DEF ledger, jobs, world, transport
<1>1. CASE UNCHANGED avars
  BY <1>1 DEF avars, AdmissionTypeOK
<1>2. ASSUME NEW a \in Attempts, RequestCycle(a) \/ ProviderAnswers(a) \/ HostReport(a)
      PROVE  AdmissionTypeOK'
  <2>1. RunOf[a] \in ModelRuns /\ attempt[a] \in AttemptRecord
    BY RunsAssumption DEF AdmissionTypeOK
  <2>2. CASE Reserve(a)
    <3>1. [attempt[a] EXCEPT !.state = "reserved", !.owner = process] \in AttemptRecord
      BY <2>1 DEF AdmissionTypeOK, AttemptRecord, AttemptStates
    <3>2. attempt' = [attempt EXCEPT ![a] = [attempt[a] EXCEPT !.state = "reserved", !.owner = process]]
      BY <2>1, <2>2 DEF Reserve, AdmissionTypeOK
    <3>3. attempt' \in [Attempts -> AttemptRecord]
      BY <3>1, <3>2 DEF AdmissionTypeOK
    <3>4. opened' \subseteq ModelRuns /\ opened \subseteq opened'
      BY <2>1, <2>2 DEF Reserve, AdmissionTypeOK
    <3>5. call' \in [Attempts -> {"none", "reserved", "undo", "dispatched", "sent", "failed"}] /\ faulty' \in Nat
      BY <2>2 DEF Reserve, AdmissionTypeOK, Fault, NoFault
    <3> QED  BY <2>2, <3>3, <3>4, <3>5 DEF Reserve, AdmissionTypeOK
  <2>3. CASE Dispatch(a)
    <3>1. [attempt[a] EXCEPT !.state = "dispatched"] \in AttemptRecord
      BY <2>1 DEF AttemptRecord, AttemptStates
    <3>2. attempt' \in [Attempts -> AttemptRecord]
      BY <3>1, <2>3 DEF Dispatch, AdmissionTypeOK
    <3>3. call' \in [Attempts -> {"none", "reserved", "undo", "dispatched", "sent", "failed"}] /\ faulty' \in Nat
      BY <2>3 DEF Dispatch, AdmissionTypeOK, Fault, NoFault
    <3> QED  BY <2>3, <3>2, <3>3 DEF Dispatch, AdmissionTypeOK
  <2>4. CASE Release(a)
    <3>1. [attempt[a] EXCEPT !.state = "released", !.acknowledged = TRUE] \in AttemptRecord
      BY <2>1 DEF AttemptRecord, AttemptStates
    <3>2. attempt' \in [Attempts -> AttemptRecord]
      BY <3>1, <2>4 DEF Release, AdmissionTypeOK
    <3>3. call' \in [Attempts -> {"none", "reserved", "undo", "dispatched", "sent", "failed"}] /\ faulty' \in Nat
      BY <2>4 DEF Release, AdmissionTypeOK, Fault, NoFault
    <3> QED  BY <2>4, <3>2, <3>3 DEF Release, AdmissionTypeOK
  <2>5. CASE Send(a)
    BY <2>5 DEF Send, AdmissionTypeOK
  <2>6. CASE CallFails(a)
    BY <2>6 DEF CallFails, AdmissionTypeOK
  <2>7. CASE Settle(a)
    <3>1. attempt' \in [Attempts -> AttemptRecord] /\ partial' \subseteq Attempts
      <4>1. CASE UNCHANGED <<attempt, halted, partial>>
        BY <4>1 DEF AdmissionTypeOK
      <4>2. CASE \E u \in Nat \cup {Unknown}, k \in BOOLEAN : Settlement(a, u, k)
        BY <4>2, SettlementType
      <4>3. spent[a] \in Nat /\ Usages \subseteq Nat
        BY AmountsAssumption DEF AdmissionTypeOK
      <4> QED  BY <2>7, <4>1, <4>2, <4>3 DEF Settle
    <3>2. call' \in [Attempts -> {"none", "reserved", "undo", "dispatched", "sent", "failed"}]
      BY <2>7 DEF Settle, AdmissionTypeOK
    <3>3. Fault \/ NoFault
      BY <2>7 DEF Settle
    <3>4. faulty' \in Nat
      BY <3>3 DEF AdmissionTypeOK, Fault, NoFault
    <3> QED  BY <2>7, <3>1, <3>2, <3>4 DEF Settle, AdmissionTypeOK
  <2>8. CASE ProviderAnswers(a)
    BY <2>8, AmountsAssumption DEF ProviderAnswers, AdmissionTypeOK
  <2>9. CASE HostReport(a)
    <3>1. \E u \in Nat \cup {Unknown}, k \in BOOLEAN : Settlement(a, u, k)
      BY <2>9, AmountsAssumption DEF HostReport, AdmissionTypeOK
    <3>2. attempt' \in [Attempts -> AttemptRecord] /\ partial' \subseteq Attempts
      BY <3>1, SettlementType
    <3> QED  BY <2>9, <3>2 DEF HostReport, AdmissionTypeOK
  <2> QED  BY <1>2, <2>2, <2>3, <2>4, <2>5, <2>6, <2>7, <2>8, <2>9 DEF RequestCycle
<1>3. ASSUME NEW r \in ModelRuns, ResumeBillingKey(BillingKey[r]) \/ DeadlinePasses(r)
      PROVE  AdmissionTypeOK'
  BY <1>3 DEF ResumeBillingKey, DeadlinePasses, AdmissionTypeOK
<1>4. ASSUME NEW p \in JobRuns,
             RegisterParentRun(p) \/ CancelRun(p) \/ CancelJob(p) \/ Finish(p) \/ ReconcileSettled(p)
      PROVE  AdmissionTypeOK'
  <2>1. p \in ModelRuns
    BY RunsAssumption
  <2>2. CASE RegisterParentRun(p)
    BY <2>1, <2>2 DEF RegisterParentRun, AdmissionTypeOK
  <2>3. CASE CancelRun(p)
    BY <2>1, <2>3 DEF CancelRun, AdmissionTypeOK
  <2>4. CASE CancelJob(p)
    BY <2>4 DEF CancelJob, AdmissionTypeOK, Fault, NoFault
  <2>5. CASE Finish(p)
    BY <2>5 DEF Finish, AdmissionTypeOK
  <2>6. CASE ReconcileSettled(p)
    BY <2>6 DEF ReconcileSettled, AdmissionTypeOK
  <2> QED  BY <1>4, <2>2, <2>3, <2>4, <2>5, <2>6
<1>5. CASE CrashAndRecover
  BY <1>5 DEF CrashAndRecover, AdmissionTypeOK
<1> QED  BY <1>1, <1>2, <1>3, <1>4, <1>5 DEF AdmissionNext

-----------------------------------------------------------------------------
(***************************************************************************)
(* The ledger, the request cycle and the wire agree                        *)
(***************************************************************************)
\* All that the invariant says of request b is unchanged.
Same(b) == attempt'[b] = attempt[b] /\ call'[b] = call[b] /\ wire'[b] = wire[b]

LEMMA OneRequest ==
  ASSUME RequestsOK, process' = process, NEW a \in Attempts,
         \A b \in Attempts \ {a} : Same(b),
         CallOK(a)', WireOK(a)'
  PROVE  RequestsOK'
<1>1. ASSUME NEW b \in Attempts \ {a}  PROVE CallOK(b)' /\ WireOK(b)'
  BY <1>1 DEF RequestsOK, CallOK, WireOK, Same
<1> QED  BY <1>1 DEF RequestsOK

LEMMA OtherRequests ==
  ASSUME AdmissionTypeOK, RequestsOK, UNCHANGED <<attempt, call, wire>>, process' = process
  PROVE  RequestsOK'
  BY DEF RequestsOK, CallOK, WireOK

LEMMA SettlementStep ==
  ASSUME AdmissionTypeOK, NEW a \in Attempts, NEW u, NEW acknowledged \in BOOLEAN,
         Settlement(a, u, acknowledged)
  PROVE  /\ attempt[a].state \in {"dispatched", "uncertain"}
         /\ attempt'[a].state \in {"settled", "uncertain"}
         /\ attempt'[a].acknowledged <=> attempt[a].acknowledged \/ acknowledged
         /\ attempt'[a].owner = attempt[a].owner
         /\ \A b \in Attempts \ {a} : attempt'[b] = attempt[b]
<1> DEFINE usage == IF u = Unknown THEN attempt[a].usage ELSE u
           acked == attempt[a].acknowledged \/ acknowledged
           variance == attempt[a].variance \/ (usage # Unknown /\ usage > Resources[a])
           s == IF usage # Unknown /\ acked THEN "settled" ELSE "uncertain"
           new == [attempt[a] EXCEPT !.usage = usage, !.acknowledged = acked,
                                     !.variance = variance, !.state = s]
<1>1. attempt' = [attempt EXCEPT ![a] = new] /\ attempt[a].state \in {"dispatched", "uncertain"}
  BY DEF Settlement
<1>2. s \in {"settled", "uncertain"} /\ attempt[a] \in AttemptRecord
  BY DEF AdmissionTypeOK
<1>3. acked <=> attempt[a].acknowledged \/ acknowledged
  OBVIOUS
<1> HIDE DEF usage, acked, variance, s
<1>4. new.state = s /\ new.acknowledged = acked /\ new.owner = attempt[a].owner
  BY <1>2 DEF AttemptRecord
<1>5. attempt'[a] = new /\ \A b \in Attempts \ {a} : attempt'[b] = attempt[b]
  BY <1>1 DEF AdmissionTypeOK
<1> QED  BY <1>1, <1>2, <1>3, <1>4, <1>5

LEMMA SettleStep ==
  ASSUME AdmissionTypeOK, RequestsOK, NEW a \in Attempts, Settle(a) \/ HostReport(a)
  PROVE  RequestsOK'
<1> USE DEF transport, world
<1>1. CallOK(a) /\ WireOK(a) /\ attempt[a] \in AttemptRecord
  BY DEF RequestsOK, AdmissionTypeOK
<1>2. /\ UNCHANGED wire /\ process' = process
      /\ call'[a] = "none" /\ \A b \in Attempts \ {a} : call'[b] = call[b]
  BY DEF Settle, HostReport, AdmissionTypeOK
<1>3. CASE UNCHANGED attempt
  <2>1. CallOK(a)' /\ WireOK(a)'
    BY <1>1, <1>2, <1>3 DEF CallOK, WireOK
  <2> QED  BY <1>2, <1>3, <2>1, OneRequest DEF Same
<1>4. ASSUME NEW u, NEW k \in BOOLEAN, Settlement(a, u, k), k => wire[a] # "inflight"
      PROVE  RequestsOK'
  <2>1. /\ attempt[a].state \in {"dispatched", "uncertain"}
        /\ attempt'[a].state \in {"settled", "uncertain"}
        /\ attempt'[a].acknowledged <=> attempt[a].acknowledged \/ k
        /\ attempt'[a].owner = attempt[a].owner
        /\ \A b \in Attempts \ {a} : attempt'[b] = attempt[b]
    BY <1>4, SettlementStep
  <2>2. CallOK(a)'
    BY <1>2 DEF CallOK
  <2>3. WireOK(a)'
    BY <1>1, <1>2, <1>4, <2>1 DEF WireOK
  <2> QED  BY <1>2, <2>1, <2>2, <2>3, OneRequest DEF Same
<1>5. \/ UNCHANGED attempt
      \/ \E u : Settlement(a, u, FALSE)
      \/ wire[a] # "inflight" /\ \E u : Settlement(a, u, TRUE)
  <2>1. CASE Settle(a)
    BY <2>1 DEF Settle
  <2>2. CASE HostReport(a)
    BY <2>2 DEF HostReport
  <2> QED  BY <2>1, <2>2
<1> QED  BY <1>3, <1>4, <1>5

LEMMA RequestsStep ==
  ASSUME AdmissionTypeOK, RequestsOK, [AdmissionNext]_avars
  PROVE  RequestsOK'
<1> USE DEF ledger, jobs, world, transport
<1>1. CASE UNCHANGED avars
  BY <1>1, OtherRequests DEF avars
<1>2. ASSUME NEW a \in Attempts, RequestCycle(a) \/ ProviderAnswers(a) \/ HostReport(a)
      PROVE  RequestsOK'
  <2>1. CallOK(a) /\ WireOK(a) /\ attempt[a] \in AttemptRecord /\ process \in Nat
    BY DEF RequestsOK, AdmissionTypeOK
  <2>2. CASE Reserve(a)
    <3>1. /\ attempt'[a] = [attempt[a] EXCEPT !.state = "reserved", !.owner = process]
          /\ call'[a] \in {"none", "reserved"} /\ attempt[a].state = "absent"
          /\ \A b \in Attempts \ {a} : Same(b)
      BY <2>2 DEF Reserve, AdmissionTypeOK, Same
    <3>2. /\ attempt'[a].state = "reserved" /\ attempt'[a].owner = process
          /\ attempt'[a].acknowledged = attempt[a].acknowledged
      BY <2>1, <3>1 DEF AttemptRecord
    <3>3. wire' = wire /\ process' = process
      BY <2>2 DEF Reserve
    <3>4. wire[a] = "none" /\ ~attempt[a].acknowledged
      BY <2>1, <3>1 DEF WireOK
    <3>5. CallOK(a)' /\ WireOK(a)'
      BY <2>1, <3>1, <3>2, <3>3, <3>4 DEF CallOK, WireOK
    <3> QED  BY <3>1, <3>3, <3>5, OneRequest
  <2>3. CASE Dispatch(a)
    <3>1. /\ call[a] = "reserved" /\ UNCHANGED <<wire, process>>
          /\ \A b \in Attempts \ {a} : Same(b)
          /\ \/ attempt'[a] = attempt[a] /\ call'[a] = "undo"
             \/ attempt'[a] = [attempt[a] EXCEPT !.state = "dispatched"] /\ call'[a] \in {"dispatched", "undo"}
      BY <2>3 DEF Dispatch, AdmissionTypeOK, Same
    <3>2. CallOK(a)' /\ WireOK(a)'
      BY <2>1, <3>1 DEF CallOK, WireOK, AttemptRecord
    <3> QED  BY <3>1, <3>2, OneRequest
  <2>4. CASE Release(a)
    <3>1. /\ call[a] \in {"reserved", "undo"} /\ UNCHANGED <<wire, process>> /\ call'[a] = "none"
          /\ \A b \in Attempts \ {a} : Same(b)
          /\ \/ attempt'[a] = attempt[a]
             \/ attempt'[a] = [attempt[a] EXCEPT !.state = "released", !.acknowledged = TRUE]
      BY <2>4 DEF Release, AdmissionTypeOK, Same
    <3>2. CallOK(a)' /\ WireOK(a)'
      BY <2>1, <3>1 DEF CallOK, WireOK, AttemptRecord
    <3> QED  BY <3>1, <3>2, OneRequest
  <2>5. CASE Send(a) \/ CallFails(a)
    <3>1. /\ UNCHANGED <<attempt, process>> /\ call[a] \in {"dispatched", "sent"}
          /\ \A b \in Attempts \ {a} : Same(b)
          /\ \/ call'[a] = "sent" /\ wire'[a] = "inflight" /\ call[a] = "dispatched"
             \/ call'[a] = "failed" /\ wire' = wire
      BY <2>5 DEF Send, MaySend, CallFails, AdmissionTypeOK, Same
    <3>2. CallOK(a)' /\ WireOK(a)'
      BY <2>1, <3>1 DEF CallOK, WireOK
    <3> QED  BY <3>1, <3>2, OneRequest
  <2>6. CASE ProviderAnswers(a)
    <3>1. /\ UNCHANGED <<attempt, call, process>> /\ wire[a] = "inflight" /\ wire'[a] = "answered"
          /\ \A b \in Attempts \ {a} : Same(b)
      BY <2>6 DEF ProviderAnswers, AdmissionTypeOK, Same
    <3>2. CallOK(a)' /\ WireOK(a)'
      BY <2>1, <3>1 DEF CallOK, WireOK
    <3> QED  BY <3>1, <3>2, OneRequest
  <2> QED  BY <1>2, <2>2, <2>3, <2>4, <2>5, <2>6, SettleStep DEF RequestCycle
<1>3. ASSUME NEW r \in ModelRuns, ResumeBillingKey(BillingKey[r]) \/ DeadlinePasses(r)
      PROVE  RequestsOK'
  BY <1>3, OtherRequests DEF ResumeBillingKey, DeadlinePasses
<1>4. ASSUME NEW p \in JobRuns,
             RegisterParentRun(p) \/ CancelRun(p) \/ CancelJob(p) \/ Finish(p) \/ ReconcileSettled(p)
      PROVE  RequestsOK'
  BY <1>4, OtherRequests DEF RegisterParentRun, CancelRun, CancelJob, Finish, ReconcileSettled
<1>5. CASE CrashAndRecover
  BY <1>5 DEF CrashAndRecover, RequestsOK, CallOK, WireOK, AdmissionTypeOK, AttemptRecord
<1> QED  BY <1>1, <1>2, <1>3, <1>4, <1>5 DEF AdmissionNext

-----------------------------------------------------------------------------
(***************************************************************************)
(* Debts of jobs, slots of runs                                            *)
(***************************************************************************)
\* Only a reservation makes an attempt owe, or hold a slot.
LEMMA NewDebt ==
  ASSUME AdmissionTypeOK, RequestsOK, [AdmissionNext]_avars,
         NEW b \in Attempts, ~Reserve(b)
  PROVE  /\ Owes(b)' => Owes(b)
         /\ Holds(b)' => Holds(b)
<1> USE DEF ledger, jobs, world, transport
<1>1. CallOK(b) /\ WireOK(b) /\ attempt[b] \in AttemptRecord /\ process \in Nat
  BY DEF RequestsOK, AdmissionTypeOK
<1>2. CASE attempt'[b] = attempt[b] /\ late \subseteq late' /\ process' \in {process, process + 1}
  BY <1>1, <1>2 DEF Owes, Counts, Holds, Live, WireOK, AttemptRecord
<1>3. ASSUME Owes(b)' => Owes(b), attempt'[b].owner = attempt[b].owner, UNCHANGED <<late, process>>
      PROVE  Holds(b)' => Holds(b)
  BY <1>3 DEF Holds, Live
<1>4. CASE UNCHANGED avars
  BY <1>2, <1>4 DEF avars
<1>5. ASSUME NEW a \in Attempts, RequestCycle(a) \/ ProviderAnswers(a) \/ HostReport(a)
      PROVE  (Owes(b)' => Owes(b)) /\ (Holds(b)' => Holds(b))
  <2>1. UNCHANGED <<late, process>>
    BY <1>5 DEF RequestCycle, Reserve, Dispatch, Release, Send, CallFails, Settle, ProviderAnswers, HostReport
  <2>2. CASE a # b
    <3>1. attempt'[b] = attempt[b]
      <4>1. ASSUME NEW u, NEW k \in BOOLEAN, Settlement(a, u, k)  PROVE attempt'[b] = attempt[b]
        BY <2>2, <4>1, SettlementStep
      <4>2. CASE Settle(a) \/ HostReport(a)
        BY <4>1, <4>2 DEF Settle, HostReport
      <4> QED  BY <1>5, <2>2, <4>2
            DEF RequestCycle, Reserve, Dispatch, Release, Send, CallFails, ProviderAnswers, AdmissionTypeOK
    <3> QED  BY <1>2, <2>1, <3>1
  <2>3. CASE a = b
    <3>1. CASE Dispatch(b)
      <4>1. attempt'[b].acknowledged = attempt[b].acknowledged /\ attempt'[b].owner = attempt[b].owner
        BY <1>1, <3>1 DEF Dispatch, AdmissionTypeOK, AttemptRecord
      <4>2. Owes(b)
        BY <1>1, <3>1 DEF Dispatch, CallOK, Owes, Counts
      <4> QED  BY <1>3, <2>1, <4>1, <4>2
    <3>2. CASE Release(b)
      <4>1. \/ attempt'[b] = attempt[b]
            \/ attempt'[b] = [attempt[b] EXCEPT !.state = "released", !.acknowledged = TRUE]
        BY <3>2 DEF Release, AdmissionTypeOK
      <4>2. attempt'[b].owner = attempt[b].owner /\ (Owes(b)' => Owes(b))
        BY <1>1, <4>1 DEF Owes, Counts, AttemptRecord
      <4> QED  BY <1>3, <2>1, <4>2
    <3>3. CASE Settle(b) \/ HostReport(b)
      <4>1. ASSUME NEW u, NEW k \in BOOLEAN, Settlement(b, u, k)
            PROVE  attempt'[b].owner = attempt[b].owner /\ (Owes(b)' => Owes(b))
        BY <4>1, SettlementStep DEF Owes, Counts
      <4>2. CASE UNCHANGED attempt
        BY <1>2, <2>1, <4>2
      <4>3. CASE (\E u : Settlement(b, u, FALSE)) \/ (\E u : Settlement(b, u, TRUE))
        BY <1>3, <2>1, <4>1, <4>3
      <4>4. CASE Settle(b)
        BY <4>2, <4>3, <4>4 DEF Settle
      <4>5. CASE HostReport(b)
        BY <4>3, <4>5 DEF HostReport
      <4> QED  BY <3>3, <4>4, <4>5
    <3>4. CASE Send(b) \/ CallFails(b) \/ ProviderAnswers(b)
      BY <1>2, <2>1, <3>4 DEF Send, CallFails, ProviderAnswers
    <3> QED  BY <1>5, <2>3, <3>1, <3>2, <3>3, <3>4 DEF RequestCycle
  <2> QED  BY <2>2, <2>3
<1>6. ASSUME NEW r \in ModelRuns, ResumeBillingKey(BillingKey[r]) \/ DeadlinePasses(r)
      PROVE  (Owes(b)' => Owes(b)) /\ (Holds(b)' => Holds(b))
  BY <1>2, <1>6 DEF ResumeBillingKey, DeadlinePasses
<1>7. ASSUME NEW p \in JobRuns,
             RegisterParentRun(p) \/ CancelRun(p) \/ CancelJob(p) \/ Finish(p) \/ ReconcileSettled(p)
      PROVE  (Owes(b)' => Owes(b)) /\ (Holds(b)' => Holds(b))
  BY <1>2, <1>7 DEF RegisterParentRun, CancelRun, CancelJob, Finish, ReconcileSettled
<1>8. CASE CrashAndRecover
  BY <1>2, <1>8 DEF CrashAndRecover
<1> QED  BY <1>4, <1>5, <1>6, <1>7, <1>8 DEF AdmissionNext

\* A job that is over stays without debts: a reservation needs a running job.
LEMMA JobsStep ==
  ASSUME AdmissionTypeOK, RequestsOK, JobsOK, [AdmissionNext]_avars
  PROVE  JobsOK'
<1> USE DEF ledger, jobs, world, transport
<1> SUFFICES ASSUME NEW p \in JobRuns, job'[p] = "over"  PROVE UnknownEffects(p)' = {}
  BY DEF JobsOK
<1>1. CASE job[p] = "over"
  <2>1. ASSUME NEW b \in Attempts, Parent[RunOf[b]] = p  PROVE ~Owes(b)'
    <3>1. ~Owes(b)
      BY <1>1, <2>1 DEF JobsOK, UnknownEffects, Siblings
    <3>2. ~Reserve(b)
      BY <1>1, <2>1, RunsAssumption DEF Reserve, JobOf, AssertJobCurrent
    <3> QED  BY <3>1, <3>2, NewDebt
  <2> QED  BY <2>1 DEF UnknownEffects, Siblings
<1>2. CASE job[p] # "over"
  <2>1. PICK q \in JobRuns : Finish(q) \/ ReconcileSettled(q)
    BY <1>2 DEF avars, AdmissionNext, RequestCycle, Reserve, Dispatch, Release, Send, CallFails, Settle,
       ProviderAnswers, HostReport, ResumeBillingKey, DeadlinePasses, RegisterParentRun, CancelRun,
       CancelJob, CrashAndRecover, AdmissionTypeOK
  <2>2. p = q /\ UnknownEffects(q) = {} /\ attempt' = attempt
    BY <1>2, <2>1 DEF Finish, ReconcileSettled, AdmissionTypeOK
  <2> QED  BY <2>2 DEF UnknownEffects, Siblings, Owes, Counts
<1> QED  BY <1>1, <1>2

LEMMA Finite ==
  ASSUME NEW S \in SUBSET Attempts
  PROVE  IsFiniteSet(S) /\ Cardinality(S) \in Nat
  BY RunsAssumption, FS_Subset, FS_CardinalityType

LEMMA Limits ==
  /\ \A a \in Attempts : RunOf[a] \in ModelRuns /\ Concurrency[RunOf[a]] \in Nat
  /\ \A p \in JobRuns : Concurrency[p] \in Nat
  BY RunsAssumption, AmountsAssumption

LEMMA SlotsStep ==
  ASSUME AdmissionTypeOK, RequestsOK, SlotsOK, [AdmissionNext]_avars
  PROVE  SlotsOK'
<1> DEFINE Key(b) == BillingKey[RunOf[b]]
<1>1. ASSUME NEW S \in SUBSET Attempts, NEW T \in SUBSET Attempts, NEW n \in Nat, S \subseteq T, Cardinality(T) <= n
      PROVE  Cardinality(S) <= n
  BY <1>1, Finite, FS_Subset
<1>2. ASSUME NEW S \in SUBSET Attempts, NEW T \in SUBSET Attempts, NEW a \in Attempts, NEW n \in Nat,
             S \subseteq T \cup {a}, Cardinality(T) < n
      PROVE  Cardinality(S) <= n
  <2>1. Cardinality(T \cup {a}) <= Cardinality(T) + 1
    BY Finite, FS_AddElement
  <2>2. T \cup {a} \in SUBSET Attempts /\ Cardinality(T \cup {a}) \in Nat /\ Cardinality(T) \in Nat
    BY Finite
  <2>3. Cardinality(S) <= Cardinality(T \cup {a})
    BY <1>2, <2>2, Finite, FS_Subset
  <2> QED  BY <1>2, <2>1, <2>2, <2>3, Finite
<1>3. \A k : HoldersOfKey(k) \in SUBSET Attempts /\ HoldersOfKey(k)' \in SUBSET Attempts
  BY DEF HoldersOfKey
<1>4. \A p : HoldersOfJob(p) \in SUBSET Attempts /\ HoldersOfJob(p)' \in SUBSET Attempts
  BY DEF HoldersOfJob
<1>5. CASE \A a \in Attempts : ~Reserve(a)
  <2>1. \A b \in Attempts : Holds(b)' => Holds(b)
    BY <1>5, NewDebt
  <2>2. ASSUME NEW a \in Attempts, Holds(a)'
        PROVE  Cardinality(HoldersOfKey(Key(a))') <= Concurrency[RunOf[a]]
    <3>1. HoldersOfKey(Key(a))' \subseteq HoldersOfKey(Key(a))
      BY <2>1 DEF HoldersOfKey
    <3>2. Cardinality(HoldersOfKey(Key(a))) <= Concurrency[RunOf[a]]
      BY <2>1, <2>2 DEF SlotsOK
    <3> QED  BY <1>1, <1>3, <3>1, <3>2, Limits
  <2>3. ASSUME NEW p \in JobRuns  PROVE Cardinality(HoldersOfJob(p)') <= Concurrency[p]
    <3>1. HoldersOfJob(p)' \subseteq HoldersOfJob(p) /\ Cardinality(HoldersOfJob(p)) <= Concurrency[p]
      BY <2>1 DEF HoldersOfJob, SlotsOK
    <3> QED  BY <1>1, <1>4, <3>1, Limits
  <2> QED  BY <2>2, <2>3 DEF SlotsOK
<1>6. ASSUME NEW a \in Attempts, Reserve(a)  PROVE SlotsOK'
  <2>1. \A b \in Attempts \ {a} : Holds(b)' => Holds(b)
    <3> SUFFICES ASSUME NEW b \in Attempts \ {a}  PROVE Holds(b)' => Holds(b)
      OBVIOUS
    <3>1. attempt'[b] = attempt[b] /\ UNCHANGED <<late, process>>
      BY <1>6 DEF Reserve, AdmissionTypeOK, world
    <3> QED  BY <3>1 DEF Holds, Owes, Counts, Live
  <2>2. \A b \in HoldersOfKey(Key(a)) \cup {a} : Cardinality(HoldersOfKey(Key(a))) < Concurrency[RunOf[b]]
    <3>1. Active(Key(a)) = HoldersOfKey(Key(a))
      BY DEF Active, HoldersOfKey, Holds
    <3> QED  BY <1>6, <3>1 DEF Reserve
  <2>3. ASSUME NEW b \in Attempts, Holds(b)'
        PROVE  Cardinality(HoldersOfKey(Key(b))') <= Concurrency[RunOf[b]]
    <3>1. CASE Key(b) = Key(a)
      <4>1. HoldersOfKey(Key(a))' \subseteq HoldersOfKey(Key(a)) \cup {a} /\ b \in HoldersOfKey(Key(a)) \cup {a}
        BY <2>1, <2>3, <3>1 DEF HoldersOfKey
      <4>2. Cardinality(HoldersOfKey(Key(a))) < Concurrency[RunOf[b]]
        BY <2>2, <4>1
      <4> QED  BY <1>2, <1>3, <3>1, <4>1, <4>2, Limits
    <3>2. CASE Key(b) # Key(a)
      <4>1. HoldersOfKey(Key(b))' \subseteq HoldersOfKey(Key(b)) /\ Holds(b)
        BY <2>1, <2>3, <3>2 DEF HoldersOfKey
      <4>2. Cardinality(HoldersOfKey(Key(b))) <= Concurrency[RunOf[b]]
        BY <4>1 DEF SlotsOK
      <4> QED  BY <1>1, <1>3, <4>1, <4>2, Limits
    <3> QED  BY <3>1, <3>2
  <2>4. ASSUME NEW p \in JobRuns  PROVE Cardinality(HoldersOfJob(p)') <= Concurrency[p]
    <3>1. CASE JobOf(a) = p
      <4>1. HoldersOfJob(p)' \subseteq HoldersOfJob(p) \cup {a}
        BY <2>1 DEF HoldersOfJob
      <4>2. HoldersOfJob(p) = {b \in Siblings(p) : Owes(b) /\ Live(b)}
        BY DEF HoldersOfJob, Siblings, Holds
      <4>3. Cardinality(HoldersOfJob(p)) < Concurrency[p]
        BY <1>6, <3>1, <4>2, RunsAssumption DEF Reserve
      <4> QED  BY <1>2, <1>4, <4>1, <4>3, Limits
    <3>2. CASE JobOf(a) # p
      <4>1. HoldersOfJob(p)' \subseteq HoldersOfJob(p) /\ Cardinality(HoldersOfJob(p)) <= Concurrency[p]
        BY <2>1, <3>2 DEF HoldersOfJob, SlotsOK, JobOf
      <4> QED  BY <1>1, <1>4, <4>1, Limits
    <3> QED  BY <3>1, <3>2
  <2> QED  BY <2>3, <2>4 DEF SlotsOK
<1> QED  BY <1>5, <1>6

-----------------------------------------------------------------------------
(***************************************************************************)
(* The theorems                                                            *)
(***************************************************************************)

\* The inductive invariant holds in every reachable state.
THEOREM Invariance == AdmissionSpec => []IInv
<1>1. IInv /\ [AdmissionNext]_avars => IInv'
  BY TypeStep, RequestsStep, JobsStep, SlotsStep DEF IInv
<1> QED  BY InitInv, <1>1, PTL DEF AdmissionSpec

\* The ledger, the jobs, the request cycle and the wire are of their types.
THEOREM TypeCorrect == AdmissionSpec => []AdmissionTypeOK
<1>1. IInv => AdmissionTypeOK
  BY DEF IInv
<1> QED  BY <1>1, Invariance, PTL

\* What left this machine is never given back to the budget
\* (model-admission.ts:266-275, model-execution.ts:103-107).
THEOREM NothingSentIsReleasedHolds == AdmissionSpec => []NothingSentIsReleased
<1>1. IInv => NothingSentIsReleased
  BY DEF IInv, RequestsOK, WireOK, NothingSentIsReleased
<1> QED  BY <1>1, Invariance, PTL

\* A job that is over has no request in flight (jobs.ts:185-232).
THEOREM EndedJobOwesNothingHolds == AdmissionSpec => []EndedJobOwesNothing
<1>1. IInv => EndedJobOwesNothing
  <2> SUFFICES ASSUME IInv, NEW p \in JobRuns, job[p] = "over", NEW a \in Siblings(p)
               PROVE  wire[a] # "inflight"
    BY DEF EndedJobOwesNothing
  <2>1. a \in Attempts /\ WireOK(a) /\ ~Owes(a)
    BY DEF IInv, JobsOK, RequestsOK, UnknownEffects, Siblings
  <2> QED  BY <2>1 DEF WireOK, Owes, Counts
<1> QED  BY <1>1, Invariance, PTL

\* Requests in flight never exceed the concurrency of their runs or of their
\* job, whatever slots were given up (model-admission.ts:156-165, 190-191).
THEOREM InFlightIsBoundedHolds == AdmissionSpec => []InFlightIsBounded
<1>1. IInv => InFlightIsBounded
  <2> SUFFICES ASSUME IInv  PROVE InFlightIsBounded
    OBVIOUS
  <2>1. \A a \in InFlight(Attempts) : a \in Attempts /\ Holds(a)
    BY DEF IInv, RequestsOK, CallOK, InFlight, Holds, Owes, Counts, Live
  <2>2. ASSUME NEW S \in SUBSET Attempts, NEW T \in SUBSET Attempts, NEW n \in Nat, S \subseteq T, Cardinality(T) <= n
        PROVE  Cardinality(S) <= n
    BY <2>2, Finite, FS_Subset
  <2>3. ASSUME NEW a \in InFlight(Attempts)
        PROVE  Cardinality({b \in InFlight(Attempts) : BillingKey[RunOf[b]] = BillingKey[RunOf[a]]})
                 <= Concurrency[RunOf[a]]
    <3> DEFINE S == {b \in InFlight(Attempts) : BillingKey[RunOf[b]] = BillingKey[RunOf[a]]}
               T == HoldersOfKey(BillingKey[RunOf[a]])
    <3>1. S \subseteq T /\ S \in SUBSET Attempts /\ T \in SUBSET Attempts
      BY <2>1 DEF HoldersOfKey
    <3>2. Cardinality(T) <= Concurrency[RunOf[a]] /\ Concurrency[RunOf[a]] \in Nat
      BY <2>1, Limits DEF IInv, SlotsOK
    <3> QED  BY <2>2, <3>1, <3>2
  <2>4. ASSUME NEW p \in JobRuns  PROVE Cardinality(InFlight(Siblings(p))) <= Concurrency[p]
    <3>1. InFlight(Siblings(p)) \subseteq HoldersOfJob(p) /\ InFlight(Siblings(p)) \in SUBSET Attempts
          /\ HoldersOfJob(p) \in SUBSET Attempts
      BY <2>1 DEF InFlight, Siblings, HoldersOfJob
    <3>2. Cardinality(HoldersOfJob(p)) <= Concurrency[p] /\ Concurrency[p] \in Nat
      BY Limits DEF IInv, SlotsOK
    <3> QED  BY <2>2, <3>1, <3>2
  <2> QED  BY <2>3, <2>4 DEF InFlightIsBounded
<1> QED  BY <1>1, Invariance, PTL

-----------------------------------------------------------------------------
(***************************************************************************)
(* Sums over finite sets.  The fold picks the elements in an order of its  *)
(* own; none of what follows depends on it.                                *)
(***************************************************************************)

\* The definition of the fold as a recursive function: what it picks and adds.
Pick(s) == CHOOSE x \in s : TRUE
Adds(it, w, S) ==
  it = [s \in SUBSET S |-> IF s = {} THEN 0 ELSE w[Pick(s)] + it[s \ {Pick(s)}]]

LEMMA SumUnfold ==
  ASSUME NEW w, NEW S
  PROVE  SumFunctionOnSet(w, S) = (CHOOSE it : Adds(it, w, S))[S]
  BY DEF SumFunctionOnSet, FoldFunctionOnSet, MapThenFoldSet, Adds, Pick

\* Among finite sets there are smallest ones: this carries the inductions.
LEMMA SmallestSet ==
  ASSUME NEW S, IsFiniteSet(S), NEW Q, Q \subseteq SUBSET S, Q # {}
  PROVE  \E m \in Q : \A s \in Q : ~(s \subseteq m /\ s # m)
<1>1. SUBSET S = FiniteSubsetsOf(S)
  BY FS_FiniteSubsetsOfFinite
<1>2. \E m \in Q : \A s \in Q : <<s, m>> \notin StrictSubsetOrdering(S)
  BY <1>1, WFMin, FS_StrictSubsetOrderingWellFounded
<1> QED
  BY <1>2 DEF StrictSubsetOrdering

\* Two such functions agree where both are defined.
LEMMA AddsAgree ==
  ASSUME NEW w, NEW S, IsFiniteSet(S), NEW T \in SUBSET S, NEW g, NEW h, Adds(g, w, S), Adds(h, w, T)
  PROVE  \A s \in SUBSET T : g[s] = h[s]
<1> DEFINE Q == {s \in SUBSET T : g[s] # h[s]}
<1> SUFFICES ASSUME Q # {} PROVE FALSE
  OBVIOUS
<1>1. PICK m \in Q : \A s \in Q : ~(s \subseteq m /\ s # m)
  <2>1. IsFiniteSet(T) /\ Q \subseteq SUBSET T
    BY FS_Subset
  <2> HIDE DEF Q
  <2> QED
    BY <2>1, SmallestSet
<1>2. /\ g[m] = IF m = {} THEN 0 ELSE w[Pick(m)] + g[m \ {Pick(m)}]
      /\ h[m] = IF m = {} THEN 0 ELSE w[Pick(m)] + h[m \ {Pick(m)}]
  BY <1>1 DEF Adds
<1>3. m # {} => Pick(m) \in m
  BY DEF Pick
<1>4. m # {} => m \ {Pick(m)} \notin Q
  BY <1>1, <1>3
<1>5. m # {} => g[m \ {Pick(m)}] = h[m \ {Pick(m)}]
  BY <1>4
<1> QED
  BY <1>1, <1>2, <1>5

LEMMA AddsExists ==
  ASSUME NEW w, NEW S, IsFiniteSet(S)
  PROVE  Adds(CHOOSE it : Adds(it, w, S), w, S)
<1> DEFINE G(s) == CHOOSE it : Adds(it, w, s)
           Q == {s \in SUBSET S : ~Adds(G(s), w, s)}
<1> SUFFICES ASSUME Q # {} PROVE FALSE
  OBVIOUS
<1>1. PICK m \in Q : \A s \in Q : ~(s \subseteq m /\ s # m)
  <2>1. Q \subseteq SUBSET S
    OBVIOUS
  <2> HIDE DEF Q
  <2> QED
    BY <2>1, SmallestSet
<1> DEFINE it == [s \in SUBSET m |-> IF s = {} THEN 0 ELSE w[Pick(s)] + G(s \ {Pick(s)})[s \ {Pick(s)}]]
<1>2. \A s \in SUBSET m : s # m => Adds(G(s), w, s)
  BY <1>1
<1>3. ASSUME NEW s \in SUBSET m, s # m PROVE it[s] = G(s)[s]
  <2>1. Adds(G(s), w, s) /\ IsFiniteSet(s)
    BY <1>2, <1>3, FS_Subset
  <2>2. G(s)[s] = IF s = {} THEN 0 ELSE w[Pick(s)] + G(s)[s \ {Pick(s)}]
    BY <2>1 DEF Adds
  <2>3. ASSUME s # {} PROVE G(s)[s \ {Pick(s)}] = G(s \ {Pick(s)})[s \ {Pick(s)}]
    <3>1. Pick(s) \in s
      BY <2>3 DEF Pick
    <3>2. Adds(G(s \ {Pick(s)}), w, s \ {Pick(s)})
      BY <3>1, <1>2
    <3> HIDE DEF G
    <3> QED
      BY <3>2, <2>1, AddsAgree
  <2> QED
    BY <2>2, <2>3
<1>4. \A s \in SUBSET m : it[s] = IF s = {} THEN 0 ELSE w[Pick(s)] + it[s \ {Pick(s)}]
  <2>0. it[{}] = 0
    OBVIOUS
  <2> SUFFICES ASSUME NEW s \in SUBSET m, s # {} PROVE it[s] = w[Pick(s)] + it[s \ {Pick(s)}]
    <3> HIDE DEF it
    <3> QED
      BY <2>0
  <2>1. Pick(s) \in s
    BY DEF Pick
  <2>2. s \ {Pick(s)} \in SUBSET m /\ s \ {Pick(s)} # m
    BY <2>1
  <2>3. it[s \ {Pick(s)}] = G(s \ {Pick(s)})[s \ {Pick(s)}]
    BY <2>2, <1>3
  <2>4. it[s] = w[Pick(s)] + G(s \ {Pick(s)})[s \ {Pick(s)}]
    OBVIOUS
  <2> QED
    BY <2>3, <2>4
<1>5. Adds(it, w, m)
  <2>1. it = [s \in SUBSET m |-> it[s]]
    OBVIOUS
  <2> HIDE DEF it
  <2> QED
    BY <1>4, <2>1 DEF Adds
<1>6. Adds(G(m), w, m)
  <2> HIDE DEF it
  <2> QED
    BY <1>5
<1> QED
  BY <1>1, <1>6

\* The sum over a set is what is picked of it and the sum over the rest.
LEMMA SumPick ==
  ASSUME NEW w, NEW S, IsFiniteSet(S)
  PROVE  SumFunctionOnSet(w, S) =
           IF S = {} THEN 0 ELSE w[Pick(S)] + SumFunctionOnSet(w, S \ {Pick(S)})
<1> DEFINE G(s) == CHOOSE it : Adds(it, w, s)
<1>1. \A s : IsFiniteSet(s) => Adds(G(s), w, s)
  BY AddsExists
<1>2. SumFunctionOnSet(w, S) = G(S)[S]
  BY SumUnfold
<1>3. SumFunctionOnSet(w, S \ {Pick(S)}) = G(S \ {Pick(S)})[S \ {Pick(S)}]
  BY SumUnfold
<1>4. IsFiniteSet(S \ {Pick(S)})
  BY FS_Subset
<1>5. Adds(G(S), w, S) /\ Adds(G(S \ {Pick(S)}), w, S \ {Pick(S)})
  <2> HIDE DEF G
  <2> QED
    BY <1>1, <1>4
<1> HIDE DEF G
<1>6. G(S)[S \ {Pick(S)}] = G(S \ {Pick(S)})[S \ {Pick(S)}]
  BY <1>5, AddsAgree
<1>7. G(S)[S] = IF S = {} THEN 0 ELSE w[Pick(S)] + G(S)[S \ {Pick(S)}]
  BY <1>5 DEF Adds
<1> QED
  BY <1>2, <1>3, <1>6, <1>7

\* A sum of naturals is a natural.
LEMMA SumNat ==
  ASSUME NEW S, IsFiniteSet(S), NEW w, \A x \in S : w[x] \in Nat
  PROVE  SumFunctionOnSet(w, S) \in Nat
<1> DEFINE Q == {s \in SUBSET S : SumFunctionOnSet(w, s) \notin Nat}
<1> SUFFICES ASSUME Q # {} PROVE FALSE
  OBVIOUS
<1>1. PICK m \in Q : \A s \in Q : ~(s \subseteq m /\ s # m)
  <2>1. Q \subseteq SUBSET S
    OBVIOUS
  <2> HIDE DEF Q
  <2> QED
    BY <2>1, SmallestSet
<1>2. SumFunctionOnSet(w, m) = IF m = {} THEN 0 ELSE w[Pick(m)] + SumFunctionOnSet(w, m \ {Pick(m)})
  BY SumPick, FS_Subset
<1>3. m # {} => Pick(m) \in m
  BY DEF Pick
<1>4. m # {} => SumFunctionOnSet(w, m \ {Pick(m)}) \in Nat
  BY <1>1, <1>3
<1> QED
  BY <1>2, <1>3, <1>4

\* The order of the picks does not matter.
LEMMA SumRemove ==
  ASSUME NEW S, IsFiniteSet(S), NEW w, \A x \in S : w[x] \in Nat, NEW x \in S
  PROVE  SumFunctionOnSet(w, S) = w[x] + SumFunctionOnSet(w, S \ {x})
<1> DEFINE Q == {s \in SUBSET S : \E y \in s :
                   SumFunctionOnSet(w, s) # w[y] + SumFunctionOnSet(w, s \ {y})}
<1> SUFFICES ASSUME Q # {} PROVE FALSE
  OBVIOUS
<1>1. PICK m \in Q : \A s \in Q : ~(s \subseteq m /\ s # m)
  <2>1. Q \subseteq SUBSET S
    OBVIOUS
  <2> HIDE DEF Q
  <2> QED
    BY <2>1, SmallestSet
<1>2. PICK y \in m : SumFunctionOnSet(w, m) # w[y] + SumFunctionOnSet(w, m \ {y})
  OBVIOUS
<1> DEFINE c == Pick(m)
<1>3. c \in m
  BY <1>2 DEF Pick
<1>4. SumFunctionOnSet(w, m) = w[c] + SumFunctionOnSet(w, m \ {c})
  BY <1>2, SumPick, FS_Subset
<1>5. c # y
  BY <1>2, <1>4
<1> HIDE DEF c
<1>6. /\ SumFunctionOnSet(w, m \ {c}) = w[y] + SumFunctionOnSet(w, (m \ {c}) \ {y})
      /\ SumFunctionOnSet(w, m \ {y}) = w[c] + SumFunctionOnSet(w, (m \ {y}) \ {c})
  <2>1. m \ {c} \notin Q /\ m \ {y} \notin Q
    BY <1>1, <1>3
  <2>2. y \in m \ {c} /\ c \in m \ {y} /\ m \ {c} \in SUBSET S /\ m \ {y} \in SUBSET S
    BY <1>3, <1>5
  <2> QED
    BY <2>1, <2>2
<1>7. (m \ {c}) \ {y} = (m \ {y}) \ {c}
  OBVIOUS
<1>8. w[c] \in Nat /\ w[y] \in Nat /\ SumFunctionOnSet(w, (m \ {c}) \ {y}) \in Nat
  BY <1>3, SumNat, FS_Subset
<1>9. SumFunctionOnSet(w, m) = w[c] + (w[y] + SumFunctionOnSet(w, (m \ {c}) \ {y}))
  BY <1>4, <1>6
<1>10. SumFunctionOnSet(w, m \ {y}) = w[c] + SumFunctionOnSet(w, (m \ {c}) \ {y})
  BY <1>6, <1>7
<1>11. \A i, j, k \in Nat : i + (j + k) = j + (i + k)
  OBVIOUS
<1>12. SumFunctionOnSet(w, m) = w[y] + SumFunctionOnSet(w, m \ {y})
  BY <1>8, <1>9, <1>10, <1>11
<1> QED
  BY <1>2, <1>12

\* Smaller summands have a smaller sum.
LEMMA SumLess ==
  ASSUME NEW S, IsFiniteSet(S), NEW v, NEW w,
         \A x \in S : v[x] \in Nat /\ w[x] \in Nat /\ v[x] <= w[x]
  PROVE  SumFunctionOnSet(v, S) <= SumFunctionOnSet(w, S)
<1> DEFINE Q == {s \in SUBSET S : ~(SumFunctionOnSet(v, s) <= SumFunctionOnSet(w, s))}
<1> SUFFICES ASSUME Q # {} PROVE FALSE
  OBVIOUS
<1>1. PICK m \in Q : \A s \in Q : ~(s \subseteq m /\ s # m)
  <2>1. Q \subseteq SUBSET S
    OBVIOUS
  <2> HIDE DEF Q
  <2> QED
    BY <2>1, SmallestSet
<1>2. /\ SumFunctionOnSet(v, m) = IF m = {} THEN 0 ELSE v[Pick(m)] + SumFunctionOnSet(v, m \ {Pick(m)})
      /\ SumFunctionOnSet(w, m) = IF m = {} THEN 0 ELSE w[Pick(m)] + SumFunctionOnSet(w, m \ {Pick(m)})
  BY SumPick, FS_Subset
<1>3. m # {} => Pick(m) \in m
  BY DEF Pick
<1>4. m # {} => SumFunctionOnSet(v, m \ {Pick(m)}) <= SumFunctionOnSet(w, m \ {Pick(m)})
  BY <1>1, <1>3
<1>5. /\ SumFunctionOnSet(v, m \ {Pick(m)}) \in Nat
      /\ SumFunctionOnSet(w, m \ {Pick(m)}) \in Nat
  BY SumNat, FS_Subset
<1> QED
  BY <1>1, <1>2, <1>3, <1>4, <1>5

\* One summand that was nothing becomes r, and the others do not grow.
LEMMA SumGrows ==
  ASSUME NEW S, IsFiniteSet(S), NEW a \in S, NEW r \in Nat, NEW v, NEW w,
         \A x \in S : v[x] \in Nat /\ w[x] \in Nat,
         v[a] = 0, w[a] <= r, \A x \in S \ {a} : w[x] <= v[x]
  PROVE  SumFunctionOnSet(w, S) <= SumFunctionOnSet(v, S) + r
<1>1. IsFiniteSet(S \ {a})
  BY FS_Subset
<1>2. /\ SumFunctionOnSet(v, S) = v[a] + SumFunctionOnSet(v, S \ {a})
      /\ SumFunctionOnSet(w, S) = w[a] + SumFunctionOnSet(w, S \ {a})
  BY SumRemove
<1>3. SumFunctionOnSet(w, S \ {a}) <= SumFunctionOnSet(v, S \ {a})
  BY <1>1, SumLess
<1>4. SumFunctionOnSet(w, S \ {a}) \in Nat /\ SumFunctionOnSet(v, S \ {a}) \in Nat
  BY <1>1, SumNat
<1> QED
  BY <1>2, <1>3, <1>4

-----------------------------------------------------------------------------
(***************************************************************************)
(* The budgets.  What the ledger counts may exceed a limit, when a         *)
(* provider used more than was asked for; what it counts up to the         *)
(* allocations may not, and this covers what can still be consumed.        *)
(***************************************************************************)
KnownOK(a) ==
  /\ attempt[a].state = "settled" => attempt[a].acknowledged
  /\ attempt[a].usage # Unknown /\ a \notin partial =>
       attempt[a].state = "settled" /\ attempt[a].usage = spent[a]

AllKnownOK == \A a \in Attempts : KnownOK(a)

Capped(a) == IF Used(a) <= Resources[a] THEN Used(a) ELSE Resources[a]
CappedTotal(S) == SumFunctionOnSet([a \in Attempts |-> Capped(a)], S)
Within(S, limit) == S \cap partial = {} => CappedTotal(S) <= limit

SpendOK ==
  /\ \A r \in ModelRuns : Within(OfRun(r), Tokens[r])
  /\ \A p \in JobRuns : Within(Siblings(p), Tokens[p])
  /\ \A r \in ApiRuns : Within(OfKey(BillingKey[r]), KeyAmount[BillingKey[r]])

SpendInv == IInv /\ AllKnownOK /\ SpendOK

\* What a settlement leaves in the ledger.
LEMMA SettlementUsage ==
  ASSUME AdmissionTypeOK, NEW a \in Attempts, NEW u, NEW acknowledged \in BOOLEAN,
         Settlement(a, u, acknowledged)
  PROVE  /\ attempt'[a].usage = IF u = Unknown THEN attempt[a].usage ELSE u
         /\ attempt'[a].acknowledged <=> attempt[a].acknowledged \/ acknowledged
         /\ attempt'[a].state = IF attempt'[a].usage # Unknown /\ attempt'[a].acknowledged
                                THEN "settled" ELSE "uncertain"
         /\ partial' = IF u # Unknown /\ ~attempt'[a].acknowledged THEN partial \cup {a} ELSE partial
<1> DEFINE usage == IF u = Unknown THEN attempt[a].usage ELSE u
           acked == attempt[a].acknowledged \/ acknowledged
           variance == attempt[a].variance \/ (usage # Unknown /\ usage > Resources[a])
           s == IF usage # Unknown /\ acked THEN "settled" ELSE "uncertain"
           new == [attempt[a] EXCEPT !.usage = usage, !.acknowledged = acked,
                                     !.variance = variance, !.state = s]
<1>1. attempt' = [attempt EXCEPT ![a] = new]
      /\ partial' = IF u # Unknown /\ ~acked THEN partial \cup {a} ELSE partial
  BY DEF Settlement
<1>2. attempt[a] \in AttemptRecord
  BY DEF AdmissionTypeOK
<1>3. (acked <=> attempt[a].acknowledged \/ acknowledged)
      /\ (s = IF usage # Unknown /\ acked THEN "settled" ELSE "uncertain")
  OBVIOUS
<1>4. usage = IF u = Unknown THEN attempt[a].usage ELSE u
  OBVIOUS
<1> HIDE DEF usage, acked, variance, s
<1>5. new.state = s /\ new.acknowledged = acked /\ new.usage = usage
  BY <1>2 DEF AttemptRecord
<1>6. attempt'[a] = new
  BY <1>1 DEF AdmissionTypeOK
<1>7. attempt'[a].usage = usage /\ attempt'[a].acknowledged = acked /\ attempt'[a].state = s
  BY <1>5, <1>6
<1>8. attempt'[a].usage = IF u = Unknown THEN attempt[a].usage ELSE u
  BY <1>4, <1>7
<1>9. attempt'[a].acknowledged <=> attempt[a].acknowledged \/ acknowledged
  BY <1>3, <1>7
<1>10. attempt'[a].state = IF attempt'[a].usage # Unknown /\ attempt'[a].acknowledged
                           THEN "settled" ELSE "uncertain"
  BY <1>3, <1>7
<1>11. partial' = IF u # Unknown /\ ~attempt'[a].acknowledged THEN partial \cup {a} ELSE partial
  BY <1>1, <1>7
<1> QED  BY <1>8, <1>9, <1>10, <1>11

\* Who settles, and with what: an end is reported with what was consumed, anything
\* else only as long as no end is known.
LEMMA Settlements ==
  ASSUME AdmissionTypeOK, RequestsOK, NEW a \in Attempts, Settle(a) \/ HostReport(a)
  PROVE  \/ UNCHANGED <<attempt, partial>>
         \/ \E u \in Nat \cup {Unknown}, k \in BOOLEAN :
              /\ Settlement(a, u, k)
              /\ k => u \in {spent[a], Unknown}
              /\ ~k /\ u # Unknown => ~attempt[a].acknowledged
<1>1. spent[a] \in Nat /\ Usages \subseteq Nat /\ CallOK(a)
  BY AmountsAssumption DEF AdmissionTypeOK, RequestsOK
<1>2. CASE Settle(a)
  <2>1. CASE Settlement(a, Unknown, FALSE)
    BY <2>1
  <2>2. ASSUME NEW u \in {spent[a], Unknown}, Settlement(a, u, TRUE)
        PROVE  \E w \in Nat \cup {Unknown}, k \in BOOLEAN :
                 /\ Settlement(a, w, k)
                 /\ k => w \in {spent[a], Unknown}
                 /\ ~k /\ w # Unknown => ~attempt[a].acknowledged
    BY <1>1, <2>2
  <2>3. ASSUME call[a] = "sent", NEW u \in Usages \cup {Unknown}, Settlement(a, u, FALSE)
        PROVE  \E w \in Nat \cup {Unknown}, k \in BOOLEAN :
                 /\ Settlement(a, w, k)
                 /\ k => w \in {spent[a], Unknown}
                 /\ ~k /\ w # Unknown => ~attempt[a].acknowledged
    BY <1>1, <2>3 DEF CallOK
  <2> QED  BY <1>2, <2>1, <2>2, <2>3 DEF Settle
<1>3. CASE HostReport(a)
  BY <1>1, <1>3 DEF HostReport
<1> QED  BY <1>2, <1>3

\* A settlement keeps what is known, and lowers what is counted of a request that is
\* not excepted.
LEMMA SettledOnce ==
  ASSUME AdmissionTypeOK, RequestsOK, AllKnownOK, NEW a \in Attempts, Settle(a) \/ HostReport(a)
  PROVE  /\ AllKnownOK'
         /\ partial \subseteq partial'
         /\ \A b \in Attempts \ partial' : Capped(b)' <= Capped(b)
<1>1. spent' = spent /\ spent[a] \in Nat /\ KnownOK(a) /\ CallOK(a) /\ Resources[a] \in Nat
      /\ \A b \in Attempts : Resources[b] \in Nat /\ attempt[b].usage \in Nat \cup {Unknown}
      /\ attempt \in [Attempts -> AttemptRecord]
  BY AmountsAssumption DEF Settle, HostReport, AdmissionTypeOK, AllKnownOK, RequestsOK, transport, AttemptRecord
<1>2. CASE UNCHANGED <<attempt, partial>>
  BY <1>1, <1>2, AmountsAssumption DEF AllKnownOK, KnownOK, Capped, Used, Counts
<1>3. ASSUME NEW u \in Nat \cup {Unknown}, NEW k \in BOOLEAN, Settlement(a, u, k),
             k => u \in {spent[a], Unknown}, ~k /\ u # Unknown => ~attempt[a].acknowledged
      PROVE  /\ AllKnownOK'
             /\ partial \subseteq partial'
             /\ \A b \in Attempts \ partial' : Capped(b)' <= Capped(b)
  <2>1. /\ attempt[a].state \in {"dispatched", "uncertain"}
        /\ \A b \in Attempts \ {a} : attempt'[b] = attempt[b]
        /\ attempt'[a].usage = IF u = Unknown THEN attempt[a].usage ELSE u
        /\ attempt'[a].acknowledged <=> attempt[a].acknowledged \/ k
        /\ attempt'[a].state = IF attempt'[a].usage # Unknown /\ attempt'[a].acknowledged
                               THEN "settled" ELSE "uncertain"
        /\ partial' = IF u # Unknown /\ ~attempt'[a].acknowledged THEN partial \cup {a} ELSE partial
    BY <1>3, SettlementStep, SettlementUsage
  <2>2. attempt[a].usage # Unknown => a \in partial
    BY <1>1, <2>1 DEF KnownOK
  <2>3. KnownOK(a)'
    BY <1>1, <1>3, <2>1, <2>2 DEF KnownOK
  <2>4. AllKnownOK'
    <3> SUFFICES ASSUME NEW b \in Attempts \ {a} PROVE KnownOK(b)'
      BY <2>3 DEF AllKnownOK
    <3>1. KnownOK(b)
      BY DEF AllKnownOK
    <3> QED  BY <1>1, <2>1, <3>1 DEF KnownOK
  <2>5. ASSUME NEW b \in Attempts \ partial' PROVE Capped(b)' <= Capped(b)
    <3>1. CASE b = a
      <4>1. attempt[a].usage = Unknown
        BY <2>1, <2>2, <2>5, <3>1
      <4>2. Capped(a) = Resources[a]
        BY <1>1, <2>1, <4>1 DEF Capped, Used, Counts
      <4>3. attempt'[a].usage \in Nat \cup {Unknown}
        BY <2>1, <4>1
      <4> QED  BY <1>1, <3>1, <4>2, <4>3 DEF Capped, Used, Counts
    <3>2. CASE b # a
      BY <1>1, <2>1, <3>2 DEF Capped, Used, Counts
    <3> QED  BY <3>1, <3>2
  <2> QED  BY <2>1, <2>4, <2>5
<1> QED  BY <1>2, <1>3, Settlements

\* A step that changes the state of one request and not its usage.
LEMMA OneKnown ==
  ASSUME AdmissionTypeOK, AllKnownOK, UNCHANGED <<spent, partial>>, NEW a \in Attempts,
         \A b \in Attempts \ {a} : attempt'[b] = attempt[b],
         attempt'[a].usage = attempt[a].usage,
         attempt[a].state # "settled", attempt'[a].state # "settled"
  PROVE  AllKnownOK' /\ \A b \in Attempts \ {a} : Capped(b)' = Capped(b)
<1>1. ASSUME NEW b \in Attempts \ {a} PROVE KnownOK(b)' /\ Capped(b)' = Capped(b)
  <2>1. KnownOK(b) /\ attempt'[b] = attempt[b]
    BY DEF AllKnownOK
  <2> QED  BY <2>1 DEF KnownOK, Capped, Used, Counts
<1>2. KnownOK(a)'
  BY DEF AllKnownOK, KnownOK
<1> QED  BY <1>1, <1>2 DEF AllKnownOK

\* Only a reservation lets the amount grow that is counted of a request.
LEMMA NoGrowth ==
  ASSUME AdmissionTypeOK, RequestsOK, AllKnownOK, [AdmissionNext]_avars,
         \A a \in Attempts : ~Reserve(a)
  PROVE  /\ AllKnownOK'
         /\ partial \subseteq partial'
         /\ \A b \in Attempts \ partial' : Capped(b)' <= Capped(b)
<1> USE DEF ledger, jobs, world, transport
<1>1. \A b \in Attempts : Capped(b) \in Nat
  BY AmountsAssumption DEF AdmissionTypeOK, AttemptRecord, Capped, Used, Counts
<1>2. CASE UNCHANGED <<attempt, spent, partial>>
  <2>1. \A b \in Attempts : Capped(b)' = Capped(b)
    BY <1>2 DEF Capped, Used, Counts
  <2> QED  BY <1>1, <1>2, <2>1 DEF AllKnownOK, KnownOK
<1>3. ASSUME NEW a \in Attempts, UNCHANGED <<spent, partial>>,
             \A b \in Attempts \ {a} : attempt'[b] = attempt[b],
             attempt'[a].usage = attempt[a].usage,
             attempt[a].state # "settled", attempt'[a].state # "settled",
             Capped(a)' <= Capped(a)
      PROVE  /\ AllKnownOK'
             /\ partial \subseteq partial'
             /\ \A b \in Attempts \ partial' : Capped(b)' <= Capped(b)
  <2>1. AllKnownOK' /\ \A b \in Attempts \ {a} : Capped(b)' = Capped(b)
    BY <1>3, OneKnown
  <2> QED  BY <1>1, <1>3, <2>1
<1>4. ASSUME NEW a \in Attempts, RequestCycle(a) \/ ProviderAnswers(a) \/ HostReport(a)
      PROVE  /\ AllKnownOK'
             /\ partial \subseteq partial'
             /\ \A b \in Attempts \ partial' : Capped(b)' <= Capped(b)
  <2>1. CallOK(a) /\ WireOK(a) /\ KnownOK(a) /\ attempt[a] \in AttemptRecord /\ Resources[a] \in Nat
    BY AmountsAssumption DEF RequestsOK, AllKnownOK, AdmissionTypeOK
  <2>2. CASE Dispatch(a)
    <3>1. CASE UNCHANGED attempt
      BY <1>2, <2>2, <3>1 DEF Dispatch
    <3>2. CASE attempt' = [attempt EXCEPT ![a].state = "dispatched"]
      <4>1. attempt[a].state = "reserved" /\ UNCHANGED <<spent, partial>>
        BY <2>1, <2>2 DEF Dispatch, CallOK
      <4>2. /\ \A b \in Attempts \ {a} : attempt'[b] = attempt[b]
            /\ attempt'[a].usage = attempt[a].usage /\ attempt'[a].state = "dispatched"
        BY <2>1, <3>2 DEF AdmissionTypeOK, AttemptRecord
      <4>3. Capped(a)' = Capped(a)
        BY <4>1, <4>2 DEF Capped, Used, Counts
      <4> QED  BY <1>1, <1>3, <4>1, <4>2, <4>3
    <3> QED  BY <2>2, <3>1, <3>2 DEF Dispatch
  <2>3. CASE Release(a)
    <3>1. CASE UNCHANGED attempt
      BY <1>2, <2>3, <3>1 DEF Release
    <3>2. CASE Releasable(a) /\ attempt' = [attempt EXCEPT ![a].state = "released", ![a].acknowledged = TRUE]
      <4>1. attempt[a].state = "reserved" /\ UNCHANGED <<spent, partial>>
        BY <2>3, <3>2 DEF Release, Releasable
      <4>2. /\ \A b \in Attempts \ {a} : attempt'[b] = attempt[b]
            /\ attempt'[a].usage = attempt[a].usage /\ attempt'[a].state = "released"
        BY <2>1, <3>2 DEF AdmissionTypeOK, AttemptRecord
      <4>3. Capped(a)' = 0
        BY <2>1, <4>2 DEF Capped, Used, Counts
      <4> QED  BY <1>1, <1>3, <4>1, <4>2, <4>3
    <3> QED  BY <2>3, <3>1, <3>2 DEF Release
  <2>4. CASE Send(a) \/ CallFails(a)
    BY <1>2, <2>4 DEF Send, CallFails
  <2>5. CASE ProviderAnswers(a)
    <3>1. UNCHANGED <<attempt, partial>> /\ ~attempt[a].acknowledged
          /\ \A b \in Attempts \ {a} : spent'[b] = spent[b]
      BY <2>1, <2>5 DEF ProviderAnswers, WireOK, AdmissionTypeOK
    <3>2. ASSUME NEW b \in Attempts PROVE KnownOK(b)' /\ Capped(b)' = Capped(b)
      <4>1. KnownOK(b)
        BY DEF AllKnownOK
      <4>2. Capped(b)' = Capped(b)
        BY <3>1 DEF Capped, Used, Counts
      <4> QED  BY <2>1, <3>1, <4>1, <4>2 DEF KnownOK
    <3> QED  BY <1>1, <3>1, <3>2 DEF AllKnownOK
  <2>6. CASE Settle(a) \/ HostReport(a)
    BY <2>6, SettledOnce
  <2> QED  BY <1>4, <2>2, <2>3, <2>4, <2>5, <2>6 DEF RequestCycle
<1>5. CASE UNCHANGED avars
  BY <1>2, <1>5 DEF avars
<1>6. ASSUME NEW r \in ModelRuns, ResumeBillingKey(BillingKey[r]) \/ DeadlinePasses(r)
      PROVE  UNCHANGED <<attempt, spent, partial>>
  BY <1>6 DEF ResumeBillingKey, DeadlinePasses
<1>7. ASSUME NEW p \in JobRuns,
             RegisterParentRun(p) \/ CancelRun(p) \/ CancelJob(p) \/ Finish(p) \/ ReconcileSettled(p)
      PROVE  UNCHANGED <<attempt, spent, partial>>
  BY <1>7 DEF RegisterParentRun, CancelRun, CancelJob, Finish, ReconcileSettled
<1>8. CASE CrashAndRecover
  BY <1>2, <1>8 DEF CrashAndRecover
<1> QED  BY <1>2, <1>4, <1>5, <1>6, <1>7, <1>8 DEF AdmissionNext

\* A reservation adds what it asks for, and changes nothing else that is counted.
LEMMA Reserved ==
  ASSUME AdmissionTypeOK, AllKnownOK, NEW a \in Attempts, Reserve(a)
  PROVE  /\ AllKnownOK' /\ partial' = partial
         /\ Capped(a) = 0 /\ Capped(a)' <= Resources[a]
         /\ \A b \in Attempts \ {a} : Capped(b)' = Capped(b)
<1>1. attempt[a] \in AttemptRecord /\ Resources[a] \in Nat
  BY AmountsAssumption DEF AdmissionTypeOK
<1>2. attempt[a].state = "absent" /\ UNCHANGED <<spent, partial>>
  BY DEF Reserve, transport
<1>3. /\ \A b \in Attempts \ {a} : attempt'[b] = attempt[b]
      /\ attempt'[a].usage = attempt[a].usage /\ attempt'[a].state = "reserved"
  BY <1>1 DEF Reserve, AdmissionTypeOK, AttemptRecord
<1>4. AllKnownOK' /\ \A b \in Attempts \ {a} : Capped(b)' = Capped(b)
  BY <1>2, <1>3, OneKnown
<1>5. Capped(a) = 0
  BY <1>1, <1>2 DEF Capped, Used, Counts
<1>6. Capped(a)' <= Resources[a]
  BY <1>1, <1>3 DEF Capped, Used, Counts, AttemptRecord
<1> QED  BY <1>2, <1>4, <1>5, <1>6

\* What is counted up to the allocations is at most what the ledger counts.
LEMMA CappedIsCounted ==
  ASSUME AdmissionTypeOK, NEW S \in SUBSET Attempts
  PROVE  CappedTotal(S) \in Nat /\ Total(S) \in Nat /\ CappedTotal(S) <= Total(S)
<1> DEFINE v == [b \in Attempts |-> Capped(b)]
           w == [b \in Attempts |-> Used(b)]
<1>1. IsFiniteSet(S)
  BY Finite
<1>2. \A b \in Attempts : Capped(b) \in Nat /\ Used(b) \in Nat /\ Capped(b) <= Used(b)
  BY AmountsAssumption DEF AdmissionTypeOK, AttemptRecord, Capped, Used, Counts
<1>3. \A b \in S : v[b] \in Nat /\ w[b] \in Nat /\ v[b] <= w[b]
  BY <1>2
<1>4. CappedTotal(S) = SumFunctionOnSet(v, S) /\ Total(S) = SumFunctionOnSet(w, S)
  BY DEF CappedTotal, Total
<1> HIDE DEF v, w
<1> QED  BY <1>1, <1>3, <1>4, SumNat, SumLess

\* Amounts that do not grow have a sum that does not grow.
LEMMA CappedShrinks ==
  ASSUME AdmissionTypeOK, AdmissionTypeOK', NEW S \in SUBSET Attempts,
         \A b \in S : Capped(b)' <= Capped(b)
  PROVE  CappedTotal(S)' <= CappedTotal(S)
<1> DEFINE v == [b \in Attempts |-> Capped(b)']
           w == [b \in Attempts |-> Capped(b)]
<1>1. IsFiniteSet(S)
  BY Finite
<1>2. \A b \in Attempts : Capped(b) \in Nat /\ Capped(b)' \in Nat
  BY AmountsAssumption DEF AdmissionTypeOK, AttemptRecord, Capped, Used, Counts
<1>3. \A b \in S : v[b] \in Nat /\ w[b] \in Nat /\ v[b] <= w[b]
  BY <1>2
<1>4. CappedTotal(S)' = SumFunctionOnSet(v, S) /\ CappedTotal(S) = SumFunctionOnSet(w, S)
  BY DEF CappedTotal
<1> HIDE DEF v, w
<1> QED  BY <1>1, <1>3, <1>4, SumLess

\* A reservation adds at most what it asks for.
LEMMA CappedGrows ==
  ASSUME AdmissionTypeOK, AdmissionTypeOK', NEW S \in SUBSET Attempts, NEW a \in S,
         Capped(a) = 0, Capped(a)' <= Resources[a],
         \A b \in S \ {a} : Capped(b)' = Capped(b)
  PROVE  CappedTotal(S)' <= Total(S) + Resources[a]
<1> DEFINE v == [b \in Attempts |-> Capped(b)]
           w == [b \in Attempts |-> Capped(b)']
<1>1. IsFiniteSet(S) /\ Resources[a] \in Nat
  BY Finite, AmountsAssumption
<1>2. \A b \in Attempts : Capped(b) \in Nat /\ Capped(b)' \in Nat
  BY AmountsAssumption DEF AdmissionTypeOK, AttemptRecord, Capped, Used, Counts
<1>3. /\ \A b \in S : v[b] \in Nat /\ w[b] \in Nat
      /\ v[a] = 0 /\ w[a] <= Resources[a] /\ \A b \in S \ {a} : w[b] <= v[b]
  BY <1>2
<1>4. CappedTotal(S)' = SumFunctionOnSet(w, S) /\ CappedTotal(S) = SumFunctionOnSet(v, S)
  BY DEF CappedTotal
<1>5. SumFunctionOnSet(w, S) \in Nat
  BY <1>1, <1>3, SumNat
<1> HIDE DEF v, w
<1>6. SumFunctionOnSet(w, S) <= SumFunctionOnSet(v, S) + Resources[a]
  BY <1>1, <1>3, SumGrows
<1>7. CappedTotal(S) \in Nat /\ Total(S) \in Nat /\ CappedTotal(S) <= Total(S)
  BY CappedIsCounted
<1> QED  BY <1>1, <1>4, <1>5, <1>6, <1>7

\* The three kinds of budgets.
LEMMA Budgets ==
  /\ \A r \in ModelRuns : OfRun(r) \in SUBSET Attempts /\ Tokens[r] \in Nat
  /\ \A p \in JobRuns : Siblings(p) \in SUBSET Attempts /\ Tokens[p] \in Nat
  /\ \A r \in ApiRuns : OfKey(BillingKey[r]) \in SUBSET Attempts /\ KeyAmount[BillingKey[r]] \in Nat
  BY RunsAssumption, AmountsAssumption DEF OfRun, Siblings, OfKey

LEMMA SpendStep ==
  ASSUME AdmissionTypeOK, AdmissionTypeOK', RequestsOK, AllKnownOK, SpendOK, [AdmissionNext]_avars
  PROVE  AllKnownOK' /\ SpendOK'
<1>1. CASE \A a \in Attempts : ~Reserve(a)
  <2>1. /\ AllKnownOK' /\ partial \subseteq partial'
        /\ \A b \in Attempts \ partial' : Capped(b)' <= Capped(b)
    BY <1>1, NoGrowth
  <2>2. ASSUME NEW S \in SUBSET Attempts, NEW limit \in Nat, Within(S, limit), S \cap partial' = {}
        PROVE  CappedTotal(S)' <= limit
    <3>1. CappedTotal(S)' <= CappedTotal(S)
      BY <2>1, <2>2, CappedShrinks
    <3>2. CappedTotal(S) <= limit
      BY <2>1, <2>2 DEF Within
    <3>3. CappedTotal(S) \in Nat /\ CappedTotal(S)' \in Nat
      <4>1. \A b \in Attempts : Capped(b) \in Nat /\ Capped(b)' \in Nat
        BY AmountsAssumption DEF AdmissionTypeOK, AttemptRecord, Capped, Used, Counts
      <4>2. IsFiniteSet(S)
        BY Finite
      <4> QED  BY <4>1, <4>2, SumNat DEF CappedTotal
    <3> QED  BY <3>1, <3>2, <3>3
  <2>3. SpendOK'
    BY <2>2, Budgets DEF SpendOK, Within, OfRun, Siblings, OfKey
  <2> QED  BY <2>1, <2>3
<1>2. ASSUME NEW a \in Attempts, Reserve(a) PROVE AllKnownOK' /\ SpendOK'
  <2>1. /\ AllKnownOK' /\ partial' = partial
        /\ Capped(a) = 0 /\ Capped(a)' <= Resources[a]
        /\ \A b \in Attempts \ {a} : Capped(b)' = Capped(b)
    BY <1>2, Reserved
  <2>2. ASSUME NEW S \in SUBSET Attempts, NEW limit \in Nat, Within(S, limit), S \cap partial' = {},
               a \in S => Total(S) + Resources[a] <= limit
        PROVE  CappedTotal(S)' <= limit
    <3>1. CASE a \in S
      <4>1. CappedTotal(S)' <= Total(S) + Resources[a]
        BY <2>1, <3>1, CappedGrows
      <4>2. CappedTotal(S)' \in Nat /\ Total(S) \in Nat /\ Resources[a] \in Nat
        <5>1. \A b \in Attempts : Capped(b)' \in Nat
          BY AmountsAssumption DEF AdmissionTypeOK, AttemptRecord, Capped, Used, Counts
        <5>2. IsFiniteSet(S)
          BY Finite
        <5> QED  BY <5>1, <5>2, SumNat, CappedIsCounted, AmountsAssumption DEF CappedTotal
      <4> QED  BY <2>2, <3>1, <4>1, <4>2
    <3>2. CASE a \notin S
      <4>1. CappedTotal(S)' = CappedTotal(S)
        <5>1. \A b \in Attempts : Capped(b) \in Nat /\ Capped(b)' \in Nat
          BY AmountsAssumption DEF AdmissionTypeOK, AttemptRecord, Capped, Used, Counts
        <5> DEFINE v == [b \in Attempts |-> Capped(b)]
                   w == [b \in Attempts |-> Capped(b)']
        <5>2. \A b \in S : v[b] \in Nat /\ w[b] \in Nat /\ v[b] <= w[b] /\ w[b] <= v[b]
          BY <2>1, <3>2, <5>1
        <5>3. CappedTotal(S) = SumFunctionOnSet(v, S) /\ CappedTotal(S)' = SumFunctionOnSet(w, S) /\ IsFiniteSet(S)
          BY Finite DEF CappedTotal
        <5> HIDE DEF v, w
        <5>4. /\ SumFunctionOnSet(v, S) \in Nat /\ SumFunctionOnSet(w, S) \in Nat
              /\ SumFunctionOnSet(v, S) <= SumFunctionOnSet(w, S)
              /\ SumFunctionOnSet(w, S) <= SumFunctionOnSet(v, S)
          BY <5>2, <5>3, SumNat, SumLess
        <5> QED  BY <5>3, <5>4
      <4> QED  BY <2>1, <2>2, <4>1 DEF Within
    <3> QED  BY <3>1, <3>2
  <2>3. ASSUME NEW r \in ModelRuns, a \in OfRun(r)
        PROVE  Total(OfRun(r)) + Resources[a] <= Tokens[r]
    BY <1>2, <2>3 DEF Reserve, Fits, OfRun
  <2>4. ASSUME NEW p \in JobRuns, a \in Siblings(p)
        PROVE  Total(Siblings(p)) + Resources[a] <= Tokens[p]
    <3>1. JobOf(a) = p /\ p # NoRun
      BY <2>4, RunsAssumption DEF Siblings, JobOf
    <3> QED  BY <1>2, <3>1 DEF Reserve, Fits
  <2>5. ASSUME NEW r \in ApiRuns, a \in OfKey(BillingKey[r])
        PROVE  Total(OfKey(BillingKey[r])) + Resources[a] <= KeyAmount[BillingKey[r]]
    <3>1. RunOf[a] \in ApiRuns /\ BillingKey[RunOf[a]] = BillingKey[r]
      BY <2>5 DEF OfKey
    <3> QED  BY <1>2, <3>1 DEF Reserve
  <2>6. SpendOK'
    BY <2>2, <2>3, <2>4, <2>5, Budgets DEF SpendOK, Within, OfRun, Siblings, OfKey
  <2> QED  BY <2>1, <2>6
<1> QED  BY <1>1, <1>2

LEMMA InitSpend == AdmissionInit => SpendInv
<1> SUFFICES ASSUME AdmissionInit PROVE SpendInv
  OBVIOUS
<1>1. IInv
  BY InitInv
<1>2. AllKnownOK
  BY DEF AdmissionInit, AllKnownOK, KnownOK
<1>3. \A b \in Attempts : Capped(b) = 0
  BY AmountsAssumption DEF AdmissionInit, Capped, Used, Counts
<1>4. ASSUME NEW S \in SUBSET Attempts PROVE CappedTotal(S) = 0
  <2> DEFINE v == [b \in Attempts |-> Capped(b)]
  <2> DEFINE Q == {s \in SUBSET S : SumFunctionOnSet(v, s) # 0}
  <2>1. IsFiniteSet(S) /\ \A b \in S : v[b] = 0
    BY <1>3, Finite
  <2>2. CappedTotal(S) = SumFunctionOnSet(v, S)
    BY DEF CappedTotal
  <2> HIDE DEF v
  <2> SUFFICES ASSUME Q # {} PROVE FALSE
    BY <2>2
  <2>3. PICK m \in Q : \A s \in Q : ~(s \subseteq m /\ s # m)
    <3>1. Q \subseteq SUBSET S
      OBVIOUS
    <3> HIDE DEF Q
    <3> QED  BY <2>1, <3>1, SmallestSet
  <2>4. SumFunctionOnSet(v, m) = IF m = {} THEN 0 ELSE v[Pick(m)] + SumFunctionOnSet(v, m \ {Pick(m)})
    BY <2>1, SumPick, FS_Subset
  <2>5. m # {} => Pick(m) \in m
    BY DEF Pick
  <2>6. m # {} => SumFunctionOnSet(v, m \ {Pick(m)}) = 0
    BY <2>3, <2>5
  <2> QED  BY <2>1, <2>3, <2>4, <2>5, <2>6
<1>5. SpendOK
  BY <1>4, Budgets DEF SpendOK, Within
<1> QED  BY <1>1, <1>2, <1>5 DEF SpendInv

\* The invariant of the budgets holds in every reachable state.
THEOREM SpendInvariance == AdmissionSpec => []SpendInv
<1>1. SpendInv /\ [AdmissionNext]_avars => SpendInv'
  <2> SUFFICES ASSUME SpendInv, [AdmissionNext]_avars PROVE SpendInv'
    OBVIOUS
  <2>1. IInv'
    BY TypeStep, RequestsStep, JobsStep, SlotsStep DEF SpendInv, IInv
  <2>2. AllKnownOK' /\ SpendOK'
    BY <2>1, SpendStep DEF SpendInv, IInv
  <2> QED  BY <2>1, <2>2 DEF SpendInv
<1> QED  BY InitSpend, <1>1, PTL DEF AdmissionSpec

\* No run, no job and no billing key is exposed beyond its budget, through
\* lost replies, crashes, late answers and released reservations
\* (model-admission.ts:61-65, 150-202).
THEOREM SpendIsCoveredHolds == AdmissionSpec => []SpendIsCovered
<1>1. SpendInv => SpendIsCovered
  <2> SUFFICES ASSUME SpendInv PROVE SpendIsCovered
    OBVIOUS
  <2> USE DEF SpendInv, IInv
  <2>1. ASSUME NEW b \in Attempts \ partial
        PROVE  Liability(b) \in Nat /\ Capped(b) \in Nat /\ Liability(b) <= Capped(b)
    <3>1. /\ KnownOK(b) /\ WireOK(b) /\ attempt[b] \in AttemptRecord
          /\ Resources[b] \in Nat /\ spent[b] \in Nat /\ wire[b] \in {"none", "inflight", "answered"}
      BY AmountsAssumption DEF RequestsOK, AllKnownOK, AdmissionTypeOK
    <3>2. Used(b) \in Nat /\ (wire[b] # "none" => Counts(b))
      BY <3>1 DEF AttemptRecord, Used, Counts, WireOK
    <3>3. CASE wire[b] = "none"
      BY <3>1, <3>2, <3>3 DEF Liability, Capped
    <3>4. CASE wire[b] # "none" /\ attempt[b].usage = Unknown
      <4>1. Capped(b) = Resources[b]
        BY <3>1, <3>2, <3>4 DEF Capped, Used
      <4> QED  BY <3>1, <4>1, <3>4 DEF Liability
    <3>5. CASE wire[b] # "none" /\ attempt[b].usage # Unknown
      <4>1. wire[b] = "answered" /\ Used(b) = spent[b]
        BY <3>1, <3>2, <3>5 DEF KnownOK, WireOK, Used
      <4> QED  BY <3>1, <4>1 DEF Liability, Capped
    <3> QED  BY <3>3, <3>4, <3>5
  <2>2. ASSUME NEW S \in SUBSET Attempts, NEW limit \in Nat, Within(S, limit), S \cap partial = {}
        PROVE  Exposure(S) <= limit
    <3> DEFINE v == [b \in Attempts |-> Liability(b)]
               w == [b \in Attempts |-> Capped(b)]
    <3>1. \A b \in S : v[b] \in Nat /\ w[b] \in Nat /\ v[b] <= w[b]
      BY <2>1, <2>2
    <3>2. IsFiniteSet(S) /\ Exposure(S) = SumFunctionOnSet(v, S) /\ CappedTotal(S) = SumFunctionOnSet(w, S)
      BY Finite DEF Exposure, CappedTotal
    <3>3. CappedTotal(S) <= limit
      BY <2>2 DEF Within
    <3> HIDE DEF v, w
    <3>4. /\ SumFunctionOnSet(v, S) \in Nat /\ SumFunctionOnSet(w, S) \in Nat
          /\ SumFunctionOnSet(v, S) <= SumFunctionOnSet(w, S)
      BY <3>1, <3>2, SumNat, SumLess
    <3> QED  BY <3>2, <3>3, <3>4
  <2> QED  BY <2>2, Budgets DEF SpendIsCovered, SpendOK
<1> QED  BY <1>1, SpendInvariance, PTL
=============================================================================
