-------------------------- MODULE EngineJobs_proofs --------------------------
(***************************************************************************)
(* Proofs about EngineJobs, for any jobs, lanes, effects and bounds.       *)
(*                                                                         *)
(* Every safety property follows from one inductive invariant.  It says of *)
(* each job that working, and having an effect that is not acknowledged,   *)
(* both imply holding a lease on an open record, that no request exists    *)
(* without its record, and that settled work is over; and of each pair of  *)
(* jobs that the leases they hold are on disjoint lanes.  Only Run makes a *)
(* job a holder, and it looks at all the others.                           *)
(***************************************************************************)
EXTENDS EngineJobs, TLAPS

Held(j) == job[j].lease # None /\ Open(job[j])

LeaseOK(j) ==
  /\ pc[j] = "working" => Held(j)
  /\ UnknownEffects(job[j]) # {} => Held(j)
  /\ job[j].settled => pc[j] # "working" /\ job[j].state \notin Dispatchable
  /\ job[j].state \in Dispatchable => job[j].lease = None
  /\ job[j].state = "absent" => job[j] = NoJob

EffectsOK(j) ==
  /\ intent[j] # None => pc[j] = "working" /\ intent[j] \in UnknownEffects(job[j])
  /\ \A e \in Effects : wire[j][e] = "inflight" => e \in UnknownEffects(job[j])

OnceOK(j) ==
  /\ runs[j] <= 1
  /\ job[j].state \in Dispatchable \cup {"absent"} => runs[j] = 0
  /\ \A e \in Effects : /\ sent[j][e] <= 1
                        /\ job[j].effects[e] = "none" \/ intent[j] = e => sent[j][e] = 0

CancelOK(j) == job[j].cancel => job[j].state \in {"cancelled", "recovery_required"}

SessionOK(j) ==
  j \in SessionJobs =>
    /\ up /\ Open(job[j]) /\ job[j].lease = None => job[j].accepted = process
    /\ pc[j] = "working" => job[j].accepted = process

JobOK(j) == LeaseOK(j) /\ EffectsOK(j) /\ OnceOK(j) /\ CancelOK(j) /\ SessionOK(j)

HoldersAreDisjoint ==
  \A j, k \in Jobs : j # k /\ Held(j) /\ Held(k) => LanesOf[j] \cap LanesOf[k] = {}

IInv == TypeOK /\ (\A j \in Jobs : JobOK(j)) /\ HoldersAreDisjoint

-----------------------------------------------------------------------------
\* All that the invariant says of job k is unchanged.
Same(k) ==
  /\ job'[k] = job[k] /\ pc'[k] = pc[k] /\ intent'[k] = intent[k] /\ wire'[k] = wire[k]
  /\ runs'[k] = runs[k] /\ sent'[k] = sent[k]

\* A step that changes one job, and gives it no lease, only has to keep the
\* invariant of that job.
LEMMA OneJob ==
  ASSUME IInv, TypeOK', NEW j \in Jobs,
         \A k \in Jobs \ {j} : Same(k),
         process' = process, up' = up,
         Held(j)' => Held(j),
         JobOK(j)'
  PROVE  IInv'
<1>1. ASSUME NEW k \in Jobs \ {j}  PROVE JobOK(k)'
  <2>1. JobOK(k) /\ Same(k)
    BY DEF IInv
  <2>2. LeaseOK(k)' /\ CancelOK(k)' /\ SessionOK(k)'
    BY <2>1 DEF JobOK, Same, LeaseOK, CancelOK, SessionOK, Held, Open, UnknownEffects
  <2>3. EffectsOK(k)' /\ OnceOK(k)'
    BY <2>1 DEF JobOK, Same, EffectsOK, OnceOK, UnknownEffects
  <2> QED  BY <2>2, <2>3 DEF JobOK
<1>2. \A k \in Jobs : Held(k)' => Held(k)
  BY DEF Same, Held, Open
<1>3. HoldersAreDisjoint'
  BY <1>2 DEF IInv, HoldersAreDisjoint
<1> QED  BY <1>1, <1>3 DEF IInv

LEMMA InitInv == Init => IInv
<1> SUFFICES ASSUME Init  PROVE IInv
  OBVIOUS
<1> USE DEF Init
<1>1. TypeOK
  BY DEF TypeOK, JobRecord, NoJob, States, Terminal, Dispatchable
<1>2. ASSUME NEW j \in Jobs  PROVE JobOK(j) /\ ~Held(j)
  BY NoneAssumption DEF JobOK, LeaseOK, EffectsOK, OnceOK, CancelOK, SessionOK, Held, Open, NoJob,
     UnknownEffects, Terminal, Dispatchable
<1> QED  BY <1>1, <1>2 DEF IInv, HoldersAreDisjoint

-----------------------------------------------------------------------------
(***************************************************************************)
(* Type correctness                                                        *)
(***************************************************************************)
LEMMA WriteOne ==
  ASSUME TypeOK, NEW j \in Jobs, NEW r \in JobRecord, Write(j, r)
  PROVE  job' \in [Jobs -> JobRecord] /\ job'[j] = r /\ \A k \in Jobs \ {j} : job'[k] = job[k]
  BY DEF TypeOK, Write

LEMMA StateNames ==
  /\ Terminal \subseteq States /\ Dispatchable \subseteq States
  /\ {"absent", "running", "recovery_required"} \subseteq States
  /\ {"cancelled", "succeeded", "failed"} = Terminal /\ {"queued", "blocked"} = Dispatchable
  BY DEF States, Terminal, Dispatchable

LEMMA FinishedType ==
  ASSUME TypeOK, NEW j \in Jobs, NEW error \in BOOLEAN
  PROVE  Finished(j, error) \in JobRecord
<1>1. job[j] \in JobRecord /\ process \in Nat \cup {None} /\ None \in Nat \cup {None}
  BY DEF TypeOK
<1>2. {"recovery_required", "cancelled", "failed", "succeeded"} \subseteq States
  BY DEF States, Terminal
<1>3. ASSUME NEW s \in States, NEW l \in Nat \cup {None}
      PROVE  [job[j] EXCEPT !.settled = TRUE, !.error = error, !.lease = l, !.state = s]
               \in JobRecord
  BY <1>1 DEF JobRecord
<1> QED  BY <1>1, <1>2, <1>3, Zenon DEF Finished

LEMMA OutcomeType ==
  ASSUME NEW r \in JobRecord
  PROVE  Outcome(r) \in States
  BY DEF Outcome, States, Terminal

LEMMA RecoveredType ==
  ASSUME TypeOK, NEW j \in Jobs
  PROVE  Recovered(j) \in JobRecord
<1> DEFINE r == job[j]
<1>1. r \in JobRecord /\ r.fence + 1 \in Nat
  BY DEF TypeOK, JobRecord
<1>2. [r EXCEPT !.lease = None, !.state = Outcome(r)] \in JobRecord
  BY <1>1, OutcomeType DEF JobRecord
<1>3. ASSUME NEW s \in States  PROVE [r EXCEPT !.state = s, !.fence = @ + 1] \in JobRecord
  BY <1>1 DEF JobRecord
<1>4. "cancelled" \in States /\ "recovery_required" \in States
  BY DEF States, Terminal
<1> QED  BY <1>1, <1>2, <1>3, <1>4 DEF Recovered, SettledLate

LEMMA ThrownType == ASSUME TypeOK, Thrown  PROVE faults' \in Nat
  BY DEF TypeOK, Thrown

LEMMA TypeStep ==
  ASSUME TypeOK, [Next]_vars
  PROVE  TypeOK'
<1> USE DEF local, history
<1>0. \A j \in Jobs : job[j] \in JobRecord /\ job[j].fence + 1 \in Nat
  BY DEF TypeOK, JobRecord
<1>1. ASSUME NEW j \in Jobs, Accept(j)  PROVE TypeOK'
  <2>1. [NoJob EXCEPT !.state = "queued", !.accepted = process] \in JobRecord
    BY StateNames DEF TypeOK, NoJob, JobRecord
  <2> QED  BY <1>1, <2>1, WriteOne DEF Accept, TypeOK
<1>2. ASSUME NEW j \in Jobs, Run(j)  PROVE TypeOK'
  <2>1. [job[j] EXCEPT !.state = "blocked"] \in JobRecord
    BY <1>0, StateNames DEF JobRecord
  <2>2. [job[j] EXCEPT !.state = "running", !.fence = @ + 1, !.lease = process] \in JobRecord
    BY <1>0, StateNames DEF JobRecord, TypeOK
  <2>3. job' \in [Jobs -> JobRecord]
    BY <1>2, <2>1, <2>2, WriteOne DEF Run
  <2>4. job'[j].fence \in Nat
    BY <2>3 DEF JobRecord
  <2>5. faults' \in Nat
    BY <1>2, ThrownType DEF Run, TypeOK
  <2>7. runs[j] + 1 \in Nat
    BY DEF TypeOK
  <2>8. runs' = runs \/ runs' = [runs EXCEPT ![j] = @ + 1]
    BY <1>2 DEF Run
  <2>9. runs' \in [Jobs -> Nat]
    BY <2>7, <2>8 DEF TypeOK
  <2>6. /\ pc' \in [Jobs -> {"none", "working", "returned", "threw"}]
        /\ held' \in [Jobs -> Nat]
    BY <1>2, <2>4 DEF Run, TypeOK
  <2> QED  BY <1>2, <2>3, <2>5, <2>6, <2>9 DEF Run, TypeOK
<1>3. ASSUME NEW j \in Jobs, NEW e \in Effects, BeginEffect(j, e)  PROVE TypeOK'
  <2>1. [job[j] EXCEPT !.effects[e] = "dispatched"] \in JobRecord
    BY <1>0 DEF JobRecord
  <2>2. job' \in [Jobs -> JobRecord] /\ faults' \in Nat
    BY <1>3, <2>1, WriteOne, ThrownType DEF BeginEffect, TypeOK
  <2>3. intent' \in [Jobs -> Effects \cup {None}]
    BY <1>3 DEF BeginEffect, TypeOK
  <2> QED  BY <1>3, <2>2, <2>3 DEF BeginEffect, TypeOK
<1>4. ASSUME NEW j \in Jobs, Send(j)  PROVE TypeOK'
  <2>1. intent[j] \in Effects
    BY <1>4 DEF Send, TypeOK
  <2>2. wire' \in [Jobs -> [Effects -> {"none", "inflight", "answered"}]]
    <3>1. [wire[j] EXCEPT ![intent[j]] = "inflight"] \in [Effects -> {"none", "inflight", "answered"}]
      BY <2>1 DEF TypeOK
    <3> QED  BY <1>4, <3>1 DEF Send, TypeOK
  <2>3. ASSUME NEW e \in Effects
        PROVE  [sent EXCEPT ![j][e] = @ + 1] \in [Jobs -> [Effects -> Nat]]
    <3>1. sent[j] \in [Effects -> Nat] /\ sent[j][e] + 1 \in Nat
      BY DEF TypeOK
    <3>2. [sent[j] EXCEPT ![e] = @ + 1] \in [Effects -> Nat]
      BY <3>1
    <3> QED  BY <3>2 DEF TypeOK
  <2>4. sent' \in [Jobs -> [Effects -> Nat]]
    BY <1>4, <2>1, <2>3 DEF Send, TypeOK
  <2> QED  BY <1>4, <2>2, <2>4 DEF Send, TypeOK
<1>5. ASSUME NEW j \in Jobs, NEW e \in Effects, Answer(j, e)  PROVE TypeOK'
  BY <1>5 DEF Answer, TypeOK
<1>6. ASSUME NEW j \in Jobs, NEW e \in Effects, SettleEffect(j, e)  PROVE TypeOK'
  <2>1. PICK state \in {"acknowledged", "unknown"} :
          Write(j, [job[j] EXCEPT !.effects[e] = state])
    BY <1>6 DEF SettleEffect
  <2>2. [job[j] EXCEPT !.effects[e] = state] \in JobRecord
    BY <1>0 DEF JobRecord
  <2> QED  BY <1>6, <2>1, <2>2, WriteOne DEF SettleEffect, TypeOK
<1>7. ASSUME NEW j \in Jobs, WorkEnds(j)  PROVE TypeOK'
  BY <1>7 DEF WorkEnds, TypeOK
<1>8. ASSUME NEW j \in Jobs, Finish(j)  PROVE TypeOK'
  <2>1. Finished(j, pc[j] = "threw") \in JobRecord
    BY FinishedType
  <2>2. job' \in [Jobs -> JobRecord]
    BY <1>8, <2>1, WriteOne DEF Finish, TypeOK
  <2>3. faults' \in Nat /\ pc' \in [Jobs -> {"none", "working", "returned", "threw"}]
    BY <1>8, ThrownType DEF Finish, TypeOK
  <2> QED  BY <1>8, <2>2, <2>3 DEF Finish, TypeOK
<1>9. ASSUME NEW j \in Jobs, Cancel(j)  PROVE TypeOK'
  <2>1. ASSUME NEW s \in States, NEW b \in BOOLEAN
        PROVE  [job[j] EXCEPT !.cancel = TRUE, !.fence = @ + 1, !.state = s, !.settled = b]
                 \in JobRecord
    BY <1>0 DEF JobRecord
  <2>2. job[j].settled \/ Undispatched(job[j]) \in BOOLEAN
    BY DEF Undispatched
  <2>3. (IF job[j].lease # None THEN "recovery_required" ELSE "cancelled") \in States
    BY StateNames
  <2> QED  BY <1>9, <2>1, <2>2, <2>3, WriteOne DEF Cancel, TypeOK
<1>10. ASSUME NEW j \in Jobs, ReconcileSettled(j)  PROVE TypeOK'
  <2>1. [job[j] EXCEPT !.lease = None, !.state = Outcome(job[j])] \in JobRecord
    BY <1>0, OutcomeType DEF JobRecord
  <2> QED  BY <1>10, <2>1, WriteOne DEF ReconcileSettled, TypeOK
<1>11. CASE Recover
  <2>1. job' \in [Jobs -> JobRecord]
    BY <1>11, RecoveredType DEF Recover
  <2>2. faults' \in Nat /\ up' \in BOOLEAN
    BY <1>11, ThrownType DEF Recover, TypeOK
  <2> QED  BY <1>11, <2>1, <2>2 DEF Recover, TypeOK
<1>12. CASE Crash
  <2>1. process' \in Nat
    BY <1>12 DEF Crash, TypeOK
  <2> QED  BY <1>12, <2>1 DEF Crash, TypeOK
<1>13. CASE UNCHANGED vars
  BY <1>13 DEF vars, TypeOK
<1> QED
  BY <1>1, <1>2, <1>3, <1>4, <1>5, <1>6, <1>7, <1>8, <1>9, <1>10, <1>11, <1>12, <1>13 DEF Next

-----------------------------------------------------------------------------
(***************************************************************************)
(* The steps of a run                                                      *)
(***************************************************************************)
LEMMA RecordField ==
  ASSUME TypeOK, NEW j \in Jobs
  PROVE  /\ job[j] \in JobRecord /\ job[j].cancel \in BOOLEAN /\ job[j].settled \in BOOLEAN
         /\ job[j].effects \in [Effects -> {"none", "dispatched", "acknowledged", "unknown"}]
         /\ job[j].state \in States
  BY DEF TypeOK, JobRecord

LEMMA AcceptStep ==
  ASSUME IInv, TypeOK', NEW j \in Jobs, Accept(j)
  PROVE  IInv'
<1> DEFINE r == [NoJob EXCEPT !.state = "queued", !.accepted = process]
<1>1. /\ job'[j] = r /\ \A k \in Jobs \ {j} : job'[k] = job[k]
      /\ UNCHANGED <<process, up, pc, held, intent, wire, runs, sent>>
  BY DEF Accept, Write, IInv, TypeOK, local, history
<1>2. job[j] = NoJob /\ pc[j] # "working" /\ JobOK(j)
  BY DEF Accept, IInv, JobOK, LeaseOK, Held, Open, NoJob
<1>3. /\ r.state = "queued" /\ r.lease = None /\ r.settled = FALSE /\ r.cancel = FALSE
      /\ r.accepted = process /\ r.effects = [e \in Effects |-> "none"]
      /\ UnknownEffects(r) = {} /\ UnknownEffects(NoJob) = {}
  BY DEF NoJob, UnknownEffects
<1> HIDE DEF r
<1>4. LeaseOK(j)' /\ ~Held(j)'
  BY <1>1, <1>2, <1>3 DEF LeaseOK, Held
<1>5. EffectsOK(j)' /\ CancelOK(j)' /\ SessionOK(j)'
  BY <1>1, <1>2, <1>3 DEF JobOK, EffectsOK, CancelOK, SessionOK
<1>6. OnceOK(j)'
  <2>1. runs[j] = 0 /\ \A e \in Effects : sent[j][e] = 0
    BY <1>2 DEF JobOK, OnceOK, NoJob
  <2> QED  BY <1>1, <2>1 DEF OnceOK
<1> QED  BY <1>1, <1>4, <1>5, <1>6, OneJob DEF JobOK, Same

LEMMA RunStep ==
  ASSUME IInv, TypeOK', NEW j \in Jobs, Run(j)
  PROVE  IInv'
<1>1. /\ job[j].state \in Dispatchable /\ ~job[j].cancel /\ JobOK(j) /\ up
      /\ runs[j] = 0 /\ pc[j] # "working" /\ job[j].lease = None
      /\ job[j].settled = FALSE
  BY RecordField DEF Run, IInv, JobOK, OnceOK, LeaseOK, Held
<1>2. CASE Conflict(j)
  <2> DEFINE r == [job[j] EXCEPT !.state = "blocked"]
  <2>1. /\ job'[j] = r /\ \A k \in Jobs \ {j} : job'[k] = job[k]
        /\ UNCHANGED <<process, up, pc, held, intent, wire, runs, sent>>
    BY <1>2 DEF Run, Write, IInv, TypeOK
  <2>2. /\ r.state = "blocked" /\ r.lease = job[j].lease /\ r.settled = job[j].settled
        /\ r.cancel = job[j].cancel /\ r.accepted = job[j].accepted /\ r.effects = job[j].effects
        /\ UnknownEffects(r) = UnknownEffects(job[j])
        /\ Open(job[j]) /\ Open(r)
    BY <1>1, RecordField DEF IInv, JobRecord, UnknownEffects, Open, Dispatchable, Terminal
  <2> HIDE DEF r
  <2>3. LeaseOK(j)' /\ (Held(j)' => Held(j))
    BY <1>1, <2>1, <2>2 DEF JobOK, LeaseOK, Held, Dispatchable
  <2>4. EffectsOK(j)' /\ CancelOK(j)' /\ SessionOK(j)'
    BY <1>1, <2>1, <2>2 DEF JobOK, EffectsOK, CancelOK, SessionOK
  <2>5. OnceOK(j)'
    BY <1>1, <2>1, <2>2 DEF JobOK, OnceOK
  <2> QED  BY <2>1, <2>3, <2>4, <2>5, OneJob DEF JobOK, Same
<1>3. CASE ~Conflict(j)
  <2> DEFINE r == [job[j] EXCEPT !.state = "running", !.fence = @ + 1, !.lease = process]
  <2>1. /\ job'[j] = r /\ \A k \in Jobs \ {j} : job'[k] = job[k]
        /\ UNCHANGED <<process, up, intent, wire, sent>>
        /\ \A k \in Jobs \ {j} : pc'[k] = pc[k] /\ runs'[k] = runs[k]
        /\ pc'[j] = pc[j] \/ pc'[j] = "working"
        /\ runs' = runs \/ runs' = [runs EXCEPT ![j] = @ + 1]
    BY <1>1, <1>3 DEF Run, Write, IInv, TypeOK
  <2>12. runs'[j] = 0 \/ runs'[j] = 1
    BY <1>1, <2>1 DEF IInv, TypeOK
  <2>2. /\ r.state = "running" /\ r.lease = process /\ r.settled = job[j].settled
        /\ r.cancel = job[j].cancel /\ r.accepted = job[j].accepted /\ r.effects = job[j].effects
        /\ UnknownEffects(r) = UnknownEffects(job[j])
        /\ Open(job[j]) /\ Open(r) /\ process # None
    BY <1>1, RecordField, NoneAssumption
    DEF IInv, TypeOK, JobRecord, UnknownEffects, Open, Dispatchable, Terminal
  <2> HIDE DEF r
  <2>3. LeaseOK(j)'
    BY <1>1, <2>1, <2>2 DEF JobOK, LeaseOK, Held, Dispatchable
  <2>4. EffectsOK(j)' /\ CancelOK(j)'
    BY <1>1, <2>1, <2>2 DEF JobOK, EffectsOK, CancelOK
  <2>5. OnceOK(j)'
    BY <1>1, <2>1, <2>2, <2>12 DEF JobOK, OnceOK, Dispatchable
  <2>6. SessionOK(j)'
    BY <1>1, <2>1, <2>2 DEF JobOK, SessionOK, Dispatchable
  <2>7. JobOK(j)'
    BY <2>3, <2>4, <2>5, <2>6 DEF JobOK
  <2>8. \A k \in Jobs \ {j} : Held(k)' = Held(k) /\ Same(k)
    BY <2>1 DEF Held, Open, Same
  <2>9. \A k \in Jobs \ {j} : JobOK(k)'
    BY <2>1, <2>8 DEF IInv, JobOK, Same, LeaseOK, EffectsOK, OnceOK, CancelOK, SessionOK, Held,
                      Open, UnknownEffects
  <2>10. \A k \in Jobs \ {j} : Held(k) => LanesOf[k] \cap LanesOf[j] = {}
    BY <1>3 DEF Conflict, Held
  <2>11. HoldersAreDisjoint'
    BY <2>8, <2>10 DEF IInv, HoldersAreDisjoint
  <2> QED  BY <2>7, <2>9, <2>11 DEF IInv
<1> QED  BY <1>2, <1>3

LEMMA BeginStep ==
  ASSUME IInv, TypeOK', NEW j \in Jobs, NEW e \in Effects, BeginEffect(j, e)
  PROVE  IInv'
<1> DEFINE r == [job[j] EXCEPT !.effects[e] = "dispatched"]
<1>1. /\ job'[j] = r /\ \A k \in Jobs \ {j} : job'[k] = job[k] /\ intent'[k] = intent[k]
      /\ UNCHANGED <<process, up, pc, wire, runs, sent>>
      /\ intent'[j] \in {e, None} /\ intent[j] = None
  BY DEF BeginEffect, Working, Write, IInv, TypeOK
<1>2. /\ r.state = job[j].state /\ r.lease = job[j].lease /\ r.settled = job[j].settled
      /\ r.cancel = job[j].cancel /\ r.accepted = job[j].accepted
      /\ \A f \in Effects : r.effects[f] = IF f = e THEN "dispatched" ELSE job[j].effects[f]
      /\ UnknownEffects(r) = UnknownEffects(job[j]) \cup {e}
      /\ Open(r) = Open(job[j])
  BY RecordField DEF IInv, JobRecord, UnknownEffects, Open
<1>3. pc[j] = "working" /\ Held(j) /\ job[j].effects[e] = "none" /\ sent[j][e] = 0 /\ JobOK(j)
      /\ job[j].state # "absent"
  BY DEF BeginEffect, Working, AssertCurrent, IInv, JobOK, LeaseOK, OnceOK
<1> HIDE DEF r
<1>4. LeaseOK(j)' /\ Held(j)
  BY <1>1, <1>2, <1>3 DEF JobOK, LeaseOK, Held
<1>5. EffectsOK(j)' /\ CancelOK(j)' /\ SessionOK(j)'
  BY <1>1, <1>2, <1>3 DEF JobOK, EffectsOK, CancelOK, SessionOK
<1>6. OnceOK(j)'
  BY <1>1, <1>2, <1>3, NoneAssumption DEF JobOK, OnceOK
<1> QED  BY <1>1, <1>4, <1>5, <1>6, OneJob DEF JobOK, Same

LEMMA SendStep ==
  ASSUME IInv, TypeOK', NEW j \in Jobs, Send(j)
  PROVE  IInv'
<1> DEFINE e == intent[j]
<1>1. /\ UNCHANGED <<job, process, up, pc, runs>>
      /\ \A k \in Jobs \ {j} : intent'[k] = intent[k] /\ wire'[k] = wire[k] /\ sent'[k] = sent[k]
      /\ intent'[j] = None /\ e \in Effects
  BY DEF Send, IInv, TypeOK
<1>2. \A f \in Effects \ {e} : wire'[j][f] = wire[j][f] /\ sent'[j][f] = sent[j][f]
  BY DEF Send, IInv, TypeOK
<1>3. JobOK(j) /\ e \in UnknownEffects(job[j]) /\ sent[j][e] = 0
  BY <1>1, NoneAssumption DEF IInv, JobOK, EffectsOK, OnceOK
<1>4. sent'[j][e] \in {0, 1}
  <2>1. sent'[j][e] = sent[j][e] \/ sent'[j][e] = sent[j][e] + 1
    BY <1>1 DEF Send, IInv, TypeOK
  <2> QED  BY <2>1, <1>3
<1>5. LeaseOK(j)' /\ CancelOK(j)' /\ SessionOK(j)' /\ (Held(j)' => Held(j))
  BY <1>1, <1>3 DEF JobOK, LeaseOK, CancelOK, SessionOK, Held
<1>6. EffectsOK(j)'
  BY <1>1, <1>2, <1>3 DEF JobOK, EffectsOK
<1>7. OnceOK(j)'
  BY <1>1, <1>2, <1>3, <1>4, NoneAssumption DEF JobOK, OnceOK, UnknownEffects
<1> QED  BY <1>1, <1>5, <1>6, <1>7, OneJob DEF JobOK, Same

LEMMA AnswerStep ==
  ASSUME IInv, TypeOK', NEW j \in Jobs, NEW e \in Effects, Answer(j, e)
  PROVE  IInv'
<1>1. /\ UNCHANGED <<job, process, up, pc, intent, runs, sent>>
      /\ \A k \in Jobs \ {j} : wire'[k] = wire[k]
      /\ \A f \in Effects : wire'[j][f] = "inflight" => wire[j][f] = "inflight"
  BY DEF Answer, IInv, TypeOK, local, history
<1>2. JobOK(j)
  BY DEF IInv
<1>3. LeaseOK(j)' /\ CancelOK(j)' /\ SessionOK(j)' /\ OnceOK(j)' /\ (Held(j)' => Held(j))
  BY <1>1, <1>2 DEF JobOK, LeaseOK, CancelOK, SessionOK, OnceOK, Held
<1>4. EffectsOK(j)'
  BY <1>1, <1>2 DEF JobOK, EffectsOK
<1> QED  BY <1>1, <1>3, <1>4, OneJob DEF JobOK, Same

LEMMA SettleStep ==
  ASSUME IInv, TypeOK', NEW j \in Jobs, NEW e \in Effects, SettleEffect(j, e)
  PROVE  IInv'
<1>1. PICK state \in {"acknowledged", "unknown"} :
        /\ state = "acknowledged" => wire[j][e] # "inflight"
        /\ Write(j, [job[j] EXCEPT !.effects[e] = state])
  BY DEF SettleEffect
<1> DEFINE r == [job[j] EXCEPT !.effects[e] = state]
<1>2. /\ job'[j] = r /\ \A k \in Jobs \ {j} : job'[k] = job[k]
      /\ UNCHANGED <<process, up, pc, intent, wire, runs, sent>>
      /\ intent[j] # e /\ e \in UnknownEffects(job[j])
  BY <1>1 DEF SettleEffect, Write, IInv, TypeOK, local, history, UnknownEffects
<1>3. /\ r.state = job[j].state /\ r.lease = job[j].lease /\ r.settled = job[j].settled
      /\ r.cancel = job[j].cancel /\ r.accepted = job[j].accepted
      /\ \A f \in Effects : r.effects[f] = IF f = e THEN state ELSE job[j].effects[f]
      /\ UnknownEffects(job[j]) \ {e} \subseteq UnknownEffects(r)
      /\ UnknownEffects(r) \subseteq UnknownEffects(job[j])
      /\ state = "unknown" => e \in UnknownEffects(r)
      /\ Open(r) = Open(job[j])
  BY <1>2, RecordField DEF IInv, JobRecord, UnknownEffects, Open
<1>4. JobOK(j) /\ job[j].state # "absent"
  BY <1>2 DEF IInv, JobOK, LeaseOK, Held, Open
<1> HIDE DEF r
<1>5. LeaseOK(j)' /\ (Held(j)' => Held(j))
  BY <1>2, <1>3, <1>4 DEF JobOK, LeaseOK, Held
<1>6. EffectsOK(j)' /\ CancelOK(j)' /\ SessionOK(j)'
  BY <1>1, <1>2, <1>3, <1>4 DEF JobOK, EffectsOK, CancelOK, SessionOK
<1>7. OnceOK(j)'
  BY <1>2, <1>3, <1>4 DEF JobOK, OnceOK
<1> QED  BY <1>2, <1>5, <1>6, <1>7, OneJob DEF JobOK, Same

LEMMA WorkEndsStep ==
  ASSUME IInv, TypeOK', NEW j \in Jobs, WorkEnds(j)
  PROVE  IInv'
<1>1. /\ UNCHANGED <<job, process, up, intent, wire, runs, sent>>
      /\ \A k \in Jobs \ {j} : pc'[k] = pc[k]
      /\ pc'[j] # "working" /\ intent[j] = None
  BY DEF WorkEnds, Working, IInv, TypeOK, history
<1>2. JobOK(j)
  BY DEF IInv
<1>3. JobOK(j)' /\ (Held(j)' => Held(j))
  BY <1>1, <1>2 DEF JobOK, LeaseOK, EffectsOK, CancelOK, SessionOK, OnceOK, Held
<1> QED  BY <1>1, <1>3, OneJob DEF Same

-----------------------------------------------------------------------------
(***************************************************************************)
(* Finishing, cancelling, reconciling and recovering                       *)
(***************************************************************************)
\* What finish writes: a holder stays one exactly while effects are open.
LEMMA FinishedFields ==
  ASSUME TypeOK, NEW j \in Jobs, NEW error \in BOOLEAN
  PROVE  /\ Finished(j, error).effects = job[j].effects
         /\ Finished(j, error).settled
         /\ Finished(j, error).cancel = job[j].cancel
         /\ Finished(j, error).accepted = job[j].accepted
         /\ Finished(j, error).state \in Terminal \cup {"recovery_required"}
         /\ UnknownEffects(job[j]) = {} => Finished(j, error).state \in Terminal
         /\ UnknownEffects(job[j]) # {} => /\ Finished(j, error).state = "recovery_required"
                                           /\ Finished(j, error).lease = process
         /\ job[j].cancel => Finished(j, error).state \in {"cancelled", "recovery_required"}
  BY RecordField DEF Finished, JobRecord, Terminal

LEMMA FinishStep ==
  ASSUME IInv, TypeOK', NEW j \in Jobs, Finish(j)
  PROVE  IInv'
<1> DEFINE r == Finished(j, pc[j] = "threw")
<1>1. /\ job'[j] \in {r, job[j]} /\ \A k \in Jobs \ {j} : job'[k] = job[k] /\ pc'[k] = pc[k]
      /\ UNCHANGED <<process, up, intent, wire, runs, sent>>
      /\ pc[j] # "working" /\ pc'[j] # "working"
  BY DEF Finish, Write, IInv, TypeOK
<1>2. JobOK(j) /\ TypeOK /\ process # None
  BY NoneAssumption DEF IInv, TypeOK
<1>3. CASE job'[j] = job[j]
  <2>1. JobOK(j)' /\ (Held(j)' => Held(j))
    BY <1>1, <1>2, <1>3 DEF JobOK, LeaseOK, EffectsOK, CancelOK, SessionOK, OnceOK, Held
  <2> QED  BY <1>1, <2>1, OneJob DEF Same
<1>4. CASE job'[j] = r
  <2>1. /\ r.effects = job[j].effects /\ r.settled /\ r.cancel = job[j].cancel
        /\ r.accepted = job[j].accepted /\ UnknownEffects(r) = UnknownEffects(job[j])
        /\ r.state \in Terminal \cup {"recovery_required"}
        /\ UnknownEffects(job[j]) = {} => r.state \in Terminal
        /\ UnknownEffects(job[j]) # {} => r.state = "recovery_required" /\ r.lease = process
        /\ job[j].cancel => r.state \in {"cancelled", "recovery_required"}
    BY <1>2, FinishedFields DEF UnknownEffects
  <2> HIDE DEF r
  <2>2. r.state \notin Dispatchable \cup {"absent"}
    BY <2>1 DEF Terminal, Dispatchable
  <2>3. LeaseOK(j)' /\ (Held(j)' => Held(j))
    BY <1>1, <1>2, <1>4, <2>1, <2>2 DEF JobOK, LeaseOK, Held, Open, Terminal
  <2>4. EffectsOK(j)' /\ CancelOK(j)'
    BY <1>1, <1>2, <1>4, <2>1 DEF JobOK, EffectsOK, CancelOK
  <2>5. OnceOK(j)'
    BY <1>1, <1>2, <1>4, <2>1, <2>2 DEF JobOK, OnceOK
  <2>6. SessionOK(j)'
    BY <1>1, <1>2, <1>4, <2>1 DEF SessionOK, Open
  <2> QED  BY <1>1, <2>3, <2>4, <2>5, <2>6, OneJob DEF JobOK, Same
<1> QED  BY <1>1, <1>3, <1>4

LEMMA CancelStep ==
  ASSUME IInv, TypeOK', NEW j \in Jobs, Cancel(j)
  PROVE  IInv'
<1> DEFINE r == [job[j] EXCEPT
       !.cancel = TRUE, !.fence = @ + 1,
       !.state = IF job[j].lease # None THEN "recovery_required" ELSE "cancelled",
       !.settled = @ \/ Undispatched(job[j])]
<1>1. /\ job'[j] = r /\ \A k \in Jobs \ {j} : job'[k] = job[k]
      /\ UNCHANGED <<process, up, pc, intent, wire, runs, sent>>
      /\ Open(job[j])
  BY DEF Cancel, Write, IInv, TypeOK, local, history
<1>2. /\ r.lease = job[j].lease /\ r.effects = job[j].effects /\ r.accepted = job[j].accepted
      /\ r.state = IF job[j].lease # None THEN "recovery_required" ELSE "cancelled"
      /\ r.settled = (job[j].settled \/ Undispatched(job[j]))
      /\ UnknownEffects(r) = UnknownEffects(job[j])
  BY RecordField DEF IInv, JobRecord, UnknownEffects
<1>3. JobOK(j) /\ (Undispatched(job[j]) => pc[j] # "working")
  BY DEF IInv, JobOK, LeaseOK, Held, Undispatched
<1>4. r.state \notin Dispatchable \cup {"absent"} /\ r.state \in {"cancelled", "recovery_required"}
  BY <1>2 DEF Dispatchable
<1> HIDE DEF r
<1>5. LeaseOK(j)' /\ (Held(j)' => Held(j))
  BY <1>1, <1>2, <1>3, <1>4 DEF JobOK, LeaseOK, Held, Open, Terminal
<1>6. EffectsOK(j)' /\ CancelOK(j)'
  BY <1>1, <1>2, <1>3, <1>4 DEF JobOK, EffectsOK, CancelOK
<1>7. OnceOK(j)'
  BY <1>1, <1>2, <1>3, <1>4 DEF JobOK, OnceOK
<1>8. SessionOK(j)'
  BY <1>1, <1>2, <1>3 DEF JobOK, SessionOK, Open, Terminal
<1> QED  BY <1>1, <1>5, <1>6, <1>7, <1>8, OneJob DEF JobOK, Same

\* What becomes of a settled job whose effects are all accounted for.
LEMMA OutcomeFields ==
  ASSUME NEW r \in JobRecord
  PROVE  /\ Outcome(r) \in Terminal
         /\ Outcome(r) \notin Dispatchable \cup {"absent"}
         /\ r.cancel => Outcome(r) = "cancelled"
  BY DEF Outcome, Terminal, Dispatchable

LEMMA ReconcileStep ==
  ASSUME IInv, TypeOK', NEW j \in Jobs, ReconcileSettled(j)
  PROVE  IInv'
<1> DEFINE r == [job[j] EXCEPT !.lease = None, !.state = Outcome(job[j])]
<1>1. /\ job'[j] = r /\ \A k \in Jobs \ {j} : job'[k] = job[k]
      /\ UNCHANGED <<process, up, pc, intent, wire, runs, sent>>
      /\ job[j].settled /\ UnknownEffects(job[j]) = {}
  BY DEF ReconcileSettled, SettledLate, Write, IInv, TypeOK, local, history
<1>2. /\ r.lease = None /\ r.effects = job[j].effects /\ r.state = Outcome(job[j])
      /\ r.settled = job[j].settled /\ r.cancel = job[j].cancel
      /\ UnknownEffects(r) = UnknownEffects(job[j])
  BY RecordField DEF IInv, JobRecord, UnknownEffects
<1>3. /\ r.state \in Terminal /\ r.state \notin Dispatchable \cup {"absent"}
      /\ job[j].cancel => r.state = "cancelled"
  BY <1>2, OutcomeFields, RecordField DEF IInv
<1>4. JobOK(j) /\ pc[j] # "working"
  BY <1>1 DEF IInv, JobOK, LeaseOK
<1> HIDE DEF r
<1>5. LeaseOK(j)' /\ ~Held(j)'
  BY <1>1, <1>2, <1>3, <1>4 DEF JobOK, LeaseOK, Held
<1>6. EffectsOK(j)' /\ CancelOK(j)'
  BY <1>1, <1>2, <1>3, <1>4 DEF JobOK, EffectsOK, CancelOK
<1>7. OnceOK(j)' /\ SessionOK(j)'
  BY <1>1, <1>2, <1>3, <1>4 DEF JobOK, OnceOK, SessionOK, Open
<1> QED  BY <1>1, <1>5, <1>6, <1>7, OneJob DEF JobOK, Same

\* Recovery closes what is settled and accounted for, ends session-bound work of
\* other processes, fences other leases, and never makes a job a holder.
LEMMA RecoveredFields ==
  ASSUME TypeOK, NEW j \in Jobs, JobOK(j)
  PROVE  LET r == Recovered(j)
         IN /\ r.effects = job[j].effects /\ r.settled = job[j].settled
            /\ r.cancel = job[j].cancel /\ r.accepted = job[j].accepted
            /\ r.lease \in {job[j].lease, None}
            /\ r.lease # job[j].lease =>
                 /\ job[j].settled /\ UnknownEffects(job[j]) = {} /\ r.state \in Terminal
            /\ r.state # job[j].state =>
                 /\ Open(job[j])
                 /\ r.state \in Terminal \cup {"recovery_required"}
                 /\ job[j].cancel => r.state \in {"cancelled", "recovery_required"}
                 /\ r.state \in Terminal => ~Held(j) \/ UnknownEffects(job[j]) = {}
                 /\ r.state \in Terminal => job[j].settled \/ job[j].lease = None
                 /\ r.state = "recovery_required" => r.lease # None
            /\ j \in SessionJobs /\ r.lease = None /\ r.state \notin Terminal \cup {"absent"} =>
                 r.accepted = process
            /\ r.state = "absent" => r = job[j]
<1> DEFINE old == job[j]
<1>1. old \in JobRecord /\ old.fence + 1 \in Nat
  BY RecordField DEF JobRecord
<1>2. CASE old.state = "recovery_required" /\ old.settled /\ UnknownEffects(old) = {}
  <2>1. Recovered(j) = [old EXCEPT !.lease = None, !.state = Outcome(old)]
    BY <1>2 DEF Recovered, SettledLate
  <2>2. Outcome(old) \in Terminal /\ (old.cancel => Outcome(old) = "cancelled")
    BY <1>1, OutcomeFields
  <2> QED  BY <1>1, <1>2, <2>1, <2>2 DEF JobRecord, Open, Terminal
<1>3. CASE old.state = "recovery_required" /\ old.settled /\ UnknownEffects(old) # {}
  <2>1. Recovered(j) = old
    BY <1>3 DEF Recovered, SettledLate
  <2>2. old.lease # None
    BY <1>3 DEF JobOK, LeaseOK, Held
  <2> QED  BY <1>3, <2>1, <2>2
<1>4. CASE ~(old.state = "recovery_required" /\ old.settled)
  <2>1. CASE j \in SessionJobs /\ old.accepted # process /\ old.lease = None /\ Open(old)
    <3>1. Recovered(j) = [old EXCEPT !.state = "cancelled", !.fence = @ + 1]
      BY <1>4, <2>1 DEF Recovered, SettledLate
    <3>2. ~Held(j)
      BY <2>1 DEF Held
    <3> QED  BY <1>1, <2>1, <3>1, <3>2 DEF JobRecord, Terminal
  <2>2. CASE ~(j \in SessionJobs /\ old.accepted # process /\ old.lease = None /\ Open(old))
    <3>1. CASE old.lease # None /\ Open(old) /\ ~(old.lease = process /\ pc[j] # "none")
      <4>1. Recovered(j) = [old EXCEPT !.state = "recovery_required", !.fence = @ + 1]
        BY <1>4, <2>2, <3>1 DEF Recovered, SettledLate
      <4> QED  BY <1>1, <3>1, <4>1 DEF JobRecord, Terminal
    <3>2. CASE ~(old.lease # None /\ Open(old) /\ ~(old.lease = process /\ pc[j] # "none"))
      <4>1. Recovered(j) = old
        BY <1>4, <2>2, <3>2 DEF Recovered, SettledLate
      <4> QED  BY <2>2, <4>1 DEF Open
    <3> QED  BY <3>1, <3>2
  <2> QED  BY <2>1, <2>2
<1> QED  BY <1>2, <1>3, <1>4

LEMMA RecoverStep ==
  ASSUME IInv, TypeOK', Recover
  PROVE  IInv'
<1>1. UNCHANGED <<process, pc, intent, wire, runs, sent>>
  BY DEF Recover, local
<1>2. ASSUME NEW j \in Jobs
      PROVE  JobOK(j)' /\ (Held(j)' => Held(j))
  <2> DEFINE r == Recovered(j)
  <2>1. job'[j] = r
    BY DEF Recover
  <2>2. /\ JobOK(j)
        /\ r.effects = job[j].effects /\ r.settled = job[j].settled
        /\ r.cancel = job[j].cancel /\ r.accepted = job[j].accepted
        /\ r.lease \in {job[j].lease, None}
        /\ r.lease # job[j].lease =>
             /\ job[j].settled /\ UnknownEffects(job[j]) = {} /\ r.state \in Terminal
        /\ r.state # job[j].state =>
             /\ Open(job[j])
             /\ r.state \in Terminal \cup {"recovery_required"}
             /\ job[j].cancel => r.state \in {"cancelled", "recovery_required"}
             /\ r.state \in Terminal => ~Held(j) \/ UnknownEffects(job[j]) = {}
             /\ r.state \in Terminal => job[j].settled \/ job[j].lease = None
             /\ r.state = "recovery_required" => r.lease # None
        /\ j \in SessionJobs /\ r.lease = None /\ r.state \notin Terminal \cup {"absent"} =>
             r.accepted = process
        /\ r.state = "absent" => r = job[j]
        /\ UnknownEffects(r) = UnknownEffects(job[j])
    BY RecoveredFields DEF IInv, UnknownEffects
  <2> HIDE DEF r
  <2>3. r.state = job[j].state \/ r.state \notin Dispatchable \cup {"absent"}
    BY <2>2 DEF Terminal, Dispatchable
  <2>4. Held(j)' => Held(j)
    BY <1>1, <2>1, <2>2 DEF Held, Open
  <2>5. pc[j] = "working" \/ UnknownEffects(job[j]) # {} => Held(j)'
    BY <1>1, <2>1, <2>2 DEF JobOK, LeaseOK, Held, Open, Terminal
  <2>6. LeaseOK(j)'
    BY <1>1, <2>1, <2>2, <2>3, <2>5 DEF JobOK, LeaseOK
  <2>7. EffectsOK(j)' /\ CancelOK(j)' /\ OnceOK(j)'
    BY <1>1, <2>1, <2>2, <2>3 DEF JobOK, EffectsOK, CancelOK, OnceOK
  <2>8. SessionOK(j)'
    BY <1>1, <2>1, <2>2 DEF JobOK, SessionOK, Open
  <2> QED  BY <2>4, <2>6, <2>7, <2>8 DEF JobOK
<1>3. HoldersAreDisjoint'
  BY <1>2 DEF IInv, HoldersAreDisjoint
<1> QED  BY <1>2, <1>3 DEF IInv

LEMMA CrashStep ==
  ASSUME IInv, TypeOK', Crash
  PROVE  IInv'
<1>1. /\ UNCHANGED <<job, wire, runs, sent>> /\ up' = FALSE
      /\ \A j \in Jobs : pc'[j] = "none" /\ intent'[j] = None
  BY DEF Crash, history
<1>2. ASSUME NEW j \in Jobs  PROVE JobOK(j)' /\ (Held(j)' => Held(j))
  BY <1>1, NoneAssumption
  DEF IInv, JobOK, LeaseOK, EffectsOK, CancelOK, OnceOK, SessionOK, Held
<1>3. HoldersAreDisjoint'
  BY <1>2 DEF IInv, HoldersAreDisjoint
<1> QED  BY <1>2, <1>3 DEF IInv

-----------------------------------------------------------------------------
\* The invariant is inductive (all of jobs.ts).
THEOREM Invariance == Spec => []IInv
<1>1. ASSUME IInv, [Next]_vars  PROVE IInv'
  <2>1. TypeOK'
    BY <1>1, TypeStep DEF IInv
  <2>2. CASE UNCHANGED vars
    <3>1. UNCHANGED <<job, process, up, pc, intent, wire, runs, sent>>
      BY <2>2 DEF vars, local, history
    <3>2. (\A j \in Jobs : JobOK(j))' /\ HoldersAreDisjoint'
      BY <1>1, <3>1 DEF IInv, JobOK, LeaseOK, EffectsOK, CancelOK, OnceOK, SessionOK,
                        HoldersAreDisjoint, Held
    <3> QED  BY <2>1, <3>2 DEF IInv
  <2>3. CASE \E j \in Jobs : \/ Accept(j) \/ Run(j) \/ Send(j) \/ WorkEnds(j) \/ Finish(j)
                             \/ Cancel(j) \/ ReconcileSettled(j)
    BY <1>1, <2>1, <2>3, AcceptStep, RunStep, SendStep, WorkEndsStep, FinishStep, CancelStep,
       ReconcileStep
  <2>4. CASE \E j \in Jobs, e \in Effects : BeginEffect(j, e) \/ Answer(j, e) \/ SettleEffect(j, e)
    BY <1>1, <2>1, <2>4, BeginStep, AnswerStep, SettleStep
  <2>5. CASE Recover
    BY <1>1, <2>1, <2>5, RecoverStep
  <2>6. CASE Crash
    BY <1>1, <2>1, <2>6, CrashStep
  <2> QED  BY <1>1, <2>2, <2>3, <2>4, <2>5, <2>6 DEF Next
<1> QED  BY InitInv, <1>1, PTL DEF Spec

\* jobs.json keeps to its schema (jobs.ts:17-31).
THEOREM TypeCorrect == Spec => []TypeOK
<1>1. IInv => TypeOK
  BY DEF IInv
<1> QED  BY Invariance, <1>1, PTL

\* Jobs that share a lane are never at work together, over restarts,
\* cancellations and requests still in flight (jobs.ts:230, 260-263, 345).
THEOREM LaneExclusionHolds == Spec => []LaneExclusion
<1>1. IInv => LaneExclusion
  <2>1. ASSUME IInv, NEW j \in Jobs, Active(j)  PROVE Held(j)
    BY <2>1 DEF IInv, JobOK, LeaseOK, EffectsOK, Active
  <2> QED  BY <2>1 DEF IInv, HoldersAreDisjoint, LaneExclusion
<1> QED  BY Invariance, <1>1, PTL

\* No work is started and no effect is sent a second time (jobs.ts:153, 230).
THEOREM NothingIsRepeatedHolds == Spec => []NothingIsRepeated
<1>1. IInv => NothingIsRepeated
  BY DEF IInv, JobOK, OnceOK, NothingIsRepeated
<1> QED  BY Invariance, <1>1, PTL

\* A job with an outcome has no request of unknown fate (jobs.ts:345).
THEOREM OutcomesAreCertainHolds == Spec => []OutcomesAreCertain
<1>1. IInv => OutcomesAreCertain
  BY DEF IInv, JobOK, LeaseOK, EffectsOK, Held, Open, OutcomesAreCertain
<1> QED  BY Invariance, <1>1, PTL

\* A durable cancellation is never overtaken by the run it cancelled
\* (jobs.ts:258, 346).
THEOREM CancellationPrevailsHolds == Spec => []CancellationPrevails
<1>1. IInv => CancellationPrevails
  BY DEF IInv, JobOK, CancelOK, CancellationPrevails
<1> QED  BY Invariance, <1>1, PTL

\* Session-bound work runs only in the process that accepted it (jobs.ts:241).
THEOREM SessionWorkHolds == Spec => []SessionWorkEndsWithItsProcess
<1>1. IInv => SessionWorkEndsWithItsProcess
  BY JobsAssumption DEF IInv, JobOK, SessionOK, SessionWorkEndsWithItsProcess
<1> QED  BY Invariance, <1>1, PTL
=============================================================================
