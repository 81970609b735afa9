--------------------------- MODULE Webhooks_proofs ---------------------------
(***************************************************************************)
(* Proofs about Webhooks, for any deliveries, subscriptions and number of  *)
(* attempts.  A delivery obeys the protocol of engine jobs, so that all    *)
(* that EngineJobs_proofs shows of jobs holds of deliveries; in particular *)
(* the work of a delivery starts once, and an attempt is sent once.        *)
(*                                                                         *)
(* That a receiver sees a second attempt only after it refused the first   *)
(* rests on this: the loop goes on only from "backoff", where the attempt  *)
(* was answered, refused and acknowledged; an acknowledgement is final;    *)
(* and no attempt beyond the loop counter was ever sent.                   *)
(***************************************************************************)
EXTENDS Webhooks, EngineJobs_proofs, FiniteSetTheorems

WorkerTypes ==
  /\ enabled \in [Subscriptions -> {"yes", "no", "removed"}]
  /\ stats \in [Subscriptions -> [delivered : Nat, dead : Nat]]
  /\ dead \subseteq Deliveries /\ left \subseteq Deliveries /\ looked \in BOOLEAN
  /\ reply \in [Deliveries -> [Effects -> {"none", "accepted", "refused"}]]
  /\ asked \in [Deliveries -> {"no", "listed", "accepted"}]
  /\ current \in Deliveries \cup {None}
  /\ runner \in [Deliveries -> {"nobody", "event", "resume"}]
  /\ step \in [Deliveries -> Steps]
  /\ attempt \in [Deliveries -> Effects]

\* The loop is left before its counter passes the last attempt.
WorkerOK ==
  /\ WorkerTypes
  /\ \A d \in Deliveries : step[d] = "backoff" => attempt[d] < MaxAttempts

allVars == <<vars, wvars>>

LEMMA FirstAttempt == 1 \in Effects
BY AttemptsAssumption

LEMMA WorkerInit == WebhookInit => WorkerOK
<1> SUFFICES ASSUME WebhookInit  PROVE WorkerOK
  OBVIOUS
<1>1. stats \in [Subscriptions -> [delivered : Nat, dead : Nat]]
  BY DEF WebhookInit
<1>2. /\ enabled \in [Subscriptions -> {"yes", "no", "removed"}]
      /\ reply \in [Deliveries -> [Effects -> {"none", "accepted", "refused"}]]
  BY DEF WebhookInit
<1>3. attempt \in [Deliveries -> Effects]
  BY FirstAttempt DEF WebhookInit
<1> QED  BY <1>1, <1>2, <1>3 DEF WebhookInit, WorkerOK, WorkerTypes, Steps

\* A step that only moves one delivery to another point of its loop.
LEMMA WorkerMoves ==
  ASSUME WorkerOK, NEW d \in Deliveries, NEW s \in Steps, Goto(d, s),
         s = "backoff" => attempt[d] < MaxAttempts,
         UNCHANGED attempt
  PROVE  /\ step' \in [Deliveries -> Steps]
         /\ \A k \in Deliveries : step'[k] = "backoff" => attempt'[k] < MaxAttempts
BY DEF Goto, WorkerOK, WorkerTypes

LEMMA CountTypes ==
  ASSUME WorkerOK, NEW d \in Deliveries, NEW what \in {"delivered", "dead"},
         Count(d, what)
  PROVE  WorkerOK'
<1>1. PICK to \in {"done", "throw"} : Goto(d, to)
  BY DEF Count
<1>2. to \in Steps /\ to # "backoff"
  BY <1>1 DEF Steps
<1>3. UNCHANGED <<enabled, dead, reply, asked, resumption, runner, attempt>>
  BY DEF Count
<1>4. stats' \in [Subscriptions -> [delivered : Nat, dead : Nat]]
  <2>1. SubscriptionOf[d] \in Subscriptions
    BY DeliveriesAssumption
  <2> DEFINE s == SubscriptionOf[d]
  <2>2. stats[s] \in [delivered : Nat, dead : Nat]
    BY <2>1 DEF WorkerOK, WorkerTypes
  <2>3. [stats[s] EXCEPT ![what] = IF enabled[s] = "removed" THEN @ ELSE @ + 1]
          \in [delivered : Nat, dead : Nat]
    BY <2>2
  <2>4. stats' = [stats EXCEPT ![s] = [stats[s] EXCEPT
                   ![what] = IF enabled[s] = "removed" THEN @ ELSE @ + 1]]
    BY <2>1 DEF Count, WorkerOK, WorkerTypes
  <2> QED  BY <2>1, <2>3, <2>4 DEF WorkerOK, WorkerTypes
<1> QED
  BY <1>1, <1>2, <1>3, <1>4, WorkerMoves DEF WorkerOK, WorkerTypes, resumption

LEMMA WorkerStep == WorkerOK /\ [WebhookNext]_allVars => WorkerOK'
<1> SUFFICES ASSUME WorkerOK, [WebhookNext]_allVars  PROVE WorkerOK'
  OBVIOUS
<1> USE DEF stores, resumption, worker, wvars, Outside
<1>1. CASE UNCHANGED allVars
  BY <1>1 DEF allVars, WorkerOK, WorkerTypes
<1>2. CASE \E s \in Subscriptions, how \in {"yes", "no", "removed"} : SetSubscription(s, how)
  BY <1>2 DEF SetSubscription, WorkerOK, WorkerTypes
<1>3. CASE FindQueued
  BY <1>3 DEF FindQueued, WorkerOK, WorkerTypes
<1>4. CASE CrashWorker
  BY <1>4, FirstAttempt DEF CrashWorker, WorkerOK, WorkerTypes, Steps
<1>5. CASE Recover /\ UNCHANGED wvars
  BY <1>5 DEF WorkerOK, WorkerTypes
<1>6. ASSUME NEW d \in Deliveries, (Cancel(d) \/ ReconcileSettled(d)) /\ UNCHANGED wvars
      PROVE  WorkerOK'
  BY <1>6 DEF WorkerOK, WorkerTypes
<1>7. ASSUME NEW d \in Deliveries, List(d) \/ AcceptDelivery(d) \/ Abandon(d) \/ Resume(d)
      PROVE  WorkerOK'
  <2>1. UNCHANGED <<stores, reply, looked, runner, step, attempt>>
    BY <1>7 DEF List, AcceptDelivery, Abandon, Resume
  <2>2. asked' \in [Deliveries -> {"no", "listed", "accepted"}]
    BY <1>7 DEF List, AcceptDelivery, Abandon, Resume, WorkerOK, WorkerTypes
  <2>3. left' \subseteq Deliveries /\ current' \in Deliveries \cup {None}
    BY <1>7 DEF List, AcceptDelivery, Abandon, Resume, WorkerOK, WorkerTypes
  <2> QED  BY <2>1, <2>2, <2>3 DEF WorkerOK, WorkerTypes
<1>8. ASSUME NEW d \in Deliveries, NEW who \in {"event", "resume"}, RunDelivery(d, who)
      PROVE  WorkerOK'
  <2>1. UNCHANGED <<stores, reply, looked, left, attempt>>
    BY <1>8 DEF RunDelivery
  <2>2. /\ runner' \in [Deliveries -> {"nobody", "event", "resume"}]
        /\ asked' \in [Deliveries -> {"no", "listed", "accepted"}]
        /\ current' \in Deliveries \cup {None}
    BY <1>8 DEF RunDelivery, WorkerOK, WorkerTypes
  <2>3. /\ step' \in [Deliveries -> Steps]
        /\ \A k \in Deliveries : step'[k] = "backoff" => step[k] = "backoff"
    BY <1>8 DEF RunDelivery, WorkerOK, WorkerTypes, Steps
  <2> QED  BY <2>1, <2>2, <2>3 DEF WorkerOK, WorkerTypes
<1>9. ASSUME NEW d \in Deliveries, NEW e \in Effects, Reply(d, e)
      PROVE  WorkerOK'
  BY <1>9 DEF Reply, WorkerOK, WorkerTypes
<1>10. ASSUME NEW d \in Deliveries, Begin(d) \/ Post(d) \/ EndWait(d) \/ Settle(d)
                                    \/ Unconfirmed(d) \/ Refused(d) \/ Interrupted(d) \/ EndWork(d)
       PROVE  WorkerOK'
  <2>1. UNCHANGED <<reply, attempt>> /\ Outside
    BY <1>10 DEF Begin, Post, EndWait, Settle, Unconfirmed, Refused, Interrupted, EndWork
  <2>2. \E s \in Steps : Goto(d, s) /\ (s = "backoff" => attempt[d] < MaxAttempts)
    <3>1. CASE Refused(d)
      <4>1. attempt[d] \in 1..MaxAttempts
        BY AttemptsAssumption DEF WorkerOK, WorkerTypes
      <4> QED  BY <3>1, <4>1, AttemptsAssumption DEF Refused, Steps
    <3> QED
      BY <1>10, <3>1 DEF Begin, Post, EndWait, Settle, Unconfirmed, Interrupted, EndWork, Steps
  <2> QED  BY <2>1, <2>2, WorkerMoves DEF WorkerOK, WorkerTypes
<1>11. ASSUME NEW d \in Deliveries, Taken(d) \/ CountDead(d)
       PROVE  WorkerOK'
  BY <1>11, CountTypes DEF Taken, CountDead
<1>12. ASSUME NEW d \in Deliveries, NextAttempt(d)
       PROVE  WorkerOK'
  <2>1. attempt[d] + 1 \in Effects
    BY <1>12, AttemptsAssumption DEF NextAttempt, WorkerOK, WorkerTypes
  <2>2. attempt' \in [Deliveries -> Effects]
    BY <1>12, <2>1 DEF NextAttempt, WorkerOK, WorkerTypes
  <2>3. /\ step' \in [Deliveries -> Steps]
        /\ \A k \in Deliveries : step'[k] = "backoff" => k # d /\ step[k] = "backoff"
    BY <1>12 DEF NextAttempt, Goto, WorkerOK, WorkerTypes, Steps
  <2>4. \A k \in Deliveries \ {d} : attempt'[k] = attempt[k]
    BY <1>12 DEF NextAttempt, WorkerOK, WorkerTypes
  <2> QED  BY <1>12, <2>2, <2>3, <2>4 DEF NextAttempt, WorkerOK, WorkerTypes
<1>13. ASSUME NEW d \in Deliveries, DeadLetter(d)
       PROVE  WorkerOK'
  <2>1. \E s \in Steps : Goto(d, s) /\ s # "backoff"
    BY <1>13 DEF DeadLetter, Steps
  <2>2. /\ UNCHANGED <<enabled, stats, reply, asked, resumption, runner, attempt>>
        /\ dead' = dead \cup {d}
    BY <1>13 DEF DeadLetter
  <2> QED  BY <2>1, <2>2, WorkerMoves DEF WorkerOK, WorkerTypes
<1>14. ASSUME NEW d \in Deliveries, FinishDelivery(d)
       PROVE  WorkerOK'
  BY <1>14 DEF FinishDelivery, WorkerOK, WorkerTypes
<1> QED
  BY <1>1, <1>2, <1>3, <1>4, <1>5, <1>6, <1>7, <1>8, <1>9, <1>10, <1>11, <1>12, <1>13, <1>14
  DEF WebhookNext, Execute

\* The worker's variables have their types and the loop ends in time.
THEOREM WorkerInvariance == WebhookSpec => []WorkerOK
BY WorkerInit, WorkerStep, PTL DEF WebhookSpec, allVars

-----------------------------------------------------------------------------
(***************************************************************************)
(* A delivery is a job                                                     *)
(***************************************************************************)
LEMMA JobStep == WorkerOK /\ [WebhookNext]_allVars => [Next]_vars
<1> SUFFICES ASSUME WorkerOK, [WebhookNext]_allVars  PROVE [Next]_vars
  OBVIOUS
<1>1. ASSUME NEW d \in Deliveries  PROVE d \in Jobs /\ attempt[d] \in Effects
  BY <1>1, DeliveriesAssumption DEF WorkerOK, WorkerTypes
<1>2. CASE UNCHANGED allVars \/ FindQueued \/ CrashWorker \/ (Recover /\ UNCHANGED wvars)
  BY <1>2 DEF allVars, FindQueued, CrashWorker, Next
<1>3. CASE \E s \in Subscriptions, how \in {"yes", "no", "removed"} : SetSubscription(s, how)
  BY <1>3 DEF SetSubscription
<1>4. ASSUME NEW d \in Deliveries,
             List(d) \/ AcceptDelivery(d) \/ Resume(d) \/ Abandon(d)
               \/ ((Cancel(d) \/ ReconcileSettled(d)) /\ UNCHANGED wvars)
      PROVE  [Next]_vars
  BY <1>1, <1>4 DEF List, AcceptDelivery, Resume, Abandon, Next
<1>5. ASSUME NEW d \in Deliveries, NEW who \in {"event", "resume"}, RunDelivery(d, who)
      PROVE  [Next]_vars
  BY <1>1, <1>5 DEF RunDelivery, Next
<1>6. ASSUME NEW d \in Deliveries, NEW e \in Effects, Reply(d, e)
      PROVE  [Next]_vars
  BY <1>1, <1>6 DEF Reply, Next
<1>7. ASSUME NEW d \in Deliveries, Begin(d) \/ Settle(d) \/ Unconfirmed(d)
      PROVE  [Next]_vars
  BY <1>1, <1>7 DEF Begin, Settle, Unconfirmed, Next
<1>8. ASSUME NEW d \in Deliveries, Post(d) \/ EndWork(d) \/ FinishDelivery(d)
      PROVE  [Next]_vars
  BY <1>1, <1>8 DEF Post, EndWork, FinishDelivery, Next
<1>9. ASSUME NEW d \in Deliveries,
             EndWait(d) \/ Taken(d) \/ Refused(d) \/ NextAttempt(d) \/ DeadLetter(d)
               \/ CountDead(d) \/ Interrupted(d)
      PROVE  UNCHANGED vars
  BY <1>9 DEF EndWait, Taken, Refused, NextAttempt, DeadLetter, CountDead, Count, Interrupted
<1> QED
  BY <1>2, <1>3, <1>4, <1>5, <1>6, <1>7, <1>8, <1>9 DEF WebhookNext, Execute

\* Webhook deliveries implement the protocol of engine jobs: whatever the worker
\* does, jobs.json and the wire change as EngineJobs says (worker.ts:202-272).
THEOREM ImplementsJobs == WebhookSpec => Spec
<1>1. WebhookInit => Init
  BY DEF WebhookInit
<1> QED  BY <1>1, JobStep, WorkerInvariance, PTL DEF WebhookSpec, Spec, allVars

\* Type correctness of the subscriptions, the worker and the jobs below them.
THEOREM WebhookTypes == WebhookSpec => []WebhookTypeOK
<1>1. WorkerOK /\ TypeOK => WebhookTypeOK
  BY DEF WorkerOK, WorkerTypes, WebhookTypeOK
<1> QED  BY <1>1, WorkerInvariance, ImplementsJobs, TypeCorrect, PTL

-----------------------------------------------------------------------------
(***************************************************************************)
(* Retries                                                                 *)
(***************************************************************************)
Acknowledged(d, e) == job[d].effects[e] = "acknowledged"
WasRefused(d, e) == reply[d][e] = "refused" /\ Acknowledged(d, e)

WireOK(d) ==
  \A e \in Effects : /\ reply[d][e] # "none" => wire[d][e] = "answered"
                     /\ sent[d][e] = 0 => wire[d][e] = "none"

LoopOK(d) ==
  /\ runs[d] = 0 => step[d] = "idle" /\ attempt[d] = 1 /\ \A e \in Effects : sent[d][e] = 0
  /\ step[d] # "post" => intent[d] = None
  /\ step[d] = "post" => intent[d] = attempt[d]
  /\ step[d] # "idle" => /\ \A e \in Effects : e < attempt[d] => WasRefused(d, e)
                         /\ \A e \in Effects : e > attempt[d] => sent[d][e] = 0
  /\ step[d] = "settled" => Acknowledged(d, attempt[d])
  /\ step[d] = "backoff" => WasRefused(d, attempt[d])

OrderOK(d) ==
  \A e, f \in Effects : e < f /\ sent[d][f] > 0 => WasRefused(d, e)

RetryOK(d) == WireOK(d) /\ LoopOK(d) /\ OrderOK(d)
RetryInv == \A d \in Deliveries : RetryOK(d)

LEMMA RetryInit == WebhookInit => RetryInv
BY DeliveriesAssumption
DEF WebhookInit, Init, RetryInv, RetryOK, WireOK, LoopOK, OrderOK

\* An acknowledgement is final, whatever becomes of the job.
LEMMA AcknowledgedForGood ==
  ASSUME IInv, [Next]_vars, NEW d \in Jobs, NEW e \in Effects, Acknowledged(d, e)
  PROVE  Acknowledged(d, e)'
<1> USE DEF Acknowledged
<1>0. job \in [Jobs -> JobRecord] /\ job[d] # NoJob
  BY DEF IInv, TypeOK, NoJob
<1>1. CASE UNCHANGED <<job>>
  BY <1>1
<1>2. CASE Recover
  BY <1>0, <1>2 DEF Recover, Recovered, JobRecord
<1>3. ASSUME NEW j \in Jobs, NEW r, Write(j, r), r.effects = job[j].effects
      PROVE  Acknowledged(d, e)'
  BY <1>0, <1>3 DEF Write
<1>4. ASSUME NEW j \in Jobs, Accept(j)
      PROVE  Acknowledged(d, e)'
  <2>1. job[j] = NoJob
    BY <1>4 DEF Accept, IInv, JobOK, LeaseOK
  <2> QED  BY <1>0, <1>4, <2>1 DEF Accept, Write
<1>5. ASSUME NEW j \in Jobs, Run(j) \/ Cancel(j) \/ ReconcileSettled(j)
      PROVE  Acknowledged(d, e)'
  <2>1. job[j] \in JobRecord
    BY <1>0
  <2>2. CASE Run(j)
    <3>1. PICK r \in {[job[j] EXCEPT !.state = "blocked"],
                      [job[j] EXCEPT !.state = "running", !.fence = @ + 1, !.lease = process]} :
                   Write(j, r)
      BY <2>2 DEF Run
    <3>2. r.effects = job[j].effects
      BY <2>1 DEF JobRecord
    <3> QED  BY <1>3, <3>1, <3>2
  <2>3. CASE Cancel(j)
    BY <1>3, <2>1, <2>3 DEF Cancel, JobRecord
  <2>4. CASE ReconcileSettled(j)
    BY <1>3, <2>1, <2>4 DEF ReconcileSettled, JobRecord
  <2> QED  BY <1>5, <2>2, <2>3, <2>4
<1>6. ASSUME NEW j \in Jobs, Finish(j)
      PROVE  Acknowledged(d, e)'
  <2>1. Finished(j, pc[j] = "threw").effects = job[j].effects
    BY <1>0 DEF Finished, JobRecord
  <2>2. Write(j, Finished(j, pc[j] = "threw")) \/ UNCHANGED job
    BY <1>6 DEF Finish
  <2> QED  BY <1>1, <1>3, <2>1, <2>2
<1>7. ASSUME NEW j \in Jobs, NEW f \in Effects, BeginEffect(j, f) \/ SettleEffect(j, f)
      PROVE  Acknowledged(d, e)'
  <2>1. j = d => f # e
    BY <1>7 DEF BeginEffect, SettleEffect
  <2>2. job[j].effects \in [Effects -> {"none", "dispatched", "acknowledged", "unknown"}]
    BY <1>0 DEF JobRecord
  <2>3. PICK v : job' = [job EXCEPT ![j] = [job[j] EXCEPT !.effects[f] = v]]
    BY <1>7 DEF BeginEffect, SettleEffect, Write
  <2> QED  BY <1>0, <2>1, <2>2, <2>3 DEF JobRecord
<1>8. ASSUME NEW j \in Jobs, Send(j) \/ WorkEnds(j) \/ \E f \in Effects : Answer(j, f)
      PROVE  Acknowledged(d, e)'
  BY <1>8 DEF Send, WorkEnds, Answer
<1>9. CASE Crash
  BY <1>9 DEF Crash
<1> QED
  BY <1>1, <1>2, <1>4, <1>5, <1>6, <1>7, <1>8, <1>9 DEF Next, vars

\* What the invariant says of delivery d besides the store is unchanged.
Still(d) ==
  /\ runs'[d] = runs[d] /\ sent'[d] = sent[d] /\ wire'[d] = wire[d]
  /\ reply'[d] = reply[d] /\ attempt'[d] = attempt[d]

Kept(d) == \A e \in Effects : Acknowledged(d, e) => Acknowledged(d, e)'

LEMMA Untouched ==
  ASSUME WorkerOK, NEW d \in Deliveries, RetryOK(d), Kept(d), Still(d),
         step'[d] = step[d], intent'[d] = intent[d]
  PROVE  RetryOK(d)'
<1>1. attempt[d] \in Effects
  BY DEF WorkerOK, WorkerTypes
<1>2. \A e \in Effects : WasRefused(d, e) => WasRefused(d, e)'
  BY DEF WasRefused, Kept, Still
<1>3. WireOK(d)' /\ OrderOK(d)'
  BY <1>2 DEF RetryOK, WireOK, OrderOK, Still
<1>4. LoopOK(d)'
  BY <1>1, <1>2 DEF RetryOK, LoopOK, Still, Kept
<1> QED  BY <1>3, <1>4 DEF RetryOK

LEMMA Moved ==
  ASSUME WorkerOK, NEW d \in Deliveries, RetryOK(d), Kept(d), Still(d),
         step[d] # "idle", step'[d] # "post", intent'[d] = None,
         step'[d] = "settled" => Acknowledged(d, attempt[d])',
         step'[d] = "backoff" => WasRefused(d, attempt[d])
  PROVE  RetryOK(d)'
<1>1. attempt[d] \in Effects
  BY DEF WorkerOK, WorkerTypes
<1>2. \A e \in Effects : WasRefused(d, e) => WasRefused(d, e)'
  BY DEF WasRefused, Kept, Still
<1>3. WireOK(d)' /\ OrderOK(d)'
  BY <1>2 DEF RetryOK, WireOK, OrderOK, Still
<1>4. attempt'[d] = attempt[d]
  BY DEF Still
<1>5. LoopOK(d)'
  BY <1>1, <1>2, <1>4 DEF RetryOK, LoopOK, Still, Acknowledged
<1> QED  BY <1>3, <1>5 DEF RetryOK

LEMMA RetryStep ==
  ASSUME WorkerOK, IInv, IInv', RetryInv, [WebhookNext]_allVars
  PROVE  RetryInv'
<1> SUFFICES ASSUME NEW d \in Deliveries  PROVE RetryOK(d)'
  BY DEF RetryInv
<1> USE DEF stores, resumption, worker, wvars, Outside
<1>0. /\ d \in Jobs /\ attempt[d] \in Effects /\ attempt[d] \in Nat
      /\ RetryOK(d) /\ OnceOK(d) /\ OnceOK(d)'
  BY DeliveriesAssumption, AttemptsAssumption DEF WorkerOK, WorkerTypes, RetryInv, IInv, JobOK
<1>K. Kept(d)
  BY <1>0, JobStep, AcknowledgedForGood DEF Kept
<1>T. /\ runs \in [Jobs -> Nat] /\ sent \in [Jobs -> [Effects -> Nat]]
      /\ wire \in [Jobs -> [Effects -> {"none", "inflight", "answered"}]]
      /\ intent \in [Jobs -> Effects \cup {None}]
      /\ reply \in [Deliveries -> [Effects -> {"none", "accepted", "refused"}]]
      /\ step \in [Deliveries -> Steps] /\ attempt \in [Deliveries -> Effects]
  BY DEF IInv, TypeOK, WorkerOK, WorkerTypes
<1>1. CASE \/ UNCHANGED allVars \/ FindQueued \/ (Recover /\ UNCHANGED wvars)
           \/ \E s \in Subscriptions, how \in {"yes", "no", "removed"} : SetSubscription(s, how)
  BY <1>0, <1>K, <1>1, Untouched
  DEF allVars, vars, local, history, FindQueued, Recover, SetSubscription, Still
<1>2. CASE CrashWorker
  <2>1. /\ runs'[d] = runs[d] /\ sent'[d] = sent[d] /\ wire'[d] = wire[d] /\ reply'[d] = reply[d]
        /\ step'[d] = "idle" /\ attempt'[d] = 1 /\ intent'[d] = None
    BY <1>0, <1>2 DEF CrashWorker, Crash, history
  <2>2. \A e \in Effects : WasRefused(d, e) => WasRefused(d, e)'
    BY <1>K, <2>1 DEF WasRefused, Kept
  <2> QED  BY <1>0, <2>1, <2>2 DEF RetryOK, WireOK, LoopOK, OrderOK
<1>3. ASSUME NEW k \in Deliveries,
             \/ List(k) \/ AcceptDelivery(k) \/ Resume(k) \/ Abandon(k) \/ FinishDelivery(k)
             \/ (Cancel(k) \/ ReconcileSettled(k)) /\ UNCHANGED wvars
      PROVE  RetryOK(d)'
  <2>1. UNCHANGED <<runs, sent, wire, reply, step, attempt, intent>>
    BY <1>3 DEF vars, local, history, List, AcceptDelivery, Accept, Resume, Abandon,
                FinishDelivery, Finish, Cancel, ReconcileSettled
  <2> QED  BY <1>0, <1>K, <2>1, Untouched DEF Still
<1>4. ASSUME NEW k \in Deliveries, NEW who \in {"event", "resume"}, RunDelivery(k, who)
      PROVE  RetryOK(d)'
  <2>1. UNCHANGED <<sent, wire, reply, attempt, intent>>
    BY <1>4 DEF RunDelivery, Run, vars, local, history
  <2>2. CASE runs'[d] = runs[d] /\ step'[d] = step[d]
    BY <1>0, <1>K, <2>1, <2>2, Untouched DEF Still
  <2>3. CASE ~(runs'[d] = runs[d] /\ step'[d] = step[d])
    <3>1. runs'[d] = runs[d] + 1 /\ step'[d] \in {step[d], "begin"}
      BY <1>0, <1>4, <1>T, <2>3 DEF RunDelivery, Run, vars, local, history
    <3>2. runs[d] = 0
      BY <1>0, <1>T, <3>1 DEF OnceOK
    <3>3. /\ step[d] = "idle" /\ attempt[d] = 1 /\ intent[d] = None
          /\ \A e \in Effects : sent[d][e] = 0
      BY <1>0, <3>2 DEF RetryOK, LoopOK
    <3>4. WireOK(d)' /\ OrderOK(d)'
      BY <1>0, <2>1, <3>3 DEF RetryOK, WireOK, OrderOK
    <3>5. LoopOK(d)'
      BY <1>0, <2>1, <3>1, <3>2, <3>3, AttemptsAssumption DEF LoopOK
    <3> QED  BY <3>4, <3>5 DEF RetryOK
  <2> QED  BY <2>2, <2>3
<1>5. ASSUME NEW k \in Deliveries, NEW e \in Effects, Reply(k, e)
      PROVE  RetryOK(d)'
  <2>1. UNCHANGED <<runs, sent, step, attempt, intent>> /\ job' = job
    BY <1>5 DEF Reply, Answer, local, history
  <2>2. CASE k # d
    <3>1. wire'[d] = wire[d] /\ reply'[d] = reply[d]
      BY <1>5, <1>T, <2>2 DEF Reply, Answer
    <3> QED  BY <1>0, <1>K, <2>1, <3>1, Untouched DEF Still
  <2>3. CASE k = d
    <3>1. wire[d][e] = "inflight"
      BY <1>5, <2>3 DEF Reply, Answer
    <3>2. reply[d][e] = "none" /\ sent[d][e] # 0
      BY <1>0, <3>1 DEF RetryOK, WireOK
    <3>3. /\ wire'[d] = [wire[d] EXCEPT ![e] = "answered"]
          /\ \A f \in Effects \ {e} : reply'[d][f] = reply[d][f]
      BY <1>0, <1>5, <1>T, <2>3 DEF Reply, Answer
    <3>4. WireOK(d)'
      BY <1>0, <1>T, <2>1, <3>2, <3>3 DEF RetryOK, WireOK
    <3>5. \A f \in Effects : WasRefused(d, f) => WasRefused(d, f)'
      BY <2>1, <3>2, <3>3 DEF WasRefused, Acknowledged
    <3>6. LoopOK(d)' /\ OrderOK(d)'
      BY <1>0, <2>1, <3>5 DEF RetryOK, LoopOK, OrderOK, Acknowledged
    <3> QED  BY <3>4, <3>6 DEF RetryOK
  <2> QED  BY <2>2, <2>3
<1>6. ASSUME NEW k \in Deliveries \ {d}, Execute(k)
      PROVE  RetryOK(d)'
  <2>1. step'[d] = step[d] /\ attempt'[d] = attempt[d] /\ reply'[d] = reply[d]
    BY <1>6, <1>T DEF Execute, Begin, Post, EndWait, Settle, Unconfirmed, Taken, Refused,
       NextAttempt, DeadLetter, CountDead, Count, Interrupted, EndWork, FinishDelivery, Goto
  <2>2. runs'[d] = runs[d] /\ sent'[d] = sent[d] /\ wire'[d] = wire[d] /\ intent'[d] = intent[d]
    <3>1. CASE Begin(k) \/ Post(k) \/ EndWait(k) \/ Settle(k) \/ Unconfirmed(k)
      BY <1>0, <1>6, <1>T, <3>1 DEF Begin, Post, EndWait, Settle, Unconfirmed, BeginEffect,
         Send, SettleEffect, vars, local, history
    <3>2. CASE ~(Begin(k) \/ Post(k) \/ EndWait(k) \/ Settle(k) \/ Unconfirmed(k))
      BY <1>6, <3>2 DEF Execute, Taken, Refused, NextAttempt, DeadLetter, CountDead, Count,
         Interrupted, EndWork, WorkEnds, FinishDelivery, Finish, vars, local, history
    <3> QED  BY <3>1, <3>2
  <2> QED  BY <1>0, <1>K, <2>1, <2>2, Untouched DEF Still
<1>7. CASE Begin(d)
  <2>1. UNCHANGED <<runs, sent, wire, reply, attempt>>
    BY <1>7 DEF Begin, BeginEffect
  <2>2. step[d] = "begin" /\ runs[d] # 0 /\ intent[d] = None
    BY <1>0, <1>7 DEF Begin, RetryOK, LoopOK
  <2>3. \/ intent'[d] = attempt[d] /\ step'[d] = "post"
        \/ intent'[d] = None /\ step'[d] = "throw"
    <3>1. attempt[d] # None
      BY <1>0, NoneAssumption
    <3>2. intent'[d] \in {attempt[d], None}
      BY <1>0, <1>7, <1>T, <2>2 DEF Begin, BeginEffect
    <3>3. step'[d] = IF intent'[d] = None THEN "throw" ELSE "post"
      BY <1>7, <1>T DEF Begin, Goto
    <3> QED  BY <3>1, <3>2, <3>3
  <2>4. \A e \in Effects : WasRefused(d, e) => WasRefused(d, e)'
    BY <1>K, <2>1 DEF WasRefused, Kept
  <2>5. WireOK(d)' /\ OrderOK(d)'
    BY <1>0, <2>1, <2>4 DEF RetryOK, WireOK, OrderOK
  <2>6. LoopOK(d)'
    BY <1>0, <2>1, <2>2, <2>3, <2>4 DEF RetryOK, LoopOK
  <2> QED  BY <2>5, <2>6 DEF RetryOK
<1>8. CASE Post(d)
  <2>1. UNCHANGED <<runs, reply, attempt>>
    BY <1>8 DEF Post, Send
  <2>2. step[d] = "post" /\ runs[d] # 0 /\ intent[d] = attempt[d]
    BY <1>0, <1>8 DEF Post, RetryOK, LoopOK
  <2>3. intent'[d] = None /\ step'[d] \in {"wait", "unconfirmed"}
    BY <1>0, <1>8, <1>T DEF Post, Send, Goto
  <2>4. CASE UNCHANGED <<wire, sent>>
    BY <1>0, <1>K, <2>1, <2>2, <2>3, <2>4, Moved DEF Still
  <2>5. CASE ~UNCHANGED <<wire, sent>>
    <3>1. /\ wire'[d] = [wire[d] EXCEPT ![attempt[d]] = "inflight"]
          /\ sent'[d] = [sent[d] EXCEPT ![attempt[d]] = @ + 1]
      BY <1>0, <1>8, <1>T, <2>2, <2>5 DEF Post, Send
    <3>2. sent[d][attempt[d]] = 0
      BY <1>0, <2>2 DEF OnceOK
    <3>3. reply[d][attempt[d]] = "none"
      BY <1>0, <3>2 DEF RetryOK, WireOK
    <3>4. WireOK(d)'
      BY <1>0, <1>T, <2>1, <3>1, <3>2, <3>3 DEF RetryOK, WireOK
    <3>5. \A e \in Effects : WasRefused(d, e) => WasRefused(d, e)'
      BY <1>K, <2>1 DEF WasRefused, Kept
    <3>6. \A e \in Effects : e # attempt[d] => sent'[d][e] = sent[d][e]
      BY <1>0, <1>T, <3>1
    <3>7. \A e \in Effects : e < attempt[d] => WasRefused(d, e)'
      BY <1>0, <2>2, <3>5 DEF RetryOK, LoopOK
    <3>8. OrderOK(d)'
      BY <1>0, <3>5, <3>6, <3>7 DEF RetryOK, OrderOK
    <3>9. LoopOK(d)'
      <4>1. \A e \in Effects : e > attempt[d] => e # attempt[d] /\ sent[d][e] = 0
        BY <1>0, <2>2, AttemptsAssumption DEF RetryOK, LoopOK
      <4> QED  BY <2>1, <2>2, <2>3, <3>6, <3>7, <4>1 DEF LoopOK
    <3> QED  BY <3>4, <3>8, <3>9 DEF RetryOK
  <2> QED  BY <2>4, <2>5
<1>9. CASE EndWait(d) \/ Settle(d) \/ Unconfirmed(d)
  <2>1. UNCHANGED <<runs, sent, wire, reply, attempt, intent>>
    BY <1>9 DEF EndWait, Settle, Unconfirmed, SettleEffect, vars, local, history
  <2>2. /\ step[d] # "idle" /\ step[d] # "post"
        /\ step'[d] \in {"answered", "unconfirmed", "settled", "throw"}
    BY <1>9, <1>T DEF EndWait, Settle, Unconfirmed, Goto
  <2>3. step'[d] = "settled" => Acknowledged(d, attempt[d])'
    <3>1. CASE Settle(d)
      BY <3>1, <1>T, <2>1 DEF Settle, Goto, Acknowledged
    <3>2. CASE EndWait(d) \/ Unconfirmed(d)
      BY <3>2, <1>T DEF EndWait, Unconfirmed, Goto
    <3> QED  BY <1>9, <3>1, <3>2
  <2> QED  BY <1>0, <1>K, <2>1, <2>2, <2>3, Moved DEF Still, RetryOK, LoopOK
<1>10. CASE Taken(d) \/ Refused(d) \/ DeadLetter(d) \/ CountDead(d) \/ Interrupted(d) \/ EndWork(d)
  <2>1. UNCHANGED <<runs, sent, wire, reply, attempt, intent>>
    BY <1>10 DEF Taken, Refused, DeadLetter, CountDead, Count, Interrupted, EndWork, WorkEnds,
                 vars, local, history
  <2>2. /\ step[d] \notin {"idle", "post"}
        /\ step'[d] \in {"done", "throw", "exhausted", "backoff", "lettered", "idle"}
    BY <1>10, <1>T DEF Taken, Refused, DeadLetter, CountDead, Count, Interrupted, EndWork, Goto
  <2>3. step'[d] = "backoff" => step[d] = "settled" /\ reply[d][attempt[d]] = "refused"
    BY <1>10, <1>T DEF Taken, Refused, DeadLetter, CountDead, Count, Interrupted, EndWork, Goto
  <2>4. step'[d] = "backoff" => WasRefused(d, attempt[d])
    BY <1>0, <2>3 DEF RetryOK, LoopOK, WasRefused
  <2> QED  BY <1>0, <1>K, <2>1, <2>2, <2>4, Moved DEF Still, RetryOK, LoopOK
<1>11. CASE NextAttempt(d)
  <2>1. UNCHANGED <<runs, sent, wire, reply, intent>> /\ job' = job
    BY <1>11 DEF NextAttempt, vars, local, history
  <2>2. /\ step[d] = "backoff" /\ step'[d] = "begin" /\ attempt'[d] = attempt[d] + 1
    BY <1>11, <1>T DEF NextAttempt, Goto
  <2>3. /\ runs[d] # 0 /\ intent[d] = None /\ WasRefused(d, attempt[d])
        /\ \A e \in Effects : e < attempt[d] => WasRefused(d, e)
        /\ \A e \in Effects : e > attempt[d] => sent[d][e] = 0
    BY <1>0, <2>2 DEF RetryOK, LoopOK
  <2>4. \A e \in Effects : WasRefused(d, e) => WasRefused(d, e)'
    BY <2>1 DEF WasRefused, Acknowledged
  <2>5. \A e \in Effects : e < attempt[d] + 1 => e < attempt[d] \/ e = attempt[d]
    BY <1>0, AttemptsAssumption
  <2>6. \A e \in Effects : e > attempt[d] + 1 => e > attempt[d]
    BY <1>0, AttemptsAssumption
  <2>7. WireOK(d)' /\ OrderOK(d)'
    BY <1>0, <2>1, <2>4 DEF RetryOK, WireOK, OrderOK
  <2>8. LoopOK(d)'
    BY <2>1, <2>2, <2>3, <2>4, <2>5, <2>6 DEF LoopOK
  <2> QED  BY <2>7, <2>8 DEF RetryOK
<1>12. ASSUME NEW k \in Deliveries, Execute(k)  PROVE RetryOK(d)'
  BY <1>3, <1>6, <1>7, <1>8, <1>9, <1>10, <1>11, <1>12 DEF Execute
<1> QED
  BY <1>1, <1>2, <1>3, <1>4, <1>5, <1>12 DEF WebhookNext

\* What an attempt was answered, what is recorded of it and where the loop stands
\* agree at every moment.
THEOREM RetryInvariance == WebhookSpec => []RetryInv
<1>1. WorkerOK /\ IInv /\ IInv' /\ RetryInv /\ [WebhookNext]_allVars => RetryInv'
  BY RetryStep
<1> QED
  BY <1>1, RetryInit, WorkerInvariance, ImplementsJobs, Invariance, PTL DEF WebhookSpec, allVars

\* A receiver gets a second request for an event only after it refused the first
\* and that refusal was recorded, for any number of attempts, crashes, lost
\* answers and failing stores (worker.ts:265-271).
THEOREM RetriedOnlyAfterRefusalHolds == WebhookSpec => []RetriedOnlyAfterRefusal
<1>1. RetryInv => RetriedOnlyAfterRefusal
  BY DEF RetryInv, RetryOK, OrderOK, WasRefused, Acknowledged, RetriedOnlyAfterRefusal
<1> QED  BY <1>1, RetryInvariance, PTL

-----------------------------------------------------------------------------
(***************************************************************************)
(* Outcomes                                                                *)
(***************************************************************************)
Looping == {"begin", "post", "wait", "answered", "settled", "unconfirmed", "backoff"}
Over == {"idle", "done", "throw"}

WasTaken(d) == \E e \in Effects : reply[d][e] = "accepted"
AllRefused(d) == \A e \in Effects : reply[d][e] = "refused"

StoryOK(d) ==
  /\ step[d] = "exhausted" => AllRefused(d)
  /\ d \in dead => AllRefused(d) /\ step[d] \in Over \cup {"lettered"}
  /\ step[d] = "lettered" => d \in dead
  /\ step[d] = "done" => WasTaken(d) \/ d \in dead

\* A job that is recorded, or will be reconciled, as succeeded.
Good(d) ==
  \/ job[d].state = "succeeded"
  \/ job[d].settled /\ ~job[d].error /\ ~job[d].cancel

SuccessOK(d) == pc[d] = "returned" \/ Good(d) => WasTaken(d) \/ d \in dead

\* The deliveries that a subscription's counters may have counted.
DeliveredTo(s) == {d \in Deliveries : SubscriptionOf[d] = s /\ WasTaken(d) /\ step[d] \in Over}
DeadOf(s) == {d \in dead : SubscriptionOf[d] = s /\ step[d] # "lettered"}

CountsOK ==
  \A s \in Subscriptions : /\ stats[s].delivered <= Cardinality(DeliveredTo(s))
                           /\ stats[s].dead <= Cardinality(DeadOf(s))

OutcomeInv == (\A d \in Deliveries : StoryOK(d) /\ SuccessOK(d)) /\ CountsOK

LEMMA DeliveriesAreFinite == \A D : D \subseteq Deliveries => IsFiniteSet(D)
BY JobsAssumption, DeliveriesAssumption, FS_Subset

LEMMA CardGrows ==
  ASSUME NEW D \in SUBSET Deliveries, NEW E \in SUBSET Deliveries, D \subseteq E
  PROVE  /\ Cardinality(D) \in Nat /\ Cardinality(E) \in Nat
         /\ Cardinality(D) <= Cardinality(E)
         /\ \A k \in E \ D : Cardinality(D) + 1 <= Cardinality(E)
<1>1. IsFiniteSet(D) /\ IsFiniteSet(E)
  BY DeliveriesAreFinite
<1>2. /\ Cardinality(D) \in Nat /\ Cardinality(E) \in Nat
      /\ Cardinality(D) <= Cardinality(E)
  BY <1>1, FS_Subset, FS_CardinalityType
<1>3. ASSUME NEW k \in E \ D  PROVE Cardinality(D) + 1 <= Cardinality(E)
  <2>1. Cardinality(D \cup {k}) = Cardinality(D) + 1
    BY <1>1, FS_AddElement
  <2>2. D \cup {k} \subseteq E
    OBVIOUS
  <2> QED  BY <1>1, <2>1, <2>2, FS_Subset
<1> QED  BY <1>2, <1>3

LEMMA OutcomeInit == WebhookInit => OutcomeInv
<1> SUFFICES ASSUME WebhookInit  PROVE OutcomeInv
  OBVIOUS
<1>1. ASSUME NEW d \in Deliveries  PROVE StoryOK(d) /\ SuccessOK(d)
  BY DeliveriesAssumption DEF WebhookInit, Init, NoJob, StoryOK, SuccessOK, Good
<1>2. ASSUME NEW s \in Subscriptions
      PROVE  /\ stats[s].delivered <= Cardinality(DeliveredTo(s))
             /\ stats[s].dead <= Cardinality(DeadOf(s))
  <2>1. stats[s].delivered = 0 /\ stats[s].dead = 0
    BY DEF WebhookInit
  <2>2. DeliveredTo(s) \subseteq Deliveries /\ DeadOf(s) \subseteq Deliveries
    BY DEF DeliveredTo, DeadOf, WebhookInit
  <2> QED  BY <2>1, <2>2, CardGrows
<1> QED  BY <1>1, <1>2 DEF OutcomeInv, CountsOK

\* Success comes from work that returned, and from nothing else.
LEMMA SuccessFrom ==
  ASSUME IInv, [Next]_vars, NEW d \in Jobs, Good(d)'
  PROVE  Good(d) \/ pc[d] = "returned"
<1>0. job \in [Jobs -> JobRecord] /\ job[d] \in JobRecord
  BY DEF IInv, TypeOK
<1>1. CASE UNCHANGED job
  BY <1>1 DEF Good
<1>2. CASE Recover
  <2>1. job'[d] = Recovered(d)
    BY <1>2 DEF Recover
  <2> QED  BY <1>0, <2>1 DEF Good, Recovered, SettledLate, Outcome, JobRecord
<1>3. ASSUME NEW j \in Jobs, NEW r, Write(j, r)
      PROVE  j # d => job'[d] = job[d]
  BY <1>0, <1>3 DEF Write
<1>4. ASSUME NEW r, Write(d, r)  PROVE job'[d] = r
  BY <1>0, <1>4 DEF Write
<1>5. ASSUME NEW j \in Jobs, Accept(j)
      PROVE  Good(d)
  <2> DEFINE r == [NoJob EXCEPT !.state = "queued", !.accepted = process]
  <2>1. Write(j, r)
    BY <1>5 DEF Accept
  <2>2. r.state = "queued" /\ r.settled = FALSE
    BY DEF NoJob
  <2> HIDE DEF r
  <2> QED  BY <1>3, <1>4, <2>1, <2>2 DEF Good
<1>6. ASSUME NEW j \in Jobs, Run(j)
      PROVE  Good(d)
  <2>1. PICK r \in {[job[j] EXCEPT !.state = "blocked"],
                    [job[j] EXCEPT !.state = "running", !.fence = @ + 1, !.lease = process]} :
                   Write(j, r)
    BY <1>6 DEF Run
  <2>2. CASE j = d
    <3>1. /\ r.state # "succeeded" /\ r.settled = job[d].settled
          /\ r.error = job[d].error /\ r.cancel = job[d].cancel
      BY <1>0, <2>1, <2>2 DEF JobRecord
    <3> QED  BY <1>4, <2>1, <2>2, <3>1 DEF Good
  <2> QED  BY <1>3, <2>1, <2>2 DEF Good
<1>7. ASSUME NEW j \in Jobs, Cancel(j)
      PROVE  Good(d)
  <2> DEFINE r == [job[j] EXCEPT
       !.cancel = TRUE, !.fence = @ + 1,
       !.state = IF job[j].lease # None THEN "recovery_required" ELSE "cancelled",
       !.settled = @ \/ Undispatched(job[j])]
  <2>1. Write(j, r)
    BY <1>7 DEF Cancel
  <2>2. r.state \in {"recovery_required", "cancelled"} /\ r.cancel = TRUE
    BY <1>0 DEF JobRecord
  <2> HIDE DEF r
  <2> QED  BY <1>3, <1>4, <2>1, <2>2 DEF Good
<1>8. ASSUME NEW j \in Jobs, ReconcileSettled(j)
      PROVE  Good(d)
  <2>1. CASE j = d
    <3>1. job'[d] = [job[d] EXCEPT !.lease = None, !.state = Outcome(job[d])]
      BY <1>4, <1>8, <2>1 DEF ReconcileSettled
    <3> QED  BY <1>0, <1>8, <2>1, <3>1 DEF ReconcileSettled, SettledLate, Outcome, Good, JobRecord
  <2> QED  BY <1>3, <1>8, <2>1 DEF ReconcileSettled, Good
<1>9. ASSUME NEW j \in Jobs, Finish(j)
      PROVE  Good(d) \/ pc[d] = "returned"
  <2>1. CASE j = d /\ Write(j, Finished(j, pc[j] = "threw"))
    <3>1. job'[d] = Finished(d, pc[d] = "threw")
      BY <1>4, <2>1
    <3>2. pc[d] \in {"returned", "threw"}
      BY <1>9, <2>1 DEF Finish
    <3>3. CASE pc[d] = "threw"
      BY <1>0, <3>1, <3>3 DEF Finished, Good, JobRecord
    <3> QED  BY <3>2, <3>3
  <2> QED  BY <1>1, <1>3, <1>9, <2>1 DEF Finish, Good
<1>10. ASSUME NEW j \in Jobs, NEW f \in Effects, BeginEffect(j, f) \/ SettleEffect(j, f)
       PROVE  Good(d)
  <2>1. PICK v : Write(j, [job[j] EXCEPT !.effects[f] = v])
    BY <1>10 DEF BeginEffect, SettleEffect
  <2>2. CASE j = d
    BY <1>0, <1>4, <2>1, <2>2 DEF Good, JobRecord
  <2> QED  BY <1>3, <2>1, <2>2 DEF Good
<1>11. ASSUME NEW j \in Jobs, Send(j) \/ WorkEnds(j) \/ \E f \in Effects : Answer(j, f)
       PROVE  UNCHANGED job
  BY <1>11 DEF Send, WorkEnds, Answer
<1>12. CASE Crash
  BY <1>1, <1>12 DEF Crash
<1> QED
  BY <1>1, <1>2, <1>5, <1>6, <1>7, <1>8, <1>9, <1>10, <1>11, <1>12 DEF Next, vars

\* What one step can do to a delivery.
Moves(d) ==
  \/ step'[d] = step[d]
  \/ step[d] = "idle" /\ step'[d] = "begin" /\ runs[d] = 0
  \/ step[d] \in Looping /\ step'[d] \in Looping
  \/ step'[d] = "idle"
  \/ step'[d] = "throw" /\ step[d] # "idle"
  \/ step'[d] = "done" /\ ((WasTaken(d) /\ step[d] \in Looping) \/ step[d] = "lettered")
  \/ step[d] = "settled" /\ step'[d] = "exhausted" /\ AllRefused(d)
  \/ step[d] = "exhausted" /\ step'[d] = "lettered" /\ d \in dead'

LEMMA Transition ==
  ASSUME WorkerOK, IInv, RetryInv, [WebhookNext]_allVars, NEW d \in Deliveries
  PROVE  /\ \A e \in Effects : reply[d][e] # "none" => reply'[d][e] = reply[d][e]
         /\ Moves(d)
         /\ dead \subseteq dead'
         /\ d \in dead' \ dead => step[d] = "exhausted" /\ step'[d] \in {"lettered", "throw"}
<1> USE DEF stores, resumption, worker, wvars, Outside
<1>T. /\ reply \in [Deliveries -> [Effects -> {"none", "accepted", "refused"}]]
      /\ step \in [Deliveries -> Steps] /\ attempt \in [Deliveries -> Effects]
      /\ RetryOK(d)
  BY DEF WorkerOK, WorkerTypes, RetryInv
<1>1. CASE \/ UNCHANGED allVars \/ FindQueued \/ (Recover /\ UNCHANGED wvars) \/ CrashWorker
           \/ \E s \in Subscriptions, how \in {"yes", "no", "removed"} : SetSubscription(s, how)
  BY <1>1 DEF allVars, FindQueued, CrashWorker, SetSubscription, Moves
<1>2. ASSUME NEW k \in Deliveries,
             \/ List(k) \/ AcceptDelivery(k) \/ Resume(k) \/ Abandon(k) \/ FinishDelivery(k)
             \/ (Cancel(k) \/ ReconcileSettled(k)) /\ UNCHANGED wvars
      PROVE  UNCHANGED <<dead, reply, step>>
  BY <1>2 DEF List, AcceptDelivery, Resume, Abandon, FinishDelivery
<1>3. ASSUME NEW k \in Deliveries, NEW who \in {"event", "resume"}, RunDelivery(k, who)
      PROVE  UNCHANGED <<dead, reply>> /\ Moves(d)
  <2>1. UNCHANGED <<dead, reply>>
    BY <1>3 DEF RunDelivery
  <2>2. CASE step'[d] = step[d]
    BY <2>1, <2>2 DEF Moves
  <2>3. CASE step'[d] # step[d]
    <3>1. k = d /\ step'[d] = "begin" /\ pc[d] = "none" /\ pc'[d] = "working"
      BY <1>3, <1>T, <2>3 DEF RunDelivery
    <3>2. job[d].state \in Dispatchable
      BY <1>3, <3>1 DEF RunDelivery, Run, vars, local
    <3>3. runs[d] = 0
      BY <3>2, DeliveriesAssumption DEF IInv, JobOK, OnceOK
    <3>4. step[d] = "idle"
      BY <1>T, <3>3 DEF RetryOK, LoopOK
    <3> QED  BY <2>1, <3>1, <3>3, <3>4 DEF Moves
  <2> QED  BY <2>2, <2>3
<1>4. ASSUME NEW k \in Deliveries, NEW e \in Effects, Reply(k, e)
      PROVE  /\ \A f \in Effects : reply[d][f] # "none" => reply'[d][f] = reply[d][f]
             /\ UNCHANGED <<dead, step>>
  <2>1. wire[k][e] = "inflight" /\ UNCHANGED <<dead, step>>
    BY <1>4 DEF Reply, Answer
  <2>2. k = d => reply[d][e] = "none"
    BY <1>T, <2>1 DEF RetryOK, WireOK
  <2>3. \A f \in Effects : (k = d /\ f = e) \/ reply'[d][f] = reply[d][f]
    BY <1>4, <1>T DEF Reply
  <2> QED  BY <2>1, <2>2, <2>3
<1>5. ASSUME NEW k \in Deliveries, Execute(k), ~FinishDelivery(k)
      PROVE  /\ UNCHANGED reply
             /\ k # d => step'[d] = step[d]
             /\ k = d => Moves(d)
             /\ \/ UNCHANGED dead
                \/ /\ dead' = dead \cup {k} /\ step[k] = "exhausted"
                   /\ step'[k] \in {"lettered", "throw"}
  <2>1. UNCHANGED reply /\ (k # d => step'[d] = step[d])
    BY <1>5, <1>T DEF Execute, Begin, Post, EndWait, Settle, Unconfirmed, Taken, Refused,
       NextAttempt, DeadLetter, CountDead, Count, Interrupted, EndWork, Goto
  <2>2. \/ UNCHANGED dead
        \/ /\ dead' = dead \cup {k} /\ step[k] = "exhausted"
           /\ step'[k] \in {"lettered", "throw"}
    BY <1>5, <1>T DEF Execute, Begin, Post, EndWait, Settle, Unconfirmed, Taken, Refused,
       NextAttempt, DeadLetter, CountDead, Count, Interrupted, EndWork, Goto
  <2>3. ASSUME k = d  PROVE Moves(d)
    <3>1. CASE Begin(d) \/ Post(d) \/ EndWait(d) \/ Settle(d) \/ Unconfirmed(d) \/ NextAttempt(d)
      BY <3>1, <1>T DEF Begin, Post, EndWait, Settle, Unconfirmed, NextAttempt, Goto, Moves, Looping
    <3>2. CASE Taken(d)
      BY <3>2, <1>T DEF Taken, Count, Goto, Moves, WasTaken, Looping
    <3>3. CASE Refused(d)
      <4>1. /\ step[d] = "settled" /\ reply[d][attempt[d]] = "refused"
            /\ step'[d] \in {IF attempt[d] = MaxAttempts THEN "exhausted" ELSE "backoff", "throw"}
        BY <3>3, <1>T DEF Refused, Goto
      <4>2. attempt[d] = MaxAttempts => AllRefused(d)
        <5>1. \A e \in Effects : e < attempt[d] => reply[d][e] = "refused"
          BY <1>T, <4>1 DEF RetryOK, LoopOK, WasRefused
        <5> QED  BY <4>1, <5>1, AttemptsAssumption DEF AllRefused
      <4> QED  BY <4>1, <4>2 DEF Moves, Looping
    <3>4. CASE DeadLetter(d) \/ CountDead(d) \/ Interrupted(d) \/ EndWork(d)
      BY <3>4, <1>T DEF DeadLetter, CountDead, Count, Interrupted, EndWork, Goto, Moves
    <3> QED  BY <1>5, <2>3, <3>1, <3>2, <3>3, <3>4 DEF Execute
  <2> QED  BY <2>1, <2>2, <2>3
<1>6. ASSUME NEW k \in Deliveries, Execute(k), ~FinishDelivery(k)
      PROVE  /\ \A e \in Effects : reply[d][e] # "none" => reply'[d][e] = reply[d][e]
             /\ Moves(d)
             /\ dead \subseteq dead'
             /\ d \in dead' \ dead => step[d] = "exhausted" /\ step'[d] \in {"lettered", "throw"}
  BY <1>5, <1>6 DEF Moves
<1>7. ASSUME UNCHANGED step  PROVE Moves(d)
  BY <1>7 DEF Moves
<1> QED
  BY <1>1, <1>2, <1>3, <1>4, <1>6, <1>7 DEF WebhookNext, Execute

LEMMA StoryStep ==
  ASSUME WorkerOK, IInv, RetryInv, [WebhookNext]_allVars, NEW d \in Deliveries, StoryOK(d)
  PROVE  /\ StoryOK(d)'
         /\ WasTaken(d) \/ d \in dead => WasTaken(d)' \/ d \in dead'
<1>1. /\ \A e \in Effects : reply[d][e] # "none" => reply'[d][e] = reply[d][e]
      /\ Moves(d)
      /\ dead \subseteq dead'
      /\ d \in dead' \ dead => step[d] = "exhausted" /\ step'[d] \in {"lettered", "throw"}
  BY Transition
<1>2. (AllRefused(d) => AllRefused(d)') /\ (WasTaken(d) => WasTaken(d)')
  BY <1>1 DEF AllRefused, WasTaken
<1>3. AllRefused(d) => ~WasTaken(d) /\ runs[d] # 0
  <2>1. 1 \in Effects /\ RetryOK(d)
    BY FirstAttempt DEF RetryInv
  <2> QED  BY <2>1 DEF AllRefused, WasTaken, RetryOK, LoopOK, WireOK
<1>4. step'[d] = "exhausted" => AllRefused(d)'
  BY <1>1, <1>2 DEF Moves, Looping, StoryOK
<1>5. d \in dead' => AllRefused(d)' /\ step'[d] \in Over \cup {"lettered"}
  BY <1>1, <1>2, <1>3 DEF Moves, Looping, Over, StoryOK
<1>6. step'[d] = "lettered" => d \in dead'
  BY <1>1 DEF Moves, Looping, StoryOK
<1>7. step'[d] = "done" => WasTaken(d)' \/ d \in dead'
  BY <1>1, <1>2 DEF Moves, Looping, StoryOK
<1> QED  BY <1>1, <1>2, <1>4, <1>5, <1>6, <1>7 DEF StoryOK

LEMMA SuccessStep ==
  ASSUME WorkerOK, IInv, RetryInv, [WebhookNext]_allVars,
         NEW d \in Deliveries, StoryOK(d), SuccessOK(d)
  PROVE  SuccessOK(d)'
<1>1. WasTaken(d) \/ d \in dead => WasTaken(d)' \/ d \in dead'
  BY StoryStep
<1>2. Good(d)' => Good(d) \/ pc[d] = "returned"
  BY JobStep, SuccessFrom, DeliveriesAssumption
<1>3. pc'[d] = "returned" => pc[d] = "returned" \/ WasTaken(d) \/ d \in dead
  <2> USE DEF stores, resumption, worker, wvars, Outside
  <2>0. pc \in [Jobs -> {"none", "working", "returned", "threw"}] /\ d \in Jobs
    BY DeliveriesAssumption DEF IInv, TypeOK
  <2>1. CASE \/ UNCHANGED allVars \/ FindQueued \/ (Recover /\ UNCHANGED wvars)
             \/ \E s \in Subscriptions, how \in {"yes", "no", "removed"} : SetSubscription(s, how)
    BY <2>1 DEF allVars, vars, local, FindQueued, Recover, SetSubscription
  <2>2. CASE CrashWorker
    BY <2>0, <2>2 DEF CrashWorker, Crash
  <2>3. ASSUME NEW k \in Deliveries,
               \/ List(k) \/ AcceptDelivery(k) \/ Resume(k) \/ Abandon(k)
               \/ (Cancel(k) \/ ReconcileSettled(k)) /\ UNCHANGED wvars
               \/ \E e \in Effects : Reply(k, e)
        PROVE  UNCHANGED pc
    BY <2>3 DEF vars, local, List, AcceptDelivery, Accept, Resume, Abandon,
                Cancel, ReconcileSettled, Reply, Answer
  <2>4. ASSUME NEW k \in Deliveries,
               FinishDelivery(k) \/ \E who \in {"event", "resume"} : RunDelivery(k, who)
        PROVE  pc'[d] # "returned" \/ pc'[d] = pc[d]
    BY <2>0, <2>4 DEF FinishDelivery, Finish, RunDelivery, Run, vars, local
  <2>5. ASSUME NEW k \in Deliveries, EndWork(k)
        PROVE  pc'[d] = "returned" => pc[d] = "returned" \/ WasTaken(d) \/ d \in dead
    <3>1. CASE k = d
      BY <2>0, <2>5, <3>1 DEF EndWork, WorkEnds, StoryOK
    <3>2. CASE k # d
      BY <2>0, <2>5, <3>2 DEF EndWork, WorkEnds
    <3> QED  BY <3>1, <3>2
  <2>6. ASSUME NEW k \in Deliveries, Execute(k), ~FinishDelivery(k), ~EndWork(k)
        PROVE  UNCHANGED pc
    BY <2>6 DEF Execute, Begin, BeginEffect, Post, Send, EndWait, Settle, SettleEffect, Unconfirmed,
       Taken, Refused, NextAttempt, DeadLetter, CountDead, Count, Interrupted, vars, local
  <2> QED  BY <2>1, <2>2, <2>3, <2>4, <2>5, <2>6 DEF WebhookNext, Execute
<1> QED  BY <1>1, <1>2, <1>3 DEF SuccessOK

\* A counter is raised only by the step that takes its delivery into the set it
\* is compared with, and no delivery leaves that set.
LEMMA CountsStep ==
  ASSUME WorkerOK, IInv, RetryInv, OutcomeInv, [WebhookNext]_allVars,
         \A d \in Deliveries : StoryOK(d)'
  PROVE  CountsOK'
<1> USE DEF stores, resumption, worker, wvars, Outside
<1> SUFFICES ASSUME NEW s \in Subscriptions
             PROVE  /\ stats'[s].delivered <= Cardinality(DeliveredTo(s)')
                    /\ stats'[s].dead <= Cardinality(DeadOf(s)')
  BY DEF CountsOK
<1>0. dead \subseteq Deliveries /\ dead' \subseteq Deliveries
  BY WorkerStep DEF WorkerOK, WorkerTypes
<1>1. /\ DeliveredTo(s) \in SUBSET Deliveries /\ DeliveredTo(s)' \in SUBSET Deliveries
      /\ DeadOf(s) \in SUBSET Deliveries /\ DeadOf(s)' \in SUBSET Deliveries
  BY <1>0 DEF DeliveredTo, DeadOf
<1>2. ASSUME NEW d \in Deliveries
      PROVE  /\ d \in DeliveredTo(s) => d \in DeliveredTo(s)'
             /\ d \in DeadOf(s) => d \in DeadOf(s)'
  <2>1. /\ \A e \in Effects : reply[d][e] # "none" => reply'[d][e] = reply[d][e]
        /\ Moves(d)
        /\ dead \subseteq dead'
    BY Transition
  <2>2. WasTaken(d) => WasTaken(d)' /\ runs[d] # 0
    BY <2>1 DEF WasTaken, RetryInv, RetryOK, LoopOK, WireOK
  <2>3. StoryOK(d)
    BY DEF OutcomeInv
  <2>4. d \in DeliveredTo(s) => step'[d] \in Over
    BY <2>1, <2>2 DEF DeliveredTo, Moves, Over, Looping
  <2>5. d \in DeadOf(s) => step'[d] # "lettered"
    BY <2>1, <2>3 DEF DeadOf, Moves, Over, Looping, StoryOK
  <2> QED  BY <2>1, <2>2, <2>4, <2>5 DEF DeliveredTo, DeadOf
<1>3. DeliveredTo(s) \subseteq DeliveredTo(s)' /\ DeadOf(s) \subseteq DeadOf(s)'
  BY <1>1, <1>2
<1>4. /\ stats[s].delivered \in Nat /\ stats[s].dead \in Nat
      /\ stats[s].delivered <= Cardinality(DeliveredTo(s))
      /\ stats[s].dead <= Cardinality(DeadOf(s))
  BY DEF OutcomeInv, CountsOK, WorkerOK, WorkerTypes
<1>5. /\ Cardinality(DeliveredTo(s)) \in Nat /\ Cardinality(DeliveredTo(s)') \in Nat
      /\ Cardinality(DeliveredTo(s)) <= Cardinality(DeliveredTo(s)')
      /\ \A k \in DeliveredTo(s)' \ DeliveredTo(s) :
           Cardinality(DeliveredTo(s)) + 1 <= Cardinality(DeliveredTo(s)')
  BY <1>1, <1>3, CardGrows
<1>6. /\ Cardinality(DeadOf(s)) \in Nat /\ Cardinality(DeadOf(s)') \in Nat
      /\ Cardinality(DeadOf(s)) <= Cardinality(DeadOf(s)')
      /\ \A k \in DeadOf(s)' \ DeadOf(s) :
           Cardinality(DeadOf(s)) + 1 <= Cardinality(DeadOf(s)')
  BY <1>1, <1>3, CardGrows
<1>7. CASE stats'[s] = stats[s]
  BY <1>4, <1>5, <1>6, <1>7
<1>8. ASSUME NEW k \in Deliveries, Taken(k), SubscriptionOf[k] = s
      PROVE  /\ stats'[s].delivered \in {stats[s].delivered, stats[s].delivered + 1}
             /\ stats'[s].dead = stats[s].dead
             /\ k \in DeliveredTo(s)' \ DeliveredTo(s)
  <2>1. /\ stats'[s].delivered \in {stats[s].delivered, stats[s].delivered + 1}
        /\ stats'[s].dead = stats[s].dead
    BY <1>8 DEF Taken, Count, WorkerOK, WorkerTypes
  <2>2. step[k] = "settled" /\ step'[k] \in Over /\ UNCHANGED reply /\ WasTaken(k)
    BY <1>8 DEF Taken, Count, Goto, WorkerOK, WorkerTypes, Over, WasTaken
  <2>3. WasTaken(k)'
    BY <2>2 DEF WasTaken
  <2> QED  BY <1>8, <2>1, <2>2, <2>3 DEF DeliveredTo, Over
<1>9. ASSUME NEW k \in Deliveries, CountDead(k), SubscriptionOf[k] = s
      PROVE  /\ stats'[s].dead \in {stats[s].dead, stats[s].dead + 1}
             /\ stats'[s].delivered = stats[s].delivered
             /\ k \in DeadOf(s)' \ DeadOf(s)
  <2>1. /\ stats'[s].dead \in {stats[s].dead, stats[s].dead + 1}
        /\ stats'[s].delivered = stats[s].delivered
    BY <1>9 DEF CountDead, Count, WorkerOK, WorkerTypes
  <2>2. step[k] = "lettered" /\ step'[k] \in Over /\ UNCHANGED dead
    BY <1>9 DEF CountDead, Count, Goto, WorkerOK, WorkerTypes, Over
  <2>3. k \in dead
    BY <2>2 DEF OutcomeInv, StoryOK
  <2> QED  BY <1>9, <2>2, <2>1, <2>3 DEF DeadOf, Over
<1>10. ASSUME NEW k \in Deliveries, Taken(k) \/ CountDead(k), SubscriptionOf[k] # s
       PROVE  stats'[s] = stats[s]
  BY <1>10, DeliveriesAssumption DEF Taken, CountDead, Count, WorkerOK, WorkerTypes
<1>11. ASSUME NEW k \in Deliveries, Execute(k), ~Taken(k), ~CountDead(k)
       PROVE  UNCHANGED stats
  BY <1>11 DEF Execute, Begin, Post, EndWait, Settle, Unconfirmed, Refused,
     NextAttempt, DeadLetter, Interrupted, EndWork, FinishDelivery
<1>12. ASSUME NEW k \in Deliveries,
              \/ List(k) \/ AcceptDelivery(k) \/ Resume(k) \/ Abandon(k)
              \/ (Cancel(k) \/ ReconcileSettled(k)) /\ UNCHANGED wvars
              \/ (\E e \in Effects : Reply(k, e))
              \/ (\E who \in {"event", "resume"} : RunDelivery(k, who))
       PROVE  UNCHANGED stats
  BY <1>12 DEF List, AcceptDelivery, Resume, Abandon, Reply, RunDelivery
<1>13. CASE \/ UNCHANGED allVars \/ FindQueued \/ (Recover /\ UNCHANGED wvars) \/ CrashWorker
            \/ \E t \in Subscriptions, how \in {"yes", "no", "removed"} : SetSubscription(t, how)
  <2>1. UNCHANGED stats
    BY <1>13 DEF allVars, FindQueued, SetSubscription, CrashWorker
  <2> QED  BY <1>7, <2>1
<1>14. ASSUME NEW k \in Deliveries, Taken(k) \/ CountDead(k)
       PROVE  /\ stats'[s].delivered <= Cardinality(DeliveredTo(s)')
              /\ stats'[s].dead <= Cardinality(DeadOf(s)')
  BY <1>4, <1>5, <1>6, <1>7, <1>8, <1>9, <1>10, <1>14
<1> QED
  BY <1>7, <1>11, <1>12, <1>13, <1>14 DEF WebhookNext

\* What the stores say of a delivery is what the receiver did: dead letters were
\* refused every time, a success was taken or is a dead letter, and the counters
\* do not run ahead, for any deliveries and attempts (worker.ts:250, 294-306).
THEOREM OutcomesAreTrueHolds == WebhookSpec => []OutcomesAreTrue
<1>1. WorkerOK /\ IInv /\ RetryInv /\ OutcomeInv /\ [WebhookNext]_allVars => OutcomeInv'
  <2> SUFFICES ASSUME WorkerOK, IInv, RetryInv, OutcomeInv, [WebhookNext]_allVars
               PROVE  OutcomeInv'
    OBVIOUS
  <2>1. ASSUME NEW d \in Deliveries  PROVE StoryOK(d)' /\ SuccessOK(d)'
    BY StoryStep, SuccessStep DEF OutcomeInv
  <2>2. CountsOK'
    BY <2>1, CountsStep
  <2> QED  BY <2>1, <2>2 DEF OutcomeInv
<1>2. WorkerOK /\ OutcomeInv => OutcomesAreTrue
  <2> SUFFICES ASSUME WorkerOK, OutcomeInv  PROVE OutcomesAreTrue
    OBVIOUS
  <2> DEFINE taken == {d \in Deliveries : \E e \in Effects : reply[d][e] = "accepted"}
             Of(s, D) == {d \in D : SubscriptionOf[d] = s}
  <2>1. \A d \in dead, e \in Effects : reply[d][e] = "refused"
    BY DEF OutcomeInv, StoryOK, AllRefused, WorkerOK, WorkerTypes
  <2>2. \A d \in Deliveries : job[d].state = "succeeded" => d \in taken \cup dead
    BY DEF OutcomeInv, SuccessOK, Good, WasTaken
  <2>3. ASSUME NEW s \in Subscriptions
        PROVE  /\ stats[s].delivered <= Cardinality(Of(s, taken))
               /\ stats[s].dead <= Cardinality(Of(s, dead))
    <3>1. /\ DeliveredTo(s) \in SUBSET Deliveries /\ Of(s, taken) \in SUBSET Deliveries
          /\ DeadOf(s) \in SUBSET Deliveries /\ Of(s, dead) \in SUBSET Deliveries
          /\ DeliveredTo(s) \subseteq Of(s, taken) /\ DeadOf(s) \subseteq Of(s, dead)
      BY DEF DeliveredTo, DeadOf, WasTaken, WorkerOK, WorkerTypes
    <3>2. /\ stats[s].delivered \in Nat /\ stats[s].dead \in Nat
          /\ stats[s].delivered <= Cardinality(DeliveredTo(s))
          /\ stats[s].dead <= Cardinality(DeadOf(s))
      BY DEF OutcomeInv, CountsOK, WorkerOK, WorkerTypes
    <3> HIDE DEF taken, Of
    <3>3. /\ Cardinality(DeliveredTo(s)) \in Nat /\ Cardinality(Of(s, taken)) \in Nat
          /\ Cardinality(DeliveredTo(s)) <= Cardinality(Of(s, taken))
      BY <3>1, CardGrows
    <3>4. /\ Cardinality(DeadOf(s)) \in Nat /\ Cardinality(Of(s, dead)) \in Nat
          /\ Cardinality(DeadOf(s)) <= Cardinality(Of(s, dead))
      BY <3>1, CardGrows
    <3> QED  BY <3>2, <3>3, <3>4
  <2> QED  BY <2>1, <2>2, <2>3 DEF OutcomesAreTrue
<1> QED
  BY <1>1, <1>2, OutcomeInit, RetryInvariance, WorkerInvariance, ImplementsJobs, Invariance, PTL
  DEF WebhookSpec, allVars
=============================================================================
