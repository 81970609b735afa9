------------------------------ MODULE Webhooks ------------------------------
(***************************************************************************)
(* Outbound webhook deliveries (src/src/webhooks/worker.ts and store.ts):  *)
(* an event for a subscription becomes one durable engine job whose work   *)
(* posts the same body until the receiver takes it, up to MaxAttempts      *)
(* times, or the job is left for recovery.                                 *)
(*                                                                         *)
(* A delivery is a job of EngineJobs, and its work is the loop of          *)
(* executeDelivery: every step below is one of that module's steps, or     *)
(* leaves the job store alone.  The attempts are the job's effects, and    *)
(* the subscription is its only lane.                                      *)
(*                                                                         *)
(* What the work awaits can always fail: the signal is aborted by a        *)
(* cancellation, the deadline or the shutdown, a store refuses a write     *)
(* under a revoked fence, a publication throws before or after it is       *)
(* durable.  webhook_replay rebuilds its event from a field that stored    *)
(* bodies do not have (tools/webhooks.ts:199): it throws before it         *)
(* delivers, the entry stays as it is, and it is no step.                  *)
(***************************************************************************)
EXTENDS EngineJobs

CONSTANTS
  Deliveries,      \* jobs that deliver one event to one subscription
  Tests,           \* those of webhook_test, which looks at no enabled flag
  Subscriptions,   \* registered subscriptions
  SubscriptionOf,  \* the subscription of each delivery
  MaxAttempts      \* 5 in the code

ASSUME DeliveriesAssumption ==
  /\ Deliveries \subseteq Jobs \ SessionJobs
  /\ Tests \subseteq Deliveries
  /\ SubscriptionOf \in [Deliveries -> Subscriptions]
  /\ \A d \in Deliveries : LanesOf[d] = {SubscriptionOf[d]}
ASSUME AttemptsAssumption == MaxAttempts \in Nat \ {0} /\ Effects = 1..MaxAttempts
ASSUME NoDeliveryAssumption == None \notin Deliveries

VARIABLES
  enabled,   \* webhook_subscriptions.json: "yes", "no" or "removed"
  stats,     \* its counters of delivered events and of dead letters
  dead,      \* webhook_dead_letter.json
  reply,     \* what the receiver made of each request
  asked,     \* how far deliver has come for an event: "no", "listed", "accepted"
  looked,    \* resumeQueuedDeliveries has read the job store in this process
  left,      \* deliveries it found there and has still to look at
  current,   \* the one it is about to run, or runs; None
  runner,    \* who runs the work: "nobody", "event" or "resume"
  step,      \* where executeDelivery is
  attempt    \* its loop counter

stores == <<enabled, stats, dead>>
resumption == <<looked, left, current>>
worker == <<asked, resumption, runner, step, attempt>>
wvars == <<stores, reply, worker>>

Steps == {"idle", "begin", "post", "wait", "answered", "settled", "unconfirmed",
          "backoff", "exhausted", "lettered", "done", "throw"}

WebhookTypeOK ==
  /\ TypeOK
  /\ enabled \in [Subscriptions -> {"yes", "no", "removed"}]
  /\ stats \in [Subscriptions -> [delivered : Nat, dead : Nat]]
  /\ dead \subseteq Deliveries /\ left \subseteq Deliveries /\ looked \in BOOLEAN
  /\ reply \in [Deliveries -> [Effects -> {"none", "accepted", "refused"}]]
  /\ asked \in [Deliveries -> {"no", "listed", "accepted"}]
  /\ current \in Deliveries \cup {None}
  /\ runner \in [Deliveries -> {"nobody", "event", "resume"}]
  /\ step \in [Deliveries -> Steps]
  /\ attempt \in [Deliveries -> Effects]

WebhookInit ==
  /\ Init
  /\ enabled = [s \in Subscriptions |-> "yes"]
  /\ stats = [s \in Subscriptions |-> [delivered |-> 0, dead |-> 0]]
  /\ dead = {} /\ left = {} /\ current = None /\ looked = FALSE
  /\ reply = [d \in Deliveries |-> [e \in Effects |-> "none"]]
  /\ asked = [d \in Deliveries |-> "no"]
  /\ runner = [d \in Deliveries |-> "nobody"]
  /\ step = [d \in Deliveries |-> "idle"]
  /\ attempt = [d \in Deliveries |-> 1]

Goto(d, s) == step' = [step EXCEPT ![d] = s]

-----------------------------------------------------------------------------
(***************************************************************************)
(* Subscriptions and what becomes a job                                    *)
(***************************************************************************)
\* setEnabled and removeSubscription.
SetSubscription(s, how) ==
  /\ enabled[s] \notin {how, "removed"}
  /\ enabled' = [enabled EXCEPT ![s] = how]
  /\ UNCHANGED <<vars, stats, dead, reply, worker>>

\* dispatchEvent lists the subscription, webhook_test gets it; nobody reads its
\* enabled flag again for this delivery in this process.
List(d) ==
  /\ up /\ asked[d] = "no" /\ job[d].state = "absent"
  /\ \/ enabled[SubscriptionOf[d]] = "yes"
     \/ d \in Tests /\ enabled[SubscriptionOf[d]] = "no"
  /\ asked' = [asked EXCEPT ![d] = "listed"]
  /\ UNCHANGED <<vars, stores, reply, resumption, runner, step, attempt>>

AcceptDelivery(d) ==
  /\ asked[d] = "listed"
  /\ Accept(d)
  /\ asked' = [asked EXCEPT ![d] = "accepted"]
  /\ UNCHANGED <<stores, reply, resumption, runner, step, attempt>>

\* Startup: the accepted deliveries whose work never started.
FindQueued ==
  /\ up /\ ~looked
  /\ looked' = TRUE
  /\ left' = {d \in Deliveries : job[d].state \in Dispatchable}
  /\ UNCHANGED <<vars, stores, reply, asked, current, runner, step, attempt>>

\* One after the other: a delivery whose subscription is gone is cancelled.  A
\* store that fails ends the resumption.
Resume(d) ==
  /\ current = None /\ d \in left
  /\ \/ enabled[SubscriptionOf[d]] = "yes" /\ current' = d /\ left' = left \ {d} /\ UNCHANGED vars
     \/ /\ enabled[SubscriptionOf[d]] # "yes" /\ left' \in {left \ {d}, {}}
        /\ Cancel(d) \/ (~Open(job[d]) /\ UNCHANGED vars)
        /\ UNCHANGED current
     \/ left' = {} /\ UNCHANGED <<vars, current>>
  /\ UNCHANGED <<stores, reply, asked, looked, runner, step, attempt>>

\* An abort ends the wait for the run, whose work has still to end.
Abandon(d) ==
  /\ current = d /\ runner[d] = "resume"
  /\ current' = None
  /\ UNCHANGED <<vars, stores, reply, asked, looked, left, runner, step, attempt>>

\* jobs.run for an event or for the resumption: it starts the work, finds the
\* lane taken, or is refused since the job is no longer dispatchable.
RunDelivery(d, who) ==
  /\ IF who = "event" THEN asked[d] = "accepted" ELSE current = d /\ runner[d] # "resume"
  /\ Run(d) \/ (job[d].state \notin Dispatchable /\ UNCHANGED vars)
  /\ LET starts == pc[d] = "none" /\ pc'[d] = "working"
     IN /\ step' = [step EXCEPT ![d] = IF starts THEN "begin" ELSE @]
        /\ runner' = [runner EXCEPT ![d] = IF starts THEN who ELSE @]
        /\ asked' = [asked EXCEPT ![d] = IF who = "event" THEN "no" ELSE @]
        /\ current' = IF who = "resume" /\ ~starts THEN None ELSE current
  /\ UNCHANGED <<stores, reply, looked, left, attempt>>

-----------------------------------------------------------------------------
(***************************************************************************)
(* executeDelivery: one attempt                                            *)
(***************************************************************************)
Outside == UNCHANGED <<stores, asked, resumption, runner>>

\* The intent of this attempt is durable before anything is sent.
Begin(d) ==
  /\ step[d] = "begin"
  /\ BeginEffect(d, attempt[d])
  /\ Goto(d, IF intent'[d] = None THEN "throw" ELSE "post")
  /\ UNCHANGED <<reply, attempt>> /\ Outside

\* The request leaves only under a current fence.
Post(d) ==
  /\ step[d] = "post"
  /\ Send(d)
  /\ sent' # sent => AssertCurrent(d)
  /\ Goto(d, IF sent' # sent THEN "wait" ELSE "unconfirmed")
  /\ UNCHANGED <<reply, attempt>> /\ Outside

\* The receiver takes or refuses the request, whatever became of its sender.
Reply(d, e) ==
  /\ Answer(d, e)
  /\ \E r \in {"accepted", "refused"} : reply' = [reply EXCEPT ![d][e] = r]
  /\ UNCHANGED <<stores, worker>>

\* The response arrives, or the wait ends in a timeout, an abort or a lost
\* connection, before or after the receiver answered.
EndWait(d) ==
  /\ step[d] = "wait"
  /\ \/ wire[d][attempt[d]] = "answered" /\ Goto(d, "answered")
     \/ Goto(d, "unconfirmed")
  /\ UNCHANGED <<vars, reply, attempt>> /\ Outside

\* settleExternalEffect(true), which may throw before or after it is durable.
Settle(d) ==
  /\ step[d] = "answered"
  /\ \/ SettleEffect(d, attempt[d]) /\ job'[d].effects[attempt[d]] = "acknowledged"
        /\ \E s \in {"settled", "unconfirmed"} : Goto(d, s)
     \/ UNCHANGED vars /\ Goto(d, "unconfirmed")
  /\ UNCHANGED <<reply, attempt>> /\ Outside

\* Faulty Unconfirmed: a transport error is retried like a refusal.
UnconfirmedRetried(d) ==
  /\ step[d] = "unconfirmed"
  /\ UNCHANGED vars
  /\ Goto(d, IF attempt[d] = MaxAttempts THEN "exhausted" ELSE "backoff")
  /\ UNCHANGED <<reply, attempt>> /\ Outside

\* The catch: the attempt's fate is unknown, unless its acknowledgement became
\* durable, which refuses the change.  The work throws either way.
Unconfirmed(d) ==
  /\ step[d] = "unconfirmed"
  /\ \/ SettleEffect(d, attempt[d]) /\ job'[d].effects[attempt[d]] = "unknown"
     \/ UNCHANGED vars
  /\ Goto(d, "throw")
  /\ UNCHANGED <<reply, attempt>> /\ Outside

-----------------------------------------------------------------------------
(***************************************************************************)
(* executeDelivery: between attempts, and the end                          *)
(***************************************************************************)
\* recordDeliveryOutcome under a current fence; it may throw once it is durable.
Count(d, what) ==
  LET s == SubscriptionOf[d]
  IN /\ AssertCurrent(d)
     /\ stats' = [stats EXCEPT ![s][what] = IF enabled[s] = "removed" THEN @ ELSE @ + 1]
     /\ \E to \in {"done", "throw"} : Goto(d, to)
     /\ UNCHANGED <<vars, enabled, dead, reply, asked, resumption, runner, attempt>>

Taken(d) ==
  /\ step[d] = "settled" /\ reply[d][attempt[d]] = "accepted"
  /\ Count(d, "delivered")

\* Faulty Refused: the last refusal ends the delivery without a dead letter.
RefusedSilently(d) ==
  /\ step[d] = "settled" /\ reply[d][attempt[d]] = "refused"
  /\ AssertCurrent(d)
  /\ \E to \in {IF attempt[d] = MaxAttempts THEN "done" ELSE "backoff", "throw"} : Goto(d, to)
  /\ UNCHANGED <<vars, reply, attempt>> /\ Outside

\* The failure is recorded; its counter is left out.
Refused(d) ==
  /\ step[d] = "settled" /\ reply[d][attempt[d]] = "refused"
  /\ AssertCurrent(d)
  /\ \E to \in {IF attempt[d] = MaxAttempts THEN "exhausted" ELSE "backoff", "throw"} : Goto(d, to)
  /\ UNCHANGED <<vars, reply, attempt>> /\ Outside

NextAttempt(d) ==
  /\ step[d] = "backoff"
  /\ attempt' = [attempt EXCEPT ![d] = @ + 1]
  /\ Goto(d, "begin")
  /\ UNCHANGED <<vars, reply>> /\ Outside

DeadLetter(d) ==
  /\ step[d] = "exhausted" /\ AssertCurrent(d)
  /\ dead' = dead \cup {d}
  /\ \E to \in {"lettered", "throw"} : Goto(d, to)
  /\ UNCHANGED <<vars, enabled, stats, reply, asked, resumption, runner, attempt>>

CountDead(d) == step[d] = "lettered" /\ Count(d, "dead")

\* An aborted signal, a revoked fence, a deadline or a store that cannot be written.
Interrupted(d) ==
  /\ step[d] \in {"begin", "settled", "backoff", "exhausted", "lettered"}
  /\ Goto(d, "throw")
  /\ UNCHANGED <<vars, reply, attempt>> /\ Outside

EndWork(d) ==
  /\ step[d] \in {"done", "throw"}
  /\ WorkEnds(d)
  /\ step[d] = "throw" => pc'[d] = "threw"
  /\ Goto(d, "idle")
  /\ UNCHANGED <<reply, attempt>> /\ Outside

FinishDelivery(d) ==
  /\ Finish(d)
  /\ IF pc'[d] = "none"
     THEN /\ runner' = [runner EXCEPT ![d] = "nobody"]
          /\ current' = IF runner[d] = "resume" /\ current = d THEN None ELSE current
     ELSE UNCHANGED <<runner, current>>
  /\ UNCHANGED <<stores, reply, asked, looked, left, step, attempt>>

-----------------------------------------------------------------------------
CrashWorker ==
  /\ Crash
  /\ asked' = [d \in Deliveries |-> "no"]
  /\ looked' = FALSE /\ left' = {} /\ current' = None
  /\ runner' = [d \in Deliveries |-> "nobody"]
  /\ step' = [d \in Deliveries |-> "idle"]
  /\ attempt' = [d \in Deliveries |-> 1]
  /\ UNCHANGED <<stores, reply>>

Execute(d) ==
  \/ Begin(d) \/ Post(d) \/ EndWait(d) \/ Settle(d) \/ Unconfirmed(d)
  \/ Taken(d) \/ Refused(d) \/ NextAttempt(d) \/ DeadLetter(d) \/ CountDead(d)
  \/ Interrupted(d) \/ EndWork(d) \/ FinishDelivery(d)

WebhookNext ==
  \/ \E s \in Subscriptions, how \in {"yes", "no", "removed"} : SetSubscription(s, how)
  \/ FindQueued
  \/ \E d \in Deliveries :
       \/ List(d) \/ AcceptDelivery(d) \/ Resume(d) \/ Abandon(d)
       \/ \E who \in {"event", "resume"} : RunDelivery(d, who)
       \/ Execute(d)
       \/ \E e \in Effects : Reply(d, e)
       \/ (Cancel(d) \/ ReconcileSettled(d)) /\ UNCHANGED wvars
  \/ Recover /\ UNCHANGED wvars
  \/ CrashWorker

WebhookSpec == WebhookInit /\ [][WebhookNext]_<<vars, wvars>>

-----------------------------------------------------------------------------
(***************************************************************************)
(* Properties                                                              *)
(***************************************************************************)

\* A receiver gets a second request for an event only after it refused the
\* first and that refusal was recorded: never after a timeout, a lost answer, a
\* crash or an acceptance (worker.ts:265-271).  "Transport uncertainty holds the
\* lane [...]; it is never silently retried.  Known non-2xx responses allow
\* bounded retries" (docs/ashoka/engine-jobs.md:19; docs/workflows.md:454).
RetriedOnlyAfterRefusal ==
  \A d \in Deliveries, e, f \in Effects :
    e < f /\ sent[d][f] > 0 =>
      reply[d][e] = "refused" /\ job[d].effects[e] = "acknowledged"

\* What the stores say of a delivery is what the receiver did: a dead letter was
\* refused every time, a delivery that succeeded was taken or has a dead letter,
\* and no counter runs ahead of that (worker.ts:250, 294-306).
OutcomesAreTrue ==
  LET taken == {d \in Deliveries : \E e \in Effects : reply[d][e] = "accepted"}
      Of(s, D) == {d \in D : SubscriptionOf[d] = s}
  IN /\ \A d \in dead, e \in Effects : reply[d][e] = "refused"
     /\ \A d \in Deliveries : job[d].state = "succeeded" => d \in taken \cup dead
     /\ \A s \in Subscriptions : /\ stats[s].delivered <= Cardinality(Of(s, taken))
                                 /\ stats[s].dead <= Cardinality(Of(s, dead))

\* "Non-2xx, network errors, and timeouts all retry.  After exhausting attempts,
\* the entry is appended to webhook_dead_letter.json" (worker.ts:20-22): work
\* that nobody cancelled does not end on a request whose fate it recorded as
\* unknown, unless it made another attempt or left a dead letter.
UncertainAttemptsAreRetried ==
  \A d \in Deliveries, e \in Effects :
    /\ sent[d][e] > 0 /\ job[d].effects[e] = "unknown"
    /\ job[d].settled /\ ~job[d].cancel
    => d \in dead \/ \E f \in Effects : e < f /\ sent[d][f] > 0
=============================================================================
