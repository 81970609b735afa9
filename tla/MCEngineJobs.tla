---------------------------- MODULE MCEngineJobs ----------------------------
(***************************************************************************)
(* Model checking instance of EngineJobs and Webhooks: two jobs of         *)
(* arbitrary work on one lane, one of them bound to its session, and two   *)
(* deliveries to one subscription.  The two pairs share no lane: subject,  *)
(* chosen at the start, says which of them a behaviour is about.           *)
(***************************************************************************)
EXTENDS Webhooks, TLC

CONSTANTS j1, j2, lane,  \* the jobs of arbitrary work
          d1, d2, hook   \* the deliveries of an event and of a test, their subscription

VARIABLE subject

MCLanesOf == [j \in {j1, j2} |-> {lane}] @@ [d \in {d1, d2} |-> {hook}]
MCSubscriptionOf == [d \in {d1, d2} |-> hook]

\* Arbitrary work: one effect of each job is enough.
Work ==
  /\ Next
  /\ job'[d1].state = "absent" /\ job'[d2].state = "absent"
  /\ \A j \in Jobs : job'[j].effects[2] = "none"
  /\ UNCHANGED wvars

\* Bounds: the first delivery is listed by the first process and the second one
\* after it, with one attempt and no cancellation but the resumption's; only the
\* second process looks for queued deliveries, and its waits end by a cancellation.
Deliver ==
  /\ WebhookNext
  /\ asked'[d1] # asked[d1] => process = 1 \/ asked'[d1] = "no"
  /\ asked'[d2] # "no" => asked'[d1] # "no" \/ job'[d1].state # "absent"
  /\ job'[d2].effects[2] = "none"
  /\ looked' => process > 1
  /\ job'[d2].cancel /\ up => job[d2].cancel \/ current' # current \/ left' # left
  /\ \A d \in Deliveries : current = d /\ current' = None /\ runner'[d] = "resume" => job[d].cancel

MCInit == WebhookInit /\ subject \in {"work", "webhooks"}

MCNext ==
  /\ \/ subject = "work" /\ Work
     \/ subject = "webhooks" /\ Deliver
  /\ UNCHANGED subject

MCSpec == MCInit /\ [][MCNext]_<<subject, vars, wvars>> /\ WF_vars(Recover)
=============================================================================
