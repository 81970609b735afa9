----------------------- MODULE ComputerSession_proofs -----------------------
(***************************************************************************)
(* Proofs about ComputerSession, for any set of actions and any bounds.    *)
(*                                                                         *)
(* Four arguments, each with a part of the inductive invariant.  The       *)
(* operation in flight tells what the journal, the job and the target say  *)
(* of its action (OpOK, AccountsOK).  A stop is acknowledged only in the   *)
(* steps that follow a proof of the worker's end (StopOK).  No intent is   *)
(* written in a paused session, and no pause acknowledged over one         *)
(* (PauseOK).  A session that nothing has aborted runs one protocol of     *)
(* pauses and resumes, in which the fences of journal and binding move in  *)
(* turn (LiveOK): the fence an action was asked for is therefore still     *)
(* everybody's fence when the worker is called and no pause was asked for. *)
(***************************************************************************)
EXTENDS ComputerSession, TLAPS

-----------------------------------------------------------------------------
(***************************************************************************)
(* Types of the records                                                    *)
(***************************************************************************)
JournalStates == {"created", "ready", "running", "paused", "stopping", "stopped", "recovery_required"}
Journals == [state : JournalStates, fence : Nat, gen : Nat, seen : Nat, stop : StopStates,
             pause : StopStates, receipt : [Actions -> Receipts]]
EffectRecords == [Effects -> {"none", "dispatched", "acknowledged", "unknown"}]
Jobs == [state : {"running", "recovery_required", "final"}, settled : BOOLEAN]
Brokers == [pc : {"begin", "worker", "ready", "bind", "binding", "open", "failed", "lost"},
            aborted : BOOLEAN, stopping : BOOLEAN, returned : BOOLEAN, listed : BOOLEAN,
            opened : BOOLEAN, pauseRequested : BOOLEAN]
BindingStates == {"none", "ready", "paused", "stopping"}
Bindings == [state : BindingStates, fence : Nat, gen : Nat]
Operations == [pc : {"idle", "review", "prepare", "begin", "input", "granted", "acting", "replied",
                     "recorded", "settle", "acknowledge", "undo", "undone"},
               action : Actions \cup {NoAction}, fence : Nat, gen : Nat, sent : BOOLEAN,
               result : {"none", "seen", "refused", "met", "unmet"}]
Pausings == {"none", "request", "drain", "worker", "ack", "done", "failed", "stop"}
Resumings == [pc : {"none", "check", "worker", "journal", "control", "record", "update", "stop"}, fence : Nat]
StopperRecords == [Stoppers -> {"idle", "release", "request", "proof", "ack", "lifetime", "unknown", "reconcile"}]
Workers == [state : {"forked", "open", "terminated", "dead"}, fenced : BOOLEAN, released : BOOLEAN,
            paused : BOOLEAN, gen : Nat, busy : Actions \cup {NoAction}]

\* The type invariant with its records named, for both states of a step.
LEMMA Types ==
  /\ SessionTypeOK <=>
       /\ journal \in Journals /\ effect \in EffectRecords /\ job \in Jobs /\ grant \in BOOLEAN
       /\ broker \in Brokers /\ binding \in Bindings /\ op \in Operations
       /\ pausing \in Pausings /\ resuming \in Resumings /\ stopper \in StopperRecords
       /\ worker \in Workers /\ delivered \in [Actions -> BOOLEAN] /\ events \in Nat
  /\ SessionTypeOK' <=>
       /\ journal' \in Journals /\ effect' \in EffectRecords /\ job' \in Jobs /\ grant' \in BOOLEAN
       /\ broker' \in Brokers /\ binding' \in Bindings /\ op' \in Operations
       /\ pausing' \in Pausings /\ resuming' \in Resumings /\ stopper' \in StopperRecords
       /\ worker' \in Workers /\ delivered' \in [Actions -> BOOLEAN] /\ events' \in Nat
  BY DEF SessionTypeOK, Journals, JournalStates, EffectRecords, Jobs, Brokers, Bindings,
     BindingStates,
         Operations, Pausings, Resumings, StopperRecords, Workers

\* The fields that are counted on.
LEMMA Numbers ==
  ASSUME SessionTypeOK
  PROVE  /\ journal \in Journals /\ binding \in Bindings
         /\ {journal.fence, journal.fence + 1, journal.gen, journal.seen} \subseteq Nat
         /\ {binding.fence, binding.fence + 1, binding.gen} \subseteq Nat
         /\ {worker.gen, worker.gen + 1, resuming.fence, op.fence, op.gen} \subseteq Nat
<1>1. /\ journal \in Journals /\ binding \in Bindings /\ worker \in Workers
      /\ resuming \in Resumings /\ op \in Operations
  BY Types
<1>2. {journal.fence, journal.gen, journal.seen} \subseteq Nat
  BY <1>1 DEF Journals
<1>3. {binding.fence, binding.gen} \subseteq Nat
  BY <1>1 DEF Bindings
<1>4. worker.gen \in Nat /\ resuming.fence \in Nat /\ {op.fence, op.gen} \subseteq Nat
  BY <1>1 DEF Workers, Resumings, Operations
<1> QED  BY <1>1, <1>2, <1>3, <1>4

\* The writes of the binding.
LEMMA BindingWrites ==
  /\ \A b \in Bindings, s \in BindingStates, f \in Nat : [b EXCEPT !.state = s, !.fence = f] \in Bindings
  /\ \A b \in Bindings, g \in Nat : [b EXCEPT !.gen = g] \in Bindings
  BY DEF Bindings

LEMMA NoOpType == NoOp \in Operations
  BY DEF NoOp, Operations

-----------------------------------------------------------------------------
(***************************************************************************)
(* The inductive invariant                                                 *)
(***************************************************************************)
\* The operation in flight: the receipt and the effect of its action tell how
\* far it came, and an action that was not sent is nowhere.
OpOK ==
  /\ op.pc = "idle" => op = NoOp
  /\ op.action = NoAction => op.pc \in {"idle", "replied", "recorded"}
  /\ op.action \in Actions =>
       /\ op.pc \in {"review", "prepare"} => journal.receipt[op.action] = "none" /\ ~op.sent
       /\ op.pc \in {"begin", "input", "granted"} => ~op.sent
       /\ op.pc \in {"acting", "replied", "recorded", "settle"} => op.sent
       /\ op.pc \in {"begin", "input", "granted", "acting", "replied", "recorded", "settle", "undo"} =>
            journal.receipt[op.action] = "dispatched"
       /\ op.pc = "acknowledge" => journal.receipt[op.action] \in {"cancelled", "verified", "failed"}
       /\ op.pc = "undone" => journal.receipt[op.action] = IF op.sent THEN "unknown" ELSE "cancelled"
       /\ op.pc \in {"replied", "recorded", "settle"} =>
            /\ worker.busy # op.action
            /\ \/ op.result = "refused" /\ ~delivered[op.action]
               \/ op.result \in {"met", "unmet"} /\ delivered[op.action]
       /\ ~op.sent => worker.busy # op.action /\ ~delivered[op.action]
       /\ op.pc \in {"input", "granted"} => effect[op.action] = "dispatched"
       /\ op.sent /\ op.pc # "idle" => effect[op.action] = "dispatched"

InDoubt(a) == journal.receipt[a] \in Open /\ effect[a] \in {"dispatched", "unknown"}

\* What the worker holds or has delivered is in doubt until it has an outcome, and
\* nothing in doubt is acknowledged to the job.
AccountsOK ==
  /\ \A a \in Actions :
       /\ worker.busy = a => InDoubt(a)
       /\ delivered[a] => InDoubt(a) \/ journal.receipt[a] \in {"verified", "failed"}
       /\ journal.receipt[a] \in {"verified", "failed"} => delivered[a]
       /\ journal.receipt[a] = "unknown" => InDoubt(a)
  /\ job.state = "final" => AllAcknowledged

\* A stop is acknowledged only by the end of the worker.
StopOK ==
  /\ \A i \in Stoppers : stopper[i] \in {"ack", "lifetime"} => worker.state = "terminated"
  /\ journal.stop = "acknowledged" => worker.state = "terminated" /\ journal.state = "stopped"
  /\ effect[Lifetime] = "acknowledged" => worker.state = "terminated"

\* An acknowledged pause admits no intent and leaves none open.
PauseOK ==
  journal.pause = "acknowledged" => ~Active(journal) /\ \A a \in Actions : journal.receipt[a] \notin Open

\* Nothing is under way but in an open session.
OpeningOK == broker.pc # "open" => op.pc = "idle" /\ pausing = "none" /\ resuming.pc = "none"

\* The fences of the journal and the binding, as far as a pause or a resume has come.
FencesOK ==
  /\ broker.pauseRequested <=> pausing # "none"
  /\ pausing = "none" =>
       /\ binding.state = "ready" /\ binding.fence = journal.fence
       /\ journal.pause = "not_requested" /\ journal.state \in {"ready", "running"}
  /\ pausing = "request" =>
       /\ binding.state = "paused" /\ binding.fence = journal.fence + 1
       /\ journal.pause = "not_requested" /\ journal.state \in {"ready", "running"}
  /\ pausing \in {"drain", "worker", "ack", "failed"} =>
       /\ binding.state = "paused" /\ binding.fence = journal.fence
       /\ journal.pause = "requested" /\ journal.state \in {"ready", "running"}
  /\ pausing # "done" => resuming.pc = "none"
  /\ pausing = "done" /\ resuming.pc \notin {"control", "record", "update"} =>
       /\ binding.state = "paused" /\ binding.fence = journal.fence
       /\ journal.pause = "acknowledged" /\ journal.state = "paused"
  /\ resuming.pc = "control" =>
       /\ binding.state = "paused" /\ journal.fence = binding.fence + 1 /\ resuming.fence = journal.fence
       /\ journal.pause = "not_requested" /\ journal.state = "ready"
  /\ resuming.pc \in {"record", "update"} =>
       /\ binding.state = "ready" /\ binding.fence = journal.fence
       /\ journal.pause = "not_requested" /\ journal.state = "ready"

\* The generations, and the operation in flight beside a pause.
GenerationsOK ==
  /\ op.pc # "idle" => pausing \in {"none", "request", "drain"}
  /\ op.pc # "recorded" /\ resuming.pc # "update" => binding.gen = journal.gen
  /\ resuming.pc = "update" => journal.gen = worker.gen
  /\ op.pc \in {"begin", "input", "granted"} =>
       op.gen = journal.gen /\ (pausing = "none" => op.fence = journal.fence)

\* The session is neither stopping nor lost.
Running ==
  /\ journal.stop = "not_requested" /\ binding.state # "stopping" /\ ~broker.stopping
  /\ \A i \in Stoppers : stopper[i] = "idle"
  /\ broker.pc # "lost"

\* The journal until the binding is there.
UnboundOK ==
  /\ broker.pc # "open" => ~broker.pauseRequested
  /\ broker.pc \in {"begin", "worker", "ready"} =>
       journal.state = "created" /\ journal.fence = 0 /\ journal.gen = 1 /\ journal.pause = "not_requested"
  /\ broker.pc = "bind" =>
       journal.state = "ready" /\ journal.fence = 1 /\ journal.gen = 1 /\ journal.pause = "not_requested"

\* A session that nothing has aborted runs, and its journal and its binding go together.
LiveOK == ~broker.aborted => /\ Running /\ UnboundOK
                             /\ broker.pc \in {"binding", "open"} => FencesOK /\ GenerationsOK

IInv == SessionTypeOK /\ OpOK /\ AccountsOK /\ StopOK /\ PauseOK /\ OpeningOK /\ LiveOK

\* The action of the operation in flight, where it has one.
LEMMA Acting ==
  ASSUME SessionTypeOK, OpOK, op.pc \notin {"idle", "replied", "recorded"}
  PROVE  op.action \in Actions
<1>1. op.action \in Actions \cup {NoAction}
  BY Types DEF Operations
<1> QED  BY <1>1 DEF OpOK

-----------------------------------------------------------------------------
(***************************************************************************)
(* Every step keeps the types                                              *)
(***************************************************************************)
LEMMA OpeningTypes ==
  ASSUME SessionTypeOK,
         BeginLifetime \/ OpenWorker \/ ReadyJournal \/ Bind \/ Bound
  PROVE  SessionTypeOK'
<1> USE DEF durable, memory, control, data, doing, rest, daemon
<1>1. CASE BeginLifetime
  <2>1. effect' \in EffectRecords
    BY <1>1, Types DEF BeginLifetime, JobCurrent, EffectRecords, Effects
  <2>2. broker' \in Brokers
    BY <1>1, Types DEF BeginLifetime, JobCurrent, Brokers
  <2> QED  BY <1>1, <2>1, <2>2, Types DEF BeginLifetime
<1>2. CASE OpenWorker
  <2>1. broker' \in Brokers
    BY <1>2, Types DEF OpenWorker, Brokers
  <2>2. worker' \in Workers
    BY <1>2, Types DEF OpenWorker, Workers
  <2> QED  BY <1>2, <2>1, <2>2, Types DEF OpenWorker
<1>3. CASE ReadyJournal
  <2>1. journal' \in Journals
    <3>1. [journal EXCEPT !.state = "ready", !.fence = journal.fence + 1] \in Journals
      BY Numbers DEF Journals, JournalStates, StopStates
    <3> QED  BY <1>3, <3>1, Numbers DEF ReadyJournal
  <2>2. broker' \in Brokers
    BY <1>3, Types DEF ReadyJournal, Brokers
  <2> QED  BY <1>3, <2>1, <2>2, Types DEF ReadyJournal
<1>4. CASE Bind
  <2>1. broker' \in Brokers
    BY <1>4, Types DEF Bind, Brokers
  <2>2. binding' \in Bindings
    BY <1>4, Types DEF Bind, Bindings, BindingStates
  <2> QED  BY <1>4, <2>1, <2>2, Types DEF Bind
<1>5. CASE Bound
  <2>1. broker' \in Brokers
    BY <1>5, Types DEF Bound, Brokers
  <2> QED  BY <1>5, <2>1, Types DEF Bound
<1> QED  BY <1>1, <1>2, <1>3, <1>4, <1>5

LEMMA OperationTypes ==
  ASSUME SessionTypeOK, OpOK,
         Observe \/ (\E a \in Actions : Act(a)) \/ Review \/ Prepare \/ BeginEffect \/ AssertInput \/ Dispatch \/ Answer
         \/ AnswerLost \/ Record \/ UpdateTarget \/ Settle \/ AcknowledgeEffect \/ Undo \/ UndoEffect
  PROVE  SessionTypeOK'
<1> USE DEF durable, memory, control, data, doing, rest, daemon
<1>1. CASE Observe
  <2>1. op' \in Operations
    BY <1>1, Types, NoOpType DEF Observe, Operations
  <2>2. worker' \in Workers
    BY <1>1, Types, Numbers DEF Observe, Generations, Workers
  <2> QED  BY <1>1, <2>1, <2>2, Types DEF Observe
<1>2. ASSUME NEW a \in Actions, Act(a)
      PROVE  SessionTypeOK'
  <2>1. op' \in Operations
    BY <1>2, Types, NoOpType, Numbers DEF Act, Operations
  <2> QED  BY <1>2, <2>1, Types DEF Act
<1>3. CASE Review
  <2>1. op' \in Operations
    BY <1>3, Types, NoOpType DEF Review, Go, Operations
  <2> QED  BY <1>3, <2>1, Types DEF Review
<1>4. CASE Prepare
  <2>1. journal' \in Journals
    <3>1. op.action \in Actions /\ journal \in Journals
      BY <1>4, Acting, Types DEF Prepare, At
    <3>2. [journal EXCEPT !.state = "running", !.receipt[op.action] = "dispatched"] \in Journals
      BY <3>1, Numbers DEF Journals, JournalStates, StopStates, Receipts
    <3> QED  BY <1>4, <3>1, <3>2, Numbers DEF Prepare
  <2>2. op' \in Operations
    BY <1>4, Types, NoOpType DEF Prepare, Go, Operations
  <2> QED  BY <1>4, <2>1, <2>2, Types DEF Prepare
<1>5. CASE BeginEffect
  <2>1. effect' \in EffectRecords
    BY <1>5, Types, Acting DEF BeginEffect, JobCurrent, EffectRecords, Effects
  <2>2. op' \in Operations
    BY <1>5, Types DEF BeginEffect, Go, Operations
  <2> QED  BY <1>5, <2>1, <2>2, Types DEF BeginEffect
<1>6. CASE AssertInput
  <2>1. op' \in Operations
    BY <1>6, Types DEF AssertInput, Go, Operations
  <2> QED  BY <1>6, <2>1, Types DEF AssertInput
<1>7. CASE Dispatch
  <2>1. op' \in Operations
    BY <1>7, Types DEF Dispatch, Operations
  <2>2. worker' \in Workers
    <3>1. op.action \in Actions /\ worker \in Workers
      BY <1>7, Acting, Types DEF Dispatch, At
    <3>2. [worker EXCEPT !.busy = op.action] \in Workers
      BY <3>1 DEF Workers
    <3> QED  BY <1>7, <3>1, <3>2 DEF Dispatch
  <2> QED  BY <1>7, <2>1, <2>2, Types DEF Dispatch
<1>8. CASE Answer
  <2>1. op' \in Operations
    BY <1>8, Types DEF Answer, Operations
  <2>2. worker' \in Workers
    BY <1>8, Types, Acting, Numbers DEF Answer, Generations, Workers
  <2> QED  BY <1>8, <2>1, <2>2, Types DEF Answer
<1>9. CASE AnswerLost
  <2>1. op' \in Operations
    BY <1>9, Types DEF AnswerLost, Go, Operations
  <2>2. worker' \in Workers
    BY <1>9, Types DEF AnswerLost, Workers
  <2> QED  BY <1>9, <2>1, <2>2, Types DEF AnswerLost
<1>10. CASE Record
  <2>1. journal' \in Journals
    <3>1. [journal EXCEPT !.gen = worker.gen, !.seen = journal.seen] \in Journals
      BY Numbers DEF Journals, JournalStates, StopStates
    <3>2. [journal EXCEPT !.gen = worker.gen, !.seen = worker.gen] \in Journals
      BY Numbers DEF Journals, JournalStates, StopStates
    <3> QED  BY <1>10, <3>1, <3>2, Numbers DEF Record
  <2>2. op' \in Operations
    BY <1>10, Types, NoOpType DEF Record, Failed, Go, Operations
  <2> QED  BY <1>10, <2>1, <2>2, Types DEF Record
<1>11. CASE UpdateTarget
  <2>1. binding' \in Bindings
    BY <1>11, BindingWrites, Numbers DEF UpdateTarget, BindingStates
  <2>2. op' \in Operations
    BY <1>11, Types, NoOpType DEF UpdateTarget, Failed, Go, Operations
  <2> QED  BY <1>11, <2>1, <2>2, Types DEF UpdateTarget
<1>12. CASE Settle
  <2>1. journal' \in Journals
    <3>1. op.action \in Actions /\ journal \in Journals
      BY <1>12, Acting, Types DEF Settle, At
    <3>2. \A r \in Receipts : [journal EXCEPT !.receipt[op.action] = r] \in Journals
      BY <3>1, Numbers DEF Journals, JournalStates, StopStates, Receipts
    <3>3. op.result \in {"refused", "met", "unmet"}
      BY <1>12, <3>1 DEF OpOK, Settle, At
    <3>4. PICK r \in Receipts : journal' = [journal EXCEPT !.receipt[op.action] = r]
      BY <1>12, <3>3 DEF Settle, Receipts
    <3> QED  BY <3>2, <3>4
  <2>2. op' \in Operations
    BY <1>12, Types DEF Settle, Go, Operations
  <2> QED  BY <1>12, <2>1, <2>2, Types DEF Settle
<1>13. CASE AcknowledgeEffect
  <2>1. effect' \in EffectRecords
    BY <1>13, Types, Acting DEF AcknowledgeEffect, EffectRecords, Effects
  <2>2. op' \in Operations
    BY <1>13, Types, NoOpType DEF AcknowledgeEffect, Operations
  <2> QED  BY <1>13, <2>1, <2>2, Types DEF AcknowledgeEffect
<1>14. CASE Undo
  <2>1. journal' \in Journals
    <3>1. op.action \in Actions /\ journal \in Journals
      BY <1>14, Acting, Types DEF Undo, At
    <3>2. \A r \in Receipts : [journal EXCEPT !.receipt[op.action] = r] \in Journals
      BY <3>1, Numbers DEF Journals, JournalStates, StopStates, Receipts
    <3> QED  BY <1>14, <3>1, <3>2, Numbers DEF Undo, Receipts
  <2>2. op' \in Operations
    BY <1>14, Types DEF Undo, Go, Operations
  <2> QED  BY <1>14, <2>1, <2>2, Types DEF Undo
<1>15. CASE UndoEffect
  <2>1. effect' \in EffectRecords
    BY <1>15, Types, Acting DEF UndoEffect, EffectRecords, Effects
  <2>2. op' \in Operations
    BY <1>15, Types, NoOpType DEF UndoEffect, Operations
  <2> QED  BY <1>15, <2>1, <2>2, Types DEF UndoEffect
<1> QED  BY <1>1, <1>2, <1>3, <1>4, <1>5, <1>6, <1>7, <1>8, <1>9, <1>10, <1>11, <1>12, <1>13,
            <1>14, <1>15

LEMMA PauseTypes ==
  ASSUME SessionTypeOK,
         Pause \/ PauseRequested \/ Drain \/ PauseWorker \/ PauseAcknowledged \/ FailPause
  PROVE  SessionTypeOK'
<1> USE DEF durable, memory, control, data, doing, rest, daemon
<1>1. CASE Pause
  <2>1. broker' \in Brokers
    BY <1>1, Types DEF Pause, Brokers
  <2>2. binding' \in Bindings
    BY <1>1, BindingWrites, Numbers DEF Pause, BindingStates
  <2>3. pausing' \in Pausings
    BY <1>1, Types DEF Pause, PauseTo, Pausings
  <2> QED  BY <1>1, <2>1, <2>2, <2>3, Types DEF Pause
<1>2. CASE PauseRequested
  <2>1. journal' \in Journals
    <3>1. [journal EXCEPT !.pause = "requested", !.fence = journal.fence + 1] \in Journals
      BY Numbers DEF Journals, JournalStates, StopStates
    <3> QED  BY <1>2, <3>1, Numbers DEF PauseRequested
  <2>2. pausing' \in Pausings
    BY <1>2, Types DEF PauseRequested, PauseTo, Pausings
  <2> QED  BY <1>2, <2>1, <2>2, Types DEF PauseRequested
<1>3. CASE Drain
  <2>1. pausing' \in Pausings
    BY <1>3, Types DEF Drain, PauseTo, Pausings
  <2> QED  BY <1>3, <2>1, Types DEF Drain
<1>4. CASE PauseWorker
  <2>1. pausing' \in Pausings
    BY <1>4, Types DEF PauseWorker, PauseTo, Pausings
  <2>2. worker' \in Workers
    BY <1>4, Types DEF PauseWorker, Workers
  <2> QED  BY <1>4, <2>1, <2>2, Types DEF PauseWorker
<1>5. CASE PauseAcknowledged
  <2>1. journal' \in Journals
    BY <1>5, Numbers DEF PauseAcknowledged, Journals, JournalStates, StopStates
  <2>2. pausing' \in Pausings
    BY <1>5, Types DEF PauseAcknowledged, PauseTo, Pausings
  <2> QED  BY <1>5, <2>1, <2>2, Types DEF PauseAcknowledged
<1>6. CASE FailPause
  <2>1. journal' \in Journals
    BY <1>6, Numbers DEF FailPause, Journals, JournalStates, StopStates
  <2>2. pausing' \in Pausings
    BY <1>6, Types DEF FailPause, PauseTo, Pausings
  <2> QED  BY <1>6, <2>1, <2>2, Types DEF FailPause
<1> QED  BY <1>1, <1>2, <1>3, <1>4, <1>5, <1>6

LEMMA ResumeTypes ==
  ASSUME SessionTypeOK,
         Resume \/ ResumeCheck \/ ResumeWorker \/ ResumeJournal \/ ResumeControl \/ ResumeRecord \/ ResumeUpdate
  PROVE  SessionTypeOK'
<1> USE DEF durable, memory, control, data, doing, rest, daemon
<1>1. CASE Resume
  <2>1. resuming' \in Resumings
    BY <1>1, Types DEF Resume, ResumeTo, Resumings
  <2> QED  BY <1>1, <2>1, Types DEF Resume
<1>2. CASE ResumeCheck
  <2>1. resuming' \in Resumings
    BY <1>2, Types DEF ResumeCheck, ResumeTo, Resumings
  <2> QED  BY <1>2, <2>1, Types DEF ResumeCheck
<1>3. CASE ResumeWorker
  <2>1. resuming' \in Resumings
    BY <1>3, Types DEF ResumeWorker, ResumeTo, Resumings
  <2>2. worker' \in Workers
    BY <1>3, Types, Numbers DEF ResumeWorker, Workers
  <2> QED  BY <1>3, <2>1, <2>2, Types DEF ResumeWorker
<1>4. CASE ResumeJournal
  <2>1. journal' \in Journals
    <3>1. [journal EXCEPT !.pause = "not_requested", !.state = "ready", !.fence = journal.fence + 1] \in Journals
      BY Numbers DEF Journals, JournalStates, StopStates
    <3> QED  BY <1>4, <3>1, Numbers DEF ResumeJournal
  <2>2. resuming' \in Resumings
    BY <1>4, Types, Numbers DEF ResumeJournal, ResumeTo, Resumings
  <2> QED  BY <1>4, <2>1, <2>2, Types DEF ResumeJournal
<1>5. CASE ResumeControl
  <2>1. binding' \in Bindings
    BY <1>5, BindingWrites, Numbers DEF ResumeControl, BindingStates
  <2>2. resuming' \in Resumings
    BY <1>5, Types DEF ResumeControl, ResumeTo, Resumings
  <2> QED  BY <1>5, <2>1, <2>2, Types DEF ResumeControl
<1>6. CASE ResumeRecord
  <2>1. journal' \in Journals
    <3>1. [journal EXCEPT !.gen = worker.gen, !.seen = worker.gen] \in Journals
      BY Numbers DEF Journals, JournalStates, StopStates
    <3> QED  BY <1>6, <3>1, Numbers DEF ResumeRecord
  <2>2. resuming' \in Resumings
    BY <1>6, Types DEF ResumeRecord, ResumeTo, Resumings
  <2> QED  BY <1>6, <2>1, <2>2, Types DEF ResumeRecord
<1>7. CASE ResumeUpdate
  <2>1. broker' \in Brokers
    BY <1>7, Types DEF ResumeUpdate, Brokers
  <2>2. binding' \in Bindings
    BY <1>7, BindingWrites, Numbers DEF ResumeUpdate, BindingStates
  <2>3. pausing' \in Pausings
    BY <1>7, Types DEF ResumeUpdate, Pausings
  <2>4. resuming' \in Resumings
    BY <1>7, Types DEF ResumeUpdate, NotResuming, ResumeTo, Resumings
  <2> QED  BY <1>7, <2>1, <2>2, <2>3, <2>4, Types DEF ResumeUpdate
<1> QED  BY <1>1, <1>2, <1>3, <1>4, <1>5, <1>6, <1>7

LEMMA StopTypes ==
  ASSUME SessionTypeOK,
         Stop \/ StopBinding \/ RecoverStop \/ StopReturns \/ \E i \in Stoppers : StopStep(i)
  PROVE  SessionTypeOK'
<1> USE DEF durable, memory, control, data, doing, rest, daemon
<1>1. CASE Stop
  <2>1. broker' \in Brokers
    BY <1>1, Types DEF Stop, Brokers
  <2>2. binding' \in Bindings
    BY <1>1, BindingWrites, Numbers DEF Stop, BindingStops, BindingStates
  <2>3. stopper' \in StopperRecords
    BY <1>1, Types DEF Stop, BindingStops, StopperRecords, Stoppers
  <2>4. worker' \in Workers
    BY <1>1, Types DEF Stop, Fenced, Workers
  <2> QED  BY <1>1, <2>1, <2>2, <2>3, <2>4, Types DEF Stop
<1>2. CASE StopBinding
  <2>1. broker' \in Brokers
    BY <1>2, Types DEF StopBinding, Brokers
  <2>2. binding' \in Bindings
    BY <1>2, BindingWrites, Numbers DEF StopBinding, BindingStops, BindingStates
  <2>3. stopper' \in StopperRecords
    BY <1>2, Types DEF StopBinding, BindingStops, StopperRecords, Stoppers
  <2>4. worker' \in Workers
    BY <1>2, Types DEF StopBinding, Fenced, Workers
  <2> QED  BY <1>2, <2>1, <2>2, <2>3, <2>4, Types DEF StopBinding
<1>3. CASE RecoverStop
  <2>1. broker' \in Brokers
    BY <1>3, Types DEF RecoverStop, Brokers
  <2>2. stopper' \in StopperRecords
    BY <1>3, Types DEF RecoverStop, StopperRecords, Stoppers
  <2>3. worker' \in Workers
    BY <1>3, Types DEF RecoverStop, Fenced, Workers
  <2>4. events' \in Nat
    BY <1>3, Types DEF RecoverStop
  <2> QED  BY <1>3, <2>1, <2>2, <2>3, <2>4, Types DEF RecoverStop
<1>4. CASE StopReturns
  <2>1. broker' \in Brokers
    BY <1>4, Types DEF StopReturns, Brokers
  <2> QED  BY <1>4, <2>1, Types DEF StopReturns
<1>5. ASSUME NEW i \in Stoppers, AwaitRelease(i)
      PROVE  SessionTypeOK'
  <2>1. stopper' \in StopperRecords
    BY <1>5, Types DEF AwaitRelease, StopTo, StopperRecords, Stoppers
  <2> QED  BY <1>5, <2>1, Types DEF AwaitRelease
<1>6. ASSUME NEW i \in Stoppers, RequestStop(i)
      PROVE  SessionTypeOK'
  <2>1. journal' \in Journals
    <3>1. [journal EXCEPT !.stop = "requested", !.state = "stopping", !.fence = journal.fence + 1] \in Journals
      BY Numbers DEF Journals, JournalStates, StopStates
    <3> QED  BY <1>6, <3>1, Numbers DEF RequestStop, StopState
  <2>2. stopper' \in StopperRecords
    BY <1>6, Types DEF RequestStop, StopTo, StopperRecords, Stoppers
  <2> QED  BY <1>6, <2>1, <2>2, Types DEF RequestStop
<1>7. ASSUME NEW i \in Stoppers, AwaitProof(i)
      PROVE  SessionTypeOK'
  <2>1. stopper' \in StopperRecords
    BY <1>7, Types DEF AwaitProof, StopTo, StopperRecords, Stoppers
  <2> QED  BY <1>7, <2>1, Types DEF AwaitProof
<1>8. ASSUME NEW i \in Stoppers, AcknowledgeStop(i)
      PROVE  SessionTypeOK'
  <2>1. journal' \in Journals
    <3>1. \A f \in Nat : [journal EXCEPT !.stop = "acknowledged", !.state = "stopped", !.fence = f] \in Journals
      BY Numbers DEF Journals, JournalStates, StopStates
    <3> QED  BY <1>8, <3>1, Numbers DEF AcknowledgeStop, StopState
  <2>2. stopper' \in StopperRecords
    BY <1>8, Types DEF AcknowledgeStop, Ended, StopTo, StopperRecords, Stoppers
  <2> QED  BY <1>8, <2>1, <2>2, Types DEF AcknowledgeStop
<1>9. ASSUME NEW i \in Stoppers, SettleLifetime(i)
      PROVE  SessionTypeOK'
  <2>1. effect' \in EffectRecords
    BY <1>9, Types DEF SettleLifetime, EffectRecords, Effects
  <2>2. stopper' \in StopperRecords
    BY <1>9, Types DEF SettleLifetime, Ended, StopTo, StopperRecords, Stoppers
  <2> QED  BY <1>9, <2>1, <2>2, Types DEF SettleLifetime
<1>10. ASSUME NEW i \in Stoppers, StopUnknown(i)
       PROVE  SessionTypeOK'
  <2>1. journal' \in Journals
    <3>1. \A f \in Nat : [journal EXCEPT !.stop = "unknown", !.state = "recovery_required", !.fence = f] \in Journals
      BY Numbers DEF Journals, JournalStates, StopStates
    <3> QED  BY <1>10, <3>1, Numbers DEF StopUnknown, StopState
  <2>2. stopper' \in StopperRecords
    BY <1>10, Types DEF StopUnknown, StopTo, StopperRecords, Stoppers
  <2> QED  BY <1>10, <2>1, <2>2, Types DEF StopUnknown
<1>11. ASSUME NEW i \in Stoppers, Reconcile(i)
       PROVE  SessionTypeOK'
  <2>1. job' \in Jobs
    BY <1>11, Types DEF Reconcile, Reconciled, Jobs
  <2>2. broker' \in Brokers
    BY <1>11, Types DEF Reconcile, Brokers
  <2>3. stopper' \in StopperRecords
    BY <1>11, Types DEF Reconcile, StopTo, StopperRecords, Stoppers
  <2> QED  BY <1>11, <2>1, <2>2, <2>3, Types DEF Reconcile
<1> QED  BY <1>1, <1>2, <1>3, <1>4, <1>5, <1>6, <1>7, <1>8, <1>9, <1>10, <1>11 DEF StopStep

LEMMA JobTypes ==
  ASSUME SessionTypeOK,
         FinishJob \/ CancelJob \/ RecoverJob \/ RevokeGrant
  PROVE  SessionTypeOK'
<1> USE DEF durable, memory, control, data, doing, rest, daemon
<1>1. CASE FinishJob
  <2>1. job' \in Jobs
    BY <1>1, Types DEF FinishJob, Jobs
  <2> QED  BY <1>1, <2>1, Types DEF FinishJob
<1>2. CASE CancelJob
  <2>1. job' \in Jobs
    BY <1>2, Types DEF CancelJob, Jobs
  <2>2. events' \in Nat
    BY <1>2, Types DEF CancelJob
  <2> QED  BY <1>2, <2>1, <2>2, Types DEF CancelJob
<1>3. CASE RecoverJob
  <2>1. job' \in Jobs
    BY <1>3, Types DEF RecoverJob, Reconciled, Jobs
  <2> QED  BY <1>3, <2>1, Types DEF RecoverJob
<1>4. CASE RevokeGrant
  <2>1. grant' \in BOOLEAN
    BY <1>4, Types DEF RevokeGrant
  <2>2. events' \in Nat
    BY <1>4, Types DEF RevokeGrant
  <2> QED  BY <1>4, <2>1, <2>2, Types DEF RevokeGrant
<1> QED  BY <1>1, <1>2, <1>3, <1>4

LEMMA WorkerTypes ==
  ASSUME SessionTypeOK,
         Deliver \/ WorkerIdle \/ ReleaseInput \/ Terminate \/ WorkerDies \/ HeartbeatLost \/ DaemonCrash
  PROVE  SessionTypeOK'
<1> USE DEF durable, memory, control, data, doing, rest, daemon
<1>1. CASE Deliver
  <2>1. delivered' \in [Actions -> BOOLEAN]
    BY <1>1, Types DEF Deliver
  <2> QED  BY <1>1, <2>1, Types DEF Deliver
<1>2. CASE WorkerIdle
  <2>1. worker' \in Workers
    BY <1>2, Types, Acting DEF WorkerIdle, Workers
  <2> QED  BY <1>2, <2>1, Types DEF WorkerIdle
<1>3. CASE ReleaseInput
  <2>1. worker' \in Workers
    BY <1>3, Types DEF ReleaseInput, Workers
  <2> QED  BY <1>3, <2>1, Types DEF ReleaseInput
<1>4. CASE Terminate
  <2>1. worker' \in Workers
    BY <1>4, Types DEF Terminate, Workers
  <2> QED  BY <1>4, <2>1, Types DEF Terminate
<1>5. CASE WorkerDies
  <2>1. worker' \in Workers
    BY <1>5, Types DEF WorkerDies, Workers
  <2>2. events' \in Nat
    BY <1>5, Types DEF WorkerDies
  <2> QED  BY <1>5, <2>1, <2>2, Types DEF WorkerDies
<1>6. CASE HeartbeatLost
  <2>1. worker' \in Workers
    BY <1>6, Types DEF HeartbeatLost, Fenced, Workers
  <2>2. events' \in Nat
    BY <1>6, Types DEF HeartbeatLost
  <2> QED  BY <1>6, <2>1, <2>2, Types DEF HeartbeatLost
<1>7. CASE DaemonCrash
  <2>1. broker' \in Brokers
    BY <1>7, Types DEF DaemonCrash, SessionStart, Brokers
  <2>2. binding' \in Bindings
    BY <1>7 DEF DaemonCrash, NoBinding, Bindings, BindingStates
  <2>3. op' \in Operations
    BY <1>7, Types, NoOpType DEF DaemonCrash, Operations
  <2>4. pausing' \in Pausings
    BY <1>7, Types DEF DaemonCrash, Pausings
  <2>5. resuming' \in Resumings
    BY <1>7, Types DEF DaemonCrash, NotResuming, Resumings
  <2>6. stopper' \in StopperRecords
    BY <1>7, Types DEF DaemonCrash, StopperRecords, Stoppers
  <2>7. worker' \in Workers
    BY <1>7, Types DEF DaemonCrash, Fenced, Workers
  <2>8. events' \in Nat
    BY <1>7, Types DEF DaemonCrash
  <2> QED  BY <1>7, <2>1, <2>2, <2>3, <2>4, <2>5, <2>6, <2>7, <2>8, Types DEF DaemonCrash
<1> QED  BY <1>1, <1>2, <1>3, <1>4, <1>5, <1>6, <1>7

-----------------------------------------------------------------------------
(***************************************************************************)
(* Steps that leave the accounts of the actions alone                      *)
(***************************************************************************)
Quiet ==
  /\ UNCHANGED <<op, delivered>>
  /\ journal'.receipt = journal.receipt
  /\ worker'.busy \in {worker.busy, NoAction}
  /\ \A a \in Actions : effect'[a] = effect[a]
  /\ job'.state = "final" => AllAcknowledged'

LEMMA StillFinal ==
  ASSUME AccountsOK, UNCHANGED <<job, effect>>
  PROVE  job'.state = "final" => AllAcknowledged'
  BY DEF AccountsOK, AllAcknowledged

LEMMA QuietOpening ==
  ASSUME SessionTypeOK, AccountsOK,
         BeginLifetime \/ OpenWorker \/ ReadyJournal \/ Bind \/ Bound
  PROVE  Quiet
<1> USE Types DEF durable, memory, control, data, doing, rest, daemon
<1>1. CASE BeginLifetime
  BY <1>1, SessionAssumption DEF BeginLifetime, Quiet, EffectRecords, Effects, AccountsOK,
     AllAcknowledged, JobCurrent
<1>2. CASE OpenWorker
  BY <1>2, StillFinal DEF OpenWorker, Quiet, Workers
<1>3. CASE ReadyJournal
  BY <1>3, StillFinal DEF ReadyJournal, Quiet, Journals
<1>4. CASE Bind
  BY <1>4, StillFinal DEF Bind, Quiet
<1>5. CASE Bound
  BY <1>5, StillFinal DEF Bound, Quiet
<1> QED  BY <1>1, <1>2, <1>3, <1>4, <1>5

LEMMA QuietPause ==
  ASSUME SessionTypeOK, AccountsOK,
         Pause \/ PauseRequested \/ Drain \/ PauseWorker \/ PauseAcknowledged \/ FailPause
  PROVE  Quiet
<1> USE Types DEF durable, memory, control, data, doing, rest, daemon
<1>1. CASE Pause
  BY <1>1, StillFinal DEF Pause, Quiet
<1>2. CASE PauseRequested
  BY <1>2, StillFinal DEF PauseRequested, Quiet, Journals
<1>3. CASE Drain
  BY <1>3, StillFinal DEF Drain, Quiet
<1>4. CASE PauseWorker
  BY <1>4, StillFinal DEF PauseWorker, Quiet, Workers
<1>5. CASE PauseAcknowledged
  BY <1>5, StillFinal DEF PauseAcknowledged, Quiet, Journals
<1>6. CASE FailPause
  BY <1>6, StillFinal DEF FailPause, Quiet, Journals
<1> QED  BY <1>1, <1>2, <1>3, <1>4, <1>5, <1>6

LEMMA QuietResume ==
  ASSUME SessionTypeOK, AccountsOK,
         Resume \/ ResumeCheck \/ ResumeWorker \/ ResumeJournal \/ ResumeControl \/ ResumeRecord \/ ResumeUpdate
  PROVE  Quiet
<1> USE Types DEF durable, memory, control, data, doing, rest, daemon
<1>1. CASE Resume
  BY <1>1, StillFinal DEF Resume, Quiet
<1>2. CASE ResumeCheck
  BY <1>2, StillFinal DEF ResumeCheck, Quiet
<1>3. CASE ResumeWorker
  BY <1>3, StillFinal DEF ResumeWorker, Quiet, Workers
<1>4. CASE ResumeJournal
  BY <1>4, StillFinal DEF ResumeJournal, Quiet, Journals
<1>5. CASE ResumeControl
  BY <1>5, StillFinal DEF ResumeControl, Quiet
<1>6. CASE ResumeRecord
  BY <1>6, StillFinal DEF ResumeRecord, Quiet, Journals
<1>7. CASE ResumeUpdate
  BY <1>7, StillFinal DEF ResumeUpdate, Quiet
<1> QED  BY <1>1, <1>2, <1>3, <1>4, <1>5, <1>6, <1>7

LEMMA QuietStop ==
  ASSUME SessionTypeOK, AccountsOK,
         Stop \/ StopBinding \/ RecoverStop \/ StopReturns \/ \E i \in Stoppers : StopStep(i)
  PROVE  Quiet
<1> USE Types DEF durable, memory, control, data, doing, rest, daemon
<1>1. CASE Stop
  BY <1>1, StillFinal DEF Stop, Quiet, Workers, Fenced
<1>2. CASE StopBinding
  BY <1>2, StillFinal DEF StopBinding, Quiet, Workers, Fenced
<1>3. CASE RecoverStop
  BY <1>3, StillFinal DEF RecoverStop, Quiet, Workers, Fenced
<1>4. CASE StopReturns
  BY <1>4, StillFinal DEF StopReturns, Quiet
<1>5. ASSUME NEW i \in Stoppers, AwaitRelease(i)
      PROVE  Quiet
  BY <1>5, StillFinal DEF AwaitRelease, Quiet
<1>6. ASSUME NEW i \in Stoppers, RequestStop(i)
      PROVE  Quiet
  BY <1>6, StillFinal DEF RequestStop, Quiet, Journals, StopState
<1>7. ASSUME NEW i \in Stoppers, AwaitProof(i)
      PROVE  Quiet
  BY <1>7, StillFinal DEF AwaitProof, Quiet
<1>8. ASSUME NEW i \in Stoppers, AcknowledgeStop(i)
      PROVE  Quiet
  BY <1>8, StillFinal DEF AcknowledgeStop, Quiet, Journals, StopState
<1>9. ASSUME NEW i \in Stoppers, SettleLifetime(i)
      PROVE  Quiet
  BY <1>9, SessionAssumption DEF SettleLifetime, Quiet, EffectRecords, Effects, AccountsOK,
     AllAcknowledged
<1>10. ASSUME NEW i \in Stoppers, StopUnknown(i)
       PROVE  Quiet
  BY <1>10, StillFinal DEF StopUnknown, Quiet, Journals, StopState
<1>11. ASSUME NEW i \in Stoppers, Reconcile(i)
       PROVE  Quiet
  BY <1>11 DEF Reconcile, Quiet, Jobs, AccountsOK, AllAcknowledged, Reconciled
<1> QED  BY <1>1, <1>2, <1>3, <1>4, <1>5, <1>6, <1>7, <1>8, <1>9, <1>10, <1>11 DEF StopStep

LEMMA QuietRest ==
  ASSUME SessionTypeOK, AccountsOK,
         FinishJob \/ CancelJob \/ RecoverJob \/ RevokeGrant \/ WorkerIdle \/ ReleaseInput \/ Terminate \/ WorkerDies
         \/ HeartbeatLost
  PROVE  Quiet
<1> USE Types DEF durable, memory, control, data, doing, rest, daemon
<1>1. CASE FinishJob
  BY <1>1 DEF FinishJob, Quiet, Jobs, AccountsOK, AllAcknowledged
<1>2. CASE CancelJob
  BY <1>2 DEF CancelJob, Quiet, Jobs, AccountsOK, AllAcknowledged, JobCurrent
<1>3. CASE RecoverJob
  BY <1>3 DEF RecoverJob, Quiet, Jobs, AccountsOK, AllAcknowledged, JobCurrent, Reconciled
<1>4. CASE RevokeGrant
  BY <1>4, StillFinal DEF RevokeGrant, Quiet
<1>5. CASE WorkerIdle
  BY <1>5, StillFinal DEF WorkerIdle, Quiet, Workers
<1>6. CASE ReleaseInput
  BY <1>6, StillFinal DEF ReleaseInput, Quiet, Workers
<1>7. CASE Terminate
  BY <1>7, StillFinal DEF Terminate, Quiet, Workers
<1>8. CASE WorkerDies
  BY <1>8, StillFinal DEF WorkerDies, Quiet, Workers
<1>9. CASE HeartbeatLost
  BY <1>9, StillFinal DEF HeartbeatLost, Quiet, Workers, Fenced
<1> QED  BY <1>1, <1>2, <1>3, <1>4, <1>5, <1>6, <1>7, <1>8, <1>9

\* They keep what the operation in flight says.
LEMMA QuietKeeps ==
  ASSUME SessionTypeOK, OpOK, AccountsOK, Quiet
  PROVE  OpOK' /\ AccountsOK'
<1>1. op.action \in Actions => NoAction # op.action
  BY SessionAssumption
<1>2. OpOK'
  <2>1. worker'.busy = op.action => worker.busy = op.action \/ op.action = NoAction
    BY DEF Quiet
  <2> QED  BY <1>1, <2>1 DEF OpOK, Quiet
<1>3. AccountsOK'
  <2>1. ASSUME NEW a \in Actions
        PROVE  /\ InDoubt(a)' = InDoubt(a) /\ journal'.receipt[a] = journal.receipt[a]
               /\ delivered'[a] = delivered[a] /\ (worker'.busy = a => worker.busy = a)
    BY SessionAssumption DEF Quiet, InDoubt
  <2> QED  BY <2>1 DEF AccountsOK, Quiet
<1> QED  BY <1>2, <1>3

-----------------------------------------------------------------------------
(***************************************************************************)
(* Steps of the operation in flight                                        *)
(***************************************************************************)
LEMMA AccountsKept ==
  ASSUME AccountsOK, UNCHANGED <<delivered, job, effect>>,
         journal'.receipt = journal.receipt, worker'.busy \in {worker.busy, NoAction}
  PROVE  AccountsOK'
<1>1. ASSUME NEW a \in Actions
      PROVE  /\ InDoubt(a)' = InDoubt(a) /\ journal'.receipt[a] = journal.receipt[a]
             /\ delivered'[a] = delivered[a] /\ (worker'.busy = a => worker.busy = a)
  BY SessionAssumption DEF InDoubt
<1> QED  BY <1>1, StillFinal DEF AccountsOK

\* A step that gives an outcome, an intent or a doubt to one action only.
LEMMA OneAction ==
  ASSUME AccountsOK, NEW a \in Actions, UNCHANGED <<delivered, worker>>,
         \A b \in Actions \ {a} : journal'.receipt[b] = journal.receipt[b] /\ effect'[b] = effect[b],
         worker.busy = a => InDoubt(a)',
         delivered[a] => InDoubt(a)' \/ journal'.receipt[a] \in {"verified", "failed"},
         journal'.receipt[a] \in {"verified", "failed"} => delivered[a],
         journal'.receipt[a] = "unknown" => InDoubt(a)',
         job'.state = "final" => AllAcknowledged'
  PROVE  AccountsOK'
<1>1. ASSUME NEW b \in Actions \ {a}
      PROVE  InDoubt(b)' = InDoubt(b) /\ journal'.receipt[b] = journal.receipt[b]
  BY DEF InDoubt
<1> QED  BY <1>1 DEF AccountsOK

\* No operation, or one that has not written its intent.
LEMMA NothingInFlight ==
  ASSUME op' = NoOp
  PROVE  OpOK'
  BY SessionAssumption DEF OpOK, NoOp

LEMMA Fields ==
  ASSUME op \in Operations, NEW p, op' = [op EXCEPT !.pc = p]
  PROVE  op'.pc = p /\ op'.action = op.action /\ op'.sent = op.sent /\ op'.result = op.result
  BY DEF Operations

\* An operation goes on: what its action has in the journal, the job and the target stays.
LEMMA GoesOn ==
  ASSUME OpOK, NEW a \in Actions, op.action = a, op'.action = a, op'.sent = op.sent,
         UNCHANGED <<effect, delivered>>, journal'.receipt = journal.receipt,
         worker'.busy \in {worker.busy, NoAction},
         \/ op.pc = "review" /\ op'.pc = "prepare"
         \/ op.pc = "input" /\ op'.pc = "granted"
         \/ op.pc \in {"input", "acting", "replied", "recorded"} /\ op'.pc = "undo"
         \/ /\ op.pc = "acting" /\ op'.pc = "replied" /\ worker'.busy = NoAction
            /\ op'.result \in IF delivered[a] THEN {"met", "unmet"} ELSE {"refused"}
         \/ op.pc = "replied" /\ op'.pc = "recorded" /\ op'.result = op.result
         \/ op.pc = "recorded" /\ op'.pc = "settle" /\ op'.result = op.result
  PROVE  OpOK'
<1>1. a # NoAction
  BY SessionAssumption
<1>2. worker'.busy = a => worker.busy = a
  BY <1>1
<1>3. journal'.receipt[op'.action] = journal.receipt[a]
  OBVIOUS
<1> QED  BY <1>1, <1>2, <1>3 DEF OpOK

\* Steps that move the operation and write no receipt, effect or input.
LEMMA ObservingStep ==
  ASSUME SessionTypeOK, OpOK, AccountsOK,
         \/ Observe \/ (\E a \in Actions : Act(a)) \/ Review \/ AssertInput \/ Answer \/ AnswerLost \/ Record \/ UpdateTarget
  PROVE  OpOK' /\ AccountsOK'
<1> USE DEF durable, memory, control
<1>1. op \in Operations /\ worker \in Workers /\ journal \in Journals /\ op.action \in Actions \cup {NoAction}
  BY Types DEF Operations
<1>2. UNCHANGED <<delivered, job, effect>> /\ worker'.busy \in {worker.busy, NoAction}
  BY <1>1 DEF Observe, Act, Review, AssertInput, Answer, AnswerLost, Record, UpdateTarget, Workers
<1>3. journal'.receipt = journal.receipt
  BY <1>1 DEF Observe, Act, Review, AssertInput, Answer, AnswerLost, Record, UpdateTarget, Journals
<1>4. AccountsOK'
  BY <1>2, <1>3, AccountsKept
<1>5. CASE Observe
  <2>1. op'.pc = "replied" /\ op'.action = NoAction
    BY <1>5 DEF Observe, NoOp
  <2> QED  BY <2>1, <1>4, SessionAssumption DEF OpOK
<1>6. ASSUME NEW a \in Actions, Act(a)
      PROVE  OpOK' /\ AccountsOK'
  <2>1. op'.pc = "review" /\ op'.action = a /\ ~op'.sent /\ journal.receipt[a] = "none" /\ worker' = worker
    BY <1>6 DEF Act, NoOp
  <2>2. worker.busy # a /\ ~delivered[a]
    BY <2>1 DEF AccountsOK, InDoubt, Open
  <2> QED  BY <1>2, <1>3, <1>4, <2>1, <2>2, SessionAssumption DEF OpOK
<1>7. CASE Review \/ AssertInput
  <2>1. CASE op' = NoOp
    BY <1>4, <2>1, NothingInFlight
  <2>2. CASE op' # NoOp
    <3>1. PICK p \in {"prepare", "granted", "undo"} :
            /\ op' = [op EXCEPT !.pc = p]
            /\ op.pc = IF p = "prepare" THEN "review" ELSE "input"
      <4>1. CASE Review
        BY <2>2, <4>1 DEF Review, At, Go
      <4>2. CASE AssertInput
        BY <4>2 DEF AssertInput, At, Go
      <4> QED  BY <1>7, <4>1, <4>2
    <3>2. op.action \in Actions
      BY <3>1, Acting
    <3> QED  BY <1>1, <1>2, <1>3, <1>4, <3>1, <3>2, Fields, GoesOn
  <2> QED  BY <2>1, <2>2
<1>8. CASE Answer
  <2>1. op.pc = "acting" /\ worker'.busy = NoAction
    BY <1>1, <1>8 DEF Answer, At, Workers
  <2>2. op.action \in Actions
    BY <2>1, Acting
  <2>3. /\ op'.action = op.action /\ op'.sent = op.sent
        /\ \/ op'.pc = "undo"
           \/ op'.pc = "replied" /\ op'.result \in IF delivered[op.action] THEN {"met", "unmet"} ELSE {"refused"}
    BY <1>1, <1>8 DEF Answer, Operations
  <2> QED  BY <1>2, <1>3, <1>4, <2>1, <2>2, <2>3, GoesOn
<1>9. CASE AnswerLost
  <2>1. op.pc = "acting" /\ op' = [op EXCEPT !.pc = "undo"]
    BY <1>9 DEF AnswerLost, At, Go
  <2>2. op.action \in Actions
    BY <2>1, Acting
  <2> QED  BY <1>1, <1>2, <1>3, <1>4, <2>1, <2>2, Fields, GoesOn
<1>10. CASE Record \/ UpdateTarget
  <2>1. op.pc \in {"replied", "recorded"} /\ worker' = worker
    BY <1>10 DEF Record, UpdateTarget, At
  <2>2. PICK p \in {"recorded", "settle", "undo"} :
          /\ op' = NoOp \/ op' = [op EXCEPT !.pc = p]
          /\ op' = NoOp \/ (p = "recorded" /\ op.pc = "replied") \/ op.action # NoAction
          /\ p = "settle" => op.pc = "recorded"
          /\ p = "recorded" => op.pc = "replied"
    <3>1. CASE op' = NoOp
      BY <2>1, <3>1
    <3>2. CASE Record /\ op' # NoOp
      BY <3>2 DEF Record, At, Failed, Go
    <3>3. CASE UpdateTarget /\ op' # NoOp
      BY <3>3 DEF UpdateTarget, At, Failed, Go
    <3> QED  BY <1>10, <3>1, <3>2, <3>3
  <2>3. CASE op' = NoOp
    BY <1>4, <2>3, NothingInFlight
  <2>4. CASE op' = [op EXCEPT !.pc = p] /\ op.action \in Actions
    BY <1>2, <1>3, <1>4, <1>1, <2>1, <2>2, <2>4, Fields, GoesOn
  <2>5. CASE op' = [op EXCEPT !.pc = p] /\ op.action = NoAction /\ op' # NoOp
    <3>1. op'.pc = "recorded" /\ op'.action = NoAction
      BY <1>1, <2>2, <2>5, Fields
    <3> QED  BY <1>4, <3>1, SessionAssumption DEF OpOK
  <2> QED  BY <1>1, <2>2, <2>3, <2>4, <2>5
<1> QED  BY <1>5, <1>6, <1>7, <1>8, <1>9, <1>10

\* The intent, its effect and the call of the worker.
LEMMA IntentStep ==
  ASSUME SessionTypeOK, OpOK, AccountsOK, Prepare \/ BeginEffect \/ Dispatch
  PROVE  OpOK' /\ AccountsOK'
<1> DEFINE a == op.action
<1> USE DEF durable, memory, control
<1>1. op \in Operations /\ worker \in Workers /\ journal \in Journals /\ effect \in EffectRecords /\ job \in Jobs
  BY Types
<1>2. op.pc \in {"prepare", "begin", "granted"}
  BY DEF Prepare, BeginEffect, Dispatch, At
<1>3. a \in Actions /\ a # NoAction /\ a # Lifetime /\ a \in Effects
  BY <1>2, Acting, SessionAssumption DEF Effects
<1>4. ~op.sent /\ worker.busy # a /\ ~delivered[a]
  BY <1>2, <1>3 DEF OpOK
<1> HIDE DEF a
<1>5. CASE Prepare
  <2>1. CASE op' = NoOp /\ UNCHANGED journal
    <3>1. AccountsOK'
      BY <1>5, <2>1, AccountsKept DEF Prepare
    <3> QED  BY <2>1, <3>1, SessionAssumption DEF OpOK, NoOp
  <2>2. CASE /\ journal' = [journal EXCEPT !.state = "running", !.receipt[op.action] = "dispatched"]
             /\ op' = [op EXCEPT !.pc = "begin"]
    <3>1. /\ journal'.receipt[a] = "dispatched"
          /\ \A b \in Actions \ {a} : journal'.receipt[b] = journal.receipt[b]
      BY <1>1, <1>3, <2>2 DEF Journals, a
    <3>2. UNCHANGED <<worker, effect, delivered, job>>
      BY <1>5 DEF Prepare
    <3>3. AccountsOK'
      BY <1>3, <1>4, <3>1, <3>2, OneAction, StillFinal
    <3>4. op'.pc = "begin" /\ op'.action = a /\ ~op'.sent
      BY <1>1, <1>4, <2>2 DEF Operations, a
    <3>5. OpOK'
      BY <1>3, <1>4, <3>1, <3>2, <3>4 DEF OpOK
    <3> QED  BY <3>3, <3>5
  <2> QED  BY <1>5, <2>1, <2>2 DEF Prepare, Go
<1>6. CASE BeginEffect
  <2>1. UNCHANGED <<journal, job, worker, delivered>> /\ op.pc = "begin"
    BY <1>6 DEF BeginEffect, At
  <2>2. journal.receipt[a] = "dispatched"
    BY <1>3, <2>1 DEF OpOK, a
  <2>3. CASE JobCurrent /\ effect' = [effect EXCEPT ![op.action] = "dispatched"] /\ op' = [op EXCEPT !.pc = "input"]
    <3>1. effect'[a] = "dispatched" /\ \A b \in Actions \ {a} : effect'[b] = effect[b]
      BY <1>1, <1>3, <2>3 DEF EffectRecords, Effects, a
    <3>2. job'.state # "final"
      BY <2>1, <2>3 DEF JobCurrent
    <3>3. AccountsOK'
      BY <1>3, <1>4, <2>1, <2>2, <3>1, <3>2, OneAction
    <3>4. op'.pc = "input" /\ op'.action = a /\ ~op'.sent
      BY <1>1, <1>4, <2>3 DEF Operations, a
    <3> QED  BY <1>3, <1>4, <2>1, <2>2, <3>1, <3>3, <3>4 DEF OpOK
  <2>4. CASE UNCHANGED effect /\ op' = [op EXCEPT !.pc = "undo"]
    <3>1. AccountsOK'
      BY <2>1, <2>4, AccountsKept
    <3>2. op'.pc = "undo" /\ op'.action = a /\ ~op'.sent
      BY <1>1, <1>4, <2>4 DEF Operations, a
    <3> QED  BY <1>3, <1>4, <2>1, <2>2, <2>4, <3>1, <3>2 DEF OpOK
  <2> QED  BY <1>6, <2>3, <2>4 DEF BeginEffect, Go
<1>7. CASE Dispatch
  <2>1. UNCHANGED <<journal, job, effect, delivered>> /\ op.pc = "granted"
    BY <1>7 DEF Dispatch, At
  <2>2. journal.receipt[a] = "dispatched" /\ effect[a] = "dispatched"
    BY <1>3, <2>1 DEF OpOK, a
  <2>3. /\ op'.action = a
        /\ \/ op'.pc = "acting" /\ op'.sent /\ worker'.busy = a
           \/ op'.pc = "undo" /\ UNCHANGED worker
    BY <1>1, <1>7 DEF Dispatch, Operations, Workers, a
  <2>4. AccountsOK'
    <3>1. ASSUME NEW b \in Actions PROVE InDoubt(b)' = InDoubt(b) /\ (worker'.busy = b => worker.busy = b \/ b = a)
      BY <2>1, <2>3 DEF InDoubt
    <3>2. InDoubt(a)
      BY <2>2 DEF InDoubt, Open
    <3> QED  BY <2>1, <3>1, <3>2, StillFinal DEF AccountsOK
  <2> QED  BY <1>3, <1>4, <2>1, <2>2, <2>3, <2>4 DEF OpOK
<1> QED  BY <1>5, <1>6, <1>7

\* The outcome of an action in the journal and in the job.
LEMMA OutcomeStep ==
  ASSUME SessionTypeOK, OpOK, AccountsOK, Settle \/ AcknowledgeEffect \/ Undo \/ UndoEffect
  PROVE  OpOK' /\ AccountsOK'
<1> USE DEF durable, memory, control
<1>1. /\ op \in Operations /\ worker \in Workers /\ journal \in Journals /\ effect \in EffectRecords /\ job \in Jobs
      /\ UNCHANGED <<job, worker, delivered>>
  BY Types DEF Settle, AcknowledgeEffect, Undo, UndoEffect
<1>2. op.pc \in {"settle", "acknowledge", "undo", "undone"}
  BY DEF Settle, AcknowledgeEffect, Undo, UndoEffect, At
<1>3. PICK a \in Actions : op.action = a
  BY <1>2, Acting
<1> a # NoAction /\ a # Lifetime /\ a \in Effects
  BY SessionAssumption DEF Effects
<1>4. ~op.sent => worker.busy # a /\ ~delivered[a]
  BY <1>3 DEF OpOK
<1>5. op.sent => effect[a] = "dispatched"
  BY <1>2, <1>3 DEF OpOK
<1>6. CASE Settle
  <2>1. /\ op.sent /\ effect' = effect /\ worker.busy # a
        /\ \/ op.result = "refused" /\ ~delivered[a]
           \/ op.result \in {"met", "unmet"} /\ delivered[a]
    BY <1>3, <1>6 DEF Settle, At, OpOK
  <2>2. PICK r \in {"cancelled", "verified", "failed"} :
          /\ journal' = [journal EXCEPT !.receipt[op.action] = r]
          /\ r = "cancelled" <=> op.result = "refused"
    BY <1>6, <2>1 DEF Settle
  <2>3. journal'.receipt[a] = r /\ \A b \in Actions \ {a} : journal'.receipt[b] = journal.receipt[b]
    BY <1>1, <1>3, <2>2 DEF Journals
  <2>4. op'.pc = "acknowledge" /\ op'.action = a /\ op'.sent
    BY <1>1, <1>3, <1>6, <2>1 DEF Settle, Go, Operations
  <2>5. AccountsOK'
    BY <1>1, <1>3, <2>1, <2>2, <2>3, OneAction, StillFinal
  <2> QED  BY <1>1, <1>3, <1>5, <2>1, <2>3, <2>4, <2>5 DEF OpOK
<1>7. CASE AcknowledgeEffect
  <2>1. op' = NoOp /\ journal' = journal /\ op.pc = "acknowledge" /\ effect' = [effect EXCEPT ![op.action] = "acknowledged"]
    BY <1>7 DEF AcknowledgeEffect, At
  <2>2. effect'[a] = "acknowledged" /\ \A e \in Effects \ {a} : effect'[e] = effect[e]
    BY <1>1, <1>3, <2>1 DEF EffectRecords
  <2>3. journal.receipt[a] \in {"cancelled", "verified", "failed"}
    BY <1>3, <2>1 DEF OpOK
  <2>4. ~InDoubt(a)
    BY <2>3 DEF InDoubt, Open
  <2>5. job'.state = "final" => AllAcknowledged'
    BY <1>1, <1>3, <2>2 DEF AccountsOK, AllAcknowledged
  <2>6. AccountsOK'
    <3>1. worker.busy # a /\ (delivered[a] => journal.receipt[a] \in {"verified", "failed"})
      BY <1>3, <2>4 DEF AccountsOK
    <3>2. \A b \in Actions \ {a} : journal'.receipt[b] = journal.receipt[b] /\ effect'[b] = effect[b]
      BY <2>1, <2>2 DEF Effects
    <3>3. journal.receipt[a] \in {"verified", "failed"} => delivered[a]
      BY <1>3 DEF AccountsOK
    <3> QED  BY <1>1, <1>3, <2>1, <2>3, <2>5, <3>1, <3>2, <3>3, OneAction
  <2> QED  BY <2>1, <2>6, SessionAssumption DEF OpOK, NoOp
<1>8. CASE Undo
  <2>1. /\ effect' = effect /\ op.pc = "undo"
        /\ journal' = [journal EXCEPT !.receipt[op.action] = IF op.sent THEN "unknown" ELSE "cancelled"]
    BY <1>8 DEF Undo, At
  <2>2. /\ journal'.receipt[a] = IF op.sent THEN "unknown" ELSE "cancelled"
        /\ \A b \in Actions \ {a} : journal'.receipt[b] = journal.receipt[b]
    BY <1>1, <1>3, <2>1 DEF Journals
  <2>3. op'.pc = "undone" /\ op'.action = a /\ op'.sent = op.sent
    BY <1>1, <1>3, <1>8 DEF Undo, Go, Operations
  <2>4. op.sent => InDoubt(a)'
    BY <1>5, <2>1, <2>2 DEF InDoubt, Open
  <2>5. AccountsOK'
    BY <1>1, <1>3, <1>4, <2>1, <2>2, <2>4, OneAction, StillFinal
  <2> QED  BY <1>1, <1>3, <1>4, <1>5, <2>1, <2>2, <2>3, <2>5 DEF OpOK
<1>9. CASE UndoEffect
  <2>1. /\ op' = NoOp /\ journal' = journal /\ op.pc = "undone"
        /\ effect' = IF effect[op.action] = "none" THEN effect
                     ELSE [effect EXCEPT ![op.action] = IF op.sent THEN "unknown" ELSE "acknowledged"]
    BY <1>9 DEF UndoEffect, At
  <2>2. /\ \A e \in Effects \ {a} : effect'[e] = effect[e]
        /\ op.sent => effect'[a] = "unknown"
        /\ ~op.sent => effect'[a] \in {"none", "acknowledged"}
    BY <1>1, <1>3, <1>5, <2>1 DEF EffectRecords
  <2>3. journal.receipt[a] = IF op.sent THEN "unknown" ELSE "cancelled"
    BY <1>3, <2>1 DEF OpOK
  <2>4. op.sent => InDoubt(a)'
    BY <2>1, <2>2, <2>3 DEF InDoubt, Open
  <2>5. job'.state = "final" => AllAcknowledged'
    BY <1>1, <1>3, <1>5, <2>2 DEF AccountsOK, AllAcknowledged
  <2>6. AccountsOK'
    <3>1. \A b \in Actions \ {a} : journal'.receipt[b] = journal.receipt[b] /\ effect'[b] = effect[b]
      BY <2>1, <2>2 DEF Effects
    <3> QED  BY <1>1, <1>3, <1>4, <2>1, <2>3, <2>4, <2>5, <3>1, OneAction
  <2> QED  BY <2>1, <2>6, SessionAssumption DEF OpOK, NoOp
<1> QED  BY <1>6, <1>7, <1>8, <1>9

\* The input reaches the target, and the daemon is lost.
LEMMA DeliveryStep ==
  ASSUME SessionTypeOK, OpOK, AccountsOK, Deliver \/ DaemonCrash
  PROVE  OpOK' /\ AccountsOK'
<1> USE DEF durable, daemon, memory, control
<1>1. CASE Deliver
  <2>1. UNCHANGED <<journal, effect, job, op, worker>> /\ worker.busy \in Actions /\ worker.busy # NoAction
    BY <1>1, Types DEF Deliver, Workers
  <2>2. delivered' = [delivered EXCEPT ![worker.busy] = TRUE]
    BY <1>1 DEF Deliver
  <2>3. \A a \in Actions : delivered'[a] <=> delivered[a] \/ worker.busy = a
    BY <2>1, <2>2, Types
  <2>4. InDoubt(worker.busy)
    BY <2>1 DEF AccountsOK
  <2>5. AccountsOK'
    BY <2>1, <2>3, <2>4 DEF AccountsOK, InDoubt, AllAcknowledged
  <2>6. worker.busy = op.action => op.pc \notin {"replied", "recorded", "settle"} /\ op.sent
    BY <2>1 DEF OpOK
  <2> QED  BY <2>1, <2>3, <2>5, <2>6 DEF OpOK
<1>2. CASE DaemonCrash
  <2>1. op' = NoOp /\ UNCHANGED <<journal, effect, job, delivered>> /\ worker'.busy = worker.busy
    BY <1>2, Types DEF DaemonCrash, Fenced, Workers
  <2> QED  BY <2>1, AccountsKept, SessionAssumption DEF OpOK, NoOp
<1> QED  BY <1>1, <1>2

-----------------------------------------------------------------------------
(***************************************************************************)
(* Stops                                                                   *)
(***************************************************************************)
StopKept == StopOK' /\ (journal.stop = "acknowledged" => journal'.stop = "acknowledged")

\* Steps that are not part of a stop.
LEMMA NoStop ==
  ASSUME StopOK, stopper' = stopper, journal'.stop = journal.stop,
         worker.state = "terminated" => worker'.state = "terminated",
         journal.stop = "acknowledged" => journal'.state = journal.state,
         effect'[Lifetime] \in {effect[Lifetime], "dispatched"}
  PROVE  StopKept
  BY DEF StopOK, StopKept

LEMMA NoStopSteps ==
  ASSUME SessionTypeOK, StopOK,
         Opening \/ Pause \/ PauseStep \/ Resume \/ ResumeStep \/ FinishJob \/ CancelJob \/ RecoverJob \/ RevokeGrant
           \/ Deliver \/ WorkerIdle \/ ReleaseInput \/ Terminate \/ WorkerDies \/ HeartbeatLost \/ StopReturns
  PROVE  StopKept
<1> USE DEF durable, memory, control, data, doing, rest, daemon
<1>1. /\ journal \in Journals /\ worker \in Workers /\ effect \in EffectRecords
      /\ journal.state \in JournalStates
  BY Types DEF Journals
<1>2. CASE Opening
  BY <1>1, <1>2, NoStop DEF Opening, BeginLifetime, OpenWorker, ReadyJournal, Bind, Bound,
     Journals, Workers, EffectRecords, Effects, StopOK
<1>3. CASE Pause \/ PauseStep
  BY <1>1, <1>3, NoStop DEF PauseStep, Pause, PauseRequested, Drain, PauseWorker,
     PauseAcknowledged, FailPause, Pausable, Journals, Workers
<1>4. CASE Resume \/ ResumeStep
  BY <1>1, <1>4, NoStop DEF ResumeStep, Resume, ResumeCheck, ResumeWorker, ResumeJournal,
     ResumeControl, ResumeRecord, ResumeUpdate,
                  Active, Journals, Workers
<1>5. CASE FinishJob \/ CancelJob \/ RecoverJob \/ RevokeGrant \/ Deliver \/ StopReturns
  BY <1>5, NoStop DEF FinishJob, CancelJob, RecoverJob, RevokeGrant, Deliver, StopReturns
<1>6. CASE WorkerIdle \/ ReleaseInput \/ Terminate \/ WorkerDies \/ HeartbeatLost
  BY <1>1, <1>6, NoStop DEF WorkerIdle, ReleaseInput, Terminate, WorkerDies, HeartbeatLost,
     Alive, Fenced, Workers
<1> QED  BY <1>2, <1>3, <1>4, <1>5, <1>6

LEMMA NoStopOperations ==
  ASSUME SessionTypeOK, OpOK, StopOK, Observe \/ (\E a \in Actions : Act(a)) \/ OpStep
  PROVE  StopKept
<1> USE DEF durable, memory, control
<1>1. /\ journal \in Journals /\ worker \in Workers /\ effect \in EffectRecords
      /\ journal.state \in JournalStates
  BY Types DEF Journals
<1>2. CASE Observe \/ (\E a \in Actions : Act(a)) \/ Review \/ AssertInput \/ Dispatch \/ Answer \/ AnswerLost
  BY <1>1, <1>2, NoStop DEF Observe, Act, Review, AssertInput, Dispatch, Answer, AnswerLost, Workers
<1>3. CASE Prepare \/ Record \/ UpdateTarget \/ Settle \/ Undo
  BY <1>1, <1>3, NoStop DEF Prepare, Record, UpdateTarget, Settle, Undo, Active, Journals
<1>4. CASE BeginEffect \/ AcknowledgeEffect \/ UndoEffect
  <2>1. op.action # Lifetime
    BY <1>4, Acting, SessionAssumption DEF BeginEffect, AcknowledgeEffect, UndoEffect, At
  <2> QED  BY <1>1, <1>4, <2>1, NoStop DEF BeginEffect, AcknowledgeEffect, UndoEffect,
              EffectRecords, Effects
<1> QED  BY <1>2, <1>3, <1>4 DEF OpStep

\* The steps of stops: an acknowledgement follows a proof.
LEMMA StopSteps ==
  ASSUME SessionTypeOK, StopOK, Stop \/ StopBinding \/ RecoverStop \/ DaemonCrash \/ \E i \in Stoppers : StopStep(i)
  PROVE  StopKept
<1> USE DEF durable, memory, control, data, doing, rest, daemon
<1>1. /\ journal \in Journals /\ worker \in Workers /\ effect \in EffectRecords /\ stopper \in StopperRecords
      /\ Lifetime \in Effects
  BY Types DEF Effects
<1>2. CASE Stop \/ StopBinding \/ RecoverStop \/ DaemonCrash
  <2>1. UNCHANGED <<journal, effect>> /\ worker'.state = worker.state
    BY <1>1, <1>2 DEF Stop, StopBinding, RecoverStop, DaemonCrash, BindingStops, Fenced, Workers
  <2>2. \A i \in Stoppers : stopper'[i] \in {stopper[i], "release", "idle"}
    BY <1>1, <1>2 DEF Stop, StopBinding, RecoverStop, DaemonCrash, BindingStops, StopperRecords
  <2> QED  BY <2>1, <2>2 DEF StopOK, StopKept
<1>3. ASSUME NEW i \in Stoppers, StopStep(i)
      PROVE  StopKept
  <2>1. worker' = worker
    BY <1>3 DEF StopStep, AwaitRelease, RequestStop, AwaitProof, AcknowledgeStop, SettleLifetime,
       StopUnknown, Reconcile
  <2>2. \A k \in Stoppers \ {i} : stopper'[k] = stopper[k]
    BY <1>1, <1>3 DEF StopStep, AwaitRelease, RequestStop, AwaitProof, AcknowledgeStop,
       SettleLifetime, StopUnknown, Reconcile,
                 StopTo, StopperRecords
  <2>3. Ended(i) \in {"reconcile", "idle"}
    BY DEF Ended
  <2>4. CASE AwaitRelease(i) \/ RequestStop(i)
    <3>1. stopper'[i] \notin {"ack", "lifetime"} /\ effect' = effect
      BY <1>1, <2>4 DEF AwaitRelease, RequestStop, StopTo, StopperRecords
    <3>2. journal'.stop # "acknowledged" \/ journal' = journal
      BY <1>1, <2>4 DEF AwaitRelease, RequestStop, StopState, Journals
    <3>3. journal.stop = "acknowledged" => journal' = journal
      BY <2>4 DEF AwaitRelease, RequestStop
    <3> QED  BY <2>1, <2>2, <3>1, <3>2, <3>3 DEF StopOK, StopKept
  <2>5. CASE AwaitProof(i)
    <3>1. UNCHANGED <<journal, effect>> /\ (stopper'[i] = "ack" => worker.state = "terminated") /\ stopper'[i] # "lifetime"
      BY <1>1, <2>5 DEF AwaitProof, StopTo, StopperRecords
    <3> QED  BY <2>1, <2>2, <3>1 DEF StopOK, StopKept
  <2>6. CASE AcknowledgeStop(i)
    <3>1. effect' = effect /\ journal'.stop = "acknowledged" /\ journal'.state = "stopped" /\ worker.state = "terminated"
      BY <1>1, <2>6 DEF AcknowledgeStop, StopState, Journals, StopOK
    <3> QED  BY <2>1, <2>2, <3>1 DEF StopOK, StopKept
  <2>7. CASE SettleLifetime(i)
    <3>1. journal' = journal /\ stopper'[i] # "ack" /\ worker.state = "terminated"
      BY <1>1, <2>3, <2>7 DEF SettleLifetime, StopTo, StopperRecords, StopOK
    <3> QED  BY <2>1, <2>2, <3>1 DEF StopOK, StopKept
  <2>8. CASE StopUnknown(i) \/ Reconcile(i)
    <3>1. stopper'[i] = "idle" /\ effect' = effect
      BY <1>1, <2>8 DEF StopUnknown, Reconcile, StopTo, StopperRecords
    <3>2. journal' = journal \/ (journal.stop # "acknowledged" /\ journal'.stop = "unknown")
      BY <1>1, <2>8 DEF StopUnknown, Reconcile, StopState, Journals
    <3> QED  BY <2>1, <2>2, <3>1, <3>2 DEF StopOK, StopKept
  <2> QED  BY <1>3, <2>4, <2>5, <2>6, <2>7, <2>8 DEF StopStep
<1> QED  BY <1>2, <1>3

LEMMA StopHolds ==
  ASSUME SessionTypeOK, OpOK, StopOK, [SessionNext]_cvars
  PROVE  StopKept
<1>1. CASE UNCHANGED cvars
  BY <1>1, NoStop DEF cvars, control
<1> QED  BY <1>1, NoStopSteps, NoStopOperations, StopSteps DEF SessionNext

-----------------------------------------------------------------------------
(***************************************************************************)
(* Pauses, and an operation only in an open session                        *)
(***************************************************************************)
LEMMA PauseAsBefore ==
  ASSUME PauseOK, journal'.receipt = journal.receipt,
         journal'.pause = "acknowledged" => journal.pause = "acknowledged",
         Active(journal') => Active(journal)
  PROVE  PauseOK'
  BY DEF PauseOK, Active

\* No intent is written in a paused session, and none is paused over.
LEMMA PauseHolds ==
  ASSUME SessionTypeOK, OpOK, PauseOK, LiveOK, [SessionNext]_cvars
  PROVE  PauseOK'
<1> USE DEF durable, memory, control, data, doing, rest, daemon
<1>1. journal \in Journals /\ journal.receipt \in [Actions -> Receipts]
  BY Types DEF Journals
<1>2. CASE journal' = journal
  BY <1>2, PauseAsBefore
<1>3. CASE ReadyJournal
  <2>1. CASE journal' # journal
    <3>1. journal.pause # "acknowledged"
      BY <1>3, <2>1 DEF ReadyJournal, LiveOK, UnboundOK
    <3>2. journal'.pause = journal.pause
      BY <1>1, <1>3 DEF ReadyJournal, Journals
    <3> QED  BY <3>1, <3>2 DEF PauseOK
  <2> QED  BY <1>2, <2>1
<1>4. CASE Prepare \/ Settle \/ Undo
  <2>1. CASE journal' # journal
    <3>1. journal.pause # "acknowledged"
      <4>1. CASE Prepare
        BY <2>1, <4>1 DEF Prepare, PauseOK
      <4>2. CASE Settle \/ Undo
        <5>1. op.action \in Actions /\ journal.receipt[op.action] = "dispatched"
          BY <4>2, Acting DEF Settle, Undo, At, OpOK
        <5> QED  BY <5>1 DEF PauseOK, Open
      <4> QED  BY <1>4, <4>1, <4>2
    <3>2. journal'.pause = journal.pause
      BY <1>1, <1>4 DEF Prepare, Settle, Undo, Journals
    <3> QED  BY <3>1, <3>2 DEF PauseOK
  <2> QED  BY <1>2, <2>1
<1>5. CASE PauseAcknowledged
  <2>1. CASE journal' # journal
    <3>1. /\ journal'.state = "paused" /\ journal'.receipt = journal.receipt
          /\ \A a \in Actions : journal.receipt[a] \notin Open
      BY <1>1, <1>5, <2>1 DEF PauseAcknowledged, Journals
    <3> QED  BY <3>1 DEF PauseOK, Active
  <2> QED  BY <1>2, <2>1
<1>6. CASE PauseRequested \/ FailPause \/ ResumeJournal
  BY <1>1, <1>6, PauseAsBefore DEF PauseRequested, FailPause, ResumeJournal, PauseOK, Journals
<1>7. CASE Record \/ ResumeRecord
  BY <1>1, <1>7, PauseAsBefore DEF Record, ResumeRecord, Active, Journals
<1>8. ASSUME NEW i \in Stoppers, RequestStop(i) \/ AcknowledgeStop(i) \/ StopUnknown(i)
      PROVE  PauseOK'
  BY <1>1, <1>8, PauseAsBefore DEF RequestStop, AcknowledgeStop, StopUnknown, StopState, Active,
     Journals
<1>9. CASE UNCHANGED cvars
  BY <1>2, <1>9 DEF cvars
<1>10. CASE Opening /\ ~ReadyJournal
  BY <1>2, <1>10 DEF Opening, BeginLifetime, OpenWorker, Bind, Bound
<1>11. CASE Observe \/ (\E a \in Actions : Act(a)) \/ Review \/ BeginEffect \/ AssertInput \/ Dispatch \/ Answer \/ AnswerLost
             \/ UpdateTarget \/ AcknowledgeEffect \/ UndoEffect
  BY <1>2, <1>11 DEF Observe, Act, Review, BeginEffect, AssertInput, Dispatch, Answer,
     AnswerLost, UpdateTarget,
                     AcknowledgeEffect, UndoEffect
<1>12. CASE Pause \/ Drain \/ PauseWorker \/ Resume \/ ResumeCheck \/ ResumeWorker \/ ResumeControl \/ ResumeUpdate
  BY <1>2, <1>12 DEF Pause, Drain, PauseWorker, Resume, ResumeCheck, ResumeWorker, ResumeControl,
     ResumeUpdate
<1>13. CASE Stop \/ StopBinding \/ RecoverStop \/ StopReturns
  BY <1>2, <1>13 DEF Stop, StopBinding, RecoverStop, StopReturns
<1>14. CASE FinishJob \/ CancelJob \/ RecoverJob \/ RevokeGrant
  BY <1>2, <1>14 DEF FinishJob, CancelJob, RecoverJob, RevokeGrant
<1>15. CASE Deliver \/ WorkerIdle \/ ReleaseInput \/ Terminate \/ WorkerDies \/ HeartbeatLost \/ DaemonCrash
  BY <1>2, <1>15 DEF Deliver, WorkerIdle, ReleaseInput, Terminate, WorkerDies, HeartbeatLost,
     DaemonCrash
<1>16. ASSUME NEW i \in Stoppers, AwaitRelease(i) \/ AwaitProof(i) \/ SettleLifetime(i) \/ Reconcile(i)
       PROVE  PauseOK'
  BY <1>2, <1>16 DEF AwaitRelease, AwaitProof, SettleLifetime, Reconcile
<1>17. CASE PauseStep \/ ResumeStep
  BY <1>5, <1>6, <1>7, <1>12, <1>17 DEF PauseStep, ResumeStep
<1>18. CASE OpStep
  BY <1>4, <1>7, <1>11, <1>18 DEF OpStep
<1>19. CASE \E i \in Stoppers : StopStep(i)
  BY <1>8, <1>16, <1>19 DEF StopStep
<1> QED  BY <1>3, <1>9, <1>10, <1>11, <1>12, <1>13, <1>14, <1>15, <1>17, <1>18, <1>19
            DEF SessionNext

\* Operations, pauses and resumes begin in an open session only.
LEMMA OpeningHolds ==
  ASSUME SessionTypeOK, OpeningOK, [SessionNext]_cvars
  PROVE  OpeningOK'
<1> USE DEF durable, memory, control, data, doing, rest, daemon
<1>1. broker \in Brokers /\ op \in Operations /\ resuming \in Resumings /\ pausing \in Pausings
  BY Types
<1>2. CASE UNCHANGED <<op, pausing, resuming>> /\ (broker'.pc # "open" => broker.pc # "open")
  BY <1>2 DEF OpeningOK
<1>3. CASE broker.pc = "open" /\ broker'.pc = "open"
  BY <1>3 DEF OpeningOK
<1>4. CASE Opening
  BY <1>1, <1>2, <1>4 DEF Opening, BeginLifetime, OpenWorker, ReadyJournal, Bind, Bound, Brokers
<1>5. CASE Observe \/ (\E a \in Actions : Act(a)) \/ OpStep
  <2>1. broker' = broker
    BY <1>5 DEF Observe, Act, OpStep, Review, Prepare, BeginEffect, AssertInput, Dispatch,
       Answer, AnswerLost, Record,
                UpdateTarget, Settle, AcknowledgeEffect, Undo, UndoEffect
  <2>2. broker.pc = "open" \/ op.pc # "idle"
    BY <1>5 DEF Observe, Act, OpStep, Review, Prepare, BeginEffect, AssertInput, Dispatch,
       Answer, AnswerLost, Record,
                UpdateTarget, Settle, AcknowledgeEffect, Undo, UndoEffect, At
  <2> QED  BY <1>3, <2>1, <2>2 DEF OpeningOK
<1>6. CASE Pause \/ PauseStep
  <2>1. broker'.pc = broker.pc /\ (broker.pc = "open" \/ pausing # "none")
    BY <1>1, <1>6 DEF Pause, PauseStep, PauseRequested, Drain, PauseWorker, PauseAcknowledged,
       FailPause, Brokers
  <2> QED  BY <1>3, <2>1 DEF OpeningOK
<1>7. CASE Resume \/ ResumeStep
  <2>1. broker'.pc = broker.pc /\ (broker.pc = "open" \/ resuming.pc # "none")
    BY <1>1, <1>7 DEF Resume, ResumeStep, ResumeCheck, ResumeWorker, ResumeJournal,
       ResumeControl, ResumeRecord,
                      ResumeUpdate, Brokers
  <2> QED  BY <1>3, <2>1 DEF OpeningOK
<1>8. CASE Stop \/ StopBinding \/ RecoverStop \/ StopReturns
  BY <1>1, <1>2, <1>8 DEF Stop, StopBinding, RecoverStop, StopReturns, Brokers
<1>9. ASSUME NEW i \in Stoppers, StopStep(i)
      PROVE  OpeningOK'
  BY <1>1, <1>2, <1>9 DEF StopStep, AwaitRelease, RequestStop, AwaitProof, AcknowledgeStop,
     SettleLifetime, StopUnknown,
                          Reconcile, Brokers
<1>10. CASE FinishJob \/ CancelJob \/ RecoverJob \/ RevokeGrant
  BY <1>2, <1>10 DEF FinishJob, CancelJob, RecoverJob, RevokeGrant
<1>11. CASE Deliver \/ WorkerIdle \/ ReleaseInput \/ Terminate \/ WorkerDies \/ HeartbeatLost
  BY <1>2, <1>11 DEF Deliver, WorkerIdle, ReleaseInput, Terminate, WorkerDies, HeartbeatLost
<1>12. CASE DaemonCrash
  BY <1>12 DEF DaemonCrash, NoOp, NotResuming, OpeningOK
<1>13. CASE UNCHANGED cvars
  BY <1>2, <1>13 DEF cvars
<1> QED  BY <1>4, <1>5, <1>6, <1>7, <1>8, <1>9, <1>10, <1>11, <1>12, <1>13 DEF SessionNext

-----------------------------------------------------------------------------
(***************************************************************************)
(* A running session: the journal and the binding agree                    *)
(***************************************************************************)
\* A live session in which an operation, a pause or a resume is under way is open.
LEMMA Underway ==
  ASSUME OpeningOK, LiveOK, ~broker.aborted, op.pc # "idle" \/ pausing # "none" \/ resuming.pc # "none" \/ broker.pc = "open"
  PROVE  broker.pc = "open" /\ Running /\ FencesOK /\ GenerationsOK
  BY DEF OpeningOK, LiveOK

\* Steps that leave all of this alone.
LEMMA LiveAsBefore ==
  ASSUME LiveOK, UNCHANGED <<broker, binding, op, pausing, resuming, stopper>>,
         journal' = journal, resuming.pc = "update" => worker'.gen = worker.gen
  PROVE  LiveOK'
  BY DEF LiveOK, Running, UnboundOK, FencesOK, GenerationsOK

LEMMA LiveElsewhere ==
  ASSUME SessionTypeOK, LiveOK,
         \/ FinishJob \/ CancelJob \/ RecoverJob \/ RevokeGrant \/ UNCHANGED cvars
         \/ Deliver \/ WorkerIdle \/ ReleaseInput \/ Terminate \/ WorkerDies \/ HeartbeatLost
  PROVE  LiveOK'
<1> USE DEF durable, memory, control, doing, rest, daemon
<1>1. CASE FinishJob \/ CancelJob \/ RecoverJob \/ RevokeGrant \/ UNCHANGED cvars
  BY <1>1, LiveAsBefore DEF FinishJob, CancelJob, RecoverJob, RevokeGrant, cvars
<1>2. CASE Deliver \/ WorkerIdle \/ ReleaseInput \/ Terminate \/ WorkerDies \/ HeartbeatLost
  BY <1>2, Types, LiveAsBefore DEF Deliver, WorkerIdle, ReleaseInput, Terminate, WorkerDies,
     HeartbeatLost, Fenced, Workers
<1> QED  BY <1>1, <1>2

\* A stop aborts the session, and its steps run in an aborted one only.
LEMMA LiveStops ==
  ASSUME SessionTypeOK, LiveOK,
         Stop \/ StopBinding \/ RecoverStop \/ StopReturns \/ DaemonCrash \/ \E i \in Stoppers : StopStep(i)
  PROVE  LiveOK'
<1> USE DEF durable, memory, control, doing, rest, daemon
<1>1. CASE Stop \/ StopBinding \/ RecoverStop \/ DaemonCrash
  BY <1>1, Types DEF Stop, StopBinding, RecoverStop, DaemonCrash, SessionStart, LiveOK, Brokers
<1>2. CASE StopReturns
  BY <1>2, Types DEF StopReturns, LiveOK, Running, Brokers
<1>3. ASSUME NEW i \in Stoppers, StopStep(i)
      PROVE  LiveOK'
  <2>1. broker.aborted
    BY <1>3 DEF StopStep, AwaitRelease, RequestStop, AwaitProof, AcknowledgeStop, SettleLifetime,
       StopUnknown, Reconcile,
                LiveOK, Running
  <2>2. broker'.aborted = broker.aborted
    BY <1>3, Types DEF StopStep, AwaitRelease, RequestStop, AwaitProof, AcknowledgeStop,
       SettleLifetime, StopUnknown, Reconcile,
                Brokers
  <2> QED  BY <2>1, <2>2 DEF LiveOK
<1> QED  BY <1>1, <1>2, <1>3

\* The session becomes ready, is bound and opens.
LEMMA LiveOpening ==
  ASSUME SessionTypeOK, OpeningOK, LiveOK, Opening
  PROVE  LiveOK'
<1> USE DEF durable, memory, control, LiveOK, Running, UnboundOK
<1>1. broker \in Brokers /\ journal \in Journals
  BY Types
<1>2. CASE BeginLifetime
  BY <1>1, <1>2 DEF BeginLifetime, Brokers
<1>3. CASE OpenWorker
  BY <1>1, <1>3 DEF OpenWorker, Brokers
<1>4. CASE ReadyJournal
  <2>1. CASE broker'.pc = "bind"
    <3>1. journal' = [journal EXCEPT !.state = "ready", !.fence = journal.fence + 1] /\ broker.pc = "ready"
      BY <1>1, <1>4, <2>1 DEF ReadyJournal, Brokers
    <3>2. /\ journal'.state = "ready" /\ journal'.fence = journal.fence + 1
          /\ UNCHANGED <<journal.gen, journal.pause, journal.stop>>
      BY <1>1, <3>1 DEF Journals
    <3>3. broker'.aborted = broker.aborted /\ broker'.pauseRequested = broker.pauseRequested /\ broker'.stopping = broker.stopping
      BY <1>1, <1>4 DEF ReadyJournal, Brokers
    <3> QED  BY <1>4, <2>1, <3>1, <3>2, <3>3 DEF ReadyJournal
  <2>2. CASE broker'.pc # "bind"
    BY <1>1, <1>4, <2>2 DEF ReadyJournal, Brokers
  <2> QED  BY <2>1, <2>2
<1>5. CASE Bind
  BY <1>1, <1>5 DEF Bind, Brokers, OpeningOK, FencesOK, GenerationsOK
<1>6. CASE Bound
  BY <1>1, <1>6 DEF Bound, Brokers, FencesOK, GenerationsOK
<1> QED  BY <1>2, <1>3, <1>4, <1>5, <1>6 DEF Opening

\* A pause moves the fence of the binding, then that of the journal.
LEMMA LivePause ==
  ASSUME SessionTypeOK, OpeningOK, LiveOK, Pause \/ PauseStep
  PROVE  LiveOK'
<1> USE DEF data, durable, memory, control, LiveOK, Running, UnboundOK, FencesOK, GenerationsOK
<1>1. broker \in Brokers /\ journal \in Journals /\ binding \in Bindings
  BY Types
<1>2. CASE Pause
  BY <1>1, <1>2, Underway DEF Pause, PauseTo, Brokers, Bindings
<1>3. CASE PauseRequested
  BY <1>1, <1>3, Underway DEF PauseRequested, PauseTo, Pausable, Journals
<1>4. CASE Drain
  BY <1>4, Underway DEF Drain, PauseTo, At
<1>5. CASE PauseWorker
  BY <1>5, Underway DEF PauseWorker, PauseTo
<1>6. CASE PauseAcknowledged
  BY <1>1, <1>6, Underway DEF PauseAcknowledged, PauseTo, Journals
<1>7. CASE FailPause
  BY <1>1, <1>7, Underway DEF FailPause, PauseTo, Pausable, Journals
<1> QED  BY <1>2, <1>3, <1>4, <1>5, <1>6, <1>7 DEF PauseStep

\* A resume moves the fence of the journal, then that of the binding.
LEMMA LiveResume ==
  ASSUME SessionTypeOK, OpeningOK, LiveOK, Resume \/ ResumeStep
  PROVE  LiveOK'
<1> USE DEF data, durable, memory, control, LiveOK, Running, UnboundOK, FencesOK, GenerationsOK, ResumeTo
<1>1. /\ broker \in Brokers /\ journal \in Journals /\ binding \in Bindings /\ resuming \in Resumings /\ worker \in Workers
      /\ pausing \in Pausings
  BY Types
<1>2. CASE Resume
  BY <1>1, <1>2, Underway DEF Resume, Resumings
<1>3. CASE ResumeCheck
  BY <1>1, <1>3, Underway DEF ResumeCheck, Resumings
<1>4. CASE ResumeWorker
  BY <1>1, <1>4, Underway DEF ResumeWorker, Resumings
<1>5. CASE ResumeJournal
  <2>1. SUFFICES ASSUME ~broker.aborted PROVE LiveOK'
    BY <1>5 DEF ResumeJournal
  <2>2. journal.state = "paused" /\ journal.pause = "acknowledged" /\ journal.stop = "not_requested"
    BY <1>1, <1>5, <2>1, Underway DEF ResumeJournal
  <2>3. /\ journal'.state = "ready" /\ journal'.fence = journal.fence + 1 /\ journal'.pause = "not_requested"
        /\ UNCHANGED <<journal.gen, journal.stop>>
    BY <1>1, <1>5, <2>2 DEF ResumeJournal, Journals
  <2>4. resuming'.pc = "control" /\ resuming'.fence = journal.fence + 1
    BY <1>5, <2>2 DEF ResumeJournal
  <2> QED  BY <1>1, <1>5, <2>1, <2>3, <2>4, Underway DEF ResumeJournal
<1>6. CASE ResumeControl
  BY <1>1, <1>6, Underway DEF ResumeControl, Resumings, Bindings
<1>7. CASE ResumeRecord
  BY <1>1, <1>7, Underway DEF ResumeRecord, Active, Resumings, Journals
<1>8. CASE ResumeUpdate
  BY <1>1, <1>8, Underway DEF ResumeUpdate, NotResuming, Resumings, Brokers, Bindings
<1> QED  BY <1>2, <1>3, <1>4, <1>5, <1>6, <1>7, <1>8 DEF ResumeStep

\* An operation moves generations, and no fence.
LEMMA LiveOperation ==
  ASSUME SessionTypeOK, OpOK, OpeningOK, LiveOK, Observe \/ (\E a \in Actions : Act(a)) \/ OpStep
  PROVE  LiveOK'
<1> USE DEF durable, memory, control, LiveOK, Running, UnboundOK, FencesOK, GenerationsOK
<1>1. /\ journal \in Journals /\ binding \in Bindings /\ op \in Operations /\ worker \in Workers
      /\ pausing \in Pausings /\ NoOp \in Operations
  BY Types, NoOpType
<1>2. UNCHANGED <<broker, pausing, resuming, stopper>>
  BY DEF Observe, Act, OpStep, Review, Prepare, BeginEffect, AssertInput, Dispatch, Answer,
     AnswerLost, Record,
         UpdateTarget, Settle, AcknowledgeEffect, Undo, UndoEffect
<1>3. SUFFICES ASSUME ~broker.aborted
               PROVE  LiveOK'
  BY <1>2
<1>4. broker.pc = "open"
  BY <1>3 DEF Observe, Act, OpStep, Review, Prepare, BeginEffect, AssertInput, Dispatch, Answer,
     AnswerLost, Record,
         UpdateTarget, Settle, AcknowledgeEffect, Undo, UndoEffect, At, OpeningOK
<1>5. Running /\ FencesOK /\ GenerationsOK
  BY <1>3, <1>4
<1>6. op.pc # "idle" => pausing \in {"none", "request", "drain"} /\ resuming.pc = "none"
  BY <1>5
<1>7. CASE Observe
  <2>1. op'.pc = "replied" /\ op.pc = "idle" /\ pausing = "none" /\ UNCHANGED <<journal, binding>>
    BY <1>5, <1>7 DEF Observe, Admissible, NoOp, At
  <2> QED  BY <1>2, <1>4, <1>5, <2>1
<1>8. CASE \E a \in Actions : Act(a)
  <2>1. op'.pc = "review" /\ op.pc = "idle" /\ pausing = "none" /\ UNCHANGED <<journal, binding, worker>>
    BY <1>5, <1>8 DEF Act, Admissible, NoOp, At
  <2> QED  BY <1>2, <1>4, <1>5, <2>1
<1>9. CASE Review
  BY <1>1, <1>2, <1>4, <1>5, <1>9 DEF Review, At, Go, NoOp, Operations
<1>10. CASE Prepare
  <2>1. UNCHANGED <<binding, worker>> /\ op.pc = "prepare"
    BY <1>10 DEF Prepare, At
  <2>2. CASE op' = NoOp /\ journal' = journal
    BY <1>2, <1>4, <1>5, <2>1, <2>2 DEF NoOp
  <2>3. CASE op' # NoOp \/ journal' # journal
    <3>1. /\ journal.state \in {"ready", "running"} /\ journal.fence = op.fence /\ journal.gen = op.gen
          /\ journal' = [journal EXCEPT !.state = "running", !.receipt[op.action] = "dispatched"]
          /\ op' = [op EXCEPT !.pc = "begin"]
      BY <1>10, <2>3 DEF Prepare, Active, Go
    <3>2. /\ journal'.state = "running" /\ op'.pc = "begin"
          /\ UNCHANGED <<journal.fence, journal.gen, journal.stop, journal.pause, op.fence, op.gen>>
      BY <1>1, <3>1 DEF Journals, Operations
    <3> QED  BY <1>2, <1>4, <1>5, <1>6, <2>1, <3>1, <3>2
  <2> QED  BY <2>2, <2>3
<1>11. CASE BeginEffect
  BY <1>1, <1>2, <1>4, <1>5, <1>11 DEF BeginEffect, At, Go, Operations
<1>12. CASE AssertInput
  BY <1>1, <1>2, <1>4, <1>5, <1>12 DEF AssertInput, At, Go, Operations
<1>13. CASE Dispatch
  BY <1>1, <1>2, <1>4, <1>5, <1>13 DEF Dispatch, At, Operations, Workers
<1>14. CASE Answer \/ AnswerLost
  BY <1>1, <1>2, <1>4, <1>5, <1>6, <1>14 DEF Answer, AnswerLost, At, Go, Operations
<1>15. CASE Record
  <2>1. /\ UNCHANGED <<binding, worker, journal.state, journal.fence, journal.stop, journal.pause>> /\ op.pc = "replied"
    BY <1>1, <1>15 DEF Record, At, Journals
  <2>2. op'.pc = "recorded" \/ (op'.pc \in {"idle", "undo"} /\ journal' = journal)
    BY <1>1, <1>15 DEF Record, Go, Failed, NoOp, Operations
  <2> QED  BY <1>2, <1>4, <1>5, <1>6, <2>1, <2>2
<1>16. CASE UpdateTarget
  BY <1>1, <1>2, <1>4, <1>5, <1>6, <1>16 DEF UpdateTarget, At, Go, Failed, NoOp, Operations,
     Bindings
<1>17. CASE Settle \/ Undo
  BY <1>1, <1>2, <1>4, <1>5, <1>17 DEF Settle, Undo, At, Go, Operations, Journals
<1>18. CASE AcknowledgeEffect \/ UndoEffect
  BY <1>1, <1>2, <1>4, <1>5, <1>18 DEF AcknowledgeEffect, UndoEffect, At, NoOp
<1> QED  BY <1>7, <1>8, <1>9, <1>10, <1>11, <1>12, <1>13, <1>14, <1>15, <1>16, <1>17, <1>18
            DEF OpStep

-----------------------------------------------------------------------------
(***************************************************************************)
(* The invariant                                                           *)
(***************************************************************************)
LEMMA TypesHold ==
  ASSUME SessionTypeOK, OpOK, [SessionNext]_cvars
  PROVE  SessionTypeOK'
<1>1. CASE UNCHANGED cvars
  BY <1>1, Types DEF cvars, control
<1> QED  BY <1>1, OpeningTypes, OperationTypes, PauseTypes, ResumeTypes, StopTypes, JobTypes,
            WorkerTypes
         DEF SessionNext, Opening, OpStep, PauseStep, ResumeStep

LEMMA AccountsHold ==
  ASSUME SessionTypeOK, OpOK, AccountsOK, [SessionNext]_cvars
  PROVE  OpOK' /\ AccountsOK'
<1>1. CASE UNCHANGED cvars
  <2>1. Quiet
    BY <1>1, StillFinal DEF cvars, control, Quiet
  <2> QED  BY <2>1, QuietKeeps
<1>2. CASE Opening
  BY <1>2, QuietOpening, QuietKeeps DEF Opening
<1>3. CASE Observe \/ (\E a \in Actions : Act(a)) \/ OpStep
  BY <1>3, ObservingStep, IntentStep, OutcomeStep DEF OpStep
<1>4. CASE Pause \/ PauseStep \/ Resume \/ ResumeStep
  BY <1>4, QuietPause, QuietResume, QuietKeeps DEF PauseStep, ResumeStep
<1>5. CASE Stop \/ StopBinding \/ RecoverStop \/ StopReturns \/ \E i \in Stoppers : StopStep(i)
  BY <1>5, QuietStop, QuietKeeps
<1>6. CASE \/ FinishJob \/ CancelJob \/ RecoverJob \/ RevokeGrant \/ WorkerIdle \/ ReleaseInput \/ Terminate \/ WorkerDies
           \/ HeartbeatLost
  BY <1>6, QuietRest, QuietKeeps
<1>7. CASE Deliver \/ DaemonCrash
  BY <1>7, DeliveryStep
<1> QED  BY <1>1, <1>2, <1>3, <1>4, <1>5, <1>6, <1>7 DEF SessionNext

LEMMA LiveHolds ==
  ASSUME SessionTypeOK, OpOK, OpeningOK, LiveOK, [SessionNext]_cvars
  PROVE  LiveOK'
BY LiveElsewhere, LiveStops, LiveOpening, LiveOperation, LivePause, LiveResume DEF SessionNext

LEMMA InitInv ==
  ASSUME SessionInit
  PROVE  IInv
<1> USE SessionAssumption DEF SessionInit, SessionStart, NoBinding, NotResuming
<1>1. SessionTypeOK
  <2>1. journal \in Journals
    BY DEF Journals, JournalStates, StopStates, Receipts
  <2>2. effect \in EffectRecords /\ job \in Jobs /\ grant \in BOOLEAN /\ broker \in Brokers /\ binding \in Bindings
    BY DEF EffectRecords, Jobs, Brokers, Bindings, BindingStates
  <2>3. op \in Operations /\ pausing \in Pausings /\ resuming \in Resumings /\ stopper \in StopperRecords
    BY NoOpType DEF Pausings, Resumings, StopperRecords
  <2>4. worker \in Workers /\ delivered \in [Actions -> BOOLEAN] /\ events \in Nat
    BY DEF Workers
  <2> QED  BY <2>1, <2>2, <2>3, <2>4, Types
<1>2. OpOK
  BY DEF OpOK, NoOp
<1>3. AccountsOK
  BY DEF AccountsOK, InDoubt
<1>4. StopOK /\ PauseOK
  BY DEF StopOK, PauseOK, Effects
<1>5. OpeningOK
  BY DEF OpeningOK, NoOp
<1>6. LiveOK
  BY DEF LiveOK, Running, UnboundOK
<1> QED  BY <1>1, <1>2, <1>3, <1>4, <1>5, <1>6 DEF IInv

LEMMA NextInv ==
  ASSUME IInv, [SessionNext]_cvars
  PROVE  IInv'
BY TypesHold, AccountsHold, StopHolds, PauseHolds, OpeningHolds, LiveHolds DEF IInv, StopKept

\* The invariant the rest follows from.
THEOREM SessionInvariance == SessionSpec => []IInv
<1>1. SessionInit => IInv
  BY InitInv
<1>2. IInv /\ [SessionNext]_cvars => IInv'
  BY NextInv
<1> QED  BY <1>1, <1>2, PTL DEF SessionSpec

\* Type correctness, in all states of the session.
THEOREM SessionTypeCorrect == SessionSpec => []SessionTypeOK
<1>1. IInv => SessionTypeOK
  BY DEF IInv
<1> QED  BY <1>1, SessionInvariance, PTL

-----------------------------------------------------------------------------
\* Receipts and the outcome of the job never say more than happened, for any
\* number of actions, stops and recoveries.
THEOREM OutcomesAreAccountedHolds == SessionSpec => []OutcomesAreAccounted
<1>1. ASSUME IInv PROVE OutcomesAreAccounted
  <2> USE <1>1 DEF IInv
  <2>1. ASSUME NEW a \in Actions, journal.receipt[a] = "cancelled"
        PROVE  ~delivered[a] /\ worker.busy # a
    BY <2>1 DEF AccountsOK, InDoubt, Open
  <2>2. ASSUME NEW a \in Actions, journal.receipt[a] \in {"verified", "failed"}
        PROVE  delivered[a]
    BY <2>2 DEF AccountsOK
  <2>3. ASSUME job.state = "final", effect[Lifetime] # "none"
        PROVE  worker.state = "terminated"
    BY <2>3 DEF AccountsOK, AllAcknowledged, Effects, StopOK
  <2>4. ASSUME job.state = "final", NEW a \in Actions
        PROVE  journal.receipt[a] # "unknown" /\ (delivered[a] => journal.receipt[a] \in {"verified", "failed"})
    <3>1. ~InDoubt(a)
      BY <2>4 DEF AccountsOK, AllAcknowledged, Effects, InDoubt
    <3> QED  BY <3>1 DEF AccountsOK
  <2> QED  BY <2>1, <2>2, <2>3, <2>4 DEF OutcomesAreAccounted
<1> QED  BY <1>1, SessionInvariance, PTL

\* An acknowledged pause leaves nothing in doubt, and the binding and the journal of
\* a live session agree between operations.
THEOREM PauseIsSharedHolds == SessionSpec => []PauseIsShared
<1>1. ASSUME IInv PROVE PauseIsShared
  <2> USE <1>1 DEF IInv
  <2>1. ASSUME journal.pause = "acknowledged"
        PROVE  worker.busy = NoAction /\ \A a \in Actions : journal.receipt[a] \notin Open
    <3>1. \A a \in Actions : journal.receipt[a] \notin Open
      BY <2>1 DEF PauseOK
    <3>2. worker.busy \notin Actions
      BY <3>1 DEF AccountsOK, InDoubt
    <3> QED  BY <3>1, <3>2, Types DEF Workers
  <2>2. ASSUME broker.pc = "open", ~broker.aborted, At("idle"), pausing \in {"none", "done"}, resuming.pc = "none"
        PROVE  /\ binding.fence = journal.fence /\ binding.gen = journal.gen
               /\ binding.state = IF journal.pause = "acknowledged" THEN "paused" ELSE "ready"
    BY <2>2 DEF LiveOK, FencesOK, GenerationsOK, At
  <2> QED  BY <2>1, <2>2 DEF PauseIsShared
<1> QED  BY <1>1, SessionInvariance, PTL

\* A stop is acknowledged only when the worker has ended by its own proof, and is
\* never taken back.
THEOREM StopIsProvedHolds == SessionSpec => StopIsProved
<1>1. ASSUME IInv, [SessionNext]_cvars
      PROVE  /\ journal'.stop = "acknowledged" \/ effect'[Lifetime] = "acknowledged" => worker'.state = "terminated"
             /\ journal.stop = "acknowledged" => journal'.stop = "acknowledged" /\ journal'.state = "stopped"
  <2>1. StopKept
    BY <1>1, StopHolds DEF IInv
  <2> QED  BY <2>1 DEF StopKept, StopOK
<1> QED  BY <1>1, SessionInvariance, PTL DEF SessionSpec, StopIsProved

\* Only Dispatch gives the worker an action.
LEMMA OnlyDispatch ==
  ASSUME SessionTypeOK, AccountsOK, [SessionNext]_cvars, ~Dispatch
  PROVE  worker'.busy \in {worker.busy, NoAction}
<1> USE DEF Quiet
<1>1. CASE UNCHANGED cvars
  BY <1>1 DEF cvars
<1>2. CASE Opening \/ Pause \/ PauseStep \/ Resume \/ ResumeStep
  BY <1>2, QuietOpening, QuietPause, QuietResume DEF Opening, PauseStep, ResumeStep
<1>3. CASE Observe \/ (\E a \in Actions : Act(a)) \/ OpStep
  BY <1>3, Types DEF memory, Observe, Act, OpStep, Review, Prepare, BeginEffect, AssertInput,
     Answer, AnswerLost, Record, UpdateTarget,
               Settle, AcknowledgeEffect, Undo, UndoEffect, Workers
<1>4. CASE Stop \/ StopBinding \/ RecoverStop \/ StopReturns \/ \E i \in Stoppers : StopStep(i)
  BY <1>4, QuietStop
<1>5. CASE \/ FinishJob \/ CancelJob \/ RecoverJob \/ RevokeGrant \/ WorkerIdle \/ ReleaseInput \/ Terminate \/ WorkerDies
           \/ HeartbeatLost
  BY <1>5, QuietRest
<1>6. CASE Deliver \/ DaemonCrash
  BY <1>6, Types DEF Deliver, DaemonCrash, Fenced, Workers
<1> QED  BY <1>1, <1>2, <1>3, <1>4, <1>5, <1>6 DEF SessionNext

\* The worker is handed an action only while nothing has aborted or paused the
\* session, and at the fence and the generation everybody has.
THEOREM InputIsFencedHolds == SessionSpec => InputIsFenced
<1>1. ASSUME IInv, [SessionNext]_cvars, NEW a \in Actions, worker.busy # a, worker'.busy = a
      PROVE  /\ ~broker.aborted /\ journal.pause = "not_requested" /\ journal.stop = "not_requested"
             /\ journal.receipt[a] = "dispatched"
             /\ op.fence = journal.fence /\ op.fence = binding.fence
             /\ op.gen = journal.gen /\ op.gen = binding.gen /\ op.gen = worker.gen
  <2> USE <1>1 DEF IInv
  <2>1. Dispatch
    BY OnlyDispatch, SessionAssumption
  <2>2. op.pc = "granted" /\ op.action = a /\ ~broker.aborted /\ ~broker.pauseRequested /\ op.gen = worker.gen
    BY <2>1, Types DEF Dispatch, At, Workers
  <2>3. Running /\ FencesOK /\ GenerationsOK
    BY <2>2, Underway
  <2>4. journal.receipt[a] = "dispatched"
    BY <2>2 DEF OpOK
  <2>5. pausing = "none" /\ resuming.pc = "none"
    BY <2>2, <2>3 DEF FencesOK
  <2> QED  BY <2>2, <2>3, <2>4, <2>5 DEF Running, FencesOK, GenerationsOK
<1>2. IInv /\ [SessionNext]_cvars =>
        [\A a \in Actions : worker.busy # a /\ worker'.busy = a =>
           /\ ~broker.aborted /\ journal.pause = "not_requested" /\ journal.stop = "not_requested"
           /\ journal.receipt[a] = "dispatched"
           /\ op.fence = journal.fence /\ op.fence = binding.fence
           /\ op.gen = journal.gen /\ op.gen = binding.gen /\ op.gen = worker.gen]_cvars
  BY <1>1
<1> QED  BY <1>2, SessionInvariance, PTL DEF SessionSpec, InputIsFenced

=============================================================================
