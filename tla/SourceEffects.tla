---------------------------- MODULE SourceEffects ----------------------------
(***************************************************************************)
(* Source edits and what the graph still owes them                         *)
(* (src/src/graph/change-obligations.ts): an edit is recorded as an        *)
(* obligation before it touches the working tree, settled by what is then  *)
(* found there, and reconciled into the graph; the dirty partition of its  *)
(* file then passes the enrichment and digestion stages                    *)
(* (src/src/cognitive/digestion.ts).                                       *)
(*                                                                         *)
(* A managed edit holds the writer barrier from its intent to its record,  *)
(* hence editing; the working tree has no such lock, so that other         *)
(* programs edit it meanwhile.  A publication of the two ledger files is   *)
(* one step.  It may throw although it became durable, or fail without a   *)
(* change (Mishap).                                                        *)
(*                                                                         *)
(* Data: contents stand for their hashes, Absent included; each file has   *)
(* its own partition (the overflow region of 2048 is left out), whose      *)
(* input fingerprint changes with its generation.                          *)
(***************************************************************************)
EXTENDS Naturals, FiniteSets

CONSTANTS
  SourceFiles,
  SourceContents,
  Edits,        \* managed edits, each under its own operation id
  Intended,     \* what an edit leaves in each file it names
  FirstContent, \* the working tree at the start
  Mapped,       \* files whose entities the graph knows
  NoEdit,
  NoFile,
  ForeignFiles,     \* bound: files that other programs edit
  MaxForeignEdits,  \* bound: how often, each
  MaxMishaps        \* bound: publications that throw, and restarts

ASSUME EditsAssumption ==
  /\ NoEdit \notin Edits /\ NoFile \notin SourceFiles
  /\ FirstContent \in [SourceFiles -> SourceContents]
  /\ \A e \in Edits : \E S \in (SUBSET SourceFiles) \ {{}} : Intended[e] \in [S -> SourceContents]
  /\ ForeignFiles \subseteq SourceFiles /\ {MaxMishaps, MaxForeignEdits} \subseteq Nat

VARIABLES
  source,      \* the working tree
  obligation,  \* change_obligations.json: state of the obligation of each edit
  before,      \* the contents it found
  later,       \* the obligations recorded after it
  partition,   \* dirty_partitions.json, by file
  editing,     \* the edit that holds the barrier, or NoEdit
  step,        \* how far it is
  unwritten,   \* the files it still has to write
  restarted,   \* daemon processes so far, after the first
  recovering,  \* obligations that the startup recovery still has to look at
  stage,       \* graph_maintenance.json: the last stage record of each partition
  digesting,   \* the file whose stage the digestion pass holds, or NoFile
  mishaps,     \* history: publications that threw
  foreign,     \* history: edits by other programs, by file
  written,     \* history: times each edit wrote each file
  graphed,     \* history: content of each file at its last reconciliation
  enriched,    \* history: the same when its last complete enrichment began
  discarded    \* history: files whose stages an edit without effect took away

durable == <<obligation, before, later, partition>>
active == <<editing, step, unwritten>>
daemon == <<restarted, recovering>>
stages == <<stage, digesting>>
witness == <<mishaps, foreign, written, graphed, enriched, discarded>>
svars == <<source, durable, active, daemon, stages, witness>>

Stages == {"reconciliation", "enrichment", "digestion"}
ObligationStates ==
  {"absent", "intent", "unknown", "reconciliation_pending", "graph_committed", "failed"}
Partitions == [generation : Nat, causes : SUBSET Edits, pending : SUBSET Stages, running : Nat]
StageRecords ==
  [generation : Nat, stage : {"enrichment", "digestion"}, input : SourceContents,
   phase : {"none", "queued", "running", "blocked", "over", "stuck"}]

SourceTypeOK ==
  /\ source \in [SourceFiles -> SourceContents]
  /\ obligation \in [Edits -> ObligationStates]
  /\ before \in [Edits -> [SourceFiles -> SourceContents]]
  /\ later \in [Edits -> SUBSET Edits]
  /\ partition \in [SourceFiles -> Partitions]
  /\ editing \in Edits \cup {NoEdit}
  /\ step \in {"idle", "intent", "apply", "record", "failing"}
  /\ unwritten \subseteq SourceFiles
  /\ restarted \in Nat /\ recovering \subseteq Edits
  /\ stage \in [SourceFiles -> StageRecords] /\ digesting \in SourceFiles \cup {NoFile}
  /\ mishaps \in Nat /\ foreign \in [SourceFiles -> Nat]
  /\ written \in [Edits -> [SourceFiles -> Nat]]
  /\ graphed \in [SourceFiles -> SourceContents] /\ enriched \in [SourceFiles -> SourceContents]
  /\ discarded \subseteq SourceFiles
  /\ editing = NoEdit <=> step = "idle"
  /\ \A f \in SourceFiles : stage[f].generation <= partition[f].generation

SourceInit ==
  /\ source = FirstContent
  /\ obligation = [e \in Edits |-> "absent"]
  /\ before = [e \in Edits |-> FirstContent]
  /\ later = [e \in Edits |-> {}]
  /\ partition = [f \in SourceFiles |->
                    [generation |-> 0, causes |-> {}, pending |-> {}, running |-> 0]]
  /\ editing = NoEdit /\ step = "idle" /\ unwritten = {}
  /\ restarted = 0 /\ recovering = {}
  /\ stage = [f \in SourceFiles |-> [generation |-> 0, stage |-> "enrichment",
                                     input |-> FirstContent[f], phase |-> "none"]]
  /\ digesting = NoFile
  /\ mishaps = 0 /\ foreign = [f \in SourceFiles |-> 0]
  /\ written = [e \in Edits |-> [f \in SourceFiles |-> 0]]
  /\ graphed = FirstContent /\ enriched = FirstContent
  /\ discarded = {}

-----------------------------------------------------------------------------
(***************************************************************************)
(* The two ledger files                                                    *)
(***************************************************************************)
Scope(e) == DOMAIN Intended[e]
ClosedOrUnknown(e) == obligation[e] \in {"graph_committed", "failed", "unknown"}
Closed(e) == obligation[e] \in {"graph_committed", "failed"}
HasNoEffect(e) == \A f \in Scope(e) : before'[e][f] = Intended[e][f]

\* dirty: the partition p of a file of edit e, whose obligation becomes s.
Dirty(p, e, s) ==
  LET fresh == e \notin p.causes
      causes == IF fresh THEN {c \in p.causes : ~Closed(c)} ELSE p.causes
  IN
  IF s # "failed"
  THEN [p EXCEPT !.generation = IF fresh THEN @ + 1 ELSE @,
                 !.causes = causes \cup {e}, !.pending = Stages]
  ELSE [p EXCEPT !.causes = causes \ {e},
                 !.pending = IF causes \ {e} = {} THEN {} ELSE @]

\* Stages of an earlier, reconciled change may go with an edit without effect.
Save(e, s) ==
  /\ obligation' = [obligation EXCEPT ![e] = s]
  /\ partition' = [f \in SourceFiles |->
                     IF f \in Scope(e) THEN Dirty(partition[f], e, s) ELSE partition[f]]
  /\ discarded' = (discarded \ Scope(e)) \cup
       {f \in Scope(e) : s = "failed" /\ partition'[f].pending = {} /\ enriched[f] # graphed[f]}

MayMishap == mishaps + restarted < MaxMishaps
Mishap == MayMishap /\ mishaps' = mishaps + 1
Unheld == editing = NoEdit /\ recovering = {}

-----------------------------------------------------------------------------
(***************************************************************************)
(* A managed edit                                                          *)
(***************************************************************************)

\* An operation id that is already on record is answered or refused from the
\* record and changes nothing.
IsNewOrUnknown(e) == obligation[e] \in {"absent", "unknown"}
IsNew(e) == obligation[e] = "absent"

\* The intent's reply may be lost.
Intend(e) ==
  /\ Unheld /\ IsNew(e)
  /\ before' = [before EXCEPT ![e] = source]
  /\ later' = [c \in Edits |->
                 IF c # e /\ obligation[c] # "absent" THEN later[c] \cup {e} ELSE later[c]]
  /\ Save(e, "intent")
  /\ \/ editing' = e /\ step' = "intent" /\ unwritten' = Scope(e) /\ UNCHANGED mishaps
     \/ UNCHANGED active /\ Mishap
  /\ UNCHANGED <<source, daemon, stages, foreign, written, graphed, enriched>>

\* The tool's own test of the contents, and of its job.
Recheck ==
  /\ step = "intent"
  /\ \/ step' = "apply" /\ \A f \in unwritten : source[f] = before[editing][f]
     \/ step' = "failing"
  /\ UNCHANGED <<source, durable, editing, unwritten, daemon, stages, witness>>

\* apply writes file after file, and may throw between two of them.
WriteFile(f) ==
  /\ step = "apply" /\ f \in unwritten
  /\ source' = [source EXCEPT ![f] = Intended[editing][f]]
  /\ written' = [written EXCEPT ![editing][f] = @ + 1]
  /\ unwritten' = unwritten \ {f}
  /\ step' = IF unwritten = {f} THEN "record" ELSE "apply"
  /\ UNCHANGED <<durable, editing, daemon, stages, mishaps, foreign, graphed, enriched, discarded>>

ApplyThrows ==
  /\ step \in {"apply", "record"}
  /\ step' = "failing"
  /\ UNCHANGED <<source, durable, editing, unwritten, daemon, stages, witness>>

\* The contents are found as intended: the obligation is recorded.
Record ==
  /\ step = "record"
  /\ \A f \in Scope(editing) : source[f] = Intended[editing][f]
  /\ UNCHANGED <<before, later>>
  /\ LET s == IF HasNoEffect(editing) THEN "failed" ELSE "reconciliation_pending"
     IN Save(editing, s)
  /\ editing' = NoEdit /\ step' = "idle" /\ unwritten' = {}
  /\ UNCHANGED <<source, daemon, stages, mishaps, foreign, written, graphed, enriched>>

\* Whatever threw, the obligation is left uncertain; even that may not last.
LeaveUnknown ==
  /\ step = "failing"
  /\ \/ Save(editing, "unknown") /\ UNCHANGED mishaps
     \/ UNCHANGED <<obligation, partition, discarded>> /\ Mishap
  /\ editing' = NoEdit /\ step' = "idle" /\ unwritten' = {}
  /\ UNCHANGED <<source, before, later, daemon, stages, foreign, written, graphed, enriched>>

-----------------------------------------------------------------------------
(***************************************************************************)
(* Other programs, restarts and recovery                                   *)
(***************************************************************************)
ForeignEdit(f, c) ==
  /\ f \in ForeignFiles /\ foreign[f] < MaxForeignEdits
  /\ source[f] # c
  /\ source' = [source EXCEPT ![f] = c]
  /\ foreign' = [foreign EXCEPT ![f] = @ + 1]
  /\ UNCHANGED <<durable, active, daemon, stages, mishaps, written, graphed, enriched, discarded>>

\* A stage that was running is fenced by the job recovery and never resumed.
\* Recovery precedes all else; if it throws, the daemon stops: a restart again.
Restart ==
  /\ MayMishap
  /\ restarted' = restarted + 1
  /\ editing' = NoEdit /\ step' = "idle" /\ unwritten' = {}
  /\ recovering' = {e \in Edits : obligation[e] \in {"intent", "unknown"}}
  /\ digesting' = NoFile
  /\ stage' = [f \in SourceFiles |->
                 IF stage[f].phase = "running" THEN [stage[f] EXCEPT !.phase = "stuck"] ELSE stage[f]]
  /\ UNCHANGED <<source, durable, witness>>

\* Recovery inspects the contents; it repeats no write.
RecoverEffect(e) ==
  LET found(expected) == \A f \in Scope(e) : source[f] = expected[f]
  IN
  /\ e \in recovering
  /\ recovering' = recovering \ {e}
  /\ UNCHANGED <<before, later>>
  /\ \/ /\ found(Intended[e]) \/ found(before[e])
        /\ LET s == IF found(before[e]) THEN "failed" ELSE "reconciliation_pending"
           IN Save(e, s)
     \/ /\ ~found(Intended[e]) /\ ~found(before[e])
        /\ UNCHANGED <<obligation, partition, discarded>>
  /\ UNCHANGED <<source, active, restarted, stages, mishaps, foreign, written, graphed, enriched>>

-----------------------------------------------------------------------------
(***************************************************************************)
(* Reconciliation into the graph, and the stages after it                  *)
(***************************************************************************)

\* Every edit of f recorded after e is a known successor, and the last one
\* left the content that is there now.
ChainIsKnown(e, f) ==
  LET followers == {c \in later[e] : f \in Scope(c) /\ obligation[c] # "failed"}
      Previous(c) == {d \in followers \cup {e} : c \in later[d]}
      Last == CHOOSE c \in followers \cup {e} : later[c] \cap followers = {}
  IN
  /\ \A c \in followers :
       /\ obligation[c] \in {"reconciliation_pending", "graph_committed"}
       /\ \E d \in Previous(c) : /\ later[d] \cap Previous(c) = {}
                                 /\ before[c][f] = Intended[d][f]
  /\ source[f] = Intended[Last][f]

\* A graph publication that names the obligations S it reconciles.
Reconcile(S) ==
  /\ Unheld /\ S # {}
  /\ \A e \in S : /\ obligation[e] = "reconciliation_pending"
                  /\ \A f \in Scope(e) : ChainIsKnown(e, f)
  /\ obligation' = [e \in Edits |-> IF e \in S THEN "graph_committed" ELSE obligation[e]]
  /\ LET touched == {f \in SourceFiles : partition[f].causes \cap S # {} \/ \E e \in S : f \in Scope(e)}
         open(f) == \E c \in partition[f].causes : obligation'[c] \notin {"graph_committed", "failed"}
     IN
     /\ partition' = [f \in SourceFiles |->
          IF f \in touched /\ ~open(f) THEN [partition[f] EXCEPT !.pending = @ \ {"reconciliation"}]
          ELSE partition[f]]
     /\ graphed' = [f \in SourceFiles |-> IF \E e \in S : f \in Scope(e) THEN source[f] ELSE graphed[f]]
  /\ UNCHANGED <<source, before, later, active, daemon, stages, mishaps, foreign, written, enriched, discarded>>

NextStage(f) == IF "enrichment" \in partition[f].pending THEN "enrichment" ELSE "digestion"
OnRecord(f) == /\ stage[f].phase # "none"
               /\ stage[f].generation = partition[f].generation
               /\ stage[f].stage = NextStage(f)
Recorded(f, phase) == [stage EXCEPT ![f] =
  [generation |-> partition[f].generation, stage |-> NextStage(f), input |-> graphed[f], phase |-> phase]]

\* The digestion pass takes up a stage: a new record, unless the scope of the
\* partition is unknown to the graph, or the queued record of an earlier pass.
\* A record without budget is superseded when the policy changed.
ClaimStage(f) ==
  /\ Unheld /\ digesting = NoFile
  /\ partition[f].pending # {} /\ "reconciliation" \notin partition[f].pending
  /\ \/ /\ ~OnRecord(f) \/ stage[f].phase = "blocked"
        /\ \/ /\ f \notin Mapped
              /\ stage' = Recorded(f, "over")
              /\ UNCHANGED <<partition, digesting>>
           \/ /\ f \in Mapped /\ partition[f].running = 0
              /\ stage' = Recorded(f, "queued")
              /\ partition' = [partition EXCEPT ![f].running = partition[f].generation]
              /\ digesting' = f
     \/ /\ OnRecord(f) /\ stage[f].phase = "queued"
        /\ digesting' = f
        /\ UNCHANGED <<stage, partition>>
  /\ UNCHANGED <<source, obligation, before, later, active, daemon, witness>>

\* Its job starts, or finds its lane taken and waits for a later pass.
RunStage(f) ==
  /\ recovering = {} /\ digesting = f /\ stage[f].phase = "queued"
  /\ \/ stage' = [stage EXCEPT ![f].phase = "running", ![f].input = graphed[f]] /\ UNCHANGED digesting
     \/ digesting' = NoFile /\ UNCHANGED stage
  /\ UNCHANGED <<source, durable, active, daemon, witness>>

CoversAny(f) == TRUE
CoversPartition(f) == partition[f].generation = stage[f].generation

\* Finishing a generation acknowledges that generation only.  A job that
\* needs recovery keeps the partition.
FinishStage(f) ==
  LET p == partition[f]
      r == stage[f]
      current == CoversPartition(f)
  IN
  /\ Unheld /\ digesting = f
  /\ \E outcome \in IF r.phase = "queued" THEN {"blocked"} ELSE {"complete", "over", "blocked", "stuck"} :
       /\ partition' = [partition EXCEPT ![f] =
            [p EXCEPT !.running = IF @ = r.generation /\ outcome # "stuck" THEN 0 ELSE @,
                      !.pending = IF outcome = "complete" /\ current THEN @ \ {r.stage} ELSE @]]
       /\ stage' = [stage EXCEPT ![f].phase = IF outcome = "complete" THEN "over" ELSE outcome]
       /\ enriched' = IF outcome = "complete" /\ current /\ r.stage = "enrichment"
                      THEN [enriched EXCEPT ![f] = r.input] ELSE enriched
  /\ digesting' = NoFile
  /\ UNCHANGED <<source, obligation, before, later, active, daemon, mishaps, foreign, written, graphed, discarded>>

SourceNext ==
  \/ \E e \in Edits : Intend(e) \/ RecoverEffect(e)
  \/ Recheck \/ ApplyThrows \/ Record \/ LeaveUnknown \/ Restart
  \/ \E f \in SourceFiles :
       \/ WriteFile(f) \/ ClaimStage(f) \/ RunStage(f) \/ FinishStage(f)
       \/ \E c \in SourceContents : ForeignEdit(f, c)
  \/ \E S \in SUBSET Edits : Reconcile(S)

SourceSpec == SourceInit /\ [][SourceNext]_svars

-----------------------------------------------------------------------------
\* A file whose content differs from what the graph last took in is owed a
\* reconciliation, at every moment of an edit and through crashes, recoveries
\* and later edits, unless another program touched it
\* (change-obligations.ts:97-135, 224-247, 254-271).
SourceChangesAreOwed ==
  \A f \in SourceFiles :
    source[f] # graphed[f] /\ foreign[f] = 0 => "reconciliation" \in partition[f].pending

\* An edit never writes a file twice, whatever reply was lost and whatever the
\* recovery concluded from the contents (change-obligations.ts:204-217, 253).
EffectsAreNotRepeated == \A e \in Edits, f \in SourceFiles : written[e][f] <= 1

\* A partition that is through with enrichment was enriched from what the graph
\* holds: the end of an older generation clears nothing of a newer one.  Files
\* of which an edit without effect took the stages away are excepted; for them
\* see EnrichmentDebtIsKept (digestion.ts:89-102, change-obligations.ts:292-303).
Through(f) == {"reconciliation", "enrichment"} \cap partition[f].pending = {}
StagesFollowTheGraph == \A f \in SourceFiles \ discarded : Through(f) => enriched[f] = graphed[f]

\* The same without the exception: a reconciled change "retains later
\* enrichment/digestion debt" (tests/change-obligations.test.ts:146).
EnrichmentDebtIsKept == \A f \in SourceFiles : Through(f) => enriched[f] = graphed[f]
=============================================================================
