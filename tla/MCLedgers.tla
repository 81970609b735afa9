------------------------------ MODULE MCLedgers ------------------------------
(***************************************************************************)
(* Model checking instance of four parts that write disjoint files under   *)
(* the same barrier: snapshot reads of the stores, the spend ledger, the   *)
(* change obligations and the schedules.  Each property speaks of one of   *)
(* them, and none reads what another writes: a behaviour moves one         *)
(* subject, chosen at its start, and leaves the others as they begin.      *)
(***************************************************************************)
EXTENDS StableRead, ModelAdmission, SourceEffects, Schedules, TLC

CONSTANTS graph, other, v1, v2,                \* stores and their contents
          a1, a2, a3, role, host, work1, key1, \* requests, runs, a job, a key
          f1, f2, e1, e2, e3, c1, c2,          \* source files, edits, contents
          daily, manual1, t1, t2               \* a schedule, a request, runners

VARIABLE subject

MCPayloads == {graph :> v1 @@ other :> v1, graph :> v2 @@ other :> v2, other :> v1}

MCRunOf == a1 :> role @@ a2 :> role @@ a3 :> host
MCParent == role :> work1 @@ host :> NoRun @@ work1 :> NoRun
MCBillingKey == [r \in {role, host, work1} |-> key1]
MCResources == [a \in {a1, a2, a3} |-> 2]
MCTokens == role :> 4 @@ host :> 2 @@ work1 :> 3
MCRequests == role :> 2 @@ host :> 1 @@ work1 :> 2
MCConcurrency == role :> 2 @@ host :> 1 @@ work1 :> 2
MCKeyAmount == key1 :> 5

MCIntended == e1 :> (f1 :> c2 @@ f2 :> c2) @@ e2 :> (f1 :> c1) @@ e3 :> (f1 :> c2)
MCFirstContent == [f \in {f1, f2} |-> c1]

MCMaxRuns == daily :> 1

MCSymmetry == Permutations({t1, t2})

\* a1 and a2 are interchangeable: which of them comes first makes no difference.
FirstIsA1 == attempt'[a2].state # "absent" => attempt'[a1].state # "absent"

MCInit ==
  /\ subject \in {"reads", "admission", "sources", "schedules"}
  /\ ReadInit /\ AdmissionInit /\ SourceInit /\ ScheduleInit
  /\ \A f \in Files : disk[f] = v1

MCNext ==
  /\ \/ subject = "reads" /\ ReadNext /\ UNCHANGED <<avars, svars, schvars>>
     \/ subject = "admission" /\ AdmissionNext /\ FirstIsA1 /\ UNCHANGED <<vars, readerVars, svars, schvars>>
     \/ subject = "sources" /\ SourceNext /\ UNCHANGED <<vars, readerVars, avars, schvars>>
     \/ subject = "schedules" /\ ScheduleNext /\ UNCHANGED <<vars, readerVars, avars, svars>>
  /\ UNCHANGED subject

MCSpec == MCInit /\ [][MCNext]_<<subject, vars, readerVars, avars, svars, schvars>>
=============================================================================
