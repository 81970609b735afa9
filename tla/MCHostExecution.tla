-------------------------- MODULE MCHostExecution --------------------------
(***************************************************************************)
(* Model checking instance of plans and of managed executions.  kind,      *)
(* chosen among Kinds at the start, says what a behaviour is about.        *)
(*                                                                         *)
(* chain: the definitions Chain, Revised and Cut of MCPlanWorkflow; two    *)
(* implementations of slice a; one execution at a time.                    *)
(* pair: the definition Pair; blocks of the plan; executions in parallel.  *)
(* one: slice a of Pair is under way and is given to execution p with one  *)
(* model request, while its owner and an operator command the plan.        *)
(* two: the same with two requests and nothing else.                       *)
(* chat: execution q, without a plan, with one model request.              *)
(***************************************************************************)
EXTENDS MCPlanWorkflow, HostExecution

CONSTANTS p, q, r1, r2, r3, k1, k2, Kinds

VARIABLE kind

MCSliceOf == p :> a @@ q :> None
MCExecutionOf == r1 :> p @@ r2 :> p @@ r3 :> q
AllDefinitions == {Chain, Revised, Cut, Pair}

\* Steps of Next by the operator and the runtime, the operator owning all.
OperatorsNext ==
  /\ \/ \E x \in Operators \cup {runtime} :
          PlanStep(x) \/ \E s \in Slices : SliceStep(x, s)
     \/ Execution
  /\ approval' # None => approval'.owner # agent
  /\ UNCHANGED hvars

\* No block of the plan and no unblocking of a plan that is not blocked.
AsChain ==
  /\ definition' # Pair /\ blockers' = {} /\ slices'[b].implemented <= 1
  /\ approval' # None => approval'.limit = 1
  /\ lifecycle' = "planning" /\ lifecycle # "planning" =>
       definition' # definition \/ slices' # slices

AsPair ==
  /\ definition' = Pair
  /\ \A s \in Slices : slices'[s].implemented <= 1 /\ slices'[s].blockers = {}

UnderWay ==
  /\ definition = Pair
  /\ lifecycle = "implementing" /\ underlying = None
  /\ blockers = {} /\ leases = {} /\ final = None
  /\ approval = [owner |-> agent, definition |-> Pair, scope |-> {a}, limit |-> 1]
  /\ slices = [s \in Slices |-> IF s = a THEN [FreshSlice EXCEPT !.status = "in_progress", !.owner = agent]
                                ELSE FreshSlice]
  /\ current = {a}

\* Commands on slice a that are no detour.
AsTask ==
  /\ blockers' = {} /\ slices'[b] = slices[b] /\ slices'[a].status # "deferred"
  /\ lifecycle' = "implementing" /\ approval' = approval
  /\ record'[q].status = "absent"

\* One request; or two, with no command, tool call or mishap meanwhile.
AsOne == AsTask /\ ask'[r2] = "none"
AsTwo ==
  /\ AsTask /\ effect' = {} /\ mishaps' = 0
  /\ held = NoCaller => revision' = revision

AsChat == record'[p].status = "absent" /\ revision' = 0

MCInit ==
  /\ kind \in Kinds
  /\ \/ kind = "chain" /\ InitWith(Chain)
     \/ kind = "pair" /\ InitWith(Pair)
     \/ kind \in {"one", "two", "chat"} /\ UnderWay
  /\ HostStart

MCNext ==
  /\ \/ kind = "chain" /\ OperatorsNext /\ AsChain
     \/ kind = "pair" /\ OperatorsNext /\ AsPair
     \/ kind = "one" /\ HostNext /\ AsOne
     \/ kind = "two" /\ HostNext /\ AsTwo
     \/ kind = "chat" /\ HostNext /\ AsChat
  /\ UNCHANGED kind

MCSpec == MCInit /\ [][MCNext]_<<kind, vars, hvars>>
=============================================================================
