--------------------------- MODULE MCPlanWorkflow ---------------------------
(***************************************************************************)
(* Model checking instances of PlanWorkflow, with two slices.              *)
(*                                                                         *)
(* Chain: slice b depends on a, and a can be blocked.  Its revision        *)
(* accepts a under other criteria and no longer requires it; the cut       *)
(* definition drops b.                                                     *)
(* Pair: the slices are independent and may run in parallel, only a is     *)
(* required; the plan can be blocked.                                      *)
(***************************************************************************)
EXTENDS PlanWorkflow, TLC

CONSTANTS a, b, operator, agent, runtime

Chain ==
  [ids |-> {a, b}, dependsOn |-> a :> {} @@ b :> {a},
   acceptance |-> a :> 0 @@ b :> 0, required |-> {a, b}]
Revised == [Chain EXCEPT !.acceptance[a] = 1, !.required = {b}]
Cut == [Chain EXCEPT !.ids = {a}, !.dependsOn[b] = {}, !.required = {a}]

Pair == [Chain EXCEPT !.dependsOn[b] = {}, !.required = {a}]
PairOnly == {Pair}

Together == {{a, b}}

BlocksOfA == a :> {"r"} @@ b :> {}
NoBlocks == a :> {} @@ b :> {}
=============================================================================
