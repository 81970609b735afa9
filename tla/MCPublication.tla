--------------------------- MODULE MCPublication ---------------------------
(***************************************************************************)
(* Model checking instance of Publication: one graph store and one other.  *)
(* A behaviour is of one of two kinds, chosen at its start.                *)
(*                                                                         *)
(* commits: two faults and an edit by another program, one drain at a time.*)
(* drains: two drains at once, one fault, nobody edits the stores.         *)
(***************************************************************************)
EXTENDS Publication, TLC

CONSTANTS graph, other, v1, v2, d1, d2

VARIABLE kind

MCPayloads == {graph :> v1 @@ other :> v1, graph :> v2, other :> v2}

MCInit == kind \in {"commits", "drains"} /\ Init

WithinKind ==
  /\ kind = "commits" => drain'[d2] = {}
  /\ kind = "drains" => faults' <= 1 /\ edits' = 0

MCNext == Next /\ WithinKind /\ UNCHANGED kind

MCSpec == MCInit /\ [][MCNext]_<<vars, kind>> /\ WF_vars(Run)
=============================================================================
