---------------------------- MODULE MCSourceDebt ----------------------------
(***************************************************************************)
(* Model checking instance of SourceEffects: an edit of one file, and a    *)
(* second one that leaves the file as the first one did.                   *)
(***************************************************************************)
EXTENDS SourceEffects, TLC

CONSTANTS f1, e1, e2, c1, c2

MCIntended == e1 :> (f1 :> c2) @@ e2 :> (f1 :> c2)
MCFirstContent == f1 :> c1
=============================================================================
