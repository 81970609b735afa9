------------------------- MODULE MCComputerSession -------------------------
(***************************************************************************)
(* The instance of ComputerSession TLC checks.                             *)
(***************************************************************************)
EXTENDS ComputerSession

CONSTANTS a1, lifetime, noAction
=============================================================================
