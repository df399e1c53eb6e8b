------------------------------ MODULE MCSandbox ------------------------------
(***************************************************************************)
(* Values for the constants of Sandbox.                                    *)
(***************************************************************************)
EXTENDS Sandbox, TLC

CONSTANTS a, b, c

MCJobs == {a, b, c}
MCJobSymmetry == Permutations(MCJobs)
==============================================================================
