------------------------------ MODULE MCLimiter ------------------------------
(***************************************************************************)
(* Values for the constants of Limiter.                                    *)
(***************************************************************************)
EXTENDS Limiter, TLC

CONSTANTS a, b, c

MCJobs == {a, b, c}
MCJobSymmetry == Permutations(MCJobs)
==============================================================================
