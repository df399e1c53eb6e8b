----------------------------- MODULE MCIsolator -----------------------------
(***************************************************************************)
(* Values for the constants of Isolator.                                   *)
(***************************************************************************)
EXTENDS Isolator, TLC

CONSTANTS a, b

MCOne == {a}
MCTwo == {a, b}
MCJobSymmetry == Permutations(MCTwo)
=============================================================================
