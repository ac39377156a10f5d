------------------------------- MODULE MCLists -------------------------------
(***************************************************************************)
(* Lists for TLC: what rows are about is interchangeable.                  *)
(***************************************************************************)
EXTENDS Lists, TLC

Symmetry == Permutations(About)
=============================================================================
