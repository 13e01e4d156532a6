----------------------------- MODULE MCDirectTurn -----------------------------
(***************************************************************************)
(* Instance of DirectTurn for TLC: two runs, whose keys are the same or    *)
(* are not.                                                                *)
(***************************************************************************)
EXTENDS DirectTurn, TLC

Symmetry == Permutations(Keys)
===============================================================================
