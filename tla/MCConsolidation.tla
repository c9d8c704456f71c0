-------------------------- MODULE MCConsolidation --------------------------
(***************************************************************************)
(* Small instances of Consolidation.  Workers are interchangeable, and so  *)
(* are requests; runs of a liveness property use neither symmetry.         *)
(***************************************************************************)
EXTENDS Consolidation, TLC

Symmetry == Permutations(Worker)
RequestSymmetry == Permutations(Request)
=============================================================================
