------------------------------ MODULE MCMemory -------------------------------
(* A fact to a page, so that each listing takes several calls; two            *)
(* consolidations, a request at a time, two turns.                            *)
EXTENDS Memory
Symmetry == Permutations(Fact) \cup Permutations(Request) \cup Permutations(Worker)
=============================================================================
