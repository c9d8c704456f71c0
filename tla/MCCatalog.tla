------------------------------ MODULE MCCatalog ------------------------------
(* Ids of one table, files and requests are interchangeable.                 *)
EXTENDS Catalog, TLC
Symmetry == Permutations(RoleId) \cup Permutations(AgentId) \cup Permutations(File) \cup Permutations(Slot)
=============================================================================
