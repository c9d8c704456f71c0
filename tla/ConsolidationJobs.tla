------------------------- MODULE ConsolidationJobs -------------------------
(***************************************************************************)
(* The identity of a row of consolidation_jobs, shared by the queue and by *)
(* the threads: the rank of its created_at among all jobs ever added.      *)
(***************************************************************************)
EXTENDS Naturals

CONSTANT
  Job           \* ranks of created_at, from 1

ASSUME JobAssumption == Job \subseteq Nat \ {0}
=============================================================================
