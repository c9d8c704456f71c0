---------------------------- MODULE LeaseHistory ----------------------------
(***************************************************************************)
(* ConsolidationQueue with a history variable, to say what the leases      *)
(* of claim() are for: keeping two workers from processing the same job.   *)
(***************************************************************************)
EXTENDS ConsolidationQueue

ASSUME WorkersFinite == IsFiniteSet(Worker)

VARIABLE
  expiries      \* how many leases of a job ran out

historyVars == <<queueVars, expiries>>

HistoryInit ==
  /\ QueueInit
  /\ expiries = [j \in Job |-> 0]

CommitLease(w) ==
  /\ ClaimCommit(w)
  /\ UNCHANGED expiries

RunOut(j) ==
  /\ Expire(j)
  /\ expiries' = [expiries EXCEPT ![j] = @ + 1]

OtherStep ==
  /\ \/ \E j \in Job : Enqueue(j)
     \/ \E S \in SUBSET Job : Cascade(S)
     \/ \E w \in Worker :
          \/ ClaimSelect(w) \/ Return(w) \/ Raise(w)
          \/ CloseStep(w) \/ Abandon(w) \/ Crash(w) \/ Restart(w)
  /\ UNCHANGED expiries

HistoryNext ==
  \/ \E w \in Worker : CommitLease(w)
  \/ \E j \in Job : RunOut(j)
  \/ OtherStep

HistorySpec == HistoryInit /\ [][HistoryNext]_historyVars
HistoryFairSpec == HistorySpec /\ QueueFairness

-----------------------------------------------------------------------------
\* Types with the history.
HistoryTypeOK ==
  /\ QueueTypeOK
  /\ expiries \in [Job -> Nat]

\* However many workers there are, whoever fails, completes or crashes, and
\* however late a worker closes a job it lost: at any time at most one worker
\* more than the leases of a job that ran out is processing that job.  With
\* leases longer than the slowest extraction, no job is processed twice at once
\* (_lease_seconds and the WHERE clause of claim()).
OverlapBounded ==
  \A j \in Job :
    Cardinality(Holders(j)) <= expiries[j] + (IF lease[j] = "held" THEN 1 ELSE 0)
=============================================================================
