----------------------------- MODULE WorkQueue -----------------------------
(***************************************************************************)
(* What the consolidation queue promises to the rest of the backend: every *)
(* job put in it is delivered a bounded number of times, several at once,  *)
(* and only leaves it because a consumer it was delivered to acknowledged  *)
(* it or because its conversation thread was deleted.  A job that left is  *)
(* never delivered again.  Workers, leases, row locks and transactions do  *)
(* not appear here: ConsolidationQueue implements this specification.      *)
(***************************************************************************)
EXTENDS Naturals

CONSTANTS
  Job,            \* identities of the jobs that may ever be enqueued
  MaxDeliveries   \* how many times a job may be handed to a consumer

VARIABLES
  status,         \* where each job is in its life
  deliveries      \* how many times each job has been handed out

wqVars == <<status, deliveries>>

JobStatus == {"absent", "queued", "completed", "withdrawn"}

WQInit ==
  /\ status = [j \in Job |-> "absent"]
  /\ deliveries = [j \in Job |-> 0]

\* A turn commits and its job appears.
Put(j) ==
  /\ status[j] = "absent"
  /\ status' = [status EXCEPT ![j] = "queued"]
  /\ UNCHANGED deliveries

\* A consumer takes the jobs of S together.
Deliver(S) ==
  /\ \A j \in S : status[j] = "queued" /\ deliveries[j] < MaxDeliveries
  /\ deliveries' = [j \in Job |-> IF j \in S THEN deliveries[j] + 1 ELSE deliveries[j]]
  /\ UNCHANGED status

\* A consumer that was given j is done with it.
Acknowledge(j) ==
  /\ status[j] = "queued"
  /\ deliveries[j] > 0
  /\ status' = [status EXCEPT ![j] = "completed"]
  /\ UNCHANGED deliveries

\* A thread is deleted and the queued jobs of it, S, go with it.
Withdraw(S) ==
  /\ \A j \in S : status[j] = "queued"
  /\ status' = [j \in Job |-> IF j \in S THEN "withdrawn" ELSE status[j]]
  /\ UNCHANGED deliveries

WQNext ==
  \/ \E j \in Job : Put(j) \/ Acknowledge(j)
  \/ \E S \in SUBSET Job : Deliver(S) \/ Withdraw(S)

WQSpec == WQInit /\ [][WQNext]_wqVars

\* A queued job does not stay in the queue with deliveries left for ever.
WQSettles ==
  \A j \in Job :
    status[j] = "queued" ~> (status[j] # "queued" \/ deliveries[j] = MaxDeliveries)
=============================================================================
