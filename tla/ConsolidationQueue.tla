------------------------- MODULE ConsolidationQueue -------------------------
(***************************************************************************)
(* The table consolidation_jobs and the workers that consume it            *)
(* (backend/app/agent/consolidation.py).  The steps are database           *)
(* statements and commits: between two of them any other worker, a turn    *)
(* that commits, the clock or a crash may come.                            *)
(*                                                                         *)
(* A job is named by the rank of its created_at, so the numeric order of   *)
(* Job is the ORDER BY of claim().  Time is abstracted to what claim()     *)
(* can see of it: a lease is either in force or run out.                   *)
(***************************************************************************)
EXTENDS ConsolidationJobs, FiniteSets

CONSTANTS
  Worker,       \* one ConsolidationWorker per backend process
  MaxAttempts,  \* settings.consolidation_max_attempts
  BatchSize     \* batch_size of the worker: the LIMIT of claim()

ASSUME LimitAssumption == MaxAttempts \in Nat \ {0} /\ BatchSize \in Nat \ {0}

VARIABLES
  status,       \* the row of each job: not yet committed, in the table, or how it left it
  attempts,     \* column attempts
  lease,        \* column claimed_at: NULL, younger or older than the lease
  pc,           \* where each worker is
  batch         \* the jobs a worker was given and has not closed yet

queueVars == <<status, attempts, lease, pc, batch>>

JobStatus == {"absent", "queued", "completed", "withdrawn"}
Lease == {"free", "held", "expired"}

(***************************************************************************)
(* down        no process                                                  *)
(* idle        at the head of the loop of run_forever                      *)
(* claiming    claim() has locked the rows and not committed               *)
(* working     consolidate(job) runs                                       *)
(* completing  it returned, complete(job.id) is to run                     *)
(* failing     it raised, fail(job.id) is to read the row                  *)
(* releasing   fail() read a claimed row and is to set claimed_at to NULL  *)
(* noting      fail() read an unclaimed row: only last_error will change   *)
(***************************************************************************)
Place == {"down", "idle", "claiming", "working",
          "completing", "failing", "releasing", "noting"}

QueueInit ==
  /\ status = [j \in Job |-> "absent"]
  /\ attempts = [j \in Job |-> 0]
  /\ lease = [j \in Job |-> "free"]
  /\ pc = [w \in Worker |-> "idle"]
  /\ batch = [w \in Worker |-> {}]

-----------------------------------------------------------------------------
\* Row locks: SELECT ... FOR UPDATE keeps them until its transaction ends.
Locked(j) == \E w \in Worker : pc[w] = "claiming" /\ j \in batch[w]

\* Faulty WHERE clauses, which the runs must tell from the right one: no limit
\* of attempts; any claim excludes, also an old one; no claim excludes.
ClaimableForever(j) == status[j] = "queued" /\ lease[j] # "held" /\ ~Locked(j)

ClaimableWhenFree(j) ==
  status[j] = "queued" /\ attempts[j] < MaxAttempts /\ lease[j] = "free" /\ ~Locked(j)

ClaimableWhileHeld(j) == status[j] = "queued" /\ attempts[j] < MaxAttempts /\ ~Locked(j)

\* The WHERE clause of claim(), and SKIP LOCKED.
Claimable(j) ==
  /\ status[j] = "queued"
  /\ attempts[j] < MaxAttempts
  /\ lease[j] # "held"
  /\ ~Locked(j)

\* Worker w is busy with j: it is the first of its batch, in claim order.
Current(w, j) == j \in batch[w] /\ \A k \in batch[w] : j <= k

\* The workers that have taken j and not closed it.
Holders(j) == {w \in Worker : pc[w] # "claiming" /\ j \in batch[w]}

-----------------------------------------------------------------------------
\* The transaction of a turn commits: the job it added becomes visible.
Enqueue(j) ==
  /\ status[j] = "absent"
  /\ status' = [status EXCEPT ![j] = "queued"]
  /\ UNCHANGED <<attempts, lease, pc, batch>>

\* The row of the thread is deleted: ON DELETE CASCADE takes its jobs with it,
\* once no claim holds a lock on them.
Cascade(S) ==
  /\ \A j \in S : status[j] = "queued" => ~Locked(j)
  /\ status' = [j \in Job |-> IF j \in S /\ status[j] = "queued" THEN "withdrawn" ELSE status[j]]
  /\ UNCHANGED <<attempts, lease, pc, batch>>

\* claimed_at becomes older than lease_seconds.
Expire(j) ==
  /\ status[j] = "queued"
  /\ lease[j] = "held"
  /\ lease' = [lease EXCEPT ![j] = "expired"]
  /\ UNCHANGED <<status, attempts, pc, batch>>

-----------------------------------------------------------------------------
\* claim(): the SELECT takes the oldest claimable rows and locks them.
ClaimSelect(w) ==
  /\ pc[w] = "idle"
  /\ \E S \in SUBSET {j \in Job : Claimable(j)} :
       /\ S # {}
       /\ Cardinality(S) <= BatchSize
       /\ \A j \in Job \ S : Claimable(j) =>
            Cardinality(S) = BatchSize /\ \A k \in S : k < j
       /\ batch' = [batch EXCEPT ![w] = S]
  /\ pc' = [pc EXCEPT ![w] = "claiming"]
  /\ UNCHANGED <<status, attempts, lease>>

\* claim(): the UPDATE of the locked rows commits.
ClaimCommit(w) ==
  /\ pc[w] = "claiming"
  /\ attempts' = [j \in Job |-> IF j \in batch[w] THEN attempts[j] + 1 ELSE attempts[j]]
  /\ lease' = [j \in Job |-> IF j \in batch[w] THEN "held" ELSE lease[j]]
  /\ pc' = [pc EXCEPT ![w] = "working"]
  /\ UNCHANGED <<status, batch>>

\* consolidate(job) returns, or raises.
Return(w) ==
  /\ pc[w] = "working"
  /\ pc' = [pc EXCEPT ![w] = "completing"]
  /\ UNCHANGED <<status, attempts, lease, batch>>

Raise(w) ==
  /\ pc[w] = "working"
  /\ pc' = [pc EXCEPT ![w] = "failing"]
  /\ UNCHANGED <<status, attempts, lease, batch>>

\* The for loop of run_once goes on with the next job, or run_once returns.
CloseJob(w, j) ==
  /\ batch' = [batch EXCEPT ![w] = @ \ {j}]
  /\ pc' = [pc EXCEPT ![w] = IF batch[w] = {j} THEN "idle" ELSE "working"]

\* complete(): DELETE by id, whoever the job belongs to by now.
Complete(w, j) ==
  /\ pc[w] = "completing"
  /\ Current(w, j)
  /\ status[j] = "queued" => ~Locked(j)
  /\ status' = [status EXCEPT ![j] = IF @ = "queued" THEN "completed" ELSE @]
  /\ CloseJob(w, j)
  /\ UNCHANGED <<attempts, lease>>

\* fail(): session.get reads the row without a lock.
FailRead(w, j) ==
  /\ pc[w] = "failing"
  /\ Current(w, j)
  /\ \/ /\ status[j] # "queued"
        /\ CloseJob(w, j)
     \/ /\ status[j] = "queued"
        /\ pc' = [pc EXCEPT ![w] = IF lease[j] = "free" THEN "noting" ELSE "releasing"]
        /\ UNCHANGED batch
  /\ UNCHANGED <<status, attempts, lease>>

\* Faulty: the attempt is given back with the claim.
FailWriteRefunds(w, j) ==
  /\ pc[w] \in {"releasing", "noting"}
  /\ Current(w, j)
  /\ status[j] = "queued"
  /\ ~Locked(j)
  /\ lease' = [lease EXCEPT ![j] = "free"]
  /\ attempts' = [attempts EXCEPT ![j] = @ - 1]
  /\ CloseJob(w, j)
  /\ UNCHANGED status

\* fail(): the UPDATE by id commits.  The session only writes the columns that
\* changed: claimed_at is set to NULL when the row that was read had one.
FailWrite(w, j) ==
  /\ pc[w] \in {"releasing", "noting"}
  /\ Current(w, j)
  /\ status[j] = "queued"
  /\ ~Locked(j)
  /\ lease' = [lease EXCEPT ![j] = IF pc[w] = "releasing" THEN "free" ELSE @]
  /\ CloseJob(w, j)
  /\ UNCHANGED <<status, attempts>>

\* A database error in claim(), complete() or fail(), or an UPDATE that finds
\* its row deleted: the exception leaves run_once, run_forever logs it, and the
\* jobs of the batch keep the claim they have.
Abandon(w) ==
  /\ pc[w] \in {"claiming", "completing", "failing", "releasing", "noting"}
  /\ pc' = [pc EXCEPT ![w] = "idle"]
  /\ batch' = [batch EXCEPT ![w] = {}]
  /\ UNCHANGED <<status, attempts, lease>>

-----------------------------------------------------------------------------
\* The process dies, or is stopped: its open transaction is rolled back, its
\* claims stay.
Crash(w) ==
  /\ pc[w] # "down"
  /\ pc' = [pc EXCEPT ![w] = "down"]
  /\ batch' = [batch EXCEPT ![w] = {}]
  /\ UNCHANGED <<status, attempts, lease>>

\* A new process starts its worker: start() in the lifespan of the application.
Restart(w) ==
  /\ pc[w] = "down"
  /\ pc' = [pc EXCEPT ![w] = "idle"]
  /\ UNCHANGED <<status, attempts, lease, batch>>

-----------------------------------------------------------------------------
\* What run_once does with a claimed batch after consolidate(job) has ended.
CloseStep(w) ==
  \E j \in batch[w] : Complete(w, j) \/ FailRead(w, j) \/ FailWrite(w, j)

WorkerStep(w) ==
  \/ ClaimSelect(w) \/ ClaimCommit(w)
  \/ Return(w) \/ Raise(w)
  \/ CloseStep(w) \/ Abandon(w)
  \/ Crash(w) \/ Restart(w)

QueueNext ==
  \/ \E j \in Job : Enqueue(j) \/ Expire(j)
  \/ \E S \in SUBSET Job : Cascade(S)
  \/ \E w \in Worker : WorkerStep(w)

QueueSpec == QueueInit /\ [][QueueNext]_queueVars

(***************************************************************************)
(* The event loop runs the tasks that are ready, extractions end (the      *)
(* model client has a timeout), time passes and processes are restarted.   *)
(* Database failures and crashes may recur for ever as long as a worker    *)
(* that tries again and again to claim succeeds in the end: strong         *)
(* fairness.                                                               *)
(***************************************************************************)
WorkerFairness(w) ==
  /\ SF_queueVars(ClaimSelect(w)) /\ SF_queueVars(ClaimCommit(w))
  /\ WF_queueVars(Return(w) \/ Raise(w))
  /\ WF_queueVars(CloseStep(w) \/ Abandon(w))
  /\ WF_queueVars(Restart(w))

QueueFairness ==
  /\ \A j \in Job : WF_queueVars(Expire(j))
  /\ \A w \in Worker : WorkerFairness(w)

-----------------------------------------------------------------------------
\* Types, and which jobs a worker may be holding where it is.
QueueTypeOK ==
  /\ status \in [Job -> JobStatus]
  /\ attempts \in [Job -> 0..MaxAttempts]
  /\ lease \in [Job -> Lease]
  /\ pc \in [Worker -> Place]
  /\ batch \in [Worker -> SUBSET Job]
  /\ \A w \in Worker : (batch[w] = {}) <=> (pc[w] \in {"down", "idle"})

\* The queue is a bounded at-least-once work queue: claims, retries, stale
\* completions and cascades never deliver a job that has left, never exceed
\* MaxAttempts and never drop a job nobody was given (claim, complete, fail).
WQ == INSTANCE WorkQueue WITH deliveries <- attempts, MaxDeliveries <- MaxAttempts
ImplementsWorkQueue == WQ!WQSpec

\* A queued job never stays claimed by a dead worker, behind an older job or in
\* a retry loop: it is closed, or its attempts are used up (claim, run_forever).
JobSettles == WQ!WQSettles
=============================================================================
