------------------------ MODULE ConsolidationProofs ------------------------
(***************************************************************************)
(* No recorded turn is lost and no message is skipped, for any number of   *)
(* threads, workers, requests, jobs and attempts, as long as a client      *)
(* sends one message at a time to a thread and deletions commit.  The      *)
(* argument, one conjunct of the inductive invariant at a time:            *)
(*                                                                         *)
(*  - the transcript of a thread nobody deletes only grows, because the    *)
(*    copy of its only run is the transcript;                              *)
(*  - created_at is taken after the reply was saved, so whoever reads the  *)
(*    transcript on behalf of job j sees the turns of all jobs up to j;    *)
(*  - a worker extracts from the position it read, and everything before   *)
(*    that position was extracted;                                         *)
(*  - hence what a worker is about to write in either mark is covered,     *)
(*    however old the values it read are.                                  *)
(*                                                                         *)
(* Types, the absence of orphan jobs and the implementation of the         *)
(* abstract queue hold whatever clients and deletions do: their theorems   *)
(* do not assume Discipline.                                               *)
(***************************************************************************)
EXTENDS Consolidation, LeaseHistory, FiniteSetTheorems, TLAPS

-----------------------------------------------------------------------------
(* The queue by itself. *)

\* What row locks and attempts guarantee: the rows a worker is claiming are its
\* own until it commits, and a worker only holds jobs that were delivered.
ClaimsSound ==
  \A w \in Worker : pc[w] = "claiming" =>
    \A j \in batch[w] : status[j] = "queued" /\ attempts[j] < MaxAttempts

LocksExclusive ==
  \A v, w \in Worker : \A j \in Job :
    /\ pc[v] = "claiming" /\ j \in batch[v]
    /\ pc[w] = "claiming" /\ j \in batch[w]
    => v = w

HeldWereDelivered ==
  \A w \in Worker : pc[w] # "claiming" => \A j \in batch[w] : attempts[j] > 0

QueueInv == QueueTypeOK /\ ClaimsSound /\ LocksExclusive /\ HeldWereDelivered

-----------------------------------------------------------------------------
\* The queue starts empty and with every worker idle.
LEMMA QueueInitInv == QueueInit => QueueInv
  BY JobAssumption, LimitAssumption
  DEF QueueInit, QueueInv, QueueTypeOK, ClaimsSound, LocksExclusive,
      HeldWereDelivered, JobStatus, Lease, Place

\* Every step of the queue, whoever takes it, keeps its inductive invariant.
LEMMA QueueStepInv == QueueInv /\ [QueueNext]_queueVars => QueueInv'
<1> SUFFICES ASSUME QueueInv, [QueueNext]_queueVars PROVE QueueInv'
  OBVIOUS
<1> USE JobAssumption, LimitAssumption
        DEF QueueInv, QueueTypeOK, ClaimsSound, LocksExclusive, HeldWereDelivered,
            JobStatus, Lease, Place
<1>1. ASSUME NEW j \in Job, Enqueue(j) PROVE QueueInv'
  BY <1>1 DEF Enqueue
<1>2. ASSUME NEW S \in SUBSET Job, Cascade(S) PROVE QueueInv'
  BY <1>2 DEF Cascade, Locked
<1>3. ASSUME NEW j \in Job, Expire(j) PROVE QueueInv'
  BY <1>3 DEF Expire
<1>4. ASSUME NEW w \in Worker, ClaimSelect(w) PROVE QueueInv'
  BY <1>4 DEF ClaimSelect, Claimable, Locked
<1>5. ASSUME NEW w \in Worker, ClaimCommit(w) PROVE QueueInv'
  BY <1>5 DEF ClaimCommit
<1>6. ASSUME NEW w \in Worker, Return(w) \/ Raise(w) PROVE QueueInv'
  <2>1. PICK p \in {"completing", "failing"} : pc' = [pc EXCEPT ![w] = p]
    BY <1>6 DEF Return, Raise
  <2>2. pc[w] = "working" /\ UNCHANGED <<status, attempts, lease, batch>>
    BY <1>6 DEF Return, Raise
  <2> QED
    BY <2>1, <2>2
<1>7. ASSUME NEW w \in Worker, NEW j \in batch[w], Complete(w, j) PROVE QueueInv'
  BY <1>7 DEF Complete, CloseJob, Locked, Current
<1>8. ASSUME NEW w \in Worker, NEW j \in batch[w], FailRead(w, j) PROVE QueueInv'
  <2>1. CASE CloseJob(w, j)
    BY <1>8, <2>1 DEF FailRead, CloseJob
  <2>2. CASE ~CloseJob(w, j)
    <3>1. PICK p \in {"noting", "releasing"} : pc' = [pc EXCEPT ![w] = p]
      BY <1>8, <2>2 DEF FailRead
    <3>2. pc[w] = "failing" /\ UNCHANGED <<status, attempts, lease, batch>>
      BY <1>8, <2>2 DEF FailRead
    <3> QED
      BY <3>1, <3>2
  <2> QED
    BY <2>1, <2>2
<1>9. ASSUME NEW w \in Worker, NEW j \in batch[w], FailWrite(w, j) PROVE QueueInv'
  <2>1. lease' \in [Job -> Lease] /\ UNCHANGED <<status, attempts>>
    BY <1>9 DEF FailWrite
  <2>2. pc[w] \in {"releasing", "noting"} /\ CloseJob(w, j)
    BY <1>9 DEF FailWrite
  <2>3. QueueTypeOK'
    BY <2>1, <2>2 DEF CloseJob
  <2>4. ClaimsSound' /\ LocksExclusive' /\ HeldWereDelivered'
    BY <2>1, <2>2 DEF CloseJob
  <2> QED
    BY <2>3, <2>4
<1>10. ASSUME NEW w \in Worker, Abandon(w) \/ Crash(w) PROVE QueueInv'
  <2>1. /\ batch' = [batch EXCEPT ![w] = {}]
        /\ \E p \in {"idle", "down"} : pc' = [pc EXCEPT ![w] = p]
        /\ UNCHANGED <<status, attempts, lease>>
    BY <1>10 DEF Abandon, Crash
  <2>2. QueueTypeOK'
    BY <2>1
  <2>3. ClaimsSound' /\ LocksExclusive' /\ HeldWereDelivered'
    BY <2>1
  <2> QED
    BY <2>2, <2>3
<1>11. ASSUME NEW w \in Worker, Restart(w) PROVE QueueInv'
  BY <1>11 DEF Restart
<1>12. CASE UNCHANGED queueVars
  BY <1>12 DEF queueVars
<1> QED
  BY <1>1, <1>2, <1>3, <1>4, <1>5, <1>6, <1>7, <1>8, <1>9, <1>10, <1>11, <1>12
  DEF QueueNext, WorkerStep, CloseStep

\* The inductive invariant holds in every behaviour of the queue.
THEOREM QueueInvariant == QueueSpec => []QueueInv
<1>1. QueueInit => QueueInv
  BY QueueInitInv
<1>2. QueueInv /\ [QueueNext]_queueVars => QueueInv'
  BY QueueStepInv
<1> QED
  BY <1>1, <1>2, PTL DEF QueueSpec

\* Every column and every worker keeps its type: in particular no job is claimed
\* more than MaxAttempts times, whatever the number of workers (claim).
THEOREM QueueTypeCorrect == QueueSpec => []QueueTypeOK
<1>1. QueueInv => QueueTypeOK
  BY DEF QueueInv
<1> QED
  BY <1>1, QueueInvariant, PTL

-----------------------------------------------------------------------------
\* A step of the queue is a step of the abstract work queue or changes nothing
\* of it.
LEMMA QueueStepRefines == QueueInv /\ [QueueNext]_queueVars => [WQ!WQNext]_(WQ!wqVars)
<1> SUFFICES ASSUME QueueInv, [QueueNext]_queueVars PROVE [WQ!WQNext]_(WQ!wqVars)
  OBVIOUS
<1> USE DEF QueueInv, QueueTypeOK, WQ!wqVars
<1>1. ASSUME NEW j \in Job, Enqueue(j) PROVE WQ!WQNext
  BY <1>1 DEF Enqueue, WQ!WQNext, WQ!Put
<1>2. ASSUME NEW S \in SUBSET Job, Cascade(S) PROVE WQ!WQNext
  <2> DEFINE Q == {j \in S : status[j] = "queued"}
  <2>1. WQ!Withdraw(Q)
    BY <1>2 DEF Cascade, WQ!Withdraw
  <2> QED
    BY <2>1 DEF WQ!WQNext
<1>3. ASSUME NEW w \in Worker, ClaimCommit(w) PROVE WQ!WQNext
  <2>1. WQ!Deliver(batch[w])
    BY <1>3 DEF ClaimCommit, WQ!Deliver, ClaimsSound
  <2> QED
    BY <2>1 DEF WQ!WQNext
<1>4. ASSUME NEW w \in Worker, NEW j \in batch[w], Complete(w, j)
      PROVE  WQ!WQNext \/ UNCHANGED WQ!wqVars
  <2>1. CASE status[j] = "queued"
    <3>1. WQ!Acknowledge(j)
      BY <1>4, <2>1 DEF Complete, WQ!Acknowledge, HeldWereDelivered
    <3> QED
      BY <3>1 DEF WQ!WQNext
  <2>2. CASE status[j] # "queued"
    BY <1>4, <2>2 DEF Complete
  <2> QED
    BY <2>1, <2>2
<1>5. ASSUME NEW w \in Worker, NEW j \in batch[w], FailRead(w, j) \/ FailWrite(w, j)
      PROVE  UNCHANGED WQ!wqVars
  BY <1>5 DEF FailRead, FailWrite
<1>6. ASSUME NEW w \in Worker,
             ClaimSelect(w) \/ Return(w) \/ Raise(w) \/ Abandon(w) \/ Crash(w) \/ Restart(w)
      PROVE  UNCHANGED WQ!wqVars
  BY <1>6 DEF ClaimSelect, Return, Raise, Abandon, Crash, Restart
<1>7. ASSUME NEW j \in Job, Expire(j) PROVE UNCHANGED WQ!wqVars
  BY <1>7 DEF Expire
<1>8. CASE UNCHANGED queueVars
  BY <1>8 DEF queueVars
<1> QED
  BY <1>1, <1>2, <1>3, <1>4, <1>5, <1>6, <1>7, <1>8 DEF QueueNext, WorkerStep, CloseStep

\* The table and its workers implement the abstract queue: deliveries are
\* bounded, nothing is delivered after it left and nothing is acknowledged that
\* was not delivered (claim, complete, fail, ON DELETE CASCADE).
THEOREM QueueRefinement == QueueSpec => ImplementsWorkQueue
<1>1. QueueInit => WQ!WQInit
  BY DEF QueueInit, WQ!WQInit
<1>2. QueueInv /\ [QueueNext]_queueVars => [WQ!WQNext]_(WQ!wqVars)
  BY QueueStepRefines
<1> QED
  BY <1>1, <1>2, QueueInvariant, PTL DEF QueueSpec, ImplementsWorkQueue, WQ!WQSpec

-----------------------------------------------------------------------------
(* How far the leases keep workers apart. *)

\* A row that is being claimed is not under a lease.
ClaimsUnleased ==
  \A w \in Worker : pc[w] = "claiming" => \A j \in batch[w] : lease[j] # "held"

HistoryInv == QueueInv /\ HistoryTypeOK /\ ClaimsUnleased /\ OverlapBounded

-----------------------------------------------------------------------------
\* A step with history is a step of the queue.
LEMMA HistoryStepIsQueueStep == [HistoryNext]_historyVars => [QueueNext]_queueVars
  BY DEF HistoryNext, historyVars, CommitLease, RunOut, OtherStep, QueueNext, WorkerStep

\* The holders of a job are finitely many.
LEMMA HoldersFinite ==
  ASSUME NEW j \in Job
  PROVE  IsFiniteSet(Holders(j)) /\ Cardinality(Holders(j)) \in Nat
<1>1. Holders(j) \subseteq Worker
  BY DEF Holders
<1> QED
  BY <1>1, WorkersFinite, FS_Subset, FS_CardinalityType

\* Apart from the commit of a claim, no step gives a job to a worker.
LEMMA OnlyCommitsAddHolders ==
  ASSUME QueueInv, OtherStep, NEW j \in Job
  PROVE  Holders(j)' \subseteq Holders(j)
<1> USE DEF QueueInv, QueueTypeOK, Holders
<1>1. ASSUME NEW w \in Worker, ClaimSelect(w) PROVE Holders(j)' \subseteq Holders(j)
  BY <1>1 DEF ClaimSelect
<1>2. ASSUME NEW w \in Worker, NEW k \in batch[w], Complete(w, k)
      PROVE  Holders(j)' \subseteq Holders(j)
  BY <1>2 DEF Complete, CloseJob
<1>3. ASSUME NEW w \in Worker, NEW k \in batch[w], FailWrite(w, k)
      PROVE  Holders(j)' \subseteq Holders(j)
  BY <1>3 DEF FailWrite, CloseJob
<1>4. ASSUME NEW w \in Worker, NEW k \in batch[w], FailRead(w, k)
      PROVE  Holders(j)' \subseteq Holders(j)
  BY <1>4 DEF FailRead, CloseJob
<1>5. ASSUME NEW w \in Worker,
             Return(w) \/ Raise(w) \/ Abandon(w) \/ Crash(w) \/ Restart(w)
      PROVE  Holders(j)' \subseteq Holders(j)
  BY <1>5 DEF Return, Raise, Abandon, Crash, Restart
<1>6. ASSUME UNCHANGED <<pc, batch>> PROVE Holders(j)' \subseteq Holders(j)
  BY <1>6
<1> QED
  BY <1>1, <1>2, <1>3, <1>4, <1>5, <1>6 DEF OtherStep, CloseStep, Enqueue, Cascade

\* A lease only ends by running out or by fail(), whose worker lets go of the job.
LEMMA ReleaseDropsHolder ==
  ASSUME QueueInv, OtherStep, NEW j \in Job, lease[j]' # lease[j]
  PROVE  \E w \in Holders(j) : w \notin Holders(j)'
<1> USE DEF QueueInv, QueueTypeOK, Holders
<1>1. PICK w \in Worker : \E k \in batch[w] : FailWrite(w, k)
  BY DEF OtherStep, CloseStep, Enqueue, Cascade, ClaimSelect, Return, Raise,
         Complete, FailRead, Abandon, Crash, Restart
<1>2. FailWrite(w, j) /\ j \in batch[w]
  BY <1>1 DEF FailWrite
<1>3. w \in Holders(j) /\ w \notin Holders(j)'
  BY <1>2 DEF FailWrite, CloseJob
<1> QED
  BY <1>3

\* Nobody takes a lease in a step that is not the commit of a claim.
LEMMA OnlyCommitsTakeLeases ==
  ASSUME QueueInv, OtherStep, NEW j \in Job, lease[j]' = "held"
  PROVE  lease[j] = "held"
BY DEF QueueInv, QueueTypeOK, OtherStep, CloseStep, Enqueue, Cascade, ClaimSelect,
       Return, Raise, Complete, FailRead, FailWrite, Abandon, Crash, Restart

-----------------------------------------------------------------------------
\* Rows under a lease are not claimed.
LEMMA ClaimsUnleasedStep == QueueInv /\ ClaimsUnleased /\ [HistoryNext]_historyVars => ClaimsUnleased'
<1> SUFFICES ASSUME QueueInv, ClaimsUnleased, [HistoryNext]_historyVars PROVE ClaimsUnleased'
  OBVIOUS
<1> USE DEF QueueInv, QueueTypeOK, ClaimsUnleased
<1>1. ASSUME NEW w \in Worker, CommitLease(w) PROVE ClaimsUnleased'
  BY <1>1 DEF CommitLease, ClaimCommit, LocksExclusive
<1>2. ASSUME NEW j \in Job, RunOut(j) PROVE ClaimsUnleased'
  BY <1>2 DEF RunOut, Expire
<1>3. CASE OtherStep
  <2> SUFFICES ASSUME NEW w \in Worker, pc[w]' = "claiming", NEW j \in batch[w]'
               PROVE  lease[j]' # "held"
    OBVIOUS
  <2>1. CASE pc[w] = "claiming" /\ batch[w]' = batch[w]
    BY <1>3, <2>1, OnlyCommitsTakeLeases
  <2>2. CASE ClaimSelect(w)
    BY <2>2 DEF ClaimSelect, Claimable
  <2>3. ClaimSelect(w) \/ (pc[w] = "claiming" /\ batch[w]' = batch[w])
    BY <1>3 DEF OtherStep, CloseStep, Enqueue, Cascade, ClaimSelect, Return, Raise,
                Complete, FailRead, FailWrite, CloseJob, Abandon, Crash, Restart
  <2> QED
    BY <2>1, <2>2, <2>3
<1>4. CASE UNCHANGED historyVars
  BY <1>4 DEF historyVars, queueVars
<1> QED
  BY <1>1, <1>2, <1>3, <1>4 DEF HistoryNext

-----------------------------------------------------------------------------
\* The bound on the workers that process a job is kept by every step.
LEMMA OverlapStep ==
  QueueInv /\ HistoryTypeOK /\ ClaimsUnleased /\ OverlapBounded /\ [HistoryNext]_historyVars
    => OverlapBounded'
<1> SUFFICES ASSUME QueueInv, HistoryTypeOK, ClaimsUnleased, OverlapBounded,
                    [HistoryNext]_historyVars, NEW j \in Job
             PROVE  Cardinality(Holders(j))' <= expiries[j]' + (IF lease[j]' = "held" THEN 1 ELSE 0)
  BY DEF OverlapBounded
<1> DEFINE H == Holders(j)
           n == Cardinality(H)
<1>1. /\ IsFiniteSet(H) /\ n \in Nat
      /\ expiries[j] \in Nat
      /\ n <= expiries[j] + (IF lease[j] = "held" THEN 1 ELSE 0)
  BY HoldersFinite DEF HistoryTypeOK, OverlapBounded
<1> HIDE DEF H
<1>2. ASSUME NEW w \in Worker, CommitLease(w)
      PROVE  Cardinality(H') <= expiries[j]' + (IF lease[j]' = "held" THEN 1 ELSE 0)
  <2>1. UNCHANGED expiries
    BY <1>2 DEF CommitLease
  <2>2. CASE j \in batch[w]
    <3>1. H' = H \cup {w}
      BY <1>2, <2>2 DEF CommitLease, ClaimCommit, H, Holders, QueueInv, QueueTypeOK
    <3>2. Cardinality(H') <= n + 1
      <4>1. Cardinality(H \cup {w}) = IF w \in H THEN n ELSE n + 1
        BY <1>1, FS_AddElement
      <4> QED
        BY <1>1, <3>1, <4>1
    <3>3. lease[j]' = "held" /\ lease[j] # "held"
      BY <1>2, <2>2 DEF CommitLease, ClaimCommit, ClaimsUnleased
    <3>4. Cardinality(H') \in Nat
      BY <3>1, <1>1, FS_AddElement, FS_CardinalityType
    <3> QED
      BY <1>1, <2>1, <3>2, <3>3, <3>4
  <2>3. CASE j \notin batch[w]
    <3>1. H' = H
      BY <1>2, <2>3 DEF CommitLease, ClaimCommit, H, Holders, QueueInv, QueueTypeOK
    <3>2. lease[j]' = lease[j]
      BY <1>2, <2>3 DEF CommitLease, ClaimCommit
    <3> QED
      BY <1>1, <2>1, <3>1, <3>2
  <2> QED
    BY <2>2, <2>3
<1>3. ASSUME NEW k \in Job, RunOut(k)
      PROVE  Cardinality(H') <= expiries[j]' + (IF lease[j]' = "held" THEN 1 ELSE 0)
  <2>1. H' = H
    BY <1>3 DEF RunOut, Expire, H, Holders
  <2>2. CASE k = j
    BY <1>1, <1>3, <2>1, <2>2 DEF RunOut, Expire, HistoryTypeOK, QueueInv, QueueTypeOK
  <2>3. CASE k # j
    BY <1>1, <1>3, <2>1, <2>3 DEF RunOut, Expire, HistoryTypeOK, QueueInv, QueueTypeOK
  <2> QED
    BY <2>2, <2>3
<1>4. ASSUME OtherStep
      PROVE  Cardinality(H') <= expiries[j]' + (IF lease[j]' = "held" THEN 1 ELSE 0)
  <2>1. UNCHANGED expiries /\ H' \subseteq H
    BY <1>4, OnlyCommitsAddHolders DEF OtherStep, H
  <2>2. IsFiniteSet(H') /\ Cardinality(H') \in Nat /\ Cardinality(H') <= n
    BY <1>1, <2>1, FS_Subset, FS_CardinalityType
  <2>3. CASE lease[j]' = lease[j]
    BY <1>1, <2>1, <2>2, <2>3
  <2>4. CASE lease[j]' # lease[j]
    <3>1. Cardinality(H') # n
      <4>1. H' # H
        BY <1>4, <2>4, ReleaseDropsHolder DEF H
      <4> QED
        BY <4>1, <1>1, <2>1, FS_Subset
    <3>2. lease[j]' # "held"
      BY <1>4, <2>4, OnlyCommitsTakeLeases
    <3> QED
      BY <1>1, <2>1, <2>2, <3>1, <3>2
  <2> QED
    BY <2>3, <2>4
<1>5. ASSUME UNCHANGED historyVars
      PROVE  Cardinality(H') <= expiries[j]' + (IF lease[j]' = "held" THEN 1 ELSE 0)
  <2>1. H' = H
    BY <1>5 DEF historyVars, queueVars, H, Holders
  <2> QED
    BY <1>1, <1>5, <2>1 DEF historyVars, queueVars
<1>6. Cardinality(H') <= expiries[j]' + (IF lease[j]' = "held" THEN 1 ELSE 0)
  BY <1>2, <1>3, <1>4, <1>5 DEF HistoryNext
<1> QED
  BY <1>6 DEF H

\* The history keeps its types.
LEMMA HistoryTypeStep ==
  QueueInv /\ HistoryTypeOK /\ [HistoryNext]_historyVars => HistoryTypeOK'
<1> SUFFICES ASSUME QueueInv, HistoryTypeOK, [HistoryNext]_historyVars
             PROVE  HistoryTypeOK'
  OBVIOUS
<1>1. QueueTypeOK'
  BY QueueStepInv, HistoryStepIsQueueStep DEF QueueInv
<1>2. expiries' \in [Job -> Nat]
  BY DEF HistoryTypeOK, HistoryNext, historyVars, CommitLease, RunOut, OtherStep
<1> QED
  BY <1>1, <1>2 DEF HistoryTypeOK

\* With leases that do not run out a job is never processed by two workers at
\* once, and each lease that does run out adds at most one (claim, fail,
\* complete: none of the two checks who holds the job).
THEOREM LeasesBoundOverlap == HistorySpec => []OverlapBounded
<1>1. HistoryInit => HistoryInv
  <2> SUFFICES ASSUME HistoryInit PROVE HistoryInv
    OBVIOUS
  <2>1. QueueInv
    BY QueueInitInv DEF HistoryInit
  <2>2. HistoryTypeOK /\ ClaimsUnleased
    BY <2>1 DEF HistoryInit, HistoryTypeOK, ClaimsUnleased, QueueInv, QueueInit
  <2>3. OverlapBounded
    <3> SUFFICES ASSUME NEW j \in Job
                 PROVE  Cardinality(Holders(j)) <= expiries[j] + (IF lease[j] = "held" THEN 1 ELSE 0)
      BY DEF OverlapBounded
    <3>1. Holders(j) = {}
      BY DEF HistoryInit, QueueInit, Holders
    <3>2. Cardinality(Holders(j)) = 0
      BY <3>1, FS_EmptySet
    <3> QED
      BY <3>2 DEF HistoryInit, QueueInit
  <2> QED
    BY <2>1, <2>2, <2>3 DEF HistoryInv
<1>2. HistoryInv /\ [HistoryNext]_historyVars => HistoryInv'
  BY QueueStepInv, HistoryStepIsQueueStep, HistoryTypeStep, ClaimsUnleasedStep, OverlapStep
  DEF HistoryInv
<1>3. HistoryInv => OverlapBounded
  BY DEF HistoryInv
<1> QED
  BY <1>1, <1>2, <1>3, PTL DEF HistorySpec

-----------------------------------------------------------------------------
(* Threads, requests and workers together. *)

\* What the theorems need of the environment.
Discipline == SerialSends /\ ~DeletesMayAbort

-----------------------------------------------------------------------------
\* Threads and requests.
OneRequestPerThread ==
  \A q, r \in Request : on[q] = on[r] /\ on[q] # NoThread => q = r

CopyIsTranscript ==
  \A r \in Request :
    at[r] \notin {"idle", "accepted"} /\ Intact(on[r]) => copy[r] = transcript[on[r]]

CopyHasTurn ==
  \A r \in Request :
    /\ at[r] \in {"asked", "briefed"} => Len(copy[r]) >= 1
    /\ at[r] \in {"answered", "recording"} => Len(copy[r]) >= 2

\* Jobs, from the transaction that gives them a created_at on.
JobsBegun ==
  /\ \A j \in Job : (j <= clock) <=> (thread[j] # NoThread)
  /\ \A j \in Job : status[j] # "absent" => j <= clock
  /\ \A j \in Job : status[j] = "withdrawn" => row[thread[j]] = "deleted"
  /\ \A r \in Request : record[r] # 0 => record[r] <= clock /\ thread[record[r]] = on[r]

FreshThreads ==
  \A t \in Thread : row[t] = "none" =>
    /\ position[t] = 0
    /\ \A j \in Job : thread[j] # t
    /\ \A r \in Request : on[r] # t

TurnsInTranscript ==
  \A j \in Job : Intact(thread[j]) =>
    \A m \in turn[j] : \E i \in 1 .. Len(transcript[thread[j]]) : transcript[thread[j]][i] = m

TurnsInv ==
  /\ OneRequestPerThread /\ CopyIsTranscript /\ CopyHasTurn
  /\ JobsBegun /\ FreshThreads /\ TurnsInTranscript

-----------------------------------------------------------------------------
\* Every turn recorded on the thread of j up to j has been extracted.
Covered(j) ==
  \A k \in Job : k <= j /\ thread[k] = thread[j] => turn[k] \subseteq extracted[thread[j]]

WatermarkCovered ==
  \A t \in Thread :
    /\ watermark[t] <= clock
    /\ Intact(t) => \A k \in Job : k <= watermark[t] /\ thread[k] = t => turn[k] \subseteq extracted[t]

CompletedCovered ==
  \A j \in Job : status[j] = "completed" /\ Intact(thread[j]) => Covered(j)

HeldCommitted == \A w \in Worker : \A j \in batch[w] : status[j] # "absent"

StepsInside == \A w \in Worker : step[w] # "position" => pc[w] = "working"

\* What a worker knows at each step of consolidate(j).
SinceCovered(w, j) ==
  LET messages == transcript[thread[j]] IN
  /\ since[w] <= Len(messages)
  /\ \A i \in 1 .. since[w] : messages[i] \in extracted[thread[j]]

WindowIsPrefix(w, j) ==
  LET messages == transcript[thread[j]] IN
  /\ Len(window[w]) <= Len(messages)
  /\ \A i \in 1 .. Len(window[w]) : window[w][i] = messages[i]

WindowHasTurns(w, j) ==
  \A k \in Job : k <= j /\ thread[k] = thread[j] =>
    \A m \in turn[k] : \E i \in 1 .. Len(window[w]) : window[w][i] = m

WindowExtracted(w, j) ==
  \A i \in 1 .. Len(window[w]) : window[w][i] \in extracted[thread[j]]

Knows(w, j) ==
  /\ step[w] # "position" => SinceCovered(w, j)
  /\ step[w] \in {"extract", "mark", "write"} => WindowIsPrefix(w, j) /\ WindowHasTurns(w, j)
  /\ step[w] \in {"mark", "write"} => WindowExtracted(w, j)
  /\ pc[w] = "completing" => Covered(j)

WorkersKnow ==
  \A w \in Worker : \A j \in batch[w] : Current(w, j) /\ Intact(thread[j]) => Knows(w, j)

MarksInv ==
  /\ NoMessageSkipped /\ WatermarkCovered /\ CompletedCovered
  /\ HeldCommitted /\ StepsInside /\ WorkersKnow

Inv == TypeOK /\ QueueInv /\ TurnsInv /\ MarksInv

-----------------------------------------------------------------------------
\* Initially there is nothing to cover.
LEMMA InitInv == Init => Inv
<1> SUFFICES ASSUME Init PROVE Inv
  OBVIOUS
<1> USE JobAssumption, TurnsAssumption
<1>1. QueueInv
  BY QueueInitInv DEF Init
<1>2. TypeOK
  BY <1>1 DEF Init, TurnsInit, TypeOK, TurnsTypeOK, QueueInv, Stage, ConsolidateStep, Marks
<1>3. TurnsInv
  BY DEF Init, TurnsInit, QueueInit, TurnsInv, OneRequestPerThread, CopyIsTranscript,
         CopyHasTurn, JobsBegun, FreshThreads, TurnsInTranscript, Intact
<1>4. MarksInv
  BY DEF Init, TurnsInit, QueueInit, MarksInv, NoMessageSkipped, WatermarkCovered,
         CompletedCovered, HeldCommitted, StepsInside, WorkersKnow, Intact
<1> QED
  BY <1>1, <1>2, <1>3, <1>4 DEF Inv

\* The composition leaves to the queue what is the queue's.
LEMMA StepIsQueueStep == TypeOK /\ [Next]_vars => [QueueNext]_queueVars
<1> SUFFICES ASSUME TypeOK, [Next]_vars PROVE [QueueNext]_queueVars
  OBVIOUS
<1>1. ASSUME NEW r \in Request, RecordTurn(r) PROVE QueueNext
  <2>1. record[r] \in Job
    BY <1>1 DEF RecordTurn, RecordCommit, TypeOK, TurnsTypeOK
  <2> QED
    BY <1>1, <2>1 DEF RecordTurn, QueueNext
<1>2. ASSUME NEW t \in Thread, DeleteThread(t) PROVE QueueNext
  <2>1. {j \in Job : thread[j] = t} \in SUBSET Job
    OBVIOUS
  <2> QED
    BY <1>2, <2>1 DEF DeleteThread, QueueNext
<1>3. ASSUME NEW w \in Worker, Consolidate(w) \/ ConsolidateFails(w) \/ QueueStep(w) \/ CrashWorker(w)
      PROVE  [QueueNext]_queueVars
  BY <1>3 DEF Consolidate, ReadPosition, ReadMessages, Extract, ReadMarks, WriteMarks, Returns,
              StaysIn, ConsolidateFails, Raises, QueueStep, CrashWorker, QueueNext, WorkerStep
<1>4. ASSUME NEW j \in Job, ExpireLease(j) PROVE QueueNext
  BY <1>4 DEF ExpireLease, QueueNext
<1>5. CASE UNCHANGED vars
  BY <1>5 DEF vars
<1>6. ASSUME NEW r \in Request, RequestStep(r) PROVE UNCHANGED queueVars
  BY <1>6 DEF RequestStep
<1>7. ASSUME NEW t \in Thread, ThreadStep(t) PROVE UNCHANGED queueVars
  BY <1>7 DEF ThreadStep
<1> QED
  BY <1>1, <1>2, <1>3, <1>4, <1>5, <1>6, <1>7 DEF Next

-----------------------------------------------------------------------------
\* What a step does to threads and requests.
TurnsStep ==
  \/ \E r \in Request :
       \/ \E t \in Thread : Accept(r, t)
       \/ Load(r) \/ Ask(r) \/ Brief(r) \/ Answer(r) \/ RecordBegin(r) \/ Drop(r) \/ RecordCommit(r)
  \/ \E t \in Thread : CreateThread(t) \/ DeleteTranscript(t) \/ DeleteRow(t) \/ DeleteAbort(t)

\* Workers and leases leave threads and requests alone (AgentService.consolidate
\* writes only the marks of a thread).
LEMMA WorkersLeaveTurns ==
  /\ \A w \in Worker : Consolidate(w) \/ ConsolidateFails(w) \/ QueueStep(w) \/ CrashWorker(w)
                        => UNCHANGED turnVars
  /\ \A j \in Job : ExpireLease(j) => UNCHANGED turnVars
<1>1. ASSUME NEW w \in Worker, Consolidate(w) PROVE UNCHANGED turnVars
  BY <1>1 DEF Consolidate, ReadPosition, ReadMessages, Extract, ReadMarks, WriteMarks
<1> QED
  BY <1>1 DEF ConsolidateFails, QueueStep, CrashWorker, ExpireLease

\* To the threads and requests, every step of the system is one of these or none
\* (chat.py, threads.py).
LEMMA StepIsTurnsStep == [Next]_vars => [TurnsStep]_turnVars
<1>1. ASSUME NEW r \in Request, RequestStep(r) \/ RecordTurn(r) PROVE TurnsStep
  BY <1>1 DEF RequestStep, RecordTurn, TurnsStep
<1>2. ASSUME NEW t \in Thread, ThreadStep(t) \/ DeleteThread(t) PROVE TurnsStep
  BY <1>2 DEF ThreadStep, DeleteThread, TurnsStep
<1>3. UNCHANGED vars => UNCHANGED turnVars
  BY DEF vars
<1> QED
  BY <1>1, <1>2, <1>3, WorkersLeaveTurns DEF Next

\* Who writes what.
LEMMA TurnsFrame ==
  ASSUME [TurnsStep]_turnVars
  PROVE  /\ row' # row => \E t \in Thread : CreateThread(t) \/ DeleteRow(t)
         /\ on' # on => \E r \in Request : Leave(r) \/ \E t \in Thread : Accept(r, t)
         /\ record' # record => \E r \in Request : Leave(r) \/ RecordBegin(r)
         /\ <<clock, thread, turn>>' # <<clock, thread, turn>> => \E r \in Request : RecordBegin(r)
  BY DEF TurnsStep, turnVars, Accept, Load, Ask, Say, Brief, Answer, RecordBegin, Drop, RecordCommit,
         Leave, CreateThread, DeleteTranscript, DeleteRow, DeleteAbort

\* A turn is made of messages, because the copy it is taken from holds two.
LEMMA TurnsTypeStep == TurnsTypeOK /\ CopyHasTurn /\ [TurnsStep]_turnVars => TurnsTypeOK'
<1> SUFFICES ASSUME TurnsTypeOK, CopyHasTurn, [TurnsStep]_turnVars PROVE TurnsTypeOK'
  OBVIOUS
<1> USE JobAssumption, TurnsAssumption DEF TurnsTypeOK, Stage
<1>1. ASSUME NEW r \in Request, NEW t \in Thread, Accept(r, t) PROVE TurnsTypeOK'
  BY <1>1 DEF Accept
<1>2. ASSUME NEW r \in Request, Load(r) PROVE TurnsTypeOK'
  <2>1. on[r] \in Thread
    BY <1>2 DEF Load
  <2> QED
    BY <1>2, <2>1 DEF Load
<1>3. ASSUME NEW r \in Request, NEW role \in {"user", "assistant"}, NEW s \in Stage \ {"idle", "recording"},
             Say(r, role), at[r] \notin {"idle", "recording"}, at' = [at EXCEPT ![r] = s]
      PROVE  TurnsTypeOK'
  <2>1. on[r] \in Thread
    BY <1>3
  <2>2. [id |-> said[on[r]] + 1, role |-> role] \in Message
    BY <2>1 DEF Message
  <2>3. Append(copy[r], [id |-> said[on[r]] + 1, role |-> role]) \in Seq(Message)
    BY <2>2
  <2> QED
    BY <1>3, <2>1, <2>3 DEF Say
<1>4. ASSUME NEW r \in Request, Brief(r) PROVE TurnsTypeOK'
  BY <1>4 DEF Brief
<1>5. ASSUME NEW r \in Request, RecordBegin(r) PROVE TurnsTypeOK'
  <2>1. on[r] \in Thread /\ Len(copy[r]) >= 2
    BY <1>5 DEF RecordBegin, CopyHasTurn
  <2>2. {copy[r][i] : i \in {Len(copy[r]) - 1, Len(copy[r])}} \in SUBSET Message
    BY <2>1
  <2> QED
    BY <1>5, <2>1, <2>2 DEF RecordBegin
<1>6. ASSUME NEW r \in Request, Drop(r) \/ RecordCommit(r) PROVE TurnsTypeOK'
  <2>1. Leave(r)
    BY <1>6 DEF Drop, RecordCommit
  <2> QED
    BY <2>1 DEF Leave
<1>7. ASSUME NEW t \in Thread, CreateThread(t) PROVE TurnsTypeOK'
  BY <1>7 DEF CreateThread
<1>8. ASSUME NEW t \in Thread, DeleteTranscript(t) PROVE TurnsTypeOK'
  BY <1>8 DEF DeleteTranscript
<1>9. ASSUME NEW t \in Thread, DeleteRow(t) PROVE TurnsTypeOK'
  BY <1>9 DEF DeleteRow
<1>10. ASSUME NEW t \in Thread, DeleteAbort(t) PROVE TurnsTypeOK'
  BY <1>10 DEF DeleteAbort
<1>11. CASE UNCHANGED turnVars
  BY <1>11 DEF turnVars
<1> QED
  BY <1>1, <1>2, <1>3, <1>4, <1>5, <1>6, <1>7, <1>8, <1>9, <1>10, <1>11 DEF TurnsStep, Ask, Answer

-----------------------------------------------------------------------------
\* The rows of jobs and threads a step of the whole system leaves as they are.
LEMMA StatusStep ==
  ASSUME TypeOK, [Next]_vars, NEW j \in Job
  PROVE  \/ status'[j] = status[j]
         \/ \E r \in Request : RecordTurn(r) /\ j = record[r]
         \/ \E t \in Thread : DeleteThread(t) /\ j \in Job /\ thread[j] = t /\ status[j] = "queued"
         \/ \E w \in Worker : QueueStep(w) /\ pc[w] = "completing" /\ Current(w, j) /\ status[j] = "queued"
                              /\ status'[j] = "completed"
<1> USE DEF TypeOK, QueueTypeOK
<1>1. CASE \E w \in Worker : QueueStep(w)
  BY <1>1 DEF QueueStep, ClaimSelect, ClaimCommit, CloseStep, Complete, FailRead, FailWrite, Abandon, Restart
<1>2. CASE \E w \in Worker : Consolidate(w) \/ ConsolidateFails(w) \/ CrashWorker(w)
  BY <1>2 DEF Consolidate, ReadPosition, ReadMessages, Extract, ReadMarks, WriteMarks, Returns, StaysIn,
              ConsolidateFails, Raises, Return, Raise, CrashWorker, Crash, queueVars
<1>3. CASE \E r \in Request : RecordTurn(r)
  BY <1>3 DEF RecordTurn, Enqueue
<1>4. CASE \E t \in Thread : DeleteThread(t)
  BY <1>4 DEF DeleteThread, Cascade
<1>5. CASE (\E i \in Job : ExpireLease(i)) \/ (\E r \in Request : RequestStep(r)) \/ (\E t \in Thread : ThreadStep(t))
  BY <1>5 DEF ExpireLease, Expire, RequestStep, ThreadStep, queueVars
<1>6. CASE UNCHANGED vars
  BY <1>6 DEF vars, queueVars
<1> QED
  BY <1>1, <1>2, <1>3, <1>4, <1>5, <1>6 DEF Next

\* Marks are written on rows that are there.
LEMMA PositionStep ==
  ASSUME TypeOK, [Next]_vars, NEW t \in Thread, row[t] # "live"
  PROVE  position'[t] = position[t]
<1> USE DEF TypeOK
<1>1. ASSUME NEW w \in Worker, NEW j \in batch[w], WriteMarks(w, j) PROVE position'[t] = position[t]
  BY <1>1 DEF WriteMarks
<1>2. CASE \E w \in Worker : Consolidate(w)
  BY <1>1, <1>2 DEF Consolidate, ReadPosition, ReadMessages, Extract, ReadMarks, markVars
<1>3. CASE ~ \E w \in Worker : Consolidate(w)
  BY <1>3 DEF Next, ConsolidateFails, QueueStep, CrashWorker, ExpireLease, RequestStep, RecordTurn,
              ThreadStep, DeleteThread, markVars, vars
<1> QED
  BY <1>2, <1>3

\* A recorded turn never changes, and created_at only goes forward.
LEMMA JobsStable ==
  ASSUME TurnsTypeOK, JobsBegun, [TurnsStep]_turnVars
  PROVE  /\ clock' >= clock
         /\ \A j \in Job : j <= clock => thread'[j] = thread[j] /\ turn'[j] = turn[j]
         /\ \A j \in Job : thread'[j] # thread[j] \/ turn'[j] # turn[j] => \E r \in Request : RecordBegin(r) /\ j = clock + 1
<1> USE JobAssumption DEF TurnsTypeOK
<1>1. ASSUME NEW r \in Request, RecordBegin(r)
      PROVE  /\ clock' >= clock
             /\ \A j \in Job : j # clock + 1 => thread'[j] = thread[j] /\ turn'[j] = turn[j]
  BY <1>1 DEF RecordBegin
<1>2. CASE ~ \E r \in Request : RecordBegin(r)
  <2>1. UNCHANGED <<clock, thread, turn>>
    BY <1>2, TurnsFrame
  <2> QED
    BY <2>1
<1>3. CASE \E r \in Request : RecordBegin(r)
  <2>1. \A j \in Job : j <= clock => j # clock + 1
    OBVIOUS
  <2> QED
    BY <1>1, <1>3, <2>1
<1> QED
  BY <1>2, <1>3

-----------------------------------------------------------------------------
\* A client waits for the reply before it sends to the same thread again.
LEMMA OneRequestStep ==
  ASSUME SerialSends, TurnsTypeOK, OneRequestPerThread, [TurnsStep]_turnVars
  PROVE  OneRequestPerThread'
<1> USE TurnsAssumption DEF TurnsTypeOK, OneRequestPerThread
<1>1. ASSUME NEW r \in Request, NEW t \in Thread, Accept(r, t) PROVE OneRequestPerThread'
  BY <1>1 DEF Accept
<1>2. ASSUME NEW r \in Request, Leave(r) PROVE OneRequestPerThread'
  BY <1>2 DEF Leave
<1>3. CASE UNCHANGED on
  BY <1>3
<1> QED
  BY <1>1, <1>2, <1>3 DEF TurnsStep, turnVars, Load, Ask, Say, Brief, Answer, RecordBegin, Drop,
                          RecordCommit, CreateThread, DeleteTranscript, DeleteRow, DeleteAbort

\* A run of the chat graph that has asked holds the question, and one that has
\* answered holds the whole turn (graph.py).
LEMMA CopyHasTurnStep ==
  ASSUME TurnsTypeOK, CopyHasTurn, [TurnsStep]_turnVars
  PROVE  CopyHasTurn'
<1> USE DEF TurnsTypeOK, CopyHasTurn
<1>1. ASSUME NEW r \in Request, Ask(r) \/ Answer(r) PROVE CopyHasTurn'
  <2>1. PICK role \in {"user", "assistant"} : Say(r, role)
    BY <1>1 DEF Ask, Answer
  <2>2. on[r] \in Thread
    BY <1>1 DEF Ask, Answer
  <2>3. [id |-> said[on[r]] + 1, role |-> role] \in Message
    BY <2>2 DEF Message
  <2>4. Len(copy'[r]) = Len(copy[r]) + 1
    <3>1. copy'[r] = Append(copy[r], [id |-> said[on[r]] + 1, role |-> role])
      BY <2>1 DEF Say
    <3>2. copy[r] \in Seq(Message)
      OBVIOUS
    <3> HIDE DEF TurnsTypeOK
    <3> QED
      BY <2>3, <3>1, <3>2
  <2>5. \A q \in Request \ {r} : copy'[q] = copy[q] /\ at'[q] = at[q]
    BY <1>1, <2>1 DEF Ask, Answer, Say
  <2>6. \/ at[r] = "loaded" /\ at'[r] = "asked"
        \/ at[r] = "briefed" /\ at'[r] = "answered"
    BY <1>1 DEF Ask, Answer
  <2>7. Len(copy[r]) \in Nat
    OBVIOUS
  <2>8. /\ at'[r] \in {"asked", "briefed"} => Len(copy'[r]) >= 1
        /\ at'[r] \in {"answered", "recording"} => Len(copy'[r]) >= 2
    BY <2>4, <2>6, <2>7
  <2> HIDE DEF TurnsTypeOK
  <2> QED
    BY <2>5, <2>8
<1>2. ASSUME NEW r \in Request, Leave(r) PROVE CopyHasTurn'
  BY <1>2 DEF Leave
<1>3. ASSUME NEW r \in Request, Load(r) \/ Brief(r) \/ RecordBegin(r) PROVE CopyHasTurn'
  BY <1>3 DEF Load, Brief, RecordBegin
<1>4. ASSUME NEW r \in Request, NEW t \in Thread, Accept(r, t) PROVE CopyHasTurn'
  BY <1>4 DEF Accept
<1>5. CASE UNCHANGED <<at, copy>>
  BY <1>5
<1> QED
  BY <1>1, <1>2, <1>3, <1>4, <1>5 DEF TurnsStep, turnVars, Drop, RecordCommit, CreateThread,
                                     DeleteTranscript, DeleteRow, DeleteAbort

\* Nobody but the only run of a thread writes its transcript, until it is deleted.
LEMMA CopyIsTranscriptStep ==
  ASSUME ~DeletesMayAbort, TurnsTypeOK, OneRequestPerThread, CopyIsTranscript, FreshThreads,
         [TurnsStep]_turnVars
  PROVE  CopyIsTranscript'
<1> USE TurnsAssumption DEF TurnsTypeOK, CopyIsTranscript, Intact
<1>1. ASSUME NEW r \in Request, Ask(r) \/ Brief(r) \/ Answer(r) PROVE CopyIsTranscript'
  <2>1. /\ copy'[r] = transcript'[on[r]]
        /\ \A t \in Thread \ {on[r]} : transcript'[t] = transcript[t]
        /\ UNCHANGED <<row, cleared, on>>
        /\ \A q \in Request \ {r} : copy'[q] = copy[q] /\ at'[q] = at[q]
    <3> on[r] \in Thread
      BY <1>1 DEF Ask, Brief, Answer
    <3>1. CASE Brief(r)
      BY <3>1 DEF Brief
    <3>2. ASSUME NEW role \in {"user", "assistant"}, Say(r, role), at' = [at EXCEPT ![r] = at'[r]]
          PROVE  /\ copy'[r] = transcript'[on[r]]
                 /\ \A t \in Thread \ {on[r]} : transcript'[t] = transcript[t]
                 /\ UNCHANGED <<row, cleared, on>>
                 /\ \A q \in Request \ {r} : copy'[q] = copy[q] /\ at'[q] = at[q]
      BY <3>2 DEF Say
    <3>3. CASE Ask(r)
      <4>1. Say(r, "user") /\ at' = [at EXCEPT ![r] = at'[r]]
        BY <3>3 DEF Ask
      <4> QED
        BY <4>1, <3>2
    <3>4. CASE Answer(r)
      <4>1. Say(r, "assistant") /\ at' = [at EXCEPT ![r] = at'[r]]
        BY <3>4 DEF Answer
      <4> QED
        BY <4>1, <3>2
    <3> QED
      BY <1>1, <3>1, <3>3, <3>4
  <2>2. \A q \in Request \ {r} : on[q] \in Thread => on[q] # on[r]
    BY DEF OneRequestPerThread
  <2> HIDE DEF TurnsTypeOK
  <2> QED
    BY <2>1, <2>2
<1>2. ASSUME NEW r \in Request, Leave(r) PROVE CopyIsTranscript'
  BY <1>2 DEF Leave
<1>3. ASSUME NEW r \in Request, Load(r) PROVE CopyIsTranscript'
  BY <1>3 DEF Load
<1>4. ASSUME NEW r \in Request, RecordBegin(r) PROVE CopyIsTranscript'
  BY <1>4 DEF RecordBegin
<1>5. ASSUME NEW r \in Request, NEW t \in Thread, Accept(r, t) PROVE CopyIsTranscript'
  BY <1>5 DEF Accept
<1>6. ASSUME NEW t \in Thread, CreateThread(t) PROVE CopyIsTranscript'
  BY <1>6 DEF CreateThread, FreshThreads
<1>7. ASSUME NEW t \in Thread, DeleteTranscript(t) PROVE CopyIsTranscript'
  BY <1>7 DEF DeleteTranscript
<1>8. ASSUME NEW t \in Thread, DeleteRow(t) PROVE CopyIsTranscript'
  BY <1>8 DEF DeleteRow
<1>9. CASE UNCHANGED turnVars
  BY <1>9 DEF turnVars
<1> QED
  BY <1>1, <1>2, <1>3, <1>4, <1>5, <1>6, <1>7, <1>8, <1>9
  DEF TurnsStep, Drop, RecordCommit, DeleteAbort

\* The transcript of a thread nobody deletes only grows.
Grows(t) ==
  /\ Len(transcript[t]) <= Len(transcript'[t])
  /\ \A i \in 1 .. Len(transcript[t]) : transcript'[t][i] = transcript[t][i]

\* The transcript of a thread nobody has begun to delete only gets longer
\* (the checkpoints of graph.py).
LEMMA IntactGrows ==
  ASSUME ~DeletesMayAbort, TurnsTypeOK, CopyIsTranscript, [TurnsStep]_turnVars,
         NEW t \in Thread, Intact(t)'
  PROVE  (Intact(t) \/ row[t] = "none") /\ Grows(t)
<1> USE DEF Intact
<1>1. Intact(t) \/ row[t] = "none"
  BY DEF TurnsTypeOK, TurnsStep, turnVars, Accept, Load, Ask, Say, Brief, Answer, RecordBegin, Drop, RecordCommit,
         Leave, CreateThread, DeleteTranscript, DeleteRow, DeleteAbort
<1>2. ASSUME NEW r \in Request, Ask(r) \/ Brief(r) \/ Answer(r), on[r] = t PROVE Grows(t)
  <2>1. Intact(t) /\ at[r] \notin {"idle", "accepted"}
    BY <1>2 DEF Ask, Brief, Answer, Say
  <2>2. copy[r] = transcript[t]
    BY <1>2, <2>1 DEF CopyIsTranscript
  <2>3. \/ transcript'[t] = copy[r]
        \/ \E role \in {"user", "assistant"} :
             transcript'[t] = Append(copy[r], [id |-> said[t] + 1, role |-> role])
    BY <1>2 DEF Ask, Brief, Answer, Say, TurnsTypeOK
  <2>4. \A role \in {"user", "assistant"} : [id |-> said[t] + 1, role |-> role] \in Message
    BY DEF TurnsTypeOK, Message
  <2>5. transcript[t] \in Seq(Message)
    BY DEF TurnsTypeOK
  <2> QED
    BY <2>2, <2>3, <2>4, <2>5 DEF Grows
<1>3. CASE transcript'[t] = transcript[t]
  <2>1. transcript[t] \in Seq(Message)
    BY DEF TurnsTypeOK
  <2>2. Len(transcript[t]) <= Len(transcript[t])
    BY <2>1
  <2> QED
    BY <1>1, <1>3, <2>2 DEF Grows
<1>4. \/ transcript'[t] = transcript[t]
      \/ \E r \in Request : (Ask(r) \/ Brief(r) \/ Answer(r)) /\ on[r] = t
  BY DEF TurnsTypeOK, TurnsStep, turnVars, Accept, Load, Ask, Say, Brief, Answer, RecordBegin, Drop, RecordCommit,
         Leave, CreateThread, DeleteTranscript, DeleteRow, DeleteAbort
<1> QED
  BY <1>1, <1>2, <1>3, <1>4

\* created_at is taken when the two messages of the turn are in the transcript.
LEMMA TurnsInTranscriptStep ==
  ASSUME ~DeletesMayAbort, TurnsTypeOK, TurnsInv, [TurnsStep]_turnVars
  PROVE  TurnsInTranscript'
<1> SUFFICES ASSUME NEW j \in Job, NEW t \in Thread, t = thread'[j], Intact(t)', NEW m \in turn'[j]
             PROVE  \E i \in 1 .. Len(transcript'[t]) : transcript'[t][i] = m
  BY DEF TurnsInTranscript, Intact
<1>1. (Intact(t) \/ row[t] = "none") /\ Grows(t)
  BY IntactGrows DEF TurnsInv
<1>3. CASE t = thread[j] /\ turn'[j] = turn[j]
  <2>1. Intact(t)
    BY <1>1, <1>3 DEF TurnsInv, FreshThreads
  <2>2. PICK i \in 1 .. Len(transcript[t]) : transcript[t][i] = m
    BY <1>3, <2>1 DEF TurnsInv, TurnsInTranscript
  <2>3. Len(transcript[t]) \in Nat /\ Len(transcript'[t]) \in Nat
    <3>1. TurnsTypeOK'
      BY TurnsTypeStep DEF TurnsInv
    <3> QED
      BY <3>1 DEF TurnsTypeOK
  <2>4. i \in 1 .. Len(transcript'[t])
    BY <1>1, <2>3 DEF Grows
  <2> QED
    BY <1>1, <2>2, <2>4 DEF Grows
<1>4. CASE t # thread[j] \/ turn'[j] # turn[j]
  <2>1. PICK r \in Request : RecordBegin(r) /\ j = clock + 1
    BY <1>4, JobsStable DEF TurnsInv
  <2>2. /\ turn'[j] = {copy[r][i] : i \in {Len(copy[r]) - 1, Len(copy[r])}}
        /\ thread'[j] = on[r]
        /\ UNCHANGED <<row, cleared, transcript>>
        /\ at[r] = "answered"
    BY <2>1 DEF RecordBegin, TurnsTypeOK
  <2>3. Intact(on[r]) /\ on[r] = t
    BY <2>2 DEF Intact
  <2>4. copy[r] = transcript[t]
    BY <2>2, <2>3 DEF TurnsInv, CopyIsTranscript
  <2>5. copy[r] \in Seq(Message) /\ Len(copy[r]) >= 2
    BY <2>2 DEF TurnsInv, CopyHasTurn, TurnsTypeOK
  <2>6. PICK i \in {Len(copy[r]) - 1, Len(copy[r])} : copy[r][i] = m
    BY <2>2
  <2>7. i \in 1 .. Len(copy[r])
    BY <2>5
  <2> QED
    BY <2>2, <2>4, <2>6, <2>7
<1> QED
  BY <1>3, <1>4

\* A job that is committed has a created_at, the commit itself included.
LEMMA CommittedHasBegun ==
  ASSUME TypeOK, JobsBegun, [Next]_vars, NEW j \in Job, status'[j] # "absent"
  PROVE  j <= clock
<1>1. \/ status'[j] = status[j]
      \/ \E r \in Request : RecordTurn(r) /\ j = record[r]
      \/ status[j] = "queued"
  BY StatusStep
<1>2. ASSUME NEW r \in Request, RecordTurn(r), j = record[r] PROVE j <= clock
  BY <1>2 DEF RecordTurn, RecordCommit, TypeOK, TurnsTypeOK, JobsBegun
<1> QED
  BY <1>1, <1>2 DEF JobsBegun

\* A job has a thread from the moment it has a created_at.
LEMMA JobsBegunStep ==
  ASSUME TypeOK, JobsBegun, [Next]_vars
  PROVE  JobsBegun'
<1> USE JobAssumption, TurnsAssumption
<1>1. TurnsTypeOK /\ [TurnsStep]_turnVars
  BY StepIsTurnsStep DEF TypeOK
<1>2. /\ clock' >= clock
      /\ \A j \in Job : j <= clock => thread'[j] = thread[j]
  BY <1>1, JobsStable
<1>3. \A j \in Job : (j <= clock') <=> (thread'[j] # NoThread)
  <2>1. ASSUME NEW r \in Request, RecordBegin(r)
        PROVE  /\ clock' = clock + 1 /\ thread'[clock + 1] \in Thread
               /\ \A j \in Job : j # clock + 1 => thread'[j] = thread[j]
    BY <1>1, <2>1 DEF RecordBegin, TurnsTypeOK
  <2>2. CASE \E r \in Request : RecordBegin(r)
    BY <1>1, <2>1, <2>2 DEF JobsBegun, TurnsTypeOK
  <2>3. CASE ~ \E r \in Request : RecordBegin(r)
    <3>1. UNCHANGED <<clock, thread>>
      BY <1>1, <2>3, TurnsFrame
    <3> QED
      BY <3>1 DEF JobsBegun
  <2> QED
    BY <2>2, <2>3
<1>4. \A j \in Job : status'[j] # "absent" => j <= clock
  BY CommittedHasBegun
<1>5. \A t \in Thread : row[t] = "deleted" => row'[t] = "deleted"
  BY <1>1, TurnsFrame DEF TurnsTypeOK, CreateThread, DeleteRow
<1>6. \A j \in Job : status'[j] = "withdrawn" => row'[thread'[j]] = "deleted"
  <2> SUFFICES ASSUME NEW j \in Job, status'[j] = "withdrawn" PROVE row'[thread'[j]] = "deleted"
    OBVIOUS
  <2>0. thread'[j] = thread[j] /\ thread[j] \in Thread
    <3>1. j <= clock
      BY <1>4
    <3>2. thread[j] # NoThread
      BY <3>1 DEF JobsBegun
    <3> QED
      BY <1>1, <1>2, <3>1, <3>2 DEF TurnsTypeOK
  <2>1. CASE status[j] = "withdrawn"
    BY <1>5, <2>0, <2>1 DEF JobsBegun
  <2>2. ASSUME NEW t \in Thread, DeleteThread(t), thread[j] = t PROVE row'[thread'[j]] = "deleted"
    BY <1>1, <2>0, <2>2 DEF DeleteThread, DeleteRow, TurnsTypeOK
  <2>3. ASSUME NEW r \in Request, RecordTurn(r), j = record[r] PROVE FALSE
    BY <2>3 DEF RecordTurn, Enqueue, TypeOK, QueueTypeOK
  <2> QED
    BY <2>1, <2>2, <2>3, StatusStep
<1>7. \A r \in Request : record'[r] # 0 => record'[r] <= clock' /\ thread'[record'[r]] = on'[r]
  <2> SUFFICES ASSUME NEW r \in Request, record'[r] # 0
               PROVE  record'[r] <= clock' /\ thread'[record'[r]] = on'[r]
    OBVIOUS
  <2>1. CASE RecordBegin(r)
    BY <1>1, <2>1 DEF RecordBegin, TurnsTypeOK
  <2>2. CASE ~RecordBegin(r)
    <3>1. record'[r] = record[r] /\ on'[r] = on[r]
      <4>1. ASSUME NEW q \in Request, RecordBegin(q) PROVE record'[r] = record[r] /\ on' = on
        <5>1. q # r
          BY <2>2, <4>1
        <5> QED
          BY <1>1, <4>1, <5>1 DEF RecordBegin, TurnsTypeOK
      <4>2. ASSUME NEW q \in Request, Leave(q) PROVE record'[r] = record[r] /\ on'[r] = on[r]
        BY <1>1, <4>2 DEF Leave, TurnsTypeOK
      <4>3. ASSUME NEW q \in Request, NEW t \in Thread, Accept(q, t) PROVE record'[r] = record[r] /\ on'[r] = on[r]
        BY <1>1, <4>3 DEF Accept, TurnsTypeOK
      <4> QED
        BY <1>1, <4>1, <4>2, <4>3, TurnsFrame
    <3>2. record[r] \in Job /\ record[r] <= clock /\ thread[record[r]] = on[r]
      BY <1>1, <3>1 DEF JobsBegun, TurnsTypeOK
    <3>3. clock \in Nat /\ clock' \in Nat
      BY <1>1, TurnsFrame DEF TurnsTypeOK, RecordBegin
    <3>4. record[r] <= clock'
      <4>1. record[r] \in Nat /\ record[r] <= clock
        BY <3>2
      <4>2. clock <= clock'
        BY <1>2, <3>3
      <4> QED
        BY <3>3, <4>1, <4>2
    <3>5. thread'[record[r]] = thread[record[r]]
      BY <1>2, <3>2
    <3> QED
      BY <3>1, <3>2, <3>4, <3>5
  <2> QED
    BY <2>1, <2>2
<1>8. \A j \in Job : status'[j] # "absent" => j <= clock'
  <2>1. clock \in Nat /\ clock' \in Nat
    BY <1>1, TurnsFrame DEF TurnsTypeOK, RecordBegin
  <2>2. clock <= clock'
    BY <1>2, <2>1
  <2>3. ASSUME NEW j \in Job, status'[j] # "absent" PROVE j <= clock'
    <3>1. j \in Nat /\ j <= clock
      BY <1>4, <2>3
    <3> QED
      BY <2>1, <2>2, <3>1
  <2> QED
    BY <2>3
<1> QED
  BY <1>3, <1>6, <1>7, <1>8 DEF JobsBegun

\* Nothing refers to a thread that does not exist yet.
LEMMA FreshThreadsStep ==
  ASSUME TypeOK, FreshThreads, [Next]_vars
  PROVE  FreshThreads'
<1> SUFFICES ASSUME NEW t \in Thread, row'[t] = "none"
             PROVE  /\ position'[t] = 0
                    /\ \A j \in Job : thread'[j] # t
                    /\ \A r \in Request : on'[r] # t
  BY DEF FreshThreads
<1>1. TurnsTypeOK /\ [TurnsStep]_turnVars
  BY StepIsTurnsStep DEF TypeOK
<1>2. row[t] = "none"
  BY <1>1, TurnsFrame DEF TurnsTypeOK, CreateThread, DeleteRow
<1>3. position'[t] = 0
  BY <1>2, PositionStep DEF FreshThreads
<1>4. \A j \in Job : thread'[j] # t
  BY <1>1, <1>2, TurnsFrame DEF FreshThreads, TurnsTypeOK, RecordBegin
<1>5. \A r \in Request : on'[r] # t
  BY <1>1, <1>2, TurnsFrame, TurnsAssumption DEF FreshThreads, TurnsTypeOK, Accept, Leave
<1> QED
  BY <1>3, <1>4, <1>5

\* Threads, requests and jobs stay consistent in every step of the system.
LEMMA TurnsInvStep ==
  ASSUME Discipline, TypeOK, TurnsInv, [Next]_vars
  PROVE  TurnsInv'
<1>1. TurnsTypeOK /\ [TurnsStep]_turnVars
  BY StepIsTurnsStep DEF TypeOK
<1> QED
  BY <1>1, OneRequestStep, CopyIsTranscriptStep, CopyHasTurnStep, JobsBegunStep, FreshThreadsStep,
     TurnsInTranscriptStep
  DEF Discipline, TurnsInv

-----------------------------------------------------------------------------
\* The job of a worker is committed, so it has a thread and a created_at.
LEMMA HeldJob ==
  ASSUME TypeOK, JobsBegun, HeldCommitted, NEW w \in Worker, NEW j \in batch[w]
  PROVE  j \in Job /\ j <= clock /\ thread[j] \in Thread
  BY DEF TypeOK, QueueTypeOK, TurnsTypeOK, JobsBegun, HeldCommitted

\* A step of consolidate(job) is for the job that the worker is busy with.
LEMMA ConsolidateStepOf ==
  ASSUME NEW w \in Worker, Consolidate(w)
  PROVE  \E j \in batch[w] :
           /\ pc[w] = "working" /\ Current(w, j)
           /\ \/ ReadPosition(w, j) \/ ReadMessages(w, j) \/ Extract(w, j)
              \/ ReadMarks(w, j) \/ WriteMarks(w, j)
  BY DEF Consolidate

\* Every step of the system keeps the types.
LEMMA TypeOKStep ==
  ASSUME TypeOK, QueueInv, CopyHasTurn, JobsBegun, HeldCommitted, [Next]_vars
  PROVE  TypeOK'
<1> DEFINE MarksTypeOK ==
      /\ watermark \in [Thread -> Job \cup {0}]
      /\ position \in [Thread -> Nat]
      /\ extracted \in [Thread -> SUBSET Message]
      /\ step \in [Worker -> ConsolidateStep]
      /\ since \in [Worker -> Nat]
      /\ window \in [Worker -> Seq(Message)]
      /\ rowRead \in [Worker -> Marks]
<1>1. QueueTypeOK'
  BY StepIsQueueStep, QueueStepInv DEF QueueInv
<1>2. TurnsTypeOK'
  BY StepIsTurnsStep, TurnsTypeStep DEF TypeOK
<1>3. MarksTypeOK
  BY DEF TypeOK
<1>4. ASSUME NEW w \in Worker, ForgetLocals(w), UNCHANGED markVars PROVE MarksTypeOK'
  BY <1>3, <1>4 DEF ForgetLocals, markVars, ConsolidateStep, Marks
<1>5. ASSUME NEW w \in Worker, NEW j \in batch[w], ReadPosition(w, j) PROVE MarksTypeOK'
  <2>1. thread[j] \in Thread
    BY HeldJob
  <2>2. CASE Returns(w)
    BY <1>4, <1>5, <2>2 DEF ReadPosition, Returns
  <2>3. CASE ~Returns(w)
    BY <1>3, <1>5, <2>1, <2>3 DEF ReadPosition, markVars, ConsolidateStep
  <2> QED
    BY <2>2, <2>3
<1>6. ASSUME NEW w \in Worker, NEW j \in batch[w], ReadMessages(w, j) PROVE MarksTypeOK'
  <2>1. transcript[thread[j]] \in Seq(Message)
    BY HeldJob DEF TypeOK, TurnsTypeOK
  <2> QED
    BY <1>3, <1>6, <2>1 DEF ReadMessages, markVars, ConsolidateStep
<1>7. ASSUME NEW w \in Worker, NEW j \in batch[w], Extract(w, j) PROVE MarksTypeOK'
  <2>1. {window[w][i] : i \in since[w] + 1 .. Len(window[w])} \in SUBSET Message
    BY <1>3
  <2> QED
    BY <1>3, <1>7, <2>1 DEF Extract, ConsolidateStep
<1>8. ASSUME NEW w \in Worker, NEW j \in batch[w], ReadMarks(w, j) PROVE MarksTypeOK'
  <2>1. thread[j] \in Thread
    BY HeldJob
  <2>2. [at |-> watermark[thread[j]], count |-> position[thread[j]]] \in Marks
    BY <1>3, <2>1 DEF Marks
  <2>3. CASE Returns(w)
    BY <1>4, <1>8, <2>3 DEF ReadMarks, Returns
  <2>4. CASE ~Returns(w)
    <3>1. /\ rowRead' = [rowRead EXCEPT ![w] = [at |-> watermark[thread[j]], count |-> position[thread[j]]]]
          /\ step' = [step EXCEPT ![w] = "write"]
          /\ UNCHANGED <<since, window, markVars>>
      BY <1>8, <2>4 DEF ReadMarks
    <3>2. rowRead' \in [Worker -> Marks] /\ step' \in [Worker -> ConsolidateStep]
      BY <1>3, <2>2, <3>1 DEF ConsolidateStep
    <3> QED
      BY <1>3, <3>1, <3>2 DEF markVars
  <2> QED
    BY <2>3, <2>4
<1>9. ASSUME NEW w \in Worker, NEW j \in batch[w], WriteMarks(w, j) PROVE MarksTypeOK'
  <2>1. j \in Job /\ Len(window[w]) \in Nat
    BY <1>3, HeldJob
  <2>2. watermark' \in [Thread -> Job \cup {0}] /\ position' \in [Thread -> Nat]
    BY <1>3, <1>9, <2>1 DEF WriteMarks
  <2>3. ForgetLocals(w) /\ UNCHANGED extracted
    BY <1>9 DEF WriteMarks, Returns
  <2>4. /\ step' \in [Worker -> ConsolidateStep] /\ since' \in [Worker -> Nat]
        /\ window' \in [Worker -> Seq(Message)] /\ rowRead' \in [Worker -> Marks]
    BY <1>3, <2>3 DEF ForgetLocals, ConsolidateStep, Marks
  <2> QED
    BY <1>3, <2>2, <2>3, <2>4
<1>10. ASSUME UNCHANGED <<markVars, stepVars>> PROVE MarksTypeOK'
  BY <1>3, <1>10 DEF markVars, stepVars
<1>11. ASSUME NEW w \in Worker, Consolidate(w) \/ ConsolidateFails(w) \/ QueueStep(w) \/ CrashWorker(w)
       PROVE  MarksTypeOK'
  <2> HIDE DEF MarksTypeOK
  <2> QED
    BY <1>4, <1>5, <1>6, <1>7, <1>8, <1>9, <1>10, <1>11, ConsolidateStepOf
    DEF ConsolidateFails, Raises, QueueStep, CrashWorker
<1>12. MarksTypeOK'
  <2> HIDE DEF MarksTypeOK
  <2> QED
    BY <1>10, <1>11 DEF Next, vars, ExpireLease, RequestStep, RecordTurn, ThreadStep, DeleteThread
<1> QED
  BY <1>1, <1>2, <1>12 DEF TypeOK

-----------------------------------------------------------------------------
\* What a worker knows stays true while its thread grows and is extracted.
LEMMA CoveredStable ==
  ASSUME NEW j \in Job, thread'[j] = thread[j],
         extracted[thread[j]] \subseteq extracted'[thread[j]],
         \A k \in Job : k <= j => thread'[k] = thread[k] /\ turn'[k] = turn[k],
         Covered(j)
  PROVE  Covered(j)'
  BY DEF Covered

\* A worker goes on knowing what it knows about its job while others act: turns
\* are added at the end, and more messages are extracted (AgentService.consolidate).
LEMMA KnowsStable ==
  ASSUME TypeOK, TypeOK',
         NEW w \in Worker, NEW j \in Job, thread[j] \in Thread, thread'[j] = thread[j],
         Grows(thread[j]), extracted[thread[j]] \subseteq extracted'[thread[j]],
         \A k \in Job : k <= j => thread'[k] = thread[k] /\ turn'[k] = turn[k],
         step'[w] = step[w], since'[w] = since[w], window'[w] = window[w], pc'[w] = pc[w],
         Knows(w, j)
  PROVE  Knows(w, j)'
<1> DEFINE t == thread[j]
<1>1. /\ Len(transcript[t]) \in Nat /\ Len(transcript'[t]) \in Nat
      /\ Len(window[w]) \in Nat /\ since[w] \in Nat
  BY DEF TypeOK, TurnsTypeOK
<1>2. SinceCovered(w, j) => SinceCovered(w, j)'
  BY <1>1 DEF SinceCovered, Grows
<1>3. WindowIsPrefix(w, j) => WindowIsPrefix(w, j)'
  <2>1. ASSUME WindowIsPrefix(w, j), NEW i \in 1 .. Len(window[w])
        PROVE  window[w][i] = transcript'[t][i]
    <3>1. i \in 1 .. Len(transcript[t]) /\ window[w][i] = transcript[t][i]
      BY <1>1, <2>1 DEF WindowIsPrefix
    <3> QED
      BY <3>1 DEF Grows
  <2>2. WindowIsPrefix(w, j) => Len(window[w]) <= Len(transcript'[t])
    BY <1>1 DEF WindowIsPrefix, Grows
  <2> QED
    BY <2>1, <2>2 DEF WindowIsPrefix
<1>4. WindowHasTurns(w, j) => WindowHasTurns(w, j)'
  BY DEF WindowHasTurns
<1>5. WindowExtracted(w, j) => WindowExtracted(w, j)'
  BY DEF WindowExtracted
<1>6. Covered(j) => Covered(j)'
  BY CoveredStable
<1> QED
  BY <1>2, <1>3, <1>4, <1>5, <1>6 DEF Knows

-----------------------------------------------------------------------------
\* Requests and deletions leave true what the marks and the workers stand for.
LEMMA TurnsKeepMarks ==
  ASSUME Discipline, Inv, TypeOK', [TurnsStep]_turnVars, UNCHANGED <<pc, batch, markVars, stepVars>>,
         \A j \in Job : status[j] # "absent" => status'[j] # "absent",
         \A j \in Job : status'[j] = "completed" => status[j] = "completed"
  PROVE  MarksInv'
<1> USE JobAssumption
<1>0. TypeOK /\ TurnsInv /\ MarksInv /\ TurnsTypeOK
  BY DEF Inv, TypeOK
<1>1. \A t \in Thread : Intact(t)' => Grows(t) /\ (Intact(t) \/ row[t] = "none")
  BY <1>0, IntactGrows DEF Discipline, TurnsInv
<1>2. /\ clock' >= clock
      /\ \A j \in Job : j <= clock => thread'[j] = thread[j] /\ turn'[j] = turn[j]
  BY <1>0, JobsStable DEF TurnsInv
<1>3. /\ UNCHANGED <<watermark, position, extracted>>
      /\ UNCHANGED <<step, since, window, pc, batch>>
  BY DEF markVars, stepVars
<1>4. clock \in Nat /\ clock' \in Nat
  BY <1>0 DEF TypeOK, TurnsTypeOK
<1>5. \A j, k \in Job : j <= clock /\ k <= j => k <= clock
  BY <1>4
<1>6. ASSUME NEW j \in Job, j <= clock, Intact(thread[j])'
      PROVE  thread'[j] = thread[j] /\ thread[j] \in Thread /\ Intact(thread[j]) /\ Grows(thread[j])
  <2>1. thread'[j] = thread[j]
    BY <1>2, <1>6
  <2>2. PICK t \in Thread : t = thread[j] /\ Intact(t)'
    BY <1>6, <2>1 DEF Intact
  <2>3. Grows(t) /\ (Intact(t) \/ row[t] = "none")
    BY <1>1, <2>2
  <2> QED
    BY <1>0, <2>1, <2>2, <2>3 DEF TurnsInv, FreshThreads
<1>7. NoMessageSkipped'
  <2> SUFFICES ASSUME NEW t \in Thread, Intact(t)'
               PROVE  /\ position'[t] <= Len(transcript'[t])
                      /\ \A i \in 1 .. position'[t] : transcript'[t][i] \in extracted'[t]
    BY DEF NoMessageSkipped
  <2>1. position[t] \in Nat /\ Len(transcript[t]) \in Nat /\ Len(transcript'[t]) \in Nat
    BY <1>0 DEF TypeOK, TurnsTypeOK
  <2>2. CASE row[t] = "none"
    BY <1>0, <1>3, <2>1, <2>2 DEF TurnsInv, FreshThreads
  <2>3. CASE Intact(t)
    <3>1. /\ position[t] <= Len(transcript[t])
          /\ \A i \in 1 .. position[t] : transcript[t][i] \in extracted[t]
      BY <1>0, <2>3 DEF MarksInv, NoMessageSkipped
    <3>2. Grows(t)
      BY <1>1
    <3> QED
      BY <1>3, <2>1, <3>1, <3>2 DEF Grows
  <2> QED
    BY <1>1, <2>2, <2>3
<1>8. WatermarkCovered'
  <2> SUFFICES ASSUME NEW t \in Thread
               PROVE  /\ watermark'[t] <= clock'
                      /\ Intact(t)' => \A k \in Job : k <= watermark'[t] /\ thread'[k] = t => turn'[k] \subseteq extracted'[t]
    BY DEF WatermarkCovered
  <2>0. watermark[t] \in Job \cup {0}
    BY <1>0 DEF TypeOK
  <2>1. watermark[t] \in Nat /\ watermark[t] <= clock
    <3>1. watermark[t] \in Nat
      <4>1. ASSUME NEW n \in Job \cup {0} PROVE n \in Nat
        OBVIOUS
      <4> QED
        BY <2>0, <4>1
    <3>2. watermark[t] <= clock
      BY <1>0 DEF MarksInv, WatermarkCovered
    <3> QED
      BY <3>1, <3>2
  <2>2. watermark'[t] <= clock'
    BY <1>2, <1>3, <1>4, <2>1
  <2>3. ASSUME Intact(t)', NEW k \in Job, k <= watermark[t], thread'[k] = t
        PROVE  turn'[k] \subseteq extracted[t]
    <3>0. k \in Nat
      OBVIOUS
    <3>1. k <= clock
      BY <1>4, <2>1, <2>3, <3>0
    <3>2. thread[k] = t /\ turn'[k] = turn[k] /\ Intact(t)
      BY <1>2, <1>6, <2>3, <3>1
    <3> QED
      BY <1>0, <2>3, <3>2 DEF MarksInv, WatermarkCovered
  <2> QED
    BY <1>3, <2>2, <2>3
<1>9. CompletedCovered'
  <2> SUFFICES ASSUME NEW j \in Job, status'[j] = "completed", Intact(thread[j])' PROVE Covered(j)'
    BY DEF CompletedCovered
  <2>1. status[j] = "completed" /\ j <= clock
    BY <1>0 DEF TurnsInv, JobsBegun
  <2>2. thread'[j] = thread[j] /\ Covered(j)
    BY <1>0, <1>6, <2>1 DEF MarksInv, CompletedCovered
  <2> QED
    BY <1>2, <1>3, <1>5, <2>1, <2>2, CoveredStable
<1>10. HeldCommitted'
  BY <1>0, <1>3 DEF MarksInv, HeldCommitted, TypeOK, QueueTypeOK
<1>11. StepsInside'
  BY <1>0, <1>3 DEF MarksInv, StepsInside
<1>12. WorkersKnow'
  <2> SUFFICES ASSUME NEW w \in Worker, NEW j \in batch[w], Current(w, j), Intact(thread[j])'
               PROVE  Knows(w, j)'
    BY <1>3 DEF WorkersKnow, Current
  <2>1. j \in Job /\ j <= clock
    BY <1>0, HeldJob DEF TurnsInv, MarksInv
  <2>2. thread'[j] = thread[j] /\ thread[j] \in Thread /\ Intact(thread[j]) /\ Grows(thread[j])
    BY <1>6, <2>1
  <2>3. Knows(w, j)
    BY <1>0, <2>2 DEF MarksInv, WorkersKnow
  <2>4. \A k \in Job : k <= j => thread'[k] = thread[k] /\ turn'[k] = turn[k]
    BY <1>2, <1>5, <2>1
  <2> QED
    BY <1>0, <1>3, <2>1, <2>2, <2>3, <2>4, KnowsStable
<1> QED
  BY <1>7, <1>8, <1>9, <1>10, <1>11, <1>12 DEF MarksInv

-----------------------------------------------------------------------------
\* What one worker does, the others go on knowing.
LEMMA OthersKnow ==
  ASSUME Inv, TypeOK', UNCHANGED turnVars, NEW w \in Worker,
         \A t \in Thread : extracted[t] \subseteq extracted'[t],
         \A v \in Worker \ {w} : /\ pc'[v] = pc[v] /\ batch'[v] = batch[v] /\ step'[v] = step[v]
                                 /\ since'[v] = since[v] /\ window'[v] = window[v],
         NEW v \in Worker \ {w}, NEW j \in batch'[v], Current(v, j)', Intact(thread[j])
  PROVE  Knows(v, j)'
<1>1. j \in batch[v] /\ Current(v, j) /\ j \in Job
  BY DEF Current, Inv, TypeOK, QueueTypeOK
<1>2. Knows(v, j) /\ thread[j] \in Thread
  BY <1>1 DEF Inv, MarksInv, WorkersKnow, Intact
<1>3. UNCHANGED <<thread, turn, transcript>>
  BY DEF turnVars
<1>4. Grows(thread[j])
  <2>1. Len(transcript[thread[j]]) \in Nat
    BY <1>2 DEF Inv, TypeOK, TurnsTypeOK
  <2> QED
    BY <1>3, <2>1 DEF Grows
<1> QED
  BY <1>1, <1>2, <1>3, <1>4, KnowsStable DEF Inv

\* A step of worker w that leaves the marks and the transcripts alone only has to
\* keep what w itself knows, and to complete only jobs that are covered.
LEMMA WorkerKeepsMarks ==
  ASSUME Inv, TypeOK', UNCHANGED <<turnVars, markVars>>, NEW w \in Worker,
         \A v \in Worker \ {w} : /\ pc'[v] = pc[v] /\ batch'[v] = batch[v] /\ step'[v] = step[v]
                                 /\ since'[v] = since[v] /\ window'[v] = window[v],
         \A j \in batch'[w] : status'[j] # "absent",
         \A j \in Job : status[j] # "absent" => status'[j] # "absent",
         \A j \in Job : status'[j] = "completed" /\ status[j] # "completed" /\ Intact(thread[j]) => Covered(j),
         step'[w] # "position" => pc'[w] = "working",
         \A j \in batch'[w] : Current(w, j)' /\ Intact(thread[j]) => Knows(w, j)'
  PROVE  MarksInv'
<1>0. TypeOK /\ TurnsInv /\ MarksInv
  BY DEF Inv
<1>1. /\ UNCHANGED <<watermark, position, extracted>>
      /\ UNCHANGED <<row, cleared, transcript, clock, thread, turn>>
  BY DEF markVars, turnVars
<1>2. \A t : Intact(t)' <=> Intact(t)
  BY <1>1 DEF Intact
<1>3. NoMessageSkipped' /\ WatermarkCovered'
  BY <1>0, <1>1 DEF MarksInv, NoMessageSkipped, WatermarkCovered, Intact
<1>4. CompletedCovered'
  BY <1>0, <1>1 DEF MarksInv, CompletedCovered, Covered, Intact
<1>5. HeldCommitted'
  BY <1>0 DEF MarksInv, HeldCommitted, TypeOK, QueueTypeOK
<1>6. StepsInside'
  BY <1>0 DEF MarksInv, StepsInside
<1>7. ASSUME NEW v \in Worker, NEW j \in batch'[v], Current(v, j)', Intact(thread[j])'
      PROVE  Knows(v, j)'
  <2>1. Intact(thread[j])
    BY <1>1, <1>7 DEF Intact
  <2>2. CASE v = w
    BY <1>7, <2>1, <2>2
  <2>3. CASE v # w
    <3>1. \A t \in Thread : extracted[t] \subseteq extracted'[t]
      BY <1>1
    <3> QED
      BY <1>7, <2>1, <2>3, <3>1, OthersKnow
  <2> QED
    BY <2>2, <2>3
<1>8. WorkersKnow'
  BY <1>7 DEF WorkersKnow
<1> QED
  BY <1>3, <1>4, <1>5, <1>6, <1>8 DEF MarksInv

\* At the head of consolidate(job), and outside of it, a worker knows nothing yet.
LEMMA KnowsNothing ==
  ASSUME NEW w, NEW j, step'[w] = "position", pc'[w] # "completing"
  PROVE  Knows(w, j)'
  BY DEF Knows

\* A step of the queue completes a job only when its turns are covered
\* (run_once, complete).
LEMMA QueueKeepsMarks ==
  ASSUME Inv, TypeOK', NEW w \in Worker, QueueStep(w)
  PROVE  MarksInv'
<1>1. TypeOK /\ MarksInv /\ QueueTypeOK
  BY DEF Inv, TypeOK
<1>2. UNCHANGED <<turnVars, markVars>> /\ UNCHANGED <<step, since, window>>
  BY DEF QueueStep, stepVars
<1>3. \A v \in Worker \ {w} : pc'[v] = pc[v] /\ batch'[v] = batch[v]
  BY <1>1 DEF QueueStep, ClaimSelect, ClaimCommit, CloseStep, Complete, FailRead, FailWrite, CloseJob,
              Abandon, Restart, QueueTypeOK
<1>4. pc[w] # "working" /\ pc'[w] # "completing"
  BY <1>1 DEF QueueStep, ClaimSelect, ClaimCommit, CloseStep, Complete, FailRead, FailWrite, CloseJob,
              Abandon, Restart, QueueTypeOK
<1>5. step'[w] = "position"
  BY <1>1, <1>2, <1>4 DEF MarksInv, StepsInside
<1>6. \A j \in Job : status'[j] # status[j] =>
        status'[j] = "completed" /\ j \in batch[w] /\ Current(w, j) /\ pc[w] = "completing"
  BY <1>1 DEF QueueStep, ClaimSelect, ClaimCommit, CloseStep, Complete, FailRead, FailWrite,
              Abandon, Restart, QueueTypeOK
<1>7. \A j \in batch'[w] : j \in batch[w] \/ status[j] = "queued"
  BY <1>1 DEF QueueStep, ClaimSelect, Claimable, ClaimCommit, CloseStep, Complete, FailRead, FailWrite, CloseJob,
              Abandon, Restart, QueueTypeOK
<1>8. \A j \in batch'[w] : status'[j] # "absent"
  <2>1. \A j \in batch'[w] : j \in Job
    BY DEF TypeOK, QueueTypeOK
  <2> QED
    BY <1>1, <1>6, <1>7, <2>1 DEF MarksInv, HeldCommitted
<1>9. \A j \in Job : status'[j] = "completed" /\ status[j] # "completed" /\ Intact(thread[j]) => Covered(j)
  BY <1>1, <1>6 DEF MarksInv, WorkersKnow, Knows
<1>10. \A j \in batch'[w] : Knows(w, j)'
  BY <1>4, <1>5, KnowsNothing
<1>11. \A j \in Job : status[j] # "absent" => status'[j] # "absent"
  BY <1>6
<1> QED
  BY <1>2, <1>3, <1>5, <1>8, <1>9, <1>10, <1>11, WorkerKeepsMarks

\* A worker that fails or crashes forgets what it read, and both marks stand
\* (run_once, the end of the process).
LEMMA ForgetKeepsMarks ==
  ASSUME Inv, TypeOK', NEW w \in Worker, ConsolidateFails(w) \/ CrashWorker(w)
  PROVE  MarksInv'
<1>1. TypeOK /\ MarksInv /\ QueueTypeOK
  BY DEF Inv, TypeOK
<1>2. /\ ForgetLocals(w) /\ UNCHANGED <<turnVars, markVars>> /\ UNCHANGED status
      /\ \E p \in {"failing", "down"} : pc' = [pc EXCEPT ![w] = p]
      /\ batch' = batch \/ batch' = [batch EXCEPT ![w] = {}]
  BY DEF ConsolidateFails, Raises, Raise, CrashWorker, Crash
<1>3. \A v \in Worker \ {w} : /\ pc'[v] = pc[v] /\ batch'[v] = batch[v] /\ step'[v] = step[v]
                              /\ since'[v] = since[v] /\ window'[v] = window[v]
  BY <1>1, <1>2 DEF ForgetLocals, TypeOK, QueueTypeOK
<1>4. step'[w] = "position" /\ pc'[w] # "completing"
  BY <1>1, <1>2 DEF ForgetLocals, TypeOK, QueueTypeOK
<1>5. \A j \in batch'[w] : j \in batch[w]
  BY <1>1, <1>2 DEF QueueTypeOK
<1>6. \A j \in batch'[w] : status'[j] # "absent"
  BY <1>1, <1>2, <1>5 DEF MarksInv, HeldCommitted
<1>7. \A j \in batch'[w] : Knows(w, j)'
  BY <1>4, KnowsNothing
<1>8. \A j \in Job : (status[j] # "absent" => status'[j] # "absent") /\ status'[j] = status[j]
  BY <1>2
<1> QED
  BY <1>2, <1>3, <1>4, <1>6, <1>7, <1>8, WorkerKeepsMarks

-----------------------------------------------------------------------------
\* There is one job a worker is busy with, since created_at orders them all.
LEMMA CurrentUnique ==
  ASSUME TypeOK, NEW w \in Worker, NEW j \in batch[w], Current(w, j), NEW k \in batch[w], Current(w, k)
  PROVE  j = k
<1>1. j \in Nat /\ k \in Nat
  BY JobAssumption DEF TypeOK, QueueTypeOK
<1>2. j <= k /\ k <= j
  BY DEF Current
<1> QED
  BY <1>1, <1>2

\* What the steps of consolidate(job) have in common: the worker stays at work on
\* the same batch or is about to complete, and neither rows of jobs nor threads change.
LEMMA AtWork ==
  ASSUME TypeOK, NEW w \in Worker, pc[w] = "working", Returns(w) \/ StaysIn(w)
  PROVE  /\ UNCHANGED <<status, batch>>
         /\ \A v \in Worker \ {w} : pc'[v] = pc[v]
         /\ pc'[w] \in {"working", "completing"}
         /\ Returns(w) => pc'[w] = "completing" /\ step'[w] = "position"
                          /\ \A v \in Worker \ {w} : step'[v] = step[v] /\ since'[v] = since[v] /\ window'[v] = window[v]
         /\ StaysIn(w) => pc'[w] = "working"
<1> USE DEF TypeOK, QueueTypeOK
<1>1. CASE Returns(w)
  <2>1. ~StaysIn(w)
    BY <1>1 DEF Returns, Return, StaysIn, queueVars
  <2> QED
    BY <1>1, <2>1 DEF Returns, Return, ForgetLocals
<1>2. CASE StaysIn(w)
  <2>1. ~Returns(w)
    BY <1>2 DEF Returns, Return, StaysIn, queueVars
  <2> QED
    BY <1>2, <2>1 DEF StaysIn, queueVars
<1> QED
  BY <1>1, <1>2

\* The steps that only read: what the worker has learnt is all that is to show.
LEMMA ReadKeepsMarks ==
  ASSUME Inv, TypeOK', UNCHANGED <<turnVars, markVars>>, NEW w \in Worker, pc[w] = "working",
         NEW j \in batch[w], Current(w, j), Returns(w) \/ StaysIn(w),
         \A v \in Worker \ {w} : step'[v] = step[v] /\ since'[v] = since[v] /\ window'[v] = window[v],
         step'[w] # "position" => pc'[w] = "working",
         Intact(thread[j]) => Knows(w, j)'
  PROVE  MarksInv'
<1>1. TypeOK /\ MarksInv
  BY DEF Inv
<1>2. /\ UNCHANGED <<status, batch>>
      /\ \A v \in Worker \ {w} : pc'[v] = pc[v]
  BY <1>1, AtWork
<1>3. \A k \in batch'[w] : Current(w, k)' /\ Intact(thread[k]) => Knows(w, k)'
  <2> SUFFICES ASSUME NEW k \in batch'[w], Current(w, k)', Intact(thread[k]) PROVE Knows(w, k)'
    OBVIOUS
  <2>1. k \in batch[w] /\ Current(w, k)
    BY <1>2 DEF Current
  <2>2. k = j
    BY <1>1, <2>1, CurrentUnique
  <2> QED
    BY <2>2
<1>4. \A k \in batch'[w] : status'[k] # "absent"
  BY <1>1, <1>2 DEF MarksInv, HeldCommitted
<1>5. /\ \A k \in Job : status[k] # "absent" => status'[k] # "absent"
      /\ \A k \in Job : status'[k] = "completed" /\ status[k] # "completed" /\ Intact(thread[k]) => Covered(k)
  BY <1>2
<1>6. \A v \in Worker \ {w} : /\ pc'[v] = pc[v] /\ batch'[v] = batch[v] /\ step'[v] = step[v]
                              /\ since'[v] = since[v] /\ window'[v] = window[v]
  BY <1>2
<1> QED
  BY <1>3, <1>4, <1>5, <1>6, WorkerKeepsMarks

\* A job at or under the watermark is covered; the position is where the
\* extracted part of the transcript ends.
LEMMA ReadPositionKeepsMarks ==
  ASSUME Inv, TypeOK', NEW w \in Worker, pc[w] = "working", NEW j \in batch[w], Current(w, j),
         ReadPosition(w, j)
  PROVE  MarksInv'
<1>1. TypeOK /\ TurnsInv /\ MarksInv
  BY DEF Inv
<1>2. UNCHANGED <<turnVars, markVars>> /\ (Returns(w) \/ StaysIn(w))
  BY DEF ReadPosition
<1>3. UNCHANGED <<row, cleared, transcript, clock, thread, turn>> /\ UNCHANGED <<watermark, position, extracted>>
  BY <1>2 DEF turnVars, markVars
<1>4. j \in Job /\ j <= clock /\ thread[j] \in Thread
  BY <1>1, HeldJob DEF TurnsInv, MarksInv
<1>5. ASSUME Returns(w), row[thread[j]] # "live" \/ watermark[thread[j]] >= j, Intact(thread[j])
      PROVE  Knows(w, j)'
  <2>1. watermark[thread[j]] >= j
    BY <1>5 DEF Intact
  <2>2. watermark[thread[j]] \in Nat /\ j \in Nat /\ \A k \in Job : k \in Nat
    <3>1. watermark[thread[j]] \in Job \cup {0}
      BY <1>1, <1>4 DEF TypeOK
    <3>2. \A k \in Job \cup {0} : k \in Nat
      BY JobAssumption
    <3> QED
      BY <1>4, <3>1, <3>2
  <2>3. \A k \in Job : k <= j => k <= watermark[thread[j]]
    BY <2>1, <2>2
  <2>4. Covered(j)
    BY <1>1, <1>4, <1>5, <2>3 DEF MarksInv, WatermarkCovered, Covered
  <2>5. Covered(j)'
    BY <1>3, <2>4 DEF Covered
  <2>6. step'[w] = "position"
    BY <1>1, <1>5, AtWork
  <2> QED
    BY <2>5, <2>6 DEF Knows
<1>6. ASSUME StaysIn(w), since' = [since EXCEPT ![w] = position[thread[j]]],
             step' = [step EXCEPT ![w] = "messages"], Intact(thread[j])
      PROVE  Knows(w, j)'
  <2>1. since'[w] = position[thread[j]] /\ step'[w] = "messages" /\ pc'[w] = "working"
    BY <1>1, <1>6, AtWork DEF TypeOK
  <2>2. SinceCovered(w, j)'
    BY <1>1, <1>3, <1>4, <1>6, <2>1 DEF MarksInv, NoMessageSkipped, SinceCovered
  <2> QED
    BY <2>1, <2>2 DEF Knows
<1>7. Intact(thread[j]) => Knows(w, j)'
  BY <1>5, <1>6 DEF ReadPosition
<1>8. /\ \A v \in Worker \ {w} : step'[v] = step[v] /\ since'[v] = since[v] /\ window'[v] = window[v]
      /\ step'[w] # "position" => pc'[w] = "working"
  <2>1. CASE Returns(w)
    BY <1>1, <2>1, AtWork
  <2>2. CASE ~Returns(w)
    BY <1>1, <2>2, AtWork DEF ReadPosition, TypeOK
  <2> QED
    BY <2>1, <2>2
<1> QED
  BY <1>2, <1>7, <1>8, ReadKeepsMarks

\* What is read of the transcript holds the turns of all jobs up to this one.
LEMMA ReadMessagesKeepsMarks ==
  ASSUME Inv, TypeOK', NEW w \in Worker, pc[w] = "working", NEW j \in batch[w], Current(w, j),
         ReadMessages(w, j)
  PROVE  MarksInv'
<1> DEFINE messages == transcript[thread[j]]
<1>1. TypeOK /\ TurnsInv /\ MarksInv
  BY DEF Inv
<1>2. UNCHANGED <<turnVars, markVars>> /\ StaysIn(w) /\ UNCHANGED since
  BY DEF ReadMessages
<1>3. UNCHANGED <<row, cleared, transcript, clock, thread, turn>> /\ UNCHANGED <<watermark, position, extracted>>
  BY <1>2 DEF turnVars, markVars
<1>4. j \in Job /\ thread[j] \in Thread
  BY <1>1, HeldJob DEF TurnsInv, MarksInv
<1>5. pc'[w] = "working"
  BY <1>1, <1>2, AtWork
<1>6. /\ window'[w] = messages
      /\ step'[w] = IF Len(messages) > since[w] THEN "extract" ELSE "mark"
      /\ \A v \in Worker \ {w} : step'[v] = step[v] /\ window'[v] = window[v]
  BY <1>1 DEF ReadMessages, TypeOK
<1>7. Len(messages) \in Nat /\ since[w] \in Nat
  BY <1>1, <1>4 DEF TypeOK, TurnsTypeOK
<1>8. ASSUME Intact(thread[j]) PROVE Knows(w, j)'
  <2>1. SinceCovered(w, j)
    BY <1>1, <1>4, <1>8 DEF MarksInv, WorkersKnow, Knows, ReadMessages
  <2>2. SinceCovered(w, j)'
    BY <1>2, <1>3, <2>1 DEF SinceCovered
  <2>3. WindowIsPrefix(w, j)'
    BY <1>3, <1>6, <1>7 DEF WindowIsPrefix
  <2>4. WindowHasTurns(w, j)'
    BY <1>1, <1>3, <1>6, <1>8 DEF WindowHasTurns, TurnsInv, TurnsInTranscript
  <2>5. ASSUME ~(Len(messages) > since[w]) PROVE WindowExtracted(w, j)'
    <3>1. \A i \in 1 .. Len(messages) : i \in 1 .. since[w]
      BY <1>7, <2>5
    <3> QED
      BY <1>3, <1>6, <2>1, <3>1 DEF WindowExtracted, SinceCovered
  <2> QED
    BY <1>5, <1>6, <2>2, <2>3, <2>4, <2>5 DEF Knows
<1> QED
  BY <1>2, <1>5, <1>6, <1>8, ReadKeepsMarks

\* The window is extracted from the position on, and was extracted up to it.
LEMMA ExtractKeepsMarks ==
  ASSUME Inv, TypeOK', NEW w \in Worker, pc[w] = "working", NEW j \in batch[w], Current(w, j),
         Extract(w, j)
  PROVE  MarksInv'
<1> DEFINE t == thread[j]
<1>1. TypeOK /\ TurnsInv /\ MarksInv
  BY DEF Inv
<1>2. UNCHANGED turnVars /\ StaysIn(w) /\ UNCHANGED <<watermark, position, since, window>>
  BY DEF Extract
<1>3. UNCHANGED <<row, cleared, transcript, clock, thread, turn>>
  BY <1>2 DEF turnVars
<1>4. j \in Job /\ t \in Thread
  BY <1>1, HeldJob DEF TurnsInv, MarksInv
<1>5. UNCHANGED <<status, batch, pc>>
  BY <1>2 DEF StaysIn, queueVars
<1>6. /\ step'[w] = "mark"
      /\ \A v \in Worker \ {w} : step'[v] = step[v]
      /\ extracted'[t] = extracted[t] \cup {window[w][i] : i \in since[w] + 1 .. Len(window[w])}
      /\ \A u \in Thread \ {t} : extracted'[u] = extracted[u]
  BY <1>1, <1>4 DEF Extract, TypeOK
<1>7. \A u \in Thread : extracted[u] \subseteq extracted'[u]
  BY <1>6
<1>8. NoMessageSkipped' /\ WatermarkCovered' /\ CompletedCovered'
  <2>1. NoMessageSkipped'
    BY <1>1, <1>2, <1>3, <1>7 DEF MarksInv, NoMessageSkipped, Intact
  <2>2. WatermarkCovered'
    BY <1>1, <1>2, <1>3, <1>7 DEF MarksInv, WatermarkCovered, Intact
  <2>3. CompletedCovered'
    BY <1>1, <1>3, <1>5, <1>7 DEF MarksInv, CompletedCovered, Covered, Intact
  <2> QED
    BY <2>1, <2>2, <2>3
<1>9. HeldCommitted' /\ StepsInside'
  BY <1>1, <1>5, <1>6 DEF MarksInv, HeldCommitted, StepsInside
<1>10. ASSUME Intact(t) PROVE Knows(w, j)'
  <2>1. SinceCovered(w, j) /\ WindowIsPrefix(w, j) /\ WindowHasTurns(w, j)
    BY <1>1, <1>4, <1>10 DEF MarksInv, WorkersKnow, Knows, Extract
  <2>2. SinceCovered(w, j)' /\ WindowIsPrefix(w, j)' /\ WindowHasTurns(w, j)'
    BY <1>2, <1>3, <1>4, <1>7, <2>1 DEF SinceCovered, WindowIsPrefix, WindowHasTurns
  <2>3. Len(window[w]) \in Nat /\ since[w] \in Nat
    BY <1>1 DEF TypeOK
  <2>4. ASSUME NEW i \in 1 .. Len(window[w]) PROVE window[w][i] \in extracted'[t]
    <3>1. CASE i \in 1 .. since[w]
      <4>1. window[w][i] = transcript[t][i]
        BY <2>1 DEF WindowIsPrefix
      <4> QED
        BY <1>4, <1>7, <2>1, <3>1, <4>1 DEF SinceCovered
    <3>2. CASE i \in since[w] + 1 .. Len(window[w])
      BY <1>6, <3>2
    <3> QED
      BY <2>3, <3>1, <3>2
  <2>5. WindowExtracted(w, j)'
    BY <1>2, <1>3, <2>4 DEF WindowExtracted
  <2>6. pc'[w] = "working"
    BY <1>5
  <2> QED
    BY <1>6, <2>2, <2>5, <2>6 DEF Knows
<1>11. ASSUME NEW v \in Worker, NEW k \in batch'[v], Current(v, k)', Intact(thread[k])'
       PROVE  Knows(v, k)'
  <2>1. Intact(thread[k])
    BY <1>3, <1>11 DEF Intact
  <2>2. CASE v = w
    <3>1. k \in batch[w] /\ Current(w, k)
      BY <1>5, <1>11, <2>2 DEF Current
    <3>2. k = j
      BY <1>1, <3>1, CurrentUnique
    <3> QED
      BY <1>10, <2>1, <2>2, <3>2
  <2>3. CASE v # w
    <3>1. \A u \in Worker \ {w} : /\ pc'[u] = pc[u] /\ batch'[u] = batch[u] /\ step'[u] = step[u]
                                   /\ since'[u] = since[u] /\ window'[u] = window[u]
      BY <1>2, <1>5, <1>6
    <3> QED
      BY <1>2, <1>7, <1>11, <2>1, <2>3, <3>1, OthersKnow
  <2> QED
    BY <2>2, <2>3
<1>12. WorkersKnow'
  BY <1>11 DEF WorkersKnow
<1> QED
  BY <1>8, <1>9, <1>12 DEF MarksInv

\* A worker that reads the row again, or finds it gone, knows its window has been
\* extracted (_mark_consolidated).
LEMMA ReadMarksKeepsMarks ==
  ASSUME Inv, TypeOK', NEW w \in Worker, pc[w] = "working", NEW j \in batch[w], Current(w, j),
         ReadMarks(w, j)
  PROVE  MarksInv'
<1>1. TypeOK /\ TurnsInv /\ MarksInv
  BY DEF Inv
<1>2. UNCHANGED <<turnVars, markVars>> /\ (Returns(w) \/ StaysIn(w))
  BY DEF ReadMarks
<1>3. UNCHANGED <<row, cleared, transcript, clock, thread, turn>> /\ UNCHANGED <<watermark, position, extracted>>
  BY <1>2 DEF turnVars, markVars
<1>4. j \in Job /\ thread[j] \in Thread
  BY <1>1, HeldJob DEF TurnsInv, MarksInv
<1>5. ASSUME Intact(thread[j]) PROVE Knows(w, j)'
  <2>1. StaysIn(w) /\ step' = [step EXCEPT ![w] = "write"] /\ UNCHANGED <<since, window>>
    BY <1>5 DEF ReadMarks, Intact
  <2>2. step'[w] = "write" /\ pc'[w] = "working"
    BY <1>1, <2>1, AtWork DEF TypeOK
  <2>3. SinceCovered(w, j) /\ WindowIsPrefix(w, j) /\ WindowHasTurns(w, j) /\ WindowExtracted(w, j)
    BY <1>1, <1>5 DEF MarksInv, WorkersKnow, Knows, ReadMarks
  <2>4. SinceCovered(w, j)' /\ WindowIsPrefix(w, j)' /\ WindowHasTurns(w, j)' /\ WindowExtracted(w, j)'
    BY <1>3, <2>1, <2>3 DEF SinceCovered, WindowIsPrefix, WindowHasTurns, WindowExtracted
  <2> QED
    BY <2>2, <2>4 DEF Knows
<1>6. /\ \A v \in Worker \ {w} : step'[v] = step[v] /\ since'[v] = since[v] /\ window'[v] = window[v]
      /\ step'[w] # "position" => pc'[w] = "working"
  <2>1. CASE Returns(w)
    BY <1>1, <2>1, AtWork
  <2>2. CASE ~Returns(w)
    BY <1>1, <2>2, AtWork DEF ReadMarks, TypeOK
  <2> QED
    BY <2>1, <2>2
<1> QED
  BY <1>2, <1>5, <1>6, ReadKeepsMarks

\* Whatever the worker read of the marks, both values it writes are covered: the
\* window is extracted, and holds the turns of all jobs up to its own.
LEMMA WriteMarksKeepsMarks ==
  ASSUME Inv, TypeOK', NEW w \in Worker, pc[w] = "working", NEW j \in batch[w], Current(w, j),
         WriteMarks(w, j)
  PROVE  MarksInv'
<1> DEFINE t == thread[j]
<1>1. TypeOK /\ TurnsInv /\ MarksInv
  BY DEF Inv
<1>2. UNCHANGED turnVars /\ Returns(w) /\ UNCHANGED extracted
  BY DEF WriteMarks
<1>3. UNCHANGED <<row, cleared, transcript, clock, thread, turn>>
  BY <1>2 DEF turnVars
<1>4. j \in Job /\ j <= clock /\ t \in Thread
  BY <1>1, HeldJob DEF TurnsInv, MarksInv
<1>5. /\ UNCHANGED <<status, batch>>
      /\ \A v \in Worker \ {w} : pc'[v] = pc[v] /\ step'[v] = step[v] /\ since'[v] = since[v] /\ window'[v] = window[v]
      /\ pc'[w] = "completing" /\ step'[w] = "position"
  BY <1>1, <1>2, AtWork
<1>6. /\ watermark'[t] \in {watermark[t], j}
      /\ position'[t] \in {position[t], Len(window[w])}
      /\ \A u \in Thread \ {t} : watermark'[u] = watermark[u] /\ position'[u] = position[u]
  BY <1>1, <1>4 DEF WriteMarks, TypeOK
<1>7. ASSUME Intact(t)
      PROVE  WindowIsPrefix(w, j) /\ WindowHasTurns(w, j) /\ WindowExtracted(w, j)
  BY <1>1, <1>7 DEF MarksInv, WorkersKnow, Knows, WriteMarks
<1>8. ASSUME Intact(t) PROVE Covered(j)
  BY <1>7, <1>8 DEF Covered, WindowHasTurns, WindowExtracted
<1>9. NoMessageSkipped'
  <2> SUFFICES ASSUME NEW u \in Thread, Intact(u)
               PROVE  /\ position'[u] <= Len(transcript[u])
                      /\ \A i \in 1 .. position'[u] : transcript[u][i] \in extracted[u]
    BY <1>2, <1>3 DEF NoMessageSkipped, Intact
  <2>1. CASE position'[u] = position[u]
    BY <1>1, <2>1 DEF MarksInv, NoMessageSkipped
  <2>2. CASE u = t /\ position'[u] = Len(window[w])
    BY <1>7, <2>2 DEF WindowIsPrefix, WindowExtracted
  <2> QED
    BY <1>6, <2>1, <2>2
<1>10. WatermarkCovered'
  <2> SUFFICES ASSUME NEW u \in Thread
               PROVE  /\ watermark'[u] <= clock
                      /\ Intact(u) => \A k \in Job : k <= watermark'[u] /\ thread[k] = u => turn[k] \subseteq extracted[u]
    BY <1>2, <1>3 DEF WatermarkCovered, Intact
  <2>1. CASE watermark'[u] = watermark[u]
    BY <1>1, <2>1 DEF MarksInv, WatermarkCovered
  <2>2. CASE u = t /\ watermark'[u] = j
    BY <1>4, <1>8, <2>2 DEF Covered
  <2> QED
    BY <1>6, <2>1, <2>2
<1>11. CompletedCovered'
  BY <1>1, <1>2, <1>3, <1>5 DEF MarksInv, CompletedCovered, Covered, Intact
<1>12. HeldCommitted'
  BY <1>1, <1>5 DEF MarksInv, HeldCommitted
<1>13. StepsInside'
  BY <1>1, <1>5 DEF MarksInv, StepsInside
<1>14. ASSUME NEW v \in Worker, NEW k \in batch'[v], Current(v, k)', Intact(thread[k])'
       PROVE  Knows(v, k)'
  <2>1. Intact(thread[k])
    BY <1>3, <1>14 DEF Intact
  <2>2. CASE v = w
    <3>1. k \in batch[w] /\ Current(w, k)
      BY <1>5, <1>14, <2>2 DEF Current
    <3>2. k = j
      BY <1>1, <3>1, CurrentUnique
    <3>3. Covered(j)'
      BY <1>2, <1>3, <1>8, <2>1, <3>2 DEF Covered
    <3> QED
      BY <1>5, <2>2, <3>2, <3>3 DEF Knows
  <2>3. CASE v # w
    <3>1. \A u \in Worker \ {w} : /\ pc'[u] = pc[u] /\ batch'[u] = batch[u] /\ step'[u] = step[u]
                                   /\ since'[u] = since[u] /\ window'[u] = window[u]
      BY <1>5
    <3>2. \A u \in Thread : extracted[u] \subseteq extracted'[u]
      BY <1>2
    <3> QED
      BY <1>2, <1>14, <2>1, <2>3, <3>1, <3>2, OthersKnow
  <2> QED
    BY <2>2, <2>3
<1>15. WorkersKnow'
  BY <1>14 DEF WorkersKnow
<1> QED
  BY <1>9, <1>10, <1>11, <1>12, <1>13, <1>15 DEF MarksInv

-----------------------------------------------------------------------------
\* The whole system keeps the invariant.
LEMMA StepInv ==
  ASSUME Discipline, Inv, [Next]_vars
  PROVE  Inv'
<1>0. TypeOK /\ QueueInv /\ TurnsInv /\ MarksInv
  BY DEF Inv
<1>1. TypeOK'
  BY <1>0, TypeOKStep DEF TurnsInv, MarksInv
<1>2. QueueInv'
  BY <1>0, StepIsQueueStep, QueueStepInv
<1>3. TurnsInv'
  BY <1>0, TurnsInvStep
<1>4. [TurnsStep]_turnVars
  BY StepIsTurnsStep
<1>5. ASSUME NEW w \in Worker, Consolidate(w) PROVE MarksInv'
  BY <1>1, <1>5, ConsolidateStepOf, ReadPositionKeepsMarks, ReadMessagesKeepsMarks,
     ExtractKeepsMarks, ReadMarksKeepsMarks, WriteMarksKeepsMarks
<1>6. ASSUME NEW w \in Worker, ConsolidateFails(w) \/ CrashWorker(w) PROVE MarksInv'
  BY <1>1, <1>6, ForgetKeepsMarks
<1>7. ASSUME NEW w \in Worker, QueueStep(w) PROVE MarksInv'
  BY <1>1, <1>7, QueueKeepsMarks
<1>8. ASSUME UNCHANGED <<status, pc, batch, markVars, stepVars>> PROVE MarksInv'
  BY <1>1, <1>4, <1>8, TurnsKeepMarks
<1>9. ASSUME NEW r \in Request, RecordTurn(r) PROVE MarksInv'
  <2>1. /\ \A j \in Job : status[j] # "absent" => status'[j] # "absent"
        /\ \A j \in Job : status'[j] = "completed" => status[j] = "completed"
    BY <1>0, <1>9 DEF RecordTurn, Enqueue, QueueInv, QueueTypeOK
  <2>2. UNCHANGED <<pc, batch, markVars, stepVars>>
    BY <1>9 DEF RecordTurn, Enqueue
  <2> QED
    BY <1>1, <1>4, <2>1, <2>2, TurnsKeepMarks
<1>10. ASSUME NEW t \in Thread, DeleteThread(t) PROVE MarksInv'
  <2>1. /\ \A j \in Job : status[j] # "absent" => status'[j] # "absent"
        /\ \A j \in Job : status'[j] = "completed" => status[j] = "completed"
    BY <1>10 DEF DeleteThread, Cascade
  <2>2. UNCHANGED <<pc, batch, markVars, stepVars>>
    BY <1>10 DEF DeleteThread, Cascade
  <2> QED
    BY <1>1, <1>4, <2>1, <2>2, TurnsKeepMarks
<1>11. MarksInv'
  BY <1>5, <1>6, <1>7, <1>8, <1>9, <1>10
  DEF Next, vars, queueVars, ExpireLease, Expire, RequestStep, ThreadStep
<1> QED
  BY <1>1, <1>2, <1>3, <1>11 DEF Inv

\* The inductive invariant of the composition, when a client sends one message at a
\* time to a thread and deletions commit.
THEOREM Invariance == Discipline /\ Spec => []Inv
<1>1. Init => Inv
  BY InitInv
<1>2. Discipline /\ Inv /\ [Next]_vars => Inv'
  BY StepInv
<1>3. ASSUME Discipline PROVE Spec => []Inv
  <2>1. Inv /\ [Next]_vars => Inv'
    BY <1>2, <1>3
  <2> QED
    BY <1>1, <2>1, PTL DEF Spec
<1> QED
  BY <1>3

\* No message is skipped: what lies before last_consolidated_message_count has
\* been extracted, although the marks are read and written in two steps, by any
\* number of workers that claim each other's jobs (_mark_consolidated).
THEOREM NothingSkipped == Discipline /\ Spec => []NoMessageSkipped
<1>1. Inv => NoMessageSkipped
  BY DEF Inv, MarksInv
<1> QED
  BY <1>1, Invariance, PTL

\* No recorded turn is lost: a job that has left the queue of an existing thread
\* left it after its turn was extracted (consolidate, complete).
THEOREM NoRecordedTurnLost == Discipline /\ Spec => []NoTurnLost
<1>1. Inv => NoTurnLost
  <2> SUFFICES ASSUME Inv, NEW j \in Job, Intact(thread[j]), status[j] \in {"completed", "withdrawn"}
               PROVE  turn[j] \subseteq extracted[thread[j]]
    BY DEF NoTurnLost
  <2>1. status[j] = "completed"
    BY DEF Inv, TurnsInv, JobsBegun, Intact
  <2>2. j \in Nat
    BY JobAssumption
  <2> QED
    BY <2>1, <2>2 DEF Inv, MarksInv, CompletedCovered, Covered
<1> QED
  BY <1>1, Invariance, PTL

\* A completed job vouches for every older turn of its thread, also for those
\* whose own job has used up its attempts (claim, consolidate).
THEOREM OlderTurnsCovered == Discipline /\ Spec => []CompletedCoversOlder
<1>1. Inv => CompletedCoversOlder
  <2> SUFFICES ASSUME Inv, NEW j \in Job, NEW k \in Job, k < j, thread[k] = thread[j],
                      Intact(thread[j]), status[j] = "completed"
               PROVE  turn[k] \subseteq extracted[thread[k]]
    BY DEF CompletedCoversOlder
  <2>1. k <= j
    BY JobAssumption
  <2> QED
    BY <2>1 DEF Inv, MarksInv, CompletedCovered, Covered
<1> QED
  BY <1>1, Invariance, PTL

\* No worker marks ahead of the extractor (consolidate, _mark_consolidated).
THEOREM ExtractedBeforeMarked == Discipline /\ Spec => []MarksAfterExtraction
<1>1. Inv => MarksAfterExtraction
  BY DEF Inv, MarksInv, WorkersKnow, Knows, WindowExtracted, MarksAfterExtraction
<1> QED
  BY <1>1, Invariance, PTL

-----------------------------------------------------------------------------
\* What holds however clients behave and deletions end.
Base == TypeOK /\ QueueInv /\ CopyHasTurn /\ JobsBegun /\ HeldCommitted /\ NoOrphanJob

\* The jobs of a batch were committed before they were claimed (claim).
LEMMA HeldCommittedStep ==
  ASSUME TypeOK, HeldCommitted, [Next]_vars
  PROVE  HeldCommitted'
<1>1. QueueTypeOK
  BY DEF TypeOK
<1>2. \A j \in Job : status[j] # "absent" => status'[j] # "absent"
  <2> SUFFICES ASSUME NEW j \in Job, status[j] # "absent" PROVE status'[j] # "absent"
    OBVIOUS
  <2>1. ASSUME NEW r \in Request, RecordTurn(r), j = record[r] PROVE status'[j] # "absent"
    BY <1>1, <2>1 DEF RecordTurn, Enqueue, QueueTypeOK
  <2>2. ASSUME NEW t \in Thread, DeleteThread(t), status[j] = "queued" PROVE status'[j] # "absent"
    BY <2>2 DEF DeleteThread, Cascade
  <2> QED
    BY <2>1, <2>2, StatusStep
<1>3. [QueueNext]_queueVars
  BY StepIsQueueStep
<1>4. \A w \in Worker : \A j \in batch'[w] : j \in Job /\ (j \in batch[w] \/ status[j] = "queued")
  <2>1. ASSUME NEW v \in Worker, ClaimSelect(v)
        PROVE  \A w \in Worker : \A j \in batch'[w] : j \in Job /\ (j \in batch[w] \/ status[j] = "queued")
    BY <1>1, <2>1 DEF ClaimSelect, Claimable, QueueTypeOK
  <2>2. ASSUME NEW v \in Worker, NEW S, batch' = [batch EXCEPT ![v] = batch[v] \ S]
        PROVE  \A w \in Worker : \A j \in batch'[w] : j \in Job /\ j \in batch[w]
    BY <1>1, <2>2 DEF QueueTypeOK
  <2>3. ASSUME NEW v \in Worker, batch' = [batch EXCEPT ![v] = {}]
        PROVE  \A w \in Worker : \A j \in batch'[w] : j \in Job /\ j \in batch[w]
    BY <1>1, <2>3 DEF QueueTypeOK
  <2>4. ASSUME batch' = batch PROVE \A w \in Worker : \A j \in batch'[w] : j \in Job /\ j \in batch[w]
    BY <1>1, <2>4 DEF QueueTypeOK
  <2>5. ASSUME NEW v \in Worker, CloseStep(v)
        PROVE  \A w \in Worker : \A j \in batch'[w] : j \in Job /\ j \in batch[w]
    BY <2>2, <2>4, <2>5 DEF CloseStep, Complete, FailRead, FailWrite, CloseJob
  <2> QED
    BY <1>3, <2>1, <2>3, <2>4, <2>5
    DEF QueueNext, WorkerStep, Enqueue, Cascade, Expire, ClaimCommit, Return, Raise, Abandon, Crash,
        Restart, queueVars
<1> QED
  BY <1>2, <1>4 DEF HeldCommitted

\* Rows of threads change only when one is created or deleted (threads.py).
LEMMA RowStep ==
  ASSUME [Next]_vars, row' # row
  PROVE  \E t \in Thread : CreateThread(t) \/ DeleteThread(t)
<1>1. ASSUME NEW r \in Request, RequestStep(r) \/ RecordTurn(r) PROVE FALSE
  <2>1. CASE RecordTurn(r)
    BY <2>1 DEF RecordTurn, RecordCommit, Leave
  <2>2. CASE RequestStep(r)
    BY <2>2 DEF RequestStep, Accept, Load, Ask, Say, Brief, Answer, RecordBegin, Drop, Leave
  <2> QED
    BY <1>1, <2>1, <2>2
<1>2. ASSUME NEW t \in Thread, ThreadStep(t) PROVE CreateThread(t)
  BY <1>2 DEF ThreadStep, DeleteTranscript, DeleteAbort
<1>3. CASE UNCHANGED turnVars
  BY <1>3 DEF turnVars
<1>4. CASE UNCHANGED vars
  BY <1>4 DEF vars, turnVars
<1> QED
  BY <1>1, <1>2, <1>3, <1>4, WorkersLeaveTurns DEF Next

\* A job is committed with the row of its thread there, and goes with that row
\* (record_turn, ON DELETE CASCADE).
LEMMA NoOrphanStep ==
  ASSUME TypeOK, JobsBegun, NoOrphanJob, [Next]_vars
  PROVE  NoOrphanJob'
<1> SUFFICES ASSUME NEW j \in Job, status'[j] = "queued" PROVE row'[thread'[j]] = "live"
  BY DEF NoOrphanJob
<1>1. TurnsTypeOK /\ [TurnsStep]_turnVars
  BY StepIsTurnsStep DEF TypeOK
<1>2. status'[j] # "absent" => j <= clock
  BY CommittedHasBegun
<1>3. thread'[j] = thread[j] /\ thread[j] \in Thread
  BY <1>1, <1>2, JobsStable DEF JobsBegun, TurnsTypeOK
<1>4. ASSUME NEW r \in Request, RecordTurn(r), j = record[r] PROVE row'[thread'[j]] = "live"
  BY <1>1, <1>3, <1>4 DEF RecordTurn, RecordCommit, Leave, JobsBegun, TurnsTypeOK
<1>5. ASSUME NEW t \in Thread, DeleteThread(t), thread[j] = t PROVE FALSE
  BY <1>5 DEF DeleteThread, Cascade
<1>6. CASE status[j] = "queued"
  <2>1. row[thread[j]] = "live"
    BY <1>6 DEF NoOrphanJob
  <2>3. row'[thread[j]] = "live"
    BY <1>1, <1>3, <1>5, <2>1, RowStep DEF TurnsTypeOK, CreateThread, DeleteThread, DeleteRow
  <2> QED
    BY <1>3, <2>3
<1> QED
  BY <1>4, <1>6, StatusStep DEF QueueStep

\* The part of the invariant that needs nothing of clients and deletions.
THEOREM BaseInvariance == Spec => []Base
<1>1. Init => Base
  <2>1. Init => NoOrphanJob
    BY DEF Init, QueueInit, NoOrphanJob
  <2> QED
    BY <2>1, InitInv DEF Inv, TurnsInv, MarksInv, Base
<1>2. ASSUME Base, [Next]_vars PROVE Base'
  <2>1. TypeOK'
    BY <1>2, TypeOKStep DEF Base
  <2>2. QueueInv'
    BY <1>2, StepIsQueueStep, QueueStepInv DEF Base
  <2>3. CopyHasTurn'
    BY <1>2, StepIsTurnsStep, CopyHasTurnStep DEF Base, TypeOK
  <2>4. JobsBegun' /\ HeldCommitted' /\ NoOrphanJob'
    BY <1>2, JobsBegunStep, HeldCommittedStep, NoOrphanStep DEF Base
  <2> QED
    BY <2>1, <2>2, <2>3, <2>4 DEF Base
<1> QED
  BY <1>1, <1>2, PTL DEF Spec

\* Types of the composition: in particular an attempt more than MaxAttempts is
\* never made, and a worker holds jobs exactly while it is busy (claim, run_once).
THEOREM TypeCorrect == Spec => []TypeOK
<1>1. Base => TypeOK
  BY DEF Base
<1> QED
  BY <1>1, BaseInvariance, PTL

\* No worker is given a job of a deleted thread, whatever requests and deletions
\* do to each other (record_turn, delete_thread, ON DELETE CASCADE).
THEOREM NoJobOrphaned == Spec => []NoOrphanJob
<1>1. Base => NoOrphanJob
  BY DEF Base
<1> QED
  BY <1>1, BaseInvariance, PTL

\* Seen from its table, the whole system is the queue: everything proved of the
\* queue on its own, the refinement of the abstract work queue first, holds of it.
THEOREM SystemImplementsQueue == Spec => ImplementsWorkQueue
<1>1. Base /\ [Next]_vars => [QueueNext]_queueVars
  BY StepIsQueueStep DEF Base
<1>2. Spec => QueueSpec
  <2>1. Init => QueueInit
    BY DEF Init
  <2> QED
    BY <1>1, <2>1, BaseInvariance, PTL DEF Spec, QueueSpec
<1> QED
  BY <1>2, QueueRefinement
=============================================================================
