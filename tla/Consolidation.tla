--------------------------- MODULE Consolidation ---------------------------
(***************************************************************************)
(* AgentService.consolidate (backend/app/agent/service.py) between the     *)
(* queue of jobs and the threads whose turns it turns into memory: the     *)
(* composition of ConsolidationQueue and ThreadTurns with the steps a      *)
(* worker takes inside consolidate(job).  Each step is one database        *)
(* session, one read of the checkpointer or one run of the memory graph,   *)
(* and anything may happen between two of them.                            *)
(***************************************************************************)
EXTENDS ConsolidationQueue, ThreadTurns

VARIABLES
  watermark,  \* column last_consolidated_at: created_at of a job, 0 for NULL
  position,   \* column last_consolidated_message_count
  extracted,  \* history: messages whose facts reached the store, per thread
  step,       \* where a worker is in consolidate(job)
  since,      \* the position it read first
  window,     \* the transcript it read
  rowRead     \* the two columns it read before writing them

markVars == <<watermark, position, extracted>>
stepVars == <<step, since, window, rowRead>>
vars == <<queueVars, turnVars, markVars, stepVars>>

ConsolidateStep == {"position", "messages", "extract", "mark", "write"}
Marks == [at : Job \cup {0}, count : Nat]

Init ==
  /\ QueueInit
  /\ TurnsInit
  /\ watermark = [t \in Thread |-> 0]
  /\ position = [t \in Thread |-> 0]
  /\ extracted = [t \in Thread |-> {}]
  /\ step = [w \in Worker |-> "position"]
  /\ since = [w \in Worker |-> 0]
  /\ window = [w \in Worker |-> <<>>]
  /\ rowRead = [w \in Worker |-> [at |-> 0, count |-> 0]]

-----------------------------------------------------------------------------
\* The locals of consolidate are gone when it ends.
ForgetLocals(w) ==
  /\ step' = [step EXCEPT ![w] = "position"]
  /\ since' = [since EXCEPT ![w] = 0]
  /\ window' = [window EXCEPT ![w] = <<>>]
  /\ rowRead' = [rowRead EXCEPT ![w] = [at |-> 0, count |-> 0]]

Returns(w) == Return(w) /\ ForgetLocals(w)
Raises(w) == Raise(w) /\ ForgetLocals(w)
StaysIn(w) == pc[w] = "working" /\ UNCHANGED queueVars

\* _consolidation_position: a thread that is gone and a job at or under the
\* watermark have nothing to consolidate.
ReadPosition(w, j) ==
  LET t == thread[j] IN
  /\ step[w] = "position"
  /\ \/ /\ row[t] # "live" \/ watermark[t] >= j
        /\ Returns(w)
     \/ /\ row[t] = "live" /\ watermark[t] < j
        /\ StaysIn(w)
        /\ since' = [since EXCEPT ![w] = position[t]]
        /\ step' = [step EXCEPT ![w] = "messages"]
        /\ UNCHANGED <<window, rowRead>>
  /\ UNCHANGED <<turnVars, markVars>>

\* Faulty: one message after the position does not count.
ReadMessagesOffByOne(w, j) ==
  LET messages == transcript[thread[j]] IN
  /\ step[w] = "messages"
  /\ StaysIn(w)
  /\ window' = [window EXCEPT ![w] = messages]
  /\ step' = [step EXCEPT ![w] = IF Len(messages) > since[w] + 1 THEN "extract" ELSE "mark"]
  /\ UNCHANGED <<turnVars, markVars, since, rowRead>>

\* _thread_messages: with nothing after the position the job is only marked.
ReadMessages(w, j) ==
  LET messages == transcript[thread[j]] IN
  /\ step[w] = "messages"
  /\ StaysIn(w)
  /\ window' = [window EXCEPT ![w] = messages]
  /\ step' = [step EXCEPT ![w] = IF Len(messages) > since[w] THEN "extract" ELSE "mark"]
  /\ UNCHANGED <<turnVars, markVars, since, rowRead>>

\* Faulty, the first version that ADR 0022 tells of: only the last turn is extracted.
ExtractLastTurn(w, j) ==
  /\ step[w] = "extract"
  /\ StaysIn(w)
  /\ extracted' = [extracted EXCEPT ![thread[j]] =
                     @ \cup {window[w][i] : i \in {Len(window[w]) - 1, Len(window[w])} \cap 1 .. Len(window[w])}]
  /\ step' = [step EXCEPT ![w] = "mark"]
  /\ UNCHANGED <<turnVars, watermark, position, since, window, rowRead>>

\* The memory graph extracts the messages after the position and stores facts.
Extract(w, j) ==
  /\ step[w] = "extract"
  /\ StaysIn(w)
  /\ extracted' = [extracted EXCEPT ![thread[j]] =
                     @ \cup {window[w][i] : i \in since[w] + 1 .. Len(window[w])}]
  /\ step' = [step EXCEPT ![w] = "mark"]
  /\ UNCHANGED <<turnVars, watermark, position, since, window, rowRead>>

\* _mark_consolidated reads the row of the thread,
ReadMarks(w, j) ==
  LET t == thread[j] IN
  /\ step[w] = "mark"
  /\ \/ /\ row[t] # "live"
        /\ Returns(w)
     \/ /\ row[t] = "live"
        /\ StaysIn(w)
        /\ rowRead' = [rowRead EXCEPT ![w] = [at |-> watermark[t], count |-> position[t]]]
        /\ step' = [step EXCEPT ![w] = "write"]
        /\ UNCHANGED <<since, window>>
  /\ UNCHANGED <<turnVars, markVars>>

\* and commits the columns whose new value differs from what it read.
MovesMark(w, j) == rowRead[w].at # j
MovesPosition(w) == Len(window[w]) > rowRead[w].count

\* Faulty: the length of the transcript is taken again when the marks are written.
WriteMarksRecounting(w, j) ==
  LET t == thread[j] IN
  /\ step[w] = "write"
  /\ row[t] = "live"
  /\ watermark' = [watermark EXCEPT ![t] = j]
  /\ position' = [position EXCEPT ![t] = Len(transcript[t])]
  /\ Returns(w)
  /\ UNCHANGED <<turnVars, extracted>>

\* Faulty: the watermark is the time of the consolidation, not that of the job.
WriteMarksNow(w, j) ==
  LET t == thread[j] IN
  /\ step[w] = "write"
  /\ row[t] = "live" \/ ~(MovesMark(w, j) \/ MovesPosition(w))
  /\ watermark' = [watermark EXCEPT ![t] = IF MovesMark(w, j) THEN clock ELSE @]
  /\ position' = [position EXCEPT ![t] = IF MovesPosition(w) THEN Len(window[w]) ELSE @]
  /\ Returns(w)
  /\ UNCHANGED <<turnVars, extracted>>

\* The commit of _mark_consolidated.
WriteMarks(w, j) ==
  LET t == thread[j] IN
  /\ step[w] = "write"
  /\ row[t] = "live" \/ ~(MovesMark(w, j) \/ MovesPosition(w))
  /\ watermark' = [watermark EXCEPT ![t] = IF MovesMark(w, j) THEN j ELSE @]
  /\ position' = [position EXCEPT ![t] = IF MovesPosition(w) THEN Len(window[w]) ELSE @]
  /\ Returns(w)
  /\ UNCHANGED <<turnVars, extracted>>

\* A database, model or store error, or an UPDATE of a row that was deleted.
\* Facts written before the error count as extracted by the next attempt only.
ConsolidateFails(w) ==
  /\ Raises(w)
  /\ UNCHANGED <<turnVars, markVars>>

Consolidate(w) ==
  \E j \in batch[w] :
    /\ pc[w] = "working"
    /\ Current(w, j)
    /\ \/ ReadPosition(w, j) \/ ReadMessages(w, j) \/ Extract(w, j)
       \/ ReadMarks(w, j) \/ WriteMarks(w, j)

-----------------------------------------------------------------------------
\* What the queue does on its own, and a crash in the middle of consolidate.
QueueStep(w) ==
  /\ ClaimSelect(w) \/ ClaimCommit(w) \/ CloseStep(w) \/ Abandon(w) \/ Restart(w)
  /\ UNCHANGED <<turnVars, markVars, stepVars>>

CrashWorker(w) == Crash(w) /\ ForgetLocals(w) /\ UNCHANGED <<turnVars, markVars>>

ExpireLease(j) == Expire(j) /\ UNCHANGED <<turnVars, markVars, stepVars>>

\* What a request does before its last commit touches no row of the queue.
RequestStep(r) ==
  /\ \/ \E t \in Thread : Accept(r, t)
     \/ Load(r) \/ Ask(r) \/ Brief(r) \/ Answer(r) \/ RecordBegin(r) \/ Drop(r)
  /\ UNCHANGED <<queueVars, markVars, stepVars>>

\* record_turn and its commit: the turn and its job, or neither.
RecordTurn(r) ==
  /\ RecordCommit(r)
  /\ Enqueue(record[r])
  /\ UNCHANGED <<markVars, stepVars>>

ThreadStep(t) ==
  /\ CreateThread(t) \/ DeleteTranscript(t) \/ DeleteAbort(t)
  /\ UNCHANGED <<queueVars, markVars, stepVars>>

\* The row of the thread takes its queued jobs with it.
DeleteThread(t) ==
  /\ DeleteRow(t)
  /\ Cascade({j \in Job : thread[j] = t})
  /\ UNCHANGED <<markVars, stepVars>>

Next ==
  \/ \E w \in Worker : Consolidate(w) \/ ConsolidateFails(w) \/ QueueStep(w) \/ CrashWorker(w)
  \/ \E j \in Job : ExpireLease(j)
  \/ \E r \in Request : RequestStep(r) \/ RecordTurn(r)
  \/ \E t \in Thread : ThreadStep(t) \/ DeleteThread(t)

Spec == Init /\ [][Next]_vars

-----------------------------------------------------------------------------
\* Types of the composition.
TypeOK ==
  /\ QueueTypeOK
  /\ TurnsTypeOK
  /\ watermark \in [Thread -> Job \cup {0}]
  /\ position \in [Thread -> Nat]
  /\ extracted \in [Thread -> SUBSET Message]
  /\ step \in [Worker -> ConsolidateStep]
  /\ since \in [Worker -> Nat]
  /\ window \in [Worker -> Seq(Message)]
  /\ rowRead \in [Worker -> Marks]

\* No message is skipped: everything before last_consolidated_message_count has
\* been through the extractor, however many workers race on the marks, however
\* late they write them and whatever fails in between (_mark_consolidated).
NoMessageSkipped ==
  \A t \in Thread : Intact(t) =>
    /\ position[t] <= Len(transcript[t])
    /\ \A i \in 1 .. position[t] : transcript[t][i] \in extracted[t]

\* No recorded turn is lost: while its thread exists, its job is in the queue or
\* its two messages have been extracted.  A job is thus only discarded, by the
\* watermark or by an empty window, when another one did its work (consolidate).
NoTurnLost ==
  \A j \in Job :
    Intact(thread[j]) /\ status[j] \in {"completed", "withdrawn"} =>
      turn[j] \subseteq extracted[thread[j]]

\* A completed job vouches for all turns recorded before it: also for those whose
\* own job used up its attempts and will never be claimed again.
CompletedCoversOlder ==
  \A j, k \in Job :
    /\ k < j /\ thread[k] = thread[j]
    /\ Intact(thread[j]) /\ status[j] = "completed"
    => turn[k] \subseteq extracted[thread[k]]

\* No worker marks ahead of the extractor: when the marks are about to be
\* written, all the messages they will cover have been extracted.
MarksAfterExtraction ==
  \A w \in Worker : \A j \in batch[w] :
    step[w] \in {"mark", "write"} /\ Current(w, j) /\ Intact(thread[j]) =>
      \A i \in 1 .. Len(window[w]) : window[w][i] \in extracted[thread[j]]

\* No job outlives its thread: whatever a request that is recording a turn, a
\* second one and a deletion of the thread do to each other, no worker is ever
\* given a job of a deleted thread (record_turn, delete_thread, ON DELETE CASCADE).
NoOrphanJob ==
  \A j \in Job : status[j] = "queued" => row[thread[j]] = "live"

\* Every recorded turn is extracted in the end, unless its thread is deleted or
\* its job runs out of attempts first (run_forever, claim, consolidate).
TurnsExtracted ==
  \A j \in Job :
    status[j] = "queued" ~>
      \/ ~Intact(thread[j])
      \/ Intact(thread[j]) /\ turn[j] \subseteq extracted[thread[j]]
      \/ attempts[j] = MaxAttempts

\* The fairness of the queue; the steps of consolidate are what keeps a worker
\* from waiting for ever in "working".
FairSpec ==
  /\ Spec
  /\ \A j \in Job : WF_vars(ExpireLease(j))
  /\ \A w \in Worker :
       /\ SF_vars(ClaimSelect(w) /\ QueueStep(w)) /\ SF_vars(ClaimCommit(w) /\ QueueStep(w))
       /\ WF_vars(Consolidate(w) \/ ConsolidateFails(w))
       /\ WF_vars((CloseStep(w) \/ Abandon(w)) /\ QueueStep(w))
       /\ WF_vars(Restart(w) /\ QueueStep(w))
=============================================================================
