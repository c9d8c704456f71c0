---------------------------- MODULE ThreadTurns ----------------------------
(***************************************************************************)
(* Conversation threads, their transcript in the LangGraph checkpointer    *)
(* and the requests that send a message to them (backend/app/api/v1/       *)
(* chat.py, backend/app/agent/service.py) or delete them (threads.py).     *)
(*                                                                         *)
(* A run of the chat graph loads the transcript once, works on its own     *)
(* copy and saves that copy after each step; the last one saved is the     *)
(* transcript.  The row of a thread and its transcript are in separate     *)
(* transactions.  The columns of the row that only the list of threads     *)
(* shows (title, preview, message_count) are left out.                     *)
(***************************************************************************)
EXTENDS ConsolidationJobs, Sequences

CONSTANTS
  Thread,          \* rows that may ever exist in the table threads
  Request,         \* send requests that may run at the same time
  MaxMessages,     \* bound: messages ever written in one thread
  SerialSends,     \* TRUE: a client sends one message at a time to a thread
  DeletesMayAbort, \* TRUE: the commit of a deletion may fail
  NoThread         \* no thread

ASSUME TurnsAssumption ==
  /\ NoThread \notin Thread
  /\ MaxMessages \in Nat
  /\ SerialSends \in BOOLEAN
  /\ DeletesMayAbort \in BOOLEAN

VARIABLES
  row,        \* the row of each thread: not created, there, or deleted
  cleared,    \* threads whose deletion has removed the transcript so far
  transcript, \* the messages of the last checkpoint of each thread
  said,       \* how many messages were ever written in each thread
  at,         \* where each request is
  on,         \* the thread each request is for
  copy,       \* the messages the chat graph of each request works on
  record,     \* the job of the transaction a request has open, 0 if none
  clock,      \* created_at of the youngest recorded turn
  thread,     \* the thread_id of each job
  turn        \* history: the messages of the turn that each job was added for

turnVars == <<row, cleared, transcript, said, at, on, copy, record, clock, thread, turn>>

Message == [id : Nat, role : {"user", "assistant"}]

(***************************************************************************)
(* accepted   the thread is there and is the user's                        *)
(* loaded     the graph has read the last checkpoint                       *)
(* asked      the user's message is in a checkpoint                        *)
(* briefed    load_context has saved its checkpoint                        *)
(* answered   the reply is in a checkpoint and the stream has ended        *)
(* recording  the transaction of record_turn is open                       *)
(***************************************************************************)
Stage == {"idle", "accepted", "loaded", "asked", "briefed", "answered", "recording"}

TurnsInit ==
  /\ row = [t \in Thread |-> "none"]
  /\ cleared = {}
  /\ transcript = [t \in Thread |-> <<>>]
  /\ said = [t \in Thread |-> 0]
  /\ at = [r \in Request |-> "idle"]
  /\ on = [r \in Request |-> NoThread]
  /\ copy = [r \in Request |-> <<>>]
  /\ record = [r \in Request |-> 0]
  /\ clock = 0
  /\ thread = [j \in Job |-> NoThread]
  /\ turn = [j \in Job |-> {}]

-----------------------------------------------------------------------------
CreateThread(t) ==
  /\ row[t] = "none"
  /\ row' = [row EXCEPT ![t] = "live"]
  /\ UNCHANGED <<cleared, transcript, said, at, on, copy, record, clock, thread, turn>>

\* send_message: the thread exists and belongs to the user.  The interface
\* disables its text box while a reply is coming; the command buttons of a skin
\* and a second tab do not wait.
Accept(r, t) ==
  /\ at[r] = "idle"
  /\ row[t] = "live"
  /\ SerialSends => \A q \in Request : at[q] # "idle" => on[q] # t
  /\ at' = [at EXCEPT ![r] = "accepted"]
  /\ on' = [on EXCEPT ![r] = t]
  /\ UNCHANGED <<row, cleared, transcript, said, copy, record, clock, thread, turn>>

\* astream starts from the last checkpoint of the thread.
Load(r) ==
  /\ at[r] = "accepted"
  /\ at' = [at EXCEPT ![r] = "loaded"]
  /\ copy' = [copy EXCEPT ![r] = transcript[on[r]]]
  /\ UNCHANGED <<row, cleared, transcript, said, on, record, clock, thread, turn>>

\* The graph of request r adds a message to its copy and saves the copy.
Say(r, role) ==
  LET t == on[r]
      messages == Append(copy[r], [id |-> said[t] + 1, role |-> role])
  IN  /\ said[t] < MaxMessages
      /\ said' = [said EXCEPT ![t] = @ + 1]
      /\ copy' = [copy EXCEPT ![r] = messages]
      /\ transcript' = [transcript EXCEPT ![t] = messages]
      /\ UNCHANGED <<row, cleared, on, record, clock, thread, turn>>

Ask(r) ==
  /\ at[r] = "loaded"
  /\ at' = [at EXCEPT ![r] = "asked"]
  /\ Say(r, "user")

\* load_context adds no message, but its checkpoint holds the copy as well.
Brief(r) ==
  /\ at[r] = "asked"
  /\ at' = [at EXCEPT ![r] = "briefed"]
  /\ transcript' = [transcript EXCEPT ![on[r]] = copy[r]]
  /\ UNCHANGED <<row, cleared, said, on, copy, record, clock, thread, turn>>

Answer(r) ==
  /\ at[r] = "briefed"
  /\ at' = [at EXCEPT ![r] = "answered"]
  /\ Say(r, "assistant")

\* record_turn finds the row; created_at of the job will be the time at which
\* this transaction began.
RecordBegin(r) ==
  /\ at[r] = "answered"
  /\ row[on[r]] = "live"
  /\ clock + 1 \in Job
  /\ clock' = clock + 1
  /\ record' = [record EXCEPT ![r] = clock + 1]
  /\ thread' = [thread EXCEPT ![clock + 1] = on[r]]
  /\ turn' = [turn EXCEPT ![clock + 1] =
                {copy[r][i] : i \in {Len(copy[r]) - 1, Len(copy[r])}}]
  /\ at' = [at EXCEPT ![r] = "recording"]
  /\ UNCHANGED <<row, cleared, transcript, said, on, copy>>

\* Faulty: the transaction stays open after the request.
LeaveOpen(r) ==
  /\ at' = [at EXCEPT ![r] = "idle"]
  /\ on' = [on EXCEPT ![r] = NoThread]
  /\ copy' = [copy EXCEPT ![r] = <<>>]
  /\ UNCHANGED <<row, cleared, transcript, said, record, clock, thread, turn>>

\* The request is over, however it ends.
Leave(r) ==
  /\ at' = [at EXCEPT ![r] = "idle"]
  /\ on' = [on EXCEPT ![r] = NoThread]
  /\ copy' = [copy EXCEPT ![r] = <<>>]
  /\ record' = [record EXCEPT ![r] = 0]
  /\ UNCHANGED <<row, cleared, transcript, said, clock, thread, turn>>

\* Faulty: no foreign key ties a job to the row of its thread.
RecordCommitUnchecked(r) ==
  /\ at[r] = "recording"
  /\ Leave(r)

\* db.commit() of the turn: the row and the job together.  The UPDATE of the row,
\* and the foreign key of the job, fail when the row is gone.
RecordCommit(r) ==
  /\ at[r] = "recording"
  /\ row[on[r]] = "live"
  /\ Leave(r)

\* The model fails, the client disconnects, record_turn finds no row, the
\* commit fails, the process dies: what was not committed is rolled back, what
\* the checkpointer saved stays.
Drop(r) ==
  /\ at[r] # "idle"
  /\ Leave(r)

-----------------------------------------------------------------------------
\* delete_thread: the checkpointer deletes the transcript on a connection of
\* its own ...
DeleteTranscript(t) ==
  /\ row[t] = "live"
  /\ t \notin cleared
  /\ cleared' = cleared \cup {t}
  /\ transcript' = [transcript EXCEPT ![t] = <<>>]
  /\ UNCHANGED <<row, said, at, on, copy, record, clock, thread, turn>>

\* ... and then the endpoint commits the deletion of the row,
DeleteRow(t) ==
  /\ t \in cleared
  /\ row' = [row EXCEPT ![t] = "deleted"]
  /\ cleared' = cleared \ {t}
  /\ UNCHANGED <<transcript, said, at, on, copy, record, clock, thread, turn>>

\* or fails to.
DeleteAbort(t) ==
  /\ DeletesMayAbort
  /\ t \in cleared
  /\ cleared' = cleared \ {t}
  /\ UNCHANGED <<row, transcript, said, at, on, copy, record, clock, thread, turn>>

\* A thread nobody is deleting.
Intact(t) == t \in Thread /\ row[t] = "live" /\ t \notin cleared

\* Types, and that a request has a thread exactly while it runs.
TurnsTypeOK ==
  /\ row \in [Thread -> {"none", "live", "deleted"}]
  /\ cleared \in SUBSET {t \in Thread : row[t] = "live"}
  /\ transcript \in [Thread -> Seq(Message)]
  /\ said \in [Thread -> Nat]
  /\ at \in [Request -> Stage]
  /\ on \in [Request -> Thread \cup {NoThread}]
  /\ \A r \in Request : (on[r] = NoThread) <=> (at[r] = "idle")
  /\ copy \in [Request -> Seq(Message)]
  /\ record \in [Request -> Job \cup {0}]
  /\ \A r \in Request : (record[r] # 0) <=> (at[r] = "recording")
  /\ clock \in Nat
  /\ thread \in [Job -> Thread \cup {NoThread}]
  /\ turn \in [Job -> SUBSET Message]
=============================================================================
