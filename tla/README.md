# Formal model of theyrethink-ai

The repository is a chat application in which users talk to characters
("agents") that remember them: a FastAPI backend (`backend/app`), PostgreSQL,
LangGraph for the conversations, a worker that turns finished turns into
memories, and a SvelteKit client (`frontend/src`). This directory holds TLA+
models of its core, the TLC configurations that check them on small instances,
and theorems about them that the TLA+ proof system (TLAPS) has checked for all
values of the constants.

Contents: [the system](#the-system), [modules](#modules),
[the model and the code](#the-model-and-the-code), [runs](#runs),
[fairness](#fairness), [proofs](#proofs),
[where code and documents part](#where-code-and-documents-part),
[what is not modelled](#what-is-not-modelled), [plan](#plan).

## The system

One process of the backend runs an asyncio event loop with the HTTP handlers
and one consolidation worker. Several processes may share one database, and
during a deployment two always do. Every interaction below goes through the
database, the LangGraph checkpointer (which has a connection of its own, so it
commits apart from the rest) or the store of facts.

| component | state | operations | hard because |
| --- | --- | --- | --- |
| Consolidation queue (`agent/consolidation.py`) | rows of `consolidation_jobs`: `created_at`, `claimed_at`, `attempts` | `enqueue`, `claim`, `complete`, `fail`; rows cascade with their thread | two workers, row locks, leases that run out under a slow worker, attempts counted before the work |
| Consolidation worker (same file, `agent/runtime.py`) | the batch it holds | `run_once`, `run_forever`, start, stop | crashes, errors half-way through a batch, retries; every job must leave in the end |
| Memory consolidation (`agent/service.py`, `agent/graph.py`) | `last_consolidated_at`, `last_consolidated_message_count` of a thread | `consolidate`: read the position, read the transcript, extract, write the marks | three transactions with turns, deletions and other workers in between; marks overwritten by older ones |
| Chat turns (`api/v1/chat.py`, `agent/service.py`, `agent/graph.py`) | transcript in the checkpointer, row of the thread, job of the turn | `send_message`, the steps of the chat graph, `record_turn` | reply and bookkeeping are not one transaction; two runs fork a transcript; clients disconnect |
| Threads (`api/v1/threads.py`, `agent/service.py`) | row, title, preview, counters | create, list, rename, delete | a deletion commits on two connections |
| Memory store (`agent/memory.py`, `api/v1/memory.py`) | facts by user and agent | write, deduplicate, list by page, forget | listings of several calls; forgetting races with an extraction under way |
| Context and prompts (`agent/context.py`, `prompts.py`, `llm.py`, `memory.py`) | size of the context window | read the agent, choose the facts that fit, put the prompt together | the agent is edited between the reads; the window may not be the configured one |
| Event stream (`api/v1/chat.py`, `lib/chat/sse.ts`, `lib/api/chat.ts`) | queue between producer and response, buffer of the parser | events, heartbeats, cancel, parse | a client that leaves while the producer is running or the turn is being committed |
| Chat client (`lib/chat/Chat.svelte`) | current thread, messages, sequence numbers | select, start, send, delete | answers that arrive after the user has moved on |
| Sessions (`api/v1/auth.py`, `api/deps.py`) | rows of sessions, password hashes | sign-up, login, logout, profile, rehash | revocation racing with logins that read the user before |
| Users (`api/v1/users.py`) | rows of users, roles | create, update, delete | uniqueness and "not oneself" checked before the commit |
| Rate limiter (`security/rate_limit.py`) | a counter per key and window | hit, purge | border of windows, statements that come late |
| Agents and avatars (`api/v1/agents.py`) | rows and files | create, update, upload, delete | a file and a row are changed around a commit that may fail |
| Catalogues and seed (`api/v1/catalogs.py`, `seed/`) | roles, sources, links | create, update, delete, attach; idempotent load | constraints decide at the commit; the seed reads twice |
| Migration (`scripts/migrate_from_sqlite.py`) | imported rows, threads and facts | runs over the old database | crashes between its transactions; a second run over data that has moved on |

What makes each of them correct:

* **Queue.** A job is handed out at most `max_attempts` times, never after it
  left, and it leaves only because a worker that was given it closed it or
  because its thread was deleted. Two workers work on one job only when a lease
  ran out. Every job settles.
* **Consolidation.** Every recorded turn of a thread is extracted into memory at
  least once before anything says it was: before its job leaves the queue,
  before the position passes its messages, before the watermark lets older or
  late jobs be discarded.
* **Threads and turns.** No job refers to a thread that is gone; the transcript
  only grows while its thread is not being deleted.
* **Memory.** A forgetting removes all that was stored when it began, what was
  forgotten does not come back by itself, one fact is not stored twice, and facts
  keep their order.
* **Prompts.** A reply is made with a configuration the agent had, its facts fit
  the window, and a prompt begins as the one before it did.
* **Stream and client.** The chunks reach the page in order; "done" and "error"
  tell the truth; every response ends. The page shows only what is selected.
* **Sessions and users.** A logout or a new password closes the sessions that were
  open, names are unique, and the guards keep an administrator.
* **Rate limiter.** No client passes more than the limit in one window.
* **Catalogues, avatars, seed.** References lead to rows that exist, a row names a
  file that is there, no file is left over, and a seed is all or nothing.
* **Migration.** Nothing is imported twice, and a run that ends has migrated all,
  wherever the runs before it broke off.

`PROJECT.json` lists the components with their status, and under `hazards` every
place of the code where these properties are at risk and the property that
watches it.

## Modules

| module | models | builds on |
| --- | --- | --- |
| `ConsolidationJobs` | the constant `Job`: jobs named by the rank of their `created_at` | |
| `WorkQueue` | abstract: a bounded at-least-once work queue without workers, leases or transactions | |
| `ConsolidationQueue` | `PostgresConsolidationQueue` and `ConsolidationWorker`: the table, row locks, leases, batches, crashes | `ConsolidationJobs`; refines `WorkQueue` |
| `LeaseHistory` | the same with a history variable: how many leases of a job ran out | `ConsolidationQueue` |
| `ThreadTurns` | threads, their transcript in the checkpointer, the requests that send messages and the deletion of a thread | `ConsolidationJobs` |
| `Consolidation` | the whole backend core: queue, threads and `AgentService.consolidate` between them | `ConsolidationQueue`, `ThreadTurns` |
| `RateLimit` | `enforce_rate_limit` with several processes | |
| `Replies` | a message through the rate limit, `load_agent_context`, the prompt, the budget of facts and the columns of the thread | `RateLimit` |
| `Memory` | one namespace of the store: listing, forgetting and persisting against each other | |
| `ReplyStream` | `send_message` in `chat.py` between its producer task and its queue, the wire, and the parser | |
| `ChatClient` | the page `Chat.svelte`: selecting, starting, removing and sending between their awaits | |
| `Accounts` | `auth.py`, `users.py` and `deps.py`: users, sessions and requests that overlap | |
| `Catalog` | `agents.py`, `catalogs.py` and `seed/`: roles, sources, agents, links and avatar files | |
| `Migration` | `migrate_from_sqlite.py`, its crashes and re-runs, and the live system in between | |
| `MC...` | instances and symmetry sets for TLC | the modules they are named after |
| `ConsolidationProofs` (with `ConsolidationQueue` and `LeaseHistory`), `RepliesProofs` (with `RateLimit`), `MemoryProofs`, `ReplyStreamProofs`, `ChatClientProofs`, `AccountsProofs`, `CatalogProofs`, `MigrationProofs` | the theorems | the modules they are named after |

An operator whose comment begins with "Faulty" is not part of the model. It is
what a plausible mistake would turn the operator after it into, and
`PROJECT.json` (`mutants`) says which property notices the mistake.

## The model and the code

`PROJECT.json` (`map`) gives the lines of every definition. What a reader needs
on top of that is where the steps are cut.

**Queue and worker.** A step is one database statement that others can see or
wait for, or one commit.

* `claim()` is two steps. `ClaimSelect` takes the `FOR UPDATE SKIP LOCKED` rows:
  oldest first, at most `BatchSize`, unlocked, with attempts left and no lease in
  force. `ClaimCommit` counts the attempts and stamps the lease.
* `complete()` is one step. It deletes by id, waits for a lock, and does nothing
  to a row that is gone.
* `fail()` is two steps, because `session.get` takes no lock and the session then
  writes only the columns that changed: `FailRead` decides whether `claimed_at`
  will be set to NULL (`releasing`) or only `last_error` changes (`noting`).
* `Abandon` is an exception that leaves `run_once` and is logged by
  `run_forever`: the rest of the batch keeps its claim until the lease ends.
* `Crash` stands for a process that dies and for `stop()`; `Restart` is
  `start()` in the lifespan of the application.
* Time is what `claim()` can see of it: a lease is in force or has run out
  (`Expire`), at any moment, also while its worker is busy.

**Threads and turns.** A send is `Accept` (ownership check, rollback), `Load`
(the graph reads the last checkpoint), `Ask`, `Brief` and `Answer` (a checkpoint
after each step, made of the run's own copy of the messages), `RecordBegin`
(`record_turn` finds the row; the job's `created_at` is `now()`, the time its
transaction began) and `RecordTurn` (row and job commit together). `Drop` may end
it anywhere. `SerialSends` and `DeletesMayAbort` choose the environment: whether a
second request may run on a thread that has one, and whether the commit of a
deletion may fail after the checkpointer has deleted the transcript.

`SerialSends` is a hypothesis, not a feature of the code. The interface disables
its text box while a reply streams, but command buttons of a skin, a second tab
or a second device do send;
[what follows](#where-code-and-documents-part) is described below.

**Consolidation.** `ReadPosition`, `ReadMessages`, `Extract`, `ReadMarks` and
`WriteMarks` are the sessions, checkpointer reads and graph runs of
`consolidate(job)`, one each. `WriteMarks` writes the values computed from the row
as it was read, and only the columns that changed, as SQLAlchemy does.
`ConsolidateFails` ends it with an exception at any of them. Messages without text,
which `_conversation_text` leaves out, are not modelled: the extractor has nothing
to lose in them.

**Chat client.** JavaScript runs a function up to its next `await`, so a step is
what runs between two awaits. `Op` are runs of `selectThread`, `startThread`,
`removeThread` and `send`: each has its own locals (`thread`, `seq`, `request`,
`last`), any number wait at once, and the server answers in any order, or fails.
`thread` and `by` of a message, and the runs in its `text`, are what the
properties ask about it; the words are left out. `smooth` is a history variable:
it turns false when a load that mattered fails or is overtaken by a send or a
removal, which is where the code gives no guarantee.

**Rate limit and replies.** A request takes its moment in one step (`Arrive`) and
is counted in a later one (`Count`: upsert, purge and commit are one transaction),
at most `MaxDelay` seconds after. Behind the limit, each SELECT of
`load_agent_context` is a step, and so are the checkpoint with the new message
(`Ask`), the answer (`Respond`: the facts are read and the prompt is put together)
and the two halves of `record_turn`. A prompt is a sequence of blocks; a source, a
role's text or a fact is a value, and a fact has a number of tokens. `first` and
`last` of a request are history: the configuration when the agent was first and
last read. `Restart` is a new process, which asks the provider for the size of
its window again.

**Memory.** One namespace. A listing is one step per page, in the order of the
store (by `updated_at`, youngest first), a forgetting and a persisting one step per
fact, all of them interleaved. `banned` is a history variable: facts deleted while
no consolidation was under way and no turn that tells them was waiting.

**Event stream.** `produce` puts items, `events` takes them, and between taking and
sending a response can be cancelled. Bytes are symbols, and the network may cut
between any two of them. `Timeout` may come at any moment, also when the queue is
not empty.

**Accounts.** A request is two or three steps: it reads and checks, and commits
later, in any order with others. `update_me` flushes the row before it selects the
sessions to close, and so holds its lock, which `Locked` and `NameWaits` say. A
unique index decides at the commit. `opened` and `late` of a session and `closings`
are history: which closing a session knows of, and whether its login overlapped one.

**Catalogue, avatars and seed.** The three tables share their handlers: load and
check, commit, and, for avatars, removing the old file. `BreakOff` ends a request
between two steps. Foreign keys with `SET NULL` and `CASCADE` are part of
`DeleteCommit`. The seed reads roles and sources in `Seed`, the names of the
sources and its agent in `SeedCommit`. `spoilt` is a history variable: requests on
one avatar overlapped, or one broke off.

**Migration.** The first phase is one transaction; after it every read of a
transcript, import, mark, listing of facts and write of a fact is a step, and
`Crash` may come before each. Between them, and between runs, `Others` are turns,
renames, logins, consolidations, forgetting and edits of the new system. The legacy
tables are constants: `MCMigration` has one case for each rule of the reader (a role
that is not there, a link to nothing, a message without text, a session without an
agent, one without a readable date, two sessions with one key, facts that are equal
when normalised). A date is a number, 0 where it cannot be read. Such a session gets
the present moment as its `created_at`: dates that no legacy row has, and a later one
for each thread that is made (`CreatedAt`).

## Runs

| run | shows | bounds |
| --- | --- | --- |
| `QueueSafety` | types; `OverlapBounded`; `ImplementsWorkQueue`; `JobSettles` | 2 jobs, 2 workers, 2 attempts, batches of 2 |
| `ConsolidationSafety` | `NoMessageSkipped`, `NoTurnLost`, `CompletedCoversOlder`, `MarksAfterExtraction` | 1 thread, 2 turns, 2 workers, 2 attempts, batches of 2 |
| `ConsolidationLive` | `TurnsExtracted` | 1 thread, 2 turns, 1 worker, 2 attempts |
| `HostileClients` | `NoOrphanJob` with concurrent sends and failing deletions | 2 threads, 2 requests, 2 jobs, batches of 2 |
| `ChatPage` | `OneLiveStream`, `BoxFollowsStream`, `ShowsSelected`, `BoxComesBack` | 2 threads, 3 overlapping runs, up to 2 stored messages |
| `Replies` | `WindowLimit`, `PromptOfOneMoment`, `PrefixStable`, `InjectionFits`, `MetadataKept` | 1 user and thread, 2 overlapping requests, 3 messages, windows of 1 s with 1 message, 2 steps of the others |
| `Memory` | `ForgetComplete`, `ForgottenStaysForgotten`, `ShownInOrder` | 2 facts, pages of 1, 2 consolidations, 1 request at a time, 2 turns |
| `ReplyStream` | `ReadInOrder`, `OutcomeTold`, `ResponseEnds` | 2 chunks besides the last, 1 heartbeat, any cut of the bytes |
| `Accounts` | `OldSessionsClosed`, `AdminLostOnlyByOverlap`; in the types: unique names, no session without a user | 3 users, 3 names, 2 passwords, 3 sessions, 2 requests at a time, 3 in all |
| `Catalog` | `AvatarHasFile`, `NoOrphanFiles`, `SeedAllOrNothing`; in the types: unique keys, no dangling reference | 2 roles, 1 source, 2 agents, 2 keys, 2 files, 2 requests at a time, 5 in all |
| `Migration` | `ImportedOnce`, `RunCompletes`, `UsersLeftAlone`; in the types: no fact twice | the instance of `MCMigration`, 6 threads, 3 runs, 2 steps of the others |
| `MigrationMarks` | one disagreement, see [below](#where-code-and-documents-part) | the same |

Why the bounds are enough to be interesting:

* Two workers and two attempts let a lease run out, be taken by the other worker
  and be closed late by the first. The theorem has any number of both.
* Two jobs of one thread make the younger job cover, be covered by, or overtake
  the older one; batches of two put both in one worker, which matters because the
  second job of a batch waits under a lease that may already have run out.
* Two turns (four messages) are the least in which a mark can be beyond one turn
  and short of another.
* Two threads and two requests in `HostileClients` let a batch mix the jobs of a
  thread that is deleted with those of one that stays, while the other request
  records a turn.
* Three runs on the page are a reply that streams, a selection or deletion that
  overtakes it and a second send; or a load between two selections.
* A window of one second and a delay of one let a request be counted in a window
  that is over while the next one purges; two steps of the others are the two
  edits that make a prompt of no moment, so that the run also reaches the case
  that `PromptOfOneMoment` excludes.
* With a page of one fact every listing takes several calls, and two
  consolidations write between them.
* Three requests are two that overlap and one after both; the first state has two
  administrators with a session each, one of them with a hash of the old system.
* Five requests on the catalogue make a row, give it an avatar and a link, and let
  two more overlap on it, a seed among them.
* Three runs of the migration are one that crashes, one that ends and one more; two
  steps of the others are a turn and a rename between them, or two that spoil one
  namespace. Six threads are enough for all of it: three runs make at most three for
  the session without a date, one for the other key, and one more for each rename.

Every type invariant carries what the constraints of the tables and the content
keys are for, besides the types.

Symmetry is used for workers, requests, ids and facts, which the code does not tell
apart, and never in a run of a liveness property. Deadlock is checked in the
queue and consolidation runs, which never stop; in the others users may stop, the
reply is over or a bound is reached.

`MaxMessages`, `MaxStored`, `MaxRequests`, `MaxRuns`, `MaxLive`, `MaxSends`,
`MaxOthers`, `MaxTurns`, `MaxTime`, `MaxChunks`, `MaxBeats` and the sets bound what
happens in a run, not what the code allows; the theorems do not depend on them.

## Fairness

Liveness assumes what the deployment gives:

* WF on `Return`, `Raise`, `Consolidate`, `ConsolidateFails`: the event loop runs
  tasks that are ready, and the model client has a timeout, so an extraction ends.
* WF on the steps that close a job or abandon it: a database call answers or
  fails. It may fail every time.
* WF on `Expire`: time passes. WF on `Restart`: a process that dies is started
  again.
* SF on `ClaimSelect` and `ClaimCommit`: crashes and failures keep disabling
  them, but a worker that polls again and again gets through in the end. WF would
  let a crash come just before every commit for ever, which the polling loop
  cannot help.
* WF on `Finish` in the page: a reply ends, its connection breaks, or its request
  was aborted. Nothing is assumed of the user, of loads, or of chunks.
* In `ReplyStream`, WF on the end of the graph run (it answers or fails: the model
  client has a timeout), on a cancelled task, and on the response. Nothing is
  assumed of the page.

`JobSettles` and `TurnsExtracted` both allow a job to end with its attempts used
up. That is what the code does: `claim()` skips such rows for good.

## Proofs

TLAPS checks 46 listed theorems, for any number of jobs, workers, threads,
requests, clients, runs, facts, pages, users, sessions, rows, files, chunks and
heartbeats, and for any legacy database. They state every property of the passing
runs but the four of liveness. Their assumptions are those the constants need:

* `JobAssumption` (jobs are positive naturals), `LimitAssumption` (at least one
  attempt and a batch of at least one; in `RateLimit`, a limit and a window of at
  least one and no delay longer than a window), `TurnsAssumption`, `WorkersFinite`
  (so that workers can be counted) and `ClientAssumption`.
* `MemoryAssumption`: a page holds at least one fact, and requests are not workers.
* `RepliesAssumption`: the empty role, the key of the basic prompt and the mark of a
  role that is gone are told from roles and prompts; costs are numbers.
* `AccountsAssumption`: the first rows satisfy the unique index on names and the
  foreign key of sessions.
* `CatalogAssumption` and `SeedIsConsistent`: the three tables have ids of their own,
  no key or file is the mark of an absent one, and the seed refers to nothing it does
  not have, as its validator demands.
* `MigrationAssumption`: threads are numbered in the order they are made, and the
  legacy tables are what `read_legacy` makes of any old database. The ids of sessions
  are a primary key, users have one of two roles, dates are before `Late`, and no
  legacy message is the mark of one of the new system.

Bounds on what happens in a run (`MaxRequests`, `MaxTurns`, ...) are any numbers.

**Queue** (first part of `ConsolidationProofs`). Types with `attempts <= MaxAttempts`, and
the refinement. Neither is inductive alone. `QueueInv` adds that the rows a claim
has locked stay queued and below `MaxAttempts` until it commits, that no two
claims have locked the same row, and that what a worker holds was delivered to
it; the last is what makes `Complete` an `Acknowledge` of `WorkQueue`.

**Leases** (second part of `ConsolidationProofs`). `OverlapBounded` by counting, from the invariant
that a row locked by a claim has no lease in force: only the commit of a claim
adds a holder, and it takes a lease; a lease is given up only by running out, or
by a holder that leaves.

**Consolidation** (third part of `ConsolidationProofs`). No invariant the runs check is
inductive, since a mark is written long after the values that justify it were
read. `Inv` says what each worker knows at each step. The argument:

1. the transcript of a thread nobody is deleting only grows, because its only
   run's copy *is* the transcript;
2. `created_at` is taken after the reply was saved, so whoever reads the
   transcript on behalf of job *j* sees the turns of every job up to *j*;
3. the window a worker read stays a prefix of the transcript, and everything
   before the position it started from was extracted;
4. so once `Extract` is done the whole window has been extracted, and it holds
   every turn up to *j*: both marks are covered, however old the row was that
   they are computed from.

`NothingSkipped`, `NoRecordedTurnLost`, `OlderTurnsCovered` and
`ExtractedBeforeMarked` need `Discipline == SerialSends /\ ~DeletesMayAbort`:
step 1 fails without either half, and both properties of the marks with it.
`TypeCorrect`, `NoJobOrphaned` and `SystemImplementsQueue` hold for every client. The last one says that the
composition still implements `WorkQueue`.

**Rate limit** (first part of `RepliesProofs`). `WindowLimit` is not inductive, since
a purge could take a row that a late request still counts on. `LimitInv` adds that
what was let in is at most the count of its row unless the row was purged, and that a
purged window is too old for any request that has its moment: the purge keeps one whole
window, and `MaxDelay <= Window`. `RetryWithinWindow` bounds `retry_after`.
`LimitHolds` is about the limiter alone, `LimitKept` about the messages behind it.

**Replies** (`RepliesProofs`). `RepliesInv` follows a request through the reads of
`load_agent_context`:

1. a request has read what the tables hold, or was overtaken by one edit and is on its
   way to the configuration before or after it (`PlanOK`, `BriefOK`); a second edit
   between its reads is the case that `PromptOfOneMoment` leaves out, because the code
   gives nothing there;
2. the history a run copied goes on from the prompt that is kept for comparison
   (`GoesOn`), which is made of the transcript (`KeptOK`), and the agent was read
   after that prompt was made (`After`): so, without an edit, the next prompt begins
   with all of it;
3. `Injectable` stops before the fact that would not fit; that such a greatest prefix
   exists is proved by induction along the listing, so what is injected costs at most 40 % of a published window (`Fits`);
4. what `record_turn` read is still in the row, unless two requests of the thread were
   in it at once (`RowOK`, `AloneOK`).

**Memory** (`MemoryProofs`). The store keeps two orders of the same facts, by
creation and by update. For each forgetting, a fact it must remove is already listed,
on a page still to come, or gone (`Ahead`): a write moves facts to later pages, never
to one that was read. For a reading that nothing disturbed, the pages read hold every
fact up to its offset (`Seen`), so at the last page it has them all, and sorting them by
creation gives a prefix of the store's order (`FactsKeepPlace`). No consolidation
has a banned fact in hand, and none will be shown one (`WorkerOK`, `BannedOK`).
`Only`, which sorts and filters, is a recursive function on sequences; what it returns
is proved with a least counterexample (`LeastNumber`).

**Event stream** (`ReplyStreamProofs`). Its constants only bound chunks and
heartbeats, and any numbers will do.

1. `Parse` is a recursive function over the bytes. What it says of a sequence is what
   it says of a first part, followed by what it says of the buffer that is left and the
   second part (`ParseConcat`, by induction over the second part with a least
   counterexample); and it gives back the event that `Encode` put in (`ParseEncoded`).
2. So a step of the network or of the parser changes nothing in `Sent`, the events
   read so far with those the parser will make of its buffer and the wire. Only the
   response adds to it (`WireOK`).
3. While the response reads the queue, `Said` (that is `Sent` with the event it is
   about to yield) and the queue together are the chunks that were made, in order;
   behind "done" or "error" nothing is said (`HeardOK`, `LoopOK`).
4. A turn is recorded only with the text of a whole reply, and the response says
   "done" just when it was (`RecordOK`, `TurnOK`, `HeardOK`), hence `OutcomeTold`.

**Page** (`ChatClientProofs`). Requests and loads have numbers of their own; a
reply still read has the last number and is the one `controller` aborts; the text
box is disabled for it, and while it is disabled the run that enables it again is
there. For `ShowsTheSelected`, `SmoothInv` adds that while the awaited load is under
way no reply is being read, and that a reply which is read finds its own bubble at the
index it remembers.

**Accounts** (`AccountsProofs`). `OldSessionsClosed` needs to know what a request that
closes sessions has in hand between its SELECT and its commit: every open session of
the user but those of overlapping logins (`ClosersSee`). It holds while the request
waits because a login notes the number of closings when it reads the user, and a
session opened after that is marked late. A change of password spares only sessions of
its own user (`OwnSessions`). That closings are at most `MaxRequests` is a counting
argument: each used up a request (`CountsOK`). `AdminKept` follows from the guards
of `cannot_modify_self`, which make an administrator unable to take the role from
himself (`UpdateRequest`, `DeleteRequest`): who removes the last one was not an
administrator any more.

**Catalogue** (`CatalogProofs`). `TablesInv` is what the constraints are for, with what
each request may carry (a row that exists or existed, since ids are not used again).
`FilesInv` says who may name or remove a file: no two rows have one file, a new file
belongs to the one request that will name it, a file to be removed is named by no row
but the one its request changes, and, unless `spoilt`, who changes an avatar is alone
on its row, so that the path it read is still the row's when it commits. `SeedComplete` is about a single step, but its two
outcomes depend on references that lead somewhere and on keys that are unique.

**Migration** (`MigrationProofs`). `MigrationInv` has a part for the data, which holds
whatever the others do, and one for a run.

1. *Data* (`DataInv`). The threads of a run are made one session after the other by a
   recursive function, so what it keeps is proved by induction over the sessions: each
   session gets a thread with its agent, title and date or one that a user renamed, and
   no two threads with names of their own agree in all three (`OneThreadPerKey`). A
   readable date comes before `Late`, one that was made up after it, and these differ
   as their threads do.
2. Between the last look at a transcript and the import, the others can only add
   turns of their own (`append` in `RunInv`). So a transcript holds the messages of one
   session once and whole, with live turns around them, or live turns only
   (`ImportInv`, which is `ImportedOnce`).
3. *Run* (`CompleteInv`). A run that is alone has dealt with every session and every
   namespace before the one it is at, and what it dealt with stays: a transcript that
   is not empty, a mark behind the last legacy message, facts that are stored under
   their keys. `Deduplicate` leaves out only what is stored, and a write keeps what a
   namespace has. At the end these are all, which is `RunCompletes`.

`UsersLeftAlone` follows from the upsert of users, which is a recursive function as well.

Only model-checked are `JobSettles`, `TurnsExtracted`, `BoxComesBack` and `ResponseEnds`:
liveness under fairness is out of the prover's reach.

## Where code and documents part

One run is expected to fail.

* `MigrationMarks`: the head of `migrate_from_sqlite.py` says that
  `last_consolidated_*` of an existing thread "no se toca". A second run sets the
  mark to the length of the transcript, turns that users added after the first run
  included, and the worker never extracts them.

Others are reached by the models and are not runs of their own. What holds instead
is a property; what does not hold follows from the named definition.

* `consolidation.py:68` says a claimed job is not claimed again until its lease
  runs out. `fail()` clears `claimed_at` by job id (`FailWrite`), so a worker whose
  own lease ran out frees the lease of its successor. `OverlapBounded` holds.
* ADR 0022 says the position advances "con `max()`, para no retroceder". `max()` is
  taken over an unlocked read (`ReadMarks`, `WriteMarks`), and the position can go
  back. Work is repeated, none is lost (`NothingSkipped`).
* ADR 0014 says deleting a thread deletes its checkpoint. A run of the graph that
  is under way saves it again (`Ask`, `Answer` after `DeleteTranscript`).
* With `SerialSends = FALSE` two requests on one thread fork its checkpoint, one
  turn is replaced and its job completed without it (`NoTurnLost` fails); with
  `DeletesMayAbort = TRUE` the position outlives the messages it counted and the
  next turns are skipped (`NoMessageSkipped` fails). Both are against the docstring
  of `consolidate` ("garantiza que ningun turno quede sin extraer").
* `Chat.svelte:40` says the sequence numbers keep the tokens of one thread out of
  the array of another. `selectThread` enables the text box before its load
  answers; what is sent then is appended to the previous thread's messages.
* The head of `migrate_from_sqlite.py` also says "Dos corridas dejan lo mismo". A
  session whose date cannot be read gets the present moment (`CreatedAt`), by which no
  later run finds its thread, so every run makes another one and imports the
  conversation there again. `ImportedOnce` holds all the same: it is about one thread.
* A login with a hash of the old system writes the hash of the password it
  verified (`LoginRehash`), also when the user has set another one meanwhile.
* The head of `consolidation.py` says of a turn's job that there is "no forma de
  perderlo". Turn and job do commit together, but the reply is in the checkpointer
  before that; a client that leaves in between leaves a turn in the transcript
  without a job. A later turn's job extracts it (`CompletedCoversOlder` is about
  recorded turns only).

## What is not modelled

* Words: texts, errors, layout. A message is its number and role, a prompt a
  sequence of blocks, a fact its normalised content.
* The in-memory fake queue, and the drain of the loop in `stop()`: `Crash` covers
  its effect on the table.
* Lists and pages of threads and users, the read-only pages of `api/v1/admin.py`.
* In `Replies`: limits of zero (which turn the limiter off), clocks of hosts that
  differ, several threads of a user (each has a row of its own), the deletion of the
  agent, which takes its threads with it. `Restart` takes all processes down at
  once.
* In `Memory`: the first listing of a consolidation, whose facts only go into the
  prompt of the extractor; one thread tells the agent everything. A listing that was
  disturbed may show a fact twice or miss one; `ShownInOrder` leaves it out.
* In `ReplyStream`: backpressure (the response is always able to write), several
  replies at once (they share nothing), and `\r\n` cut between two chunks, which
  the parser does not normalise and the server never sends.
* In `Accounts`: expiry by time, CSRF tokens, cookies, limits by address, rules of
  the password policy (`Weak` is any set of refused passwords). One name stands for
  username and e-mail, which have an index each.
* In `Catalog`: limits on size and type of an upload, downloads, several canonical
  agents, and the export of the seed.
* In `Migration`: the backup, the report, the dry run, the comparison with golden
  data, and threads deleted between two runs. A forgotten fact is written again by the
  next run, as the code says.
* On the page: the list in the sidebar, renaming, the memory panel.
* Administration pages, configuration, logging, metrics, static files, generated
  code and feasibility scripts: no protocol of their own.

## Plan

Expiry of sessions by time, and the drain of the worker in `stop()`.
