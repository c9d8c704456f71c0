----------------------------- MODULE ChatClient -----------------------------
(***************************************************************************)
(* The chat page (frontend/src/lib/chat/Chat.svelte): the conversation it  *)
(* shows, the reply that streams into it and what the user does meanwhile. *)
(*                                                                         *)
(* JavaScript runs one function at a time up to its next await, so a step  *)
(* here is what a function does between two awaits; each action of the     *)
(* user starts a run of a function, and any number of runs may be waiting. *)
(* The list in the sidebar, renaming and the memory panel are left out: a  *)
(* list read before a deletion may still offer the thread, so any thread   *)
(* that was ever created can be clicked.                                   *)
(***************************************************************************)
EXTENDS Naturals, Sequences

CONSTANTS
  Thread,       \* threads that are there or will be created
  Op,           \* runs of selectThread, startThread, removeThread and send
  Nothing,      \* null: no thread, no controller
  MaxStored     \* bound: messages a thread has on the server when it is loaded

ASSUME ClientAssumption == Nothing \notin Thread \cup Op /\ MaxStored \in Nat

VARIABLES
  currentId,    \* the selected thread
  messages,     \* what is shown
  streaming,    \* the text box is disabled
  controller,   \* the run whose request can be aborted
  requestSeq,   \* number of the last request
  loadSeq,      \* number of the last load
  at,           \* where each run is
  thread,       \* local of each run: the thread it is for
  sends,        \* each run: it is a send
  seq,          \* local of selectThread
  request,      \* local of send: requestId
  last,         \* local of send: where its bubble is, counting from 1
  aborted,      \* runs whose request was aborted
  known,        \* threads created so far
  smooth        \* history: no load that mattered failed, or was overtaken by a send or a deletion

localVars == <<thread, sends, seq, request, last>>
pageVars == <<currentId, messages, streaming, controller, requestSeq, loadSeq, aborted, known>>
clientVars == <<pageVars, at, localVars, smooth>>

\* A message on the page: its thread, the run that put it there (Nothing if it was
\* loaded) and the runs whose chunks were appended to it.
Shown == [thread : Thread, by : Op \cup {Nothing}, text : SUBSET Op]

(***************************************************************************)
(* ready      the user has not done it yet                                 *)
(* creating   startThread waits for createThread and refreshThreads        *)
(* loading    selectThread waits for listMessages                          *)
(* streaming  send waits for the next event of its reply                   *)
(* deleting   removeThread waits for deleteThread                          *)
(***************************************************************************)
RunPlace == {"ready", "creating", "loading", "streaming", "deleting", "done"}

ClientInit ==
  /\ currentId = Nothing
  /\ messages = <<>>
  /\ streaming = FALSE
  /\ controller = Nothing
  /\ requestSeq = 0
  /\ loadSeq = 0
  /\ at = [o \in Op |-> "ready"]
  /\ thread = [o \in Op |-> Nothing]
  /\ sends = [o \in Op |-> FALSE]
  /\ seq = [o \in Op |-> 0]
  /\ request = [o \in Op |-> 0]
  /\ last = [o \in Op |-> 0]
  /\ aborted = {}
  /\ known \in SUBSET Thread
  /\ smooth = TRUE

-----------------------------------------------------------------------------
\* Faulty: the answers are shown as they come.
LatestAny(o) == TRUE

\* No other thread was selected after run o selected its own.
Latest(o) == seq[o] = loadSeq

\* Faulty: the thread is there because startThread came back.
GoesOnAnyway(o) == sends[o]

\* A send that had no thread has one now: the one selected by its startThread, or
\* another one, or none if it was deleted meanwhile.
GoesOn(o) == sends[o] /\ currentId # Nothing

\* The load whose answer will be shown is still under way, not counting run o.
LoadPending(o) ==
  \E q \in Op \ {o} : at[q] = "loading" /\ seq[q] = loadSeq

\* The reply of o is still wanted by whoever holds its signal.
Live(o) == at[o] = "streaming" /\ o \notin aborted

\* cancelStream().
CancelStream ==
  /\ aborted' = aborted \cup ({controller} \ {Nothing})
  /\ controller' = Nothing

\* selectThread up to its await.
BeginSelect(o, t) ==
  /\ CancelStream
  /\ streaming' = FALSE
  /\ loadSeq' = loadSeq + 1
  /\ currentId' = t
  /\ at' = [at EXCEPT ![o] = "loading"]
  /\ thread' = [thread EXCEPT ![o] = t]
  /\ seq' = [seq EXCEPT ![o] = loadSeq + 1]
  /\ UNCHANGED <<messages, requestSeq, sends, request, last, smooth>>

\* Faulty: the request before this one goes on.
BeginStreamBesides(o, t, shown) ==
  LET said == [thread |-> t, by |-> o, text |-> {}] IN
  /\ controller' = o
  /\ requestSeq' = requestSeq + 1
  /\ messages' = shown \o <<said, said>>
  /\ streaming' = TRUE
  /\ at' = [at EXCEPT ![o] = "streaming"]
  /\ thread' = [thread EXCEPT ![o] = t]
  /\ sends' = [sends EXCEPT ![o] = TRUE]
  /\ request' = [request EXCEPT ![o] = requestSeq + 1]
  /\ last' = [last EXCEPT ![o] = Len(shown) + 2]
  /\ smooth' = (smooth /\ ~LoadPending(o))
  /\ UNCHANGED <<currentId, loadSeq, aborted, known, seq>>

\* send from cancelStream() to its first await, with shown on the page.
BeginStream(o, t, shown) ==
  LET said == [thread |-> t, by |-> o, text |-> {}] IN
  /\ aborted' = aborted \cup ({controller} \ {Nothing})
  /\ controller' = o
  /\ requestSeq' = requestSeq + 1
  /\ messages' = shown \o <<said, said>>
  /\ streaming' = TRUE
  /\ at' = [at EXCEPT ![o] = "streaming"]
  /\ thread' = [thread EXCEPT ![o] = t]
  /\ sends' = [sends EXCEPT ![o] = TRUE]
  /\ request' = [request EXCEPT ![o] = requestSeq + 1]
  /\ last' = [last EXCEPT ![o] = Len(shown) + 2]
  /\ smooth' = (smooth /\ ~LoadPending(o))
  /\ UNCHANGED <<currentId, loadSeq, known, seq>>

Ends(o) == at' = [at EXCEPT ![o] = "done"]

\* Faulty finally blocks: any request gives the text box back; only one that can
\* still be aborted does.
EndStreamAlways(o) ==
  /\ Ends(o)
  /\ streaming' = FALSE
  /\ controller' = Nothing
  /\ UNCHANGED <<currentId, requestSeq, loadSeq, aborted, known, localVars, smooth>>

EndStreamHeld(o) ==
  /\ Ends(o)
  /\ IF controller = o
       THEN streaming' = FALSE /\ controller' = Nothing
       ELSE UNCHANGED <<streaming, controller>>
  /\ UNCHANGED <<currentId, requestSeq, loadSeq, aborted, known, localVars, smooth>>

\* The finally block of send: only the last request gives the text box back.
EndStream(o) ==
  /\ Ends(o)
  /\ IF request[o] = requestSeq
       THEN streaming' = FALSE /\ controller' = Nothing
       ELSE UNCHANGED <<streaming, controller>>
  /\ UNCHANGED <<currentId, requestSeq, loadSeq, aborted, known, localVars, smooth>>

-----------------------------------------------------------------------------
\* A click on a thread, or the first one selected by onMount.
Select(o, t) ==
  /\ at[o] = "ready"
  /\ t \in known
  /\ BeginSelect(o, t)
  /\ UNCHANGED known

\* The button for a new conversation.
Start(o) ==
  /\ at[o] = "ready"
  /\ at' = [at EXCEPT ![o] = "creating"]
  /\ UNCHANGED <<pageVars, localVars, smooth>>

\* The text box or a command button.  The latter is not disabled by streaming.
Send(o) ==
  /\ at[o] = "ready"
  /\ \/ /\ currentId = Nothing
        /\ at' = [at EXCEPT ![o] = "creating"]
        /\ sends' = [sends EXCEPT ![o] = TRUE]
        /\ UNCHANGED <<pageVars, thread, seq, request, last, smooth>>
     \/ /\ currentId # Nothing
        /\ BeginStream(o, currentId, messages)

\* The server has created the thread, and startThread selects it.
Created(o) ==
  /\ at[o] = "creating"
  /\ \E t \in Thread \ known :
       /\ known' = known \cup {t}
       /\ BeginSelect(o, t)

\* listMessages answers: an answer that is not the latest is not shown.
Loaded(o) ==
  LET stored(n) == [i \in 1 .. n |-> [thread |-> thread[o], by |-> Nothing, text |-> {}]]
      shown(n) == IF Latest(o) THEN stored(n) ELSE messages
  IN  /\ at[o] = "loading"
      /\ \E n \in 0 .. MaxStored :
           \/ /\ GoesOn(o)
              /\ BeginStream(o, currentId, shown(n))
           \/ /\ ~GoesOn(o)
              /\ messages' = shown(n)
              /\ Ends(o)
              /\ UNCHANGED <<currentId, streaming, controller, requestSeq, loadSeq,
                             aborted, known, localVars, smooth>>

\* createThread, refreshThreads, listMessages or deleteThread fails; when
\* refreshThreads does, the new thread is there but not selected.
Fails(o) ==
  /\ at[o] \in {"creating", "loading", "deleting"}
  /\ Ends(o)
  /\ smooth' = (smooth /\ ~(at[o] = "loading" /\ seq[o] = loadSeq))
  /\ \/ UNCHANGED known
     \/ /\ at[o] = "creating"
        /\ \E t \in Thread \ known : known' = known \cup {t}
  /\ UNCHANGED <<currentId, messages, streaming, controller, requestSeq, loadSeq,
                 aborted, localVars>>

\* The next chunk arrives (none does after abort()): a stale reply ends the loop,
\* and so does one whose bubble is not there (messages[last] is undefined).
Chunk(o) ==
  LET stale == request[o] # requestSeq \/ currentId # thread[o]
  IN  /\ Live(o)
      /\ \/ /\ stale \/ last[o] > Len(messages)
            /\ EndStream(o)
            /\ UNCHANGED messages
         \/ /\ ~stale /\ last[o] <= Len(messages)
            /\ messages' = [messages EXCEPT ![last[o]] =
                 [thread |-> @.thread, by |-> @.by, text |-> @.text \cup {o}]]
            /\ UNCHANGED <<currentId, streaming, controller, requestSeq, loadSeq,
                           aborted, known, at, localVars, smooth>>

\* The reply ends, fails, or its request was aborted.
Finish(o) ==
  /\ at[o] = "streaming"
  /\ EndStream(o)
  /\ UNCHANGED messages

\* removeThread up to its await.
Remove(o, t) ==
  /\ at[o] = "ready"
  /\ t \in known
  /\ IF t = currentId THEN CancelStream ELSE UNCHANGED <<aborted, controller>>
  /\ at' = [at EXCEPT ![o] = "deleting"]
  /\ thread' = [thread EXCEPT ![o] = t]
  /\ UNCHANGED <<currentId, messages, streaming, requestSeq, loadSeq, known,
                 sends, seq, request, last, smooth>>

\* deleteThread answers.
Removed(o) ==
  /\ at[o] = "deleting"
  /\ Ends(o)
  /\ \/ /\ currentId = thread[o]
        /\ currentId' = Nothing
        /\ messages' = <<>>
        /\ smooth' = (smooth /\ ~LoadPending(o))
     \/ /\ currentId # thread[o]
        /\ UNCHANGED <<currentId, messages, smooth>>
  /\ UNCHANGED <<streaming, controller, requestSeq, loadSeq, aborted, known, localVars>>

ClientNext ==
  \E o \in Op :
    \/ \E t \in Thread : Select(o, t) \/ Remove(o, t)
    \/ Start(o) \/ Send(o) \/ Created(o) \/ Loaded(o) \/ Fails(o)
    \/ Chunk(o) \/ Finish(o) \/ Removed(o)

ClientSpec == ClientInit /\ [][ClientNext]_clientVars

\* The server ends every reply, or the connection breaks; an aborted one rejects.
ClientFairSpec == ClientSpec /\ \A o \in Op : WF_clientVars(Finish(o))

-----------------------------------------------------------------------------
\* Types of the page.
ClientTypeOK ==
  /\ currentId \in Thread \cup {Nothing}
  /\ messages \in Seq(Shown)
  /\ streaming \in BOOLEAN
  /\ controller \in Op \cup {Nothing}
  /\ requestSeq \in Nat
  /\ loadSeq \in Nat
  /\ at \in [Op -> RunPlace]
  /\ thread \in [Op -> Thread \cup {Nothing}]
  /\ sends \in [Op -> BOOLEAN]
  /\ seq \in [Op -> Nat]
  /\ request \in [Op -> Nat]
  /\ last \in [Op -> Nat]
  /\ aborted \in SUBSET Op
  /\ known \in SUBSET Thread
  /\ smooth \in BOOLEAN

\* At most one reply is being read, and it is the one of the last request, which
\* the page can still abort, whatever is selected, started, deleted or sent while
\* it streams (cancelStream, requestSeq).
OneLiveStream ==
  \A o \in Op : Live(o) => controller = o /\ request[o] = requestSeq

\* The text box is disabled while a reply is being read, and only as long as the
\* run that will enable it again is there (the finally block of send).
BoxFollowsStream ==
  /\ \A o \in Op : Live(o) => streaming
  /\ streaming => \E o \in Op : at[o] = "streaming" /\ request[o] = requestSeq

\* Answers may come in any order: unless a load failed, or was overtaken by a send
\* or a deletion, the page shows the thread that is selected once it is loaded,
\* and each reply in the bubble of its own request (loadSeq, currentId, last).
ShowsSelected ==
  smooth =>
    /\ (\A o \in Op : ~(at[o] = "loading" /\ seq[o] = loadSeq)) =>
         \A i \in 1 .. Len(messages) : messages[i].thread = currentId
    /\ \A i \in 1 .. Len(messages) : messages[i].text \subseteq {messages[i].by}

\* The text box never stays disabled (the finally block of send).
BoxComesBack == streaming ~> ~streaming
=============================================================================
