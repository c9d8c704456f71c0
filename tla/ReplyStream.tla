----------------------------- MODULE ReplyStream -----------------------------
(***************************************************************************)
(* One reply on its way from the model to the page: the task that runs the *)
(* chat graph, the queue between it and the response (send_message in      *)
(* backend/app/api/v1/chat.py), the bytes on the wire, and the parser that *)
(* makes events of them again (lib/chat/sse.ts, lib/api/chat.ts).  What    *)
(* the graph saves, and jobs, are in ThreadTurns.                          *)
(***************************************************************************)
EXTENDS Naturals, SequencesExt

CONSTANTS
    MaxChunks,  \* bound on the chunks of a reply
    MaxBeats    \* bound on heartbeats

ASSUME StreamAssumption == MaxChunks \in Nat /\ MaxBeats \in Nat

VARIABLES
    producer,   \* the task of produce(): running, cancelled or ended
    queue,      \* what it put and events() has not taken
    at,         \* where events() is
    text,       \* response_text
    sending,    \* the event to be yielded, and where events() goes on from there
    beats,      \* heartbeats so far
    row,        \* is the row of the thread there?
    turn,       \* the reply that a committed turn records
    wire,       \* what was sent and not read
    buffer,     \* of createSseParser()
    read,       \* the events that streamMessage() has yielded
    client,     \* reading, gone (aborted or disconnected), or ended
    made, whole \* history: the chunks put, and did the graph run to its end?

server == <<producer, queue, at, text, sending, beats, row, turn, made, whole>>
page == <<buffer, read, client>>
vars == <<server, wire, page>>

Unrecorded == <<0>>
Idle == [event |-> "none", n |-> 0, next |-> "get"]

Init ==
    /\ producer = "running" /\ queue = <<>> /\ at = "get" /\ text = <<>> /\ sending = Idle
    /\ beats = 0 /\ row = "there" /\ turn = Unrecorded
    /\ wire = <<>> /\ buffer = <<>> /\ read = <<>> /\ client = "reading"
    /\ made = <<>> /\ whole = FALSE

\* ---- produce ---------------------------------------------------------------------

Item(kind, n) == <<[kind |-> kind, n |-> n]>>
EndWith(items) == producer = "running" /\ producer' = "ended" /\ queue' = queue \o items

PutChunk ==
    /\ producer = "running" /\ Len(made) < MaxChunks
    /\ made' = Append(made, Len(made) + 1)
    /\ queue' = queue \o Item("chunk", Len(made) + 1)
    /\ UNCHANGED <<producer, at, text, sending, beats, row, turn, whole, wire, page>>
\* The last chunk is empty (ChatChunk(done=True)).
Complete ==
    /\ EndWith(Item("chunk", 0) \o Item("finished", 0))
    /\ made' = Append(made, 0) /\ whole' = TRUE
    /\ UNCHANGED <<at, text, sending, beats, row, turn, wire, page>>
\* Faulty: the exception ends the task and nobody hears of it.
FaultyFail ==
    /\ EndWith(<<>>)
    /\ UNCHANGED <<at, text, sending, beats, row, turn, made, whole, wire, page>>
Fail ==
    /\ EndWith(Item("failed", 0))
    /\ UNCHANGED <<at, text, sending, beats, row, turn, made, whole, wire, page>>
Stop ==
    /\ producer = "cancelled" /\ producer' = "ended"
    /\ UNCHANGED <<queue, at, text, sending, beats, row, turn, made, whole, wire, page>>

\* ---- events() --------------------------------------------------------------------

Yield(event, n, next) == at' = "send" /\ sending' = [event |-> event, n |-> n, next |-> next]
Rest == UNCHANGED <<producer, row, made, whole, wire, page>>

TakeChunk ==
    /\ at = "get" /\ queue # <<>> /\ Head(queue).kind = "chunk"
    /\ text' = IF Head(queue).n = 0 THEN text ELSE Append(text, Head(queue).n)
    /\ Yield("chunk", Head(queue).n, "get")
    /\ queue' = Tail(queue) /\ UNCHANGED <<beats, turn>> /\ Rest
TakeFailed ==
    /\ at = "get" /\ queue # <<>> /\ Head(queue).kind = "failed"
    /\ Yield("error", 0, "closing")
    /\ queue' = Tail(queue) /\ UNCHANGED <<text, beats, turn>> /\ Rest
TakeFinished ==
    /\ at = "get" /\ queue # <<>> /\ Head(queue).kind = "finished" /\ at' = "record"
    /\ queue' = Tail(queue) /\ UNCHANGED <<text, sending, beats, turn>> /\ Rest
\* Faulty: the get() that is cancelled had already taken an item.
FaultyTimeout ==
    /\ at = "get" /\ beats < MaxBeats /\ beats' = beats + 1
    /\ Yield("heartbeat", 0, "get")
    /\ queue' = (IF queue = <<>> THEN queue ELSE Tail(queue)) /\ UNCHANGED <<text, turn>> /\ Rest
\* wait_for gives up, also when something is put at that very moment.
Timeout ==
    /\ at = "get" /\ beats < MaxBeats /\ beats' = beats + 1
    /\ Yield("heartbeat", 0, "get")
    /\ UNCHANGED <<queue, text, turn>> /\ Rest

\* record_turn raises LookupError when the thread is gone, and its commit finds
\* no row when the thread goes after that.
Record ==
    /\ at = "record" /\ at' = IF row = "there" THEN "commit" ELSE "closing"
    /\ UNCHANGED <<queue, text, sending, beats, turn>> /\ Rest
\* Faulty: "done" goes out whether the turn could be committed or not.
FaultyCommit ==
    /\ at = "commit" /\ turn' \in {turn, text} /\ Yield("done", 0, "closing")
    /\ UNCHANGED <<queue, text, beats>> /\ Rest
Commit ==
    /\ at = "commit" /\ row = "there" /\ turn' = text /\ Yield("done", 0, "closing")
    /\ UNCHANGED <<queue, text, beats>> /\ Rest
CommitFails ==
    /\ at = "commit" /\ at' = "closing"
    /\ UNCHANGED <<queue, text, sending, beats, turn>> /\ Rest

\* The client is gone: events() is cancelled where it waits.  A commit that was
\* sent may have happened.
Cancel ==
    /\ client = "gone" /\ at \in {"get", "send", "record", "commit"} /\ at' = "closing"
    /\ turn' \in {turn} \cup (IF at = "commit" /\ row = "there" THEN {text} ELSE {})
    /\ UNCHANGED <<queue, text, sending, beats>> /\ Rest

\* finally: the producer is cancelled and waited for.
Close ==
    /\ at = "closing" /\ at' = "gather"
    /\ producer' = IF producer = "running" THEN "cancelled" ELSE producer
    /\ UNCHANGED <<queue, text, sending, beats, row, turn, made, whole, wire, page>>
Gather ==
    /\ at = "gather" /\ producer = "ended" /\ at' = "closed"
    /\ UNCHANGED <<queue, text, sending, beats, turn>> /\ Rest

DeleteThread ==
    /\ row = "there" /\ row' = "gone"
    /\ UNCHANGED <<producer, queue, at, text, sending, beats, turn, made, whole, wire, page>>

\* ---- the wire and the page --------------------------------------------------------

Symbol(s) == <<s, 0>>
LF == Symbol("LF")
\* _event
Encode(event, n) ==
    <<Symbol("event:"), Symbol(event), LF, Symbol("data:"), <<"payload", n>>, LF, LF>>
Send ==
    /\ at = "send" /\ at' = sending.next
    /\ wire' = wire \o Encode(sending.event, sending.n) /\ sending' = Idle
    /\ UNCHANGED <<producer, queue, text, beats, row, turn, made, whole, page>>

\* parseEvent: the last line of each name counts; no data, no event.
Lines(raw, field) == {i \in 1 .. Len(raw) - 1 : raw[i] = Symbol(field)}
Value(raw, field) == raw[(CHOOSE i \in Lines(raw, field) : \A k \in Lines(raw, field) : k <= i) + 1]
ParseEvent(raw) ==
    IF Lines(raw, "data:") = {} THEN <<>>
    ELSE << [event |-> IF Lines(raw, "event:") = {} THEN "message" ELSE Value(raw, "event:")[1],
             n |-> Value(raw, "data:")[2]] >>
\* toChatEvent: heartbeats and unknown events are dropped.
Chat(events) ==
    IF events # <<>> /\ events[1].event \in {"chunk", "done", "error"} THEN events ELSE <<>>
\* Events end at an empty line; what comes after the last one stays in the buffer.
Push(acc, s) ==
    IF s = LF /\ acc.rest # <<>> /\ Last(acc.rest) = LF
    THEN [out |-> acc.out \o Chat(ParseEvent(Front(acc.rest))), rest |-> <<>>]
    ELSE [out |-> acc.out, rest |-> Append(acc.rest, s)]
Parse(bytes) ==
    LET upto[k \in 0 .. Len(bytes)] ==
          IF k = 0 THEN [out |-> <<>>, rest |-> <<>>] ELSE Push(upto[k - 1], bytes[k])
    IN  upto[Len(bytes)]

\* The network cuts the bytes anywhere.
Read ==
    /\ client = "reading"
    /\ \E k \in 1 .. Len(wire) :
         LET parsed == Parse(buffer \o SubSeq(wire, 1, k))
         IN  /\ read' = read \o parsed.out
             /\ buffer' = parsed.rest
             /\ wire' = SubSeq(wire, k + 1, Len(wire))
    /\ UNCHANGED <<server, client>>
EndOfBody ==
    /\ client = "reading" /\ at = "closed" /\ wire = <<>> /\ client' = "ended"
    /\ UNCHANGED <<server, wire, buffer, read>>
Leave ==
    /\ client = "reading" /\ client' = "gone"
    /\ UNCHANGED <<server, wire, buffer, read>>

Produce == PutChunk \/ Complete \/ Fail \/ Stop
Take == TakeChunk \/ TakeFailed \/ TakeFinished
Respond ==
    \/ Take \/ Timeout \/ Send \/ Record \/ Commit \/ CommitFails \/ Cancel \/ Close \/ Gather
Next == Produce \/ Respond \/ DeleteThread \/ Read \/ EndOfBody \/ Leave

Spec == Init /\ [][Next]_vars
\* The event loop runs what is ready, and the model answers or fails (the client
\* of the model has a timeout).  Nothing is assumed of the page.
FairSpec ==
    /\ Spec
    /\ WF_vars(Complete \/ Fail) /\ WF_vars(Stop)
    /\ WF_vars(Respond)

\* ---- properties ----------------------------------------------------------------------

Told(event) == \E i \in DOMAIN read : read[i].event = event

\* The page gets the chunks of the model in their order, none twice, and "done" or
\* "error" after all of them, once, and nothing after that: whatever heartbeats
\* interrupt the queue and wherever the network cuts (events, createSseParser).
ReadInOrder ==
    \A i \in DOMAIN read :
        IF read[i].event = "chunk" THEN i <= Len(made) /\ read[i].n = made[i]
        ELSE i = Len(read) /\ i = Len(made) + 1

\* A turn is recorded with the whole reply that the graph has saved, all but its
\* empty last chunk, or not at all; "done" tells that it was, "error" that it was
\* not; a page that was told neither knows nothing (record_turn before "done",
\* rollback before "error").
OutcomeTold ==
    /\ turn # Unrecorded => whole /\ turn \o <<0>> = made
    /\ Told("done") => turn # Unrecorded
    /\ Told("error") => turn = Unrecorded

\* Every response ends, and no task of its producer runs on after it (produce puts
\* "failed" on the queue, finally cancels and gathers).
ResponseEnds == <>[](at = "closed" /\ producer = "ended")
=============================================================================
