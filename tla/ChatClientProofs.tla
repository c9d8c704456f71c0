-------------------------- MODULE ChatClientProofs --------------------------
(***************************************************************************)
(* Proofs about ChatClient for any number of threads and of runs of the    *)
(* functions of the page.  The invariant says that requests and loads have *)
(* numbers of their own, that a reply which is being read is the one the   *)
(* page can abort and disables the text box, and, as long as the history   *)
(* is smooth, that a load which is awaited leaves no reply to be read.     *)
(***************************************************************************)
EXTENDS ChatClient, TLAPS

RequestNumbers ==
  /\ \A o \in Op : request[o] <= requestSeq
  /\ \A o, p \in Op :
       at[o] = "streaming" /\ at[p] = "streaming" /\ request[o] = request[p] => o = p

LoadNumbers ==
  /\ \A o \in Op : seq[o] <= loadSeq
  /\ \A o, p \in Op :
       at[o] = "loading" /\ at[p] = "loading" /\ seq[o] = seq[p] => o = p

LocalsGiven ==
  /\ \A o \in Op : at[o] \in {"loading", "streaming", "deleting"} => thread[o] \in Thread
  /\ \A o \in Op : at[o] = "streaming" => last[o] >= 2

PageInv ==
  /\ ClientTypeOK /\ RequestNumbers /\ LoadNumbers /\ LocalsGiven
  /\ OneLiveStream /\ BoxFollowsStream

-----------------------------------------------------------------------------
\* An element of a sequence may be replaced by another one of the same set.
LEMMA ReplaceInSeq ==
  ASSUME NEW S, NEW s \in Seq(S), NEW i \in 1 .. Len(s), NEW e \in S
  PROVE  [s EXCEPT ![i] = e] \in Seq(S) /\ Len([s EXCEPT ![i] = e]) = Len(s)
OBVIOUS

\* The empty page is a sequence of messages.
LEMMA EmptyShown == <<>> \in Seq(Shown)
OBVIOUS

\* What Loaded puts on the page is a sequence of messages (listMessages).
LEMMA StoredShown ==
  ASSUME ClientTypeOK, NEW o \in Op, thread[o] \in Thread, NEW n \in 0 .. MaxStored
  PROVE  [i \in 1 .. n |-> [thread |-> thread[o], by |-> Nothing, text |-> {}]] \in Seq(Shown)
<1>1. n \in Nat
  BY ClientAssumption
<1>2. [thread |-> thread[o], by |-> Nothing, text |-> {}] \in Shown
  BY DEF Shown
<1> QED
  BY <1>1, <1>2

\* The kinds of step: a selection, a request, the end of a reply, a chunk, a load
\* that is shown, a deletion, and the steps that touch neither page nor replies.
LEMMA StepKinds ==
  ASSUME ClientTypeOK, LocalsGiven, [ClientNext]_clientVars
  PROVE  \/ \E o \in Op, t \in Thread :
              BeginSelect(o, t) /\ at[o] \in {"ready", "creating"} /\ known' \in SUBSET Thread
         \/ \E o \in Op : Send(o)
         \/ \E o \in Op : Loaded(o)
         \/ \E o \in Op : EndStream(o) /\ at[o] = "streaming" /\ UNCHANGED messages
         \/ \E o \in Op : Chunk(o) /\ ~EndStream(o)
         \/ \E o \in Op : Start(o) \/ Fails(o) \/ Removed(o)
         \/ \E o \in Op, t \in Thread : Remove(o, t)
         \/ UNCHANGED clientVars
<1> SUFFICES ASSUME ClientNext
             PROVE  \/ \E o \in Op, t \in Thread :
                         BeginSelect(o, t) /\ at[o] \in {"ready", "creating"} /\ known' \in SUBSET Thread
                    \/ \E o \in Op : Send(o)
                    \/ \E o \in Op : Loaded(o)
                    \/ \E o \in Op : EndStream(o) /\ at[o] = "streaming" /\ UNCHANGED messages
                    \/ \E o \in Op : Chunk(o) /\ ~EndStream(o)
                    \/ \E o \in Op : Start(o) \/ Fails(o) \/ Removed(o)
                    \/ \E o \in Op, t \in Thread : Remove(o, t)
  OBVIOUS
<1>1. ASSUME NEW o \in Op, NEW t \in Thread, Select(o, t)
      PROVE  BeginSelect(o, t) /\ at[o] \in {"ready", "creating"} /\ known' \in SUBSET Thread
  BY <1>1 DEF Select, ClientTypeOK
<1>2. ASSUME NEW o \in Op, Created(o)
      PROVE  \E t \in Thread :
               BeginSelect(o, t) /\ at[o] \in {"ready", "creating"} /\ known' \in SUBSET Thread
  BY <1>2 DEF Created, ClientTypeOK
<1>3. ASSUME NEW o \in Op, Chunk(o)
      PROVE  \/ EndStream(o) /\ at[o] = "streaming" /\ UNCHANGED messages
             \/ Chunk(o) /\ ~EndStream(o)
  <2>1. CASE EndStream(o)
    <3>1. at'[o] = "done" /\ at[o] = "streaming"
      BY <1>3, <2>1 DEF EndStream, Ends, ClientTypeOK, Chunk, Live
    <3> QED
      BY <1>3, <2>1, <3>1 DEF Chunk
  <2> QED
    BY <1>3, <2>1
<1>4. ASSUME NEW o \in Op, Finish(o)
      PROVE  EndStream(o) /\ at[o] = "streaming" /\ UNCHANGED messages
  BY <1>4 DEF Finish
<1> QED
  BY <1>1, <1>2, <1>3, <1>4 DEF ClientNext

\* The page keeps its types in every step.
LEMMA TypeStep ==
  ASSUME ClientTypeOK, LocalsGiven, [ClientNext]_clientVars
  PROVE  ClientTypeOK'
<1> USE ClientAssumption
<1>1. ASSUME NEW o \in Op, NEW t \in Thread, BeginSelect(o, t), known' \in SUBSET Thread
      PROVE  ClientTypeOK'
  <2>1. at' \in [Op -> RunPlace] /\ thread' \in [Op -> Thread \cup {Nothing}]
    BY <1>1 DEF ClientTypeOK, BeginSelect, RunPlace
  <2>2. loadSeq' \in Nat /\ seq' \in [Op -> Nat]
    BY <1>1 DEF ClientTypeOK, BeginSelect
  <2>3. aborted' \in SUBSET Op /\ controller' \in Op \cup {Nothing}
    BY <1>1 DEF ClientTypeOK, BeginSelect, CancelStream
  <2> QED
    BY <1>1, <2>1, <2>2, <2>3 DEF ClientTypeOK, BeginSelect
<1>2. ASSUME NEW o \in Op, currentId # Nothing, NEW shown \in Seq(Shown),
             BeginStream(o, currentId, shown)
      PROVE  ClientTypeOK'
  <2>1. [thread |-> currentId, by |-> o, text |-> {}] \in Shown
    BY <1>2 DEF Shown, ClientTypeOK
  <2>2. messages' \in Seq(Shown) /\ Len(shown) \in Nat
    BY <1>2, <2>1 DEF BeginStream
  <2>3. at' \in [Op -> RunPlace] /\ thread' \in [Op -> Thread \cup {Nothing}] /\ sends' \in [Op -> BOOLEAN]
    BY <1>2 DEF BeginStream, ClientTypeOK, RunPlace
  <2>4. requestSeq' \in Nat /\ request' \in [Op -> Nat] /\ last' \in [Op -> Nat]
    BY <1>2, <2>2 DEF BeginStream, ClientTypeOK
  <2>5. /\ streaming' \in BOOLEAN /\ controller' \in Op \cup {Nothing} /\ aborted' \in SUBSET Op
        /\ smooth' \in BOOLEAN
    BY <1>2 DEF BeginStream, ClientTypeOK
  <2>6. UNCHANGED <<currentId, loadSeq, known, seq>>
    BY <1>2 DEF BeginStream
  <2> QED
    BY <2>2, <2>3, <2>4, <2>5, <2>6 DEF ClientTypeOK
<1>3. ASSUME NEW o \in Op, EndStream(o), UNCHANGED messages PROVE ClientTypeOK'
  BY <1>3 DEF ClientTypeOK, EndStream, Ends, RunPlace, localVars
<1>4. ASSUME NEW o \in Op, Send(o) PROVE ClientTypeOK'
  <2>1. CASE BeginStream(o, currentId, messages) /\ currentId # Nothing
    <3>1. messages \in Seq(Shown)
      BY DEF ClientTypeOK
    <3> QED
      BY <1>2, <2>1, <3>1
  <2>2. CASE ~(BeginStream(o, currentId, messages) /\ currentId # Nothing)
    <3>1. /\ at' = [at EXCEPT ![o] = "creating"] /\ sends' = [sends EXCEPT ![o] = TRUE]
          /\ UNCHANGED <<pageVars, thread, seq, request, last, smooth>>
      BY <1>4, <2>2 DEF Send
    <3>2. at' \in [Op -> RunPlace] /\ sends' \in [Op -> BOOLEAN]
      BY <3>1 DEF ClientTypeOK, RunPlace
    <3> QED
      BY <3>1, <3>2 DEF ClientTypeOK, pageVars
  <2> QED
    BY <2>1, <2>2
<1>5. ASSUME NEW o \in Op, Loaded(o) PROVE ClientTypeOK'
  <2>1. PICK n \in 0 .. MaxStored, shown \in Seq(Shown) :
          \/ currentId # Nothing /\ BeginStream(o, currentId, shown)
          \/ /\ messages' = shown
             /\ Ends(o)
             /\ UNCHANGED <<currentId, streaming, controller, requestSeq, loadSeq,
                            aborted, known, localVars, smooth>>
    <3>1. thread[o] \in Thread
      BY <1>5 DEF Loaded, LocalsGiven
    <3>2. messages \in Seq(Shown)
      BY DEF ClientTypeOK
    <3> QED
      BY <1>5, <3>1, <3>2, StoredShown DEF Loaded, GoesOn
  <2>2. CASE currentId # Nothing /\ BeginStream(o, currentId, shown)
    BY <1>2, <2>2
  <2>3. CASE /\ messages' = shown
             /\ Ends(o)
             /\ UNCHANGED <<currentId, streaming, controller, requestSeq, loadSeq,
                            aborted, known, localVars, smooth>>
    BY <2>3 DEF ClientTypeOK, Ends, RunPlace, localVars
  <2> QED
    BY <2>1, <2>2, <2>3
<1>6. ASSUME NEW o \in Op, Chunk(o), ~EndStream(o) PROVE ClientTypeOK'
  <2>1. last[o] \in 1 .. Len(messages)
    BY <1>6 DEF Chunk, Live, LocalsGiven, ClientTypeOK
  <2>2. messages' \in Seq(Shown)
    <3> DEFINE m == messages[last[o]]
               e == [thread |-> m.thread, by |-> m.by, text |-> m.text \cup {o}]
    <3>1. m \in Shown
      BY <2>1 DEF ClientTypeOK
    <3>2. e \in Shown
      BY <3>1 DEF Shown
    <3>3. messages' = [messages EXCEPT ![last[o]] = e]
      BY <1>6 DEF Chunk
    <3> HIDE DEF e
    <3> QED
      BY <2>1, <3>2, <3>3, ReplaceInSeq DEF ClientTypeOK
  <2> QED
    BY <1>6, <2>2 DEF Chunk, ClientTypeOK, localVars
<1>7. ASSUME NEW o \in Op, Start(o) \/ Fails(o) PROVE ClientTypeOK'
  <2>1. CASE Start(o)
    BY <2>1 DEF Start, ClientTypeOK, RunPlace, pageVars, localVars
  <2>2. CASE Fails(o)
    <3>1. at' \in [Op -> RunPlace] /\ known' \in SUBSET Thread /\ smooth' \in BOOLEAN
      BY <2>2 DEF Fails, Ends, ClientTypeOK, RunPlace
    <3>2. UNCHANGED <<currentId, messages, streaming, controller, requestSeq, loadSeq, aborted, localVars>>
      BY <2>2 DEF Fails
    <3> QED
      BY <3>1, <3>2 DEF ClientTypeOK, localVars
  <2> QED
    BY <1>7, <2>1, <2>2
<1>8. ASSUME NEW o \in Op, Removed(o) PROVE ClientTypeOK'
  <2>1. messages' = <<>> \/ messages' = messages
    BY <1>8 DEF Removed
  <2>2. currentId' = Nothing \/ currentId' = currentId
    BY <1>8 DEF Removed
  <2>3. smooth' \in BOOLEAN
    BY <1>8 DEF Removed, ClientTypeOK
  <2>4. messages' \in Seq(Shown) /\ currentId' \in Thread \cup {Nothing}
    BY <2>1, <2>2, EmptyShown DEF ClientTypeOK
  <2>5. at' \in [Op -> RunPlace]
    BY <1>8 DEF Removed, Ends, ClientTypeOK, RunPlace
  <2>6. UNCHANGED <<streaming, controller, requestSeq, loadSeq, aborted, known, localVars>>
    BY <1>8 DEF Removed
  <2> QED
    BY <2>3, <2>4, <2>5, <2>6 DEF ClientTypeOK, localVars
<1>9. ASSUME NEW o \in Op, NEW t \in Thread, Remove(o, t) PROVE ClientTypeOK'
  BY <1>9 DEF Remove, CancelStream, ClientTypeOK, RunPlace
<1>10. CASE UNCHANGED clientVars
  BY <1>10 DEF ClientTypeOK, clientVars, pageVars, localVars
<1> QED
  BY <1>1, <1>3, <1>4, <1>5, <1>6, <1>7, <1>8, <1>9, <1>10, StepKinds

\* What a step does to the places and the numbers of the runs: one run moves, and
\* a new request or load gets the next number.
LEMMA NumbersStep ==
  ASSUME PageInv, [ClientNext]_clientVars
  PROVE  RequestNumbers' /\ LoadNumbers' /\ LocalsGiven'
<1> USE ClientAssumption DEF PageInv, RequestNumbers, LoadNumbers, LocalsGiven, ClientTypeOK
<1>1. ASSUME NEW o \in Op, NEW t \in Thread, BeginSelect(o, t)
      PROVE  RequestNumbers' /\ LoadNumbers' /\ LocalsGiven'
  BY <1>1 DEF BeginSelect, CancelStream
<1>2. ASSUME NEW o \in Op, currentId # Nothing, NEW shown, BeginStream(o, currentId, shown)
      PROVE  RequestNumbers' /\ LoadNumbers' /\ LocalsGiven'
  <2>1. RequestNumbers'
    <3>1. /\ requestSeq' = requestSeq + 1
          /\ \A p \in Op : /\ request'[p] = IF p = o THEN requestSeq + 1 ELSE request[p]
                           /\ p # o => at'[p] = at[p]
      BY <1>2 DEF BeginStream
    <3>2. requestSeq \in Nat /\ \A p \in Op : request[p] \in Nat /\ request[p] <= requestSeq
      OBVIOUS
    <3>3. \A p, q \in Op :
            at[p] = "streaming" /\ at[q] = "streaming" /\ request[p] = request[q] => p = q
      OBVIOUS
    <3> HIDE DEF PageInv, RequestNumbers, LoadNumbers, LocalsGiven, ClientTypeOK
    <3>4. ASSUME NEW p \in Op PROVE request'[p] <= requestSeq'
      BY <3>1, <3>2
    <3>5. ASSUME NEW p \in Op, NEW q \in Op, at'[p] = "streaming", at'[q] = "streaming",
                 request'[p] = request'[q]
          PROVE  p = q
      <4>1. CASE p = o \/ q = o
        BY <3>1, <3>2, <3>5, <4>1
      <4>2. CASE p # o /\ q # o
        <5>1. at[p] = "streaming" /\ at[q] = "streaming" /\ request[p] = request[q]
          BY <3>1, <3>5, <4>2
        <5> QED
          BY <3>3, <5>1
      <4> QED
        BY <4>1, <4>2
    <3> QED
      BY <3>4, <3>5 DEF RequestNumbers
  <2>2. LoadNumbers'
    BY <1>2 DEF BeginStream
  <2>3. LocalsGiven'
    BY <1>2 DEF BeginStream
  <2> QED
    BY <2>1, <2>2, <2>3
<1>3. ASSUME NEW o \in Op, Ends(o), UNCHANGED <<requestSeq, loadSeq, localVars>>
      PROVE  RequestNumbers' /\ LoadNumbers' /\ LocalsGiven'
  BY <1>3 DEF Ends, localVars
<1>4. ASSUME NEW o \in Op, Send(o)
      PROVE  RequestNumbers' /\ LoadNumbers' /\ LocalsGiven'
  <2>1. CASE BeginStream(o, currentId, messages) /\ currentId # Nothing
    BY <1>2, <2>1
  <2>2. CASE ~(BeginStream(o, currentId, messages) /\ currentId # Nothing)
    <3>1. /\ at' = [at EXCEPT ![o] = "creating"]
          /\ UNCHANGED <<requestSeq, loadSeq, thread, seq, request, last>>
      BY <1>4, <2>2 DEF Send, pageVars
    <3> QED
      BY <3>1
  <2> QED
    BY <2>1, <2>2
<1>5. ASSUME NEW o \in Op, Loaded(o)
      PROVE  RequestNumbers' /\ LoadNumbers' /\ LocalsGiven'
  BY <1>2, <1>3, <1>5 DEF Loaded, GoesOn
<1>6. ASSUME NEW o \in Op, Chunk(o), ~EndStream(o)
      PROVE  RequestNumbers' /\ LoadNumbers' /\ LocalsGiven'
  BY <1>6 DEF Chunk, localVars
<1>7. ASSUME NEW o \in Op, Start(o)
      PROVE  RequestNumbers' /\ LoadNumbers' /\ LocalsGiven'
  BY <1>7 DEF Start, pageVars, localVars
<1>8. ASSUME NEW o \in Op, Fails(o) \/ Removed(o) \/ EndStream(o)
      PROVE  RequestNumbers' /\ LoadNumbers' /\ LocalsGiven'
  BY <1>3, <1>8 DEF Fails, Removed, EndStream
<1>9. ASSUME NEW o \in Op, NEW t \in Thread, Remove(o, t)
      PROVE  RequestNumbers' /\ LoadNumbers' /\ LocalsGiven'
  BY <1>9 DEF Remove
<1>10. CASE UNCHANGED clientVars
  BY <1>10 DEF clientVars, pageVars, localVars
<1> QED
  BY <1>1, <1>4, <1>5, <1>6, <1>7, <1>8, <1>9, <1>10, StepKinds

\* No step makes a second reply wanted, or leaves the text box to nobody.
LEMMA StreamStep ==
  ASSUME PageInv, [ClientNext]_clientVars
  PROVE  OneLiveStream' /\ BoxFollowsStream'
<1> USE ClientAssumption DEF PageInv, ClientTypeOK, Live
<1> USE DEF OneLiveStream, BoxFollowsStream
<1>1. ASSUME NEW o \in Op, NEW t \in Thread, BeginSelect(o, t)
      PROVE  OneLiveStream' /\ BoxFollowsStream'
  <2>1. ASSUME NEW p \in Op PROVE ~Live(p)'
    BY <1>1, <2>1 DEF BeginSelect, CancelStream
  <2>2. ~streaming'
    BY <1>1 DEF BeginSelect
  <2> QED
    BY <2>1, <2>2
<1>2. ASSUME NEW o \in Op, NEW shown, BeginStream(o, currentId, shown), at[o] # "streaming"
      PROVE  OneLiveStream' /\ BoxFollowsStream'
  <2>1. ASSUME NEW p \in Op, Live(p)' PROVE p = o
    BY <1>2, <2>1 DEF BeginStream
  <2>2. at'[o] = "streaming" /\ request'[o] = requestSeq'
    BY <1>2 DEF BeginStream
  <2>3. streaming' /\ controller' = o
    BY <1>2 DEF BeginStream
  <2> QED
    BY <2>1, <2>2, <2>3
<1>3. ASSUME NEW o \in Op, EndStream(o), at[o] = "streaming"
      PROVE  OneLiveStream' /\ BoxFollowsStream'
  <2>1. /\ at' = [at EXCEPT ![o] = "done"]
        /\ UNCHANGED <<request, requestSeq, aborted>>
    BY <1>3 DEF EndStream, Ends, localVars
  <2>2. CASE request[o] = requestSeq
    <3>1. ASSUME NEW p \in Op PROVE ~Live(p)'
      BY <1>3, <2>1, <2>2, <3>1 DEF RequestNumbers
    <3>2. ~streaming'
      BY <1>3, <2>2 DEF EndStream
    <3> QED
      BY <3>1, <3>2
  <2>3. CASE request[o] # requestSeq
    <3>1. UNCHANGED <<streaming, controller>>
      BY <1>3, <2>3 DEF EndStream
    <3> QED
      BY <2>1, <2>3, <3>1
  <2> QED
    BY <2>2, <2>3
<1>4. ASSUME NEW o \in Op, at[o] # "streaming", NEW x, x # "streaming", at' = [at EXCEPT ![o] = x],
             UNCHANGED <<streaming, request, requestSeq>>,
             \/ UNCHANGED <<aborted, controller>>
             \/ CancelStream
      PROVE  OneLiveStream' /\ BoxFollowsStream'
  <2>1. ASSUME NEW p \in Op, Live(p)' PROVE Live(p) /\ controller' = controller
    BY <1>4, <2>1 DEF CancelStream
  <2>2. ASSUME NEW p \in Op, at[p] = "streaming" PROVE at'[p] = "streaming"
    BY <1>4, <2>2
  <2> QED
    BY <1>4, <2>1, <2>2
<1>5. ASSUME NEW o \in Op, Send(o) PROVE OneLiveStream' /\ BoxFollowsStream'
  <2>1. at[o] = "ready"
    BY <1>5 DEF Send
  <2>2. CASE BeginStream(o, currentId, messages)
    BY <1>2, <2>1, <2>2
  <2>3. CASE ~BeginStream(o, currentId, messages)
    BY <1>4, <1>5, <2>1, <2>3 DEF Send, pageVars
  <2> QED
    BY <2>2, <2>3
<1>6. ASSUME NEW o \in Op, Loaded(o) PROVE OneLiveStream' /\ BoxFollowsStream'
  <2>1. at[o] = "loading"
    BY <1>6 DEF Loaded
  <2>2. CASE \E shown : BeginStream(o, currentId, shown)
    BY <1>2, <2>1, <2>2
  <2>3. CASE Ends(o) /\ UNCHANGED <<streaming, controller, requestSeq, aborted, localVars>>
    BY <1>4, <2>1, <2>3 DEF Ends, localVars
  <2> QED
    BY <1>6, <2>2, <2>3 DEF Loaded
<1>7. ASSUME NEW o \in Op, Chunk(o), ~EndStream(o) PROVE OneLiveStream' /\ BoxFollowsStream'
  BY <1>7 DEF Chunk, localVars
<1>8. ASSUME NEW o \in Op, Start(o) \/ Fails(o) \/ Removed(o) PROVE OneLiveStream' /\ BoxFollowsStream'
  BY <1>4, <1>8 DEF Start, Fails, Removed, Ends, pageVars, localVars
<1>9. ASSUME NEW o \in Op, NEW t \in Thread, Remove(o, t) PROVE OneLiveStream' /\ BoxFollowsStream'
  BY <1>4, <1>9 DEF Remove
<1>10. CASE UNCHANGED clientVars
  BY <1>10 DEF clientVars, pageVars, localVars
<1> QED
  BY <1>1, <1>3, <1>5, <1>6, <1>7, <1>8, <1>9, <1>10, StepKinds

\* The page is in order when it is opened.
LEMMA PageInit ==
  ASSUME ClientInit
  PROVE  PageInv
<1> USE DEF ClientInit
<1>1. ClientTypeOK
  BY EmptyShown DEF ClientTypeOK, RunPlace
<1>2. RequestNumbers /\ LoadNumbers /\ LocalsGiven
  BY DEF RequestNumbers, LoadNumbers, LocalsGiven
<1>3. OneLiveStream /\ BoxFollowsStream
  BY DEF OneLiveStream, BoxFollowsStream, Live
<1> QED
  BY <1>1, <1>2, <1>3 DEF PageInv

\* Types, numbers, the reply that is read and the text box, whatever is selected,
\* started, sent and deleted, in whatever order the server answers (Chat.svelte).
THEOREM PageInvariance == ClientSpec => []PageInv
<1>1. PageInv /\ [ClientNext]_clientVars => PageInv'
  BY TypeStep, NumbersStep, StreamStep DEF PageInv
<1> QED
  BY PageInit, <1>1, PTL DEF ClientSpec

\* The page keeps its types (Chat.svelte).
THEOREM PageTypeCorrect == ClientSpec => []ClientTypeOK
BY PageInvariance, PTL DEF PageInv

\* At most one reply is read at a time, and it is the one that cancelStream()
\* aborts and whose number is the last.
THEOREM OneStream == ClientSpec => []OneLiveStream
BY PageInvariance, PTL DEF PageInv

\* The text box is disabled while a reply is read, and the run whose finally
\* block enables it again is there.
THEOREM BoxFollows == ClientSpec => []BoxFollowsStream
BY PageInvariance, PTL DEF PageInv

-----------------------------------------------------------------------------
\* While the history is smooth: the load that will be shown is the one of the
\* selected thread and no reply is read meanwhile, and a reply that is read finds
\* its own bubble where it left it.
SmoothInv ==
  smooth =>
    /\ \A o \in Op : at[o] = "loading" /\ seq[o] = loadSeq =>
         thread[o] = currentId /\ \A p \in Op : ~Live(p)
    /\ \A o \in Op : Live(o) /\ thread[o] = currentId /\ last[o] <= Len(messages) =>
         messages[last[o]].by = o

\* Messages of the selected thread, each with the text of its own request only.
InOrder(shown) ==
  \A i \in 1 .. Len(shown) : shown[i].thread = currentId /\ shown[i].text \subseteq {shown[i].by}

\* Appending two elements to a sequence leaves the others where they are.
LEMMA AppendTwo ==
  ASSUME NEW S, NEW s \in Seq(S), NEW e \in S
  PROVE  /\ Len(s \o <<e, e>>) = Len(s) + 2
         /\ \A i \in 1 .. Len(s) : (s \o <<e, e>>)[i] = s[i]
         /\ (s \o <<e, e>>)[Len(s) + 1] = e
         /\ (s \o <<e, e>>)[Len(s) + 2] = e
OBVIOUS

\* The positions of a sequence that grew by two.
LEMMA TwoMore ==
  ASSUME NEW n \in Nat, NEW i \in 1 .. n + 2
  PROVE  i \in 1 .. n \/ i = n + 1 \/ i = n + 2
OBVIOUS

\* A request that overtakes no load finds the page in order and leaves it so (send).
LEMMA StreamInOrder ==
  ASSUME PageInv, NEW o \in Op, currentId # Nothing, NEW shown \in Seq(Shown),
         InOrder(shown), BeginStream(o, currentId, shown), smooth', at[o] # "streaming"
  PROVE  SmoothInv' /\ ShowsSelected'
<1> USE DEF PageInv, ClientTypeOK
<1> DEFINE said == [thread |-> currentId, by |-> o, text |-> {}]
<1>1. said \in Shown
  BY DEF Shown
<1>2. /\ Len(messages') = Len(shown) + 2
      /\ \A i \in 1 .. Len(shown) : messages'[i] = shown[i]
      /\ messages'[Len(shown) + 1] = said
      /\ messages'[Len(shown) + 2] = said
  <2>1. messages' = shown \o <<said, said>>
    BY DEF BeginStream
  <2> HIDE DEF said
  <2> QED
    BY <1>1, <2>1, AppendTwo
<1>3. Len(shown) \in Nat
  OBVIOUS
<1>4. /\ UNCHANGED <<currentId, loadSeq, seq>>
      /\ at' = [at EXCEPT ![o] = "streaming"]
      /\ last' = [last EXCEPT ![o] = Len(shown) + 2]
  BY DEF BeginStream
<1>5. ASSUME NEW p \in Op PROVE ~(at'[p] = "loading" /\ seq'[p] = loadSeq')
  BY <1>4 DEF BeginStream, LoadPending
<1>6. ASSUME NEW p \in Op, Live(p)' PROVE p = o
  <2>1. aborted' = aborted \cup ({controller} \ {Nothing})
    BY DEF BeginStream
  <2>2. CASE p # o
    <3>1. Live(p)
      BY <1>4, <1>6, <2>1, <2>2 DEF Live
    <3>2. controller = p /\ p # Nothing
      BY <3>1, ClientAssumption DEF OneLiveStream
    <3> QED
      BY <1>6, <2>1, <3>2 DEF Live
  <2> QED
    BY <2>2
<1>7. messages'[last'[o]].by = o
  <2>1. last'[o] = Len(shown) + 2
    BY <1>4
  <2> QED
    BY <1>2, <2>1
<1>8. \A i \in 1 .. Len(messages') :
        messages'[i].thread = currentId' /\ messages'[i].text \subseteq {messages'[i].by}
  <2>1. ASSUME NEW i \in 1 .. Len(messages')
        PROVE  messages'[i].thread = currentId /\ messages'[i].text \subseteq {messages'[i].by}
    <3>1. i \in 1 .. Len(shown) \/ messages'[i] = said
      <4>1. i \in 1 .. Len(shown) + 2
        BY <1>2, <2>1
      <4>2. i \in 1 .. Len(shown) \/ i = Len(shown) + 1 \/ i = Len(shown) + 2
        BY <1>3, <4>1, TwoMore
      <4> QED
        BY <1>2, <4>2
    <3>2. CASE i \in 1 .. Len(shown)
      BY <1>2, <3>2 DEF InOrder
    <3>3. CASE messages'[i] = said
      BY <3>3
    <3> QED
      BY <3>1, <3>2, <3>3
  <2> QED
    BY <1>4, <2>1
<1>9. SmoothInv'
  BY <1>5, <1>6, <1>7 DEF SmoothInv
<1>10. ShowsSelected'
  BY <1>8 DEF ShowsSelected
<1> QED
  BY <1>9, <1>10

\* A run that is neither loading nor streaming moves on, and the page stays.
LEMMA IdleInOrder ==
  ASSUME PageInv, SmoothInv, ShowsSelected, NEW o \in Op, NEW x, x \notin {"loading", "streaming"},
         at' = [at EXCEPT ![o] = x], UNCHANGED <<messages, currentId, loadSeq, seq, last>>,
         \A p \in Op : at'[p] \in {"loading", "streaming"} => thread'[p] = thread[p],
         aborted \subseteq aborted',
         smooth' => smooth /\ ~(at[o] = "loading" /\ seq[o] = loadSeq)
  PROVE  SmoothInv' /\ ShowsSelected'
<1> SUFFICES ASSUME smooth' PROVE SmoothInv' /\ ShowsSelected'
  BY DEF SmoothInv, ShowsSelected
<1> USE DEF PageInv, ClientTypeOK
<1>1. ASSUME NEW p \in Op
      PROVE  /\ at'[p] = "loading" /\ seq'[p] = loadSeq' <=> at[p] = "loading" /\ seq[p] = loadSeq
             /\ Live(p)' => Live(p)
             /\ at'[p] \in {"loading", "streaming"} => at'[p] = at[p]
  BY <1>1 DEF Live
<1>2. SmoothInv'
  <2>1. ASSUME NEW p \in Op, at'[p] = "loading", seq'[p] = loadSeq'
        PROVE  thread'[p] = currentId' /\ \A q \in Op : ~Live(q)'
    BY <1>1, <2>1 DEF SmoothInv
  <2>2. ASSUME NEW p \in Op, Live(p)', thread'[p] = currentId', last'[p] <= Len(messages')
        PROVE  messages'[last'[p]].by = p
    BY <1>1, <2>2 DEF SmoothInv, Live
  <2> QED
    BY <2>1, <2>2 DEF SmoothInv
<1>3. ShowsSelected'
  BY <1>1 DEF ShowsSelected
<1> QED
  BY <1>2, <1>3

\* Whatever happens on the page and on the server, while the history is smooth.
LEMMA SmoothStep ==
  ASSUME PageInv, SmoothInv, ShowsSelected, [ClientNext]_clientVars
  PROVE  SmoothInv' /\ ShowsSelected'
<1> SUFFICES ASSUME smooth' PROVE SmoothInv' /\ ShowsSelected'
  BY DEF SmoothInv, ShowsSelected
<1> USE ClientAssumption DEF PageInv, ClientTypeOK
<1>1. ASSUME NEW o \in Op, NEW t \in Thread, BeginSelect(o, t)
      PROVE  SmoothInv' /\ ShowsSelected'
  <2>1. /\ at' = [at EXCEPT ![o] = "loading"]
        /\ thread' = [thread EXCEPT ![o] = t]
        /\ seq' = [seq EXCEPT ![o] = loadSeq + 1]
        /\ loadSeq' = loadSeq + 1 /\ currentId' = t
        /\ UNCHANGED <<messages, smooth>>
    BY <1>1 DEF BeginSelect
  <2>2. ASSUME NEW p \in Op PROVE ~Live(p)'
    BY <1>1, <2>1, <2>2 DEF BeginSelect, CancelStream, Live, OneLiveStream
  <2>3. ASSUME NEW p \in Op, at'[p] = "loading", seq'[p] = loadSeq'
        PROVE  thread'[p] = currentId'
    BY <2>1, <2>3 DEF LoadNumbers
  <2>4. SmoothInv'
    BY <2>2, <2>3 DEF SmoothInv
  <2>5. at'[o] = "loading" /\ seq'[o] = loadSeq'
    BY <2>1
  <2>6. ShowsSelected'
    BY <2>1, <2>5 DEF ShowsSelected
  <2> QED
    BY <2>4, <2>6
<1>2. ASSUME NEW o \in Op, Send(o) PROVE SmoothInv' /\ ShowsSelected'
  <2>1. at[o] = "ready"
    BY <1>2 DEF Send
  <2>2. CASE currentId # Nothing /\ BeginStream(o, currentId, messages)
    <3>1. smooth /\ ~LoadPending(o)
      BY <2>2 DEF BeginStream
    <3>2. InOrder(messages)
      BY <2>1, <3>1 DEF LoadPending, ShowsSelected, InOrder
    <3> QED
      BY <2>1, <2>2, <3>2, StreamInOrder
  <2>3. CASE ~(currentId # Nothing /\ BeginStream(o, currentId, messages))
    <3>1. /\ at' = [at EXCEPT ![o] = "creating"]
          /\ UNCHANGED <<messages, currentId, loadSeq, seq, last, thread, aborted, smooth>>
      BY <1>2, <2>3 DEF Send, pageVars
    <3> QED
      BY <2>1, <3>1, IdleInOrder
  <2> QED
    BY <2>2, <2>3
<1>3. ASSUME NEW o \in Op, Loaded(o) PROVE SmoothInv' /\ ShowsSelected'
  <2>1. PICK n \in 0 .. MaxStored :
          LET stored == [i \in 1 .. n |-> [thread |-> thread[o], by |-> Nothing, text |-> {}]]
              shown == IF Latest(o) THEN stored ELSE messages
          IN  \/ currentId # Nothing /\ BeginStream(o, currentId, shown)
              \/ /\ messages' = shown
                 /\ Ends(o)
                 /\ UNCHANGED <<currentId, streaming, controller, requestSeq, loadSeq,
                                aborted, known, localVars, smooth>>
    BY <1>3 DEF Loaded, GoesOn
  <2>2. at[o] = "loading" /\ thread[o] \in Thread
    BY <1>3 DEF Loaded, LocalsGiven
  <2> DEFINE stored == [i \in 1 .. n |-> [thread |-> thread[o], by |-> Nothing, text |-> {}]]
             shown == IF Latest(o) THEN stored ELSE messages
  <2>3. stored \in Seq(Shown) /\ shown \in Seq(Shown)
    BY <2>2, StoredShown
  <2>4. n \in Nat /\ Len(stored) = n
    BY <2>2
  <2>5. ASSUME smooth, Latest(o) PROVE InOrder(shown)
    <3>1. thread[o] = currentId
      BY <2>2, <2>5 DEF SmoothInv, Latest
    <3>2. shown = stored
      BY <2>5
    <3> QED
      BY <2>4, <3>1, <3>2 DEF InOrder
  <2>6. CASE currentId # Nothing /\ BeginStream(o, currentId, shown)
    <3>1. smooth /\ ~LoadPending(o)
      BY <2>6 DEF BeginStream
    <3>2. CASE Latest(o)
      BY <2>2, <2>3, <2>5, <2>6, <3>1, <3>2, StreamInOrder
    <3>3. CASE ~Latest(o)
      <4>1. shown = messages
        BY <3>3
      <4>2. InOrder(messages)
        BY <3>1, <3>3 DEF LoadPending, ShowsSelected, InOrder, Latest
      <4> QED
        BY <2>2, <2>6, <4>1, <4>2, StreamInOrder
    <3> QED
      BY <3>2, <3>3
  <2>7. CASE /\ messages' = shown
             /\ Ends(o)
             /\ UNCHANGED <<currentId, streaming, controller, requestSeq, loadSeq,
                            aborted, known, localVars, smooth>>
    <3>1. /\ at' = [at EXCEPT ![o] = "done"]
          /\ UNCHANGED <<currentId, loadSeq, aborted, thread, seq, last, smooth>>
      BY <2>7 DEF Ends, localVars
    <3>2. CASE Latest(o)
      <4>1. ASSUME NEW p \in Op
            PROVE  ~Live(p)' /\ ~(at'[p] = "loading" /\ seq'[p] = loadSeq')
        <5>1. ~Live(p)
          BY <2>2, <3>1, <3>2 DEF SmoothInv, Latest
        <5>2. ~Live(p)'
          BY <3>1, <5>1 DEF Live
        <5>3. ~(at'[p] = "loading" /\ seq'[p] = loadSeq')
          BY <2>2, <3>1, <3>2 DEF LoadNumbers, Latest
        <5> QED
          BY <5>2, <5>3
      <4>2. SmoothInv'
        BY <4>1 DEF SmoothInv
      <4>3. InOrder(shown)
        BY <2>5, <3>1, <3>2
      <4>4. ShowsSelected'
        BY <2>7, <3>1, <4>3 DEF ShowsSelected, InOrder
      <4> QED
        BY <4>2, <4>4
    <3>3. CASE ~Latest(o)
      <4>1. UNCHANGED messages
        BY <2>7, <3>3
      <4> QED
        BY <3>1, <3>3, <4>1, IdleInOrder DEF Latest
    <3> QED
      BY <3>2, <3>3
  <2> QED
    BY <2>1, <2>6, <2>7
<1>4. ASSUME NEW o \in Op, EndStream(o), at[o] = "streaming", UNCHANGED messages
      PROVE  SmoothInv' /\ ShowsSelected'
  <2>1. /\ at' = [at EXCEPT ![o] = "done"]
        /\ UNCHANGED <<messages, currentId, loadSeq, seq, last, thread, aborted, smooth>>
    BY <1>4 DEF EndStream, Ends, localVars
  <2> QED
    BY <1>4, <2>1, IdleInOrder
<1>5. ASSUME NEW o \in Op, Chunk(o), ~EndStream(o) PROVE SmoothInv' /\ ShowsSelected'
  <2>1. /\ Live(o) /\ thread[o] = currentId /\ last[o] \in 1 .. Len(messages)
        /\ UNCHANGED <<currentId, loadSeq, seq, last, thread, aborted, at, smooth>>
    <3>1. Live(o) /\ thread[o] = currentId
      BY <1>5 DEF Chunk
    <3>2. last[o] <= Len(messages) /\ last[o] >= 2
      BY <1>5, <3>1 DEF Chunk, LocalsGiven, Live
    <3>3. UNCHANGED <<currentId, loadSeq, seq, last, thread, aborted, at, smooth>>
      BY <1>5 DEF Chunk, localVars
    <3>4. last[o] \in Nat /\ Len(messages) \in Nat
      OBVIOUS
    <3>5. last[o] \in 1 .. Len(messages)
      BY <3>2, <3>4
    <3> QED
      BY <3>1, <3>3, <3>5
  <2> DEFINE m == messages[last[o]]
             e == [thread |-> m.thread, by |-> m.by, text |-> m.text \cup {o}]
  <2>2. messages' = [messages EXCEPT ![last[o]] = e]
    BY <1>5 DEF Chunk
  <2>3. m.by = o
    BY <2>1 DEF SmoothInv
  <2>4. m \in Shown /\ e \in Shown
    <3>1. m \in Shown
      BY <2>1
    <3>2. e \in Shown
      BY <3>1 DEF Shown
    <3> QED
      BY <3>1, <3>2
  <2>5. Len(messages') = Len(messages)
    <3> HIDE DEF e
    <3> QED
      BY <2>1, <2>2, <2>4, ReplaceInSeq
  <2>6. ASSUME NEW i \in 1 .. Len(messages)
        PROVE  /\ messages'[i].thread = messages[i].thread
               /\ messages'[i].by = messages[i].by
               /\ messages'[i].text \subseteq messages[i].text \cup {m.by}
               /\ i # last[o] => messages'[i] = messages[i]
               /\ i = last[o] => messages[i].by = m.by
    <3>1. CASE i = last[o]
      <4>1. messages'[i] = e
        <5> HIDE DEF e
        <5> QED
          BY <2>1, <2>2, <3>1
      <4> QED
        BY <2>3, <3>1, <4>1
    <3>2. CASE i # last[o]
      <4>1. messages'[i] = messages[i]
        BY <2>1, <2>2, <3>2
      <4> QED
        BY <3>2, <4>1
    <3> QED
      BY <3>1, <3>2
  <2>7. SmoothInv'
    <3>1. ASSUME NEW p \in Op, at'[p] = "loading", seq'[p] = loadSeq'
          PROVE  thread'[p] = currentId' /\ \A q \in Op : ~Live(q)'
      BY <2>1, <3>1 DEF SmoothInv, Live
    <3>2. ASSUME NEW p \in Op, Live(p)', thread'[p] = currentId', last'[p] <= Len(messages')
          PROVE  messages'[last'[p]].by = p
      <4>1. Live(p) /\ last[p] \in 1 .. Len(messages)
        BY <2>1, <2>5, <3>2 DEF Live, LocalsGiven
      <4>2. messages[last[p]].by = p
        BY <2>1, <3>2, <4>1 DEF SmoothInv
      <4> QED
        BY <2>1, <2>6, <4>1, <4>2
    <3> QED
      BY <3>1, <3>2 DEF SmoothInv
  <2>8. ShowsSelected'
    <3>1. ASSUME NEW i \in 1 .. Len(messages')
          PROVE  messages'[i].text \subseteq {messages'[i].by}
      <4>1. messages[i].text \subseteq {messages[i].by}
        BY <2>1, <2>5, <3>1 DEF ShowsSelected
      <4> QED
        BY <2>5, <2>6, <3>1, <4>1
    <3>2. ASSUME \A p \in Op : ~(at'[p] = "loading" /\ seq'[p] = loadSeq'),
                 NEW i \in 1 .. Len(messages')
          PROVE  messages'[i].thread = currentId'
      <4>1. messages[i].thread = currentId
        BY <2>1, <2>5, <3>2 DEF ShowsSelected
      <4> QED
        BY <2>1, <2>5, <2>6, <3>2, <4>1
    <3> QED
      BY <3>1, <3>2 DEF ShowsSelected
  <2> QED
    BY <2>7, <2>8
<1>6. ASSUME NEW o \in Op, Start(o) PROVE SmoothInv' /\ ShowsSelected'
  <2>1. /\ at' = [at EXCEPT ![o] = "creating"] /\ at[o] = "ready"
        /\ UNCHANGED <<messages, currentId, loadSeq, seq, last, thread, aborted, smooth>>
    BY <1>6 DEF Start, pageVars, localVars
  <2> QED
    BY <2>1, IdleInOrder
<1>7. ASSUME NEW o \in Op, Fails(o) PROVE SmoothInv' /\ ShowsSelected'
  <2>1. /\ at' = [at EXCEPT ![o] = "done"]
        /\ UNCHANGED <<messages, currentId, loadSeq, seq, last, thread, aborted>>
        /\ smooth /\ ~(at[o] = "loading" /\ seq[o] = loadSeq)
    BY <1>7 DEF Fails, Ends, localVars
  <2> QED
    BY <2>1, IdleInOrder
<1>8. ASSUME NEW o \in Op, Removed(o) PROVE SmoothInv' /\ ShowsSelected'
  <2>1. /\ at' = [at EXCEPT ![o] = "done"] /\ at[o] = "deleting"
        /\ UNCHANGED <<loadSeq, seq, last, thread, aborted>>
    BY <1>8 DEF Removed, Ends, localVars
  <2>2. CASE UNCHANGED <<currentId, messages, smooth>>
    BY <2>1, <2>2, IdleInOrder
  <2>3. CASE currentId' = Nothing /\ messages' = <<>> /\ ~LoadPending(o)
    <3>1. ASSUME NEW p \in Op PROVE ~(at'[p] = "loading" /\ seq'[p] = loadSeq')
      BY <2>1, <2>3 DEF LoadPending
    <3>2. ASSUME NEW p \in Op, Live(p)' PROVE thread'[p] # currentId'
      <4>1. at[p] = "streaming"
        BY <2>1, <3>2 DEF Live
      <4> QED
        BY <2>1, <2>3, <4>1 DEF LocalsGiven
    <3>3. SmoothInv'
      BY <3>1, <3>2 DEF SmoothInv
    <3>4. Len(messages') = 0
      BY <2>3
    <3>5. ShowsSelected'
      BY <3>4 DEF ShowsSelected
    <3> QED
      BY <3>3, <3>5
  <2> QED
    BY <1>8, <2>2, <2>3 DEF Removed
<1>9. ASSUME NEW o \in Op, NEW t \in Thread, Remove(o, t) PROVE SmoothInv' /\ ShowsSelected'
  <2>1. /\ at' = [at EXCEPT ![o] = "deleting"] /\ at[o] = "ready"
        /\ thread' = [thread EXCEPT ![o] = t]
        /\ UNCHANGED <<messages, currentId, loadSeq, seq, last, smooth>>
    BY <1>9 DEF Remove
  <2>2. aborted \subseteq aborted'
    BY <1>9 DEF Remove, CancelStream
  <2>3. \A p \in Op : at'[p] \in {"loading", "streaming"} => thread'[p] = thread[p]
    BY <2>1
  <2> QED
    BY <2>1, <2>2, <2>3, IdleInOrder
<1>10. CASE UNCHANGED clientVars
  BY <1>10 DEF clientVars, pageVars, localVars, SmoothInv, ShowsSelected, Live
<1> QED
  BY <1>1, <1>2, <1>3, <1>4, <1>5, <1>6, <1>7, <1>8, <1>9, <1>10, StepKinds

\* While no load that mattered failed or was overtaken, the page shows the thread
\* that is selected once it is loaded, and each reply in its own bubble.
THEOREM ShowsTheSelected == ClientSpec => []ShowsSelected
<1>1. ClientInit => SmoothInv /\ ShowsSelected
  <2> SUFFICES ASSUME ClientInit PROVE SmoothInv /\ ShowsSelected
    OBVIOUS
  <2>1. Len(messages) = 0
    BY DEF ClientInit
  <2>2. \A o \in Op : at[o] = "ready"
    BY DEF ClientInit
  <2> QED
    BY <2>1, <2>2 DEF SmoothInv, ShowsSelected, Live
<1>2. PageInv /\ SmoothInv /\ ShowsSelected /\ [ClientNext]_clientVars
        => SmoothInv' /\ ShowsSelected'
  BY SmoothStep
<1> QED
  BY <1>1, <1>2, PageInvariance, PTL DEF ClientSpec
=============================================================================
