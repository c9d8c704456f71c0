------------------------------- MODULE Replies -------------------------------
(***************************************************************************)
(* What the model is asked for a reply, and what the row of the thread     *)
(* keeps of it: a request passes the rate limit (RateLimit), the graph     *)
(* reads the agent row by row and the facts of the user                    *)
(* (agent/context.py, prompts.py, graph.py), and record_turn updates the   *)
(* row of the thread, while administrators change the agent, users rename  *)
(* threads and the worker writes facts.                                    *)
(*                                                                         *)
(* Every client has one thread.  Deleting threads is in ThreadTurns.       *)
(***************************************************************************)
EXTENDS RateLimit, SequencesExt

CONSTANTS
    Role,           \* keys of the roles besides basic
    Prompt,         \* texts that edits give to prompts; "" is blank
    AgentRow,       \* rows of the agent: custom, role, profile
    FirstAgent,     \* ... and the first of them
    Source, Hollow, \* ids of the sources, and those whose content is blank
    Fact, Cost,     \* facts and their tokens
    Provider,       \* what start-up may find: published, reached, profile, configured
    Title,          \* titles that users give
    MaxSends, MaxOthers     \* bounds: messages, steps of the others

ASSUME RepliesAssumption ==
    /\ {"", "basic"} \cap Role = {} /\ "gone" \notin Role \cup Prompt
    /\ AgentRow \cup {FirstAgent} \subseteq
         [custom : STRING, role : Role \cup {""}, profile : STRING]
    /\ Provider \subseteq [published : Nat, reached : BOOLEAN, profile : Nat, configured : Nat]
    /\ Source \subseteq Nat /\ Hollow \subseteq Source
    /\ Cost \in [Fact -> Nat] /\ MaxSends \in Nat /\ MaxOthers \in Nat

VARIABLES
    agent, prompts, attached,   \* the row of the agent, prompts by role, its sources
    provider,                   \* settings and provider of this process
    row, transcript, facts,     \* per client: its thread, and what is known of it
    job,                        \* job[r]: the locals of a request past the limit
    sends, others, edits,       \* messages, steps of the others, changes of the agent
    kept,                       \* history: what the next prompt of a thread should begin with
    turns, own, raced           \* history: recorded turns, titles users gave, overlaps

config == <<agent, prompts, attached>>
threadVars == <<row, transcript, facts, kept, turns, own, raced>>
vars == <<limitVars, config, provider, threadVars, job, sends, others, edits>>

Default == "Nueva conversación"
Gone == "gone"
NoJob == [at |-> "none"]

\* ---- the context window (agent/llm.py) ---------------------------------------

Discovered(p) == IF p.reached THEN p.published ELSE 0
\* Faulty: the setting comes before what the provider says.
FaultyContextTokens(p) ==
    IF p.configured # 0 THEN p.configured
    ELSE IF Discovered(p) # 0 THEN Discovered(p) ELSE p.profile
\* The first source that knows: the provider, the profile of the model, the setting.
ContextTokens(p) ==
    IF Discovered(p) # 0 THEN Discovered(p)
    ELSE IF p.profile # 0 THEN p.profile ELSE p.configured

\* When no source knows, the process does not start.
Resolves(p) == ContextTokens(p) # 0

\* ---- prompts (agent/context.py, agent/prompts.py) ----------------------------

\* Faulty: a blank prompt is one.
FaultyServes(text) == text # Gone
Serves(text) == text \notin {"", Gone}

IdentityPrompt(custom, rolePrompt) ==
    IF custom # "" THEN custom ELSE IF rolePrompt # "" THEN rolePrompt ELSE "default"
BasicPrompt == IF prompts["basic"] = Gone THEN "" ELSE prompts["basic"]
PersonName(profile) == IF profile = "named" THEN "person" ELSE "agent"
Knowledge(sources) == SetToSortSeq(sources \ Hollow, <)

\* The block [system] of an agent row, a role prompt and a set of sources.
System(a, rolePrompt, sources) ==
    [identity |-> <<IdentityPrompt(a.custom, rolePrompt), PersonName(a.profile)>>,
     profile |-> a.profile, knowledge |-> Knowledge(sources)]

\* The configuration of this moment: own identity, role, basic, default, in this
\* order, whichever is not blank.
Configured ==
    LET rolePrompt == IF agent.role = "" THEN "" ELSE prompts[agent.role]
    IN  System(agent, IF rolePrompt \notin {"", Gone} THEN rolePrompt ELSE BasicPrompt, attached)

\* ---- memory (agent/memory.py) --------------------------------------------------

Tokens(s) ==
    LET used[n \in 0 .. Len(s)] == IF n = 0 THEN 0 ELSE used[n - 1] + Cost[s[n]]
    IN  used[Len(s)]
Budget == (ContextTokens(provider) * 4) \div 10
\* Facts in their order up to the first that does not fit.
Injectable(s) ==
    LET fits == {n \in 0 .. Len(s) : Tokens(SubSeq(s, 1, n)) <= Budget}
    IN  SubSeq(s, 1, CHOOSE n \in fits : \A k \in fits : k <= n)
MemoryBlock(s) == IF s = <<>> THEN <<>> ELSE <<[memory |-> s]>>

\* Faulty: memory before the history.
FaultyPromptOf(system, history, memory, new) == <<[system |-> system]>> \o memory \o history \o <<new>>
PromptOf(system, history, memory, new) == <<[system |-> system]>> \o history \o memory \o <<new>>

\* ---- the request -----------------------------------------------------------------

Init ==
    /\ LimitInit
    /\ agent = FirstAgent /\ attached = {}
    /\ prompts = [k \in Role \cup {"basic"} |-> k]
    /\ provider \in {p \in Provider : p.reached /\ Resolves(p)}   \* Restart finds the others
    /\ row = [c \in Client |-> [title |-> Default, count |-> 0]]
    /\ transcript = [c \in Client |-> <<>>] /\ facts = [c \in Client |-> <<>>]
    /\ job = [r \in Request |-> NoJob]
    /\ sends = 0 /\ others = 0 /\ edits = 0
    /\ kept = [c \in Client |-> [prompt |-> <<>>, edits |-> 0]]
    /\ turns = [c \in Client |-> 0] /\ own = [c \in Client |-> ""]
    /\ raced = [c \in Client |-> FALSE]

Who(r) == gate[r].client
Busy(c) == {q \in Request : job[q] # NoJob /\ Who(q) = c}
Recording(c) == {q \in Busy(c) : job[q].at = "recording"}

\* The rate limit: what it counts and lets in.
Gate ==
    /\ \/ Tick /\ UNCHANGED sends
       \/ \E r \in Request : Count(r) /\ UNCHANGED sends
       \/ \E r \in Request, c \in Client : sends < MaxSends /\ Arrive(r, c) /\ sends' = sends + 1
    /\ UNCHANGED <<config, provider, threadVars, job, others, edits>>

Joined(j) == IF j.at = "recording" THEN j ELSE [j EXCEPT !.alone = FALSE]
\* send_message: the row is read and the transaction given up, so that the row
\* is loaded again by record_turn.
Begin(r) ==
    /\ gate[r].at = "inside" /\ job[r] = NoJob
    /\ job' = [q \in Request |->
                 IF q = r THEN [at |-> "accepted", row |-> row[Who(r)], alone |-> Busy(Who(r)) = {}]
                 ELSE IF q \in Busy(Who(r)) THEN Joined(job[q]) ELSE job[q]]
    /\ UNCHANGED <<limitVars, config, provider, threadVars, sends, others, edits>>

NewMessage(r) == [role |-> "user", n |-> Len(job[r].history) + 1]
Saved(r) == Append(job[r].history, NewMessage(r))

\* astream: the last checkpoint is loaded and saved again with the new message.
Ask(r) ==
    /\ job[r].at = "accepted"
    /\ LET c == Who(r)
       IN  /\ job' = [job EXCEPT ![r] = [at |-> "asked", row |-> @.row, alone |-> @.alone,
                                         history |-> transcript[c]]]
           /\ transcript' = [transcript EXCEPT
                 ![c] = Append(@, [role |-> "user", n |-> Len(@) + 1])]
    /\ UNCHANGED <<limitVars, config, provider, row, facts, kept, turns, own, raced,
                   sends, others, edits>>

Reads == UNCHANGED <<limitVars, config, provider, row, facts, kept, turns, own, raced,
                     sends, others, edits>>

\* load_agent_context: each SELECT sees what is committed by then.
ReadAgent(r) ==
    /\ job[r].at = "asked"
    /\ job' = [job EXCEPT ![r] = [at |-> "role", row |-> @.row, alone |-> @.alone,
                                  history |-> @.history, agent |-> agent, prompt |-> "",
                                  first |-> Configured, since |-> edits]]
    /\ Reads /\ UNCHANGED transcript
To(r, stage, text) == job' = [job EXCEPT ![r].at = stage, ![r].prompt = text]
ReadRole(r) ==
    /\ job[r].at = "role"
    /\ LET key == job[r].agent.role
       IN  IF key # "" /\ Serves(prompts[key])
           THEN To(r, "sources", prompts[key]) ELSE To(r, "basic", "")
    /\ Reads /\ UNCHANGED transcript
ReadBasic(r) ==
    /\ job[r].at = "basic"
    /\ To(r, "sources", BasicPrompt)
    /\ Reads /\ UNCHANGED transcript
\* The last SELECT; the checkpoint after load_context holds the same messages.
ReadSources(r) ==
    /\ job[r].at = "sources"
    /\ job' = [job EXCEPT ![r] =
                 [at |-> "briefed", row |-> @.row, alone |-> @.alone, history |-> @.history,
                  system |-> System(@.agent, @.prompt, attached),
                  first |-> @.first, since |-> @.since, last |-> Configured, until |-> edits]]
    /\ transcript' = [transcript EXCEPT ![Who(r)] = Saved(r)]
    /\ Reads

\* respond: facts, prompt, answer.  Nobody sees the prompt but the model.
Respond(r) ==
    /\ job[r].at = "briefed"
    /\ LET c == Who(r)
           memory == MemoryBlock(Injectable(facts[c]))
           answered == Append(Saved(r), [role |-> "assistant", n |-> Len(Saved(r)) + 1])
           asked == PromptOf(job[r].system, job[r].history, memory, NewMessage(r))
       IN  /\ job' = [job EXCEPT ![r] = [at |-> "answered", row |-> @.row, alone |-> @.alone,
                                         asked |-> asked, since |-> @.since]]
           /\ transcript' = [transcript EXCEPT ![c] = answered]
           /\ kept' = [kept EXCEPT ![c] =
                         IF job[r].alone
                         THEN [prompt |-> <<[system |-> job[r].system]>> \o answered, edits |-> job[r].since]
                         ELSE [prompt |-> <<>>, edits |-> 0]]
    /\ UNCHANGED <<limitVars, config, provider, row, facts, turns, own, raced, sends, others, edits>>

\* Faulty: the row as send_message read it.
FaultyFreshRow(r) == job[r].row
\* record_turn reads the row in a transaction of its own ...
FreshRow(r) == row[Who(r)]
RecordRead(r) ==
    /\ job[r].at = "answered"
    /\ job' = [job EXCEPT ![r] = [at |-> "recording", row |-> FreshRow(r)]]
    /\ UNCHANGED <<limitVars, config, provider, threadVars, sends, others, edits>>
\* ... and writes the columns it changed.
Titled(title) == title # Default
RecordCommit(r) ==
    /\ job[r].at = "recording"
    /\ LET c == Who(r)
           old == job[r].row
       IN  /\ \E derived \in {"derived", Default} :
                row' = [row EXCEPT ![c] = [title |-> IF Titled(old.title) THEN @.title ELSE derived,
                                           count |-> old.count + 2]]
           /\ turns' = [turns EXCEPT ![c] = @ + 1]
           /\ raced' = [raced EXCEPT ![c] = @ \/ Recording(c) # {r}]
    /\ job' = [job EXCEPT ![r] = NoJob]
    /\ LeaveGate(r)
    /\ UNCHANGED <<config, provider, transcript, facts, kept, own, sends, others, edits>>

\* The model fails or the client goes away: what the checkpointer has, stays.
Drop(r) ==
    /\ job[r] # NoJob
    /\ job' = [job EXCEPT ![r] = NoJob]
    /\ LeaveGate(r)
    /\ UNCHANGED <<config, provider, threadVars, sends, others, edits>>

\* ---- the others --------------------------------------------------------------------

Other == others < MaxOthers /\ others' = others + 1 /\ UNCHANGED <<limitVars, provider, sends>>

\* A new process asks the provider again; what it was doing is lost.
Restart(p) ==
    /\ others < MaxOthers /\ others' = others + 1
    /\ Resolves(p) /\ provider' = p
    /\ gate' = [r \in Request |-> Outside] /\ job' = [r \in Request |-> NoJob]
    /\ UNCHANGED <<now, hits, passed, config, threadVars, sends, edits>>

\* update_thread writes the title only.
Rename(c, title) ==
    /\ Other /\ row[c].title # title
    /\ row' = [row EXCEPT ![c].title = title]
    /\ own' = [own EXCEPT ![c] = title]
    /\ raced' = [raced EXCEPT ![c] = @ \/ \E r \in Recording(c) : ~Titled(job[r].row.title)]
    /\ UNCHANGED <<config, transcript, facts, kept, turns, job, edits>>

\* persist of the worker.
Learn(c, f) ==
    /\ Other /\ f \notin ToSet(facts[c])
    /\ facts' = [facts EXCEPT ![c] = Append(@, f)]
    /\ UNCHANGED <<config, row, transcript, kept, turns, own, raced, job, edits>>

Edit == Other /\ edits' = edits + 1 /\ UNCHANGED <<threadVars, job>>
EditAgent(a) ==
    /\ a # agent /\ (a.role # "" => prompts[a.role] # Gone)
    /\ agent' = a /\ Edit /\ UNCHANGED <<prompts, attached>>
EditPrompt(k, text) ==
    /\ prompts[k] \notin {text, Gone}
    /\ prompts' = [prompts EXCEPT ![k] = text] /\ Edit /\ UNCHANGED <<agent, attached>>
\* Faulty: a reference without a constraint.
FaultyUnset(k) == agent
\* The row of the agent loses a role that is deleted (ON DELETE SET NULL).
Unset(k) == IF agent.role = k THEN [agent EXCEPT !.role = ""] ELSE agent
DeleteRole(k) ==
    /\ prompts[k] # Gone
    /\ prompts' = [prompts EXCEPT ![k] = Gone]
    /\ agent' = Unset(k)
    /\ Edit /\ UNCHANGED attached
AttachSource(s) ==
    s \notin attached /\ attached' = attached \cup {s} /\ Edit /\ UNCHANGED <<agent, prompts>>
DetachSource(s) ==
    s \in attached /\ attached' = attached \ {s} /\ Edit /\ UNCHANGED <<agent, prompts>>

Reply(r) ==
    \/ Begin(r) \/ Ask(r) \/ ReadAgent(r) \/ ReadRole(r) \/ ReadBasic(r) \/ ReadSources(r)
    \/ Respond(r) \/ RecordRead(r) \/ RecordCommit(r) \/ Drop(r)
Others ==
    \/ \E p \in Provider : Restart(p)
    \/ \E c \in Client : (\E title \in Title : Rename(c, title)) \/ \E f \in Fact : Learn(c, f)
    \/ \E a \in AgentRow : EditAgent(a)
    \/ \E k \in Role \cup {"basic"}, text \in Prompt : EditPrompt(k, text)
    \/ \E k \in Role : DeleteRole(k)
    \/ \E s \in Source : AttachSource(s) \/ DetachSource(s)
Next == Gate \/ Others \/ \E r \in Request : Reply(r)

Spec == Init /\ [][Next]_vars

\* ---- properties ----------------------------------------------------------------------

\* Counters, rows and prompts keep their types, only a request that was let in is
\* answered, and an agent has no role that is gone (agents.role_key).
RepliesTypeOK ==
    /\ LimitTypeOK
    /\ agent.role = "" \/ prompts[agent.role] # Gone
    /\ row \in [Client -> [title : Title \cup {Default, "derived"}, count : Nat]]
    /\ \A r \in Request : job[r] # NoJob => gate[r].at = "inside"

\* An agent that was changed at most once while its rows were read answers with the
\* configuration before or after that change: never with an identity, name or
\* sources that it did not have (load_agent_context reads three to four times).
PromptOfOneMoment ==
    \A r \in Request : job[r].at = "briefed" /\ job[r].until <= job[r].since + 1 =>
        job[r].system \in {job[r].first, job[r].last}

\* What a model was asked in the turn before, without memory, and its answer begin
\* the prompt of the next turn, which is what its cache of prefixes needs: if
\* nobody sent two messages at once, and from the first message on also when the
\* agent was edited (respond).
PrefixStable ==
    [][\A r \in Request : LET before == kept[Who(r)] IN
         job[r].at = "briefed" /\ job'[r].at = "answered" /\ job[r].alone /\ before.prompt # <<>> =>
            /\ IsPrefix(Tail(before.prompt), Tail(job'[r].asked))
            /\ edits = before.edits => Head(before.prompt) = Head(job'[r].asked)]_vars

\* The facts in a prompt take at most 0.4 of the context that the provider
\* publishes, when start-up reached it, whatever the settings say (respond).
InjectionFits ==
    \A r \in Request : job[r].at = "answered" /\ provider.reached /\ provider.published # 0 =>
        \A i \in DOMAIN job[r].asked : "memory" \in DOMAIN job[r].asked[i] =>
            10 * Tokens(job[r].asked[i].memory) <= 4 * provider.published

\* The row of a thread has counted two messages for each recorded turn and has the
\* title a user gave it, unless record_turn overlapped with another or with the
\* renaming: not by how long the reply took (record_turn, update_thread).
MetadataKept ==
    \A c \in Client : ~raced[c] =>
        /\ row[c].count = 2 * turns[c]
        /\ Titled(own[c]) /\ own[c] # "" => row[c].title = own[c]
=============================================================================
