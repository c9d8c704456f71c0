------------------------------ MODULE Migration ------------------------------
(***************************************************************************)
(* scripts/migrate_from_sqlite.py: what it reads from the legacy database, *)
(* and the three phases of a run (rows, conversations, memory) with the    *)
(* crashes that may cut it short, runs that follow it, and what the users, *)
(* the administrators and the worker of the new system do in between.      *)
(*                                                                         *)
(* Rows are identified by their natural keys; a thread, whose title may    *)
(* change, has an id of its own.                                           *)
(***************************************************************************)
EXTENDS Naturals, SequencesExt

CONSTANTS
    UserName, SourceName, AgentName,    \* natural keys
    Thread, Title, FactText,
    Key,        \* Key[f]: normalised content of f, "" when nothing is left of it
    LegacyUsers, LegacyRoles, LegacySources, LegacyAgents, LegacyLinks,
    LegacySessions, LegacyMessages,     \* the tables, in the order of their reads
    Late,       \* the first moment after all dates of the legacy database
    OwnerName, AdminEmail,  \* --owner (or "") and whether --admin-email is given
    MaxRuns, MaxLive        \* bounds on runs and on steps of the others

VARIABLES
    users, agents, threads,     \* rows by key, or Unused
    roles, sources, links,      \* keys of the rows; pairs <<agent, source>>
    transcript,     \* transcript[t]: messages in the checkpointer
    facts,          \* facts[<<a, u>>]: the namespace, in order of insertion
    run,            \* the run: its phase and its local variables
    runs, lives,    \* how many there were
    renamed         \* history: threads whose title a user changed

rows == <<users, agents, threads, roles, sources, links>>
vars == <<rows, transcript, facts, run, runs, lives, renamed>>

Unused == [row |-> "unused"]

\* What read_legacy makes of any legacy database: ids are primary keys, the role
\* of a user is one of two, and a date that cannot be read is 0.  Messages of the
\* new system have the text "live".
LegacyAssumption ==
    /\ LegacyUsers \in Seq([name : UserName, role : {"admin", "usuario"}])
    /\ LegacySources \in Seq([id : Nat, name : SourceName])
    /\ LegacyAgents \in Seq([id : Nat, name : AgentName, role : STRING,
                              memory : Seq([list : BOOLEAN, text : FactText])])
    /\ LegacySessions \in Seq([id : Nat, agent : Nat, title : Title, at : 0 .. Late - 1])
    /\ \A s, x \in ToSet(LegacySessions) : s.id = x.id => s = x
    /\ LegacyMessages \in Seq([session : Nat, role : STRING, text : STRING \ {"live"}])
ASSUME MigrationAssumption == Thread \subseteq Nat /\ Late \in Nat \ {0} /\ LegacyAssumption

\* ---- read_legacy ----------------------------------------------------------

\* The elements of s that are in T, in their order.
Only(s, T) ==
    LET kept[n \in 0 .. Len(s)] ==
          IF n = 0 THEN <<>> ELSE IF s[n] \in T THEN Append(kept[n - 1], s[n]) ELSE kept[n - 1]
    IN  kept[Len(s)]

UserNames == {u.name : u \in ToSet(LegacyUsers)}
RoleKeys == {r.key : r \in ToSet(LegacyRoles)}
SourceNames == {s.name : s \in ToSet(LegacySources)}
AgentNames == {a.name : a \in ToSet(LegacyAgents)}
AgentIds == {a.id : a \in ToSet(LegacyAgents)}

Text == {m.text : m \in ToSet(LegacyMessages)} \cup {"live"}
Message == [role : {"user", "assistant"}, text : Text]
Channel(r) == IF r \in {"user", "usuario", "human", "humano"} THEN "user" ELSE "assistant"
MessagesOf == [s \in ToSet(LegacySessions) |->
    LET kept == Only(LegacyMessages, {m \in ToSet(LegacyMessages) :
                                        m.session = s.id /\ m.role # "" /\ m.text # ""})
    IN  [i \in DOMAIN kept |-> [role |-> Channel(kept[i].role), text |-> kept[i].text]]]

\* Sessions and links of missing agents or sources are reported and left out.
Sessions == Only(LegacySessions, {s \in ToSet(LegacySessions) : s.agent \in AgentIds})
SessionIds == {s.id : s \in ToSet(Sessions)}
AgentOf(s) == (CHOOSE a \in ToSet(LegacyAgents) : a.id = s.agent).name
RoleOf(a) == IF a.role \in RoleKeys THEN a.role ELSE ""
LinkedSources(a) == {s.name : s \in {x \in ToSet(LegacySources) : <<a.id, x.id>> \in LegacyLinks}}

\* What is left of the lines of a list, and the other paragraphs.
SplitMemories(memory) ==
    LET kept == Only(memory, {m \in ToSet(memory) : m.list => Key[m.text] # ""})
    IN  [i \in DOMAIN kept |-> kept[i].text]

\* With several rows of one key, the first user is kept and the last of the others.
FirstUser(n) == LegacyUsers[Min({i \in DOMAIN LegacyUsers : LegacyUsers[i].name = n})]
LegacyAgent(n) == LegacyAgents[Max({i \in DOMAIN LegacyAgents : LegacyAgents[i].name = n})]

Owner ==
    LET admins == {i \in DOMAIN LegacyUsers : LegacyUsers[i].role = "admin"}
    IN  CASE OwnerName # "" -> (IF OwnerName \in UserNames THEN OwnerName ELSE "")
          [] OwnerName = "" /\ Len(LegacyUsers) = 1 -> LegacyUsers[1].name
          [] OTHER -> (IF admins # {} THEN LegacyUsers[Min(admins)].name ELSE "")

\* ---- migrate --------------------------------------------------------------

Idle ==
    [phase |-> "idle", i |-> 0, of |-> <<>>, position |-> 0, read |-> 0,
     todo |-> {}, user |-> "", left |-> <<>>, disturbed |-> FALSE]
Running == run.phase \notin {"idle", "done"}
\* To the k-th session, or, after the last one, to the memory of the first agent.
ToAgent(k, of) ==
    run' = [Idle EXCEPT !.phase = "facts", !.i = k, !.of = of, !.todo = UserNames,
                        !.disturbed = run.disturbed]
ToSession(k, of) ==
    IF k <= Len(Sessions)
    THEN run' = [Idle EXCEPT !.phase = "look", !.i = k, !.of = of, !.disturbed = run.disturbed]
    ELSE ToAgent(1, of)

Init ==
    /\ users = [n \in UserName |-> Unused] /\ agents = [n \in AgentName |-> Unused]
    /\ threads = [t \in Thread |-> Unused]
    /\ roles = {} /\ sources = {} /\ links = {}
    /\ transcript = [t \in Thread |-> <<>>]
    /\ facts = [p \in AgentName \X UserName |-> <<>>]
    /\ run = Idle /\ runs = 0 /\ lives = 0 /\ renamed = {}

Start ==
    /\ ~Running /\ runs < MaxRuns /\ Owner # ""
    /\ run' = [Idle EXCEPT !.phase = "domain"] /\ runs' = runs + 1
    /\ UNCHANGED <<rows, transcript, facts, lives, renamed>>

\* A crash, or an exception that ends the run.
Abort ==
    /\ run' = Idle /\ UNCHANGED <<runs, lives, renamed>>
Crash == Running /\ Abort /\ UNCHANGED <<rows, transcript, facts>>

Email(n) == IF n = Owner /\ AdminEmail THEN "admin" ELSE "synthesized"
NewUser(n) == [hash |-> "scrypt", email |-> Email(n), role |-> FirstUser(n).role]
\* Faulty: writes the row of the legacy user over one that is there.
FaultyUpsertUser(n) == NewUser(n)
UpsertUser(n) ==
    CASE users[n] = Unused -> NewUser(n)
      [] users[n] # Unused /\ users[n].email = "synthesized" -> [users[n] EXCEPT !.email = Email(n)]
      [] OTHER -> users[n]

UpsertRoles == roles \cup RoleKeys
UpsertSources == sources \cup SourceNames
UpsertAgent(n) == [role |-> RoleOf(LegacyAgent(n))]
\* The links of an agent become those of the legacy agent.
UpsertLinks ==
    {l \in links : l[1] \notin AgentNames}
    \cup {l \in AgentNames \X SourceNames : l[2] \in LinkedSources(LegacyAgent(l[1]))}

\* An unreadable date is replaced by the present moment, which no row has.
CreatedAt(s, t) == IF s.at = 0 THEN Late + t ELSE s.at
Found(ths, s) == {t \in Thread : /\ ths[t] # Unused
                                 /\ ths[t].agent = AgentOf(s) /\ ths[t].title = s.title
                                 /\ ths[t].at = s.at}
Free(ths) == {t \in Thread : ths[t] = Unused}
UpsertThread(acc, s) ==
    LET found == Found(acc.threads, s)
        t == IF found # {} THEN CHOOSE x \in found : TRUE ELSE CHOOSE x \in Free(acc.threads) : TRUE
        row == [agent |-> AgentOf(s), title |-> s.title, at |-> CreatedAt(s, t), mark |-> 0]
    IN  [threads |-> IF found # {} THEN acc.threads ELSE [acc.threads EXCEPT ![t] = row],
         of |-> [acc.of EXCEPT ![s.id] = t]]
Upserted ==
    LET after[n \in 0 .. Len(Sessions)] ==
          IF n = 0 THEN [threads |-> threads, of |-> [id \in SessionIds |-> 0]]
          ELSE UpsertThread(after[n - 1], Sessions[n])
    IN  after

\* The transaction of the first phase.  scalar_one_or_none raises when two
\* threads have the key of a session, and nothing is committed.
MigrateDomain ==
    /\ run.phase = "domain"
    /\ \A s \in ToSet(Sessions) : Cardinality(Found(threads, s)) <= 1
    /\ \A n \in DOMAIN Sessions : Free(Upserted[n - 1].threads) # {}
    /\ users' = [n \in UserName |-> IF n \in UserNames THEN UpsertUser(n) ELSE users[n]]
    /\ roles' = UpsertRoles /\ sources' = UpsertSources
    /\ agents' = [n \in AgentName |-> IF n \in AgentNames THEN UpsertAgent(n) ELSE agents[n]]
    /\ links' = UpsertLinks
    /\ threads' = Upserted[Len(Sessions)].threads
    /\ ToSession(1, Upserted[Len(Sessions)].of)
    /\ UNCHANGED <<transcript, facts, runs, lives, renamed>>
DomainFails ==
    /\ run.phase = "domain"
    /\ \E s \in ToSet(Sessions) : Cardinality(Found(threads, s)) > 1
    /\ Abort /\ UNCHANGED <<rows, transcript, facts>>

\* ---- _migrate_conversations -------------------------------------------------

Session == Sessions[run.i]
Target == run.of[Session.id]
Imported(t) == transcript[t] # <<>>

Advance == ToSession(run.i + 1, run.of)
ToMark(position) == run' = [run EXCEPT !.phase = "mark", !.position = position]

\* Faulty: takes the mark for the sign that the transcript is there.
FaultyAlreadyThere(t) == threads[t].mark > 0
AlreadyThere(t) == Imported(t)

\* Faulty: goes on to the next session and leaves the mark.
FaultyPresentTranscript == AlreadyThere(Target) /\ Advance
\* A transcript that is there is not imported again, whatever it holds.
PresentTranscript == AlreadyThere(Target) /\ ToMark(Len(transcript[Target]))
Look ==
    /\ run.phase = "look"
    /\ IF MessagesOf[Session] = <<>> THEN Advance
       ELSE \/ PresentTranscript
            \/ ~AlreadyThere(Target) /\ run' = [run EXCEPT !.phase = "import"]
    /\ UNCHANGED <<rows, transcript, facts, runs, lives, renamed>>

\* import_transcript looks again, and raises if a message has come meanwhile.
ImportRefused ==
    /\ run.phase = "import" /\ AlreadyThere(Target)
    /\ Abort /\ UNCHANGED <<rows, transcript, facts>>
ImportAccepted ==
    /\ run.phase = "import" /\ ~AlreadyThere(Target)
    /\ run' = [run EXCEPT !.phase = "append"]
    /\ UNCHANGED <<rows, transcript, facts, runs, lives, renamed>>
ImportAppend ==
    /\ run.phase = "append"
    /\ transcript' = [transcript EXCEPT ![Target] = @ \o MessagesOf[Session]]
    /\ ToMark(Len(MessagesOf[Session]))
    /\ UNCHANGED <<rows, facts, runs, lives, renamed>>

\* _mark_consolidated writes the greater of the position and the mark it read.
MarkRead ==
    /\ run.phase = "mark"
    /\ run' = [run EXCEPT !.phase = "commit", !.read = threads[Target].mark]
    /\ UNCHANGED <<rows, transcript, facts, runs, lives, renamed>>
MarkCommit ==
    /\ run.phase = "commit"
    /\ threads' = IF run.position > run.read
                  THEN [threads EXCEPT ![Target].mark = run.position] ELSE threads
    /\ Advance
    /\ UNCHANGED <<users, agents, roles, sources, links, transcript, facts, runs, lives, renamed>>

\* ---- _migrate_memory ----------------------------------------------------------

\* The shared memory of each agent goes to every user that was migrated.
Memories == SplitMemories(LegacyAgents[run.i].memory)
Namespace == <<LegacyAgents[run.i].name, run.user>>

\* write_facts: what is equal to a stored fact, or to one before it, is dropped.
Deduplicate(new, existing) ==
    LET kept[n \in 0 .. Len(new)] ==
          IF n = 0 THEN <<>>
          ELSE IF Key[new[n]] = "" \/ \E g \in ToSet(existing) \cup ToSet(kept[n - 1]) : Key[g] = Key[new[n]]
          THEN kept[n - 1] ELSE Append(kept[n - 1], new[n])
    IN  kept[Len(new)]
ReadFacts ==
    /\ run.phase = "facts" /\ run.i <= Len(LegacyAgents)
    /\ run.todo # {} /\ Memories # <<>>
    /\ LET n == CHOOSE n \in run.todo : TRUE
           stored == facts[<<LegacyAgents[run.i].name, n>>]
       IN  run' = [run EXCEPT !.phase = "put", !.user = n, !.todo = @ \ {n},
                             !.left = Deduplicate(Memories, stored)]
    /\ UNCHANGED <<rows, transcript, facts, runs, lives, renamed>>

\* Faulty: every fact gets a key of its own.
FaultyPut(p, f) == [facts EXCEPT ![p] = Append(@, f)]
\* aput: the key of a fact comes from its content, so that writing it again
\* replaces the item and keeps its place.
Put(p, f) ==
    [facts EXCEPT ![p] = IF \E i \in DOMAIN @ : Key[@[i]] = Key[f]
                         THEN [i \in DOMAIN @ |-> IF Key[@[i]] = Key[f] THEN f ELSE @[i]]
                         ELSE Append(@, f)]
PutFact ==
    /\ run.phase = "put" /\ run.left # <<>>
    /\ facts' = Put(Namespace, Head(run.left))
    /\ run' = [run EXCEPT !.left = Tail(@)]
    /\ UNCHANGED <<rows, transcript, runs, lives, renamed>>
NextUser ==
    /\ run.phase = "put" /\ run.left = <<>>
    /\ run' = [run EXCEPT !.phase = "facts", !.user = ""]
    /\ UNCHANGED <<rows, transcript, facts, runs, lives, renamed>>
NextAgent ==
    /\ run.phase = "facts" /\ run.i <= Len(LegacyAgents)
    /\ run.todo = {} \/ Memories = <<>>
    /\ ToAgent(run.i + 1, run.of)
    /\ UNCHANGED <<rows, transcript, facts, runs, lives, renamed>>
Finish ==
    /\ run.phase = "facts" /\ run.i > Len(LegacyAgents)
    /\ run' = [Idle EXCEPT !.phase = "done", !.of = run.of, !.disturbed = run.disturbed]
    /\ UNCHANGED <<rows, transcript, facts, runs, lives, renamed>>

\* ---- the others -----------------------------------------------------------------

Live ==
    /\ lives < MaxLive /\ lives' = lives + 1
    /\ run' = [run EXCEPT !.disturbed = (run.phase # "idle")]
    /\ UNCHANGED runs

Turn == <<[role |-> "user", text |-> "live"], [role |-> "assistant", text |-> "live"]>>
LiveTurn(t) ==
    /\ threads[t] # Unused /\ transcript' = [transcript EXCEPT ![t] = @ \o Turn]
    /\ Live /\ UNCHANGED <<rows, facts, renamed>>
Rename(t, title) ==
    /\ threads[t] # Unused /\ threads[t].title # title
    /\ threads' = [threads EXCEPT ![t].title = title] /\ renamed' = renamed \cup {t}
    /\ Live /\ UNCHANGED <<users, agents, roles, sources, links, transcript, facts>>
LoginRehash(n) ==
    /\ users[n] # Unused /\ users[n].hash = "scrypt"
    /\ users' = [users EXCEPT ![n].hash = "argon2"]
    /\ Live /\ UNCHANGED <<agents, threads, roles, sources, links, transcript, facts, renamed>>
ChangeEmail(n) ==
    /\ users[n] # Unused /\ users' = [users EXCEPT ![n].email = "own"]
    /\ Live /\ UNCHANGED <<agents, threads, roles, sources, links, transcript, facts, renamed>>
LinkSources(n, names) ==
    /\ agents[n] # Unused /\ names \subseteq sources
    /\ links' = {l \in links : l[1] # n} \cup ({n} \X names)
    /\ Live /\ UNCHANGED <<users, agents, threads, roles, sources, transcript, facts, renamed>>
\* The worker consolidates the turns of a thread: a fact, then the mark.
Consolidate(t, n, f) ==
    /\ threads[t] # Unused /\ users[n] # Unused /\ threads[t].mark < Len(transcript[t])
    /\ threads' = [threads EXCEPT ![t].mark = Len(transcript[t])]
    /\ facts' = Put(<<threads[t].agent, n>>, f)
    /\ Live /\ UNCHANGED <<users, agents, roles, sources, links, transcript, renamed>>
Forget(p) ==
    /\ facts[p] # <<>> /\ facts' = [facts EXCEPT ![p] = <<>>]
    /\ Live /\ UNCHANGED <<rows, transcript, renamed>>

Others ==
    \/ \E t \in Thread : LiveTurn(t) \/ \E title \in Title : Rename(t, title)
    \/ \E n \in UserName : LoginRehash(n) \/ ChangeEmail(n)
    \/ \E n \in AgentName, names \in SUBSET SourceName : LinkSources(n, names)
    \/ \E t \in Thread, f \in FactText : Key[f] # "" /\ Consolidate(t, Owner, f)
    \/ \E p \in DOMAIN facts : Forget(p)

Next ==
    \/ Start \/ Crash \/ MigrateDomain \/ DomainFails
    \/ Look \/ ImportRefused \/ ImportAccepted \/ ImportAppend \/ MarkRead \/ MarkCommit
    \/ ReadFacts \/ PutFact \/ NextUser \/ NextAgent \/ Finish
    \/ Others

Spec == Init /\ [][Next]_vars

\* ---- properties -----------------------------------------------------------------

\* A run repeats what a crash had left half written; the worker writes at once.
FactsOnce ==
    \A p \in DOMAIN facts : \A i, j \in DOMAIN facts[p] :
        Key[facts[p][i]] = Key[facts[p][j]] => i = j

UserRow == [hash : {"scrypt", "argon2"}, email : {"synthesized", "admin", "own"},
            role : {"admin", "usuario"}]
ThreadRow == [agent : AgentName, title : Title, at : Nat, mark : Nat]

\* Rows have their types and refer to rows that are there: what the legacy tables
\* link to nothing is left out (read_legacy).  No two facts of a namespace are
\* equal when normalised, whoever writes them (fact_key).
MigrationTypeOK ==
    /\ FactsOnce
    /\ users \in [UserName -> UserRow \cup {Unused}]
    /\ threads \in [Thread -> ThreadRow \cup {Unused}]
    /\ \A n \in AgentName : agents[n] = Unused \/ agents[n].role \in roles \cup {""}
    /\ \A t \in Thread : threads[t] = Unused \/ agents[threads[t].agent] # Unused
    /\ \A l \in links : l[2] \in sources /\ agents[l[1]] # Unused
    /\ transcript \in [Thread -> Seq(Message)]
    /\ facts \in [AgentName \X UserName -> Seq(FactText)]

\* The messages are in the transcript of t once and whole, among live ones only.
Holds(t, messages) ==
    \E k \in 0 .. Len(transcript[t]) :
        /\ k + Len(messages) <= Len(transcript[t])
        /\ \A i \in DOMAIN transcript[t] :
             IF i \in k + 1 .. k + Len(messages) THEN transcript[t][i] = messages[i - k]
             ELSE transcript[t][i].text = "live"

KeyOf(t) == <<threads[t].agent, threads[t].title, threads[t].at>>
SessionKey(s, t) == <<AgentOf(s), s.title, CreatedAt(s, t)>>

\* A run finds the threads of the runs before it by their natural key.
OneThreadPerKey ==
    \A t, x \in {y \in Thread \ renamed : threads[y] # Unused} : t # x => KeyOf(t) # KeyOf(x)

\* A thread has the legacy messages of one session once and whole, or none,
\* however many runs there were and wherever they broke off (import_transcript).
\* Unless a user renamed the thread, the session has its agent, title and date,
\* and no other thread has these: a session with a date is imported once.
ImportedOnce ==
    /\ \A t \in Thread : \/ Holds(t, <<>>)
                         \/ \E s \in ToSet(Sessions) : /\ Holds(t, MessagesOf[s])
                                                       /\ t \in renamed \/ KeyOf(t) = SessionKey(s, t)
    /\ OneThreadPerKey

\* What _analyze would report as still to be created.
Missing ==
    (RoleKeys \ roles) \cup (SourceNames \ sources)
    \cup {n \in AgentNames : agents[n] = Unused} \cup {n \in UserNames : users[n] = Unused}

SameKey(s) == {x \in ToSet(Sessions) : <<AgentOf(x), x.title, x.at>> = <<AgentOf(s), s.title, s.at>>}

\* The sources of the agents are those of the legacy agents.
LinksMigrated ==
    \A n \in AgentNames : {l[2] : l \in {k \in links : k[1] = n}} = LinkedSources(LegacyAgent(n))

\* The conversation of s is in its thread, unless a user wrote there first, a session
\* of the same agent, title and date took it, or a user gave another thread its title;
\* and none of its turns is left to the worker.
ConversationMigrated(s, t) ==
    /\ \/ t \in renamed
       \/ \E x \in SameKey(s) : MessagesOf[x] # <<>> /\ Holds(t, MessagesOf[x])
       \/ transcript[t][1].text = "live"
    /\ \A i \in DOMAIN transcript[t] : transcript[t][i].text # "live" => i <= threads[t].mark

Stored(f, p) == \E g \in ToSet(facts[p]) : Key[g] = Key[f]
MemoryMigrated(a, n) ==
    \A f \in ToSet(SplitMemories(a.memory)) : Key[f] # "" => Stored(f, <<a.name, n>>)

\* A run that ends and was alone has migrated everything, also what earlier runs
\* left half done: a dry run would find nothing to create, the agents have their
\* sources, each conversation is in a thread and every fact is stored.
RunCompletes ==
    run.phase = "done" /\ ~run.disturbed =>
        /\ Missing = {} /\ LinksMigrated
        /\ \A s \in ToSet(Sessions) : MessagesOf[s] # <<>> => ConversationMigrated(s, run.of[s.id])
        /\ \A a \in ToSet(LegacyAgents), n \in UserNames : MemoryMigrated(a, n)

\* A run leaves a user that was there as it was: neither a hash that a login has
\* rewritten nor an address is replaced, except the synthesized one of the owner.
UsersLeftAlone ==
    [][\A n \in UserName : Running /\ lives' = lives /\ users[n] # Unused =>
          \/ users'[n] = users[n]
          \/ n = Owner /\ users[n].email = "synthesized"
             /\ users'[n] = [users[n] EXCEPT !.email = "admin"]]_vars

\* "last_consolidated_* de un hilo existente no se toca": a run that is alone does
\* not move a mark that is set (_mark_consolidated).
ExistingMarksKept ==
    [][\A t \in Thread : run.phase = "commit" /\ t = Target /\ ~run.disturbed
          /\ threads[t].mark > 0 => threads'[t].mark = threads[t].mark]_vars
=============================================================================
