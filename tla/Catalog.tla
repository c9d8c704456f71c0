------------------------------- MODULE Catalog -------------------------------
(***************************************************************************)
(* Roles, knowledge sources and agents, the links between agents and       *)
(* sources, and the avatar files (api/v1/catalogs.py, api/v1/agents.py),   *)
(* with the seed that reconciles the canonical rows (seed/).               *)
(*                                                                         *)
(* The three tables have the same handlers: a request loads and checks in  *)
(* its first step, writes what it changed in the commit, and removes the   *)
(* file that the row named when it was loaded in a third step.  A check    *)
(* that fails changes nothing and is no step.                              *)
(***************************************************************************)
EXTENDS Naturals, FiniteSets

CONSTANTS
    RoleId, SourceId, AgentId,  \* ids, never used twice
    Key,            \* keys of roles, names of sources and of agents
    File,           \* names of uploaded files, never used twice
    None,
    Slot, MaxRequests,          \* requests under way; bound on all of them
    SeedRoles, SeedSources,     \* canonical keys (canonical_seed.json)
    SeedAgent, SeedRole, SeedLinks  \* the canonical agent, its role and sources

VARIABLES
    rows,       \* rows[i]: the row with id i, Unused or Deleted
    links,      \* agent_sources: pairs <<agent, source>>
    files,      \* names in the avatar directory
    written,    \* history: files ever written
    req,        \* req[s]: what the request holds between its steps
    started,    \* number of requests so far
    spoilt      \* history: avatar requests overlapped, or one broke off

vars == <<rows, links, files, written, req, started, spoilt>>

Id == RoleId \cup SourceId \cup AgentId
Table == {RoleId, SourceId, AgentId}
TableOf(i) == CHOOSE table \in Table : i \in table

\* canonical.py validates the seed when it is loaded.
ValidSeed == SeedRole \in SeedRoles \cup {None} /\ SeedLinks \subseteq SeedSources
ASSUME SeedIsConsistent == ValidSeed

\* Ids of different tables are told apart; a row that is not inserted yet has id 0.
ASSUME CatalogAssumption ==
    /\ MaxRequests \in Nat /\ 0 \notin Id /\ None \notin Key \cup File
    /\ RoleId \cap SourceId = {} /\ RoleId \cap AgentId = {} /\ SourceId \cap AgentId = {}
    /\ SeedRoles \cup SeedSources \cup {SeedAgent} \subseteq Key

Unused == [row |-> "unused"]
Deleted == [row |-> "deleted"]
Canonical == "canonical"
Text == {Canonical, "edited"}
Row == [key : Key, text : Text, role : Key \cup {None}, avatar : File \cup {None}]

Idle == [op |-> "idle"]
Exists(i) == rows[i] \notin {Unused, Deleted}
Fresh(table) == {i \in table : rows[i] = Unused}
Find(table, k) == {i \in table : Exists(i) /\ rows[i].key = k}
RoleKnown(k) == k = None \/ Find(RoleId, k) # {}

\* The constraints the database checks when a row is written.
Accepts(table, i, row) == Find(table, row.key) \subseteq {i} /\ RoleKnown(row.role)

Open(s, r) ==
    /\ req[s] = Idle /\ started < MaxRequests
    /\ req' = [req EXCEPT ![s] = r] /\ started' = started + 1
Close(s) == req' = [req EXCEPT ![s] = Idle] /\ UNCHANGED started

\* The file a loaded row names, if it is there.
AvatarPath(i) == IF rows[i].avatar \in files THEN rows[i].avatar ELSE None
OnAvatar(r) == r.op = "delete" \/ (r.op = "update" /\ "avatar" \in DOMAIN r.sets)
Overlaps(s, i) == \E q \in Slot \ {s} : req[q] # Idle /\ OnAvatar(req[q]) /\ req[q].id = i
Written(row, sets) == [c \in DOMAIN row |-> IF c \in DOMAIN sets THEN sets[c] ELSE row[c]]
Dirty(row, changes) == [c \in {d \in DOMAIN changes : changes[d] # row[d]} |-> changes[c]]

Init ==
    /\ rows = [i \in Id |-> Unused] /\ links = {} /\ files = {} /\ written = {}
    /\ req = [s \in Slot |-> Idle] /\ started = 0 /\ spoilt = FALSE

\* ---- create, update and delete of any table -----------------------------

Create(s, table, row) ==
    /\ RoleKnown(row.role)
    /\ Open(s, [op |-> "create", table |-> table, row |-> row, path |-> None])
    /\ UNCHANGED <<rows, links, files, written, spoilt>>
CreateCommit(s) ==
    /\ req[s].op = "create"
    /\ IF Accepts(req[s].table, 0, req[s].row)
       THEN \E i \in Fresh(req[s].table) : rows' = [rows EXCEPT ![i] = req[s].row]
       ELSE UNCHANGED rows
    /\ Close(s) /\ UNCHANGED <<links, files, written, spoilt>>

Update(s, i, changes) ==
    /\ Exists(i)
    /\ "role" \in DOMAIN changes => RoleKnown(changes.role)
    /\ Open(s, [op |-> "update", id |-> i, sets |-> Dirty(rows[i], changes), path |-> None])
    /\ UNCHANGED <<rows, links, files, written, spoilt>>

\* Faulty: the old path is taken after avatar_url is assigned.
UploadAfterAssign(s, i, f) ==
    /\ Exists(i) /\ f \notin written
    /\ files' = files \cup {f} /\ written' = written \cup {f}
    /\ Open(s, [op |-> "update", id |-> i, sets |-> [avatar |-> f], path |-> None])
    /\ spoilt' = (spoilt \/ Overlaps(s, i)) /\ UNCHANGED <<rows, links>>
UploadAvatar(s, i, f) ==
    /\ Exists(i) /\ f \notin written
    /\ files' = files \cup {f} /\ written' = written \cup {f}
    /\ Open(s, [op |-> "update", id |-> i, sets |-> [avatar |-> f], path |-> AvatarPath(i)])
    /\ spoilt' = (spoilt \/ Overlaps(s, i)) /\ UNCHANGED <<rows, links>>
\* Faulty: the file goes before the commit.
DeleteAvatarAtOnce(s, i) ==
    /\ Exists(i) /\ files' = files \ {rows[i].avatar}
    /\ Open(s, [op |-> "update", id |-> i, sets |-> Dirty(rows[i], [avatar |-> None]), path |-> None])
    /\ spoilt' = (spoilt \/ Overlaps(s, i)) /\ UNCHANGED <<rows, links, written>>
DeleteAvatar(s, i) ==
    /\ Exists(i)
    /\ Open(s, [op |-> "update", id |-> i, sets |-> Dirty(rows[i], [avatar |-> None]), path |-> AvatarPath(i)])
    /\ spoilt' = (spoilt \/ Overlaps(s, i)) /\ UNCHANGED <<rows, links, files, written>>

\* A row that is gone, or a constraint that does not hold, rolls back.
UpdateCommit(s) ==
    /\ req[s].op = "update"
    /\ LET i == req[s].id row == Written(rows[i], req[s].sets) IN
       IF Exists(i) /\ Accepts(TableOf(i), i, row)
       THEN /\ rows' = [rows EXCEPT ![i] = row]
            /\ req' = [req EXCEPT ![s] = [op |-> "unlink", path |-> req[s].path]]
            /\ UNCHANGED <<started, spoilt>>
       ELSE Close(s) /\ spoilt' = (spoilt \/ OnAvatar(req[s])) /\ UNCHANGED rows
    /\ UNCHANGED <<links, files, written>>

Delete(s, i) ==
    /\ Exists(i)
    /\ Open(s, [op |-> "delete", id |-> i, path |-> AvatarPath(i)])
    /\ spoilt' = (spoilt \/ Overlaps(s, i)) /\ UNCHANGED <<rows, links, files, written>>
\* Faulty: the foreign keys have no ON DELETE clause.
FaultyReferencesGone(i) == rows' = [rows EXCEPT ![i] = Deleted] /\ UNCHANGED links
\* Agents lose the role (SET NULL), links go with either end (CASCADE).
ReferencesGone(i) ==
    /\ rows' = [j \in Id |-> IF j = i THEN Deleted
                  ELSE IF i \in RoleId /\ j \in AgentId /\ Exists(i) /\ Exists(j) /\ rows[j].role = rows[i].key
                  THEN [rows[j] EXCEPT !.role = None] ELSE rows[j]]
    /\ links' = {l \in links : l[1] # i /\ l[2] # i}
DeleteCommit(s) ==
    /\ req[s].op = "delete" /\ ReferencesGone(req[s].id)
    /\ req' = [req EXCEPT ![s] = [op |-> "unlink", path |-> req[s].path]]
    /\ UNCHANGED <<files, written, started, spoilt>>

\* After the commit: path.unlink(missing_ok=True).
Unlink(s) ==
    /\ req[s].op = "unlink" /\ files' = files \ {req[s].path}
    /\ Close(s) /\ UNCHANGED <<rows, links, written, spoilt>>

\* The client goes away or the process dies between two steps.
BreakOff(s) ==
    /\ req[s].op \in {"update", "delete", "unlink"} /\ Close(s)
    /\ spoilt' = TRUE /\ UNCHANGED <<rows, links, files, written>>

\* ---- links ----------------------------------------------------------------

Attach(s, a, k) ==
    /\ Exists(a) /\ Exists(k)
    /\ Open(s, [op |-> "attach", link |-> <<a, k>>]) /\ UNCHANGED <<rows, links, files, written, spoilt>>
\* The primary key and the two foreign keys decide; each of them is a conflict.
AttachCommit(s) ==
    /\ req[s].op = "attach"
    /\ LET l == req[s].link IN links' = IF Exists(l[1]) /\ Exists(l[2]) THEN links \cup {l} ELSE links
    /\ Close(s) /\ UNCHANGED <<rows, files, written, spoilt>>
Detach(s, l) ==
    /\ l \in links
    /\ Open(s, [op |-> "detach", link |-> l]) /\ UNCHANGED <<rows, links, files, written, spoilt>>
DetachCommit(s) ==
    /\ req[s].op = "detach" /\ links' = links \ {req[s].link}
    /\ Close(s) /\ UNCHANGED <<rows, files, written, spoilt>>

\* ---- seed: one transaction, read in two parts -----------------------------

\* The loop over the canonical roles and sources.
Seed(s) ==
    LET wanted == ({RoleId} \X SeedRoles) \cup ({SourceId} \X SeedSources)
        found == UNION {Find(p[1], p[2]) : p \in wanted}
    IN  /\ Open(s, [op |-> "seed", missing |-> {p \in wanted : Find(p[1], p[2]) = {}},
                    dirty |-> {i \in found : rows[i].text # Canonical}])
        /\ UNCHANGED <<rows, links, files, written, spoilt>>

\* Faulty: links the sources it finds.
FaultyLinkable(names, present) == TRUE
\* The names of the sources are read again; one that is not there is an error.
Linkable(names, present) == names \subseteq present

SeedCommit(s) ==
    /\ req[s].op = "seed"
    /\ LET agent == <<AgentId, SeedAgent>>
           inserts == req[s].missing \cup (IF Find(AgentId, SeedAgent) = {} THEN {agent} ELSE {})
           sources == SeedSources \cap {k \in Key : Find(SourceId, k) # {} \/ <<SourceId, k>> \in inserts}
           ok == /\ \A i \in req[s].dirty : Exists(i)
                 /\ \A p \in inserts : Find(p[1], p[2]) = {}
                 /\ RoleKnown(SeedRole) \/ <<RoleId, SeedRole>> \in inserts
                 /\ Linkable(SeedLinks, sources)
       IN IF ~ok THEN UNCHANGED <<rows, links, spoilt>>
          ELSE \E new \in [inserts -> Id] :
                /\ \A p \in inserts : new[p] \in Fresh(p[1])
                /\ \A p, q \in inserts : new[p] = new[q] => p = q
                /\ LET a == IF agent \in inserts THEN new[agent]
                            ELSE CHOOSE i \in Find(AgentId, SeedAgent) : TRUE
                       idOf == [k \in sources |-> IF <<SourceId, k>> \in inserts THEN new[<<SourceId, k>>]
                                                  ELSE CHOOSE i \in Find(SourceId, k) : TRUE]
                   IN /\ rows' = [i \in Id |->
                            IF i = a THEN [key |-> SeedAgent, text |-> Canonical, role |-> SeedRole, avatar |-> None]
                            ELSE IF i \in req[s].dirty THEN [rows[i] EXCEPT !.text = Canonical]
                            ELSE IF \E p \in inserts : new[p] = i
                            THEN [key |-> (CHOOSE p \in inserts : new[p] = i)[2],
                                  text |-> Canonical, role |-> None, avatar |-> None]
                            ELSE rows[i]]
                      /\ links' = {l \in links : l[1] # a} \cup {<<a, idOf[k]>> : k \in SeedLinks \cap sources}
                      /\ spoilt' = (spoilt \/ (Exists(a) /\ rows[a].avatar # None) \/ Overlaps(s, a))
    /\ Close(s) /\ UNCHANGED <<files, written>>
-----------------------------------------------------------------------------
NewRow(table) == [key : Key, text : {"edited"}, avatar : {None},
                  role : IF table = AgentId THEN Key \cup {None} ELSE {None}]
Changes(i) == IF i \in RoleId THEN [text : {"edited"}]
              ELSE [key : Key] \cup (IF i \in AgentId THEN [role : Key \cup {None}] ELSE [text : {"edited"}])

Next == \E s \in Slot :
    \/ \E table \in Table : \E row \in NewRow(table) : Create(s, table, row)
    \/ \E i \in Id : Delete(s, i) \/ \E c \in Changes(i) : Update(s, i, c)
    \/ \E a \in AgentId : \/ DeleteAvatar(s, a) \/ \E f \in File : UploadAvatar(s, a, f)
                          \/ \E k \in SourceId : Attach(s, a, k)
    \/ \E l \in links : Detach(s, l)
    \/ CreateCommit(s) \/ UpdateCommit(s) \/ DeleteCommit(s) \/ Unlink(s) \/ BreakOff(s)
    \/ AttachCommit(s) \/ DetachCommit(s) \/ Seed(s) \/ SeedCommit(s)

Spec == Init /\ [][Next]_vars

\* Neither handlers that check nothing before the commit nor a seed that
\* inserts what it did not find put one key twice into a table.
KeysUnique == \A table \in Table : \A k \in Key : Cardinality(Find(table, k)) <= 1

\* Rows have their columns and keys of their own; a link and the role of an
\* agent refer to rows that exist, whatever is deleted while they are written.
CatalogTypeOK ==
    /\ KeysUnique
    /\ rows \in [Id -> Row \cup {Unused, Deleted}]
    /\ files \subseteq written /\ written \subseteq File /\ started \in 0..MaxRequests
    /\ \A l \in links : l[1] \in AgentId /\ l[2] \in SourceId /\ Exists(l[1]) /\ Exists(l[2])
    /\ \A a \in AgentId : Exists(a) => RoleKnown(rows[a].role)

\* The avatar of an agent can be downloaded: the file is written before the
\* row names it and goes only after the row has named another.
AvatarHasFile == \A a \in AgentId : Exists(a) => rows[a].avatar \in files \cup {None}

\* No file is left behind, unless requests on one avatar overlapped, one broke
\* off half way or the seed reset the avatar.
NoOrphanFiles ==
    ~spoilt => \A f \in files : \/ \E a \in AgentId : Exists(a) /\ rows[a].avatar = f
                                \/ \E s \in Slot :
                                     /\ req[s] # Idle
                                     /\ \/ req[s].op = "update" /\ OnAvatar(req[s]) /\ req[s].sets.avatar = f
                                        \/ req[s].op = "unlink" /\ req[s].path = f

\* A seed that finds its rows changed under it leaves the canonical agent with
\* its role and exactly its sources, or changes nothing.
SeedAllOrNothing ==
    [][\A s \in Slot : req[s].op = "seed" /\ req'[s] = Idle =>
        \/ rows' = rows /\ links' = links
        \/ \E a \in AgentId : /\ rows'[a] \notin {Unused, Deleted}
              /\ rows'[a].key = SeedAgent /\ rows'[a].role = SeedRole
              /\ {rows'[l[2]].key : l \in {m \in links' : m[1] = a}} = SeedLinks]_vars
=============================================================================
