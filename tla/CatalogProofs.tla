---------------------------- MODULE CatalogProofs ----------------------------
(***************************************************************************)
(* Keys stay unique, references lead to rows that exist, avatars to files  *)
(* that are there, and a seed is all or nothing, for any number of rows,   *)
(* files and requests.  The first half of the invariant is about the       *)
(* tables, the second about who may still remove or name which file.       *)
(***************************************************************************)
EXTENDS Catalog, FiniteSetTheorems, TLAPS

\* What an assignment may set: columns, with values of their types.
Assigns(sets) ==
    /\ DOMAIN sets \subseteq {"key", "text", "role", "avatar"}
    /\ "key" \in DOMAIN sets => sets.key \in Key
    /\ "text" \in DOMAIN sets => sets.text \in Text
    /\ "role" \in DOMAIN sets => sets.role \in Key \cup {None}
    /\ "avatar" \in DOMAIN sets => sets.avatar \in File \cup {None}

Wanted == ({RoleId} \X SeedRoles) \cup ({SourceId} \X SeedSources)

\* A row begins without an avatar, ...
CreateRequest ==
    [op : {"create"}, table : Table, row : {row \in Row : row.avatar = None}, path : {None}]
\* ... a role keeps its key, and only agents get avatars.
UpdateRequest(r) ==
    /\ DOMAIN r = {"op", "id", "sets", "path"} /\ r.op = "update" /\ r.id \in Id /\ Assigns(r.sets)
    /\ r.path \in File \cup {None}
    /\ "key" \in DOMAIN r.sets => r.id \notin RoleId
    /\ "avatar" \in DOMAIN r.sets => r.id \in AgentId
DeleteRequest == [op : {"delete"}, id : Id, path : File \cup {None}]
UnlinkRequest == [op : {"unlink"}, path : File \cup {None}]
LinkRequest == [op : {"attach", "detach"}, link : AgentId \X SourceId]
SeedRequest == [op : {"seed"}, missing : SUBSET Wanted, dirty : SUBSET (RoleId \cup SourceId)]

RequestOK(r) ==
    \/ r = Idle
    \/ r \in CreateRequest \cup DeleteRequest \cup UnlinkRequest \cup LinkRequest \cup SeedRequest
    \/ UpdateRequest(r)

RowsOK == rows \in [Id -> Row \cup {Unused, Deleted}] /\ started \in 0..MaxRequests
OneRowPerKey ==
    \A table \in Table : \A i, j \in table :
        Exists(i) /\ Exists(j) /\ rows[i].key = rows[j].key => i = j
LinksLead == \A l \in links : l \in AgentId \X SourceId /\ Exists(l[1]) /\ Exists(l[2])
RolesLead == \A a \in AgentId : Exists(a) => RoleKnown(rows[a].role)
\* A request loads a row that exists, and ids are never used again.
RequestsOK ==
    /\ DOMAIN req = Slot
    /\ \A s \in Slot : RequestOK(req[s])
    /\ \A s \in Slot : req[s].op \in {"update", "delete"} => rows[req[s].id] # Unused

TablesInv == RowsOK /\ OneRowPerKey /\ LinksLead /\ RolesLead /\ RequestsOK

\* The file that a request will write into its row at the commit, ...
Names(s, f) == req[s].op = "update" /\ OnAvatar(req[s]) /\ req[s].sets.avatar = f
\* ... and the one it will remove after it.
Removes(s, f) == req[s].op \in {"update", "delete", "unlink"} /\ req[s].path = f

FilesOK == files \subseteq written /\ written \subseteq File
RowHasFile == \A i \in Id : Exists(i) => rows[i].avatar \in files \cup {None}
OneRowPerFile ==
    \A f \in File : \A i, j \in Id :
        Exists(i) /\ Exists(j) /\ rows[i].avatar = f /\ rows[j].avatar = f => i = j
\* A file on its way into a row is there, and belongs to one request alone.
NewFilesOwned ==
    \A f \in File : \A s \in Slot : Names(s, f) =>
        /\ f \in files /\ \A i \in Id : Exists(i) => rows[i].avatar # f
        /\ \A q \in Slot : (q # s => ~Names(q, f)) /\ ~Removes(q, f)
\* A file that will be removed is named by no row but the one that the request
\* changes, and after the commit by none.
OldFilesOwned ==
    \A f \in File : \A s \in Slot : Removes(s, f) =>
        /\ f \in written
        /\ \A i \in Id : Exists(i) /\ rows[i].avatar = f => req[s].op # "unlink" /\ i = req[s].id
        /\ req[s].op = "update" => OnAvatar(req[s])
\* Alone on its row, a request removes what the row names.
AloneOnRow ==
    ~spoilt => \A s \in Slot : req[s].op \in {"update", "delete"} /\ OnAvatar(req[s]) =>
        /\ Exists(req[s].id) => req[s].path = rows[req[s].id].avatar
        /\ \A q \in Slot \ {s} : req[q].op \in {"update", "delete"} /\ OnAvatar(req[q])
                                 => req[q].id # req[s].id

\* A file that no row names is on its way in or out.
FilesKept ==
    ~spoilt => \A f \in files : \/ \E a \in AgentId : Exists(a) /\ rows[a].avatar = f
                                \/ \E s \in Slot : Names(s, f) \/ (req[s].op = "unlink" /\ req[s].path = f)

FilesInv == FilesOK /\ RowHasFile /\ OneRowPerFile /\ NewFilesOwned /\ OldFilesOwned
            /\ AloneOnRow /\ FilesKept
CatalogInv == TablesInv /\ FilesInv

-----------------------------------------------------------------------------
\* A row is told from the marks of unused and deleted ones by its columns.
LEMMA RowsAreRows == \A row \in Row : row \notin {Unused, Deleted}
<1> QED
    BY DEF Row, Unused, Deleted

LEMMA TableOfId ==
    /\ \A i \in Id : TableOf(i) \in Table /\ i \in TableOf(i)
    /\ \A table \in Table : table \subseteq Id /\ \A i \in table : TableOf(i) = table
<1>1. ASSUME NEW i \in Id PROVE TableOf(i) \in Table /\ i \in TableOf(i)
    <2>1. \E table \in Table : i \in table
        BY DEF Id, Table
    <2> QED
        BY <2>1 DEF TableOf
<1>2. ASSUME NEW i \in Id, NEW x \in Table, NEW y \in Table, i \in x, i \in y PROVE x = y
    BY <1>2, CatalogAssumption DEF Table
<1>3. \A table \in Table : table \subseteq Id
    BY DEF Table, Id
<1> QED
    BY <1>1, <1>2, <1>3

\* SQLAlchemy writes the columns that are assigned and leaves the others.
LEMMA WrittenRow ==
    ASSUME NEW row \in Row, NEW sets, Assigns(sets)
    PROVE  /\ Written(row, sets) \in Row
           /\ Written(row, sets).key = IF "key" \in DOMAIN sets THEN sets.key ELSE row.key
           /\ Written(row, sets).role = IF "role" \in DOMAIN sets THEN sets.role ELSE row.role
           /\ Written(row, sets).avatar = IF "avatar" \in DOMAIN sets THEN sets.avatar ELSE row.avatar
<1> QED
    BY DEF Written, Row, Assigns

LEMMA DirtyAssigns ==
    ASSUME NEW row \in Row, NEW changes, Assigns(changes)
    PROVE  /\ Assigns(Dirty(row, changes))
           /\ DOMAIN Dirty(row, changes) \subseteq DOMAIN changes
           /\ "avatar" \in DOMAIN changes =>
                IF "avatar" \in DOMAIN Dirty(row, changes)
                THEN Dirty(row, changes).avatar = changes.avatar
                ELSE row.avatar = changes.avatar
<1> QED
    BY DEF Dirty, Assigns

\* A request has one of seven forms, told by op.
LEMMA RequestForms ==
    ASSUME NEW r, RequestOK(r)
    PROVE  /\ r.op = "create" => r \in CreateRequest
           /\ r.op = "update" => UpdateRequest(r)
           /\ r.op = "delete" => r \in DeleteRequest
           /\ r.op = "unlink" => r \in UnlinkRequest
           /\ r.op \in {"attach", "detach"} => r \in LinkRequest
           /\ r.op = "seed" => r \in SeedRequest
           /\ r.op = "idle" => r = Idle
           /\ r.op \in {"idle", "create", "update", "delete", "unlink", "attach", "detach", "seed"}
<1> QED
    BY DEF RequestOK, CreateRequest, UpdateRequest, DeleteRequest, UnlinkRequest, LinkRequest,
           SeedRequest, Idle

LEMMA RowsFound ==
    ASSUME TablesInv
    PROVE  \A i \in Id : Exists(i) => rows[i] \in Row
<1> QED
    BY DEF TablesInv, RowsOK, Exists

\* As long as no role goes, what refers to roles still does.
LEMMA RolesKept ==
    ASSUME \A i \in RoleId : Exists(i) => Exists(i)' /\ rows'[i].key = rows[i].key, NEW k
    PROVE  RoleKnown(k) => RoleKnown(k)'
<1> QED
    BY DEF RoleKnown, Find

\* A request that begins has loaded a row that exists and changes no table.
LEMMA BeginTables ==
    ASSUME TablesInv, NEW s \in Slot, NEW r, Open(s, r), RequestOK(r), UNCHANGED <<rows, links>>,
           r.op \in {"update", "delete"} => r.id \in Id /\ Exists(r.id)
    PROVE  TablesInv'
<1> USE DEF TablesInv, Open
<1>1. RowsOK'
    BY CatalogAssumption DEF RowsOK
<1>2. OneRowPerKey' /\ LinksLead' /\ RolesLead'
    BY DEF OneRowPerKey, LinksLead, RolesLead, RoleKnown, Find, Exists
<1>3. RequestsOK'
    BY DEF RequestsOK, Exists
<1> QED
    BY <1>1, <1>2, <1>3

\* A request that goes on with UnlinkRequest or ends holds no row any more.
LEMMA GoOnTables ==
    ASSUME TablesInv, NEW s \in Slot, DOMAIN req' = Slot, \A q \in Slot \ {s} : req'[q] = req[q],
           RequestOK(req'[s]), req'[s].op \in {"idle", "unlink"},
           \A i \in Id : rows[i] # Unused => rows'[i] # Unused
    PROVE  RequestsOK'
<1>1. \A q \in Slot : RequestOK(req'[q])
    BY DEF TablesInv, RequestsOK
<1>2. \A q \in Slot : req'[q].op \in {"update", "delete"} => req'[q].id \in Id
    BY <1>1, RequestForms DEF UpdateRequest, DeleteRequest
<1> QED
    BY <1>1, <1>2 DEF TablesInv, RequestsOK

LEMMA EndTables ==
    ASSUME TablesInv, NEW s \in Slot, Close(s), UNCHANGED <<rows, links>>
    PROVE  TablesInv'
<1>1. RowsOK' /\ OneRowPerKey' /\ LinksLead' /\ RolesLead'
    BY DEF TablesInv, RowsOK, OneRowPerKey, LinksLead, RolesLead, RoleKnown, Find, Exists, Close
<1>2. RequestOK(req'[s]) /\ req'[s].op = "idle"
    BY DEF TablesInv, RequestsOK, RequestOK, Close, Idle
<1>3. RequestsOK'
    BY <1>2, GoOnTables DEF Close, TablesInv, RequestsOK
<1> QED
    BY <1>1, <1>3 DEF TablesInv

\* ---- the tables, action by action -------------------------------------------

\* The forms that requests begin with.
LEMMA UpdateForm ==
    ASSUME TablesInv, NEW i \in Id, Exists(i), NEW changes, Assigns(changes),
           "key" \in DOMAIN changes => i \notin RoleId,
           "avatar" \in DOMAIN changes => i \in AgentId, NEW path \in File \cup {None}
    PROVE  RequestOK([op |-> "update", id |-> i, sets |-> Dirty(rows[i], changes), path |-> path])
<1> DEFINE r == [op |-> "update", id |-> i, sets |-> Dirty(rows[i], changes), path |-> path]
<1>1. Assigns(Dirty(rows[i], changes)) /\ DOMAIN Dirty(rows[i], changes) \subseteq DOMAIN changes
    BY RowsFound, DirtyAssigns
<1>2. UpdateRequest(r)
    BY <1>1 DEF UpdateRequest
<1> QED
    BY <1>2 DEF RequestOK

LEMMA AvatarPathForm ==
    ASSUME FilesOK, NEW i
    PROVE  AvatarPath(i) \in File \cup {None}
<1> QED
    BY DEF FilesOK, AvatarPath

LEMMA CreateTables ==
    ASSUME TablesInv, NEW s \in Slot, NEW table \in Table, NEW row \in NewRow(table),
           Create(s, table, row)
    PROVE  TablesInv'
<1> DEFINE r == [op |-> "create", table |-> table, row |-> row, path |-> None]
<1>1. row \in Row /\ row.avatar = None
    BY DEF NewRow, Row, Text
<1>2. RequestOK(r) /\ r.op = "create"
    BY <1>1 DEF RequestOK, CreateRequest
<1> QED
    BY <1>2, BeginTables DEF Create

LEMMA UpdateTables ==
    ASSUME TablesInv, NEW s \in Slot, NEW i \in Id, NEW c \in Changes(i), Update(s, i, c)
    PROVE  TablesInv'
<1> DEFINE r == [op |-> "update", id |-> i, sets |-> Dirty(rows[i], c), path |-> None]
<1>1. Assigns(c) /\ "avatar" \notin DOMAIN c /\ ("key" \in DOMAIN c => i \notin RoleId)
    BY DEF Changes, Assigns, Text
<1>2. RequestOK(r)
    BY <1>1, UpdateForm DEF Update
<1> QED
    BY <1>2, BeginTables DEF Update

LEMMA UploadAvatarTables ==
    ASSUME TablesInv, FilesOK, NEW s \in Slot, NEW a \in AgentId, NEW f \in File, UploadAvatar(s, a, f)
    PROVE  TablesInv'
<1> DEFINE r == [op |-> "update", id |-> a, sets |-> [avatar |-> f], path |-> AvatarPath(a)]
<1>1. UpdateRequest(r)
    BY AvatarPathForm DEF UpdateRequest, Assigns, Id
<1>2. a \in Id /\ Exists(a)
    BY DEF UploadAvatar, Id
<1> QED
    BY <1>1, <1>2, BeginTables DEF UploadAvatar, RequestOK

LEMMA DeleteAvatarTables ==
    ASSUME TablesInv, FilesOK, NEW s \in Slot, NEW a \in AgentId, DeleteAvatar(s, a)
    PROVE  TablesInv'
<1> DEFINE r == [op |-> "update", id |-> a, sets |-> Dirty(rows[a], [avatar |-> None]),
                 path |-> AvatarPath(a)]
<1>1. Assigns([avatar |-> None])
    BY DEF Assigns
<1>2. a \in Id /\ Exists(a)
    BY DEF DeleteAvatar, Id
<1>3. RequestOK(r)
    BY <1>1, <1>2, UpdateForm, AvatarPathForm
<1> QED
    BY <1>2, <1>3, BeginTables DEF DeleteAvatar

LEMMA DeleteTables ==
    ASSUME TablesInv, FilesOK, NEW s \in Slot, NEW i \in Id, Delete(s, i)
    PROVE  TablesInv'
<1> DEFINE r == [op |-> "delete", id |-> i, path |-> AvatarPath(i)]
<1>1. RequestOK(r)
    BY AvatarPathForm DEF RequestOK, DeleteRequest
<1> QED
    BY <1>1, BeginTables DEF Delete

LEMMA AttachTables ==
    ASSUME TablesInv, NEW s \in Slot, NEW a \in AgentId, NEW k \in SourceId, Attach(s, a, k)
    PROVE  TablesInv'
<1> DEFINE r == [op |-> "attach", link |-> <<a, k>>]
<1>1. RequestOK(r)
    BY DEF RequestOK, LinkRequest
<1> QED
    BY <1>1, BeginTables DEF Attach

LEMMA DetachTables ==
    ASSUME TablesInv, NEW s \in Slot, NEW l \in links, Detach(s, l)
    PROVE  TablesInv'
<1> DEFINE r == [op |-> "detach", link |-> l]
<1>1. RequestOK(r)
    BY DEF RequestOK, LinkRequest, TablesInv, LinksLead
<1> QED
    BY <1>1, BeginTables DEF Detach

LEMMA SeedTables ==
    ASSUME TablesInv, NEW s \in Slot, Seed(s)
    PROVE  TablesInv'
<1> DEFINE found == UNION {Find(p[1], p[2]) : p \in Wanted}
           r == [op |-> "seed", missing |-> {p \in Wanted : Find(p[1], p[2]) = {}},
                 dirty |-> {i \in found : rows[i].text # Canonical}]
<1>1. found \subseteq RoleId \cup SourceId
    BY DEF Wanted, Find
<1> HIDE DEF found
<1>2. RequestOK(r)
    BY <1>1 DEF RequestOK, SeedRequest
<1> USE DEF found
<1>3. Open(s, r) /\ UNCHANGED <<rows, links>>
    BY DEF Seed, Wanted
<1> QED
    BY <1>2, <1>3, BeginTables

\* The constraints that a row meets when it is written.
LEMMA AcceptedRow ==
    ASSUME TablesInv, NEW i \in Id, NEW row \in Row, UNCHANGED started,
           \A k \in TableOf(i) : k # i /\ Exists(k) => rows[k].key # row.key,
           RoleKnown(row.role), rows' = [rows EXCEPT ![i] = row],
           i \in RoleId => ~Exists(i) \/ rows[i].key = row.key
    PROVE  RowsOK' /\ OneRowPerKey' /\ RolesLead'
<1> USE DEF TablesInv
<1>1. RowsOK'
    BY DEF RowsOK
<1>2. rows'[i] = row /\ \A k \in Id \ {i} : rows'[k] = rows[k]
    BY DEF RowsOK
<1>3. Exists(i)' /\ \A k \in Id \ {i} : Exists(k)' <=> Exists(k)
    BY <1>2, RowsAreRows DEF Exists
<1>4. OneRowPerKey'
    <2> SUFFICES ASSUME NEW table \in Table, NEW x \in table, NEW y \in table, x # y,
                        Exists(x)', Exists(y)', rows'[x].key = rows'[y].key
                 PROVE  FALSE
        BY DEF OneRowPerKey
    <2>1. x \in Id /\ y \in Id /\ TableOf(x) = table /\ TableOf(y) = table
        BY TableOfId
    <2>2. CASE x = i
        BY <1>2, <1>3, <2>1, <2>2
    <2>3. CASE y = i
        BY <1>2, <1>3, <2>1, <2>3
    <2>4. CASE x # i /\ y # i
        BY <1>2, <1>3, <2>1, <2>4 DEF OneRowPerKey
    <2> QED
        BY <2>2, <2>3, <2>4
<1>5. RolesLead'
    <2>1. \A k \in RoleId : Exists(k) => Exists(k)' /\ rows'[k].key = rows[k].key
        BY <1>2, <1>3 DEF Id
    <2>2. \A k : RoleKnown(k) => RoleKnown(k)'
        BY <2>1, RolesKept
    <2>3. AgentId \subseteq Id
        BY DEF Id
    <2> QED
        BY <1>2, <1>3, <2>2, <2>3 DEF RolesLead
<1> QED
    BY <1>1, <1>4, <1>5

\* An INSERT that the unique key and the foreign key accept.
LEMMA CreateCommitTables ==
    ASSUME TablesInv, NEW s \in Slot, CreateCommit(s)
    PROVE  TablesInv'
<1> DEFINE table == req[s].table
           row == req[s].row
<1>1. table \in Table /\ row \in Row
    BY RequestForms DEF CreateCommit, TablesInv, RequestsOK, CreateRequest
<1>2. Close(s) /\ UNCHANGED links
    BY DEF CreateCommit
<1>3. CASE UNCHANGED rows
    BY <1>2, <1>3, EndTables
<1>4. CASE ~UNCHANGED rows
    <2>1. PICK i \in Fresh(table) : rows' = [rows EXCEPT ![i] = row]
        BY <1>4 DEF CreateCommit
    <2>2. Accepts(table, 0, row)
        BY <1>4 DEF CreateCommit
    <2>3. i \in Id /\ TableOf(i) = table /\ rows[i] = Unused /\ ~Exists(i)
        BY <1>1, <2>1, TableOfId DEF Fresh, Exists
    <2>4. \A k \in table : Exists(k) => rows[k].key # row.key
        BY <1>1, <2>2, TableOfId, CatalogAssumption DEF Accepts, Find
    <2>5. RoleKnown(row.role) /\ started' = started
        BY <1>2, <2>2 DEF Accepts, Close
    <2> HIDE DEF table, row
    <2>6. RowsOK' /\ OneRowPerKey' /\ RolesLead'
        BY <1>1, <2>1, <2>3, <2>4, <2>5, AcceptedRow
    <2>7. \A k \in Id : (Exists(k) => Exists(k)') /\ (rows[k] # Unused => rows'[k] # Unused)
        BY <1>1, <2>1, <2>3, RowsAreRows DEF Exists, TablesInv, RowsOK
    <2>8. LinksLead'
        BY <1>2, <2>7 DEF LinksLead, TablesInv, Id
    <2>9. RequestsOK'
        BY <1>2, <2>7, GoOnTables DEF Close, TablesInv, RequestsOK, RequestOK, Idle
    <2> QED
        BY <2>6, <2>8, <2>9 DEF TablesInv
<1> QED
    BY <1>3, <1>4

\* What the commit of an update writes, when it writes something.
LEMMA UpdateWrites ==
    ASSUME TablesInv, NEW s \in Slot, UpdateCommit(s),
           NEW i, i = req[s].id, NEW sets, sets = req[s].sets
    PROVE  /\ UpdateRequest(req[s]) /\ i \in Id /\ Assigns(sets)
           /\ UNCHANGED <<links, files, written, started>>
           /\ \/ Close(s) /\ UNCHANGED rows /\ spoilt' = (spoilt \/ OnAvatar(req[s]))
              \/ /\ Exists(i) /\ rows[i] \in Row /\ Written(rows[i], sets) \in Row
                 /\ Accepts(TableOf(i), i, Written(rows[i], sets))
                 /\ rows' = [rows EXCEPT ![i] = Written(rows[i], sets)]
                 /\ req' = [req EXCEPT ![s] = [op |-> "unlink", path |-> req[s].path]]
                 /\ UNCHANGED spoilt
<1>1. UpdateRequest(req[s])
    BY RequestForms DEF TablesInv, RequestsOK, UpdateCommit
<1>2. i \in Id /\ Assigns(sets)
    BY <1>1 DEF UpdateRequest
<1>3. Exists(i) => rows[i] \in Row /\ Written(rows[i], sets) \in Row
    BY <1>2, RowsFound, WrittenRow
<1> QED
    BY <1>1, <1>2, <1>3 DEF UpdateCommit, Close

LEMMA UpdateCommitTables ==
    ASSUME TablesInv, NEW s \in Slot, UpdateCommit(s)
    PROVE  TablesInv'
<1> DEFINE i == req[s].id
           sets == req[s].sets
           row == Written(rows[i], sets)
<1>1. UpdateRequest(req[s]) /\ i \in Id /\ Assigns(sets) /\ UNCHANGED <<links, started>>
    BY UpdateWrites
<1>2. CASE Close(s) /\ UNCHANGED rows
    BY <1>1, <1>2, EndTables
<1>3. CASE /\ Exists(i) /\ rows[i] \in Row /\ row \in Row /\ Accepts(TableOf(i), i, row)
           /\ rows' = [rows EXCEPT ![i] = row]
           /\ req' = [req EXCEPT ![s] = [op |-> "unlink", path |-> req[s].path]]
    <2>1. \A k \in TableOf(i) : k # i /\ Exists(k) => rows[k].key # row.key
        BY <1>3 DEF Accepts, Find
    <2>2. i \in RoleId => rows[i].key = row.key
        BY <1>1, <1>3, WrittenRow DEF UpdateRequest
    <2>3. RoleKnown(row.role)
        BY <1>3 DEF Accepts
    <2>4. RequestOK(req'[s]) /\ req'[s].op = "unlink"
        BY <1>1, <1>3 DEF TablesInv, RequestsOK, RequestOK, UnlinkRequest, UpdateRequest
    <2>5. DOMAIN req' = Slot /\ \A q \in Slot \ {s} : req'[q] = req[q]
        BY <1>3 DEF TablesInv, RequestsOK
    <2> HIDE DEF i, sets, row
    <2>6. RowsOK' /\ OneRowPerKey' /\ RolesLead'
        BY <1>1, <1>3, <2>1, <2>2, <2>3, AcceptedRow
    <2>7. \A k \in Id : (Exists(k) => Exists(k)') /\ (rows[k] # Unused => rows'[k] # Unused)
        BY <1>1, <1>3, RowsAreRows DEF Exists, TablesInv, RowsOK
    <2>8. LinksLead'
        BY <1>1, <2>7 DEF LinksLead, TablesInv, Id
    <2>9. RequestsOK'
        BY <2>4, <2>5, <2>7, GoOnTables
    <2> QED
        BY <2>6, <2>8, <2>9 DEF TablesInv
<1> QED
    BY <1>1, <1>2, <1>3, UpdateWrites

\* What a deletion does to the rows: it takes one, and agents lose its role.
LEMMA DeleteWrites ==
    ASSUME TablesInv, NEW s \in Slot, DeleteCommit(s), NEW i, i = req[s].id
    PROVE  /\ req[s] \in DeleteRequest /\ i \in Id
           /\ UNCHANGED <<files, written, started, spoilt>>
           /\ req' = [req EXCEPT ![s] = [op |-> "unlink", path |-> req[s].path]]
           /\ rows' \in [Id -> Row \cup {Unused, Deleted}] /\ rows'[i] = Deleted /\ ~Exists(i)'
           /\ links' = {l \in links : l[1] # i /\ l[2] # i}
           /\ \A j \in Id \ {i} :
                /\ Exists(j)' <=> Exists(j)
                /\ Exists(j) => /\ rows'[j].key = rows[j].key /\ rows'[j].avatar = rows[j].avatar
                                /\ IF /\ i \in RoleId /\ j \in AgentId /\ Exists(i)
                                      /\ rows[j].role = rows[i].key
                                   THEN rows'[j].role = None ELSE rows'[j].role = rows[j].role
                /\ ~Exists(j) => rows'[j] = rows[j]
<1>1. req[s] \in DeleteRequest
    BY RequestForms DEF TablesInv, RequestsOK, DeleteCommit
<1>2. i \in Id
    BY <1>1 DEF DeleteRequest
<1>3. /\ rows' = [j \in Id |-> IF j = i THEN Deleted
                  ELSE IF i \in RoleId /\ j \in AgentId /\ Exists(i) /\ Exists(j) /\ rows[j].role = rows[i].key
                  THEN [rows[j] EXCEPT !.role = None] ELSE rows[j]]
      /\ links' = {l \in links : l[1] # i /\ l[2] # i}
    BY DEF DeleteCommit, ReferencesGone
<1>4. ASSUME NEW j \in Id \ {i}
      PROVE  /\ rows'[j] \in Row \cup {Unused, Deleted}
             /\ Exists(j)' <=> Exists(j)
             /\ Exists(j) => /\ rows'[j].key = rows[j].key /\ rows'[j].avatar = rows[j].avatar
                             /\ IF /\ i \in RoleId /\ j \in AgentId /\ Exists(i)
                                   /\ rows[j].role = rows[i].key
                                THEN rows'[j].role = None ELSE rows'[j].role = rows[j].role
             /\ ~Exists(j) => rows'[j] = rows[j]
    <2>1. CASE i \in RoleId /\ j \in AgentId /\ Exists(i) /\ Exists(j) /\ rows[j].role = rows[i].key
        <3>1. rows[j] \in Row /\ rows'[j] = [rows[j] EXCEPT !.role = None]
            BY <1>3, <2>1, RowsFound
        <3>2. /\ rows'[j] \in Row /\ rows'[j].key = rows[j].key /\ rows'[j].avatar = rows[j].avatar
              /\ rows'[j].role = None
            BY <3>1 DEF Row
        <3> QED
            BY <2>1, <3>2, RowsAreRows DEF Exists
    <2>2. CASE ~(i \in RoleId /\ j \in AgentId /\ Exists(i) /\ Exists(j) /\ rows[j].role = rows[i].key)
        <3>1. rows'[j] = rows[j] /\ rows[j] \in Row \cup {Unused, Deleted}
            BY <1>3, <2>2 DEF TablesInv, RowsOK
        <3> QED
            BY <2>2, <3>1 DEF Exists
    <2> QED
        BY <2>1, <2>2
<1>5. rows' \in [Id -> Row \cup {Unused, Deleted}] /\ rows'[i] = Deleted /\ ~Exists(i)'
    BY <1>2, <1>3, <1>4 DEF Exists
<1> QED
    BY <1>1, <1>2, <1>3, <1>4, <1>5 DEF DeleteCommit

LEMMA DeleteCommitTables ==
    ASSUME TablesInv, NEW s \in Slot, DeleteCommit(s)
    PROVE  TablesInv'
<1>0. PICK i : i = req[s].id
    OBVIOUS
<1>1. /\ req[s] \in DeleteRequest /\ i \in Id /\ UNCHANGED started
      /\ req' = [req EXCEPT ![s] = [op |-> "unlink", path |-> req[s].path]]
      /\ rows' \in [Id -> Row \cup {Unused, Deleted}] /\ rows'[i] = Deleted /\ ~Exists(i)'
      /\ links' = {l \in links : l[1] # i /\ l[2] # i}
      /\ \A j \in Id \ {i} :
           /\ Exists(j)' <=> Exists(j)
           /\ Exists(j) => /\ rows'[j].key = rows[j].key
                           /\ IF /\ i \in RoleId /\ j \in AgentId /\ Exists(i)
                                 /\ rows[j].role = rows[i].key
                              THEN rows'[j].role = None ELSE rows'[j].role = rows[j].role
           /\ ~Exists(j) => rows'[j] = rows[j]
    BY <1>0, DeleteWrites
<1>2. RequestOK(req'[s]) /\ req'[s].op = "unlink" /\ DOMAIN req' = Slot
      /\ \A q \in Slot \ {s} : req'[q] = req[q]
    BY <1>1 DEF TablesInv, RequestsOK, RequestOK, UnlinkRequest, DeleteRequest
<1>3. RowsOK'
    BY <1>1 DEF TablesInv, RowsOK
<1>4. OneRowPerKey'
    <2> SUFFICES ASSUME NEW table \in Table, NEW x \in table, NEW y \in table,
                        Exists(x)', Exists(y)', rows'[x].key = rows'[y].key
                 PROVE  x = y
        BY DEF OneRowPerKey
    <2>1. x \in Id \ {i} /\ y \in Id \ {i}
        BY <1>1, TableOfId
    <2> QED
        BY <1>1, <2>1 DEF TablesInv, OneRowPerKey
<1>5. LinksLead'
    BY <1>1 DEF TablesInv, LinksLead, Id
<1>6. RolesLead'
    <2> SUFFICES ASSUME NEW a \in AgentId, Exists(a)' PROVE RoleKnown(rows[a].role)'
        BY DEF RolesLead
    <2>1. a \in Id \ {i} /\ Exists(a)
        BY <1>1 DEF Id
    <2>2. RoleKnown(rows[a].role)
        BY <2>1 DEF TablesInv, RolesLead
    <2>3. CASE rows'[a].role = None
        BY <2>3 DEF RoleKnown
    <2>4. CASE rows'[a].role = rows[a].role /\ ~(i \in RoleId /\ Exists(i) /\ rows[a].role = rows[i].key)
        <3>1. CASE rows[a].role = None
            BY <2>4, <3>1 DEF RoleKnown
        <3>2. CASE rows[a].role # None
            <4>1. PICK r \in RoleId : Exists(r) /\ rows[r].key = rows[a].role
                BY <2>2, <3>2 DEF RoleKnown, Find
            <4>2. r \in Id \ {i}
                BY <2>4, <4>1 DEF Id
            <4>3. Exists(r)' /\ rows'[r].key = rows'[a].role
                BY <1>1, <2>4, <4>1, <4>2
            <4> QED
                BY <4>1, <4>3 DEF RoleKnown, Find
        <3> QED
            BY <3>1, <3>2
    <2> QED
        BY <1>1, <2>1, <2>3, <2>4
<1>7. \A k \in Id : rows[k] # Unused => rows'[k] # Unused
    BY <1>1 DEF Exists, Deleted, Unused
<1>8. RequestsOK'
    BY <1>2, <1>7, GoOnTables
<1> QED
    BY <1>3, <1>4, <1>5, <1>6, <1>8 DEF TablesInv

\* The foreign keys of a link hold when it is inserted.
LEMMA LinkCommitTables ==
    ASSUME TablesInv, NEW s \in Slot, AttachCommit(s) \/ DetachCommit(s)
    PROVE  TablesInv'
<1>1. req[s].link \in AgentId \X SourceId /\ Close(s) /\ UNCHANGED rows
    BY RequestForms DEF AttachCommit, DetachCommit, TablesInv, RequestsOK, LinkRequest
<1>2. RowsOK' /\ OneRowPerKey' /\ RolesLead'
    BY <1>1 DEF TablesInv, RowsOK, OneRowPerKey, RolesLead, RoleKnown, Find, Exists, Close
<1>3. \A l \in links' : l \in links \/ (l = req[s].link /\ Exists(l[1]) /\ Exists(l[2]))
    BY DEF AttachCommit, DetachCommit
<1>4. LinksLead'
    BY <1>1, <1>3 DEF TablesInv, LinksLead, Exists
<1>5. RequestsOK'
    BY <1>1, GoOnTables DEF Close, TablesInv, RequestsOK, RequestOK, Idle
<1> QED
    BY <1>2, <1>4, <1>5 DEF TablesInv

\* ---- the seed ------------------------------------------------------------------

Agent == <<AgentId, SeedAgent>>
SeedRow == [key |-> SeedAgent, text |-> Canonical, role |-> SeedRole, avatar |-> None]

\* What a seed that finds its rows as it needs them is about to insert: rows for
\* the keys in inserts, with the ids new; a is the canonical agent, idOf the ids
\* of its sources.
SeedPlan(s, inserts, new, a, idOf) ==
    /\ inserts = req[s].missing \cup (IF Find(AgentId, SeedAgent) = {} THEN {Agent} ELSE {})
    /\ \A i \in req[s].dirty : Exists(i)
    /\ \A p \in inserts : Find(p[1], p[2]) = {}
    /\ RoleKnown(SeedRole) \/ <<RoleId, SeedRole>> \in inserts
    /\ new \in [inserts -> Id]
    /\ \A p \in inserts : new[p] \in Fresh(p[1])
    /\ \A p, q \in inserts : new[p] = new[q] => p = q
    /\ IF Agent \in inserts THEN a = new[Agent] ELSE a \in Find(AgentId, SeedAgent)
    /\ \A k \in SeedLinks : IF <<SourceId, k>> \in inserts THEN idOf[k] = new[<<SourceId, k>>]
                                                         ELSE idOf[k] \in Find(SourceId, k)
\* ... and what it writes then.
SeedEffect(s, inserts, new, a, idOf) ==
    /\ rows' = [i \in Id |->
            IF i = a THEN SeedRow
            ELSE IF i \in req[s].dirty THEN [rows[i] EXCEPT !.text = Canonical]
            ELSE IF \E p \in inserts : new[p] = i
            THEN [key |-> (CHOOSE p \in inserts : new[p] = i)[2],
                  text |-> Canonical, role |-> None, avatar |-> None]
            ELSE rows[i]]
    /\ links' = {l \in links : l[1] # a} \cup {<<a, idOf[k]>> : k \in SeedLinks}
    /\ spoilt' = (spoilt \/ (Exists(a) /\ rows[a].avatar # None) \/ Overlaps(s, a))

LEMMA SeedWrites ==
    ASSUME NEW s \in Slot, SeedCommit(s)
    PROVE  /\ req[s].op = "seed" /\ Close(s) /\ UNCHANGED <<files, written>>
           /\ \/ UNCHANGED <<rows, links, spoilt>>
              \/ \E inserts, new, a, idOf :
                    SeedPlan(s, inserts, new, a, idOf) /\ SeedEffect(s, inserts, new, a, idOf)
<1> DEFINE inserts == req[s].missing \cup (IF Find(AgentId, SeedAgent) = {} THEN {Agent} ELSE {})
           sources == SeedSources \cap {k \in Key : Find(SourceId, k) # {} \/ <<SourceId, k>> \in inserts}
           ok == /\ \A i \in req[s].dirty : Exists(i)
                 /\ \A p \in inserts : Find(p[1], p[2]) = {}
                 /\ RoleKnown(SeedRole) \/ <<RoleId, SeedRole>> \in inserts
                 /\ Linkable(SeedLinks, sources)
           agent(new) == IF Agent \in inserts THEN new[Agent] ELSE CHOOSE i \in Find(AgentId, SeedAgent) : TRUE
           ids(new) == [k \in sources |-> IF <<SourceId, k>> \in inserts THEN new[<<SourceId, k>>]
                                          ELSE CHOOSE i \in Find(SourceId, k) : TRUE]
<1>1. req[s].op = "seed" /\ Close(s) /\ UNCHANGED <<files, written>>
    BY DEF SeedCommit
<1>2. CASE ~ok
    BY <1>1, <1>2 DEF SeedCommit, Agent
<1>3. CASE ok
    <2>1. PICK new \in [inserts -> Id] :
            /\ \A p \in inserts : new[p] \in Fresh(p[1])
            /\ \A p, q \in inserts : new[p] = new[q] => p = q
            /\ rows' = [i \in Id |->
                    IF i = agent(new) THEN SeedRow
                    ELSE IF i \in req[s].dirty THEN [rows[i] EXCEPT !.text = Canonical]
                    ELSE IF \E p \in inserts : new[p] = i
                    THEN [key |-> (CHOOSE p \in inserts : new[p] = i)[2],
                          text |-> Canonical, role |-> None, avatar |-> None]
                    ELSE rows[i]]
            /\ links' = {l \in links : l[1] # agent(new)}
                        \cup {<<agent(new), ids(new)[k]>> : k \in SeedLinks \cap sources}
            /\ spoilt' = (spoilt \/ (Exists(agent(new)) /\ rows[agent(new)].avatar # None)
                                 \/ Overlaps(s, agent(new)))
        BY <1>3, Zenon DEF SeedCommit, Agent, SeedRow
    <2>2. SeedLinks \subseteq sources /\ SeedLinks \cap sources = SeedLinks
        BY <1>3 DEF Linkable
    <2>3. Agent \notin inserts => agent(new) \in Find(AgentId, SeedAgent)
        OBVIOUS
    <2>4. ASSUME NEW k \in SeedLinks
          PROVE  IF <<SourceId, k>> \in inserts THEN ids(new)[k] = new[<<SourceId, k>>]
                                              ELSE ids(new)[k] \in Find(SourceId, k)
        <3>1. k \in sources
            BY <2>2
        <3>2. ids(new)[k] = IF <<SourceId, k>> \in inserts THEN new[<<SourceId, k>>]
                            ELSE CHOOSE i \in Find(SourceId, k) : TRUE
            BY <3>1
        <3>3. <<SourceId, k>> \notin inserts => Find(SourceId, k) # {}
            BY <3>1
        <3> HIDE DEF ids, inserts, sources
        <3> QED
            BY <3>2, <3>3
    <2>5. SeedPlan(s, inserts, new, agent(new), ids(new))
        <3>1. IF Agent \in inserts THEN agent(new) = new[Agent] ELSE agent(new) \in Find(AgentId, SeedAgent)
            BY <2>3
        <3>2. inserts = req[s].missing \cup (IF Find(AgentId, SeedAgent) = {} THEN {Agent} ELSE {})
            OBVIOUS
        <3>3. ok
            BY <1>3
        <3> HIDE DEF inserts, agent, ids
        <3> QED
            BY <2>1, <2>4, <3>1, <3>2, <3>3 DEF SeedPlan
    <2>6. SeedEffect(s, inserts, new, agent(new), ids(new))
        <3> HIDE DEF inserts, agent, ids, sources
        <3> QED
            BY <2>1, <2>2 DEF SeedEffect
    <2> HIDE DEF inserts, agent, ids
    <2> QED
        BY <1>1, <2>5, <2>6
<1> QED
    BY <1>2, <1>3

\* The rows after a seed: those that were there keep their keys, and the others
\* are the inserts.
LEMMA SeedRows ==
    ASSUME TablesInv, NEW s \in Slot, req[s].op = "seed",
           NEW inserts, NEW new, NEW a, NEW idOf,
           SeedPlan(s, inserts, new, a, idOf), SeedEffect(s, inserts, new, a, idOf)
    PROVE  /\ inserts \subseteq Table \X Key
           /\ a \in AgentId /\ rows'[a] = SeedRow /\ Exists(a)'
           /\ rows' \in [Id -> Row \cup {Unused, Deleted}]
           /\ \A p \in inserts : /\ new[p] \in p[1] /\ new[p] \in Id /\ rows[new[p]] = Unused
                                 /\ Exists(new[p])' /\ rows'[new[p]].key = p[2]
           /\ \A i \in Id : Exists(i) =>
                /\ Exists(i)' /\ rows'[i].key = rows[i].key
                /\ i # a => rows'[i].role = rows[i].role /\ rows'[i].avatar = rows[i].avatar
           /\ \A i \in Id : Exists(i)' /\ ~Exists(i) =>
                /\ rows[i] = Unused /\ rows'[i].avatar = None /\ (i # a => rows'[i].role = None)
                /\ \E p \in inserts : new[p] = i
           /\ \A i \in Id : rows[i] # Unused => rows'[i] # Unused
<1>1. req[s] \in SeedRequest
    BY RequestForms DEF TablesInv, RequestsOK
<1>2. req[s].missing \subseteq Wanted /\ req[s].dirty \subseteq RoleId \cup SourceId
    BY <1>1 DEF SeedRequest
<1>3. Wanted \subseteq Table \X Key /\ Agent \in Table \X Key
    BY CatalogAssumption DEF Wanted, Agent, Table
<1>4. inserts \subseteq Table \X Key
    BY <1>2, <1>3 DEF SeedPlan
<1>5. \A p \in inserts : /\ new[p] \in p[1] /\ new[p] \in Id /\ rows[new[p]] = Unused /\ ~Exists(new[p])
                         /\ p[2] \in Key
    BY <1>4 DEF SeedPlan, Fresh, Exists
<1>6. a \in AgentId /\ a \in Id /\ (Exists(a) => rows[a].key = SeedAgent)
      /\ (~Exists(a) => Agent \in inserts /\ a = new[Agent])
    <2>1. CASE Agent \in inserts
        BY <1>5, <2>1 DEF SeedPlan, Agent
    <2>2. CASE Agent \notin inserts
        BY <2>2 DEF SeedPlan, Find, Id
    <2> QED
        BY <2>1, <2>2
<1>7. SeedRow \in Row
    BY CatalogAssumption, SeedIsConsistent DEF SeedRow, Row, Text, ValidSeed
<1>8. rows'[a] = SeedRow /\ Exists(a)'
    BY <1>6, <1>7, RowsAreRows DEF SeedEffect, Exists
<1>9. ASSUME NEW p \in inserts
      PROVE  rows'[new[p]] \in Row /\ rows'[new[p]].key = p[2] /\ rows'[new[p]].avatar = None
             /\ (new[p] # a => rows'[new[p]].role = None)
    <2>1. CASE new[p] = a
        <3>1. Agent \in inserts /\ p = Agent
            BY <1>5, <1>6, <2>1 DEF SeedPlan
        <3>2. p[2] = SeedAgent
            BY <3>1 DEF Agent
        <3> QED
            BY <1>7, <1>8, <2>1, <3>2 DEF SeedRow
    <2>2. CASE new[p] # a
        <3>1. new[p] \notin req[s].dirty
            BY <1>5 DEF SeedPlan
        <3>2. (CHOOSE q \in inserts : new[q] = new[p]) = p
            BY DEF SeedPlan
        <3>3. rows'[new[p]] = [key |-> (CHOOSE q \in inserts : new[q] = new[p])[2],
                               text |-> Canonical, role |-> None, avatar |-> None]
            BY <1>5, <2>2, <3>1 DEF SeedEffect
        <3>4. rows'[new[p]] = [key |-> p[2], text |-> Canonical, role |-> None, avatar |-> None]
            BY <3>2, <3>3
        <3>5. p[2] \in Key
            BY <1>5
        <3> QED
            BY <3>4, <3>5 DEF Row, Text
    <2> QED
        BY <2>1, <2>2
<1>10. \A p \in inserts : Exists(new[p])'
    BY <1>5, <1>9, RowsAreRows DEF Exists
<1>11. ASSUME NEW i \in Id, Exists(i)
       PROVE  /\ rows'[i] \in Row /\ Exists(i)' /\ rows'[i].key = rows[i].key
              /\ i # a => rows'[i].role = rows[i].role /\ rows'[i].avatar = rows[i].avatar
    <2>1. rows[i] \in Row /\ ~\E p \in inserts : new[p] = i
        BY <1>5, <1>11, RowsFound
    <2>2. CASE i = a
        BY <1>6, <1>7, <1>8, <1>11, <2>2 DEF SeedRow
    <2>3. CASE i # a /\ i \in req[s].dirty
        <3>1. rows'[i] = [rows[i] EXCEPT !.text = Canonical]
            BY <2>3 DEF SeedEffect
        <3>2. rows'[i] \in Row /\ rows'[i].key = rows[i].key /\ rows'[i].role = rows[i].role
              /\ rows'[i].avatar = rows[i].avatar
            BY <2>1, <3>1 DEF Row, Text
        <3> QED
            BY <3>2, RowsAreRows DEF Exists
    <2>4. CASE i # a /\ i \notin req[s].dirty
        <3>1. rows'[i] = rows[i]
            BY <2>1, <2>4 DEF SeedEffect
        <3> QED
            BY <1>11, <2>1, <3>1 DEF Exists
    <2> QED
        BY <2>2, <2>3, <2>4
<1>12. ASSUME NEW i \in Id, ~Exists(i), ~\E p \in inserts : new[p] = i
       PROVE  rows'[i] = rows[i]
    <2>1. i # a /\ i \notin req[s].dirty
        BY <1>6, <1>12 DEF SeedPlan
    <2> QED
        BY <1>12, <2>1 DEF SeedEffect
<1>13. rows' \in [Id -> Row \cup {Unused, Deleted}]
    <2>1. \A i \in Id : rows'[i] \in Row \cup {Unused, Deleted}
        BY <1>9, <1>11, <1>12 DEF TablesInv, RowsOK
    <2>2. rows' = [i \in Id |-> rows'[i]]
        BY DEF SeedEffect
    <2> QED
        BY <2>1, <2>2
<1>14. ASSUME NEW i \in Id, Exists(i)', ~Exists(i)
       PROVE  /\ rows[i] = Unused /\ rows'[i].avatar = None /\ (i # a => rows'[i].role = None)
              /\ \E p \in inserts : new[p] = i
    BY <1>5, <1>9, <1>12, <1>14 DEF Exists
<1>15. \A i \in Id : rows[i] # Unused => rows'[i] # Unused
    BY <1>5, <1>11, <1>12 DEF Exists
<1> QED
    BY <1>4, <1>5, <1>6, <1>8, <1>9, <1>10, <1>11, <1>13, <1>14, <1>15

LEMMA SeedCommitTables ==
    ASSUME TablesInv, NEW s \in Slot, SeedCommit(s)
    PROVE  TablesInv'
<1>1. req[s].op = "seed" /\ Close(s)
    BY SeedWrites
<1>2. CASE UNCHANGED <<rows, links, spoilt>>
    BY <1>1, <1>2, EndTables
<1>3. CASE \E inserts, new, a, idOf :
            SeedPlan(s, inserts, new, a, idOf) /\ SeedEffect(s, inserts, new, a, idOf)
    <2>1. PICK inserts, new, a, idOf :
            SeedPlan(s, inserts, new, a, idOf) /\ SeedEffect(s, inserts, new, a, idOf)
        BY <1>3
    <2>2. /\ inserts \subseteq Table \X Key
          /\ a \in AgentId /\ rows'[a] = SeedRow /\ Exists(a)'
          /\ rows' \in [Id -> Row \cup {Unused, Deleted}]
          /\ \A p \in inserts : /\ new[p] \in p[1] /\ new[p] \in Id /\ rows[new[p]] = Unused
                                /\ Exists(new[p])' /\ rows'[new[p]].key = p[2]
          /\ \A i \in Id : Exists(i) =>
               /\ Exists(i)' /\ rows'[i].key = rows[i].key
               /\ i # a => rows'[i].role = rows[i].role
          /\ \A i \in Id : Exists(i)' /\ ~Exists(i) =>
               /\ i # a => rows'[i].role = None
               /\ \E p \in inserts : new[p] = i
          /\ \A i \in Id : rows[i] # Unused => rows'[i] # Unused
        BY <1>1, <2>1, SeedRows
    <2>3. RowsOK'
        BY <1>1, <2>2 DEF RowsOK, TablesInv, Close
    <2>4. OneRowPerKey'
        <3> SUFFICES ASSUME NEW table \in Table, NEW x \in table, NEW y \in table,
                            Exists(x)', Exists(y)', rows'[x].key = rows'[y].key
                     PROVE  x = y
            BY DEF OneRowPerKey
        <3>1. x \in Id /\ y \in Id /\ TableOf(x) = table /\ TableOf(y) = table
            BY TableOfId
        <3>2. \A p \in inserts, i \in table : new[p] = i => p[1] = table /\ p = <<p[1], p[2]>>
            <4> SUFFICES ASSUME NEW p \in inserts, new[p] \in table
                         PROVE  p[1] = table /\ p = <<p[1], p[2]>>
                OBVIOUS
            <4>1. p \in Table \X Key /\ new[p] \in p[1]
                BY <2>2
            <4> QED
                BY <4>1, TableOfId
        <3>3. \A p \in inserts, i \in table : Exists(i) /\ p[1] = table => rows[i].key # p[2]
            BY <2>1 DEF SeedPlan, Find
        <3>4. CASE Exists(x) /\ Exists(y)
            BY <2>2, <3>1, <3>4 DEF TablesInv, OneRowPerKey
        <3>5. CASE ~Exists(x) /\ Exists(y)
            BY <2>2, <3>1, <3>2, <3>3, <3>5
        <3>6. CASE Exists(x) /\ ~Exists(y)
            BY <2>2, <3>1, <3>2, <3>3, <3>6
        <3>7. CASE ~Exists(x) /\ ~Exists(y)
            <4>1. PICK p \in inserts : new[p] = x
                BY <2>2, <3>1, <3>7
            <4>2. PICK q \in inserts : new[q] = y
                BY <2>2, <3>1, <3>7
            <4>3. p[2] = q[2] /\ p[1] = q[1]
                BY <2>2, <3>2, <4>1, <4>2
            <4> QED
                BY <3>2, <4>1, <4>2, <4>3
        <3> QED
            BY <3>4, <3>5, <3>6, <3>7
    <2>5. RolesLead'
        <3> SUFFICES ASSUME NEW b \in AgentId, Exists(b)' PROVE RoleKnown(rows[b].role)'
            BY DEF RolesLead
        <3>1. \A k : RoleKnown(k) => RoleKnown(k)'
            <4>1. \A i \in RoleId : Exists(i) => Exists(i)' /\ rows'[i].key = rows[i].key
                BY <2>2 DEF Id
            <4> QED
                BY <4>1, RolesKept
        <3>2. b \in Id
            BY DEF Id
        <3>3. CASE b = a
            <4>1. rows'[b].role = SeedRole
                BY <2>2, <3>3 DEF SeedRow
            <4>2. CASE RoleKnown(SeedRole)
                BY <3>1, <4>1, <4>2 DEF RoleKnown
            <4>3. CASE <<RoleId, SeedRole>> \in inserts
                <5>1. new[<<RoleId, SeedRole>>] \in Find(RoleId, SeedRole)'
                    BY <2>2, <4>3 DEF Find
                <5> QED
                    BY <4>1, <5>1 DEF RoleKnown, Find
            <4> QED
                BY <2>1, <4>2, <4>3 DEF SeedPlan
        <3>4. CASE b # a /\ Exists(b)
            <4>1. RoleKnown(rows[b].role) /\ rows'[b].role = rows[b].role
                BY <2>2, <3>2, <3>4 DEF TablesInv, RolesLead
            <4> QED
                BY <3>1, <4>1 DEF RoleKnown
        <3>5. CASE b # a /\ ~Exists(b)
            <4>1. rows'[b].role = None
                BY <2>2, <3>2, <3>5
            <4> QED
                BY <4>1 DEF RoleKnown
        <3> QED
            BY <3>3, <3>4, <3>5
    <2>6. LinksLead'
        <3>1. ASSUME NEW k \in SeedLinks PROVE idOf[k] \in SourceId /\ Exists(idOf[k])'
            <4>1. CASE <<SourceId, k>> \in inserts
                BY <2>1, <2>2, <4>1 DEF SeedPlan
            <4>2. CASE <<SourceId, k>> \notin inserts
                BY <2>1, <2>2, <4>2 DEF SeedPlan, Find, Id
            <4> QED
                BY <4>1, <4>2
        <3>2. ASSUME NEW l \in links PROVE l \in AgentId \X SourceId /\ Exists(l[1])' /\ Exists(l[2])'
            BY <2>2 DEF TablesInv, LinksLead, Id
        <3>3. links' = {l \in links : l[1] # a} \cup {<<a, idOf[k]>> : k \in SeedLinks}
            BY <2>1 DEF SeedEffect
        <3> QED
            BY <2>2, <3>1, <3>2, <3>3 DEF LinksLead
    <2>7. RequestsOK'
        BY <1>1, <2>2, GoOnTables DEF Close, TablesInv, RequestsOK, RequestOK, Idle
    <2> QED
        BY <2>3, <2>4, <2>5, <2>6, <2>7 DEF TablesInv
<1> QED
    BY <1>2, <1>3, SeedWrites

\* ---- the files, action by action --------------------------------------------

\* A request that neither names a file nor will remove one.
NoFile(r) ==
    /\ ~OnAvatar(r)
    /\ r.op \notin {"idle", "create", "attach", "detach", "seed"} => r.op \in {"update", "unlink"} /\ r.path = None

\* A request with an id has one that was used.
LEMMA IdsUsed ==
    ASSUME TablesInv, NEW s \in Slot, req[s].op \in {"update", "delete"}
    PROVE  req[s].id \in Id /\ rows[req[s].id] # Unused
<1> QED
    BY RequestForms DEF TablesInv, RequestsOK, UpdateRequest, DeleteRequest

\* Steps that touch no file, and no avatar but where they say so.
LEMMA FilesFrame ==
    ASSUME CatalogInv, NEW s \in Slot, DOMAIN req' = Slot, \A q \in Slot \ {s} : req'[q] = req[q],
           UNCHANGED <<files, written>>, NoFile(req'[s]), spoilt' \/ NoFile(req[s]),
           \A i \in Id : Exists(i)' =>
                \/ Exists(i) /\ (rows'[i].avatar = rows[i].avatar \/ rows'[i].avatar = None)
                \/ rows[i] = Unused /\ rows'[i].avatar = None,
           ~spoilt' => ~spoilt /\ \A i \in Id : Exists(i) => Exists(i)' /\ rows'[i].avatar = rows[i].avatar
    PROVE  FilesInv'
<1> USE DEF CatalogInv, FilesInv
<1>1. None \notin File
    BY CatalogAssumption
<1>2. \A f \in File : ~Names(s, f)' /\ ~Removes(s, f)'
    BY <1>1 DEF Names, Removes, NoFile, OnAvatar
<1>3. \A q \in Slot \ {s}, f \in File : (Names(q, f)' <=> Names(q, f)) /\ (Removes(q, f)' <=> Removes(q, f))
    BY DEF Names, Removes
<1>4. FilesOK' /\ RowHasFile'
    BY DEF FilesOK, RowHasFile
<1>5. \A i \in Id, f \in File : Exists(i)' /\ rows'[i].avatar = f => Exists(i) /\ rows[i].avatar = f
    BY <1>1
<1>6. OneRowPerFile'
    BY <1>5 DEF OneRowPerFile
<1>7. NewFilesOwned'
    BY <1>2, <1>3, <1>5 DEF NewFilesOwned
<1>8. OldFilesOwned'
    <2> SUFFICES ASSUME NEW f \in File, NEW q \in Slot, Removes(q, f)'
                 PROVE  /\ f \in written
                        /\ \A i \in Id : Exists(i)' /\ rows'[i].avatar = f
                                         => req'[q].op # "unlink" /\ i = req'[q].id
                        /\ req'[q].op = "update" => OnAvatar(req'[q])
        BY DEF OldFilesOwned
    <2>1. q # s /\ Removes(q, f) /\ req'[q] = req[q]
        BY <1>2, <1>3
    <2> QED
        BY <1>5, <2>1 DEF OldFilesOwned
<1>9. AloneOnRow'
    <2> SUFFICES ASSUME ~spoilt', NEW q \in Slot, req'[q].op \in {"update", "delete"}, OnAvatar(req'[q])
                 PROVE  /\ Exists(req[q].id)' => req'[q].path = rows'[req'[q].id].avatar
                        /\ \A p \in Slot \ {q} : req'[p].op \in {"update", "delete"} /\ OnAvatar(req'[p])
                                                 => req'[p].id # req'[q].id
        BY DEF AloneOnRow
    <2>1. q # s /\ req'[q] = req[q] /\ ~spoilt
        BY DEF NoFile
    <2>2. req[q].id \in Id /\ rows[req[q].id] # Unused
        BY <2>1, IdsUsed
    <2>3. Exists(req[q].id)' => Exists(req[q].id) /\ rows'[req[q].id].avatar = rows[req[q].id].avatar
        BY <2>1, <2>2
    <2>4. \A p \in Slot : OnAvatar(req'[p]) => p # s /\ req'[p] = req[p]
        BY DEF NoFile
    <2> QED
        BY <2>1, <2>3, <2>4 DEF AloneOnRow
<1>10. FilesKept'
    <2> SUFFICES ASSUME ~spoilt', NEW f \in files, f \in File
                 PROVE  \/ \E a \in AgentId : Exists(a)' /\ rows'[a].avatar = f
                        \/ \E q \in Slot : Names(q, f)' \/ (req'[q].op = "unlink" /\ req'[q].path = f)
        BY DEF FilesKept, FilesOK
    <2>1. NoFile(req[s]) /\ ~spoilt
        OBVIOUS
    <2>2. CASE \E a \in AgentId : Exists(a) /\ rows[a].avatar = f
        BY <2>2 DEF Id
    <2>3. CASE \E q \in Slot : Names(q, f) \/ (req[q].op = "unlink" /\ req[q].path = f)
        <3>1. PICK q \in Slot : Names(q, f) \/ (req[q].op = "unlink" /\ req[q].path = f)
            BY <2>3
        <3>2. q # s
            BY <1>1, <2>1, <3>1 DEF NoFile, Names
        <3> QED
            BY <1>3, <3>1, <3>2
    <2> QED
        BY <2>1, <2>2, <2>3 DEF FilesKept
<1> QED
    BY <1>4, <1>6, <1>7, <1>8, <1>9, <1>10

\* The file that a row of its own names is the one a request removes.
LEMMA AvatarPathIsRow ==
    ASSUME CatalogInv, NEW i \in Id, Exists(i)
    PROVE  AvatarPath(i) = rows[i].avatar /\ rows[i].avatar \in files \cup {None}
<1>1. rows[i].avatar \in files \cup {None}
    BY DEF CatalogInv, FilesInv, RowHasFile
<1> QED
    BY <1>1 DEF AvatarPath

\* A request on the avatar of row i begins; g is the new file, or None.
LEMMA BeginFiles ==
    ASSUME CatalogInv, NEW s \in Slot, NEW r, Open(s, r), NEW i \in Id, Exists(i), NEW g,
           g = None \/ g \in File \ written,
           files' = files \cup ({g} \ {None}), written' = written \cup ({g} \ {None}),
           UNCHANGED <<rows, links>>, spoilt' = (spoilt \/ Overlaps(s, i)),
           OnAvatar(r), r.op \in {"update", "delete"}, r.id = i, r.path = AvatarPath(i),
           IF r.op = "update" THEN r.sets.avatar = g ELSE g = None
    PROVE  FilesInv'
<1> USE DEF CatalogInv, FilesInv
<1>1. None \notin File
    BY CatalogAssumption
<1>2. /\ req[s] = Idle /\ req' = [req EXCEPT ![s] = r] /\ DOMAIN req = Slot
      /\ DOMAIN req' = Slot /\ req'[s] = r /\ \A q \in Slot \ {s} : req'[q] = req[q]
    BY DEF Open, TablesInv, RequestsOK
<1>3. AvatarPath(i) = rows[i].avatar /\ rows[i].avatar \in files \cup {None}
    BY AvatarPathIsRow
<1>4. \A f \in File : (Names(s, f)' => f = g) /\ (Removes(s, f)' <=> rows[i].avatar = f)
                       /\ ~Names(s, f) /\ ~Removes(s, f)
    BY <1>2, <1>3 DEF Names, Removes, Idle
<1>5. \A q \in Slot \ {s}, f \in File : (Names(q, f)' <=> Names(q, f)) /\ (Removes(q, f)' <=> Removes(q, f))
    BY <1>2 DEF Names, Removes
<1>6. FilesOK' /\ RowHasFile' /\ OneRowPerFile'
    BY DEF FilesOK, RowHasFile, OneRowPerFile, Exists
<1>7. NewFilesOwned'
    <2> SUFFICES ASSUME NEW f \in File, NEW q \in Slot, Names(q, f)'
                 PROVE  /\ f \in files' /\ \A j \in Id : Exists(j) => rows[j].avatar # f
                        /\ \A p \in Slot : (p # q => ~Names(p, f)') /\ ~Removes(p, f)'
        BY DEF NewFilesOwned, Exists
    <2>1. CASE q = s
        <3>1. f = g /\ f \notin written /\ f \notin files /\ f \in files'
            BY <1>1, <1>4, <2>1 DEF FilesOK
        <3>2. \A j \in Id : Exists(j) => rows[j].avatar # f
            BY <1>1, <3>1 DEF RowHasFile
        <3>3. \A p \in Slot : ~Names(p, f) /\ ~Removes(p, f)
            BY <3>1 DEF NewFilesOwned, OldFilesOwned
        <3>4. ~Removes(s, f)'
            BY <1>4, <3>2
        <3> QED
            BY <1>5, <2>1, <3>1, <3>2, <3>3, <3>4
    <2>2. CASE q # s
        <3>1. Names(q, f)
            BY <1>5, <2>2
        <3>2. f \in files /\ (\A j \in Id : Exists(j) => rows[j].avatar # f)
              /\ \A p \in Slot : (p # q => ~Names(p, f)) /\ ~Removes(p, f)
            BY <3>1 DEF NewFilesOwned
        <3>3. f # g
            BY <1>1, <3>2 DEF FilesOK
        <3>4. ~Names(s, f)' /\ ~Removes(s, f)'
            BY <1>4, <3>2, <3>3
        <3> QED
            BY <1>5, <3>2, <3>4
    <2> QED
        BY <2>1, <2>2
<1>8. OldFilesOwned'
    <2> SUFFICES ASSUME NEW f \in File, NEW q \in Slot, Removes(q, f)'
                 PROVE  /\ f \in written'
                        /\ \A j \in Id : Exists(j) /\ rows[j].avatar = f
                                         => req'[q].op # "unlink" /\ j = req'[q].id
                        /\ req'[q].op = "update" => OnAvatar(req'[q])
        BY DEF OldFilesOwned, Exists
    <2>1. CASE q = s
        <3>1. rows[i].avatar = f /\ f \in files
            BY <1>1, <1>3, <1>4, <2>1
        <3>2. \A j \in Id : Exists(j) /\ rows[j].avatar = f => j = i
            BY <3>1 DEF OneRowPerFile
        <3> QED
            BY <1>2, <2>1, <3>1, <3>2 DEF FilesOK
    <2>2. CASE q # s
        BY <1>2, <1>5, <2>2 DEF OldFilesOwned
    <2> QED
        BY <2>1, <2>2
<1>9. AloneOnRow'
    <2>1. ASSUME ~spoilt', NEW q \in Slot \ {s}, req[q].op \in {"update", "delete"}, OnAvatar(req[q])
          PROVE  ~spoilt /\ req[q].id # i
        <3>1. ~spoilt /\ ~Overlaps(s, i)
            BY <2>1, Zenon
        <3>2. req[q] # Idle
            BY <2>1 DEF Idle
        <3> QED
            BY <2>1, <3>1, <3>2 DEF Overlaps
    <2>2. ASSUME ~spoilt', NEW q \in Slot, req'[q].op \in {"update", "delete"}, OnAvatar(req'[q])
          PROVE  Exists(req'[q].id) => req'[q].path = rows[req'[q].id].avatar
        <3>1. CASE q = s
            BY <1>2, <1>3, <3>1
        <3>2. CASE q # s
            BY <1>2, <2>1, <2>2, <3>2 DEF AloneOnRow
        <3> QED
            BY <3>1, <3>2
    <2>3. ASSUME ~spoilt', NEW q \in Slot, req'[q].op \in {"update", "delete"}, OnAvatar(req'[q]),
                 NEW p \in Slot \ {q}, req'[p].op \in {"update", "delete"}, OnAvatar(req'[p])
          PROVE  req'[p].id # req'[q].id
        <3>1. CASE q = s \/ p = s
            BY <1>2, <2>1, <2>3, <3>1
        <3>2. CASE q # s /\ p # s
            BY <1>2, <2>1, <2>3, <3>2 DEF AloneOnRow
        <3> QED
            BY <3>1, <3>2
    <2> QED
        BY <2>2, <2>3 DEF AloneOnRow, Exists
<1>10. FilesKept'
    <2> SUFFICES ASSUME ~spoilt', NEW f \in files', f \in File
                 PROVE  \/ \E a \in AgentId : Exists(a) /\ rows[a].avatar = f
                        \/ \E q \in Slot : Names(q, f)' \/ (req'[q].op = "unlink" /\ req'[q].path = f)
        BY DEF FilesKept, FilesOK, Exists
    <2>1. CASE f = g
        BY <1>1, <1>2, <2>1 DEF Names
    <2>2. CASE f # g
        <3>1. f \in files /\ ~spoilt
            BY <2>2
        <3>2. CASE \E q \in Slot : Names(q, f) \/ (req[q].op = "unlink" /\ req[q].path = f)
            <4>1. PICK q \in Slot : Names(q, f) \/ (req[q].op = "unlink" /\ req[q].path = f)
                BY <3>2
            <4>2. q # s
                BY <1>2, <1>4, <4>1 DEF Idle
            <4> QED
                BY <1>2, <1>5, <4>1, <4>2
        <3> QED
            BY <3>1, <3>2 DEF FilesKept
    <2> QED
        BY <2>1, <2>2
<1> QED
    BY <1>6, <1>7, <1>8, <1>9, <1>10

\* An update without avatar has nothing to remove.
LEMMA OtherUpdates ==
    ASSUME CatalogInv, NEW s \in Slot, req[s].op = "update", ~OnAvatar(req[s])
    PROVE  NoFile(req[s]) /\ req[s].path = None
<1>1. UpdateRequest(req[s])
    BY RequestForms DEF CatalogInv, TablesInv, RequestsOK
<1>2. req[s].path \in File => Removes(s, req[s].path)
    BY DEF Removes
<1> QED
    BY <1>1, <1>2 DEF CatalogInv, FilesInv, OldFilesOwned, UpdateRequest, NoFile

\* The commit of an update: the row takes the new file, and the request keeps
\* the old one in hand, which no row names any more.
LEMMA UpdateCommitFiles ==
    ASSUME CatalogInv, NEW s \in Slot, UpdateCommit(s)
    PROVE  FilesInv'
<1> USE DEF CatalogInv
<1>0. PICK i, sets : i = req[s].id /\ sets = req[s].sets
    OBVIOUS
<1>1. /\ UpdateRequest(req[s]) /\ i \in Id /\ Assigns(sets) /\ UNCHANGED <<files, written>>
      /\ \/ Close(s) /\ UNCHANGED rows /\ spoilt' = (spoilt \/ OnAvatar(req[s]))
         \/ /\ Exists(i) /\ rows[i] \in Row /\ Written(rows[i], sets) \in Row
            /\ rows' = [rows EXCEPT ![i] = Written(rows[i], sets)]
            /\ req' = [req EXCEPT ![s] = [op |-> "unlink", path |-> req[s].path]]
            /\ UNCHANGED spoilt
    BY <1>0, UpdateWrites
<1>2. req[s].op = "update" /\ DOMAIN req = Slot
    BY DEF UpdateCommit, TablesInv, RequestsOK
<1>3. CASE Close(s) /\ UNCHANGED rows /\ spoilt' = (spoilt \/ OnAvatar(req[s]))
    <2>1. DOMAIN req' = Slot /\ (\A q \in Slot \ {s} : req'[q] = req[q]) /\ NoFile(req'[s])
        BY <1>2, <1>3 DEF Close, NoFile, OnAvatar, Idle
    <2>2. spoilt' = (spoilt \/ OnAvatar(req[s]))
        BY <1>3
    <2>3. ~spoilt' => ~spoilt /\ ~OnAvatar(req[s])
        BY <2>2, Zenon
    <2>4. spoilt' \/ NoFile(req[s])
        BY <1>2, <2>3, OtherUpdates
    <2>5. \A j \in Id : Exists(j)' <=> Exists(j)
        BY <1>3 DEF Exists
    <2> QED
        BY <1>1, <1>3, <2>1, <2>3, <2>4, <2>5, FilesFrame
<1>4. CASE /\ Exists(i) /\ rows[i] \in Row /\ Written(rows[i], sets) \in Row
           /\ rows' = [rows EXCEPT ![i] = Written(rows[i], sets)]
           /\ req' = [req EXCEPT ![s] = [op |-> "unlink", path |-> req[s].path]]
           /\ UNCHANGED spoilt
    <2>1. rows'[i] = Written(rows[i], sets) /\ \A j \in Id \ {i} : rows'[j] = rows[j]
        BY <1>1, <1>4 DEF TablesInv, RowsOK
    <2>2. \A j \in Id : Exists(j)' <=> Exists(j)
        BY <1>4, <2>1, RowsAreRows DEF Exists
    <2>3. /\ DOMAIN req' = Slot /\ \A q \in Slot \ {s} : req'[q] = req[q]
          /\ req'[s] = [op |-> "unlink", path |-> req[s].path]
        BY <1>2, <1>4
    <2>4. rows'[i].avatar = IF "avatar" \in DOMAIN sets THEN sets.avatar ELSE rows[i].avatar
        BY <1>1, <1>4, <2>1, WrittenRow
    <2>5. CASE ~OnAvatar(req[s])
        <3>1. NoFile(req[s]) /\ NoFile(req'[s])
            BY <1>2, <2>3, <2>5, OtherUpdates DEF NoFile, OnAvatar
        <3>2. rows'[i].avatar = rows[i].avatar
            BY <1>0, <1>2, <2>4, <2>5 DEF OnAvatar
        <3>3. \A j \in Id : (Exists(j)' <=> Exists(j)) /\ rows'[j].avatar = rows[j].avatar
            BY <2>1, <2>2, <3>2
        <3> QED
            BY <1>1, <1>4, <2>3, <3>1, <3>3, FilesFrame
    <2>6. CASE OnAvatar(req[s])
        <3> DEFINE g == sets.avatar
        <3>1. "avatar" \in DOMAIN sets /\ i \in AgentId /\ g \in File \cup {None} /\ rows'[i].avatar = g
            BY <1>0, <1>1, <1>2, <2>4, <2>6 DEF OnAvatar, UpdateRequest, Assigns
        <3>2. \A f \in File : (Names(s, f) <=> f = g) /\ ~Names(s, f)' /\ (Removes(s, f)' <=> Removes(s, f))
            BY <1>0, <1>2, <2>3, <2>6 DEF Names, Removes
        <3>3. \A q \in Slot \ {s}, f \in File : (Names(q, f)' <=> Names(q, f)) /\ (Removes(q, f)' <=> Removes(q, f))
            BY <2>3 DEF Names, Removes
        <3> HIDE DEF g
        <3>4. g \in File => /\ g \in files /\ \A j \in Id : Exists(j) => rows[j].avatar # g
                            /\ \A q \in Slot : (q # s => ~Names(q, g)) /\ ~Removes(q, g)
            BY <3>2 DEF FilesInv, NewFilesOwned
        <3>5. FilesOK' /\ RowHasFile'
            BY <1>1, <2>1, <2>2, <3>1, <3>4 DEF FilesInv, FilesOK, RowHasFile
        <3>6. \A f \in File, j \in Id : Exists(j)' /\ rows'[j].avatar = f =>
                IF j = i THEN f = g ELSE Exists(j) /\ rows[j].avatar = f
            BY <2>1, <2>2, <3>1
        <3>7. OneRowPerFile'
            BY <3>4, <3>6 DEF FilesInv, OneRowPerFile
        <3>8. NewFilesOwned'
            <4> SUFFICES ASSUME NEW f \in File, NEW q \in Slot, Names(q, f)'
                         PROVE  /\ f \in files /\ \A j \in Id : Exists(j)' => rows'[j].avatar # f
                                /\ \A p \in Slot : (p # q => ~Names(p, f)') /\ ~Removes(p, f)'
                BY <1>1 DEF NewFilesOwned
            <4>1. q # s /\ Names(q, f)
                BY <3>2, <3>3
            <4>2. f # g
                BY <3>4, <4>1
            <4> QED
                BY <3>2, <3>3, <3>6, <4>1, <4>2 DEF FilesInv, NewFilesOwned
        <3>9. OldFilesOwned'
            <4> SUFFICES ASSUME NEW f \in File, NEW q \in Slot, Removes(q, f)'
                         PROVE  /\ f \in written
                                /\ \A j \in Id : Exists(j)' /\ rows'[j].avatar = f
                                                 => req'[q].op # "unlink" /\ j = req'[q].id
                                /\ req'[q].op = "update" => OnAvatar(req'[q])
                BY <1>1 DEF OldFilesOwned
            <4>1. Removes(q, f)
                BY <3>2, <3>3
            <4>2. f # g
                BY <3>4, <4>1
            <4>3. \A j \in Id : Exists(j)' /\ rows'[j].avatar = f => Exists(j) /\ rows[j].avatar = f /\ j # i
                BY <3>6, <4>2
            <4>4. CASE q = s
                BY <1>0, <2>3, <4>1, <4>3, <4>4 DEF FilesInv, OldFilesOwned
            <4>5. CASE q # s
                BY <2>3, <4>1, <4>3, <4>5 DEF FilesInv, OldFilesOwned
            <4> QED
                BY <4>4, <4>5
        <3>10. AloneOnRow'
            <4> SUFFICES ASSUME ~spoilt, NEW q \in Slot, req'[q].op \in {"update", "delete"}, OnAvatar(req'[q])
                         PROVE  /\ Exists(req[q].id)' => req'[q].path = rows'[req'[q].id].avatar
                                /\ \A p \in Slot \ {q} : req'[p].op \in {"update", "delete"} /\ OnAvatar(req'[p])
                                                         => req'[p].id # req'[q].id
                BY <1>4 DEF AloneOnRow
            <4>1. q # s /\ req'[q] = req[q]
                BY <2>3
            <4>2. req[q].id # i /\ req[q].id \in Id
                BY <1>0, <1>2, <2>6, <4>1, IdsUsed DEF FilesInv, AloneOnRow
            <4>3. (Exists(req[q].id)' <=> Exists(req[q].id)) /\ rows'[req[q].id] = rows[req[q].id]
                BY <2>1, <2>2, <4>1, <4>2 DEF Exists
            <4> QED
                BY <2>3, <4>1, <4>3 DEF FilesInv, AloneOnRow
        <3>11. FilesKept'
            <4> SUFFICES ASSUME ~spoilt, NEW f \in files, f \in File
                         PROVE  \/ \E a \in AgentId : Exists(a)' /\ rows'[a].avatar = f
                                \/ \E q \in Slot : Names(q, f)' \/ (req'[q].op = "unlink" /\ req'[q].path = f)
                BY <1>1, <1>4 DEF FilesKept, FilesInv, FilesOK
            <4>1. CASE f = g
                BY <1>1, <1>4, <2>2, <3>1, <4>1
            <4>2. CASE f # g /\ \E a \in AgentId : Exists(a) /\ rows[a].avatar = f
                <5>1. PICK a \in AgentId : Exists(a) /\ rows[a].avatar = f
                    BY <4>2
                <5>2. CASE a = i
                    <6>1. req[s].path = f
                        BY <1>0, <1>2, <2>6, <5>1, <5>2 DEF FilesInv, AloneOnRow
                    <6> QED
                        BY <2>3, <6>1
                <5>3. CASE a # i
                    BY <2>1, <2>2, <5>1, <5>3 DEF Id
                <5> QED
                    BY <5>2, <5>3
            <4>3. CASE f # g /\ \E q \in Slot : Names(q, f) \/ (req[q].op = "unlink" /\ req[q].path = f)
                <5>1. PICK q \in Slot : Names(q, f) \/ (req[q].op = "unlink" /\ req[q].path = f)
                    BY <4>3
                <5>2. q # s
                    BY <1>2, <3>2, <4>3, <5>1
                <5> QED
                    BY <2>3, <3>3, <5>1, <5>2
            <4>4. \/ \E a \in AgentId : Exists(a) /\ rows[a].avatar = f
                  \/ \E q \in Slot : Names(q, f) \/ (req[q].op = "unlink" /\ req[q].path = f)
                BY DEF FilesInv, FilesKept
            <4> QED
                BY <4>1, <4>2, <4>3, <4>4
        <3> QED
            BY <3>5, <3>7, <3>8, <3>9, <3>10, <3>11 DEF FilesInv
    <2> QED
        BY <2>5, <2>6
<1> QED
    BY <1>1, <1>3, <1>4

\* The commit of a deletion: no row names its file any more, and the request
\* keeps it in hand.
LEMMA DeleteCommitFiles ==
    ASSUME CatalogInv, NEW s \in Slot, DeleteCommit(s)
    PROVE  FilesInv'
<1> USE DEF CatalogInv
<1>0. PICK i : i = req[s].id
    OBVIOUS
<1>1. /\ req[s] \in DeleteRequest /\ i \in Id /\ UNCHANGED <<files, written, spoilt>>
      /\ req' = [req EXCEPT ![s] = [op |-> "unlink", path |-> req[s].path]]
      /\ ~Exists(i)'
      /\ \A j \in Id \ {i} : /\ Exists(j)' <=> Exists(j)
                             /\ Exists(j) => rows'[j].avatar = rows[j].avatar
    BY <1>0, DeleteWrites
<1>2. /\ req[s].op = "delete" /\ OnAvatar(req[s]) /\ DOMAIN req' = Slot
      /\ \A q \in Slot \ {s} : req'[q] = req[q]
      /\ req'[s] = [op |-> "unlink", path |-> req[s].path]
    BY <1>1 DEF DeleteCommit, OnAvatar, TablesInv, RequestsOK
<1>3. \A j \in Id : Exists(j)' => j # i /\ Exists(j) /\ rows'[j].avatar = rows[j].avatar
    BY <1>1
<1>4. \A f \in File : ~Names(s, f) /\ ~Names(s, f)' /\ (Removes(s, f)' <=> Removes(s, f))
    BY <1>2 DEF Names, Removes
<1>5. \A q \in Slot \ {s}, f \in File : (Names(q, f)' <=> Names(q, f)) /\ (Removes(q, f)' <=> Removes(q, f))
    BY <1>2 DEF Names, Removes
<1>6. FilesOK' /\ RowHasFile' /\ OneRowPerFile'
    BY <1>1, <1>3 DEF FilesInv, FilesOK, RowHasFile, OneRowPerFile
<1>7. NewFilesOwned'
    BY <1>1, <1>3, <1>4, <1>5 DEF FilesInv, NewFilesOwned
<1>8. OldFilesOwned'
    <2> SUFFICES ASSUME NEW f \in File, NEW q \in Slot, Removes(q, f)'
                 PROVE  /\ f \in written
                        /\ \A j \in Id : Exists(j)' /\ rows'[j].avatar = f
                                         => req'[q].op # "unlink" /\ j = req'[q].id
                        /\ req'[q].op = "update" => OnAvatar(req'[q])
        BY <1>1 DEF OldFilesOwned
    <2>1. Removes(q, f)
        BY <1>4, <1>5
    <2>2. CASE q = s
        BY <1>0, <1>2, <1>3, <2>1, <2>2 DEF FilesInv, OldFilesOwned
    <2>3. CASE q # s
        BY <1>2, <1>3, <2>1, <2>3 DEF FilesInv, OldFilesOwned
    <2> QED
        BY <2>2, <2>3
<1>9. AloneOnRow'
    <2> SUFFICES ASSUME ~spoilt, NEW q \in Slot, req'[q].op \in {"update", "delete"}, OnAvatar(req'[q])
                 PROVE  /\ Exists(req[q].id)' => req'[q].path = rows'[req'[q].id].avatar
                        /\ \A p \in Slot \ {q} : req'[p].op \in {"update", "delete"} /\ OnAvatar(req'[p])
                                                 => req'[p].id # req'[q].id
        BY <1>1 DEF AloneOnRow
    <2>1. q # s /\ req'[q] = req[q]
        BY <1>2
    <2>2. req[q].id \in Id
        BY <2>1, IdsUsed
    <2>3. Exists(req[q].id)' => Exists(req[q].id) /\ rows'[req[q].id].avatar = rows[req[q].id].avatar
        BY <1>3, <2>1, <2>2
    <2>4. \A p \in Slot : req'[p].op \in {"update", "delete"} => p # s /\ req'[p] = req[p]
        BY <1>2
    <2> QED
        BY <2>1, <2>3, <2>4 DEF FilesInv, AloneOnRow
<1>10. FilesKept'
    <2> SUFFICES ASSUME ~spoilt, NEW f \in files, f \in File
                 PROVE  \/ \E a \in AgentId : Exists(a)' /\ rows'[a].avatar = f
                        \/ \E q \in Slot : Names(q, f)' \/ (req'[q].op = "unlink" /\ req'[q].path = f)
        BY <1>1 DEF FilesKept, FilesInv, FilesOK
    <2>1. CASE \E a \in AgentId : Exists(a) /\ rows[a].avatar = f
        <3>1. PICK a \in AgentId : Exists(a) /\ rows[a].avatar = f
            BY <2>1
        <3>2. CASE a = i
            <4>1. req[s].path = f
                BY <1>0, <1>2, <3>1, <3>2 DEF FilesInv, AloneOnRow
            <4> QED
                BY <1>2, <4>1
        <3>3. CASE a # i
            BY <1>1, <3>1, <3>3 DEF Id
        <3> QED
            BY <3>2, <3>3
    <2>2. CASE \E q \in Slot : Names(q, f) \/ (req[q].op = "unlink" /\ req[q].path = f)
        <3>1. PICK q \in Slot : Names(q, f) \/ (req[q].op = "unlink" /\ req[q].path = f)
            BY <2>2
        <3>2. q # s
            BY <1>2, <1>4, <3>1
        <3> QED
            BY <1>2, <1>5, <3>1, <3>2
    <2>3. \/ \E a \in AgentId : Exists(a) /\ rows[a].avatar = f
          \/ \E q \in Slot : Names(q, f) \/ (req[q].op = "unlink" /\ req[q].path = f)
        BY DEF FilesInv, FilesKept
    <2> QED
        BY <2>1, <2>2, <2>3
<1> QED
    BY <1>6, <1>7, <1>8, <1>9, <1>10 DEF FilesInv

\* The removal after the commit takes a file that nothing names.
LEMMA UnlinkFiles ==
    ASSUME CatalogInv, NEW s \in Slot, Unlink(s)
    PROVE  FilesInv'
<1> USE DEF CatalogInv
<1>0. PICK g : g = req[s].path
    OBVIOUS
<1>1. /\ req[s].op = "unlink" /\ files' = files \ {g} /\ UNCHANGED <<rows, written, spoilt>>
      /\ DOMAIN req' = Slot /\ req'[s] = Idle /\ \A q \in Slot \ {s} : req'[q] = req[q]
    BY <1>0 DEF Unlink, Close, TablesInv, RequestsOK
<1>2. \A j \in Id : Exists(j)' <=> Exists(j)
    BY <1>1 DEF Exists
<1>3. \A f \in File : ~Names(s, f) /\ ~Names(s, f)' /\ ~Removes(s, f)' /\ (Removes(s, f) <=> f = g)
    BY <1>0, <1>1 DEF Names, Removes, Idle
<1>4. \A q \in Slot \ {s}, f \in File : (Names(q, f)' <=> Names(q, f)) /\ (Removes(q, f)' <=> Removes(q, f))
    BY <1>1 DEF Names, Removes
<1>5. g \in File => \A j \in Id : Exists(j) => rows[j].avatar # g
    BY <1>1, <1>3 DEF FilesInv, OldFilesOwned
<1>6. FilesOK' /\ RowHasFile' /\ OneRowPerFile'
    BY <1>1, <1>2, <1>5 DEF FilesInv, FilesOK, RowHasFile, OneRowPerFile
<1>7. NewFilesOwned'
    <2> SUFFICES ASSUME NEW f \in File, NEW q \in Slot, Names(q, f)'
                 PROVE  /\ f \in files' /\ \A j \in Id : Exists(j) => rows[j].avatar # f
                        /\ \A p \in Slot : (p # q => ~Names(p, f)') /\ ~Removes(p, f)'
        BY <1>1, <1>2 DEF NewFilesOwned
    <2>1. q # s /\ Names(q, f)
        BY <1>3, <1>4
    <2>2. f \in files /\ (\A j \in Id : Exists(j) => rows[j].avatar # f)
          /\ \A p \in Slot : (p # q => ~Names(p, f)) /\ ~Removes(p, f)
        BY <2>1 DEF FilesInv, NewFilesOwned
    <2>3. f # g
        BY <1>3, <2>2
    <2> QED
        BY <1>1, <1>3, <1>4, <2>2, <2>3
<1>8. OldFilesOwned'
    <2> SUFFICES ASSUME NEW f \in File, NEW q \in Slot, Removes(q, f)'
                 PROVE  /\ f \in written
                        /\ \A j \in Id : Exists(j) /\ rows[j].avatar = f
                                         => req'[q].op # "unlink" /\ j = req'[q].id
                        /\ req'[q].op = "update" => OnAvatar(req'[q])
        BY <1>1, <1>2 DEF OldFilesOwned
    <2>1. q # s /\ Removes(q, f)
        BY <1>3, <1>4
    <2> QED
        BY <1>1, <2>1 DEF FilesInv, OldFilesOwned
<1>9. AloneOnRow'
    <2>1. \A q \in Slot : OnAvatar(req'[q]) => q # s /\ req'[q] = req[q]
        BY <1>1 DEF OnAvatar, Idle
    <2> QED
        BY <1>1, <2>1 DEF FilesInv, AloneOnRow, Exists
<1>10. FilesKept'
    <2> SUFFICES ASSUME ~spoilt, NEW f \in files \ {g}, f \in File
                 PROVE  \/ \E a \in AgentId : Exists(a) /\ rows[a].avatar = f
                        \/ \E q \in Slot : Names(q, f)' \/ (req'[q].op = "unlink" /\ req'[q].path = f)
        BY <1>1, <1>2 DEF FilesKept, FilesInv, FilesOK, Id
    <2>1. CASE \E q \in Slot : Names(q, f) \/ (req[q].op = "unlink" /\ req[q].path = f)
        <3>1. PICK q \in Slot : Names(q, f) \/ (req[q].op = "unlink" /\ req[q].path = f)
            BY <2>1
        <3>2. q # s
            BY <1>0, <1>3, <3>1
        <3> QED
            BY <1>1, <1>4, <3>1, <3>2
    <2> QED
        BY <2>1 DEF FilesInv, FilesKept
<1> QED
    BY <1>6, <1>7, <1>8, <1>9, <1>10 DEF FilesInv

\* Requests that have nothing to do with files, and requests that break off.
LEMMA QuietFiles ==
    ASSUME CatalogInv, NEW s \in Slot, DOMAIN req' = Slot, \A q \in Slot \ {s} : req'[q] = req[q],
           UNCHANGED <<rows, files, written>>, ~spoilt' => ~spoilt,
           NoFile(req[s]) \/ spoilt', NoFile(req'[s])
    PROVE  FilesInv'
<1>1. \A i \in Id : (Exists(i)' <=> Exists(i)) /\ rows'[i].avatar = rows[i].avatar
    BY DEF Exists
<1> QED
    BY <1>1, FilesFrame

LEMMA BeginQuietFiles ==
    ASSUME CatalogInv, NEW s \in Slot, NEW r, Open(s, r), NoFile(r),
           UNCHANGED <<rows, files, written>>, ~spoilt' => ~spoilt
    PROVE  FilesInv'
<1>1. NoFile(req[s]) /\ DOMAIN req' = Slot /\ req'[s] = r /\ \A q \in Slot \ {s} : req'[q] = req[q]
    BY DEF Open, NoFile, OnAvatar, Idle, CatalogInv, TablesInv, RequestsOK
<1> QED
    BY <1>1, QuietFiles

LEMMA EndRequest ==
    ASSUME CatalogInv, NEW s \in Slot, Close(s)
    PROVE  DOMAIN req' = Slot /\ NoFile(req'[s]) /\ \A q \in Slot \ {s} : req'[q] = req[q]
<1> QED
    BY DEF Close, NoFile, OnAvatar, Idle, CatalogInv, TablesInv, RequestsOK

LEMMA CreateCommitFiles ==
    ASSUME CatalogInv, NEW s \in Slot, CreateCommit(s)
    PROVE  FilesInv'
<1>1. req[s] \in CreateRequest /\ NoFile(req[s])
    <2>1. req[s] \in CreateRequest
        BY RequestForms DEF CreateCommit, CatalogInv, TablesInv, RequestsOK
    <2> QED
        BY <2>1 DEF CreateRequest, NoFile, OnAvatar
<1>2. Close(s) /\ UNCHANGED <<files, written, spoilt>>
    BY DEF CreateCommit
<1>3. DOMAIN req' = Slot /\ NoFile(req'[s]) /\ \A q \in Slot \ {s} : req'[q] = req[q]
    BY <1>2, EndRequest
<1>4. CASE UNCHANGED rows
    BY <1>1, <1>2, <1>3, <1>4, QuietFiles
<1>5. CASE ~UNCHANGED rows
    <2>1. PICK i \in Fresh(req[s].table) : rows' = [rows EXCEPT ![i] = req[s].row]
        BY <1>5 DEF CreateCommit
    <2>2. i \in Id /\ rows[i] = Unused /\ ~Exists(i)
        BY <1>1, <2>1, TableOfId DEF CreateRequest, Fresh, Exists
    <2>3. rows'[i].avatar = None /\ \A j \in Id \ {i} : rows'[j] = rows[j]
        BY <1>1, <2>1, <2>2 DEF CreateRequest, CatalogInv, TablesInv, RowsOK
    <2>4. \A j \in Id \ {i} : (Exists(j)' <=> Exists(j)) /\ rows'[j].avatar = rows[j].avatar
        BY <2>3 DEF Exists
    <2> QED
        BY <1>1, <1>2, <1>3, <2>2, <2>3, <2>4, FilesFrame
<1> QED
    BY <1>4, <1>5

LEMMA SeedCommitFiles ==
    ASSUME CatalogInv, NEW s \in Slot, SeedCommit(s)
    PROVE  FilesInv'
<1> USE DEF CatalogInv
<1>1. req[s].op = "seed" /\ Close(s) /\ UNCHANGED <<files, written>>
    BY SeedWrites
<1>2. NoFile(req[s])
    BY <1>1 DEF NoFile, OnAvatar
<1>3. DOMAIN req' = Slot /\ NoFile(req'[s]) /\ \A q \in Slot \ {s} : req'[q] = req[q]
    BY <1>1, EndRequest
<1>4. CASE UNCHANGED <<rows, links, spoilt>>
    BY <1>1, <1>2, <1>3, <1>4, QuietFiles
<1>5. CASE \E inserts, new, a, idOf :
            SeedPlan(s, inserts, new, a, idOf) /\ SeedEffect(s, inserts, new, a, idOf)
    <2>1. PICK inserts, new, a, idOf :
            SeedPlan(s, inserts, new, a, idOf) /\ SeedEffect(s, inserts, new, a, idOf)
        BY <1>5
    <2>2. /\ a \in AgentId /\ rows'[a] = SeedRow
          /\ \A i \in Id : Exists(i) => Exists(i)' /\ (i # a => rows'[i].avatar = rows[i].avatar)
          /\ \A i \in Id : Exists(i)' /\ ~Exists(i) => rows[i] = Unused /\ rows'[i].avatar = None
        BY <1>1, <2>1, SeedRows
    <2>3. rows'[a].avatar = None
        BY <2>2 DEF SeedRow
    <2>4. spoilt' = (spoilt \/ (Exists(a) /\ rows[a].avatar # None) \/ Overlaps(s, a))
        BY <2>1 DEF SeedEffect
    <2>5. ~spoilt' => ~spoilt /\ (Exists(a) => rows[a].avatar = None)
        BY <2>4, Zenon
    <2> QED
        BY <1>1, <1>2, <1>3, <2>2, <2>3, <2>5, FilesFrame
<1> QED
    BY <1>4, <1>5, SeedWrites

\* A removal that finds no avatar assigns nothing and has nothing to remove.
LEMMA DeleteAvatarFiles ==
    ASSUME CatalogInv, NEW s \in Slot, NEW a \in AgentId, DeleteAvatar(s, a)
    PROVE  FilesInv'
<1> DEFINE sets == Dirty(rows[a], [avatar |-> None])
           r == [op |-> "update", id |-> a, sets |-> sets, path |-> AvatarPath(a)]
<1>1. a \in Id /\ Exists(a) /\ Open(s, r) /\ spoilt' = (spoilt \/ Overlaps(s, a))
      /\ UNCHANGED <<rows, links, files, written>>
    BY DEF DeleteAvatar, Id
<1>2. rows[a] \in Row /\ AvatarPath(a) = rows[a].avatar
    BY <1>1, RowsFound, AvatarPathIsRow DEF CatalogInv
<1>3. IF "avatar" \in DOMAIN sets THEN sets.avatar = None ELSE rows[a].avatar = None
    <2>1. Assigns([avatar |-> None])
        BY DEF Assigns
    <2> QED
        BY <1>2, <2>1, DirtyAssigns
<1> HIDE DEF sets
<1>4. CASE "avatar" \in DOMAIN sets
    <2>1. OnAvatar(r) /\ r.op = "update" /\ r.id = a /\ r.path = AvatarPath(a) /\ r.sets.avatar = None
        BY <1>3, <1>4 DEF OnAvatar
    <2>2. files' = files \cup ({None} \ {None}) /\ written' = written \cup ({None} \ {None})
        BY <1>1
    <2> HIDE DEF r
    <2> QED
        BY <1>1, <2>1, <2>2, BeginFiles
<1>5. CASE "avatar" \notin DOMAIN sets
    <2>1. NoFile(r)
        BY <1>2, <1>3, <1>5 DEF NoFile, OnAvatar
    <2>2. ~spoilt' => ~spoilt
        BY <1>1, Zenon
    <2> HIDE DEF r
    <2> QED
        BY <1>1, <2>1, <2>2, BeginQuietFiles
<1> QED
    BY <1>4, <1>5

LEMMA UploadAvatarFiles ==
    ASSUME CatalogInv, NEW s \in Slot, NEW a \in AgentId, NEW f \in File, UploadAvatar(s, a, f)
    PROVE  FilesInv'
<1> DEFINE r == [op |-> "update", id |-> a, sets |-> [avatar |-> f], path |-> AvatarPath(a)]
<1>1. a \in Id /\ Exists(a) /\ Open(s, r) /\ spoilt' = (spoilt \/ Overlaps(s, a))
      /\ UNCHANGED <<rows, links>> /\ f \in File \ written
    BY DEF UploadAvatar, Id
<1>2. files' = files \cup ({f} \ {None}) /\ written' = written \cup ({f} \ {None})
    BY CatalogAssumption DEF UploadAvatar
<1>3. OnAvatar(r) /\ r.op = "update" /\ r.id = a /\ r.path = AvatarPath(a) /\ r.sets.avatar = f
    BY DEF OnAvatar
<1> HIDE DEF r
<1> QED
    BY <1>1, <1>2, <1>3, BeginFiles

LEMMA DeleteFiles ==
    ASSUME CatalogInv, NEW s \in Slot, NEW i \in Id, Delete(s, i)
    PROVE  FilesInv'
<1> DEFINE r == [op |-> "delete", id |-> i, path |-> AvatarPath(i)]
<1>1. Exists(i) /\ Open(s, r) /\ spoilt' = (spoilt \/ Overlaps(s, i)) /\ UNCHANGED <<rows, links>>
    BY DEF Delete
<1>2. files' = files \cup ({None} \ {None}) /\ written' = written \cup ({None} \ {None})
    BY DEF Delete
<1>3. OnAvatar(r) /\ r.op = "delete" /\ r.id = i /\ r.path = AvatarPath(i)
    BY DEF OnAvatar
<1> HIDE DEF r
<1> QED
    BY <1>1, <1>2, <1>3, BeginFiles

LEMMA UpdateFiles ==
    ASSUME CatalogInv, NEW s \in Slot, NEW i \in Id, NEW c \in Changes(i), Update(s, i, c)
    PROVE  FilesInv'
<1> DEFINE sets == Dirty(rows[i], c)
           r == [op |-> "update", id |-> i, sets |-> sets, path |-> None]
<1>1. Exists(i) /\ Open(s, r) /\ UNCHANGED <<rows, links, files, written, spoilt>>
    BY DEF Update
<1>2. Assigns(c) /\ "avatar" \notin DOMAIN c
    BY DEF Changes, Assigns, Text
<1>3. "avatar" \notin DOMAIN sets
    BY <1>1, <1>2, RowsFound, DirtyAssigns DEF CatalogInv
<1> HIDE DEF sets
<1>4. NoFile(r)
    BY <1>3 DEF NoFile, OnAvatar
<1> HIDE DEF r
<1> QED
    BY <1>1, <1>4, BeginQuietFiles

\* What begins, ends or breaks off without a file.
LEMMA CreateFiles ==
    ASSUME CatalogInv, NEW s \in Slot, NEW table, NEW row, Create(s, table, row)
    PROVE  FilesInv'
<1> DEFINE r == [op |-> "create", table |-> table, row |-> row, path |-> None]
<1>1. Open(s, r) /\ UNCHANGED <<rows, links, files, written, spoilt>>
    BY DEF Create
<1>2. NoFile(r)
    BY DEF NoFile, OnAvatar
<1> HIDE DEF r
<1> QED
    BY <1>1, <1>2, BeginQuietFiles

LEMMA LinkFiles ==
    ASSUME CatalogInv, NEW s \in Slot, NEW l,
           Open(s, [op |-> "attach", link |-> l]) \/ Open(s, [op |-> "detach", link |-> l]),
           UNCHANGED <<rows, links, files, written, spoilt>>
    PROVE  FilesInv'
<1>1. \A op \in {"attach", "detach"} : NoFile([op |-> op, link |-> l])
    BY DEF NoFile, OnAvatar
<1> QED
    BY <1>1, BeginQuietFiles

LEMMA LinkCommitFiles ==
    ASSUME CatalogInv, NEW s \in Slot, AttachCommit(s) \/ DetachCommit(s)
    PROVE  FilesInv'
<1>1. NoFile(req[s]) /\ Close(s) /\ UNCHANGED <<rows, files, written, spoilt>>
    BY DEF AttachCommit, DetachCommit, NoFile, OnAvatar
<1> QED
    BY <1>1, EndRequest, QuietFiles

LEMMA SeedFiles ==
    ASSUME CatalogInv, NEW s \in Slot, Seed(s)
    PROVE  FilesInv'
<1>1. PICK missing, dirty : Open(s, [op |-> "seed", missing |-> missing, dirty |-> dirty])
    BY DEF Seed
<1>2. NoFile([op |-> "seed", missing |-> missing, dirty |-> dirty])
    BY DEF NoFile, OnAvatar
<1>3. UNCHANGED <<rows, links, files, written, spoilt>>
    BY DEF Seed
<1> QED
    BY <1>1, <1>2, <1>3, BeginQuietFiles

LEMMA BreakOffFiles ==
    ASSUME CatalogInv, NEW s \in Slot, BreakOff(s)
    PROVE  FilesInv'
<1>1. Close(s) /\ spoilt' /\ UNCHANGED <<rows, files, written>>
    BY DEF BreakOff
<1> QED
    BY <1>1, EndRequest, QuietFiles

-----------------------------------------------------------------------------
LEMMA CatalogInitially == Init => CatalogInv
<1> SUFFICES ASSUME Init PROVE CatalogInv
    OBVIOUS
<1> USE DEF Init
<1>1. \A i \in Id : ~Exists(i)
    BY DEF Exists
<1>2. RowsOK
    BY CatalogAssumption DEF RowsOK
<1>3. OneRowPerKey /\ LinksLead /\ RolesLead
    BY <1>1, TableOfId DEF OneRowPerKey, LinksLead, RolesLead, Id
<1>4. RequestsOK
    BY DEF RequestsOK, RequestOK, Idle
<1>5. FilesOK /\ RowHasFile /\ OneRowPerFile
    BY <1>1 DEF FilesOK, RowHasFile, OneRowPerFile
<1>6. NewFilesOwned /\ OldFilesOwned /\ AloneOnRow /\ FilesKept
    BY DEF NewFilesOwned, OldFilesOwned, AloneOnRow, FilesKept, Names, Removes, OnAvatar, Idle
<1> QED
    BY <1>2, <1>3, <1>4, <1>5, <1>6 DEF CatalogInv, TablesInv, FilesInv

LEMMA CatalogPreserved == CatalogInv /\ [Next]_vars => CatalogInv'
<1> SUFFICES ASSUME CatalogInv, [Next]_vars PROVE CatalogInv'
    OBVIOUS
<1> USE DEF CatalogInv
<1>0. FilesOK
    BY DEF FilesInv
<1>1. ASSUME NEW s \in Slot, NEW table \in Table, NEW row \in NewRow(table), Create(s, table, row)
      PROVE  CatalogInv'
    BY <1>1, CreateTables, CreateFiles
<1>2. ASSUME NEW s \in Slot, CreateCommit(s) PROVE CatalogInv'
    BY <1>2, CreateCommitTables, CreateCommitFiles
<1>3. ASSUME NEW s \in Slot, NEW i \in Id, NEW c \in Changes(i), Update(s, i, c) PROVE CatalogInv'
    BY <1>3, UpdateTables, UpdateFiles
<1>4. ASSUME NEW s \in Slot, NEW a \in AgentId, NEW f \in File, UploadAvatar(s, a, f) PROVE CatalogInv'
    BY <1>0, <1>4, UploadAvatarTables, UploadAvatarFiles
<1>5. ASSUME NEW s \in Slot, NEW a \in AgentId, DeleteAvatar(s, a) PROVE CatalogInv'
    BY <1>0, <1>5, DeleteAvatarTables, DeleteAvatarFiles
<1>6. ASSUME NEW s \in Slot, UpdateCommit(s) PROVE CatalogInv'
    BY <1>6, UpdateCommitTables, UpdateCommitFiles
<1>7. ASSUME NEW s \in Slot, NEW i \in Id, Delete(s, i) PROVE CatalogInv'
    BY <1>0, <1>7, DeleteTables, DeleteFiles
<1>8. ASSUME NEW s \in Slot, DeleteCommit(s) PROVE CatalogInv'
    BY <1>8, DeleteCommitTables, DeleteCommitFiles
<1>9. ASSUME NEW s \in Slot, Unlink(s) PROVE CatalogInv'
    <2>1. Close(s) /\ UNCHANGED <<rows, links>>
        BY <1>9 DEF Unlink
    <2> QED
        BY <1>9, <2>1, EndTables, UnlinkFiles
<1>10. ASSUME NEW s \in Slot, BreakOff(s) PROVE CatalogInv'
    <2>1. Close(s) /\ UNCHANGED <<rows, links>>
        BY <1>10 DEF BreakOff
    <2> QED
        BY <1>10, <2>1, EndTables, BreakOffFiles
<1>11. ASSUME NEW s \in Slot, NEW a \in AgentId, NEW k \in SourceId, Attach(s, a, k) PROVE CatalogInv'
    BY <1>11, AttachTables, LinkFiles DEF Attach
<1>12. ASSUME NEW s \in Slot, NEW l \in links, Detach(s, l) PROVE CatalogInv'
    BY <1>12, DetachTables, LinkFiles DEF Detach
<1>13. ASSUME NEW s \in Slot, AttachCommit(s) \/ DetachCommit(s) PROVE CatalogInv'
    BY <1>13, LinkCommitTables, LinkCommitFiles
<1>14. ASSUME NEW s \in Slot, Seed(s) PROVE CatalogInv'
    BY <1>14, SeedTables, SeedFiles
<1>15. ASSUME NEW s \in Slot, SeedCommit(s) PROVE CatalogInv'
    BY <1>15, SeedCommitTables, SeedCommitFiles
<1>16. CASE UNCHANGED vars
    BY <1>16 DEF vars, TablesInv, RowsOK, OneRowPerKey, LinksLead, RolesLead, RequestsOK, RoleKnown, Find,
                 Exists, FilesInv, FilesOK, RowHasFile, OneRowPerFile, NewFilesOwned, OldFilesOwned,
                 AloneOnRow, FilesKept, Names, Removes
<1> QED
    BY <1>1, <1>2, <1>3, <1>4, <1>5, <1>6, <1>7, <1>8, <1>9, <1>10, <1>11, <1>12, <1>13, <1>14, <1>15,
       <1>16 DEF Next

\* The invariant of the catalogues: the tables keep their constraints across
\* requests that check first and write later, and every file has one owner.
THEOREM CatalogInvariant == Spec => []CatalogInv
<1> QED
    BY CatalogInitially, CatalogPreserved, PTL DEF Spec

-----------------------------------------------------------------------------
\* Columns, keys and references: whatever is created, renamed, deleted or
\* seeded between the check of a request and its commit, no key is in a table
\* twice and no link or role leads to a row that is gone.
THEOREM CatalogTypeCorrect == Spec => []CatalogTypeOK
<1>1. CatalogInv => CatalogTypeOK
    <2> SUFFICES ASSUME CatalogInv PROVE CatalogTypeOK
        OBVIOUS
    <2> USE DEF CatalogInv, TablesInv, FilesInv
    <2>1. ASSUME NEW table \in Table, NEW k \in Key PROVE Cardinality(Find(table, k)) <= 1
        <3>1. \A i, j \in Find(table, k) : i = j
            BY DEF Find, OneRowPerKey
        <3>2. CASE Find(table, k) = {}
            BY <3>2, FS_EmptySet
        <3>3. CASE \E i : Find(table, k) = {i}
            BY <3>3, FS_Singleton
        <3> QED
            BY <3>1, <3>2, <3>3
    <2>2. KeysUnique
        BY <2>1 DEF KeysUnique
    <2>3. \A l \in links : l[1] \in AgentId /\ l[2] \in SourceId /\ Exists(l[1]) /\ Exists(l[2])
        BY DEF LinksLead
    <2> QED
        BY <2>2, <2>3 DEF CatalogTypeOK, RowsOK, FilesOK, RolesLead
<1> QED
    BY <1>1, CatalogInvariant, PTL

\* The avatar of an agent can be downloaded, also while requests on it overlap
\* or break off: the file is written before the row names it, and what is
\* removed is no longer named.
THEOREM AvatarsDownload == Spec => []AvatarHasFile
<1>1. CatalogInv => AvatarHasFile
    BY DEF CatalogInv, FilesInv, RowHasFile, AvatarHasFile, Id
<1> QED
    BY <1>1, CatalogInvariant, PTL

\* Every file is named by an agent or is in the hands of a request, unless
\* requests on one avatar overlapped, one broke off or a seed reset an avatar.
THEOREM FilesAccounted == Spec => []NoOrphanFiles
<1>1. CatalogInv => NoOrphanFiles
    <2> SUFFICES ASSUME CatalogInv, ~spoilt, NEW f \in files
                 PROVE  \/ \E a \in AgentId : Exists(a) /\ rows[a].avatar = f
                        \/ \E s \in Slot :
                             /\ req[s] # Idle
                             /\ \/ req[s].op = "update" /\ OnAvatar(req[s]) /\ req[s].sets.avatar = f
                                \/ req[s].op = "unlink" /\ req[s].path = f
        BY Zenon DEF NoOrphanFiles
    <2>1. \/ \E a \in AgentId : Exists(a) /\ rows[a].avatar = f
          \/ \E s \in Slot : Names(s, f) \/ (req[s].op = "unlink" /\ req[s].path = f)
        BY DEF CatalogInv, FilesInv, FilesKept
    <2>2. \A s \in Slot : req[s].op \in {"update", "unlink"} => req[s] # Idle
        BY DEF Idle
    <2> QED
        BY <2>1, <2>2 DEF Names
<1> QED
    BY <1>1, CatalogInvariant, PTL

\* Nothing but its commit ends a seed.
LEMMA SeedEnds ==
    ASSUME CatalogInv, Next, NEW s \in Slot, req[s].op = "seed", req'[s] = Idle
    PROVE  SeedCommit(s)
<1>1. PICK q \in Slot :
        \/ \E table \in Table : \E row \in NewRow(table) : Create(q, table, row)
        \/ \E i \in Id : Delete(q, i) \/ \E c \in Changes(i) : Update(q, i, c)
        \/ \E a \in AgentId : \/ DeleteAvatar(q, a) \/ \E f \in File : UploadAvatar(q, a, f)
                              \/ \E k \in SourceId : Attach(q, a, k)
        \/ \E l \in links : Detach(q, l)
        \/ CreateCommit(q) \/ UpdateCommit(q) \/ DeleteCommit(q) \/ Unlink(q) \/ BreakOff(q)
        \/ AttachCommit(q) \/ DetachCommit(q) \/ Seed(q) \/ SeedCommit(q)
    BY DEF Next
<1>2. /\ \A r : Open(q, r) => req[q] = Idle /\ \A p \in Slot \ {q} : req'[p] = req[p]
      /\ Close(q) => \A p \in Slot \ {q} : req'[p] = req[p]
    BY DEF Open, Close, CatalogInv, TablesInv, RequestsOK
<1>3. req[s] # Idle /\ req[s].op # "idle"
    BY DEF Idle
<1>4. CASE q # s
    <2>1. req'[s] = req[s]
        <3>1. CASE UpdateCommit(q)
            BY <1>2, <1>4, <3>1 DEF UpdateCommit, CatalogInv, TablesInv, RequestsOK
        <3>2. CASE DeleteCommit(q)
            BY <1>2, <1>4, <3>2 DEF DeleteCommit, CatalogInv, TablesInv, RequestsOK
        <3>3. CASE CreateCommit(q) \/ Unlink(q) \/ BreakOff(q) \/ AttachCommit(q) \/ DetachCommit(q) \/ SeedCommit(q)
            <4>1. Close(q)
                BY <3>3, Zenon DEF CreateCommit, Unlink, BreakOff, AttachCommit, DetachCommit, SeedCommit
            <4> QED
                BY <1>2, <1>4, <4>1
        <3>4. CASE \/ \E table \in Table : \E row \in NewRow(table) : Create(q, table, row)
                   \/ \E i \in Id : Delete(q, i) \/ \E c \in Changes(i) : Update(q, i, c)
                   \/ \E a \in AgentId : \/ DeleteAvatar(q, a) \/ \E f \in File : UploadAvatar(q, a, f)
                                         \/ \E k \in SourceId : Attach(q, a, k)
                   \/ (\E l \in links : Detach(q, l)) \/ Seed(q)
            <4>1. \E r : Open(q, r)
                BY <3>4, Zenon DEF Create, Delete, Update, DeleteAvatar, UploadAvatar, Attach, Detach, Seed
            <4> QED
                BY <1>2, <1>4, <4>1
        <3> QED
            BY <1>1, <3>1, <3>2, <3>3, <3>4
    <2> QED
        BY <1>3, <2>1
<1>5. CASE q = s
    <2>1. \A r : ~Open(q, r)
        BY <1>2, <1>3, <1>5
    <2>2. ~(\/ \E table \in Table : \E row \in NewRow(table) : Create(q, table, row)
            \/ \E i \in Id : Delete(q, i) \/ \E c \in Changes(i) : Update(q, i, c)
            \/ \E a \in AgentId : \/ DeleteAvatar(q, a) \/ \E f \in File : UploadAvatar(q, a, f)
                                  \/ \E k \in SourceId : Attach(q, a, k)
            \/ (\E l \in links : Detach(q, l)) \/ Seed(q))
        BY <2>1, Zenon DEF Create, Delete, Update, DeleteAvatar, UploadAvatar, Attach, Detach, Seed
    <2>3. ~CreateCommit(q) /\ ~UpdateCommit(q) /\ ~DeleteCommit(q) /\ ~Unlink(q) /\ ~BreakOff(q)
          /\ ~AttachCommit(q) /\ ~DetachCommit(q)
        BY <1>5 DEF CreateCommit, UpdateCommit, DeleteCommit, Unlink, BreakOff, AttachCommit, DetachCommit
    <2> QED
        BY <1>1, <1>5, <2>2, <2>3
<1> QED
    BY <1>4, <1>5

\* A seed that commits leaves the canonical agent with its role and links to
\* exactly its sources, under the keys they have after the commit, whatever was
\* renamed or deleted since it read them; or it changes nothing.
THEOREM SeedComplete == Spec => SeedAllOrNothing
<1> DEFINE Complete(s) ==
        \/ rows' = rows /\ links' = links
        \/ \E a \in AgentId : /\ rows'[a] \notin {Unused, Deleted}
              /\ rows'[a].key = SeedAgent /\ rows'[a].role = SeedRole
              /\ {rows'[l[2]].key : l \in {m \in links' : m[1] = a}} = SeedLinks
<1>1. ASSUME CatalogInv, NEW s \in Slot, SeedCommit(s) PROVE Complete(s)
    <2>1. req[s].op = "seed"
        BY <1>1, SeedWrites
    <2>2. CASE UNCHANGED <<rows, links, spoilt>>
        BY <2>2
    <2>3. CASE \E inserts, new, a, idOf :
                SeedPlan(s, inserts, new, a, idOf) /\ SeedEffect(s, inserts, new, a, idOf)
        <3>1. PICK inserts, new, a, idOf :
                SeedPlan(s, inserts, new, a, idOf) /\ SeedEffect(s, inserts, new, a, idOf)
            BY <2>3
        <3>2. /\ a \in AgentId /\ rows'[a] = SeedRow /\ Exists(a)'
              /\ \A p \in inserts : rows'[new[p]].key = p[2]
              /\ \A i \in Id : Exists(i) => rows'[i].key = rows[i].key
            BY <1>1, <2>1, <3>1, SeedRows DEF CatalogInv
        <3>3. ASSUME NEW k \in SeedLinks PROVE rows'[idOf[k]].key = k
            <4>1. CASE <<SourceId, k>> \in inserts
                <5>1. rows'[new[<<SourceId, k>>]].key = k
                    BY <3>2, <4>1
                <5> QED
                    BY <3>1, <4>1, <5>1 DEF SeedPlan
            <4>2. CASE <<SourceId, k>> \notin inserts
                BY <3>1, <3>2, <4>2 DEF SeedPlan, Find, Id
            <4> QED
                BY <4>1, <4>2
        <3>4. links' = {l \in links : l[1] # a} \cup {<<a, idOf[k]>> : k \in SeedLinks}
            BY <3>1 DEF SeedEffect
        <3>5. {m \in links' : m[1] = a} = {<<a, idOf[k]>> : k \in SeedLinks}
            BY <3>4
        <3>6. {rows'[l[2]].key : l \in {<<a, idOf[k]>> : k \in SeedLinks}} = SeedLinks
            <4> DEFINE own == {<<a, idOf[k]>> : k \in SeedLinks}
            <4>1. ASSUME NEW l \in own PROVE rows'[l[2]].key \in SeedLinks
                BY <3>3
            <4>2. ASSUME NEW k \in SeedLinks PROVE \E l \in own : rows'[l[2]].key = k
                <5>1. <<a, idOf[k]>> \in own /\ <<a, idOf[k]>>[2] = idOf[k]
                    OBVIOUS
                <5> QED
                    BY <3>3, <5>1
            <4> HIDE DEF own
            <4>3. {rows'[l[2]].key : l \in own} = SeedLinks
                BY <4>1, <4>2
            <4> QED
                BY <4>3 DEF own
        <3>7. rows'[a] \notin {Unused, Deleted} /\ rows'[a].key = SeedAgent /\ rows'[a].role = SeedRole
            BY <3>2 DEF Exists, SeedRow
        <3> QED
            BY <3>2, <3>5, <3>6, <3>7
    <2> QED
        BY <1>1, <2>2, <2>3, SeedWrites
<1>2. CatalogInv /\ [Next]_vars
        => [\A s \in Slot : req[s].op = "seed" /\ req'[s] = Idle => Complete(s)]_vars
    <2> SUFFICES ASSUME CatalogInv, Next, NEW s \in Slot, req[s].op = "seed", req'[s] = Idle
                 PROVE  Complete(s)
        OBVIOUS
    <2> QED
        BY <1>1, SeedEnds
<1> QED
    BY <1>2, CatalogInvariant, PTL DEF Spec, SeedAllOrNothing
=============================================================================
