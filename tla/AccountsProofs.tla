--------------------------- MODULE AccountsProofs ---------------------------
(***************************************************************************)
(* Names stay unique, sessions belong to users, a closing leaves no older  *)
(* session open, and administrators are kept, for any number of users,     *)
(* sessions and requests.  Requests check in one step and write in a later *)
(* one; AccountsInv says what each request still knows in between.         *)
(***************************************************************************)
EXTENDS Accounts, FiniteSets, FiniteSetTheorems, TLAPS

\* What an assignment may set: columns of a row, with values of their types.
Assigns(sets) ==
    /\ DOMAIN sets \subseteq {"name", "pass", "legacy", "role"}
    /\ "name" \in DOMAIN sets => sets.name \in Name
    /\ "pass" \in DOMAIN sets => sets.pass \in Password
    /\ "legacy" \in DOMAIN sets => sets.legacy \in BOOLEAN
    /\ "role" \in DOMAIN sets => sets.role \in {"admin", "usuario"}

InsertRequest == [op : {"insert"}, token : BOOLEAN, row : UserRow]
LoginRequest == [op : {"login"}, uid : User, pass : Password, rehash : BOOLEAN,
                 known : 0..MaxRequests]
LogoutRequest == [op : {"logout"}, uid : User, selected : BOOLEAN, seen : SUBSET Token]
DeleteRequest == [op : {"delete"}, uid : User, by : User]

\* Nobody takes the role of administrator from oneself.
UpdateRequest(r) ==
    /\ DOMAIN r = {"op", "uid", "sets", "by", "own", "closes", "flushed", "seen"}
    /\ r.op = "update" /\ r.uid \in User /\ r.by \in User /\ Assigns(r.sets)
    /\ r.own \in SUBSET Token /\ r.seen \in SUBSET Token
    /\ r.closes \in BOOLEAN /\ r.flushed \in BOOLEAN
    /\ r.by = r.uid /\ "role" \in DOMAIN r.sets => r.sets.role = "admin"

RequestOK(r) ==
    \/ r = Idle
    \/ r \in InsertRequest \cup LoginRequest \cup LogoutRequest
    \/ UpdateRequest(r)
    \/ r \in DeleteRequest /\ r.by # r.uid

RowsOK ==
    /\ users \in [User -> UserRow \cup NoRow]
    /\ sessions \in [Token -> SessionRow \cup NoRow]
    /\ \A t \in Token : Opened(t) => Exists(Actor(t))

RequestsOK == DOMAIN req = Slot /\ \A s \in Slot : RequestOK(req[s])

\* Every closing took a request of its own, and every request that is under way
\* may still be one.
Active == {s \in Slot : req[s].op # "idle"}
CountsOK ==
    /\ started \in 0..MaxRequests /\ closings \in [User -> Nat]
    /\ IsFiniteSet(Active)
    /\ \A u \in User : closings[u] + Cardinality(Active) <= started

\* Between its SELECT and its commit, a request that closes the sessions of a
\* user has in hand every one that is open, but for logins that overlap it.
InHand(u, tokens) ==
    \A t \in Token : Authenticated(t) /\ Actor(t) = u /\ ~sessions[t].late => t \in tokens
ClosersSee ==
    \A s \in Slot :
        /\ req[s].op = "logout" /\ req[s].selected => InHand(req[s].uid, req[s].seen)
        /\ req[s].op = "update" /\ req[s].flushed => InHand(req[s].uid, req[s].seen \cup req[s].own)

\* A change of password keeps a session of the user who makes it.
OwnSessions ==
    \A s \in Slot : req[s].op = "update" =>
        \A t \in req[s].own : sessions[t] # Unused /\ (Opened(t) => Actor(t) = req[s].uid)

AccountsInv ==
    RowsOK /\ NamesUnique /\ RequestsOK /\ CountsOK /\ ClosersSee /\ OwnSessions /\ OldSessionsClosed

-----------------------------------------------------------------------------
\* Rows are told from the marks of unused and deleted ones by their columns.
LEMMA RowsAreRows ==
    /\ \A row \in UserRow : row \notin NoRow
    /\ \A row \in SessionRow : row \notin NoRow
<1> QED
    BY DEF UserRow, SessionRow, NoRow, Unused, Deleted

\* _create_user, update_me and update_user write a row with all its columns.
LEMMA WrittenRow ==
    ASSUME NEW row \in UserRow, NEW sets, Assigns(sets)
    PROVE  /\ Written(row, sets) \in UserRow
           /\ Written(row, sets).name = IF "name" \in DOMAIN sets THEN sets.name ELSE row.name
           /\ Written(row, sets).role = IF "role" \in DOMAIN sets THEN sets.role ELSE row.role
<1> QED
    BY DEF Written, UserRow, Assigns

\* The columns that an assignment makes dirty are columns it sets, and the flag
\* of an old hash.
LEMMA DirtyAssigns ==
    ASSUME NEW row \in UserRow, NEW changes, Assigns(changes), "legacy" \notin DOMAIN changes
    PROVE  /\ Assigns(Dirty(row, changes))
           /\ DOMAIN Dirty(row, changes) \subseteq DOMAIN changes \cup {"legacy"}
           /\ "role" \in DOMAIN Dirty(row, changes) => Dirty(row, changes).role = changes.role
<1> QED
    BY DEF Dirty, Assigns

\* A request that is not idle has one of five forms, told by op.
LEMMA RequestForms ==
    ASSUME NEW r, RequestOK(r)
    PROVE  /\ r.op = "insert" => r \in InsertRequest
           /\ r.op = "login" => r \in LoginRequest
           /\ r.op = "logout" => r \in LogoutRequest
           /\ r.op = "update" => UpdateRequest(r)
           /\ r.op = "delete" => r \in DeleteRequest /\ r.by # r.uid
           /\ r.op = "idle" => r = Idle
           /\ r.op \in {"idle", "insert", "login", "logout", "update", "delete"}
<1> QED
    BY DEF RequestOK, InsertRequest, LoginRequest, LogoutRequest, UpdateRequest, DeleteRequest, Idle

LEMMA AccountsInitially == Init => AccountsInv
<1> SUFFICES ASSUME Init PROVE AccountsInv
    OBVIOUS
<1> USE AccountsAssumption DEF Init
<1>1. RowsOK
    <2>1. \A t \in Token : FirstSessions[t] \notin NoRow => FirstSessions[t] \in SessionRow
        OBVIOUS
    <2> QED
        BY <2>1 DEF RowsOK, Opened, Exists, Actor
<1>2. NamesUnique
    BY DEF NamesUnique, Exists
<1>3. RequestsOK
    BY DEF RequestsOK, RequestOK
<1>4. CountsOK
    <2>1. Active = {}
        BY DEF Active, Idle
    <2> QED
        BY <2>1, FS_EmptySet DEF CountsOK
<1>5. ClosersSee /\ OwnSessions
    BY DEF ClosersSee, OwnSessions, Idle
<1>6. OldSessionsClosed
    <2>1. \A t \in Token : FirstSessions[t] \notin NoRow => FirstSessions[t] \in SessionRow
        OBVIOUS
    <2> QED
        BY <2>1 DEF OldSessionsClosed, Authenticated, Opened, Actor, SessionRow
<1> QED
    BY <1>1, <1>2, <1>3, <1>4, <1>5, <1>6 DEF AccountsInv

-----------------------------------------------------------------------------
\* What every step does to the sessions there are: they keep their user and
\* whether they are late, are never opened again, and a new one knows of every
\* closing under way.
Aged(t) ==
    /\ sessions'[t] = Unused => sessions[t] = Unused
    /\ Opened(t)' =>
         \/ /\ Opened(t) /\ sessions'[t].user = sessions[t].user
            /\ sessions'[t].late = sessions[t].late
            /\ sessions'[t].live => sessions[t].live
         \/ sessions[t] = Unused /\ (Closing(sessions'[t].user) => sessions'[t].late)

\* Requests that go on keep what they had in hand.
LEMMA HandsKeep ==
    ASSUME AccountsInv, NEW s \in Slot, DOMAIN req' = Slot,
           \A q \in Slot \ {s} : req'[q] = req[q],
           req'[s].op \notin {"logout", "update"},
           \A t \in Token : Aged(t)
    PROVE  ClosersSee' /\ OwnSessions'
<1> USE DEF AccountsInv, RequestsOK
<1>1. ASSUME NEW q \in Slot, Closing(req[q].uid), q # s, NEW t \in Token,
             Authenticated(t)', Actor(t)' = req[q].uid, ~sessions'[t].late
      PROVE  Authenticated(t) /\ Actor(t) = req[q].uid /\ ~sessions[t].late
    BY <1>1 DEF Aged, Authenticated, Actor
<1>2. ClosersSee'
    <2> SUFFICES ASSUME NEW q \in Slot, q # s, NEW t \in Token,
                        Authenticated(t)', Actor(t)' = req[q].uid, ~sessions'[t].late
                 PROVE  /\ req[q].op = "logout" /\ req[q].selected => t \in req[q].seen
                        /\ req[q].op = "update" /\ req[q].flushed => t \in req[q].seen \cup req[q].own
        BY DEF ClosersSee, InHand
    <2>1. CASE req[q].op = "logout" /\ req[q].selected
        <3>1. Closing(req[q].uid)
            BY <2>1 DEF Closing
        <3> QED
            BY <1>1, <2>1, <3>1 DEF ClosersSee, InHand
    <2>2. CASE req[q].op = "update" /\ req[q].flushed
        <3>1. Closing(req[q].uid)
            BY <2>2 DEF Closing
        <3> QED
            BY <1>1, <2>2, <3>1 DEF ClosersSee, InHand
    <2> QED
        BY <2>1, <2>2
<1>3. OwnSessions'
    <2> SUFFICES ASSUME NEW q \in Slot, q # s, req'[q].op = "update", NEW t \in req'[q].own
                 PROVE  sessions'[t] # Unused /\ (Opened(t)' => Actor(t)' = req'[q].uid)
        BY DEF OwnSessions
    <2>1. req'[q] = req[q] /\ t \in Token
        BY RequestForms DEF UpdateRequest
    <2>2. sessions[t] # Unused /\ (Opened(t) => Actor(t) = req[q].uid)
        BY <2>1 DEF OwnSessions
    <2> QED
        BY <2>1, <2>2 DEF Aged, Actor
<1> QED
    BY <1>2, <1>3

\* A request that ends leaves room for one closing, which may be its own.
LEMMA EndsCounted ==
    ASSUME AccountsInv, NEW s \in Slot, req[s].op # "idle", Close(s),
           closings' \in [User -> Nat],
           \A u \in User : closings'[u] <= closings[u] + 1
    PROVE  CountsOK' /\ RequestsOK'
<1> USE DEF AccountsInv, RequestsOK
<1>1. req' = [req EXCEPT ![s] = Idle] /\ started' = started
    BY DEF Close
<1>2. RequestsOK'
    BY <1>1 DEF RequestOK
<1>3. Active' = Active \ {s} /\ s \in Active
    BY <1>1 DEF Active, Idle
<1>4. IsFiniteSet(Active') /\ Cardinality(Active') = Cardinality(Active) - 1
    BY <1>3, FS_RemoveElement DEF CountsOK
<1>5. Cardinality(Active) \in Nat
    BY FS_CardinalityType DEF CountsOK
<1> QED
    BY <1>1, <1>2, <1>4, <1>5, AccountsAssumption DEF CountsOK

\* A request that begins has checked what it needs and has nothing in hand yet.
LEMMA BeginPreserves ==
    ASSUME AccountsInv, NEW s \in Slot, NEW r, Open(s, r), RequestOK(r), r.op # "idle",
           r.op = "logout" => ~r.selected,
           r.op = "update" => ~r.flushed /\ \A t \in r.own : Opened(t) /\ Actor(t) = r.uid
    PROVE  AccountsInv'
<1> USE DEF AccountsInv, RequestsOK, Open
<1>1. RowsOK' /\ NamesUnique' /\ OldSessionsClosed'
    BY DEF RowsOK, NamesUnique, OldSessionsClosed, Exists, Opened, Actor, Authenticated
<1>2. RequestsOK'
    OBVIOUS
<1>3. CountsOK'
    <2>1. s \notin Active /\ Active' = Active \cup {s}
        BY DEF Active, Idle
    <2>2. IsFiniteSet(Active') /\ Cardinality(Active') = Cardinality(Active) + 1
        BY <2>1, FS_AddElement DEF CountsOK
    <2>3. Cardinality(Active) \in Nat
        BY FS_CardinalityType DEF CountsOK
    <2> QED
        BY <2>2, <2>3, AccountsAssumption DEF CountsOK
<1>4. ClosersSee'
    BY DEF ClosersSee, InHand, Authenticated, Opened, Actor
<1>5. OwnSessions'
    BY DEF OwnSessions, Opened, Actor, NoRow
<1> QED
    BY <1>1, <1>2, <1>3, <1>4, <1>5

LEMMA RegisterPreserves ==
    ASSUME AccountsInv, NEW s \in Slot, NEW n \in Name, NEW p \in Password, Register(s, n, p)
    PROVE  AccountsInv'
<1> DEFINE r == [op |-> "insert", token |-> TRUE,
                 row |-> [name |-> n, pass |-> p, legacy |-> FALSE, role |-> "usuario"]]
<1>1. RequestOK(r)
    BY DEF RequestOK, InsertRequest, UserRow
<1>2. Open(s, r)
    BY DEF Register
<1> QED
    BY <1>1, <1>2, BeginPreserves

LEMMA CreateUserPreserves ==
    ASSUME AccountsInv, NEW s \in Slot, NEW t \in Token, NEW n \in Name, NEW p \in Password,
           NEW role \in {"admin", "usuario"}, CreateUser(s, t, n, p, role)
    PROVE  AccountsInv'
<1> DEFINE r == [op |-> "insert", token |-> FALSE,
                 row |-> [name |-> n, pass |-> p, legacy |-> FALSE, role |-> role]]
<1>1. RequestOK(r)
    BY DEF RequestOK, InsertRequest, UserRow
<1>2. Open(s, r)
    BY DEF CreateUser
<1> QED
    BY <1>1, <1>2, BeginPreserves

\* Rows that exist have their columns, and a valid session leads to one.
LEMMA RowsFound ==
    ASSUME AccountsInv
    PROVE  /\ \A u \in User : Exists(u) => users[u] \in UserRow
           /\ \A t \in Token : Opened(t) => /\ sessions[t] \in SessionRow
                                            /\ Actor(t) \in User /\ Exists(Actor(t))
<1> QED
    BY DEF AccountsInv, RowsOK, Exists, Opened, Actor, SessionRow

LEMMA LoginPreserves ==
    ASSUME AccountsInv, NEW s \in Slot, NEW n \in Name, NEW p \in Password, Login(s, n, p)
    PROVE  AccountsInv'
<1>1. PICK u \in User :
        /\ Exists(u)
        /\ Open(s, [op |-> "login", uid |-> u, pass |-> p,
                     rehash |-> NeedsRehash(users[u]), known |-> closings[u]])
    BY DEF Login
<1> DEFINE r == [op |-> "login", uid |-> u, pass |-> p,
                 rehash |-> NeedsRehash(users[u]), known |-> closings[u]]
<1>2. closings[u] \in 0..MaxRequests
    BY AccountsAssumption, FS_CardinalityType DEF AccountsInv, CountsOK
<1>3. NeedsRehash(users[u]) \in BOOLEAN
    BY <1>1, RowsFound DEF NeedsRehash, UserRow
<1>4. RequestOK(r)
    BY <1>2, <1>3 DEF RequestOK, LoginRequest
<1> QED
    BY <1>1, <1>4, BeginPreserves

LEMMA LogoutPreserves ==
    ASSUME AccountsInv, NEW s \in Slot, NEW t \in Token, Logout(s, t)
    PROVE  AccountsInv'
<1> DEFINE r == [op |-> "logout", uid |-> Actor(t), selected |-> FALSE, seen |-> {}]
<1>1. RequestOK(r)
    BY RowsFound DEF RequestOK, LogoutRequest, Logout, Authenticated
<1>2. Open(s, r)
    BY DEF Logout
<1> QED
    BY <1>1, <1>2, BeginPreserves

LEMMA UpdateMePreserves ==
    ASSUME AccountsInv, NEW s \in Slot, NEW t \in Token, NEW changes \in Profile,
           NEW p \in Password, UpdateMe(s, t, changes, p)
    PROVE  AccountsInv'
<1> DEFINE u == Actor(t)
           r == [op |-> "update", uid |-> u, sets |-> Dirty(users[u], changes), by |-> u,
                 own |-> {t}, closes |-> "pass" \in DOMAIN changes, flushed |-> FALSE, seen |-> {}]
<1>1. Opened(t) /\ u \in User /\ users[u] \in UserRow
    BY RowsFound DEF UpdateMe, Authenticated
<1>2. Assigns(changes) /\ DOMAIN changes \subseteq {"name", "pass"}
    BY DEF Profile, Assigns
<1>3. /\ Assigns(Dirty(users[u], changes))
      /\ "role" \notin DOMAIN Dirty(users[u], changes)
    BY <1>1, <1>2, DirtyAssigns
<1>4. RequestOK(r)
    BY <1>1, <1>3 DEF RequestOK, UpdateRequest
<1>5. Open(s, r)
    BY DEF UpdateMe
<1> QED
    BY <1>1, <1>4, <1>5, BeginPreserves

LEMMA UpdateUserPreserves ==
    ASSUME AccountsInv, NEW s \in Slot, NEW t \in Token, NEW u \in User,
           NEW changes \in Administrative, UpdateUser(s, t, u, changes)
    PROVE  AccountsInv'
<1> DEFINE r == [op |-> "update", uid |-> u, sets |-> Dirty(users[u], changes), by |-> Actor(t),
                 own |-> {}, closes |-> FALSE, flushed |-> FALSE, seen |-> {}]
<1>1. Actor(t) \in User /\ users[u] \in UserRow
    BY RowsFound DEF UpdateUser, AuthenticatedAdmin, Authenticated
<1>2. Assigns(changes) /\ "legacy" \notin DOMAIN changes
    BY DEF Administrative, Assigns
<1>3. /\ Assigns(Dirty(users[u], changes))
      /\ DOMAIN Dirty(users[u], changes) \subseteq DOMAIN changes \cup {"legacy"}
      /\ "role" \in DOMAIN Dirty(users[u], changes) => Dirty(users[u], changes).role = changes.role
    BY <1>1, <1>2, DirtyAssigns
<1>4. Actor(t) = u /\ "role" \in DOMAIN Dirty(users[u], changes)
        => Dirty(users[u], changes).role = "admin"
    BY <1>3 DEF UpdateUser, KeepsOwnRole
<1>5. RequestOK(r)
    BY <1>1, <1>3, <1>4 DEF RequestOK, UpdateRequest
<1>6. Open(s, r)
    BY DEF UpdateUser
<1> QED
    BY <1>5, <1>6, BeginPreserves

LEMMA DeleteUserPreserves ==
    ASSUME AccountsInv, NEW s \in Slot, NEW t \in Token, NEW u \in User, DeleteUser(s, t, u)
    PROVE  AccountsInv'
<1> DEFINE r == [op |-> "delete", uid |-> u, by |-> Actor(t)]
<1>1. RequestOK(r)
    BY RowsFound DEF RequestOK, DeleteRequest, DeleteUser, AuthenticatedAdmin, Authenticated
<1>2. Open(s, r)
    BY DEF DeleteUser
<1> QED
    BY <1>1, <1>2, BeginPreserves

\* A new session is confirmed by the last closing, unless it is late.
LEMMA SessionCreated ==
    ASSUME AccountsInv, NEW u \in User, NEW t \in Token, NEW known \in 0..MaxRequests,
           sessions[t] = Unused, CreateSession(u, t, known)
    PROVE  /\ \A k \in Token : Aged(k)
           /\ sessions' \in [Token -> SessionRow \cup NoRow]
           /\ \A k \in Token \ {t} : sessions'[k] = sessions[k]
           /\ sessions'[t] \in SessionRow /\ sessions'[t].user = u
           /\ ~sessions'[t].late => sessions'[t].opened = closings[u]
<1> USE DEF CreateSession, AccountsInv, RowsOK
<1>1. closings[u] \in Nat /\ known \in Nat /\ Closing(u) \in BOOLEAN
    BY AccountsAssumption DEF CountsOK, Closing
<1>2. sessions'[t] \in SessionRow
    BY <1>1 DEF SessionRow
<1>3. sessions'[t] # Unused
    BY <1>2, RowsAreRows DEF NoRow
<1>4. Aged(t)
    BY <1>3 DEF Aged
<1>5. \A k \in Token \ {t} : Aged(k)
    BY DEF Aged, Opened
<1> QED
    BY <1>1, <1>2, <1>4, <1>5

LEMMA InsertUserPreserves ==
    ASSUME AccountsInv, NEW s \in Slot, InsertUser(s)
    PROVE  AccountsInv'
<1> USE DEF AccountsInv, RowsOK, RequestsOK, InsertUser
<1> DEFINE row == req[s].row
<1>1. req[s] \in InsertRequest /\ row \in UserRow
    BY RequestForms DEF InsertRequest
<1>2. CountsOK' /\ RequestsOK'
    BY EndsCounted DEF CountsOK
<1>3. DOMAIN req' = Slot /\ req'[s] = Idle /\ \A q \in Slot \ {s} : req'[q] = req[q]
    BY DEF Close
<1>4. CASE Duplicates(row.name, {})
    <2>1. \A t \in Token : Aged(t)
        BY <1>4 DEF Aged, Opened
    <2>2. ClosersSee' /\ OwnSessions'
        BY <1>3, <2>1, HandsKeep DEF Idle
    <2> QED
        BY <1>2, <1>4, <2>2 DEF NamesUnique, OldSessionsClosed, Exists, Opened, Actor, Authenticated
<1>5. CASE ~Duplicates(row.name, {})
    <2>1. PICK u \in User : /\ users[u] = Unused /\ users' = [users EXCEPT ![u] = row]
                            /\ IF req[s].token
                               THEN \E t \in {k \in Token : sessions[k] = Unused} : CreateSession(u, t, 0)
                               ELSE UNCHANGED sessions
        BY <1>5
    <2>2. \A v \in User : Exists(v)' <=> v = u \/ Exists(v)
        BY <1>1, <2>1, RowsAreRows DEF Exists
    <2>3. NamesUnique'
        BY <1>1, <1>5, <2>1, <2>2 DEF NamesUnique, Duplicates, Taken, Exists
    <2>4. users' \in [User -> UserRow \cup NoRow]
        BY <1>1, <2>1
    <2>5. CASE UNCHANGED sessions
        <3>1. \A t \in Token : Aged(t)
            BY <2>5 DEF Aged, Opened
        <3>2. ClosersSee' /\ OwnSessions'
            BY <1>3, <3>1, HandsKeep DEF Idle
        <3>3. \A t \in Token : Opened(t)' => Exists(Actor(t))'
            BY <2>2, <2>5, RowsFound DEF Opened, Actor
        <3> QED
            BY <1>2, <2>3, <2>4, <2>5, <3>2, <3>3 DEF OldSessionsClosed, Opened, Actor, Authenticated
    <2>6. CASE \E t \in {k \in Token : sessions[k] = Unused} : CreateSession(u, t, 0)
        <3>1. PICK t \in Token : sessions[t] = Unused /\ CreateSession(u, t, 0)
            BY <2>6
        <3>2. /\ \A k \in Token : Aged(k)
              /\ sessions' \in [Token -> SessionRow \cup NoRow]
              /\ \A k \in Token \ {t} : sessions'[k] = sessions[k]
              /\ sessions'[t] \in SessionRow /\ sessions'[t].user = u
              /\ ~sessions'[t].late => sessions'[t].opened = closings[u]
            BY <3>1, SessionCreated, AccountsAssumption
        <3>3. ClosersSee' /\ OwnSessions'
            BY <1>3, <3>2, HandsKeep DEF Idle
        <3>4. \A k \in Token : Opened(k)' => Exists(Actor(k))'
            BY <2>2, <3>2, RowsFound DEF Opened, Actor
        <3>5. OldSessionsClosed'
            BY <3>2 DEF OldSessionsClosed, Opened, Actor, Authenticated
        <3> QED
            BY <1>2, <2>3, <2>4, <3>2, <3>3, <3>4, <3>5
    <2> QED
        BY <2>1, <2>5, <2>6
<1> QED
    BY <1>4, <1>5

LEMMA LoginRehashPreserves ==
    ASSUME AccountsInv, NEW s \in Slot, LoginRehash(s)
    PROVE  AccountsInv'
<1> USE DEF AccountsInv, RowsOK, RequestsOK
<1> DEFINE u == req[s].uid
           sets == Dirty(users[u], [pass |-> req[s].pass])
<1>1. req[s] \in LoginRequest /\ u \in User
    BY RequestForms DEF LoginRequest, LoginRehash
<1>2. \A t \in Token : Aged(t)
    BY DEF Aged, Opened, LoginRehash
<1>3. OldSessionsClosed'
    BY DEF OldSessionsClosed, Opened, Actor, Authenticated, LoginRehash
<1>4. CASE Exists(u)
    <2>1. Assigns([pass |-> req[s].pass])
        BY <1>1 DEF Assigns, LoginRequest
    <2>2. Assigns(sets) /\ "name" \notin DOMAIN sets
        BY <1>1, <1>4, <2>1, RowsFound, DirtyAssigns
    <2>3. Written(users[u], sets) \in UserRow /\ Written(users[u], sets).name = users[u].name
        BY <1>1, <1>4, <2>2, RowsFound, WrittenRow
    <2>4. /\ users' = [users EXCEPT ![u] = Written(users[u], sets)]
          /\ req' = [req EXCEPT ![s].rehash = FALSE] /\ UNCHANGED <<sessions, started, closings>>
        BY <1>4 DEF LoginRehash
    <2> HIDE DEF u, sets
    <2>5. \A v \in User : /\ Exists(v)' <=> Exists(v)
                          /\ Exists(v) => users'[v].name = users[v].name
        BY <1>1, <1>4, <2>3, <2>4, RowsAreRows DEF Exists
    <2>6. RowsOK' /\ NamesUnique'
        <3>1. users' \in [User -> UserRow \cup NoRow]
            BY <1>1, <2>3, <2>4
        <3>2. NamesUnique'
            BY <2>5 DEF NamesUnique
        <3>3. \A t \in Token : Opened(t)' => Exists(Actor(t))'
            BY <2>4, <2>5, RowsFound DEF Opened, Actor
        <3> QED
            BY <2>4, <3>1, <3>2, <3>3
    <2>7. req'[s] \in LoginRequest /\ req'[s].op = "login"
        BY <1>1, <2>4 DEF LoginRequest
    <2>8. RequestsOK'
        BY <2>4, <2>7 DEF RequestOK
    <2>9. ClosersSee' /\ OwnSessions'
        BY <1>2, <2>4, <2>7, HandsKeep
    <2>10. CountsOK'
        <3>1. Active' = Active
            BY <1>1, <2>4, <2>7 DEF Active, LoginRequest
        <3> QED
            BY <2>4, <3>1 DEF CountsOK
    <2> QED
        BY <1>3, <2>6, <2>8, <2>9, <2>10
<1>5. CASE ~Exists(u)
    <2>1. Close(s) /\ UNCHANGED <<users, sessions, closings>>
        BY <1>5 DEF LoginRehash
    <2>2. CountsOK' /\ RequestsOK'
        BY <1>1, <2>1, EndsCounted DEF CountsOK, LoginRequest
    <2>3. ClosersSee' /\ OwnSessions'
        BY <1>2, <2>1, HandsKeep DEF Close, Idle
    <2> QED
        BY <1>3, <2>1, <2>2, <2>3 DEF NamesUnique, Exists, Opened, Actor
<1> QED
    BY <1>4, <1>5

LEMMA LoginSessionPreserves ==
    ASSUME AccountsInv, NEW s \in Slot, LoginSession(s)
    PROVE  AccountsInv'
<1> USE DEF AccountsInv, RowsOK, RequestsOK, LoginSession
<1> DEFINE u == req[s].uid
<1>1. req[s] \in LoginRequest /\ u \in User /\ req[s].known \in 0..MaxRequests
    BY RequestForms DEF LoginRequest
<1>2. CountsOK' /\ RequestsOK'
    BY EndsCounted DEF CountsOK
<1>3. DOMAIN req' = Slot /\ req'[s] = Idle /\ \A q \in Slot \ {s} : req'[q] = req[q]
    BY DEF Close
<1>4. NamesUnique' /\ \A v \in User : Exists(v)' <=> Exists(v)
    BY DEF NamesUnique, Exists
<1>5. CASE ~Exists(u)
    <2>1. \A t \in Token : Aged(t)
        BY <1>5 DEF Aged, Opened
    <2>2. ClosersSee' /\ OwnSessions'
        BY <1>3, <2>1, HandsKeep DEF Idle
    <2> QED
        BY <1>2, <1>4, <1>5, <2>2 DEF OldSessionsClosed, Exists, Opened, Actor, Authenticated
<1>6. CASE Exists(u)
    <2>1. PICK t \in Token : sessions[t] = Unused /\ CreateSession(u, t, req[s].known)
        BY <1>6
    <2>2. /\ \A k \in Token : Aged(k)
          /\ sessions' \in [Token -> SessionRow \cup NoRow]
          /\ \A k \in Token \ {t} : sessions'[k] = sessions[k]
          /\ sessions'[t] \in SessionRow /\ sessions'[t].user = u
          /\ ~sessions'[t].late => sessions'[t].opened = closings[u]
        BY <1>1, <2>1, SessionCreated
    <2>3. ClosersSee' /\ OwnSessions'
        BY <1>3, <2>2, HandsKeep DEF Idle
    <2>4. \A k \in Token : Opened(k)' => Exists(Actor(k))'
        BY <1>1, <1>4, <1>6, <2>2, RowsFound DEF Opened, Actor
    <2>5. OldSessionsClosed'
        BY <2>2 DEF OldSessionsClosed, Opened, Actor, Authenticated
    <2> QED
        BY <1>2, <1>4, <2>2, <2>3, <2>4, <2>5
<1> QED
    BY <1>5, <1>6

\* The sessions a SELECT finds are all that are open.
LEMMA LogoutSelectPreserves ==
    ASSUME AccountsInv, NEW s \in Slot, LogoutSelect(s)
    PROVE  AccountsInv'
<1> USE DEF AccountsInv, RowsOK, RequestsOK
<1> DEFINE u == req[s].uid
<1>1. req[s] \in LogoutRequest
    BY RequestForms DEF LogoutSelect
<1>2. /\ UNCHANGED <<users, sessions, started, closings>>
      /\ DOMAIN req' = Slot /\ \A q \in Slot \ {s} : req'[q] = req[q]
      /\ req'[s] \in LogoutRequest /\ req'[s].uid = u
      /\ req'[s].seen = SessionsOf(u, {})
    BY <1>1 DEF LogoutSelect, LogoutRequest, SessionsOf
<1>3. req'[s].op = "logout" /\ req[s].op = "logout"
    BY <1>1, <1>2 DEF LogoutRequest
<1>4. RowsOK' /\ NamesUnique' /\ OldSessionsClosed'
    BY <1>2 DEF NamesUnique, OldSessionsClosed, Exists, Opened, Actor, Authenticated
<1>5. RequestsOK'
    BY <1>2 DEF RequestOK
<1>6. CountsOK'
    <2>1. Active' = Active
        BY <1>2, <1>3 DEF Active
    <2> QED
        BY <1>2, <2>1 DEF CountsOK
<1>7. ClosersSee'
    <2> SUFFICES ASSUME NEW q \in Slot, NEW t \in Token,
                        Authenticated(t), Actor(t) = req'[q].uid, ~sessions[t].late
                 PROVE  /\ req'[q].op = "logout" /\ req'[q].selected => t \in req'[q].seen
                        /\ req'[q].op = "update" /\ req'[q].flushed => t \in req'[q].seen \cup req'[q].own
        BY <1>2 DEF ClosersSee, InHand, Authenticated, Opened, Actor
    <2>1. CASE q = s
        BY <1>2, <1>3, <2>1 DEF SessionsOf
    <2>2. CASE q # s
        BY <1>2, <2>2 DEF ClosersSee, InHand
    <2> QED
        BY <2>1, <2>2
<1>8. OwnSessions'
    BY <1>2, <1>3 DEF OwnSessions, Opened, Actor
<1> QED
    BY <1>4, <1>5, <1>6, <1>7, <1>8

\* A closing takes with it whatever is not late: by the time it is counted,
\* nothing of the user that is open is older.
LEMMA LogoutCommitPreserves ==
    ASSUME AccountsInv, NEW s \in Slot, LogoutCommit(s)
    PROVE  AccountsInv'
<1> USE DEF AccountsInv, RowsOK, RequestsOK
<1> DEFINE u == req[s].uid
<1>1. req[s] \in LogoutRequest /\ u \in User
    BY RequestForms DEF LogoutCommit, LogoutRequest
<1>2. Close(s) /\ UNCHANGED users /\ req[s].op = "logout" /\ req[s].selected
    BY DEF LogoutCommit
<1>3. closings' \in [User -> Nat] /\ \A v \in User : closings'[v] = IF v = u THEN closings[v] + 1 ELSE closings[v]
    BY <1>1 DEF LogoutCommit, CountsOK
<1>4. CountsOK' /\ RequestsOK'
    BY <1>2, <1>3, EndsCounted DEF CountsOK
<1>5. \A t \in Token :
        /\ sessions'[t] \in SessionRow \cup NoRow
        /\ Opened(t)' <=> Opened(t)
        /\ ~Opened(t) => sessions'[t] = sessions[t]
        /\ Opened(t) => /\ sessions'[t].user = sessions[t].user
                        /\ sessions'[t].late = sessions[t].late
                        /\ sessions'[t].opened = sessions[t].opened
                        /\ sessions'[t].live = (sessions[t].live /\ t \notin req[s].seen)
    <2> SUFFICES ASSUME NEW t \in Token
                 PROVE  /\ sessions'[t] \in SessionRow \cup NoRow
                        /\ Opened(t)' <=> Opened(t)
                        /\ ~Opened(t) => sessions'[t] = sessions[t]
                        /\ Opened(t) => /\ sessions'[t].user = sessions[t].user
                                        /\ sessions'[t].late = sessions[t].late
                                        /\ sessions'[t].opened = sessions[t].opened
                                        /\ sessions'[t].live = (sessions[t].live /\ t \notin req[s].seen)
        OBVIOUS
    <2>1. sessions'[t] = IF t \in req[s].seen /\ Opened(t)
                         THEN [sessions[t] EXCEPT !.live = FALSE] ELSE sessions[t]
        BY DEF LogoutCommit, Revoked
    <2>2. CASE Opened(t) /\ t \in req[s].seen
        BY <2>1, <2>2, RowsFound, RowsAreRows DEF Opened, SessionRow
    <2>3. CASE ~(Opened(t) /\ t \in req[s].seen)
        <3>1. sessions'[t] = sessions[t]
            BY <2>1, <2>3
        <3>2. Opened(t) => sessions[t].live \in BOOLEAN
            BY RowsFound DEF SessionRow
        <3> QED
            BY <2>3, <3>1, <3>2 DEF Opened
    <2> QED
        BY <2>2, <2>3
<1>6. sessions' \in [Token -> SessionRow \cup NoRow]
    BY <1>5 DEF LogoutCommit, Revoked
<1>7. RowsOK' /\ NamesUnique'
    BY <1>2, <1>5, <1>6 DEF NamesUnique, Exists, Actor
<1>8. \A t \in Token : Aged(t)
    BY <1>5 DEF Aged, Opened, NoRow
<1>9. ClosersSee' /\ OwnSessions'
    BY <1>2, <1>8, HandsKeep DEF Close, Idle
<1>10. OldSessionsClosed'
    <2> SUFFICES ASSUME NEW t \in Token, Opened(t), sessions'[t].live, ~sessions[t].late
                 PROVE  sessions[t].opened = closings'[Actor(t)]
        BY <1>5 DEF OldSessionsClosed, Authenticated, Actor
    <2>1. Authenticated(t) /\ t \notin req[s].seen
        BY <1>5 DEF Authenticated
    <2>2. Actor(t) # u
        BY <1>2, <2>1 DEF ClosersSee, InHand
    <2> QED
        BY <1>3, <2>1, <2>2, RowsFound DEF OldSessionsClosed, Authenticated
<1> QED
    BY <1>4, <1>7, <1>9, <1>10

LEMMA FlushAndSelectPreserves ==
    ASSUME AccountsInv, NEW s \in Slot, FlushAndSelect(s)
    PROVE  AccountsInv'
<1> USE DEF AccountsInv, RowsOK, RequestsOK
<1> DEFINE u == req[s].uid
           found == SessionsOf(u, req[s].own)
<1>1. UpdateRequest(req[s]) /\ req[s].op = "update" /\ UNCHANGED <<users, sessions, closings>>
    BY RequestForms DEF FlushAndSelect
<1>2. RowsOK' /\ NamesUnique' /\ OldSessionsClosed'
    BY <1>1 DEF NamesUnique, OldSessionsClosed, Exists, Opened, Actor, Authenticated
<1>3. CASE Close(s)
    <2>1. CountsOK' /\ RequestsOK'
        BY <1>1, <1>3, EndsCounted DEF CountsOK
    <2>2. \A t \in Token : Aged(t)
        BY <1>1 DEF Aged, Opened
    <2>3. ClosersSee' /\ OwnSessions'
        BY <1>3, <2>2, HandsKeep DEF Close, Idle
    <2> QED
        BY <1>2, <2>1, <2>3
<1>4. CASE UNCHANGED started /\ req' = [req EXCEPT ![s].flushed = TRUE, ![s].seen = found]
    <2>1. found \subseteq Token
        BY DEF SessionsOf
    <2>2. /\ DOMAIN req' = Slot /\ \A q \in Slot \ {s} : req'[q] = req[q]
          /\ UpdateRequest(req'[s]) /\ req'[s].op = "update" /\ req'[s].uid = u
          /\ req'[s].own = req[s].own /\ req'[s].seen = found
        <3> HIDE DEF found
        <3> QED
            BY <1>1, <1>4, <2>1 DEF UpdateRequest
    <2>3. RequestsOK'
        BY <2>2 DEF RequestOK
    <2>4. CountsOK'
        <3>1. Active' = Active
            BY <1>1, <2>2 DEF Active
        <3> QED
            BY <1>1, <1>4, <3>1 DEF CountsOK
    <2>5. ClosersSee'
        <3> SUFFICES ASSUME NEW q \in Slot, NEW t \in Token,
                            Authenticated(t), Actor(t) = req'[q].uid, ~sessions[t].late
                     PROVE  /\ req'[q].op = "logout" /\ req'[q].selected => t \in req'[q].seen
                            /\ req'[q].op = "update" /\ req'[q].flushed
                                  => t \in req'[q].seen \cup req'[q].own
            BY <1>1 DEF ClosersSee, InHand, Authenticated, Opened, Actor
        <3>1. CASE q = s
            BY <2>2, <3>1 DEF SessionsOf
        <3>2. CASE q # s
            BY <2>2, <3>2 DEF ClosersSee, InHand
        <3> QED
            BY <3>1, <3>2
    <2>6. OwnSessions'
        BY <1>1, <2>2 DEF OwnSessions, Opened, Actor
    <2> QED
        BY <1>2, <2>3, <2>4, <2>5, <2>6
<1> QED
    BY <1>3, <1>4 DEF FlushAndSelect

\* What UpdateCommit does to a session: a closing takes the ones it found, and
\* confirms the one that asked for it.
LEMMA UpdateCommitPreserves ==
    ASSUME AccountsInv, NEW s \in Slot, UpdateCommit(s)
    PROVE  AccountsInv'
<1> USE DEF AccountsInv, RowsOK, RequestsOK
<1> DEFINE u == req[s].uid
           sets == req[s].sets
           own == req[s].own
           seen == req[s].seen
<1>1. UpdateRequest(req[s]) /\ req[s].op = "update" /\ req[s].closes = req[s].flushed /\ Close(s)
    BY RequestForms DEF UpdateCommit
<1>2. u \in User /\ Assigns(sets) /\ own \subseteq Token /\ seen \subseteq Token
      /\ req[s].closes \in BOOLEAN
    BY <1>1 DEF UpdateRequest
<1>3. CASE UNCHANGED <<users, sessions, closings>>
    <2>1. CountsOK' /\ RequestsOK'
        BY <1>1, <1>3, EndsCounted DEF CountsOK
    <2>2. \A t \in Token : Aged(t)
        BY <1>3 DEF Aged, Opened
    <2>3. ClosersSee' /\ OwnSessions'
        BY <1>1, <2>2, HandsKeep DEF Close, Idle
    <2> QED
        BY <1>3, <2>1, <2>3 DEF NamesUnique, OldSessionsClosed, Exists, Opened, Actor, Authenticated
<1>4. CASE /\ Exists(u) /\ ("name" \in DOMAIN sets => ~Duplicates(sets.name, {u}))
           /\ users' = [users EXCEPT ![u] = Written(users[u], sets)]
           /\ sessions' = [t \in Token |->
                IF t \in own /\ req[s].closes /\ Opened(t)
                THEN [sessions[t] EXCEPT !.opened = closings[u] + 1]
                ELSE Revoked(seen)[t]]
           /\ closings' = IF req[s].closes THEN [closings EXCEPT ![u] = @ + 1] ELSE closings
    <2> HIDE DEF u, sets, own, seen
    <2>1. /\ Written(users[u], sets) \in UserRow
          /\ Written(users[u], sets).name = IF "name" \in DOMAIN sets THEN sets.name ELSE users[u].name
        BY <1>2, <1>4, RowsFound, WrittenRow
    <2>2. \A v \in User : Exists(v)' <=> Exists(v)
        BY <1>2, <1>4, <2>1, RowsAreRows DEF Exists
    <2>3. users' \in [User -> UserRow \cup NoRow]
        BY <1>2, <1>4, <2>1
    <2>4. NamesUnique'
        <3> SUFFICES ASSUME NEW v \in User, NEW w \in User, Exists(v), Exists(w), v # w,
                            users'[v].name = users'[w].name
                     PROVE  FALSE
            BY <2>2 DEF NamesUnique
        <3>1. v # u /\ w # u => users[v].name = users[w].name
            BY <1>4
        <3>2. \A x, y \in User : x = u /\ y # u /\ Exists(y) => users'[x].name # users'[y].name
            <4> SUFFICES ASSUME NEW y \in User, y # u, Exists(y)
                         PROVE  users'[u].name # users'[y].name
                BY <1>2
            <4>1. users'[u].name = Written(users[u], sets).name /\ users'[y] = users[y]
                BY <1>2, <1>4
            <4>2. CASE "name" \in DOMAIN sets
                BY <1>4, <2>1, <4>1, <4>2 DEF Duplicates, Taken
            <4>3. CASE "name" \notin DOMAIN sets
                BY <1>2, <1>4, <2>1, <4>1, <4>3 DEF NamesUnique
            <4> QED
                BY <4>2, <4>3
        <3> QED
            BY <3>1, <3>2 DEF NamesUnique
    <2>5. closings' \in [User -> Nat] /\ \A v \in User :
            closings'[v] = IF v = u /\ req[s].closes THEN closings[v] + 1 ELSE closings[v]
        BY <1>2, <1>4 DEF CountsOK
    <2>6. CountsOK' /\ RequestsOK'
        BY <1>1, <2>5, EndsCounted DEF CountsOK
    <2>7. closings[u] + 1 \in 0..MaxRequests
        <3>1. s \in Active
            BY <1>1 DEF Active
        <3>2. Cardinality(Active) \in Nat /\ Cardinality(Active) # 0
            BY <3>1, FS_CardinalityType, FS_EmptySet DEF CountsOK
        <3>3. /\ closings[u] \in Nat /\ closings[u] + Cardinality(Active) <= started
              /\ started \in 0..MaxRequests
            BY <1>2 DEF CountsOK
        <3>4. MaxRequests \in Nat
            BY AccountsAssumption
        <3>5. \A c, n, k, m \in Nat : n # 0 /\ c + n <= k /\ k <= m => c + 1 \in 0..m
            OBVIOUS
        <3>6. started \in Nat /\ started <= MaxRequests
            BY <3>3, <3>4
        <3> QED
            BY <3>2, <3>3, <3>4, <3>5, <3>6
    <2>8. \A t \in Token :
            /\ sessions'[t] \in SessionRow \cup NoRow
            /\ Opened(t)' <=> Opened(t)
            /\ ~Opened(t) => sessions'[t] = sessions[t]
            /\ Opened(t) => /\ sessions'[t].user = sessions[t].user
                            /\ sessions'[t].late = sessions[t].late
                            /\ IF t \in own /\ req[s].closes
                               THEN /\ sessions'[t].opened = closings[u] + 1
                                    /\ sessions'[t].live = sessions[t].live
                               ELSE /\ sessions'[t].opened = sessions[t].opened
                                    /\ sessions'[t].live = (sessions[t].live /\ t \notin seen)
        <3> SUFFICES ASSUME NEW t \in Token
                     PROVE  /\ sessions'[t] \in SessionRow \cup NoRow
                            /\ Opened(t)' <=> Opened(t)
                            /\ ~Opened(t) => sessions'[t] = sessions[t]
                            /\ Opened(t) => /\ sessions'[t].user = sessions[t].user
                                            /\ sessions'[t].late = sessions[t].late
                                            /\ IF t \in own /\ req[s].closes
                                               THEN /\ sessions'[t].opened = closings[u] + 1
                                                    /\ sessions'[t].live = sessions[t].live
                                               ELSE /\ sessions'[t].opened = sessions[t].opened
                                                    /\ sessions'[t].live = (sessions[t].live /\ t \notin seen)
            OBVIOUS
        <3>1. CASE t \in own /\ req[s].closes /\ Opened(t)
            <4>1. sessions'[t] = [sessions[t] EXCEPT !.opened = closings[u] + 1]
                BY <1>4, <3>1
            <4> QED
                BY <2>7, <3>1, <4>1, RowsFound, RowsAreRows DEF Opened, SessionRow
        <3>2. CASE ~(t \in own /\ req[s].closes) /\ t \in seen /\ Opened(t)
            <4>1. sessions'[t] = [sessions[t] EXCEPT !.live = FALSE]
                BY <1>4, <3>2 DEF Revoked
            <4> QED
                BY <3>2, <4>1, RowsFound, RowsAreRows DEF Opened, SessionRow
        <3>3. CASE (~(t \in own /\ req[s].closes) /\ t \notin seen) \/ ~Opened(t)
            <4>1. sessions'[t] = sessions[t]
                BY <1>4, <3>3 DEF Revoked
            <4>2. Opened(t) => sessions[t].live \in BOOLEAN
                BY RowsFound DEF SessionRow
            <4> QED
                BY <3>3, <4>1, <4>2 DEF Opened
        <3> QED
            BY <3>1, <3>2, <3>3
    <2>9. sessions' \in [Token -> SessionRow \cup NoRow]
        BY <1>4, <2>8
    <2>10. \A t \in Token : Opened(t)' => Exists(Actor(t))'
        BY <2>2, <2>8, RowsFound DEF Actor
    <2>11. \A t \in Token : Aged(t)
        BY <2>8 DEF Aged, Opened, NoRow
    <2>12. ClosersSee' /\ OwnSessions'
        BY <1>1, <2>11, HandsKeep DEF Close, Idle
    <2>13. OldSessionsClosed'
        <3> SUFFICES ASSUME NEW t \in Token, Opened(t), sessions'[t].live, ~sessions[t].late
                     PROVE  sessions'[t].opened = closings'[Actor(t)]
            BY <2>8 DEF OldSessionsClosed, Authenticated, Actor
        <3>1. Actor(t) \in User
            BY RowsFound
        <3>2. CASE t \in own /\ req[s].closes
            <4>1. Actor(t) = u
                BY <1>1, <3>2 DEF OwnSessions, u, own
            <4> QED
                BY <2>5, <2>8, <3>1, <3>2, <4>1
        <3>3. CASE ~(t \in own /\ req[s].closes)
            <4>1. Authenticated(t) /\ t \notin seen
                BY <2>8, <3>3 DEF Authenticated
            <4>2. ~(Actor(t) = u /\ req[s].closes)
                BY <1>1, <3>3, <4>1 DEF ClosersSee, InHand, u, own, seen
            <4> QED
                BY <2>5, <2>8, <3>1, <3>3, <4>1, <4>2 DEF OldSessionsClosed
        <3> QED
            BY <3>2, <3>3
    <2> QED
        BY <2>3, <2>4, <2>6, <2>9, <2>10, <2>12, <2>13
<1> QED
    BY <1>3, <1>4 DEF UpdateCommit

\* The cascade leaves no session of the user that is deleted.
LEMMA DeleteCommitPreserves ==
    ASSUME AccountsInv, NEW s \in Slot, DeleteCommit(s)
    PROVE  AccountsInv'
<1> USE DEF AccountsInv, RowsOK, RequestsOK
<1> DEFINE u == req[s].uid
<1>1. u \in User /\ req[s].op = "delete"
    BY RequestForms DEF DeleteCommit, DeleteRequest
<1>2. CountsOK' /\ RequestsOK'
    BY <1>1, EndsCounted DEF DeleteCommit, CountsOK
<1>3. users' = [users EXCEPT ![u] = Deleted] /\ sessions' = Cascade(u)
    BY DEF DeleteCommit
<1>4. \A v \in User : Exists(v)' <=> Exists(v) /\ v # u
    BY <1>1, <1>3 DEF Exists, NoRow
<1>5. \A t \in Token : IF Opened(t) /\ Actor(t) = u THEN sessions'[t] = Deleted
                       ELSE sessions'[t] = sessions[t]
    BY <1>3 DEF Cascade
<1>6. \A t \in Token : /\ Opened(t)' <=> Opened(t) /\ Actor(t) # u
                       /\ Opened(t)' => sessions'[t] = sessions[t]
    BY <1>5 DEF Opened, NoRow
<1>7. RowsOK'
    <2>1. users' \in [User -> UserRow \cup NoRow] /\ sessions' \in [Token -> SessionRow \cup NoRow]
        BY <1>1, <1>3 DEF Cascade, NoRow
    <2>2. \A t \in Token : Opened(t)' => Exists(Actor(t))'
        BY <1>4, <1>6, RowsFound DEF Actor
    <2> QED
        BY <2>1, <2>2
<1>8. NamesUnique'
    BY <1>1, <1>3, <1>4 DEF NamesUnique
<1>9. \A t \in Token : Aged(t)
    BY <1>5, <1>6 DEF Aged, NoRow, Deleted, Unused
<1>10. ClosersSee' /\ OwnSessions'
    BY <1>9, HandsKeep DEF DeleteCommit, Close, Idle
<1>11. OldSessionsClosed'
    BY <1>6 DEF OldSessionsClosed, Authenticated, Actor, DeleteCommit
<1> QED
    BY <1>2, <1>7, <1>8, <1>10, <1>11

-----------------------------------------------------------------------------
LEMMA AccountsPreserved == AccountsInv /\ [Next]_vars => AccountsInv'
<1> SUFFICES ASSUME AccountsInv, [Next]_vars PROVE AccountsInv'
    OBVIOUS
<1>1. CASE UNCHANGED vars
    BY <1>1 DEF vars, AccountsInv, RowsOK, NamesUnique, RequestsOK, CountsOK, Active, ClosersSee, InHand,
        OwnSessions, OldSessionsClosed, Exists, Opened, Actor, Authenticated
<1>2. CASE Next
    <2>1. PICK s \in Slot :
            \/ \E n \in Name, p \in Password : Register(s, n, p) \/ Login(s, n, p)
            \/ InsertUser(s) \/ LoginRehash(s) \/ LoginSession(s)
            \/ LogoutSelect(s) \/ LogoutCommit(s)
            \/ FlushAndSelect(s) \/ UpdateCommit(s) \/ DeleteCommit(s)
            \/ \E t \in Token :
                 \/ Logout(s, t)
                 \/ \E c \in Profile, p \in Password : UpdateMe(s, t, c, p)
                 \/ \E n \in Name, p \in Password, r \in {"admin", "usuario"} : CreateUser(s, t, n, p, r)
                 \/ \E u \in User : DeleteUser(s, t, u) \/ \E c \in Administrative : UpdateUser(s, t, u, c)
        BY <1>2 DEF Next
    <2>2. ASSUME NEW n \in Name, NEW p \in Password, Register(s, n, p) \/ Login(s, n, p)
          PROVE  AccountsInv'
        BY <2>2, RegisterPreserves, LoginPreserves
    <2>3. InsertUser(s) => AccountsInv'
        BY InsertUserPreserves
    <2>4. LoginRehash(s) => AccountsInv'
        BY LoginRehashPreserves
    <2>5. LoginSession(s) => AccountsInv'
        BY LoginSessionPreserves
    <2>6. LogoutSelect(s) => AccountsInv'
        BY LogoutSelectPreserves
    <2>7. LogoutCommit(s) => AccountsInv'
        BY LogoutCommitPreserves
    <2>8. FlushAndSelect(s) => AccountsInv'
        BY FlushAndSelectPreserves
    <2>9. UpdateCommit(s) => AccountsInv'
        BY UpdateCommitPreserves
    <2>10. DeleteCommit(s) => AccountsInv'
        BY DeleteCommitPreserves
    <2>11. ASSUME NEW t \in Token, Logout(s, t) PROVE AccountsInv'
        BY <2>11, LogoutPreserves
    <2>12. ASSUME NEW t \in Token, NEW c \in Profile, NEW p \in Password, UpdateMe(s, t, c, p)
           PROVE  AccountsInv'
        BY <2>12, UpdateMePreserves
    <2>13. ASSUME NEW t \in Token, NEW n \in Name, NEW p \in Password,
                  NEW r \in {"admin", "usuario"}, CreateUser(s, t, n, p, r)
           PROVE  AccountsInv'
        BY <2>13, CreateUserPreserves
    <2>14. ASSUME NEW t \in Token, NEW u \in User, DeleteUser(s, t, u) PROVE AccountsInv'
        BY <2>14, DeleteUserPreserves
    <2>15. ASSUME NEW t \in Token, NEW u \in User, NEW c \in Administrative, UpdateUser(s, t, u, c)
           PROVE  AccountsInv'
        BY <2>15, UpdateUserPreserves
    <2> QED
        BY <2>1, <2>2, <2>3, <2>4, <2>5, <2>6, <2>7, <2>8, <2>9, <2>10, <2>11, <2>12, <2>13, <2>14, <2>15
<1> QED
    BY <1>1, <1>2

THEOREM AccountsInvariant == Spec => []AccountsInv
<1> QED
    BY AccountsInitially, AccountsPreserved, PTL DEF Spec

LEMMA InvTypes == AccountsInv => AccountsTypeOK
<1> SUFFICES ASSUME AccountsInv PROVE AccountsTypeOK
    OBVIOUS
<1> USE DEF AccountsInv
<1>1. \A u \in User : closings[u] \in 0..MaxRequests
    <2>1. Cardinality(Active) \in Nat
        BY FS_CardinalityType DEF CountsOK
    <2>2. started <= MaxRequests /\ started \in Nat /\ MaxRequests \in Nat /\ closings \in [User -> Nat]
        BY AccountsAssumption DEF CountsOK
    <2> SUFFICES ASSUME NEW u \in User PROVE closings[u] \in 0..MaxRequests
        OBVIOUS
    <2>3. closings[u] + Cardinality(Active) <= started /\ closings[u] \in Nat
        BY <2>2 DEF CountsOK
    <2> QED
        BY <2>1, <2>2, <2>3
<1>2. closings \in [User -> 0..MaxRequests]
    BY <1>1 DEF CountsOK
<1>3. \A s \in Slot : req[s].op \in {"idle", "insert", "login", "logout", "update", "delete"}
    BY RequestForms DEF RequestsOK
<1> QED
    BY <1>2, <1>3 DEF AccountsTypeOK, RowsOK, RequestsOK, CountsOK

\* No two users have one name and no session is without its user, for any
\* number of users, sessions and overlapping requests: the unique indexes and
\* ON DELETE CASCADE decide what the checks of the handlers read too early
\* (_ensure_unique, register, update_me, delete_user).
THEOREM AccountsTypeCorrect == Spec => []AccountsTypeOK
<1> QED
    BY AccountsInvariant, InvTypes, PTL

\* A logout and a new password close every session of the user that was open
\* (logout, update_me), but for the one that asks and logins that overlap.
THEOREM ClosingsComplete == Spec => []OldSessionsClosed
<1>1. AccountsInv => OldSessionsClosed
    BY DEF AccountsInv
<1> QED
    BY <1>1, AccountsInvariant, PTL

\* Only commits of an update or a deletion take the role away, and never the
\* author's own.
LEMMA RoleTaken ==
    ASSUME AccountsInv, Next, HasAdmin, ~HasAdmin'
    PROVE  \E s \in Slot : /\ req[s].op \in {"update", "delete"} /\ req'[s] = Idle
                           /\ ~IsAdmin(req[s].by)
<1> USE DEF AccountsInv, RowsOK, RequestsOK
<1>1. PICK a \in User : IsAdmin(a)
    BY DEF HasAdmin, IsAdmin
<1>2. \A v \in User : ~IsAdmin(v)'
    BY DEF HasAdmin, IsAdmin
<1>3. users'[a] # users[a]
    BY <1>1, <1>2 DEF IsAdmin, Exists
<1>4. ASSUME NEW s \in Slot, InsertUser(s) PROVE FALSE
    BY <1>1, <1>3, <1>4 DEF InsertUser, IsAdmin, Exists, NoRow
<1>5. ASSUME NEW s \in Slot, LoginRehash(s) PROVE FALSE
    <2> DEFINE u == req[s].uid
               sets == Dirty(users[u], [pass |-> req[s].pass])
    <2>1. u \in User /\ req[s].pass \in Password
        BY <1>5, RequestForms DEF LoginRequest, LoginRehash
    <2>2. Exists(u) /\ users' = [users EXCEPT ![u] = Written(users[u], sets)]
        BY <1>3, <1>5 DEF LoginRehash
    <2>3. Assigns([pass |-> req[s].pass])
        BY <2>1 DEF Assigns
    <2>4. Assigns(sets) /\ "role" \notin DOMAIN sets
        BY <2>1, <2>2, <2>3, RowsFound, DirtyAssigns
    <2>5. Written(users[u], sets) \in UserRow /\ Written(users[u], sets).role = users[u].role
        BY <2>1, <2>2, <2>4, RowsFound, WrittenRow
    <2> HIDE DEF u, sets
    <2>6. a = u /\ users'[u] = Written(users[u], sets)
        BY <1>3, <2>1, <2>2
    <2> QED
        BY <1>1, <1>2, <2>5, <2>6, RowsAreRows DEF IsAdmin, Exists
<1>6. ASSUME NEW s \in Slot, UpdateCommit(s) PROVE req'[s] = Idle /\ ~IsAdmin(req[s].by)
    <2> DEFINE u == req[s].uid
               sets == req[s].sets
    <2>1. UpdateRequest(req[s]) /\ u \in User /\ Assigns(sets)
        BY <1>6, RequestForms DEF UpdateCommit, UpdateRequest
    <2>2. Exists(u) /\ users' = [users EXCEPT ![u] = Written(users[u], sets)]
        BY <1>3, <1>6 DEF UpdateCommit
    <2>3. Written(users[u], sets) \in UserRow
          /\ Written(users[u], sets).role = IF "role" \in DOMAIN sets THEN sets.role ELSE users[u].role
        BY <2>1, <2>2, RowsFound, WrittenRow
    <2>4. req'[s] = Idle
        BY <1>6 DEF UpdateCommit, Close
    <2>5. req[s].by = u /\ "role" \in DOMAIN sets => sets.role = "admin"
        BY <2>1 DEF UpdateRequest
    <2>6. SUFFICES ASSUME IsAdmin(req[s].by) PROVE FALSE
        BY <2>4
    <2>7. req[s].by \in User
        BY <2>1 DEF UpdateRequest
    <2> HIDE DEF u, sets
    <2>8. req[s].by = u
        BY <1>2, <2>2, <2>6, <2>7 DEF IsAdmin, Exists
    <2>9. users'[u] = Written(users[u], sets)
        BY <2>1, <2>2
    <2> QED
        BY <1>2, <2>1, <2>3, <2>5, <2>6, <2>8, <2>9, RowsAreRows DEF IsAdmin, Exists
<1>7. ASSUME NEW s \in Slot, DeleteCommit(s)
      PROVE  /\ req[s].op = "delete" /\ req'[s] = Idle
             /\ ~IsAdmin(req[s].by)
    <2>1. req[s].by \in User /\ req[s].by # req[s].uid /\ req[s].op = "delete"
        BY <1>7, RequestForms DEF DeleteCommit, DeleteRequest
    <2>2. users' = [users EXCEPT ![req[s].uid] = Deleted] /\ req'[s] = Idle
        BY <1>7 DEF DeleteCommit, Close
    <2> QED
        BY <1>2, <2>1, <2>2 DEF IsAdmin, Exists
<1>8. PICK s \in Slot : InsertUser(s) \/ LoginRehash(s) \/ UpdateCommit(s) \/ DeleteCommit(s)
    <2>1. \A s \in Slot, n \in Name, p \in Password :
            Register(s, n, p) \/ Login(s, n, p) => users' = users
        BY DEF Register, Login, Open
    <2>2. \A s \in Slot : LoginSession(s) \/ LogoutSelect(s) \/ LogoutCommit(s) \/ FlushAndSelect(s)
            => users' = users
        BY DEF LoginSession, LogoutSelect, LogoutCommit, FlushAndSelect
    <2>3. \A s \in Slot, t \in Token : Logout(s, t) => users' = users
        BY DEF Logout, Open
    <2>4. \A s \in Slot, t \in Token, c \in Profile, p \in Password :
            UpdateMe(s, t, c, p) => users' = users
        BY DEF UpdateMe, Open
    <2>5. \A s \in Slot, t \in Token, n \in Name, p \in Password, r \in {"admin", "usuario"} :
            CreateUser(s, t, n, p, r) => users' = users
        BY DEF CreateUser, Open
    <2>6. \A s \in Slot, t \in Token, u \in User :
            /\ DeleteUser(s, t, u) => users' = users
            /\ \A c \in Administrative : UpdateUser(s, t, u, c) => users' = users
        BY DEF DeleteUser, UpdateUser, Open
    <2>7. users' # users
        BY <1>3
    <2> QED
        BY <2>1, <2>2, <2>3, <2>4, <2>5, <2>6, <2>7 DEF Next
<1> QED
    BY <1>4, <1>5, <1>6, <1>7, <1>8 DEF UpdateCommit

\* cannot_modify_self (update_user, delete_user) keeps the last administrator
\* unless the author of a change has lost the role while the request was under way.
THEOREM AdminKept == Spec => AdminLostOnlyByOverlap
<1>1. AccountsInv /\ [Next]_vars =>
        [HasAdmin /\ ~HasAdmin' =>
            \E s \in Slot : /\ req[s].op \in {"update", "delete"} /\ req'[s] = Idle
                            /\ ~IsAdmin(req[s].by)]_vars
    BY RoleTaken
<1> QED
    BY <1>1, AccountsInvariant, PTL DEF Spec, AdminLostOnlyByOverlap
=============================================================================
