------------------------------ MODULE Accounts ------------------------------
(***************************************************************************)
(* Users, their sessions and the requests that change them: sign-up, login *)
(* and profile (api/v1/auth.py), user administration (api/v1/users.py) and *)
(* the dependencies that authenticate a request (api/deps.py).             *)
(*                                                                         *)
(* A request reads and checks in its first step and commits in a later     *)
(* one; requests of several processes interleave between the two.  A check *)
(* that fails answers the request and changes nothing, so it is a step     *)
(* that is not taken.  One name stands for username and e-mail.            *)
(***************************************************************************)
EXTENDS Naturals

CONSTANTS
    User,           \* ids of users, never used twice
    Name, Password,
    Token,          \* session tokens, never issued twice
    Slot,           \* requests that may be under way at once
    MaxRequests,    \* bound on the number of requests of a behaviour
    Weak,           \* pairs <<password, name>> that the policy refuses
    FirstUsers, FirstSessions   \* the rows of the initial state

VARIABLES
    users,      \* users[u]: the row, Unused or Deleted
    sessions,   \* sessions[t]: the row, Unused or Deleted
    req,        \* req[s]: what the request holds between its steps
    started,    \* number of requests so far
    closings    \* history: how often the sessions of u were closed at once

vars == <<users, sessions, req, started, closings>>

Unused == [row |-> "unused"]
Deleted == [row |-> "deleted"]
NoRow == {Unused, Deleted}
UserRow == [name : Name, pass : Password, legacy : BOOLEAN, role : {"admin", "usuario"}]

\* opened counts the closings known to the login that opened the session;
\* late: it was inserted while, or after, a closing it did not know of.
SessionRow == [user : User, live : BOOLEAN, opened : 0..MaxRequests, late : BOOLEAN]

\* The initial rows satisfy the unique index and the foreign key.
ASSUME AccountsAssumption ==
    /\ MaxRequests \in Nat
    /\ FirstUsers \in [User -> UserRow \cup NoRow]
    /\ FirstSessions \in [Token -> SessionRow \cup NoRow]
    /\ \A u, v \in User : FirstUsers[u] \notin NoRow /\ FirstUsers[v] \notin NoRow
                           /\ FirstUsers[u].name = FirstUsers[v].name => u = v
    /\ \A t \in Token : FirstSessions[t] \notin NoRow =>
          FirstUsers[FirstSessions[t].user] \notin NoRow /\ FirstSessions[t].opened = 0

Idle == [op |-> "idle"]
Exists(u) == users[u] \notin NoRow
Opened(t) == sessions[t] \notin NoRow

Verifies(row, p) == row.pass = p
NeedsRehash(row) == row.legacy

\* The user a request with cookie t is made by, if the session is valid.
Authenticated(t) == Opened(t) /\ sessions[t].live
Actor(t) == sessions[t].user
AuthenticatedAdmin(t) == Authenticated(t) /\ users[Actor(t)].role = "admin"

Taken(n, exclude) == \E u \in User \ exclude : Exists(u) /\ users[u].name = n

\* The unique indexes of the table users, which decide at the commit.
Duplicates(n, exclude) == Taken(n, exclude)

\* update_me flushes the row before it selects the sessions to close, and so
\* holds the lock of the row until it commits.
Locked(u) == \E s \in Slot : req[s].op = "update" /\ req[s].uid = u /\ req[s].flushed
Closing(u) == \E s \in Slot : \/ req[s].op = "logout" /\ req[s].uid = u /\ req[s].selected
                              \/ req[s].op = "update" /\ req[s].uid = u /\ req[s].flushed
\* A name that an open transaction has already written makes others wait.
NameWaits(s, n) == \E q \in Slot \ {s} : /\ req[q].op = "update" /\ req[q].flushed
                                         /\ "name" \in DOMAIN req[q].sets
                                         /\ req[q].sets.name = n

\* The columns an assignment makes dirty: a new hash always, the others when
\* the value differs from the one that was loaded.
Dirty(row, changes) ==
    LET columns == {c \in DOMAIN changes : c = "pass" \/ changes[c] # row[c]}
        hash == IF "pass" \in columns THEN {"legacy"} ELSE {}
    IN  [c \in columns \cup hash |-> IF c \in hash THEN FALSE ELSE changes[c]]
Written(row, sets) == [c \in DOMAIN row |-> IF c \in DOMAIN sets THEN sets[c] ELSE row[c]]

Open(s, r) ==
    /\ req[s] = Idle /\ started < MaxRequests
    /\ req' = [req EXCEPT ![s] = r] /\ started' = started + 1
    /\ UNCHANGED <<users, sessions, closings>>
Close(s) == req' = [req EXCEPT ![s] = Idle] /\ UNCHANGED started

Init ==
    /\ users = FirstUsers /\ sessions = FirstSessions
    /\ req = [s \in Slot |-> Idle] /\ started = 0
    /\ closings = [u \in User |-> 0]

\* ---- auth.py ----------------------------------------------------------

Register(s, n, p) ==
    /\ <<p, n>> \notin Weak /\ ~Taken(n, {})
    /\ Open(s, [op |-> "insert", token |-> TRUE,
                row |-> [name |-> n, pass |-> p, legacy |-> FALSE, role |-> "usuario"]])

CreateSession(u, t, known) ==
    sessions' = [sessions EXCEPT ![t] =
        [user |-> u, live |-> TRUE, opened |-> known,
         late |-> known # closings[u] \/ Closing(u)]]

\* The INSERT of register and of create_user: the unique index decides.
InsertUser(s) ==
    /\ req[s].op = "insert" /\ ~NameWaits(s, req[s].row.name)
    /\ IF Duplicates(req[s].row.name, {}) THEN UNCHANGED <<users, sessions>>
       ELSE \E u \in {v \in User : users[v] = Unused} :
              /\ users' = [users EXCEPT ![u] = req[s].row]
              /\ IF req[s].token
                 THEN \E t \in {k \in Token : sessions[k] = Unused} : CreateSession(u, t, 0)
                 ELSE UNCHANGED sessions
    /\ Close(s) /\ UNCHANGED closings

Login(s, n, p) ==
    \E u \in User :
      /\ Exists(u) /\ users[u].name = n /\ Verifies(users[u], p)
      /\ Open(s, [op |-> "login", uid |-> u, pass |-> p,
                  rehash |-> NeedsRehash(users[u]), known |-> closings[u]])

\* The hash of the password that was typed replaces whatever is stored by now.
LoginRehash(s) ==
    /\ req[s].op = "login" /\ req[s].rehash /\ ~Locked(req[s].uid)
    /\ IF Exists(req[s].uid)
       THEN /\ users' = [users EXCEPT ![req[s].uid] = Written(@, Dirty(@, [pass |-> req[s].pass]))]
            /\ req' = [req EXCEPT ![s].rehash = FALSE] /\ UNCHANGED started
       ELSE Close(s) /\ UNCHANGED users
    /\ UNCHANGED <<sessions, closings>>

LoginSession(s) ==
    /\ req[s].op = "login" /\ ~req[s].rehash
    /\ IF Exists(req[s].uid)
       THEN \E t \in {k \in Token : sessions[k] = Unused} :
                CreateSession(req[s].uid, t, req[s].known)
       ELSE UNCHANGED sessions
    /\ Close(s) /\ UNCHANGED <<users, closings>>

\* Faulty: closes only the session that asks.
FaultySessionsOf(u, except) == {t \in except : Authenticated(t) /\ Actor(t) = u}
SessionsOf(u, except) == {t \in Token \ except : Authenticated(t) /\ Actor(t) = u}
Revoked(seen) == [t \in Token |-> IF t \in seen /\ Opened(t)
                                  THEN [sessions[t] EXCEPT !.live = FALSE] ELSE sessions[t]]

Logout(s, t) ==
    /\ Authenticated(t)
    /\ Open(s, [op |-> "logout", uid |-> Actor(t), selected |-> FALSE, seen |-> {}])
LogoutSelect(s) ==
    /\ req[s].op = "logout" /\ ~req[s].selected
    /\ req' = [req EXCEPT ![s].selected = TRUE, ![s].seen = SessionsOf(req[s].uid, {})]
    /\ UNCHANGED <<users, sessions, started, closings>>
LogoutCommit(s) ==
    /\ req[s].op = "logout" /\ req[s].selected
    /\ sessions' = Revoked(req[s].seen)
    /\ closings' = [closings EXCEPT ![req[s].uid] = @ + 1]
    /\ Close(s) /\ UNCHANGED users

\* changes: the fields of the request, any of name and pass.
UpdateMe(s, t, changes, current) ==
    /\ Authenticated(t)
    /\ LET u == Actor(t) row == users[u] IN
       /\ "name" \in DOMAIN changes => ~Taken(changes.name, {u})
       /\ "pass" \in DOMAIN changes =>
            /\ Verifies(row, current)
            /\ <<changes.pass, Written(row, changes).name>> \notin Weak
       /\ Open(s, [op |-> "update", uid |-> u, sets |-> Dirty(row, changes), by |-> u, own |-> {t},
                   closes |-> "pass" \in DOMAIN changes, flushed |-> FALSE, seen |-> {}])

\* The SELECT of the other sessions flushes the new hash first.
FlushAndSelect(s) ==
    /\ req[s].op = "update" /\ req[s].closes /\ ~req[s].flushed
    /\ LET u == req[s].uid sets == req[s].sets IN
       /\ ~Locked(u)
       /\ "name" \in DOMAIN sets => ~NameWaits(s, sets.name)
       /\ IF Exists(u) /\ ("name" \in DOMAIN sets => ~Duplicates(sets.name, {u}))
          THEN /\ req' = [req EXCEPT ![s].flushed = TRUE, ![s].seen = SessionsOf(u, req[s].own)]
               /\ UNCHANGED started
          ELSE Close(s)
    /\ UNCHANGED <<users, sessions, closings>>

\* ---- users.py ---------------------------------------------------------

CreateUser(s, t, n, p, role) ==
    /\ AuthenticatedAdmin(t) /\ ~Taken(n, {})
    /\ Open(s, [op |-> "insert", token |-> FALSE,
                row |-> [name |-> n, pass |-> p, legacy |-> FALSE, role |-> role]])

\* Faulty: without cannot_modify_self.
FaultyKeepsOwnRole(a, u, changes) == TRUE
\* cannot_modify_self: nobody takes the role of administrator from oneself.
KeepsOwnRole(a, u, changes) ==
    u = a /\ "role" \in DOMAIN changes => changes.role = "admin"
UpdateUser(s, t, u, changes) ==
    /\ AuthenticatedAdmin(t) /\ Exists(u)
    /\ KeepsOwnRole(Actor(t), u, changes)
    /\ "name" \in DOMAIN changes => ~Taken(changes.name, {u})
    /\ Open(s, [op |-> "update", uid |-> u, sets |-> Dirty(users[u], changes), by |-> Actor(t),
                own |-> {}, closes |-> FALSE, flushed |-> FALSE, seen |-> {}])

\* The commit of update_me and of update_user.  A conflict rolls back: 409
\* in update_user, an unhandled error in update_me.
UpdateCommit(s) ==
    /\ req[s].op = "update" /\ req[s].closes = req[s].flushed
    /\ LET u == req[s].uid sets == req[s].sets IN
       /\ ~req[s].flushed => ~Locked(u)
       /\ "name" \in DOMAIN sets => ~NameWaits(s, sets.name)
       /\ IF Exists(u) /\ ("name" \in DOMAIN sets => ~Duplicates(sets.name, {u}))
          THEN /\ users' = [users EXCEPT ![u] = Written(@, sets)]
               /\ sessions' = [t \in Token |->
                    IF t \in req[s].own /\ req[s].closes /\ Opened(t)
                    THEN [sessions[t] EXCEPT !.opened = closings[u] + 1]
                    ELSE Revoked(req[s].seen)[t]]
               /\ closings' = IF req[s].closes THEN [closings EXCEPT ![u] = @ + 1] ELSE closings
          ELSE UNCHANGED <<users, sessions, closings>>
    /\ Close(s)

DeleteUser(s, t, u) ==
    /\ AuthenticatedAdmin(t) /\ u # Actor(t) /\ Exists(u)
    /\ Open(s, [op |-> "delete", uid |-> u, by |-> Actor(t)])

\* Faulty: without ON DELETE CASCADE.
FaultyCascade(u) == sessions
\* ON DELETE CASCADE removes the sessions with the row.
Cascade(u) == [t \in Token |-> IF Opened(t) /\ Actor(t) = u THEN Deleted ELSE sessions[t]]
DeleteCommit(s) ==
    /\ req[s].op = "delete" /\ ~Locked(req[s].uid)
    /\ users' = [users EXCEPT ![req[s].uid] = Deleted]
    /\ sessions' = Cascade(req[s].uid)
    /\ Close(s) /\ UNCHANGED closings
-----------------------------------------------------------------------------
Profile == [name : Name] \cup [pass : Password] \cup [name : Name, pass : Password]
Administrative == [role : {"admin", "usuario"}] \cup [name : Name, role : {"admin", "usuario"}]
                  \cup [pass : Password]

Next == \E s \in Slot :
    \/ \E n \in Name, p \in Password : Register(s, n, p) \/ Login(s, n, p)
    \/ InsertUser(s) \/ LoginRehash(s) \/ LoginSession(s)
    \/ LogoutSelect(s) \/ LogoutCommit(s)
    \/ FlushAndSelect(s) \/ UpdateCommit(s) \/ DeleteCommit(s)
    \/ \E t \in Token :
         \/ Logout(s, t)
         \/ \E c \in Profile, p \in Password : UpdateMe(s, t, c, p)
         \/ \E n \in Name, p \in Password, r \in {"admin", "usuario"} : CreateUser(s, t, n, p, r)
         \/ \E u \in User : DeleteUser(s, t, u) \/ \E c \in Administrative : UpdateUser(s, t, u, c)

Spec == Init /\ [][Next]_vars

\* Every handler looks for the name in one step and writes it in another.
NamesUnique == \A u, v \in User : Exists(u) /\ Exists(v) /\ users[u].name = users[v].name => u = v

\* Rows have their columns, no two users have one name (_ensure_unique, register,
\* update_me), and every session belongs to a user that exists, although users
\* are deleted while their logins are under way.
AccountsTypeOK ==
    /\ NamesUnique
    /\ users \in [User -> UserRow \cup NoRow]
    /\ sessions \in [Token -> SessionRow \cup NoRow]
    /\ \A t \in Token : Opened(t) => Exists(Actor(t))
    /\ started \in 0..MaxRequests /\ closings \in [User -> 0..MaxRequests]
    /\ DOMAIN req = Slot /\ \A s \in Slot :
         req[s].op \in {"idle", "insert", "login", "logout", "update", "delete"}

\* A logout closes every session of the user, and a new password every other
\* one: what is still open was opened, or confirmed by the change itself,
\* since the last closing, but for logins that overlapped it.
OldSessionsClosed ==
    \A t \in Token : Authenticated(t) /\ ~sessions[t].late => sessions[t].opened = closings[Actor(t)]

HasAdmin == \E u \in User : Exists(u) /\ users[u].role = "admin"
IsAdmin(u) == Exists(u) /\ users[u].role = "admin"
\* cannot_modify_self keeps the last administrator: the role is lost by all
\* only in a request whose author stopped being an administrator meanwhile.
AdminLostOnlyByOverlap ==
    [][HasAdmin /\ ~HasAdmin' =>
        \E s \in Slot : /\ req[s].op \in {"update", "delete"} /\ req'[s] = Idle
                        /\ ~IsAdmin(req[s].by)]_vars
=============================================================================
