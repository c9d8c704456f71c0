------------------------------ MODULE RateLimit ------------------------------
(***************************************************************************)
(* The fixed-window limit that the sending of messages passes first        *)
(* (backend/app/security/rate_limit.py, chat_rate_limit in api/deps.py).   *)
(* The counters are rows of the database, shared by all processes; the     *)
(* moment of a request is taken before its statement reaches the database, *)
(* so that it may be counted in a window that is already over.             *)
(***************************************************************************)
EXTENDS Naturals

CONSTANTS
    Request,    \* requests under way at the same time
    Client,     \* keys of the limit: users
    Limit,      \* rate_limit_chat_attempts, when the limit is enabled
    Window,     \* window_seconds
    MaxDelay,   \* how long a request may wait between its moment and its statement
    MaxTime     \* bound on the clock

ASSUME LimitAssumption ==
    /\ Limit \in Nat \ {0} /\ Window \in Nat \ {0}
    /\ MaxTime \in Nat /\ MaxDelay \in Nat /\ MaxDelay <= Window

VARIABLES
    now,        \* the clock, in seconds
    hits,       \* hits[c, s]: the count of the row of client c and window start s, 0: no row
    gate,       \* where a request is: outside, timed (it has its moment), or inside
    passed      \* history: requests of each client and window that were let in

limitVars == <<now, hits, gate, passed>>

Time == 0 .. MaxTime
Outside == [at |-> "outside"]
Timed == [at : {"timed"}, client : Client, moment : Time]
Inside == [at : {"inside"}, client : Client]

WindowStart(moment) == (moment \div Window) * Window
RetryAfter(moment) == WindowStart(moment) + Window - moment

LimitInit ==
    /\ now = 0
    /\ hits = [w \in Client \X Time |-> 0]
    /\ gate = [r \in Request |-> Outside]
    /\ passed = [w \in Client \X Time |-> 0]

\* No request waits longer than MaxDelay for the database.
Tick ==
    /\ now < MaxTime
    /\ \A r \in Request : gate[r].at = "timed" => now < gate[r].moment + MaxDelay
    /\ now' = now + 1
    /\ UNCHANGED <<hits, gate, passed>>

Arrive(r, c) ==
    /\ gate[r] = Outside
    /\ gate' = [gate EXCEPT ![r] = [at |-> "timed", client |-> c, moment |-> now]]
    /\ UNCHANGED <<now, hits, passed>>

\* Faulty: the window before is purged as well.
FaultyExpired(start) == {s \in Time : s < start}
\* The windows whose rows the request deletes, of all clients.
Expired(start) == {s \in Time : s + Window < start}

\* The transaction of enforce_rate_limit: the upsert, the purge and the commit.
Count(r) ==
    /\ gate[r].at = "timed"
    /\ LET c == gate[r].client
           start == WindowStart(gate[r].moment)
           count == hits[<<c, start>>] + 1
       IN  /\ hits' = [w \in Client \X Time |->
                         IF w[2] \in Expired(start) THEN 0
                         ELSE IF w = <<c, start>> THEN count ELSE hits[w]]
           /\ IF count > Limit
              THEN /\ gate' = [gate EXCEPT ![r] = Outside]
                   /\ UNCHANGED passed
              ELSE /\ gate' = [gate EXCEPT ![r] = [at |-> "inside", client |-> c]]
                   /\ passed' = [passed EXCEPT ![<<c, start>>] = @ + 1]
    /\ UNCHANGED now

LeaveGate(r) ==
    /\ gate[r].at = "inside"
    /\ gate' = [gate EXCEPT ![r] = Outside]
    /\ UNCHANGED <<now, hits, passed>>

LimitNext ==
    \/ Tick
    \/ \E r \in Request : Count(r) \/ LeaveGate(r) \/ \E c \in Client : Arrive(r, c)

LimitSpec == LimitInit /\ [][LimitNext]_limitVars

\* Counters and requests keep their types, and no moment lies in the future.
LimitTypeOK ==
    /\ now \in Time
    /\ hits \in [Client \X Time -> Nat]
    /\ passed \in [Client \X Time -> Nat]
    /\ gate \in [Request -> {Outside} \cup Timed \cup Inside]
    /\ \A r \in Request : gate[r].at = "timed" =>
         gate[r].moment <= now /\ now <= gate[r].moment + MaxDelay

\* Of the requests a client sent within one window no more than Limit are let
\* in, however many processes count them and however late: the purge that
\* requests of later windows do never removes a row that is still counted on
\* (enforce_rate_limit).
WindowLimit == \A w \in Client \X Time : passed[w] <= Limit
=============================================================================
