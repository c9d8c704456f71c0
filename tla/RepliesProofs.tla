---------------------------- MODULE RepliesProofs ----------------------------
(***************************************************************************)
(* The rate limit, the prompts and the rows of threads, for any number of  *)
(* clients, requests, facts, roles and sources, any window and any delay   *)
(* up to a window.                                                         *)
(*                                                                         *)
(* The first part is about the limit alone: window starts are multiples of *)
(* Window, and what is purged is two windows old.  The second part says of *)
(* every request what it has read still has to do with the tables.         *)
(***************************************************************************)
EXTENDS Replies, SequenceTheorems, WellFoundedInduction, TLAPS

\* Multiplication by a natural number is monotonic.
LEMMA TimesMonotonic ==
    ASSUME NEW a \in Nat, NEW b \in Nat, NEW w \in Nat, a <= b
    PROVE  a * w \in Nat /\ a * w <= b * w
<1>1. PICK d \in Nat : b = a + d
    BY SMT
<1>2. b * w = a * w + d * w
    BY <1>1, SMT
<1>3. a * w \in Nat /\ d * w \in Nat
    BY SMT
<1> QED
    BY <1>2, <1>3, SMT

\* A moment lies in the window that begins at its window start (window_start_for).
LEMMA StartOfMoment ==
    ASSUME NEW m \in Nat
    PROVE  /\ m \div Window \in Nat /\ WindowStart(m) \in Nat
           /\ WindowStart(m) <= m /\ m < WindowStart(m) + Window
<1> Window \in Nat \ {0}
    BY LimitAssumption
<1>1. m \div Window \in Nat /\ (m \div Window) * Window <= m
      /\ m < (m \div Window) * Window + Window
    BY SMT
<1>2. (m \div Window) * Window \in Nat
    BY <1>1, TimesMonotonic
<1> QED
    BY <1>1, <1>2 DEF WindowStart

\* A client that is refused is told to wait at least a second and at most a
\* window (Retry-After of _too_many_requests).
THEOREM RetryWithinWindow == \A m \in Nat : RetryAfter(m) \in 1 .. Window
<1> SUFFICES ASSUME NEW m \in Nat PROVE RetryAfter(m) \in 1 .. Window
    OBVIOUS
<1> Window \in Nat \ {0}
    BY LimitAssumption
<1> QED
    BY StartOfMoment, SMT DEF RetryAfter

\* Later moments lie in later windows.
LEMMA StartMonotonic ==
    ASSUME NEW m \in Nat, NEW n \in Nat, m <= n
    PROVE  WindowStart(m) <= WindowStart(n)
<1> DEFINE q == m \div Window
           p == n \div Window
<1> Window \in Nat \ {0}
    BY LimitAssumption
<1>1. q \in Nat /\ p \in Nat
    BY StartOfMoment
<1>2. WindowStart(m) = q * Window /\ WindowStart(n) = p * Window
    BY DEF WindowStart
<1>3. q * Window <= m /\ n < p * Window + Window /\ p * Window \in Nat /\ q * Window \in Nat
    BY <1>2, StartOfMoment
<1>4. CASE q <= p
    BY <1>1, <1>2, <1>4, TimesMonotonic
<1>5. CASE p + 1 <= q
    <2>1. (p + 1) * Window <= q * Window
        BY <1>1, <1>5, TimesMonotonic
    <2>2. (p + 1) * Window = p * Window + Window
        BY <1>1, SMT
    <2> HIDE DEF q, p
    <2> QED
        BY <1>3, <2>1, <2>2, SMT
<1> HIDE DEF q, p
<1> QED
    BY <1>1, <1>4, <1>5, SMT

\* A window that is purged began at least two windows before the one that does it.
LEMMA PurgedIsOld ==
    ASSUME NEW m \in Nat, NEW n \in Nat, WindowStart(m) + Window < WindowStart(n)
    PROVE  WindowStart(m) + 2 * Window <= WindowStart(n)
<1> DEFINE q == m \div Window
           p == n \div Window
<1> Window \in Nat \ {0}
    BY LimitAssumption
<1>1. q \in Nat /\ p \in Nat
    BY StartOfMoment
<1>2. WindowStart(m) = q * Window /\ WindowStart(n) = p * Window
    BY DEF WindowStart
<1>3. p * Window \in Nat /\ q * Window \in Nat
    BY <1>2, StartOfMoment
<1>4. (q + 1) * Window = q * Window + Window /\ (q + 2) * Window = q * Window + 2 * Window
    BY <1>1, SMT
<1>5. CASE p <= q + 1
    <2>1. p * Window <= (q + 1) * Window
        BY <1>1, <1>5, TimesMonotonic
    <2> HIDE DEF q, p
    <2> QED
        BY <1>2, <1>3, <1>4, <2>1, SMT
<1>6. CASE q + 2 <= p
    BY <1>1, <1>2, <1>4, <1>6, TimesMonotonic
<1> HIDE DEF q, p
<1> QED
    BY <1>1, <1>5, <1>6, SMT

\* Requests are let in within windows only, ...
PassedAtStarts ==
    \A w \in Client \X Time : passed[w] # 0 => \E m \in Nat : w[2] = WindowStart(m)

\* ... and all that were let in are counted, as long as a request of that window
\* may still come.
Counted ==
    \A w \in Client \X Time :
        passed[w] <= hits[w] \/ w[2] + 2 * Window <= WindowStart(now)

LimitInv == LimitTypeOK /\ WindowLimit /\ PassedAtStarts /\ Counted

LEMMA LimitInitially == LimitInit => LimitInv
<1> SUFFICES ASSUME LimitInit PROVE LimitInv
    OBVIOUS
<1> USE LimitAssumption DEF LimitInit
<1>1. LimitTypeOK
    BY DEF LimitTypeOK, Time, Outside, Timed, Inside
<1>2. WindowLimit /\ PassedAtStarts /\ Counted
    BY DEF WindowLimit, PassedAtStarts, Counted, Time
<1> QED
    BY <1>1, <1>2 DEF LimitInv

\* The clock only makes windows older.
LEMMA TickStep == LimitInv /\ Tick => LimitInv'
<1> SUFFICES ASSUME LimitInv, Tick PROVE LimitInv'
    OBVIOUS
<1> USE LimitAssumption
<1>1. now \in Nat /\ now' = now + 1 /\ now' \in Nat /\ UNCHANGED <<hits, gate, passed>>
    BY DEF LimitInv, LimitTypeOK, Time, Tick
<1>2. LimitTypeOK'
    <2>1. now' \in Time
        BY DEF LimitInv, LimitTypeOK, Time, Tick
    <2>2. \A r \in Request : gate[r].at = "timed" =>
             gate[r].moment <= now + 1 /\ now + 1 <= gate[r].moment + MaxDelay
        <3> SUFFICES ASSUME NEW r \in Request, gate[r].at = "timed"
                     PROVE  gate[r].moment <= now + 1 /\ now + 1 <= gate[r].moment + MaxDelay
            OBVIOUS
        <3>1. gate[r] \in Timed
            BY DEF LimitInv, LimitTypeOK, Outside, Timed, Inside
        <3>2. gate[r].moment \in Nat
            BY <3>1 DEF Timed, Time
        <3>3. gate[r].moment <= now /\ now < gate[r].moment + MaxDelay
            BY DEF LimitInv, LimitTypeOK, Tick
        <3> QED
            BY <1>1, <3>2, <3>3, SMT
    <2> QED
        BY <1>1, <2>1, <2>2 DEF LimitInv, LimitTypeOK
<1>3. Counted'
    <2> SUFFICES ASSUME NEW w \in Client \X Time
                 PROVE  passed[w] <= hits[w] \/ w[2] + 2 * Window <= WindowStart(now + 1)
        BY <1>1 DEF Counted, WindowStart
    <2>1. passed[w] <= hits[w] \/ w[2] + 2 * Window <= WindowStart(now)
        BY DEF LimitInv, Counted
    <2>2. WindowStart(now) <= WindowStart(now + 1)
        BY <1>1, StartMonotonic
    <2>3. WindowStart(now) \in Nat /\ WindowStart(now + 1) \in Nat /\ w[2] \in Nat
        BY <1>1, StartOfMoment DEF Time
    <2> QED
        BY <2>1, <2>2, <2>3, SMT
<1>4. WindowLimit' /\ PassedAtStarts'
    BY <1>1 DEF LimitInv, WindowLimit, PassedAtStarts, WindowStart
<1> QED
    BY <1>2, <1>3, <1>4 DEF LimitInv

\* Steps that touch neither the counters nor the clock.
LEMMA GateStep ==
    ASSUME LimitInv, NEW r \in Request, NEW g \in {Outside} \cup Timed \cup Inside,
           g.at = "timed" => g.moment = now,
           gate' = [gate EXCEPT ![r] = g], UNCHANGED <<now, hits, passed>>
    PROVE  LimitInv'
<1> USE LimitAssumption
<1>1. gate' \in [Request -> {Outside} \cup Timed \cup Inside]
    BY DEF LimitInv, LimitTypeOK
<1>2. \A q \in Request : gate'[q].at = "timed" =>
         gate'[q].moment <= now /\ now <= gate'[q].moment + MaxDelay
    <2> SUFFICES ASSUME NEW q \in Request, gate'[q].at = "timed"
                 PROVE  gate'[q].moment <= now /\ now <= gate'[q].moment + MaxDelay
        OBVIOUS
    <2>1. CASE q = r
        <3>1. gate'[q] = g
            BY <2>1 DEF LimitInv, LimitTypeOK
        <3>2. now \in Nat
            BY DEF LimitInv, LimitTypeOK, Time
        <3> QED
            BY <3>1, <3>2, SMT
    <2>2. CASE q # r
        <3>1. gate'[q] = gate[q]
            BY <2>2 DEF LimitInv, LimitTypeOK
        <3> QED
            BY <3>1 DEF LimitInv, LimitTypeOK
    <2> QED
        BY <2>1, <2>2
<1>3. LimitTypeOK'
    BY <1>1, <1>2 DEF LimitInv, LimitTypeOK
<1>4. WindowLimit' /\ PassedAtStarts' /\ Counted'
    BY DEF LimitInv, WindowLimit, PassedAtStarts, Counted, WindowStart
<1> QED
    BY <1>3, <1>4 DEF LimitInv

\* The step that counts a request and purges: a request that is let in is counted
\* in a row that no later window has purged.
LEMMA CountStep == ASSUME LimitInv, NEW r \in Request, Count(r) PROVE LimitInv'
<1> DEFINE c == gate[r].client
           m == gate[r].moment
           start == WindowStart(m)
           key == <<c, start>>
           count == hits[key] + 1
<1> USE LimitAssumption
<1>1. gate[r] \in Timed /\ now' = now /\ now \in Nat
    BY DEF LimitInv, LimitTypeOK, Count, Outside, Timed, Inside, Time
<1>2. c \in Client /\ m \in Time /\ m \in Nat /\ m <= now /\ now <= m + MaxDelay
    BY <1>1 DEF LimitInv, LimitTypeOK, Timed, Time
<1>3. start \in Nat /\ start <= m /\ m < start + Window
    BY <1>2, StartOfMoment
<1>4. start \in Time /\ key \in Client \X Time
    <2>1. MaxTime \in Nat /\ m <= MaxTime
        BY <1>2 DEF Time
    <2> QED
        BY <1>2, <1>3, <2>1, SMT DEF Time
<1>5. hits[key] \in Nat /\ count \in Nat /\ passed[key] \in Nat
    BY <1>4 DEF LimitInv, LimitTypeOK
<1>6. hits' = [w \in Client \X Time |->
                 IF w[2] \in Expired(start) THEN 0
                 ELSE IF w = key THEN count ELSE hits[w]]
    BY DEF Count
<1>7. start \notin Expired(start)
    BY <1>3, SMT DEF Expired
<1>8. hits'[key] = count
    BY <1>4, <1>6, <1>7
<1>9. \A w \in Client \X Time : w # key /\ w[2] \notin Expired(start) => hits'[w] = hits[w]
    BY <1>6
<1>10. hits' \in [Client \X Time -> Nat]
    BY <1>5, <1>6 DEF LimitInv, LimitTypeOK
<1>11. \/ /\ count > Limit /\ gate' = [gate EXCEPT ![r] = Outside] /\ passed' = passed
       \/ /\ count <= Limit /\ gate' = [gate EXCEPT ![r] = [at |-> "inside", client |-> c]]
          /\ passed' = [passed EXCEPT ![key] = @ + 1]
    BY <1>5, SMT DEF Count
<1>12. passed[key] <= hits[key]
    <2>1. SUFFICES ASSUME key[2] + 2 * Window <= WindowStart(now) PROVE FALSE
        BY <1>4 DEF LimitInv, Counted
    <2>2. WindowStart(now) \in Nat /\ WindowStart(now) <= now
        BY <1>1, StartOfMoment
    <2>3. now <= m + Window
        BY <1>1, <1>2, SMT
    <2>4. start + 2 * Window <= WindowStart(now)
        BY <2>1
    <2> HIDE DEF start, m
    <2> QED
        BY <1>1, <1>2, <1>3, <2>2, <2>3, <2>4, SMT
<1>13. passed' \in [Client \X Time -> Nat]
    BY <1>4, <1>5, <1>11 DEF LimitInv, LimitTypeOK
<1>14. gate' \in [Request -> {Outside} \cup Timed \cup Inside]
       /\ \A q \in Request : gate'[q].at = "timed" => q # r /\ gate'[q] = gate[q]
    BY <1>2, <1>11 DEF LimitInv, LimitTypeOK, Outside, Inside
<1>15. LimitTypeOK'
    <2>1. \A q \in Request : gate'[q].at = "timed" =>
             gate'[q].moment <= now' /\ now' <= gate'[q].moment + MaxDelay
        BY <1>1, <1>14 DEF LimitInv, LimitTypeOK
    <2> QED
        BY <1>1, <1>10, <1>13, <1>14, <2>1 DEF LimitInv, LimitTypeOK
<1>16. \A w \in Client \X Time : w # key => passed'[w] = passed[w]
    BY <1>11 DEF LimitInv, LimitTypeOK
<1>17. passed'[key] <= Limit /\ passed'[key] <= count
    <2>1. CASE passed' = passed
        <3>1. passed[key] <= Limit
            BY <1>4 DEF LimitInv, WindowLimit
        <3> QED
            BY <1>5, <1>12, <2>1, <3>1, SMT
    <2>2. CASE count <= Limit /\ passed' = [passed EXCEPT ![key] = @ + 1]
        <3>1. passed'[key] = passed[key] + 1
            BY <1>4, <2>2 DEF LimitInv, LimitTypeOK
        <3>2. passed[key] + 1 <= count
            BY <1>5, <1>12, SMT
        <3> HIDE DEF count
        <3> QED
            BY <1>5, <2>2, <3>1, <3>2, SMT
    <2> QED
        BY <1>11, <2>1, <2>2
<1>18. WindowLimit'
    BY <1>16, <1>17 DEF LimitInv, WindowLimit
<1>19. PassedAtStarts'
    <2>1. key[2] = WindowStart(m)
        OBVIOUS
    <2> QED
        BY <1>2, <1>16, <2>1 DEF LimitInv, PassedAtStarts, WindowStart
<1>20. ASSUME NEW w \in Client \X Time, w[2] \in Expired(start)
       PROVE  passed'[w] <= hits'[w] \/ w[2] + 2 * Window <= WindowStart(now)
    <2>1. w # key /\ passed'[w] = passed[w] /\ hits'[w] = 0 /\ passed[w] \in Nat
        BY <1>4, <1>6, <1>7, <1>16, <1>20 DEF LimitInv, LimitTypeOK
    <2>2. CASE passed[w] = 0
        BY <2>1, <2>2
    <2>3. CASE passed[w] # 0
        <3>1. PICK n \in Nat : w[2] = WindowStart(n)
            BY <2>3 DEF LimitInv, PassedAtStarts
        <3>2. WindowStart(n) + Window < WindowStart(m)
            BY <1>20, <3>1 DEF Expired
        <3>3. WindowStart(n) + 2 * Window <= WindowStart(m)
            BY <1>2, <3>2, PurgedIsOld
        <3>4. WindowStart(m) <= WindowStart(now)
            BY <1>1, <1>2, StartMonotonic
        <3>5. WindowStart(n) \in Nat /\ WindowStart(m) \in Nat /\ WindowStart(now) \in Nat
            BY <1>1, <1>2, StartOfMoment
        <3> HIDE DEF m, start
        <3>6. WindowStart(n) + 2 * Window <= WindowStart(now)
            BY <3>3, <3>4, <3>5, SMT
        <3> QED
            BY <3>1, <3>6
    <2> QED
        BY <2>2, <2>3
<1>21. Counted'
    <2> SUFFICES ASSUME NEW w \in Client \X Time
                 PROVE  passed'[w] <= hits'[w] \/ w[2] + 2 * Window <= WindowStart(now)
        BY <1>1 DEF Counted, WindowStart
    <2>1. CASE w = key
        BY <1>8, <1>17, <2>1
    <2>2. CASE w # key /\ w[2] \notin Expired(start)
        BY <1>9, <1>16, <2>2 DEF LimitInv, Counted
    <2>3. CASE w[2] \in Expired(start)
        BY <1>20, <2>3
    <2> QED
        BY <2>1, <2>2, <2>3
<1> QED
    BY <1>15, <1>18, <1>19, <1>21 DEF LimitInv

\* Every step keeps the invariant.
LEMMA LimitStep == LimitInv /\ [LimitNext]_limitVars => LimitInv'
<1> SUFFICES ASSUME LimitInv, [LimitNext]_limitVars PROVE LimitInv'
    OBVIOUS
<1>1. CASE Tick
    BY <1>1, TickStep
<1>2. ASSUME NEW r \in Request, NEW c \in Client, Arrive(r, c) PROVE LimitInv'
    <2>1. now \in Time
        BY DEF LimitInv, LimitTypeOK
    <2>2. [at |-> "timed", client |-> c, moment |-> now] \in Timed
        BY <2>1 DEF Timed
    <2> QED
        BY <1>2, <2>2, GateStep DEF Arrive
<1>3. ASSUME NEW r \in Request, Count(r) PROVE LimitInv'
    BY <1>3, CountStep
<1>4. ASSUME NEW r \in Request, LeaveGate(r) PROVE LimitInv'
    <2>1. Outside.at # "timed"
        BY DEF Outside
    <2> QED
        BY <1>4, <2>1, GateStep DEF LeaveGate
<1>5. CASE UNCHANGED limitVars
    BY <1>5 DEF limitVars, LimitInv, LimitTypeOK, WindowLimit, PassedAtStarts, Counted, WindowStart
<1> QED
    BY <1>1, <1>2, <1>3, <1>4, <1>5 DEF LimitNext

\* The counters keep their types.
THEOREM LimitTypeCorrect == LimitSpec => []LimitTypeOK
<1>1. LimitInv => LimitTypeOK
    BY DEF LimitInv
<1> QED
    BY <1>1, LimitInitially, LimitStep, PTL DEF LimitSpec

\* No more than Limit requests of a client are let in per window, whatever the
\* number of processes and however late each counts, up to a window late.
THEOREM LimitHolds == LimitSpec => []WindowLimit
<1>1. LimitInv => WindowLimit
    BY DEF LimitInv
<1> QED
    BY <1>1, LimitInitially, LimitStep, PTL DEF LimitSpec

-----------------------------------------------------------------------------
\* The forms of what is stored, said and under way.
\* What prompts may hold.
Words == Role \cup Prompt \cup {"", "basic", Gone}
AgentRecord == [custom : STRING, role : Role \cup {""}, profile : STRING]
Message == [role : {"user", "assistant"}, n : Nat]
Systems == {System(a, text, sources) : a \in AgentRecord, text \in Words, sources \in SUBSET Source}
Block == Message \cup [system : Systems] \cup [memory : Seq(Fact)]
ThreadRow == [title : Title \cup {Default, "derived"}, count : Nat]

Accepted == [at : {"accepted"}, row : ThreadRow, alone : BOOLEAN]
Asked == [at : {"asked"}, row : ThreadRow, alone : BOOLEAN, history : Seq(Message)]
Reading == [at : {"role", "basic", "sources"}, row : ThreadRow, alone : BOOLEAN, history : Seq(Message),
            agent : AgentRecord, prompt : Words, first : Systems, since : Nat]
Briefed == [at : {"briefed"}, row : ThreadRow, alone : BOOLEAN, history : Seq(Message), system : Systems,
            first : Systems, since : Nat, last : Systems, until : Nat]
Answered == [at : {"answered"}, row : ThreadRow, alone : BOOLEAN, asked : Seq(Block), since : Nat]
Recorded == [at : {"recording"}, row : ThreadRow]

\* The text that the tables have for the role of the agent.
RoleServes(a) == a.role # "" /\ Serves(prompts[a.role])
Text(a) == IF RoleServes(a) THEN prompts[a.role] ELSE BasicPrompt
\* The block that a request would make of what it has read and of what there is
\* now.
Plan(j) == System(j.agent, IF j.at = "sources" THEN j.prompt
                           ELSE IF j.at = "role" THEN Text(j.agent) ELSE BasicPrompt, attached)

\* As long as nothing was edited, a request has read what there is; after one edit
\* it is on its way to the configuration before or after that edit.
PlanOK(j) ==
    /\ j.since <= edits
    /\ edits = j.since =>
         /\ j.agent = agent /\ j.first = Configured
         /\ j.at = "basic" => ~RoleServes(agent)
         /\ j.at = "sources" => j.prompt = Text(agent)
    /\ edits = j.since + 1 => Plan(j) \in {j.first, Configured}
BriefOK(j) ==
    /\ j.since <= j.until /\ j.until <= edits
    /\ j.until <= j.since + 1 => j.system \in {j.first, j.last}
    /\ edits = j.since => j.system = Configured

\* The history of a run goes on from what the next prompt should begin with, ...
GoesOn(history, c) == kept[c].prompt # <<>> => IsPrefix(Tail(kept[c].prompt), history)
\* ... and it reads the agent after the turn before did.
After(since, c) == kept[c].prompt # <<>> => kept[c].edits <= since

Fits(asked) ==
    provider.reached /\ provider.published # 0 =>
        \A i \in DOMAIN asked : "memory" \in DOMAIN asked[i] =>
            10 * Tokens(asked[i].memory) <= 4 * provider.published
\* The row that record_turn has read is the one it writes.
RowOK(j, c) ==
    ~raced[c] => j.row.count = row[c].count /\ (~Titled(j.row.title) => row[c].title = j.row.title)

JobOK(j, c) ==
    \/ j \in Accepted
    \/ j \in Asked /\ GoesOn(j.history, c)
    \/ j \in Reading /\ GoesOn(j.history, c) /\ After(j.since, c) /\ PlanOK(j)
    \/ j \in Briefed /\ GoesOn(j.history, c) /\ After(j.since, c) /\ BriefOK(j)
    \/ j \in Answered /\ Fits(j.asked)
    \/ j \in Recorded /\ RowOK(j, c)
JobsOK ==
    /\ DOMAIN job = Request
    /\ \A r \in Request : job[r] # NoJob =>
         gate[r].at = "inside" /\ Who(r) \in Client /\ JobOK(job[r], Who(r))
\* Who is alone is so until another message comes.
AloneOK ==
    \A q, r \in Request :
        job[q] # NoJob /\ job[r] # NoJob /\ Who(q) = Who(r) /\ q # r =>
            job[r].at = "recording" \/ ~job[r].alone

TablesOK ==
    /\ agent \in AgentRecord /\ attached \in SUBSET Source /\ edits \in Nat
    /\ prompts \in [Role \cup {"basic"} -> Words]
    /\ agent.role = "" \/ prompts[agent.role] # Gone
    /\ provider \in Provider
ThreadsOK ==
    /\ row \in [Client -> ThreadRow] /\ transcript \in [Client -> Seq(Message)]
    /\ facts \in [Client -> Seq(Fact)] /\ turns \in [Client -> Nat] /\ raced \in [Client -> BOOLEAN]
    /\ DOMAIN own = Client /\ DOMAIN kept = Client
KeptOK(c) ==
    kept[c].prompt # <<>> =>
        /\ Tail(kept[c].prompt) \in Seq(Message) /\ IsPrefix(Tail(kept[c].prompt), transcript[c])
        /\ kept[c].edits \in Nat /\ kept[c].edits <= edits
        /\ edits = kept[c].edits => Head(kept[c].prompt) = [system |-> Configured]

RepliesInv ==
    /\ LimitInv /\ TablesOK /\ ThreadsOK /\ MetadataKept /\ JobsOK /\ AloneOK
    /\ \A c \in Client : KeptOK(c)

-----------------------------------------------------------------------------
LEMMA ConfiguredText == Configured = System(agent, Text(agent), attached)
    BY DEF Configured, Text, RoleServes, Serves

LEMMA InSystems ==
    ASSUME NEW a \in AgentRecord, NEW text \in Words, NEW sources \in SUBSET Source
    PROVE  System(a, text, sources) \in Systems
    BY DEF Systems

LEMMA TextType == ASSUME TablesOK PROVE BasicPrompt \in Words /\ \A a \in AgentRecord : Text(a) \in Words
<1>1. \A k \in Role \cup {"basic"} : prompts[k] \in Words
    BY DEF TablesOK
<1>2. "" \in Words /\ prompts["basic"] \in Words
    BY <1>1 DEF Words
<1>3. BasicPrompt \in Words
    BY <1>2 DEF BasicPrompt
<1>4. ASSUME NEW a \in AgentRecord, RoleServes(a) PROVE prompts[a.role] \in Words
    <2>1. a.role \in Role
        BY <1>4 DEF RoleServes, AgentRecord
    <2> QED
        BY <1>1, <2>1
<1> QED
    BY <1>3, <1>4 DEF Text

LEMMA ConfiguredSystem == ASSUME TablesOK PROVE Configured \in Systems
<1>1. agent \in AgentRecord /\ attached \in SUBSET Source /\ Text(agent) \in Words
    BY TextType DEF TablesOK
<1> QED
    BY <1>1, InSystems, ConfiguredText

LEMMA RepliesInitially == Init => RepliesInv
<1> SUFFICES ASSUME Init PROVE RepliesInv
    OBVIOUS
<1>1. LimitInv
    BY LimitInitially DEF Init
<1>2. TablesOK
    <2>1. agent \in AgentRecord
        BY RepliesAssumption DEF Init, AgentRecord
    <2>2. prompts \in [Role \cup {"basic"} -> Words]
        BY DEF Init, Words
    <2>3. agent.role = "" \/ prompts[agent.role] # Gone
        <3>1. CASE agent.role \in Role
            <4>1. prompts[agent.role] = agent.role
                BY <3>1 DEF Init
            <4> QED
                BY <3>1, <4>1, RepliesAssumption DEF Gone
        <3> QED
            BY <2>1, <3>1 DEF AgentRecord
    <2>4. attached \in SUBSET Source /\ edits \in Nat /\ provider \in Provider
        BY DEF Init
    <2> QED
        BY <2>1, <2>2, <2>3, <2>4 DEF TablesOK
<1>3. ThreadsOK
    <2>1. [title |-> Default, count |-> 0] \in ThreadRow
        BY DEF ThreadRow
    <2>2. row \in [Client -> ThreadRow]
        <3>1. PICK new : new = [title |-> Default, count |-> 0]
            OBVIOUS
        <3>2. row = [c \in Client |-> new]
            BY <3>1 DEF Init
        <3> QED
            BY <2>1, <3>1, <3>2
    <2>3. transcript \in [Client -> Seq(Message)] /\ facts \in [Client -> Seq(Fact)]
        BY EmptySeq DEF Init
    <2>4. turns \in [Client -> Nat] /\ raced \in [Client -> BOOLEAN] /\ DOMAIN own = Client /\ DOMAIN kept = Client
        BY DEF Init
    <2> QED
        BY <2>2, <2>3, <2>4 DEF ThreadsOK
<1>4. MetadataKept
    <2>1. \A c \in Client : row[c].count = 0 /\ turns[c] = 0 /\ own[c] = ""
        BY DEF Init
    <2>2. 2 * 0 = 0
        OBVIOUS
    <2>3. \A c \in Client : row[c].count = 2 * turns[c]
        BY <2>1, <2>2
    <2> QED
        BY <2>1, <2>3, Zenon DEF MetadataKept
<1>5. JobsOK /\ AloneOK
    BY DEF Init, JobsOK, AloneOK
<1>6. \A c \in Client : KeptOK(c)
    BY DEF Init, KeptOK
<1> QED
    BY <1>1, <1>2, <1>3, <1>4, <1>5, <1>6 DEF RepliesInv

\* What a job has to do with the tables and its thread stays when those do; ...
LEMMA JobStaysBut ==
    ASSUME UNCHANGED <<config, provider, kept, edits>>
    PROVE  \A j, c : JobOK(j, c) /\ (j \in Recorded => RowOK(j, c)') => JobOK(j, c)'
<1> SUFFICES ASSUME NEW j, NEW c, JobOK(j, c), j \in Recorded => RowOK(j, c)' PROVE JobOK(j, c)'
    OBVIOUS
<1>1. UNCHANGED <<agent, prompts, attached>>
    BY DEF config
<1>2. Configured' = Configured /\ BasicPrompt' = BasicPrompt
    BY <1>1 DEF Configured, BasicPrompt
<1>3. \A a : Text(a)' = Text(a) /\ RoleServes(a)' = RoleServes(a)
    BY <1>1, <1>2 DEF Text, RoleServes
<1>4. Plan(j)' = Plan(j)
    BY <1>1, <1>2, <1>3 DEF Plan
<1>5. PlanOK(j) => PlanOK(j)'
    BY <1>1, <1>2, <1>3, <1>4 DEF PlanOK
<1>6. BriefOK(j) => BriefOK(j)'
    BY <1>1, <1>2 DEF BriefOK
<1>7. \A h, n : (GoesOn(h, c) => GoesOn(h, c)') /\ (After(n, c) => After(n, c)')
    BY DEF GoesOn, After
<1>8. \A asked : Fits(asked) => Fits(asked)'
    BY DEF Fits
<1> QED
    BY <1>5, <1>6, <1>7, <1>8 DEF JobOK

\* ... a request that records also depends on the row.
LEMMA JobStays ==
    ASSUME UNCHANGED <<config, provider, row, kept, raced, edits>>
    PROVE  \A j, c : JobOK(j, c) => JobOK(j, c)'
<1>1. \A j, c : RowOK(j, c) => RowOK(j, c)'
    BY DEF RowOK
<1>2. \A j, c : JobOK(j, c) /\ j \in Recorded => RowOK(j, c)
    BY DEF JobOK, Accepted, Asked, Reading, Briefed, Answered, Recorded
<1> QED
    BY <1>1, <1>2, JobStaysBut

\* The jobs of requests whose gates stay, if each is still right.
LEMMA JobsUntouched ==
    ASSUME JobsOK, AloneOK, job' = job, \A q \in Request : job[q] # NoJob => gate'[q] = gate[q],
           \A q \in Request : \A j, c : job[q] # NoJob /\ j = job[q] /\ c = Who(q) => JobOK(j, c)'
    PROVE  JobsOK' /\ AloneOK'
<1>1. ASSUME NEW q \in Request, job[q] # NoJob
      PROVE  gate'[q].at = "inside" /\ Who(q)' \in Client /\ JobOK(job[q], Who(q))'
    <2>1. gate'[q] = gate[q] /\ gate[q].at = "inside" /\ Who(q) \in Client
        BY <1>1 DEF JobsOK
    <2>2. PICK j, c : j = job[q] /\ c = Who(q)
        OBVIOUS
    <2>3. JobOK(j, c)' /\ j = job'[q] /\ c = Who(q)'
        BY <1>1, <2>1, <2>2 DEF Who
    <2> QED
        BY <2>1, <2>2, <2>3
<1>2. JobsOK'
    BY <1>1 DEF JobsOK
<1>3. AloneOK'
    BY DEF AloneOK, Who
<1> QED
    BY <1>2, <1>3

\* A request under way has passed the limit; the gate of others does not matter.
LEMMA GateKeeps ==
    ASSUME JobsOK, NEW r \in Request, job[r] # NoJob,
           \/ \E q \in Request : Count(q) \/ \E c \in Client : Arrive(q, c)
           \/ Tick,
           LimitTypeOK
    PROVE  gate'[r] = gate[r]
<1>1. gate[r].at = "inside"
    BY DEF JobsOK
<1>2. CASE Tick
    BY <1>2 DEF Tick
<1>3. ASSUME NEW q \in Request, Count(q) PROVE gate'[r] = gate[r]
    <2>1. q # r
        BY <1>1, <1>3 DEF Count
    <2> QED
        BY <1>3, <2>1 DEF Count, LimitTypeOK
<1>4. ASSUME NEW q \in Request, NEW c \in Client, Arrive(q, c) PROVE gate'[r] = gate[r]
    <2>1. q # r
        BY <1>1, <1>4 DEF Arrive, Outside
    <2> QED
        BY <1>4, <2>1 DEF Arrive, LimitTypeOK
<1> QED
    BY <1>2, <1>3, <1>4

LEMMA GatePreserves == ASSUME RepliesInv, Gate PROVE RepliesInv'
<1>1. UNCHANGED <<config, provider, threadVars, job, others, edits>>
    BY DEF Gate
<1>2. /\ UNCHANGED <<agent, prompts, attached>>
      /\ UNCHANGED <<row, transcript, facts, kept, turns, own, raced>>
    BY <1>1 DEF config, threadVars
<1>3. \/ \E q \in Request : Count(q) \/ \E c \in Client : Arrive(q, c)
      \/ Tick
    BY DEF Gate
<1>4. LimitInv'
    BY <1>3, LimitStep DEF LimitNext, RepliesInv
<1>5. Configured' = Configured
    BY <1>2 DEF Configured, BasicPrompt
<1>6. TablesOK' /\ ThreadsOK' /\ MetadataKept' /\ \A c \in Client : KeptOK(c)'
    BY <1>1, <1>2, <1>5 DEF RepliesInv, TablesOK, ThreadsOK, MetadataKept, KeptOK
<1>7. \A r \in Request : job[r] # NoJob => gate'[r] = gate[r]
    BY <1>3, GateKeeps DEF RepliesInv, LimitInv
<1>8. \A q \in Request : \A j, c : job[q] # NoJob /\ j = job[q] /\ c = Who(q) => JobOK(j, c)'
    BY <1>1, <1>2, JobStays DEF RepliesInv, JobsOK
<1>9. JobsOK' /\ AloneOK'
    BY <1>1, <1>7, <1>8, JobsUntouched DEF RepliesInv
<1> QED
    BY <1>4, <1>6, <1>9 DEF RepliesInv

\* One request goes on or ends, and the jobs of the others are still right.
LEMMA OneJob ==
    ASSUME JobsOK, AloneOK, NEW r \in Request, NEW new, NEW d, d = Who(r), job[r] # NoJob,
           job' = [job EXCEPT ![r] = new], \A q \in Request : q # r => gate'[q] = gate[q],
           \A q \in Request : \A j, c :
               q # r /\ job[q] # NoJob /\ j = job[q] /\ c = Who(q) => JobOK(j, c)',
           \/ new = NoJob
           \/ /\ gate' = gate /\ JobOK(new, d)'
              /\ new.at = "recording" \/ (job[r].at # "recording" /\ new.alone = job[r].alone)
    PROVE  JobsOK' /\ AloneOK'
<1>1. DOMAIN job = Request /\ DOMAIN job' = Request
    BY DEF JobsOK
<1>2. ASSUME NEW q \in Request, q # r, job[q] # NoJob
      PROVE  gate'[q].at = "inside" /\ Who(q)' \in Client /\ JobOK(job[q], Who(q))'
    <2>1. gate'[q] = gate[q] /\ gate[q].at = "inside" /\ Who(q) \in Client
        BY <1>2 DEF JobsOK
    <2>2. PICK j, c : j = job[q] /\ c = Who(q)
        OBVIOUS
    <2>3. JobOK(j, c)' /\ j = job'[q] /\ c = Who(q)'
        BY <1>1, <1>2, <2>1, <2>2 DEF Who
    <2> QED
        BY <2>1, <2>2, <2>3
<1>3. ASSUME job'[r] # NoJob
      PROVE  gate'[r].at = "inside" /\ Who(r)' \in Client /\ JobOK(job[r], Who(r))'
    <2>1. job'[r] = new /\ new # NoJob
        BY <1>1, <1>3
    <2>2. gate' = gate /\ JobOK(new, d)' /\ Who(r)' = d /\ gate[r].at = "inside" /\ Who(r) \in Client
        BY <2>1 DEF JobsOK, Who
    <2> QED
        BY <2>1, <2>2
<1>4. \A q \in Request : q # r => job'[q] = job[q]
    BY <1>1
<1>5. JobsOK'
    BY <1>1, <1>2, <1>3, <1>4 DEF JobsOK
<1>6. AloneOK'
    <2>1. ASSUME NEW p \in Request, NEW q \in Request,
                 job'[p] # NoJob, job'[q] # NoJob, Who(p)' = Who(q)', p # q
          PROVE  job'[q].at = "recording" \/ ~job'[q].alone
        <3>1. gate'[p] = gate[p] /\ gate'[q] = gate[q] /\ job[p] # NoJob /\ job[q] # NoJob
            BY <1>1, <1>4, <2>1
        <3>2. job[q].at = "recording" \/ ~job[q].alone
            BY <2>1, <3>1 DEF AloneOK, Who
        <3>3. CASE q = r
            BY <1>1, <2>1, <3>2, <3>3
        <3> QED
            BY <1>4, <3>2, <3>3
    <2> QED
        BY <2>1 DEF AloneOK
<1> QED
    BY <1>5, <1>6


-----------------------------------------------------------------------------
\* What IsPrefix says of the elements.
LEMMA PrefixElements ==
    ASSUME NEW S, NEW s \in Seq(S), NEW t \in Seq(S)
    PROVE  IsPrefix(s, t) <=> Len(s) <= Len(t) /\ \A i \in 1 .. Len(s) : s[i] = t[i]
<1>1. Len(s) \in Nat /\ Len(t) \in Nat /\ DOMAIN s = 1 .. Len(s) /\ DOMAIN t = 1 .. Len(t)
    BY LenProperties
<1>2. SubSeq(s, 1, Len(s)) = s
    BY <1>1, SubSeqProperties, SeqEqual
<1>3. ASSUME Len(s) <= Len(t)
      PROVE  /\ SubSeq(t, 1, Len(s)) \in Seq(S) /\ Len(SubSeq(t, 1, Len(s))) = Len(s)
             /\ \A i \in 1 .. Len(s) : SubSeq(t, 1, Len(s))[i] = t[i]
    BY <1>1, <1>3, SubSeqProperties
<1>4. ASSUME Len(s) <= Len(t)
      PROVE  s = SubSeq(t, 1, Len(s)) <=> \A i \in 1 .. Len(s) : s[i] = t[i]
    BY <1>3, <1>4, SeqEqual
<1> QED
    BY <1>2, <1>4 DEF IsPrefix

\* A prefix stays one of a sequence that gets longer.
LEMMA LongerPrefix ==
    ASSUME NEW S, NEW s \in Seq(S), NEW t \in Seq(S), NEW u \in Seq(S), IsPrefix(s, t)
    PROVE  IsPrefix(s, t \o u)
<1>1. t \o u \in Seq(S) /\ Len(t \o u) = Len(t) + Len(u) /\ \A i \in 1 .. Len(t) : (t \o u)[i] = t[i]
    BY ConcatProperties
<1>2. Len(s) <= Len(t) /\ \A i \in 1 .. Len(s) : s[i] = t[i]
    BY PrefixElements
<1>3. Len(s) \in Nat /\ Len(t) \in Nat /\ Len(u) \in Nat
    BY LenProperties
<1>4. Len(s) <= Len(t \o u) /\ \A i \in 1 .. Len(s) : s[i] = (t \o u)[i]
    BY <1>1, <1>2, <1>3
<1> QED
    BY <1>1, <1>4, PrefixElements

LEMMA AppendedPrefix ==
    ASSUME NEW S, NEW s \in Seq(S), NEW t \in Seq(S), NEW x \in S, IsPrefix(s, t)
    PROVE  IsPrefix(s, Append(t, x))
<1>1. /\ Append(t, x) \in Seq(S) /\ Len(Append(t, x)) = Len(t) + 1
      /\ \A i \in 1 .. Len(t) : Append(t, x)[i] = t[i]
    BY AppendProperties
<1>2. Len(s) <= Len(t) /\ \A i \in 1 .. Len(s) : s[i] = t[i]
    BY PrefixElements
<1>3. Len(s) \in Nat /\ Len(t) \in Nat
    BY LenProperties
<1>4. Len(s) <= Len(Append(t, x)) /\ \A i \in 1 .. Len(s) : s[i] = Append(t, x)[i]
    BY <1>1, <1>2, <1>3
<1> QED
    BY <1>1, <1>4, PrefixElements

\* A request goes on or ends; of the threads and tables at most a transcript
\* changes.
LEMMA GoingOn ==
    ASSUME RepliesInv, NEW r \in Request, NEW new, NEW d, d = Who(r), job[r] # NoJob,
           job' = [job EXCEPT ![r] = new],
           UNCHANGED <<limitVars, config, provider, row, facts, kept, turns, own, raced, edits>>,
           transcript' \in [Client -> Seq(Message)], \A c \in Client : KeptOK(c)',
           JobOK(new, d)', new.at = "recording" \/ (job[r].at # "recording" /\ new.alone = job[r].alone)
    PROVE  RepliesInv'
<1>1. UNCHANGED <<agent, prompts, attached>> /\ UNCHANGED <<now, hits, gate, passed>>
    BY DEF config, limitVars
<1>2. LimitInv'
    BY LimitStep DEF RepliesInv
<1>3. TablesOK' /\ ThreadsOK' /\ MetadataKept'
    BY <1>1 DEF RepliesInv, TablesOK, ThreadsOK, MetadataKept
<1>4. \A q \in Request : \A j, c : job[q] # NoJob /\ j = job[q] /\ c = Who(q) => JobOK(j, c)'
    BY JobStays DEF RepliesInv, JobsOK
<1>5. JobsOK' /\ AloneOK'
    BY <1>1, <1>4, OneJob DEF RepliesInv
<1> QED
    BY <1>2, <1>3, <1>5 DEF RepliesInv

LEMMA KeptStays ==
    ASSUME UNCHANGED <<config, kept, edits, transcript>>, NEW c, KeptOK(c)
    PROVE  KeptOK(c)'
<1>1. Configured' = Configured
    BY DEF config, Configured, BasicPrompt
<1> QED
    BY <1>1 DEF KeptOK

\* The forms of the job of a request that has begun.
LEMMA JobForms ==
    ASSUME JobsOK, NEW r \in Request, job[r] # NoJob
    PROVE  /\ gate[r].at = "inside" /\ Who(r) \in Client
           /\ job[r].at = "accepted" => job[r] \in Accepted
           /\ job[r].at = "asked" => job[r] \in Asked /\ GoesOn(job[r].history, Who(r))
           /\ job[r].at \in {"role", "basic", "sources"} =>
                /\ job[r] \in Reading /\ GoesOn(job[r].history, Who(r))
                /\ After(job[r].since, Who(r)) /\ PlanOK(job[r])
           /\ job[r].at = "briefed" =>
                /\ job[r] \in Briefed /\ GoesOn(job[r].history, Who(r))
                /\ After(job[r].since, Who(r)) /\ BriefOK(job[r])
           /\ job[r].at = "answered" => job[r] \in Answered /\ Fits(job[r].asked)
           /\ job[r].at = "recording" => job[r] \in Recorded /\ RowOK(job[r], Who(r))
<1>1. gate[r].at = "inside" /\ Who(r) \in Client /\ JobOK(job[r], Who(r))
    BY DEF JobsOK
<1>2. PICK j, c : j = job[r] /\ c = Who(r)
    OBVIOUS
<1>3. /\ j \in Accepted => j.at = "accepted"
      /\ j \in Asked => j.at = "asked"
      /\ j \in Reading => j.at \in {"role", "basic", "sources"}
      /\ j \in Briefed => j.at = "briefed"
      /\ j \in Answered => j.at = "answered"
      /\ j \in Recorded => j.at = "recording"
    BY DEF Accepted, Asked, Reading, Briefed, Answered, Recorded
<1>4. JobOK(j, c)
    BY <1>1, <1>2
<1>5. /\ j.at = "accepted" => j \in Accepted
      /\ j.at = "asked" => j \in Asked /\ GoesOn(j.history, c)
      /\ j.at \in {"role", "basic", "sources"} =>
                j \in Reading /\ GoesOn(j.history, c) /\ After(j.since, c) /\ PlanOK(j)
      /\ j.at = "briefed" => j \in Briefed /\ GoesOn(j.history, c) /\ After(j.since, c) /\ BriefOK(j)
      /\ j.at = "answered" => j \in Answered /\ Fits(j.asked)
      /\ j.at = "recording" => j \in Recorded /\ RowOK(j, c)
    BY <1>3, <1>4 DEF JobOK
<1> QED
    BY <1>1, <1>2, <1>5

LEMMA BeginPreserves == ASSUME RepliesInv, NEW r \in Request, Begin(r) PROVE RepliesInv'
<1>1. PICK d : d = Who(r)
    OBVIOUS
<1>2. UNCHANGED <<limitVars, config, provider, threadVars, others, edits>>
    BY DEF Begin
<1>3. /\ UNCHANGED <<agent, prompts, attached>> /\ UNCHANGED <<now, hits, gate, passed>>
      /\ UNCHANGED <<row, transcript, facts, kept, turns, own, raced>>
    BY <1>2 DEF config, limitVars, threadVars
<1>4. LimitInv'
    BY <1>2, LimitStep DEF RepliesInv
<1>5. TablesOK' /\ ThreadsOK' /\ MetadataKept' /\ \A c \in Client : KeptOK(c)'
    BY <1>2, <1>3, KeptStays DEF RepliesInv, TablesOK, ThreadsOK, MetadataKept
<1>6. gate[r].at = "inside" /\ d \in Client /\ row[d] \in ThreadRow
    <2>1. LimitTypeOK /\ gate[r].at = "inside"
        BY DEF RepliesInv, LimitInv, Begin
    <2>2. gate[r] \in Inside
        BY <2>1 DEF LimitTypeOK, Outside, Timed
    <2>3. gate[r].client \in Client
        BY <2>2 DEF Inside
    <2> QED
        BY <1>1, <2>1, <2>3 DEF Who, RepliesInv, ThreadsOK
<1>7. /\ DOMAIN job' = Request /\ job[r] = NoJob
      /\ job'[r] = [at |-> "accepted", row |-> row[d], alone |-> Busy(d) = {}]
      /\ \A q \in Request : q # r => job'[q] = IF q \in Busy(d) THEN Joined(job[q]) ELSE job[q]
    BY <1>1 DEF Begin
<1>8. ASSUME NEW j, NEW c, JobOK(j, c) PROVE JobOK(Joined(j), c)'
    <2>1. JobOK(j, c)'
        BY <1>2, <1>3, <1>8, JobStays
    <2>2. CASE j \in Accepted \/ j \in Asked \/ j \in Reading \/ j \in Briefed \/ j \in Answered
        <3> PICK i : i = [j EXCEPT !.alone = FALSE]
            OBVIOUS
        <3>1. /\ j.at # "recording" /\ j \notin Recorded
              /\ j \in Accepted => i \in Accepted
              /\ j \in Asked => i \in Asked /\ i.history = j.history
            BY <2>2 DEF Accepted, Asked, Reading, Briefed, Answered, Recorded
        <3>2. /\ j \in Reading => /\ i \in Reading /\ i.history = j.history /\ i.since = j.since
                                  /\ i.agent = j.agent /\ i.prompt = j.prompt /\ i.at = j.at
                                  /\ i.first = j.first
            BY DEF Reading
        <3>3. j \in Briefed => /\ i \in Briefed /\ i.history = j.history /\ i.since = j.since
                               /\ i.until = j.until /\ i.first = j.first /\ i.last = j.last
                               /\ i.system = j.system
            BY DEF Briefed
        <3>4. j \in Answered => i \in Answered /\ i.asked = j.asked
            BY DEF Answered
        <3>5. Joined(j) = i
            BY <3>1 DEF Joined
        <3>6. j \in Reading => Plan(i)' = Plan(j)'
            BY <3>2 DEF Plan
        <3>7. j \in Reading /\ PlanOK(j)' => PlanOK(i)'
            BY <3>2, <3>6 DEF PlanOK
        <3>8. j \in Briefed /\ BriefOK(j)' => BriefOK(i)'
            BY <3>3 DEF BriefOK
        <3>9. JobOK(i, c)'
            BY <2>1, <3>1, <3>2, <3>3, <3>4, <3>7, <3>8 DEF JobOK
        <3> QED
            BY <3>5, <3>9
    <2>3. CASE j \in Recorded
        <3>1. Joined(j) = j
            BY <2>3 DEF Joined, Recorded
        <3> QED
            BY <2>1, <3>1
    <2> QED
        BY <1>8, <2>2, <2>3 DEF JobOK
<1>9. JobsOK'
    <2>1. ASSUME NEW q \in Request, job'[q] # NoJob
          PROVE  gate'[q].at = "inside" /\ Who(q)' \in Client /\ JobOK(job[q], Who(q))'
        <3>1. CASE q = r
            <4>1. PICK new : new = [at |-> "accepted", row |-> row[d], alone |-> Busy(d) = {}]
                OBVIOUS
            <4>2. new \in Accepted
                BY <1>6, <4>1 DEF Accepted
            <4>3. JobOK(new, d)' /\ job'[q] = new /\ Who(q)' = d
                BY <1>1, <1>3, <1>7, <3>1, <4>1, <4>2 DEF JobOK, Who
            <4> QED
                BY <1>3, <1>6, <3>1, <4>3
        <3>2. CASE q # r
            <4>1. job[q] # NoJob
                BY <1>7, <2>1, <3>2 DEF Busy
            <4>2. gate[q].at = "inside" /\ Who(q) \in Client /\ JobOK(job[q], Who(q))
                BY <4>1 DEF RepliesInv, JobsOK
            <4>3. PICK j, c : j = job[q] /\ c = Who(q)
                OBVIOUS
            <4>4. JobOK(j, c)' /\ JobOK(Joined(j), c)'
                BY <1>2, <1>3, <1>8, <4>2, <4>3, JobStays
            <4>5. (job'[q] = j \/ job'[q] = Joined(j)) /\ Who(q)' = c
                BY <1>3, <1>7, <3>2, <4>3 DEF Who
            <4> QED
                BY <1>3, <4>2, <4>3, <4>4, <4>5
        <3> QED
            BY <3>1, <3>2
    <2> QED
        BY <1>7, <2>1 DEF JobsOK
<1>10. AloneOK'
    <2>1. ASSUME NEW p \in Request, NEW q \in Request,
                 job'[p] # NoJob, job'[q] # NoJob, Who(p)' = Who(q)', p # q
          PROVE  job'[q].at = "recording" \/ ~job'[q].alone
        <3>1. Who(p) = Who(q)
            BY <1>3, <2>1 DEF Who
        <3>2. CASE q = r
            <4>1. p \in Busy(d)
                BY <1>1, <1>7, <2>1, <3>1, <3>2 DEF Busy
            <4>2. PICK alone : alone = (Busy(d) = {})
                OBVIOUS
            <4>3. job'[r] = [at |-> "accepted", row |-> row[d], alone |-> alone]
                BY <1>7, <4>2, Zenon
            <4>4. job'[r].alone = alone
                BY <4>3
            <4>5. ~alone
                BY <4>1, <4>2
            <4> QED
                BY <3>2, <4>4, <4>5, Zenon
        <3>3. CASE q # r /\ Who(q) = d
            <4>1. q \in Busy(d) /\ job[q] # NoJob
                BY <1>7, <2>1, <3>3 DEF Busy
            <4>2. job'[q] = Joined(job[q])
                BY <1>7, <3>3, <4>1
            <4>3. PICK j : j = job[q]
                OBVIOUS
            <4>4. JobOK(j, d)
                BY <3>3, <4>1, <4>3 DEF RepliesInv, JobsOK
            <4>5. Joined(j).at = "recording" \/ ~Joined(j).alone
                BY <4>4 DEF Joined, JobOK, Accepted, Asked, Reading, Briefed, Answered, Recorded
            <4> QED
                BY <4>2, <4>3, <4>5
        <3>4. CASE q # r /\ Who(q) # d
            <4>1. job'[q] = job[q] /\ p # r /\ job'[p] = job[p]
                BY <1>1, <1>7, <3>1, <3>4 DEF Busy
            <4> QED
                BY <2>1, <3>1, <4>1 DEF RepliesInv, AloneOK
        <3> QED
            BY <3>2, <3>3, <3>4
    <2> QED
        BY <2>1 DEF AloneOK
<1> QED
    BY <1>4, <1>5, <1>9, <1>10 DEF RepliesInv

\* The message a request brings goes to the end of its history.
LEMMA Said ==
    ASSUME NEW history \in Seq(Message), NEW role \in {"user", "assistant"}
    PROVE  Append(history, [role |-> role, n |-> Len(history) + 1]) \in Seq(Message)
<1>1. [role |-> role, n |-> Len(history) + 1] \in Message
    BY LenProperties DEF Message
<1> QED
    BY <1>1, AppendProperties

\* A transcript that still goes on from what the next prompt begins with.
LEMMA KeptGoesOn ==
    ASSUME UNCHANGED <<config, kept, edits>>, NEW c \in Client, KeptOK(c), NEW history \in Seq(Message),
           NEW x \in Message, GoesOn(history, c), transcript'[c] = Append(history, x)
    PROVE  KeptOK(c)'
<1>1. Configured' = Configured
    BY DEF config, Configured, BasicPrompt
<1>2. ASSUME kept[c].prompt # <<>> PROVE IsPrefix(Tail(kept[c].prompt), Append(history, x))
    BY <1>2, AppendedPrefix DEF KeptOK, GoesOn
<1> QED
    BY <1>1, <1>2 DEF KeptOK

LEMMA AskPreserves == ASSUME RepliesInv, NEW r \in Request, Ask(r) PROVE RepliesInv'
<1>1. PICK d : d = Who(r)
    OBVIOUS
<1>2. /\ UNCHANGED <<limitVars, config, provider, row, facts, kept, turns, own, raced, edits>>
      /\ job[r].at = "accepted"
    BY DEF Ask
<1>3. job[r] # NoJob
    BY <1>2 DEF NoJob
<1>4. d \in Client /\ job[r] \in Accepted
    BY <1>1, <1>2, <1>3, JobForms DEF RepliesInv
<1>5. transcript[d] \in Seq(Message)
    BY <1>4 DEF RepliesInv, ThreadsOK
<1>6. PICK x : x = [role |-> "user", n |-> Len(transcript[d]) + 1]
    OBVIOUS
<1>7. x \in Message /\ Append(transcript[d], x) \in Seq(Message)
    BY <1>5, <1>6, LenProperties, Said DEF Message
<1>8. transcript' = [transcript EXCEPT ![d] = Append(transcript[d], x)]
    BY <1>1, <1>6 DEF Ask
<1>9. transcript' \in [Client -> Seq(Message)]
    BY <1>4, <1>7, <1>8 DEF RepliesInv, ThreadsOK
<1>10. GoesOn(transcript[d], d)
    BY <1>4 DEF RepliesInv, KeptOK, GoesOn
<1>11. ASSUME NEW c \in Client PROVE KeptOK(c)'
    <2>1. CASE c = d
        <3>1. PICK history : history = transcript[d]
            OBVIOUS
        <3>2. transcript'[c] = Append(history, x) /\ GoesOn(history, c) /\ history \in Seq(Message)
            BY <1>5, <1>8, <1>10, <2>1, <3>1 DEF RepliesInv, ThreadsOK
        <3> QED
            BY <1>2, <1>7, <3>2, KeptGoesOn DEF RepliesInv
    <2>2. CASE c # d
        <3>1. transcript'[c] = transcript[c]
            BY <1>8, <2>2 DEF RepliesInv, ThreadsOK
        <3>2. Configured' = Configured
            BY <1>2 DEF config, Configured, BasicPrompt
        <3> QED
            BY <1>2, <3>1, <3>2 DEF RepliesInv, KeptOK
    <2> QED
        BY <2>1, <2>2
<1>12. PICK new : new = [at |-> "asked", row |-> job[r].row, alone |-> job[r].alone, history |-> transcript[d]]
    OBVIOUS
<1>13. job' = [job EXCEPT ![r] = new]
    BY <1>1, <1>12 DEF Ask
<1>14. new \in Asked /\ new.alone = job[r].alone /\ new.history = transcript[d]
    BY <1>4, <1>5, <1>12 DEF Accepted, Asked
<1>15. GoesOn(new.history, d)'
    BY <1>2, <1>10, <1>14 DEF GoesOn
<1>16. JobOK(new, d)'
    BY <1>14, <1>15 DEF JobOK
<1> QED
    BY <1>1, <1>2, <1>3, <1>9, <1>11, <1>13, <1>14, <1>16, GoingOn

\* A request goes on and no transcript changes.
LEMMA GoingOnQuietly ==
    ASSUME RepliesInv, NEW r \in Request, NEW new, NEW d, d = Who(r), job[r] # NoJob,
           job' = [job EXCEPT ![r] = new],
           UNCHANGED <<limitVars, config, provider, row, facts, kept, turns, own, raced, edits, transcript>>,
           JobOK(new, d)', new.at = "recording" \/ (job[r].at # "recording" /\ new.alone = job[r].alone)
    PROVE  RepliesInv'
<1>1. transcript' \in [Client -> Seq(Message)]
    BY DEF RepliesInv, ThreadsOK
<1>2. \A c \in Client : KeptOK(c)'
    BY KeptStays DEF RepliesInv
<1> QED
    BY <1>1, <1>2, GoingOn

LEMMA ReadAgentPreserves == ASSUME RepliesInv, NEW r \in Request, ReadAgent(r) PROVE RepliesInv'
<1>1. PICK d : d = Who(r)
    OBVIOUS
<1>2. /\ UNCHANGED <<limitVars, config, provider, row, facts, kept, turns, own, raced, edits, transcript>>
      /\ job[r].at = "asked"
    BY DEF ReadAgent, Reads
<1>3. job[r] # NoJob
    BY <1>2 DEF NoJob
<1>4. d \in Client /\ job[r] \in Asked /\ GoesOn(job[r].history, d)
    BY <1>1, <1>2, <1>3, JobForms DEF RepliesInv
<1>5. agent \in AgentRecord /\ edits \in Nat /\ Configured \in Systems
    BY ConfiguredSystem DEF RepliesInv, TablesOK
<1>6. PICK new : new = [at |-> "role", row |-> job[r].row, alone |-> job[r].alone,
                        history |-> job[r].history, agent |-> agent, prompt |-> "",
                        first |-> Configured, since |-> edits]
    OBVIOUS
<1>7. job' = [job EXCEPT ![r] = new]
    BY <1>6 DEF ReadAgent
<1>8. /\ new \in Reading /\ new.at = "role" /\ new.alone = job[r].alone /\ new.history = job[r].history
      /\ new.agent = agent /\ new.first = Configured /\ new.since = edits
    BY <1>4, <1>5, <1>6 DEF Asked, Reading, Words
<1>9. After(new.since, d)
    BY <1>4, <1>8 DEF RepliesInv, KeptOK, After
<1>10. PlanOK(new)
    BY <1>5, <1>8 DEF PlanOK
<1>11. JobOK(new, d)
    BY <1>4, <1>8, <1>9, <1>10 DEF JobOK
<1>12. JobOK(new, d)'
    BY <1>2, <1>11, JobStays
<1> QED
    BY <1>1, <1>2, <1>3, <1>7, <1>8, <1>12, GoingOnQuietly

\* A request that has read its role or the basic one.
LEMMA ReadOn ==
    ASSUME RepliesInv, NEW r \in Request, NEW stage \in {"basic", "sources"}, NEW text \in Words,
           job[r].at \in {"role", "basic"}, To(r, stage, text), Reads, UNCHANGED transcript,
           \A j : j = [job[r] EXCEPT !.at = stage, !.prompt = text] /\ j.agent = job[r].agent
                    /\ j.first = job[r].first /\ j.since = job[r].since
                    /\ j.at = stage /\ j.prompt = text => PlanOK(j)
    PROVE  RepliesInv'
<1>1. PICK d : d = Who(r)
    OBVIOUS
<1>2. UNCHANGED <<limitVars, config, provider, row, facts, kept, turns, own, raced, edits, transcript>>
    BY DEF Reads
<1>3. job[r] # NoJob
    BY DEF NoJob
<1>4. job[r] \in Reading /\ GoesOn(job[r].history, d) /\ After(job[r].since, d)
    BY <1>1, <1>3, JobForms DEF RepliesInv
<1>5. PICK new : new = [job[r] EXCEPT !.at = stage, !.prompt = text]
    OBVIOUS
<1>6. job' = [job EXCEPT ![r] = new]
    BY <1>5 DEF To
<1>7. /\ new \in Reading /\ new.at = stage /\ new.alone = job[r].alone /\ new.history = job[r].history
      /\ new.prompt = text /\ new.agent = job[r].agent /\ new.first = job[r].first
      /\ new.since = job[r].since
    BY <1>4, <1>5 DEF Reading
<1>8. PlanOK(new)
    BY <1>5, <1>7
<1>9. JobOK(new, d)
    BY <1>4, <1>7, <1>8 DEF JobOK
<1>10. JobOK(new, d)'
    BY <1>2, <1>9, JobStays
<1>11. job[r].at # "recording"
    OBVIOUS
<1> QED
    BY <1>1, <1>2, <1>3, <1>6, <1>7, <1>10, <1>11, GoingOnQuietly

LEMMA ReadRolePreserves == ASSUME RepliesInv, NEW r \in Request, ReadRole(r) PROVE RepliesInv'
<1>1. job[r].at = "role" /\ Reads /\ UNCHANGED transcript
    BY DEF ReadRole
<1>2. job[r] \in Reading /\ PlanOK(job[r])
    BY <1>1, JobForms DEF RepliesInv, NoJob
<1>3. PICK a : a = job[r].agent
    OBVIOUS
<1>4. a \in AgentRecord /\ job[r].since \in Nat /\ edits \in Nat
    BY <1>2, <1>3 DEF Reading, RepliesInv, TablesOK
<1>5. Configured = System(agent, Text(agent), attached)
    BY ConfiguredText
<1>6. CASE RoleServes(a)
    <2>1. To(r, "sources", prompts[a.role])
        BY <1>3, <1>6 DEF ReadRole, RoleServes
    <2>2. Text(a) = prompts[a.role] /\ prompts[a.role] \in Words
        BY <1>4, <1>6, TextType DEF RepliesInv, Text
    <2>3. ASSUME NEW j, j.agent = a, j.first = job[r].first, j.since = job[r].since, j.at = "sources",
                 j.prompt = prompts[a.role]
          PROVE  PlanOK(j)
        <3>1. Plan(j) = Plan(job[r])
            BY <1>1, <1>3, <2>2, <2>3 DEF Plan
        <3> QED
            BY <1>2, <1>3, <2>2, <2>3, <3>1 DEF PlanOK
    <2> QED
        BY <1>1, <1>3, <2>1, <2>2, <2>3, ReadOn
<1>7. CASE ~RoleServes(a)
    <2>1. To(r, "basic", "")
        BY <1>3, <1>7 DEF ReadRole, RoleServes
    <2>2. Text(a) = BasicPrompt
        BY <1>7 DEF Text
    <2>3. ASSUME NEW j, j.agent = a, j.first = job[r].first, j.since = job[r].since, j.at = "basic",
                 j.prompt = ""
          PROVE  PlanOK(j)
        <3>1. Plan(j) = Plan(job[r])
            BY <1>1, <1>3, <2>2, <2>3 DEF Plan
        <3> QED
            BY <1>2, <1>3, <1>7, <2>3, <3>1 DEF PlanOK
    <2>4. "" \in Words
        BY DEF Words
    <2> QED
        BY <1>1, <1>3, <2>1, <2>3, <2>4, ReadOn
<1> QED
    BY <1>6, <1>7

LEMMA ReadBasicPreserves == ASSUME RepliesInv, NEW r \in Request, ReadBasic(r) PROVE RepliesInv'
<1>1. job[r].at = "basic" /\ Reads /\ UNCHANGED transcript /\ To(r, "sources", BasicPrompt)
    BY DEF ReadBasic
<1>2. job[r] \in Reading /\ PlanOK(job[r])
    BY <1>1, JobForms DEF RepliesInv, NoJob
<1>3. BasicPrompt \in Words
    BY TextType DEF RepliesInv
<1>4. ASSUME NEW j, j.agent = job[r].agent, j.first = job[r].first, j.since = job[r].since,
             j.at = "sources", j.prompt = BasicPrompt
      PROVE  PlanOK(j)
    <2>1. Plan(j) = Plan(job[r])
        BY <1>1, <1>4 DEF Plan
    <2> QED
        BY <1>1, <1>2, <1>4, <2>1 DEF PlanOK, Text
<1> QED
    BY <1>1, <1>3, <1>4, ReadOn

-----------------------------------------------------------------------------
\* A set of numbers has a least one, and a bounded one has a greatest.
LEMMA LeastNumber ==
    ASSUME NEW T \in SUBSET Nat, T # {}
    PROVE  \E n \in T : \A m \in T : n <= m
<1> DEFINE R == {ss \in Nat \X Nat : ss[1] < ss[2]}
<1>1. IsWellFoundedOn(R, Nat)
    BY NatLessThanWellFounded DEF OpToRel
<1>2. \A m, n \in Nat : m < n => <<m, n>> \in R
    OBVIOUS
<1> HIDE DEF R
<1>3. PICK n \in T : \A m \in T : <<m, n>> \notin R
    BY <1>1, WFMin
<1>4. ASSUME NEW m \in T PROVE n <= m
    <2>1. m \in Nat /\ n \in Nat
        OBVIOUS
    <2>2. ~(m < n)
        BY <1>2, <1>3, <2>1
    <2> QED
        BY <2>1, <2>2
<1> QED
    BY <1>4

LEMMA GreatestNumber ==
    ASSUME NEW bound \in Nat, NEW T \in SUBSET (0 .. bound), T # {}
    PROVE  \E n \in T : \A m \in T : m <= n
<1> DEFINE Rest == {k \in 0 .. bound : bound - k \in T}
<1>1. ASSUME NEW m \in T PROVE m \in 0 .. bound /\ bound - m \in Rest
    <2>1. m \in 0 .. bound /\ bound - m \in 0 .. bound /\ bound - (bound - m) = m
        OBVIOUS
    <2> QED
        BY <2>1
<1>2. PICK k \in Rest : \A l \in Rest : k <= l
    <2>1. Rest \in SUBSET Nat
        OBVIOUS
    <2> HIDE DEF Rest
    <2>2. Rest # {}
        BY <1>1
    <2> QED
        BY <2>1, <2>2, LeastNumber
<1>3. bound - k \in T /\ k \in 0 .. bound
    OBVIOUS
<1>4. ASSUME NEW m \in T PROVE m <= bound - k
    <2>1. k <= bound - m /\ m \in 0 .. bound
        BY <1>1, <1>2
    <2> QED
        BY <1>3, <2>1
<1> QED
    BY <1>3, <1>4

\* The tokens of the first n facts of s, from those of the first n - 1.
Step(s, used, n) == IF n = 0 THEN 0 ELSE used[n - 1] + Cost[s[n]]
Adds(s, used) == used = [n \in 0 .. Len(s) |-> Step(s, used, n)]

\* The recursive definition of Tokens defines a function.
LEMMA TokensDefined ==
    ASSUME NEW s \in Seq(Fact)
    PROVE  \E used : Adds(s, used) /\ Tokens(s) = used[Len(s)]
<1> DEFINE Upto(n) == \E g : g = [i \in 0 .. n |-> Step(s, g, i)]
           N == {n \in 0 .. Len(s) : ~Upto(n)}
<1>1. Upto(0)
    <2> DEFINE g == [i \in 0 .. 0 |-> 0]
    <2>1. g = [i \in 0 .. 0 |-> Step(s, g, i)]
        BY DEF Step
    <2> QED
        BY <2>1
<1>2. ASSUME NEW n \in Nat, Upto(n) PROVE Upto(n + 1)
    <2>1. PICK g : g = [i \in 0 .. n |-> Step(s, g, i)]
        BY <1>2
    <2> DEFINE h == [i \in 0 .. n + 1 |-> IF i <= n THEN g[i] ELSE Step(s, g, i)]
    <2>2. \A i \in 0 .. n : h[i] = g[i]
        OBVIOUS
    <2>3. ASSUME NEW i \in 0 .. n + 1 PROVE h[i] = Step(s, h, i)
        <3>1. CASE i = 0
            <4>1. h[i] = g[i] /\ g[i] = Step(s, g, i)
                BY <2>1, <2>2, <3>1
            <4> QED
                BY <3>1, <4>1 DEF Step
        <3>2. CASE i # 0
            <4>1. i - 1 \in 0 .. n /\ h[i - 1] = g[i - 1]
                BY <2>2, <3>2
            <4>2. h[i] = Step(s, g, i)
                <5>1. CASE i <= n
                    BY <2>1, <2>2, <5>1
                <5>2. CASE ~(i <= n)
                    BY <5>2
                <5> QED
                    BY <5>1, <5>2
            <4> HIDE DEF h
            <4> QED
                BY <3>2, <4>1, <4>2 DEF Step
        <3> QED
            BY <3>1, <3>2
    <2>4. h = [i \in 0 .. n + 1 |-> h[i]]
        OBVIOUS
    <2> HIDE DEF h
    <2>5. h = [i \in 0 .. n + 1 |-> Step(s, h, i)]
        BY <2>3, <2>4
    <2> QED
        BY <2>5
<1> HIDE DEF Upto
<1>3. N = {}
    <2> SUFFICES ASSUME N # {} PROVE FALSE
        OBVIOUS
    <2>1. Len(s) \in Nat /\ N \in SUBSET Nat
        OBVIOUS
    <2>2. PICK n \in N : \A m \in N : n <= m
        BY <2>1, LeastNumber
    <2>3. n # 0 /\ n \in 0 .. Len(s) /\ ~Upto(n)
        BY <1>1
    <2>4. n - 1 \in Nat /\ n - 1 \in 0 .. Len(s) /\ n - 1 \notin N
        BY <2>1, <2>2, <2>3
    <2>5. Upto((n - 1) + 1)
        BY <1>2, <2>4
    <2> QED
        BY <2>3, <2>4, <2>5
<1>4. Upto(Len(s))
    BY <1>3
<1> DEFINE F == CHOOSE used : used = [n \in 0 .. Len(s) |-> IF n = 0 THEN 0 ELSE used[n - 1] + Cost[s[n]]]
<1>5. F = [n \in 0 .. Len(s) |-> IF n = 0 THEN 0 ELSE F[n - 1] + Cost[s[n]]]
    BY <1>4 DEF Upto, Step
<1>6. Tokens(s) = F[Len(s)]
    BY DEF Tokens
<1> HIDE DEF F
<1>7. Adds(s, F)
    BY <1>5 DEF Adds, Step
<1> QED
    BY <1>6, <1>7

\* Tokens are counted in natural numbers, and no facts take none.
LEMMA TokensType ==
    ASSUME NEW s \in Seq(Fact)
    PROVE  Tokens(s) \in Nat /\ (s = <<>> => Tokens(s) = 0)
<1>1. PICK used : Adds(s, used) /\ Tokens(s) = used[Len(s)]
    BY TokensDefined
<1>2. Len(s) \in Nat /\ \A n \in 1 .. Len(s) : s[n] \in Fact
    BY LenProperties, ElementOfSeq
<1>3. \A n \in 0 .. Len(s) : used[n] = Step(s, used, n)
    BY <1>1, Zenon DEF Adds
<1> DEFINE T == {n \in 0 .. Len(s) : used[n] \notin Nat}
<1>4. T = {}
    <2> SUFFICES ASSUME T # {} PROVE FALSE
        OBVIOUS
    <2>1. PICK n \in T : \A m \in T : n <= m
        <3>1. T \in SUBSET Nat
            BY <1>2
        <3> HIDE DEF T
        <3> QED
            BY <3>1, LeastNumber
    <2>2. n \in 0 .. Len(s) /\ used[n] \notin Nat
        OBVIOUS
    <2>3. n # 0
        BY <1>3, <2>2 DEF Step
    <2>4. n - 1 \in 0 .. Len(s) /\ n \in 1 .. Len(s) /\ n - 1 \notin T
        BY <1>2, <2>1, <2>2, <2>3
    <2>5. used[n - 1] \in Nat /\ Cost[s[n]] \in Nat
        BY <1>2, <2>4, RepliesAssumption
    <2>6. used[n] = used[n - 1] + Cost[s[n]]
        BY <1>3, <2>2, <2>3 DEF Step
    <2> QED
        BY <2>2, <2>5, <2>6
<1>5. used[Len(s)] \in Nat
    BY <1>2, <1>4
<1>6. s = <<>> => used[Len(s)] = 0
    BY <1>2, <1>3 DEF Step
<1> QED
    BY <1>1, <1>5, <1>6

\* The facts for a prompt fit the budget.
LEMMA InjectableFits ==
    ASSUME NEW s \in Seq(Fact), Budget \in Nat
    PROVE  Injectable(s) \in Seq(Fact) /\ Tokens(Injectable(s)) <= Budget
<1> DEFINE fits == {n \in 0 .. Len(s) : Tokens(SubSeq(s, 1, n)) <= Budget}
           Most(n) == n \in fits /\ \A k \in fits : k <= n
<1>1. Len(s) \in Nat /\ \A n \in 1 .. Len(s) : s[n] \in Fact
    BY LenProperties, ElementOfSeq
<1>2. 0 \in fits
    <2>1. SubSeq(s, 1, 0) = <<>> /\ <<>> \in Seq(Fact)
        BY SubSeqEmpty, EmptySeq
    <2>2. Tokens(SubSeq(s, 1, 0)) = 0
        BY <2>1, TokensType
    <2> QED
        BY <1>1, <2>2
<1>3. \E n : Most(n)
    BY <1>1, <1>2, GreatestNumber
<1> DEFINE best == CHOOSE n \in fits : \A k \in fits : k <= n
<1>4. best \in fits
    BY <1>3
<1>5. Injectable(s) = SubSeq(s, 1, best)
    BY DEF Injectable
<1> HIDE DEF best
<1>6. best \in 0 .. Len(s) /\ Tokens(SubSeq(s, 1, best)) <= Budget
    BY <1>4
<1>7. SubSeq(s, 1, best) \in Seq(Fact)
    BY <1>1, <1>6, SubSeqProperties
<1> QED
    BY <1>5, <1>6, <1>7

\* The budget is two fifths of the context that the provider publishes, if it was
\* reached and publishes one.
LEMMA BudgetType ==
    ASSUME provider \in Provider
    PROVE  /\ Budget \in Nat
           /\ provider.reached /\ provider.published # 0 => 10 * Budget <= 4 * provider.published
<1>1. /\ provider.published \in Nat /\ provider.reached \in BOOLEAN
      /\ provider.profile \in Nat /\ provider.configured \in Nat
    BY RepliesAssumption
<1>2. ContextTokens(provider) \in Nat
    BY <1>1 DEF ContextTokens, Discovered
<1>3. provider.reached /\ provider.published # 0 => ContextTokens(provider) = provider.published
    BY <1>1 DEF ContextTokens, Discovered
<1>4. \A n \in Nat : (n * 4) \div 10 \in Nat /\ 10 * ((n * 4) \div 10) <= 4 * n
    BY SMT
<1> QED
    BY <1>1, <1>2, <1>3, <1>4 DEF Budget

LEMMA Headed ==
    ASSUME NEW S, NEW x \in S, NEW s \in Seq(S)
    PROVE  /\ <<x>> \o s \in Seq(S) /\ <<x>> \o s # <<>> /\ Head(<<x>> \o s) = x /\ Tail(<<x>> \o s) = s
           /\ Len(<<x>> \o s) = Len(s) + 1 /\ \A i \in 1 .. Len(s) : (<<x>> \o s)[i + 1] = s[i]
<1>1. <<x>> \in Seq(S) /\ Len(<<x>>) = 1 /\ <<x>>[1] = x
    OBVIOUS
<1>2. PICK t : t = <<x>> \o s
    OBVIOUS
<1>3. /\ t \in Seq(S) /\ Len(t) = 1 + Len(s)
      /\ \A i \in 1 .. 1 + Len(s) : t[i] = IF i <= 1 THEN x ELSE s[i - 1]
    BY <1>1, <1>2, ConcatProperties
<1>4. Len(s) \in Nat
    BY LenProperties
<1>5. t # <<>> /\ t[1] = x /\ \A i \in 1 .. Len(s) : t[i + 1] = s[i]
    BY <1>3, <1>4, EmptySeq
<1>6. Head(t) = x
    BY <1>3, <1>5
<1>7. Tail(t) \in Seq(S) /\ Len(Tail(t)) = Len(s) /\ \A i \in 1 .. Len(s) : Tail(t)[i] = s[i]
    BY <1>3, <1>4, <1>5, HeadTailProperties
<1>8. Tail(t) = s
    BY <1>7, SeqEqual
<1> QED
    BY <1>2, <1>3, <1>4, <1>5, <1>6, <1>8

-----------------------------------------------------------------------------
\* What the model is asked: the system block, the history, the facts that fit and
\* the new message.
Asks(asked, system, history, s) ==
    /\ asked \in Seq(Block) /\ asked # <<>>
    /\ Head(asked) = [system |-> system] /\ IsPrefix(history, Tail(asked))
    /\ \A i \in DOMAIN asked : "memory" \in DOMAIN asked[i] => asked[i].memory = s

LEMMA PromptAsks ==
    ASSUME NEW system \in Systems, NEW history \in Seq(Message), NEW s \in Seq(Fact), NEW new \in Message
    PROVE  Asks(PromptOf(system, history, MemoryBlock(s), new), system, history, s)
<1> DEFINE Quiet(x) == "memory" \in DOMAIN x => x.memory = s
<1>1. PICK x, m : x = [system |-> system] /\ m = [memory |-> s]
    OBVIOUS
<1>2. /\ x \in Block /\ DOMAIN x = {"system"} /\ m \in Block /\ m.memory = s
      /\ \A y \in Message : y \in Block /\ DOMAIN y = {"role", "n"}
    BY <1>1 DEF Block, Message
<1>3. Quiet(x) /\ Quiet(m) /\ \A y \in Message : Quiet(y)
    BY <1>2
<1>4. history \in Seq(Block) /\ new \in Block
    BY <1>2, SeqMonotonic
<1>5. PICK memory : memory = MemoryBlock(s)
    OBVIOUS
<1>6. memory = <<>> \/ memory = <<m>>
    BY <1>1, <1>5 DEF MemoryBlock
<1>7. memory \in Seq(Block) /\ \A i \in 1 .. Len(memory) : Quiet(memory[i])
    <2>1. CASE memory = <<>>
        BY <2>1, EmptySeq
    <2>2. CASE memory = <<m>>
        <3>1. memory \in Seq(Block) /\ Len(memory) = 1 /\ memory[1] = m
            BY <1>2, <2>2
        <3> HIDE DEF Quiet
        <3> QED
            BY <1>3, <3>1
    <2> QED
        BY <1>6, <2>1, <2>2
<1>8. \A i \in 1 .. Len(history) : Quiet(history[i])
    BY <1>3, ElementOfSeq
<1> HIDE DEF Quiet
<1>9. PICK last : last = <<new>>
    OBVIOUS
<1>10. last \in Seq(Block) /\ Len(last) = 1 /\ last[1] = new
    BY <1>4, <1>9
<1>11. PICK said : said = history \o memory
    OBVIOUS
<1>12. said \in Seq(Block) /\ IsPrefix(history, said) /\ \A i \in 1 .. Len(said) : Quiet(said[i])
    <2>1. /\ said \in Seq(Block) /\ Len(said) = Len(history) + Len(memory)
          /\ \A i \in 1 .. Len(history) + Len(memory) :
               said[i] = IF i <= Len(history) THEN history[i] ELSE memory[i - Len(history)]
        BY <1>4, <1>7, <1>11, ConcatProperties
    <2>2. Len(history) \in Nat /\ Len(memory) \in Nat
        BY <1>4, <1>7, LenProperties
    <2>3. IsPrefix(history, said)
        BY <1>4, <2>1, <2>2, PrefixElements
    <2>4. ASSUME NEW i \in 1 .. Len(said) PROVE Quiet(said[i])
        <3>1. CASE i <= Len(history)
            BY <1>8, <2>1, <2>2, <3>1
        <3>2. CASE ~(i <= Len(history))
            <4>1. i - Len(history) \in 1 .. Len(memory) /\ said[i] = memory[i - Len(history)]
                BY <2>1, <2>2, <3>2
            <4> QED
                BY <1>7, <4>1
        <3> QED
            BY <3>1, <3>2
    <2> QED
        BY <2>1, <2>3, <2>4
<1>13. PICK rest : rest = said \o last
    OBVIOUS
<1>14. rest \in Seq(Block) /\ IsPrefix(history, rest) /\ \A i \in 1 .. Len(rest) : Quiet(rest[i])
    <2>1. /\ rest \in Seq(Block) /\ Len(rest) = Len(said) + 1
          /\ \A i \in 1 .. Len(said) + 1 : rest[i] = IF i <= Len(said) THEN said[i] ELSE last[i - Len(said)]
        <3>1. /\ rest \in Seq(Block) /\ Len(rest) = Len(said) + Len(last)
              /\ \A i \in 1 .. Len(said) + Len(last) :
                   rest[i] = IF i <= Len(said) THEN said[i] ELSE last[i - Len(said)]
            BY <1>10, <1>12, <1>13, ConcatProperties, Zenon
        <3> QED
            BY <1>10, <3>1, Zenon
    <2>2. Len(said) \in Nat
        BY <1>12, LenProperties
    <2>3. IsPrefix(history, rest)
        BY <1>4, <1>10, <1>12, <1>13, LongerPrefix
    <2>4. rest[Len(said) + 1] = new
        BY <1>10, <2>1, <2>2
    <2>5. ASSUME NEW i \in 1 .. Len(rest) PROVE Quiet(rest[i])
        <3>1. CASE i <= Len(said)
            BY <1>12, <2>1, <2>2, <3>1
        <3>2. CASE ~(i <= Len(said))
            <4>1. i = Len(said) + 1
                BY <2>1, <2>2, <3>2
            <4> QED
                BY <1>3, <2>4, <4>1
        <3> QED
            BY <3>1, <3>2
    <2> QED
        BY <2>1, <2>3, <2>5
<1>15. PICK asked : asked = PromptOf(system, history, MemoryBlock(s), new)
    OBVIOUS
<1>16. asked = <<x>> \o rest
    <2>1. PICK front : front = <<x>>
        OBVIOUS
    <2>2. front \in Seq(Block)
        BY <1>2, <2>1
    <2>3. asked = ((front \o history) \o memory) \o last
        BY <1>1, <1>5, <1>9, <1>15, <2>1 DEF PromptOf
    <2>4. (front \o history) \o memory = front \o said
        BY <1>4, <1>7, <1>11, <2>2, ConcatAssociative
    <2>5. (front \o said) \o last = front \o rest
        BY <1>10, <1>12, <1>13, <2>2, ConcatAssociative
    <2> QED
        BY <2>1, <2>3, <2>4, <2>5
<1>17. /\ asked \in Seq(Block) /\ asked # <<>> /\ Head(asked) = x /\ Tail(asked) = rest
       /\ Len(asked) = Len(rest) + 1 /\ \A i \in 1 .. Len(rest) : asked[i + 1] = rest[i]
    BY <1>2, <1>14, <1>16, Headed
<1>18. ASSUME NEW i \in DOMAIN asked PROVE Quiet(asked[i])
    <2>1. i \in 1 .. Len(rest) + 1 /\ Len(rest) \in Nat
        BY <1>14, <1>17, LenProperties
    <2>2. CASE i = 1
        <3>1. asked[1] = x
            BY <1>17
        <3> QED
            BY <1>3, <2>2, <3>1
    <2>3. CASE i # 1
        <3>1. i - 1 \in 1 .. Len(rest) /\ asked[(i - 1) + 1] = rest[i - 1] /\ (i - 1) + 1 = i
            BY <1>17, <2>1, <2>3
        <3> QED
            BY <1>14, <3>1
    <2> QED
        BY <2>2, <2>3
<1>19. Asks(asked, system, history, s)
    BY <1>1, <1>14, <1>17, <1>18 DEF Asks, Quiet
<1> QED
    BY <1>15, <1>19

LEMMA ReadSourcesPreserves == ASSUME RepliesInv, NEW r \in Request, ReadSources(r) PROVE RepliesInv'
<1>1. PICK d : d = Who(r)
    OBVIOUS
<1>2. /\ UNCHANGED <<limitVars, config, provider, row, facts, kept, turns, own, raced, edits>>
      /\ job[r].at = "sources"
    BY DEF ReadSources, Reads
<1>3. job[r] # NoJob
    BY <1>2 DEF NoJob
<1>4. /\ d \in Client /\ job[r] \in Reading /\ GoesOn(job[r].history, d)
      /\ After(job[r].since, d) /\ PlanOK(job[r])
    BY <1>1, <1>2, <1>3, JobForms DEF RepliesInv
<1>5. PICK history, x : history = job[r].history /\ x = NewMessage(r)
    OBVIOUS
<1>6. history \in Seq(Message) /\ x \in Message /\ GoesOn(history, d)
    BY <1>4, <1>5, LenProperties DEF Reading, NewMessage, Message
<1>7. transcript' = [transcript EXCEPT ![d] = Append(history, x)]
    BY <1>1, <1>5 DEF ReadSources, Saved
<1>8. transcript' \in [Client -> Seq(Message)]
    BY <1>4, <1>6, <1>7, AppendProperties DEF RepliesInv, ThreadsOK
<1>9. ASSUME NEW c \in Client PROVE KeptOK(c)'
    <2>1. CASE c = d
        <3>1. transcript'[c] = Append(history, x)
            BY <1>7, <2>1 DEF RepliesInv, ThreadsOK
        <3> QED
            BY <1>2, <1>6, <2>1, <3>1, KeptGoesOn DEF RepliesInv
    <2>2. CASE c # d
        <3>1. transcript'[c] = transcript[c]
            BY <1>7, <2>2 DEF RepliesInv, ThreadsOK
        <3>2. Configured' = Configured
            BY <1>2 DEF config, Configured, BasicPrompt
        <3> QED
            BY <1>2, <3>1, <3>2 DEF RepliesInv, KeptOK
    <2> QED
        BY <2>1, <2>2
<1>10. PICK new : new = [at |-> "briefed", row |-> job[r].row, alone |-> job[r].alone,
                         history |-> job[r].history,
                         system |-> System(job[r].agent, job[r].prompt, attached),
                         first |-> job[r].first, since |-> job[r].since, last |-> Configured, until |-> edits]
    OBVIOUS
<1>11. job' = [job EXCEPT ![r] = new]
    BY <1>10 DEF ReadSources
<1>12. System(job[r].agent, job[r].prompt, attached) \in Systems
    BY <1>4, InSystems DEF Reading, RepliesInv, TablesOK
<1>13. Configured \in Systems /\ edits \in Nat
    BY ConfiguredSystem DEF RepliesInv, TablesOK
<1>14. new.alone = job[r].alone /\ new.history = history /\ new.since = job[r].since
    BY <1>5, <1>10
<1>15. new \in Briefed
    BY <1>4, <1>10, <1>12, <1>13 DEF Reading, Briefed
<1>16. BriefOK(new)
    <2>1. new.system = Plan(job[r]) /\ new.first = job[r].first /\ new.last = Configured /\ new.until = edits
        BY <1>2, <1>10 DEF Plan
    <2>2. edits = job[r].since => new.system = Configured /\ new.first = Configured
        BY <1>2, <1>4, <1>10, <2>1, ConfiguredText DEF PlanOK
    <2>3. edits = job[r].since + 1 => new.system \in {new.first, new.last}
        BY <1>4, <2>1 DEF PlanOK
    <2>4. job[r].since \in Nat /\ job[r].since <= edits
        BY <1>4 DEF Reading, PlanOK
    <2> QED
        BY <1>13, <1>14, <2>1, <2>2, <2>3, <2>4 DEF BriefOK
<1>17. JobOK(new, d)
    BY <1>4, <1>5, <1>14, <1>15, <1>16 DEF JobOK
<1>18. JobOK(new, d)'
    BY <1>2, <1>17, JobStays
<1>19. job[r].at # "recording"
    BY <1>2
<1> QED
    BY <1>1, <1>2, <1>3, <1>8, <1>9, <1>11, <1>14, <1>18, <1>19, GoingOn

\* Who is alone with a thread does not share it.
LEMMA Alone ==
    ASSUME RepliesInv, NEW r \in Request, job[r] # NoJob, job[r].at # "recording", job[r].alone,
           NEW q \in Request, q # r, job[q] # NoJob
    PROVE  Who(q) # Who(r)
    BY DEF RepliesInv, AloneOK

LEMMA RespondPreserves == ASSUME RepliesInv, NEW r \in Request, Respond(r) PROVE RepliesInv'
<1>1. PICK d : d = Who(r)
    OBVIOUS
<1>2. /\ UNCHANGED <<limitVars, config, provider, row, facts, turns, own, raced, edits>>
      /\ job[r].at = "briefed"
    BY DEF Respond
<1>3. /\ UNCHANGED <<agent, prompts, attached>> /\ UNCHANGED <<now, hits, gate, passed>>
    BY <1>2 DEF config, limitVars
<1>4. job[r] # NoJob
    BY <1>2 DEF NoJob
<1>5. /\ d \in Client /\ job[r] \in Briefed /\ GoesOn(job[r].history, d)
      /\ After(job[r].since, d) /\ BriefOK(job[r])
    BY <1>1, <1>2, <1>4, JobForms DEF RepliesInv
<1>6. /\ job[r].history \in Seq(Message) /\ job[r].system \in Systems /\ job[r].since \in Nat
      /\ job[r].until \in Nat /\ job[r].alone \in BOOLEAN /\ job[r].row \in ThreadRow
    BY <1>5 DEF Briefed
<1>7. PICK saved : saved = Saved(r)
    OBVIOUS
<1>8. saved \in Seq(Message) /\ NewMessage(r) \in Message
    BY <1>6, <1>7, Said, LenProperties DEF Saved, NewMessage, Message
<1>9. PICK answered : answered = Append(saved, [role |-> "assistant", n |-> Len(saved) + 1])
    OBVIOUS
<1>10. answered \in Seq(Message)
    BY <1>8, <1>9, Said
<1>11. transcript' = [transcript EXCEPT ![d] = answered]
    BY <1>1, <1>7, <1>9 DEF Respond
<1>12. facts[d] \in Seq(Fact) /\ provider \in Provider /\ edits \in Nat
    BY <1>5 DEF RepliesInv, ThreadsOK, TablesOK
<1>13. PICK s : s = Injectable(facts[d])
    OBVIOUS
<1>14. s \in Seq(Fact) /\ Tokens(s) <= Budget
    BY <1>12, <1>13, BudgetType, InjectableFits
<1>15. PICK asked : asked = PromptOf(job[r].system, job[r].history, MemoryBlock(s), NewMessage(r))
    OBVIOUS
<1>16. Asks(asked, job[r].system, job[r].history, s)
    BY <1>6, <1>8, <1>14, <1>15, PromptAsks
<1>17. Fits(asked)
    <2>1. \A i \in DOMAIN asked : "memory" \in DOMAIN asked[i] => asked[i].memory = s
        BY <1>16 DEF Asks
    <2>2. Tokens(s) \in Nat /\ Budget \in Nat
        BY <1>12, <1>14, TokensType, BudgetType
    <2>3. provider.reached /\ provider.published # 0 => 10 * Budget <= 4 * provider.published
        BY <1>12, BudgetType
    <2>4. provider.published \in Nat
        BY <1>12, RepliesAssumption
    <2>5. provider.reached /\ provider.published # 0 => 10 * Tokens(s) <= 4 * provider.published
        BY <1>14, <2>2, <2>3, <2>4
    <2> QED
        BY <2>1, <2>5 DEF Fits
<1>18. PICK new : new = [at |-> "answered", row |-> job[r].row, alone |-> job[r].alone,
                         asked |-> asked, since |-> job[r].since]
    OBVIOUS
<1>19. job' = [job EXCEPT ![r] = new]
    BY <1>1, <1>13, <1>15, <1>18 DEF Respond
<1>20. new \in Answered /\ new.asked = asked /\ new.alone = job[r].alone
    BY <1>6, <1>16, <1>18 DEF Answered, Asks
<1>21. JobOK(new, d)'
    <2>1. Fits(asked)'
        BY <1>2, <1>17 DEF Fits
    <2> QED
        BY <1>20, <2>1 DEF JobOK
<1>22. PICK first : first = [system |-> job[r].system]
    OBVIOUS
<1>23. PICK prompt : prompt = <<first>> \o answered
    OBVIOUS
<1>24. prompt # <<>> /\ Head(prompt) = first /\ Tail(prompt) = answered
    <2>1. first \in Block /\ \A y \in Message : y \in Block
        BY <1>6, <1>22 DEF Block
    <2>2. answered \in Seq(Block)
        BY <1>10, <2>1, SeqMonotonic
    <2> QED
        BY <1>23, <2>1, <2>2, Headed
<1>25. kept' = [kept EXCEPT ![d] = IF job[r].alone THEN [prompt |-> prompt, edits |-> job[r].since]
                                   ELSE [prompt |-> <<>>, edits |-> 0]]
    BY <1>1, <1>7, <1>9, <1>22, <1>23 DEF Respond
<1>26. /\ DOMAIN kept' = Client /\ \A c \in Client : c # d => kept'[c] = kept[c]
       /\ job[r].alone => kept'[d] = [prompt |-> prompt, edits |-> job[r].since]
       /\ ~job[r].alone => kept'[d].prompt = <<>>
    BY <1>5, <1>25 DEF RepliesInv, ThreadsOK
<1>27. Configured' = Configured
    BY <1>3 DEF Configured, BasicPrompt
<1>28. LimitInv' /\ TablesOK' /\ MetadataKept'
    BY <1>2, <1>3, LimitStep DEF RepliesInv, TablesOK, MetadataKept
<1>29. ThreadsOK'
    <2>1. transcript' \in [Client -> Seq(Message)]
        BY <1>10, <1>11 DEF RepliesInv, ThreadsOK
    <2> QED
        BY <1>2, <1>26, <2>1 DEF RepliesInv, ThreadsOK
<1>30. ASSUME NEW c \in Client PROVE KeptOK(c)'
    <2>1. CASE c # d
        <3>1. transcript'[c] = transcript[c] /\ kept'[c] = kept[c]
            BY <1>11, <1>26, <2>1 DEF RepliesInv, ThreadsOK
        <3> QED
            BY <1>2, <1>27, <3>1 DEF RepliesInv, KeptOK
    <2>2. CASE c = d /\ ~job[r].alone
        BY <1>26, <2>2 DEF KeptOK
    <2>3. CASE c = d /\ job[r].alone
        <3>1. kept'[c].prompt = prompt /\ kept'[c].edits = job[r].since /\ transcript'[c] = answered
            BY <1>11, <1>26, <2>3 DEF RepliesInv, ThreadsOK
        <3>2. IsPrefix(answered, answered)
            BY <1>10, PrefixElements, LenProperties
        <3>3. job[r].since <= edits
            BY <1>5, <1>6, <1>12 DEF BriefOK
        <3>4. edits = job[r].since => first = [system |-> Configured]
            BY <1>5, <1>22 DEF BriefOK
        <3> QED
            BY <1>2, <1>6, <1>10, <1>24, <1>27, <3>1, <3>2, <3>3, <3>4 DEF KeptOK
    <2> QED
        BY <2>1, <2>2, <2>3
<1>31. ASSUME NEW q \in Request, NEW j, NEW c, q # r, job[q] # NoJob, j = job[q], c = Who(q)
       PROVE  JobOK(j, c)'
    <2>1. JobOK(j, c) /\ c \in Client
        BY <1>31 DEF RepliesInv, JobsOK
    <2>2. Plan(j)' = Plan(j) /\ RoleServes(agent)' = RoleServes(agent) /\ Text(agent)' = Text(agent)
        BY <1>3 DEF Plan, Text, RoleServes, BasicPrompt
    <2>3. /\ PlanOK(j) => PlanOK(j)'
          /\ BriefOK(j) => BriefOK(j)'
          /\ RowOK(j, c) => RowOK(j, c)'
          /\ Fits(j.asked) => Fits(j.asked)'
        BY <1>2, <1>3, <1>27, <2>2 DEF PlanOK, BriefOK, RowOK, Fits
    <2>4. kept'[c] = kept[c] \/ kept'[c].prompt = <<>>
        <3>1. CASE job[r].alone
            BY <1>1, <1>2, <1>4, <1>26, <1>31, <2>1, <3>1, Alone
        <3>2. CASE ~job[r].alone
            BY <1>26, <2>1, <3>2
        <3> QED
            BY <1>6, <3>1, <3>2
    <2>5. \A h, n : (GoesOn(h, c) => GoesOn(h, c)') /\ (After(n, c) => After(n, c)')
        BY <2>4 DEF GoesOn, After
    <2> QED
        BY <2>1, <2>3, <2>5 DEF JobOK
<1>32. job[r].at # "recording"
    BY <1>2
<1>33. JobsOK' /\ AloneOK'
    BY <1>1, <1>3, <1>4, <1>19, <1>20, <1>21, <1>31, <1>32, OneJob DEF RepliesInv
<1> QED
    BY <1>28, <1>29, <1>30, <1>33 DEF RepliesInv

LEMMA RecordReadPreserves == ASSUME RepliesInv, NEW r \in Request, RecordRead(r) PROVE RepliesInv'
<1>1. PICK d : d = Who(r)
    OBVIOUS
<1>2. /\ UNCHANGED <<limitVars, config, provider, row, facts, kept, turns, own, raced, edits, transcript>>
      /\ job[r].at = "answered"
    BY DEF RecordRead, threadVars
<1>3. job[r] # NoJob
    BY <1>2 DEF NoJob
<1>4. d \in Client /\ row[d] \in ThreadRow
    BY <1>1, <1>3, JobForms DEF RepliesInv, ThreadsOK
<1>5. PICK new : new = [at |-> "recording", row |-> row[d]]
    OBVIOUS
<1>6. job' = [job EXCEPT ![r] = new]
    BY <1>1, <1>5 DEF RecordRead, FreshRow
<1>7. new \in Recorded /\ new.at = "recording" /\ new.row = row[d]
    BY <1>4, <1>5 DEF Recorded
<1>8. JobOK(new, d)
    BY <1>7 DEF JobOK, RowOK
<1>9. JobOK(new, d)'
    BY <1>2, <1>8, JobStays
<1> QED
    BY <1>1, <1>2, <1>3, <1>6, <1>7, <1>9, GoingOnQuietly

LEMMA DropPreserves == ASSUME RepliesInv, NEW r \in Request, Drop(r) PROVE RepliesInv'
<1>1. PICK d : d = Who(r)
    OBVIOUS
<1>2. /\ UNCHANGED <<config, provider, threadVars, edits>> /\ job[r] # NoJob
      /\ job' = [job EXCEPT ![r] = NoJob] /\ LeaveGate(r)
    BY DEF Drop
<1>3. /\ UNCHANGED <<agent, prompts, attached>>
      /\ UNCHANGED <<row, transcript, facts, kept, turns, own, raced>>
    BY <1>2 DEF config, threadVars
<1>4. LimitInv'
    BY <1>2, LimitStep DEF RepliesInv, LimitNext
<1>5. TablesOK' /\ ThreadsOK' /\ MetadataKept' /\ \A c \in Client : KeptOK(c)'
    BY <1>2, <1>3, KeptStays DEF RepliesInv, TablesOK, ThreadsOK, MetadataKept
<1>6. \A q \in Request : q # r => gate'[q] = gate[q]
    BY <1>2 DEF LeaveGate, RepliesInv, LimitInv, LimitTypeOK
<1>7. \A q \in Request : \A j, c : job[q] # NoJob /\ j = job[q] /\ c = Who(q) => JobOK(j, c)'
    BY <1>2, <1>3, JobStays DEF RepliesInv, JobsOK
<1>8. JobsOK' /\ AloneOK'
    BY <1>1, <1>2, <1>6, <1>7, OneJob DEF RepliesInv
<1> QED
    BY <1>4, <1>5, <1>8 DEF RepliesInv

LEMMA RecordCommitPreserves == ASSUME RepliesInv, NEW r \in Request, RecordCommit(r) PROVE RepliesInv'
<1>1. PICK d, old : d = Who(r) /\ old = job[r].row
    OBVIOUS
<1>2. /\ UNCHANGED <<config, provider, transcript, facts, kept, own, edits>> /\ job[r].at = "recording"
      /\ job' = [job EXCEPT ![r] = NoJob] /\ LeaveGate(r)
    BY DEF RecordCommit
<1>3. UNCHANGED <<agent, prompts, attached>>
    BY <1>2 DEF config
<1>4. job[r] # NoJob
    BY <1>2 DEF NoJob
<1>5. d \in Client /\ old \in ThreadRow /\ RowOK(job[r], d)
    BY <1>1, <1>2, <1>4, JobForms DEF RepliesInv, Recorded
<1>6. PICK derived \in {"derived", Default} :
          row' = [row EXCEPT ![d] = [title |-> IF Titled(old.title) THEN row[d].title ELSE derived,
                                     count |-> old.count + 2]]
    BY <1>1 DEF RecordCommit
<1>7. PICK new : new = [title |-> IF Titled(old.title) THEN row[d].title ELSE derived, count |-> old.count + 2]
    OBVIOUS
<1>8. row' = [row EXCEPT ![d] = new]
    BY <1>6, <1>7
<1>9. /\ row \in [Client -> ThreadRow] /\ turns \in [Client -> Nat] /\ raced \in [Client -> BOOLEAN]
      /\ row[d].title \in Title \cup {Default, "derived"} /\ row[d].count \in Nat /\ old.count \in Nat
    BY <1>5 DEF RepliesInv, ThreadsOK, ThreadRow
<1>10. new \in ThreadRow
    BY <1>7, <1>9 DEF ThreadRow
<1>11. PICK race \in BOOLEAN : race = (raced[d] \/ Recording(d) # {r})
    OBVIOUS
<1>12. turns' = [turns EXCEPT ![d] = turns[d] + 1]
    BY <1>1 DEF RecordCommit
<1>13. raced' = [raced EXCEPT ![d] = race]
    <2>1. raced' = [raced EXCEPT ![d] = (raced[d] \/ Recording(d) # {r})]
        BY <1>1, Zenon DEF RecordCommit
    <2> QED
        BY <1>11, <2>1, Zenon
<1>14. /\ row'[d] = new /\ turns'[d] = turns[d] + 1 /\ raced'[d] = race
       /\ \A c \in Client : c # d => row'[c] = row[c] /\ turns'[c] = turns[c] /\ raced'[c] = raced[c]
    BY <1>5, <1>8, <1>9, <1>12, <1>13
<1>15. LimitInv'
    BY <1>2, LimitStep DEF RepliesInv, LimitNext
<1>16. ThreadsOK'
    <2>1. row' \in [Client -> ThreadRow]
        BY <1>8, <1>9, <1>10
    <2>2. turns' \in [Client -> Nat] /\ raced' \in [Client -> BOOLEAN]
        BY <1>5, <1>9, <1>12, <1>13
    <2> QED
        BY <1>2, <2>1, <2>2 DEF RepliesInv, ThreadsOK
<1>17. TablesOK' /\ \A c \in Client : KeptOK(c)'
    BY <1>2, <1>3, KeptStays DEF RepliesInv, TablesOK
<1>18. MetadataKept'
    <2>1. ASSUME NEW c \in Client, ~raced'[c]
          PROVE  row'[c].count = 2 * turns'[c] /\ (Titled(own[c]) /\ own[c] # "" => row'[c].title = own[c])
        <3>1. CASE c # d
            BY <1>14, <2>1, <3>1 DEF RepliesInv, MetadataKept
        <3>2. CASE c = d
            <4>1. ~raced[d]
                <5>1. ~race
                    BY <1>14, <2>1, <3>2
                <5> QED
                    BY <1>11, <5>1
            <4>2. old.count = row[d].count /\ (~Titled(old.title) => row[d].title = old.title)
                BY <1>1, <1>5, <4>1 DEF RowOK
            <4>3. row[d].count = 2 * turns[d] /\ (Titled(own[d]) /\ own[d] # "" => row[d].title = own[d])
                BY <1>5, <4>1 DEF RepliesInv, MetadataKept
            <4>4. row'[d].count = old.count + 2 /\ turns[d] \in Nat
                BY <1>5, <1>7, <1>9, <1>14
            <4>5. 2 * (turns[d] + 1) = 2 * turns[d] + 2
                BY <4>4
            <4>6. row'[d].count = 2 * turns'[d]
                BY <1>14, <4>2, <4>3, <4>4, <4>5
            <4>7. ASSUME Titled(own[d]), own[d] # "" PROVE row'[d].title = own[d]
                <5>1. Titled(old.title)
                    BY <4>2, <4>3, <4>7, Zenon
                <5>2. row'[d].title = row[d].title
                    BY <1>7, <1>14, <5>1
                <5> QED
                    BY <4>3, <4>7, <5>2
            <4> QED
                BY <3>2, <4>6, <4>7
        <3> QED
            BY <3>1, <3>2
    <2>2. own' = own
        BY <1>2
    <2> QED
        BY <2>1, <2>2, Zenon DEF MetadataKept
<1>19. \A q \in Request : q # r => gate'[q] = gate[q]
    BY <1>2 DEF LeaveGate, RepliesInv, LimitInv, LimitTypeOK
<1>20. ASSUME NEW q \in Request, NEW j, NEW c, q # r, job[q] # NoJob, j = job[q], c = Who(q)
       PROVE  JobOK(j, c)'
    <2>1. JobOK(j, c) /\ c \in Client
        BY <1>20 DEF RepliesInv, JobsOK
    <2>2. ASSUME j \in Recorded PROVE RowOK(j, c)'
        <3>1. CASE c = d
            <4>1. q \in Recording(d)
                BY <1>20, <2>2, <3>1 DEF Recording, Busy, Recorded
            <4>2. Recording(d) # {r}
                BY <1>20, <4>1
            <4>3. race
                BY <1>11, <4>2
            <4> QED
                BY <1>14, <3>1, <4>3 DEF RowOK
        <3>2. CASE c # d
            <4>1. RowOK(j, c)
                BY <2>1, <2>2 DEF JobOK, Accepted, Asked, Reading, Briefed, Answered, Recorded
            <4> QED
                BY <1>14, <2>1, <3>2, <4>1 DEF RowOK
        <3> QED
            BY <3>1, <3>2
    <2> QED
        BY <1>2, <2>1, <2>2, JobStaysBut
<1>21. JobsOK' /\ AloneOK'
    BY <1>1, <1>2, <1>4, <1>19, <1>20, OneJob DEF RepliesInv
<1> QED
    BY <1>15, <1>16, <1>17, <1>18, <1>21 DEF RepliesInv

-----------------------------------------------------------------------------
LEMMA RestartPreserves == ASSUME RepliesInv, NEW p \in Provider, Restart(p) PROVE RepliesInv'
<1>1. /\ UNCHANGED <<now, hits, passed, config, threadVars, edits>> /\ provider' = p
      /\ gate' = [r \in Request |-> Outside] /\ job' = [r \in Request |-> NoJob]
    BY DEF Restart
<1>2. /\ UNCHANGED <<agent, prompts, attached>>
      /\ UNCHANGED <<row, transcript, facts, kept, turns, own, raced>>
    BY <1>1 DEF config, threadVars
<1>3. LimitInv'
    <2>1. LimitTypeOK'
        BY <1>1 DEF RepliesInv, LimitInv, LimitTypeOK, Outside
    <2>2. WindowLimit' /\ PassedAtStarts'
        BY <1>1 DEF RepliesInv, LimitInv, WindowLimit, PassedAtStarts
    <2>3. Counted'
        BY <1>1 DEF RepliesInv, LimitInv, Counted
    <2> QED
        BY <2>1, <2>2, <2>3 DEF LimitInv
<1>4. Configured' = Configured
    BY <1>2 DEF Configured, BasicPrompt
<1>5. TablesOK' /\ ThreadsOK' /\ MetadataKept' /\ \A c \in Client : KeptOK(c)'
    BY <1>1, <1>2, <1>4 DEF RepliesInv, TablesOK, ThreadsOK, MetadataKept, KeptOK
<1>6. JobsOK' /\ AloneOK'
    BY <1>1 DEF JobsOK, AloneOK
<1> QED
    BY <1>3, <1>5, <1>6 DEF RepliesInv

LEMMA RenamePreserves ==
    ASSUME RepliesInv, NEW c \in Client, NEW title \in Title, Rename(c, title) PROVE RepliesInv'
<1>1. UNCHANGED <<limitVars, config, provider, transcript, facts, kept, turns, job, edits>>
    BY DEF Rename, Other
<1>2. UNCHANGED <<agent, prompts, attached>> /\ UNCHANGED <<now, hits, gate, passed>>
    BY <1>1 DEF config, limitVars
<1>3. row \in [Client -> ThreadRow] /\ raced \in [Client -> BOOLEAN] /\ DOMAIN own = Client
    BY DEF RepliesInv, ThreadsOK
<1>4. PICK late \in BOOLEAN : late = (raced[c] \/ \E r \in Recording(c) : ~Titled(job[r].row.title))
    OBVIOUS
<1>5. raced' = [raced EXCEPT ![c] = late]
    <2>1. raced' = [raced EXCEPT ![c] = (raced[c] \/ \E r \in Recording(c) : ~Titled(job[r].row.title))]
        BY Zenon DEF Rename
    <2> QED
        BY <1>4, <2>1, Zenon
<1>6. PICK new : new = [row[c] EXCEPT !.title = title]
    OBVIOUS
<1>7. row' = [row EXCEPT ![c] = new] /\ own' = [own EXCEPT ![c] = title]
    BY <1>6 DEF Rename
<1>8. new \in ThreadRow /\ new.title = title /\ new.count = row[c].count
    BY <1>3, <1>6 DEF ThreadRow
<1>9. /\ row'[c] = new /\ own'[c] = title /\ raced'[c] = late /\ (~late => ~raced[c])
      /\ \A d \in Client : d # c => row'[d] = row[d] /\ own'[d] = own[d] /\ raced'[d] = raced[d]
    BY <1>3, <1>4, <1>5, <1>7
<1>10. LimitInv' /\ TablesOK' /\ \A d \in Client : KeptOK(d)'
    BY <1>1, <1>2, LimitStep, KeptStays DEF RepliesInv, TablesOK
<1>11. ThreadsOK'
    BY <1>1, <1>3, <1>5, <1>7, <1>8 DEF RepliesInv, ThreadsOK
<1>12. MetadataKept'
    <2>1. ASSUME NEW d \in Client, ~raced'[d]
          PROVE  row'[d].count = 2 * turns[d] /\ (Titled(own'[d]) /\ own'[d] # "" => row'[d].title = own'[d])
        <3>1. row[d].count = 2 * turns[d] /\ (Titled(own[d]) /\ own[d] # "" => row[d].title = own[d])
            BY <1>9, <2>1 DEF RepliesInv, MetadataKept
        <3> QED
            BY <1>8, <1>9, <3>1
    <2> QED
        BY <1>1, <2>1, Zenon DEF MetadataKept
<1>13. ASSUME NEW q \in Request, NEW j, NEW d, job[q] # NoJob, j = job[q], d = Who(q)
       PROVE  JobOK(j, d)'
    <2>1. JobOK(j, d) /\ d \in Client
        BY <1>13 DEF RepliesInv, JobsOK
    <2>2. ASSUME j \in Recorded PROVE RowOK(j, d)'
        <3>1. RowOK(j, d)
            BY <2>1, <2>2 DEF JobOK, Accepted, Asked, Reading, Briefed, Answered, Recorded
        <3>2. CASE d # c
            BY <1>9, <2>1, <3>1, <3>2 DEF RowOK
        <3>3. CASE d = c
            <4>1. q \in Recording(c)
                BY <1>13, <2>2, <3>3 DEF Recording, Busy, Recorded
            <4>2. ~late => Titled(j.row.title)
                BY <1>4, <1>13, <4>1
            <4> QED
                BY <1>8, <1>9, <3>1, <3>3, <4>2 DEF RowOK
        <3> QED
            BY <3>2, <3>3
    <2> QED
        BY <1>1, <2>1, <2>2, JobStaysBut
<1>14. JobsOK' /\ AloneOK'
    BY <1>1, <1>2, <1>13, JobsUntouched DEF RepliesInv
<1> QED
    BY <1>10, <1>11, <1>12, <1>14 DEF RepliesInv

LEMMA LearnPreserves ==
    ASSUME RepliesInv, NEW c \in Client, NEW f \in Fact, Learn(c, f) PROVE RepliesInv'
<1>1. UNCHANGED <<limitVars, provider, config, row, transcript, kept, turns, own, raced, job, edits>>
    BY DEF Learn, Other
<1>2. UNCHANGED <<agent, prompts, attached>> /\ UNCHANGED <<now, hits, gate, passed>>
    BY <1>1 DEF config, limitVars
<1>3. facts' \in [Client -> Seq(Fact)]
    <2>1. facts \in [Client -> Seq(Fact)] /\ facts[c] \in Seq(Fact)
        BY DEF RepliesInv, ThreadsOK
    <2>2. PICK new : new = Append(facts[c], f)
        OBVIOUS
    <2>3. new \in Seq(Fact) /\ facts' = [facts EXCEPT ![c] = new]
        BY <2>1, <2>2, AppendProperties DEF Learn
    <2> QED
        BY <2>1, <2>3
<1>4. LimitInv' /\ TablesOK' /\ ThreadsOK' /\ MetadataKept' /\ \A d \in Client : KeptOK(d)'
    BY <1>1, <1>2, <1>3, LimitStep, KeptStays DEF RepliesInv, TablesOK, ThreadsOK, MetadataKept
<1>5. \A q \in Request : \A j, d : job[q] # NoJob /\ j = job[q] /\ d = Who(q) => JobOK(j, d)'
    BY <1>1, JobStays DEF RepliesInv, JobsOK
<1>6. JobsOK' /\ AloneOK'
    BY <1>1, <1>2, <1>5, JobsUntouched DEF RepliesInv
<1> QED
    BY <1>4, <1>6 DEF RepliesInv

-----------------------------------------------------------------------------
\* The agent is edited: what a request has read is now one edit behind.
LEMMA Edited ==
    ASSUME RepliesInv, Edit, TablesOK',
           \A j : j \in Reading /\ PlanOK(j) /\ edits = j.since => Plan(j)' \in {j.first, Configured'}
    PROVE  RepliesInv'
<1>1. UNCHANGED <<limitVars, provider, threadVars, job>> /\ edits' = edits + 1
    BY DEF Edit, Other
<1>2. /\ UNCHANGED <<now, hits, gate, passed>>
      /\ UNCHANGED <<row, transcript, facts, kept, turns, own, raced>>
    BY <1>1 DEF limitVars, threadVars
<1>3. edits \in Nat
    BY DEF RepliesInv, TablesOK
<1>4. LimitInv' /\ ThreadsOK' /\ MetadataKept'
    BY <1>1, <1>2, LimitStep DEF RepliesInv, ThreadsOK, MetadataKept
<1>5. \A c \in Client : KeptOK(c)'
    BY <1>1, <1>2, <1>3 DEF RepliesInv, KeptOK
<1>6. ASSUME NEW q \in Request, NEW j, NEW c, job[q] # NoJob, j = job[q], c = Who(q)
      PROVE  JobOK(j, c)'
    <2>1. JobOK(j, c) /\ c \in Client
        BY <1>6 DEF RepliesInv, JobsOK
    <2>2. ASSUME j \in Reading, PlanOK(j) PROVE PlanOK(j)'
        <3>1. j.since \in Nat /\ j.since <= edits
            BY <2>2 DEF Reading, PlanOK
        <3>2. j.since <= edits' /\ edits' # j.since /\ (edits' = j.since + 1 => edits = j.since)
            BY <1>1, <1>3, <3>1
        <3> QED
            BY <2>2, <3>2 DEF PlanOK
    <2>3. ASSUME j \in Briefed, BriefOK(j) PROVE BriefOK(j)'
        <3>1. j.since \in Nat /\ j.until \in Nat
            BY <2>3 DEF Briefed
        <3>2. j.until <= edits' /\ edits' # j.since
            BY <1>1, <1>3, <2>3, <3>1 DEF BriefOK
        <3> QED
            BY <2>3, <3>2 DEF BriefOK
    <2>4. \A h, n : (GoesOn(h, c) => GoesOn(h, c)') /\ (After(n, c) => After(n, c)')
        BY <1>2 DEF GoesOn, After
    <2>5. \A asked : Fits(asked) => Fits(asked)'
        BY <1>1 DEF Fits
    <2>6. RowOK(j, c) => RowOK(j, c)'
        BY <1>2 DEF RowOK
    <2> QED
        BY <2>1, <2>2, <2>3, <2>4, <2>5, <2>6 DEF JobOK
<1>7. JobsOK' /\ AloneOK'
    BY <1>1, <1>2, <1>6, JobsUntouched DEF RepliesInv
<1> QED
    BY <1>4, <1>5, <1>7 DEF RepliesInv

\* What a request that has read what there is makes of it, wherever it is.
LEMMA PlanNow ==
    ASSUME NEW j, j \in Reading, PlanOK(j), edits = j.since
    PROVE  /\ j.agent = agent /\ j.first = System(agent, Text(agent), attached)
           /\ j.at \in {"role", "basic", "sources"}
           /\ j.at = "basic" => ~RoleServes(agent)
           /\ j.at = "sources" => j.prompt = Text(agent)
    BY ConfiguredText DEF PlanOK, Reading

LEMMA EditTypes == ASSUME RepliesInv, Edit PROVE edits' \in Nat /\ provider' \in Provider
<1>1. edits \in Nat /\ provider \in Provider
    BY DEF RepliesInv, TablesOK
<1>2. edits' = edits + 1 /\ provider' = provider
    BY DEF Edit, Other
<1> QED
    BY <1>1, <1>2

\* The next configuration, of tables of which one has changed.
LEMMA NextConfigured == Configured' = System(agent', Text(agent)', attached')
<1>1. (Configured = System(agent, Text(agent), attached))'
    BY ConfiguredText, PTL
<1> QED
    BY <1>1

LEMMA EditAgentPreserves ==
    ASSUME RepliesInv, NEW a \in AgentRow, EditAgent(a) PROVE RepliesInv'
<1>1. agent' = a /\ Edit /\ UNCHANGED <<prompts, attached>>
    BY DEF EditAgent
<1>2. edits' \in Nat /\ provider' \in Provider
    BY <1>1, EditTypes
<1>3. a \in AgentRecord
    BY RepliesAssumption DEF AgentRecord
<1>4. TablesOK'
    BY <1>1, <1>2, <1>3 DEF EditAgent, RepliesInv, TablesOK
<1>5. ASSUME NEW j, j \in Reading, PlanOK(j), edits = j.since
      PROVE  Plan(j)' = j.first
    <2>1. BasicPrompt' = BasicPrompt /\ Text(j.agent)' = Text(j.agent)
        BY <1>1 DEF Text, RoleServes, BasicPrompt
    <2> QED
        BY <1>1, <1>5, <2>1, PlanNow DEF Plan, Text
<1> QED
    BY <1>1, <1>4, <1>5, Edited

LEMMA EditPromptPreserves ==
    ASSUME RepliesInv, NEW k \in Role \cup {"basic"}, NEW text \in Prompt, EditPrompt(k, text)
    PROVE  RepliesInv'
<1>1. prompts' = [prompts EXCEPT ![k] = text] /\ Edit /\ UNCHANGED <<agent, attached>>
    BY DEF EditPrompt
<1>2. edits' \in Nat /\ provider' \in Provider
    BY <1>1, EditTypes
<1>3. prompts \in [Role \cup {"basic"} -> Words] /\ text \in Words /\ text # Gone /\ agent \in AgentRecord
    BY RepliesAssumption DEF RepliesInv, TablesOK, Words, Gone
<1>4. prompts' \in [Role \cup {"basic"} -> Words]
    BY <1>1, <1>3
<1>5. /\ prompts'[k] = text /\ \A l \in Role \cup {"basic"} : l # k => prompts'[l] = prompts[l]
    BY <1>1, <1>3
<1>6. agent.role = "" \/ agent.role \in Role
    BY <1>3 DEF AgentRecord
<1>7. TablesOK'
    <2>1. agent.role = "" \/ prompts'[agent.role] # Gone
        BY <1>3, <1>5, <1>6 DEF RepliesInv, TablesOK
    <2> QED
        BY <1>1, <1>2, <1>4, <2>1 DEF RepliesInv, TablesOK
<1>8. Configured' = System(agent, Text(agent)', attached)
    BY <1>1, NextConfigured
<1>9. ASSUME NEW j, j \in Reading, PlanOK(j), edits = j.since
      PROVE  Plan(j)' \in {j.first, Configured'}
    <2>1. CASE j.at = "role"
        BY <1>1, <1>8, <1>9, <2>1, PlanNow DEF Plan
    <2>2. CASE j.at = "sources"
        BY <1>1, <1>9, <2>2, PlanNow DEF Plan
    <2>3. CASE j.at = "basic"
        <3>1. Plan(j)' = System(agent, BasicPrompt', attached)
            BY <1>1, <1>9, <2>3, PlanNow DEF Plan
        <3>2. ~RoleServes(agent) /\ j.first = System(agent, BasicPrompt, attached)
            BY <1>9, <2>3, PlanNow DEF Text
        <3>3. CASE k = "basic"
            <4>1. agent.role # k
                BY <1>6, <3>3, RepliesAssumption
            <4>2. RoleServes(agent)' = RoleServes(agent)
                BY <1>1, <1>5, <1>6, <4>1 DEF RoleServes
            <4>3. Text(agent)' = BasicPrompt'
                BY <1>1, <3>2, <4>2 DEF Text
            <4> QED
                BY <1>8, <3>1, <4>3
        <3>4. CASE k # "basic"
            <4>1. prompts'["basic"] = prompts["basic"]
                BY <1>5, <3>4
            <4>2. BasicPrompt' = BasicPrompt
                BY <4>1 DEF BasicPrompt
            <4> QED
                BY <3>1, <3>2, <4>2
        <3> QED
            BY <3>3, <3>4
    <2> QED
        BY <1>9, <2>1, <2>2, <2>3, PlanNow
<1> QED
    BY <1>1, <1>7, <1>9, Edited

LEMMA DeleteRolePreserves ==
    ASSUME RepliesInv, NEW k \in Role, DeleteRole(k) PROVE RepliesInv'
<1>1. /\ prompts' = [prompts EXCEPT ![k] = Gone] /\ agent' = Unset(k) /\ Edit /\ UNCHANGED attached
    BY DEF DeleteRole
<1>2. edits' \in Nat /\ provider' \in Provider
    BY <1>1, EditTypes
<1>3. prompts \in [Role \cup {"basic"} -> Words] /\ Gone \in Words /\ agent \in AgentRecord
    BY DEF RepliesInv, TablesOK, Words
<1>4. prompts' \in [Role \cup {"basic"} -> Words]
    BY <1>1, <1>3
<1>5. prompts'[k] = Gone /\ \A l \in Role \cup {"basic"} : l # k => prompts'[l] = prompts[l]
    BY <1>1, <1>3
<1>6. /\ agent.role = k => agent' = [agent EXCEPT !.role = ""]
      /\ agent.role # k => agent' = agent
    BY <1>1 DEF Unset
<1>7. /\ agent' \in AgentRecord /\ agent'.custom = agent.custom /\ agent'.profile = agent.profile
      /\ agent'.role = IF agent.role = k THEN "" ELSE agent.role
    BY <1>3, <1>6 DEF AgentRecord
<1>8. agent.role = "" \/ agent.role \in Role
    BY <1>3 DEF AgentRecord
<1>9. TablesOK'
    <2>1. agent'.role = "" \/ prompts'[agent'.role] # Gone
        BY <1>5, <1>7, <1>8 DEF RepliesInv, TablesOK
    <2> QED
        BY <1>1, <1>2, <1>4, <1>7, <2>1 DEF RepliesInv, TablesOK
<1>10. k # "basic" /\ k # ""
    BY RepliesAssumption
<1>11. BasicPrompt' = BasicPrompt
    <2>1. prompts'["basic"] = prompts["basic"]
        BY <1>5, <1>10
    <2> QED
        BY <2>1 DEF BasicPrompt
<1>12. ASSUME NEW j, j \in Reading, PlanOK(j), edits = j.since
       PROVE  Plan(j)' \in {j.first, Configured'}
    <2>1. CASE j.at = "sources"
        BY <1>1, <1>12, <2>1, PlanNow DEF Plan
    <2>2. CASE j.at = "basic"
        BY <1>1, <1>11, <1>12, <2>2, PlanNow DEF Plan, Text
    <2>3. CASE j.at = "role"
        <3>1. PICK a : a = agent
            OBVIOUS
        <3>2. Plan(j)' = System(a, Text(a)', attached) /\ j.first = System(a, Text(a), attached)
            BY <1>1, <1>12, <2>3, <3>1, PlanNow DEF Plan
        <3>3. CASE a.role # k
            <4>1. a.role # "" => prompts'[a.role] = prompts[a.role]
                BY <1>5, <1>8, <3>1, <3>3
            <4>2. RoleServes(a)' <=> RoleServes(a)
                BY <4>1 DEF RoleServes
            <4>3. Text(a)' = Text(a)
                BY <1>11, <4>1, <4>2 DEF RoleServes, Text
            <4> QED
                BY <3>2, <4>3
        <3>4. CASE a.role = k
            <4>1. ~RoleServes(a)' /\ Text(a)' = BasicPrompt
                BY <1>5, <1>11, <3>4 DEF RoleServes, Text, Serves
            <4>2. Configured' = System(agent', BasicPrompt, attached)
                BY <1>1, <1>7, <1>11, <3>1, <3>4 DEF Configured
            <4>3. System(agent', BasicPrompt, attached) = System(a, BasicPrompt, attached)
                BY <1>7, <3>1 DEF System
            <4> QED
                BY <3>2, <4>1, <4>2, <4>3
        <3> QED
            BY <3>3, <3>4
    <2> QED
        BY <1>12, <2>1, <2>2, <2>3, PlanNow
<1> QED
    BY <1>1, <1>9, <1>12, Edited

\* Sources are read last, so that a request sees a change of them.
LEMMA SourcesPreserve ==
    ASSUME RepliesInv, NEW s \in Source, AttachSource(s) \/ DetachSource(s) PROVE RepliesInv'
<1>1. Edit /\ UNCHANGED <<agent, prompts>> /\ attached' \in SUBSET Source
    BY DEF AttachSource, DetachSource, RepliesInv, TablesOK
<1>2. TablesOK'
    <2>1. edits' \in Nat /\ provider' \in Provider
        BY <1>1, EditTypes
    <2> QED
        BY <1>1, <2>1 DEF RepliesInv, TablesOK
<1>3. Text(agent)' = Text(agent) /\ BasicPrompt' = BasicPrompt
    BY <1>1 DEF Text, RoleServes, BasicPrompt
<1>4. Configured' = System(agent, Text(agent), attached')
    BY <1>1, <1>3, NextConfigured
<1>5. ASSUME NEW j, j \in Reading, PlanOK(j), edits = j.since
      PROVE  Plan(j)' = Configured'
    <2>1. Text(agent) = BasicPrompt \/ RoleServes(agent)
        BY DEF Text
    <2>2. j.agent = agent
        BY <1>5, PlanNow
    <2>3. CASE j.at = "role"
        BY <1>1, <1>3, <1>4, <2>2, <2>3 DEF Plan
    <2>4. CASE j.at = "sources"
        BY <1>1, <1>4, <1>5, <2>2, <2>4, PlanNow DEF Plan
    <2>5. CASE j.at = "basic"
        BY <1>1, <1>3, <1>4, <1>5, <2>1, <2>2, <2>5, PlanNow DEF Plan
    <2> QED
        BY <1>5, <2>3, <2>4, <2>5, PlanNow
<1> QED
    BY <1>1, <1>2, <1>5, Edited

-----------------------------------------------------------------------------
LEMMA RepliesPreserved == RepliesInv /\ [Next]_vars => RepliesInv'
<1> SUFFICES ASSUME RepliesInv, [Next]_vars PROVE RepliesInv'
    OBVIOUS
<1>1. CASE Gate
    BY <1>1, GatePreserves
<1>2. CASE Others
    <2>1. ASSUME NEW p \in Provider, Restart(p) PROVE RepliesInv'
        BY <2>1, RestartPreserves
    <2>2. ASSUME NEW c \in Client, NEW title \in Title, Rename(c, title) PROVE RepliesInv'
        BY <2>2, RenamePreserves
    <2>3. ASSUME NEW c \in Client, NEW f \in Fact, Learn(c, f) PROVE RepliesInv'
        BY <2>3, LearnPreserves
    <2>4. ASSUME NEW a \in AgentRow, EditAgent(a) PROVE RepliesInv'
        BY <2>4, EditAgentPreserves
    <2>5. ASSUME NEW k \in Role \cup {"basic"}, NEW text \in Prompt, EditPrompt(k, text) PROVE RepliesInv'
        BY <2>5, EditPromptPreserves
    <2>6. ASSUME NEW k \in Role, DeleteRole(k) PROVE RepliesInv'
        BY <2>6, DeleteRolePreserves
    <2>7. ASSUME NEW s \in Source, AttachSource(s) \/ DetachSource(s) PROVE RepliesInv'
        BY <2>7, SourcesPreserve
    <2> QED
        BY <1>2, <2>1, <2>2, <2>3, <2>4, <2>5, <2>6, <2>7 DEF Others
<1>3. CASE \E r \in Request : Reply(r)
    BY <1>3, BeginPreserves, AskPreserves, ReadAgentPreserves, ReadRolePreserves, ReadBasicPreserves,
       ReadSourcesPreserves, RespondPreserves, RecordReadPreserves, RecordCommitPreserves, DropPreserves
       DEF Reply
<1>4. CASE UNCHANGED vars
    <2>1. /\ UNCHANGED <<limitVars, config, provider, threadVars, job, edits>>
          /\ UNCHANGED <<now, hits, gate, passed>> /\ UNCHANGED <<agent, prompts, attached>>
          /\ UNCHANGED <<row, transcript, facts, kept, turns, own, raced>>
        BY <1>4 DEF vars, limitVars, config, threadVars
    <2>2. LimitInv' /\ TablesOK' /\ ThreadsOK' /\ MetadataKept' /\ \A c \in Client : KeptOK(c)'
        BY <2>1, LimitStep, KeptStays DEF RepliesInv, TablesOK, ThreadsOK, MetadataKept
    <2>3. \A q \in Request : \A j, c : job[q] # NoJob /\ j = job[q] /\ c = Who(q) => JobOK(j, c)'
        BY <2>1, JobStays DEF RepliesInv, JobsOK
    <2>4. JobsOK' /\ AloneOK'
        BY <2>1, <2>3, JobsUntouched DEF RepliesInv
    <2> QED
        BY <2>2, <2>4 DEF RepliesInv
<1> QED
    BY <1>1, <1>2, <1>3, <1>4 DEF Next

\* What a request has read, what a thread keeps and what the tables hold fit
\* together at all times.
THEOREM RepliesInvariant == Spec => []RepliesInv
<1> QED
    BY RepliesInitially, RepliesPreserved, PTL DEF Spec

\* Counters, rows and prompts keep their types, and no agent has a role that is
\* gone.
THEOREM RepliesTypeCorrect == Spec => []RepliesTypeOK
<1>1. RepliesInv => RepliesTypeOK
    BY DEF RepliesInv, LimitInv, TablesOK, ThreadsOK, ThreadRow, JobsOK, RepliesTypeOK
<1> QED
    BY <1>1, RepliesInvariant, PTL

\* The limit of a window also holds for requests that go on to the model, and when
\* processes restart.
THEOREM LimitKept == Spec => []WindowLimit
<1>1. RepliesInv => WindowLimit
    BY DEF RepliesInv, LimitInv
<1> QED
    BY <1>1, RepliesInvariant, PTL

\* Across at most one edit, load_agent_context never mixes two configurations.
THEOREM OneConfiguration == Spec => []PromptOfOneMoment
<1>1. RepliesInv => PromptOfOneMoment
    <2> SUFFICES ASSUME RepliesInv, NEW r \in Request, job[r].at = "briefed",
                        job[r].until <= job[r].since + 1
                 PROVE  job[r].system \in {job[r].first, job[r].last}
        BY DEF PromptOfOneMoment
    <2>1. BriefOK(job[r])
        BY JobForms DEF RepliesInv, NoJob
    <2> QED
        BY <2>1 DEF BriefOK
<1> QED
    BY <1>1, RepliesInvariant, PTL

\* The facts in a prompt take at most two fifths of the published context.
THEOREM MemoryFits == Spec => []InjectionFits
<1>1. RepliesInv => InjectionFits
    <2> SUFFICES ASSUME RepliesInv, NEW r \in Request, job[r].at = "answered" PROVE Fits(job[r].asked)
        BY DEF InjectionFits, Fits
    <2> QED
        BY JobForms DEF RepliesInv, NoJob
<1> QED
    BY <1>1, RepliesInvariant, PTL

\* Rows count two messages a turn and keep titles that users gave.
THEOREM RowsKept == Spec => []MetadataKept
<1>1. RepliesInv => MetadataKept
    BY DEF RepliesInv
<1> QED
    BY <1>1, RepliesInvariant, PTL

\* Only respond answers.
LEMMA OnlyRespondAnswers ==
    ASSUME RepliesInv, Next, NEW r \in Request, job[r].at = "briefed", job'[r].at = "answered"
    PROVE  Respond(r)
<1>1. DOMAIN job = Request
    BY DEF RepliesInv, JobsOK
<1>2. job' # job
    OBVIOUS
<1>3. PICK q \in Request : Reply(q) \/ \E p \in Provider : Restart(p)
    BY <1>2 DEF Next, Gate, Others, Rename, Learn, EditAgent, EditPrompt, DeleteRole, AttachSource,
       DetachSource, Edit
<1>4. ~\E p \in Provider : Restart(p)
    BY DEF Restart, NoJob
<1>5. ASSUME Begin(q) PROVE FALSE
    <2>1. q # r
        BY <1>1, <1>5 DEF Begin, NoJob
    <2>2. job'[r] = job[r] \/ job'[r] = Joined(job[r])
        BY <1>1, <1>5, <2>1 DEF Begin
    <2>3. job[r] \in Briefed
        BY JobForms DEF RepliesInv, NoJob
    <2>4. Joined(job[r]).at = "briefed"
        BY <2>3 DEF Joined, Briefed
    <2> QED
        BY <2>2, <2>4
<1>6. ~Ask(q) /\ ~ReadAgent(q) /\ ~ReadSources(q) /\ ~RecordRead(q)
    BY <1>1 DEF Ask, ReadAgent, ReadSources, RecordRead
<1>7. ~ReadRole(q) /\ ~ReadBasic(q)
    BY <1>1 DEF ReadRole, ReadBasic, To
<1>8. ~RecordCommit(q) /\ ~Drop(q)
    BY <1>1 DEF RecordCommit, Drop, NoJob
<1>9. Respond(q)
    BY <1>3, <1>4, <1>5, <1>6, <1>7, <1>8 DEF Reply
<1>10. q = r
    BY <1>1, <1>9 DEF Respond
<1> QED
    BY <1>9, <1>10

\* The next prompt of a thread begins with what its last one and the answer were,
\* up to the system block when the agent was edited.
Extends(asked, prompt, unedited) ==
    IsPrefix(Tail(prompt), Tail(asked)) /\ (unedited => Head(prompt) = Head(asked))

LEMMA RespondExtends ==
    ASSUME RepliesInv, NEW r \in Request, Respond(r), job[r].alone, kept[Who(r)].prompt # <<>>
    PROVE  Extends(job'[r].asked, kept[Who(r)].prompt, edits = kept[Who(r)].edits)
<1>1. PICK d : d = Who(r)
    OBVIOUS
<1>2. job[r].at = "briefed" /\ job[r] # NoJob
    BY DEF Respond, NoJob
<1>3. /\ d \in Client /\ job[r] \in Briefed /\ GoesOn(job[r].history, d)
      /\ After(job[r].since, d) /\ BriefOK(job[r])
    BY <1>1, <1>2, JobForms DEF RepliesInv
<1>4. /\ job[r].history \in Seq(Message) /\ job[r].system \in Systems
      /\ job[r].since \in Nat /\ job[r].until \in Nat
    BY <1>3 DEF Briefed
<1>5. NewMessage(r) \in Message
    BY <1>4, LenProperties DEF NewMessage, Message
<1>6. facts[d] \in Seq(Fact) /\ provider \in Provider /\ edits \in Nat
    BY <1>3 DEF RepliesInv, ThreadsOK, TablesOK
<1>7. PICK s : s = Injectable(facts[d])
    OBVIOUS
<1>8. s \in Seq(Fact)
    BY <1>6, <1>7, BudgetType, InjectableFits
<1>9. PICK asked : asked = PromptOf(job[r].system, job[r].history, MemoryBlock(s), NewMessage(r))
    OBVIOUS
<1>10. Asks(asked, job[r].system, job[r].history, s)
    BY <1>4, <1>5, <1>8, <1>9, PromptAsks
<1>11. job'[r].asked = asked
    BY <1>1, <1>2, <1>7, <1>9 DEF Respond, RepliesInv, JobsOK
<1>12. KeptOK(d) /\ kept[d].prompt # <<>>
    BY <1>1, <1>3 DEF RepliesInv
<1>13. IsPrefix(Tail(kept[d].prompt), Tail(asked))
    <2>1. Tail(asked) \in Seq(Block)
        BY <1>10, HeadTailProperties DEF Asks
    <2>2. \A y \in Message : y \in Block
        BY DEF Block
    <2>3. Tail(kept[d].prompt) \in Seq(Block) /\ job[r].history \in Seq(Block)
        BY <1>4, <1>12, <2>2, SeqMonotonic DEF KeptOK
    <2>4. PICK p, h, t : p = Tail(kept[d].prompt) /\ h = job[r].history /\ t = Tail(asked)
        OBVIOUS
    <2>5. IsPrefix(p, h) /\ IsPrefix(h, t)
        BY <1>3, <1>10, <1>12, <2>4 DEF GoesOn, Asks
    <2>6. /\ p \in Seq(Block) /\ h \in Seq(Block) /\ t \in Seq(Block)
          /\ Len(p) \in Nat /\ Len(h) \in Nat /\ Len(t) \in Nat
        BY <2>1, <2>3, <2>4, LenProperties
    <2>7. Len(p) <= Len(h) /\ \A i \in 1 .. Len(p) : p[i] = h[i]
        BY <2>5, <2>6, PrefixElements
    <2>8. Len(h) <= Len(t) /\ \A i \in 1 .. Len(h) : h[i] = t[i]
        BY <2>5, <2>6, PrefixElements
    <2>9. Len(p) <= Len(t) /\ \A i \in 1 .. Len(p) : p[i] = t[i]
        BY <2>6, <2>7, <2>8
    <2>10. IsPrefix(p, t)
        BY <2>6, <2>9, PrefixElements
    <2> QED
        BY <2>4, <2>10
<1>14. ASSUME edits = kept[d].edits PROVE Head(kept[d].prompt) = Head(asked)
    <2>1. edits = job[r].since
        BY <1>3, <1>4, <1>6, <1>12, <1>14 DEF After, BriefOK
    <2>2. job[r].system = Configured /\ Head(kept[d].prompt) = [system |-> Configured]
        BY <1>3, <1>12, <1>14, <2>1 DEF BriefOK, KeptOK
    <2> QED
        BY <1>10, <2>2 DEF Asks
<1> QED
    BY <1>1, <1>11, <1>13, <1>14 DEF Extends

\* The cache of prefixes of the provider stays useful from turn to turn.
THEOREM PrefixKept == Spec => PrefixStable
<1>1. RepliesInv /\ [Next]_vars =>
          \A r \in Request : LET before == kept[Who(r)] IN
              job[r].at = "briefed" /\ job'[r].at = "answered" /\ job[r].alone /\ before.prompt # <<>> =>
                 /\ IsPrefix(Tail(before.prompt), Tail(job'[r].asked))
                 /\ edits = before.edits => Head(before.prompt) = Head(job'[r].asked)
    <2> SUFFICES ASSUME RepliesInv, [Next]_vars, NEW r \in Request, job[r].at = "briefed",
                        job'[r].at = "answered", job[r].alone, kept[Who(r)].prompt # <<>>
                 PROVE  /\ IsPrefix(Tail(kept[Who(r)].prompt), Tail(job'[r].asked))
                        /\ edits = kept[Who(r)].edits => Head(kept[Who(r)].prompt) = Head(job'[r].asked)
        OBVIOUS
    <2>1. Next
        BY DEF vars
    <2>2. Respond(r)
        BY <2>1, OnlyRespondAnswers
    <2> QED
        BY <2>2, RespondExtends DEF Extends
<1> QED
    BY <1>1, RepliesInvariant, PTL DEF Spec, PrefixStable
=============================================================================
