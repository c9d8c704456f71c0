--------------------------- MODULE MigrationProofs ---------------------------
(***************************************************************************)
(* What the runs of the migration keep and reach, for any legacy database, *)
(* any number of runs and crashes, and anything the others do in between.  *)
(* The argument:                                                           *)
(*                                                                         *)
(*  - a run finds or makes one thread for each session, and no two threads *)
(*    nobody renamed have one agent, title and date;                       *)
(*  - a transcript that holds anything is not imported into, and between   *)
(*    the last look at it and the writing only live turns can come;        *)
(*  - a run that is alone has dealt with all sessions before its own and   *)
(*    with all namespaces before its own, and what it dealt with stays.    *)
(***************************************************************************)
EXTENDS Migration, SequenceTheorems, WellFoundedInduction, TLAPS

Used(t) == threads[t] # Unused
Looking == {"look", "import", "append", "mark", "commit"}
Remembering == {"facts", "put"}
AfterDomain == Looking \cup Remembering \cup {"done"}

Run == [phase : AfterDomain \cup {"idle", "domain"}, i : Nat,
        of : [SessionIds -> Thread] \cup {<<>>}, position : Nat, read : Nat,
        todo : SUBSET UserNames, user : UserNames \cup {""}, left : Seq(FactText),
        disturbed : BOOLEAN]

DataTypes ==
  /\ users \in [UserName -> UserRow \cup {Unused}]
  /\ agents \in [AgentName -> [role : RoleKeys \cup {""}] \cup {Unused}]
  /\ threads \in [Thread -> ThreadRow \cup {Unused}]
  /\ roles \in SUBSET RoleKeys /\ sources \in SUBSET SourceNames
  /\ links \in SUBSET (AgentName \X SourceName)
  /\ transcript \in [Thread -> Seq(Message)]
  /\ facts \in [AgentName \X UserName -> Seq(FactText)]
  /\ renamed \in SUBSET Thread
RunTypes == run \in Run /\ runs \in Nat /\ lives \in Nat

\* Rows refer to rows.
RowsInv ==
  /\ \A n \in AgentName : agents[n] # Unused => agents[n].role \in roles \cup {""}
  /\ \A t \in Thread : Used(t) => agents[threads[t].agent] # Unused
  /\ \A l \in links : l[2] \in sources /\ agents[l[1]] # Unused

\* The date of a thread is that of its session, or that of its making.
ThreadsInv ==
  /\ \A t \in Thread : ~Used(t) => transcript[t] = <<>> /\ t \notin renamed
  /\ \A t \in Thread : Used(t) => threads[t].at \in 1 .. Late - 1 \/ threads[t].at = Late + t
  /\ OneThreadPerKey

OfSession(t, s) == t \in renamed \/ KeyOf(t) = SessionKey(s, t)
ImportInv ==
  \A t \in Thread : \/ Holds(t, <<>>)
                    \/ \E s \in ToSet(Sessions) : Holds(t, MessagesOf[s]) /\ OfSession(t, s)

DataInv == DataTypes /\ FactsOnce /\ RowsInv /\ ThreadsInv /\ ImportInv

\* Where a run is, and the thread it has for each session.
OfFits(of) ==
  /\ of \in [SessionIds -> Thread]
  /\ \A s \in ToSet(Sessions) : Used(of[s.id]) /\ OfSession(of[s.id], s)
RunInv ==
  /\ run.phase \in AfterDomain => OfFits(run.of)
  /\ run.phase \in Looking => run.i \in 1 .. Len(Sessions)
  /\ run.phase \in Remembering => run.i # 0
  /\ run.phase = "put" => run.i <= Len(LegacyAgents) /\ run.user \in UserNames
  /\ run.phase \in {"import", "append"} => MessagesOf[Session] # <<>>
  /\ run.phase = "append" => Holds(Target, <<>>)

Before(t, m) ==
  \A i \in DOMAIN transcript[t] : transcript[t][i].text # "live" => i <= m

\* The k-th session is dealt with: somebody wrote in its thread, and the worker
\* starts after the legacy messages.
Dealt(k, of) ==
  LET t == of[Sessions[k].id]
  IN  MessagesOf[Sessions[k]] # <<>> => transcript[t] # <<>> /\ Before(t, threads[t].mark)
Conversations ==
  /\ \A k \in DOMAIN Sessions : (run.phase \in Looking => k < run.i) => Dealt(k, run.of)
  /\ run.phase = "append" => transcript[Target] = <<>>
  /\ run.phase \in {"mark", "commit"} => transcript[Target] # <<>> /\ Before(Target, run.position)
  /\ run.phase = "commit" => run.read = threads[Target].mark

SaidBy(f, s) == \E g \in ToSet(s) : Key[g] = Key[f]
\* The facts of an agent are stored for n, apart from those that are still to be put.
Remembered(k, n, left) ==
  \A f \in ToSet(SplitMemories(LegacyAgents[k].memory)) :
     Key[f] # "" => SaidBy(f, facts[<<LegacyAgents[k].name, n>>]) \/ SaidBy(f, left)
Namespaces ==
  run.phase \in Remembering \cup {"done"} =>
    \A k \in DOMAIN LegacyAgents, n \in UserNames :
      \/ run.phase # "done" /\ k > run.i
      \/ run.phase # "done" /\ k = run.i /\ n \in run.todo
      \/ Remembered(k, n, IF run.phase = "put" /\ k = run.i /\ n = run.user THEN run.left ELSE <<>>)

CompleteInv ==
  /\ run.phase \in AfterDomain => Missing = {}
  /\ run.phase \in AfterDomain /\ ~run.disturbed => LinksMigrated /\ Conversations /\ Namespaces

MigrationInv == DataInv /\ RunTypes /\ RunInv /\ CompleteInv

-----------------------------------------------------------------------------
\* Recursion and induction over numbers.
LEMMA LeastNumber ==
    ASSUME NEW T \in SUBSET Nat, T # {}
    PROVE  \E n \in T : \A m \in T : n <= m
<1> DEFINE R == {ss \in Nat \X Nat : ss[1] < ss[2]}
<1>1. IsWellFoundedOn(R, Nat)
    BY NatLessThanWellFounded DEF OpToRel
<1>2. \A m, n \in Nat : m < n => <<m, n>> \in R
    OBVIOUS
<1> HIDE DEF R
<1>3. PICK n \in T : \A m \in T : <<m, n>> \notin R
    BY <1>1, WFMin
<1>4. ASSUME NEW m \in T PROVE n <= m
    <2>1. m \in Nat /\ n \in Nat
        OBVIOUS
    <2>2. ~(m < n)
        BY <1>2, <1>3, <2>1
    <2> QED
        BY <2>1, <2>2
<1> QED
    BY <1>4

\* Induction for a set of numbers, up to a bound.
LEMMA NumbersReached ==
    ASSUME NEW G, NEW m \in Nat, 0 \in G,
           \A n \in Nat : n < m /\ n \in G => n + 1 \in G
    PROVE  \A n \in 0 .. m : n \in G
<1> DEFINE T == {n \in 0 .. m : n \notin G}
<1>1. T \in SUBSET Nat
    OBVIOUS
<1>2. T = {}
    <2> SUFFICES ASSUME T # {} PROVE FALSE
        OBVIOUS
    <2>1. PICK n \in T : \A k \in T : n <= k
        BY <1>1, LeastNumber
    <2>2. n \in 0 .. m /\ n # 0 /\ n \notin G
        OBVIOUS
    <2>3. n - 1 \in Nat /\ n - 1 \in 0 .. m /\ n - 1 \notin T /\ n - 1 < m
        BY <2>1, <2>2
    <2>4. (n - 1) + 1 \in G
        BY <2>3
    <2> QED
        BY <2>2, <2>4
<1> QED
    BY <1>2

\* A function that goes on from its last value is there.
GoesOn(V, m, v, g, f) ==
    f \in [0 .. m -> V] /\ f[0] = v /\ \A n \in 1 .. m : f[n] = g[<<n, f[n - 1]>>]

LEMMA RecursionDefined ==
    ASSUME NEW V, NEW m \in Nat, NEW v \in V, NEW g \in [(1 .. m) \X V -> V]
    PROVE  \E f : GoesOn(V, m, v, g, f)
<1> DEFINE Upto(k, f) == \A n \in 0 .. k : f[n] = IF n = 0 THEN v ELSE g[<<n, f[n - 1]>>]
           G == {k \in 0 .. m : \E f \in [0 .. k -> V] : Upto(k, f)}
<1>1. 0 \in G
    <2> DEFINE f == [n \in 0 .. 0 |-> v]
    <2>1. f \in [0 .. 0 -> V] /\ \A n \in 0 .. 0 : f[n] = v /\ n = 0
        OBVIOUS
    <2> HIDE DEF f
    <2>2. Upto(0, f)
        BY <2>1
    <2>3. 0 \in 0 .. m
        OBVIOUS
    <2> QED
        BY <2>1, <2>2, <2>3
<1>2. ASSUME NEW k \in Nat, k < m, k \in G PROVE k + 1 \in G
    <2>1. PICK f \in [0 .. k -> V] : Upto(k, f)
        BY <1>2
    <2> DEFINE h == [n \in 0 .. k + 1 |-> IF n <= k THEN f[n] ELSE g[<<k + 1, f[k]>>]]
    <2>2. k + 1 \in 1 .. m /\ f[k] \in V
        BY <1>2
    <2>3. g[<<k + 1, f[k]>>] \in V
        BY <2>2
    <2>4. h \in [0 .. k + 1 -> V]
        BY <2>3
    <2>5. ASSUME NEW n \in 0 .. k + 1 PROVE h[n] = IF n = 0 THEN v ELSE g[<<n, h[n - 1]>>]
        <3>1. CASE n = 0
            <4>1. 0 \in 0 .. k
                BY <1>2
            <4>2. h[n] = f[0]
                BY <3>1, <4>1
            <4>3. f[0] = v
                BY <2>1, <4>1
            <4> QED
                BY <3>1, <4>2, <4>3
        <3>2. CASE n # 0
            <4>1. n - 1 \in 0 .. k /\ h[n - 1] = f[n - 1]
                BY <3>2
            <4>2. h[n] = g[<<n, f[n - 1]>>]
                <5>1. CASE n <= k
                    BY <2>1, <3>2, <5>1
                <5>2. CASE ~(n <= k)
                    <6>1. n = k + 1 /\ n - 1 = k
                        BY <5>2
                    <6> QED
                        BY <5>2, <6>1
                <5> QED
                    BY <5>1, <5>2
            <4> HIDE DEF h
            <4> QED
                BY <3>2, <4>1, <4>2
        <3> QED
            BY <3>1, <3>2
    <2> HIDE DEF h
    <2>6. Upto(k + 1, h)
        BY <2>5
    <2>7. k + 1 \in 0 .. m
        BY <2>2
    <2> QED
        BY <2>4, <2>6, <2>7
<1> HIDE DEF G
<1>3. m \in G
    <2>1. \A n \in 0 .. m : n \in G
        BY <1>1, <1>2, NumbersReached
    <2> QED
        BY <2>1
<1>4. PICK f \in [0 .. m -> V] : Upto(m, f)
    BY <1>3 DEF G
<1>5. 0 \in 0 .. m /\ \A n \in 1 .. m : n \in 0 .. m /\ n # 0
    OBVIOUS
<1>6. GoesOn(V, m, v, g, f)
    BY <1>4, <1>5 DEF GoesOn
<1> QED
    BY <1>6

-----------------------------------------------------------------------------
\* What is read from the legacy database.

LEMMA Elements ==
    ASSUME NEW S, NEW s \in Seq(S)
    PROVE  /\ ToSet(s) \subseteq S /\ DOMAIN s = 1 .. Len(s) /\ Len(s) \in Nat
           /\ \A i \in 1 .. Len(s) : s[i] \in ToSet(s)
BY DEF ToSet

LEMMA OnlyTyped ==
    ASSUME NEW S, NEW s \in Seq(S), NEW T
    PROVE  Only(s, T) \in Seq(S \cap T)
<1> DEFINE V == Seq(S \cap T)
           g == [p \in (1 .. Len(s)) \X V |-> IF s[p[1]] \in T THEN Append(p[2], s[p[1]]) ELSE p[2]]
<1>1. Len(s) \in Nat /\ <<>> \in V
    OBVIOUS
<1>2. g \in [(1 .. Len(s)) \X V -> V]
    <2>1. ASSUME NEW p \in (1 .. Len(s)) \X V
          PROVE  (IF s[p[1]] \in T THEN Append(p[2], s[p[1]]) ELSE p[2]) \in V
        <3>1. p[1] \in 1 .. Len(s) /\ p[2] \in V
            BY <2>1
        <3>2. s[p[1]] \in S
            BY <3>1
        <3> QED
            BY <3>1, <3>2
    <2> QED
        BY <2>1
<1>3. \A n \in 1 .. Len(s) : \A v \in V :
        g[<<n, v>>] = IF s[n] \in T THEN Append(v, s[n]) ELSE v
    OBVIOUS
<1> HIDE DEF g, V
<1>4. PICK f : GoesOn(V, Len(s), <<>>, g, f)
    BY <1>1, <1>2, RecursionDefined
<1>5. ASSUME NEW n \in 0 .. Len(s), n # 0
      PROVE  f[n] = IF s[n] \in T THEN Append(f[n - 1], s[n]) ELSE f[n - 1]
    <2>1. n \in 1 .. Len(s) /\ n - 1 \in 0 .. Len(s)
        BY <1>1, <1>5
    <2> QED
        BY <1>3, <1>4, <2>1 DEF GoesOn
<1>6. f = [n \in 0 .. Len(s) |->
             IF n = 0 THEN <<>> ELSE IF s[n] \in T THEN Append(f[n - 1], s[n]) ELSE f[n - 1]]
    BY <1>4, <1>5 DEF GoesOn
<1> DEFINE F == CHOOSE kept : kept = [n \in 0 .. Len(s) |->
             IF n = 0 THEN <<>> ELSE IF s[n] \in T THEN Append(kept[n - 1], s[n]) ELSE kept[n - 1]]
           Kept(k) == k = [n \in 0 .. Len(s) |->
             IF n = 0 THEN <<>> ELSE IF s[n] \in T THEN Append(k[n - 1], s[n]) ELSE k[n - 1]]
<1>7. F = CHOOSE k : Kept(k)
    OBVIOUS
<1>8. Only(s, T) = F[Len(s)]
    BY DEF Only
<1>9. Kept(F)
    BY <1>6
<1> HIDE DEF F
<1>20. \A n \in 0 .. Len(s) :
         F[n] = IF n = 0 THEN <<>> ELSE IF s[n] \in T THEN Append(F[n - 1], s[n]) ELSE F[n - 1]
    <2> DEFINE h(n) == IF n = 0 THEN <<>> ELSE IF s[n] \in T THEN Append(F[n - 1], s[n]) ELSE F[n - 1]
    <2>1. F = [n \in 0 .. Len(s) |-> h(n)]
        BY <1>9
    <2> HIDE DEF h
    <2>2. \A n \in 0 .. Len(s) : F[n] = h(n)
        BY <2>1
    <2> QED
        BY <2>2 DEF h
<1> HIDE DEF Kept
<1> DEFINE G == {n \in 0 .. Len(s) : F[n] \in V}
<1>10. 0 \in G
    <2>1. 0 \in 0 .. Len(s)
        BY <1>1
    <2>2. F[0] = <<>>
        BY <1>20, <2>1
    <2> QED
        BY <1>1, <2>1, <2>2
<1>11. ASSUME NEW n \in Nat, n < Len(s), n \in G PROVE n + 1 \in G
    <2>1. n + 1 \in 1 .. Len(s) /\ n + 1 # 0 /\ (n + 1) - 1 = n
        BY <1>1, <1>11
    <2>2. F[n + 1] = IF s[n + 1] \in T THEN Append(F[n], s[n + 1]) ELSE F[n]
        BY <1>1, <1>11, <1>20, <2>1
    <2>3. s[n + 1] \in S /\ F[n] \in V /\ n + 1 \in 0 .. Len(s)
        BY <1>1, <1>11, <2>1
    <2>4. F[n + 1] \in V
        BY <2>2, <2>3 DEF V
    <2> QED
        BY <2>3, <2>4
<1> HIDE DEF G
<1>12. \A n \in 0 .. Len(s) : n \in G
    BY <1>1, <1>10, <1>11, NumbersReached
<1> QED
    BY <1>1, <1>8, <1>12 DEF G, V

\* What write_facts leaves out is stored, or said by what it leaves.
LEMMA DeduplicateSays ==
    ASSUME NEW new \in Seq(FactText), NEW existing \in Seq(FactText)
    PROVE  /\ Deduplicate(new, existing) \in Seq(FactText)
           /\ \A i \in 1 .. Len(new) : Key[new[i]] # "" =>
                SaidBy(new[i], existing) \/ SaidBy(new[i], Deduplicate(new, existing))
<1> DEFINE V == Seq(FactText)
           Known(n, v) == Key[new[n]] = "" \/ \E g \in ToSet(existing) \cup ToSet(v) : Key[g] = Key[new[n]]
           g == [p \in (1 .. Len(new)) \X V |-> IF Known(p[1], p[2]) THEN p[2] ELSE Append(p[2], new[p[1]])]
<1>1. Len(new) \in Nat /\ <<>> \in V
    OBVIOUS
<1> HIDE DEF Known
<1>2. g \in [(1 .. Len(new)) \X V -> V]
    <2>1. ASSUME NEW p \in (1 .. Len(new)) \X V
          PROVE  (IF Known(p[1], p[2]) THEN p[2] ELSE Append(p[2], new[p[1]])) \in V
        <3>1. p[1] \in 1 .. Len(new) /\ p[2] \in V
            BY <2>1
        <3>2. new[p[1]] \in FactText
            BY <3>1
        <3> QED
            BY <3>1, <3>2
    <2> QED
        BY <2>1
<1>3. \A n \in 1 .. Len(new) : \A v \in V : g[<<n, v>>] = IF Known(n, v) THEN v ELSE Append(v, new[n])
    OBVIOUS
<1> HIDE DEF g, V
<1>4. PICK f : GoesOn(V, Len(new), <<>>, g, f)
    BY <1>1, <1>2, RecursionDefined
<1>5. ASSUME NEW n \in 0 .. Len(new), n # 0
      PROVE  f[n] = IF Known(n, f[n - 1]) THEN f[n - 1] ELSE Append(f[n - 1], new[n])
    <2>1. n \in 1 .. Len(new) /\ n - 1 \in 0 .. Len(new)
        BY <1>1, <1>5
    <2> QED
        BY <1>3, <1>4, <2>1 DEF GoesOn
<1> DEFINE Kept(k) == k = [n \in 0 .. Len(new) |->
              IF n = 0 THEN <<>> ELSE IF Known(n, k[n - 1]) THEN k[n - 1] ELSE Append(k[n - 1], new[n])]
           F == CHOOSE k : Kept(k)
<1>6. Kept(f)
    BY <1>4, <1>5 DEF GoesOn
<1>7. Deduplicate(new, existing) = F[Len(new)]
    BY DEF Deduplicate, Known
<1>8. Kept(F)
    BY <1>6
<1> HIDE DEF F
<1>9. \A n \in 0 .. Len(new) :
        F[n] = IF n = 0 THEN <<>> ELSE IF Known(n, F[n - 1]) THEN F[n - 1] ELSE Append(F[n - 1], new[n])
    <2> DEFINE h(n) == IF n = 0 THEN <<>> ELSE IF Known(n, F[n - 1]) THEN F[n - 1] ELSE Append(F[n - 1], new[n])
    <2>1. F = [n \in 0 .. Len(new) |-> h(n)]
        BY <1>8
    <2> HIDE DEF h
    <2>2. \A n \in 0 .. Len(new) : F[n] = h(n)
        BY <2>1
    <2> QED
        BY <2>2 DEF h
<1> HIDE DEF Kept
<1> DEFINE Said(n) == \A i \in 1 .. n : Key[new[i]] # "" => SaidBy(new[i], existing) \/ SaidBy(new[i], F[n])
           G == {n \in 0 .. Len(new) : F[n] \in V /\ Said(n)}
<1> HIDE DEF Said
<1>10. 0 \in G
    <2>1. 0 \in 0 .. Len(new) /\ F[0] = <<>>
        BY <1>1, <1>9
    <2>2. Said(0)
        <3>1. \A i \in 1 .. 0 : FALSE
            OBVIOUS
        <3> QED
            BY <3>1 DEF Said
    <2> QED
        BY <1>1, <2>1, <2>2
<1>11. ASSUME NEW n \in Nat, n < Len(new), n \in G PROVE n + 1 \in G
    <2>0. F[n] \in V /\ Said(n)
        BY <1>11
    <2> HIDE DEF G
    <2>1. n + 1 \in 1 .. Len(new) /\ n + 1 \in 0 .. Len(new) /\ n + 1 # 0 /\ (n + 1) - 1 = n
        BY <1>1, <1>11
    <2>2. F[n + 1] = IF Known(n + 1, F[n]) THEN F[n] ELSE Append(F[n], new[n + 1])
        BY <1>1, <1>9, <2>1
    <2>3. new[n + 1] \in FactText /\ F[n] \in Seq(FactText) /\ Said(n)
        BY <1>1, <2>0, <2>1 DEF V
    <2>4. CASE Known(n + 1, F[n])
        <3>1. F[n + 1] = F[n]
            BY <2>2, <2>4
        <3>2. Key[new[n + 1]] # "" => SaidBy(new[n + 1], existing) \/ SaidBy(new[n + 1], F[n])
            BY <2>4 DEF Known, SaidBy
        <3>3. \A i \in 1 .. n + 1 : i \in 1 .. n \/ i = n + 1
            BY <1>11
        <3>4. Said(n + 1)
            BY <2>3, <3>1, <3>2, <3>3 DEF Said
        <3> QED
            BY <2>1, <2>3, <3>1, <3>4 DEF G, V
    <2>5. CASE ~Known(n + 1, F[n])
        <3>1. F[n + 1] = Append(F[n], new[n + 1])
            BY <2>2, <2>5
        <3>2. /\ F[n + 1] \in Seq(FactText)
              /\ \A x \in ToSet(F[n]) : x \in ToSet(F[n + 1])
              /\ new[n + 1] \in ToSet(F[n + 1])
            <4>1. F[n + 1] \in Seq(FactText) /\ Len(F[n + 1]) = Len(F[n]) + 1
                BY <2>3, <3>1
            <4>2. \A i \in 1 .. Len(F[n]) : F[n + 1][i] = F[n][i]
                BY <2>3, <3>1
            <4>3. F[n + 1][Len(F[n]) + 1] = new[n + 1]
                BY <2>3, <3>1
            <4>4. /\ DOMAIN F[n] = 1 .. Len(F[n]) /\ Len(F[n]) \in Nat
                  /\ DOMAIN F[n + 1] = 1 .. Len(F[n]) + 1
                BY <2>3, <4>1
            <4>5. ASSUME NEW x \in ToSet(F[n]) PROVE x \in ToSet(F[n + 1])
                <5>1. PICK i \in 1 .. Len(F[n]) : x = F[n][i]
                    BY <4>4 DEF ToSet
                <5>2. i \in 1 .. Len(F[n]) + 1 /\ x = F[n + 1][i]
                    BY <4>2, <4>4, <5>1
                <5> QED
                    BY <4>4, <5>2 DEF ToSet
            <4>6. new[n + 1] \in ToSet(F[n + 1])
                <5>1. Len(F[n]) + 1 \in 1 .. Len(F[n]) + 1
                    BY <4>4
                <5> QED
                    BY <4>3, <4>4, <5>1 DEF ToSet
            <4> QED
                BY <4>1, <4>5, <4>6
        <3>3. \A i \in 1 .. n + 1 : i \in 1 .. n \/ i = n + 1
            BY <1>11
        <3>4. SaidBy(new[n + 1], F[n + 1])
            BY <3>2 DEF SaidBy
        <3>5. ASSUME NEW x, SaidBy(x, F[n]) PROVE SaidBy(x, F[n + 1])
            BY <3>2, <3>5 DEF SaidBy
        <3>6. Said(n + 1)
            BY <2>3, <3>3, <3>4, <3>5 DEF Said
        <3> QED
            BY <2>1, <3>2, <3>6 DEF G, V
    <2> QED
        BY <2>4, <2>5
<1> HIDE DEF G
<1>12. \A n \in 0 .. Len(new) : n \in G
    BY <1>1, <1>10, <1>11, NumbersReached
<1>13. F[Len(new)] \in V /\ Said(Len(new))
    <2>1. Len(new) \in 0 .. Len(new)
        BY <1>1
    <2>2. Len(new) \in G
        BY <1>12, <2>1
    <2> QED
        BY <2>2 DEF G
<1> QED
    BY <1>7, <1>13 DEF Said, V

LEMMA LegacyTypes ==
    /\ UserNames \subseteq UserName /\ AgentNames \subseteq AgentName
    /\ SourceNames \subseteq SourceName
    /\ \A i \in DOMAIN LegacyAgents :
         /\ LegacyAgents[i].name \in AgentNames
         /\ LegacyAgents[i].memory \in Seq([list : BOOLEAN, text : FactText])
    /\ DOMAIN LegacyAgents = 1 .. Len(LegacyAgents) /\ Len(LegacyAgents) \in Nat
<1> DEFINE U == [name : UserName, role : {"admin", "usuario"}]
           S == [id : Nat, name : SourceName]
           M == Seq([list : BOOLEAN, text : FactText])
<1> HIDE DEF M
<1> DEFINE A == [id : Nat, name : AgentName, role : STRING, memory : M]
<1>1. LegacyUsers \in Seq(U) /\ LegacySources \in Seq(S) /\ LegacyAgents \in Seq(A)
    BY MigrationAssumption DEF LegacyAssumption, M
<1>2. /\ ToSet(LegacyUsers) \subseteq U /\ ToSet(LegacySources) \subseteq S
      /\ ToSet(LegacyAgents) \subseteq A
      /\ DOMAIN LegacyAgents = 1 .. Len(LegacyAgents) /\ Len(LegacyAgents) \in Nat
      /\ \A i \in 1 .. Len(LegacyAgents) : LegacyAgents[i] \in ToSet(LegacyAgents)
    <2> HIDE DEF U, S, A
    <2> QED
        BY <1>1, Elements
<1>3. UserNames \subseteq UserName
    BY <1>2 DEF UserNames
<1>4. SourceNames \subseteq SourceName
    BY <1>2 DEF SourceNames
<1>5. AgentNames \subseteq AgentName
    BY <1>2 DEF AgentNames
<1>6. ASSUME NEW i \in DOMAIN LegacyAgents
      PROVE  LegacyAgents[i].name \in AgentNames /\ LegacyAgents[i].memory \in M
    BY <1>2, <1>6 DEF AgentNames
<1> QED
    BY <1>2, <1>3, <1>4, <1>5, <1>6 DEF M

SessionRow == [id : Nat, agent : Nat, title : Title, at : 0 .. Late - 1]
LEMMA SessionsTyped ==
    /\ Sessions \in Seq(SessionRow) /\ Len(Sessions) \in Nat /\ DOMAIN Sessions = 1 .. Len(Sessions)
    /\ \A i \in 1 .. Len(Sessions) : Sessions[i] \in ToSet(Sessions)
    /\ ToSet(Sessions) \subseteq SessionRow
    /\ ToSet(Sessions) \subseteq ToSet(LegacySessions)
    /\ \A s \in ToSet(Sessions) : s.id \in SessionIds /\ AgentOf(s) \in AgentNames
    /\ \A s, x \in ToSet(Sessions) : s.id = x.id => s = x
<1> DEFINE T == {s \in ToSet(LegacySessions) : s.agent \in AgentIds}
<1>1. LegacySessions \in Seq(SessionRow)
    BY MigrationAssumption DEF LegacyAssumption, SessionRow
<1>2. Sessions \in Seq(SessionRow \cap T)
    BY <1>1, OnlyTyped DEF Sessions
<1>3. /\ ToSet(Sessions) \subseteq SessionRow \cap T /\ DOMAIN Sessions = 1 .. Len(Sessions)
      /\ Len(Sessions) \in Nat /\ \A i \in 1 .. Len(Sessions) : Sessions[i] \in ToSet(Sessions)
    BY <1>2, Elements
<1>4. Sessions \in Seq(SessionRow)
    BY <1>2
<1>5. ASSUME NEW s \in ToSet(Sessions) PROVE s.id \in SessionIds /\ AgentOf(s) \in AgentNames
    <2>1. s.agent \in AgentIds
        BY <1>3
    <2>2. PICK a \in ToSet(LegacyAgents) : a.id = s.agent
        BY <2>1 DEF AgentIds
    <2>3. (CHOOSE b \in ToSet(LegacyAgents) : b.id = s.agent) \in ToSet(LegacyAgents)
        BY <2>2
    <2>4. AgentOf(s) \in AgentNames
        BY <2>3 DEF AgentOf, AgentNames
    <2> QED
        BY <2>4 DEF SessionIds
<1>6. \A s, x \in ToSet(Sessions) : s.id = x.id => s = x
    BY <1>3, MigrationAssumption DEF LegacyAssumption
<1> QED
    BY <1>3, <1>4, <1>5, <1>6

LEMMA MessagesTyped ==
    ASSUME NEW s \in ToSet(Sessions)
    PROVE  MessagesOf[s] \in Seq(Message)
<1> DEFINE L == [session : Nat, role : STRING, text : STRING \ {"live"}]
           T == {m \in ToSet(LegacyMessages) : m.session = s.id /\ m.role # "" /\ m.text # ""}
           kept == Only(LegacyMessages, T)
           said(i) == [role |-> Channel(kept[i].role), text |-> kept[i].text]
<1>1. LegacyMessages \in Seq(L)
    BY MigrationAssumption DEF LegacyAssumption
<1>2. s \in ToSet(LegacySessions)
    BY SessionsTyped
<1>3. MessagesOf[s] = [i \in DOMAIN kept |-> said(i)]
    BY <1>2 DEF MessagesOf
<1> HIDE DEF L, T
<1>4. kept \in Seq(L \cap T)
    BY <1>1, OnlyTyped
<1> HIDE DEF kept
<1>5. Len(kept) \in Nat /\ DOMAIN kept = 1 .. Len(kept) /\ \A i \in 1 .. Len(kept) : kept[i] \in T
    BY <1>4
<1>6. ASSUME NEW i \in 1 .. Len(kept) PROVE said(i) \in Message
    <2>1. kept[i] \in ToSet(LegacyMessages)
        BY <1>5 DEF T
    <2>2. kept[i].text \in Text
        BY <2>1 DEF Text
    <2> QED
        BY <2>2 DEF Message, Channel
<1> HIDE DEF said
<1>7. [i \in 1 .. Len(kept) |-> said(i)] \in Seq(Message)
    BY <1>5, <1>6
<1> QED
    BY <1>3, <1>5, <1>7

LEMMA MemoriesTyped ==
    ASSUME NEW k \in DOMAIN LegacyAgents
    PROVE  SplitMemories(LegacyAgents[k].memory) \in Seq(FactText)
<1> DEFINE L == [list : BOOLEAN, text : FactText]
           memory == LegacyAgents[k].memory
           T == {m \in ToSet(memory) : m.list => Key[m.text] # ""}
           kept == Only(memory, T)
<1>1. memory \in Seq(L)
    BY LegacyTypes
<1>2. SplitMemories(memory) = [i \in DOMAIN kept |-> kept[i].text]
    BY DEF SplitMemories
<1>3. kept \in Seq(L \cap T)
    <2> HIDE DEF L, T, memory
    <2> QED
        BY <1>1, OnlyTyped
<1> HIDE DEF kept, T, memory
<1>4. Len(kept) \in Nat /\ DOMAIN kept = 1 .. Len(kept) /\ \A i \in 1 .. Len(kept) : kept[i] \in L
    BY <1>3
<1>5. \A i \in 1 .. Len(kept) : kept[i].text \in FactText
    BY <1>4
<1>6. [i \in 1 .. Len(kept) |-> kept[i].text] \in Seq(FactText)
    BY <1>4, <1>5
<1> QED
    BY <1>2, <1>4, <1>6 DEF memory

LEMMA FirstUserRole ==
    ASSUME NEW n \in UserNames
    PROVE  FirstUser(n).role \in {"admin", "usuario"}
<1> DEFINE U == [name : UserName, role : {"admin", "usuario"}]
           I == {i \in DOMAIN LegacyUsers : LegacyUsers[i].name = n}
<1>1. LegacyUsers \in Seq(U)
    BY MigrationAssumption DEF LegacyAssumption
<1>2. DOMAIN LegacyUsers = 1 .. Len(LegacyUsers) /\ Len(LegacyUsers) \in Nat
    BY <1>1
<1>3. I \in SUBSET Nat /\ I # {}
    <2>1. PICK u \in ToSet(LegacyUsers) : u.name = n
        BY DEF UserNames
    <2>2. PICK i \in DOMAIN LegacyUsers : LegacyUsers[i] = u
        BY <2>1 DEF ToSet
    <2> QED
        BY <1>2, <2>1, <2>2
<1>4. PICK i \in I : \A j \in I : i <= j
    <2> HIDE DEF I
    <2> QED
        BY <1>3, LeastNumber
<1>5. Min(I) \in I
    <2> HIDE DEF I
    <2>1. Min(I) = CHOOSE x \in I : \A y \in I : x <= y
        BY DEF Min
    <2> QED
        BY <1>4, <2>1
<1>6. FirstUser(n) = LegacyUsers[Min(I)]
    BY DEF FirstUser
<1>7. \A j \in I : LegacyUsers[j] \in U
    <2> HIDE DEF U
    <2>1. \A j \in DOMAIN LegacyUsers : LegacyUsers[j] \in U
        BY <1>1, <1>2
    <2> QED
        BY <2>1
<1>8. LegacyUsers[Min(I)] \in U
    <2> HIDE DEF I, U
    <2> QED
        BY <1>5, <1>7
<1> HIDE DEF I
<1> QED
    BY <1>6, <1>8

LEMMA LinkedTyped == \A a : LinkedSources(a) \subseteq SourceNames
BY DEF LinkedSources, SourceNames

LEMMA RoleTyped == \A a : RoleOf(a) \in RoleKeys \cup {""}
BY DEF RoleOf

-----------------------------------------------------------------------------
\* The threads that a run finds or makes (_upsert_thread).

LEMMA RowsAreNot ==
    /\ Unused \notin ThreadRow /\ Unused \notin UserRow
    /\ Unused \notin [role : RoleKeys \cup {""}]
<1>1. DOMAIN Unused = {"row"}
    BY DEF Unused
<1>2. \A r \in ThreadRow : DOMAIN r = {"agent", "title", "at", "mark"}
    BY DEF ThreadRow
<1>3. \A r \in UserRow : DOMAIN r = {"hash", "email", "role"}
    BY DEF UserRow
<1>4. \A r \in [role : RoleKeys \cup {""}] : DOMAIN r = {"role"}
    OBVIOUS
<1>5. "row" \notin {"agent", "title", "at", "mark"} /\ "row" \notin {"hash", "email", "role"} /\ "row" \notin {"role"}
    OBVIOUS
<1>6. "row" \in DOMAIN Unused
    BY <1>1
<1> QED
    BY <1>2, <1>3, <1>4, <1>5, <1>6

Rows == [Thread -> ThreadRow \cup {Unused}]
NoThread == CHOOSE t \in {} : TRUE
Acc == [threads : Rows, of : [SessionIds -> Thread \cup {0, NoThread}]]

\* What _upsert_thread makes of one session.
ThreadFor(acc, s) ==
    IF Found(acc.threads, s) # {} THEN CHOOSE x \in Found(acc.threads, s) : TRUE
    ELSE CHOOSE x \in Free(acc.threads) : TRUE
RowFor(s, t) == [agent |-> AgentOf(s), title |-> s.title, at |-> CreatedAt(s, t), mark |-> 0]
LEMMA UpsertIs ==
    ASSUME NEW acc, NEW s
    PROVE  UpsertThread(acc, s) =
             [threads |-> IF Found(acc.threads, s) # {} THEN acc.threads
                          ELSE [acc.threads EXCEPT ![ThreadFor(acc, s)] = RowFor(s, ThreadFor(acc, s))],
              of |-> [acc.of EXCEPT ![s.id] = ThreadFor(acc, s)]]
BY DEF UpsertThread, ThreadFor, RowFor

LEMMA CreatedTyped ==
    ASSUME NEW s \in ToSet(Sessions), NEW t \in Thread
    PROVE  /\ t \in Nat /\ RowFor(s, t) \in ThreadRow
           /\ IF s.at = 0 THEN CreatedAt(s, t) = Late + t
              ELSE CreatedAt(s, t) = s.at /\ s.at \in 1 .. Late - 1
<1>1. t \in Nat
    BY MigrationAssumption
<1>2. s \in SessionRow /\ AgentOf(s) \in AgentName
    BY SessionsTyped, LegacyTypes
<1>3. s.at \in 0 .. Late - 1 /\ s.title \in Title
    BY <1>2 DEF SessionRow
<1> QED
    BY <1>1, <1>2, <1>3, MigrationAssumption DEF CreatedAt, RowFor, ThreadRow

LEMMA UpsertTyped ==
    ASSUME NEW acc \in Acc, NEW s \in ToSet(Sessions)
    PROVE  UpsertThread(acc, s) \in Acc
<1> DEFINE t == ThreadFor(acc, s)
           ths == IF Found(acc.threads, s) # {} THEN acc.threads
                  ELSE [acc.threads EXCEPT ![t] = RowFor(s, t)]
           of == [acc.of EXCEPT ![s.id] = t]
<1>1. acc.threads \in Rows /\ acc.of \in [SessionIds -> Thread \cup {0, NoThread}]
    BY DEF Acc
<1>2. t \in Thread \cup {NoThread}
    <2>1. CASE Found(acc.threads, s) # {}
        <3>1. t \in Found(acc.threads, s)
            BY <2>1 DEF ThreadFor
        <3> QED
            BY <3>1 DEF Found
    <2>2. CASE Found(acc.threads, s) = {} /\ Free(acc.threads) # {}
        <3>1. t \in Free(acc.threads)
            BY <2>2 DEF ThreadFor
        <3> QED
            BY <3>1 DEF Free
    <2>3. CASE Found(acc.threads, s) = {} /\ Free(acc.threads) = {}
        BY <2>3 DEF ThreadFor, NoThread
    <2> QED
        BY <2>1, <2>2, <2>3
<1> HIDE DEF t
<1>3. t \in Thread => RowFor(s, t) \in ThreadRow
    BY CreatedTyped
<1>4. ths \in Rows
    <2>1. CASE t \in Thread
        BY <1>1, <1>3, <2>1 DEF Rows
    <2>2. CASE t \notin Thread
        <3>1. [acc.threads EXCEPT ![t] = RowFor(s, t)] = acc.threads
            BY <1>1, <2>2 DEF Rows
        <3> QED
            BY <1>1, <3>1
    <2> QED
        BY <2>1, <2>2
<1>5. of \in [SessionIds -> Thread \cup {0, NoThread}]
    BY <1>1, <1>2
<1>6. UpsertThread(acc, s) = [threads |-> ths, of |-> of]
    BY UpsertIs DEF t
<1> HIDE DEF ths, of
<1> QED
    BY <1>4, <1>5, <1>6 DEF Acc

LEMMA UpsertedIs ==
    ASSUME threads \in Rows
    PROVE  /\ Upserted[0] = [threads |-> threads, of |-> [id \in SessionIds |-> 0]]
           /\ \A n \in 1 .. Len(Sessions) :
                Upserted[n] = UpsertThread(Upserted[n - 1], Sessions[n]) /\ Upserted[n - 1] \in Acc
<1> DEFINE first == [threads |-> threads, of |-> [id \in SessionIds |-> 0]]
           g == [p \in (1 .. Len(Sessions)) \X Acc |-> UpsertThread(p[2], Sessions[p[1]])]
<1>1. Len(Sessions) \in Nat /\ first \in Acc
    BY SessionsTyped DEF Acc
<1> HIDE DEF first
<1>2. g \in [(1 .. Len(Sessions)) \X Acc -> Acc]
    <2>1. ASSUME NEW p \in (1 .. Len(Sessions)) \X Acc
          PROVE  UpsertThread(p[2], Sessions[p[1]]) \in Acc
        <3>1. p[1] \in 1 .. Len(Sessions) /\ p[2] \in Acc
            BY <2>1
        <3>2. Sessions[p[1]] \in ToSet(Sessions)
            BY <3>1, SessionsTyped
        <3> QED
            BY <3>1, <3>2, UpsertTyped
    <2> QED
        BY <2>1
<1>3. \A n \in 1 .. Len(Sessions) : \A v \in Acc : g[<<n, v>>] = UpsertThread(v, Sessions[n])
    OBVIOUS
<1> HIDE DEF g
<1>4. PICK f : GoesOn(Acc, Len(Sessions), first, g, f)
    BY <1>1, <1>2, RecursionDefined
<1>5. ASSUME NEW n \in 0 .. Len(Sessions), n # 0
      PROVE  f[n] = UpsertThread(f[n - 1], Sessions[n])
    <2>1. n \in 1 .. Len(Sessions) /\ n - 1 \in 0 .. Len(Sessions)
        BY <1>1, <1>5
    <2> QED
        BY <1>3, <1>4, <2>1 DEF GoesOn
<1> DEFINE Kept(k) == k = [n \in 0 .. Len(Sessions) |->
              IF n = 0 THEN first ELSE UpsertThread(k[n - 1], Sessions[n])]
           F == CHOOSE k : Kept(k)
<1>6. Kept(f)
    BY <1>4, <1>5 DEF GoesOn
<1>7. Upserted = F
    BY DEF Upserted, first
<1>8. Kept(F)
    BY <1>6
<1> HIDE DEF F
<1>9. \A n \in 0 .. Len(Sessions) :
        F[n] = IF n = 0 THEN first ELSE UpsertThread(F[n - 1], Sessions[n])
    <2> DEFINE h(n) == IF n = 0 THEN first ELSE UpsertThread(F[n - 1], Sessions[n])
    <2>1. F = [n \in 0 .. Len(Sessions) |-> h(n)]
        BY <1>8
    <2> HIDE DEF h
    <2>2. \A n \in 0 .. Len(Sessions) : F[n] = h(n)
        BY <2>1
    <2> QED
        BY <2>2 DEF h
<1> HIDE DEF Kept
<1> DEFINE G == {n \in 0 .. Len(Sessions) : F[n] \in Acc}
<1>10. F[0] = first /\ 0 \in G
    <2>1. 0 \in 0 .. Len(Sessions)
        BY <1>1
    <2>2. F[0] = first
        BY <1>9, <2>1
    <2> QED
        BY <1>1, <2>1, <2>2
<1>11. ASSUME NEW n \in Nat, n < Len(Sessions), n \in G PROVE n + 1 \in G
    <2>1. n + 1 \in 1 .. Len(Sessions) /\ n + 1 \in 0 .. Len(Sessions) /\ n + 1 # 0 /\ (n + 1) - 1 = n
        BY <1>1, <1>11
    <2>2. F[n + 1] = UpsertThread(F[n], Sessions[n + 1])
        BY <1>9, <2>1
    <2>3. F[n] \in Acc /\ Sessions[n + 1] \in ToSet(Sessions)
        BY <1>11, <2>1, SessionsTyped
    <2>4. F[n + 1] \in Acc
        BY <2>2, <2>3, UpsertTyped
    <2> QED
        BY <2>1, <2>4
<1>12. \A n \in 0 .. Len(Sessions) : n \in G
    <2> HIDE DEF G
    <2> QED
        BY <1>1, <1>10, <1>11, NumbersReached
<1>13. ASSUME NEW n \in 1 .. Len(Sessions)
       PROVE  F[n] = UpsertThread(F[n - 1], Sessions[n]) /\ F[n - 1] \in Acc
    <2>1. n \in 0 .. Len(Sessions) /\ n # 0 /\ n - 1 \in 0 .. Len(Sessions)
        BY <1>1, <1>13
    <2> QED
        BY <1>9, <1>12, <2>1
<1> QED
    BY <1>7, <1>10, <1>13 DEF first

\* The rows fit together, and those of the first n sessions are there.
KeyIn(ths, t) == <<ths[t].agent, ths[t].title, ths[t].at>>
RowsFit(ths) ==
    /\ ths \in Rows
    /\ \A t \in Thread : ths[t] # Unused => ths[t].at \in 1 .. Late - 1 \/ ths[t].at = Late + t
    /\ \A t, x \in Thread \ renamed :
         t # x /\ ths[t] # Unused /\ ths[x] # Unused => KeyIn(ths, t) # KeyIn(ths, x)
Known(acc, s) ==
    LET t == acc.of[s.id]
    IN  t \in Thread /\ acc.threads[t] # Unused /\ KeyIn(acc.threads, t) = SessionKey(s, t)
Fits(acc, n) ==
    /\ acc \in Acc /\ RowsFit(acc.threads)
    /\ \A t \in Thread : threads[t] # Unused => acc.threads[t] = threads[t]
    /\ \A t \in Thread : threads[t] = Unused /\ acc.threads[t] # Unused => acc.threads[t].agent \in AgentNames
    /\ \A k \in 1 .. n : Known(acc, Sessions[k])

LEMMA FoundKnown ==
    ASSUME NEW ths, RowsFit(ths), NEW s \in ToSet(Sessions), NEW t \in Found(ths, s)
    PROVE  t \in Thread /\ ths[t] # Unused /\ KeyIn(ths, t) = SessionKey(s, t)
<1>1. t \in Thread /\ ths[t] # Unused /\ ths[t].agent = AgentOf(s) /\ ths[t].title = s.title /\ ths[t].at = s.at
    BY DEF Found
<1>2. ths[t].at # 0
    <2>1. t \in Nat
        BY <1>1, CreatedTyped
    <2>2. ths[t].at \in 1 .. Late - 1 \/ ths[t].at = Late + t
        BY <1>1 DEF RowsFit
    <2> QED
        BY <2>1, <2>2, MigrationAssumption
<1>3. CreatedAt(s, t) = s.at
    BY <1>1, <1>2, CreatedTyped
<1> QED
    BY <1>1, <1>3 DEF KeyIn, SessionKey

\* A new thread has a key of its own: nothing was found that has the key of its
\* session, and the present moment is nobody else's.
LEMMA NewKey ==
    ASSUME NEW ths, RowsFit(ths), NEW s \in ToSet(Sessions), Found(ths, s) = {},
           NEW t \in Thread, NEW x \in Thread, t # x, ths[x] # Unused
    PROVE  KeyIn(ths, x) # SessionKey(s, t)
<1> SUFFICES ASSUME KeyIn(ths, x) = SessionKey(s, t) PROVE FALSE
    OBVIOUS
<1>1. ths[x].agent = AgentOf(s) /\ ths[x].title = s.title /\ ths[x].at = CreatedAt(s, t)
    BY DEF KeyIn, SessionKey
<1>2. ths[x].at \in 1 .. Late - 1 \/ ths[x].at = Late + x
    BY DEF RowsFit
<1>3. t \in Nat /\ x \in Nat /\ CreatedAt(s, t) = IF s.at = 0 THEN Late + t ELSE s.at
    BY CreatedTyped
<1>4. CASE s.at = 0
    BY <1>1, <1>2, <1>3, <1>4, MigrationAssumption
<1>5. CASE s.at # 0
    <2>1. ths[x].at = s.at
        BY <1>1, <1>3, <1>5
    <2>2. x \in Found(ths, s)
        BY <1>1, <2>1 DEF Found
    <2> QED
        BY <2>2
<1> QED
    BY <1>4, <1>5

LEMMA UpsertFits ==
    ASSUME NEW n \in 1 .. Len(Sessions), NEW acc, Fits(acc, n - 1), Free(acc.threads) # {},
           threads \in Rows
    PROVE  Fits(UpsertThread(acc, Sessions[n]), n)
<1> DEFINE s == Sessions[n]
           t == ThreadFor(acc, s)
           new == Found(acc.threads, s) = {}
           ths == IF new THEN [acc.threads EXCEPT ![t] = RowFor(s, t)] ELSE acc.threads
           of == [acc.of EXCEPT ![s.id] = t]
           up == UpsertThread(acc, s)
<1>1. s \in ToSet(Sessions) /\ s.id \in SessionIds
    BY SessionsTyped
<1>2. up.threads = ths /\ up.of = of
    BY UpsertIs
<1>3. acc \in Acc /\ RowsFit(acc.threads) /\ up \in Acc
    BY <1>1, UpsertTyped DEF Fits
<1> HIDE DEF s
<1>4. t \in Thread /\ (new => acc.threads[t] = Unused)
    <2>1. CASE new
        <3>1. t \in Free(acc.threads)
            BY <2>1 DEF ThreadFor
        <3> QED
            BY <3>1 DEF Free
    <2>2. CASE ~new
        <3>1. t \in Found(acc.threads, s)
            BY <2>2 DEF ThreadFor
        <3> QED
            BY <2>2, <3>1 DEF Found
    <2> QED
        BY <2>1, <2>2
<1> HIDE DEF t, up
<1>5. acc.threads \in Rows /\ acc.of \in [SessionIds -> Thread \cup {0, NoThread}]
    BY <1>3 DEF Acc
<1>6. RowFor(s, t) \in ThreadRow /\ RowFor(s, t) # Unused /\ RowFor(s, t).agent \in AgentNames
    <2>1. RowFor(s, t) \in ThreadRow
        BY <1>1, <1>4, CreatedTyped
    <2>2. RowFor(s, t).agent = AgentOf(s) /\ AgentOf(s) \in AgentNames
        BY <1>1, SessionsTyped DEF RowFor
    <2> QED
        BY <2>1, <2>2, RowsAreNot
<1>7. KeyIn(ths, t) = SessionKey(s, t) /\ ths[t] # Unused
    <2>1. CASE new
        <3>1. ths[t] = RowFor(s, t)
            BY <1>4, <1>5, <2>1 DEF Rows
        <3> QED
            BY <1>6, <3>1 DEF KeyIn, SessionKey, RowFor
    <2>2. CASE ~new
        <3>1. t \in Found(acc.threads, s)
            BY <2>2 DEF t, ThreadFor
        <3> QED
            BY <1>1, <1>3, <2>2, <3>1, FoundKnown
    <2> QED
        BY <2>1, <2>2
<1>8. \A x \in Thread : x # t \/ ~new => ths[x] = acc.threads[x]
    BY <1>5 DEF Rows
<1>9. RowsFit(ths)
    <2>1. CASE ~new
        BY <1>3, <2>1
    <2>2. CASE new
        <3>1. ths \in Rows
            BY <1>4, <1>5, <1>6, <2>2 DEF Rows
        <3>2. ths[t].at \in 1 .. Late - 1 \/ ths[t].at = Late + t
            <4>1. ths[t].at = CreatedAt(s, t)
                BY <1>7 DEF KeyIn, SessionKey
            <4> QED
                BY <1>1, <1>4, <4>1, CreatedTyped
        <3>3. ASSUME NEW x \in Thread, ths[x] # Unused PROVE ths[x].at \in 1 .. Late - 1 \/ ths[x].at = Late + x
            <4>1. CASE x = t
                BY <3>2, <4>1
            <4>2. CASE x # t
                BY <1>3, <1>8, <3>3, <4>2 DEF RowsFit
            <4> QED
                BY <4>1, <4>2
        <3>4. ASSUME NEW x \in Thread, x # t, ths[x] # Unused PROVE KeyIn(ths, x) # KeyIn(ths, t)
            <4>1. ths[x] = acc.threads[x]
                BY <1>8, <3>4
            <4>2. KeyIn(acc.threads, x) # SessionKey(s, t)
                BY <1>1, <1>3, <1>4, <2>2, <3>4, <4>1, NewKey
            <4> QED
                BY <1>7, <4>1, <4>2 DEF KeyIn
        <3>5. ASSUME NEW x \in Thread \ renamed, NEW y \in Thread \ renamed,
                     x # y, ths[x] # Unused, ths[y] # Unused
              PROVE  KeyIn(ths, x) # KeyIn(ths, y)
            <4>1. CASE x = t
                BY <3>4, <3>5, <4>1
            <4>2. CASE y = t
                BY <3>4, <3>5, <4>2
            <4>3. CASE x # t /\ y # t
                <5>1. ths[x] = acc.threads[x] /\ ths[y] = acc.threads[y]
                    BY <1>8, <3>5, <4>3
                <5>2. KeyIn(acc.threads, x) # KeyIn(acc.threads, y)
                    BY <1>3, <3>5, <5>1 DEF RowsFit
                <5> QED
                    BY <5>1, <5>2 DEF KeyIn
            <4> QED
                BY <4>1, <4>2, <4>3
        <3> QED
            BY <3>1, <3>3, <3>5 DEF RowsFit
    <2> QED
        BY <2>1, <2>2
<1>10. ASSUME NEW x \in Thread, threads[x] # Unused PROVE ths[x] = threads[x]
    <2>1. acc.threads[x] = threads[x]
        BY <1>10 DEF Fits
    <2>2. new => x # t
        BY <1>4, <1>10, <2>1
    <2> QED
        BY <1>8, <2>1, <2>2
<1>11. ASSUME NEW x \in Thread, threads[x] = Unused, ths[x] # Unused PROVE ths[x].agent \in AgentNames
    <2>1. CASE x = t
        <3>1. ths[t].agent = AgentOf(s)
            BY <1>7 DEF KeyIn, SessionKey
        <3> QED
            BY <1>1, <2>1, <3>1, SessionsTyped
    <2>2. CASE x # t
        BY <1>8, <1>11, <2>2 DEF Fits
    <2> QED
        BY <2>1, <2>2
<1>12. ASSUME NEW k \in 1 .. n PROVE Known(up, Sessions[k])
    <2>1. Sessions[k] \in ToSet(Sessions) /\ Sessions[k].id \in SessionIds
        BY SessionsTyped
    <2>2. CASE Sessions[k].id = s.id
        <3>1. Sessions[k] = s
            BY <1>1, <2>1, <2>2, SessionsTyped
        <3>2. of[s.id] = t
            BY <1>1, <1>5
        <3> QED
            BY <1>2, <1>4, <1>7, <3>1, <3>2 DEF Known
    <2>3. CASE Sessions[k].id # s.id
        <3>1. k # n
            BY <2>3 DEF s
        <3>2. k \in 1 .. n - 1
            BY <3>1, SessionsTyped
        <3>3. Known(acc, Sessions[k])
            BY <3>2 DEF Fits
        <3>4. of[Sessions[k].id] = acc.of[Sessions[k].id]
            BY <1>5, <2>1, <2>3
        <3> DEFINE x == acc.of[Sessions[k].id]
        <3>5. x \in Thread /\ acc.threads[x] # Unused /\ KeyIn(acc.threads, x) = SessionKey(Sessions[k], x)
            BY <3>3 DEF Known
        <3>6. ths[x] = acc.threads[x]
            BY <1>4, <1>8, <3>5
        <3>7. KeyIn(ths, x) = SessionKey(Sessions[k], x)
            BY <3>5, <3>6 DEF KeyIn
        <3> HIDE DEF ths, of
        <3> QED
            BY <1>2, <3>4, <3>5, <3>6, <3>7 DEF Known
    <2> QED
        BY <2>2, <2>3
<1> HIDE DEF ths, of
<1>13. Fits(up, n)
    BY <1>2, <1>3, <1>9, <1>10, <1>11, <1>12 DEF Fits
<1> QED
    BY <1>13 DEF up, s

LEMMA UpsertedFits ==
    ASSUME RowsFit(threads), \A n \in DOMAIN Sessions : Free(Upserted[n - 1].threads) # {}
    PROVE  Fits(Upserted[Len(Sessions)], Len(Sessions))
<1> DEFINE G == {n \in 0 .. Len(Sessions) : Fits(Upserted[n], n)}
<1>1. threads \in Rows /\ Len(Sessions) \in Nat /\ DOMAIN Sessions = 1 .. Len(Sessions)
    BY SessionsTyped DEF RowsFit
<1>2. 0 \in G
    <2> DEFINE first == [threads |-> threads, of |-> [id \in SessionIds |-> 0]]
    <2>1. first \in Acc /\ first.threads = threads
        BY <1>1 DEF Acc
    <2>2. Upserted[0] = first
        BY <1>1, UpsertedIs
    <2> HIDE DEF first
    <2>3. Fits(first, 0)
        BY <2>1 DEF Fits
    <2>4. 0 \in 0 .. Len(Sessions)
        BY <1>1
    <2> QED
        BY <2>2, <2>3, <2>4
<1>3. ASSUME NEW n \in Nat, n < Len(Sessions), n \in G PROVE n + 1 \in G
    <2>1. n + 1 \in 1 .. Len(Sessions) /\ n + 1 \in 0 .. Len(Sessions) /\ (n + 1) - 1 = n
        BY <1>1, <1>3
    <2>2. Upserted[n + 1] = UpsertThread(Upserted[n], Sessions[n + 1])
        BY <1>1, <2>1, UpsertedIs
    <2>3. Fits(Upserted[n], n) /\ Free(Upserted[n].threads) # {}
        BY <1>1, <1>3, <2>1
    <2>4. Fits(Upserted[n], (n + 1) - 1)
        BY <2>1, <2>3
    <2>5. Fits(UpsertThread(Upserted[n], Sessions[n + 1]), n + 1)
        BY <1>1, <2>1, <2>3, <2>4, UpsertFits
    <2> QED
        BY <2>1, <2>2, <2>5
<1> HIDE DEF G
<1>4. \A n \in 0 .. Len(Sessions) : n \in G
    BY <1>1, <1>2, <1>3, NumbersReached
<1>5. Len(Sessions) \in 0 .. Len(Sessions)
    BY <1>1
<1> QED
    BY <1>4, <1>5 DEF G

-----------------------------------------------------------------------------
\* Transcripts and namespaces.

\* The messages are in s once and whole, among live ones only (cf. Holds).
Within(s, messages) ==
    \E k \in 0 .. Len(s) :
        /\ k + Len(messages) <= Len(s)
        /\ \A i \in DOMAIN s : IF i \in k + 1 .. k + Len(messages) THEN s[i] = messages[i - k]
                               ELSE s[i].text = "live"

LEMMA HoldsNow ==
    ASSUME NEW t, NEW m
    PROVE  /\ Holds(t, m) <=> Within(transcript[t], m)
           /\ Holds(t, m)' <=> Within(transcript'[t], m)
<1>1. Holds(t, m) <=> Within(transcript[t], m)
    BY DEF Holds, Within
<1>2. Holds(t, m)' <=> Within(transcript'[t], m)
    BY DEF Holds, Within
<1> QED
    BY <1>1, <1>2

LEMMA TurnTyped ==
    /\ Turn \in Seq(Message) /\ Len(Turn) = 2
    /\ \A i \in 1 .. 2 : Turn[i].text = "live"
<1>1. Turn[1] = [role |-> "user", text |-> "live"] /\ Turn[2] = [role |-> "assistant", text |-> "live"]
    BY DEF Turn
<1>2. [role |-> "user", text |-> "live"] \in Message /\ [role |-> "assistant", text |-> "live"] \in Message
    BY DEF Message, Text
<1>3. Turn \in Seq(Message) /\ Len(Turn) = 2
    BY <1>2 DEF Turn
<1>4. \A i \in 1 .. 2 : i = 1 \/ i = 2
    OBVIOUS
<1> QED
    BY <1>1, <1>3, <1>4

\* The elements of a concatenation.
LEMMA Joined ==
    ASSUME NEW S, NEW a \in Seq(S), NEW b \in Seq(S)
    PROVE  /\ a \o b \in Seq(S) /\ Len(a \o b) = Len(a) + Len(b) /\ Len(a) \in Nat /\ Len(b) \in Nat
           /\ DOMAIN (a \o b) = 1 .. Len(a) + Len(b) /\ DOMAIN a = 1 .. Len(a) /\ DOMAIN b = 1 .. Len(b)
           /\ \A i \in 1 .. Len(a) : (a \o b)[i] = a[i]
           /\ \A i \in Len(a) + 1 .. Len(a) + Len(b) : (a \o b)[i] = b[i - Len(a)] /\ i - Len(a) \in 1 .. Len(b)
<1>1. a \o b \in Seq(S) /\ Len(a \o b) = Len(a) + Len(b) /\ Len(a) \in Nat /\ Len(b) \in Nat
    BY ConcatProperties
<1>2. DOMAIN (a \o b) = 1 .. Len(a) + Len(b) /\ DOMAIN a = 1 .. Len(a) /\ DOMAIN b = 1 .. Len(b)
    BY <1>1
<1>3. \A i \in 1 .. Len(a) + Len(b) : (a \o b)[i] = IF i <= Len(a) THEN a[i] ELSE b[i - Len(a)]
    BY ConcatProperties
<1>4. ASSUME NEW i \in 1 .. Len(a) PROVE (a \o b)[i] = a[i]
    BY <1>1, <1>3
<1>5. ASSUME NEW i \in Len(a) + 1 .. Len(a) + Len(b)
      PROVE  (a \o b)[i] = b[i - Len(a)] /\ i - Len(a) \in 1 .. Len(b)
    <2>1. i \in 1 .. Len(a) + Len(b) /\ ~(i <= Len(a)) /\ i - Len(a) \in 1 .. Len(b)
        BY <1>1
    <2> QED
        BY <1>3, <2>1
<1> QED
    BY <1>1, <1>2, <1>4, <1>5

\* A live turn leaves what a transcript holds.
LEMMA WithinLive ==
    ASSUME NEW s \in Seq(Message), NEW m \in Seq(Message), Within(s, m)
    PROVE  Within(s \o Turn, m)
<1> DEFINE c == s \o Turn
           At(q, k, i) == IF i \in k + 1 .. k + Len(m) THEN q[i] = m[i - k] ELSE q[i].text = "live"
<1>1. /\ Len(c) = Len(s) + 2 /\ Len(s) \in Nat /\ DOMAIN c = 1 .. Len(s) + 2 /\ DOMAIN s = 1 .. Len(s)
      /\ \A i \in 1 .. Len(s) : c[i] = s[i]
      /\ \A i \in Len(s) + 1 .. Len(s) + 2 : c[i].text = "live"
    <2>1. Turn \in Seq(Message) /\ Len(Turn) = 2
        BY TurnTyped
    <2>2. ASSUME NEW b \in Seq(Message), Len(b) = 2
          PROVE  /\ Len(s \o b) = Len(s) + 2 /\ Len(s) \in Nat
                 /\ DOMAIN (s \o b) = 1 .. Len(s) + 2 /\ DOMAIN s = 1 .. Len(s)
                 /\ \A i \in 1 .. Len(s) : (s \o b)[i] = s[i]
                 /\ \A i \in Len(s) + 1 .. Len(s) + 2 :
                      (s \o b)[i] = b[i - Len(s)] /\ i - Len(s) \in 1 .. 2
        <3>1. /\ Len(s \o b) = Len(s) + Len(b) /\ Len(s) \in Nat
              /\ DOMAIN (s \o b) = 1 .. Len(s) + Len(b) /\ DOMAIN s = 1 .. Len(s)
            BY Joined
        <3>2. \A i \in 1 .. Len(s) : (s \o b)[i] = s[i]
            BY Joined
        <3>3. \A i \in Len(s) + 1 .. Len(s) + Len(b) :
                (s \o b)[i] = b[i - Len(s)] /\ i - Len(s) \in 1 .. Len(b)
            BY Joined
        <3> QED
            BY <2>2, <3>1, <3>2, <3>3
    <2> HIDE DEF c
    <2>3. /\ Len(c) = Len(s) + 2 /\ Len(s) \in Nat
          /\ DOMAIN c = 1 .. Len(s) + 2 /\ DOMAIN s = 1 .. Len(s)
          /\ \A i \in 1 .. Len(s) : c[i] = s[i]
          /\ \A i \in Len(s) + 1 .. Len(s) + 2 : c[i] = Turn[i - Len(s)] /\ i - Len(s) \in 1 .. 2
        BY <2>1, <2>2 DEF c
    <2> QED
        BY <2>3, TurnTyped
<1> HIDE DEF c
<1>2. Len(m) \in Nat
    OBVIOUS
<1>3. PICK k \in 0 .. Len(s) : k + Len(m) <= Len(s) /\ \A i \in DOMAIN s : At(s, k, i)
    BY DEF Within
<1>4. ASSUME NEW i \in DOMAIN c PROVE At(c, k, i)
    <2>1. CASE i \in 1 .. Len(s)
        BY <1>1, <1>3, <2>1
    <2>2. CASE i \in Len(s) + 1 .. Len(s) + 2
        <3>1. i \notin k + 1 .. k + Len(m)
            BY <1>1, <1>2, <1>3, <2>2
        <3> QED
            BY <1>1, <2>2, <3>1
    <2>3. i \in 1 .. Len(s) \/ i \in Len(s) + 1 .. Len(s) + 2
        BY <1>1, <1>4
    <2> QED
        BY <2>1, <2>2, <2>3
<1>5. k \in 0 .. Len(c) /\ k + Len(m) <= Len(c)
    BY <1>1, <1>2, <1>3
<1>6. Within(c, m)
    BY <1>4, <1>5 DEF Within
<1> QED
    BY <1>6 DEF c

\* What is appended to live messages is held.
LEMMA WithinImport ==
    ASSUME NEW s \in Seq(Message), NEW m \in Seq(Message), Within(s, <<>>)
    PROVE  Within(s \o m, m)
<1> DEFINE c == s \o m
           At(q, k, i) == IF i \in k + 1 .. k + Len(m) THEN q[i] = m[i - k] ELSE q[i].text = "live"
<1>1. /\ Len(c) = Len(s) + Len(m) /\ Len(s) \in Nat /\ Len(m) \in Nat
      /\ DOMAIN c = 1 .. Len(s) + Len(m) /\ DOMAIN s = 1 .. Len(s)
      /\ \A i \in 1 .. Len(s) : c[i] = s[i]
      /\ \A i \in Len(s) + 1 .. Len(s) + Len(m) : c[i] = m[i - Len(s)]
    BY Joined
<1> HIDE DEF c
<1>2. \A i \in 1 .. Len(s) : s[i].text = "live"
    <2>1. PICK k \in 0 .. Len(s) :
            \A i \in DOMAIN s : IF i \in k + 1 .. k + Len(<<>>) THEN s[i] = <<>>[i - k] ELSE s[i].text = "live"
        BY DEF Within
    <2>2. Len(<<>>) = 0 /\ \A i \in 1 .. Len(s) : i \notin k + 1 .. k + 0
        BY <1>1
    <2> QED
        BY <1>1, <2>1, <2>2
<1>3. ASSUME NEW i \in DOMAIN c PROVE At(c, Len(s), i)
    <2>1. CASE i \in 1 .. Len(s)
        <3>1. i \notin Len(s) + 1 .. Len(s) + Len(m)
            BY <1>1, <2>1
        <3> QED
            BY <1>1, <1>2, <2>1, <3>1
    <2>2. CASE i \in Len(s) + 1 .. Len(s) + Len(m)
        BY <1>1, <2>2
    <2>3. i \in 1 .. Len(s) \/ i \in Len(s) + 1 .. Len(s) + Len(m)
        BY <1>1, <1>3
    <2> QED
        BY <2>1, <2>2, <2>3
<1>4. Len(s) \in 0 .. Len(c) /\ Len(s) + Len(m) <= Len(c)
    BY <1>1
<1>5. Within(c, m)
    BY <1>3, <1>4 DEF Within
<1> QED
    BY <1>5 DEF c

\* Where only live messages are, each is live; an empty transcript is such.
LEMMA WithinNothing ==
    ASSUME NEW s \in Seq(Message)
    PROVE  /\ Within(s, <<>>) => \A i \in 1 .. Len(s) : s[i].text = "live"
           /\ s = <<>> => Within(s, <<>>)
<1>1. ASSUME Within(s, <<>>) PROVE \A i \in 1 .. Len(s) : s[i].text = "live"
    <2>1. PICK k \in 0 .. Len(s) :
            \A i \in DOMAIN s : IF i \in k + 1 .. k + Len(<<>>) THEN s[i] = <<>>[i - k] ELSE s[i].text = "live"
        BY <1>1 DEF Within
    <2>2. DOMAIN s = 1 .. Len(s) /\ Len(s) \in Nat
        OBVIOUS
    <2>3. Len(<<>>) = 0 /\ \A i \in 1 .. Len(s) : i \notin k + 1 .. k + 0
        BY <2>2
    <2> QED
        BY <2>1, <2>2, <2>3
<1>2. ASSUME s = <<>> PROVE Within(s, <<>>)
    <2>1. Len(s) = 0 /\ \A i \in DOMAIN s : FALSE
        BY <1>2
    <2>2. 0 \in 0 .. Len(s) /\ 0 + Len(<<>>) <= Len(s)
        BY <2>1
    <2> QED
        BY <2>1, <2>2 DEF Within
<1> QED
    BY <1>1, <1>2

\* A fact that is put replaces the one that says the same, or comes last: no two
\* facts say the same, and what a namespace said it says still.
Once(s) == \A i, j \in DOMAIN s : Key[s[i]] = Key[s[j]] => i = j
PutInto(s, f) ==
    IF \E i \in DOMAIN s : Key[s[i]] = Key[f]
    THEN [i \in DOMAIN s |-> IF Key[s[i]] = Key[f] THEN f ELSE s[i]]
    ELSE Append(s, f)
LEMMA PutIntoSays ==
    ASSUME NEW s \in Seq(FactText), NEW f \in FactText, Once(s)
    PROVE  /\ PutInto(s, f) \in Seq(FactText) /\ Once(PutInto(s, f))
           /\ SaidBy(f, PutInto(s, f))
           /\ \A x : SaidBy(x, s) => SaidBy(x, PutInto(s, f))
<1>1. DOMAIN s = 1 .. Len(s) /\ Len(s) \in Nat
    OBVIOUS
<1>2. CASE \E i \in DOMAIN s : Key[s[i]] = Key[f]
    <2> DEFINE c == [i \in DOMAIN s |-> IF Key[s[i]] = Key[f] THEN f ELSE s[i]]
    <2>1. PutInto(s, f) = c
        BY <1>2 DEF PutInto
    <2>2. DOMAIN c = DOMAIN s /\ \A i \in DOMAIN s : Key[c[i]] = Key[s[i]]
        OBVIOUS
    <2>3. c \in Seq(FactText)
        <3>1. c \in [1 .. Len(s) -> FactText]
            BY <1>1
        <3> QED
            BY <1>1, <3>1
    <2> HIDE DEF c
    <2>4. Once(c)
        BY <2>2 DEF Once
    <2>5. ASSUME NEW x, \E i \in DOMAIN s : Key[s[i]] = Key[x] PROVE SaidBy(x, c)
        BY <2>2, <2>5 DEF SaidBy, ToSet
    <2>6. \A x : SaidBy(x, s) => SaidBy(x, c)
        <3> SUFFICES ASSUME NEW x, SaidBy(x, s) PROVE SaidBy(x, c)
            OBVIOUS
        <3>1. \E i \in DOMAIN s : Key[s[i]] = Key[x]
            BY DEF SaidBy, ToSet
        <3> QED
            BY <2>5, <3>1
    <2>7. SaidBy(f, c)
        BY <1>2, <2>5
    <2> QED
        BY <2>1, <2>3, <2>4, <2>6, <2>7
<1>3. CASE ~\E i \in DOMAIN s : Key[s[i]] = Key[f]
    <2> DEFINE c == Append(s, f)
    <2>1. PutInto(s, f) = c
        BY <1>3 DEF PutInto
    <2>2. c \in Seq(FactText) /\ Len(c) = Len(s) + 1
        BY AppendProperties
    <2>3. /\ \A i \in 1 .. Len(s) : c[i] = s[i]
          /\ c[Len(s) + 1] = f
        BY AppendProperties
    <2>4. DOMAIN c = 1 .. Len(s) + 1
        BY <2>2
    <2> HIDE DEF c
    <2>5. \A i \in DOMAIN c : i \in DOMAIN s \/ i = Len(s) + 1
        BY <1>1, <2>4
    <2>6. \A i \in DOMAIN s : i \in DOMAIN c /\ c[i] = s[i]
        BY <1>1, <2>3, <2>4
    <2>7. Len(s) + 1 \in DOMAIN c
        BY <1>1, <2>4
    <2>8. Once(c)
        BY <1>3, <2>3, <2>5, <2>6 DEF Once
    <2>9. SaidBy(f, c)
        BY <2>3, <2>7 DEF SaidBy, ToSet
    <2>10. \A x : SaidBy(x, s) => SaidBy(x, c)
        BY <2>6 DEF SaidBy, ToSet
    <2> QED
        BY <2>1, <2>2, <2>8, <2>9, <2>10
<1> QED
    BY <1>2, <1>3

LEMMA PutSays ==
    ASSUME facts \in [AgentName \X UserName -> Seq(FactText)], FactsOnce,
           NEW p \in AgentName \X UserName, NEW f \in FactText
    PROVE  /\ Put(p, f) \in [AgentName \X UserName -> Seq(FactText)]
           /\ \A q \in AgentName \X UserName :
                Once(Put(p, f)[q]) /\ \A x : SaidBy(x, facts[q]) => SaidBy(x, Put(p, f)[q])
           /\ SaidBy(f, Put(p, f)[p])
<1>1. Put(p, f) = [facts EXCEPT ![p] = PutInto(facts[p], f)]
    BY DEF Put, PutInto
<1>2. \A q \in AgentName \X UserName : facts[q] \in Seq(FactText) /\ Once(facts[q])
    BY DEF FactsOnce, Once
<1>3. /\ PutInto(facts[p], f) \in Seq(FactText) /\ Once(PutInto(facts[p], f))
      /\ SaidBy(f, PutInto(facts[p], f))
      /\ \A x : SaidBy(x, facts[p]) => SaidBy(x, PutInto(facts[p], f))
    BY <1>2, PutIntoSays
<1>4. \A q \in AgentName \X UserName : Put(p, f)[q] = IF q = p THEN PutInto(facts[p], f) ELSE facts[q]
    BY <1>1
<1>5. Put(p, f) \in [AgentName \X UserName -> Seq(FactText)]
    BY <1>1, <1>3
<1> QED
    BY <1>2, <1>3, <1>4, <1>5

-----------------------------------------------------------------------------
\* Steps that leave the data as they are.

\* What the threads hold does not depend on the other rows.
LEMMA SameImports ==
    ASSUME ImportInv, threads' = threads, transcript' = transcript, renamed' = renamed
    PROVE  ImportInv'
<1>1. \A t, m : Holds(t, m) => Holds(t, m)'
    BY DEF Holds
<1>2. \A t, s : OfSession(t, s) => OfSession(t, s)'
    BY DEF OfSession, KeyOf
<1> QED
    BY <1>1, <1>2 DEF ImportInv

LEMMA SameData ==
    ASSUME DataInv, UNCHANGED <<rows, transcript, facts, renamed>>
    PROVE  DataInv'
<1>1. /\ users' = users /\ agents' = agents /\ threads' = threads /\ roles' = roles
      /\ sources' = sources /\ links' = links /\ transcript' = transcript /\ facts' = facts
      /\ renamed' = renamed
    BY DEF rows
<1>2. DataTypes'
    BY <1>1 DEF DataInv, DataTypes
<1>3. FactsOnce'
    BY <1>1 DEF DataInv, FactsOnce
<1>4. RowsInv'
    BY <1>1 DEF DataInv, RowsInv, Used
<1>5. ThreadsInv'
    BY <1>1 DEF DataInv, ThreadsInv, Used, OneThreadPerKey, KeyOf
<1>6. ImportInv'
    BY <1>1, SameImports DEF DataInv
<1> QED
    BY <1>2, <1>3, <1>4, <1>5, <1>6 DEF DataInv

\* What was reached stays.
LEMMA SameReached ==
    ASSUME UNCHANGED <<rows, transcript, facts, renamed>>
    PROVE  /\ \A of : OfFits(of) => OfFits(of)'
           /\ \A k, of : Dealt(k, of) => Dealt(k, of)'
           /\ \A k, n, left : Remembered(k, n, left) => Remembered(k, n, left)'
           /\ \A t, m : Before(t, m) => Before(t, m)'
           /\ Missing' = Missing /\ (LinksMigrated => LinksMigrated')
           /\ \A t, m : Holds(t, m) => Holds(t, m)'
<1>1. /\ users' = users /\ agents' = agents /\ threads' = threads /\ roles' = roles
      /\ sources' = sources /\ links' = links /\ transcript' = transcript /\ facts' = facts
      /\ renamed' = renamed
    BY DEF rows
<1>2. ASSUME NEW of, OfFits(of) PROVE OfFits(of)'
    BY <1>1, <1>2 DEF OfFits, OfSession, Used, KeyOf
<1>3. \A k, of : Dealt(k, of) => Dealt(k, of)'
    BY <1>1 DEF Dealt, Before
<1>4. \A k, n, left : Remembered(k, n, left) => Remembered(k, n, left)'
    BY <1>1 DEF Remembered
<1>5. \A t, m : Before(t, m) => Before(t, m)'
    BY <1>1 DEF Before
<1>6. Missing' = Missing
    BY <1>1 DEF Missing
<1>7. LinksMigrated => LinksMigrated'
    BY <1>1 DEF LinksMigrated
<1>8. \A t, m : Holds(t, m) => Holds(t, m)'
    BY <1>1 DEF Holds
<1> QED
    BY <1>2, <1>3, <1>4, <1>5, <1>6, <1>7, <1>8

\* A run whose other variables are not set.
LEMMA RunAt ==
    ASSUME NEW p \in AfterDomain \cup {"idle", "domain"}, NEW i \in Nat,
           NEW of \in [SessionIds -> Thread] \cup {<<>>}, NEW todo \in SUBSET UserNames, NEW d \in BOOLEAN
    PROVE  /\ [Idle EXCEPT !.phase = p, !.i = i, !.of = of, !.todo = todo, !.disturbed = d] \in Run
           /\ [Idle EXCEPT !.phase = p, !.i = i, !.of = of, !.disturbed = d] \in Run
           /\ [Idle EXCEPT !.phase = p, !.of = of, !.disturbed = d] \in Run
           /\ [Idle EXCEPT !.phase = p] \in Run /\ Idle \in Run
<1>1. Idle \in Run
    <2>1. <<>> \in Seq(FactText) /\ "" \in UserNames \cup {""}
        OBVIOUS
    <2> QED
        BY <2>1 DEF Idle, Run
<1>2. ASSUME NEW r \in Run
      PROVE  /\ [r EXCEPT !.phase = p, !.i = i, !.of = of, !.todo = todo, !.disturbed = d] \in Run
             /\ [r EXCEPT !.phase = p, !.i = i, !.of = of, !.disturbed = d] \in Run
             /\ [r EXCEPT !.phase = p, !.of = of, !.disturbed = d] \in Run
             /\ [r EXCEPT !.phase = p] \in Run
    BY DEF Run
<1> QED
    BY <1>1, <1>2

\* The memory of the k-th agent is reached when that of those before it is stored.
LEMMA ToAgentReached ==
    ASSUME NEW k \in Nat \ {0}, NEW of, OfFits(of)', ToAgent(k, of), run \in Run, Missing' = {},
           ~run.disturbed => /\ LinksMigrated' /\ \A j \in DOMAIN Sessions : Dealt(j, of)'
                             /\ \A j \in DOMAIN LegacyAgents, n \in UserNames :
                                  j < k => Remembered(j, n, <<>>)'
    PROVE  run' \in Run /\ RunInv' /\ CompleteInv'
<1>1. /\ run'.phase = "facts" /\ run'.i = k /\ run'.of = of /\ run'.todo = UserNames
      /\ run'.disturbed = run.disturbed
    BY DEF ToAgent, Idle
<1>2. run' \in Run
    <2>1. of \in [SessionIds -> Thread] /\ run.disturbed \in BOOLEAN
        BY DEF OfFits, Run
    <2> QED
        BY <2>1, RunAt DEF ToAgent, AfterDomain, Remembering
<1>3. RunInv'
    BY <1>1 DEF RunInv, AfterDomain, Remembering, Looking
<1>4. CompleteInv'
    <2> SUFFICES ASSUME ~run.disturbed PROVE (LinksMigrated /\ Conversations /\ Namespaces)'
        BY <1>1 DEF CompleteInv
    <2>1. Conversations'
        BY <1>1 DEF Conversations
    <2>2. ASSUME NEW j \in DOMAIN LegacyAgents, NEW n \in UserNames, ~(j > k), ~(j = k)
          PROVE  Remembered(j, n, <<>>)'
        <3>1. j \in Nat
            BY LegacyTypes
        <3>2. j < k
            BY <2>2, <3>1
        <3> QED
            BY <3>2
    <2>3. Namespaces'
        BY <1>1, <2>2 DEF Namespaces
    <2> QED
        BY <2>1, <2>3
<1> QED
    BY <1>2, <1>3, <1>4

\* The k-th session is reached when those before it are dealt with.
LEMMA ToSessionReached ==
    ASSUME NEW k \in Nat \ {0}, NEW of, OfFits(of)', ToSession(k, of), run \in Run, Missing' = {},
           ~run.disturbed => /\ LinksMigrated'
                             /\ \A j \in DOMAIN Sessions : j < k => Dealt(j, of)'
    PROVE  run' \in Run /\ RunInv' /\ CompleteInv'
<1>0. Len(Sessions) \in Nat /\ DOMAIN Sessions = 1 .. Len(Sessions)
    BY SessionsTyped
<1>1. CASE k <= Len(Sessions)
    <2>1. /\ run'.phase = "look" /\ run'.i = k /\ run'.of = of /\ run'.disturbed = run.disturbed
        BY <1>1 DEF ToSession, Idle
    <2>2. run' \in Run
        <3>1. of \in [SessionIds -> Thread] \cup {<<>>} /\ run.disturbed \in BOOLEAN /\ k \in Nat
            BY DEF OfFits, Run
        <3>2. "look" \in AfterDomain \cup {"idle", "domain"}
            BY DEF AfterDomain, Looking
        <3>3. run' = [Idle EXCEPT !.phase = "look", !.i = k, !.of = of, !.disturbed = run.disturbed]
            BY <1>1 DEF ToSession
        <3>4. {} \in SUBSET UserNames
            OBVIOUS
        <3> QED
            BY <3>1, <3>2, <3>3, <3>4, RunAt
    <2>3. RunInv'
        BY <1>0, <1>1, <2>1 DEF RunInv, AfterDomain, Remembering, Looking
    <2>4. CompleteInv'
        <3> SUFFICES ASSUME ~run.disturbed PROVE (LinksMigrated /\ Conversations /\ Namespaces)'
            BY <2>1 DEF CompleteInv
        <3>1. Conversations'
            BY <2>1 DEF Conversations, Looking
        <3>2. Namespaces'
            BY <2>1 DEF Namespaces, Remembering
        <3> QED
            BY <3>1, <3>2
    <2> QED
        BY <2>2, <2>3, <2>4
<1>2. CASE ~(k <= Len(Sessions))
    <2>1. ToAgent(1, of)
        BY <1>2 DEF ToSession
    <2>2. ASSUME NEW j \in DOMAIN Sessions PROVE j < k
        BY <1>0, <1>2
    <2>3. \A j \in DOMAIN LegacyAgents : ~(j < 1)
        BY LegacyTypes
    <2>4. 1 \in Nat \ {0}
        OBVIOUS
    <2> QED
        BY <2>1, <2>2, <2>3, <2>4, ToAgentReached
<1> QED
    BY <1>1, <1>2

\* A run that moves within the conversations.
LEMMA SameConversations ==
    ASSUME NEW p \in {"import", "append", "mark", "commit"}, NEW position \in Nat, NEW read \in Nat,
           DataInv, RunTypes, RunInv, CompleteInv, run.phase \in Looking,
           UNCHANGED <<rows, transcript, facts, runs, lives, renamed>>,
           run' = [run EXCEPT !.phase = p, !.position = position, !.read = read],
           p \in {"import", "append"} => MessagesOf[Session] # <<>>,
           p = "append" => transcript[Target] = <<>>,
           p \in {"mark", "commit"} /\ ~run.disturbed =>
                transcript[Target] # <<>> /\ Before(Target, position),
           p = "commit" => read = threads[Target].mark
    PROVE  MigrationInv'
<1>1. DataInv'
    BY SameData
<1>2. /\ run'.phase = p /\ run'.i = run.i /\ run'.of = run.of /\ run'.disturbed = run.disturbed
      /\ run'.position = position /\ run'.read = read /\ p \in Looking
    BY DEF RunTypes, Run, Looking
<1>3. RunTypes'
    BY DEF RunTypes, Run, AfterDomain, Looking
<1>4. Session' = Session /\ Target' = Target /\ transcript' = transcript /\ threads' = threads
    BY <1>2 DEF Session, Target, rows
<1>5. \E of : of = run.of /\ OfFits(of)'
    BY SameReached DEF RunInv, AfterDomain
<1>6. RunInv'
    <2>1. OfFits(run.of)'
        BY <1>2, <1>5 DEF OfFits
    <2>2. p = "append" => Holds(Target, <<>>)'
        <3>1. CASE p = "append"
            <4>1. transcript[Target] = <<>> /\ <<>> \in Seq(Message)
                BY <3>1
            <4>2. Within(transcript[Target], <<>>)
                BY <4>1, WithinNothing
            <4>3. Holds(Target, <<>>)
                BY <4>2, HoldsNow
            <4> QED
                BY <1>4, <4>3 DEF Holds
        <3> QED
            BY <3>1
    <2> QED
        BY <1>2, <1>4, <2>1, <2>2 DEF RunInv, Looking, Remembering
<1>7. CompleteInv'
    <2>1. Missing' = {}
        BY SameReached DEF CompleteInv, AfterDomain
    <2> SUFFICES ASSUME ~run.disturbed PROVE (LinksMigrated /\ Conversations /\ Namespaces)'
        BY <1>2, <2>1 DEF CompleteInv
    <2>2. LinksMigrated /\ Conversations
        BY DEF CompleteInv, AfterDomain
    <2>3. Conversations'
        BY <1>2, <1>4, <2>2 DEF Conversations, Dealt, Before
    <2>4. Namespaces'
        BY <1>2 DEF Namespaces, Remembering, Looking
    <2> QED
        BY <2>2, <2>3, <2>4, SameReached
<1> QED
    BY <1>1, <1>3, <1>6, <1>7 DEF MigrationInv

-----------------------------------------------------------------------------
\* The steps of a run that change the run only.

LEMMA StartKeeps == ASSUME MigrationInv, Start PROVE MigrationInv'
<1>1. DataInv'
    BY SameData DEF MigrationInv, Start
<1>2. run'.phase = "domain" /\ run' \in Run
    <2>1. run' = [Idle EXCEPT !.phase = "domain"]
        BY DEF Start
    <2>2. /\ "domain" \in AfterDomain \cup {"idle", "domain"} /\ 0 \in Nat
          /\ <<>> \in [SessionIds -> Thread] \cup {<<>>} /\ {} \in SUBSET UserNames /\ FALSE \in BOOLEAN
        OBVIOUS
    <2>3. run' \in Run
        BY <2>1, <2>2, RunAt
    <2> QED
        BY <2>1, <2>3 DEF Idle
<1>3. RunTypes'
    <2>1. runs \in Nat /\ lives \in Nat
        BY DEF MigrationInv, RunTypes
    <2>2. runs' = runs + 1 /\ lives' = lives
        BY DEF Start
    <2>3. runs' \in Nat
        BY <2>1, <2>2
    <2> QED
        BY <1>2, <2>1, <2>2, <2>3 DEF RunTypes
<1>4. RunInv' /\ CompleteInv'
    BY <1>2 DEF RunInv, CompleteInv, AfterDomain, Looking, Remembering
<1> QED
    BY <1>1, <1>3, <1>4 DEF MigrationInv

\* A crash, a first phase that is not committed, and an import that is refused.
LEMMA AbortKeeps ==
    ASSUME MigrationInv, Abort, UNCHANGED <<rows, transcript, facts>>
    PROVE  MigrationInv'
<1>1. DataInv'
    BY SameData DEF MigrationInv, Abort
<1>2. run'.phase = "idle" /\ run' \in Run
    <2>1. run' = Idle
        BY DEF Abort
    <2>2. /\ "domain" \in AfterDomain \cup {"idle", "domain"} /\ 0 \in Nat
          /\ <<>> \in [SessionIds -> Thread] \cup {<<>>} /\ {} \in SUBSET UserNames /\ FALSE \in BOOLEAN
        OBVIOUS
    <2>3. run' \in Run
        BY <2>1, <2>2, RunAt
    <2> QED
        BY <2>1, <2>3 DEF Idle
<1>3. RunTypes'
    BY <1>2 DEF MigrationInv, RunTypes, Abort
<1>4. RunInv' /\ CompleteInv'
    BY <1>2 DEF RunInv, CompleteInv, AfterDomain, Looking, Remembering
<1> QED
    BY <1>1, <1>3, <1>4 DEF MigrationInv

\* The session of a run that looks at one, and its thread.
LEMMA SessionTyped ==
    ASSUME RunInv, run.phase \in Looking
    PROVE  /\ Session \in ToSet(Sessions) /\ Target \in Thread /\ MessagesOf[Session] \in Seq(Message)
           /\ run.i \in Nat \ {0} /\ run.i \in DOMAIN Sessions
           /\ Used(Target) /\ OfSession(Target, Session)
<1>1. Len(Sessions) \in Nat /\ DOMAIN Sessions = 1 .. Len(Sessions)
    BY SessionsTyped
<1>2. run.i \in 1 .. Len(Sessions) /\ OfFits(run.of)
    BY DEF RunInv, AfterDomain
<1>3. Session \in ToSet(Sessions) /\ Session.id \in SessionIds
    <2>1. Sessions[run.i] \in ToSet(Sessions)
        BY <1>2, SessionsTyped
    <2>2. Session \in ToSet(Sessions)
        BY <2>1 DEF Session
    <2> QED
        BY <2>2, SessionsTyped
<1>4. Target \in Thread /\ Used(Target) /\ OfSession(Target, Session)
    BY <1>2, <1>3 DEF Target, OfFits
<1>5. MessagesOf[Session] \in Seq(Message)
    BY <1>3, MessagesTyped
<1>6. run.i \in Nat \ {0} /\ run.i \in DOMAIN Sessions
    BY <1>1, <1>2
<1> QED
    BY <1>3, <1>4, <1>5, <1>6

\* The next session, with the data as they are.
LEMMA AdvanceKeeps ==
    ASSUME MigrationInv, run.phase \in Looking, Advance,
           UNCHANGED <<rows, transcript, facts, runs, lives, renamed>>,
           ~run.disturbed => Dealt(run.i, run.of)
    PROVE  MigrationInv'
<1>1. DataInv'
    BY SameData DEF MigrationInv
<1>2. PICK of : of = run.of
    OBVIOUS
<1>3. run.phase \in AfterDomain
    BY DEF AfterDomain
<1>4. OfFits(of)'
    BY <1>2, <1>3, SameReached DEF MigrationInv, RunInv
<1>5. Missing' = {}
    BY <1>3, SameReached DEF MigrationInv, CompleteInv
<1>6. run.i + 1 \in Nat \ {0} /\ \A j \in DOMAIN Sessions : j < run.i + 1 => j < run.i \/ j = run.i
    <2>1. run.i \in Nat /\ \A j \in DOMAIN Sessions : j \in Nat
        BY SessionTyped, SessionsTyped DEF MigrationInv
    <2> QED
        BY <2>1
<1>7. PICK k : k = run.i + 1
    OBVIOUS
<1>8. ASSUME ~run.disturbed PROVE LinksMigrated' /\ \A j \in DOMAIN Sessions : j < k => Dealt(j, of)'
    <2>1. LinksMigrated /\ Conversations
        BY <1>3, <1>8 DEF MigrationInv, CompleteInv
    <2>2. \A j \in DOMAIN Sessions : j < k => Dealt(j, of)
        BY <1>2, <1>6, <1>7, <1>8, <2>1 DEF Conversations
    <2> QED
        BY <2>1, <2>2, SameReached
<1>9. ToSession(k, of)
    BY <1>2, <1>7 DEF Advance
<1>10. run \in Run
    BY DEF MigrationInv, RunTypes
<1>11. run' \in Run /\ RunInv' /\ CompleteInv'
    BY <1>4, <1>5, <1>6, <1>7, <1>8, <1>9, <1>10, ToSessionReached
<1> QED
    BY <1>1, <1>11 DEF MigrationInv, RunTypes

LEMMA LookKeeps == ASSUME MigrationInv, Look PROVE MigrationInv'
<1>1. run.phase = "look" /\ run.phase \in Looking /\ UNCHANGED <<rows, transcript, facts, runs, lives, renamed>>
    BY DEF Look, Looking
<1>2. CASE MessagesOf[Session] = <<>>
    <2>1. Advance /\ Dealt(run.i, run.of)
        BY <1>2 DEF Look, Dealt, Session
    <2> QED
        BY <1>1, <2>1, AdvanceKeeps
<1>3. run.position \in Nat /\ run.read \in Nat /\ run \in Run
    BY DEF MigrationInv, RunTypes, Run
<1>4. CASE MessagesOf[Session] # <<>> /\ AlreadyThere(Target)
    <2>1. transcript[Target] # <<>> /\ transcript[Target] \in Seq(Message)
        BY <1>1, <1>4, SessionTyped DEF AlreadyThere, Imported, MigrationInv, DataInv, DataTypes
    <2>2. PICK position : position = Len(transcript[Target])
        OBVIOUS
    <2>3. position \in Nat /\ DOMAIN transcript[Target] = 1 .. position
        BY <2>1, <2>2
    <2>4. Before(Target, position)
        BY <2>3 DEF Before
    <2>5. run' = [run EXCEPT !.phase = "mark", !.position = position]
        BY <1>4, <2>2 DEF Look, PresentTranscript, ToMark
    <2>6. run' = [run EXCEPT !.phase = "mark", !.position = position, !.read = run.read]
        BY <1>3, <2>5 DEF Run
    <2> QED
        BY <1>1, <1>3, <2>1, <2>3, <2>4, <2>6, SameConversations DEF MigrationInv
<1>5. CASE MessagesOf[Session] # <<>> /\ ~AlreadyThere(Target)
    <2>1. run' = [run EXCEPT !.phase = "import"]
        BY <1>5 DEF Look, PresentTranscript
    <2>2. run' = [run EXCEPT !.phase = "import", !.position = run.position, !.read = run.read]
        BY <1>3, <2>1 DEF Run
    <2> QED
        BY <1>1, <1>3, <1>5, <2>2, SameConversations DEF MigrationInv
<1> QED
    BY <1>2, <1>4, <1>5

LEMMA ImportAcceptedKeeps == ASSUME MigrationInv, ImportAccepted PROVE MigrationInv'
<1>1. /\ run.phase = "import" /\ run.phase \in Looking
      /\ UNCHANGED <<rows, transcript, facts, runs, lives, renamed>>
      /\ MessagesOf[Session] # <<>> /\ transcript[Target] = <<>>
    BY DEF ImportAccepted, Looking, MigrationInv, RunInv, AlreadyThere, Imported
<1>2. run.position \in Nat /\ run.read \in Nat /\ run \in Run
    BY DEF MigrationInv, RunTypes, Run
<1>3. run' = [run EXCEPT !.phase = "append", !.position = run.position, !.read = run.read]
    BY <1>2 DEF Run, ImportAccepted
<1> QED
    BY <1>1, <1>2, <1>3, SameConversations DEF MigrationInv

LEMMA MarkReadKeeps == ASSUME MigrationInv, MarkRead PROVE MigrationInv'
<1>1. /\ run.phase = "mark" /\ run.phase \in Looking /\ run.phase \in AfterDomain
      /\ UNCHANGED <<rows, transcript, facts, runs, lives, renamed>>
    BY DEF MarkRead, Looking, AfterDomain
<1>2. run.position \in Nat /\ run \in Run
    BY DEF MigrationInv, RunTypes, Run
<1>3. threads[Target].mark \in Nat
    <2>1. Target \in Thread /\ threads[Target] # Unused
        BY <1>1, SessionTyped DEF MigrationInv, Used
    <2>2. threads[Target] \in ThreadRow
        BY <2>1 DEF MigrationInv, DataInv, DataTypes
    <2> QED
        BY <2>2 DEF ThreadRow
<1>4. PICK read : read = threads[Target].mark
    OBVIOUS
<1>5. run' = [run EXCEPT !.phase = "commit", !.position = run.position, !.read = read]
    BY <1>2, <1>4 DEF Run, MarkRead
<1>6. ~run.disturbed => transcript[Target] # <<>> /\ Before(Target, run.position)
    BY <1>1 DEF MigrationInv, CompleteInv, Conversations
<1> QED
    BY <1>1, <1>2, <1>3, <1>4, <1>5, <1>6, SameConversations DEF MigrationInv

-----------------------------------------------------------------------------
\* The steps of a run that write a conversation.

\* What is appended to a transcript, live messages or those of its session.
LEMMA Appended ==
    ASSUME DataInv, NEW t \in Thread, Used(t), NEW m \in Seq(Message),
           transcript' = [transcript EXCEPT ![t] = @ \o m], UNCHANGED <<rows, facts, renamed>>,
           \/ Within(transcript[t] \o m, <<>>)
           \/ \E s \in ToSet(Sessions) : Within(transcript[t] \o m, MessagesOf[s]) /\ OfSession(t, s)
    PROVE  DataInv'
<1>1. /\ users' = users /\ agents' = agents /\ threads' = threads /\ roles' = roles
      /\ sources' = sources /\ links' = links /\ facts' = facts /\ renamed' = renamed
    BY DEF rows
<1>2. transcript \in [Thread -> Seq(Message)]
    BY DEF DataInv, DataTypes
<1>3. transcript[t] \o m \in Seq(Message)
    BY <1>2, ConcatProperties
<1>4. /\ transcript' \in [Thread -> Seq(Message)] /\ transcript'[t] = transcript[t] \o m
      /\ \A x \in Thread : x # t => transcript'[x] = transcript[x]
    BY <1>2, <1>3
<1>5. DataTypes'
    BY <1>1, <1>4 DEF DataInv, DataTypes
<1>6. FactsOnce'
    BY <1>1 DEF DataInv, FactsOnce
<1>7. RowsInv'
    BY <1>1 DEF DataInv, RowsInv, Used
<1>8. ThreadsInv'
    <2>1. \A x \in Thread : ~Used(x) => transcript'[x] = <<>> /\ x \notin renamed
        BY <1>4 DEF DataInv, ThreadsInv
    <2> QED
        BY <1>1, <2>1 DEF DataInv, ThreadsInv, Used, OneThreadPerKey, KeyOf
<1>9. ASSUME NEW x, NEW s, OfSession(x, s) PROVE OfSession(x, s)'
    BY <1>1, <1>9 DEF OfSession, KeyOf
<1>10. ImportInv'
    <2> SUFFICES ASSUME NEW x \in Thread
                 PROVE  Holds(x, <<>>)' \/ \E s \in ToSet(Sessions) : Holds(x, MessagesOf[s])' /\ OfSession(x, s)'
        BY DEF ImportInv
    <2>1. CASE x = t
        BY <1>4, <1>9, <2>1, HoldsNow
    <2>2. CASE x # t
        <3>1. transcript'[x] = transcript[x]
            BY <1>4, <2>2
        <3>2. Holds(x, <<>>) \/ \E s \in ToSet(Sessions) : Holds(x, MessagesOf[s]) /\ OfSession(x, s)
            BY DEF DataInv, ImportInv
        <3> QED
            BY <1>9, <3>1, <3>2, HoldsNow
    <2> QED
        BY <2>1, <2>2
<1> QED
    BY <1>5, <1>6, <1>7, <1>8, <1>10 DEF DataInv

LEMMA ImportAppendKeeps == ASSUME MigrationInv, ImportAppend PROVE MigrationInv'
<1>1. /\ run.phase = "append" /\ run.phase \in Looking /\ run.phase \in AfterDomain
      /\ UNCHANGED <<rows, facts, runs, lives, renamed>>
    BY DEF ImportAppend, Looking, AfterDomain
<1>2. /\ Session \in ToSet(Sessions) /\ Target \in Thread /\ MessagesOf[Session] \in Seq(Message)
      /\ Used(Target) /\ OfSession(Target, Session) /\ MessagesOf[Session] # <<>>
    BY <1>1, SessionTyped DEF MigrationInv, RunInv
<1>3. PICK t \in Thread : t = Target
    BY <1>2
<1>4. PICK m \in Seq(Message) : m = MessagesOf[Session]
    BY <1>2
<1>5. transcript \in [Thread -> Seq(Message)]
    BY DEF MigrationInv, DataInv, DataTypes
<1>6. transcript' = [transcript EXCEPT ![t] = @ \o m]
    BY <1>3, <1>4 DEF ImportAppend
<1>7. Within(transcript[t], <<>>)
    BY <1>1, <1>3, HoldsNow DEF MigrationInv, RunInv
<1>8. Within(transcript[t] \o m, m)
    BY <1>5, <1>7, WithinImport
<1>9. DataInv'
    BY <1>1, <1>2, <1>3, <1>4, <1>6, <1>8, Appended DEF MigrationInv
<1>10. PICK position : position = Len(m)
    OBVIOUS
<1>11. run \in Run /\ position \in Nat
    BY <1>10 DEF MigrationInv, RunTypes
<1>12. /\ run' = [run EXCEPT !.phase = "mark", !.position = position]
       /\ run'.phase = "mark" /\ run'.i = run.i /\ run'.of = run.of /\ run'.disturbed = run.disturbed
       /\ run'.position = position /\ "mark" \in AfterDomain
    <2>1. run' = [run EXCEPT !.phase = "mark", !.position = position]
        BY <1>4, <1>10 DEF ImportAppend, ToMark
    <2> QED
        BY <1>11, <2>1 DEF Run, AfterDomain, Looking
<1>13. RunTypes'
    <2>1. run' \in Run
        BY <1>11, <1>12 DEF Run
    <2> QED
        BY <1>1, <2>1 DEF MigrationInv, RunTypes
<1>14. /\ users' = users /\ agents' = agents /\ threads' = threads /\ roles' = roles
       /\ sources' = sources /\ links' = links /\ renamed' = renamed
    BY <1>1 DEF rows
<1>15. RunInv'
    <2>1. OfFits(run.of)
        BY <1>1 DEF MigrationInv, RunInv
    <2>2. OfFits(run.of)'
        BY <1>12, <1>14, <2>1 DEF OfFits, OfSession, Used, KeyOf
    <2>3. run'.i \in 1 .. Len(Sessions)
        BY <1>1, <1>12 DEF MigrationInv, RunInv
    <2> QED
        BY <1>12, <2>2, <2>3 DEF RunInv, Remembering
<1>16. ASSUME ~run.disturbed PROVE Conversations'
    <2>1. Conversations /\ transcript[t] = <<>>
        BY <1>1, <1>3, <1>16 DEF MigrationInv, CompleteInv, Conversations
    <2>2. transcript'[t] = m /\ \A x \in Thread : x # t => transcript'[x] = transcript[x]
        <3>1. transcript[t] \o m = m
            BY <2>1
        <3> QED
            BY <1>5, <1>6, <3>1
    <2>3. DOMAIN m = 1 .. position /\ m # <<>>
        BY <1>2, <1>4, <1>10
    <2>4. Target' = t
        BY <1>3, <1>12 DEF Target, Session
    <2>5. transcript'[t] # <<>> /\ Before(t, position)'
        BY <2>2, <2>3, <1>11 DEF Before
    <2>6. ASSUME NEW k \in DOMAIN Sessions, k < run.i PROVE Dealt(k, run.of)'
        <3> DEFINE x == run.of[Sessions[k].id]
        <3>1. x \in Thread
            <4>1. Sessions[k].id \in SessionIds
                BY SessionsTyped
            <4> QED
                BY <1>1, <4>1 DEF MigrationInv, RunInv, OfFits
        <3>2. Dealt(k, run.of)
            BY <1>1, <2>1, <2>6 DEF Conversations
        <3>3. MessagesOf[Sessions[k]] # <<>> => transcript[x] # <<>> /\ Before(x, threads[x].mark)
            BY <3>2 DEF Dealt
        <3>4. ASSUME MessagesOf[Sessions[k]] # <<>> PROVE transcript'[x] = transcript[x]
            BY <2>1, <2>2, <3>1, <3>3, <3>4
        <3> QED
            BY <1>12, <1>14, <3>3, <3>4 DEF Dealt, Before
    <2>7. Before(Target, run.position)'
        BY <1>12, <2>4, <2>5 DEF Before
    <2> QED
        BY <1>12, <2>4, <2>5, <2>6, <2>7 DEF Conversations, Looking
<1>17. CompleteInv'
    <2>1. Missing = {} /\ Missing' = Missing
        BY <1>1, <1>14 DEF MigrationInv, CompleteInv, Missing
    <2>2. ~run.disturbed => LinksMigrated'
        BY <1>1, <1>14 DEF MigrationInv, CompleteInv, LinksMigrated
    <2>3. Namespaces'
        BY <1>12 DEF Namespaces, Remembering
    <2> QED
        BY <1>12, <1>16, <2>1, <2>2, <2>3 DEF CompleteInv
<1> QED
    BY <1>9, <1>13, <1>15, <1>17 DEF MigrationInv

\* A mark is no part of what a thread is found by.
LEMMA Marked ==
    ASSUME DataInv, NEW t \in Thread, Used(t), NEW n \in Nat,
           threads' = [threads EXCEPT ![t].mark = n],
           UNCHANGED <<users, agents, roles, sources, links, transcript, renamed>>
    PROVE  /\ threads' \in [Thread -> ThreadRow \cup {Unused}]
           /\ RowsInv' /\ ThreadsInv' /\ ImportInv'
           /\ \A of : OfFits(of) => OfFits(of)'
           /\ threads'[t].mark = n /\ \A x \in Thread : x # t => threads'[x] = threads[x]
<1>1. threads \in [Thread -> ThreadRow \cup {Unused}] /\ threads[t] \in ThreadRow
    BY DEF DataInv, DataTypes, Used
<1>2. /\ threads'[t] = [threads[t] EXCEPT !.mark = n]
      /\ \A x \in Thread : x # t => threads'[x] = threads[x]
    BY <1>1
<1>3. /\ [threads[t] EXCEPT !.mark = n] \in ThreadRow
      /\ threads'[t].agent = threads[t].agent /\ threads'[t].title = threads[t].title
      /\ threads'[t].at = threads[t].at /\ threads'[t].mark = n
    BY <1>1, <1>2 DEF ThreadRow
<1>4. threads' \in [Thread -> ThreadRow \cup {Unused}]
    BY <1>1, <1>3
<1>5. threads'[t] # Unused
    BY <1>2, <1>3, RowsAreNot
<1>6. \A x \in Thread : Used(x)' <=> Used(x)
    BY <1>2, <1>5 DEF Used
<1>7. \A x \in Thread : /\ threads'[x].agent = threads[x].agent /\ threads'[x].title = threads[x].title
                        /\ threads'[x].at = threads[x].at
    BY <1>2, <1>3
<1>8. \A x \in Thread : KeyOf(x)' = KeyOf(x)
    BY <1>7 DEF KeyOf
<1>9. RowsInv'
    BY <1>6, <1>7 DEF DataInv, RowsInv
<1>10. ThreadsInv'
    <2>1. OneThreadPerKey'
        <3> SUFFICES ASSUME NEW x \in Thread \ renamed, NEW y \in Thread \ renamed,
                            Used(x)', Used(y)', x # y
                     PROVE  KeyOf(x)' # KeyOf(y)'
            BY DEF OneThreadPerKey, Used
        <3>1. Used(x) /\ Used(y)
            BY <1>6
        <3>2. KeyOf(x) # KeyOf(y)
            BY <3>1 DEF DataInv, ThreadsInv, OneThreadPerKey, Used
        <3> QED
            BY <1>8, <3>2
    <2>2. \A x \in Thread : ~Used(x)' => transcript'[x] = <<>> /\ x \notin renamed'
        BY <1>6 DEF DataInv, ThreadsInv
    <2>3. \A x \in Thread : Used(x)' => threads'[x].at \in 1 .. Late - 1 \/ threads'[x].at = Late + x
        BY <1>6, <1>7 DEF DataInv, ThreadsInv
    <2> QED
        BY <2>1, <2>2, <2>3 DEF ThreadsInv
<1>11. ASSUME NEW x \in Thread, NEW s, OfSession(x, s) PROVE OfSession(x, s)'
    BY <1>8, <1>11 DEF OfSession
<1>12. ImportInv'
    <2> SUFFICES ASSUME NEW x \in Thread
                 PROVE  Holds(x, <<>>)' \/ \E s \in ToSet(Sessions) : Holds(x, MessagesOf[s])' /\ OfSession(x, s)'
        BY DEF ImportInv
    <2>1. Holds(x, <<>>) \/ \E s \in ToSet(Sessions) : Holds(x, MessagesOf[s]) /\ OfSession(x, s)
        BY DEF DataInv, ImportInv
    <2> QED
        BY <1>11, <2>1, HoldsNow
<1>13. ASSUME NEW of, OfFits(of) PROVE OfFits(of)'
    <2>1. of \in [SessionIds -> Thread]
        BY <1>13 DEF OfFits
    <2>2. ASSUME NEW s \in ToSet(Sessions) PROVE Used(of[s.id])' /\ OfSession(of[s.id], s)'
        <3>1. of[s.id] \in Thread
            BY <2>1, SessionsTyped
        <3>2. Used(of[s.id]) /\ OfSession(of[s.id], s)
            BY <1>13 DEF OfFits
        <3> QED
            BY <1>6, <1>11, <3>1, <3>2
    <2> QED
        BY <2>1, <2>2 DEF OfFits
<1> QED
    BY <1>2, <1>3, <1>4, <1>9, <1>10, <1>12, <1>13

\* A run that reads a mark and writes the greater number: alone, it does not lower it.
LEMMA MarkCommitKeeps == ASSUME MigrationInv, MarkCommit PROVE MigrationInv'
<1>1. /\ run.phase = "commit" /\ run.phase \in Looking /\ run.phase \in AfterDomain /\ Advance
      /\ UNCHANGED <<users, agents, roles, sources, links, transcript, facts, runs, lives, renamed>>
    BY DEF MarkCommit, Looking, AfterDomain
<1>2. CASE ~(run.position > run.read)
    <2>1. threads' = threads
        BY <1>2 DEF MarkCommit
    <2>2. ASSUME ~run.disturbed PROVE Dealt(run.i, run.of)
        <3>1. transcript[Target] # <<>> /\ Before(Target, run.position) /\ run.read = threads[Target].mark
            BY <1>1, <2>2 DEF MigrationInv, CompleteInv, Conversations
        <3>2. run.position \in Nat /\ run.read \in Nat
            BY DEF MigrationInv, RunTypes, Run
        <3>3. \A i \in DOMAIN transcript[Target] : i \in Nat
            <4>1. transcript[Target] \in Seq(Message)
                BY <1>1, SessionTyped DEF MigrationInv, DataInv, DataTypes
            <4> QED
                BY <4>1
        <3>4. Before(Target, run.read)
            BY <1>2, <3>1, <3>2, <3>3 DEF Before
        <3> QED
            BY <3>1, <3>4 DEF Dealt, Target, Session
    <2> QED
        BY <1>1, <2>1, <2>2, AdvanceKeeps DEF rows
<1>3. CASE run.position > run.read
    <2>1. /\ Session \in ToSet(Sessions) /\ Target \in Thread /\ Used(Target) /\ run.i \in Nat \ {0}
        BY <1>1, SessionTyped DEF MigrationInv
    <2>2. PICK t \in Thread : t = Target
        BY <2>1
    <2>3. PICK position \in Nat : position = run.position
        BY DEF MigrationInv, RunTypes, Run
    <2>4. threads' = [threads EXCEPT ![t].mark = position]
        BY <1>3, <2>2, <2>3 DEF MarkCommit
    <2>5. /\ threads' \in [Thread -> ThreadRow \cup {Unused}]
          /\ RowsInv' /\ ThreadsInv' /\ ImportInv'
          /\ \A of : OfFits(of) => OfFits(of)'
          /\ threads'[t].mark = position /\ \A x \in Thread : x # t => threads'[x] = threads[x]
        BY <1>1, <2>1, <2>2, <2>4, Marked DEF MigrationInv
    <2>6. DataInv'
        <3>1. DataTypes'
            BY <1>1, <2>5 DEF MigrationInv, DataInv, DataTypes
        <3>2. FactsOnce'
            BY <1>1 DEF MigrationInv, DataInv, FactsOnce
        <3> QED
            BY <2>5, <3>1, <3>2 DEF DataInv
    <2>7. PICK of : of = run.of
        OBVIOUS
    <2>8. OfFits(of)' /\ of \in [SessionIds -> Thread]
        BY <1>1, <2>5, <2>7 DEF MigrationInv, RunInv, OfFits
    <2>9. Missing' = {}
        BY <1>1 DEF MigrationInv, CompleteInv, Missing
    <2>10. PICK k : k = run.i + 1
        OBVIOUS
    <2>11. k \in Nat \ {0} /\ \A j \in DOMAIN Sessions : j < k => j < run.i \/ j = run.i
        <3>1. \A j \in DOMAIN Sessions : j \in Nat
            BY SessionsTyped
        <3> QED
            BY <2>1, <2>10, <3>1
    <2>12. ASSUME ~run.disturbed, NEW j \in DOMAIN Sessions, j < k PROVE Dealt(j, of)'
        <3> DEFINE x == of[Sessions[j].id]
        <3>1. x \in Thread
            <4>1. Sessions[j].id \in SessionIds
                BY SessionsTyped
            <4> QED
                BY <2>8, <4>1
        <3>2. /\ Conversations /\ run.read = threads[t].mark /\ transcript[t] # <<>> /\ Before(t, position)
            BY <1>1, <2>2, <2>3, <2>12 DEF MigrationInv, CompleteInv, Conversations
        <3>3. CASE x = t
            BY <1>1, <2>5, <3>2, <3>3 DEF Dealt, Before
        <3>4. CASE x # t
            <4>1. j # run.i
                BY <2>2, <2>7, <3>4 DEF Target, Session
            <4>2. Dealt(j, of)
                BY <1>1, <2>7, <2>11, <2>12, <3>2, <4>1 DEF Conversations
            <4>3. threads'[x] = threads[x]
                BY <2>5, <3>1, <3>4
            <4> QED
                BY <1>1, <4>2, <4>3 DEF Dealt, Before
        <3> QED
            BY <3>3, <3>4
    <2>13. ASSUME ~run.disturbed PROVE LinksMigrated'
        BY <1>1, <2>13 DEF MigrationInv, CompleteInv, LinksMigrated
    <2>14. ToSession(k, of)
        BY <1>1, <2>7, <2>10 DEF Advance
    <2>15. run \in Run
        BY DEF MigrationInv, RunTypes
    <2>16. run' \in Run /\ RunInv' /\ CompleteInv'
        BY <2>8, <2>9, <2>11, <2>12, <2>13, <2>14, <2>15, ToSessionReached
    <2> QED
        BY <1>1, <2>6, <2>16 DEF MigrationInv, RunTypes
<1> QED
    BY <1>2, <1>3

-----------------------------------------------------------------------------
\* The steps of a run that store the memory.

\* A run that moves within the memory, with the data as they are.
LEMMA SameMemory ==
    ASSUME MigrationInv, run.phase \in Remembering,
           UNCHANGED <<rows, transcript, facts, runs, lives, renamed>>,
           run' \in Run, run'.of = run.of, run'.disturbed = run.disturbed,
           run'.phase \in Remembering \cup {"done"}, run'.i # 0,
           run'.phase = "put" => run'.i <= Len(LegacyAgents) /\ run'.user \in UserNames,
           ~run.disturbed => Namespaces'
    PROVE  MigrationInv'
<1>1. DataInv'
    BY SameData DEF MigrationInv
<1>2. run.phase \in AfterDomain /\ run'.phase \in AfterDomain /\ run'.phase \notin Looking
    BY DEF AfterDomain, Remembering, Looking
<1>3. PICK of : of = run.of
    OBVIOUS
<1>4. OfFits(of)'
    BY <1>2, <1>3, SameReached DEF MigrationInv, RunInv
<1>5. OfFits(run.of)'
    BY <1>3, <1>4 DEF OfFits
<1>6. RunInv'
    BY <1>2, <1>5 DEF RunInv, Looking
<1>7. Missing' = {}
    BY <1>2, SameReached DEF MigrationInv, CompleteInv
<1>8. ASSUME ~run.disturbed PROVE LinksMigrated' /\ Conversations'
    <2>1. LinksMigrated /\ Conversations
        BY <1>2, <1>8 DEF MigrationInv, CompleteInv
    <2>2. \A k \in DOMAIN Sessions : Dealt(k, of)
        BY <1>3, <2>1 DEF Conversations, Remembering, Looking
    <2>3. \A k \in DOMAIN Sessions : Dealt(k, of)'
        BY <2>2, SameReached
    <2>4. \A k \in DOMAIN Sessions : Dealt(k, run.of)'
        BY <1>3, <2>3 DEF Dealt
    <2>5. Conversations'
        BY <1>2, <2>4 DEF Conversations, Looking
    <2> QED
        BY <2>1, <2>5, SameReached
<1>9. CompleteInv'
    BY <1>7, <1>8 DEF CompleteInv
<1> QED
    BY <1>1, <1>6, <1>9 DEF MigrationInv, RunTypes

LEMMA ReadFactsKeeps == ASSUME MigrationInv, ReadFacts PROVE MigrationInv'
<1>1. /\ run.phase = "facts" /\ run.i <= Len(LegacyAgents) /\ run.phase \in Remembering
      /\ UNCHANGED <<rows, transcript, facts, runs, lives, renamed>>
    BY DEF ReadFacts, Remembering
<1>2. run \in Run /\ run.todo \in SUBSET UserNames /\ run.i \in Nat \ {0}
    BY <1>1 DEF MigrationInv, RunTypes, Run, RunInv
<1>3. run.i \in DOMAIN LegacyAgents
    BY <1>1, <1>2, LegacyTypes
<1>4. PICK n \in UserNames : n \in run.todo /\
        run' = [run EXCEPT !.phase = "put", !.user = n, !.todo = @ \ {n},
                           !.left = Deduplicate(Memories, facts[<<LegacyAgents[run.i].name, n>>])]
    <2>1. (CHOOSE n \in run.todo : TRUE) \in run.todo
        BY DEF ReadFacts
    <2> QED
        BY <1>2, <2>1 DEF ReadFacts
<1>5. Memories \in Seq(FactText)
    BY <1>3, MemoriesTyped DEF Memories
<1> DEFINE stored == facts[<<LegacyAgents[run.i].name, n>>]
<1>6. stored \in Seq(FactText)
    <2>1. LegacyAgents[run.i].name \in AgentName /\ n \in UserName
        BY <1>3, LegacyTypes
    <2> QED
        BY <2>1 DEF MigrationInv, DataInv, DataTypes
<1>7. PICK left : left = Deduplicate(Memories, stored)
    OBVIOUS
<1> HIDE DEF stored
<1>8. left \in Seq(FactText)
    BY <1>5, <1>6, <1>7, DeduplicateSays
<1>9. \A f \in ToSet(Memories) : Key[f] # "" => SaidBy(f, stored) \/ SaidBy(f, left)
    <2> SUFFICES ASSUME NEW f \in ToSet(Memories), Key[f] # "" PROVE SaidBy(f, stored) \/ SaidBy(f, left)
        OBVIOUS
    <2>1. PICK i \in 1 .. Len(Memories) : f = Memories[i]
        BY <1>5, Elements DEF ToSet
    <2> QED
        BY <1>5, <1>6, <1>7, <2>1, DeduplicateSays
<1>10. run' = [run EXCEPT !.phase = "put", !.user = n, !.todo = @ \ {n}, !.left = left]
    BY <1>4, <1>7 DEF stored
<1>11. /\ run'.phase = "put" /\ run'.i = run.i /\ run'.of = run.of /\ run'.user = n
       /\ run'.todo = run.todo \ {n} /\ run'.left = left /\ run'.disturbed = run.disturbed
       /\ run' \in Run
    <2>1. "put" \in AfterDomain \cup {"idle", "domain"} /\ run.todo \ {n} \in SUBSET UserNames
        BY <1>2 DEF AfterDomain, Remembering
    <2> QED
        BY <1>2, <1>8, <1>10, <2>1 DEF Run
<1>12. ASSUME ~run.disturbed PROVE Namespaces'
    <2>1. Namespaces
        BY <1>1, <1>12 DEF MigrationInv, CompleteInv, AfterDomain
    <2> SUFFICES ASSUME NEW k \in DOMAIN LegacyAgents, NEW x \in UserNames,
                        ~(k > run.i), ~(k = run.i /\ x \in run.todo \ {n})
                 PROVE  Remembered(k, x, IF k = run.i /\ x = n THEN left ELSE <<>>)'
        BY <1>11 DEF Namespaces
    <2>2. CASE k = run.i /\ x = n
        <3>1. \A f \in ToSet(SplitMemories(LegacyAgents[k].memory)) :
                Key[f] # "" => SaidBy(f, facts[<<LegacyAgents[k].name, n>>]) \/ SaidBy(f, left)
            BY <1>9, <2>2 DEF stored, Memories
        <3>2. Remembered(k, n, left)
            BY <3>1 DEF Remembered
        <3> QED
            BY <1>1, <1>11, <2>2, <3>2, SameReached
    <2>3. CASE ~(k = run.i /\ x = n)
        <3>1. ~(k = run.i /\ x \in run.todo)
            BY <2>3
        <3>2. Remembered(k, x, <<>>)
            BY <1>1, <2>1, <3>1 DEF Namespaces
        <3> QED
            BY <1>1, <1>11, <2>3, <3>2, SameReached
    <2> QED
        BY <2>2, <2>3
<1> QED
    BY <1>1, <1>2, <1>11, <1>12, SameMemory DEF Remembering

LEMMA NextUserKeeps == ASSUME MigrationInv, NextUser PROVE MigrationInv'
<1>1. /\ run.phase = "put" /\ run.left = <<>> /\ run.phase \in Remembering
      /\ UNCHANGED <<rows, transcript, facts, runs, lives, renamed>>
      /\ run' = [run EXCEPT !.phase = "facts", !.user = ""]
    BY DEF NextUser, Remembering
<1>2. run \in Run /\ run.i # 0
    BY <1>1 DEF MigrationInv, RunTypes, RunInv
<1>3. /\ run'.phase = "facts" /\ run'.i = run.i /\ run'.of = run.of /\ run'.todo = run.todo
      /\ run'.disturbed = run.disturbed /\ run' \in Run
    BY <1>1, <1>2 DEF Run, AfterDomain, Remembering
<1>4. ASSUME ~run.disturbed PROVE Namespaces'
    <2>1. Namespaces
        BY <1>1, <1>4 DEF MigrationInv, CompleteInv, AfterDomain
    <2> SUFFICES ASSUME NEW k \in DOMAIN LegacyAgents, NEW x \in UserNames,
                        ~(k > run.i), ~(k = run.i /\ x \in run.todo)
                 PROVE  Remembered(k, x, <<>>)'
        BY <1>3 DEF Namespaces
    <2>2. Remembered(k, x, <<>>)
        BY <1>1, <2>1 DEF Namespaces
    <2> QED
        BY <1>1, <2>2, SameReached
<1> QED
    BY <1>1, <1>2, <1>3, <1>4, SameMemory DEF Remembering

LEMMA FinishKeeps == ASSUME MigrationInv, Finish PROVE MigrationInv'
<1>1. /\ run.phase = "facts" /\ run.i > Len(LegacyAgents) /\ run.phase \in Remembering
      /\ UNCHANGED <<rows, transcript, facts, runs, lives, renamed>>
      /\ run' = [Idle EXCEPT !.phase = "done", !.of = run.of, !.disturbed = run.disturbed]
    BY DEF Finish, Remembering
<1>2. run \in Run /\ run.i \in Nat /\ OfFits(run.of)
    BY <1>1 DEF MigrationInv, RunTypes, RunInv, AfterDomain, Run
<1>3. /\ run'.phase = "done" /\ run'.of = run.of /\ run'.disturbed = run.disturbed
    BY <1>1 DEF Idle
<1>4. run' \in Run
    <2>1. run.of \in [SessionIds -> Thread] \cup {<<>>} /\ run.disturbed \in BOOLEAN
        BY <1>2 DEF Run
    <2>2. "done" \in AfterDomain \cup {"idle", "domain"} /\ {} \in SUBSET UserNames /\ 0 \in Nat
        BY DEF AfterDomain
    <2> QED
        BY <1>1, <2>1, <2>2, RunAt
<1>5. DataInv'
    BY <1>1, SameData DEF MigrationInv
<1>6. run.phase \in AfterDomain
    BY <1>1 DEF AfterDomain
<1>7. PICK of : of = run.of
    OBVIOUS
<1>8. RunInv'
    <2>1. OfFits(of)'
        BY <1>1, <1>2, <1>7, SameReached
    <2>2. OfFits(run.of)'
        BY <1>3, <1>7, <2>1 DEF OfFits
    <2> QED
        BY <1>3, <2>2 DEF RunInv, Looking, Remembering
<1>9. Missing' = {}
    BY <1>1, <1>6, SameReached DEF MigrationInv, CompleteInv
<1>10. ASSUME ~run.disturbed PROVE LinksMigrated' /\ Conversations' /\ Namespaces'
    <2>1. LinksMigrated /\ Conversations /\ Namespaces
        BY <1>6, <1>10 DEF MigrationInv, CompleteInv
    <2>2. \A k \in DOMAIN Sessions : Dealt(k, of)
        BY <1>1, <1>7, <2>1 DEF Conversations, Looking
    <2>3. \A k \in DOMAIN Sessions : Dealt(k, of)'
        BY <1>1, <2>2, SameReached
    <2>4. \A k \in DOMAIN Sessions : Dealt(k, run.of)'
        BY <1>3, <1>7, <2>3 DEF Dealt
    <2>5. Conversations'
        BY <1>3, <2>4 DEF Conversations
    <2>6. Namespaces'
        <3> SUFFICES ASSUME NEW k \in DOMAIN LegacyAgents, NEW x \in UserNames
                     PROVE  Remembered(k, x, <<>>)'
            BY <1>3 DEF Namespaces
        <3>1. ~(k > run.i) /\ ~(k = run.i)
            BY <1>1, <1>2, LegacyTypes
        <3>2. Remembered(k, x, <<>>)
            BY <1>1, <2>1, <3>1 DEF Namespaces
        <3> QED
            BY <1>1, <3>2, SameReached
    <2> QED
        BY <1>1, <2>1, <2>5, <2>6, SameReached
<1>11. CompleteInv'
    BY <1>3, <1>9, <1>10 DEF CompleteInv
<1> QED
    BY <1>1, <1>4, <1>5, <1>8, <1>11 DEF MigrationInv, RunTypes

LEMMA NextAgentKeeps == ASSUME MigrationInv, NextAgent PROVE MigrationInv'
<1>1. /\ run.phase = "facts" /\ run.i <= Len(LegacyAgents) /\ run.phase \in Remembering
      /\ run.phase \in AfterDomain /\ (run.todo = {} \/ Memories = <<>>)
      /\ UNCHANGED <<rows, transcript, facts, runs, lives, renamed>>
      /\ ToAgent(run.i + 1, run.of)
    BY DEF NextAgent, Remembering, AfterDomain
<1>2. run \in Run /\ run.i \in Nat /\ OfFits(run.of)
    BY <1>1 DEF MigrationInv, RunTypes, RunInv, Run
<1>3. DataInv'
    BY <1>1, SameData DEF MigrationInv
<1>4. PICK of : of = run.of
    OBVIOUS
<1>5. PICK k : k = run.i + 1
    OBVIOUS
<1>6. OfFits(of)' /\ ToAgent(k, of) /\ Missing' = {} /\ k \in Nat \ {0}
    BY <1>1, <1>2, <1>4, <1>5, SameReached DEF MigrationInv, CompleteInv
<1>7. ASSUME ~run.disturbed
      PROVE  /\ LinksMigrated' /\ \A j \in DOMAIN Sessions : Dealt(j, of)'
             /\ \A j \in DOMAIN LegacyAgents, n \in UserNames : j < k => Remembered(j, n, <<>>)'
    <2>1. LinksMigrated /\ Conversations /\ Namespaces
        BY <1>1, <1>7 DEF MigrationInv, CompleteInv
    <2>2. \A j \in DOMAIN Sessions : Dealt(j, of)
        BY <1>1, <1>4, <2>1 DEF Conversations, Looking
    <2>3. ASSUME NEW j \in DOMAIN LegacyAgents, NEW n \in UserNames, j < k
          PROVE  Remembered(j, n, <<>>)
        <3>1. j < run.i \/ j = run.i
            BY <1>2, <1>5, <2>3, LegacyTypes
        <3>2. CASE j = run.i /\ Memories = <<>>
            <4>1. SplitMemories(LegacyAgents[j].memory) = <<>>
                BY <3>2 DEF Memories
            <4>2. ToSet(SplitMemories(LegacyAgents[j].memory)) = {}
                BY <4>1 DEF ToSet
            <4> QED
                BY <4>2 DEF Remembered
        <3>3. CASE j < run.i \/ run.todo = {}
            <4>1. ~(j > run.i) /\ ~(j = run.i /\ n \in run.todo)
                BY <1>2, <3>1, <3>3, LegacyTypes
            <4> QED
                BY <1>1, <2>1, <4>1 DEF Namespaces
        <3> QED
            BY <1>1, <3>1, <3>2, <3>3
    <2> QED
        BY <1>1, <2>1, <2>2, <2>3, SameReached
<1>8. run' \in Run /\ RunInv' /\ CompleteInv'
    BY <1>2, <1>6, <1>7, ToAgentReached
<1> QED
    BY <1>1, <1>3, <1>8 DEF MigrationInv, RunTypes

LEMMA FactsPut ==
    ASSUME DataInv, NEW p \in AgentName \X UserName, NEW f \in FactText, facts' = Put(p, f)
    PROVE  /\ facts' \in [AgentName \X UserName -> Seq(FactText)] /\ FactsOnce'
           /\ \A q \in AgentName \X UserName : \A x : SaidBy(x, facts[q]) => SaidBy(x, facts'[q])
           /\ SaidBy(f, facts'[p])
<1>1. facts \in [AgentName \X UserName -> Seq(FactText)] /\ FactsOnce
    BY DEF DataInv, DataTypes
<1>2. PICK new : new = Put(p, f)
    OBVIOUS
<1>3. /\ new \in [AgentName \X UserName -> Seq(FactText)]
      /\ \A q \in AgentName \X UserName :
           Once(new[q]) /\ \A x : SaidBy(x, facts[q]) => SaidBy(x, new[q])
      /\ SaidBy(f, new[p])
    BY <1>1, <1>2, PutSays
<1>4. FactsOnce'
    BY <1>2, <1>3 DEF FactsOnce, Once
<1> QED
    BY <1>2, <1>3, <1>4

LEMMA PutFactKeeps == ASSUME MigrationInv, PutFact PROVE MigrationInv'
<1>1. /\ run.phase = "put" /\ run.phase \in Remembering /\ run.phase \in AfterDomain /\ run.left # <<>>
      /\ facts' = Put(Namespace, Head(run.left)) /\ run' = [run EXCEPT !.left = Tail(@)]
      /\ UNCHANGED <<rows, transcript, runs, lives, renamed>>
    BY DEF PutFact, Remembering, AfterDomain
<1>2. /\ run \in Run /\ run.left \in Seq(FactText) /\ run.i \in Nat /\ OfFits(run.of)
      /\ run.i # 0 /\ run.i <= Len(LegacyAgents) /\ run.user \in UserNames
    BY <1>1 DEF MigrationInv, RunTypes, RunInv, Run
<1>3. PICK left \in Seq(FactText) : left = run.left
    BY <1>2
<1>4. /\ Head(left) \in FactText /\ Tail(left) \in Seq(FactText)
      /\ \A x : SaidBy(x, left) => SaidBy(x, Tail(left)) \/ Key[x] = Key[Head(left)]
    <2>1. left # <<>>
        BY <1>1, <1>3
    <2>2. /\ Head(left) \in FactText /\ Tail(left) \in Seq(FactText) /\ Head(left) = left[1]
          /\ Len(Tail(left)) = Len(left) - 1 /\ \A i \in 1 .. Len(Tail(left)) : Tail(left)[i] = left[i + 1]
        BY <2>1, HeadTailProperties
    <2>3. PICK c : c = Tail(left)
        OBVIOUS
    <2>4. /\ DOMAIN left = 1 .. Len(left) /\ Len(left) \in Nat
          /\ DOMAIN c = 1 .. Len(left) - 1 /\ \A i \in 1 .. Len(left) - 1 : c[i] = left[i + 1]
        BY <2>2, <2>3
    <2>5. ASSUME NEW x, SaidBy(x, left) PROVE SaidBy(x, c) \/ Key[x] = Key[Head(left)]
        <3>1. PICK i \in 1 .. Len(left) : Key[left[i]] = Key[x]
            BY <2>4, <2>5 DEF SaidBy, ToSet
        <3>2. CASE i = 1
            BY <2>2, <3>1, <3>2
        <3>3. CASE i # 1
            <4>1. i - 1 \in 1 .. Len(left) - 1 /\ (i - 1) + 1 = i
                BY <2>4, <3>1, <3>3
            <4>2. c[i - 1] = left[i]
                BY <2>4, <4>1
            <4> QED
                BY <2>4, <3>1, <4>1, <4>2 DEF SaidBy, ToSet
        <3> QED
            BY <3>2, <3>3
    <2> QED
        BY <2>2, <2>3, <2>5
<1>5. PICK p \in AgentName \X UserName : p = Namespace
    <2>1. run.i \in DOMAIN LegacyAgents
        BY <1>2, LegacyTypes
    <2>2. LegacyAgents[run.i].name \in AgentName /\ run.user \in UserName
        BY <1>2, <2>1, LegacyTypes
    <2> QED
        BY <2>2 DEF Namespace
<1>6. facts' = Put(p, Head(left))
    BY <1>1, <1>3, <1>5
<1>7. /\ facts' \in [AgentName \X UserName -> Seq(FactText)] /\ FactsOnce'
      /\ \A q \in AgentName \X UserName : \A x : SaidBy(x, facts[q]) => SaidBy(x, facts'[q])
      /\ SaidBy(Head(left), facts'[p])
    BY <1>4, <1>6, FactsPut DEF MigrationInv
<1>8. /\ users' = users /\ agents' = agents /\ threads' = threads /\ roles' = roles
      /\ sources' = sources /\ links' = links /\ transcript' = transcript /\ renamed' = renamed
    BY <1>1 DEF rows
<1>9. DataInv'
    <2>1. DataTypes'
        BY <1>7, <1>8 DEF MigrationInv, DataInv, DataTypes
    <2>2. RowsInv'
        BY <1>8 DEF MigrationInv, DataInv, RowsInv, Used
    <2>3. ThreadsInv'
        BY <1>8 DEF MigrationInv, DataInv, ThreadsInv, Used, OneThreadPerKey, KeyOf
    <2>4. ImportInv'
        BY <1>8, SameImports DEF MigrationInv, DataInv
    <2> QED
        BY <1>7, <2>1, <2>2, <2>3, <2>4 DEF DataInv
<1>10. /\ run'.phase = "put" /\ run'.i = run.i /\ run'.of = run.of /\ run'.user = run.user
       /\ run'.todo = run.todo /\ run'.left = Tail(left) /\ run'.disturbed = run.disturbed
       /\ run' \in Run
    BY <1>1, <1>2, <1>3, <1>4 DEF Run
<1>11. OfFits(run.of)'
    BY <1>2, <1>8, <1>10 DEF OfFits, OfSession, Used, KeyOf
<1>12. RunInv'
    BY <1>2, <1>10, <1>11 DEF RunInv, Looking
<1>13. Missing' = {} /\ (~run.disturbed => LinksMigrated')
    BY <1>1, <1>8 DEF MigrationInv, CompleteInv, Missing, LinksMigrated
<1>14. ASSUME ~run.disturbed PROVE Conversations' /\ Namespaces'
    <2>1. Conversations /\ Namespaces
        BY <1>1, <1>14 DEF MigrationInv, CompleteInv
    <2>2. \A k \in DOMAIN Sessions : Dealt(k, run.of)
        BY <1>1, <2>1 DEF Conversations, Looking
    <2>3. \A k \in DOMAIN Sessions : Dealt(k, run.of)'
        BY <1>8, <1>10, <2>2 DEF Dealt, Before
    <2>4. Conversations'
        BY <1>10, <2>3 DEF Conversations, Looking
    <2>5. ASSUME NEW k \in DOMAIN LegacyAgents, NEW n \in UserNames, NEW some, NEW less, Remembered(k, n, some),
                 \A x : SaidBy(x, some) => SaidBy(x, less) \/ SaidBy(x, facts'[<<LegacyAgents[k].name, n>>])
          PROVE  Remembered(k, n, less)'
        <3>1. <<LegacyAgents[k].name, n>> \in AgentName \X UserName
            BY LegacyTypes
        <3> QED
            BY <1>7, <2>5, <3>1 DEF Remembered
    <2>6. Namespaces'
        <3> SUFFICES ASSUME NEW k \in DOMAIN LegacyAgents, NEW n \in UserNames,
                            ~(k > run.i), ~(k = run.i /\ n \in run.todo)
                     PROVE  Remembered(k, n, IF k = run.i /\ n = run.user THEN Tail(left) ELSE <<>>)'
            BY <1>10 DEF Namespaces
        <3>1. Remembered(k, n, IF k = run.i /\ n = run.user THEN left ELSE <<>>)
            BY <1>1, <1>3, <2>1 DEF Namespaces
        <3>2. CASE k = run.i /\ n = run.user
            <4>1. p = <<LegacyAgents[k].name, n>>
                BY <1>5, <3>2 DEF Namespace
            <4>2. \A x : SaidBy(x, left) => SaidBy(x, Tail(left)) \/ SaidBy(x, facts'[p])
                BY <1>4, <1>7 DEF SaidBy
            <4>3. Remembered(k, n, left)
                BY <3>1, <3>2
            <4>4. Remembered(k, n, Tail(left))'
                BY <2>5, <4>1, <4>2, <4>3
            <4> QED
                BY <1>10, <3>2, <4>4
        <3>3. CASE ~(k = run.i /\ n = run.user)
            <4>1. Remembered(k, n, <<>>)
                BY <3>1, <3>3
            <4>2. Remembered(k, n, <<>>)'
                BY <2>5, <4>1
            <4> QED
                BY <1>10, <3>3, <4>2
        <3> QED
            BY <3>2, <3>3
    <2> QED
        BY <2>4, <2>6
<1>15. CompleteInv'
    BY <1>10, <1>13, <1>14 DEF CompleteInv
<1> QED
    BY <1>1, <1>9, <1>10, <1>12, <1>15 DEF MigrationInv, RunTypes

-----------------------------------------------------------------------------
\* The steps of the others.

\* A run that they meet is disturbed; what it knows of its place stays true.
LEMMA LiveKeeps ==
    ASSUME MigrationInv, Live, DataInv', \A of : OfFits(of) => OfFits(of)',
           \A t \in Thread : Holds(t, <<>>) => Holds(t, <<>>)', Missing = {} => Missing' = {}
    PROVE  MigrationInv'
<1>1. run \in Run /\ run' = [run EXCEPT !.disturbed = (run.phase # "idle")]
      /\ lives' = lives + 1 /\ runs' = runs /\ runs \in Nat /\ lives \in Nat
    BY DEF MigrationInv, RunTypes, Live
<1>2. /\ run' \in Run /\ run'.phase = run.phase /\ run'.i = run.i /\ run'.of = run.of
      /\ run'.user = run.user /\ run'.disturbed = (run.phase # "idle")
    <2>1. (run.phase # "idle") \in BOOLEAN
        OBVIOUS
    <2>2. PICK d \in BOOLEAN : d = (run.phase # "idle")
        BY <2>1
    <2>3. run' = [run EXCEPT !.disturbed = d]
        BY <1>1, <2>2
    <2>4. /\ run' \in Run /\ run'.phase = run.phase /\ run'.i = run.i /\ run'.of = run.of
          /\ run'.user = run.user /\ run'.disturbed = d
        BY <1>1, <2>3 DEF Run
    <2> QED
        BY <2>2, <2>4
<1>3. RunTypes'
    BY <1>1, <1>2 DEF RunTypes
<1>4. Session' = Session /\ Target' = Target
    BY <1>2 DEF Session, Target
<1>5. run.phase \in AfterDomain => OfFits(run.of)'
    <2>1. PICK of : of = run.of
        OBVIOUS
    <2>2. run.phase \in AfterDomain => OfFits(of)'
        BY <2>1 DEF MigrationInv, RunInv
    <2> QED
        BY <1>2, <2>1, <2>2 DEF OfFits
<1>6. run.phase = "append" => Holds(Target, <<>>)'
    <2> SUFFICES ASSUME run.phase = "append" PROVE Holds(Target, <<>>)'
        OBVIOUS
    <2>1. Target \in Thread /\ Holds(Target, <<>>)
        BY SessionTyped DEF MigrationInv, RunInv, Looking
    <2>2. PICK t \in Thread : t = Target
        BY <2>1
    <2>3. Holds(t, <<>>)'
        BY <2>1, <2>2
    <2> QED
        BY <1>4, <2>2, <2>3 DEF Holds
<1>7. RunInv'
    BY <1>2, <1>4, <1>5, <1>6 DEF MigrationInv, RunInv
<1>8. run.phase \in AfterDomain => run'.disturbed
    BY <1>2 DEF AfterDomain, Looking, Remembering
<1>9. CompleteInv'
    <2>1. run.phase \in AfterDomain => Missing' = {}
        BY DEF MigrationInv, CompleteInv
    <2> QED
        BY <1>2, <1>8, <2>1 DEF CompleteInv
<1> QED
    BY <1>3, <1>7, <1>9 DEF MigrationInv

LEMMA LiveTurnKeeps == ASSUME MigrationInv, NEW t \in Thread, LiveTurn(t) PROVE MigrationInv'
<1>1. /\ Used(t) /\ Live /\ transcript' = [transcript EXCEPT ![t] = @ \o Turn]
      /\ UNCHANGED <<rows, facts, renamed>>
    BY DEF LiveTurn, Used
<1>2. PICK m \in Seq(Message) : m = Turn
    BY TurnTyped
<1>3. transcript' = [transcript EXCEPT ![t] = @ \o m] /\ transcript \in [Thread -> Seq(Message)]
    BY <1>1, <1>2 DEF MigrationInv, DataInv, DataTypes
<1>4. ASSUME NEW x \in Seq(Message), Holds(t, x) PROVE Within(transcript[t] \o m, x)
    BY <1>2, <1>3, <1>4, HoldsNow, WithinLive
<1>5. \/ Within(transcript[t] \o m, <<>>)
      \/ \E s \in ToSet(Sessions) : Within(transcript[t] \o m, MessagesOf[s]) /\ OfSession(t, s)
    <2>1. Holds(t, <<>>) \/ \E s \in ToSet(Sessions) : Holds(t, MessagesOf[s]) /\ OfSession(t, s)
        BY DEF MigrationInv, DataInv, ImportInv
    <2>2. <<>> \in Seq(Message)
        OBVIOUS
    <2> QED
        BY <1>4, <2>1, <2>2, MessagesTyped
<1>6. DataInv'
    BY <1>1, <1>3, <1>5, Appended DEF MigrationInv
<1>7. ASSUME NEW x \in Thread, Holds(x, <<>>) PROVE Holds(x, <<>>)'
    <2>1. <<>> \in Seq(Message)
        OBVIOUS
    <2>2. CASE x = t
        <3>1. transcript'[x] = transcript[t] \o m
            BY <1>3, <2>2
        <3>2. Within(transcript[t] \o m, <<>>)
            BY <1>4, <1>7, <2>1, <2>2
        <3> QED
            BY <3>1, <3>2, HoldsNow
    <2>3. CASE x # t
        <3>1. transcript'[x] = transcript[x]
            BY <1>3, <2>3
        <3> QED
            BY <1>7, <3>1, HoldsNow
    <2> QED
        BY <2>2, <2>3
<1>8. \A of : OfFits(of) => OfFits(of)'
    BY <1>1 DEF OfFits, OfSession, Used, KeyOf, rows
<1>9. Missing' = Missing
    BY <1>1 DEF Missing, rows
<1> QED
    BY <1>1, <1>6, <1>7, <1>8, <1>9, LiveKeeps

\* The rows of users.
LEMMA UserKeeps ==
    ASSUME MigrationInv, NEW n \in UserName, NEW row \in UserRow, users[n] # Unused,
           users' = [users EXCEPT ![n] = row], Live,
           UNCHANGED <<agents, threads, roles, sources, links, transcript, facts, renamed>>
    PROVE  MigrationInv'
<1>1. users' \in [UserName -> UserRow \cup {Unused}]
    BY DEF MigrationInv, DataInv, DataTypes
<1>2. DataInv'
    <2>1. DataTypes'
        BY <1>1 DEF MigrationInv, DataInv, DataTypes
    <2>2. FactsOnce'
        BY DEF MigrationInv, DataInv, FactsOnce
    <2>3. RowsInv'
        BY DEF MigrationInv, DataInv, RowsInv, Used
    <2>4. ThreadsInv'
        BY DEF MigrationInv, DataInv, ThreadsInv, Used, OneThreadPerKey, KeyOf
    <2>5. ImportInv'
        BY SameImports DEF MigrationInv, DataInv
    <2> QED
        BY <2>1, <2>2, <2>3, <2>4, <2>5 DEF DataInv
<1>3. \A x \in UserNames : users'[x] = Unused => users[x] = Unused
    <2>1. users \in [UserName -> UserRow \cup {Unused}] /\ row # Unused
        BY RowsAreNot DEF MigrationInv, DataInv, DataTypes
    <2> QED
        BY <2>1, LegacyTypes
<1>4. Missing = {} => Missing' = {}
    BY <1>3 DEF Missing
<1>5. \A of : OfFits(of) => OfFits(of)'
    BY DEF OfFits, OfSession, Used, KeyOf
<1>6. \A t \in Thread : Holds(t, <<>>) => Holds(t, <<>>)'
    BY DEF Holds
<1> QED
    BY <1>2, <1>4, <1>5, <1>6, LiveKeeps

LEMMA LoginRehashKeeps == ASSUME MigrationInv, NEW n \in UserName, LoginRehash(n) PROVE MigrationInv'
<1>1. users \in [UserName -> UserRow \cup {Unused}] /\ users[n] # Unused
    BY DEF MigrationInv, DataInv, DataTypes, LoginRehash
<1>2. PICK row : row = [users[n] EXCEPT !.hash = "argon2"]
    OBVIOUS
<1>3. row \in UserRow /\ users' = [users EXCEPT ![n] = row]
    BY <1>1, <1>2 DEF UserRow, LoginRehash
<1> QED
    BY <1>1, <1>3, UserKeeps DEF LoginRehash

LEMMA ChangeEmailKeeps == ASSUME MigrationInv, NEW n \in UserName, ChangeEmail(n) PROVE MigrationInv'
<1>1. users \in [UserName -> UserRow \cup {Unused}] /\ users[n] # Unused
    BY DEF MigrationInv, DataInv, DataTypes, ChangeEmail
<1>2. PICK row : row = [users[n] EXCEPT !.email = "own"]
    OBVIOUS
<1>3. row \in UserRow /\ users' = [users EXCEPT ![n] = row]
    BY <1>1, <1>2 DEF UserRow, ChangeEmail
<1> QED
    BY <1>1, <1>3, UserKeeps DEF ChangeEmail

LEMMA LinkSourcesKeeps ==
    ASSUME MigrationInv, NEW n \in AgentName, NEW names \in SUBSET SourceName, LinkSources(n, names)
    PROVE  MigrationInv'
<1>1. /\ agents[n] # Unused /\ names \subseteq sources /\ Live
      /\ links' = {l \in links : l[1] # n} \cup ({n} \X names)
      /\ UNCHANGED <<users, agents, threads, roles, sources, transcript, facts, renamed>>
    BY DEF LinkSources
<1>2. links' \in SUBSET (AgentName \X SourceName)
    BY <1>1 DEF MigrationInv, DataInv, DataTypes
<1>3. ASSUME NEW l \in links' PROVE l[2] \in sources /\ agents[l[1]] # Unused
    <2>1. CASE l \in links
        BY <2>1 DEF MigrationInv, DataInv, RowsInv
    <2>2. CASE l \in {n} \X names
        BY <1>1, <2>2
    <2> QED
        BY <1>1, <2>1, <2>2
<1>4. DataInv'
    <2>1. DataTypes'
        BY <1>1, <1>2 DEF MigrationInv, DataInv, DataTypes
    <2>2. FactsOnce'
        BY <1>1 DEF MigrationInv, DataInv, FactsOnce
    <2>3. RowsInv'
        BY <1>1, <1>3 DEF MigrationInv, DataInv, RowsInv, Used
    <2>4. ThreadsInv'
        BY <1>1 DEF MigrationInv, DataInv, ThreadsInv, Used, OneThreadPerKey, KeyOf
    <2>5. ImportInv'
        BY <1>1, SameImports DEF MigrationInv, DataInv
    <2> QED
        BY <2>1, <2>2, <2>3, <2>4, <2>5 DEF DataInv
<1>5. Missing' = Missing
    BY <1>1 DEF Missing
<1>6. \A of : OfFits(of) => OfFits(of)'
    BY <1>1 DEF OfFits, OfSession, Used, KeyOf
<1>7. \A t \in Thread : Holds(t, <<>>) => Holds(t, <<>>)'
    BY <1>1 DEF Holds
<1> QED
    BY <1>1, <1>4, <1>5, <1>6, <1>7, LiveKeeps

LEMMA ForgetKeeps == ASSUME MigrationInv, NEW p \in DOMAIN facts, Forget(p) PROVE MigrationInv'
<1>1. /\ facts' = [facts EXCEPT ![p] = <<>>] /\ Live
      /\ users' = users /\ agents' = agents /\ threads' = threads /\ roles' = roles
      /\ sources' = sources /\ links' = links /\ transcript' = transcript /\ renamed' = renamed
    BY DEF Forget, rows
<1>2. facts \in [AgentName \X UserName -> Seq(FactText)] /\ FactsOnce
    BY DEF MigrationInv, DataInv, DataTypes
<1>3. facts' \in [AgentName \X UserName -> Seq(FactText)]
    BY <1>1, <1>2
<1>4. FactsOnce'
    <2>1. \A q \in DOMAIN facts' : facts'[q] = facts[q] \/ DOMAIN facts'[q] = {}
        BY <1>1, <1>2
    <2>2. DOMAIN facts' = DOMAIN facts
        BY <1>1
    <2> QED
        BY <1>2, <2>1, <2>2 DEF FactsOnce
<1>5. DataInv'
    <2>1. DataTypes'
        BY <1>1, <1>3 DEF MigrationInv, DataInv, DataTypes
    <2>2. RowsInv'
        BY <1>1 DEF MigrationInv, DataInv, RowsInv, Used
    <2>3. ThreadsInv'
        BY <1>1 DEF MigrationInv, DataInv, ThreadsInv, Used, OneThreadPerKey, KeyOf
    <2>4. ImportInv'
        BY <1>1, SameImports DEF MigrationInv, DataInv
    <2> QED
        BY <1>4, <2>1, <2>2, <2>3, <2>4 DEF DataInv
<1>6. Missing' = Missing
    BY <1>1 DEF Missing
<1>7. \A of : OfFits(of) => OfFits(of)'
    BY <1>1 DEF OfFits, OfSession, Used, KeyOf
<1>8. \A t \in Thread : Holds(t, <<>>) => Holds(t, <<>>)'
    BY <1>1 DEF Holds
<1> QED
    BY <1>1, <1>5, <1>6, <1>7, <1>8, LiveKeeps

LEMMA RenameKeeps ==
    ASSUME MigrationInv, NEW t \in Thread, NEW title \in Title, Rename(t, title)
    PROVE  MigrationInv'
<1>1. /\ Used(t) /\ threads' = [threads EXCEPT ![t].title = title] /\ renamed' = renamed \cup {t} /\ Live
      /\ UNCHANGED <<users, agents, roles, sources, links, transcript, facts>>
    BY DEF Rename, Used
<1>2. threads \in [Thread -> ThreadRow \cup {Unused}] /\ threads[t] \in ThreadRow
    BY <1>1 DEF MigrationInv, DataInv, DataTypes, Used
<1>3. /\ threads'[t] = [threads[t] EXCEPT !.title = title]
      /\ \A x \in Thread : x # t => threads'[x] = threads[x]
    BY <1>1, <1>2
<1>4. /\ threads'[t] \in ThreadRow /\ threads'[t].agent = threads[t].agent /\ threads'[t].at = threads[t].at
    BY <1>2, <1>3 DEF ThreadRow
<1>5. threads' \in [Thread -> ThreadRow \cup {Unused}] /\ threads'[t] # Unused
    <2>1. threads' \in [Thread -> ThreadRow \cup {Unused}]
        BY <1>1, <1>2, <1>3, <1>4
    <2> QED
        BY <1>4, <2>1, RowsAreNot
<1>6. \A x \in Thread : /\ Used(x)' <=> Used(x)
                        /\ threads'[x].agent = threads[x].agent /\ threads'[x].at = threads[x].at
    BY <1>1, <1>3, <1>4, <1>5 DEF Used
<1>7. \A x \in Thread : x # t => KeyOf(x)' = KeyOf(x)
    BY <1>3 DEF KeyOf
<1>8. ASSUME NEW x \in Thread, NEW s, OfSession(x, s) PROVE OfSession(x, s)'
    BY <1>1, <1>7, <1>8 DEF OfSession
<1>9. DataInv'
    <2>1. DataTypes'
        BY <1>1, <1>5 DEF MigrationInv, DataInv, DataTypes
    <2>2. FactsOnce'
        BY <1>1 DEF MigrationInv, DataInv, FactsOnce
    <2>3. RowsInv'
        BY <1>1, <1>6 DEF MigrationInv, DataInv, RowsInv
    <2>4. ThreadsInv'
        <3>1. OneThreadPerKey'
            <4> SUFFICES ASSUME NEW x \in Thread \ renamed', NEW y \in Thread \ renamed',
                                Used(x)', Used(y)', x # y
                         PROVE  KeyOf(x)' # KeyOf(y)'
                BY DEF OneThreadPerKey, Used
            <4>1. /\ x \in Thread \ renamed /\ y \in Thread \ renamed /\ Used(x) /\ Used(y)
                  /\ KeyOf(x)' = KeyOf(x) /\ KeyOf(y)' = KeyOf(y)
                BY <1>1, <1>6, <1>7
            <4>2. KeyOf(x) # KeyOf(y)
                BY <4>1 DEF MigrationInv, DataInv, ThreadsInv, OneThreadPerKey, Used
            <4> QED
                BY <4>1, <4>2
        <3>2. \A x \in Thread : ~Used(x)' => transcript'[x] = <<>> /\ x \notin renamed'
            BY <1>1, <1>6 DEF MigrationInv, DataInv, ThreadsInv
        <3>3. \A x \in Thread : Used(x)' => threads'[x].at \in 1 .. Late - 1 \/ threads'[x].at = Late + x
            BY <1>6 DEF MigrationInv, DataInv, ThreadsInv
        <3> QED
            BY <3>1, <3>2, <3>3 DEF ThreadsInv
    <2>5. ImportInv'
        <3> SUFFICES ASSUME NEW x \in Thread
                     PROVE  Holds(x, <<>>)' \/ \E s \in ToSet(Sessions) : Holds(x, MessagesOf[s])' /\ OfSession(x, s)'
            BY DEF ImportInv
        <3>1. Holds(x, <<>>) \/ \E s \in ToSet(Sessions) : Holds(x, MessagesOf[s]) /\ OfSession(x, s)
            BY DEF MigrationInv, DataInv, ImportInv
        <3>2. transcript' = transcript
            BY <1>1
        <3> QED
            BY <1>8, <3>1, <3>2, HoldsNow
    <2> QED
        BY <2>1, <2>2, <2>3, <2>4, <2>5 DEF DataInv
<1>10. ASSUME NEW of, OfFits(of) PROVE OfFits(of)'
    <2>1. of \in [SessionIds -> Thread]
        BY <1>10 DEF OfFits
    <2>2. ASSUME NEW s \in ToSet(Sessions) PROVE Used(of[s.id])' /\ OfSession(of[s.id], s)'
        <3>1. of[s.id] \in Thread
            BY <2>1, SessionsTyped
        <3>2. Used(of[s.id]) /\ OfSession(of[s.id], s)
            BY <1>10 DEF OfFits
        <3> QED
            BY <1>6, <1>8, <3>1, <3>2
    <2> QED
        BY <2>1, <2>2 DEF OfFits
<1>11. Missing' = Missing
    BY <1>1 DEF Missing
<1>12. \A x \in Thread : Holds(x, <<>>) => Holds(x, <<>>)'
    BY <1>1 DEF Holds
<1> QED
    BY <1>1, <1>9, <1>10, <1>11, <1>12, LiveKeeps

LEMMA ConsolidateKeeps ==
    ASSUME MigrationInv, NEW t \in Thread, NEW n, NEW f \in FactText, Consolidate(t, n, f)
    PROVE  MigrationInv'
<1>1. /\ Used(t) /\ threads' = [threads EXCEPT ![t].mark = Len(transcript[t])] /\ Live
      /\ facts' = Put(<<threads[t].agent, n>>, f)
      /\ UNCHANGED <<users, agents, roles, sources, links, transcript, renamed>>
    BY DEF Consolidate, Used
<1>2. PICK m \in Nat : m = Len(transcript[t])
    <2>1. transcript[t] \in Seq(Message)
        BY DEF MigrationInv, DataInv, DataTypes
    <2> QED
        BY <2>1
<1>3. /\ threads' \in [Thread -> ThreadRow \cup {Unused}]
      /\ RowsInv' /\ ThreadsInv' /\ ImportInv'
      /\ \A of : OfFits(of) => OfFits(of)'
    BY <1>1, <1>2, Marked DEF MigrationInv
<1>4. PICK p : p = <<threads[t].agent, n>>
    OBVIOUS
<1>5. facts \in [AgentName \X UserName -> Seq(FactText)] /\ FactsOnce
    BY DEF MigrationInv, DataInv, DataTypes
<1>6. facts' \in [AgentName \X UserName -> Seq(FactText)] /\ FactsOnce'
    <2>1. CASE p \in AgentName \X UserName
        BY <1>1, <1>4, <2>1, FactsPut DEF MigrationInv
    <2>2. CASE p \notin AgentName \X UserName
        <3>1. facts' = [facts EXCEPT ![p] = PutInto(facts[p], f)]
            BY <1>1, <1>4 DEF Put, PutInto
        <3>2. facts' = facts
            BY <1>5, <2>2, <3>1
        <3> QED
            BY <1>5, <3>2 DEF FactsOnce
    <2> QED
        BY <2>1, <2>2
<1>7. DataInv'
    <2>1. DataTypes'
        BY <1>1, <1>3, <1>6 DEF MigrationInv, DataInv, DataTypes
    <2> QED
        BY <1>3, <1>6, <2>1 DEF DataInv
<1>8. Missing' = Missing
    BY <1>1 DEF Missing
<1>9. \A x \in Thread : Holds(x, <<>>) => Holds(x, <<>>)'
    BY <1>1 DEF Holds
<1> QED
    BY <1>1, <1>3, <1>7, <1>8, <1>9, LiveKeeps

LEMMA OthersKeep == ASSUME MigrationInv, Others PROVE MigrationInv'
<1>1. ASSUME NEW t \in Thread, LiveTurn(t) \/ \E title \in Title : Rename(t, title) PROVE MigrationInv'
    BY <1>1, LiveTurnKeeps, RenameKeeps
<1>2. ASSUME NEW n \in UserName, LoginRehash(n) \/ ChangeEmail(n) PROVE MigrationInv'
    BY <1>2, LoginRehashKeeps, ChangeEmailKeeps
<1>3. ASSUME NEW n \in AgentName, NEW names \in SUBSET SourceName, LinkSources(n, names) PROVE MigrationInv'
    BY <1>3, LinkSourcesKeeps
<1>4. ASSUME NEW t \in Thread, NEW f \in FactText, Consolidate(t, Owner, f) PROVE MigrationInv'
    BY <1>4, ConsolidateKeeps
<1>5. ASSUME NEW p \in DOMAIN facts, Forget(p) PROVE MigrationInv'
    BY <1>5, ForgetKeeps
<1> QED
    BY <1>1, <1>2, <1>3, <1>4, <1>5 DEF Others

-----------------------------------------------------------------------------
\* The first phase.

\* The rows that it writes.
LEMMA UpsertRowsTyped ==
    ASSUME DataTypes, NEW n
    PROVE  /\ n \in UserNames => UpsertUser(n) \in UserRow
           /\ UpsertAgent(n) \in [role : RoleKeys \cup {""}]
<1>1. UpsertAgent(n) \in [role : RoleKeys \cup {""}]
    BY RoleTyped DEF UpsertAgent
<1>2. ASSUME n \in UserNames PROVE UpsertUser(n) \in UserRow
    <2>1. Email(n) \in {"synthesized", "admin", "own"}
        BY DEF Email
    <2>2. NewUser(n) \in UserRow
        BY <1>2, <2>1, FirstUserRole DEF NewUser, UserRow
    <2>3. users[n] \in UserRow \cup {Unused}
        BY <1>2, LegacyTypes DEF DataTypes
    <2>4. users[n] # Unused => [users[n] EXCEPT !.email = Email(n)] \in UserRow
        BY <2>1, <2>3 DEF UserRow
    <2> QED
        BY <2>2, <2>3, <2>4 DEF UpsertUser
<1> QED
    BY <1>1, <1>2

LEMMA LinksAre ==
    ASSUME NEW n \in AgentNames
    PROVE  {l[2] : l \in {k \in UpsertLinks : k[1] = n}} = LinkedSources(LegacyAgent(n))
<1> DEFINE L == {k \in UpsertLinks : k[1] = n}
<1>1. ASSUME NEW l \in L PROVE l[2] \in LinkedSources(LegacyAgent(n))
    <2>1. l[1] = n /\ l \in {k \in AgentNames \X SourceNames : k[2] \in LinkedSources(LegacyAgent(k[1]))}
        BY DEF UpsertLinks
    <2> QED
        BY <2>1
<1>2. ASSUME NEW x \in LinkedSources(LegacyAgent(n)) PROVE \E l \in L : l[2] = x
    <2>1. <<n, x>> \in AgentNames \X SourceNames
        BY LinkedTyped
    <2>2. <<n, x>> \in UpsertLinks
        BY <2>1 DEF UpsertLinks
    <2> QED
        BY <2>2
<1> QED
    BY <1>1, <1>2

LEMMA MigrateDomainKeeps == ASSUME MigrationInv, MigrateDomain PROVE MigrationInv'
<1>1. /\ users' = [n \in UserName |-> IF n \in UserNames THEN UpsertUser(n) ELSE users[n]]
      /\ roles' = UpsertRoles /\ sources' = UpsertSources
      /\ agents' = [n \in AgentName |-> IF n \in AgentNames THEN UpsertAgent(n) ELSE agents[n]]
      /\ links' = UpsertLinks
      /\ UNCHANGED <<transcript, facts, runs, lives, renamed>>
    BY DEF MigrateDomain
<1>2. PICK ths, of : /\ ths = Upserted[Len(Sessions)].threads /\ of = Upserted[Len(Sessions)].of
    OBVIOUS
<1>3. threads' = ths /\ ToSession(1, of)
    BY <1>2 DEF MigrateDomain
<1>4. DataTypes /\ FactsOnce /\ RowsInv /\ ThreadsInv /\ ImportInv /\ RunTypes
    BY DEF MigrationInv, DataInv
<1>5. RowsFit(threads)
    <2>1. \A t, x \in Thread \ renamed :
            t # x /\ threads[t] # Unused /\ threads[x] # Unused => KeyIn(threads, t) # KeyIn(threads, x)
        BY <1>4 DEF ThreadsInv, OneThreadPerKey, KeyOf, KeyIn
    <2> QED
        BY <1>4, <2>1 DEF RowsFit, Rows, DataTypes, ThreadsInv, Used
<1>6. Fits(Upserted[Len(Sessions)], Len(Sessions))
    BY <1>5, UpsertedFits DEF MigrateDomain
<1>7. /\ ths \in Rows /\ of \in [SessionIds -> Thread \cup {0, NoThread}] /\ RowsFit(ths)
      /\ \A t \in Thread : Used(t) => ths[t] = threads[t]
      /\ \A t \in Thread : ~Used(t) /\ ths[t] # Unused => ths[t].agent \in AgentNames
      /\ \A k \in 1 .. Len(Sessions) :
           LET t == of[Sessions[k].id]
           IN  t \in Thread /\ ths[t] # Unused /\ KeyIn(ths, t) = SessionKey(Sessions[k], t)
    BY <1>2, <1>6 DEF Fits, Known, Acc, Used
<1>8. \A t \in Thread : Used(t) => Used(t)' /\ KeyOf(t)' = KeyOf(t)
    BY <1>3, <1>7 DEF Used, KeyOf
<1>9. ASSUME NEW n \in AgentName
      PROVE  /\ n \in AgentNames => agents'[n] # Unused
             /\ agents[n] # Unused => agents'[n] # Unused
             /\ agents'[n] \in [role : RoleKeys \cup {""}] \cup {Unused}
    <2>1. agents'[n] = IF n \in AgentNames THEN UpsertAgent(n) ELSE agents[n]
        BY <1>1
    <2>2. UpsertAgent(n) \in [role : RoleKeys \cup {""}] /\ UpsertAgent(n) # Unused
        BY <1>4, UpsertRowsTyped, RowsAreNot
    <2>3. agents[n] \in [role : RoleKeys \cup {""}] \cup {Unused}
        BY <1>4 DEF DataTypes
    <2> QED
        BY <2>1, <2>2, <2>3
<1>10. ASSUME NEW n \in UserName
       PROVE  (n \in UserNames => users'[n] # Unused) /\ users'[n] \in UserRow \cup {Unused}
    <2>1. users'[n] = IF n \in UserNames THEN UpsertUser(n) ELSE users[n]
        BY <1>1
    <2>2. n \in UserNames => UpsertUser(n) \in UserRow /\ UpsertUser(n) # Unused
        BY <1>4, UpsertRowsTyped, RowsAreNot
    <2>3. users[n] \in UserRow \cup {Unused}
        BY <1>4 DEF DataTypes
    <2> QED
        BY <2>1, <2>2, <2>3
<1>11. roles' = RoleKeys /\ sources' = SourceNames
    BY <1>1, <1>4 DEF DataTypes, UpsertRoles, UpsertSources
<1>12. DataTypes'
    <2>1. users' \in [UserName -> UserRow \cup {Unused}]
        BY <1>1, <1>10
    <2>2. agents' \in [AgentName -> [role : RoleKeys \cup {""}] \cup {Unused}]
        BY <1>1, <1>9
    <2>3. threads' \in [Thread -> ThreadRow \cup {Unused}]
        BY <1>3, <1>7 DEF Rows
    <2>4. links' \in SUBSET (AgentName \X SourceName)
        BY <1>1, <1>4, LegacyTypes DEF DataTypes, UpsertLinks
    <2> QED
        BY <1>1, <1>4, <1>11, <2>1, <2>2, <2>3, <2>4 DEF DataTypes
<1>13. FactsOnce'
    BY <1>1, <1>4 DEF FactsOnce
<1>14. RowsInv'
    <2>1. \A n \in AgentName : agents'[n] # Unused => agents'[n].role \in roles' \cup {""}
        BY <1>9, <1>11
    <2>2. ASSUME NEW t \in Thread, Used(t)' PROVE agents'[threads'[t].agent] # Unused
        <3>1. threads'[t].agent \in AgentName
            <4>1. threads'[t] \in ThreadRow
                BY <1>3, <1>7, <2>2 DEF Rows, Used
            <4> QED
                BY <4>1 DEF ThreadRow
        <3>2. CASE Used(t)
            <4>1. threads'[t] = threads[t] /\ agents[threads[t].agent] # Unused
                BY <1>3, <1>4, <1>7, <3>2 DEF RowsInv
            <4> QED
                BY <1>9, <3>1, <4>1
        <3>3. CASE ~Used(t)
            <4>1. threads'[t].agent \in AgentNames
                BY <1>3, <1>7, <2>2, <3>3 DEF Used
            <4> QED
                BY <1>9, <3>1, <4>1
        <3> QED
            BY <3>2, <3>3
    <2>3. ASSUME NEW l \in links' PROVE l[2] \in sources' /\ agents'[l[1]] # Unused
        <3>1. CASE l \in links
            <4>1. l[1] \in AgentName /\ l[2] \in SourceNames /\ agents[l[1]] # Unused
                BY <1>4, <3>1 DEF DataTypes, RowsInv
            <4> QED
                BY <1>9, <1>11, <4>1
        <3>2. CASE l \notin links
            <4>1. l[1] \in AgentNames /\ l[2] \in SourceNames
                BY <1>1, <3>2 DEF UpsertLinks
            <4> QED
                BY <1>9, <1>11, <4>1, LegacyTypes
        <3> QED
            BY <3>1, <3>2
    <2> QED
        BY <2>1, <2>2, <2>3 DEF RowsInv
<1>15. ThreadsInv'
    <2>1. \A t \in Thread : ~Used(t)' => transcript'[t] = <<>> /\ t \notin renamed'
        BY <1>1, <1>4, <1>8 DEF ThreadsInv
    <2>2. \A t \in Thread : Used(t)' => threads'[t].at \in 1 .. Late - 1 \/ threads'[t].at = Late + t
        BY <1>3, <1>7 DEF RowsFit, Used
    <2>3. OneThreadPerKey'
        BY <1>1, <1>3, <1>7 DEF OneThreadPerKey, RowsFit, KeyOf, KeyIn
    <2> QED
        BY <2>1, <2>2, <2>3 DEF ThreadsInv
<1>16. ImportInv'
    <2> SUFFICES ASSUME NEW x \in Thread
                 PROVE  Holds(x, <<>>)' \/ \E s \in ToSet(Sessions) : Holds(x, MessagesOf[s])' /\ OfSession(x, s)'
        BY DEF ImportInv
    <2>1. transcript' = transcript
        BY <1>1
    <2>2. CASE Used(x)
        <3>1. Holds(x, <<>>) \/ \E s \in ToSet(Sessions) : Holds(x, MessagesOf[s]) /\ OfSession(x, s)
            BY <1>4 DEF ImportInv
        <3>2. \A s : OfSession(x, s) => OfSession(x, s)'
            BY <1>1, <1>8, <2>2 DEF OfSession
        <3> QED
            BY <2>1, <3>1, <3>2, HoldsNow
    <2>3. CASE ~Used(x)
        <3>1. transcript'[x] = <<>> /\ <<>> \in Seq(Message)
            BY <1>4, <2>1, <2>3 DEF ThreadsInv
        <3>2. Within(transcript'[x], <<>>)
            BY <3>1, WithinNothing
        <3> QED
            BY <3>2, HoldsNow
    <2> QED
        BY <2>2, <2>3
<1>17. DataInv'
    BY <1>12, <1>13, <1>14, <1>15, <1>16 DEF DataInv
<1>18. OfFits(of)'
    <2>1. ASSUME NEW s \in ToSet(Sessions)
          PROVE  of[s.id] \in Thread /\ Used(of[s.id])' /\ OfSession(of[s.id], s)'
        <3>1. PICK k \in 1 .. Len(Sessions) : s = Sessions[k]
            BY SessionsTyped DEF ToSet
        <3> DEFINE t == of[s.id]
        <3>2. t \in Thread /\ ths[t] # Unused /\ KeyIn(ths, t) = SessionKey(s, t)
            BY <1>7, <3>1
        <3> QED
            BY <1>3, <3>2 DEF Used, OfSession, KeyIn, KeyOf
    <2>2. of \in [SessionIds -> Thread]
        <3>1. \A id \in SessionIds : of[id] \in Thread
            BY <2>1 DEF SessionIds
        <3> QED
            BY <1>7, <3>1
    <2> QED
        BY <2>1, <2>2 DEF OfFits
<1>19. Missing' = {}
    BY <1>9, <1>10, <1>11, LegacyTypes DEF Missing
<1>20. LinksMigrated'
    BY <1>1, LinksAre DEF LinksMigrated
<1>21. \A j \in DOMAIN Sessions : ~(j < 1)
    BY SessionsTyped
<1>22. 1 \in Nat \ {0} /\ run \in Run
    BY <1>4 DEF RunTypes
<1>23. run' \in Run /\ RunInv' /\ CompleteInv'
    BY <1>3, <1>18, <1>19, <1>20, <1>21, <1>22, ToSessionReached
<1> QED
    BY <1>1, <1>4, <1>17, <1>23 DEF MigrationInv, RunTypes

-----------------------------------------------------------------------------
\* The theorems.

LEMMA InitFits == ASSUME Init PROVE MigrationInv
<1>1. DataTypes
    <2>1. <<>> \in Seq(Message) /\ <<>> \in Seq(FactText)
        OBVIOUS
    <2> QED
        BY <2>1 DEF Init, DataTypes
<1>2. FactsOnce
    <2>1. \A p \in DOMAIN facts : DOMAIN facts[p] = {}
        BY DEF Init
    <2> QED
        BY <2>1 DEF FactsOnce
<1>3. \A t \in Thread : ~Used(t) /\ transcript[t] = <<>>
    BY DEF Init, Used
<1>4. RowsInv
    BY <1>3 DEF RowsInv, Init
<1>5. ThreadsInv
    <2>1. OneThreadPerKey
        BY <1>3 DEF OneThreadPerKey, Used
    <2> QED
        BY <1>3, <2>1 DEF ThreadsInv, Init
<1>6. ImportInv
    <2> SUFFICES ASSUME NEW t \in Thread PROVE Holds(t, <<>>)
        BY DEF ImportInv
    <2>1. transcript[t] = <<>> /\ transcript[t] \in Seq(Message)
        BY <1>1, <1>3 DEF DataTypes
    <2>2. Within(transcript[t], <<>>)
        BY <2>1, WithinNothing
    <2> QED
        BY <2>2, HoldsNow
<1>7. RunTypes
    <2>1. /\ "domain" \in AfterDomain \cup {"idle", "domain"} /\ 0 \in Nat
          /\ <<>> \in [SessionIds -> Thread] \cup {<<>>} /\ {} \in SUBSET UserNames /\ FALSE \in BOOLEAN
        OBVIOUS
    <2>2. Idle \in Run
        BY <2>1, RunAt
    <2> QED
        BY <2>2 DEF Init, RunTypes
<1>8. run.phase = "idle"
    BY DEF Init, Idle
<1>9. RunInv /\ CompleteInv
    BY <1>8 DEF RunInv, CompleteInv, AfterDomain, Looking, Remembering
<1> QED
    BY <1>1, <1>2, <1>4, <1>5, <1>6, <1>7, <1>9 DEF MigrationInv, DataInv

LEMMA StutterKeeps == ASSUME MigrationInv, UNCHANGED vars PROVE MigrationInv'
<1>1. UNCHANGED <<rows, transcript, facts, renamed>> /\ run' = run /\ runs' = runs /\ lives' = lives
    BY DEF vars
<1>2. DataInv'
    BY <1>1, SameData DEF MigrationInv
<1>3. RunTypes'
    BY <1>1 DEF MigrationInv, RunTypes
<1>4. /\ users' = users /\ agents' = agents /\ threads' = threads /\ roles' = roles
      /\ sources' = sources /\ links' = links /\ transcript' = transcript /\ facts' = facts
      /\ renamed' = renamed
    BY <1>1 DEF rows
<1>5. Session' = Session /\ Target' = Target
    BY <1>1 DEF Session, Target
<1>6. RunInv'
    <2>1. OfFits(run.of) => OfFits(run.of)'
        BY <1>1, <1>4 DEF OfFits, OfSession, Used, KeyOf
    <2>2. Holds(Target, <<>>) => Holds(Target, <<>>)'
        BY <1>4, <1>5 DEF Holds
    <2> QED
        BY <1>1, <1>5, <2>1, <2>2 DEF MigrationInv, RunInv
<1>7. CompleteInv'
    <2>1. Missing' = Missing /\ (LinksMigrated => LinksMigrated')
        BY <1>4 DEF Missing, LinksMigrated
    <2>2. Conversations => Conversations'
        BY <1>1, <1>4, <1>5 DEF Conversations, Dealt, Before
    <2>3. Namespaces => Namespaces'
        BY <1>1, <1>4 DEF Namespaces, Remembered
    <2> QED
        BY <1>1, <2>1, <2>2, <2>3 DEF MigrationInv, CompleteInv
<1> QED
    BY <1>2, <1>3, <1>6, <1>7 DEF MigrationInv

LEMMA StepKeeps == ASSUME MigrationInv, [Next]_vars PROVE MigrationInv'
<1>1. CASE Start
    BY <1>1, StartKeeps
<1>2. CASE Crash \/ DomainFails \/ ImportRefused
    BY <1>2, AbortKeeps DEF Crash, DomainFails, ImportRefused
<1>3. CASE MigrateDomain
    BY <1>3, MigrateDomainKeeps
<1>4. CASE Look
    BY <1>4, LookKeeps
<1>5. CASE ImportAccepted
    BY <1>5, ImportAcceptedKeeps
<1>6. CASE ImportAppend
    BY <1>6, ImportAppendKeeps
<1>7. CASE MarkRead
    BY <1>7, MarkReadKeeps
<1>8. CASE MarkCommit
    BY <1>8, MarkCommitKeeps
<1>9. CASE ReadFacts
    BY <1>9, ReadFactsKeeps
<1>10. CASE PutFact
    BY <1>10, PutFactKeeps
<1>11. CASE NextUser
    BY <1>11, NextUserKeeps
<1>12. CASE NextAgent
    BY <1>12, NextAgentKeeps
<1>13. CASE Finish
    BY <1>13, FinishKeeps
<1>14. CASE Others
    BY <1>14, OthersKeep
<1>15. CASE UNCHANGED vars
    BY <1>15, StutterKeeps
<1> QED
    BY <1>1, <1>2, <1>3, <1>4, <1>5, <1>6, <1>7, <1>8, <1>9, <1>10, <1>11, <1>12, <1>13, <1>14, <1>15 DEF Next

\* The invariant: the types of the state, what the rows refer to, one thread for each
\* agent, title and date, what a transcript holds, where a run is and what a run that
\* is alone has done by then (migrate, _migrate_conversations, _migrate_memory).
THEOREM MigrationInvariant == Spec => []MigrationInv
<1>1. Init => MigrationInv
    BY InitFits
<1>2. MigrationInv /\ [Next]_vars => MigrationInv'
    BY StepKeeps
<1> QED
    BY <1>1, <1>2, PTL DEF Spec

\* Rows have their types and refer to rows that are there, and no two facts of a
\* namespace are equal when normalised, whatever the legacy tables hold, wherever
\* runs break off and whatever the others write in between.
THEOREM MigrationTypeCorrect == Spec => []MigrationTypeOK
<1>1. MigrationInv => MigrationTypeOK
    BY DEF MigrationInv, DataInv, DataTypes, RowsInv, Used, MigrationTypeOK
<1> QED
    BY <1>1, MigrationInvariant, PTL

\* A thread holds the messages of one session once and whole among live ones, or only
\* live ones, and no two threads that nobody renamed have one agent, title and date.
THEOREM ImportsHappenOnce == Spec => []ImportedOnce
<1>1. MigrationInv => ImportedOnce
    BY DEF MigrationInv, DataInv, ThreadsInv, ImportInv, OfSession, ImportedOnce
<1> QED
    BY <1>1, MigrationInvariant, PTL

LEMMA ConversationThere ==
    ASSUME MigrationInv, run.phase = "done", ~run.disturbed, NEW s \in ToSet(Sessions), MessagesOf[s] # <<>>
    PROVE  ConversationMigrated(s, run.of[s.id])
<1> DEFINE t == run.of[s.id]
<1>1. run.phase \in AfterDomain
    BY DEF AfterDomain
<1>2. t \in Thread /\ OfSession(t, s)
    <2>1. OfFits(run.of) /\ s.id \in SessionIds
        BY <1>1, SessionsTyped DEF MigrationInv, RunInv
    <2> QED
        BY <2>1 DEF OfFits
<1>3. transcript[t] # <<>> /\ Before(t, threads[t].mark)
    <2>1. PICK k \in DOMAIN Sessions : s = Sessions[k]
        BY DEF ToSet
    <2>2. Dealt(k, run.of)
        BY <1>1 DEF MigrationInv, CompleteInv, Conversations, Looking
    <2> QED
        BY <2>1, <2>2 DEF Dealt
<1>4. transcript[t] \in Seq(Message)
    BY <1>2 DEF MigrationInv, DataInv, DataTypes
<1> HIDE DEF t
<1>5. ASSUME Holds(t, <<>>) PROVE transcript[t][1].text = "live"
    <2>1. \A i \in 1 .. Len(transcript[t]) : transcript[t][i].text = "live"
        BY <1>4, <1>5, HoldsNow, WithinNothing
    <2>2. 1 \in 1 .. Len(transcript[t])
        BY <1>3, <1>4
    <2> QED
        BY <2>1, <2>2
<1>6. ASSUME NEW x \in ToSet(Sessions), KeyOf(t) = SessionKey(x, t), KeyOf(t) = SessionKey(s, t)
      PROVE  x \in SameKey(s)
    <2>1. AgentOf(x) = AgentOf(s) /\ x.title = s.title /\ CreatedAt(x, t) = CreatedAt(s, t)
        BY <1>6 DEF SessionKey
    <2>2. /\ t \in Nat
          /\ IF x.at = 0 THEN CreatedAt(x, t) = Late + t ELSE CreatedAt(x, t) = x.at /\ x.at \in 1 .. Late - 1
          /\ IF s.at = 0 THEN CreatedAt(s, t) = Late + t ELSE CreatedAt(s, t) = s.at /\ s.at \in 1 .. Late - 1
        BY <1>2, CreatedTyped
    <2>3. x.at = s.at
        <3>1. \A n \in Nat : n = Late + t => n \notin 1 .. Late - 1
            BY <2>2, MigrationAssumption
        <3>2. Late + t \in Nat
            BY <2>2, MigrationAssumption
        <3>3. CASE x.at = 0 /\ s.at # 0
            BY <2>1, <2>2, <3>1, <3>2, <3>3
        <3>4. CASE x.at # 0 /\ s.at = 0
            BY <2>1, <2>2, <3>1, <3>2, <3>4
        <3>5. CASE x.at # 0 /\ s.at # 0
            BY <2>1, <2>2, <3>5
        <3> QED
            BY <3>3, <3>4, <3>5
    <2> QED
        BY <2>1, <2>3 DEF SameKey
<1>7. \/ t \in renamed \/ transcript[t][1].text = "live"
      \/ \E x \in SameKey(s) : MessagesOf[x] # <<>> /\ Holds(t, MessagesOf[x])
    <2>1. Holds(t, <<>>) \/ \E x \in ToSet(Sessions) : Holds(t, MessagesOf[x]) /\ OfSession(t, x)
        BY <1>2 DEF MigrationInv, DataInv, ImportInv
    <2>2. ASSUME NEW x \in ToSet(Sessions), Holds(t, MessagesOf[x]), OfSession(t, x), t \notin renamed
          PROVE  transcript[t][1].text = "live" \/ \E y \in SameKey(s) : MessagesOf[y] # <<>> /\ Holds(t, MessagesOf[y])
        <3>1. CASE MessagesOf[x] = <<>>
            BY <1>5, <2>2, <3>1
        <3>2. CASE MessagesOf[x] # <<>>
            <4>1. KeyOf(t) = SessionKey(x, t) /\ KeyOf(t) = SessionKey(s, t)
                BY <1>2, <2>2 DEF OfSession
            <4> QED
                BY <1>6, <2>2, <3>2, <4>1
        <3> QED
            BY <3>1, <3>2
    <2> QED
        BY <1>5, <2>1, <2>2
<1>8. ConversationMigrated(s, t)
    BY <1>3, <1>7 DEF ConversationMigrated, Before
<1> QED
    BY <1>8 DEF t

\* A run that ends and was alone has migrated the rows, the links, the conversations
\* and the memory, also what the runs before it left half done.
THEOREM RunsComplete == Spec => []RunCompletes
<1>1. ASSUME MigrationInv, run.phase = "done", ~run.disturbed
      PROVE  /\ Missing = {} /\ LinksMigrated
             /\ \A s \in ToSet(Sessions) : MessagesOf[s] # <<>> => ConversationMigrated(s, run.of[s.id])
             /\ \A a \in ToSet(LegacyAgents), n \in UserNames : MemoryMigrated(a, n)
    <2>1. run.phase \in AfterDomain
        BY <1>1 DEF AfterDomain
    <2>2. Missing = {} /\ LinksMigrated /\ Namespaces
        BY <1>1, <2>1 DEF MigrationInv, CompleteInv
    <2>3. ASSUME NEW a \in ToSet(LegacyAgents), NEW n \in UserNames PROVE MemoryMigrated(a, n)
        <3>1. PICK k \in DOMAIN LegacyAgents : a = LegacyAgents[k]
            BY DEF ToSet
        <3>2. Remembered(k, n, <<>>)
            BY <1>1, <2>2 DEF Namespaces
        <3>3. \A f : ~SaidBy(f, <<>>)
            BY DEF SaidBy, ToSet
        <3> QED
            BY <3>1, <3>2, <3>3 DEF Remembered, MemoryMigrated, Stored, SaidBy
    <2> QED
        BY <1>1, <2>2, <2>3, ConversationThere
<1>2. MigrationInv => RunCompletes
    BY <1>1 DEF RunCompletes
<1> QED
    BY <1>2, MigrationInvariant, PTL

\* A step of a run leaves every user that is there, or gives the owner the address of
\* the command line in place of the synthesized one (_upsert_user).
THEOREM UsersKept == Spec => UsersLeftAlone
<1> DEFINE Kept == \A n \in UserName : Running /\ lives' = lives /\ users[n] # Unused =>
          \/ users'[n] = users[n]
          \/ n = Owner /\ users[n].email = "synthesized"
             /\ users'[n] = [users[n] EXCEPT !.email = "admin"]
<1>1. ASSUME MigrationInv, [Next]_vars PROVE Kept
    <2>1. CASE MigrateDomain
        <3> SUFFICES ASSUME NEW n \in UserName, users[n] # Unused
                     PROVE  \/ users'[n] = users[n]
                            \/ n = Owner /\ users[n].email = "synthesized"
                               /\ users'[n] = [users[n] EXCEPT !.email = "admin"]
            OBVIOUS
        <3>1. users[n] \in UserRow
            BY <1>1 DEF MigrationInv, DataInv, DataTypes
        <3>2. users'[n] = IF n \in UserNames THEN UpsertUser(n) ELSE users[n]
            BY <2>1 DEF MigrateDomain
        <3>3. users[n].email = "synthesized" => users[n] = [users[n] EXCEPT !.email = "synthesized"]
            BY <3>1 DEF UserRow
        <3>4. /\ users[n].email = "synthesized" => UpsertUser(n) = [users[n] EXCEPT !.email = Email(n)]
              /\ users[n].email # "synthesized" => UpsertUser(n) = users[n]
            BY DEF UpsertUser
        <3>5. Email(n) = "synthesized" \/ (n = Owner /\ Email(n) = "admin")
            BY DEF Email
        <3> QED
            BY <3>2, <3>3, <3>4, <3>5
    <2>2. CASE Others
        <3>1. lives' = lives + 1 /\ lives \in Nat
            BY <1>1, <2>2 DEF Others, LiveTurn, Rename, LoginRehash, ChangeEmail, LinkSources, Consolidate,
                              Forget, Live, MigrationInv, RunTypes
        <3>2. lives' # lives
            BY <3>1
        <3> QED
            BY <3>2
    <2>3. CASE \/ Start \/ Crash \/ DomainFails \/ Look \/ ImportRefused \/ ImportAccepted \/ ImportAppend
               \/ MarkRead \/ MarkCommit \/ ReadFacts \/ PutFact \/ NextUser \/ NextAgent \/ Finish
        <3>1. users' = users
            BY <2>3 DEF Start, Crash, DomainFails, Look, ImportRefused, ImportAccepted, ImportAppend,
                        MarkRead, MarkCommit, ReadFacts, PutFact, NextUser, NextAgent, Finish, rows
        <3> QED
            BY <3>1
    <2>4. CASE UNCHANGED vars
        BY <2>4 DEF vars, rows
    <2> QED
        BY <1>1, <2>1, <2>2, <2>3, <2>4 DEF Next
<1>2. MigrationInv /\ [Next]_vars => Kept
    BY <1>1
<1>3. MigrationInv /\ [Next]_vars =>
        [\A n \in UserName : Running /\ lives' = lives /\ users[n] # Unused =>
          \/ users'[n] = users[n]
          \/ n = Owner /\ users[n].email = "synthesized"
             /\ users'[n] = [users[n] EXCEPT !.email = "admin"]]_vars
    BY <1>2
<1> HIDE DEF Kept
<1> QED
    BY <1>3, MigrationInvariant, PTL DEF Spec, UsersLeftAlone
=============================================================================
