----------------------------- MODULE MemoryProofs -----------------------------
(***************************************************************************)
(* A forgetting that ends forgot everything, a forgotten fact stays        *)
(* forgotten and listings keep their order, for any number of facts,       *)
(* pages, requests and consolidations.                                     *)
(*                                                                         *)
(* The first part says what Only leaves of a sequence, by induction on how *)
(* much of it has been seen; induction is the choice of a least counter-   *)
(* example (LeastNumber).  The invariant then says of every task what the  *)
(* pages it has seen still have to do with the store.                      *)
(***************************************************************************)
EXTENDS Memory, SequenceTheorems, WellFoundedInduction, TLAPS

\* The forms of a task.
ReadTask == [at : {"listing"}, to : {"show"}, offset : Nat, got : Seq(Fact), fresh : BOOLEAN]
ForgetTask == [at : {"listing"}, to : {"forget"}, offset : Nat, got : Seq(Fact), kept : SUBSET Fact]
DeleteTask == [at : {"deleting"}, to : {"forget"}, left : Seq(Fact), kept : SUBSET Fact]
ExtractTask == [at : {"listing"}, to : {"persist"}, offset : Nat, got : Seq(Fact),
                facts : SUBSET Fact, upto : Nat]
PutTask == [at : {"putting"}, to : {"persist"}, upto : Nat, left : SUBSET Fact]

StoreOK ==
    /\ order \in Seq(Fact) /\ recent \in Seq(Fact) /\ IsInjective(order) /\ IsInjective(recent)
    /\ ToSet(recent) = Stored
    /\ said \in Seq(SUBSET Fact) /\ position \in 0 .. Len(said)
    /\ banned \subseteq Fact
    /\ shown \in Seq(Fact) /\ IsPrefix(shown, order)

\* A listing that nothing disturbed has every fact of the pages it has read.
Seen(t) == \A i \in 1 .. Len(recent) : i <= t.offset => recent[i] \in ToSet(t.got)
\* What a forgetting must remove is listed, or on a page to come: writing moves
\* facts to later pages, and a deletion by another forgetting gives it up.
Ahead(t) ==
    \A f \in t.kept :
        f \in ToSet(t.got) \/ \E i \in 1 .. Len(recent) : i > t.offset /\ recent[i] = f
RequestOK(t) ==
    \/ t = Idle
    \/ t \in ReadTask /\ (t.fresh => Seen(t))
    \/ t \in ForgetTask /\ Ahead(t)
    \/ t \in DeleteTask /\ t.kept \cap Stored \subseteq ToSet(t.left)
\* No consolidation has a forgotten fact in hand, ...
WorkerOK(t) ==
    \/ t = Idle
    \/ t \in ExtractTask /\ t.upto <= Len(said) /\ t.facts \cap banned = {}
    \/ t \in PutTask /\ t.upto <= Len(said) /\ t.left \cap banned = {}
TasksOK ==
    /\ DOMAIN task = Actor
    /\ \A q \in Request : RequestOK(task[q])
    /\ \A w \in Worker : WorkerOK(task[w])
\* ... nor will one be shown it.
BannedOK == banned \cap Stored = {} /\ banned \cap Pending = {}

MemoryInv == StoreOK /\ TasksOK /\ BannedOK

-----------------------------------------------------------------------------
LEMMA LeastNumber ==
    ASSUME NEW T \in SUBSET Nat, T # {}
    PROVE  \E n \in T : \A m \in T : n <= m
<1> DEFINE R == {ss \in Nat \X Nat : ss[1] < ss[2]}
<1>1. IsWellFoundedOn(R, Nat)
    BY NatLessThanWellFounded DEF OpToRel
<1>2. \A m, n \in Nat : m < n => <<m, n>> \in R
    OBVIOUS
<1> HIDE DEF R
<1>3. PICK n \in T : \A m \in T : <<m, n>> \notin R
    BY <1>1, WFMin
<1>4. ASSUME NEW m \in T PROVE n <= m
    <2>1. m \in Nat /\ n \in Nat
        OBVIOUS
    <2>2. ~(m < n)
        BY <1>2, <1>3, <2>1
    <2> QED
        BY <2>1, <2>2
<1> QED
    BY <1>4

\* What the first n elements of s leave, from what the n - 1 first ones do.
Step(s, T, kept, n) ==
    IF n = 0 THEN <<>> ELSE IF s[n] \in T THEN Append(kept[n - 1], s[n]) ELSE kept[n - 1]
Leaves(s, T, kept) == kept = [n \in 0 .. Len(s) |-> Step(s, T, kept, n)]

\* The recursive definition of Only defines a function.
LEMMA OnlyDefined ==
    ASSUME NEW S, NEW s \in Seq(S), NEW T
    PROVE  \E kept : Leaves(s, T, kept) /\ Only(s, T) = kept[Len(s)]
<1> DEFINE Upto(n) == \E g : g = [i \in 0 .. n |-> Step(s, T, g, i)]
           N == {n \in 0 .. Len(s) : ~Upto(n)}
<1>1. Upto(0)
    <2> DEFINE g == [i \in 0 .. 0 |-> <<>>]
    <2>1. g = [i \in 0 .. 0 |-> Step(s, T, g, i)]
        BY DEF Step
    <2> QED
        BY <2>1
<1>2. ASSUME NEW n \in Nat, Upto(n) PROVE Upto(n + 1)
    <2>1. PICK g : g = [i \in 0 .. n |-> Step(s, T, g, i)]
        BY <1>2
    <2> DEFINE h == [i \in 0 .. n + 1 |-> IF i <= n THEN g[i] ELSE Step(s, T, g, i)]
    <2>2. \A i \in 0 .. n : h[i] = g[i]
        OBVIOUS
    <2>3. ASSUME NEW i \in 0 .. n + 1 PROVE h[i] = Step(s, T, h, i)
        <3>1. CASE i = 0
            <4>1. h[i] = g[i] /\ g[i] = Step(s, T, g, i)
                BY <2>1, <2>2, <3>1
            <4> QED
                BY <3>1, <4>1 DEF Step
        <3>2. CASE i # 0
            <4>1. i - 1 \in 0 .. n /\ h[i - 1] = g[i - 1]
                BY <2>2, <3>2
            <4>2. h[i] = Step(s, T, g, i)
                <5>1. CASE i <= n
                    BY <2>1, <2>2, <5>1
                <5>2. CASE ~(i <= n)
                    BY <5>2
                <5> QED
                    BY <5>1, <5>2
            <4> HIDE DEF h
            <4> QED
                BY <3>2, <4>1, <4>2 DEF Step
        <3> QED
            BY <3>1, <3>2
    <2>4. h = [i \in 0 .. n + 1 |-> h[i]]
        OBVIOUS
    <2> HIDE DEF h
    <2>5. h = [i \in 0 .. n + 1 |-> Step(s, T, h, i)]
        BY <2>3, <2>4
    <2> QED
        BY <2>5
<1> HIDE DEF Upto
<1>3. N = {}
    <2> SUFFICES ASSUME N # {} PROVE FALSE
        OBVIOUS
    <2>1. Len(s) \in Nat /\ N \in SUBSET Nat
        OBVIOUS
    <2>2. PICK n \in N : \A m \in N : n <= m
        BY <2>1, LeastNumber
    <2>3. n # 0 /\ n \in 0 .. Len(s) /\ ~Upto(n)
        BY <1>1
    <2>4. n - 1 \in Nat /\ n - 1 \in 0 .. Len(s) /\ n - 1 \notin N
        BY <2>1, <2>2, <2>3
    <2>5. Upto((n - 1) + 1)
        BY <1>2, <2>4
    <2> QED
        BY <2>3, <2>4, <2>5
<1>4. Upto(Len(s))
    BY <1>3
<1> DEFINE F == CHOOSE kept : kept = [n \in 0 .. Len(s) |->
                    IF n = 0 THEN <<>> ELSE IF s[n] \in T THEN Append(kept[n - 1], s[n]) ELSE kept[n - 1]]
<1>5. F = [n \in 0 .. Len(s) |-> IF n = 0 THEN <<>> ELSE IF s[n] \in T THEN Append(F[n - 1], s[n]) ELSE F[n - 1]]
    BY <1>4 DEF Upto, Step
<1>6. Only(s, T) = F[Len(s)]
    BY DEF Only
<1> HIDE DEF F
<1>7. Leaves(s, T, F)
    BY <1>5 DEF Leaves, Step
<1> QED
    BY <1>6, <1>7

\* Nothing goes when all elements stay.
LEMMA OnlyAll ==
    ASSUME NEW S, NEW s \in Seq(S), NEW T, \A i \in 1 .. Len(s) : s[i] \in T
    PROVE  Only(s, T) = s
<1>1. PICK kept : Leaves(s, T, kept) /\ Only(s, T) = kept[Len(s)]
    BY OnlyDefined
<1>2. Len(s) \in Nat
    OBVIOUS
<1> DEFINE N == {n \in 0 .. Len(s) : kept[n] # SubSeq(s, 1, n)}
<1>3. N = {}
    <2> SUFFICES ASSUME N # {} PROVE FALSE
        OBVIOUS
    <2>1. N \in SUBSET Nat
        BY <1>2
    <2>2. PICK n \in N : \A m \in N : n <= m
        BY <2>1, LeastNumber
    <2>3. n \in 0 .. Len(s) /\ kept[n] = Step(s, T, kept, n)
        BY <1>1, <1>2 DEF Leaves
    <2>4. n # 0
        <3> SUFFICES ASSUME n = 0 PROVE FALSE
            OBVIOUS
        <3>1. kept[n] = <<>> /\ SubSeq(s, 1, n) = <<>>
            BY <2>3 DEF Step
        <3> QED
            BY <2>2, <3>1
    <2>5. n \in 1 .. Len(s) /\ n - 1 \in 0 .. Len(s) /\ n - 1 \notin N
        BY <1>2, <2>2, <2>3, <2>4
    <2>6. kept[n - 1] = SubSeq(s, 1, n - 1)
        BY <2>5
    <2>7. kept[n] = Append(SubSeq(s, 1, n - 1), s[n])
        BY <2>3, <2>4, <2>5, <2>6 DEF Step
    <2>8. SubSeq(s, 1, n) = Append(SubSeq(s, 1, n - 1), s[n])
        BY <1>2, <2>5
    <2> QED
        BY <2>2, <2>7, <2>8
<1>4. Only(s, T) = SubSeq(s, 1, Len(s))
    BY <1>1, <1>2, <1>3
<1> QED
    BY <1>4

\* s without its k-th element.
Without(s, k) == [j \in 1 .. Len(s) - 1 |-> IF j < k THEN s[j] ELSE s[j + 1]]

\* When one element goes, those after it move up.
LEMMA OnlyOthers ==
    ASSUME NEW S, NEW s \in Seq(S), NEW T, NEW k \in 1 .. Len(s),
           \A i \in 1 .. Len(s) : s[i] \in T <=> i # k
    PROVE  Only(s, T) = Without(s, k)
<1>1. PICK kept : Leaves(s, T, kept) /\ Only(s, T) = kept[Len(s)]
    BY OnlyDefined
<1>2. Len(s) \in Nat
    OBVIOUS
<1> DEFINE First(n) == IF n < k THEN SubSeq(s, 1, n)
                      ELSE [j \in 1 .. n - 1 |-> IF j < k THEN s[j] ELSE s[j + 1]]
           N == {n \in 0 .. Len(s) : kept[n] # First(n)}
<1>3. N = {}
    <2> SUFFICES ASSUME N # {} PROVE FALSE
        OBVIOUS
    <2>1. N \in SUBSET Nat
        BY <1>2
    <2>2. PICK n \in N : \A m \in N : n <= m
        BY <2>1, LeastNumber
    <2>3. n \in 0 .. Len(s) /\ kept[n] = Step(s, T, kept, n)
        BY <1>1, <1>2 DEF Leaves
    <2>4. n # 0
        <3> SUFFICES ASSUME n = 0 PROVE FALSE
            OBVIOUS
        <3>1. kept[n] = <<>> /\ First(n) = <<>>
            BY <2>3 DEF Step
        <3> QED
            BY <2>2, <3>1
    <2>5. n \in 1 .. Len(s) /\ n - 1 \in 0 .. Len(s) /\ n - 1 \notin N
        <3> HIDE DEF N
        <3>1. n \in 1 .. Len(s) /\ n - 1 \in 0 .. Len(s) /\ ~(n <= n - 1)
            BY <1>2, <2>3, <2>4
        <3> QED
            BY <2>2, <3>1
    <2>6. kept[n - 1] = First(n - 1)
        BY <2>5
    <2>7. kept[n] = First(n)
        <3>1. CASE n < k
            <4>1. kept[n] = Append(SubSeq(s, 1, n - 1), s[n])
                BY <1>2, <2>3, <2>4, <2>5, <2>6, <3>1 DEF Step
            <4> QED
                BY <1>2, <2>5, <3>1, <4>1
        <3>2. CASE n = k
            <4>1. kept[n] = SubSeq(s, 1, n - 1)
                BY <1>2, <2>3, <2>4, <2>5, <2>6, <3>2 DEF Step
            <4>2. SubSeq(s, 1, n - 1) = [j \in 1 .. n - 1 |-> IF j < k THEN s[j] ELSE s[j + 1]]
                BY <1>2, <2>5, <3>2
            <4> QED
                BY <3>2, <4>1, <4>2
        <3>3. CASE n > k
            <4> DEFINE a == [j \in 1 .. n - 2 |-> IF j < k THEN s[j] ELSE s[j + 1]]
                       b == [j \in 1 .. n - 1 |-> IF j < k THEN s[j] ELSE s[j + 1]]
            <4>1. kept[n] = Append(a, s[n])
                BY <1>2, <2>3, <2>4, <2>5, <2>6, <3>3 DEF Step
            <4>2. a \in Seq(S) /\ Len(a) = n - 2 /\ b \in Seq(S) /\ Len(b) = n - 1
                <5>1. n - 2 \in Nat /\ n - 1 \in Nat /\ k \in Nat
                    BY <1>2, <2>5, <3>3
                <5>2. \A j \in 1 .. n - 1 : (IF j < k THEN s[j] ELSE s[j + 1]) \in S
                    BY <1>2, <2>5, <5>1
                <5>3. a \in [1 .. n - 2 -> S] /\ b \in [1 .. n - 1 -> S]
                    BY <5>1, <5>2
                <5>4. \A m \in Nat : \A g \in [1 .. m -> S] : g \in Seq(S) /\ Len(g) = m
                    OBVIOUS
                <5> HIDE DEF a, b
                <5> QED
                    BY <5>1, <5>3, <5>4
            <4>3. Append(a, s[n]) = b
                <5>1. Append(a, s[n]) \in Seq(S) /\ Len(Append(a, s[n])) = n - 1
                    <6>1. s[n] \in S /\ n \in Nat /\ k \in Nat
                        BY <1>2, <2>5
                    <6> HIDE DEF a
                    <6>2. a \in Seq(S) /\ Len(a) = n - 2
                        BY <4>2
                    <6>3. Append(a, s[n]) \in Seq(S) /\ Len(Append(a, s[n])) = Len(a) + 1
                        BY <6>1, <6>2, AppendProperties
                    <6> QED
                        BY <6>1, <6>2, <6>3
                <5>2. ASSUME NEW j \in 1 .. n - 1 PROVE Append(a, s[n])[j] = b[j]
                    <6>1. CASE j = n - 1
                        <7>1. Append(a, s[n])[j] = s[n] /\ b[j] = s[j + 1]
                            BY <1>2, <2>5, <3>3, <4>2, <6>1
                        <7> QED
                            BY <2>5, <6>1, <7>1
                    <6>2. CASE j # n - 1
                        <7>1. j \in 1 .. n - 2
                            BY <1>2, <2>5, <6>2
                        <7>2. Append(a, s[n])[j] = a[j]
                            BY <4>2, <7>1
                        <7>3. a[j] = b[j]
                            BY <7>1, <1>2, <2>5
                        <7> HIDE DEF a, b
                        <7> QED
                            BY <7>2, <7>3
                    <6> QED
                        BY <6>1, <6>2
                <5> HIDE DEF a, b
                <5> QED
                    BY <4>2, <5>1, <5>2, SeqEqual
            <4> QED
                BY <3>3, <4>1, <4>3
        <3> QED
            BY <1>2, <2>5, <3>1, <3>2, <3>3
    <2> QED
        BY <2>2, <2>7
<1>4. Len(s) >= k
    BY <1>2
<1>5. First(Len(s)) = Without(s, k)
    BY <1>2, <1>4 DEF Without
<1> HIDE DEF First
<1> QED
    BY <1>1, <1>2, <1>3, <1>5

\* r is what is left of the facts s of a store when f goes: the others stay and move
\* up a place at most.
Drops(r, s, f) ==
    /\ r \in Seq(Fact) /\ IsInjective(r) /\ ToSet(r) = ToSet(s) \ {f}
    /\ f \notin ToSet(s) => r = s
    /\ \A i \in 1 .. Len(s) : s[i] # f => \E j \in 1 .. Len(r) : j >= i - 1 /\ r[j] = s[i]

LEMMA Removed ==
    ASSUME NEW s \in Seq(Fact), IsInjective(s), NEW f
    PROVE  Drops(Only(s, Fact \ {f}), s, f)
<1>0. Len(s) \in Nat /\ \A i \in 1 .. Len(s) : s[i] \in Fact
    OBVIOUS
<1>1. CASE \A i \in 1 .. Len(s) : s[i] # f
    <2>1. Only(s, Fact \ {f}) = s
        BY <1>0, <1>1, OnlyAll
    <2>2. ToSet(s) \ {f} = ToSet(s)
        BY <1>1 DEF ToSet
    <2>3. \A i \in 1 .. Len(s) : i >= i - 1
        BY <1>0
    <2>4. Drops(s, s, f)
        BY <2>2, <2>3 DEF Drops
    <2> QED
        BY <2>1, <2>4
<1>2. CASE \E k \in 1 .. Len(s) : s[k] = f
    <2>1. PICK k \in 1 .. Len(s) : s[k] = f
        BY <1>2
    <2>2. PICK r : r = Only(s, Fact \ {f})
        OBVIOUS
    <2>3. r = Without(s, k)
        <3>1. \A i \in 1 .. Len(s) : s[i] \in Fact \ {f} <=> i # k
            BY <1>0, <2>1 DEF IsInjective
        <3> QED
            BY <2>2, <3>1, OnlyOthers
    <2>4. k \in Nat /\ Len(s) - 1 \in Nat
        BY <1>0, <2>1
    <2>5. \A j \in 1 .. Len(s) - 1 : r[j] \in Fact /\ r[j] = IF j < k THEN s[j] ELSE s[j + 1]
        BY <1>0, <2>3, <2>4 DEF Without
    <2>6. r \in [1 .. Len(s) - 1 -> Fact]
        BY <2>3, <2>5 DEF Without
    <2>7. r \in Seq(Fact) /\ Len(r) = Len(s) - 1 /\ DOMAIN r = 1 .. Len(s) - 1
        BY <2>4, <2>6
    <2>8. \A i \in 1 .. Len(s) : s[i] # f => \E j \in 1 .. Len(r) : j >= i - 1 /\ r[j] = s[i]
        <3> SUFFICES ASSUME NEW i \in 1 .. Len(s), s[i] # f
                     PROVE  \E j \in 1 .. Len(r) : j >= i - 1 /\ r[j] = s[i]
            OBVIOUS
        <3>1. CASE i < k
            <4>1. i \in 1 .. Len(s) - 1 /\ r[i] = s[i]
                BY <2>1, <2>4, <2>5, <3>1
            <4> QED
                BY <2>7, <4>1
        <3>2. CASE i > k
            <4>1. i - 1 \in 1 .. Len(s) - 1 /\ r[i - 1] = s[i]
                BY <2>1, <2>4, <2>5, <3>2
            <4> QED
                BY <2>7, <4>1
        <3> QED
            BY <2>1, <2>4, <3>1, <3>2
    <2>9. \A j \in 1 .. Len(r) : \E i \in 1 .. Len(s) : i # k /\ r[j] = s[i]
        <3> SUFFICES ASSUME NEW j \in 1 .. Len(r) PROVE \E i \in 1 .. Len(s) : i # k /\ r[j] = s[i]
            OBVIOUS
        <3>1. j \in 1 .. Len(s) /\ j + 1 \in 1 .. Len(s) /\ r[j] = IF j < k THEN s[j] ELSE s[j + 1]
            BY <2>4, <2>5, <2>7
        <3> QED
            BY <2>4, <3>1
    <2>10. ToSet(r) = ToSet(s) \ {f}
        <3>1. ASSUME NEW x \in ToSet(r) PROVE x \in ToSet(s) /\ x # f
            <4>1. PICK j \in 1 .. Len(r) : x = r[j]
                BY <2>7 DEF ToSet
            <4>2. PICK i \in 1 .. Len(s) : i # k /\ x = s[i]
                BY <2>9, <4>1
            <4> QED
                BY <2>1, <4>2 DEF ToSet, IsInjective
        <3>2. ASSUME NEW x \in ToSet(s), x # f PROVE x \in ToSet(r)
            BY <2>7, <2>8, <3>2 DEF ToSet
        <3> QED
            BY <3>1, <3>2
    <2>11. IsInjective(r)
        BY <1>0, <2>1, <2>4, <2>5, <2>7 DEF IsInjective
    <2>12. f \in ToSet(s)
        BY <2>1 DEF ToSet
    <2>13. Drops(r, s, f)
        BY <2>7, <2>8, <2>10, <2>11, <2>12 DEF Drops
    <2> QED
        BY <2>2, <2>13
<1> QED
    BY <1>1, <1>2

LEMMA Elements ==
    ASSUME NEW S, NEW s \in Seq(S)
    PROVE  /\ ToSet(s) \subseteq S /\ \A i \in 1 .. Len(s) : s[i] \in ToSet(s)
           /\ \A x \in ToSet(s) : \E i \in 1 .. Len(s) : s[i] = x
<1>1. DOMAIN s = 1 .. Len(s) /\ \A i \in 1 .. Len(s) : s[i] \in S
    OBVIOUS
<1> QED
    BY <1>1 DEF ToSet

LEMMA ConcatSet ==
    ASSUME NEW S, NEW s \in Seq(S), NEW t \in Seq(S)
    PROVE  s \o t \in Seq(S) /\ ToSet(s \o t) = ToSet(s) \cup ToSet(t)
<1>1. /\ s \o t \in Seq(S) /\ Len(s \o t) = Len(s) + Len(t) /\ Len(s) \in Nat /\ Len(t) \in Nat
      /\ \A i \in 1 .. Len(s) + Len(t) : (s \o t)[i] = IF i <= Len(s) THEN s[i] ELSE t[i - Len(s)]
    BY ConcatProperties
<1>2. \A i \in 1 .. Len(s) : (s \o t)[i] = s[i] /\ i \in 1 .. Len(s) + Len(t)
    BY <1>1
<1>3. \A i \in 1 .. Len(t) : (s \o t)[Len(s) + i] = t[i] /\ Len(s) + i \in 1 .. Len(s) + Len(t)
    BY <1>1
<1>4. ASSUME NEW x \in ToSet(s \o t) PROVE x \in ToSet(s) \cup ToSet(t)
    <2>1. PICK i \in 1 .. Len(s) + Len(t) : x = (s \o t)[i]
        BY <1>1 DEF ToSet
    <2>2. CASE i <= Len(s)
        BY <1>1, <2>1, <2>2 DEF ToSet
    <2>3. CASE ~(i <= Len(s))
        <3>1. i - Len(s) \in 1 .. Len(t) /\ x = t[i - Len(s)]
            BY <1>1, <2>1, <2>3
        <3> QED
            BY <3>1 DEF ToSet
    <2> QED
        BY <2>2, <2>3
<1>5. ASSUME NEW x \in ToSet(s) \cup ToSet(t) PROVE x \in ToSet(s \o t)
    <2>1. DOMAIN (s \o t) = 1 .. Len(s) + Len(t)
        BY <1>1
    <2>2. ASSUME NEW i \in 1 .. Len(s) PROVE s[i] \in ToSet(s \o t)
        BY <1>2, <2>1 DEF ToSet
    <2>3. ASSUME NEW i \in 1 .. Len(t) PROVE t[i] \in ToSet(s \o t)
        BY <1>3, <2>1 DEF ToSet
    <2>4. DOMAIN s = 1 .. Len(s) /\ DOMAIN t = 1 .. Len(t)
        OBVIOUS
    <2>5. CASE x \in ToSet(s)
        <3>1. PICK i \in 1 .. Len(s) : x = s[i]
            BY <2>4, <2>5 DEF ToSet
        <3> QED
            BY <2>2, <3>1
    <2>6. CASE x \in ToSet(t)
        <3>1. PICK i \in 1 .. Len(t) : x = t[i]
            BY <2>4, <2>6 DEF ToSet
        <3> QED
            BY <2>3, <3>1
    <2> QED
        BY <2>5, <2>6
<1> QED
    BY <1>1, <1>4, <1>5

\* A page has what is at its places, and the last one all that is left.
LEMMA PageOf ==
    ASSUME StoreOK, NEW offset \in Nat
    PROVE  /\ Page(offset) \in Seq(Fact)
           /\ \A i \in 1 .. Len(recent) : i > offset /\ i <= offset + PageSize
                                         => recent[i] \in ToSet(Page(offset))
           /\ IsLast(Page(offset)) => \A i \in 1 .. Len(recent) : i > offset => recent[i] \in ToSet(Page(offset))
<1> DEFINE a == offset + PageSize
           b == Len(recent)
           m == IF a <= b THEN a ELSE b
<1>1. a \in Nat /\ b \in Nat /\ recent \in Seq(Fact) /\ PageSize \in Nat \ {0}
    BY MemoryAssumption DEF StoreOK
<1>2. Min({a, b}) = m
    BY <1>1 DEF Min
<1>3. Page(offset) = SubSeq(recent, offset + 1, m)
    BY <1>2 DEF Page
<1>4. PICK p : p = Page(offset)
    OBVIOUS
<1>5. CASE offset < b
    <2>1. /\ p \in Seq(Fact) /\ Len(p) = m - offset /\ m \in Nat /\ m > offset
          /\ \A i \in 1 .. m - offset : p[i] = recent[offset + i]
        BY <1>1, <1>3, <1>4, <1>5
    <2>2. ASSUME NEW i \in 1 .. b, i > offset, i <= m PROVE recent[i] \in ToSet(p)
        <3>1. i \in Nat /\ i - offset \in 1 .. m - offset /\ offset + (i - offset) = i
            BY <1>1, <2>1, <2>2
        <3>2. p[i - offset] = recent[i]
            BY <2>1, <3>1
        <3> QED
            BY <2>1, <3>1, <3>2 DEF ToSet
    <2>3. IsLast(p) => m = b
        BY <1>1, <2>1 DEF IsLast
    <2> QED
        BY <1>1, <1>4, <2>1, <2>2, <2>3
<1>6. CASE ~(offset < b)
    <2>1. p \in Seq(Fact)
        BY <1>1, <1>3, <1>4, <1>6
    <2>2. \A i \in 1 .. b : ~(i > offset)
        BY <1>1, <1>6
    <2> QED
        BY <1>4, <2>1, <2>2
<1> QED
    BY <1>5, <1>6

-----------------------------------------------------------------------------
LEMMA MemoryInitially == Init => MemoryInv
<1> SUFFICES ASSUME Init PROVE MemoryInv
    OBVIOUS
<1>1. order = <<>> /\ recent = <<>> /\ said = <<>> /\ shown = <<>> /\ position = 0 /\ banned = {}
    BY DEF Init
<1>2. Stored = {} /\ ToSet(recent) = {}
    BY <1>1 DEF Stored, ToSet
<1>3. StoreOK
    <2>1. IsInjective(order) /\ IsInjective(recent)
        BY <1>1 DEF IsInjective
    <2>2. IsPrefix(shown, order)
        BY <1>1 DEF IsPrefix
    <2> QED
        BY <1>1, <1>2, <2>1, <2>2 DEF StoreOK
<1>4. TasksOK
    BY DEF Init, TasksOK, RequestOK, WorkerOK, Actor
<1> QED
    BY <1>1, <1>3, <1>4 DEF MemoryInv, BannedOK

\* A step of one task that leaves the store and the turns alone.
LEMMA OneTask ==
    ASSUME MemoryInv, NEW a \in Actor, NEW t, task' = [task EXCEPT ![a] = t],
           UNCHANGED <<order, recent, said, position, banned>>,
           shown' = shown \/ shown' = order,
           a \in Request => RequestOK(t), a \in Worker => WorkerOK(t)
    PROVE  MemoryInv'
<1>1. Stored' = Stored /\ Pending' = Pending
    BY DEF Stored, Pending
<1>2. \A u : RequestOK(u) => RequestOK(u)'
    BY <1>1 DEF RequestOK, Seen, Ahead
<1>3. \A u : WorkerOK(u) => WorkerOK(u)'
    BY DEF WorkerOK
<1>4. DOMAIN task' = Actor
    BY DEF MemoryInv, TasksOK
<1>5. ASSUME NEW q \in Request PROVE RequestOK(task[q])'
    <2>1. PICK u : u = task'[q]
        OBVIOUS
    <2>2. RequestOK(u)
        BY <2>1 DEF MemoryInv, TasksOK, Actor
    <2>3. RequestOK(u)'
        BY <1>2, <2>2
    <2> QED
        BY <2>1, <2>3
<1>6. ASSUME NEW w \in Worker PROVE WorkerOK(task[w])'
    <2>1. PICK u : u = task'[w]
        OBVIOUS
    <2>2. WorkerOK(u)
        BY <2>1 DEF MemoryInv, TasksOK, Actor
    <2>3. WorkerOK(u)'
        BY <1>3, <2>2
    <2> QED
        BY <2>1, <2>3
<1>7. TasksOK'
    BY <1>4, <1>5, <1>6 DEF TasksOK, Actor
<1>8. shown' \in Seq(Fact) /\ IsPrefix(shown, order)'
    <2>1. IsPrefix(order, order)
        BY DEF IsPrefix, MemoryInv, StoreOK
    <2> QED
        BY <2>1 DEF MemoryInv, StoreOK, IsPrefix
<1>9. StoreOK'
    BY <1>1, <1>8 DEF MemoryInv, StoreOK
<1> QED
    BY <1>1, <1>7, <1>9 DEF MemoryInv, BannedOK

\* Where a task is tells its form.
LEMMA RequestForms ==
    ASSUME MemoryInv, NEW q \in Request
    PROVE  /\ task[q].at = "listing" => \/ task[q] \in ReadTask /\ (task[q].fresh => Seen(task[q]))
                                        \/ task[q] \in ForgetTask /\ Ahead(task[q])
           /\ task[q].at = "deleting" => /\ task[q] \in DeleteTask
                                         /\ task[q].kept \cap Stored \subseteq ToSet(task[q].left)
           /\ task[q].at # "putting"
<1>1. RequestOK(task[q])
    BY DEF MemoryInv, TasksOK
<1>2. Idle.at = "idle"
    BY DEF Idle
<1>3. \A t \in ReadTask \cup ForgetTask : t.at = "listing"
    BY DEF ReadTask, ForgetTask
<1>4. \A t \in DeleteTask : t.at = "deleting"
    BY DEF DeleteTask
<1> QED
    BY <1>1, <1>2, <1>3, <1>4 DEF RequestOK

LEMMA WorkerForms ==
    ASSUME MemoryInv, NEW w \in Worker
    PROVE  /\ task[w].at = "listing" => /\ task[w] \in ExtractTask /\ task[w].upto <= Len(said)
                                        /\ task[w].facts \cap banned = {}
           /\ task[w].at = "putting" => /\ task[w] \in PutTask /\ task[w].upto <= Len(said)
                                        /\ task[w].left \cap banned = {}
           /\ task[w].at # "deleting"
<1>1. WorkerOK(task[w])
    BY DEF MemoryInv, TasksOK
<1>2. Idle.at = "idle"
    BY DEF Idle
<1>3. \A t \in ExtractTask : t.at = "listing"
    BY DEF ExtractTask
<1>4. \A t \in PutTask : t.at = "putting"
    BY DEF PutTask
<1> QED
    BY <1>1, <1>2, <1>3, <1>4 DEF WorkerOK

LEMMA ListPagePreserves == ASSUME MemoryInv, NEW a \in Actor, ListPage(a) PROVE MemoryInv'
<1>1. task[a].at = "listing" /\ UNCHANGED <<order, recent, said, position, shown, banned>>
    BY DEF ListPage
<1>2. PICK p : p = Page(task[a].offset)
    OBVIOUS
<1>3. PICK t : t = [task[a] EXCEPT !.offset = @ + PageSize, !.got = @ \o p]
    OBVIOUS
<1>4. task' = [task EXCEPT ![a] = t]
    BY <1>2, <1>3 DEF ListPage, MemoryInv, TasksOK
<1>5. PageSize \in Nat /\ StoreOK
    BY MemoryAssumption DEF MemoryInv
<1>6. ASSUME task[a].offset \in Nat, task[a].got \in Seq(Fact)
      PROVE  /\ task[a].offset + PageSize \in Nat /\ task[a].got \o p \in Seq(Fact)
             /\ ToSet(task[a].got \o p) = ToSet(task[a].got) \cup ToSet(p)
             /\ \A i \in 1 .. Len(recent) :
                    i > task[a].offset /\ i <= task[a].offset + PageSize => recent[i] \in ToSet(p)
    <2>1. /\ p \in Seq(Fact)
          /\ \A i \in 1 .. Len(recent) :
                 i > task[a].offset /\ i <= task[a].offset + PageSize => recent[i] \in ToSet(p)
        BY <1>2, <1>5, <1>6, PageOf
    <2>2. /\ task[a].got \o p \in Seq(Fact)
          /\ ToSet(task[a].got \o p) = ToSet(task[a].got) \cup ToSet(p)
        BY <1>6, <2>1, ConcatSet
    <2> QED
        BY <1>5, <1>6, <2>1, <2>2
<1>7. ASSUME a \in Request, task[a] \in ReadTask, task[a].fresh => Seen(task[a]) PROVE RequestOK(t)
    <2>1. /\ t \in ReadTask /\ t.fresh = task[a].fresh
          /\ t.offset = task[a].offset + PageSize /\ t.got = task[a].got \o p
        BY <1>3, <1>6, <1>7 DEF ReadTask
    <2>2. ASSUME t.fresh, NEW i \in 1 .. Len(recent), i <= t.offset PROVE recent[i] \in ToSet(t.got)
        <3>1. task[a].offset \in Nat /\ task[a].got \in Seq(Fact)
            BY <1>7 DEF ReadTask
        <3>2. i <= task[a].offset => recent[i] \in ToSet(task[a].got)
            BY <1>7, <2>1, <2>2 DEF Seen
        <3>3. i <= task[a].offset \/ i > task[a].offset
            BY <3>1
        <3> QED
            BY <1>6, <2>1, <2>2, <3>1, <3>2, <3>3
    <2> QED
        BY <2>1, <2>2 DEF RequestOK, Seen
<1>8. ASSUME a \in Request, task[a] \in ForgetTask, Ahead(task[a]) PROVE RequestOK(t)
    <2>1. /\ t \in ForgetTask /\ t.kept = task[a].kept
          /\ t.offset = task[a].offset + PageSize /\ t.got = task[a].got \o p
        BY <1>3, <1>6, <1>8 DEF ForgetTask
    <2>2. task[a].offset \in Nat /\ task[a].got \in Seq(Fact)
        BY <1>8 DEF ForgetTask
    <2>3. ASSUME NEW f \in t.kept
          PROVE  f \in ToSet(t.got) \/ \E i \in 1 .. Len(recent) : i > t.offset /\ recent[i] = f
        <3>1. CASE f \in ToSet(task[a].got)
            BY <1>6, <2>1, <2>2, <3>1
        <3>2. CASE \E i \in 1 .. Len(recent) : i > task[a].offset /\ recent[i] = f
            <4>1. PICK i \in 1 .. Len(recent) : i > task[a].offset /\ recent[i] = f
                BY <3>2
            <4>2. i <= task[a].offset + PageSize \/ i > task[a].offset + PageSize
                BY <1>5, <2>2
            <4> QED
                BY <1>6, <2>1, <2>2, <4>1, <4>2
        <3> QED
            BY <1>8, <2>1, <3>1, <3>2 DEF Ahead
    <2> QED
        BY <2>1, <2>3 DEF RequestOK, Ahead
<1>9. ASSUME a \in Worker PROVE WorkerOK(t)
    <2>1. task[a] \in ExtractTask /\ task[a].upto <= Len(said) /\ task[a].facts \cap banned = {}
        BY <1>1, <1>9, WorkerForms
    <2>2. t \in ExtractTask /\ t.upto = task[a].upto /\ t.facts = task[a].facts
        BY <1>3, <1>6, <2>1 DEF ExtractTask
    <2> QED
        BY <2>1, <2>2 DEF WorkerOK
<1>10. a \in Request => RequestOK(t)
    BY <1>1, <1>7, <1>8, RequestForms
<1> QED
    BY <1>1, <1>4, <1>9, <1>10, OneTask

LEMMA StartReadPreserves == ASSUME MemoryInv, NEW q \in Request, StartRead(q) PROVE MemoryInv'
<1>1. PICK t : t = [at |-> "listing", to |-> "show", offset |-> 0, got |-> <<>>, fresh |-> TRUE]
    OBVIOUS
<1>2. task' = [task EXCEPT ![q] = t] /\ UNCHANGED <<order, recent, said, position, shown, banned>>
    BY <1>1 DEF StartRead
<1>3. t \in ReadTask /\ t.offset = 0
    BY <1>1 DEF ReadTask
<1>4. Seen(t)
    BY <1>3 DEF Seen, MemoryInv, StoreOK
<1>5. RequestOK(t) /\ q \in Actor /\ q \notin Worker
    BY <1>3, <1>4, MemoryAssumption DEF RequestOK, Actor
<1> QED
    BY <1>2, <1>5, OneTask

LEMMA StartForgetPreserves == ASSUME MemoryInv, NEW q \in Request, StartForget(q) PROVE MemoryInv'
<1>1. PICK t : t = [at |-> "listing", to |-> "forget", offset |-> 0, got |-> <<>>, kept |-> Stored]
    OBVIOUS
<1>2. task' = [task EXCEPT ![q] = t] /\ UNCHANGED <<order, recent, said, position, shown, banned>>
    BY <1>1 DEF StartForget
<1>3. Stored \subseteq Fact /\ Stored = ToSet(recent) /\ recent \in Seq(Fact)
    <2>1. Stored = ToSet(recent) /\ recent \in Seq(Fact)
        BY DEF MemoryInv, StoreOK
    <2> QED
        BY <2>1, Elements
<1>4. t \in ForgetTask /\ t.offset = 0 /\ t.kept = ToSet(recent)
    BY <1>1, <1>3 DEF ForgetTask
<1>5. Ahead(t)
    <2>1. \A f \in ToSet(recent) : \E i \in 1 .. Len(recent) : recent[i] = f
        BY <1>3, Elements
    <2>2. \A i \in 1 .. Len(recent) : i > 0
        BY <1>3
    <2> QED
        BY <1>4, <2>1, <2>2 DEF Ahead
<1>6. RequestOK(t) /\ q \in Actor /\ q \notin Worker
    BY <1>4, <1>5, MemoryAssumption DEF RequestOK, Actor
<1> QED
    BY <1>2, <1>6, OneTask

\* What a last page leaves out of a listing has been seen before.
LEMMA ListedFacts ==
    ASSUME MemoryInv, NEW a \in Actor, IsLast(Page(task[a].offset)),
           task[a].offset \in Nat, task[a].got \in Seq(Fact)
    PROVE  /\ Listed(a) \in Seq(Fact) /\ ToSet(task[a].got) \subseteq ToSet(Listed(a))
           /\ \A i \in 1 .. Len(recent) : i > task[a].offset => recent[i] \in ToSet(Listed(a))
<1>1. PICK p : p = Page(task[a].offset)
    OBVIOUS
<1>2. p \in Seq(Fact) /\ \A i \in 1 .. Len(recent) : i > task[a].offset => recent[i] \in ToSet(p)
    BY <1>1, PageOf DEF MemoryInv
<1>3. /\ task[a].got \o p \in Seq(Fact)
      /\ ToSet(task[a].got \o p) = ToSet(task[a].got) \cup ToSet(p)
    BY <1>2, ConcatSet
<1> QED
    BY <1>1, <1>2, <1>3 DEF Listed

\* read_facts shows the whole store when nothing disturbed it, in its order.
LEMMA ShowsStore ==
    ASSUME MemoryInv, NEW q \in Request, Show(q)
    PROVE  shown' = shown \/ shown' = order
<1>1. task[q].at = "listing" /\ task[q].to = "show" /\ IsLast(Page(task[q].offset))
    BY DEF Show, LastPage
<1>2. task[q] \in ReadTask /\ (task[q].fresh => Seen(task[q]))
    BY <1>1, RequestForms DEF ForgetTask
<1>3. CASE task[q].fresh
    <2>1. task[q].offset \in Nat /\ task[q].got \in Seq(Fact) /\ q \in Actor
        BY <1>2 DEF ReadTask, Actor
    <2>2. /\ ToSet(task[q].got) \subseteq ToSet(Listed(q))
          /\ \A i \in 1 .. Len(recent) : i > task[q].offset => recent[i] \in ToSet(Listed(q))
        BY <1>1, <2>1, ListedFacts
    <2>3. recent \in Seq(Fact) /\ order \in Seq(Fact) /\ ToSet(recent) = ToSet(order)
        BY DEF MemoryInv, StoreOK, Stored
    <2>4. \A i \in 1 .. Len(recent) : recent[i] \in ToSet(Listed(q))
        <3> TAKE i \in 1 .. Len(recent)
        <3>1. i <= task[q].offset \/ i > task[q].offset
            BY <2>1, <2>3
        <3> QED
            BY <1>2, <1>3, <2>2, <3>1 DEF Seen
    <2>5. \A i \in 1 .. Len(order) : order[i] \in ToSet(Listed(q))
        <3> TAKE i \in 1 .. Len(order)
        <3>1. order[i] \in ToSet(recent)
            BY <2>3, Elements
        <3>2. PICK j \in 1 .. Len(recent) : recent[j] = order[i]
            BY <2>3, <3>1, Elements
        <3> QED
            BY <2>4, <3>2
    <2>6. InOrder(Listed(q)) = order
        BY <2>3, <2>5, OnlyAll DEF InOrder
    <2> QED
        BY <1>3, <2>6 DEF Show
<1>4. CASE ~task[q].fresh
    BY <1>4 DEF Show
<1> QED
    BY <1>3, <1>4

\* A task that ends.
LEMMA EndPreserves ==
    ASSUME MemoryInv, NEW a \in Actor, task' = [task EXCEPT ![a] = Idle],
           UNCHANGED <<order, recent, said, position, banned>>, shown' = shown \/ shown' = order
    PROVE  MemoryInv'
<1>1. RequestOK(Idle) /\ WorkerOK(Idle)
    BY DEF RequestOK, WorkerOK
<1> QED
    BY <1>1, OneTask

LEMMA ShowPreserves == ASSUME MemoryInv, NEW q \in Request, Show(q) PROVE MemoryInv'
<1>1. task' = [task EXCEPT ![q] = Idle] /\ UNCHANGED <<order, recent, said, position, banned>> /\ q \in Actor
    BY DEF Show, Actor
<1> QED
    BY <1>1, ShowsStore, EndPreserves

LEMMA LeavePreserves == ASSUME MemoryInv, NEW q \in Request, Leave(q) PROVE MemoryInv'
<1>1. task' = [task EXCEPT ![q] = Idle] /\ UNCHANGED <<order, recent, said, position, shown, banned>> /\ q \in Actor
    BY DEF Leave, Actor
<1> QED
    BY <1>1, EndPreserves

LEMMA CrashPreserves == ASSUME MemoryInv, NEW w \in Worker, Crash(w) PROVE MemoryInv'
<1>1. task' = [task EXCEPT ![w] = Idle] /\ UNCHANGED <<order, recent, said, position, shown, banned>> /\ w \in Actor
    BY DEF Crash, Actor
<1> QED
    BY <1>1, EndPreserves

LEMMA ListForgetPreserves == ASSUME MemoryInv, NEW q \in Request, ListForget(q) PROVE MemoryInv'
<1>1. task[q].at = "listing" /\ task[q].to = "forget" /\ IsLast(Page(task[q].offset))
    BY DEF ListForget, LastPage
<1>2. task[q] \in ForgetTask /\ Ahead(task[q])
    BY <1>1, RequestForms DEF ReadTask
<1>3. task[q].offset \in Nat /\ task[q].got \in Seq(Fact) /\ task[q].kept \in SUBSET Fact /\ q \in Actor
    BY <1>2 DEF ForgetTask, Actor
<1>4. /\ Listed(q) \in Seq(Fact) /\ ToSet(task[q].got) \subseteq ToSet(Listed(q))
      /\ \A i \in 1 .. Len(recent) : i > task[q].offset => recent[i] \in ToSet(Listed(q))
    BY <1>1, <1>3, ListedFacts
<1>5. PICK t : t = [at |-> "deleting", to |-> "forget", left |-> Listed(q), kept |-> task[q].kept]
    OBVIOUS
<1>6. task' = [task EXCEPT ![q] = t] /\ UNCHANGED <<order, recent, said, position, shown, banned>>
    BY <1>3, <1>5 DEF ListForget, MemoryInv, TasksOK
<1>7. t \in DeleteTask /\ t.left = Listed(q) /\ t.kept = task[q].kept
    BY <1>3, <1>4, <1>5 DEF DeleteTask
<1>8. task[q].kept \subseteq ToSet(Listed(q))
    BY <1>2, <1>4 DEF Ahead
<1>9. RequestOK(t) /\ q \notin Worker
    BY <1>7, <1>8, MemoryAssumption DEF RequestOK
<1> QED
    BY <1>3, <1>6, <1>9, OneTask

LEMMA PendingFacts == ASSUME StoreOK PROVE Pending \subseteq Fact
<1>1. \A i \in position + 1 .. Len(said) : i \in 1 .. Len(said) /\ said[i] \subseteq Fact
    BY DEF StoreOK
<1> QED
    BY <1>1 DEF Pending

LEMMA ExtractPreserves ==
    ASSUME MemoryInv, NEW w \in Worker, NEW facts \in SUBSET Window, Extract(w, facts)
    PROVE  MemoryInv'
<1>1. PICK t : t = [at |-> "listing", to |-> "persist", offset |-> 0, got |-> <<>>,
                    facts |-> facts, upto |-> Len(said)]
    OBVIOUS
<1>2. task' = [task EXCEPT ![w] = t] /\ UNCHANGED <<order, recent, said, position, shown, banned>>
    BY <1>1 DEF Extract
<1>3. facts \subseteq Fact /\ facts \cap banned = {} /\ Len(said) \in Nat
    BY PendingFacts DEF Window, MemoryInv, BannedOK, StoreOK
<1>4. t \in ExtractTask /\ t.upto = Len(said) /\ t.facts = facts
    BY <1>1, <1>3 DEF ExtractTask
<1>5. WorkerOK(t) /\ w \in Actor /\ w \notin Request
    BY <1>3, <1>4, MemoryAssumption DEF WorkerOK, Actor
<1> QED
    BY <1>2, <1>5, OneTask

LEMMA ListPersistPreserves == ASSUME MemoryInv, NEW w \in Worker, ListPersist(w) PROVE MemoryInv'
<1>1. /\ task[w] \in ExtractTask /\ task[w].upto <= Len(said) /\ task[w].facts \cap banned = {}
      /\ w \in Actor /\ w \notin Request
    BY WorkerForms, MemoryAssumption DEF ListPersist, LastPage, Actor
<1>2. PICK t : t = [at |-> "putting", to |-> "persist", upto |-> task[w].upto,
                    left |-> Deduplicate(task[w].facts, Listed(w))]
    OBVIOUS
<1>3. task' = [task EXCEPT ![w] = t] /\ UNCHANGED <<order, recent, said, position, shown, banned>>
    BY <1>1, <1>2 DEF ListPersist, MemoryInv, TasksOK
<1>4. t \in PutTask /\ t.upto = task[w].upto /\ t.left \subseteq task[w].facts
    BY <1>1, <1>2 DEF PutTask, ExtractTask, Deduplicate
<1>5. WorkerOK(t)
    BY <1>1, <1>4 DEF WorkerOK
<1> QED
    BY <1>1, <1>3, <1>5, OneTask

\* A turn takes the facts it tells out of the forgotten ones.
LEMMA SayPreserves == ASSUME MemoryInv, NEW facts \in SUBSET Fact, Say(facts) PROVE MemoryInv'
<1>1. /\ said' = Append(said, facts) /\ banned' = banned \ facts
      /\ UNCHANGED <<order, recent, position, task, shown>>
    BY DEF Say
<1>2. /\ said' \in Seq(SUBSET Fact) /\ Len(said') = Len(said) + 1 /\ Len(said) \in Nat /\ position \in 0 .. Len(said)
      /\ \A i \in 1 .. Len(said) : said'[i] = said[i]
      /\ said'[Len(said) + 1] = facts
    BY <1>1, AppendProperties DEF MemoryInv, StoreOK
<1>3. Stored' = Stored
    BY <1>1 DEF Stored
<1>4. StoreOK'
    BY <1>1, <1>2, <1>3 DEF MemoryInv, StoreOK
<1>5. Pending' \subseteq Pending \cup facts
    <2>1. \A i \in position' + 1 .. Len(said') : said'[i] \subseteq Pending \cup facts
        <3> TAKE i \in position' + 1 .. Len(said')
        <3>1. CASE i = Len(said) + 1
            BY <1>2, <3>1
        <3>2. CASE i # Len(said) + 1
            <4>1. i \in position + 1 .. Len(said) /\ i \in 1 .. Len(said)
                BY <1>1, <1>2, <3>2
            <4>2. said'[i] = said[i]
                BY <1>2, <4>1
            <4> QED
                BY <4>1, <4>2 DEF Pending
        <3> QED
            BY <3>1, <3>2
    <2> QED
        BY <2>1 DEF Pending
<1>6. BannedOK'
    BY <1>1, <1>3, <1>5 DEF MemoryInv, BannedOK
<1>7. ASSUME NEW t, RequestOK(t) PROVE RequestOK(t)'
    BY <1>1, <1>3, <1>7 DEF RequestOK, Seen, Ahead
<1>8. ASSUME NEW t, WorkerOK(t) PROVE WorkerOK(t)'
    <2>1. t \in ExtractTask \cup PutTask => t.upto \in Nat
        BY DEF ExtractTask, PutTask
    <2>2. t \in ExtractTask \cup PutTask /\ t.upto <= Len(said) => t.upto <= Len(said')
        BY <1>2, <2>1
    <2> QED
        BY <1>1, <1>8, <2>2 DEF WorkerOK
<1>9. TasksOK'
    <2>1. DOMAIN task' = Actor
        BY <1>1 DEF MemoryInv, TasksOK, Actor
    <2>2. ASSUME NEW q \in Request PROVE RequestOK(task[q])'
        <3>1. PICK t : t = task[q]
            OBVIOUS
        <3>2. RequestOK(t)'
            BY <1>7, <3>1 DEF MemoryInv, TasksOK
        <3> QED
            BY <1>1, <3>1, <3>2
    <2>3. ASSUME NEW w \in Worker PROVE WorkerOK(task[w])'
        <3>1. PICK t : t = task[w]
            OBVIOUS
        <3>2. WorkerOK(t)'
            BY <1>8, <3>1 DEF MemoryInv, TasksOK
        <3> QED
            BY <1>1, <3>1, <3>2
    <2> QED
        BY <2>1, <2>2, <2>3 DEF TasksOK, Actor
<1> QED
    BY <1>4, <1>6, <1>9 DEF MemoryInv

\* The mark only moves on.
LEMMA MarkPreserves == ASSUME MemoryInv, NEW w \in Worker, Mark(w) PROVE MemoryInv'
<1>1. /\ task' = [task EXCEPT ![w] = Idle] /\ UNCHANGED <<order, recent, said, shown, banned>>
      /\ position' = IF task[w].upto > position THEN task[w].upto ELSE position
    BY DEF Mark
<1>2. task[w].upto \in Nat /\ task[w].upto <= Len(said) /\ w \in Actor
    BY WorkerForms DEF Mark, PutTask, Actor
<1>3. position \in Nat /\ Len(said) \in Nat /\ position \in 0 .. Len(said)
    BY DEF MemoryInv, StoreOK
<1>4. position' \in 0 .. Len(said) /\ position' >= position /\ said' = said
    BY <1>1, <1>2, <1>3
<1>5. Stored' = Stored
    BY <1>1 DEF Stored
<1>6. StoreOK'
    BY <1>1, <1>4, <1>5 DEF MemoryInv, StoreOK
<1>7. Pending' \subseteq Pending
    <2>1. position' + 1 .. Len(said') \subseteq position + 1 .. Len(said)
        BY <1>3, <1>4
    <2> QED
        BY <1>4, <2>1 DEF Pending
<1>8. BannedOK'
    BY <1>1, <1>5, <1>7 DEF MemoryInv, BannedOK
<1>9. ASSUME NEW t, RequestOK(t) PROVE RequestOK(t)'
    BY <1>1, <1>5, <1>9 DEF RequestOK, Seen, Ahead
<1>10. ASSUME NEW t, WorkerOK(t) PROVE WorkerOK(t)'
    BY <1>1, <1>10 DEF WorkerOK
<1>11. RequestOK(Idle) /\ WorkerOK(Idle)
    BY DEF RequestOK, WorkerOK
<1>12. TasksOK'
    <2>1. DOMAIN task' = Actor
        BY <1>1 DEF MemoryInv, TasksOK
    <2>2. ASSUME NEW q \in Request PROVE RequestOK(task[q])'
        <3>1. PICK t : t = task'[q]
            OBVIOUS
        <3>2. RequestOK(t)
            BY <1>1, <1>11, <3>1 DEF MemoryInv, TasksOK, Actor
        <3> QED
            BY <1>9, <3>1, <3>2
    <2>3. ASSUME NEW v \in Worker PROVE WorkerOK(task[v])'
        <3>1. PICK t : t = task'[v]
            OBVIOUS
        <3>2. WorkerOK(t)
            BY <1>1, <1>11, <3>1 DEF MemoryInv, TasksOK, Actor
        <3> QED
            BY <1>10, <3>1, <3>2
    <2> QED
        BY <2>1, <2>2, <2>3 DEF TasksOK, Actor
<1> QED
    BY <1>6, <1>8, <1>12 DEF MemoryInv

LEMMA InFront ==
    ASSUME NEW r \in Seq(Fact), NEW f \in Fact, NEW p, p = <<f>> \o r
    PROVE  /\ p \in Seq(Fact) /\ Len(p) = Len(r) + 1 /\ p[1] = f
           /\ \A j \in 1 .. Len(r) : p[j + 1] = r[j]
           /\ ToSet(p) = ToSet(r) \cup {f}
<1>1. PICK h : h = <<f>>
    OBVIOUS
<1>2. h \in Seq(Fact) /\ Len(h) = 1 /\ h[1] = f
    BY <1>1
<1>3. ToSet(h) = {f}
    BY <1>2 DEF ToSet
<1>4. p = h \o r
    BY <1>1
<1>5. p \in Seq(Fact) /\ ToSet(p) = {f} \cup ToSet(r)
    BY <1>2, <1>3, <1>4, ConcatSet
<1>6. /\ Len(p) = 1 + Len(r) /\ Len(r) \in Nat
      /\ \A j \in 1 .. 1 + Len(r) : p[j] = IF j <= 1 THEN h[j] ELSE r[j - 1]
    BY <1>2, <1>4, ConcatProperties
<1>7. p[1] = f
    BY <1>2, <1>6
<1>8. ASSUME NEW j \in 1 .. Len(r) PROVE p[j + 1] = r[j]
    <2>1. j + 1 \in 1 .. 1 + Len(r) /\ ~(j + 1 <= 1) /\ (j + 1) - 1 = j
        BY <1>6
    <2>2. p[j + 1] = r[(j + 1) - 1]
        BY <1>6, <2>1
    <2> QED
        BY <2>1, <2>2
<1> QED
    BY <1>5, <1>6, <1>7, <1>8

\* p is what s becomes when f is written: f comes first, and no other fact moves
\* forward.
Fronts(p, s, f) ==
    /\ p \in Seq(Fact) /\ IsInjective(p) /\ ToSet(p) = ToSet(s) \cup {f}
    /\ \A i \in 1 .. Len(s) : s[i] # f => \E j \in 1 .. Len(p) : j >= i /\ p[j] = s[i]

LEMMA Fronted ==
    ASSUME NEW s \in Seq(Fact), IsInjective(s), NEW f \in Fact
    PROVE  Fronts(<<f>> \o Only(s, Fact \ {f}), s, f)
<1>1. PICK r : r = Only(s, Fact \ {f})
    OBVIOUS
<1>2. r \in Seq(Fact) /\ IsInjective(r) /\ ToSet(r) = ToSet(s) \ {f}
    BY <1>1, Removed DEF Drops
<1>3. \A i \in 1 .. Len(s) : s[i] # f => \E j \in 1 .. Len(r) : j >= i - 1 /\ r[j] = s[i]
    <2>1. Drops(r, s, f)
        BY <1>1, Removed
    <2> QED
        BY <2>1 DEF Drops
<1>4. PICK p : p = <<f>> \o r
    OBVIOUS
<1>5. p = <<f>> \o r /\ p = <<f>> \o Only(s, Fact \ {f}) /\ Len(r) \in Nat /\ Len(s) \in Nat
    BY <1>4, <1>1, <1>2
<1>6. /\ p \in Seq(Fact) /\ Len(p) = Len(r) + 1 /\ p[1] = f
      /\ \A j \in 1 .. Len(r) : p[j + 1] = r[j]
      /\ ToSet(p) = ToSet(r) \cup {f}
    BY <1>2, <1>5, InFront
<1>7. IsInjective(p)
    <2>1. \A i \in 1 .. Len(r) : r[i] # f
        BY <1>2, Elements
    <2>2. DOMAIN p = 1 .. Len(r) + 1 /\ DOMAIN r = 1 .. Len(r)
        BY <1>2, <1>6, LenProperties
    <2>3. ASSUME NEW j \in 1 .. Len(r) + 1, j # 1 PROVE j - 1 \in 1 .. Len(r) /\ p[j] = r[j - 1]
        <3>1. j - 1 \in 1 .. Len(r) /\ (j - 1) + 1 = j
            BY <1>5, <2>3
        <3>2. p[(j - 1) + 1] = r[j - 1]
            BY <1>6, <3>1
        <3> QED
            BY <3>1, <3>2
    <2> SUFFICES ASSUME NEW i \in 1 .. Len(r) + 1, NEW j \in 1 .. Len(r) + 1, p[i] = p[j] PROVE i = j
        BY <2>2 DEF IsInjective
    <2>4. CASE i = 1 \/ j = 1
        <3>1. ASSUME NEW l \in 1 .. Len(r) + 1, l # 1 PROVE p[l] # f
            BY <2>1, <2>3, <3>1
        <3> QED
            BY <1>6, <2>4, <3>1
    <2>5. CASE i # 1 /\ j # 1
        <3>1. i - 1 \in 1 .. Len(r) /\ j - 1 \in 1 .. Len(r) /\ r[i - 1] = r[j - 1]
            BY <2>3, <2>5
        <3>2. i - 1 = j - 1
            BY <1>2, <2>2, <3>1 DEF IsInjective
        <3> QED
            BY <3>2
    <2> QED
        BY <2>4, <2>5
<1>8. ASSUME NEW i \in 1 .. Len(s), s[i] # f PROVE \E j \in 1 .. Len(p) : j >= i /\ p[j] = s[i]
    <2>1. PICK j \in 1 .. Len(r) : j >= i - 1 /\ r[j] = s[i]
        BY <1>3, <1>8
    <2>2. j + 1 \in 1 .. Len(p) /\ j + 1 >= i
        BY <1>5, <1>6, <2>1
    <2>3. p[j + 1] = s[i]
        BY <1>6, <2>1
    <2> QED
        BY <2>2, <2>3
<1>9. Fronts(p, s, f)
    BY <1>2, <1>6, <1>7, <1>8 DEF Fronts
<1> QED
    BY <1>5, <1>9

\* What a write of f makes of the store.
LEMMA Written ==
    ASSUME StoreOK, NEW f \in Fact, order' = Place(order, f),
           recent' = <<f>> \o Only(recent, Fact \ {f}), UNCHANGED <<said, position, shown, banned>>
    PROVE  StoreOK' /\ Stored' = Stored \cup {f} /\ Fronts(recent', recent, f)
<1>1. /\ order \in Seq(Fact) /\ recent \in Seq(Fact) /\ IsInjective(order) /\ IsInjective(recent)
      /\ ToSet(recent) = ToSet(order) /\ shown \in Seq(Fact) /\ IsPrefix(shown, order)
    BY DEF StoreOK, Stored
<1>2. PICK p : p = recent'
    OBVIOUS
<1>3. Fronts(p, recent, f)
    BY <1>1, <1>2, Fronted
<1>4. /\ order' \in Seq(Fact) /\ IsInjective(order') /\ ToSet(order') = ToSet(order) \cup {f}
      /\ IsPrefix(shown, order')
    <2>1. CASE f \in ToSet(order)
        BY <1>1, <2>1 DEF Place
    <2>2. CASE f \notin ToSet(order)
        <3>1. /\ order' = Append(order, f) /\ order' \in Seq(Fact) /\ Len(order) \in Nat
              /\ Len(order') = Len(order) + 1 /\ order'[Len(order) + 1] = f
              /\ \A i \in 1 .. Len(order) : order'[i] = order[i]
            BY <1>1, <2>2, AppendProperties DEF Place
        <3>2. \A i \in 1 .. Len(order) : order[i] # f
            BY <1>1, <2>2, Elements
        <3>3. DOMAIN order' = 1 .. Len(order) + 1 /\ DOMAIN order = 1 .. Len(order)
            BY <1>1, <3>1
        <3>4. IsInjective(order')
            BY <1>1, <3>1, <3>2, <3>3 DEF IsInjective
        <3>5. ToSet(order') = ToSet(order) \cup {f}
            <4>1. \A i \in 1 .. Len(order) + 1 : i \in 1 .. Len(order) \/ i = Len(order) + 1
                BY <3>1
            <4>2. 1 .. Len(order) \subseteq 1 .. Len(order) + 1 /\ Len(order) + 1 \in 1 .. Len(order) + 1
                BY <3>1
            <4> QED
                BY <3>1, <3>3, <4>1, <4>2 DEF ToSet
        <3>6. IsPrefix(shown, order')
            <4>1. Len(shown) \in Nat /\ Len(shown) <= Len(order)
                BY <1>1 DEF IsPrefix
            <4>2. SubSeq(order', 1, Len(shown)) = SubSeq(order, 1, Len(shown))
                BY <1>1, <3>1, <4>1
            <4> QED
                BY <1>1, <3>1, <4>1, <4>2 DEF IsPrefix
        <3> QED
            BY <3>1, <3>4, <3>5, <3>6
    <2> QED
        BY <2>1, <2>2
<1>5. Stored' = Stored \cup {f}
    BY <1>4 DEF Stored
<1>6. StoreOK'
    BY <1>1, <1>2, <1>3, <1>4, <1>5 DEF StoreOK, Stored, Fronts
<1> QED
    BY <1>2, <1>3, <1>5, <1>6

\* What a write of f leaves of a request's task.
LEMMA DisturbedOK ==
    ASSUME StoreOK, NEW f \in Fact, Stored' = Stored \cup {f}, Fronts(recent', recent, f),
           StoreOK', NEW t, RequestOK(t), NEW u, u = Disturbed(t, f)
    PROVE  RequestOK(u)'
<1>1. CASE t = Idle
    BY <1>1 DEF Disturbed, Idle, RequestOK
<1>2. CASE t \in ReadTask
    <2>1. t.at = "listing" /\ t.to = "show"
        BY <1>2 DEF ReadTask
    <2>2. u = [t EXCEPT !.fresh = FALSE]
        BY <2>1 DEF Disturbed
    <2>3. u \in ReadTask /\ ~u.fresh
        BY <1>2, <2>2 DEF ReadTask
    <2> QED
        BY <2>3 DEF RequestOK
<1>3. CASE t \in ForgetTask
    <2>1. t.at = "listing" /\ t.to = "forget" /\ Ahead(t)
        BY <1>3 DEF ForgetTask, RequestOK, Idle, ReadTask, DeleteTask
    <2>2. u = [t EXCEPT !.kept = @ \ {f}]
        BY <2>1 DEF Disturbed
    <2>3. u \in ForgetTask /\ u.kept = t.kept \ {f} /\ u.got = t.got /\ u.offset = t.offset /\ t.offset \in Nat
        BY <1>3, <2>2 DEF ForgetTask
    <2>4. ASSUME NEW g \in u.kept, g \notin ToSet(u.got)
          PROVE  \E j \in 1 .. Len(recent') : j > u.offset /\ recent'[j] = g
        <3>1. PICK i \in 1 .. Len(recent) : i > t.offset /\ recent[i] = g
            BY <2>1, <2>3, <2>4 DEF Ahead
        <3>2. PICK j \in 1 .. Len(recent') : j >= i /\ recent'[j] = g
            BY <2>3, <3>1 DEF Fronts
        <3>3. j \in Nat /\ i \in Nat
            BY <3>1, <3>2 DEF StoreOK
        <3> QED
            BY <2>3, <3>1, <3>2, <3>3
    <2>5. Ahead(u)'
        BY <2>4 DEF Ahead
    <2> QED
        BY <2>3, <2>5 DEF RequestOK
<1>4. CASE t \in DeleteTask
    <2>1. t.at = "deleting" /\ t.to = "forget" /\ t.kept \cap Stored \subseteq ToSet(t.left)
        BY <1>4 DEF ForgetTask, RequestOK, Idle, ReadTask, DeleteTask
    <2>2. u = [t EXCEPT !.kept = @ \ {f}]
        BY <2>1 DEF Disturbed
    <2>3. u \in DeleteTask /\ u.kept = t.kept \ {f} /\ u.left = t.left
        BY <1>4, <2>2 DEF DeleteTask
    <2> QED
        BY <2>1, <2>3 DEF RequestOK
<1> QED
    BY <1>1, <1>2, <1>3, <1>4 DEF RequestOK

LEMMA PutFactPreserves ==
    ASSUME MemoryInv, NEW w \in Worker, NEW f \in Fact, PutFact(w, f) PROVE MemoryInv'
<1>1. /\ order' = Place(order, f) /\ recent' = <<f>> \o Only(recent, Fact \ {f})
      /\ UNCHANGED <<said, position, shown, banned>>
      /\ task' = [a \in Actor |-> IF a = w THEN [task[w] EXCEPT !.left = @ \ {f}] ELSE Disturbed(task[a], f)]
      /\ f \in task[w].left
    BY DEF PutFact
<1>2. StoreOK' /\ Stored' = Stored \cup {f} /\ Fronts(recent', recent, f)
    BY <1>1, Written DEF MemoryInv
<1>3. task[w] \in PutTask /\ task[w].upto <= Len(said) /\ task[w].left \cap banned = {}
    BY WorkerForms DEF PutFact
<1>4. BannedOK'
    <2>1. Pending' = Pending /\ f \notin banned
        BY <1>1, <1>3 DEF Pending
    <2> QED
        BY <1>1, <1>2, <2>1 DEF MemoryInv, BannedOK
<1>5. ASSUME NEW q \in Request PROVE RequestOK(task[q])'
    <2>1. PICK t, u : t = task[q] /\ u = task'[q]
        OBVIOUS
    <2>2. q \in Actor /\ q # w
        BY MemoryAssumption DEF Actor
    <2>3. u = Disturbed(t, f) /\ RequestOK(t)
        BY <1>1, <2>1, <2>2 DEF MemoryInv, TasksOK
    <2>4. RequestOK(u)'
        BY <1>2, <2>3, DisturbedOK DEF MemoryInv
    <2> QED
        BY <2>1, <2>4
<1>6. ASSUME NEW v \in Worker PROVE WorkerOK(task[v])'
    <2>1. PICK t, u : t = task[v] /\ u = task'[v]
        OBVIOUS
    <2>2. v \in Actor /\ WorkerOK(t)
        BY <2>1 DEF Actor, MemoryInv, TasksOK
    <2>3. CASE v = w
        <3>1. u = [t EXCEPT !.left = @ \ {f}] /\ t \in PutTask /\ t.upto <= Len(said) /\ t.left \cap banned = {}
            BY <1>1, <1>3, <2>1, <2>2, <2>3
        <3>2. u \in PutTask /\ u.upto = t.upto /\ u.left \subseteq t.left
            BY <3>1 DEF PutTask
        <3> QED
            BY <1>1, <2>1, <3>1, <3>2 DEF WorkerOK
    <2>4. CASE v # w
        <3>1. u = Disturbed(t, f)
            BY <1>1, <2>1, <2>2, <2>4
        <3>2. t = Idle \/ t.to = "persist"
            BY <2>2 DEF WorkerOK, ExtractTask, PutTask
        <3>3. u = t
            BY <3>1, <3>2 DEF Disturbed, Idle
        <3>4. WorkerOK(u)'
            BY <1>1, <2>2, <3>3 DEF WorkerOK
        <3> QED
            BY <2>1, <3>4
    <2> QED
        BY <2>3, <2>4
<1>7. TasksOK'
    <2>1. DOMAIN task' = Actor
        BY <1>1
    <2> QED
        BY <1>5, <1>6, <2>1 DEF TasksOK, Actor
<1> QED
    BY <1>2, <1>4, <1>7 DEF MemoryInv

\* What a deletion by another forgetting leaves of a request's task.
LEMMA CutOK ==
    ASSUME NEW t, RequestOK(t), NEW u, u = Cut(t)
    PROVE  RequestOK(u)'
<1>1. CASE t = Idle
    BY <1>1 DEF Cut, Idle, RequestOK
<1>2. CASE t \in ReadTask
    <2>1. t.at = "listing" /\ t.to = "show"
        BY <1>2 DEF ReadTask
    <2>2. u = [t EXCEPT !.fresh = FALSE]
        BY <2>1 DEF Cut
    <2>3. u \in ReadTask /\ ~u.fresh
        BY <1>2, <2>2 DEF ReadTask
    <2> QED
        BY <2>3 DEF RequestOK
<1>3. CASE t \in ForgetTask
    <2>1. t.at = "listing" /\ t.to = "forget"
        BY <1>3 DEF ForgetTask
    <2>2. u = [t EXCEPT !.kept = {}]
        BY <2>1 DEF Cut
    <2>3. u \in ForgetTask /\ u.kept = {}
        BY <1>3, <2>2 DEF ForgetTask
    <2> QED
        BY <2>3 DEF RequestOK, Ahead
<1>4. CASE t \in DeleteTask
    <2>1. t.at = "deleting" /\ t.to = "forget"
        BY <1>4 DEF DeleteTask
    <2>2. u = [t EXCEPT !.kept = {}]
        BY <2>1 DEF Cut
    <2>3. u \in DeleteTask /\ u.kept = {}
        BY <1>4, <2>2 DEF DeleteTask
    <2> QED
        BY <2>3 DEF RequestOK
<1> QED
    BY <1>1, <1>2, <1>3, <1>4 DEF RequestOK

LEMMA DeletePreserves == ASSUME MemoryInv, NEW q \in Request, Delete(q) PROVE MemoryInv'
<1>1. /\ task[q] \in DeleteTask /\ task[q].kept \cap Stored \subseteq ToSet(task[q].left)
      /\ task[q].left # <<>> /\ q \in Actor
    BY RequestForms DEF Delete, Actor
<1>2. PICK f : f = Head(task[q].left)
    OBVIOUS
<1>3. f \in Fact /\ Tail(task[q].left) \in Seq(Fact)
    BY <1>1, <1>2, HeadTailProperties DEF DeleteTask
<1>4. /\ order' = Only(order, Fact \ {f}) /\ recent' = Only(recent, Fact \ {f})
      /\ task' = [a \in Actor |-> IF a = q THEN [task[q] EXCEPT !.left = Tail(@)]
                                  ELSE IF f \in Stored THEN Cut(task[a]) ELSE task[a]]
      /\ shown' = IF f \in Stored THEN <<>> ELSE shown
      /\ banned' = IF \A w \in Worker : task[w] = Idle THEN banned \cup ({f} \ Pending) ELSE banned
      /\ said' = said /\ position' = position
    BY <1>2 DEF Delete
<1>5. /\ order \in Seq(Fact) /\ recent \in Seq(Fact) /\ IsInjective(order) /\ IsInjective(recent)
      /\ ToSet(recent) = ToSet(order) /\ shown \in Seq(Fact) /\ IsPrefix(shown, order)
    BY DEF MemoryInv, StoreOK, Stored
<1>6. Drops(order', order, f) /\ Drops(recent', recent, f)
    BY <1>4, <1>5, Removed
<1>7. Stored' = Stored \ {f}
    BY <1>6 DEF Drops, Stored
<1>8. f \notin Stored => order' = order /\ recent' = recent /\ Stored' = Stored
    BY <1>5, <1>6, <1>7 DEF Drops, Stored
<1>9. Pending' = Pending
    BY <1>4 DEF Pending
<1>10. StoreOK'
    <2>1. shown' \in Seq(Fact) /\ IsPrefix(shown', order')
        <3>1. CASE f \in Stored
            <4>1. shown' = <<>> /\ order' \in Seq(Fact)
                BY <1>4, <1>6, <3>1 DEF Drops
            <4> QED
                BY <4>1 DEF IsPrefix
        <3>2. CASE f \notin Stored
            BY <1>4, <1>5, <1>8, <3>2
        <3> QED
            BY <3>1, <3>2
    <2>2. /\ order' \in Seq(Fact) /\ recent' \in Seq(Fact) /\ IsInjective(order') /\ IsInjective(recent')
          /\ ToSet(recent') = ToSet(order')
        BY <1>5, <1>6 DEF Drops
    <2>3. said' \in Seq(SUBSET Fact) /\ position' \in 0 .. Len(said') /\ banned' \subseteq Fact
        BY <1>3, <1>4 DEF MemoryInv, StoreOK
    <2> QED
        BY <2>1, <2>2, <2>3 DEF StoreOK, Stored
<1>11. BannedOK'
    <2>1. banned \cap Stored = {} /\ banned \cap Pending = {}
        BY DEF MemoryInv, BannedOK
    <2>2. banned' \subseteq banned \cup ({f} \ Pending)
        BY <1>4
    <2> QED
        BY <1>7, <1>9, <2>1, <2>2 DEF BannedOK
<1>12. ASSUME NEW p \in Request PROVE RequestOK(task[p])'
    <2>1. PICK t, u : t = task[p] /\ u = task'[p]
        OBVIOUS
    <2>2. p \in Actor /\ RequestOK(t)
        BY <2>1 DEF Actor, MemoryInv, TasksOK
    <2>3. CASE p = q
        <3>1. u = [t EXCEPT !.left = Tail(@)] /\ t = task[q]
            BY <1>1, <1>4, <2>1, <2>3
        <3>2. u \in DeleteTask /\ u.left = Tail(task[q].left) /\ u.kept = task[q].kept
            BY <1>1, <1>3, <3>1 DEF DeleteTask
        <3>3. ToSet(task[q].left) \subseteq ToSet(Tail(task[q].left)) \cup {f}
            <4>1. PICK l : l = task[q].left
                OBVIOUS
            <4>2. l \in Seq(Fact) /\ l # <<>> /\ f = Head(l)
                BY <1>1, <1>2, <4>1 DEF DeleteTask
            <4>3. l = <<f>> \o Tail(l)
                BY <4>2
            <4>4. ToSet(l) = ToSet(Tail(l)) \cup {f}
                BY <1>3, <4>1, <4>3, InFront
            <4> QED
                BY <4>1, <4>4
        <3>4. u.kept \cap Stored' \subseteq ToSet(u.left)
            BY <1>1, <1>7, <3>2, <3>3
        <3>5. RequestOK(u)'
            BY <3>2, <3>4 DEF RequestOK
        <3> QED
            BY <2>1, <3>5
    <2>4. CASE p # q /\ f \in Stored
        <3>1. u = Cut(t)
            BY <1>4, <2>1, <2>2, <2>4
        <3>2. RequestOK(u)'
            BY <2>2, <3>1, CutOK
        <3> QED
            BY <2>1, <3>2
    <2>5. CASE p # q /\ f \notin Stored
        <3>1. u = t
            BY <1>4, <2>1, <2>2, <2>5
        <3>2. RequestOK(u)'
            BY <1>8, <2>2, <2>5, <3>1 DEF RequestOK, Seen, Ahead
        <3> QED
            BY <2>1, <3>2
    <2> QED
        BY <2>3, <2>4, <2>5
<1>13. ASSUME NEW w \in Worker PROVE WorkerOK(task[w])'
    <2>1. PICK t, u : t = task[w] /\ u = task'[w]
        OBVIOUS
    <2>2. w \in Actor /\ w # q /\ WorkerOK(t)
        BY <2>1, MemoryAssumption DEF Actor, MemoryInv, TasksOK
    <2>3. u = Cut(t) \/ u = t
        BY <1>4, <2>1, <2>2
    <2>4. t = Idle \/ t.to = "persist"
        BY <2>2 DEF WorkerOK, ExtractTask, PutTask
    <2>5. u = t
        BY <2>3, <2>4 DEF Cut, Idle
    <2>6. banned' = banned \/ t = Idle
        BY <1>4, <2>1
    <2>7. WorkerOK(u)'
        BY <1>4, <2>2, <2>5, <2>6 DEF WorkerOK
    <2> QED
        BY <2>1, <2>7
<1>14. TasksOK'
    <2>1. DOMAIN task' = Actor
        BY <1>4
    <2> QED
        BY <1>12, <1>13, <2>1 DEF TasksOK, Actor
<1> QED
    BY <1>10, <1>11, <1>14 DEF MemoryInv

-----------------------------------------------------------------------------
LEMMA MemoryPreserved == MemoryInv /\ [Next]_vars => MemoryInv'
<1> SUFFICES ASSUME MemoryInv, [Next]_vars PROVE MemoryInv'
    OBVIOUS
<1>1. CASE UNCHANGED vars
    BY <1>1 DEF vars, MemoryInv, StoreOK, Stored, TasksOK, Actor, RequestOK, Seen, Ahead, WorkerOK, BannedOK,
        Pending
<1>2. ASSUME NEW facts \in SUBSET Fact \ {{}}, Say(facts) PROVE MemoryInv'
    BY <1>2, SayPreserves
<1>3. ASSUME NEW a \in Actor, ListPage(a) PROVE MemoryInv'
    BY <1>3, ListPagePreserves
<1>4. ASSUME NEW q \in Request, StartRead(q) \/ Show(q) \/ StartForget(q) \/ ListForget(q)
                                \/ Delete(q) \/ Leave(q)
      PROVE  MemoryInv'
    BY <1>4, StartReadPreserves, ShowPreserves, StartForgetPreserves, ListForgetPreserves,
       DeletePreserves, LeavePreserves
<1>5. ASSUME NEW w \in Worker, NEW facts \in SUBSET Window, Extract(w, facts) PROVE MemoryInv'
    BY <1>5, ExtractPreserves
<1>6. ASSUME NEW w \in Worker, NEW f \in Fact, PutFact(w, f) PROVE MemoryInv'
    BY <1>6, PutFactPreserves
<1>7. ASSUME NEW w \in Worker, ListPersist(w) \/ Mark(w) \/ Crash(w) PROVE MemoryInv'
    BY <1>7, ListPersistPreserves, MarkPreserves, CrashPreserves
<1> QED
    BY <1>1, <1>2, <1>3, <1>4, <1>5, <1>6, <1>7 DEF Next

\* The inductive invariant: the store, every task and the forgotten facts.
THEOREM MemoryInvariant == Spec => []MemoryInv
<1> QED
    BY MemoryInitially, MemoryPreserved, PTL DEF Spec

\* The two orders of the store are of the same facts, each once, whatever a
\* listing for deduplication missed (fact_key), and the mark is within the
\* transcript.
THEOREM MemoryTypeCorrect == Spec => []MemoryTypeOK
<1>1. MemoryInv => MemoryTypeOK
    <2> SUFFICES ASSUME MemoryInv PROVE MemoryTypeOK
        OBVIOUS
    <2>1. ASSUME NEW a \in Actor PROVE task[a].at \in {"idle", "listing", "deleting", "putting"}
        <3>1. RequestOK(task[a]) \/ WorkerOK(task[a])
            BY DEF MemoryInv, TasksOK, Actor
        <3> QED
            BY <3>1 DEF RequestOK, WorkerOK, Idle, ReadTask, ForgetTask, DeleteTask, ExtractTask, PutTask
    <2> QED
        BY <2>1 DEF MemoryTypeOK, MemoryInv, StoreOK
<1> QED
    BY <1>1, MemoryInvariant, PTL

\* A forgetting that ends has removed all it had to (delete_facts).
THEOREM ForgettingComplete == Spec => []ForgetComplete
<1>1. MemoryInv => ForgetComplete
    <2> SUFFICES ASSUME MemoryInv, NEW q \in Request, task[q].at = "deleting", task[q].left = <<>>
                 PROVE  task[q].kept \cap Stored = {}
        BY DEF ForgetComplete
    <2>1. task[q].kept \cap Stored \subseteq ToSet(task[q].left)
        BY RequestForms
    <2>2. ToSet(<<>>) = {}
        BY DEF ToSet
    <2> QED
        BY <2>1, <2>2
<1> QED
    BY <1>1, MemoryInvariant, PTL

\* A forgotten fact does not come back by itself (consolidate).
THEOREM ForgottenStays == Spec => []ForgottenStaysForgotten
<1>1. MemoryInv => ForgottenStaysForgotten
    BY DEF MemoryInv, BannedOK, ForgottenStaysForgotten
<1> QED
    BY <1>1, MemoryInvariant, PTL

\* What a listing shows begins with what the one before showed (read_facts).
LEMMA ListingsGrow ==
    ASSUME MemoryInv, Next, shown' \notin {shown, <<>>}
    PROVE  IsPrefix(shown, shown')
<1>1. PICK q \in Request : Show(q)
    BY DEF Next, Say, ListPage, StartRead, StartForget, ListForget, Delete, Leave, Extract, PutFact,
        ListPersist, Mark, Crash
<1>2. shown' = order
    BY <1>1, ShowsStore
<1> QED
    BY <1>2 DEF MemoryInv, StoreOK

THEOREM FactsKeepPlace == Spec => ShownInOrder
<1>1. MemoryInv /\ [Next]_vars => [shown' \notin {shown, <<>>} => IsPrefix(shown, shown')]_vars
    BY ListingsGrow
<1> QED
    BY <1>1, MemoryInvariant, PTL DEF Spec, ShownInOrder
=============================================================================
