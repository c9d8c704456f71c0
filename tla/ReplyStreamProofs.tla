-------------------------- MODULE ReplyStreamProofs --------------------------
(***************************************************************************)
(* The page hears a reply in order and what it hears of the outcome is     *)
(* true, for replies and heartbeats of any number and wherever the network *)
(* cuts the bytes.                                                         *)
(*                                                                         *)
(* The first part is about the parser: what it makes of a byte sequence    *)
(* does not depend on where it is cut (ParseConcat), and it gives back     *)
(* the event that was encoded (ParseEncoded).  So the events that the page *)
(* has read or will read of what was sent (Sent) are changed by Send only, *)
(* and the invariant relates them to the queue and to the outcome.         *)
(***************************************************************************)
EXTENDS ReplyStream, SequenceTheorems, WellFoundedInduction, TLAPS

EventName == {"chunk", "done", "error", "heartbeat"}
Byte == {LF, Symbol("event:"), Symbol("data:")} \cup {Symbol(e) : e \in EventName}
          \cup {<<"payload", n>> : n \in Nat}
\* What the parser can make of bytes.
ChatEvent == {Chat(ParseEvent(raw))[1] : raw \in Seq(Byte)}
Parsed == [out : Seq(ChatEvent), rest : Seq(Byte)]
Nothing == [out |-> <<>>, rest |-> <<>>]
Join(p, q) == [out |-> p.out \o q.out, rest |-> q.rest]

-----------------------------------------------------------------------------
LEMMA LeastNumber ==
    ASSUME NEW T \in SUBSET Nat, T # {}
    PROVE  \E n \in T : \A m \in T : n <= m
<1> DEFINE R == {ss \in Nat \X Nat : ss[1] < ss[2]}
<1>1. IsWellFoundedOn(R, Nat)
    BY NatLessThanWellFounded DEF OpToRel
<1>2. \A m, n \in Nat : m < n => <<m, n>> \in R
    OBVIOUS
<1> HIDE DEF R
<1>3. PICK n \in T : \A m \in T : <<m, n>> \notin R
    BY <1>1, WFMin
<1>4. ASSUME NEW m \in T PROVE n <= m
    <2>1. m \in Nat /\ n \in Nat
        OBVIOUS
    <2>2. ~(m < n)
        BY <1>2, <1>3, <2>1
    <2> QED
        BY <2>1, <2>2
<1> QED
    BY <1>4

\* Induction for a set of numbers, up to a bound, and for a set of sequences.
LEMMA NumbersReached ==
    ASSUME NEW G, NEW m \in Nat, 0 \in G,
           \A n \in Nat : n < m /\ n \in G => n + 1 \in G
    PROVE  \A n \in 0 .. m : n \in G
<1> DEFINE T == {n \in 0 .. m : n \notin G}
<1>1. T \in SUBSET Nat
    OBVIOUS
<1>2. T = {}
    <2> SUFFICES ASSUME T # {} PROVE FALSE
        OBVIOUS
    <2>1. PICK n \in T : \A k \in T : n <= k
        BY <1>1, LeastNumber
    <2>2. n \in 0 .. m /\ n # 0 /\ n \notin G
        OBVIOUS
    <2>3. n - 1 \in Nat /\ n - 1 \in 0 .. m /\ n - 1 \notin T /\ n - 1 < m
        BY <2>1, <2>2
    <2>4. (n - 1) + 1 \in G
        BY <2>3
    <2> QED
        BY <2>2, <2>4
<1> QED
    BY <1>2

LEMMA SequencesReached ==
    ASSUME NEW S, NEW G, <<>> \in G,
           \A b \in Seq(S) : \A s \in S : b \in G => Append(b, s) \in G
    PROVE  \A b \in Seq(S) : b \in G
<1> SUFFICES ASSUME NEW b \in Seq(S) PROVE b \in G
    OBVIOUS
<1> DEFINE N == {n \in 0 .. Len(b) : SubSeq(b, 1, n) \in G}
<1>1. Len(b) \in Nat /\ SubSeq(b, 1, 0) = <<>>
    BY SubSeqEmpty
<1>2. 0 \in N
    <2>1. 0 \in 0 .. Len(b)
        BY <1>1
    <2>2. SubSeq(b, 1, 0) \in G
        BY <1>1, Zenon
    <2> QED
        BY <2>1, <2>2
<1>3. ASSUME NEW n \in Nat, n < Len(b), n \in N PROVE n + 1 \in N
    <2>1. n + 1 \in 1 .. Len(b) /\ b[n + 1] \in S
        BY <1>1, <1>3
    <2>2. SubSeq(b, 1, n) \in Seq(S)
        BY <1>1, <1>3
    <2>3. SubSeq(b, 1, n + 1) = SubSeq(b, 1, n) \o <<b[n + 1]>>
        <3>1. SubSeq(b, 1, n + 1) = SubSeq(b, 1, (n + 1) - 1) \o <<b[n + 1]>>
            BY <2>1, SubSeqRecursiveSecond
        <3> QED
            BY <3>1
    <2>4. SubSeq(b, 1, n + 1) = Append(SubSeq(b, 1, n), b[n + 1])
        BY <2>1, <2>2, <2>3, AppendIsConcat
    <2>5. SubSeq(b, 1, n) \in G
        BY <1>3
    <2>6. SubSeq(b, 1, n + 1) \in G
        BY <2>1, <2>2, <2>4, <2>5
    <2>7. n + 1 \in 0 .. Len(b)
        BY <1>1, <2>1
    <2> QED
        BY <2>6, <2>7
<1> HIDE DEF N
<1>4. Len(b) \in N
    <2>1. \A n \in 0 .. Len(b) : n \in N
        BY <1>1, <1>2, <1>3, NumbersReached
    <2> QED
        BY <1>1, <2>1
<1>5. SubSeq(b, 1, Len(b)) \in G
    BY <1>4 DEF N
<1>6. SubSeq(b, 1, Len(b)) = b
    BY SubSeqFull
<1> QED
    BY <1>5, <1>6, Zenon

-----------------------------------------------------------------------------
(* The parser.                                                              *)

Unrolled(bytes, f, n) == IF n = 0 THEN Nothing ELSE Push(f[n - 1], bytes[n])
Runs(bytes, f) == f = [n \in 0 .. Len(bytes) |-> Unrolled(bytes, f, n)]

\* The recursive definition of Parse defines a function.
LEMMA ParseDefined ==
    ASSUME NEW b \in Seq(Byte)
    PROVE  \E f : Runs(b, f) /\ Parse(b) = f[Len(b)]
<1> DEFINE Upto(n) == \E g : g = [i \in 0 .. n |-> Unrolled(b, g, i)]
           N == {n \in Nat : Upto(n)}
<1>1. Len(b) \in Nat
    OBVIOUS
<1>2. 0 \in N
    <2> DEFINE g == [i \in 0 .. 0 |-> Nothing]
    <2>1. g = [i \in 0 .. 0 |-> Unrolled(b, g, i)]
        BY DEF Unrolled
    <2> QED
        BY <2>1
<1>3. ASSUME NEW n \in Nat, n \in N PROVE n + 1 \in N
    <2>1. PICK g : g = [i \in 0 .. n |-> Unrolled(b, g, i)]
        BY <1>3
    <2> DEFINE h == [i \in 0 .. n + 1 |-> IF i <= n THEN g[i] ELSE Unrolled(b, g, i)]
    <2>2. \A i \in 0 .. n : h[i] = g[i]
        OBVIOUS
    <2>3. ASSUME NEW i \in 0 .. n + 1 PROVE h[i] = Unrolled(b, h, i)
        <3>1. CASE i = 0
            <4>1. h[i] = g[i] /\ g[i] = Unrolled(b, g, i)
                BY <2>1, <2>2, <3>1
            <4> QED
                BY <3>1, <4>1 DEF Unrolled
        <3>2. CASE i # 0
            <4>1. i - 1 \in 0 .. n /\ h[i - 1] = g[i - 1]
                BY <2>2, <3>2
            <4>2. h[i] = Unrolled(b, g, i)
                <5>1. CASE i <= n
                    BY <2>1, <2>2, <5>1
                <5>2. CASE ~(i <= n)
                    BY <5>2
                <5> QED
                    BY <5>1, <5>2
            <4> HIDE DEF h
            <4> QED
                BY <3>2, <4>1, <4>2 DEF Unrolled
        <3> QED
            BY <3>1, <3>2
    <2>4. h = [i \in 0 .. n + 1 |-> h[i]]
        OBVIOUS
    <2> HIDE DEF h
    <2>5. h = [i \in 0 .. n + 1 |-> Unrolled(b, h, i)]
        BY <2>3, <2>4
    <2> QED
        BY <2>5
<1> HIDE DEF N
<1>4. Len(b) \in N
    <2>1. \A n \in 0 .. Len(b) : n \in N
        BY <1>1, <1>2, <1>3, NumbersReached
    <2> QED
        BY <1>1, <2>1
<1> DEFINE F == CHOOSE f : f = [k \in 0 .. Len(b) |->
                    IF k = 0 THEN [out |-> <<>>, rest |-> <<>>] ELSE Push(f[k - 1], b[k])]
<1>5. F = [k \in 0 .. Len(b) |->
             IF k = 0 THEN [out |-> <<>>, rest |-> <<>>] ELSE Push(F[k - 1], b[k])]
    BY <1>4 DEF N, Unrolled, Nothing
<1>6. Parse(b) = F[Len(b)]
    BY DEF Parse
<1> HIDE DEF F
<1>7. Runs(b, F)
    BY <1>5 DEF Runs, Unrolled, Nothing
<1> QED
    BY <1>6, <1>7

LEMMA ParseNothing == Parse(<<>>) = Nothing
<1>1. <<>> \in Seq(Byte) /\ Len(<<>>) = 0
    OBVIOUS
<1>2. PICK f : Runs(<<>>, f) /\ Parse(<<>>) = f[Len(<<>>)]
    BY <1>1, ParseDefined
<1>3. f[0] = Unrolled(<<>>, f, 0)
    BY <1>1, <1>2 DEF Runs
<1> QED
    BY <1>1, <1>2, <1>3 DEF Unrolled

\* One symbol more.
LEMMA ParseAppend ==
    ASSUME NEW b \in Seq(Byte), NEW s \in Byte
    PROVE  Parse(Append(b, s)) = Push(Parse(b), s)
<1> DEFINE c == Append(b, s)
<1>1. /\ c \in Seq(Byte) /\ Len(c) = Len(b) + 1 /\ Len(b) \in Nat
      /\ \A n \in 1 .. Len(b) : c[n] = b[n]
      /\ c[Len(b) + 1] = s
    BY AppendProperties
<1> HIDE DEF c
<1>2. PICK f : Runs(b, f) /\ Parse(b) = f[Len(b)]
    BY ParseDefined
<1>3. PICK g : Runs(c, g) /\ Parse(c) = g[Len(c)]
    BY <1>1, ParseDefined
<1> DEFINE N == {n \in 0 .. Len(b) : f[n] = g[n]}
<1>4. /\ \A n \in 0 .. Len(b) : f[n] = Unrolled(b, f, n)
      /\ \A n \in 0 .. Len(b) + 1 : g[n] = Unrolled(c, g, n)
    BY <1>1, <1>2, <1>3 DEF Runs
<1>5. 0 \in N
    BY <1>1, <1>4 DEF Unrolled
<1>6. ASSUME NEW n \in Nat, n < Len(b), n \in N PROVE n + 1 \in N
    <2>1. n + 1 \in 1 .. Len(b) /\ n + 1 \in 0 .. Len(b) /\ n + 1 \in 0 .. Len(b) + 1 /\ n + 1 # 0
          /\ (n + 1) - 1 = n
        BY <1>1, <1>6
    <2>2. f[n + 1] = Push(f[n], b[n + 1])
        BY <1>4, <2>1 DEF Unrolled
    <2>3. g[n + 1] = Push(g[n], c[n + 1])
        BY <1>4, <2>1 DEF Unrolled
    <2> QED
        BY <1>1, <1>6, <2>1, <2>2, <2>3
<1> HIDE DEF N
<1>7. Len(b) \in N
    <2>1. \A n \in 0 .. Len(b) : n \in N
        BY <1>1, <1>5, <1>6, NumbersReached
    <2> QED
        BY <1>1, <2>1
<1>8. g[Len(b) + 1] = Push(g[Len(b)], s)
    <2>1. Len(b) + 1 \in 0 .. Len(b) + 1 /\ Len(b) + 1 # 0 /\ (Len(b) + 1) - 1 = Len(b)
        BY <1>1
    <2> QED
        BY <1>1, <1>4, <2>1 DEF Unrolled
<1>9. Parse(c) = Push(Parse(b), s)
    BY <1>1, <1>2, <1>3, <1>7, <1>8 DEF N
<1> QED
    BY <1>9 DEF c

LEMMA BytesAssociative ==
    \A x, y, z \in Seq(Byte) : (x \o y) \o z = x \o (y \o z)
BY ConcatAssociative, SMTT(30)

LEMMA EventsAssociative ==
    \A x, y, z \in Seq(ChatEvent) : (x \o y) \o z = x \o (y \o z)
BY ConcatAssociative, SMTT(30)

LEMMA ConcatAppend ==
    ASSUME NEW S, NEW a \in Seq(S), NEW b \in Seq(S), NEW s \in S
    PROVE  a \o Append(b, s) = Append(a \o b, s)
<1>1. <<s>> \in Seq(S) /\ a \o b \in Seq(S)
    BY ConcatProperties
<1>2. Append(b, s) = b \o <<s>> /\ Append(a \o b, s) = (a \o b) \o <<s>>
    BY <1>1, AppendIsConcat
<1>3. (a \o b) \o <<s>> = a \o (b \o <<s>>)
    BY <1>1, ConcatAssociative
<1> QED
    BY <1>2, <1>3

LEMMA AppendTo ==
    ASSUME NEW S, NEW b \in Seq(S), NEW s \in S, NEW t \in Seq(S),
           Len(t) = Len(b) + 1, t[Len(t)] = s, \A i \in 1 .. Len(b) : t[i] = b[i]
    PROVE  t = Append(b, s)
<1> DEFINE c == Append(b, s)
<1>1. /\ c \in Seq(S) /\ Len(c) = Len(b) + 1 /\ Len(b) \in Nat
      /\ \A i \in 1 .. Len(b) : c[i] = b[i]
      /\ c[Len(b) + 1] = s
    BY AppendProperties
<1> HIDE DEF c
<1>2. \A i \in 1 .. Len(t) : t[i] = c[i]
    BY <1>1
<1>3. t = c
    BY <1>1, <1>2, SeqEqual
<1> QED
    BY <1>3 DEF c

LEMMA ChatOfBytes ==
    ASSUME NEW raw \in Seq(Byte)
    PROVE  Chat(ParseEvent(raw)) \in Seq(ChatEvent)
<1> DEFINE e == Chat(ParseEvent(raw))
<1>1. e[1] \in ChatEvent
    BY DEF ChatEvent
<1>2. e = <<>> \/ \E x : e = <<x>>
    BY DEF Chat, ParseEvent
<1> HIDE DEF e
<1>3. CASE e = <<>>
    BY <1>3, EmptySeq DEF e
<1>4. ASSUME NEW x, e = <<x>> PROVE e \in Seq(ChatEvent)
    <2>1. x \in ChatEvent
        BY <1>1, <1>4
    <2>2. <<x>> \in Seq(ChatEvent)
        BY <2>1
    <2> QED
        BY <1>4, <2>2
<1> QED
    BY <1>2, <1>3, <1>4 DEF e

LEMMA ParsePushes ==
    ASSUME NEW p \in Parsed, NEW s \in Byte
    PROVE  /\ Push(p, s) \in Parsed
           /\ \/ Push(p, s) = [out |-> p.out, rest |-> Append(p.rest, s)]
              \/ Push(p, s).rest = <<>>
<1>1. p.out \in Seq(ChatEvent) /\ p.rest \in Seq(Byte)
    BY DEF Parsed
<1>2. CASE s = LF /\ p.rest # <<>> /\ Last(p.rest) = LF
    <2> DEFINE e == Chat(ParseEvent(Front(p.rest)))
    <2>1. Push(p, s) = [out |-> p.out \o e, rest |-> <<>>]
        BY <1>2 DEF Push
    <2>2. Front(p.rest) \in Seq(Byte)
        BY <1>1, <1>2 DEF Front
    <2>3. e \in Seq(ChatEvent)
        BY <2>2, ChatOfBytes
    <2> HIDE DEF e
    <2>4. p.out \o e \in Seq(ChatEvent)
        BY <1>1, <2>3, ConcatProperties
    <2> QED
        BY <2>1, <2>4 DEF Parsed
<1>3. CASE ~(s = LF /\ p.rest # <<>> /\ Last(p.rest) = LF)
    <2>1. Push(p, s) = [out |-> p.out, rest |-> Append(p.rest, s)]
        BY <1>3 DEF Push
    <2>2. Append(p.rest, s) \in Seq(Byte)
        BY <1>1
    <2> QED
        BY <1>1, <2>1, <2>2 DEF Parsed
<1> QED
    BY <1>2, <1>3

\* A buffer holds no whole event: parsed again, it stays what it is.
LEMMA ParseRest ==
    ASSUME NEW b \in Seq(Byte)
    PROVE  /\ Parse(b) \in Parsed
           /\ Parse(Parse(b).rest) = [out |-> <<>>, rest |-> Parse(b).rest]
<1> DEFINE G == {c \in Seq(Byte) : /\ Parse(c) \in Parsed
                                   /\ Parse(Parse(c).rest) = [out |-> <<>>, rest |-> Parse(c).rest]}
<1>1. <<>> \in G
    <2>1. Nothing.rest = <<>> /\ Nothing = [out |-> <<>>, rest |-> <<>>]
        BY DEF Nothing
    <2>2. Nothing \in Parsed /\ <<>> \in Seq(Byte)
        BY EmptySeq DEF Nothing, Parsed
    <2> QED
        BY <2>1, <2>2, ParseNothing
<1>2. ASSUME NEW c \in Seq(Byte), NEW s \in Byte, c \in G PROVE Append(c, s) \in G
    <2> DEFINE p == Parse(c)
               q == Push(p, s)
    <2>1. p \in Parsed /\ Parse(p.rest) = [out |-> <<>>, rest |-> p.rest]
        BY <1>2
    <2>2. Append(c, s) \in Seq(Byte) /\ Parse(Append(c, s)) = q
        BY ParseAppend
    <2> HIDE DEF p
    <2>3. p.rest \in Seq(Byte) /\ p.out \in Seq(ChatEvent)
        BY <2>1 DEF Parsed
    <2>4. /\ q \in Parsed
          /\ q = [out |-> p.out, rest |-> Append(p.rest, s)] \/ q.rest = <<>>
        BY <2>1, ParsePushes
    <2>5. CASE q = [out |-> p.out, rest |-> Append(p.rest, s)]
        <3>1. Parse(q.rest) = Push(Parse(p.rest), s)
            BY <2>3, <2>5, ParseAppend
        <3>2. ~(s = LF /\ p.rest # <<>> /\ Last(p.rest) = LF)
            <4>1. Append(p.rest, s) # <<>>
                BY <2>3
            <4> QED
                BY <2>5, <4>1 DEF Push
        <3>3. Push(Parse(p.rest), s) = [out |-> <<>>, rest |-> Append(p.rest, s)]
            BY <2>1, <3>2 DEF Push
        <3>4. Parse(q.rest) = [out |-> <<>>, rest |-> q.rest]
            BY <2>5, <3>1, <3>3
        <3> QED
            BY <2>2, <2>4, <3>4
    <2>6. CASE q.rest = <<>>
        BY <2>2, <2>4, <2>6, ParseNothing DEF Nothing
    <2> QED
        BY <2>4, <2>5, <2>6
<1> HIDE DEF G
<1>3. \A c \in Seq(Byte) : c \in G
    BY <1>1, <1>2, SequencesReached
<1> QED
    BY <1>3 DEF G

\* What comes of bytes does not depend on where they are cut: the parser of the
\* rest begins with what the first part left in the buffer.
LEMMA ParseConcat ==
    ASSUME NEW a \in Seq(Byte), NEW b \in Seq(Byte)
    PROVE  Parse(a \o b) = Join(Parse(a), Parse(Parse(a).rest \o b))
<1> DEFINE p == Parse(a)
           G == {c \in Seq(Byte) : Parse(a \o c) = Join(p, Parse(p.rest \o c))}
<1>1. /\ p \in Parsed /\ Parse(p.rest) = [out |-> <<>>, rest |-> p.rest]
      /\ Parse(a) = p
    BY ParseRest
<1> HIDE DEF p
<1>2. p.rest \in Seq(Byte) /\ p.out \in Seq(ChatEvent) /\ p = [out |-> p.out, rest |-> p.rest]
    BY <1>1 DEF Parsed
<1>3. <<>> \in G
    <2>1. a \o <<>> = a /\ p.rest \o <<>> = p.rest /\ p.out \o <<>> = p.out
        BY <1>2, ConcatEmptySeq
    <2>2. Join(p, Parse(p.rest)) = p
        BY <1>1, <1>2, <2>1 DEF Join
    <2>3. Parse(a \o <<>>) = Join(p, Parse(p.rest \o <<>>))
        BY <1>1, <2>1, <2>2
    <2> QED
        BY <2>3
<1>4. ASSUME NEW c \in Seq(Byte), NEW s \in Byte, c \in G PROVE Append(c, s) \in G
    <2> DEFINE q == Parse(p.rest \o c)
    <2>1. /\ a \o c \in Seq(Byte) /\ p.rest \o c \in Seq(Byte) /\ Append(c, s) \in Seq(Byte)
        BY <1>2, ConcatProperties
    <2>2. q \in Parsed
        BY <2>1, ParseRest
    <2>3. a \o Append(c, s) = Append(a \o c, s) /\ p.rest \o Append(c, s) = Append(p.rest \o c, s)
        BY <1>2, ConcatAppend
    <2>4. Parse(a \o Append(c, s)) = Push(Join(p, q), s)
        BY <1>4, <2>1, <2>3, ParseAppend
    <2>5. Parse(p.rest \o Append(c, s)) = Push(q, s)
        BY <2>1, <2>3, ParseAppend
    <2> HIDE DEF q
    <2>6. q.out \in Seq(ChatEvent) /\ q.rest \in Seq(Byte)
        BY <2>2 DEF Parsed
    <2>7. Push(Join(p, q), s) = Join(p, Push(q, s))
        <3>1. CASE s = LF /\ q.rest # <<>> /\ Last(q.rest) = LF
            <4> DEFINE e == Chat(ParseEvent(Front(q.rest)))
            <4>1. /\ Push(q, s) = [out |-> q.out \o e, rest |-> <<>>]
                  /\ Push(Join(p, q), s) = [out |-> (p.out \o q.out) \o e, rest |-> <<>>]
                BY <3>1 DEF Push, Join
            <4>2. e \in Seq(ChatEvent)
                <5>1. Front(q.rest) \in Seq(Byte)
                    BY <2>6, <3>1 DEF Front
                <5> QED
                    BY <5>1, ChatOfBytes
            <4> HIDE DEF e
            <4>3. (p.out \o q.out) \o e = p.out \o (q.out \o e)
                <5>1. PICK x \in Seq(ChatEvent), y \in Seq(ChatEvent), z \in Seq(ChatEvent) :
                        x = p.out /\ y = q.out /\ z = e
                    BY <1>2, <2>6, <4>2
                <5>2. (x \o y) \o z = x \o (y \o z)
                    BY EventsAssociative
                <5> QED
                    BY <5>1, <5>2
            <4> QED
                BY <4>1, <4>3 DEF Join
        <3>2. CASE ~(s = LF /\ q.rest # <<>> /\ Last(q.rest) = LF)
            BY <3>2 DEF Push, Join
        <3> QED
            BY <3>1, <3>2
    <2>8. Parse(a \o Append(c, s)) = Join(p, Parse(p.rest \o Append(c, s)))
        BY <2>4, <2>5, <2>7
    <2> QED
        BY <2>1, <2>8
<1> HIDE DEF G
<1>5. \A c \in Seq(Byte) : c \in G
    BY <1>3, <1>4, SequencesReached
<1> QED
    BY <1>1, <1>5 DEF G

\* A symbol that does not end an event stays in the buffer.
LEMMA ParseGoesOn ==
    ASSUME NEW b \in Seq(Byte), NEW s \in Byte, Parse(b) = [out |-> <<>>, rest |-> b],
           s # LF \/ b = <<>> \/ b[Len(b)] # LF
    PROVE  Parse(Append(b, s)) = [out |-> <<>>, rest |-> Append(b, s)]
<1>1. Parse(Append(b, s)) = Push([out |-> <<>>, rest |-> b], s)
    BY ParseAppend
<1>2. ~(s = LF /\ b # <<>> /\ Last(b) = LF)
    BY DEF Last
<1> QED
    BY <1>1, <1>2 DEF Push

\* An event that is sent comes out as it was sent, heartbeats do not come out, and
\* nothing is left in the buffer.
LEMMA ParseEncoded ==
    ASSUME NEW e \in EventName, NEW n \in Nat
    PROVE  /\ Encode(e, n) \in Seq(Byte)
           /\ Parse(Encode(e, n)) = [out |-> Chat(<<[event |-> e, n |-> n]>>), rest |-> <<>>]
<1> DEFINE E1 == Symbol("event:")
           E2 == Symbol(e)
           E4 == Symbol("data:")
           E5 == <<"payload", n>>
<1>1. E1 \in Byte /\ E2 \in Byte /\ LF \in Byte /\ E4 \in Byte /\ E5 \in Byte
    BY DEF Byte
<1>2. E1 # LF /\ E2 # LF /\ E4 # LF /\ E5 # LF
    BY DEF Symbol, LF, EventName
<1>3. Encode(e, n) = <<E1, E2, LF, E4, E5, LF, LF>>
    BY DEF Encode
<1> DEFINE b1 == <<E1>>
           b2 == <<E1, E2>>
           b3 == <<E1, E2, LF>>
           b4 == <<E1, E2, LF, E4>>
           b5 == <<E1, E2, LF, E4, E5>>
           b6 == <<E1, E2, LF, E4, E5, LF>>
           b7 == <<E1, E2, LF, E4, E5, LF, LF>>
<1>4. E1 # E4 /\ E2 # E4 /\ LF # E4 /\ E2 # E1 /\ LF # E1 /\ E2[1] = e /\ E5[2] = n
    BY DEF Symbol, LF, EventName
<1> HIDE DEF E1, E2, E4, E5
<1>5. /\ b1 \in Seq(Byte) /\ Len(b1) = 1 /\ b1[1] = E1
      /\ b2 \in Seq(Byte) /\ Len(b2) = 2 /\ b2[1] = E1 /\ b2[2] = E2
      /\ b3 \in Seq(Byte) /\ Len(b3) = 3 /\ b3[1] = E1 /\ b3[2] = E2 /\ b3[3] = LF
    BY <1>1
<1>6. /\ b4 \in Seq(Byte) /\ Len(b4) = 4
      /\ b4[1] = E1 /\ b4[2] = E2 /\ b4[3] = LF /\ b4[4] = E4
    BY <1>1
<1>7. /\ b5 \in Seq(Byte) /\ Len(b5) = 5
      /\ b5[1] = E1 /\ b5[2] = E2 /\ b5[3] = LF /\ b5[4] = E4 /\ b5[5] = E5
    BY <1>1
<1>8. /\ b6 \in Seq(Byte) /\ Len(b6) = 6
      /\ b6[1] = E1 /\ b6[2] = E2 /\ b6[3] = LF /\ b6[4] = E4 /\ b6[5] = E5 /\ b6[6] = LF
    BY <1>1
<1>9. /\ b7 \in Seq(Byte) /\ Len(b7) = 7
      /\ b7[1] = E1 /\ b7[2] = E2 /\ b7[3] = LF /\ b7[4] = E4 /\ b7[5] = E5
      /\ b7[6] = LF /\ b7[7] = LF
    BY <1>1
<1>10. Encode(e, n) = b7
    BY <1>3
<1> HIDE DEF b1, b2, b3, b4, b5, b6, b7
<1>11. /\ b1 = Append(<<>>, E1) /\ b2 = Append(b1, E2) /\ b3 = Append(b2, LF)
       /\ b4 = Append(b3, E4) /\ b5 = Append(b4, E5) /\ b6 = Append(b5, LF)
       /\ b7 = Append(b6, LF)
    <2>1. b1 = Append(<<>>, E1)
        BY DEF b1
    <2>2. b2 = Append(b1, E2)
        <3>1. Len(b2) = Len(b1) + 1 /\ b2[Len(b2)] = E2
            BY <1>5
        <3>2. \A i \in 1 .. Len(b1) : b2[i] = b1[i]
            BY <1>5
        <3> QED
            BY <1>1, <1>5, <3>1, <3>2, AppendTo
    <2>3. b3 = Append(b2, LF)
        <3>1. Len(b3) = Len(b2) + 1 /\ b3[Len(b3)] = LF
            BY <1>5
        <3>2. \A i \in 1 .. Len(b2) : b3[i] = b2[i]
            BY <1>5
        <3> QED
            BY <1>1, <1>5, <3>1, <3>2, AppendTo
    <2>4. b4 = Append(b3, E4)
        <3>1. Len(b4) = Len(b3) + 1 /\ b4[Len(b4)] = E4
            BY <1>5, <1>6
        <3>2. \A i \in 1 .. Len(b3) : b4[i] = b3[i]
            BY <1>5, <1>6
        <3> QED
            BY <1>1, <1>5, <1>6, <3>1, <3>2, AppendTo
    <2>5. b5 = Append(b4, E5)
        <3>1. Len(b5) = Len(b4) + 1 /\ b5[Len(b5)] = E5
            BY <1>6, <1>7
        <3>2. \A i \in 1 .. Len(b4) : b5[i] = b4[i]
            BY <1>6, <1>7
        <3> QED
            BY <1>1, <1>6, <1>7, <3>1, <3>2, AppendTo
    <2>6. b6 = Append(b5, LF)
        <3>1. Len(b6) = Len(b5) + 1 /\ b6[Len(b6)] = LF
            BY <1>7, <1>8
        <3>2. \A i \in 1 .. Len(b5) : b6[i] = b5[i]
            BY <1>7, <1>8
        <3> QED
            BY <1>1, <1>7, <1>8, <3>1, <3>2, AppendTo
    <2>7. b7 = Append(b6, LF)
        <3>1. Len(b7) = Len(b6) + 1 /\ b7[Len(b7)] = LF
            BY <1>8, <1>9
        <3>2. \A i \in 1 .. Len(b6) : b7[i] = b6[i]
            BY <1>8, <1>9
        <3> QED
            BY <1>1, <1>8, <1>9, <3>1, <3>2, AppendTo
    <2> QED
        BY <2>1, <2>2, <2>3, <2>4, <2>5, <2>6, <2>7
<1>12. Front(b6) = b5
    <2>1. Front(b6) = SubSeq(b6, 1, 5)
        BY <1>8 DEF Front
    <2>2. \A i \in 1 .. 5 : b6[i] \in Byte
        BY <1>8, ElementOfSeq
    <2> DEFINE g == SubSeq(b6, 1, 5)
    <2>3. g \in Seq(Byte) /\ Len(g) = 5 /\ \A i \in 1 .. 5 : g[i] = b6[i]
        BY <2>2, SubSeqProperties
    <2> HIDE DEF g
    <2>4. \A i \in 1 .. 5 : g[i] = b5[i]
        BY <1>7, <1>8, <2>3
    <2>5. g = b5
        BY <1>7, <2>3, <2>4, SeqEqual
    <2> QED
        BY <2>1, <2>5 DEF g
<1>13. ParseEvent(b5) = <<[event |-> e, n |-> n]>>
    <2>1. 1 .. Len(b5) - 1 = {1, 2, 3, 4}
        BY <1>7
    <2>2. Lines(b5, "data:") = {4} /\ Lines(b5, "event:") = {1}
        BY <1>4, <1>7, <2>1 DEF Lines, E1, E4
    <2> DEFINE d == CHOOSE i \in Lines(b5, "data:") : \A k \in Lines(b5, "data:") : k <= i
               v == CHOOSE i \in Lines(b5, "event:") : \A k \in Lines(b5, "event:") : k <= i
    <2>3. d = 4 /\ v = 1
        <3>1. \E i \in {4} : \A k \in {4} : k <= i
            OBVIOUS
        <3>2. \E i \in {1} : \A k \in {1} : k <= i
            OBVIOUS
        <3>3. d \in Lines(b5, "data:")
            BY <2>2, <3>1
        <3>4. v \in Lines(b5, "event:")
            BY <2>2, <3>2
        <3> HIDE DEF d, v
        <3> QED
            BY <2>2, <3>3, <3>4
    <2>4. Value(b5, "data:") = E5 /\ Value(b5, "event:") = E2
        <3>1. Value(b5, "data:") = b5[d + 1] /\ Value(b5, "event:") = b5[v + 1]
            BY DEF Value
        <3> HIDE DEF d, v
        <3> QED
            BY <1>7, <2>3, <3>1
    <2> QED
        BY <1>4, <2>2, <2>4 DEF ParseEvent
<1>14. Parse(b5) = [out |-> <<>>, rest |-> b5]
    <2>1. Parse(b1) = [out |-> <<>>, rest |-> b1]
        BY <1>1, <1>2, <1>11, ParseNothing, ParseGoesOn, EmptySeq DEF Nothing
    <2>2. Parse(b2) = [out |-> <<>>, rest |-> b2]
        BY <1>1, <1>2, <1>5, <1>11, <2>1, ParseGoesOn
    <2>3. Parse(b3) = [out |-> <<>>, rest |-> b3]
        BY <1>1, <1>2, <1>5, <1>11, <2>2, ParseGoesOn
    <2>4. Parse(b4) = [out |-> <<>>, rest |-> b4]
        BY <1>1, <1>2, <1>5, <1>11, <2>3, ParseGoesOn
    <2> QED
        BY <1>1, <1>2, <1>6, <1>11, <2>4, ParseGoesOn
<1>15. Parse(b6) = [out |-> <<>>, rest |-> b6]
    BY <1>1, <1>2, <1>7, <1>11, <1>14, ParseGoesOn
<1>16. Parse(b7) = [out |-> Chat(<<[event |-> e, n |-> n]>>), rest |-> <<>>]
    <2>1. Parse(b7) = Push([out |-> <<>>, rest |-> b6], LF)
        BY <1>1, <1>8, <1>11, <1>15, ParseAppend
    <2>2. b6 # <<>> /\ Last(b6) = LF
        BY <1>8 DEF Last
    <2>3. Push([out |-> <<>>, rest |-> b6], LF)
            = [out |-> <<>> \o Chat(<<[event |-> e, n |-> n]>>), rest |-> <<>>]
        BY <1>12, <1>13, <2>2 DEF Push
    <2>4. <<>> \o Chat(<<[event |-> e, n |-> n]>>) = Chat(<<[event |-> e, n |-> n]>>)
        BY DEF Chat
    <2> QED
        BY <2>1, <2>3, <2>4
<1> QED
    BY <1>9, <1>10, <1>16

-----------------------------------------------------------------------------
(* The invariant.                                                           *)

\* What the page will have read of what was sent so far, and with the event that
\* events() is about to yield.
Sent == read \o Parse(buffer \o wire).out
Pending == IF at = "send" THEN Chat(<<[event |-> sending.event, n |-> sending.n]>>) ELSE <<>>
Said == Sent \o Pending

\* The loop over the queue goes on; it is left for good.
Looping == at = "get" \/ (at = "send" /\ sending.next = "get")
Ending == at \in {"closing", "gather", "closed"} \/ (at = "send" /\ sending.next = "closing")

\* The parser is between two symbols, and what was sent ends with an event.
WireOK ==
    /\ read \in Seq(ChatEvent) /\ buffer \in Seq(Byte) /\ wire \in Seq(Byte)
    /\ Parse(buffer) = [out |-> <<>>, rest |-> buffer]
    /\ Parse(buffer \o wire).rest = <<>>
SendingOK ==
    /\ at \in {"get", "send", "record", "commit", "closing", "gather", "closed"}
    /\ at = "send" =>
          /\ sending.event \in EventName /\ sending.n \in Nat
          /\ sending.next = IF sending.event \in {"chunk", "heartbeat"} THEN "get" ELSE "closing"
\* The chunks are numbered, but for the empty last one of a whole reply.
MadeOK ==
    /\ made \in Seq(Nat) /\ whole \in BOOLEAN /\ producer \in {"running", "cancelled", "ended"}
    /\ \A i \in 1 .. Len(made) : made[i] = IF whole /\ i = Len(made) THEN 0 ELSE i
    /\ whole => Len(made) > 0 /\ producer = "ended"
\* What is said are the first chunks, and then nothing or how it ended.
HeardOK ==
    \A i \in 1 .. Len(Said) :
        IF Said[i].event = "chunk" THEN i <= Len(made) /\ Said[i].n = made[i]
        ELSE /\ Ending /\ producer # "running"
             /\ i = Len(Said) /\ i = Len(made) + 1
             /\ Said[i].event = IF turn = Unrecorded THEN "error" ELSE "done"
\* The queue holds the other chunks and how it ended; the text is that of the chunks taken.
LoopOK ==
    /\ producer # "cancelled" /\ turn = Unrecorded
    /\ Len(Said) <= Len(made)
    /\ Len(queue) = (Len(made) - Len(Said)) + (IF producer = "running" THEN 0 ELSE 1)
    /\ \A j \in 1 .. Len(queue) :
          /\ Len(Said) + j <= Len(made) =>
                queue[j].kind = "chunk" /\ queue[j].n = made[Len(Said) + j]
          /\ Len(Said) + j > Len(made) =>
                queue[j].kind = IF whole THEN "finished" ELSE "failed"
    /\ Len(text) = IF whole /\ Len(Said) = Len(made) THEN Len(Said) - 1 ELSE Len(Said)
    /\ \A i \in 1 .. Len(text) : text[i] = made[i]
QueueOK ==
    /\ queue \in Seq([kind : {"chunk", "finished", "failed"}, n : Nat])
    /\ text \in Seq(Nat)
    /\ Looping => LoopOK
RecordOK ==
    at \in {"record", "commit"} =>
        /\ whole /\ turn = Unrecorded /\ Len(Said) = Len(made)
        /\ text \o <<0>> = made
TurnOK == turn # Unrecorded => whole /\ turn \o <<0>> = made

ChannelInv == WireOK /\ SendingOK
OrderInv == MadeOK /\ HeardOK /\ QueueOK /\ RecordOK /\ TurnOK
StreamInv == ChannelInv /\ OrderInv

-----------------------------------------------------------------------------
(* What each step does to what is said.                                     *)

LEMMA ChatTyped ==
    ASSUME NEW e \in EventName, NEW n \in Nat
    PROVE  Chat(<<[event |-> e, n |-> n]>>) \in Seq(ChatEvent)
<1> DEFINE c == Chat(<<[event |-> e, n |-> n]>>)
<1>1. Encode(e, n) \in Seq(Byte) /\ Parse(Encode(e, n)) = [out |-> c, rest |-> <<>>]
    BY ParseEncoded
<1> HIDE DEF c
<1>2. [out |-> c, rest |-> <<>>] \in Parsed
    BY <1>1, ParseRest
<1>3. c \in Seq(ChatEvent)
    BY <1>2 DEF Parsed
<1> QED
    BY <1>3 DEF c

LEMMA ChatIs ==
    ASSUME NEW e, NEW n
    PROVE  Chat(<<[event |-> e, n |-> n]>>)
             = IF e \in {"chunk", "done", "error"} THEN <<[event |-> e, n |-> n]>> ELSE <<>>
BY DEF Chat

LEMMA SaidTyped ==
    ASSUME ChannelInv
    PROVE  Sent \in Seq(ChatEvent) /\ Pending \in Seq(ChatEvent) /\ Said \in Seq(ChatEvent)
<1>1. buffer \o wire \in Seq(Byte) /\ read \in Seq(ChatEvent)
    BY ConcatProperties DEF ChannelInv, WireOK
<1>2. Parse(buffer \o wire).out \in Seq(ChatEvent)
    BY <1>1, ParseRest DEF Parsed
<1>3. Sent \in Seq(ChatEvent)
    BY <1>1, <1>2, ConcatProperties DEF Sent
<1>4. Pending \in Seq(ChatEvent)
    <2>1. CASE at = "send"
        <3>1. sending.event \in EventName /\ sending.n \in Nat
            BY <2>1 DEF ChannelInv, SendingOK
        <3> QED
            BY <2>1, <3>1, ChatTyped DEF Pending
    <2>2. CASE at # "send"
        BY <2>2, EmptySeq DEF Pending
    <2> QED
        BY <2>1, <2>2
<1> QED
    BY <1>3, <1>4, ConcatProperties DEF Said

\* Reading moves what was said nearer to the page, wherever it is cut.
LEMMA ReadKeeps ==
    ASSUME ChannelInv, Read
    PROVE  ChannelInv' /\ Said' = Said
<1>1. PICK k \in 1 .. Len(wire) :
        /\ read' = read \o Parse(buffer \o SubSeq(wire, 1, k)).out
        /\ buffer' = Parse(buffer \o SubSeq(wire, 1, k)).rest
        /\ wire' = SubSeq(wire, k + 1, Len(wire))
    BY DEF Read
<1>2. /\ read \in Seq(ChatEvent) /\ buffer \in Seq(Byte) /\ wire \in Seq(Byte)
      /\ Parse(buffer \o wire).rest = <<>>
    BY DEF ChannelInv, WireOK
<1>3. UNCHANGED <<at, sending>>
    BY DEF Read, server
<1> DEFINE u == SubSeq(wire, 1, k)
           v == SubSeq(wire, k + 1, Len(wire))
           a == buffer \o u
<1>4. u \in Seq(Byte) /\ v \in Seq(Byte) /\ u \o v = wire
    <2>1. Len(wire) \in Nat /\ k \in 1 .. Len(wire)
        BY <1>2
    <2>2. u \in Seq(Byte) /\ v \in Seq(Byte)
        BY <1>2, <2>1
    <2>3. SubSeq(wire, 1, k) \o SubSeq(wire, k + 1, Len(wire)) = SubSeq(wire, 1, Len(wire))
        BY <1>2, <2>1, ConcatAdjacentSubSeq
    <2> QED
        BY <1>2, <2>2, <2>3, SubSeqFull
<1> HIDE DEF u, v
<1>5. a \in Seq(Byte) /\ buffer \o wire = a \o v
    <2>1. a \in Seq(Byte)
        BY <1>2, <1>4, ConcatProperties
    <2>2. (buffer \o u) \o v = buffer \o (u \o v)
        BY <1>2, <1>4, BytesAssociative, Zenon
    <2>3. (buffer \o u) \o v = buffer \o wire
        BY <1>4, <2>2, Zenon
    <2> QED
        BY <2>1, <2>3
<1> DEFINE p == Parse(a)
<1>6. read' = read \o p.out /\ buffer' = p.rest /\ wire' = v
    BY <1>1 DEF u, v
<1>7. /\ p \in Parsed /\ Parse(p.rest) = [out |-> <<>>, rest |-> p.rest]
      /\ Parse(a \o v) = Join(p, Parse(p.rest \o v))
    BY <1>4, <1>5, ParseRest, ParseConcat
<1> HIDE DEF a, p
<1>8. p.out \in Seq(ChatEvent) /\ p.rest \in Seq(Byte) /\ p.rest \o v \in Seq(Byte)
    BY <1>4, <1>7, ConcatProperties DEF Parsed
<1> DEFINE q == Parse(p.rest \o v)
<1>9. q.out \in Seq(ChatEvent)
    BY <1>8, ParseRest DEF Parsed
<1>10. Parse(buffer \o wire) = Join(p, q) /\ Parse(buffer' \o wire') = q
    BY <1>5, <1>6, <1>7
<1> HIDE DEF q
<1>11. WireOK'
    <2>1. read' \in Seq(ChatEvent)
        BY <1>2, <1>6, <1>8, ConcatProperties
    <2>2. Parse(buffer') = [out |-> <<>>, rest |-> buffer']
        BY <1>6, <1>7
    <2>3. Parse(buffer' \o wire').rest = <<>>
        BY <1>2, <1>10 DEF Join
    <2> QED
        BY <1>4, <1>6, <1>7, <1>8, <2>1, <2>3 DEF WireOK
<1>12. Sent' = Sent
    <2>1. Sent' = (read \o p.out) \o q.out
        <3>1. Sent' = read' \o Parse(buffer' \o wire').out
            BY Zenon DEF Sent
        <3> QED
            BY <1>6, <1>10, <3>1, Zenon
    <2>2. Parse(buffer \o wire).out = p.out \o q.out
        <3>1. Join(p, q).out = p.out \o q.out
            BY DEF Join
        <3> QED
            BY <1>10, <3>1, Zenon
    <2>3. Sent = read \o (p.out \o q.out)
        BY <2>2, Zenon DEF Sent
    <2>4. (read \o p.out) \o q.out = read \o (p.out \o q.out)
        BY <1>2, <1>8, <1>9, EventsAssociative, Zenon
    <2> QED
        BY <2>1, <2>3, <2>4, Zenon
<1>13. Said' = Said
    BY <1>3, <1>12 DEF Said, Pending
<1>14. SendingOK'
    BY <1>3 DEF ChannelInv, SendingOK
<1> QED
    BY <1>11, <1>13, <1>14 DEF ChannelInv

\* Sending puts on the wire what events() was about to yield.
LEMMA SendKeeps ==
    ASSUME ChannelInv, Send
    PROVE  ChannelInv' /\ Said' = Said
<1>1. /\ at = "send" /\ at' = sending.next
      /\ wire' = wire \o Encode(sending.event, sending.n)
      /\ UNCHANGED <<buffer, read>>
    BY DEF Send, page
<1>2. /\ read \in Seq(ChatEvent) /\ buffer \in Seq(Byte) /\ wire \in Seq(Byte)
      /\ Parse(buffer) = [out |-> <<>>, rest |-> buffer]
      /\ Parse(buffer \o wire).rest = <<>>
    BY DEF ChannelInv, WireOK
<1>3. /\ sending.event \in EventName /\ sending.n \in Nat
      /\ sending.next \in {"get", "closing"}
    BY <1>1 DEF ChannelInv, SendingOK
<1> DEFINE E == Encode(sending.event, sending.n)
           c == Chat(<<[event |-> sending.event, n |-> sending.n]>>)
           p == Parse(buffer \o wire)
<1>4. E \in Seq(Byte) /\ Parse(E) = [out |-> c, rest |-> <<>>] /\ c \in Seq(ChatEvent)
    BY <1>3, ParseEncoded, ChatTyped
<1>5. wire' = wire \o E /\ Pending = c
    BY <1>1 DEF Pending
<1> HIDE DEF E, c
<1>6. /\ wire' \in Seq(Byte) /\ buffer \o wire \in Seq(Byte)
      /\ buffer \o wire' = (buffer \o wire) \o E
    <2>1. wire' \in Seq(Byte) /\ buffer \o wire \in Seq(Byte)
        BY <1>2, <1>4, <1>5, ConcatProperties
    <2>2. (buffer \o wire) \o E = buffer \o (wire \o E)
        BY <1>2, <1>4, BytesAssociative, Zenon
    <2>3. buffer \o wire' = (buffer \o wire) \o E
        BY <1>5, <2>2, Zenon
    <2> QED
        BY <2>1, <2>3
<1>7. p \in Parsed /\ Parse((buffer \o wire) \o E) = Join(p, Parse(p.rest \o E))
    BY <1>4, <1>6, ParseConcat, ParseRest
<1>8. p.rest \o E = E
    BY <1>2, <1>4, ConcatEmptySeq
<1>9. Parse(buffer \o wire') = [out |-> p.out \o c, rest |-> <<>>]
    <2>1. Parse(buffer \o wire') = Join(p, Parse(E))
        BY <1>6, <1>7, <1>8, Zenon
    <2> QED
        BY <1>4, <2>1 DEF Join
<1>10. WireOK'
    BY <1>1, <1>2, <1>6, <1>9 DEF WireOK
<1>11. Sent' = Said
    <2>1. Sent' = read \o (p.out \o c)
        <3>1. Sent' = read' \o Parse(buffer' \o wire').out
            BY Zenon DEF Sent
        <3>2. Parse(buffer' \o wire').out = p.out \o c
            BY <1>1, <1>9
        <3> QED
            BY <1>1, <3>1, <3>2, Zenon
    <2>2. Said = (read \o p.out) \o c
        BY <1>5 DEF Said, Sent
    <2>3. p.out \in Seq(ChatEvent)
        BY <1>7 DEF Parsed
    <2>4. (read \o p.out) \o c = read \o (p.out \o c)
        BY <1>2, <1>4, <2>3, EventsAssociative, Zenon
    <2> QED
        BY <2>1, <2>2, <2>4, Zenon
<1>12. Said' = Sent' \o <<>>
    BY <1>1, <1>3 DEF Said, Pending
<1>13. SendingOK'
    BY <1>1, <1>3 DEF SendingOK
<1>14. ChannelInv'
    BY <1>10, <1>13 DEF ChannelInv
<1>15. Said' = Said
    BY <1>11, <1>12, SaidTyped, ConcatEmptySeq
<1> QED
    BY <1>14, <1>15


LEMMA ChannelStill ==
    ASSUME ChannelInv, UNCHANGED <<wire, page>>
    PROVE  WireOK' /\ Sent' = Sent
<1>1. read' = read /\ buffer' = buffer /\ wire' = wire
    BY DEF page
<1>2. Sent' = Sent
    BY <1>1, Zenon DEF Sent
<1>3. WireOK'
    BY <1>1 DEF ChannelInv, WireOK
<1> QED
    BY <1>2, <1>3

LEMMA NothingSaid ==
    ASSUME ChannelInv, UNCHANGED <<wire, page>>,
           \/ UNCHANGED <<at, sending>>
           \/ at # "send" /\ at' \in {"record", "commit", "closing", "gather", "closed"}
    PROVE  ChannelInv' /\ Said' = Said
<1>1. WireOK' /\ Sent' = Sent
    BY ChannelStill
<1>2. SendingOK'
    BY DEF ChannelInv, SendingOK
<1>3. Pending' = Pending
    <2>1. CASE UNCHANGED <<at, sending>>
        BY <2>1 DEF Pending
    <2>2. CASE at # "send" /\ at' \in {"record", "commit", "closing", "gather", "closed"}
        BY <2>2 DEF Pending
    <2> QED
        BY <2>1, <2>2
<1> QED
    BY <1>1, <1>2, <1>3 DEF Said, ChannelInv

\* One event is said after what was said.
Adds(e, n) ==
    /\ Len(Said') = Len(Said) + 1
    /\ \A i \in 1 .. Len(Said) : Said'[i] = Said[i]
    /\ Said'[Len(Said) + 1].event = e /\ Said'[Len(Said) + 1].n = n

LEMMA YieldSays ==
    ASSUME ChannelInv, UNCHANGED <<wire, page>>, at # "send",
           NEW e \in EventName, NEW n \in Nat, NEW next, Yield(e, n, next),
           next = IF e \in {"chunk", "heartbeat"} THEN "get" ELSE "closing"
    PROVE  /\ ChannelInv'
           /\ e = "heartbeat" => Said' = Said
           /\ e # "heartbeat" => Adds(e, n)
<1>1. WireOK' /\ Sent' = Sent
    BY ChannelStill
<1>2. /\ at' = "send" /\ sending' = [event |-> e, n |-> n, next |-> next]
      /\ sending'.event = e /\ sending'.n = n /\ sending'.next = next
    BY DEF Yield
<1>3. SendingOK'
    BY <1>2 DEF SendingOK
<1>4. ChannelInv'
    BY <1>1, <1>3 DEF ChannelInv
<1>5. Sent \in Seq(ChatEvent) /\ Said = Sent
    <2>1. Pending = <<>> /\ Sent \in Seq(ChatEvent)
        BY SaidTyped DEF Pending
    <2> QED
        BY <2>1, ConcatEmptySeq DEF Said
<1> DEFINE c == Chat(<<[event |-> e, n |-> n]>>)
<1>6. c \in Seq(ChatEvent)
    BY ChatTyped
<1>7. c = IF e = "heartbeat" THEN <<>> ELSE <<[event |-> e, n |-> n]>>
    BY ChatIs DEF EventName
<1>8. Pending' = c
    BY <1>2 DEF Pending
<1> HIDE DEF c
<1>9. Said' = Said \o c
    BY <1>1, <1>5, <1>8, Zenon DEF Said
<1>10. ASSUME e = "heartbeat" PROVE Said' = Said
    BY <1>5, <1>7, <1>9, <1>10, ConcatEmptySeq
<1>11. ASSUME e # "heartbeat" PROVE Adds(e, n)
    <2>1. /\ Len(c) = 1 /\ c[1] = [event |-> e, n |-> n]
        BY <1>7, <1>11
    <2>2. PICK x, y : x = Said /\ y = Said'
        OBVIOUS
    <2>3. x \in Seq(ChatEvent) /\ y = x \o c
        BY <1>5, <1>9, <2>2
    <2>4. /\ Len(x) \in Nat /\ Len(y) = Len(x) + 1
          /\ \A i \in 1 .. Len(x) + 1 : y[i] = IF i <= Len(x) THEN x[i] ELSE c[i - Len(x)]
        <3>1. /\ Len(x) \in Nat /\ Len(y) = Len(x) + Len(c)
              /\ \A i \in 1 .. Len(x) + Len(c) : y[i] = IF i <= Len(x) THEN x[i] ELSE c[i - Len(x)]
            BY <1>6, <2>3, ConcatProperties
        <3> QED
            BY <2>1, <3>1
    <2>5. y[Len(x) + 1] = c[1]
        BY <2>4
    <2>6. \A i \in 1 .. Len(x) : y[i] = x[i]
        BY <2>4
    <2> QED
        BY <2>1, <2>2, <2>4, <2>5, <2>6 DEF Adds
<1> QED
    BY <1>4, <1>10, <1>11

\* A cancellation drops what was about to be yielded.
Shortens ==
    /\ Len(Said') \in Nat /\ Len(Said') <= Len(Said)
    /\ \A i \in 1 .. Len(Said') : Said'[i] = Said[i]

LEMMA CancelShortens ==
    ASSUME ChannelInv, Cancel
    PROVE  ChannelInv' /\ Shortens
<1>1. UNCHANGED <<wire, page, sending>> /\ at' = "closing"
    BY DEF Cancel, Rest
<1>2. WireOK' /\ Sent' = Sent
    BY <1>1, ChannelStill
<1>3. SendingOK'
    BY <1>1 DEF SendingOK
<1>4. Sent \in Seq(ChatEvent) /\ Pending \in Seq(ChatEvent)
    BY SaidTyped
<1>5. Said' = Sent
    <2>1. Pending' = <<>>
        BY <1>1 DEF Pending
    <2>2. Said' = Sent \o <<>>
        BY <1>2, <2>1, Zenon DEF Said
    <2> QED
        BY <1>4, <2>2, ConcatEmptySeq
<1>6. Shortens
    <2>1. PICK x, y, z : x = Said /\ y = Sent /\ z = Pending
        OBVIOUS
    <2>2. x = y \o z /\ y \in Seq(ChatEvent) /\ z \in Seq(ChatEvent)
        BY <1>4, <2>1, Zenon DEF Said
    <2>3. /\ Len(x) = Len(y) + Len(z) /\ Len(y) \in Nat /\ Len(z) \in Nat
          /\ \A i \in 1 .. Len(y) + Len(z) : x[i] = IF i <= Len(y) THEN y[i] ELSE z[i - Len(y)]
        BY <2>2, ConcatProperties
    <2>4. \A i \in 1 .. Len(y) : y[i] = x[i]
        BY <2>3
    <2> QED
        BY <1>5, <2>1, <2>3, <2>4 DEF Shortens
<1> QED
    BY <1>2, <1>3, <1>6 DEF ChannelInv


-----------------------------------------------------------------------------
(* Each step keeps the order of what is said.                               *)

\* A step that says nothing, and neither puts nor takes.
LEMMA OrderFacts ==
    ASSUME StreamInv
    PROVE  /\ made \in Seq(Nat) /\ text \in Seq(Nat) /\ whole \in BOOLEAN
           /\ queue \in Seq([kind : {"chunk", "finished", "failed"}, n : Nat])
           /\ Len(made) \in Nat /\ Len(text) \in Nat /\ Len(queue) \in Nat /\ Len(Said) \in Nat
           /\ Looping => LoopOK
BY SaidTyped DEF StreamInv, OrderInv, MadeOK, QueueOK

LEMMA OrderKept ==
    ASSUME StreamInv, UNCHANGED <<queue, text, made, whole, turn>>, Said' = Said,
           \/ producer' = producer
           \/ ~Looping' /\ producer # "ended" /\ producer' \in {"cancelled", "ended"},
           Looping' => Looping, Ending => Ending',
           at' \in {"record", "commit"} => at \in {"record", "commit"}
    PROVE  OrderInv'
<1>1. MadeOK'
    BY DEF StreamInv, OrderInv, MadeOK
<1>2. HeardOK'
    BY DEF StreamInv, OrderInv, HeardOK
<1>3. QueueOK'
    BY DEF StreamInv, OrderInv, MadeOK, QueueOK, LoopOK
<1>4. RecordOK'
    BY DEF StreamInv, OrderInv, RecordOK
<1>5. TurnOK'
    BY DEF StreamInv, OrderInv, TurnOK
<1> QED
    BY <1>1, <1>2, <1>3, <1>4, <1>5 DEF OrderInv

\* The loop while the graph runs: what is queued are the chunks that are not said.
Running ==
    /\ turn = Unrecorded /\ whole = FALSE
    /\ Len(Said) <= Len(made) /\ Len(queue) = Len(made) - Len(Said)
    /\ Len(text) = Len(Said)
    /\ \A i \in 1 .. Len(text) : text[i] = made[i]
    /\ \A j \in 1 .. Len(queue) :
          /\ Len(Said) + j \in 1 .. Len(made)
          /\ queue[j].kind = "chunk" /\ queue[j].n = made[Len(Said) + j]

LEMMA RunningLoop ==
    ASSUME StreamInv, producer = "running", Looping
    PROVE  Running
<1>1. LoopOK /\ Len(made) \in Nat /\ Len(queue) \in Nat /\ Len(Said) \in Nat
    BY OrderFacts
<1>2. whole = FALSE
    BY DEF StreamInv, OrderInv, MadeOK
<1>3. /\ turn = Unrecorded /\ Len(Said) <= Len(made)
      /\ Len(queue) = (Len(made) - Len(Said)) + 0
    BY <1>1 DEF LoopOK
<1>4. Len(text) = Len(Said)
    BY <1>1, <1>2 DEF LoopOK
<1>5. \A i \in 1 .. Len(text) : text[i] = made[i]
    BY <1>1 DEF LoopOK
<1>6. Len(queue) = Len(made) - Len(Said)
    BY <1>1, <1>3
<1>7. ASSUME NEW j \in 1 .. Len(queue)
      PROVE  /\ Len(Said) + j \in 1 .. Len(made)
             /\ queue[j].kind = "chunk" /\ queue[j].n = made[Len(Said) + j]
    <2>1. Len(Said) + j <= Len(made) /\ Len(Said) + j \in 1 .. Len(made)
        BY <1>1, <1>3, <1>6
    <2> QED
        BY <1>1, <2>1 DEF LoopOK
<1> QED
    BY <1>2, <1>3, <1>4, <1>5, <1>6, <1>7 DEF Running

\* How a chunk grows what was made.
LEMMA PutChunkOrder ==
    ASSUME StreamInv, PutChunk, Said' = Said
    PROVE  OrderInv'
<1>1. /\ producer = "running" /\ producer' = producer
      /\ made' = Append(made, Len(made) + 1)
      /\ queue' = queue \o <<[kind |-> "chunk", n |-> Len(made) + 1]>>
      /\ UNCHANGED <<at, text, sending, turn, whole>>
    BY DEF PutChunk, Item
<1>2. made \in Seq(Nat) /\ Len(made) \in Nat /\ whole = FALSE /\ Len(Said) \in Nat
    BY <1>1, SaidTyped DEF StreamInv, OrderInv, MadeOK
<1>3. /\ made' \in Seq(Nat) /\ Len(made') = Len(made) + 1
      /\ \A i \in 1 .. Len(made) : made'[i] = made[i]
      /\ made'[Len(made) + 1] = Len(made) + 1
    BY <1>1, <1>2, AppendProperties
<1>4. MadeOK'
    BY <1>1, <1>2, <1>3 DEF StreamInv, OrderInv, MadeOK
<1>5. HeardOK'
    BY <1>1, <1>2, <1>3 DEF StreamInv, OrderInv, HeardOK
<1>6. QueueOK'
    <2> DEFINE t == <<[kind |-> "chunk", n |-> Len(made) + 1]>>
               Items == [kind : {"chunk", "finished", "failed"}, n : Nat]
    <2>1. queue \in Seq(Items) /\ Len(queue) \in Nat
        BY DEF StreamInv, OrderInv, QueueOK
    <2>2. t \in Seq(Items) /\ Len(t) = 1 /\ t[1].kind = "chunk" /\ t[1].n = Len(made) + 1
        BY <1>2
    <2> HIDE DEF Items, t
    <2>3. /\ queue' \in Seq(Items) /\ Len(queue') = Len(queue) + Len(t)
          /\ \A j \in 1 .. Len(queue) + Len(t) :
                queue'[j] = IF j <= Len(queue) THEN queue[j] ELSE t[j - Len(queue)]
        BY <1>1, <2>1, <2>2, ConcatProperties DEF t
    <2>4. /\ Len(queue') = Len(queue) + 1
          /\ \A j \in 1 .. Len(queue) : queue'[j] = queue[j]
          /\ queue'[Len(queue) + 1].kind = "chunk" /\ queue'[Len(queue) + 1].n = Len(made) + 1
        BY <2>1, <2>2, <2>3
    <2>5. text' \in Seq(Nat)
        BY <1>1 DEF StreamInv, OrderInv, QueueOK
    <2>6. ASSUME Looping' PROVE LoopOK'
        <3>1. Looping
            BY <1>1, <2>6 DEF Looping
        <3>3. /\ turn = Unrecorded /\ Len(Said) <= Len(made)
              /\ Len(queue) = Len(made) - Len(Said)
              /\ Len(text) = Len(Said)
              /\ \A i \in 1 .. Len(text) : text[i] = made[i]
            BY <1>1, <3>1, RunningLoop DEF Running
        <3>4. ASSUME NEW j \in 1 .. Len(queue)
              PROVE  queue[j].kind = "chunk" /\ queue[j].n = made[Len(Said) + j]
            BY <1>1, <3>1, RunningLoop DEF Running
        <3>5. ASSUME NEW j \in 1 .. Len(queue')
              PROVE  /\ Len(Said) + j <= Len(made')
                     /\ queue'[j].kind = "chunk" /\ queue'[j].n = made'[Len(Said) + j]
            <4>1. CASE j <= Len(queue)
                <5>1. j \in 1 .. Len(queue) /\ Len(Said) + j \in 1 .. Len(made)
                    BY <1>2, <2>1, <3>3, <4>1
                <5>2. queue'[j] = queue[j]
                    BY <2>4, <5>1
                <5>3. made'[Len(Said) + j] = made[Len(Said) + j]
                    BY <1>3, <5>1
                <5>4. queue[j].kind = "chunk" /\ queue[j].n = made[Len(Said) + j]
                    BY <3>4, <5>1
                <5>5. Len(Said) + j <= Len(made')
                    BY <1>2, <1>3, <5>1
                <5> QED
                    BY <5>2, <5>3, <5>4, <5>5
            <4>2. CASE j = Len(queue) + 1
                BY <1>2, <1>3, <2>1, <2>4, <3>3, <4>2
            <4> QED
                BY <2>1, <2>4, <4>1, <4>2
        <3>6. \A i \in 1 .. Len(text') : text'[i] = made'[i]
            BY <1>1, <1>2, <1>3, <3>3
        <3>7. /\ Len(Said') <= Len(made') /\ Len(queue') = Len(made') - Len(Said')
              /\ Len(text') = Len(Said') /\ Len(Said') # Len(made')
            BY <1>1, <1>2, <1>3, <2>4, <3>3
        <3>8. turn' = Unrecorded /\ producer' = "running" /\ whole' = FALSE
            BY <1>1, <1>2, <3>3
        <3>9. \A j \in 1 .. Len(queue') :
                 /\ Len(Said') + j <= Len(made') =>
                       queue'[j].kind = "chunk" /\ queue'[j].n = made'[Len(Said') + j]
                 /\ Len(Said') + j > Len(made') =>
                       queue'[j].kind = IF whole' THEN "finished" ELSE "failed"
            BY <3>5, <1>2, <1>3
        <3>10. Len(queue') = (Len(made') - Len(Said')) + 0
            BY <1>2, <1>3, <3>7
        <3> QED
            BY <3>6, <3>7, <3>8, <3>9, <3>10 DEF LoopOK
    <2> QED
        BY <2>3, <2>5, <2>6 DEF QueueOK, Items
<1>7. RecordOK'
    BY <1>1, <1>2 DEF StreamInv, OrderInv, RecordOK
<1>8. TurnOK'
    BY <1>1, <1>2 DEF StreamInv, OrderInv, TurnOK
<1> QED
    BY <1>4, <1>5, <1>6, <1>7, <1>8 DEF OrderInv

\* The end of the graph puts what is said last.
LEMMA CompleteOrder ==
    ASSUME StreamInv, Complete, Said' = Said
    PROVE  OrderInv'
<1> DEFINE t == <<[kind |-> "chunk", n |-> 0]>> \o <<[kind |-> "finished", n |-> 0]>>
           Items == [kind : {"chunk", "finished", "failed"}, n : Nat]
<1>1. /\ producer = "running" /\ producer' = "ended" /\ queue' = queue \o t
      /\ made' = Append(made, 0) /\ whole' = TRUE
      /\ UNCHANGED <<at, text, sending, turn>>
    BY DEF Complete, EndWith, Item
<1>2. /\ made \in Seq(Nat) /\ Len(made) \in Nat /\ whole = FALSE /\ Len(Said) \in Nat
      /\ queue \in Seq(Items) /\ Len(queue) \in Nat /\ text \in Seq(Nat)
    BY <1>1, OrderFacts DEF StreamInv, OrderInv, MadeOK
<1>3. /\ made' \in Seq(Nat) /\ Len(made') = Len(made) + 1
      /\ \A i \in 1 .. Len(made) : made'[i] = made[i]
      /\ made'[Len(made) + 1] = 0
    BY <1>1, <1>2, AppendProperties
<1>4. MadeOK'
    BY <1>1, <1>2, <1>3 DEF StreamInv, OrderInv, MadeOK
<1>5. HeardOK'
    BY <1>1, <1>2, <1>3 DEF StreamInv, OrderInv, HeardOK
<1>6. /\ t \in Seq(Items) /\ Len(t) = 2
      /\ t[1].kind = "chunk" /\ t[1].n = 0 /\ t[2].kind = "finished"
    <2> DEFINE x == <<[kind |-> "chunk", n |-> 0]>>
               y == <<[kind |-> "finished", n |-> 0]>>
    <2>1. /\ x \in Seq(Items) /\ Len(x) = 1 /\ x[1].kind = "chunk" /\ x[1].n = 0
          /\ y \in Seq(Items) /\ Len(y) = 1 /\ y[1].kind = "finished"
          /\ t = x \o y
        OBVIOUS
    <2> HIDE DEF x, y, t, Items
    <2>2. /\ x \o y \in Seq(Items) /\ Len(x \o y) = Len(x) + Len(y)
          /\ \A i \in 1 .. Len(x) + Len(y) : (x \o y)[i] = IF i <= Len(x) THEN x[i] ELSE y[i - Len(x)]
        BY <2>1, ConcatProperties
    <2>3. Len(t) = 2 /\ t[1] = x[1] /\ t[2] = y[1]
        BY <2>1, <2>2
    <2> QED
        BY <2>1, <2>2, <2>3
<1> HIDE DEF Items, t
<1>7. /\ queue' \in Seq(Items) /\ Len(queue') = Len(queue) + Len(t)
      /\ \A j \in 1 .. Len(queue) + Len(t) :
            queue'[j] = IF j <= Len(queue) THEN queue[j] ELSE t[j - Len(queue)]
    BY <1>1, <1>2, <1>6, ConcatProperties
<1>8. /\ Len(queue') = Len(queue) + 2
      /\ \A j \in 1 .. Len(queue) : queue'[j] = queue[j]
      /\ queue'[Len(queue) + 1].kind = "chunk" /\ queue'[Len(queue) + 1].n = 0
      /\ queue'[Len(queue) + 2].kind = "finished"
    <2>1. queue'[Len(queue) + 1] = t[1] /\ queue'[Len(queue) + 2] = t[2]
        BY <1>2, <1>6, <1>7
    <2> QED
        BY <1>2, <1>6, <1>7, <2>1
<1>9. ASSUME Looping' PROVE LoopOK'
    <2>1. Looping
        BY <1>1, <1>9 DEF Looping
    <2>2. Running
        BY <1>1, <2>1, RunningLoop
    <2>3. /\ turn = Unrecorded /\ Len(Said) <= Len(made) /\ Len(queue) = Len(made) - Len(Said)
          /\ Len(text) = Len(Said)
          /\ \A i \in 1 .. Len(text) : text[i] = made[i]
        BY <2>2 DEF Running
    <2>4. ASSUME NEW j \in 1 .. Len(queue')
          PROVE  /\ Len(Said) + j <= Len(made') =>
                       queue'[j].kind = "chunk" /\ queue'[j].n = made'[Len(Said) + j]
                 /\ Len(Said) + j > Len(made') => queue'[j].kind = "finished"
        <3>1. CASE j <= Len(queue)
            <4>1. j \in 1 .. Len(queue)
                BY <1>2, <3>1
            <4>2. /\ Len(Said) + j \in 1 .. Len(made)
                  /\ queue[j].kind = "chunk" /\ queue[j].n = made[Len(Said) + j]
                BY <2>2, <4>1 DEF Running
            <4>3. queue'[j] = queue[j] /\ made'[Len(Said) + j] = made[Len(Said) + j]
                BY <1>3, <1>8, <4>1, <4>2
            <4>4. ~(Len(Said) + j > Len(made'))
                BY <1>2, <1>3, <4>2
            <4> QED
                BY <4>2, <4>3, <4>4
        <3>2. CASE j = Len(queue) + 1
            <4>1. Len(Said) + j = Len(made) + 1
                BY <1>2, <2>3, <3>2
            <4>2. ~(Len(Said) + j > Len(made'))
                BY <1>2, <1>3, <4>1
            <4> QED
                BY <1>3, <1>8, <3>2, <4>1, <4>2
        <3>3. CASE j = Len(queue) + 2
            <4>1. ~(Len(Said) + j <= Len(made'))
                BY <1>2, <1>3, <2>3, <3>3
            <4> QED
                BY <1>8, <3>3, <4>1
        <3>4. j <= Len(queue) \/ j = Len(queue) + 1 \/ j = Len(queue) + 2
            <4>1. Len(queue') = Len(queue) + 2 /\ Len(queue) \in Nat /\ j \in 1 .. Len(queue')
                BY <1>2, <1>8
            <4> QED
                BY <4>1
        <3> QED
            BY <3>1, <3>2, <3>3, <3>4
    <2>5. \A i \in 1 .. Len(text') : text'[i] = made'[i]
        BY <1>1, <1>2, <1>3, <2>3
    <2>6. /\ Len(Said') <= Len(made') /\ Len(queue') = (Len(made') - Len(Said')) + 1
          /\ Len(text') = Len(Said') /\ Len(Said') # Len(made')
        BY <1>1, <1>2, <1>3, <1>8, <2>3
    <2>7. turn' = Unrecorded /\ producer' = "ended" /\ whole' = TRUE
        BY <1>1, <2>3
    <2> QED
        BY <2>4, <2>5, <2>6, <2>7 DEF LoopOK
<1>10. QueueOK'
    BY <1>1, <1>2, <1>7, <1>9 DEF QueueOK, Items
<1>11. RecordOK'
    BY <1>1, <1>2 DEF StreamInv, OrderInv, RecordOK
<1>12. TurnOK'
    BY <1>1, <1>2 DEF StreamInv, OrderInv, TurnOK
<1> QED
    BY <1>4, <1>5, <1>10, <1>11, <1>12 DEF OrderInv

LEMMA FailOrder ==
    ASSUME StreamInv, Fail, Said' = Said
    PROVE  OrderInv'
<1> DEFINE t == <<[kind |-> "failed", n |-> 0]>>
           Items == [kind : {"chunk", "finished", "failed"}, n : Nat]
<1>1. /\ producer = "running" /\ producer' = "ended" /\ queue' = queue \o t
      /\ UNCHANGED <<at, text, sending, turn, made, whole>>
    BY DEF Fail, EndWith, Item
<1>2. /\ made \in Seq(Nat) /\ Len(made) \in Nat /\ whole = FALSE /\ Len(Said) \in Nat
      /\ queue \in Seq(Items) /\ Len(queue) \in Nat /\ text \in Seq(Nat)
    BY <1>1, OrderFacts DEF StreamInv, OrderInv, MadeOK
<1>3. t \in Seq(Items) /\ Len(t) = 1 /\ t[1].kind = "failed"
    OBVIOUS
<1>4. MadeOK'
    BY <1>1, <1>2 DEF StreamInv, OrderInv, MadeOK
<1>5. HeardOK'
    BY <1>1 DEF StreamInv, OrderInv, HeardOK, Ending
<1> HIDE DEF Items, t
<1>6. /\ queue' \in Seq(Items) /\ Len(queue') = Len(queue) + Len(t)
      /\ \A j \in 1 .. Len(queue) + Len(t) :
            queue'[j] = IF j <= Len(queue) THEN queue[j] ELSE t[j - Len(queue)]
    BY <1>1, <1>2, <1>3, ConcatProperties
<1>7. /\ Len(queue') = Len(queue) + 1
      /\ \A j \in 1 .. Len(queue) : queue'[j] = queue[j]
      /\ queue'[Len(queue) + 1].kind = "failed"
    <2>1. queue'[Len(queue) + 1] = t[1]
        BY <1>2, <1>3, <1>6
    <2>2. Len(queue') = Len(queue) + 1
        BY <1>3, <1>6
    <2>3. \A j \in 1 .. Len(queue) : queue'[j] = queue[j]
        BY <1>2, <1>3, <1>6
    <2> QED
        BY <1>3, <2>1, <2>2, <2>3
<1>8. ASSUME Looping' PROVE LoopOK'
    <2>1. Looping
        BY <1>1, <1>8 DEF Looping
    <2>2. Running
        BY <1>1, <2>1, RunningLoop
    <2>3. /\ turn = Unrecorded /\ Len(Said) <= Len(made) /\ Len(queue) = Len(made) - Len(Said)
          /\ Len(text) = Len(Said)
          /\ \A i \in 1 .. Len(text) : text[i] = made[i]
        BY <2>2 DEF Running
    <2>4. ASSUME NEW j \in 1 .. Len(queue')
          PROVE  /\ Len(Said) + j <= Len(made) =>
                       queue'[j].kind = "chunk" /\ queue'[j].n = made[Len(Said) + j]
                 /\ Len(Said) + j > Len(made) => queue'[j].kind = "failed"
        <3>1. CASE j <= Len(queue)
            <4>1. j \in 1 .. Len(queue)
                BY <1>2, <3>1
            <4>2. /\ Len(Said) + j \in 1 .. Len(made)
                  /\ queue[j].kind = "chunk" /\ queue[j].n = made[Len(Said) + j]
                BY <2>2, <4>1 DEF Running
            <4>3. queue'[j] = queue[j]
                BY <1>7, <4>1
            <4>4. ~(Len(Said) + j > Len(made))
                BY <1>2, <4>2
            <4> QED
                BY <4>2, <4>3, <4>4
        <3>2. CASE j = Len(queue) + 1
            <4>1. ~(Len(Said) + j <= Len(made))
                BY <1>2, <2>3, <3>2
            <4> QED
                BY <1>7, <3>2, <4>1
        <3> QED
            BY <1>2, <1>7, <3>1, <3>2
    <2>5. /\ Len(Said') <= Len(made') /\ Len(queue') = (Len(made') - Len(Said')) + 1
          /\ Len(text') = Len(Said') /\ made' = made /\ text' = text
        BY <1>1, <1>2, <1>7, <2>3
    <2>6. turn' = Unrecorded /\ producer' = "ended" /\ whole' = FALSE
        BY <1>1, <1>2, <2>3
    <2> QED
        BY <2>3, <2>4, <2>5, <2>6 DEF LoopOK
<1>9. QueueOK'
    BY <1>1, <1>2, <1>6, <1>8 DEF QueueOK, Items
<1>10. RecordOK'
    BY <1>1, <1>2 DEF StreamInv, OrderInv, RecordOK
<1>11. TurnOK'
    BY <1>1, <1>2 DEF StreamInv, OrderInv, TurnOK
<1> QED
    BY <1>4, <1>5, <1>9, <1>10, <1>11 DEF OrderInv

\* Before the end only chunks are said, ...
OnlyChunks ==
    \A i \in 1 .. Len(Said) : Said[i].event = "chunk" /\ i <= Len(made) /\ Said[i].n = made[i]

LEMMA SaidChunks ==
    ASSUME StreamInv, ~Ending
    PROVE  OnlyChunks
BY DEF StreamInv, OrderInv, HeardOK, OnlyChunks

\* ... and the queue begins with what comes next.
TakeFacts ==
    /\ LoopOK /\ OnlyChunks
    /\ Len(Said) <= Len(made) /\ Len(queue) > 0
    /\ Len(Said) < Len(made) => Head(queue).kind = "chunk" /\ Head(queue).n = made[Len(Said) + 1]
    /\ Len(Said) = Len(made) =>
          producer = "ended" /\ Head(queue).kind = IF whole THEN "finished" ELSE "failed"

LEMMA TakeNext ==
    ASSUME StreamInv, at = "get", queue # <<>>
    PROVE  TakeFacts
<1>1. Looping /\ ~Ending
    BY DEF Looping, Ending
<1>2. LoopOK /\ OnlyChunks
    BY <1>1, OrderFacts, SaidChunks
<1>3. /\ Len(made) \in Nat /\ Len(queue) \in Nat /\ Len(Said) \in Nat
      /\ Len(queue) > 0 /\ Head(queue) = queue[1]
    BY OrderFacts
<1>4. /\ Len(Said) <= Len(made)
      /\ Len(queue) = (Len(made) - Len(Said)) + (IF producer = "running" THEN 0 ELSE 1)
    BY <1>2 DEF LoopOK
<1>5. 1 \in 1 .. Len(queue)
    BY <1>3
<1>6. /\ Len(Said) + 1 <= Len(made) =>
            queue[1].kind = "chunk" /\ queue[1].n = made[Len(Said) + 1]
      /\ Len(Said) + 1 > Len(made) =>
            queue[1].kind = IF whole THEN "finished" ELSE "failed"
    BY <1>2, <1>5 DEF LoopOK
<1>7. ASSUME Len(Said) = Len(made) PROVE producer = "ended"
    <2>1. producer # "running"
        BY <1>3, <1>4, <1>7
    <2> QED
        BY <1>2, <2>1 DEF LoopOK, StreamInv, OrderInv, MadeOK
<1>8. Len(Said) < Len(made) => Head(queue).kind = "chunk" /\ Head(queue).n = made[Len(Said) + 1]
    BY <1>3, <1>6
<1>9. Len(Said) = Len(made) => Head(queue).kind = IF whole THEN "finished" ELSE "failed"
    BY <1>3, <1>6
<1> QED
    BY <1>2, <1>3, <1>4, <1>7, <1>8, <1>9 DEF TakeFacts

LEMMA TakeChunkOrder ==
    ASSUME StreamInv, TakeChunk, Adds("chunk", Head(queue).n)
    PROVE  OrderInv'
<1>1. /\ at = "get" /\ queue # <<>> /\ Head(queue).kind = "chunk"
      /\ text' = IF Head(queue).n = 0 THEN text ELSE Append(text, Head(queue).n)
      /\ at' = "send" /\ sending'.next = "get" /\ queue' = Tail(queue)
      /\ UNCHANGED <<turn, producer, made, whole>>
    BY DEF TakeChunk, Yield, Rest
<1> DEFINE Items == [kind : {"chunk", "finished", "failed"}, n : Nat]
           c == Len(Said)
<1>2. /\ made \in Seq(Nat) /\ Len(made) \in Nat /\ c \in Nat /\ whole \in BOOLEAN
      /\ queue \in Seq(Items) /\ Len(queue) \in Nat /\ text \in Seq(Nat) /\ Len(text) \in Nat
    BY OrderFacts
<1>3. TakeFacts
    BY <1>1, TakeNext
<1>4. c < Len(made) /\ Head(queue).n = made[c + 1] /\ LoopOK /\ OnlyChunks
    BY <1>1, <1>2, <1>3 DEF TakeFacts
<1> HIDE DEF Items
<1>5. /\ queue' \in Seq(Items) /\ Len(queue') = Len(queue) - 1
      /\ \A j \in 1 .. Len(queue') : queue'[j] = queue[j + 1]
    BY <1>1, <1>2, HeadTailProperties
<1>6. /\ Len(Said') = c + 1
      /\ \A i \in 1 .. c : Said'[i] = Said[i]
      /\ Said'[c + 1].event = "chunk" /\ Said'[c + 1].n = made[c + 1]
    BY <1>4 DEF Adds
<1> HIDE DEF c
<1>7. MadeOK'
    BY <1>1 DEF StreamInv, OrderInv, MadeOK
<1>8. HeardOK'
    <2>1. ASSUME NEW i \in 1 .. Len(Said')
          PROVE  Said'[i].event = "chunk" /\ i <= Len(made) /\ Said'[i].n = made[i]
        <3>1. CASE i <= c
            <4>1. i \in 1 .. c
                BY <1>2, <3>1
            <4>2. Said'[i] = Said[i]
                BY <1>6, <4>1
            <4> QED
                BY <1>4, <4>1, <4>2 DEF OnlyChunks, c
        <3>2. CASE i = c + 1
            BY <1>2, <1>4, <1>6, <3>2
        <3> QED
            BY <1>2, <1>6, <3>1, <3>2
    <2> QED
        BY <1>1, <2>1 DEF HeardOK
<1>9. text' \in Seq(Nat)
    <2>1. c + 1 \in 1 .. Len(made)
        BY <1>2, <1>4
    <2>2. Head(queue).n \in Nat
        BY <1>2, <1>4, <2>1
    <2> QED
        BY <1>1, <1>2, <2>2
<1>10. LoopOK'
    <2>1. /\ producer # "cancelled" /\ turn = Unrecorded
          /\ Len(queue) = (Len(made) - c) + (IF producer = "running" THEN 0 ELSE 1)
          /\ Len(text) = c
          /\ \A i \in 1 .. Len(text) : text[i] = made[i]
        <3>1. Len(text) = c
            BY <1>2, <1>4 DEF LoopOK, c
        <3> QED
            BY <1>4, <3>1 DEF LoopOK, c
    <2>2. ASSUME NEW j \in 1 .. Len(queue')
          PROVE  /\ Len(Said') + j <= Len(made') =>
                       queue'[j].kind = "chunk" /\ queue'[j].n = made'[Len(Said') + j]
                 /\ Len(Said') + j > Len(made') =>
                       queue'[j].kind = IF whole' THEN "finished" ELSE "failed"
        <3>1. j + 1 \in 1 .. Len(queue) /\ j \in Nat
            BY <1>2, <1>5
        <3>2. /\ c + (j + 1) <= Len(made) =>
                    queue[j + 1].kind = "chunk" /\ queue[j + 1].n = made[c + (j + 1)]
              /\ c + (j + 1) > Len(made) =>
                    queue[j + 1].kind = IF whole THEN "finished" ELSE "failed"
            BY <1>4, <3>1 DEF LoopOK, c
        <3>3. queue'[j] = queue[j + 1] /\ Len(Said') + j = c + (j + 1)
            BY <1>2, <1>5, <1>6, <3>1
        <3> QED
            BY <1>1, <3>2, <3>3
    <2>3. /\ Len(queue') = (Len(made) - (c + 1)) + (IF producer = "running" THEN 0 ELSE 1)
          /\ c + 1 <= Len(made)
        BY <1>2, <1>4, <1>5, <2>1
    <2>4. /\ Len(text') = IF whole /\ c + 1 = Len(made) THEN c ELSE c + 1
          /\ \A i \in 1 .. Len(text') : text'[i] = made[i]
        <3>1. /\ c + 1 \in 1 .. Len(made)
              /\ made[c + 1] = IF whole /\ c + 1 = Len(made) THEN 0 ELSE c + 1
            <4>1. c + 1 \in 1 .. Len(made)
                BY <1>2, <1>4
            <4> QED
                BY <4>1 DEF StreamInv, OrderInv, MadeOK
        <3>2. CASE whole /\ c + 1 = Len(made)
            BY <1>1, <1>4, <2>1, <3>1, <3>2
        <3>3. CASE ~(whole /\ c + 1 = Len(made))
            <4>1. text' = Append(text, c + 1) /\ made[c + 1] = c + 1
                BY <1>1, <1>2, <1>4, <3>1, <3>3
            <4>2. /\ Len(text') = c + 1 /\ text'[c + 1] = c + 1
                  /\ \A i \in 1 .. c : text'[i] = text[i]
                BY <1>2, <2>1, <4>1, AppendProperties
            <4>3. \A i \in 1 .. c : text'[i] = made[i]
                BY <2>1, <4>2
            <4>4. \A i \in 1 .. c + 1 : i \in 1 .. c \/ i = c + 1
                BY <1>2
            <4> QED
                BY <3>3, <4>1, <4>2, <4>3, <4>4
        <3> QED
            BY <3>2, <3>3
    <2>5. Len(text') = IF whole /\ Len(Said') = Len(made) THEN Len(Said') - 1 ELSE Len(Said')
        BY <1>2, <1>6, <2>4
    <2> QED
        BY <1>1, <1>6, <2>1, <2>2, <2>3, <2>4, <2>5 DEF LoopOK
<1>11. QueueOK'
    BY <1>5, <1>9, <1>10 DEF QueueOK, Items
<1>12. RecordOK'
    BY <1>1 DEF RecordOK
<1>13. TurnOK'
    BY <1>1 DEF StreamInv, OrderInv, TurnOK
<1> QED
    BY <1>7, <1>8, <1>11, <1>12, <1>13 DEF OrderInv

LEMMA TakeFailedOrder ==
    ASSUME StreamInv, TakeFailed, Adds("error", 0)
    PROVE  OrderInv'
<1>1. /\ at = "get" /\ queue # <<>> /\ Head(queue).kind = "failed"
      /\ at' = "send" /\ sending'.next = "closing" /\ queue' = Tail(queue)
      /\ UNCHANGED <<text, turn, producer, made, whole>>
    BY DEF TakeFailed, Yield, Rest
<1> DEFINE c == Len(Said)
<1>2. /\ Len(made) \in Nat /\ c \in Nat /\ text \in Seq(Nat)
      /\ queue \in Seq([kind : {"chunk", "finished", "failed"}, n : Nat])
    BY OrderFacts
<1>3. TakeFacts
    BY <1>1, TakeNext
<1>4. c = Len(made) /\ producer = "ended" /\ LoopOK /\ OnlyChunks
    BY <1>1, <1>2, <1>3 DEF TakeFacts
<1>5. turn = Unrecorded
    BY <1>4 DEF LoopOK
<1>6. /\ Len(Said') = c + 1 /\ Said'[c + 1].event = "error"
      /\ \A i \in 1 .. c : Said'[i] = Said[i]
    BY DEF Adds
<1> HIDE DEF c
<1>7. Ending' /\ ~Looping' /\ at' \notin {"record", "commit"}
    BY <1>1 DEF Ending, Looping
<1>8. MadeOK'
    BY <1>1 DEF StreamInv, OrderInv, MadeOK
<1>9. HeardOK'
    <2>1. ASSUME NEW i \in 1 .. c
          PROVE  Said'[i].event = "chunk" /\ i <= Len(made) /\ Said'[i].n = made[i]
        BY <1>4, <1>6 DEF OnlyChunks, c
    <2>2. \A i \in 1 .. Len(Said') : i \in 1 .. c \/ i = c + 1
        BY <1>2, <1>6
    <2> QED
        BY <1>1, <1>4, <1>5, <1>6, <1>7, <2>1, <2>2 DEF HeardOK
<1>10. QueueOK'
    <2>1. queue' \in Seq([kind : {"chunk", "finished", "failed"}, n : Nat])
        BY <1>1, <1>2, HeadTailProperties
    <2> QED
        BY <1>1, <1>2, <1>7, <2>1 DEF QueueOK
<1>11. RecordOK'
    BY <1>7 DEF RecordOK
<1>12. TurnOK'
    BY <1>1, <1>5 DEF TurnOK
<1> QED
    BY <1>8, <1>9, <1>10, <1>11, <1>12 DEF OrderInv

\* After the last item the text is the whole reply.
LEMMA TakeFinishedOrder ==
    ASSUME StreamInv, TakeFinished, Said' = Said
    PROVE  OrderInv'
<1>1. /\ at = "get" /\ queue # <<>> /\ Head(queue).kind = "finished"
      /\ at' = "record" /\ queue' = Tail(queue)
      /\ UNCHANGED <<text, sending, turn, producer, made, whole>>
    BY DEF TakeFinished, Rest
<1>2. /\ made \in Seq(Nat) /\ Len(made) \in Nat /\ Len(Said) \in Nat
      /\ text \in Seq(Nat) /\ Len(text) \in Nat /\ whole \in BOOLEAN
      /\ queue \in Seq([kind : {"chunk", "finished", "failed"}, n : Nat])
    BY OrderFacts
<1>3. TakeFacts
    BY <1>1, TakeNext
<1>4. Len(Said) = Len(made) /\ whole /\ LoopOK /\ OnlyChunks
    BY <1>1, <1>2, <1>3 DEF TakeFacts
<1>5. turn = Unrecorded
    BY <1>4 DEF LoopOK
<1>6. ~Looping' /\ ~Ending'
    BY <1>1 DEF Ending, Looping
<1>7. text \o <<0>> = made
    <2>1. Len(text) = Len(made) - 1 /\ \A i \in 1 .. Len(text) : text[i] = made[i]
        BY <1>4 DEF LoopOK
    <2>2. Len(made) \in 1 .. Len(made) /\ made[Len(made)] = 0
        <3>1. Len(made) > 0
            BY <1>4 DEF StreamInv, OrderInv, MadeOK
        <3>2. Len(made) \in 1 .. Len(made)
            BY <1>2, <3>1
        <3> QED
            BY <1>4, <3>2 DEF StreamInv, OrderInv, MadeOK
    <2>3. <<0>> \in Seq(Nat) /\ Len(<<0>>) = 1 /\ <<0>>[1] = 0
        OBVIOUS
    <2> DEFINE z == <<0>>
               m == text \o z
    <2> HIDE DEF z
    <2>4. /\ m \in Seq(Nat) /\ Len(m) = Len(text) + Len(z)
          /\ \A i \in 1 .. Len(text) + Len(z) : m[i] = IF i <= Len(text) THEN text[i] ELSE z[i - Len(text)]
        BY <1>2, <2>3, ConcatProperties DEF z
    <2> HIDE DEF m
    <2>5. Len(m) = Len(made)
        BY <1>2, <2>1, <2>3, <2>4 DEF z
    <2>6. ASSUME NEW i \in 1 .. Len(m) PROVE m[i] = made[i]
        <3>1. CASE i <= Len(text)
            <4>1. i \in 1 .. Len(text) /\ i \in 1 .. Len(text) + Len(z)
                BY <1>2, <2>4, <3>1
            <4> QED
                BY <2>1, <2>4, <3>1, <4>1
        <3>2. CASE ~(i <= Len(text))
            <4>1. i = Len(made) /\ i \in 1 .. Len(text) + Len(z) /\ i - Len(text) = 1
                BY <1>2, <2>1, <2>4, <2>5, <3>2
            <4> QED
                BY <2>2, <2>3, <2>4, <3>2, <4>1 DEF z
        <3> QED
            BY <3>1, <3>2
    <2>7. m = made
        BY <1>2, <2>4, <2>5, <2>6, SeqEqual
    <2> QED
        BY <2>7 DEF m, z
<1>8. MadeOK'
    BY <1>1 DEF StreamInv, OrderInv, MadeOK
<1>9. HeardOK'
    BY <1>1, <1>4 DEF HeardOK, OnlyChunks
<1>10. QueueOK'
    <2>1. queue' \in Seq([kind : {"chunk", "finished", "failed"}, n : Nat])
        BY <1>1, <1>2, HeadTailProperties
    <2> QED
        BY <1>1, <1>2, <1>6, <2>1 DEF QueueOK
<1>11. RecordOK'
    BY <1>1, <1>4, <1>5, <1>7 DEF RecordOK
<1>12. TurnOK'
    BY <1>1, <1>5 DEF TurnOK
<1> QED
    BY <1>8, <1>9, <1>10, <1>11, <1>12 DEF OrderInv

\* What a turn records of a whole reply cannot be taken for "nothing recorded".
LEMMA TextIsNoMark ==
    ASSUME StreamInv, at = "commit"
    PROVE  /\ text # Unrecorded /\ whole /\ turn = Unrecorded /\ producer = "ended"
           /\ Len(Said) = Len(made) /\ text \o <<0>> = made
<1>1. whole /\ turn = Unrecorded /\ Len(Said) = Len(made) /\ text \o <<0>> = made
    BY DEF StreamInv, OrderInv, RecordOK
<1>2. producer = "ended"
    BY <1>1 DEF StreamInv, OrderInv, MadeOK
<1>3. ASSUME text = Unrecorded PROVE FALSE
    <2>1. made = <<0>> \o <<0>>
        BY <1>1, <1>3 DEF Unrecorded
    <2>2. Len(made) = 2 /\ made[1] = 0
        BY <2>1
    <2>3. 1 \in 1 .. Len(made) /\ 1 # Len(made)
        BY <2>2
    <2>4. made[1] = 1
        BY <2>3 DEF StreamInv, OrderInv, MadeOK
    <2> QED
        BY <2>2, <2>4
<1> QED
    BY <1>1, <1>2, <1>3

LEMMA CommitOrder ==
    ASSUME StreamInv, Commit, Adds("done", 0)
    PROVE  OrderInv'
<1>1. /\ at = "commit" /\ turn' = text /\ at' = "send" /\ sending'.next = "closing"
      /\ UNCHANGED <<queue, text, producer, made, whole>>
    BY DEF Commit, Yield, Rest
<1> DEFINE c == Len(Said)
<1>2. /\ Len(made) \in Nat /\ c \in Nat /\ text \in Seq(Nat)
      /\ queue \in Seq([kind : {"chunk", "finished", "failed"}, n : Nat])
    BY OrderFacts
<1>3. /\ text # Unrecorded /\ whole /\ producer = "ended"
      /\ c = Len(made) /\ text \o <<0>> = made
    BY <1>1, TextIsNoMark
<1>4. OnlyChunks
    BY <1>1, SaidChunks DEF Ending
<1>5. /\ Len(Said') = c + 1 /\ Said'[c + 1].event = "done"
      /\ \A i \in 1 .. c : Said'[i] = Said[i]
    BY DEF Adds
<1> HIDE DEF c
<1>6. Ending' /\ ~Looping' /\ at' \notin {"record", "commit"}
    BY <1>1 DEF Ending, Looping
<1>7. MadeOK'
    BY <1>1 DEF StreamInv, OrderInv, MadeOK
<1>8. HeardOK'
    <2>1. ASSUME NEW i \in 1 .. c
          PROVE  Said'[i].event = "chunk" /\ i <= Len(made) /\ Said'[i].n = made[i]
        BY <1>4, <1>5 DEF OnlyChunks, c
    <2>2. \A i \in 1 .. Len(Said') : i \in 1 .. c \/ i = c + 1
        BY <1>2, <1>5
    <2> QED
        BY <1>1, <1>3, <1>5, <1>6, <2>1, <2>2 DEF HeardOK
<1>9. QueueOK'
    BY <1>1, <1>2, <1>6 DEF QueueOK
<1>10. RecordOK'
    BY <1>6 DEF RecordOK
<1>11. TurnOK'
    BY <1>1, <1>3 DEF TurnOK
<1> QED
    BY <1>7, <1>8, <1>9, <1>10, <1>11 DEF OrderInv

\* A commit that was cancelled happened or not; nothing is said of it.
LEMMA CancelOrder ==
    ASSUME StreamInv, Cancel, Shortens
    PROVE  OrderInv'
<1>1. /\ at' = "closing"
      /\ turn' = turn \/ (at = "commit" /\ turn' = text)
      /\ UNCHANGED <<queue, text, producer, made, whole>>
    BY DEF Cancel, Rest
<1>2. /\ Len(made) \in Nat /\ Len(Said) \in Nat /\ text \in Seq(Nat)
      /\ queue \in Seq([kind : {"chunk", "finished", "failed"}, n : Nat])
    BY OrderFacts
<1>3. Ending' /\ ~Looping' /\ at' \notin {"record", "commit"}
    BY <1>1 DEF Ending, Looping
<1>4. MadeOK'
    BY <1>1 DEF StreamInv, OrderInv, MadeOK
<1>5. HeardOK'
    <2> SUFFICES ASSUME NEW i \in 1 .. Len(Said')
                 PROVE  IF Said'[i].event = "chunk" THEN i <= Len(made) /\ Said'[i].n = made[i]
                        ELSE /\ producer # "running"
                             /\ i = Len(Said') /\ i = Len(made) + 1
                             /\ Said'[i].event = IF turn' = Unrecorded THEN "error" ELSE "done"
        BY <1>1, <1>3 DEF HeardOK
    <2>1. i \in 1 .. Len(Said) /\ Said'[i] = Said[i] /\ Len(Said') \in Nat /\ Len(Said') <= Len(Said)
        BY <1>2 DEF Shortens
    <2>2. CASE Said[i].event = "chunk"
        BY <2>1, <2>2 DEF StreamInv, OrderInv, HeardOK
    <2>3. CASE Said[i].event # "chunk"
        <3>1. /\ Ending /\ producer # "running"
              /\ i = Len(Said) /\ i = Len(made) + 1
              /\ Said[i].event = IF turn = Unrecorded THEN "error" ELSE "done"
            BY <2>1, <2>3 DEF StreamInv, OrderInv, HeardOK
        <3>2. turn' = turn
            BY <1>1, <3>1 DEF Ending
        <3>3. i = Len(Said')
            BY <1>2, <2>1, <3>1
        <3> QED
            BY <2>1, <2>3, <3>1, <3>2, <3>3
    <2> QED
        BY <2>2, <2>3
<1>6. QueueOK'
    BY <1>1, <1>2, <1>3 DEF QueueOK
<1>7. RecordOK'
    BY <1>3 DEF RecordOK
<1>8. TurnOK'
    <2>1. CASE turn' = turn
        BY <1>1, <2>1 DEF StreamInv, OrderInv, TurnOK
    <2>2. CASE at = "commit" /\ turn' = text
        BY <1>1, <2>2, TextIsNoMark DEF TurnOK
    <2> QED
        BY <1>1, <2>1, <2>2
<1> QED
    BY <1>4, <1>5, <1>6, <1>7, <1>8 DEF OrderInv

-----------------------------------------------------------------------------
LEMMA StreamInit == Init => StreamInv
<1> SUFFICES ASSUME Init PROVE StreamInv
    OBVIOUS
<1>1. /\ producer = "running" /\ queue = <<>> /\ at = "get" /\ text = <<>> /\ turn = Unrecorded
      /\ wire = <<>> /\ buffer = <<>> /\ read = <<>> /\ made = <<>> /\ whole = FALSE
    BY DEF Init
<1>2. <<>> \o <<>> = <<>> /\ <<>> \in Seq(Byte) /\ <<>> \in Seq(ChatEvent) /\ Len(<<>>) = 0
    BY ConcatEmptySeq, EmptySeq
<1>3. WireOK
    BY <1>1, <1>2, ParseNothing DEF WireOK, Nothing
<1>4. SendingOK
    BY <1>1 DEF SendingOK
<1>5. Said = <<>>
    <2>1. Parse(buffer \o wire).out = <<>>
        BY <1>1, <1>2, ParseNothing DEF Nothing
    <2>2. Sent = <<>>
        BY <1>1, <1>2, <2>1 DEF Sent
    <2>3. Pending = <<>>
        BY <1>1 DEF Pending
    <2> QED
        BY <1>2, <2>2, <2>3 DEF Said
<1>6. MadeOK /\ HeardOK /\ RecordOK /\ TurnOK
    <2>1. made \in Seq(Nat) /\ Len(made) = 0 /\ Len(Said) = 0
        BY <1>1, <1>5
    <2>2. MadeOK
        <3>1. \A i \in 1 .. Len(made) : made[i] = IF whole /\ i = Len(made) THEN 0 ELSE i
            BY <2>1
        <3>2. whole \in BOOLEAN /\ ~whole
            BY <1>1, Zenon
        <3> QED
            BY <1>1, <2>1, <3>1, <3>2 DEF MadeOK
    <2>3. HeardOK
        BY <2>1 DEF HeardOK
    <2>4. RecordOK /\ TurnOK
        BY <1>1 DEF RecordOK, TurnOK
    <2> QED
        BY <2>2, <2>3, <2>4
<1>7. QueueOK
    BY <1>1, <1>2, <1>5 DEF QueueOK, LoopOK
<1> QED
    BY <1>3, <1>4, <1>6, <1>7 DEF StreamInv, ChannelInv, OrderInv

LEMMA StreamStep == StreamInv /\ [Next]_vars => StreamInv'
<1> SUFFICES ASSUME StreamInv, [Next]_vars PROVE StreamInv'
    OBVIOUS
<1>1. ChannelInv
    BY DEF StreamInv
<1>2. SUFFICES ChannelInv' /\ OrderInv'
    BY DEF StreamInv
<1>3. CASE PutChunk
    BY <1>1, <1>3, NothingSaid, PutChunkOrder DEF PutChunk
<1>4. CASE Complete
    BY <1>1, <1>4, NothingSaid, CompleteOrder DEF Complete
<1>5. CASE Fail
    BY <1>1, <1>5, NothingSaid, FailOrder DEF Fail
<1>6. CASE Stop
    <2>1. /\ producer = "cancelled" /\ producer' = "ended"
          /\ UNCHANGED <<queue, at, text, sending, turn, made, whole, wire, page>>
        BY <1>6 DEF Stop
    <2>2. ChannelInv' /\ Said' = Said
        BY <1>1, <2>1, NothingSaid
    <2>3. ~Looping /\ Looping' = Looping /\ Ending' = Ending
        BY <2>1, OrderFacts DEF LoopOK, Looping, Ending
    <2> QED
        BY <2>1, <2>2, <2>3, OrderKept
<1>7. CASE TakeChunk
    <2>1. /\ at = "get" /\ queue # <<>> /\ UNCHANGED <<wire, page>>
          /\ Yield("chunk", Head(queue).n, "get")
        BY <1>7 DEF TakeChunk, Rest
    <2>2. Head(queue).n \in Nat
        <3>1. Head(queue) \in [kind : {"chunk", "finished", "failed"}, n : Nat]
            BY <2>1, OrderFacts, HeadTailProperties
        <3> QED
            BY <3>1
    <2>3. ChannelInv' /\ Adds("chunk", Head(queue).n)
        BY <1>1, <2>1, <2>2, YieldSays DEF EventName
    <2> QED
        BY <1>7, <2>3, TakeChunkOrder
<1>8. CASE TakeFailed
    <2>1. at = "get" /\ UNCHANGED <<wire, page>> /\ Yield("error", 0, "closing")
        BY <1>8 DEF TakeFailed, Rest
    <2>2. ChannelInv' /\ Adds("error", 0)
        BY <1>1, <2>1, YieldSays DEF EventName
    <2> QED
        BY <1>8, <2>2, TakeFailedOrder
<1>9. CASE TakeFinished
    <2>1. at = "get" /\ at' = "record" /\ UNCHANGED <<wire, page>>
        BY <1>9 DEF TakeFinished, Rest
    <2>2. ChannelInv' /\ Said' = Said
        BY <1>1, <2>1, NothingSaid
    <2> QED
        BY <1>9, <2>2, TakeFinishedOrder
<1>10. CASE Timeout
    <2>1. /\ at = "get" /\ UNCHANGED <<wire, page>> /\ Yield("heartbeat", 0, "get")
          /\ UNCHANGED <<queue, text, turn, producer, made, whole>>
        BY <1>10 DEF Timeout, Rest
    <2>2. ChannelInv' /\ Said' = Said
        BY <1>1, <2>1, YieldSays DEF EventName
    <2>3. Looping /\ ~Ending /\ at' = "send"
        BY <2>1 DEF Looping, Ending, Yield
    <2> QED
        BY <2>1, <2>2, <2>3, OrderKept
<1>11. CASE Send
    <2>1. /\ at = "send" /\ at' = sending.next
          /\ UNCHANGED <<queue, text, turn, producer, made, whole>>
        BY <1>11 DEF Send
    <2>2. ChannelInv' /\ Said' = Said
        BY <1>1, <1>11, SendKeeps
    <2>3. sending.next \in {"get", "closing"}
        BY <1>1, <2>1 DEF ChannelInv, SendingOK
    <2>4. (Looping' => Looping) /\ (Ending => Ending') /\ at' \notin {"record", "commit"}
        BY <2>1, <2>3 DEF Looping, Ending
    <2> QED
        BY <2>1, <2>2, <2>4, OrderKept
<1>12. CASE Record \/ CommitFails
    <2>1. /\ at \in {"record", "commit"} /\ at' \in {"commit", "closing"}
          /\ UNCHANGED <<wire, page>>
          /\ UNCHANGED <<queue, text, turn, producer, made, whole>>
        BY <1>12 DEF Record, CommitFails, Rest
    <2>2. ChannelInv' /\ Said' = Said
        BY <1>1, <2>1, NothingSaid
    <2>3. ~Looping' /\ ~Ending
        BY <2>1 DEF Looping, Ending
    <2> QED
        BY <2>1, <2>2, <2>3, OrderKept
<1>13. CASE Commit
    <2>1. at = "commit" /\ UNCHANGED <<wire, page>> /\ Yield("done", 0, "closing")
        BY <1>13 DEF Commit, Rest
    <2>2. ChannelInv' /\ Adds("done", 0)
        BY <1>1, <2>1, YieldSays DEF EventName
    <2> QED
        BY <1>13, <2>2, CommitOrder
<1>14. CASE Cancel
    BY <1>1, <1>14, CancelShortens, CancelOrder
<1>15. CASE Close \/ Gather
    <2>1. /\ at \in {"closing", "gather"} /\ at' \in {"gather", "closed"}
          /\ producer' = producer \/ (producer = "running" /\ producer' = "cancelled")
          /\ UNCHANGED <<wire, page>>
          /\ UNCHANGED <<queue, text, turn, made, whole>>
        BY <1>15 DEF Close, Gather, Rest
    <2>2. ChannelInv' /\ Said' = Said
        BY <1>1, <2>1, NothingSaid
    <2>3. ~Looping' /\ Ending'
        BY <2>1 DEF Looping, Ending
    <2> QED
        BY <2>1, <2>2, <2>3, OrderKept
<1>16. CASE DeleteThread \/ EndOfBody \/ Leave \/ UNCHANGED vars
    <2>1. /\ UNCHANGED <<at, sending>> /\ UNCHANGED <<queue, text, turn, producer, made, whole>>
          /\ UNCHANGED <<wire, buffer, read>>
        BY <1>16 DEF DeleteThread, EndOfBody, Leave, vars, server, page
    <2>2. WireOK' /\ SendingOK'
        BY <1>1, <2>1 DEF ChannelInv, WireOK, SendingOK
    <2>3. Said' = Said
        BY <2>1, Zenon DEF Said, Sent, Pending
    <2>4. Looping' = Looping /\ Ending' = Ending
        BY <2>1 DEF Looping, Ending
    <2> QED
        BY <2>1, <2>2, <2>3, <2>4, OrderKept DEF ChannelInv
<1>17. CASE Read
    <2>1. UNCHANGED <<at, sending>> /\ UNCHANGED <<queue, text, turn, producer, made, whole>>
        BY <1>17 DEF Read, server
    <2>2. ChannelInv' /\ Said' = Said
        BY <1>1, <1>17, ReadKeeps
    <2>3. Looping' = Looping /\ Ending' = Ending
        BY <2>1 DEF Looping, Ending
    <2> QED
        BY <2>1, <2>2, <2>3, OrderKept
<1> QED
    BY <1>3, <1>4, <1>5, <1>6, <1>7, <1>8, <1>9, <1>10, <1>11, <1>12, <1>13, <1>14, <1>15,
       <1>16, <1>17 DEF Next, Produce, Take, Respond

\* What the page has read are the first events that were said.
LEMMA ReadIsSaid ==
    ASSUME StreamInv
    PROVE  /\ DOMAIN read = 1 .. Len(read) /\ Len(read) \in Nat /\ Len(Said) \in Nat
           /\ Len(read) <= Len(Said)
           /\ \A i \in 1 .. Len(read) : Said[i] = read[i]
<1>1. read \in Seq(ChatEvent) /\ Sent \in Seq(ChatEvent) /\ Pending \in Seq(ChatEvent)
    BY SaidTyped DEF StreamInv, ChannelInv, WireOK
<1>2. Parse(buffer \o wire).out \in Seq(ChatEvent)
    <2>1. buffer \o wire \in Seq(Byte)
        BY ConcatProperties DEF StreamInv, ChannelInv, WireOK
    <2> QED
        BY <2>1, ParseRest DEF Parsed
<1>3. PICK p, s, t, u : p = Parse(buffer \o wire).out /\ s = Sent /\ t = Pending /\ u = Said
    OBVIOUS
<1>4. s = read \o p /\ u = s \o t
    BY <1>3, Zenon DEF Sent, Said
<1>5. /\ Len(s) = Len(read) + Len(p) /\ Len(read) \in Nat /\ Len(p) \in Nat
      /\ \A i \in 1 .. Len(read) + Len(p) : s[i] = IF i <= Len(read) THEN read[i] ELSE p[i - Len(read)]
    BY <1>1, <1>2, <1>3, <1>4, ConcatProperties
<1>6. /\ Len(u) = Len(s) + Len(t) /\ Len(s) \in Nat /\ Len(t) \in Nat
      /\ \A i \in 1 .. Len(s) + Len(t) : u[i] = IF i <= Len(s) THEN s[i] ELSE t[i - Len(s)]
    BY <1>1, <1>3, <1>4, ConcatProperties
<1>7. ASSUME NEW i \in 1 .. Len(read) PROVE u[i] = read[i]
    <2>1. s[i] = read[i]
        BY <1>5
    <2>2. i \in 1 .. Len(s) + Len(t) /\ i <= Len(s)
        BY <1>5, <1>6
    <2> QED
        BY <1>6, <2>1, <2>2
<1> QED
    BY <1>1, <1>3, <1>5, <1>6, <1>7

LEMMA ImpliesReadInOrder == StreamInv => ReadInOrder
<1> SUFFICES ASSUME StreamInv, NEW i \in DOMAIN read
             PROVE  IF read[i].event = "chunk" THEN i <= Len(made) /\ read[i].n = made[i]
                    ELSE i = Len(read) /\ i = Len(made) + 1
    BY DEF ReadInOrder
<1>1. /\ i \in 1 .. Len(read) /\ i \in 1 .. Len(Said) /\ Said[i] = read[i]
      /\ Len(read) \in Nat /\ Len(Said) \in Nat /\ Len(read) <= Len(Said)
    BY ReadIsSaid
<1>2. IF Said[i].event = "chunk" THEN i <= Len(made) /\ Said[i].n = made[i]
      ELSE i = Len(Said) /\ i = Len(made) + 1
    BY <1>1 DEF StreamInv, OrderInv, HeardOK
<1>3. i = Len(Said) => i = Len(read)
    BY <1>1
<1> QED
    BY <1>1, <1>2, <1>3

LEMMA ImpliesOutcomeTold == StreamInv => OutcomeTold
<1> SUFFICES ASSUME StreamInv PROVE OutcomeTold
    OBVIOUS
<1>1. turn # Unrecorded => whole /\ turn \o <<0>> = made
    BY DEF StreamInv, OrderInv, TurnOK
<1>2. ASSUME NEW i \in DOMAIN read, read[i].event \in {"done", "error"}
      PROVE  read[i].event = IF turn = Unrecorded THEN "error" ELSE "done"
    <2>1. i \in 1 .. Len(Said) /\ Said[i] = read[i]
        BY ReadIsSaid
    <2> QED
        BY <1>2, <2>1 DEF StreamInv, OrderInv, HeardOK
<1>3. Told("done") => turn # Unrecorded
    BY <1>2 DEF Told
<1>4. Told("error") => turn = Unrecorded
    BY <1>2 DEF Told
<1> QED
    BY <1>1, <1>3, <1>4 DEF OutcomeTold

\* The invariant: what the page has read, what is on its way and what the queue
\* still holds are the reply in its order, however the bytes are cut.
THEOREM StreamInvariant == Spec => []StreamInv
BY StreamInit, StreamStep, PTL DEF Spec

\* The page gets the chunks in order and none twice, then one "done" or "error".
THEOREM ChunksInOrder == Spec => []ReadInOrder
BY StreamInvariant, ImpliesReadInOrder, PTL

\* A recorded turn is the whole reply, and "done" and "error" tell the truth of it.
THEOREM OutcomeHonest == Spec => []OutcomeTold
BY StreamInvariant, ImpliesOutcomeTold, PTL

=============================================================================
